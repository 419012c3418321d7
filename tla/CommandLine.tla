------------------------------ MODULE CommandLine ------------------------------
(***************************************************************************)
(* The `upki` command (upki-cli/src/bin/upki.rs): one process per command, *)
(* which loads its configuration, does one thing and exits.                *)
(*                                                                         *)
(* What fetch and verify do to a directory is RevocationCache's subject:   *)
(* here a fetch creates the directory and then installs a dataset, or      *)
(* fails at any point, and verify is one look at the directory.            *)
(***************************************************************************)
EXTENDS ConfigSearch

CONSTANT
    Garbage    \* an input from which no RevocationCheckInput can be made

Commands == {"fetch", "fetch --dry-run", "verify", "show-config-path", "show-config"}

\* `upki revocation check` has certificates on its standard input.
Run(p) ==
    \E given \in BOOLEAN :
        \/ \E cmd \in Commands : Search(p, cmd, Absent, given)
        \/ \E c \in Certs \cup {Garbage} : Search(p, "check", c, given)

\* Args::parse answers --help (0) and usage errors (2) by itself, and a log
\* filter in the environment that does not parse is an error: no command is run.
ParseArgs(p) ==
    /\ proc[p].pc = "idle"
    /\ runs < MaxRuns
    /\ runs' = runs + 1
    /\ \E e \in {"0", "1", "2"} : proc' = [proc EXCEPT ![p] = Exit(e)]
    /\ UNCHANGED host

ShowConfigPath(p) ==
    /\ proc[p].pc = "chosen"
    /\ proc[p].cmd = "show-config-path"
    /\ proc' = [proc EXCEPT ![p] = Exit("0")]
    /\ UNCHANGED <<host, runs>>

ShowConfig(p) ==
    /\ proc[p].pc = "found"
    /\ proc[p].cmd = "show-config"
    /\ proc' = [proc EXCEPT ![p] = Exit("0")]
    /\ UNCHANGED <<host, runs>>

\* A dry run and a verification change nothing, whatever they find.
FetchDry(p) ==
    /\ proc[p].pc = "found"
    /\ proc[p].cmd = "fetch --dry-run"
    /\ \E e \in {"0", "1"} : proc' = [proc EXCEPT ![p] = Exit(e)]
    /\ UNCHANGED <<host, runs>>
VerifyCache(p) ==
    /\ proc[p].pc = "found"
    /\ proc[p].cmd = "verify"
    /\ \E e \in IF DirExists(proc[p].config) THEN {"0", "1"} ELSE {"1"} :
         proc' = [proc EXCEPT ![p] = Exit(e)]
    /\ UNCHANGED <<host, runs>>

\* PlanStep::CreateDir, with all its parents ...
FetchCreateDir(p) ==
    /\ proc[p].pc = "found"
    /\ proc[p].cmd = "fetch"
    /\ cache' = [cache EXCEPT ![proc[p].config] = IF @ = NoDir THEN Missing ELSE @]
    /\ proc' = [proc EXCEPT ![p].pc = "fetching"]
    /\ UNCHANGED <<conf, changes, runs>>
\* ... and the rest of the plan; a directory that was removed meanwhile ends it.
FetchInstall(p) ==
    /\ proc[p].pc = "fetching"
    /\ DirExists(proc[p].config)
    /\ \E s \in Datasets : cache' = [cache EXCEPT ![proc[p].config] = s]
    /\ proc' = [proc EXCEPT ![p] = Exit("0")]
    /\ UNCHANGED <<conf, changes, runs>>
FetchFails(p) ==
    /\ \/ proc[p].pc = "found" /\ proc[p].cmd = "fetch"
       \/ proc[p].pc = "fetching"
    /\ proc' = [proc EXCEPT ![p] = Exit("1")]
    /\ UNCHANGED <<host, runs>>

\* The certificates are read and from_certificates takes what it needs; nobody
\* looks at the path or at the name.
ReadInput(p) ==
    /\ proc[p].pc = "found"
    /\ proc[p].cmd = "check"
    /\ proc' = IF proc[p].in = Garbage
               THEN [proc EXCEPT ![p] = Exit("1")]
               ELSE IF proc[p].in.scts = "malformed"
               THEN [proc EXCEPT ![p] = Exit("1")]
               ELSE [proc EXCEPT ![p].pc = "open"]
    /\ UNCHANGED <<host, runs>>

\* Index::from_cache
OpenCache(p) ==
    /\ proc[p].pc = "open"
    /\ proc' = IF Usable(proc[p].config)
               THEN [proc EXCEPT ![p].pc = "check", ![p].snap = cache[proc[p].config]]
               ELSE [proc EXCEPT ![p] = Exit("1")]
    /\ UNCHANGED <<host, runs>>

\* RevocationStatus::to_cli
\* Mutants: a certificate that is not covered is reported as revoked; or with a
\* status of its own.
ToCliStrict(status) == IF status = "NotRevoked" THEN "0" ELSE "2"
ToCliThird(status) ==
    CASE status = "CertainlyRevoked"           -> "2"
      [] status = "NotRevoked"                 -> "0"
      [] status = "NotCoveredByRevocationData" -> "3"
ToCli(status) == IF status = "CertainlyRevoked" THEN "2" ELSE "0"

\* Index::check: without SCTs no filter covers the certificate.  It fails when a
\* filter is missing or does not decode, in a dataset that has been replaced
\* since or in one that was damaged.
Status(d, c) == IF c.scts = "none" THEN "NotCoveredByRevocationData" ELSE Says[d][c]
Check(p) ==
    /\ proc[p].pc = "check"
    /\ \/ proc' = [proc EXCEPT ![p] = Exit(ToCli(Status(proc[p].snap, proc[p].in)))]
       \/ proc' = [proc EXCEPT ![p] = Exit("1")]
    /\ UNCHANGED <<host, runs>>

CommandStep(p) ==
    \/ ParseArgs(p) \/ ShowConfigPath(p) \/ ShowConfig(p)
    \/ FetchDry(p) \/ VerifyCache(p) \/ FetchCreateDir(p) \/ FetchInstall(p) \/ FetchFails(p)
    \/ ReadInput(p) \/ OpenCache(p) \/ Check(p)
===============================================================================
