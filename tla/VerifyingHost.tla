---------------------------- MODULE VerifyingHost ----------------------------
(***************************************************************************)
(* A machine on which a client program verifies servers with upki's data   *)
(* while `upki` commands run, files are edited and caches replaced.        *)
(***************************************************************************)
EXTENDS CommandLine, ServerVerifier

ASSUME ActorAssumption == Procs \cap Connections = {}

VARIABLES
    \* History, read by no action:
    saw,     \* saw[p]: what each file and directory was since p started
    held     \* held[x]: what the directory in use by x held since its call began

vars == <<host, runs, proc, self, conn, saw, held>>

Init ==
    /\ SearchInit
    /\ VerifierInit
    /\ saw = [p \in Procs |-> {}]
    /\ held = [x \in Procs \cup Connections |-> {}]

Step ==
    \/ (EditConfig \/ CacheChanges) /\ UNCHANGED <<self, conn>>
    \/ /\ \E p \in Procs : Run(p) \/ SearchStep(p) \/ CommandStep(p)
       /\ UNCHANGED <<self, conn>>
    \/ \E p \in Procs : New(p) \/ NewFinish(p)
    \/ \E k \in Connections, c \in Certs : VerifyServerCert(k, c)
    \/ \E k \in Connections : VerifyStep(k)

\* The files and directories at one moment.
Moment(cf, ca) ==
    {<<f, cf[f]>> : f \in Files}
        \cup {<<d, IF ca[d] = NoDir THEN Absent ELSE d>> : d \in {UserCache, SystemCache}}
Track ==
    /\ saw' = [p \in Procs |->
                 IF proc'[p].pc \in {"idle", "found", "fetching", "open", "check"} THEN {}
                 ELSE saw[p] \cup Moment(conf', cache')]
    /\ held' = [x \in Procs \cup Connections |->
                  IF x \in Procs
                  THEN IF proc'[x].pc \in {"open", "check"}
                       THEN held[x] \cup {cache'[proc'[x].config]} ELSE {}
                  ELSE IF conn[x].pc # "idle"
                       THEN held[x] \cup {cache'[self.config]}
                       ELSE IF conn'[x].pc # "idle" THEN {cache'[self.config]}
                       ELSE held[x]]

Next == Step /\ Track
Spec == Init /\ [][Next]_vars

(***************************************************************************)
(* Properties.                                                             *)
(***************************************************************************)
Results == {"none", "Accepted", "Revoked", "PolicyError", "General", "CertificateError"}
States == Datasets \cup {Missing, NoDir}
ProcRecord ==
    [pc : {"idle", "user", "system", "chosen", "read", "user_cache", "system_cache",
           "found", "fetching", "open", "check"},
     cmd : Commands \cup {"none", "check", "new"},
     in : Policies \cup Certs \cup {Garbage, Absent}, given : BOOLEAN,
     path : Files \cup {"none"}, config : Dirs \cup {"none"},
     from : Files \cup {"default", "none"}, snap : States,
     exit : {"none", "0", "1", "2"}]
ConnRecord ==
    [pc : {"idle", "path", "open", "check"}, cert : Certs, snap : States,
     result : Results]
TypeOK ==
    /\ [conf |-> conf, cache |-> cache] \in Host
    /\ changes \in 0 .. MaxChanges /\ runs \in 0 .. MaxRuns
    /\ proc \in [Procs -> ProcRecord]
    /\ self \in [built : BOOLEAN, policy : Policies, config : Dirs \cup {"none"}]
    /\ conn \in [Connections -> ConnRecord]
    /\ held \in [Procs \cup Connections -> SUBSET States]

\* "The search order is: user-specific files, a system-level file", and then
\* the defaults, the user's directory before the system's.  The search holds no
\* lock; yet nothing is passed over that was there all the time, unless a file
\* that had been found was removed before it was read; and a path that the
\* caller gave is never replaced by another.
SearchedWell(p) ==
    LET gone(x) == <<x, Absent>> \in saw[p]
        was(x) == \E y \in saw[p] : y[1] = x /\ y[2] # Absent
        d == proc'[p].config
        from == proc'[p].from
    IN /\ proc[p].given <=> from = "given"
       /\ from \in Files => <<from, d>> \in saw[p]
       /\ from = "system" => gone("user")
       /\ from = "default" =>
            /\ gone("user")
            /\ gone("system") \/ was("user")
            /\ \/ d = UserCache /\ (was(UserCache) \/ gone(SystemCache))
               \/ d = SystemCache /\ was(SystemCache) /\ gone(UserCache)
ConfigSound ==
    [][\A p \in Procs :
        (proc[p].pc # "found" /\ proc'[p].pc = "found") => SearchedWell(p)]_vars

\* "0 means the certificate is not revoked or no revocation information is
\* available, 1 means an error prevented the revocation check, and 2 means the
\* revocation check completed and the certificate is revoked": and this is what
\* the data in the configured directory says, whatever replaces it meanwhile.
ExitSound ==
    [][\A p \in Procs :
        (proc[p].cmd = "check" /\ proc'[p].exit \in {"0", "2"}) =>
            \E s \in held[p] \cap Datasets :
                proc'[p].exit = "2" <=> /\ proc[p].in.scts = "some"
                                        /\ Says[s][proc[p].in] = "CertainlyRevoked"]_vars

\* Some dataset that was in the configured directory during the call of k says s.
Said(k, s) == \E d \in held[k] \cap Datasets : Says[d][conn[k].cert] = s
Returns(k, r) == conn[k].pc # "idle" /\ conn'[k].pc = "idle" /\ conn'[k].result = r

\* A connection is accepted only on a valid path, and on a status that the data
\* in the directory configured at construction gave during the call, or that
\* the policy allows to be missing; whatever is fetched or edited meanwhile.
AcceptSound ==
    [][\A k \in Connections : Returns(k, "Accepted") =>
        LET c == conn[k].cert
        IN /\ c.path /\ c.name
           /\ \/ /\ c.scts = "none"
                 /\ self.policy.cert_has_no_scts = "Allowed"
              \/ /\ c.scts = "some"
                 /\ \/ Said(k, "NotRevoked")
                    \/ /\ Said(k, "NotCoveredByRevocationData")
                       /\ self.policy.cert_not_covered = "Allowed"]_vars

\* No policy allows certificates without SCTs and refuses those that the data
\* does not cover as revoked.
PoliciesAgree ==
    \A p \in Policies : p.cert_has_no_scts = "Allowed" => p.cert_not_covered # "TreatAsRevoked"

\* A certificate is reported as revoked only if the data said so, or the policy
\* asks for it in the case that the certificate is in: "When a certificate is not
\* covered by the revocation data" or "When a certificate carries no SCTs".
RevokedSound ==
    [][\A k \in Connections : Returns(k, "Revoked") =>
        LET c == conn[k].cert
        IN \/ /\ c.scts = "some"
              /\ \/ Said(k, "CertainlyRevoked")
                 \/ /\ Said(k, "NotCoveredByRevocationData")
                    /\ self.policy.cert_not_covered = "TreatAsRevoked"
           \/ /\ c.scts = "none"
              /\ self.policy.cert_has_no_scts = "TreatAsRevoked"]_vars

\* "When the local upki data is missing ... Allow the connection": with a policy
\* that allows missing data, no call fails for want of data.
MissingDataAllowed ==
    \A k \in Connections :
        (/\ self.built /\ self.policy.missing_data = "Allowed"
         /\ conn[k].pc = "idle" /\ held[k] # {} /\ held[k] \cap Datasets = {})
            => conn[k].result # "General"
===============================================================================
