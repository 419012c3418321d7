-------------------------- MODULE VerifyingHostProofs --------------------------
(***************************************************************************)
(* Proofs about VerifyingHost: for any number of commands, connections,    *)
(* configuration files and cache directories, and any changes from outside *)
(* between two steps, the search finds what it should, and an exit code or *)
(* the outcome of a handshake is what the data in the configured directory *)
(* said at some moment of the call.                                        *)
(***************************************************************************)
EXTENDS VerifyingHost, TLAPS

(***************************************************************************)
(* The inductive invariant.                                                *)
(***************************************************************************)
\* What a command relies on between its steps.
ProcOK(q) ==
    /\ q.pc = "idle" <=> q.cmd = "none"
    /\ q.cmd # "none" => q.exit = "none"
    /\ q.cmd = "new" => q.in \in Policies
    /\ q.cmd = "check" => q.in \in Certs \cup {Garbage}
    /\ q.pc \in {"chosen", "read", "user_cache", "system_cache"} => q.path \in Files
    /\ q.pc \in {"found", "fetching", "open", "check"} => q.config \in Dirs
    /\ q.pc = "fetching" => q.cmd = "fetch"
    /\ q.pc \in {"open", "check"} =>
         q.cmd = "check" /\ q.in \in Certs /\ q.in.scts # "malformed"
    /\ q.pc = "check" => q.snap \in Datasets

\* What a call of verify_server_cert relies on.
ConnOK(c, built) ==
    /\ c.pc # "idle" => built
    /\ c.pc \in {"open", "check"} => c.cert.path /\ c.cert.name /\ c.cert.scts = "some"
    /\ c.pc = "check" => c.snap \in Datasets

HostInv ==
    /\ TypeOK
    /\ \A p \in Procs : ProcOK(proc[p]) /\ (proc[p].pc = "check" => proc[p].snap \in held[p])
    /\ self.built => self.config \in Dirs
    /\ \A k \in Connections :
         ConnOK(conn[k], self.built) /\ (conn[k].pc = "check" => conn[k].snap \in held[k])

(***************************************************************************)
(* What a search has seen so far.                                          *)
(***************************************************************************)
Searching == {"user", "system", "chosen", "read", "user_cache", "system_cache"}
Gone(s, x) == <<x, Absent>> \in s
Was(s, x) == \E y \in s : y[1] = x /\ y[2] # Absent

SearchOK(q, s) ==
    /\ q.pc = "user" => ~q.given
    /\ q.pc = "system" => ~q.given /\ Gone(s, "user")
    /\ q.pc \in {"chosen", "read"} =>
         /\ q.given <=> q.path = "given"
         /\ q.path = "system" => Gone(s, "user")
         /\ q.path = "user" => Was(s, "user") \/ (Gone(s, "user") /\ Gone(s, "system"))
    /\ q.pc \in {"user_cache", "system_cache"} =>
         /\ ~q.given
         /\ Gone(s, "user") /\ (Gone(s, "system") \/ Was(s, "user"))
    /\ q.pc = "system_cache" => Gone(s, UserCache)
SearchInv ==
    \A p \in Procs : proc[p].pc \in Searching =>
        SearchOK(proc[p], saw[p]) /\ Moment(conf, cache) \subseteq saw[p]

-------------------------------------------------------------------------------
\* The parts of the type invariant.
LEMMA HostTypes ==
    ASSUME TypeOK
    PROVE  /\ conf \in [Files -> Named \cup {Absent, Bad}] /\ cache \in [Dirs -> States]
           /\ changes \in 0 .. MaxChanges /\ runs \in 0 .. MaxRuns
           /\ proc \in [Procs -> ProcRecord] /\ conn \in [Connections -> ConnRecord]
           /\ self \in [built : BOOLEAN, policy : Policies, config : Dirs \cup {"none"}]
           /\ held \in [Procs \cup Connections -> SUBSET States]
<1>1. [conf |-> conf, cache |-> cache].conf \in [Files -> Named \cup {Absent, Bad}]
  BY DEF TypeOK, Host
<1>2. [conf |-> conf, cache |-> cache].cache \in [Dirs -> States]
  BY DEF TypeOK, Host, States
<1> QED BY <1>1, <1>2 DEF TypeOK

\* What the actors see is a state of the host.
LEMMA HostTyped ==
    ASSUME conf' \in [Files -> Named \cup {Absent, Bad}], cache' \in [Dirs -> States]
    PROVE  ([conf |-> conf, cache |-> cache] \in Host)'
BY DEF Host, States

\* A process is idle, with the exit code of its last command.
LEMMA ExitTyped ==
    ASSUME NEW e \in {"none", "0", "1", "2"}
    PROVE  /\ Exit(e) \in ProcRecord /\ ProcOK(Exit(e))
           /\ Exit(e).pc = "idle" /\ Exit(e).exit = e /\ Exit(e).cmd = "none"
BY DEF Exit, IdleProc, ProcRecord, ProcOK, States

\* The steps of p itself.
Own(p) == Run(p) \/ SearchStep(p) \/ CommandStep(p) \/ New(p) \/ NewFinish(p)

\* A process changes no other.
LEMMA OthersStay ==
    ASSUME proc \in [Procs -> ProcRecord], NEW p \in Procs, NEW q \in Procs, p # q, Own(q)
    PROVE  proc'[p] = proc[p]
<1>1. CASE Run(q) \/ New(q)
  BY <1>1 DEF Run, New, Search
<1>2. CASE SearchStep(q)
  BY <1>2 DEF SearchStep, ProbeUser, ProbeSystem, ReadConfig, ProbeUserCache,
              ProbeSystemCache, ProbeChosen, Found
<1>3. CASE CommandStep(q)
  BY <1>3 DEF CommandStep, ParseArgs, ShowConfigPath, ShowConfig, FetchDry, VerifyCache,
              FetchCreateDir, FetchInstall, FetchFails, ReadInput, OpenCache, Check
<1>4. CASE NewFinish(q)
  BY <1>4 DEF NewFinish
<1> QED BY <1>1, <1>2, <1>3, <1>4 DEF Own

\* A process changes by its own steps only.
LEMMA ProcMoves ==
    ASSUME TypeOK, [Next]_vars, NEW p \in Procs
    PROVE  proc'[p] = proc[p] \/ Own(p)
<1>1. proc \in [Procs -> ProcRecord]
  BY HostTypes
<1>2. CASE EditConfig \/ CacheChanges \/ UNCHANGED vars
  BY <1>2 DEF EditConfig, CacheChanges, vars
<1>3. CASE \E q \in Procs : Own(q)
  BY <1>1, <1>3, OthersStay
<1>4. CASE \E k \in Connections : VerifyStep(k) \/ \E c \in Certs : VerifyServerCert(k, c)
  BY <1>4 DEF VerifyStep, VerifyServerCert, VerifyPath, OpenIndex, CheckIndex
<1> QED BY <1>2, <1>3, <1>4 DEF Next, Step, Own

\* A new command.
LEMMA SearchStarts ==
    ASSUME TypeOK, NEW p \in Procs, Run(p) \/ New(p)
    PROVE  /\ proc'[p] \in ProcRecord /\ ProcOK(proc'[p])
           /\ proc[p].pc = "idle" /\ proc'[p].pc \in {"user", "chosen"}
           /\ proc'[p].given \in BOOLEAN /\ proc'[p].exit = "none"
           /\ proc'[p].pc = "user" => ~proc'[p].given
           /\ proc'[p].pc = "chosen" => proc'[p].given /\ proc'[p].path = "given"
           /\ UNCHANGED host
<1>0. proc \in [Procs -> ProcRecord]
  BY HostTypes
<1>1. PICK cmd \in Commands \cup {"check", "new"},
           in \in Policies \cup Certs \cup {Garbage, Absent}, given \in BOOLEAN :
        /\ Search(p, cmd, in, given)
        /\ \/ cmd \in Commands /\ in = Absent
           \/ cmd = "check" /\ in \in Certs \cup {Garbage}
           \/ cmd = "new" /\ in \in Policies
  BY DEF Run, New
<1>2. /\ proc[p].pc = "idle" /\ UNCHANGED host
      /\ proc'[p] = [IdleProc EXCEPT
                  !.pc = IF given THEN "chosen" ELSE "user",
                  !.path = IF given THEN "given" ELSE "none",
                  !.cmd = cmd, !.in = in, !.given = given]
  BY <1>0, <1>1 DEF Search
<1>3. /\ proc'[p].pc = (IF given THEN "chosen" ELSE "user")
      /\ proc'[p].path = (IF given THEN "given" ELSE "none")
      /\ proc'[p].cmd = cmd /\ proc'[p].in = in /\ proc'[p].given = given
      /\ proc'[p].exit = "none"
  BY <1>2 DEF IdleProc
<1>4. proc'[p] \in ProcRecord
  BY <1>1, <1>2 DEF IdleProc, ProcRecord, States, Files, Commands
<1>5. ProcOK(proc'[p])
  BY <1>1, <1>3 DEF ProcOK, Commands, Files
<1> QED BY <1>1, <1>2, <1>3, <1>4, <1>5

\* The steps of ConfigPath::new and Config::from_file_or_user_default.
LEMMA SearchMoves ==
    ASSUME HostInv, NEW p \in Procs, SearchStep(p)
    PROVE  /\ proc'[p] \in ProcRecord /\ ProcOK(proc'[p])
           /\ proc[p].pc \in Searching /\ UNCHANGED host
           /\ proc'[p].pc \in Searching \cup {"found", "idle"}
           /\ proc'[p].pc = "idle" => proc'[p].exit = "1"
           /\ proc'[p].pc # "idle" => proc'[p].exit = "none"
<1> DEFINE q == proc[p]
<1>0. /\ proc \in [Procs -> ProcRecord] /\ q \in ProcRecord /\ ProcOK(q)
      /\ conf \in [Files -> Named \cup {Absent, Bad}]
      /\ Exit("1") \in ProcRecord /\ ProcOK(Exit("1"))
      /\ Exit("1").pc = "idle" /\ Exit("1").exit = "1"
  BY HostTypes, ExitTyped DEF HostInv
<1>1. UNCHANGED host
  BY DEF SearchStep, ProbeUser, ProbeSystem, ReadConfig, ProbeUserCache, ProbeSystemCache,
         ProbeChosen
<1>2. ASSUME NEW t \in Searching, q.pc \in Searching, proc'[p] = [q EXCEPT !.pc = t],
             t \in {"chosen", "read", "user_cache", "system_cache"} => q.path \in Files
      PROVE  /\ proc'[p] \in ProcRecord /\ ProcOK(proc'[p]) /\ proc'[p].pc \in Searching
             /\ proc'[p].exit = "none"
  BY <1>0, <1>2 DEF ProcRecord, ProcOK, Searching
<1>3. ASSUME NEW f \in Files, q.pc \in Searching,
             proc'[p] = [q EXCEPT !.pc = "chosen", !.path = f]
      PROVE  /\ proc'[p] \in ProcRecord /\ ProcOK(proc'[p]) /\ proc'[p].pc \in Searching
             /\ proc'[p].exit = "none"
  <2>1. proc'[p] \in ProcRecord
    <3>1. q \in ProcRecord
      BY <1>0
    <3> QED BY <1>3, <3>1 DEF ProcRecord
  <2>2. /\ proc'[p].pc = "chosen" /\ proc'[p].path = f /\ proc'[p].cmd = q.cmd
        /\ proc'[p].in = q.in /\ proc'[p].exit = q.exit
    BY <1>0, <1>3 DEF ProcRecord
  <2> QED BY <1>0, <1>3, <2>1, <2>2 DEF ProcOK, Searching
<1>4. ASSUME NEW d \in Dirs, NEW f \in Files \cup {"default"}, q.pc \in Searching,
             proc' = Found(p, d, f)
      PROVE  /\ proc'[p] \in ProcRecord /\ ProcOK(proc'[p]) /\ proc'[p].pc = "found"
             /\ proc'[p].exit = "none"
  <2>1. proc'[p] = [q EXCEPT !.pc = "found", !.config = d, !.from = f]
    BY <1>0, <1>4 DEF Found
  <2>2. proc'[p] \in ProcRecord
    BY <1>0, <1>4, <2>1 DEF ProcRecord
  <2>3. /\ proc'[p].pc = "found" /\ proc'[p].config = d /\ proc'[p].cmd = q.cmd
        /\ proc'[p].in = q.in /\ proc'[p].exit = q.exit
    BY <1>0, <2>1 DEF ProcRecord
  <2> QED BY <1>0, <1>4, <2>2, <2>3 DEF ProcOK, Searching
<1>5. CASE ProbeUser(p)
  <2>1. CASE proc' = [proc EXCEPT ![p] = Exit("1")]
    BY <1>0, <1>1, <1>5, <2>1 DEF ProbeUser, Searching
  <2>2. CASE proc' = [proc EXCEPT ![p].pc = "chosen", ![p].path = "user"]
    BY <1>0, <1>1, <1>3, <1>5, <2>2 DEF ProbeUser, Searching, Files
  <2>3. CASE proc' = [proc EXCEPT ![p].pc = "system"]
    BY <1>0, <1>1, <1>2, <1>5, <2>3 DEF ProbeUser, Searching
  <2> QED BY <1>5, <2>1, <2>2, <2>3 DEF ProbeUser
<1>6. CASE ProbeSystem(p)
  BY <1>0, <1>1, <1>3, <1>6 DEF ProbeSystem, Searching, Files
<1>7. CASE ProbeChosen(p)
  BY <1>0, <1>1, <1>2, <1>7 DEF ProbeChosen, Searching, ProcOK
<1>8. CASE ReadConfig(p)
  <2>1. q.pc = "read" /\ q.path \in Files
    BY <1>0, <1>8 DEF ReadConfig, ProcOK
  <2>2. CASE proc' = [proc EXCEPT ![p] = Exit("1")]
    BY <1>0, <1>1, <2>1, <2>2 DEF Searching
  <2>3. CASE conf[q.path] \notin {Absent, Bad} /\ proc' = Found(p, conf[q.path], q.path)
    <3>1. conf[q.path] \in Dirs
      BY <1>0, <2>1, <2>3, HostAssumption
    <3> QED BY <1>1, <1>4, <2>1, <2>3, <3>1 DEF Searching
  <2> QED BY <1>8, <2>2, <2>3 DEF ReadConfig
<1>9. CASE ProbeUserCache(p)
  <2>1. q.pc = "user_cache"
    BY <1>9 DEF ProbeUserCache
  <2>2. CASE proc' = Found(p, UserCache, "default")
    BY <1>1, <1>4, <2>1, <2>2, HostAssumption DEF Searching
  <2>3. CASE proc' = [proc EXCEPT ![p].pc = "system_cache"]
    BY <1>0, <1>1, <1>2, <2>1, <2>3 DEF Searching, ProcOK
  <2> QED BY <1>9, <2>2, <2>3 DEF ProbeUserCache
<1>10. CASE ProbeSystemCache(p)
  BY <1>1, <1>4, <1>10, HostAssumption DEF ProbeSystemCache, Searching
<1> QED BY <1>5, <1>6, <1>7, <1>8, <1>9, <1>10 DEF SearchStep

\* The rest of a command.
LEMMA CommandMoves ==
    ASSUME HostInv, NEW p \in Procs, CommandStep(p) \/ NewFinish(p)
    PROVE  /\ proc'[p] \in ProcRecord /\ ProcOK(proc'[p])
           /\ proc'[p].pc \in {"idle", "fetching", "open", "check"}
           /\ proc'[p].pc # "idle" => proc'[p].exit = "none"
           /\ proc'[p].pc = "check" => proc'[p].snap = cache[proc'[p].config] /\ cache' = cache
<1> DEFINE q == proc[p]
<1>0. /\ proc \in [Procs -> ProcRecord] /\ q \in ProcRecord /\ ProcOK(q)
      /\ cache \in [Dirs -> States]
  BY HostTypes DEF HostInv
<1>1. ASSUME NEW e \in {"0", "1", "2"}, proc' = [proc EXCEPT ![p] = Exit(e)]
      PROVE  proc'[p] \in ProcRecord /\ ProcOK(proc'[p]) /\ proc'[p].pc = "idle"
  <2>1. proc'[p] = Exit(e)
    BY <1>0, <1>1
  <2> QED BY <2>1, ExitTyped
<1>2. CASE \/ ParseArgs(p) \/ ShowConfigPath(p) \/ ShowConfig(p) \/ FetchDry(p)
           \/ VerifyCache(p) \/ FetchInstall(p) \/ FetchFails(p) \/ NewFinish(p)
  <2>1. \E e \in {"0", "1", "2"} : proc' = [proc EXCEPT ![p] = Exit(e)]
    BY <1>2 DEF ParseArgs, ShowConfigPath, ShowConfig, FetchDry, VerifyCache, FetchInstall, FetchFails,
                NewFinish
  <2> QED BY <1>1, <2>1
<1>3. CASE FetchCreateDir(p)
  <2>1. proc'[p] = [q EXCEPT !.pc = "fetching"] /\ q.pc = "found" /\ q.cmd = "fetch"
    BY <1>0, <1>3 DEF FetchCreateDir
  <2> QED BY <1>0, <2>1 DEF ProcRecord, ProcOK
<1>4. CASE ReadInput(p)
  <2>1. q.pc = "found" /\ q.cmd = "check" /\ q.in \in Certs \cup {Garbage}
    BY <1>0, <1>4 DEF ReadInput, ProcOK
  <2>2. CASE proc' = [proc EXCEPT ![p] = Exit("1")]
    BY <1>1, <2>2
  <2>3. CASE /\ q.in # Garbage /\ q.in.scts # "malformed"
             /\ proc' = [proc EXCEPT ![p].pc = "open"]
    <3>1. proc'[p] = [q EXCEPT !.pc = "open"]
      BY <1>0, <2>3
    <3> QED BY <1>0, <2>1, <2>3, <3>1 DEF ProcRecord, ProcOK
  <2> QED BY <1>4, <2>2, <2>3 DEF ReadInput
<1>5. CASE OpenCache(p)
  <2>1. CASE proc' = [proc EXCEPT ![p] = Exit("1")]
    BY <1>1, <2>1
  <2>2. CASE /\ Usable(q.config)
             /\ proc' = [proc EXCEPT ![p].pc = "check", ![p].snap = cache[q.config]]
    <3>1. /\ proc'[p] = [q EXCEPT !.pc = "check", !.snap = cache[q.config]]
          /\ q.pc = "open" /\ cache' = cache
      BY <1>0, <1>5, <2>2 DEF OpenCache, host
    <3>2. cache[q.config] \in Datasets
      BY <2>2 DEF Usable
    <3> QED BY <1>0, <3>1, <3>2 DEF ProcRecord, ProcOK, States
  <2> QED BY <1>5, <2>1, <2>2 DEF OpenCache
<1>6. CASE Check(p)
  <2>1. \E e \in {"0", "1", "2"} : proc' = [proc EXCEPT ![p] = Exit(e)]
    BY <1>6 DEF Check, ToCli
  <2> QED BY <1>1, <2>1
<1> QED BY <1>2, <1>3, <1>4, <1>5, <1>6 DEF CommandStep

\* The match at the end of verify_server_cert.
LEMMA ConcludeEffect ==
    ASSUME TypeOK, NEW k \in Connections,
           NEW s \in RevocationStatus \cup {"CertificateError", "General", "Revoked",
                                            "PolicyError"},
           Conclude(k, s)
    PROVE  /\ conn'[k] \in ConnRecord /\ conn'[k].pc = "idle"
           /\ \A j \in Connections \ {k} : conn'[j] = conn[j]
           /\ conn'[k].result = "Accepted" =>
                \/ s = "NotRevoked"
                \/ s = "NotCoveredByRevocationData" /\ self.policy.cert_not_covered = "Allowed"
           /\ conn'[k].result = "Revoked" =>
                \/ s \in {"CertainlyRevoked", "Revoked"}
                \/ /\ s = "NotCoveredByRevocationData"
                   /\ self.policy.cert_not_covered = "TreatAsRevoked"
<1> DEFINE o == self.policy.cert_not_covered
           r == CASE s = "NotRevoked" -> "Accepted"
                  [] s = "NotCoveredByRevocationData" ->
                       IF AsResult(o) = "NotCoveredByRevocationData"
                       THEN "Accepted" ELSE AsResult(o)
                  [] s = "CertainlyRevoked" -> "Revoked"
                  [] OTHER -> s
<1>0. conn \in [Connections -> ConnRecord] /\ o \in Outcome
  BY HostTypes, PolicyAssumption DEF Policy
<1>1. conn' = [conn EXCEPT ![k] = [IdleConn EXCEPT !.result = r]]
  BY DEF Conclude
<1>2. conn'[k] = [IdleConn EXCEPT !.result = r]
  BY <1>0, <1>1
<1>3. /\ r \in Results
      /\ r = "Accepted" => s = "NotRevoked" \/ (s = "NotCoveredByRevocationData" /\ o = "Allowed")
      /\ r = "Revoked" => \/ s \in {"CertainlyRevoked", "Revoked"}
                          \/ s = "NotCoveredByRevocationData" /\ o = "TreatAsRevoked"
  <2>1. \/ o = "Allowed" /\ AsResult(o) = "NotCoveredByRevocationData"
        \/ o = "TreatAsRevoked" /\ AsResult(o) = "Revoked"
        \/ o = "Error" /\ AsResult(o) = "PolicyError"
    BY <1>0 DEF Outcome, AsResult
  <2> QED BY <2>1 DEF RevocationStatus, Results
<1> HIDE DEF r
<1>4. IdleConn \in ConnRecord
  BY DataAssumption DEF IdleConn, ConnRecord, States, Results
<1>5. /\ conn'[k] \in ConnRecord /\ conn'[k].pc = "idle" /\ conn'[k].result = r
  <2>1. IdleConn.pc = "idle"
    BY DEF IdleConn
  <2> QED BY <1>2, <1>3, <1>4, <2>1 DEF ConnRecord
<1>6. \A j \in Connections \ {k} : conn'[j] = conn[j]
  BY <1>0, <1>1
<1> QED BY <1>3, <1>5, <1>6

\* Which calls a step moves, and how.
ConnMove(k) ==
    \/ conn'[k] = conn[k]
    \/ conn[k].pc = "idle" /\ self.built /\ conn'[k].pc = "path" /\ conn'[k] \in ConnRecord
    \/ conn[k].pc = "path" /\ VerifyPath(k)
    \/ conn[k].pc = "open" /\ OpenIndex(k)
    \/ conn[k].pc = "check" /\ CheckIndex(k)

\* A connection changes by its own steps only.
LEMMA ConnMoves ==
    ASSUME HostInv, [Next]_vars, NEW k \in Connections
    PROVE  ConnMove(k)
<1>0. /\ conn \in [Connections -> ConnRecord] /\ TypeOK
      /\ self \in [built : BOOLEAN, policy : Policies, config : Dirs \cup {"none"}]
      /\ self.policy.cert_has_no_scts \in Outcome
  <2>1. TypeOK
    BY DEF HostInv
  <2>2. self.policy \in Policy
    BY <2>1, HostTypes, PolicyAssumption
  <2> QED BY <2>1, <2>2, HostTypes DEF Policy
<1>1. CASE UNCHANGED conn
  BY <1>1 DEF ConnMove
<1>2. ASSUME NEW j \in Connections, NEW c \in Certs, VerifyServerCert(j, c)
      PROVE  ConnMove(k)
  <2>1. /\ conn' = [conn EXCEPT ![j] = [IdleConn EXCEPT !.pc = "path", !.cert = c]]
        /\ self.built /\ conn[j].pc = "idle"
    BY <1>2 DEF VerifyServerCert
  <2>2. j = k => conn'[k].pc = "path" /\ conn'[k] \in ConnRecord
    BY <1>0, <2>1 DEF IdleConn, ConnRecord, States, Results
  <2>3. j # k => conn'[k] = conn[k]
    BY <1>0, <2>1
  <2> QED BY <2>1, <2>2, <2>3 DEF ConnMove
<1>3. ASSUME NEW j \in Connections, j # k, VerifyStep(j)
      PROVE  conn'[k] = conn[k]
  <2>1. CASE \E t \in {"open"} : conn' = [conn EXCEPT ![j].pc = t]
    BY <1>0, <1>3, <2>1
  <2>2. CASE \E s : conn' = [conn EXCEPT ![j].pc = "check", ![j].snap = s]
    BY <1>0, <1>3, <2>2
  <2>3. ASSUME NEW s, Conclude(j, s)
        PROVE  conn'[k] = conn[k]
    BY <1>0, <1>3, <2>3 DEF Conclude
  <2>4. \/ \E t \in {"open"} : conn' = [conn EXCEPT ![j].pc = t]
        \/ \E s : conn' = [conn EXCEPT ![j].pc = "check", ![j].snap = s]
        \/ \E s : Conclude(j, s)
    BY <1>3 DEF VerifyStep, VerifyPath, OpenIndex, CheckIndex
  <2> QED BY <2>1, <2>2, <2>3, <2>4
<1>4. VerifyStep(k) => ConnMove(k)
  BY DEF VerifyStep, VerifyPath, OpenIndex, CheckIndex, ConnMove
<1>5. UNCHANGED conn \/ (\E j \in Connections, c \in Certs : VerifyServerCert(j, c))
        \/ (\E j \in Connections : VerifyStep(j))
  BY DEF Next, Step, vars, New, NewFinish
<1> QED BY <1>1, <1>2, <1>3, <1>4, <1>5 DEF ConnMove

\* A call stays well typed, and keeps what it has established.
LEMMA ConnStep ==
    ASSUME HostInv, [Next]_vars, NEW k \in Connections
    PROVE  /\ conn'[k] \in ConnRecord /\ ConnOK(conn'[k], self.built)
           /\ conn'[k].pc = "check" =>
                \/ conn'[k] = conn[k]
                \/ conn[k].pc = "open" /\ conn'[k].snap = cache[self.config] /\ cache' = cache
<1> DEFINE c == conn[k]
<1>0. /\ TypeOK /\ conn \in [Connections -> ConnRecord] /\ c \in ConnRecord
      /\ ConnOK(c, self.built) /\ self.policy.cert_has_no_scts \in Outcome
  <2>1. TypeOK
    BY DEF HostInv
  <2>2. self.policy \in Policy
    BY <2>1, HostTypes, PolicyAssumption
  <2> QED BY <2>1, <2>2, HostTypes DEF HostInv, Policy
<1>1. ASSUME NEW s \in RevocationStatus \cup {"CertificateError", "General", "Revoked",
                                              "PolicyError"},
             Conclude(k, s)
      PROVE  conn'[k] \in ConnRecord /\ ConnOK(conn'[k], self.built) /\ conn'[k].pc = "idle"
  BY <1>0, <1>1, ConcludeEffect DEF ConnOK
<1>2. CASE conn'[k] = conn[k]
  BY <1>0, <1>2
<1>3. CASE c.pc = "idle" /\ self.built /\ conn'[k].pc = "path" /\ conn'[k] \in ConnRecord
  BY <1>3 DEF ConnOK
<1>4. CASE c.pc = "path" /\ VerifyPath(k)
  <2>1. CASE /\ c.cert.path /\ c.cert.name /\ c.cert.scts = "some"
             /\ conn' = [conn EXCEPT ![k].pc = "open"]
    <3>1. conn'[k] = [c EXCEPT !.pc = "open"]
      BY <1>0, <2>1
    <3> QED BY <1>0, <1>4, <2>1, <3>1 DEF ConnRecord, ConnOK
  <2>2. CASE Conclude(k, "CertificateError")
    BY <1>1, <2>2
  <2>3. CASE Conclude(k, AsResult(self.policy.cert_has_no_scts))
    <3>1. AsResult(self.policy.cert_has_no_scts)
            \in {"NotCoveredByRevocationData", "Revoked", "PolicyError"}
      BY <1>0 DEF Outcome, AsResult
    <3> QED BY <1>1, <2>3, <3>1 DEF RevocationStatus
  <2> QED BY <1>4, <2>1, <2>2, <2>3 DEF VerifyPath
<1>5. CASE c.pc = "open" /\ OpenIndex(k)
  <2>1. CASE /\ Usable(self.config)
             /\ conn' = [conn EXCEPT ![k].pc = "check", ![k].snap = cache[self.config]]
    <3>1. conn'[k] = [c EXCEPT !.pc = "check", !.snap = cache[self.config]] /\ cache' = cache
      BY <1>0, <1>5, <2>1 DEF OpenIndex, host
    <3>2. cache[self.config] \in Datasets
      BY <2>1 DEF Usable
    <3>3. /\ conn'[k] \in ConnRecord /\ conn'[k].pc = "check" /\ conn'[k].cert = c.cert
          /\ conn'[k].snap = cache[self.config]
      BY <1>0, <3>1, <3>2 DEF ConnRecord, States
    <3> QED BY <1>0, <1>5, <3>1, <3>2, <3>3 DEF ConnOK
  <2>2. CASE Conclude(k, "General")
    BY <1>1, <2>2
  <2> QED BY <1>5, <2>1, <2>2 DEF OpenIndex
<1>6. CASE c.pc = "check" /\ CheckIndex(k)
  <2>1. Says[c.snap][c.cert] \in RevocationStatus
    BY <1>0, <1>6, DataAssumption DEF ConnOK, ConnRecord
  <2> QED BY <1>1, <1>6, <2>1 DEF CheckIndex
<1> QED BY <1>2, <1>3, <1>4, <1>5, <1>6, ConnMoves DEF ConnMove

\* The files and directories stay what they may be.
LEMMA HostStep ==
    ASSUME HostInv, [Next]_vars
    PROVE  /\ conf' \in [Files -> Named \cup {Absent, Bad}] /\ cache' \in [Dirs -> States]
           /\ changes' \in 0 .. MaxChanges /\ runs' \in 0 .. MaxRuns
<1>0. /\ TypeOK
      /\ conf \in [Files -> Named \cup {Absent, Bad}] /\ cache \in [Dirs -> States]
      /\ changes \in 0 .. MaxChanges /\ runs \in 0 .. MaxRuns
      /\ MaxChanges \in Nat /\ MaxRuns \in Nat
      /\ \A p \in Procs : proc[p].pc \in {"found", "fetching"} => proc[p].config \in Dirs
  BY HostTypes, HostAssumption DEF HostInv, ProcOK
<1>1. CASE UNCHANGED <<host, runs>>
  BY <1>0, <1>1 DEF host
<1>2. CASE EditConfig
  BY <1>0, <1>2 DEF EditConfig
<1>3. CASE CacheChanges
  BY <1>0, <1>3 DEF CacheChanges, States
<1>4. ASSUME NEW p \in Procs, Run(p) \/ New(p) \/ ParseArgs(p)
      PROVE  UNCHANGED host /\ runs' = runs + 1 /\ runs < MaxRuns
  BY <1>4 DEF Run, New, Search, ParseArgs
<1>5. ASSUME NEW p \in Procs, FetchCreateDir(p) \/ FetchInstall(p)
      PROVE  UNCHANGED <<conf, changes, runs>> /\ cache' \in [Dirs -> States]
  <2>1. proc[p].config \in Dirs
    BY <1>0, <1>5 DEF FetchCreateDir, FetchInstall
  <2> QED BY <1>0, <1>5, <2>1 DEF FetchCreateDir, FetchInstall, States
<1>6. \/ UNCHANGED <<host, runs>> \/ EditConfig \/ CacheChanges
      \/ \E p \in Procs : \/ Run(p) \/ New(p) \/ ParseArgs(p)
                          \/ FetchCreateDir(p) \/ FetchInstall(p)
  <2>1. ASSUME NEW p \in Procs, SearchStep(p) PROVE UNCHANGED <<host, runs>>
    BY <2>1 DEF SearchStep, ProbeUser, ProbeSystem, ReadConfig, ProbeUserCache,
                ProbeSystemCache, ProbeChosen
  <2>2. ASSUME NEW p \in Procs, CommandStep(p) \/ NewFinish(p)
        PROVE  UNCHANGED <<host, runs>> \/ ParseArgs(p) \/ FetchCreateDir(p) \/ FetchInstall(p)
    BY <2>2 DEF CommandStep, ShowConfigPath, ShowConfig, FetchDry, VerifyCache, FetchFails,
                ReadInput, OpenCache, Check, NewFinish
  <2>3. ASSUME NEW k \in Connections, VerifyStep(k) \/ \E c \in Certs : VerifyServerCert(k, c)
        PROVE  UNCHANGED <<host, runs>>
    BY <2>3 DEF VerifyStep, VerifyPath, OpenIndex, CheckIndex, VerifyServerCert
  <2>4. UNCHANGED vars => UNCHANGED <<host, runs>>
    BY DEF vars
  <2> QED BY <2>1, <2>2, <2>3, <2>4 DEF Next, Step
<1>7. ASSUME NEW p \in Procs, Run(p) \/ New(p) \/ ParseArgs(p)
      PROVE  UNCHANGED <<conf, cache, changes>> /\ runs' \in 0 .. MaxRuns
  BY <1>0, <1>4, <1>7 DEF host
<1> QED BY <1>0, <1>1, <1>2, <1>3, <1>5, <1>6, <1>7

\* A verifier is built once.
LEMMA SelfStep ==
    ASSUME HostInv, [Next]_vars
    PROVE  /\ self' \in [built : BOOLEAN, policy : Policies, config : Dirs \cup {"none"}]
           /\ self'.built => self'.config \in Dirs
           /\ self.built => self'.built
<1>0. /\ self \in [built : BOOLEAN, policy : Policies, config : Dirs \cup {"none"}]
      /\ self.built => self.config \in Dirs
      /\ \A p \in Procs : ProcOK(proc[p])
  BY HostTypes DEF HostInv
<1>1. CASE UNCHANGED self
  BY <1>0, <1>1
<1>2. ASSUME NEW p \in Procs, NewFinish(p), self' # self
      PROVE  /\ self' = [built |-> TRUE, policy |-> proc[p].in, config |-> proc[p].config]
             /\ proc[p].in \in Policies /\ proc[p].config \in Dirs
  BY <1>0, <1>2 DEF NewFinish, ProcOK
<1>3. UNCHANGED self \/ \E p \in Procs : NewFinish(p)
  BY DEF Next, Step, vars, New, VerifyServerCert, VerifyStep, VerifyPath, OpenIndex, CheckIndex
<1>4. CASE self' # self
  <2>1. PICK p \in Procs : NewFinish(p)
    BY <1>3, <1>4
  <2>2. /\ self' = [built |-> TRUE, policy |-> proc[p].in, config |-> proc[p].config]
        /\ proc[p].in \in Policies /\ proc[p].config \in Dirs
    BY <1>2, <1>4, <2>1
  <2> QED BY <2>2
<1> QED BY <1>1, <1>4

\* What the history variables record.
LEMMA TrackEffect ==
    ASSUME Track
    PROVE  /\ \A p \in Procs :
                /\ saw'[p] = IF proc'[p].pc \in {"idle", "found", "fetching", "open", "check"}
                             THEN {} ELSE saw[p] \cup Moment(conf', cache')
                /\ held'[p] = IF proc'[p].pc \in {"open", "check"}
                              THEN held[p] \cup {cache'[proc'[p].config]} ELSE {}
           /\ \A k \in Connections :
                held'[k] = IF conn[k].pc # "idle" THEN held[k] \cup {cache'[self.config]}
                           ELSE IF conn'[k].pc # "idle" THEN {cache'[self.config]}
                           ELSE held[k]
           /\ held' = [x \in Procs \cup Connections |-> held'[x]]
BY ActorAssumption DEF Track

\* A step changes entries of the two functions, never their domains.
LEMMA ProcShape ==
    ASSUME [Next]_vars, proc \in [Procs -> ProcRecord]
    PROVE  proc' = [p \in Procs |-> proc'[p]]
<1>1. CASE UNCHANGED proc
  BY <1>1
<1>2. ASSUME NEW q \in Procs, Run(q) \/ New(q)
      PROVE  proc' = [p \in Procs |-> proc'[p]]
  BY <1>2 DEF Run, New, Search
<1>3. ASSUME NEW q \in Procs, SearchStep(q)
      PROVE  proc' = [p \in Procs |-> proc'[p]]
  BY <1>3 DEF SearchStep, ProbeUser, ProbeSystem, ReadConfig, ProbeUserCache,
              ProbeSystemCache, ProbeChosen, Found
<1>4. ASSUME NEW q \in Procs, CommandStep(q) \/ NewFinish(q)
      PROVE  proc' = [p \in Procs |-> proc'[p]]
  BY <1>4 DEF CommandStep, ParseArgs, ShowConfigPath, ShowConfig, FetchDry, VerifyCache, FetchCreateDir,
              FetchInstall, FetchFails, ReadInput, OpenCache, Check, NewFinish
<1>5. UNCHANGED proc \/ \E q \in Procs : Own(q)
  BY DEF Next, Step, vars, Own, EditConfig, CacheChanges, VerifyServerCert, VerifyStep,
         VerifyPath, OpenIndex, CheckIndex
<1> QED BY <1>1, <1>2, <1>3, <1>4, <1>5 DEF Own

\* The connections stay a function.
LEMMA ConnShape ==
    ASSUME [Next]_vars, conn \in [Connections -> ConnRecord]
    PROVE  conn' = [k \in Connections |-> conn'[k]]
<1>1. CASE UNCHANGED conn
  BY <1>1
<1>2. ASSUME NEW j \in Connections,
             VerifyStep(j) \/ \E c \in Certs : VerifyServerCert(j, c)
      PROVE  conn' = [k \in Connections |-> conn'[k]]
  BY <1>2 DEF VerifyStep, VerifyPath, OpenIndex, CheckIndex, Conclude, VerifyServerCert
<1>3. \/ UNCHANGED conn
      \/ \E j \in Connections : VerifyStep(j) \/ \E c \in Certs : VerifyServerCert(j, c)
  BY DEF Next, Step, vars, New, NewFinish
<1> QED BY <1>1, <1>2, <1>3

\* No process and no connection is at work at first.
LEMMA HostInit == Init => HostInv /\ SearchInv
<1> SUFFICES ASSUME Init PROVE HostInv /\ SearchInv
  OBVIOUS
<1>1. PICK h \in Hosts : conf = h.conf /\ cache = h.cache
  BY DEF Init, SearchInit
<1>2. [conf |-> conf, cache |-> cache] \in Host
  <2>1. h \in Host
    BY HostAssumption
  <2> QED BY <1>1, <2>1 DEF Host
<1>3. changes \in 0 .. MaxChanges /\ runs \in 0 .. MaxRuns
  BY HostAssumption DEF Init, SearchInit
<1>4. IdleProc \in ProcRecord /\ ProcOK(IdleProc) /\ IdleProc.pc = "idle"
  BY DEF IdleProc, ProcRecord, ProcOK, States
<1>5. proc = [p \in Procs |-> IdleProc]
  BY DEF Init, SearchInit
<1>6. /\ self \in [built : BOOLEAN, policy : Policies, config : Dirs \cup {"none"}]
      /\ ~self.built
  BY PolicyAssumption DEF Init, VerifierInit, NoVerifier
<1>7. IdleConn \in ConnRecord /\ IdleConn.pc = "idle" /\ ConnOK(IdleConn, self.built)
  BY DataAssumption DEF IdleConn, ConnRecord, States, Results, ConnOK
<1>8. conn = [k \in Connections |-> IdleConn]
  BY DEF Init, VerifierInit
<1>9. held \in [Procs \cup Connections -> SUBSET States]
  BY DEF Init
<1>10. TypeOK
  BY <1>2, <1>3, <1>4, <1>5, <1>6, <1>7, <1>8, <1>9 DEF TypeOK
<1> QED BY <1>4, <1>5, <1>6, <1>7, <1>8, <1>10 DEF HostInv, SearchInv, Searching

\* HostInv is inductive.
LEMMA HostNext ==
    ASSUME HostInv, [Next]_vars
    PROVE  HostInv'
<1>0. /\ TypeOK /\ proc \in [Procs -> ProcRecord] /\ conn \in [Connections -> ConnRecord]
      /\ held \in [Procs \cup Connections -> SUBSET States]
      /\ conf' \in [Files -> Named \cup {Absent, Bad}] /\ cache' \in [Dirs -> States]
      /\ changes' \in 0 .. MaxChanges /\ runs' \in 0 .. MaxRuns
      /\ self' \in [built : BOOLEAN, policy : Policies, config : Dirs \cup {"none"}]
      /\ self'.built => self'.config \in Dirs
      /\ self.built => self'.built /\ self.config \in Dirs
  BY HostTypes, HostStep, SelfStep DEF HostInv
<1>1. ASSUME NEW p \in Procs
      PROVE  /\ proc'[p] \in ProcRecord /\ ProcOK(proc'[p])
             /\ proc'[p].pc = "check" =>
                  \/ proc'[p] = proc[p]
                  \/ proc'[p].snap = cache[proc'[p].config] /\ cache' = cache
  <2>0. proc[p] \in ProcRecord /\ ProcOK(proc[p])
    BY <1>0 DEF HostInv
  <2>1. CASE proc'[p] = proc[p]
    BY <2>0, <2>1
  <2>2. CASE Run(p) \/ New(p)
    BY <1>0, <2>2, SearchStarts
  <2>3. CASE SearchStep(p)
    BY <2>3, SearchMoves DEF Searching
  <2>4. CASE CommandStep(p) \/ NewFinish(p)
    BY <2>4, CommandMoves
  <2> QED BY <1>0, <2>1, <2>2, <2>3, <2>4, ProcMoves DEF Own
<1>2. \A k \in Connections :
        /\ conn'[k] \in ConnRecord /\ ConnOK(conn'[k], self.built)
        /\ conn'[k].pc = "check" =>
             \/ conn'[k] = conn[k]
             \/ conn[k].pc = "open" /\ conn'[k].snap = cache[self.config] /\ cache' = cache
  BY ConnStep
<1>3. proc' \in [Procs -> ProcRecord] /\ conn' \in [Connections -> ConnRecord]
  <2>1. proc' = [p \in Procs |-> proc'[p]]
    BY <1>0, ProcShape
  <2>2. conn' = [k \in Connections |-> conn'[k]]
    BY <1>0, ConnShape
  <2> QED BY <1>1, <1>2, <2>1, <2>2
<1>4. CASE UNCHANGED vars
  <2>1. HostInv
    OBVIOUS
  <2> QED BY <1>4, <2>1 DEF HostInv, TypeOK, vars, host
<1>5. CASE Next
  <2>0. Track
    BY <1>5 DEF Next
  <2>1. \A p \in Procs : /\ held'[p] \in SUBSET States
                         /\ proc'[p].pc = "check" => proc'[p].snap \in held'[p]
    <3> SUFFICES ASSUME NEW p \in Procs
                 PROVE  /\ held'[p] \in SUBSET States
                        /\ proc'[p].pc = "check" => proc'[p].snap \in held'[p]
      OBVIOUS
    <3>1. held'[p] = IF proc'[p].pc \in {"open", "check"}
                     THEN held[p] \cup {cache'[proc'[p].config]} ELSE {}
      BY <2>0, TrackEffect
    <3>2. proc'[p].pc \in {"open", "check"} => proc'[p].config \in Dirs
      BY <1>1 DEF ProcOK
    <3>3. held[p] \in SUBSET States
      BY <1>0
    <3>4. held'[p] \in SUBSET States
      BY <1>0, <3>1, <3>2, <3>3
    <3>5. proc[p].pc = "check" => proc[p].snap \in held[p]
      BY DEF HostInv
    <3> QED BY <1>1, <3>1, <3>4, <3>5
  <2>2. \A k \in Connections : /\ held'[k] \in SUBSET States
                               /\ conn'[k].pc = "check" => conn'[k].snap \in held'[k]
    <3> SUFFICES ASSUME NEW k \in Connections
                 PROVE  /\ held'[k] \in SUBSET States
                        /\ conn'[k].pc = "check" => conn'[k].snap \in held'[k]
      OBVIOUS
    <3>1. held'[k] = IF conn[k].pc # "idle" THEN held[k] \cup {cache'[self.config]}
                     ELSE IF conn'[k].pc # "idle" THEN {cache'[self.config]} ELSE held[k]
      BY <2>0, TrackEffect
    <3>2. held[k] \in SUBSET States /\ (conn[k].pc = "check" => conn[k].snap \in held[k])
      BY <1>0 DEF HostInv
    <3>3. (conn[k].pc # "idle" \/ conn'[k].pc # "idle") => self.config \in Dirs
      BY <1>0, <1>2 DEF HostInv, ConnOK
    <3>4. held'[k] \in SUBSET States
      BY <1>0, <3>1, <3>2, <3>3
    <3> QED BY <1>2, <3>1, <3>2, <3>4
  <2>3. held' \in [Procs \cup Connections -> SUBSET States]
    BY <2>0, <2>1, <2>2, TrackEffect
  <2>4. ([conf |-> conf, cache |-> cache] \in Host)'
    BY <1>0, HostTyped
  <2>5. TypeOK'
    BY <1>0, <1>3, <2>3, <2>4 DEF TypeOK
  <2>6. \A p \in Procs : (ProcOK(proc[p]))'
    BY <1>1 DEF ProcOK
  <2>7. \A k \in Connections : (ConnOK(conn[k], self.built))'
    BY <1>0, <1>2 DEF ConnOK
  <2> QED BY <1>0, <2>1, <2>2, <2>5, <2>6, <2>7 DEF HostInv
<1> QED BY <1>4, <1>5

-------------------------------------------------------------------------------
(***************************************************************************)
(* The search for a configuration.                                         *)
(***************************************************************************)
\* A probe agrees with the moment at which it is made.
LEMMA ProbeSeen ==
    ASSUME NEW s, Moment(conf, cache) \subseteq s
    PROVE  /\ \A f \in Files : /\ <<f, conf[f]>> \in s
                               /\ Exists(f) => Was(s, f)
                               /\ ~Exists(f) => Gone(s, f)
           /\ \A d \in {UserCache, SystemCache} : /\ DirExists(d) => Was(s, d)
                                                  /\ ~DirExists(d) => Gone(s, d)
<1>1. \A f \in Files : <<f, conf[f]>> \in s
  BY DEF Moment
<1>2. \A f \in Files : (Exists(f) => Was(s, f)) /\ (~Exists(f) => Gone(s, f))
  BY <1>1 DEF Exists, Was, Gone
<1>3. \A d \in {UserCache, SystemCache} : <<d, IF cache[d] = NoDir THEN Absent ELSE d>> \in s
  BY DEF Moment
<1>4. \A d \in {UserCache, SystemCache} : d # Absent
  BY HostAssumption
<1>5. \A d \in {UserCache, SystemCache} : /\ DirExists(d) => Was(s, d)
                                          /\ ~DirExists(d) => Gone(s, d)
  BY <1>3, <1>4 DEF DirExists, Was, Gone
<1> QED BY <1>1, <1>2, <1>5

\* What a search has found stays found as more is seen.
LEMMA SeenGrows ==
    ASSUME NEW q, NEW s, NEW t, s \subseteq t, SearchOK(q, s)
    PROVE  SearchOK(q, t)
BY DEF SearchOK, Gone, Was

\* One step of the search adds what it has just asked.
LEMMA SearchKept ==
    ASSUME HostInv, NEW p \in Procs, SearchStep(p), NEW s, SearchOK(proc[p], s),
           Moment(conf, cache) \subseteq s, proc'[p].pc \in Searching
    PROVE  SearchOK(proc'[p], s)
<1> DEFINE q == proc[p]
<1>0. /\ proc \in [Procs -> ProcRecord] /\ q \in ProcRecord /\ ProcOK(q)
      /\ Exit("1").pc = "idle"
  BY HostTypes, ExitTyped DEF HostInv
<1>1. /\ \A f \in Files : (Exists(f) => Was(s, f)) /\ (~Exists(f) => Gone(s, f))
      /\ \A d \in {UserCache, SystemCache} : ~DirExists(d) => Gone(s, d)
  BY ProbeSeen
<1>2. CASE ProbeUser(p)
  <2>0. q.pc = "user"
    BY <1>2 DEF ProbeUser
  <2>1. proc' # [proc EXCEPT ![p] = Exit("1")]
    BY <1>0 DEF Searching
  <2>2. CASE Exists("user") /\ proc' = [proc EXCEPT ![p].pc = "chosen", ![p].path = "user"]
    <3>1. /\ proc'[p].pc = "chosen" /\ proc'[p].path = "user" /\ proc'[p].given = q.given
      BY <1>0, <2>2 DEF ProcRecord
    <3> QED BY <1>1, <2>0, <2>2, <3>1 DEF SearchOK, Files
  <2>3. CASE ~Exists("user") /\ proc' = [proc EXCEPT ![p].pc = "system"]
    <3>1. proc'[p].pc = "system" /\ proc'[p].given = q.given
      BY <1>0, <2>3 DEF ProcRecord
    <3> QED BY <1>1, <2>0, <2>3, <3>1 DEF SearchOK, Files
  <2> QED BY <1>2, <2>1, <2>2, <2>3 DEF ProbeUser
<1>3. CASE ProbeSystem(p)
  <2>1. /\ q.pc = "system" /\ proc'[p].pc = "chosen" /\ proc'[p].given = q.given
        /\ proc'[p].path = IF Exists("system") THEN "system" ELSE "user"
    BY <1>0, <1>3 DEF ProbeSystem, ProcRecord
  <2> QED BY <1>1, <2>1 DEF SearchOK, Files
<1>4. CASE ProbeChosen(p)
  <2>1. /\ q.pc = "chosen" /\ proc'[p].given = q.given /\ proc'[p].path = q.path
        /\ proc'[p].pc = IF q.path = "given" \/ Exists(q.path) THEN "read" ELSE "user_cache"
    BY <1>0, <1>4 DEF ProbeChosen, ProcRecord
  <2>2. q.path \in Files
    BY <1>0, <2>1 DEF ProcOK
  <2> QED BY <1>1, <2>1, <2>2 DEF SearchOK, Files
<1>5. CASE ReadConfig(p)
  <2>1. proc'[p].pc \in {"idle", "found"}
    BY <1>0, <1>5 DEF ReadConfig, Found, ProcRecord
  <2> QED BY <2>1 DEF Searching
<1>6. CASE ProbeUserCache(p)
  <2>1. CASE proc' = Found(p, UserCache, "default")
    <3>1. proc'[p].pc = "found"
      BY <1>0, <2>1 DEF Found, ProcRecord
    <3> QED BY <3>1 DEF Searching
  <2>2. CASE ~DirExists(UserCache) /\ proc' = [proc EXCEPT ![p].pc = "system_cache"]
    <3>1. /\ q.pc = "user_cache" /\ proc'[p].pc = "system_cache" /\ proc'[p].given = q.given
      BY <1>0, <1>6, <2>2 DEF ProbeUserCache, ProcRecord
    <3> QED BY <1>1, <2>2, <3>1 DEF SearchOK
  <2> QED BY <1>6, <2>1, <2>2 DEF ProbeUserCache
<1>7. CASE ProbeSystemCache(p)
  <2>1. proc'[p].pc = "found"
    BY <1>0, <1>7 DEF ProbeSystemCache, Found, ProcRecord
  <2> QED BY <2>1 DEF Searching
<1> QED BY <1>2, <1>3, <1>4, <1>5, <1>6, <1>7 DEF SearchStep

\* SearchInv is inductive, given HostInv.
LEMMA SearchNext ==
    ASSUME HostInv, SearchInv, [Next]_vars
    PROVE  SearchInv'
<1>0. TypeOK /\ proc \in [Procs -> ProcRecord]
  BY HostTypes DEF HostInv
<1>1. CASE UNCHANGED vars
  BY <1>1 DEF SearchInv, SearchOK, Moment, vars, host
<1>2. CASE Next
  <2>1. SUFFICES ASSUME NEW p \in Procs, proc'[p].pc \in Searching
                 PROVE  SearchOK(proc'[p], saw'[p]) /\ Moment(conf', cache') \subseteq saw'[p]
    BY DEF SearchInv, SearchOK, Moment, Gone, Was, Searching
  <2>2. saw'[p] = saw[p] \cup Moment(conf', cache')
    <3>1. Track
      BY <1>2 DEF Next
    <3> QED BY <2>1, <3>1, TrackEffect DEF Searching
  <2>3. CASE proc'[p] = proc[p]
    <3>1. SearchOK(proc'[p], saw[p])
      BY <2>1, <2>3 DEF SearchInv
    <3> QED BY <2>2, <3>1, SeenGrows
  <2>4. CASE Run(p) \/ New(p)
    BY <1>0, <2>2, <2>4, SearchStarts DEF SearchOK
  <2>5. CASE SearchStep(p)
    <3>1. proc[p].pc \in Searching
      BY <2>5, SearchMoves
    <3>2. SearchOK(proc[p], saw[p]) /\ Moment(conf, cache) \subseteq saw[p]
      BY <3>1 DEF SearchInv
    <3>3. SearchOK(proc'[p], saw[p])
      BY <2>1, <2>5, <3>2, SearchKept
    <3> QED BY <2>2, <3>3, SeenGrows
  <2>6. CASE CommandStep(p) \/ NewFinish(p)
    BY <2>1, <2>6, CommandMoves DEF Searching
  <2> QED BY <1>0, <2>3, <2>4, <2>5, <2>6, ProcMoves DEF Own
<1> QED BY <1>1, <1>2

\* What a search has found.
LEMMA FoundWell ==
    ASSUME HostInv, SearchInv, [Next]_vars, NEW p \in Procs,
           proc[p].pc # "found", proc'[p].pc = "found"
    PROVE  SearchedWell(p)
<1> DEFINE q == proc[p]
           s == saw[p]
<1>0. /\ TypeOK /\ proc \in [Procs -> ProcRecord] /\ q \in ProcRecord /\ ProcOK(q)
      /\ Exit("1").pc = "idle"
  BY HostTypes, ExitTyped DEF HostInv
<1>1. SearchStep(p)
  BY <1>0, ProcMoves, SearchStarts, CommandMoves DEF Own
<1>2. q.pc \in Searching
  BY <1>1, SearchMoves
<1>3. SearchOK(q, s) /\ Moment(conf, cache) \subseteq s
  BY <1>2 DEF SearchInv
<1>4. /\ \A f \in Files : <<f, conf[f]>> \in s
      /\ \A d \in {UserCache, SystemCache} : /\ DirExists(d) => Was(s, d)
                                             /\ ~DirExists(d) => Gone(s, d)
  BY <1>3, ProbeSeen
<1>5. ASSUME NEW d, NEW f, proc' = Found(p, d, f)
      PROVE  proc'[p].config = d /\ proc'[p].from = f
  BY <1>0, <1>5 DEF Found, ProcRecord
<1>6. CASE ReadConfig(p)
  <2>1. proc' = Found(p, conf[q.path], q.path)
    BY <1>0, <1>6 DEF ReadConfig
  <2>2. q.pc = "read" /\ q.path \in Files
    BY <1>0, <1>6 DEF ReadConfig, ProcOK
  <2>3. proc'[p].config = conf[q.path] /\ proc'[p].from = q.path
    BY <1>5, <2>1
  <2>4. (q.given <=> q.path = "given") /\ (q.path = "system" => Gone(s, "user"))
    BY <1>3, <2>2 DEF SearchOK
  <2> QED BY <1>4, <2>2, <2>3, <2>4 DEF SearchedWell, Gone, Files
<1>7. CASE ProbeUserCache(p)
  <2>1. CASE DirExists(UserCache) /\ proc' = Found(p, UserCache, "default")
    <3>1. proc'[p].config = UserCache /\ proc'[p].from = "default"
      BY <1>5, <2>1
    <3>2. ~q.given /\ Gone(s, "user") /\ (Gone(s, "system") \/ Was(s, "user"))
      BY <1>3, <1>7 DEF ProbeUserCache, SearchOK
    <3>3. Was(s, UserCache)
      BY <1>4, <2>1
    <3> QED BY <3>1, <3>2, <3>3 DEF SearchedWell, Gone, Was, Files
  <2>2. CASE proc' = [proc EXCEPT ![p].pc = "system_cache"]
    BY <1>0, <2>2 DEF ProcRecord
  <2> QED BY <1>7, <2>1, <2>2 DEF ProbeUserCache
<1>8. CASE ProbeSystemCache(p)
  <2>1. /\ proc'[p].config = (IF DirExists(SystemCache) THEN SystemCache ELSE UserCache)
        /\ proc'[p].from = "default"
    BY <1>5, <1>8 DEF ProbeSystemCache
  <2>2. /\ ~q.given /\ Gone(s, "user") /\ (Gone(s, "system") \/ Was(s, "user"))
        /\ Gone(s, UserCache)
    BY <1>3, <1>8 DEF ProbeSystemCache, SearchOK
  <2>3. IF DirExists(SystemCache) THEN Was(s, SystemCache) ELSE Gone(s, SystemCache)
    BY <1>4
  <2> QED BY <2>1, <2>2, <2>3 DEF SearchedWell, Gone, Was, Files
<1>9. CASE ProbeUser(p) \/ ProbeSystem(p) \/ ProbeChosen(p)
  <2>1. proc'[p].pc \in {"idle", "chosen", "system", "read", "user_cache"}
    BY <1>0, <1>9 DEF ProbeUser, ProbeSystem, ProbeChosen, ProcRecord
  <2> QED BY <2>1
<1> QED BY <1>1, <1>6, <1>7, <1>8, <1>9 DEF SearchStep

\* The types are right: in particular a command has a configured directory once
\* its search is over, and a policy or a certificate where it uses one.
THEOREM TypeCorrect == Spec => []TypeOK
<1>1. Init => HostInv
  BY HostInit
<1>2. HostInv /\ [Next]_vars => HostInv'
  BY HostNext
<1>3. HostInv => TypeOK
  BY DEF HostInv
<1> QED BY <1>1, <1>2, <1>3, PTL DEF Spec

\* ConfigPath::new and Config::from_file_or_user_default keep to the documented
\* order, whatever files and directories come and go between two probes.
THEOREM SearchIsSound == Spec => ConfigSound
<1>1. Init => HostInv /\ SearchInv
  BY HostInit
<1>2. HostInv /\ SearchInv /\ [Next]_vars => (HostInv /\ SearchInv)'
  BY HostNext, SearchNext
<1>3. HostInv /\ SearchInv /\ [Next]_vars =>
        [\A p \in Procs :
            (proc[p].pc # "found" /\ proc'[p].pc = "found") => SearchedWell(p)]_vars
  BY FoundWell
<1> QED BY <1>1, <1>2, <1>3, PTL DEF Spec, ConfigSound

-------------------------------------------------------------------------------
(***************************************************************************)
(* Exit codes and outcomes.                                                *)
(***************************************************************************)
\* The exit of `upki revocation check`.
LEMMA CheckExits ==
    ASSUME HostInv, [Next]_vars, NEW p \in Procs, proc[p].cmd = "check",
           proc'[p].exit \in {"0", "2"}
    PROVE  \E s \in held[p] \cap Datasets :
             proc'[p].exit = "2" <=> /\ proc[p].in.scts = "some"
                                     /\ Says[s][proc[p].in] = "CertainlyRevoked"
<1> DEFINE q == proc[p]
<1>0. /\ TypeOK /\ proc \in [Procs -> ProcRecord] /\ q \in ProcRecord /\ ProcOK(q)
      /\ q.pc = "check" => q.snap \in held[p]
  BY HostTypes DEF HostInv
<1>1. q.exit = "none" /\ q.pc # "idle"
  BY <1>0 DEF ProcOK
<1>2. CommandStep(p) \/ NewFinish(p)
  BY <1>0, <1>1, ProcMoves, SearchStarts, SearchMoves DEF Own
<1>3. ASSUME NEW e \in {"none", "0", "1", "2"}, proc' = [proc EXCEPT ![p] = Exit(e)]
      PROVE  proc'[p].exit = e
  BY <1>0, <1>3, ExitTyped
<1>4. CASE Check(p)
  <2>1. proc' = [proc EXCEPT ![p] = Exit(ToCli(Status(q.snap, q.in)))]
    BY <1>3, <1>4 DEF Check
  <2>2. ToCli(Status(q.snap, q.in)) \in {"0", "2"}
    BY DEF ToCli
  <2>3. proc'[p].exit = ToCli(Status(q.snap, q.in))
    BY <1>3, <2>1, <2>2
  <2>4. /\ q.pc = "check" /\ q.snap \in Datasets /\ q.snap \in held[p]
        /\ q.in \in Certs /\ q.in.scts # "malformed"
    BY <1>0, <1>4 DEF Check, ProcOK
  <2>5. q.in.scts \in {"none", "some"}
    BY <2>4, DataAssumption DEF CertFacts
  <2>6. proc'[p].exit = "2" <=> q.in.scts = "some" /\ Says[q.snap][q.in] = "CertainlyRevoked"
    BY <2>3, <2>5 DEF ToCli, Status
  <2> QED BY <2>4, <2>6
<1>5. CASE ReadInput(p) \/ OpenCache(p)
  <2>1. CASE proc' = [proc EXCEPT ![p] = Exit("1")]
    BY <1>3, <2>1
  <2>2. CASE proc'[p].exit = q.exit
    BY <1>1, <2>2
  <2>3. proc' = [proc EXCEPT ![p] = Exit("1")] \/ proc'[p].exit = q.exit
    BY <1>0, <1>5 DEF ReadInput, OpenCache, ProcRecord
  <2> QED BY <2>1, <2>2, <2>3
<1>6. CASE \/ ParseArgs(p) \/ ShowConfigPath(p) \/ ShowConfig(p) \/ FetchDry(p) \/ VerifyCache(p)
           \/ FetchCreateDir(p) \/ FetchInstall(p) \/ FetchFails(p) \/ NewFinish(p)
  BY <1>0, <1>1, <1>6 DEF ParseArgs, ShowConfigPath, ShowConfig, FetchDry, VerifyCache, FetchCreateDir,
                    FetchInstall, FetchFails, NewFinish, ProcOK
<1> QED BY <1>2, <1>4, <1>5, <1>6 DEF CommandStep

\* `upki revocation check` exits with 0 or 2 only on the word of data that was
\* in the configured directory while it ran.
THEOREM ExitsAreSound == Spec => ExitSound
<1>1. Init => HostInv
  BY HostInit
<1>2. HostInv /\ [Next]_vars => HostInv'
  BY HostNext
<1>3. HostInv /\ [Next]_vars =>
        [\A p \in Procs :
            (proc[p].cmd = "check" /\ proc'[p].exit \in {"0", "2"}) =>
            \E s \in held[p] \cap Datasets :
                proc'[p].exit = "2" <=> /\ proc[p].in.scts = "some"
                                        /\ Says[s][proc[p].in] = "CertainlyRevoked"]_vars
  BY CheckExits
<1> QED BY <1>1, <1>2, <1>3, PTL DEF Spec, ExitSound

\* The end of a call of verify_server_cert comes from one of three matches.
LEMMA CallEnds ==
    ASSUME HostInv, [Next]_vars, NEW k \in Connections, conn[k].pc # "idle",
           conn'[k].pc = "idle"
    PROVE  LET c == conn[k].cert IN
           \/ Conclude(k, "CertificateError") \/ Conclude(k, "General")
           \/ /\ c.path /\ c.name /\ c.scts = "none"
              /\ Conclude(k, AsResult(self.policy.cert_has_no_scts))
           \/ /\ c.path /\ c.name /\ c.scts = "some"
              /\ \E d \in held[k] \cap Datasets :
                   Says[d][c] \in RevocationStatus /\ Conclude(k, Says[d][c])
<1> DEFINE c == conn[k].cert
<1>0. /\ conn \in [Connections -> ConnRecord] /\ conn[k] \in ConnRecord
      /\ ConnOK(conn[k], self.built) /\ (conn[k].pc = "check" => conn[k].snap \in held[k])
  BY HostTypes DEF HostInv
<1>1. CASE VerifyPath(k)
  <2>1. conn' # [conn EXCEPT ![k].pc = "open"]
    BY <1>0 DEF ConnRecord
  <2> QED BY <1>1, <2>1 DEF VerifyPath
<1>2. CASE OpenIndex(k)
  <2>1. \A s : conn' # [conn EXCEPT ![k].pc = "check", ![k].snap = s]
    BY <1>0 DEF ConnRecord
  <2> QED BY <1>2, <2>1 DEF OpenIndex
<1>3. CASE conn[k].pc = "check" /\ CheckIndex(k)
  <2>1. conn[k].snap \in held[k] \cap Datasets /\ c \in Certs /\ c.path /\ c.name /\ c.scts = "some"
    BY <1>0, <1>3 DEF ConnOK, ConnRecord
  <2>2. Says[conn[k].snap][c] \in RevocationStatus
    BY <2>1, DataAssumption
  <2> QED BY <1>3, <2>1, <2>2 DEF CheckIndex
<1> QED BY <1>1, <1>2, <1>3, ConnMoves DEF ConnMove

\* What each policy makes of a certificate without SCTs.
LEMMA NoSctsOutcome ==
    ASSUME TypeOK
    PROVE  LET o == self.policy.cert_has_no_scts IN
           \/ o = "Allowed" /\ AsResult(o) = "NotCoveredByRevocationData"
           \/ o = "TreatAsRevoked" /\ AsResult(o) = "Revoked"
           \/ o = "Error" /\ AsResult(o) = "PolicyError"
<1>1. self.policy.cert_has_no_scts \in Outcome
  BY HostTypes, PolicyAssumption DEF Policy
<1> QED BY <1>1 DEF Outcome, AsResult

\* verify_server_cert accepts a server only on a valid path and on what the data
\* in the directory of construction said during the call, or on what the policy
\* allows to be missing.
THEOREM AcceptsAreSound == Spec => AcceptSound
<1> DEFINE Good(k) ==
      LET c == conn[k].cert
      IN /\ c.path /\ c.name
         /\ \/ /\ c.scts = "none"
               /\ self.policy.cert_has_no_scts = "Allowed"
            \/ /\ c.scts = "some"
               /\ \/ Said(k, "NotRevoked")
                  \/ /\ Said(k, "NotCoveredByRevocationData")
                     /\ self.policy.cert_not_covered = "Allowed"
<1>1. Init => HostInv
  BY HostInit
<1>2. HostInv /\ [Next]_vars => HostInv'
  BY HostNext
<1>3. ASSUME HostInv, [Next]_vars, NEW k \in Connections, Returns(k, "Accepted")
      PROVE  Good(k)
  <2> DEFINE c == conn[k].cert
  <2>0. TypeOK /\ conn[k].pc # "idle" /\ conn'[k].pc = "idle" /\ conn'[k].result = "Accepted"
    BY <1>3 DEF HostInv, Returns
  <2>1. ~Conclude(k, "CertificateError") /\ ~Conclude(k, "General")
    BY <2>0, ConcludeEffect
  <2>2. CASE /\ c.path /\ c.name /\ c.scts = "none"
             /\ Conclude(k, AsResult(self.policy.cert_has_no_scts))
    <3>1. ~Conclude(k, "Revoked") /\ ~Conclude(k, "PolicyError")
      BY <2>0, ConcludeEffect
    <3> QED BY <2>0, <2>2, <3>1, NoSctsOutcome
  <2>3. ASSUME c.path, c.name, c.scts = "some", NEW d \in held[k] \cap Datasets,
               Says[d][c] \in RevocationStatus, Conclude(k, Says[d][c])
        PROVE  Good(k)
    <3>1. \/ Says[d][c] = "NotRevoked"
          \/ /\ Says[d][c] = "NotCoveredByRevocationData"
             /\ self.policy.cert_not_covered = "Allowed"
      BY <2>0, <2>3, ConcludeEffect
    <3> QED BY <2>3, <3>1 DEF Said
  <2> QED BY <1>3, <2>0, <2>1, <2>2, <2>3, CallEnds
<1>4. HostInv /\ [Next]_vars => [\A k \in Connections : Returns(k, "Accepted") => Good(k)]_vars
  BY <1>3
<1> QED BY <1>1, <1>2, <1>4, PTL DEF Spec, AcceptSound

\* verify_server_cert reports a revocation only if the data said so during the
\* call, or the policy treats the certificate's own case as one; provided that
\* no policy allows certificates without SCTs and treats those that are not
\* covered as revoked, because cert_not_covered is applied to both.
THEOREM RevocationsAreSound ==
    ASSUME PoliciesAgree
    PROVE  Spec => RevokedSound
<1> DEFINE Good(k) ==
      LET c == conn[k].cert
      IN \/ /\ c.scts = "some"
            /\ \/ Said(k, "CertainlyRevoked")
               \/ /\ Said(k, "NotCoveredByRevocationData")
                  /\ self.policy.cert_not_covered = "TreatAsRevoked"
         \/ /\ c.scts = "none"
            /\ self.policy.cert_has_no_scts = "TreatAsRevoked"
<1>1. Init => HostInv
  BY HostInit
<1>2. HostInv /\ [Next]_vars => HostInv'
  BY HostNext
<1>3. ASSUME HostInv, [Next]_vars, NEW k \in Connections, Returns(k, "Revoked")
      PROVE  Good(k)
  <2> DEFINE c == conn[k].cert
  <2>0. TypeOK /\ conn[k].pc # "idle" /\ conn'[k].pc = "idle" /\ conn'[k].result = "Revoked"
    BY <1>3 DEF HostInv, Returns
  <2>1. ~Conclude(k, "CertificateError") /\ ~Conclude(k, "General")
    BY <2>0, ConcludeEffect
  <2>2. CASE /\ c.path /\ c.name /\ c.scts = "none"
             /\ Conclude(k, AsResult(self.policy.cert_has_no_scts))
    <3>1. ~Conclude(k, "PolicyError")
      BY <2>0, ConcludeEffect
    <3>2. Conclude(k, "NotCoveredByRevocationData") =>
            self.policy.cert_not_covered = "TreatAsRevoked"
      BY <2>0, ConcludeEffect DEF RevocationStatus
    <3>3. self.policy \in Policies
      BY <2>0, HostTypes
    <3>4. self.policy.cert_has_no_scts = "TreatAsRevoked"
      BY <2>0, <2>2, <3>1, <3>2, <3>3, NoSctsOutcome DEF PoliciesAgree
    <3> QED BY <2>2, <3>4
  <2>3. ASSUME c.path, c.name, c.scts = "some", NEW d \in held[k] \cap Datasets,
               Says[d][c] \in RevocationStatus, Conclude(k, Says[d][c])
        PROVE  Good(k)
    <3>1. \/ Says[d][c] = "CertainlyRevoked"
          \/ /\ Says[d][c] = "NotCoveredByRevocationData"
             /\ self.policy.cert_not_covered = "TreatAsRevoked"
      BY <2>0, <2>3, ConcludeEffect DEF RevocationStatus
    <3> QED BY <2>3, <3>1 DEF Said
  <2> QED BY <1>3, <2>0, <2>1, <2>2, <2>3, CallEnds
<1>4. HostInv /\ [Next]_vars => [\A k \in Connections : Returns(k, "Revoked") => Good(k)]_vars
  BY <1>3
<1> QED BY <1>1, <1>2, <1>4, PTL DEF Spec, RevokedSound
===============================================================================
