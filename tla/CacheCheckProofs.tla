--------------------------- MODULE CacheCheckProofs ---------------------------
(***************************************************************************)
(* More proofs about RevocationCache: what a check that reads filters      *)
(* between the steps of fetches may rely on, what a fetch leaves behind,   *)
(* what `upki verify` has seen, and that the whole is an AtomicCache.      *)
(***************************************************************************)
EXTENDS RevocationCacheProofs

(***************************************************************************)
(* The order of releases.  The code does not keep it: a fetch takes the    *)
(* manifest it is given.  Where a result needs it, the server is assumed   *)
(* to answer with the newest one.                                          *)
(***************************************************************************)
NewestTaken ==
    \A f \in Fetchers, mode \in {"fetch", "dry"} :
        StartFetch(f, mode) => job'[f].rel = server
Fresh == [][NewestTaken]_vars

\* With one fetch at a time no release is then left behind.
OrderInv ==
    /\ index # NoIndex => index.rel <= server
    /\ \A f \in Fetchers : job[f].pc # "idle" =>
         /\ job[f].rel <= server
         /\ index # NoIndex => index.rel <= job[f].rel

(***************************************************************************)
(* What a fetch knows of the rest of the directory: the manifest on disk   *)
(* is the one it read, and every filter there is one of this release, one  *)
(* of the old, or about to be deleted.                                     *)
(***************************************************************************)
Planned == {"plan", "mkdir", "download", "check", "index", "manifest", "delete"}
OldNames(f) == IF job[f].old = 0 THEN {} ELSE NamesOf(job[f].old)

FetchTidy(f) ==
    LET j == job[f] IN
    /\ j.pc \in {"list", "hash"} \cup (Planned \ {"delete"}) => manifest = j.old
    /\ j.pc = "delete" => manifest = j.rel
    /\ j.pc = "hash" =>
         \A n \in Deletable : files[n] # Absent => n \in j.unwanted \cup Prefix(f)
    /\ j.pc \in Planned =>
         /\ \A n \in Deletable : files[n] # Absent =>
              n \in j.unwanted \cup NamesOf(j.rel) \cup OldNames(f)
         /\ j.unwanted \cap OldNames(f) = {}
TidyInv == ~damaged => \A f \in Fetchers : FetchTidy(f)

\* The manifest on disk is that of the index, unless a fetch is between its two
\* saves or ended there.
ManifestInv ==
    (~damaged /\ index # NoIndex) =>
        \/ manifest = index.rel
        \/ index.rel \in orphaned
        \/ \E f \in Fetchers : job[f].pc = "manifest"

(***************************************************************************)
(* What a check relies on.                                                 *)
(***************************************************************************)
\* Content d is what the i-th file of release r was published as.
IsFile(r, i, d) == d \in Contents /\ Digest[d] = Files(r)[i].hash

\* The routing table of an index repeats the universes of its release's files.
CoverSound(idx) ==
    /\ \A n \in Names \ NamesOf(idx.rel) : idx.cover[n] = {}
    /\ \A i \in DOMAIN Files(idx.rel) :
         \E d \in Decodable : /\ IsFile(idx.rel, i, d)
                              /\ idx.cover[Files(idx.rel)[i].filename] = Universe(d)

\* A file of release r is gone or is what it was published as.
KeptOrGone(r) ==
    \A i \in DOMAIN Files(r) :
        LET e == Files(r)[i] IN files[e.filename] = Absent \/ Matches(files, e)

\* The filters that were asked so far did not say "revoked", and one of them
\* said "good" if and only if the check remembers it.
AskedSound(k) ==
    LET r == k.snap.rel IN
    /\ \A i \in DOMAIN Files(r), d \in Contents :
         (/\ IsFile(r, i, d) /\ Files(r)[i].filename \notin k.todo
          /\ Status[d][k.cert] # "NotCovered") =>
             /\ Status[d][k.cert] # "Revoked"
             /\ Status[d][k.cert] = "Good" => k.good
    /\ k.good => \E i \in DOMAIN Files(r), d \in Contents :
                     IsFile(r, i, d) /\ Status[d][k.cert] = "Good"

\* The files are there until the index has been replaced twice.
GraceSound(k) ==
    /\ k.age = 0 => index.rel = k.snap.rel
    /\ (k.age = 1 /\ k.snap.rel \notin orphaned) =>
         /\ \A i \in DOMAIN Files(k.snap.rel) : Matches(files, Files(k.snap.rel)[i])
         /\ \A f \in Fetchers : job[f].pc \in {"manifest", "delete"} =>
              job[f].old = k.snap.rel

ReadSound(c) ==
    LET k == chk[c] IN
    (~damaged /\ k.pc = "reading") =>
        /\ k.snap # NoIndex /\ index # NoIndex /\ k.snap.rel <= index.rel
        /\ k.result = "none"
        /\ k.todo \subseteq Consulted(k.snap, k.cert)
        /\ CoverSound(k.snap)
        /\ KeptOrGone(k.snap.rel)
        /\ AskedSound(k)
        /\ GraceSound(k)
ReadInv == \A c \in Checkers : ReadSound(c)

CheckInv ==
    /\ SafeInv /\ OrderInv /\ TidyInv /\ ManifestInv /\ ReadInv
    /\ VerdictSound /\ ReaderGrace

-------------------------------------------------------------------------------
(***************************************************************************)
(* The steps of a fetch, reduced to what the invariants above are about.   *)
(***************************************************************************)
Quiet == UNCHANGED <<files, index, manifest>>
Same(f) == job'[f].rel = job[f].rel /\ job'[f].old = job[f].old
Goes(f, a, b) == job[f].pc = a /\ job'[f].pc = b

MEnd(f) ==
    /\ Quiet /\ job'[f].pc = "idle"
    /\ job[f].pc = "manifest" => job[f].rel \in orphaned'
MStart(f) == Quiet /\ Goes(f, "idle", "old")
MOld(f) ==
    /\ Quiet /\ Goes(f, "old", "list")
    /\ job'[f].rel = job[f].rel /\ job'[f].old = manifest
MList(f) ==
    /\ Quiet /\ Goes(f, "list", "hash") /\ Same(f)
    /\ job'[f].pos = 1
    /\ job'[f].unwanted = {n \in Deletable : files[n] # Absent}
MHash(f) ==
    /\ Quiet /\ Goes(f, "hash", "hash") /\ Same(f)
    /\ job[f].pos \in DOMAIN Files(job[f].rel)
    /\ job'[f].pos = job[f].pos + 1
    /\ job'[f].unwanted = job[f].unwanted \ {Files(job[f].rel)[job[f].pos].filename}
MSpare(f) ==
    /\ Quiet /\ Goes(f, "hash", "plan") /\ Same(f)
    /\ job[f].pos \notin DOMAIN Files(job[f].rel)
    /\ job'[f].unwanted = job[f].unwanted \ OldNames(f)
MPass(f) ==
    /\ Quiet /\ Same(f) /\ job'[f].unwanted = job[f].unwanted
    /\ \/ Goes(f, "plan", "mkdir")
       \/ Goes(f, "mkdir", "download") \/ Goes(f, "mkdir", "index")
       \/ Goes(f, "check", "download") \/ Goes(f, "check", "index")
       \/ Goes(f, "index", "index")
MGiveUp(f) ==
    /\ Quiet /\ Goes(f, "index", "manifest") /\ Same(f)
    /\ job'[f].unwanted = job[f].unwanted
    /\ \E i \in DOMAIN Files(job[f].rel) :
         LET n == Files(job[f].rel)[i].filename IN n \in LongNames \/ files[n] \notin Decodable
MWrite(f) ==
    /\ Goes(f, "download", "check") /\ Same(f) /\ job'[f].unwanted = job[f].unwanted
    /\ \E i \in DOMAIN Files(job[f].rel), c \in Contents :
         i \in job[f].todo /\ files' = [files EXCEPT ![Files(job[f].rel)[i].filename] = c]
    /\ UNCHANGED <<index, manifest>>
MPersist(f) ==
    /\ Goes(f, "index", "manifest") /\ Same(f) /\ job'[f].unwanted = job[f].unwanted
    /\ index' # NoIndex /\ index'.rel = job[f].rel
    /\ chk' = [c \in Checkers |->
                 [chk[c] EXCEPT !.age = IF chk[c].pc = "reading" /\ @ < 2
                                        THEN @ + 1 ELSE @]]
    /\ UNCHANGED <<files, manifest>>
MSave(f) ==
    /\ Goes(f, "manifest", "delete") /\ Same(f) /\ job'[f].unwanted = job[f].unwanted
    /\ manifest' = job[f].rel
    /\ UNCHANGED <<files, index>>
MDelete(f) ==
    /\ Goes(f, "delete", "delete") /\ Same(f)
    /\ \E n \in job[f].unwanted :
         files' = [files EXCEPT ![n] = Absent] /\ job'[f].unwanted = job[f].unwanted \ {n}
    /\ UNCHANGED <<index, manifest>>
Move(f) ==
    \/ Quiet /\ job'[f] = job[f]
    \/ MEnd(f) \/ MStart(f) \/ MOld(f) \/ MList(f) \/ MHash(f) \/ MSpare(f) \/ MPass(f)
    \/ MGiveUp(f) \/ MWrite(f) \/ MPersist(f) \/ MSave(f) \/ MDelete(f)

\* The end of a command.
LEMMA EndMoves ==
    ASSUME TypeInv, NEW f \in Fetchers, NEW e, job' = [job EXCEPT ![f] = Ended(f, e)],
           Quiet, job[f].pc = "manifest" => job[f].rel \in orphaned'
    PROVE  MEnd(f)
<1>1. job'[f] = Ended(f, e)
  BY DEF TypeInv, TypeOK, Jobs
<1>2. Ended(f, e).pc = "idle"
  BY DEF Ended, IdleJob
<1> QED BY <1>1, <1>2 DEF MEnd

\* The rename onto index.bin.
LEMMA PersistMoves ==
    ASSUME TypeInv, NEW f \in Fetchers, PersistIndex(f)
    PROVE  MPersist(f)
<1>0. /\ job \in [Jobs -> JobRecord] /\ f \in Jobs /\ job[f] \in JobRecord
      /\ JobShape
  BY DEF TypeInv, TypeOK, Jobs
<1>1. index' = [rel |-> job[f].rel, cover |-> job[f].cover]
  BY DEF PersistIndex
<1>2. index' # NoIndex /\ index'.rel = job[f].rel
  <2>1. job[f].rel \in Releases /\ job[f].cover \in [Names -> SUBSET Certs]
    BY <1>0 DEF JobShape, PersistIndex, JobRecord
  <2>2. index' \in IndexFile
    BY <1>1, <2>1 DEF IndexFile
  <2> QED BY <1>1, <2>2, IndexAssumption
<1> QED BY <1>0, <1>2 DEF PersistIndex, MPersist, JobRecord, Goes, Same

\* Each step of a running fetch is one of the moves.
LEMMA FetchMoves ==
    ASSUME TypeInv, NEW f \in Fetchers, FetchStep(f)
    PROVE  Move(f)
<1>0. /\ job \in [Jobs -> JobRecord] /\ f \in Jobs /\ job[f] \in JobRecord
      /\ JobShape
  BY DEF TypeInv, TypeOK, Jobs
<1> USE DEF Goes, Same, Quiet
<1>1. CASE ReadOldManifest(f)
  <2>1. MOld(f)
    BY <1>0, <1>1 DEF ReadOldManifest, MOld, JobRecord, cache
  <2> QED BY <2>1 DEF Move
<1>2. CASE ListDir(f)
  <2>1. MList(f)
    BY <1>0, <1>2 DEF ListDir, MList, JobRecord, cache
  <2> QED BY <2>1 DEF Move
<1>3. CASE HashFile(f)
  <2>1. MHash(f)
    BY <1>0, <1>3 DEF HashFile, MHash, JobRecord, cache
  <2> QED BY <2>1 DEF Move
<1>4. CASE SpareOld(f)
  <2>1. /\ job'[f].pc = "plan" /\ job'[f].rel = job[f].rel /\ job'[f].old = job[f].old
        /\ job'[f].unwanted = IF job[f].old = 0 THEN job[f].unwanted
                              ELSE job[f].unwanted \ NamesOf(job[f].old)
    BY <1>0, <1>4 DEF SpareOld, JobRecord
  <2>2. job'[f].unwanted = job[f].unwanted \ OldNames(f)
    BY <2>1 DEF OldNames
  <2>3. MSpare(f)
    BY <1>4, <2>1, <2>2 DEF SpareOld, MSpare, cache
  <2> QED BY <2>3 DEF Move
<1>5. CASE UsePlan(f)
  <2>1. PICK r : /\ job' = [job EXCEPT ![f] = r]
                 /\ r = [job[f] EXCEPT !.pc = "mkdir"] \/ \E e \in Exits : r = Ended(f, e)
    BY <1>0, <1>5 DEF UsePlan, JobRecord, Exits
  <2>2. CASE r = [job[f] EXCEPT !.pc = "mkdir"]
    <3>1. MPass(f)
      BY <1>0, <1>5, <2>1, <2>2 DEF MPass, UsePlan, JobRecord, cache
    <3> QED BY <3>1 DEF Move
  <2>3. CASE \E e \in Exits : r = Ended(f, e)
    <3>1. MEnd(f)
      BY <1>5, <2>1, <2>3, EndMoves DEF UsePlan, cache
    <3> QED BY <3>1 DEF Move
  <2> QED BY <2>1, <2>2, <2>3
<1>6. CASE CreateDir(f)
  <2>1. MPass(f)
    BY <1>0, <1>6 DEF CreateDir, MPass, JobRecord, AfterDownloads
  <2> QED BY <2>1 DEF Move
<1>7. CASE DownloadWrite(f)
  <2>1. /\ Goes(f, "download", "check") /\ Same(f) /\ job'[f].unwanted = job[f].unwanted
        /\ UNCHANGED <<index, manifest>>
    BY <1>0, <1>7 DEF DownloadWrite, JobRecord
  <2>2. \E i \in DOMAIN Files(job[f].rel), c \in Contents :
         i \in job[f].todo /\ files' = [files EXCEPT ![Files(job[f].rel)[i].filename] = c]
    BY <1>7 DEF DownloadWrite, IsNext
  <2> QED BY <2>1, <2>2 DEF MWrite, Move
<1>8. CASE DownloadVerify(f)
  <2>1. PICK i \in DOMAIN Files(job[f].rel) :
          \/ job' = [job EXCEPT ![f].pc = AfterDownloads(job[f].todo \ {i}),
                                ![f].todo = @ \ {i}]
          \/ job' = [job EXCEPT ![f] = Ended(f, "error")]
    BY <1>8 DEF DownloadVerify
  <2>2. job[f].pc = "check" /\ UNCHANGED <<files, index, manifest>>
    BY <1>8 DEF DownloadVerify, cache
  <2>3. CASE job' = [job EXCEPT ![f].pc = AfterDownloads(job[f].todo \ {i}),
                                ![f].todo = @ \ {i}]
    <3>1. MPass(f)
      BY <1>0, <2>2, <2>3 DEF MPass, JobRecord, AfterDownloads
    <3> QED BY <3>1 DEF Move
  <2>4. CASE job' = [job EXCEPT ![f] = Ended(f, "error")]
    <3>1. MEnd(f)
      BY <2>2, <2>4, EndMoves
    <3> QED BY <3>1 DEF Move
  <2> QED BY <2>1, <2>3, <2>4
<1>9. CASE IndexOneFile(f)
  <2> DEFINE n == Files(job[f].rel)[job[f].pos].filename
             more == [job[f].cover EXCEPT ![n] = @ \cup Universe(files[n])]
  <2>1. /\ job[f].pc = "index" /\ UNCHANGED <<files, index, manifest>>
        /\ job[f].pos \in DOMAIN Files(job[f].rel)
        /\ \/ job' = [job EXCEPT ![f].pos = @ + 1, ![f].cover = more]
           \/ /\ n \in LongNames \/ files[n] \notin Decodable
              /\ job' = [job EXCEPT ![f].pc = "manifest"]
    BY <1>9 DEF IndexOneFile, cache
  <2> HIDE DEF more
  <2>2. CASE job' = [job EXCEPT ![f].pos = @ + 1, ![f].cover = more]
    <3>1. MPass(f)
      BY <1>0, <2>1, <2>2 DEF MPass, JobRecord
    <3> QED BY <3>1 DEF Move
  <2>3. CASE /\ n \in LongNames \/ files[n] \notin Decodable
             /\ job' = [job EXCEPT ![f].pc = "manifest"]
    <3>1. MGiveUp(f)
      BY <1>0, <2>1, <2>3 DEF MGiveUp, JobRecord
    <3> QED BY <3>1 DEF Move
  <2> QED BY <2>1, <2>2, <2>3
<1>10. CASE PersistIndex(f)
  BY <1>10, PersistMoves DEF Move
<1>11. CASE SaveManifest(f)
  <2>1. MSave(f)
    BY <1>0, <1>11 DEF SaveManifest, MSave, JobRecord
  <2> QED BY <2>1 DEF Move
<1>12. CASE DeleteFile(f)
  <2>1. PICK n \in job[f].unwanted :
          \/ /\ files' = [files EXCEPT ![n] = Absent]
             /\ job' = [job EXCEPT ![f].unwanted = @ \ {n}]
          \/ job' = [job EXCEPT ![f] = Ended(f, "error")] /\ UNCHANGED files
    BY <1>12 DEF DeleteFile
  <2>2. job[f].pc = "delete" /\ UNCHANGED <<index, manifest>>
    BY <1>12 DEF DeleteFile
  <2>3. CASE /\ files' = [files EXCEPT ![n] = Absent]
             /\ job' = [job EXCEPT ![f].unwanted = @ \ {n}]
    <3>1. MDelete(f)
      BY <1>0, <2>2, <2>3 DEF MDelete, JobRecord
    <3> QED BY <3>1 DEF Move
  <2>4. CASE job' = [job EXCEPT ![f] = Ended(f, "error")] /\ UNCHANGED files
    <3>1. MEnd(f)
      BY <2>2, <2>4, EndMoves
    <3> QED BY <3>1 DEF Move
  <2> QED BY <2>1, <2>3, <2>4
<1>13. CASE FinishFetch(f)
  <2>1. MEnd(f)
    BY <1>13, EndMoves DEF FinishFetch, cache
  <2> QED BY <2>1 DEF Move
<1> QED BY <1>1, <1>2, <1>3, <1>4, <1>5, <1>6, <1>7, <1>8, <1>9, <1>10, <1>11, <1>12,
           <1>13 DEF FetchStep, PlanStep

\* A verification touches neither the directory nor the jobs of fetches.
LEMMA VerifierAside ==
    ASSUME TypeInv, NEW v \in Verifiers, StartVerify(v) \/ PlanStep(v)
    PROVE  /\ Quiet /\ chk' = chk /\ server' = server
           /\ damaged' = damaged /\ orphaned' = orphaned
           /\ \A f \in Fetchers : job'[f] = job[f]
<1>0. /\ job \in [Jobs -> JobRecord] /\ Fetchers \subseteq Jobs /\ v \in Jobs
      /\ \A f \in Fetchers : f # v
  BY ProcessAssumption DEF TypeInv, TypeOK, Jobs
<1>1. /\ Quiet /\ chk' = chk /\ server' = server
      /\ damaged' = damaged /\ orphaned' = orphaned
  BY DEF StartVerify, PlanStep, ListDir, HashFile, SpareOld, UsePlan, cache, history, Quiet
<1>2. PICK r : job' = [job EXCEPT ![v] = r]
  <2>1. CASE StartVerify(v)
    BY <2>1 DEF StartVerify
  <2>2. CASE ListDir(v)
    BY <1>0, <2>2 DEF ListDir
  <2>3. CASE HashFile(v)
    BY <1>0, <2>3 DEF HashFile
  <2>4. CASE SpareOld(v)
    BY <1>0, <2>4 DEF SpareOld
  <2>5. CASE UsePlan(v)
    BY <2>5 DEF UsePlan
  <2> QED BY <2>1, <2>2, <2>3, <2>4, <2>5 DEF PlanStep
<1> QED BY <1>0, <1>1, <1>2

\* With one fetch at a time, every step but damage is a move of the fetch.
LEMMA EveryMove ==
    ASSUME TypeInv, SerialFetch, [Next]_vars, ~Damage, NEW f \in Fetchers
    PROVE  /\ Move(f)
           /\ damaged' = damaged /\ orphaned \subseteq orphaned'
<1>0. job \in [Jobs -> JobRecord] /\ f \in Jobs
  BY DEF TypeInv, TypeOK, Jobs
<1>1. CASE Publish \/ UNCHANGED vars \/ \E c \in Checkers : OpenIndex(c) \/ CheckStep(c)
  <2>1. Quiet /\ job' = job /\ damaged' = damaged /\ orphaned' = orphaned
    BY <1>1 DEF Publish, vars, OpenIndex, CheckStep, ReadFilter, FinishCheck, cache,
                history, Quiet
  <2> QED BY <2>1 DEF Move
<1>2. ASSUME NEW g \in Fetchers, NEW mode \in {"fetch", "dry"}, StartFetch(g, mode)
      PROVE  Move(f) /\ damaged' = damaged /\ orphaned \subseteq orphaned'
  <2>1. f = g
    BY DEF SerialFetch
  <2>3. job'[f].pc = "old"
    BY <1>0, <1>2, <2>1 DEF StartFetch, IdleJob
  <2> QED BY <1>2, <2>1, <2>3 DEF StartFetch, MStart, Move, Quiet, Goes, cache, history
<1>3. ASSUME NEW g \in Fetchers, FetchStep(g)
      PROVE  Move(f) /\ damaged' = damaged /\ orphaned \subseteq orphaned'
  <2>1. f = g
    BY DEF SerialFetch
  <2>2. damaged' = damaged /\ orphaned' = orphaned
    BY <1>3 DEF FetchStep, ReadOldManifest, PlanStep, ListDir, HashFile, SpareOld, UsePlan,
                CreateDir, DownloadWrite, DownloadVerify, IndexOneFile, PersistIndex,
                SaveManifest, DeleteFile, FinishFetch, history
  <2> QED BY <1>3, <2>1, <2>2, FetchMoves
<1>4. ASSUME NEW v \in Verifiers, StartVerify(v) \/ PlanStep(v)
      PROVE  Move(f) /\ damaged' = damaged /\ orphaned \subseteq orphaned'
  BY <1>4, VerifierAside DEF Move
<1>5. ASSUME NEW j \in Jobs, Abort(j)
      PROVE  Move(f) /\ damaged' = damaged /\ orphaned \subseteq orphaned'
  <2>1. Quiet /\ damaged' = damaged /\ orphaned \subseteq orphaned'
    BY <1>5 DEF Abort, cache, Quiet
  <2>2. CASE j = f
    <3>1. job[f].pc = "manifest" => job[f].rel \in orphaned'
      BY <1>5, <2>2 DEF Abort
    <3>2. MEnd(f)
      BY <1>5, <2>1, <2>2, <3>1, EndMoves DEF Abort
    <3> QED BY <2>1, <3>2 DEF Move
  <2>3. CASE j # f
    <3>1. job'[f] = job[f]
      BY <1>0, <1>5, <2>3 DEF Abort
    <3> QED BY <2>1, <3>1 DEF Move
  <2> QED BY <2>2, <2>3
<1> QED BY <1>1, <1>2, <1>3, <1>4, <1>5 DEF Next

\* The server only goes forward.
LEMMA ServerForward ==
    ASSUME TypeInv, [Next]_vars
    PROVE  server' \in Nat /\ server \in Nat /\ server' >= server
<1>1. server \in Nat
  BY ReleaseAssumption DEF TypeInv, TypeOK, Releases
<1>2. server' = server \/ server' = server + 1
  <2>1. CASE \E v \in Verifiers : StartVerify(v) \/ PlanStep(v)
    BY <2>1, VerifierAside
  <2>2. CASE \E f \in Fetchers : FetchStep(f)
    BY <2>2 DEF FetchStep, ReadOldManifest, PlanStep, ListDir, HashFile, SpareOld, UsePlan,
                CreateDir, DownloadWrite, DownloadVerify, IndexOneFile, PersistIndex,
                SaveManifest, DeleteFile, FinishFetch
  <2> QED BY <2>1, <2>2
          DEF Next, vars, Publish, Damage, StartFetch, Abort, OpenIndex, CheckStep,
              ReadFilter, FinishCheck
<1> QED BY <1>1, <1>2

\* A fetch that has begun in this step has taken the newest manifest.
LEMMA FreshStart ==
    ASSUME TypeInv, SerialFetch, [Next]_vars, ~Damage, [NewestTaken]_vars,
           NEW f \in Fetchers, Goes(f, "idle", "old")
    PROVE  job'[f].rel = server
<1>0. job \in [Jobs -> JobRecord] /\ f \in Jobs /\ job'[f] # job[f]
  BY DEF TypeInv, TypeOK, Jobs, Goes
<1>1. NewestTaken /\ Next
  BY <1>0 DEF vars
<1>2. ASSUME NEW g \in Fetchers, FetchStep(g)
      PROVE  FALSE
  <2>1. job[g].pc # "idle"
    BY <1>2 DEF FetchStep, ReadOldManifest, PlanStep, ListDir, HashFile, SpareOld, UsePlan,
                CreateDir, DownloadWrite, DownloadVerify, IndexOneFile, PersistIndex,
                SaveManifest, DeleteFile, FinishFetch
  <2> QED BY <2>1 DEF SerialFetch, Goes
<1>3. ASSUME NEW v \in Verifiers, StartVerify(v) \/ PlanStep(v)
      PROVE  FALSE
  BY <1>0, <1>3, VerifierAside
<1>4. ASSUME NEW j \in Jobs, Abort(j)
      PROVE  FALSE
  BY <1>0, <1>4 DEF Abort, Ended, IdleJob, Goes
<1>5. ASSUME NEW g \in Fetchers, NEW mode \in {"fetch", "dry"}, StartFetch(g, mode)
      PROVE  job'[f].rel = server
  BY <1>1, <1>5 DEF NewestTaken, SerialFetch
<1> QED BY <1>0, <1>1, <1>2, <1>3, <1>4, <1>5 DEF Next, Publish, OpenIndex, CheckStep,
           ReadFilter, FinishCheck

\* At first no fetch is under way and no release is published.
LEMMA OrderInit == Init => OrderInv
BY DEF Init, OrderInv, IdleJob, Jobs

\* With one fetch at a time, and a server that answers with its newest manifest,
\* no step replaces a manifest by an older one.
LEMMA OrderNext ==
    ASSUME TypeInv, OrderInv, SerialFetch, [Next]_vars, [NewestTaken]_vars
    PROVE  OrderInv'
<1>0. TypeInv'
  BY TypeNext
<1>1. server' \in Nat /\ server \in Nat /\ server' >= server
  BY ServerForward
<1>2. /\ index # NoIndex => index.rel \in Nat
      /\ index' # NoIndex => index'.rel \in Nat
      /\ \A f \in Fetchers : job[f].rel \in Nat /\ job'[f].rel \in Nat
  <2>1. \A x \in IndexFile : x.rel \in Nat
    BY ReleaseAssumption DEF IndexFile, Releases
  <2>2. \A x \in JobRecord : x.rel \in Nat
    BY ReleaseAssumption DEF JobRecord
  <2> QED BY <1>0, <2>1, <2>2 DEF TypeInv, TypeOK, Jobs
<1>3. CASE Damage
  <2>1. job' = job /\ server' = server /\ (index' = index \/ index' = NoIndex)
    BY <1>3 DEF Damage
  <2> QED BY <2>1 DEF OrderInv
<1>4. CASE ~Damage
  <2>1. ASSUME NEW f \in Fetchers
        PROVE  /\ index' # NoIndex => index'.rel <= server'
               /\ job'[f].pc # "idle" =>
                    /\ job'[f].rel <= server'
                    /\ index' # NoIndex => index'.rel <= job'[f].rel
    <3>1. Move(f)
      BY <1>4, EveryMove
    <3>2. CASE index' = index
      <4>1. index' # NoIndex => index'.rel <= server'
        BY <1>1, <1>2, <3>2 DEF OrderInv
      <4>2. CASE job[f].pc # "idle" /\ job'[f].rel = job[f].rel
        BY <1>1, <1>2, <3>2, <4>1, <4>2 DEF OrderInv
      <4>3. CASE Goes(f, "idle", "old")
        <5>1. job'[f].rel = server
          BY <1>4, <4>3, FreshStart
        <5> QED BY <1>1, <1>2, <3>2, <4>1, <5>1 DEF OrderInv
      <4>4. CASE job'[f].pc = "idle"
        BY <4>1, <4>4
      <4> QED BY <3>1, <3>2, <4>2, <4>3, <4>4
              DEF Move, MEnd, MStart, MOld, MList, MHash, MSpare, MPass, MGiveUp, MWrite, MPersist,
                  MSave, MDelete, Goes, Same
    <3>3. CASE index' # index
      <4>1. MPersist(f)
        BY <3>1, <3>3 DEF Move, MEnd, MStart, MOld, MList, MHash, MSpare, MPass, MGiveUp, MWrite,
                          MSave, MDelete, Quiet
      <4> QED BY <1>1, <1>2, <4>1 DEF MPersist, Goes, Same, OrderInv
    <3> QED BY <3>2, <3>3
  <2>2. CASE Fetchers = {}
    <3>1. index' = index
      <4>1. CASE \E v \in Verifiers : StartVerify(v) \/ PlanStep(v)
        BY <4>1, VerifierAside DEF Quiet
      <4> QED BY <1>4, <2>2, <4>1
              DEF Next, vars, Publish, Abort, OpenIndex, CheckStep, ReadFilter, FinishCheck,
                  cache
    <3> QED BY <1>1, <1>2, <2>2, <3>1 DEF OrderInv
  <2> QED BY <2>1, <2>2 DEF OrderInv
<1> QED BY <1>3, <1>4

-------------------------------------------------------------------------------
(***************************************************************************)
(* What a fetch leaves behind.                                             *)
(***************************************************************************)
\* An empty cache is tidy.
LEMMA TidyInit == Init => TidyInv /\ ManifestInv
BY DEF Init, TidyInv, FetchTidy, ManifestInv, IdleJob, Jobs, Planned

\* The primed form, with the prime moved to the variables.
LEMMA TidyPrimed ==
    ASSUME NEW f
    PROVE  /\ OldNames(f)' = IF job'[f].old = 0 THEN {} ELSE NamesOf(job'[f].old)
           /\ FetchTidy(f)' <=>
                /\ job'[f].pc \in {"list", "hash"} \cup (Planned \ {"delete"})
                     => manifest' = job'[f].old
                /\ job'[f].pc = "delete" => manifest' = job'[f].rel
                /\ job'[f].pc = "hash" =>
                     \A n \in Deletable : files'[n] # Absent =>
                         n \in job'[f].unwanted \cup Prefix(f)'
                /\ job'[f].pc \in Planned =>
                     /\ \A n \in Deletable : files'[n] # Absent =>
                          n \in job'[f].unwanted \cup NamesOf(job'[f].rel) \cup OldNames(f)'
                     /\ job'[f].unwanted \cap OldNames(f)' = {}
<1>1. /\ NamesOf(job[f].rel)' = NamesOf(job'[f].rel)
      /\ NamesOf(job[f].old)' = NamesOf(job'[f].old)
  BY DEF NamesOf, Files
<1>2. OldNames(f)' = IF job'[f].old = 0 THEN {} ELSE NamesOf(job'[f].old)
  BY <1>1 DEF OldNames
<1>3. Planned' = Planned
  BY DEF Planned
<1> QED BY <1>1, <1>2, <1>3 DEF FetchTidy

\* A step of a fetch itself keeps what it knows of the directory.
LEMMA TidyMove ==
    ASSUME TypeInv, NEW f \in Fetchers, FetchTidy(f), Move(f)
    PROVE  FetchTidy(f)'
<1>0. /\ job[f] \in JobRecord /\ files \in [Names -> Contents \cup {Absent}]
      /\ Deletable \subseteq Names /\ job[f].unwanted \subseteq Deletable
      /\ job[f].pc # "idle" => job[f].rel \in Releases
      /\ job[f].pos \in Nat
  BY NameAssumption DEF TypeInv, TypeOK, Jobs, JobShape, JobRecord
<1> DEFINE rel == job[f].rel
<1>1. ASSUME Same(f) PROVE OldNames(f)' = OldNames(f)
  BY <1>1, TidyPrimed DEF Same, OldNames
<1>2. CASE Quiet /\ job'[f] = job[f]
  <2>1. Prefix(f)' = Prefix(f) /\ OldNames(f)' = OldNames(f)
    BY <1>2, Primed, TidyPrimed DEF Prefix, OldNames
  <2> QED BY <1>2, <2>1, TidyPrimed DEF FetchTidy, Quiet
<1>3. CASE MEnd(f) \/ MStart(f)
  BY <1>3, TidyPrimed DEF MEnd, MStart, Goes, Planned
<1>4. CASE MOld(f)
  BY <1>4, TidyPrimed DEF MOld, Goes, Planned, Quiet
<1>5. CASE MList(f)
  BY <1>5, TidyPrimed DEF MList, Goes, Planned, Quiet, Same, FetchTidy
<1>6. CASE MHash(f)
  <2> DEFINE n == Files(rel)[job[f].pos].filename
  <2>1. /\ job[f].pc = "hash" /\ job'[f].pc = "hash" /\ job'[f].rel = rel
        /\ job'[f].old = job[f].old /\ files' = files /\ manifest' = manifest
        /\ job'[f].unwanted = job[f].unwanted \ {n}
        /\ job[f].pos \in DOMAIN Files(rel) /\ job'[f].pos = job[f].pos + 1
    BY <1>6 DEF MHash, Goes, Same, Quiet
  <2>2. n \in Prefix(f)' /\ Prefix(f) \subseteq Prefix(f)'
    <3>1. DOMAIN Files(rel) \subseteq Nat
      BY <1>0, <2>1, EntryType
    <3> QED BY <1>0, <2>1, <3>1, Primed DEF Prefix
  <2> QED BY <2>1, <2>2, TidyPrimed DEF FetchTidy, Planned
<1>7. CASE MSpare(f)
  <2>1. /\ job[f].pc = "hash" /\ job'[f].pc = "plan" /\ job'[f].rel = rel
        /\ job'[f].old = job[f].old /\ files' = files /\ manifest' = manifest
        /\ job'[f].unwanted = job[f].unwanted \ OldNames(f)
        /\ OldNames(f)' = OldNames(f)
    BY <1>1, <1>7 DEF MSpare, Goes, Same, Quiet
  <2>2. Prefix(f) \subseteq NamesOf(rel)
    BY DEF Prefix, NamesOf
  <2> QED BY <2>1, <2>2, TidyPrimed DEF FetchTidy, Planned
<1>8. CASE MPass(f) \/ MGiveUp(f)
  <2>1. /\ job[f].pc \in Planned /\ job'[f].pc \in Planned \ {"delete"}
        /\ job[f].pc # "delete" /\ job'[f].rel = rel
        /\ job'[f].old = job[f].old /\ files' = files /\ manifest' = manifest
        /\ job'[f].unwanted = job[f].unwanted
        /\ OldNames(f)' = OldNames(f)
    BY <1>1, <1>8 DEF MPass, MGiveUp, Goes, Same, Quiet, Planned
  <2> QED BY <2>1, TidyPrimed DEF FetchTidy, Planned
<1>9. CASE MWrite(f)
  <2>1. /\ job[f].pc = "download" /\ job'[f].pc = "check" /\ job'[f].rel = rel
        /\ job'[f].old = job[f].old /\ manifest' = manifest
        /\ job'[f].unwanted = job[f].unwanted
        /\ OldNames(f)' = OldNames(f)
    BY <1>1, <1>9 DEF MWrite, Goes, Same
  <2>2. PICK i \in DOMAIN Files(rel), c \in Contents :
          files' = [files EXCEPT ![Files(rel)[i].filename] = c]
    BY <1>9 DEF MWrite
  <2>3. \A n \in Deletable : files'[n] # Absent => files[n] # Absent \/ n \in NamesOf(rel)
    BY <1>0, <2>2 DEF NamesOf
  <2> QED BY <2>1, <2>3, TidyPrimed DEF FetchTidy, Planned
<1>10. CASE MPersist(f)
  <2>1. /\ job[f].pc = "index" /\ job'[f].pc = "manifest" /\ job'[f].rel = rel
        /\ job'[f].old = job[f].old /\ files' = files /\ manifest' = manifest
        /\ job'[f].unwanted = job[f].unwanted
        /\ OldNames(f)' = OldNames(f)
    BY <1>1, <1>10 DEF MPersist, Goes, Same
  <2> QED BY <2>1, TidyPrimed DEF FetchTidy, Planned
<1>11. CASE MSave(f)
  <2>1. /\ job[f].pc = "manifest" /\ job'[f].pc = "delete" /\ job'[f].rel = rel
        /\ job'[f].old = job[f].old /\ files' = files /\ manifest' = rel
        /\ job'[f].unwanted = job[f].unwanted
        /\ OldNames(f)' = OldNames(f)
    BY <1>1, <1>11 DEF MSave, Goes, Same
  <2> QED BY <2>1, TidyPrimed DEF FetchTidy, Planned
<1>12. CASE MDelete(f)
  <2>1. /\ job[f].pc = "delete" /\ job'[f].pc = "delete" /\ job'[f].rel = rel
        /\ job'[f].old = job[f].old /\ manifest' = manifest
        /\ OldNames(f)' = OldNames(f)
    BY <1>1, <1>12 DEF MDelete, Goes, Same
  <2>2. PICK n \in job[f].unwanted :
          /\ files' = [files EXCEPT ![n] = Absent]
          /\ job'[f].unwanted = job[f].unwanted \ {n}
    BY <1>12 DEF MDelete
  <2>3. files'[n] = Absent /\ \A m \in Deletable : m # n => files'[m] = files[m]
    BY <1>0, <2>2
  <2> QED BY <2>1, <2>2, <2>3, TidyPrimed DEF FetchTidy, Planned
<1> QED BY <1>2, <1>3, <1>4, <1>5, <1>6, <1>7, <1>8, <1>9, <1>10, <1>11, <1>12 DEF Move

\* Nor does any other step take it from the only fetch at work.
LEMMA TidyNext ==
    ASSUME TypeInv, TidyInv, SerialFetch, [Next]_vars
    PROVE  TidyInv'
<1>1. CASE Damage
  BY <1>1 DEF Damage, TidyInv
<1>2. CASE ~Damage
  BY <1>2, EveryMove, TidyMove DEF TidyInv
<1> QED BY <1>1, <1>2

\* Only the end of the plan is a success.
LEMMA SuccessEnds ==
    ASSUME TypeInv, SerialFetch, [Next]_vars, NEW f \in Fetchers,
           job[f].pc # "idle", job[f].mode = "fetch", job'[f].pc = "idle",
           job'[f].exit = "success"
    PROVE  FinishFetch(f)
<1>0. /\ job \in [Jobs -> JobRecord] /\ f \in Jobs /\ job[f] \in JobRecord
      /\ \A g \in Fetchers : f = g
  BY DEF TypeInv, TypeOK, Jobs, SerialFetch
<1>1. ASSUME job'[f] = job[f] PROVE FALSE
  BY <1>1
<1>2. ASSUME job' = [job EXCEPT ![f] = Ended(f, "error")] PROVE FALSE
  BY <1>0, <1>2 DEF Ended, IdleJob
<1>3. ASSUME FetchStep(f), ~FinishFetch(f) PROVE FALSE
  <2>1. Move(f) /\ job'[f].pc = "idle"
    BY <1>0, <1>3, FetchMoves
  <2>2. CASE UsePlan(f)
    <3>1. job'[f] = [job[f] EXCEPT !.pc = "mkdir"]
      BY <1>0, <2>2 DEF UsePlan
    <3>2. job'[f].pc = "mkdir"
      BY <1>0, <3>1 DEF JobRecord
    <3> QED BY <3>2
  <2>3. CASE DownloadVerify(f) \/ DeleteFile(f)
    <3>1. job' = [job EXCEPT ![f] = Ended(f, "error")] \/ job'[f].pc # "idle"
      BY <1>0, <2>3 DEF DownloadVerify, DeleteFile, AfterDownloads, JobRecord
    <3> QED BY <1>2, <3>1
  <2>4. CASE ReadOldManifest(f) \/ ListDir(f) \/ HashFile(f) \/ SpareOld(f)
    BY <1>0, <2>4 DEF ReadOldManifest, ListDir, HashFile, SpareOld, JobRecord
  <2>5. CASE CreateDir(f) \/ DownloadWrite(f)
    BY <1>0, <2>5 DEF CreateDir, DownloadWrite, AfterDownloads, JobRecord
  <2>6. CASE IndexOneFile(f)
    BY <1>0, <2>6 DEF IndexOneFile, JobRecord
  <2>7. CASE PersistIndex(f) \/ SaveManifest(f)
    BY <1>0, <2>7 DEF PersistIndex, SaveManifest, JobRecord
  <2> QED BY <1>3, <2>2, <2>3, <2>4, <2>5, <2>6, <2>7 DEF FetchStep, PlanStep
<1>4. ASSUME NEW j \in Jobs, Abort(j) PROVE FALSE
  BY <1>0, <1>1, <1>2, <1>4 DEF Abort
<1>5. ASSUME NEW v \in Verifiers, StartVerify(v) \/ PlanStep(v) PROVE FALSE
  BY <1>0, <1>1, <1>5, VerifierAside
<1>6. ASSUME NEW g \in Fetchers, NEW mode \in {"fetch", "dry"}, StartFetch(g, mode)
      PROVE  FALSE
  BY <1>0, <1>6 DEF StartFetch
<1> QED BY <1>0, <1>1, <1>3, <1>4, <1>5, <1>6
        DEF Next, vars, Publish, Damage, OpenIndex, CheckStep, ReadFilter, FinishCheck

\* There everything is in place.
LEMMA SyncedStep ==
    ASSUME SafeInv, TidyInv, SerialFetch, [Next]_vars, NEW f \in Fetchers,
           job[f].pc # "idle", job[f].mode = "fetch", job'[f].pc = "idle",
           job'[f].exit = "success", ~damaged
    PROVE  LocalMatches(job[f].rel, job[f].old)
<1>0. /\ TypeInv /\ job \in [Jobs -> JobRecord] /\ f \in Jobs /\ job[f] \in JobRecord
      /\ FetchSound(f) /\ FetchTidy(f) /\ IndexSound
      /\ \A g \in Fetchers : f = g
  BY DEF SafeInv, TypeInv, TypeOK, Jobs, PlanSound, TidyInv, SerialFetch
<1>1. FinishFetch(f)
  BY <1>0, SuccessEnds
<1>2. job[f].pc = "delete" /\ job[f].unwanted = {}
  BY <1>1 DEF FinishFetch
<1>3. index # NoIndex /\ index.rel = job[f].rel /\ manifest = job[f].rel
  BY <1>0, <1>2 DEF FetchSound, FetchTidy
<1>4. BadNames(files, job[f].rel) = {}
  BY <1>0, <1>3 DEF IndexSound
<1>5. \A n \in Deletable : files[n] # Absent => n \in NamesOf(job[f].rel) \cup OldNames(f)
  BY <1>0, <1>2 DEF FetchTidy, Planned
<1> QED BY <1>3, <1>4, <1>5 DEF LocalMatches, OldNames

\* "If that succeeds the remote server contents matches the local filesystem":
\* with one fetch at a time, whatever failed in earlier ones, a fetch that
\* exits successfully has put the whole release in place and removed every
\* filter that neither it nor its predecessor lists.
THEOREM SuccessIsSynced ==
    ASSUME SerialFetch, ImmutableNames, AllIndexable
    PROVE  Spec => SyncedOnSuccess
<1> DEFINE Inv == SafeInv /\ TidyInv
<1>1. Init => Inv
  BY SafeInit, TidyInit
<1>2. Inv /\ [Next]_vars => Inv'
  BY SafeNext, TidyNext DEF SafeInv
<1>3. Inv /\ [Next]_vars =>
        [\A f \in Fetchers :
            (/\ job[f].pc # "idle" /\ job[f].mode = "fetch"
             /\ job'[f].pc = "idle" /\ job'[f].exit = "success"
             /\ ~damaged) => LocalMatches(job[f].rel, job[f].old)]_vars
  BY SyncedStep
<1> QED BY <1>1, <1>2, <1>3, PTL DEF Spec, SyncedOnSuccess

-------------------------------------------------------------------------------
(***************************************************************************)
(* `upki verify`, beside any number of fetches and of anything else that   *)
(* writes to the directory.                                                *)
(***************************************************************************)
\* Every file that is watched is still bad for an entry of the manifest, and
\* the plan has that entry once it has come by.
WatchSound(v) ==
    job[v].pc # "idle" =>
        /\ job[v].mode = "verify" /\ job[v].pc \in {"list", "hash", "plan"}
        /\ \A n \in watch[v] : \E k \in DOMAIN Files(job[v].rel) :
             /\ Files(job[v].rel)[k].filename = n
             /\ ~Matches(files, Files(job[v].rel)[k])
             /\ (job[v].pc = "hash" /\ k < job[v].pos) => k \in job[v].todo
             /\ job[v].pc = "plan" => k \in job[v].todo
WatchInv == TypeInv /\ \A v \in Verifiers :
    WatchSound(v) /\ (job[v].exit = "success" => watch[v] = {})

\* WatchSound after a step.
LEMMA WatchPrimed ==
    ASSUME NEW v
    PROVE  WatchSound(v)' <=>
             (job'[v].pc # "idle" =>
                /\ job'[v].mode = "verify" /\ job'[v].pc \in {"list", "hash", "plan"}
                /\ \A n \in watch'[v] : \E k \in DOMAIN Files(job'[v].rel) :
                     /\ Files(job'[v].rel)[k].filename = n
                     /\ ~Matches(files', Files(job'[v].rel)[k])
                     /\ (job'[v].pc = "hash" /\ k < job'[v].pos) => k \in job'[v].todo
                     /\ job'[v].pc = "plan" => k \in job'[v].todo)
<1>2. \A k : Matches(files, Files(job[v].rel)[k])' <=> Matches(files', Files(job'[v].rel)[k])
  BY DEF Matches, Files
<1>3. Files(job[v].rel)' = Files(job'[v].rel)
  BY DEF Files
<1> QED BY <1>2, <1>3 DEF WatchSound

\* The others write a watched file only by taking it off the watch, or delete it.
LEMMA WatchKept ==
    ASSUME NEW v \in Verifiers, WatchSound(v), job[v].exit = "success" => watch[v] = {},
           job'[v] = job[v], watch'[v] \subseteq watch[v],
           \A n \in watch'[v] : files'[n] = files[n] \/ files'[n] = Absent
    PROVE  WatchSound(v)' /\ (job'[v].exit = "success" => watch'[v] = {})
<1>1. SUFFICES ASSUME job[v].pc # "idle", NEW n \in watch'[v]
      PROVE  \E k \in DOMAIN Files(job[v].rel) :
               /\ Files(job[v].rel)[k].filename = n
               /\ ~Matches(files', Files(job[v].rel)[k])
               /\ (job[v].pc = "hash" /\ k < job[v].pos) => k \in job[v].todo
               /\ job[v].pc = "plan" => k \in job[v].todo
  <2>1. WatchSound(v)'
    BY <1>1, WatchPrimed DEF WatchSound
  <2> QED BY <2>1
<1>2. PICK k \in DOMAIN Files(job[v].rel) :
               /\ Files(job[v].rel)[k].filename = n
               /\ ~Matches(files, Files(job[v].rel)[k])
               /\ (job[v].pc = "hash" /\ k < job[v].pos) => k \in job[v].todo
               /\ job[v].pc = "plan" => k \in job[v].todo
  BY <1>1 DEF WatchSound
<1>3. ~Matches(files', Files(job[v].rel)[k])
  BY <1>1, <1>2 DEF Matches
<1> QED BY <1>2, <1>3

\* What a verify has found to be wrong or missing comes from the release it reads.
LEMMA WatchOwn ==
    ASSUME TypeInv, SizesPositive, NEW v \in Verifiers, WatchSound(v),
           job[v].exit = "success" => watch[v] = {}, StartVerify(v) \/ PlanStep(v)
    PROVE  WatchSound(v)' /\ (job'[v].exit = "success" => watch'[v] = {})
<1>0. /\ job \in [Jobs -> JobRecord] /\ v \in Jobs /\ job[v] \in JobRecord
      /\ watch \in [Verifiers -> SUBSET Names] /\ JobShape
      /\ manifest \in 0 .. NumReleases
  BY DEF TypeInv, TypeOK, Jobs
<1>a. ASSUME job[v].pc # "idle" PROVE job[v].exit = "success" => watch[v] = {}
  OBVIOUS
<1>1. CASE StartVerify(v)
  <2>1. CASE manifest = 0
    <3>1. job'[v] = [IdleJob EXCEPT !.mode = "verify", !.exit = "error"]
      BY <1>0, <1>1, <2>1 DEF StartVerify
    <3>2. job'[v].pc = "idle" /\ job'[v].exit = "error"
      BY <3>1 DEF IdleJob
    <3> QED BY <3>2, WatchPrimed
  <2>2. CASE manifest # 0
    <3>1. /\ job'[v] = [IdleJob EXCEPT !.pc = "list", !.mode = "verify", !.rel = manifest]
          /\ watch'[v] = BadNames(files, manifest) /\ files' = files
      BY <1>0, <1>1, <2>2 DEF StartVerify, cache
    <3>2. /\ job'[v].pc = "list" /\ job'[v].mode = "verify" /\ job'[v].rel = manifest
          /\ job'[v].exit = "none"
      BY <3>1 DEF IdleJob
    <3>3. \A n \in watch'[v] : \E k \in DOMAIN Files(manifest) :
             Files(manifest)[k].filename = n /\ ~Matches(files, Files(manifest)[k])
      BY <3>1 DEF BadNames
    <3> QED BY <3>1, <3>2, <3>3, WatchPrimed
  <2> QED BY <2>1, <2>2
<1>2. CASE ListDir(v)
  <2>1. /\ job[v].pc = "list" /\ job'[v].pc = "hash" /\ job'[v].pos = 1
        /\ job'[v].mode = job[v].mode /\ job'[v].rel = job[v].rel
        /\ job'[v].exit = job[v].exit /\ files' = files /\ watch' = watch
    BY <1>0, <1>2 DEF ListDir, JobRecord, cache, history
  <2>2. \A k \in DOMAIN Files(job[v].rel) : ~(k < 1)
    BY <1>0, <2>1, EntryType DEF JobShape
  <2> QED BY <2>1, <2>2, WatchPrimed DEF WatchSound
<1>3. CASE HashFile(v)
  <2> DEFINE i == job[v].pos
             e == Files(job[v].rel)[i]
  <2>1. /\ job[v].pc = "hash" /\ job'[v].pc = "hash" /\ job'[v].pos = i + 1
        /\ job'[v].mode = job[v].mode /\ job'[v].rel = job[v].rel
        /\ job'[v].todo = IF Matches(files, e) THEN job[v].todo ELSE job[v].todo \cup {i}
        /\ job'[v].exit = job[v].exit /\ files' = files /\ watch' = watch
    BY <1>0, <1>3 DEF HashFile, JobRecord, cache, history
  <2>2. i \in Nat /\ DOMAIN Files(job[v].rel) \subseteq Nat
    BY <1>0, <2>1, EntryType DEF JobShape, JobRecord
  <2>3. ASSUME NEW n \in watch[v]
        PROVE  \E k \in DOMAIN Files(job[v].rel) :
                 /\ Files(job[v].rel)[k].filename = n
                 /\ ~Matches(files, Files(job[v].rel)[k])
                 /\ k < i + 1 => k \in job'[v].todo
    <3>1. PICK k \in DOMAIN Files(job[v].rel) :
                 /\ Files(job[v].rel)[k].filename = n
                 /\ ~Matches(files, Files(job[v].rel)[k])
                 /\ k < i => k \in job[v].todo
      BY <2>1 DEF WatchSound
    <3>2. CASE k = i
      BY <2>1, <3>1, <3>2
    <3>3. CASE k # i
      <4>1. k < i + 1 => k < i
        BY <2>2, <3>3
      <4> QED BY <2>1, <3>1, <4>1
    <3> QED BY <3>2, <3>3
  <2> QED BY <2>1, <2>3, WatchPrimed DEF WatchSound
<1>4. CASE SpareOld(v)
  <2>1. /\ job[v].pc = "hash" /\ job'[v].pc = "plan"
        /\ job'[v].mode = job[v].mode /\ job'[v].rel = job[v].rel
        /\ job'[v].todo = job[v].todo
        /\ job'[v].exit = job[v].exit /\ files' = files /\ watch' = watch
        /\ job[v].pos \notin DOMAIN Files(job[v].rel)
    BY <1>0, <1>4 DEF SpareOld, JobRecord, cache, history
  <2>2. \A k \in DOMAIN Files(job[v].rel) : k < job[v].pos
    <3>1. job[v].rel \in Releases /\ job[v].pos >= 1 /\ job[v].pos \in Nat
      BY <1>0, <2>1 DEF JobShape, JobRecord
    <3>2. Files(job[v].rel) \in Seq(ManifestFile)
      BY <3>1, ReleaseAssumption DEF Files
    <3>3. DOMAIN Files(job[v].rel) = 1 .. Len(Files(job[v].rel)) /\ Len(Files(job[v].rel)) \in Nat
      BY <3>2
    <3> QED BY <2>1, <3>1, <3>3
  <2> QED BY <2>1, <2>2, WatchPrimed DEF WatchSound
<1>5. CASE UsePlan(v)
  <2>1. job[v].pc = "plan" /\ job[v].mode = "verify" /\ watch' = watch /\ job[v].rel \in Releases
    BY <1>0, <1>5 DEF UsePlan, WatchSound, JobShape, history
  <2>2. job'[v] = Ended(v, IF NothingToDownload(v) THEN "success" ELSE "error")
    BY <1>0, <1>5, <2>1 DEF UsePlan
  <2>3. job'[v].pc = "idle" /\ (job'[v].exit = "success" => NothingToDownload(v))
    BY <2>2 DEF Ended, IdleJob
  <2>4. ASSUME NothingToDownload(v) PROVE watch[v] = {}
    <3> SUFFICES ASSUME NEW n \in watch[v] PROVE FALSE
      OBVIOUS
    <3>1. PICK k \in DOMAIN Files(job[v].rel) : k \in job[v].todo
      BY <2>1 DEF WatchSound
    <3>2. Files(job[v].rel)[k].size = 0
      BY <2>4, <3>1 DEF NothingToDownload
    <3>3. Files(job[v].rel)[k].size > 0
      BY <2>1, <3>1 DEF SizesPositive
    <3> QED BY <3>2, <3>3
  <2> QED BY <2>1, <2>3, <2>4, WatchPrimed
<1> QED BY <1>1, <1>2, <1>3, <1>4, <1>5 DEF PlanStep

\* And it stays so, whatever the others do meanwhile.
LEMMA WatchNext ==
    ASSUME WatchInv, SizesPositive, [Next]_vars
    PROVE  WatchInv'
<1>0. /\ TypeInv /\ TypeInv' /\ job \in [Jobs -> JobRecord]
      /\ Verifiers \subseteq Jobs /\ Fetchers \subseteq Jobs
      /\ \A f \in Fetchers : f \notin Verifiers
      /\ files \in [Names -> Contents \cup {Absent}]
      /\ watch \in [Verifiers -> SUBSET Names]
  BY TypeNext, ProcessAssumption DEF WatchInv, TypeInv, TypeOK, Jobs
<1>1. SUFFICES ASSUME NEW v \in Verifiers
               PROVE  WatchSound(v)' /\ (job'[v].exit = "success" => watch'[v] = {})
  BY <1>0 DEF WatchInv
<1>2. WatchSound(v) /\ (job[v].exit = "success" => watch[v] = {}) /\ v \in Jobs
  BY <1>0, <1>1 DEF WatchInv
<1>3. ASSUME job'[v] = job[v], watch'[v] \subseteq watch[v],
             \A n \in watch'[v] : files'[n] = files[n] \/ files'[n] = Absent
      PROVE  WatchSound(v)' /\ (job'[v].exit = "success" => watch'[v] = {})
  BY <1>2, <1>3, WatchKept
<1>4. CASE StartVerify(v) \/ PlanStep(v)
  BY <1>0, <1>2, <1>4, WatchOwn
<1>5. ASSUME NEW w \in Verifiers, w # v, StartVerify(w) \/ PlanStep(w)
      PROVE  WatchSound(v)' /\ (job'[v].exit = "success" => watch'[v] = {})
  <2>1. job'[v] = job[v]
    BY <1>0, <1>2, <1>5 DEF StartVerify, PlanStep, ListDir, HashFile, SpareOld, UsePlan
  <2>2. watch'[v] = watch[v] /\ files' = files
    BY <1>0, <1>5 DEF StartVerify, PlanStep, ListDir, HashFile, SpareOld, UsePlan, cache, history
  <2> QED BY <1>3, <2>1, <2>2
<1>6. ASSUME NEW j \in Jobs, Abort(j)
      PROVE  WatchSound(v)' /\ (job'[v].exit = "success" => watch'[v] = {})
  <2>1. files' = files /\ watch' = watch
    BY <1>6 DEF Abort, cache
  <2>2. CASE j = v
    <3>1. job'[v] = Ended(v, "error")
      BY <1>2, <1>0, <1>6, <2>2 DEF Abort
    <3>2. job'[v].pc = "idle" /\ job'[v].exit = "error"
      BY <3>1 DEF Ended, IdleJob
    <3> QED BY <3>2, WatchPrimed
  <2>3. CASE j # v
    <3>1. job'[v] = job[v]
      BY <1>0, <1>2, <1>6, <2>3 DEF Abort
    <3> QED BY <1>3, <2>1, <3>1
  <2> QED BY <2>2, <2>3
<1>7. ASSUME NEW f \in Fetchers, FetchStep(f)
      PROVE  WatchSound(v)' /\ (job'[v].exit = "success" => watch'[v] = {})
  <2>0. f # v /\ f \in Jobs
    BY <1>0, <1>1
  <2>1. CASE DownloadWrite(f)
    <3>1. job'[v] = job[v]
      BY <1>0, <1>2, <2>0, <2>1 DEF DownloadWrite
    <3>2. PICK n, c : /\ files' = [files EXCEPT ![n] = c]
                      /\ watch' = [u \in Verifiers |-> watch[u] \ {n}]
      BY <2>1 DEF DownloadWrite
    <3>3. watch'[v] = watch[v] \ {n}
      BY <1>1, <3>2
    <3>4. \A m \in watch'[v] : files'[m] = files[m]
      BY <1>0, <3>2, <3>3
    <3> QED BY <1>3, <3>1, <3>3, <3>4
  <2>2. CASE DeleteFile(f)
    <3>1. job'[v] = job[v] /\ watch' = watch
      BY <1>0, <1>2, <2>0, <2>2 DEF DeleteFile, history
    <3>2. files' = files \/ \E n : files' = [files EXCEPT ![n] = Absent]
      BY <2>2 DEF DeleteFile
    <3>3. \A m \in watch[v] : files'[m] = files[m] \/ files'[m] = Absent
      BY <1>0, <1>1, <3>2
    <3> QED BY <1>3, <3>1, <3>3
  <2>3. CASE ReadOldManifest(f) \/ PlanStep(f)
    <3>1. job'[v] = job[v] /\ watch' = watch /\ files' = files
      BY <1>0, <1>2, <2>0, <2>3 DEF ReadOldManifest, PlanStep, ListDir, HashFile, SpareOld,
                                    UsePlan, cache, history
    <3> QED BY <1>3, <3>1
  <2>4. CASE \/ CreateDir(f) \/ DownloadVerify(f) \/ IndexOneFile(f) \/ PersistIndex(f)
             \/ SaveManifest(f) \/ FinishFetch(f)
    <3>1. job'[v] = job[v] /\ watch' = watch /\ files' = files
      BY <1>0, <1>2, <2>0, <2>4 DEF CreateDir, DownloadVerify, IndexOneFile, PersistIndex,
                                    SaveManifest, FinishFetch, cache, history
    <3> QED BY <1>3, <3>1
  <2> QED BY <1>7, <2>1, <2>2, <2>3, <2>4 DEF FetchStep
<1>8. ASSUME NEW f \in Fetchers, NEW mode \in {"fetch", "dry"}, StartFetch(f, mode)
      PROVE  WatchSound(v)' /\ (job'[v].exit = "success" => watch'[v] = {})
  <2>1. job'[v] = job[v] /\ watch' = watch /\ files' = files
    BY <1>0, <1>1, <1>2, <1>8 DEF StartFetch, cache, history
  <2> QED BY <1>3, <2>1
<1>9. CASE Damage
  <2>1. job' = job /\ watch' = [u \in Verifiers |-> watch[u] \ {n \in Names : files'[n] # files[n]}]
    BY <1>9 DEF Damage
  <2>2. watch'[v] = watch[v] \ {n \in Names : files'[n] # files[n]}
    BY <1>1, <2>1
  <2> QED BY <1>0, <1>1, <1>3, <2>1, <2>2
<1>10. CASE Publish \/ UNCHANGED vars \/ \E c \in Checkers : OpenIndex(c) \/ CheckStep(c)
  <2>1. job' = job /\ watch' = watch /\ files' = files
    BY <1>10 DEF Publish, vars, OpenIndex, CheckStep, ReadFilter, FinishCheck, cache, history
  <2> QED BY <1>3, <2>1
<1> QED BY <1>4, <1>5, <1>6, <1>7, <1>8, <1>9, <1>10 DEF Next

\* `upki verify` "Exits non-zero ... if any filter file is missing or corrupt":
\* beside any number of overlapping fetches, with any storage damage, it never
\* succeeds while a file of its manifest is bad all the time; provided that no
\* manifest gives a file the size 0, which download_bytes() would not count.
THEOREM VerifyIsSound ==
    ASSUME SizesPositive
    PROVE  Spec => []VerifySound
<1>1. Init => WatchInv
  <2> SUFFICES ASSUME Init PROVE WatchInv
    OBVIOUS
  <2>1. \A v \in Verifiers : job[v].pc = "idle" /\ job[v].exit = "none"
    BY DEF Init, IdleJob, Jobs
  <2> QED BY <2>1, TypeInit DEF WatchInv, WatchSound
<1>2. WatchInv /\ [Next]_vars => WatchInv'
  BY WatchNext
<1>3. WatchInv => VerifySound
  BY DEF WatchInv, VerifySound
<1> QED BY <1>1, <1>2, <1>3, PTL DEF Spec

-------------------------------------------------------------------------------
(***************************************************************************)
(* Checks that read filters while a fetch replaces them.                   *)
(***************************************************************************)
\* Index::write has no reason to give up.
LEMMA NoGiveUp ==
    ASSUME SafeInv, AllIndexable, ~damaged, NEW f \in Fetchers, MGiveUp(f)
    PROVE  FALSE
<1>1. PICK i \in DOMAIN Files(job[f].rel) :
        \/ Files(job[f].rel)[i].filename \in LongNames
        \/ files[Files(job[f].rel)[i].filename] \notin Decodable
  BY DEF MGiveUp
<1>2. job[f].pc = "index" /\ job[f].rel \in Releases /\ FetchSound(f) /\ TypeOK
  BY DEF MGiveUp, Goes, SafeInv, TypeInv, JobShape, Jobs, PlanSound
<1>3. Matches(files, Files(job[f].rel)[i])
  BY <1>2 DEF FetchSound
<1>4. files[Files(job[f].rel)[i].filename] \in Contents
  BY <1>2, <1>3, EntryType DEF Matches, TypeOK
<1> QED BY <1>1, <1>2, <1>3, <1>4 DEF AllIndexable, Matches

\* Without a fetcher nothing happens to the cache.
LEMMA NobodyFetches ==
    ASSUME TypeInv, [Next]_vars, ~Damage, Fetchers = {}
    PROVE  Quiet /\ damaged' = damaged /\ orphaned \subseteq orphaned'
<1>1. CASE \E v \in Verifiers : StartVerify(v) \/ PlanStep(v)
  BY <1>1, VerifierAside
<1> QED BY <1>1 DEF Next, vars, Publish, Abort, OpenIndex, CheckStep, ReadFilter,
                    FinishCheck, cache, history, Quiet

\* What the published manifest lists stays in the directory.
LEMMA ManifestNext ==
    ASSUME SafeInv, TidyInv, ManifestInv, SerialFetch, AllIndexable, [Next]_vars
    PROVE  ManifestInv'
<1>1. CASE Damage
  BY <1>1 DEF Damage, ManifestInv
<1>2. CASE ~Damage /\ Fetchers = {}
  BY <1>2, NobodyFetches DEF ManifestInv, Quiet, SafeInv
<1>3. ASSUME ~Damage, NEW f \in Fetchers PROVE ManifestInv'
  <2>0. Move(f) /\ damaged' = damaged /\ orphaned \subseteq orphaned' /\ \A g \in Fetchers : f = g
    BY <1>3, EveryMove DEF SafeInv, SerialFetch
  <2>1. SUFFICES ASSUME ~damaged, index' # NoIndex
                 PROVE  \/ manifest' = index'.rel
                        \/ index'.rel \in orphaned'
                        \/ job'[f].pc = "manifest"
    BY <1>3, <2>0 DEF ManifestInv
  <2>2. FetchSound(f)
    BY <1>3, <2>1 DEF SafeInv, PlanSound
  <2>3. index # NoIndex => \/ manifest = index.rel
                           \/ index.rel \in orphaned
                           \/ job[f].pc = "manifest"
    BY <2>0, <2>1 DEF ManifestInv
  <2>4. CASE Quiet /\ job'[f] = job[f]
    BY <2>0, <2>1, <2>3, <2>4 DEF Quiet
  <2>5. CASE MEnd(f)
    BY <2>0, <2>1, <2>2, <2>3, <2>5 DEF MEnd, Quiet, FetchSound
  <2>6. CASE MStart(f) \/ MOld(f) \/ MList(f) \/ MHash(f) \/ MSpare(f) \/ MPass(f)
    BY <2>0, <2>1, <2>3, <2>6 DEF MStart, MOld, MList, MHash, MSpare, MPass, Quiet, Goes
  <2>7. CASE MWrite(f) \/ MDelete(f)
    BY <2>0, <2>1, <2>3, <2>7 DEF MWrite, MDelete, Goes
  <2>8. CASE MPersist(f) \/ MGiveUp(f)
    BY <2>8 DEF MPersist, MGiveUp, Goes
  <2>9. CASE MSave(f)
    BY <2>1, <2>2, <2>9 DEF MSave, Goes, FetchSound
  <2> QED BY <2>0, <2>4, <2>5, <2>6, <2>7, <2>8, <2>9 DEF Move
<1> QED BY <1>1, <1>2, <1>3

\* The verdicts of Truth.
LEMMA TruthRevoked ==
    ASSUME NEW r, NEW x, NEW i \in DOMAIN Files(r), NEW d \in Contents,
           IsFile(r, i, d), Status[d][x] = "Revoked"
    PROVE  Truth(r, x) = "CertainlyRevoked"
BY DEF Truth, IsFile

\* Without a filter that says revoked, one that says good decides.
LEMMA TruthElse ==
    ASSUME NEW r, NEW x,
           \A i \in DOMAIN Files(r), d \in Contents :
              IsFile(r, i, d) => Status[d][x] # "Revoked"
    PROVE  Truth(r, x) =
             IF \E i \in DOMAIN Files(r), d \in Contents :
                   IsFile(r, i, d) /\ Status[d][x] = "Good"
             THEN "NotRevoked" ELSE "NotCoveredByRevocationData"
<1> DEFINE said == {Status[c][x] : c \in {d \in Contents :
                      \E i \in DOMAIN Files(r) : Files(r)[i].hash = Digest[d]}}
<1>1. "Revoked" \notin said
  BY DEF IsFile
<1>2. "Good" \in said <=> \E i \in DOMAIN Files(r), d \in Contents :
                              IsFile(r, i, d) /\ Status[d][x] = "Good"
  BY DEF IsFile
<1>3. Truth(r, x) = IF "Revoked" \in said THEN "CertainlyRevoked"
                    ELSE IF "Good" \in said THEN "NotRevoked"
                    ELSE "NotCoveredByRevocationData"
  BY DEF Truth
<1> HIDE DEF said
<1> QED BY <1>1, <1>2, <1>3

\* What the files of a check's release are, as far as they are there.
LEMMA KeptFile ==
    ASSUME TypeInv, AllIndexable, NEW r \in Releases, NEW i \in DOMAIN Files(r),
           Matches(files, Files(r)[i])
    PROVE  LET n == Files(r)[i].filename
           IN files[n] \in Decodable /\ IsFile(r, i, files[n])
<1>1. files[Files(r)[i].filename] \in Contents
  BY EntryType DEF Matches, TypeInv, TypeOK
<1> QED BY <1>1 DEF AllIndexable, Matches, IsFile

\* What a check that opens index.bin can rely on.
LEMMA OpenSound ==
    ASSUME SafeInv, AllIndexable, ~damaged, index # NoIndex, NEW x \in Certs
    PROVE  /\ index.rel \in Releases
           /\ CoverSound(index)
           /\ KeptOrGone(index.rel)
           /\ \A i \in DOMAIN Files(index.rel), d \in Contents :
                (IsFile(index.rel, i, d) /\ Files(index.rel)[i].filename \notin Consulted(index, x))
                   => Status[d][x] = "NotCovered"
<1>0. TypeInv /\ index \in IndexFile /\ index.rel \in Releases
  BY DEF SafeInv, TypeInv, TypeOK, IndexFile
<1>1. \A i \in DOMAIN Files(index.rel) : Matches(files, Files(index.rel)[i])
  BY NoBadNames DEF SafeInv, IndexSound
<1>2. \A n \in Names : index.cover[n] = IF n \in NamesOf(index.rel)
                                        THEN Universe(files[n]) ELSE {}
  BY DEF SafeInv, IndexSound
<1>3. \A i \in DOMAIN Files(index.rel) :
        LET n == Files(index.rel)[i].filename
        IN /\ n \in Names /\ files[n] \in Decodable /\ IsFile(index.rel, i, files[n])
           /\ index.cover[n] = Universe(files[n])
  BY <1>0, <1>1, <1>2, KeptFile, EntryType DEF NamesOf
<1>4. CoverSound(index)
  BY <1>2, <1>3 DEF CoverSound
<1>5. KeptOrGone(index.rel)
  BY <1>1 DEF KeptOrGone
<1>6. ASSUME NEW i \in DOMAIN Files(index.rel), NEW d \in Contents, IsFile(index.rel, i, d),
             Files(index.rel)[i].filename \notin Consulted(index, x)
      PROVE  Status[d][x] = "NotCovered"
  <2>1. files[Files(index.rel)[i].filename] = d
    BY <1>3, <1>6, ContentAssumption, DigestInjective DEF IsFile
  <2>2. x \notin Universe(d)
    BY <1>3, <1>6, <2>1 DEF Consulted
  <2> QED BY <2>2 DEF Universe
<1> QED BY <1>0, <1>4, <1>5, <1>6

\* The primed form, with the prime moved to the variables.
LEMMA ReadPrimed ==
    ASSUME NEW c
    PROVE  ReadSound(c)' <=>
      ((~damaged' /\ chk'[c].pc = "reading") =>
        /\ chk'[c].snap # NoIndex /\ index' # NoIndex /\ chk'[c].snap.rel <= index'.rel
        /\ chk'[c].result = "none"
        /\ chk'[c].todo \subseteq Consulted(chk'[c].snap, chk'[c].cert)
        /\ CoverSound(chk'[c].snap)
        /\ \A i \in DOMAIN Files(chk'[c].snap.rel) :
             LET e == Files(chk'[c].snap.rel)[i]
             IN files'[e.filename] = Absent \/ Matches(files', e)
        /\ AskedSound(chk'[c])
        /\ chk'[c].age = 0 => index'.rel = chk'[c].snap.rel
        /\ (chk'[c].age = 1 /\ chk'[c].snap.rel \notin orphaned') =>
             /\ \A i \in DOMAIN Files(chk'[c].snap.rel) :
                  Matches(files', Files(chk'[c].snap.rel)[i])
             /\ \A f \in Fetchers : job'[f].pc \in {"manifest", "delete"} =>
                  job'[f].old = chk'[c].snap.rel)
<1>1. Consulted(chk[c].snap, chk[c].cert)' = Consulted(chk'[c].snap, chk'[c].cert)
  BY DEF Consulted
<1>2. CoverSound(chk[c].snap)' <=> CoverSound(chk'[c].snap)
  BY DEF CoverSound, IsFile, Universe, NamesOf, Files
<1>3. KeptOrGone(chk[c].snap.rel)' <=>
         \A i \in DOMAIN Files(chk'[c].snap.rel) :
             LET e == Files(chk'[c].snap.rel)[i]
             IN files'[e.filename] = Absent \/ Matches(files', e)
  BY DEF KeptOrGone, Files, Matches
<1>4. AskedSound(chk[c])' <=> AskedSound(chk'[c])
  BY DEF AskedSound, IsFile, Files
<1>5. GraceSound(chk[c])' <=>
        /\ chk'[c].age = 0 => index'.rel = chk'[c].snap.rel
        /\ (chk'[c].age = 1 /\ chk'[c].snap.rel \notin orphaned') =>
             /\ \A i \in DOMAIN Files(chk'[c].snap.rel) :
                  Matches(files', Files(chk'[c].snap.rel)[i])
             /\ \A f \in Fetchers : job'[f].pc \in {"manifest", "delete"} =>
                  job'[f].old = chk'[c].snap.rel
  BY DEF GraceSound, Files, Matches
<1> QED BY <1>1, <1>2, <1>3, <1>4, <1>5 DEF ReadSound

\* Under a check, a file of its release stays or is deleted, and it stays if
\* the check is in its grace.
LEMMA FilesUnderCheck ==
    ASSUME SafeInv, OrderInv, TidyInv, SerialFetch, NamesRetire, ~damaged,
           NEW f \in Fetchers, Move(f),
           index # NoIndex, NEW r \in Releases, r <= index.rel,
           NEW n \in NamesOf(r)
    PROVE  /\ files'[n] = files[n] \/ files'[n] = Absent
           /\ ~(job[f].pc = "delete" /\ job[f].old # r) => files'[n] = files[n]
<1>0. /\ TypeOK /\ FetchSound(f) /\ FetchTidy(f) /\ job[f] \in JobRecord
      /\ index.rel \in Releases /\ files \in [Names -> Contents \cup {Absent}]
      /\ n \in Names /\ r # 0
      /\ job[f].pc # "idle" => job[f].rel \in Releases
  BY EntryType DEF SafeInv, TypeInv, TypeOK, PlanSound, TidyInv, Jobs, IndexFile, JobShape,
                   Releases
<1>1. CASE files' = files
  BY <1>1
<1>2. CASE MWrite(f)
  <2>1. PICK i \in DOMAIN Files(job[f].rel), c \in Contents :
          i \in job[f].todo /\ files' = [files EXCEPT ![Files(job[f].rel)[i].filename] = c]
    BY <1>2 DEF MWrite
  <2> DEFINE m == Files(job[f].rel)[i].filename
  <2>2. m \notin NamesOf(index.rel) /\ m \in NamesOf(job[f].rel)
    BY <1>0, <1>2, <2>1 DEF MWrite, Goes, FetchSound, DownloadsAside, NamesOf
  <2>3. index.rel <= job[f].rel /\ job[f].rel \in Releases
    BY <1>0, <1>2 DEF MWrite, Goes, OrderInv
  <2>4. m \notin NamesOf(r)
    BY <1>0, <2>2, <2>3 DEF NamesRetire
  <2> QED BY <1>0, <2>1, <2>4
<1>3. CASE MDelete(f)
  <2>1. PICK m \in job[f].unwanted : files' = [files EXCEPT ![m] = Absent]
    BY <1>3 DEF MDelete
  <2>2. files'[n] = files[n] \/ files'[n] = Absent
    BY <1>0, <2>1
  <2>3. ASSUME job[f].old = r PROVE files'[n] = files[n]
    <3>1. m \notin NamesOf(r)
      BY <1>0, <1>3, <2>1, <2>3 DEF MDelete, Goes, FetchTidy, OldNames, Planned
    <3> QED BY <1>0, <2>1, <3>1
  <2> QED BY <1>3, <2>2, <2>3 DEF MDelete, Goes
<1> QED BY <1>1, <1>2, <1>3
        DEF Move, MEnd, MStart, MOld, MList, MHash, MSpare, MPass, MGiveUp, MPersist, MSave,
            Quiet

\* A check is not disturbed by a step that leaves it and the index alone.
LEMMA ReadKept ==
    ASSUME SafeInv, OrderInv, TidyInv, ReadInv, SerialFetch, NamesRetire, AllIndexable,
           ~damaged', damaged' = damaged, orphaned \subseteq orphaned',
           Quiet \/ Fetchers # {},
           \A f \in Fetchers : Move(f),
           NEW c \in Checkers, chk'[c] = chk[c], index' = index
    PROVE  ReadSound(c)'
<1> SUFFICES ASSUME chk[c].pc = "reading" PROVE ReadSound(c)'
  BY ReadPrimed
<1> DEFINE k == chk[c]
           r == k.snap.rel
<1>0. TypeInv /\ chk[c] \in CheckRecord /\ k.snap \in IndexFile /\ r \in Releases
  BY DEF SafeInv, TypeInv, TypeOK, CheckRecord, ReadInv, ReadSound, IndexFile
<1>1. /\ k.snap # NoIndex /\ index # NoIndex /\ r <= index.rel /\ k.result = "none"
      /\ k.todo \subseteq Consulted(k.snap, k.cert)
      /\ CoverSound(k.snap) /\ KeptOrGone(r) /\ AskedSound(k) /\ GraceSound(k)
  BY DEF ReadInv, ReadSound
<1>2. ASSUME NEW i \in DOMAIN Files(r)
      PROVE  LET e == Files(r)[i] IN files'[e.filename] = Absent \/ Matches(files', e)
  <2> DEFINE e == Files(r)[i]
  <2>1. e.filename \in NamesOf(r)
    BY DEF NamesOf
  <2>2. files'[e.filename] = files[e.filename] \/ files'[e.filename] = Absent
    BY <1>0, <1>1, <2>1, FilesUnderCheck DEF Quiet
  <2> QED BY <1>1, <2>2 DEF KeptOrGone, Matches
<1>3. ASSUME k.age = 1, r \notin orphaned'
      PROVE  /\ \A i \in DOMAIN Files(r) : Matches(files', Files(r)[i])
             /\ \A f \in Fetchers : job'[f].pc \in {"manifest", "delete"} => job'[f].old = r
  <2>1. /\ \A i \in DOMAIN Files(r) : Matches(files, Files(r)[i])
        /\ \A f \in Fetchers : job[f].pc \in {"manifest", "delete"} => job[f].old = r
    BY <1>1, <1>3 DEF GraceSound
  <2>2. ASSUME NEW i \in DOMAIN Files(r) PROVE Matches(files', Files(r)[i])
    <3>1. Files(r)[i].filename \in NamesOf(r)
      BY DEF NamesOf
    <3>2. files'[Files(r)[i].filename] = files[Files(r)[i].filename]
      BY <1>0, <1>1, <2>1, <3>1, FilesUnderCheck DEF Quiet
    <3> QED BY <2>1, <3>2 DEF Matches
  <2>3. ASSUME NEW f \in Fetchers, job'[f].pc \in {"manifest", "delete"}
        PROVE  job'[f].old = r
    <3>1. Move(f) /\ ~MGiveUp(f)
      BY NoGiveUp
    <3>2. CASE MPersist(f)
      <4>1. chk'[c] = [k EXCEPT !.age = IF k.pc = "reading" /\ @ < 2 THEN @ + 1 ELSE @]
        BY <3>2 DEF MPersist
      <4>2. chk'[c].age = 2
        BY <1>0, <1>3, <4>1 DEF CheckRecord
      <4> QED BY <1>3, <4>2
    <3>3. CASE ~MPersist(f)
      <4>1. job[f].pc \in {"manifest", "delete"} /\ job'[f].old = job[f].old
        BY <2>3, <3>1, <3>3 DEF Move, MEnd, MStart, MOld, MList, MHash, MSpare, MPass, MWrite,
                                MSave, MDelete, Goes, Same
      <4> QED BY <2>1, <4>1
    <3> QED BY <3>2, <3>3
  <2> QED BY <2>2, <2>3
<1> QED BY <1>1, <1>2, <1>3, ReadPrimed DEF GraceSound

\* A new index uses up the grace of a check that has the one before, and the
\* fetch that installs it spares the files of that one.
LEMMA ReadPersist ==
    ASSUME SafeInv, OrderInv, TidyInv, ManifestInv, ReadInv, SerialFetch,
           ~damaged', damaged' = damaged, orphaned \subseteq orphaned',
           NEW f \in Fetchers, MPersist(f), NEW c \in Checkers
    PROVE  ReadSound(c)'
<1> DEFINE k == chk[c]
           r == k.snap.rel
<1>0. TypeInv /\ k \in CheckRecord
  BY DEF SafeInv, TypeInv, TypeOK
<1>1. chk'[c] = [k EXCEPT !.age = IF k.pc = "reading" /\ @ < 2 THEN @ + 1 ELSE @]
  BY DEF MPersist
<1>2. /\ chk'[c].pc = k.pc /\ chk'[c].snap = k.snap /\ chk'[c].cert = k.cert
      /\ chk'[c].todo = k.todo /\ chk'[c].good = k.good /\ chk'[c].result = k.result
      /\ k.pc = "reading" => chk'[c].age # 0 /\ (chk'[c].age = 1 => k.age = 0)
  BY <1>0, <1>1 DEF CheckRecord
<1> SUFFICES ASSUME k.pc = "reading" PROVE ReadSound(c)'
  BY <1>2, ReadPrimed
<1>3. /\ k.snap # NoIndex /\ index # NoIndex /\ r <= index.rel /\ k.result = "none"
      /\ k.todo \subseteq Consulted(k.snap, k.cert)
      /\ CoverSound(k.snap) /\ KeptOrGone(r) /\ AskedSound(k) /\ GraceSound(k)
  BY DEF ReadInv, ReadSound
<1>4. /\ files' = files /\ index' # NoIndex /\ index'.rel = job[f].rel
      /\ job[f].pc = "index" /\ job'[f].pc = "manifest" /\ job'[f].old = job[f].old
  BY DEF MPersist, Goes, Same
<1>5. r <= index'.rel
  <2>1. index.rel <= job[f].rel
    BY <1>3, <1>4 DEF OrderInv
  <2>2. r \in Nat /\ index.rel \in Nat /\ job[f].rel \in Nat
    <3>1. \A x \in IndexFile : x.rel \in Nat
      BY ReleaseAssumption DEF IndexFile, Releases
    <3>2. \A x \in JobRecord : x.rel \in Nat
      BY ReleaseAssumption DEF JobRecord
    <3>3. k.snap \in IndexFile /\ index \in IndexFile
      BY <1>0, <1>3 DEF TypeInv, TypeOK, CheckRecord
    <3> QED BY <1>0, <3>1, <3>2, <3>3 DEF TypeInv, TypeOK, Jobs
  <2> QED BY <1>3, <1>4, <2>1, <2>2
<1>6. AskedSound(chk'[c])
  BY <1>2, <1>3 DEF AskedSound
<1>7. ASSUME k.age = 0, r \notin orphaned'
      PROVE  /\ \A i \in DOMAIN Files(r) : Matches(files', Files(r)[i])
             /\ \A g \in Fetchers : job'[g].old = r
  <2>1. index.rel = r
    BY <1>3, <1>7 DEF GraceSound
  <2>2. \A i \in DOMAIN Files(r) : Matches(files, Files(r)[i])
    BY <1>3, <2>1, NoBadNames DEF SafeInv, IndexSound
  <2>3. \A g \in Fetchers : f = g
    BY DEF SerialFetch
  <2>4. manifest = r
    BY <1>3, <1>4, <1>7, <2>1, <2>3 DEF ManifestInv
  <2>5. job[f].old = r
    BY <1>4, <2>4 DEF TidyInv, FetchTidy, Planned
  <2> QED BY <1>4, <2>2, <2>3, <2>5
<1> QED BY <1>2, <1>3, <1>4, <1>5, <1>6, <1>7, ReadPrimed DEF KeptOrGone

\* What was read of a check's record by the end of its steps.
Concluded(c) ==
    /\ (~damaged /\ chk[c].result \in Verdicts) => chk[c].result = Truth(chk[c].snap.rel, chk[c].cert)
    /\ chk[c].result \in {"FileRead", "FileDecode"} =>
         damaged \/ chk[c].age = 2 \/ chk[c].snap.rel \in orphaned

\* Concluded after a step.
LEMMA ConcludedPrimed ==
    ASSUME NEW c
    PROVE  Concluded(c)' <=>
      /\ (~damaged' /\ chk'[c].result \in Verdicts)
           => chk'[c].result = Truth(chk'[c].snap.rel, chk'[c].cert)
      /\ chk'[c].result \in {"FileRead", "FileDecode"} =>
           damaged' \/ chk'[c].age = 2 \/ chk'[c].snap.rel \in orphaned'
<1>1. Truth(chk[c].snap.rel, chk[c].cert)' = Truth(chk'[c].snap.rel, chk'[c].cert)
  BY DEF Truth, Files
<1>2. Verdicts' = Verdicts
  BY DEF Verdicts
<1> QED BY <1>1, <1>2 DEF Concluded

\* Index::from_cache.
LEMMA OpenStep ==
    ASSUME SafeInv, AllIndexable, NEW c \in Checkers, OpenIndex(c)
    PROVE  ReadSound(c)' /\ Concluded(c)'
<1>0. TypeInv /\ chk \in [Checkers -> CheckRecord]
  BY DEF SafeInv, TypeInv, TypeOK
<1>1. PICK x \in Certs :
        chk' = [chk EXCEPT ![c] =
                   IF index = NoIndex
                   THEN [IdleCheck EXCEPT !.cert = x, !.result = "IndexError"]
                   ELSE [IdleCheck EXCEPT !.pc = "reading", !.cert = x, !.snap = index,
                                          !.todo = Consulted(index, x)]]
  BY DEF OpenIndex
<1>2. /\ files' = files /\ index' = index /\ damaged' = damaged /\ job' = job
      /\ orphaned' = orphaned
  BY DEF OpenIndex, cache, history
<1>3. CASE index = NoIndex
  <2>1. chk'[c].pc = "idle" /\ chk'[c].result = "IndexError"
    BY <1>0, <1>1, <1>3 DEF IdleCheck
  <2> QED BY <2>1, ReadPrimed, ConcludedPrimed DEF Verdicts
<1>4. CASE index # NoIndex
  <2>1. /\ chk'[c].pc = "reading" /\ chk'[c].cert = x /\ chk'[c].snap = index
        /\ chk'[c].todo = Consulted(index, x) /\ chk'[c].good = FALSE /\ chk'[c].age = 0
        /\ chk'[c].result = "none"
    BY <1>0, <1>1, <1>4 DEF IdleCheck
  <2>2. Concluded(c)'
    BY <2>1, ConcludedPrimed DEF Verdicts
  <2>3. CASE damaged
    BY <1>2, <2>2, <2>3, ReadPrimed
  <2>4. CASE ~damaged
    <3>1. /\ index.rel \in Releases /\ CoverSound(index) /\ KeptOrGone(index.rel)
          /\ \A i \in DOMAIN Files(index.rel), d \in Contents :
               (IsFile(index.rel, i, d) /\ Files(index.rel)[i].filename \notin Consulted(index, x))
                   => Status[d][x] = "NotCovered"
      BY <1>4, <2>4, OpenSound
    <3>2. AskedSound(chk'[c])
      BY <2>1, <3>1 DEF AskedSound
    <3>3. index.rel <= index.rel
      BY <3>1, ReleaseAssumption DEF Releases
    <3> QED BY <1>2, <1>4, <2>1, <2>2, <3>1, <3>2, <3>3, ReadPrimed DEF KeptOrGone
  <2>5. damaged \in BOOLEAN
    BY <1>0 DEF TypeInv, TypeOK
  <2> QED BY <2>3, <2>4, <2>5
<1> QED BY <1>3, <1>4

\* What one turn of Index::check does, as far as it matters here.
LEMMA AnswerEffect ==
    ASSUME TypeInv, NEW c \in Checkers, NEW r, chk' = Answer(c, r)
    PROVE  /\ chk'[c].pc = "idle" /\ chk'[c].result = r
           /\ chk'[c].snap = chk[c].snap /\ chk'[c].cert = chk[c].cert
           /\ chk'[c].age = chk[c].age
           /\ \A b \in Checkers \ {c} : chk'[b] = chk[b]
<1>0. chk \in [Checkers -> CheckRecord] /\ chk[c] \in CheckRecord
  BY DEF TypeInv, TypeOK
<1> QED BY <1>0 DEF Answer, CheckRecord

\* The four ways in which the next filter can be read.
LEMMA ReadEffect ==
    ASSUME TypeInv, NEW c \in Checkers, ReadFilter(c)
    PROVE  \E n \in chk[c].todo :
             \/ files[n] = Absent /\ chk' = Answer(c, "FileRead")
             \/ files[n] \in Contents \ Decodable /\ chk' = Answer(c, "FileDecode")
             \/ /\ files[n] \in Decodable /\ Status[files[n]][chk[c].cert] = "Revoked"
                /\ chk' = Answer(c, "CertainlyRevoked")
             \/ /\ files[n] \in Decodable /\ Status[files[n]][chk[c].cert] # "Revoked"
                /\ chk' = [chk EXCEPT ![c].todo = @ \ {n},
                             ![c].good = @ \/ Status[files[n]][chk[c].cert] = "Good"]
<1>1. PICK n \in chk[c].todo :
        chk' = CASE files[n] = Absent -> Answer(c, "FileRead")
                 [] files[n] \in Contents \ Decodable -> Answer(c, "FileDecode")
                 [] files[n] \in Decodable ->
                      LET s == Status[files[n]][chk[c].cert]
                      IN IF s = "Revoked" THEN Answer(c, "CertainlyRevoked")
                         ELSE [chk EXCEPT ![c].todo = @ \ {n}, ![c].good = @ \/ s = "Good"]
  BY DEF ReadFilter
<1>2. files[n] \in Contents \cup {Absent}
  BY DEF TypeInv, TypeOK, CheckRecord
<1>3. CASE files[n] = Absent
  <2>1. chk' = Answer(c, "FileRead")
    BY <1>1, <1>3, ContentAssumption
  <2> QED BY <1>3, <2>1
<1>4. CASE files[n] \in Contents \ Decodable
  <2>1. chk' = Answer(c, "FileDecode")
    BY <1>1, <1>4, ContentAssumption
  <2> QED BY <1>4, <2>1
<1>5. CASE files[n] \in Decodable
  <2> DEFINE s == Status[files[n]][chk[c].cert]
  <2>1. chk' = IF s = "Revoked" THEN Answer(c, "CertainlyRevoked")
               ELSE [chk EXCEPT ![c].todo = @ \ {n}, ![c].good = @ \/ s = "Good"]
    BY <1>1, <1>5, ContentAssumption
  <2>2. CASE s = "Revoked"
    BY <1>5, <2>1, <2>2
  <2>3. CASE s # "Revoked"
    <3>1. chk' = [chk EXCEPT ![c].todo = @ \ {n}, ![c].good = @ \/ s = "Good"]
      BY <2>1, <2>3
    <3> QED BY <1>5, <2>3, <3>1
  <2> QED BY <2>2, <2>3
<1> QED BY <1>2, <1>3, <1>4, <1>5

\* The file that a check reads next belongs to its release, and is there if the
\* check is in its grace.
LEMMA NextFile ==
    ASSUME SafeInv, AllIndexable, NEW c \in Checkers, ReadSound(c), ~damaged,
           chk[c].pc = "reading", NEW n \in chk[c].todo
    PROVE  LET r == chk[c].snap.rel
           IN /\ r \in Releases /\ chk[c].snap \in IndexFile
              /\ \E i \in DOMAIN Files(r) :
                   /\ Files(r)[i].filename = n
                   /\ files[n] # Absent => files[n] \in Decodable /\ IsFile(r, i, files[n])
              /\ files[n] = Absent => chk[c].age = 2 \/ r \in orphaned
<1> DEFINE k == chk[c]
           r == k.snap.rel
<1>0. TypeInv /\ k \in CheckRecord
  BY DEF SafeInv, TypeInv, TypeOK
<1>1. /\ k.snap # NoIndex /\ index # NoIndex /\ r <= index.rel
      /\ k.todo \subseteq Consulted(k.snap, k.cert)
      /\ CoverSound(k.snap) /\ KeptOrGone(r) /\ GraceSound(k)
  BY DEF ReadSound
<1>2. k.snap \in IndexFile /\ r \in Releases
  <2>1. k.snap \in IndexFile
    BY <1>0, <1>1 DEF CheckRecord
  <2> QED BY <2>1 DEF IndexFile
<1>3. n \in NamesOf(r)
  BY <1>1 DEF Consulted, CoverSound
<1>4. PICK i \in DOMAIN Files(r) : Files(r)[i].filename = n
  BY <1>3 DEF NamesOf
<1>5. files[n] # Absent => Matches(files, Files(r)[i])
  BY <1>1, <1>4 DEF KeptOrGone
<1>6. files[n] # Absent => files[n] \in Decodable /\ IsFile(r, i, files[n])
  BY <1>0, <1>2, <1>4, <1>5, KeptFile
<1>7. ASSUME files[n] = Absent PROVE k.age = 2 \/ r \in orphaned
  <2>1. ~Matches(files, Files(r)[i])
    BY <1>4, <1>7 DEF Matches
  <2>2. k.age # 0
    <3>1. \A m \in DOMAIN Files(index.rel) : Matches(files, Files(index.rel)[m])
      BY <1>1, NoBadNames DEF SafeInv, IndexSound
    <3> QED BY <1>1, <2>1, <3>1 DEF GraceSound
  <2>3. k.age \in {0, 1, 2}
    BY <1>0 DEF CheckRecord
  <2> QED BY <1>1, <2>1, <2>2, <2>3 DEF GraceSound
<1> QED BY <1>2, <1>4, <1>6, <1>7

\* Index::check: one filter file.
LEMMA ReadStep ==
    ASSUME SafeInv, AllIndexable, NEW c \in Checkers, ReadSound(c), ReadFilter(c)
    PROVE  ReadSound(c)' /\ Concluded(c)'
<1> DEFINE k == chk[c]
           r == k.snap.rel
<1>0. /\ TypeInv /\ chk \in [Checkers -> CheckRecord] /\ k \in CheckRecord
      /\ damaged \in BOOLEAN
  BY DEF SafeInv, TypeInv, TypeOK
<1>1. /\ k.pc = "reading" /\ files' = files /\ index' = index /\ damaged' = damaged
      /\ job' = job /\ orphaned' = orphaned
  BY DEF ReadFilter, cache, history
<1>2. PICK n \in k.todo :
         \/ files[n] = Absent /\ chk' = Answer(c, "FileRead")
         \/ files[n] \in Contents \ Decodable /\ chk' = Answer(c, "FileDecode")
         \/ /\ files[n] \in Decodable /\ Status[files[n]][k.cert] = "Revoked"
            /\ chk' = Answer(c, "CertainlyRevoked")
         \/ /\ files[n] \in Decodable /\ Status[files[n]][k.cert] # "Revoked"
            /\ chk' = [chk EXCEPT ![c].todo = @ \ {n},
                         ![c].good = @ \/ Status[files[n]][k.cert] = "Good"]
  BY <1>0, ReadEffect
<1>3. CASE files[n] = Absent /\ chk' = Answer(c, "FileRead")
  <2>1. /\ chk'[c].pc = "idle" /\ chk'[c].result = "FileRead" /\ chk'[c].snap = k.snap
        /\ chk'[c].age = k.age
    BY <1>0, <1>3, AnswerEffect
  <2>2. ~damaged => k.age = 2 \/ r \in orphaned
    BY <1>1, <1>3, NextFile
  <2> QED BY <1>0, <1>1, <2>1, <2>2, ReadPrimed, ConcludedPrimed DEF Verdicts
<1>4. CASE files[n] \in Contents \ Decodable /\ chk' = Answer(c, "FileDecode")
  <2>1. chk'[c].pc = "idle" /\ chk'[c].result = "FileDecode"
    BY <1>0, <1>4, AnswerEffect
  <2>2. damaged
    BY <1>0, <1>1, <1>4, ContentAssumption, NextFile
  <2> QED BY <1>1, <2>1, <2>2, ReadPrimed, ConcludedPrimed
<1>5. CASE /\ files[n] \in Decodable /\ Status[files[n]][k.cert] = "Revoked"
           /\ chk' = Answer(c, "CertainlyRevoked")
  <2>1. /\ chk'[c].pc = "idle" /\ chk'[c].result = "CertainlyRevoked"
        /\ chk'[c].snap = k.snap /\ chk'[c].cert = k.cert
    BY <1>0, <1>5, AnswerEffect
  <2>2. ASSUME ~damaged PROVE Truth(r, k.cert) = "CertainlyRevoked"
    <3>1. PICK i \in DOMAIN Files(r) : IsFile(r, i, files[n])
      BY <1>1, <1>5, <2>2, ContentAssumption, NextFile
    <3>2. files[n] \in Contents
      BY <3>1 DEF IsFile
    <3> QED BY <1>5, <3>1, <3>2, TruthRevoked
  <2> QED BY <1>1, <2>1, <2>2, ReadPrimed, ConcludedPrimed
<1>6. CASE /\ files[n] \in Decodable /\ Status[files[n]][k.cert] # "Revoked"
           /\ chk' = [chk EXCEPT ![c].todo = @ \ {n},
                        ![c].good = @ \/ Status[files[n]][k.cert] = "Good"]
  <2> DEFINE s == Status[files[n]][k.cert]
  <2>1. chk'[c] = [k EXCEPT !.todo = k.todo \ {n}, !.good = k.good \/ s = "Good"]
    BY <1>0, <1>6
  <2>2. /\ chk'[c].pc = "reading" /\ chk'[c].snap = k.snap /\ chk'[c].cert = k.cert
        /\ chk'[c].todo = k.todo \ {n} /\ chk'[c].age = k.age /\ chk'[c].result = k.result
        /\ chk'[c].good = (k.good \/ s = "Good")
    <3> HIDE DEF s
    <3> QED BY <1>0, <1>1, <2>1 DEF CheckRecord
  <2>3. CASE damaged
    <3>1. k.result \in {"FileRead", "FileDecode"} => damaged
      BY <2>3
    <3> QED BY <1>1, <2>2, <2>3, ReadPrimed, ConcludedPrimed
  <2>4. CASE ~damaged
    <3>1. /\ k.snap # NoIndex /\ index # NoIndex /\ r <= index.rel /\ k.result = "none"
          /\ k.todo \subseteq Consulted(k.snap, k.cert)
          /\ CoverSound(k.snap) /\ KeptOrGone(r) /\ AskedSound(k) /\ GraceSound(k)
      BY <1>1, <2>4 DEF ReadSound
    <3>2. PICK i \in DOMAIN Files(r) : Files(r)[i].filename = n /\ IsFile(r, i, files[n])
      BY <1>1, <1>6, <2>4, ContentAssumption, NextFile
    <3>3. Concluded(c)'
      BY <2>2, <3>1, ConcludedPrimed DEF Verdicts
    <3>4. \A m \in DOMAIN Files(r), d \in Contents :
            (IsFile(r, m, d) /\ Files(r)[m].filename = n) => d = files[n]
      <4>1. SUFFICES ASSUME NEW m \in DOMAIN Files(r), NEW d \in Contents, IsFile(r, m, d),
                            Files(r)[m].filename = n
                     PROVE  d = files[n]
        OBVIOUS
      <4>2. Matches(files, Files(r)[m])
        BY <1>6, <3>1, <4>1, ContentAssumption DEF KeptOrGone
      <4>3. files[n] \in Contents /\ Digest[files[n]] = Digest[d]
        BY <3>2, <4>1, <4>2 DEF Matches, IsFile
      <4> QED BY <4>3, DigestInjective
    <3>5. AskedSound(chk'[c])
      <4>1. ASSUME NEW m \in DOMAIN Files(r), NEW d \in Contents, IsFile(r, m, d),
                   Files(r)[m].filename \notin k.todo \ {n}, Status[d][k.cert] # "NotCovered"
            PROVE  /\ Status[d][k.cert] # "Revoked"
                   /\ Status[d][k.cert] = "Good" => chk'[c].good
        <5>1. CASE Files(r)[m].filename = n
          BY <1>6, <2>2, <3>4, <4>1, <5>1
        <5>2. CASE Files(r)[m].filename # n
          BY <2>2, <3>1, <4>1, <5>2 DEF AskedSound
        <5> QED BY <5>1, <5>2
      <4>2. ASSUME chk'[c].good
            PROVE  \E m \in DOMAIN Files(r), d \in Contents :
                      IsFile(r, m, d) /\ Status[d][k.cert] = "Good"
        <5>1. CASE k.good
          BY <3>1, <5>1 DEF AskedSound
        <5>2. CASE s = "Good"
          BY <3>2, <5>2 DEF IsFile
        <5> QED BY <2>2, <4>2, <5>1, <5>2
      <4> QED BY <2>2, <4>1, <4>2 DEF AskedSound
    <3> QED BY <1>1, <2>2, <3>1, <3>3, <3>5, ReadPrimed DEF KeptOrGone, GraceSound
  <2> QED BY <1>0, <2>3, <2>4
<1> QED BY <1>2, <1>3, <1>4, <1>5, <1>6

\* Index::check: no filter is left.
LEMMA FinishStep ==
    ASSUME SafeInv, NEW c \in Checkers, ReadSound(c), FinishCheck(c)
    PROVE  ReadSound(c)' /\ Concluded(c)'
<1> DEFINE k == chk[c]
           r == k.snap.rel
           end == IF k.good THEN "NotRevoked" ELSE "NotCoveredByRevocationData"
<1>0. TypeInv /\ k \in CheckRecord /\ damaged \in BOOLEAN
  BY DEF SafeInv, TypeInv, TypeOK
<1>1. k.pc = "reading" /\ k.todo = {} /\ damaged' = damaged /\ chk' = Answer(c, end)
  BY DEF FinishCheck, history
<1>2. /\ chk'[c].pc = "idle" /\ chk'[c].result = end
      /\ chk'[c].snap = k.snap /\ chk'[c].cert = k.cert
  BY <1>0, <1>1, AnswerEffect
<1>3. ASSUME ~damaged PROVE Truth(r, k.cert) = end
  <2>1. AskedSound(k)
    BY <1>1, <1>3 DEF ReadSound
  <2>2. \A i \in DOMAIN Files(r), d \in Contents :
           IsFile(r, i, d) => Status[d][k.cert] # "Revoked"
    BY <1>1, <2>1 DEF AskedSound
  <2>3. k.good <=> \E i \in DOMAIN Files(r), d \in Contents :
                      IsFile(r, i, d) /\ Status[d][k.cert] = "Good"
    BY <1>1, <2>1 DEF AskedSound
  <2> QED BY <2>2, <2>3, TruthElse
<1>4. end \notin {"FileRead", "FileDecode"}
  OBVIOUS
<1> QED BY <1>1, <1>2, <1>3, <1>4, ReadPrimed, ConcludedPrimed

\* A check changes by its own steps, and ages when an index is installed.
LEMMA CheckerMoves ==
    ASSUME TypeInv, [Next]_vars, NEW c \in Checkers
    PROVE  \/ chk'[c] = chk[c] /\ (index' = index \/ Damage)
           \/ \E f \in Fetchers : PersistIndex(f)
           \/ OpenIndex(c) \/ ReadFilter(c) \/ FinishCheck(c)
<1>0. chk \in [Checkers -> CheckRecord]
  BY DEF TypeInv, TypeOK
<1>1. ASSUME NEW b \in Checkers, b # c, OpenIndex(b) \/ CheckStep(b)
      PROVE  chk'[c] = chk[c] /\ index' = index
  <2>1. index' = index
    BY <1>1 DEF OpenIndex, CheckStep, ReadFilter, FinishCheck, cache
  <2>2. CASE OpenIndex(b)
    BY <1>0, <1>1, <2>1, <2>2 DEF OpenIndex
  <2>3. CASE ReadFilter(b)
    <3>1. PICK n \in chk[b].todo :
             \/ \E r : chk' = Answer(b, r)
             \/ \E g : chk' = [chk EXCEPT ![b].todo = @ \ {n}, ![b].good = @ \/ g]
      BY <2>3, ReadEffect
    <3> QED BY <1>0, <1>1, <2>1, <3>1 DEF Answer
  <2>4. CASE FinishCheck(b)
    BY <1>0, <1>1, <2>1, <2>4 DEF FinishCheck, Answer
  <2> QED BY <1>1, <2>2, <2>3, <2>4 DEF CheckStep
<1>2. ASSUME NEW f \in Fetchers, FetchStep(f), ~PersistIndex(f)
      PROVE  chk' = chk /\ index' = index
  BY <1>2 DEF FetchStep, ReadOldManifest, PlanStep, ListDir, HashFile, SpareOld, UsePlan,
              CreateDir, DownloadWrite, DownloadVerify, IndexOneFile, SaveManifest,
              DeleteFile, FinishFetch, cache
<1>3. ASSUME NEW v \in Verifiers, StartVerify(v) \/ PlanStep(v)
      PROVE  chk' = chk /\ index' = index
  BY <1>3, VerifierAside DEF Quiet
<1>4. ASSUME \/ Publish \/ UNCHANGED vars \/ \E j \in Jobs : Abort(j)
             \/ \E f \in Fetchers, mode \in {"fetch", "dry"} : StartFetch(f, mode)
      PROVE  chk' = chk /\ index' = index
  BY <1>4 DEF Publish, vars, Abort, StartFetch, cache
<1>5. Damage => chk' = chk
  BY DEF Damage
<1> QED BY <1>1, <1>2, <1>3, <1>4, <1>5 DEF Next, CheckStep

\* No check is under way at first.
LEMMA CheckInit == Init => CheckInv
<1> SUFFICES ASSUME Init PROVE CheckInv
  OBVIOUS
<1>1. \A c \in Checkers : chk[c].pc = "idle" /\ chk[c].result = "none"
  BY DEF Init, IdleCheck
<1> QED BY <1>1, SafeInit, OrderInit, TidyInit
        DEF CheckInv, ReadInv, ReadSound, VerdictSound, ReaderGrace, Verdicts

\* CheckInv is inductive.
LEMMA CheckNext ==
    ASSUME CheckInv, SerialFetch, ImmutableNames, AllIndexable, NamesRetire, [Next]_vars,
           [NewestTaken]_vars
    PROVE  CheckInv'
<1>0. /\ SafeInv /\ OrderInv /\ TidyInv /\ ManifestInv /\ ReadInv /\ TypeInv
      /\ \A c \in Checkers : Concluded(c)
  BY DEF CheckInv, SafeInv, VerdictSound, ReaderGrace, Concluded
<1>1. SafeInv' /\ OrderInv' /\ TidyInv' /\ ManifestInv'
  BY <1>0, SafeNext, OrderNext, TidyNext, ManifestNext
<1>2. ASSUME NEW c \in Checkers PROVE ReadSound(c)' /\ Concluded(c)'
  <2>0. ReadSound(c) /\ Concluded(c) /\ chk[c] \in CheckRecord /\ damaged \in BOOLEAN
    BY <1>0, <1>2 DEF ReadInv, TypeInv, TypeOK
  <2>1. CASE Damage
    <3>1. damaged' /\ chk' = chk
      BY <2>1 DEF Damage
    <3> QED BY <3>1, ReadPrimed, ConcludedPrimed
  <2>2. CASE OpenIndex(c) \/ ReadFilter(c) \/ FinishCheck(c)
    BY <1>0, <2>0, <2>2, OpenStep, ReadStep, FinishStep
  <2>3. ASSUME ~Damage, NEW f \in Fetchers, PersistIndex(f)
        PROVE  ReadSound(c)' /\ Concluded(c)'
    <3>1. MPersist(f) /\ damaged' = damaged /\ orphaned \subseteq orphaned'
      BY <1>0, <2>3, PersistMoves, EveryMove
    <3>2. ReadSound(c)'
      <4>1. CASE damaged
        BY <3>1, <4>1, ReadPrimed
      <4>2. CASE ~damaged
        BY <1>0, <3>1, <4>2, ReadPersist
      <4> QED BY <2>0, <4>1, <4>2
    <3>3. chk'[c] = [chk[c] EXCEPT !.age = IF chk[c].pc = "reading" /\ @ < 2 THEN @ + 1 ELSE @]
      BY <3>1 DEF MPersist
    <3>4. /\ chk'[c].result = chk[c].result /\ chk'[c].snap = chk[c].snap
          /\ chk'[c].cert = chk[c].cert /\ (chk[c].age = 2 => chk'[c].age = 2)
      BY <2>0, <3>3 DEF CheckRecord
    <3>5. Concluded(c)'
      BY <2>0, <3>1, <3>4, ConcludedPrimed DEF Concluded
    <3> QED BY <3>2, <3>5
  <2>4. ASSUME ~Damage, chk'[c] = chk[c], index' = index
        PROVE  ReadSound(c)' /\ Concluded(c)'
    <3>1. damaged' = damaged /\ orphaned \subseteq orphaned' /\ (Quiet \/ Fetchers # {})
      BY <1>0, <2>4, EveryMove, NobodyFetches
    <3>2. Concluded(c)'
      BY <2>0, <2>4, <3>1, ConcludedPrimed DEF Concluded
    <3>3. ReadSound(c)'
      <4>1. CASE damaged
        BY <3>1, <4>1, ReadPrimed
      <4>2. CASE ~damaged
        <5>1. \A f \in Fetchers : Move(f)
          BY <1>0, <2>4, EveryMove
        <5> QED BY <1>0, <2>4, <3>1, <4>2, <5>1, ReadKept
      <4> QED BY <2>0, <4>1, <4>2
    <3> QED BY <3>2, <3>3
  <2> QED BY <1>0, <2>1, <2>2, <2>3, <2>4, CheckerMoves
<1>3. ReadInv' /\ VerdictSound' /\ ReaderGrace'
  <2>1. \A c \in Checkers :
          /\ (~damaged' /\ chk'[c].result \in Verdicts)
               => chk'[c].result = Truth(chk'[c].snap.rel, chk'[c].cert)
          /\ chk'[c].result \in {"FileRead", "FileDecode"} =>
               damaged' \/ chk'[c].age = 2 \/ chk'[c].snap.rel \in orphaned'
    BY <1>2, ConcludedPrimed
  <2>2. \A c \in Checkers :
          Truth(chk[c].snap.rel, chk[c].cert)' = Truth(chk'[c].snap.rel, chk'[c].cert)
    BY DEF Truth, Files
  <2>3. VerdictSound' /\ ReaderGrace'
    BY <2>1, <2>2 DEF VerdictSound, ReaderGrace, Verdicts
  <2> QED BY <1>2, <2>3 DEF ReadInv
<1> QED BY <1>1, <1>3 DEF CheckInv

\* Index::check answers for one release: with one fetch at a time, a server
\* that answers with its newest manifest, names that stand for the same bytes
\* and do not come back, and contents that can be indexed, a verdict is the one
\* of the release whose index was opened, however long the check takes and
\* whatever is fetched, aborted or deleted meanwhile.
THEOREM VerdictsAreSound ==
    ASSUME SerialFetch, ImmutableNames, AllIndexable, NamesRetire
    PROVE  Spec /\ Fresh => []VerdictSound
<1>1. Init => CheckInv
  BY CheckInit
<1>2. CheckInv /\ [Next]_vars /\ [NewestTaken]_vars => CheckInv'
  BY CheckNext
<1>3. CheckInv => VerdictSound
  BY DEF CheckInv
<1> QED BY <1>1, <1>2, <1>3, PTL DEF Spec, Fresh

\* Plan::construct spares the old manifest's files for the checks under way: in
\* the same deployment a check fails for want of a file only after two index
\* updates, or if the fetch of its release ended between its two saves.
THEOREM ReadersHaveGrace ==
    ASSUME SerialFetch, ImmutableNames, AllIndexable, NamesRetire
    PROVE  Spec /\ Fresh => []ReaderGrace
<1>1. Init => CheckInv
  BY CheckInit
<1>2. CheckInv /\ [Next]_vars /\ [NewestTaken]_vars => CheckInv'
  BY CheckNext
<1>3. CheckInv => ReaderGrace
  BY DEF CheckInv
<1> QED BY <1>1, <1>2, <1>3, PTL DEF Spec, Fresh

-------------------------------------------------------------------------------
(***************************************************************************)
(* The refinement of AtomicCache.                                          *)
(***************************************************************************)
\* A check as its caller sees it.
Shown(k) ==
    [pc |-> IF k.pc = "reading" THEN "asked" ELSE "idle",
     cert |-> k.cert, rel |-> ReleaseOf(k.snap),
     answer |-> IF k.result \in Errors THEN "error" ELSE k.result]
ShownChecks == [c \in Checkers |-> Shown(chk[c])]

\* What the refinement shows of the checks after a step.
LEMMA ShownPrimed == ShownChecks' = [c \in Checkers |-> Shown(chk'[c])]
BY DEF ShownChecks, Shown, ReleaseOf, Errors

\* An empty cache is an empty atomic cache.
LEMMA AtomicInit == Init => Atomic!Init
<1> SUFFICES ASSUME Init PROVE Atomic!Init
  OBVIOUS
<1> DEFINE x == CHOOSE y \in Certs : TRUE
<1>1. x \in Certs
  BY ContentAssumption
<1>2. ReleaseOf(index) = 0 /\ ~damaged
  BY DEF Init, ReleaseOf
<1>3. ShownChecks = [c \in Checkers |-> Atomic!Idle(x, 0, "none")]
  BY DEF Init, ShownChecks, Shown, IdleCheck, ReleaseOf, Errors, Atomic!Idle
<1> QED BY <1>1, <1>2, <1>3 DEF Atomic!Init, ShownChecks, Shown

\* The abstract steps, in terms of what is shown.
LEMMA AtomicSteps ==
    /\ (/\ ReleaseOf(index)' \in 1 .. NumReleases
        /\ damaged' = damaged /\ ShownChecks' = ShownChecks) => Atomic!Install
    /\ (/\ damaged' /\ ReleaseOf(index)' \in {0, ReleaseOf(index)}
        /\ ShownChecks' = ShownChecks) => Atomic!Tamper
    /\ \A c \in Checkers, x \in Certs :
         (/\ ShownChecks[c].pc = "idle"
          /\ ShownChecks' = [ShownChecks EXCEPT ![c] =
               IF ReleaseOf(index) = 0 THEN Atomic!Idle(x, 0, "error")
               ELSE [pc |-> "asked", cert |-> x, rel |-> ReleaseOf(index), answer |-> "none"]]
          /\ damaged' = damaged /\ ReleaseOf(index)' = ReleaseOf(index)) => Atomic!Begin(c, x)
    /\ \A c \in Checkers : \A a :
         (/\ ShownChecks[c].pc = "asked"
          /\ ShownChecks' = [ShownChecks EXCEPT ![c] = Atomic!Idle(@.cert, @.rel, a)]
          /\ damaged' = damaged /\ ReleaseOf(index)' = ReleaseOf(index)) =>
            /\ a = Truth(ShownChecks[c].rel, ShownChecks[c].cert) => Atomic!Reply(c)
            /\ (a = "error" /\ ReleaseOf(index) # ShownChecks[c].rel) => Atomic!Fail(c)
            /\ (damaged /\ a \in Verdicts \cup {"error"}) => Atomic!Stray(c)
<1>1. (/\ ReleaseOf(index)' \in 1 .. NumReleases
        /\ damaged' = damaged /\ ShownChecks' = ShownChecks) => Atomic!Install
  BY DEF Atomic!Install, ShownChecks, Shown
<1>2. (/\ damaged' /\ ReleaseOf(index)' \in {0, ReleaseOf(index)}
        /\ ShownChecks' = ShownChecks) => Atomic!Tamper
  BY DEF Atomic!Tamper, ShownChecks, Shown
<1>3. ASSUME NEW c \in Checkers, NEW x \in Certs,
             ShownChecks[c].pc = "idle",
             ShownChecks' = [ShownChecks EXCEPT ![c] =
               IF ReleaseOf(index) = 0 THEN Atomic!Idle(x, 0, "error")
               ELSE [pc |-> "asked", cert |-> x, rel |-> ReleaseOf(index), answer |-> "none"]],
             damaged' = damaged, ReleaseOf(index)' = ReleaseOf(index)
      PROVE  Atomic!Begin(c, x)
  BY <1>3 DEF Atomic!Begin, ShownChecks, Shown
<1>4. ASSUME NEW c \in Checkers, NEW a,
             ShownChecks[c].pc = "asked",
             ShownChecks' = [ShownChecks EXCEPT ![c] = Atomic!Idle(@.cert, @.rel, a)],
             damaged' = damaged, ReleaseOf(index)' = ReleaseOf(index)
      PROVE  /\ a = Truth(ShownChecks[c].rel, ShownChecks[c].cert) => Atomic!Reply(c)
             /\ (a = "error" /\ ReleaseOf(index) # ShownChecks[c].rel) => Atomic!Fail(c)
             /\ (damaged /\ a \in Verdicts \cup {"error"}) => Atomic!Stray(c)
  <2>1. a = Truth(ShownChecks[c].rel, ShownChecks[c].cert) => Atomic!Reply(c)
    BY <1>4 DEF Atomic!Reply, ShownChecks, Shown
  <2>2. (a = "error" /\ ReleaseOf(index) # ShownChecks[c].rel) => Atomic!Fail(c)
    BY <1>4 DEF Atomic!Fail, ShownChecks, Shown
  <2>3. (damaged /\ a \in Verdicts \cup {"error"}) => Atomic!Stray(c)
    BY <1>4 DEF Atomic!Stray, ShownChecks, Shown, Verdicts
  <2> QED BY <2>1, <2>2, <2>3
<1> QED BY <1>1, <1>2, <1>3, <1>4

\* The answer of a check, as it is shown.
LEMMA AnswerShown ==
    ASSUME TypeInv, NEW c \in Checkers, NEW r, chk' = Answer(c, r)
    PROVE  ShownChecks' = [ShownChecks EXCEPT ![c] =
             Atomic!Idle(@.cert, @.rel, IF r \in Errors THEN "error" ELSE r)]
<1>1. /\ chk'[c].pc = "idle" /\ chk'[c].result = r
      /\ chk'[c].snap = chk[c].snap /\ chk'[c].cert = chk[c].cert
      /\ \A b \in Checkers \ {c} : chk'[b] = chk[b]
  BY AnswerEffect
<1>2. Shown(chk'[c]) = Atomic!Idle(Shown(chk[c]).cert, Shown(chk[c]).rel,
                                   IF r \in Errors THEN "error" ELSE r)
  BY <1>1 DEF Shown, Atomic!Idle
<1>3. \A b \in Checkers \ {c} : Shown(chk'[b]) = Shown(chk[b])
  BY <1>1
<1> HIDE DEF Shown
<1>4. ShownChecks' = [b \in Checkers |-> Shown(chk'[b])]
  BY ShownPrimed
<1> QED BY <1>2, <1>3, <1>4 DEF ShownChecks

\* A step that shows nothing.
LEMMA StutterShown ==
    ASSUME index' = index, damaged' = damaged,
           \A c \in Checkers : Shown(chk'[c]) = Shown(chk[c])
    PROVE  UNCHANGED Atomic!vars
<1>1. ReleaseOf(index)' = ReleaseOf(index)
  BY DEF ReleaseOf
<1>2. ShownChecks' = ShownChecks
  <2> HIDE DEF Shown
  <2> QED BY ShownPrimed DEF ShownChecks
<1> QED BY <1>1, <1>2 DEF Atomic!vars, ShownChecks, Shown

\* A check under way ends as AtomicCache allows: with the answer of its release,
\* with an error once its release was replaced, or anyhow if there was damage.
LEMMA EndRefines ==
    ASSUME TypeInv, NEW c \in Checkers, ReadSound(c), chk[c].pc = "reading",
           NEW r \in Verdicts \cup Errors, chk' = Answer(c, r),
           index' = index, damaged' = damaged,
           ~damaged => \/ r \in Verdicts /\ r = Truth(chk[c].snap.rel, chk[c].cert)
                       \/ r \in Errors /\ index.rel # chk[c].snap.rel
    PROVE  Atomic!Reply(c) \/ Atomic!Fail(c) \/ Atomic!Stray(c)
<1> DEFINE a == IF r \in Errors THEN "error" ELSE r
<1>0. /\ chk[c] \in CheckRecord /\ damaged \in BOOLEAN
  BY DEF TypeInv, TypeOK
<1>1. ShownChecks' = [ShownChecks EXCEPT ![c] = Atomic!Idle(@.cert, @.rel, a)]
  BY AnswerShown
<1>2. /\ ShownChecks[c].pc = "asked" /\ ShownChecks[c].cert = chk[c].cert
      /\ ShownChecks[c].rel = ReleaseOf(chk[c].snap)
  BY DEF ShownChecks, Shown
<1>3. damaged' = damaged /\ ReleaseOf(index)' = ReleaseOf(index)
  BY DEF ReleaseOf
<1>4. a \in Verdicts \cup {"error"}
  BY DEF Errors, Verdicts
<1> HIDE DEF a
<1>5. /\ a = Truth(ShownChecks[c].rel, ShownChecks[c].cert) => Atomic!Reply(c)
      /\ (a = "error" /\ ReleaseOf(index) # ShownChecks[c].rel) => Atomic!Fail(c)
      /\ (damaged /\ a \in Verdicts \cup {"error"}) => Atomic!Stray(c)
  BY <1>1, <1>2, <1>3, AtomicSteps
<1>6. CASE damaged
  BY <1>4, <1>5, <1>6
<1>7. CASE ~damaged
  <2>1. index # NoIndex /\ chk[c].snap # NoIndex
    BY <1>7 DEF ReadSound
  <2>2. ReleaseOf(index) = index.rel /\ ShownChecks[c].rel = chk[c].snap.rel
    BY <1>2, <2>1 DEF ReleaseOf
  <2>3. CASE r \in Verdicts /\ r = Truth(chk[c].snap.rel, chk[c].cert)
    <3>1. a = r
      BY <2>3 DEF a, Verdicts, Errors
    <3> QED BY <1>2, <1>5, <2>2, <2>3, <3>1
  <2>4. CASE r \in Errors /\ index.rel # chk[c].snap.rel
    <3>1. a = "error"
      BY <2>4 DEF a
    <3> QED BY <1>5, <2>2, <2>4, <3>1
  <2> QED BY <1>7, <2>3, <2>4
<1> QED BY <1>0, <1>6, <1>7

\* The steps of Index::check: a filter that does not settle the question shows
\* nothing, and the end of the check is one of AtomicCache's.
LEMMA CheckRefines ==
    ASSUME CheckInv, VerdictSound', AllIndexable, NEW c \in Checkers, CheckStep(c)
    PROVE  Atomic!Next \/ UNCHANGED Atomic!vars
<1> DEFINE k == chk[c]
<1>0. /\ SafeInv /\ TypeInv /\ ReadSound(c) /\ chk \in [Checkers -> CheckRecord]
      /\ k \in CheckRecord /\ damaged \in BOOLEAN
  BY DEF CheckInv, SafeInv, ReadInv, TypeInv, TypeOK
<1>1. k.pc = "reading" /\ index' = index /\ damaged' = damaged
  BY DEF CheckStep, ReadFilter, FinishCheck, cache, history
<1>2. ASSUME NEW r \in Verdicts, chk' = Answer(c, r)
      PROVE  Atomic!Next
  <2>1. chk'[c].result = r /\ chk'[c].snap = k.snap /\ chk'[c].cert = k.cert
    BY <1>0, <1>2, AnswerEffect
  <2>2. Truth(chk[c].snap.rel, chk[c].cert)' = Truth(chk'[c].snap.rel, chk'[c].cert)
    BY DEF Truth, Files
  <2>3. ~damaged => r = Truth(k.snap.rel, k.cert)
    BY <1>1, <1>2, <2>1, <2>2 DEF VerdictSound, Verdicts
  <2> QED BY <1>0, <1>1, <1>2, <2>3, EndRefines DEF Atomic!Next
<1>3. ASSUME NEW r \in Errors, chk' = Answer(c, r), ~damaged => index.rel # k.snap.rel
      PROVE  Atomic!Next
  BY <1>0, <1>1, <1>3, EndRefines DEF Atomic!Next
<1>4. CASE FinishCheck(c)
  BY <1>2, <1>4 DEF FinishCheck, Verdicts
<1>5. CASE ReadFilter(c)
  <2>1. PICK n \in k.todo :
           \/ files[n] = Absent /\ chk' = Answer(c, "FileRead")
           \/ files[n] \in Contents \ Decodable /\ chk' = Answer(c, "FileDecode")
           \/ /\ files[n] \in Decodable /\ Status[files[n]][k.cert] = "Revoked"
              /\ chk' = Answer(c, "CertainlyRevoked")
           \/ /\ files[n] \in Decodable /\ Status[files[n]][k.cert] # "Revoked"
              /\ chk' = [chk EXCEPT ![c].todo = @ \ {n},
                           ![c].good = @ \/ Status[files[n]][k.cert] = "Good"]
    BY <1>0, <1>5, ReadEffect
  <2>2. CASE files[n] = Absent /\ chk' = Answer(c, "FileRead")
    <3>1. ASSUME ~damaged PROVE index.rel # k.snap.rel
      <4>1. PICK i \in DOMAIN Files(k.snap.rel) : Files(k.snap.rel)[i].filename = n
        BY <1>0, <1>1, <3>1, NextFile
      <4>2. ~Matches(files, Files(k.snap.rel)[i])
        BY <2>2, <4>1 DEF Matches
      <4>3. index # NoIndex
        BY <1>0, <1>1, <3>1 DEF ReadSound
      <4>4. \A m \in DOMAIN Files(index.rel) : Matches(files, Files(index.rel)[m])
        BY <1>0, <3>1, <4>3, NoBadNames DEF SafeInv, IndexSound
      <4> QED BY <4>1, <4>2, <4>4
    <3> QED BY <1>3, <2>2, <3>1 DEF Errors
  <2>3. CASE files[n] \in Contents \ Decodable /\ chk' = Answer(c, "FileDecode")
    <3>1. damaged
      BY <1>0, <1>1, <2>3, ContentAssumption, NextFile
    <3> QED BY <1>3, <2>3, <3>1 DEF Errors
  <2>4. CASE chk' = Answer(c, "CertainlyRevoked")
    BY <1>2, <2>4 DEF Verdicts
  <2>5. CASE /\ files[n] \in Decodable /\ Status[files[n]][k.cert] # "Revoked"
             /\ chk' = [chk EXCEPT ![c].todo = @ \ {n},
                          ![c].good = @ \/ Status[files[n]][k.cert] = "Good"]
    <3>1. \A b \in Checkers : /\ chk'[b].pc = chk[b].pc /\ chk'[b].cert = chk[b].cert
                              /\ chk'[b].snap = chk[b].snap /\ chk'[b].result = chk[b].result
      BY <1>0, <2>5 DEF CheckRecord
    <3>2. \A b \in Checkers : Shown(chk'[b]) = Shown(chk[b])
      BY <3>1 DEF Shown
    <3> QED BY <1>1, <3>2, StutterShown
  <2> QED BY <2>1, <2>2, <2>3, <2>4, <2>5
<1> QED BY <1>4, <1>5 DEF CheckStep

\* Every step of the cache is a step of AtomicCache, or none.
LEMMA AtomicNext ==
    ASSUME CheckInv, VerdictSound', SerialFetch, AllIndexable, [Next]_vars
    PROVE  Atomic!Next \/ UNCHANGED Atomic!vars
<1>0. /\ SafeInv /\ OrderInv /\ TypeInv /\ chk \in [Checkers -> CheckRecord]
      /\ index \in IndexFile \cup {NoIndex}
  BY DEF CheckInv, SafeInv, TypeInv, TypeOK
<1>1. CASE Damage
  <2>1. damaged' /\ chk' = chk /\ (index' = index \/ index' = NoIndex)
    BY <1>1 DEF Damage
  <2>2. ReleaseOf(index)' \in {0, ReleaseOf(index)}
    BY <2>1 DEF ReleaseOf
  <2>3. ShownChecks' = ShownChecks
    BY <2>1, ShownPrimed DEF ShownChecks
  <2> QED BY <2>1, <2>2, <2>3, AtomicSteps DEF Atomic!Next
<1>2. ASSUME NEW f \in Fetchers, PersistIndex(f)
      PROVE  Atomic!Next
  <2>0. MPersist(f) /\ damaged' = damaged
    BY <1>0, <1>2, PersistMoves DEF PersistIndex, history
  <2>1. index' # NoIndex /\ index'.rel = job[f].rel /\ job[f].pc = "index"
    BY <2>0 DEF MPersist, Goes
  <2>2. job[f].rel \in Releases
    BY <1>0, <2>1 DEF TypeInv, JobShape, Jobs
  <2>4. ReleaseOf(index)' = job[f].rel
    BY <2>1 DEF ReleaseOf
  <2>5. ReleaseOf(index)' \in 1 .. NumReleases
    BY <2>2, <2>4 DEF Releases
  <2>6. \A c \in Checkers : /\ chk'[c].pc = chk[c].pc /\ chk'[c].cert = chk[c].cert
                            /\ chk'[c].snap = chk[c].snap /\ chk'[c].result = chk[c].result
    <3>1. \A c \in Checkers : \E a : chk'[c] = [chk[c] EXCEPT !.age = a]
      BY <1>2 DEF PersistIndex
    <3> QED BY <1>0, <3>1 DEF CheckRecord
  <2>7. \A c \in Checkers : Shown(chk'[c]) = Shown(chk[c])
    BY <2>6 DEF Shown
  <2>8. ShownChecks' = ShownChecks
    <3> HIDE DEF Shown
    <3> QED BY <2>7, ShownPrimed DEF ShownChecks
  <2> QED BY <2>0, <2>5, <2>8, AtomicSteps DEF Atomic!Next
<1>3. ASSUME NEW c \in Checkers, OpenIndex(c)
      PROVE  Atomic!Next
  <2>1. PICK x \in Certs :
          chk' = [chk EXCEPT ![c] =
                     IF index = NoIndex
                     THEN [IdleCheck EXCEPT !.cert = x, !.result = "IndexError"]
                     ELSE [IdleCheck EXCEPT !.pc = "reading", !.cert = x, !.snap = index,
                                            !.todo = Consulted(index, x)]]
    BY <1>3 DEF OpenIndex
  <2>2. damaged' = damaged /\ index' = index /\ chk[c].pc = "idle"
    BY <1>3 DEF OpenIndex, cache, history
  <2> DEFINE to == IF ReleaseOf(index) = 0 THEN Atomic!Idle(x, 0, "error")
                   ELSE [pc |-> "asked", cert |-> x, rel |-> ReleaseOf(index),
                         answer |-> "none"]
  <2>3. Shown(chk'[c]) = to
    <3>1. CASE index = NoIndex
      <4>1. chk'[c] = [IdleCheck EXCEPT !.cert = x, !.result = "IndexError"]
        BY <1>0, <2>1, <3>1
      <4>2. ReleaseOf(index) = 0
        BY <3>1 DEF ReleaseOf
      <4> QED BY <4>1, <4>2 DEF Shown, IdleCheck, ReleaseOf, Errors, Atomic!Idle
    <3>2. CASE index # NoIndex
      <4>1. chk'[c] = [IdleCheck EXCEPT !.pc = "reading", !.cert = x, !.snap = index,
                                        !.todo = Consulted(index, x)]
        BY <1>0, <2>1, <3>2
      <4>2. ReleaseOf(index) # 0
        BY <1>0, <3>2 DEF ReleaseOf, IndexFile, Releases
      <4>3. /\ chk'[c].pc = "reading" /\ chk'[c].cert = x /\ chk'[c].snap = index
            /\ chk'[c].result = "none"
        BY <4>1 DEF IdleCheck
      <4> QED BY <4>2, <4>3 DEF Shown, Errors
    <3> QED BY <3>1, <3>2
  <2>4. \A b \in Checkers \ {c} : Shown(chk'[b]) = Shown(chk[b])
    BY <1>0, <2>1
  <2>5. ShownChecks' = [ShownChecks EXCEPT ![c] = to]
    <3> HIDE DEF Shown, to
    <3> QED BY <2>3, <2>4, ShownPrimed DEF ShownChecks
  <2>6. ShownChecks[c].pc = "idle"
    BY <2>2 DEF ShownChecks, Shown
  <2>7. ReleaseOf(index)' = ReleaseOf(index)
    BY <2>2 DEF ReleaseOf
  <2>8. Atomic!Begin(c, x)
    BY <2>2, <2>5, <2>6, <2>7, AtomicSteps
  <2> QED BY <2>8 DEF Atomic!Next
<1>4. ASSUME ~Damage, \A f \in Fetchers : ~PersistIndex(f),
             \A c \in Checkers : ~OpenIndex(c) /\ ~CheckStep(c)
      PROVE  UNCHANGED Atomic!vars
  <2>1. damaged' = damaged
    BY <1>4 DEF Next, vars, Publish, StartFetch, FetchStep, ReadOldManifest, PlanStep,
             ListDir, HashFile, SpareOld, UsePlan, CreateDir, DownloadWrite, DownloadVerify,
             IndexOneFile, SaveManifest, DeleteFile, FinishFetch, StartVerify, Abort, history
  <2>2. index' = index
    BY <1>4 DEF Next, vars, Publish, StartFetch, FetchStep, ReadOldManifest, PlanStep,
             ListDir, HashFile, SpareOld, UsePlan, CreateDir, DownloadWrite, DownloadVerify,
             IndexOneFile, SaveManifest, DeleteFile, FinishFetch, StartVerify, Abort, cache
  <2>3. \A c \in Checkers : chk'[c] = chk[c]
    BY <1>0, <1>4, CheckerMoves DEF CheckStep
  <2> QED BY <2>1, <2>2, <2>3, StutterShown
<1>5. ASSUME NEW c \in Checkers, CheckStep(c)
      PROVE  Atomic!Next \/ UNCHANGED Atomic!vars
  BY <1>5, CheckRefines
<1> QED BY <1>1, <1>2, <1>3, <1>4, <1>5

\* "the single source of truth for revocation checks": with one fetch at a
\* time, a server that answers with its newest manifest, names that keep their
\* bytes and do not come back, and contents that can be indexed, all the steps
\* of fetches, verifications and checks over the files of the directory are
\* steps of a cache whose releases are replaced atomically.
THEOREM CacheIsAtomic ==
    ASSUME SerialFetch, ImmutableNames, AllIndexable, NamesRetire
    PROVE  Spec /\ Fresh => ImplementsAtomic
<1>1. Init => CheckInv
  BY CheckInit
<1>2. CheckInv /\ [Next]_vars /\ [NewestTaken]_vars => CheckInv'
  BY CheckNext
<1>3. Init => Atomic!Init
  BY AtomicInit
<1>4. CheckInv => VerdictSound
  BY DEF CheckInv
<1>5. CheckInv /\ VerdictSound' /\ [Next]_vars => [Atomic!Next]_(Atomic!vars)
  BY AtomicNext
<1> QED BY <1>1, <1>2, <1>3, <1>4, <1>5, PTL DEF Spec, Fresh, ImplementsAtomic,
           Atomic!Spec

-------------------------------------------------------------------------------
(***************************************************************************)
(* Overlapping fetches.  IndexSound does not hold then, and neither does   *)
(* any relation of the index to the files that are there; but a file is    *)
(* still what its name stands for, or unreadable, as long as no download   *)
(* is altered on its way.                                                  *)
(***************************************************************************)
\* Content c does not decode, or is what every release publishes as n.
Published(n, c) ==
    c \in Decodable => \A r \in Releases : \A i \in DOMAIN Files(r) :
        Files(r)[i].filename = n => Digest[c] = Files(r)[i].hash
Genuine == \A n \in Names : Published(n, files[n])

\* A download puts other bytes than the manifest's into place, to be found out
\* by the hash that follows.
Alters(f) == DownloadWrite(f) /\ faults' # faults
Unaltered == [][\A f \in Fetchers : ~Alters(f)]_vars

\* What Index::write has collected of the files before job[f].pos.
CollectedSound(f) ==
    LET j == job[f] IN
    /\ \A n \in Names : (\A i \in DOMAIN Files(j.rel) : i < j.pos => Files(j.rel)[i].filename # n)
                           => j.cover[n] = {}
    /\ \A i \in DOMAIN Files(j.rel) : i < j.pos =>
         \E d \in Decodable : /\ IsFile(j.rel, i, d)
                              /\ j.cover[Files(j.rel)[i].filename] = Universe(d)
CollectInv == \A f \in Fetchers : job[f].pc = "index" => CollectedSound(f)

\* What a check relies on when nothing keeps its files in place.
AskSound(c) ==
    LET k == chk[c] IN
    k.pc = "reading" =>
        /\ k.snap # NoIndex /\ k.result = "none"
        /\ k.todo \subseteq Consulted(k.snap, k.cert)
        /\ CoverSound(k.snap)
        /\ AskedSound(k)
Answered(c) == chk[c].result \in Verdicts => chk[c].result = Truth(chk[c].snap.rel, chk[c].cert)

OverlapInv ==
    /\ TypeInv /\ CollectInv
    /\ index # NoIndex => CoverSound(index)
    /\ \A c \in Checkers : AskSound(c) /\ Answered(c)

\* The primed forms, with the prime moved to the variables.
LEMMA CollectedPrimed ==
    ASSUME NEW f
    PROVE  CollectedSound(f)' <=>
      LET j == job'[f] IN
      /\ \A n \in Names : (\A i \in DOMAIN Files(j.rel) : i < j.pos => Files(j.rel)[i].filename # n)
                             => j.cover[n] = {}
      /\ \A i \in DOMAIN Files(j.rel) : i < j.pos =>
           \E d \in Decodable : /\ IsFile(j.rel, i, d)
                                /\ j.cover[Files(j.rel)[i].filename] = Universe(d)
BY DEF CollectedSound, Files, IsFile, Universe

LEMMA AskPrimed ==
    ASSUME NEW c
    PROVE  /\ AskSound(c)' <=>
                (chk'[c].pc = "reading" =>
                   /\ chk'[c].snap # NoIndex /\ chk'[c].result = "none"
                   /\ chk'[c].todo \subseteq Consulted(chk'[c].snap, chk'[c].cert)
                   /\ CoverSound(chk'[c].snap)
                   /\ AskedSound(chk'[c]))
           /\ Answered(c)' <=>
                (chk'[c].result \in Verdicts =>
                   chk'[c].result = Truth(chk'[c].snap.rel, chk'[c].cert))
<1>1. Consulted(chk[c].snap, chk[c].cert)' = Consulted(chk'[c].snap, chk'[c].cert)
  BY DEF Consulted
<1>2. CoverSound(chk[c].snap)' <=> CoverSound(chk'[c].snap)
  BY DEF CoverSound, IsFile, Universe, NamesOf, Files
<1>3. AskedSound(chk[c])' <=> AskedSound(chk'[c])
  BY DEF AskedSound, IsFile, Files
<1>4. Truth(chk[c].snap.rel, chk[c].cert)' = Truth(chk'[c].snap.rel, chk'[c].cert)
  BY DEF Truth, Files
<1>5. Verdicts' = Verdicts
  BY DEF Verdicts
<1>6. AskSound(c)' <=>
                (chk'[c].pc = "reading" =>
                   /\ chk'[c].snap # NoIndex /\ chk'[c].result = "none"
                   /\ chk'[c].todo \subseteq Consulted(chk'[c].snap, chk'[c].cert)
                   /\ CoverSound(chk'[c].snap)
                   /\ AskedSound(chk'[c]))
  BY <1>1, <1>2, <1>3 DEF AskSound
<1>7. Answered(c)' <=>
                (chk'[c].result \in Verdicts =>
                   chk'[c].result = Truth(chk'[c].snap.rel, chk'[c].cert))
  BY <1>4, <1>5 DEF Answered
<1> QED BY <1>6, <1>7

\* A file that decodes is what every release that lists it published.
LEMMA GenuineFile ==
    ASSUME Genuine, NEW r \in Releases, NEW i \in DOMAIN Files(r),
           files[Files(r)[i].filename] \in Decodable
    PROVE  IsFile(r, i, files[Files(r)[i].filename])
<1>1. Files(r)[i].filename \in Names
  BY EntryType
<1> QED BY <1>1, ContentAssumption DEF Genuine, Published, IsFile

\* The job of a fetch changes by its own steps.
LEMMA OwnSteps ==
    ASSUME TypeInv, [Next]_vars, NEW f \in Fetchers
    PROVE  \/ job'[f] = job[f]
           \/ \E mode \in {"fetch", "dry"} : StartFetch(f, mode)
           \/ FetchStep(f) \/ Abort(f)
<1>0. job \in [Jobs -> JobRecord] /\ f \in Jobs /\ Fetchers \subseteq Jobs
  BY DEF TypeInv, TypeOK, Jobs
<1>1. ASSUME NEW g \in Fetchers, g # f, FetchStep(g)
      PROVE  job'[f] = job[f]
  <2>1. CASE ReadOldManifest(g) \/ ListDir(g) \/ HashFile(g) \/ SpareOld(g) \/ UsePlan(g)
    BY <1>0, <1>1, <2>1 DEF ReadOldManifest, ListDir, HashFile, SpareOld, UsePlan
  <2>2. CASE CreateDir(g) \/ DownloadWrite(g) \/ PersistIndex(g) \/ SaveManifest(g) \/ FinishFetch(g)
    BY <1>0, <1>1, <2>2 DEF CreateDir, DownloadWrite, PersistIndex, SaveManifest, FinishFetch
  <2>3. CASE DownloadVerify(g) \/ IndexOneFile(g) \/ DeleteFile(g)
    BY <1>0, <1>1, <2>3 DEF DownloadVerify, IndexOneFile, DeleteFile
  <2> QED BY <1>1, <2>1, <2>2, <2>3 DEF FetchStep, PlanStep
<1>2. ASSUME NEW g \in Fetchers, g # f, NEW mode \in {"fetch", "dry"}, StartFetch(g, mode)
      PROVE  job'[f] = job[f]
  BY <1>0, <1>2 DEF StartFetch
<1>3. ASSUME NEW v \in Verifiers, StartVerify(v) \/ PlanStep(v)
      PROVE  job'[f] = job[f]
  BY <1>3, VerifierAside
<1>4. ASSUME NEW j \in Jobs, j # f, Abort(j)
      PROVE  job'[f] = job[f]
  BY <1>0, <1>4 DEF Abort
<1>5. ASSUME Publish \/ Damage \/ UNCHANGED vars \/ \E c \in Checkers : OpenIndex(c) \/ CheckStep(c)
      PROVE  job'[f] = job[f]
  BY <1>5 DEF Publish, Damage, vars, OpenIndex, CheckStep, ReadFilter, FinishCheck
<1> QED BY <1>1, <1>2, <1>3, <1>4, <1>5 DEF Next

\* Index::write collects the universes of what was published, from whatever
\* files it finds between the steps of other fetches.
LEMMA CollectStep ==
    ASSUME TypeInv, Genuine, NEW f \in Fetchers, CollectedSound(f), IndexOneFile(f),
           job'[f].pc = "index"
    PROVE  CollectedSound(f)'
<1> DEFINE j == job[f]
           r == j.rel
           n == Files(r)[j.pos].filename
           u == Universe(files[n])
<1>0. /\ job \in [Jobs -> JobRecord] /\ f \in Jobs /\ j \in JobRecord /\ j.pc = "index"
      /\ j.pos \in DOMAIN Files(r) /\ r \in Releases /\ j.cover \in [Names -> SUBSET Certs]
  BY DEF TypeInv, TypeOK, Jobs, JobShape, IndexOneFile, JobRecord
<1>1. /\ files[n] \in Decodable
      /\ job' = [job EXCEPT ![f].pos = @ + 1, ![f].cover = [j.cover EXCEPT ![n] = @ \cup u]]
  <2>1. CASE n \notin LongNames /\ files[n] \in Decodable
    BY <2>1 DEF IndexOneFile
  <2>2. CASE ~(n \notin LongNames /\ files[n] \in Decodable)
    <3>1. job' = [job EXCEPT ![f].pc = "manifest"]
      BY <2>2 DEF IndexOneFile
    <3> QED BY <1>0, <3>1
  <2> QED BY <2>1, <2>2
<1>2. n \in Names /\ j.pos \in Nat /\ DOMAIN Files(r) \subseteq Nat
      /\ \A i \in DOMAIN Files(r) : Files(r)[i].filename \in Names
  BY <1>0, EntryType DEF JobRecord
<1>3. files[n] # Absent /\ files[n] \in Contents
  BY <1>1, ContentAssumption
<1>4. \A i \in DOMAIN Files(r) : Files(r)[i].filename = n => IsFile(r, i, files[n])
  BY <1>0, <1>1, GenuineFile
<1>5. /\ job'[f].rel = r /\ job'[f].pos = j.pos + 1
      /\ job'[f].cover = [j.cover EXCEPT ![n] = @ \cup u]
  <2> HIDE DEF u
  <2> QED BY <1>0, <1>1 DEF JobRecord
<1>6. /\ \A m \in Names : (\A i \in DOMAIN Files(r) : i < j.pos => Files(r)[i].filename # m)
                             => j.cover[m] = {}
      /\ \A i \in DOMAIN Files(r) : i < j.pos =>
           \E d \in Decodable : IsFile(r, i, d) /\ j.cover[Files(r)[i].filename] = Universe(d)
  BY DEF CollectedSound
<1>7. j.cover[n] \cup u = u
  <2>1. CASE \A i \in DOMAIN Files(r) : i < j.pos => Files(r)[i].filename # n
    BY <1>2, <1>6, <2>1
  <2>2. CASE \E i \in DOMAIN Files(r) : i < j.pos /\ Files(r)[i].filename = n
    <3>1. PICK i \in DOMAIN Files(r) : i < j.pos /\ Files(r)[i].filename = n
      BY <2>2
    <3>2. PICK d \in Decodable : IsFile(r, i, d) /\ j.cover[n] = Universe(d)
      BY <1>6, <3>1
    <3>3. d = files[n]
      BY <1>3, <1>4, <3>1, <3>2, DigestInjective DEF IsFile
    <3> QED BY <3>2, <3>3
  <2> QED BY <2>1, <2>2
<1>8. /\ job'[f].cover[n] = u
      /\ \A m \in Names : m # n => job'[f].cover[m] = j.cover[m]
  <2> HIDE DEF u
  <2> QED BY <1>0, <1>2, <1>5, <1>7
<1> HIDE DEF n, u
<1>9. \A i \in DOMAIN Files(r) : i < j.pos + 1 =>
         \E d \in Decodable : IsFile(r, i, d) /\ job'[f].cover[Files(r)[i].filename] = Universe(d)
  <2> SUFFICES ASSUME NEW i \in DOMAIN Files(r), i < j.pos + 1
               PROVE  \E d \in Decodable :
                         IsFile(r, i, d) /\ job'[f].cover[Files(r)[i].filename] = Universe(d)
    OBVIOUS
  <2>1. CASE Files(r)[i].filename = n
    BY <1>1, <1>4, <1>8, <2>1 DEF u
  <2>2. CASE Files(r)[i].filename # n
    <3>1. i < j.pos
      BY <1>0, <1>2, <2>2 DEF n
    <3> QED BY <1>2, <1>6, <1>8, <2>2, <3>1
  <2> QED BY <2>1, <2>2
<1>10. \A m \in Names : (\A i \in DOMAIN Files(r) : i < j.pos + 1 => Files(r)[i].filename # m)
                          => job'[f].cover[m] = {}
  <2> SUFFICES ASSUME NEW m \in Names,
                      \A i \in DOMAIN Files(r) : i < j.pos + 1 => Files(r)[i].filename # m
               PROVE  job'[f].cover[m] = {}
    OBVIOUS
  <2>1. m # n
    BY <1>0, <1>2 DEF n
  <2>2. \A i \in DOMAIN Files(r) : i < j.pos => i < j.pos + 1
    BY <1>2
  <2> QED BY <1>6, <1>8, <2>1, <2>2
<1> QED BY <1>5, <1>9, <1>10, CollectedPrimed

\* SaveIndex of any fetch.
LEMMA CollectNext ==
    ASSUME OverlapInv, Genuine, [Next]_vars
    PROVE  CollectInv'
<1>0. TypeInv /\ TypeInv' /\ CollectInv
  BY TypeNext DEF OverlapInv
<1> SUFFICES ASSUME NEW f \in Fetchers, job'[f].pc = "index" PROVE CollectedSound(f)'
  BY DEF CollectInv
<1>1. f \in Jobs /\ job \in [Jobs -> JobRecord] /\ JobShape
  BY <1>0 DEF TypeInv, TypeOK, Jobs
<1>2. ASSUME job'[f].pos = 1, job'[f].cover = [n \in Names |-> {}], job'[f].rel \in Releases
      PROVE  CollectedSound(f)'
  <2>1. \A i \in DOMAIN Files(job'[f].rel) : ~(i < 1)
    BY <1>2, EntryType
  <2> QED BY <1>2, <2>1, CollectedPrimed
<1>3. CASE job'[f] = job[f]
  <2>1. CollectedSound(f)
    BY <1>0, <1>3 DEF CollectInv
  <2> QED BY <1>3, <2>1, CollectedPrimed DEF CollectedSound
<1>4. CASE \E mode \in {"fetch", "dry"} : StartFetch(f, mode)
  BY <1>1, <1>4 DEF StartFetch, IdleJob
<1>5. CASE Abort(f)
  BY <1>1, <1>5 DEF Abort, Ended, IdleJob
<1>6. CASE FetchStep(f)
  <2>1. CASE IndexOneFile(f)
    <3>1. CollectedSound(f)
      BY <1>0, <2>1 DEF CollectInv, IndexOneFile
    <3> QED BY <1>0, <2>1, <3>1, CollectStep
  <2>2. CASE CreateDir(f)
    <3>1. /\ job[f].pc = "mkdir" /\ job[f] \in JobRecord
          /\ job' = [job EXCEPT ![f].pc = AfterDownloads(job[f].todo)]
      BY <1>1, <2>2 DEF CreateDir
    <3>2. job'[f].pos = job[f].pos /\ job'[f].cover = job[f].cover /\ job'[f].rel = job[f].rel
      BY <1>1, <3>1 DEF JobRecord
    <3> QED BY <1>1, <1>2, <3>1, <3>2 DEF JobShape
  <2>3. CASE DownloadVerify(f)
    <3>1. PICK i \in DOMAIN Files(job[f].rel) :
            \/ job' = [job EXCEPT ![f].pc = AfterDownloads(job[f].todo \ {i}), ![f].todo = @ \ {i}]
            \/ job' = [job EXCEPT ![f] = Ended(f, "error")]
      BY <2>3 DEF DownloadVerify
    <3>2. job[f].pc = "check" /\ job[f] \in JobRecord
      BY <1>1, <2>3 DEF DownloadVerify
    <3>3. CASE job' = [job EXCEPT ![f] = Ended(f, "error")]
      BY <1>1, <3>3 DEF Ended, IdleJob
    <3>4. CASE job' = [job EXCEPT ![f].pc = AfterDownloads(job[f].todo \ {i}), ![f].todo = @ \ {i}]
      <4>1. job'[f].pos = job[f].pos /\ job'[f].cover = job[f].cover /\ job'[f].rel = job[f].rel
        BY <1>1, <3>2, <3>4 DEF JobRecord
      <4> QED BY <1>1, <1>2, <3>2, <4>1 DEF JobShape
    <3> QED BY <3>1, <3>3, <3>4
  <2>4. CASE ~(IndexOneFile(f) \/ CreateDir(f) \/ DownloadVerify(f))
    <3>1. Move(f)
      BY <1>0, <1>6, FetchMoves
    <3>2. job[f].pc # "index" => job[f].pc \in {"mkdir", "check"}
      BY <3>1, <1>3 DEF Move, MEnd, MStart, MOld, MList, MHash, MSpare, MPass, MGiveUp, MWrite,
                  MPersist, MSave, MDelete, Goes
    <3>3. job[f].pc \notin {"mkdir", "check", "index"}
      <4>1. ~PersistIndex(f)
        BY <1>1 DEF PersistIndex, JobRecord
      <4>2. CASE ReadOldManifest(f) \/ ListDir(f) \/ HashFile(f) \/ SpareOld(f) \/ UsePlan(f)
        BY <4>2 DEF ReadOldManifest, ListDir, HashFile, SpareOld, UsePlan
      <4>3. CASE DownloadWrite(f) \/ SaveManifest(f) \/ DeleteFile(f) \/ FinishFetch(f)
        BY <4>3 DEF DownloadWrite, SaveManifest, DeleteFile, FinishFetch
      <4> QED BY <1>6, <2>4, <4>1, <4>2, <4>3 DEF FetchStep, PlanStep
    <3> QED BY <3>2, <3>3
  <2> QED BY <2>1, <2>2, <2>3, <2>4
<1> QED BY <1>0, <1>3, <1>4, <1>5, <1>6, OwnSteps

\* The index that is renamed into place routes to what was published.
LEMMA InstallNext ==
    ASSUME OverlapInv, [Next]_vars, index' # NoIndex
    PROVE  CoverSound(index')
<1>0. TypeInv /\ CollectInv /\ (index # NoIndex => CoverSound(index))
  BY DEF OverlapInv
<1>1. ASSUME NEW f \in Fetchers, PersistIndex(f)
      PROVE  CoverSound(index')
  <2> DEFINE j == job[f]
             r == j.rel
  <2>1. /\ j.pc = "index" /\ j.pos \notin DOMAIN Files(r)
        /\ index' = [rel |-> r, cover |-> j.cover]
    BY <1>1 DEF PersistIndex
  <2>2. CollectedSound(f)
    BY <1>0, <2>1 DEF CollectInv
  <2>3. r \in Releases /\ j.pos \in Nat /\ j.pos >= 1
    BY <1>0, <2>1 DEF TypeInv, TypeOK, JobShape, JobRecord, Jobs
  <2>4. \A i \in DOMAIN Files(r) : i < j.pos
    <3>1. Files(r) \in Seq(ManifestFile)
      BY <2>3, ReleaseAssumption DEF Files
    <3>2. DOMAIN Files(r) = 1 .. Len(Files(r)) /\ Len(Files(r)) \in Nat
      BY <3>1
    <3> QED BY <2>1, <2>3, <3>2
  <2>5. index'.rel = r /\ index'.cover = j.cover
    BY <2>1
  <2>6. \A n \in Names \ NamesOf(r) : j.cover[n] = {}
    BY <2>2 DEF CollectedSound, NamesOf
  <2>7. \A i \in DOMAIN Files(r) :
         \E d \in Decodable : IsFile(r, i, d) /\ j.cover[Files(r)[i].filename] = Universe(d)
    BY <2>2, <2>4 DEF CollectedSound
  <2> QED BY <2>5, <2>6, <2>7 DEF CoverSound
<1>2. ASSUME Damage PROVE index' = index
  BY <1>2 DEF Damage
<1>3. ASSUME \A f \in Fetchers : ~PersistIndex(f), ~Damage
      PROVE  index' = index
  <2>1. ASSUME NEW f \in Fetchers, FetchStep(f)
        PROVE  index' = index
    BY <1>3, <2>1 DEF FetchStep, ReadOldManifest, PlanStep, ListDir, HashFile, SpareOld, UsePlan,
              CreateDir, DownloadWrite, DownloadVerify, IndexOneFile, SaveManifest,
              DeleteFile, FinishFetch, cache
  <2>2. ASSUME NEW v \in Verifiers, StartVerify(v) \/ PlanStep(v)
        PROVE  index' = index
    BY <1>0, <2>2, VerifierAside DEF Quiet
  <2> QED BY <1>3, <2>1, <2>2 DEF Next, Publish, vars, Abort, StartFetch, OpenIndex, CheckStep,
              ReadFilter, FinishCheck, cache
<1> QED BY <1>0, <1>1, <1>2, <1>3

\* Index::from_cache, from whatever index is there.
LEMMA AskOpen ==
    ASSUME OverlapInv, NEW c \in Checkers, OpenIndex(c)
    PROVE  AskSound(c)' /\ Answered(c)'
<1>0. TypeInv /\ chk \in [Checkers -> CheckRecord] /\ (index # NoIndex => CoverSound(index))
  BY DEF OverlapInv, TypeInv, TypeOK
<1>1. PICK x \in Certs :
        chk' = [chk EXCEPT ![c] =
                   IF index = NoIndex
                   THEN [IdleCheck EXCEPT !.cert = x, !.result = "IndexError"]
                   ELSE [IdleCheck EXCEPT !.pc = "reading", !.cert = x, !.snap = index,
                                          !.todo = Consulted(index, x)]]
  BY DEF OpenIndex
<1>2. CASE index = NoIndex
  <2>1. chk'[c].pc = "idle" /\ chk'[c].result = "IndexError"
    BY <1>0, <1>1, <1>2 DEF IdleCheck
  <2> QED BY <2>1, AskPrimed DEF Verdicts
<1>3. CASE index # NoIndex
  <2> DEFINE r == index.rel
  <2>1. /\ chk'[c].pc = "reading" /\ chk'[c].cert = x /\ chk'[c].snap = index
        /\ chk'[c].todo = Consulted(index, x) /\ chk'[c].good = FALSE
        /\ chk'[c].result = "none"
    BY <1>0, <1>1, <1>3 DEF IdleCheck
  <2>2. r \in Releases
    BY <1>0, <1>3 DEF TypeInv, TypeOK, IndexFile
  <2>3. ASSUME NEW i \in DOMAIN Files(r), NEW d \in Contents, IsFile(r, i, d),
               Files(r)[i].filename \notin Consulted(index, x)
        PROVE  Status[d][x] = "NotCovered"
    <3>1. PICK e \in Decodable : IsFile(r, i, e) /\ index.cover[Files(r)[i].filename] = Universe(e)
      BY <1>0, <1>3 DEF CoverSound
    <3>2. e = d
      BY <2>3, <3>1, ContentAssumption, DigestInjective DEF IsFile
    <3>3. Files(r)[i].filename \in Names
      BY <2>2, EntryType
    <3>4. x \notin Universe(d)
      BY <2>3, <3>1, <3>2, <3>3 DEF Consulted
    <3> QED BY <3>4 DEF Universe
  <2>4. AskedSound(chk'[c])
    BY <2>1, <2>3 DEF AskedSound
  <2> QED BY <1>0, <1>3, <2>1, <2>4, AskPrimed DEF Verdicts
<1> QED BY <1>2, <1>3

\* Index::check: a filter file that another fetch may have deleted meanwhile.
LEMMA AskRead ==
    ASSUME OverlapInv, Genuine, NEW c \in Checkers, ReadFilter(c)
    PROVE  AskSound(c)' /\ Answered(c)'
<1> DEFINE k == chk[c]
           r == k.snap.rel
<1>0. /\ TypeInv /\ chk \in [Checkers -> CheckRecord] /\ k \in CheckRecord
      /\ k.pc = "reading"
  BY DEF OverlapInv, TypeInv, TypeOK, ReadFilter
<1>1. /\ k.snap # NoIndex /\ k.result = "none" /\ k.todo \subseteq Consulted(k.snap, k.cert)
      /\ CoverSound(k.snap) /\ AskedSound(k)
  BY <1>0 DEF OverlapInv, AskSound
<1>2. PICK n \in k.todo :
         \/ files[n] = Absent /\ chk' = Answer(c, "FileRead")
         \/ files[n] \in Contents \ Decodable /\ chk' = Answer(c, "FileDecode")
         \/ /\ files[n] \in Decodable /\ Status[files[n]][k.cert] = "Revoked"
            /\ chk' = Answer(c, "CertainlyRevoked")
         \/ /\ files[n] \in Decodable /\ Status[files[n]][k.cert] # "Revoked"
            /\ chk' = [chk EXCEPT ![c].todo = @ \ {n},
                         ![c].good = @ \/ Status[files[n]][k.cert] = "Good"]
  BY <1>0, ReadEffect
<1>3. r \in Releases
  <2>1. k.snap \in IndexFile
    BY <1>0, <1>1 DEF CheckRecord
  <2> QED BY <2>1 DEF IndexFile
<1>4. PICK i \in DOMAIN Files(r) : Files(r)[i].filename = n
  BY <1>1 DEF Consulted, CoverSound, NamesOf
<1>5. files[n] \in Decodable =>
        \A m \in DOMAIN Files(r) : Files(r)[m].filename = n => IsFile(r, m, files[n])
  BY <1>3, GenuineFile
<1>6. CASE chk' = Answer(c, "FileRead") \/ chk' = Answer(c, "FileDecode")
  <2>1. chk'[c].pc = "idle" /\ chk'[c].result \in {"FileRead", "FileDecode"}
    BY <1>0, <1>6, AnswerEffect
  <2> QED BY <2>1, AskPrimed DEF Verdicts
<1>7. CASE /\ files[n] \in Decodable /\ Status[files[n]][k.cert] = "Revoked"
           /\ chk' = Answer(c, "CertainlyRevoked")
  <2>1. /\ chk'[c].pc = "idle" /\ chk'[c].result = "CertainlyRevoked"
        /\ chk'[c].snap = k.snap /\ chk'[c].cert = k.cert
    BY <1>0, <1>7, AnswerEffect
  <2>2. files[n] \in Contents /\ IsFile(r, i, files[n])
    BY <1>4, <1>5, <1>7 DEF IsFile
  <2>3. Truth(r, k.cert) = "CertainlyRevoked"
    BY <1>7, <2>2, TruthRevoked
  <2> QED BY <2>1, <2>3, AskPrimed
<1>8. CASE /\ files[n] \in Decodable /\ Status[files[n]][k.cert] # "Revoked"
           /\ chk' = [chk EXCEPT ![c].todo = @ \ {n},
                        ![c].good = @ \/ Status[files[n]][k.cert] = "Good"]
  <2> DEFINE s == Status[files[n]][k.cert]
  <2>1. chk'[c] = [k EXCEPT !.todo = k.todo \ {n}, !.good = k.good \/ s = "Good"]
    BY <1>0, <1>8
  <2>2. /\ chk'[c].pc = "reading" /\ chk'[c].snap = k.snap /\ chk'[c].cert = k.cert
        /\ chk'[c].todo = k.todo \ {n} /\ chk'[c].result = k.result
        /\ chk'[c].good = (k.good \/ s = "Good")
    <3> HIDE DEF s
    <3> QED BY <1>0, <2>1 DEF CheckRecord
  <2>3. \A m \in DOMAIN Files(r), d \in Contents :
          (IsFile(r, m, d) /\ Files(r)[m].filename = n) => d = files[n]
    BY <1>5, <1>8, DigestInjective DEF IsFile
  <2>4. ASSUME NEW m \in DOMAIN Files(r), NEW d \in Contents, IsFile(r, m, d),
               Files(r)[m].filename \notin k.todo \ {n}, Status[d][k.cert] # "NotCovered"
        PROVE  /\ Status[d][k.cert] # "Revoked"
               /\ Status[d][k.cert] = "Good" => chk'[c].good
    <3>1. CASE Files(r)[m].filename = n
      BY <1>8, <2>2, <2>3, <2>4, <3>1
    <3>2. CASE Files(r)[m].filename # n
      BY <1>1, <2>2, <2>4, <3>2 DEF AskedSound
    <3> QED BY <3>1, <3>2
  <2>5. ASSUME chk'[c].good
        PROVE  \E m \in DOMAIN Files(r), d \in Contents :
                  IsFile(r, m, d) /\ Status[d][k.cert] = "Good"
    <3>1. CASE k.good
      BY <1>1, <3>1 DEF AskedSound
    <3>2. CASE s = "Good"
      BY <1>4, <1>5, <1>8, <3>2 DEF IsFile
    <3> QED BY <2>2, <2>5, <3>1, <3>2
  <2>6. AskedSound(chk'[c])
    BY <2>2, <2>4, <2>5 DEF AskedSound
  <2> QED BY <1>1, <2>2, <2>6, AskPrimed DEF Verdicts
<1> QED BY <1>2, <1>6, <1>7, <1>8

\* Index::check: no filter is left.
LEMMA AskFinish ==
    ASSUME OverlapInv, NEW c \in Checkers, FinishCheck(c)
    PROVE  AskSound(c)' /\ Answered(c)'
<1> DEFINE k == chk[c]
           r == k.snap.rel
           end == IF k.good THEN "NotRevoked" ELSE "NotCoveredByRevocationData"
<1>1. TypeInv /\ k.pc = "reading" /\ k.todo = {} /\ chk' = Answer(c, end)
  BY DEF FinishCheck, OverlapInv
<1>2. /\ chk'[c].pc = "idle" /\ chk'[c].result = end
      /\ chk'[c].snap = k.snap /\ chk'[c].cert = k.cert
  BY <1>1, AnswerEffect
<1>3. AskedSound(k)
  BY <1>1 DEF OverlapInv, AskSound
<1>4. \A i \in DOMAIN Files(r), d \in Contents :
         IsFile(r, i, d) => Status[d][k.cert] # "Revoked"
  BY <1>1, <1>3 DEF AskedSound
<1>5. k.good <=> \E i \in DOMAIN Files(r), d \in Contents :
                    IsFile(r, i, d) /\ Status[d][k.cert] = "Good"
  BY <1>1, <1>3 DEF AskedSound
<1>6. Truth(r, k.cert) = end
  BY <1>4, <1>5, TruthElse
<1> QED BY <1>2, <1>6, AskPrimed

LEMMA OverlapInit == Init => OverlapInv
<1> SUFFICES ASSUME Init PROVE OverlapInv
  OBVIOUS
<1>1. \A c \in Checkers : chk[c].pc = "idle" /\ chk[c].result = "none"
  BY DEF Init, IdleCheck
<1>2. \A f \in Fetchers : job[f].pc = "idle"
  BY DEF Init, IdleJob, Jobs
<1> QED BY <1>1, <1>2, TypeInit DEF OverlapInv, CollectInv, AskSound, Answered, Verdicts, Init

LEMMA OverlapNext ==
    ASSUME OverlapInv, Genuine, [Next]_vars
    PROVE  OverlapInv'
<1>0. TypeInv /\ TypeInv' /\ CollectInv'
  BY CollectNext, TypeNext DEF OverlapInv
<1>1. index' # NoIndex => CoverSound(index)'
  <2>1. CoverSound(index)' <=> CoverSound(index')
    BY DEF CoverSound, IsFile, Universe, NamesOf, Files
  <2> QED BY <2>1, InstallNext
<1>2. ASSUME NEW c \in Checkers
      PROVE  AskSound(c)' /\ Answered(c)'
  <2>0. AskSound(c) /\ Answered(c)
    BY DEF OverlapInv
  <2>1. CASE chk'[c] = chk[c]
    BY <2>0, <2>1, AskPrimed DEF AskSound, Answered
  <2>2. CASE \E f \in Fetchers : PersistIndex(f)
    <3>0. chk[c] \in CheckRecord
      BY <1>0 DEF TypeInv, TypeOK
    <3>1. chk'[c] = [chk[c] EXCEPT !.age = IF chk[c].pc = "reading" /\ chk[c].age < 2
                                           THEN chk[c].age + 1 ELSE chk[c].age]
      BY <2>2 DEF PersistIndex
    <3>2. /\ chk'[c].pc = chk[c].pc /\ chk'[c].snap = chk[c].snap /\ chk'[c].cert = chk[c].cert
          /\ chk'[c].todo = chk[c].todo /\ chk'[c].good = chk[c].good
          /\ chk'[c].result = chk[c].result
      BY <3>0, <3>1 DEF CheckRecord
    <3>3. AskedSound(chk[c]) => AskedSound(chk'[c])
      BY <3>2 DEF AskedSound
    <3>4. AskSound(c)'
      BY <2>0, <3>2, <3>3, AskPrimed DEF AskSound
    <3>5. Answered(c)'
      BY <2>0, <3>2, AskPrimed DEF Answered
    <3> QED BY <3>4, <3>5
  <2> QED BY <1>0, <2>1, <2>2, CheckerMoves, AskOpen, AskRead, AskFinish
<1> QED BY <1>0, <1>1, <1>2 DEF OverlapInv

\* Nothing but an altered download or damage puts a file under a wrong name.
LEMMA GenuineNext ==
    ASSUME TypeInv, ImmutableNames, Genuine, [Next]_vars, ~Damage,
           \A f \in Fetchers : ~Alters(f)
    PROVE  Genuine'
<1>0. files \in [Names -> Contents \cup {Absent}] /\ Absent \notin Decodable
  BY ContentAssumption DEF TypeInv, TypeOK
<1> SUFFICES ASSUME NEW n \in Names PROVE Published(n, files'[n])
  BY DEF Genuine, Published, Files
<1>1. Published(n, files[n]) /\ Published(n, Absent)
  BY <1>0 DEF Genuine, Published
<1>2. ASSUME NEW f \in Fetchers, DownloadWrite(f)
      PROVE  Published(n, files'[n])
  <2>0. faults' = faults
    BY <1>2 DEF Alters
  <2>1. faults \in Nat
    BY ProcessAssumption DEF TypeInv, TypeOK
  <2>2. faults' # faults + 1
    BY <2>0, <2>1
  <2>3. PICK m \in DOMAIN Files(job[f].rel), c \in Contents :
          /\ Digest[c] = Files(job[f].rel)[m].hash
          /\ files' = [files EXCEPT ![Files(job[f].rel)[m].filename] = c]
    BY <2>2, <1>2, Zenon DEF DownloadWrite
  <2>4. job[f].rel \in Releases
    BY <1>2 DEF DownloadWrite, TypeInv, JobShape, Jobs
  <2>5. CASE Files(job[f].rel)[m].filename = n
    <3>1. files'[n] = c
      BY <1>0, <2>3, <2>5
    <3>2. \A r \in Releases : \A i \in DOMAIN Files(r) :
            Files(r)[i].filename = n => Digest[c] = Files(r)[i].hash
      BY <2>3, <2>4, <2>5 DEF ImmutableNames
    <3> QED BY <3>1, <3>2 DEF Published
  <2>6. CASE Files(job[f].rel)[m].filename # n
    <3>1. files'[n] = files[n]
      BY <1>0, <2>3, <2>6
    <3> QED BY <1>1, <3>1
  <2> QED BY <2>5, <2>6
<1>3. ASSUME NEW f \in Fetchers, DeleteFile(f)
      PROVE  files'[n] = Absent \/ files'[n] = files[n]
  BY <1>0, <1>3 DEF DeleteFile
<1>4. ASSUME \A f \in Fetchers : ~DownloadWrite(f) /\ ~DeleteFile(f)
      PROVE  files' = files
  <2>1. ASSUME NEW f \in Fetchers, FetchStep(f)
        PROVE  files' = files
    BY <1>4, <2>1 DEF FetchStep, ReadOldManifest, PlanStep, ListDir, HashFile, SpareOld, UsePlan,
              CreateDir, DownloadVerify, IndexOneFile, PersistIndex, SaveManifest,
              FinishFetch, cache
  <2>2. ASSUME NEW v \in Verifiers, StartVerify(v) \/ PlanStep(v)
        PROVE  files' = files
    BY <2>2, VerifierAside DEF Quiet
  <2> QED BY <2>1, <2>2 DEF Next, Publish, vars, Abort, StartFetch, OpenIndex, CheckStep,
              ReadFilter, FinishCheck, cache
<1> QED BY <1>1, <1>2, <1>3, <1>4

\* Damage is remembered.
LEMMA DamageStays ==
    ASSUME TypeInv, [Next]_vars, ~damaged'
    PROVE  ~damaged /\ ~Damage
<1>1. ~Damage
  BY DEF Damage
<1>2. ASSUME NEW f \in Fetchers, FetchStep(f)
      PROVE  damaged' = damaged
  BY <1>2 DEF FetchStep, ReadOldManifest, PlanStep, ListDir, HashFile, SpareOld, UsePlan,
              CreateDir, DownloadWrite, DownloadVerify, IndexOneFile, PersistIndex, SaveManifest,
              DeleteFile, FinishFetch, history
<1>3. ASSUME NEW v \in Verifiers, StartVerify(v) \/ PlanStep(v)
      PROVE  damaged' = damaged
  BY <1>3 DEF StartVerify, PlanStep, ListDir, HashFile, SpareOld, UsePlan, history
<1>4. damaged' = damaged
  BY <1>1, <1>2, <1>3 DEF Next, Publish, vars, Abort, StartFetch, OpenIndex, CheckStep,
              ReadFilter, FinishCheck, history
<1> QED BY <1>1, <1>4

\* Index::check beside any number of overlapping fetches, each of which may
\* fail or be killed at any point: as long as no download is altered and a name
\* stands for the same bytes in every release, a verdict is the one of the
\* release whose index was opened, even if that index was renamed into place
\* late and its files are being deleted.  An altered download is renamed into
\* place before its hash is looked at, and a check of an index that another
\* fetch has installed meanwhile may then read it.
THEOREM OverlapsAreSound ==
    ASSUME ImmutableNames
    PROVE  Spec /\ Unaltered => []VerdictSound
<1> DEFINE Inv == TypeInv /\ (~damaged => Genuine /\ OverlapInv)
           Honest == \A f \in Fetchers : ~Alters(f)
<1>1. Init => Inv
  <2> SUFFICES ASSUME Init PROVE Genuine
    BY TypeInit, OverlapInit
  <2> QED BY ContentAssumption DEF Init, Genuine, Published
<1>2. Inv /\ [Next]_vars /\ [Honest]_vars => Inv'
  <2> SUFFICES ASSUME Inv, [Next]_vars, [Honest]_vars PROVE Inv'
    OBVIOUS
  <2>1. TypeInv'
    BY TypeNext
  <2>2. ASSUME ~damaged' PROVE (Genuine /\ OverlapInv)'
    <3>1. Genuine /\ OverlapInv /\ ~Damage
      BY <2>2, DamageStays
    <3>2. CASE Honest
      BY <3>1, <3>2, GenuineNext, OverlapNext
    <3>3. CASE UNCHANGED vars
      <4>1. Genuine'
        BY <3>1, <3>3 DEF vars, Genuine, Published, Files
      <4> QED BY <3>1, <4>1, OverlapNext
    <3> QED BY <3>2, <3>3
  <2> QED BY <2>1, <2>2
<1>3. Inv => VerdictSound
  BY DEF OverlapInv, Answered, VerdictSound
<1>4. Unaltered <=> [][Honest]_vars
  BY DEF Unaltered
<1> HIDE DEF Inv, Honest
<1> QED BY <1>1, <1>2, <1>3, <1>4, PTL DEF Spec
===============================================================================
