------------------------- MODULE RevocationCacheProofs -------------------------
(***************************************************************************)
(* Proofs about RevocationCache, for every number of processes, files,     *)
(* contents, certificates, releases and faults.                            *)
(***************************************************************************)
EXTENDS RevocationCache, TLAPS

\* The part of a job's shape that the types of its fields do not say: a running
\* command has a manifest, and the loops start where they should.
JobShape ==
    \A j \in Jobs :
        /\ job[j].pc # "idle" => job[j].rel \in Releases
        /\ job[j].pc \in {"old", "list"} => job[j].todo = {}
        /\ job[j].pc \in {"hash", "index"} => job[j].pos >= 1
        /\ job[j].pc \in {"plan", "mkdir", "download", "check"} => job[j].pos = 1
        /\ job[j].pc \in {"old", "list", "hash", "plan", "mkdir", "download", "check"}
             => job[j].cover = [n \in Names |-> {}]

TypeInv == TypeOK /\ JobShape

\* The entries of a published manifest have the type of Manifest::files.
LEMMA EntryType ==
    \A r \in Releases :
        /\ DOMAIN Files(r) \subseteq Nat
        /\ \A i \in DOMAIN Files(r) :
             /\ i >= 1
             /\ Files(r)[i] \in ManifestFile
             /\ Files(r)[i].filename \in Names
             /\ Files(r)[i].hash \in Hashes
             /\ Files(r)[i].size \in Nat
        /\ NamesOf(r) \subseteq Names
<1> SUFFICES ASSUME NEW r \in Releases
             PROVE  /\ DOMAIN Files(r) \subseteq Nat
                    /\ \A i \in DOMAIN Files(r) :
                         /\ i >= 1
                         /\ Files(r)[i] \in ManifestFile
                         /\ Files(r)[i].filename \in Names
                         /\ Files(r)[i].hash \in Hashes
                         /\ Files(r)[i].size \in Nat
                    /\ NamesOf(r) \subseteq Names
  OBVIOUS
<1>1. Files(r) \in Seq(ManifestFile)
  BY ReleaseAssumption DEF Files
<1>2. DOMAIN Files(r) = 1 .. Len(Files(r)) /\ Len(Files(r)) \in Nat
  BY <1>1
<1>3. \A i \in DOMAIN Files(r) : Files(r)[i] \in ManifestFile
  BY <1>1, <1>2
<1>4. \A e \in ManifestFile : e.filename \in Names /\ e.hash \in Hashes /\ e.size \in Nat
  BY DEF ManifestFile
<1>5. DOMAIN Files(r) \subseteq Nat /\ \A i \in DOMAIN Files(r) : i >= 1
  BY <1>2
<1>6. NamesOf(r) \subseteq Names
  BY <1>3, <1>4 DEF NamesOf
<1> QED BY <1>3, <1>4, <1>5, <1>6

\* A job that is not running satisfies both parts.
LEMMA IdleJobType ==
    ASSUME NEW m \in {"fetch", "dry", "verify"}, NEW e \in Exits
    PROVE  /\ IdleJob \in JobRecord
           /\ [IdleJob EXCEPT !.mode = m, !.exit = e] \in JobRecord
<1>1. IdleJob \in JobRecord
  BY ReleaseAssumption DEF IdleJob, JobRecord, FetchPcs, Exits
<1>2. [IdleJob EXCEPT !.mode = m, !.exit = e] \in JobRecord
  BY <1>1 DEF JobRecord
<1> QED BY <1>1, <1>2

\* The initial state has the types and the shape.
LEMMA TypeInit == Init => TypeInv
<1> SUFFICES ASSUME Init PROVE TypeInv
  OBVIOUS
<1>1. IdleJob \in JobRecord
  BY ReleaseAssumption DEF IdleJob, JobRecord, FetchPcs, Exits
<1>2. IdleCheck \in CheckRecord
  BY ContentAssumption DEF IdleCheck, CheckRecord
<1>3. dir \in BOOLEAN /\ damaged \in BOOLEAN
  BY Zenon DEF Init
<1>4. TypeOK
  BY <1>1, <1>2, <1>3, ReleaseAssumption, ProcessAssumption DEF Init, TypeOK, Releases
<1>5. JobShape
  BY DEF Init, JobShape, IdleJob
<1> QED BY <1>4, <1>5 DEF TypeInv

\* Replacing one job by a record of the right type and shape keeps TypeInv.
LEMMA TypeJobStep ==
    ASSUME TypeInv, NEW p \in Jobs, NEW r \in JobRecord,
           job' = [job EXCEPT ![p] = r],
           r.pc # "idle" => r.rel \in Releases,
           r.pc \in {"old", "list"} => r.todo = {},
           r.pc \in {"hash", "index"} => r.pos >= 1,
           r.pc \in {"plan", "mkdir", "download", "check"} => r.pos = 1,
           r.pc \in {"old", "list", "hash", "plan", "mkdir", "download", "check"}
             => r.cover = [n \in Names |-> {}]
    PROVE  job' \in [Jobs -> JobRecord] /\ JobShape'
<1>1. job' \in [Jobs -> JobRecord]
  BY DEF TypeInv, TypeOK
<1>2. \A j \in Jobs : job'[j] = IF j = p THEN r ELSE job[j]
  BY DEF TypeInv, TypeOK
<1>3. JobShape'
  <2> SUFFICES ASSUME NEW j \in Jobs
               PROVE  /\ job'[j].pc # "idle" => job'[j].rel \in Releases
                      /\ job'[j].pc \in {"old", "list"} => job'[j].todo = {}
                      /\ job'[j].pc \in {"hash", "index"} => job'[j].pos >= 1
                      /\ job'[j].pc \in {"plan", "mkdir", "download", "check"}
                           => job'[j].pos = 1
                      /\ job'[j].pc \in {"old", "list", "hash", "plan", "mkdir",
                                         "download", "check"}
                           => job'[j].cover = [n \in Names |-> {}]
    BY DEF JobShape
  <2>1. CASE j = p
    BY <1>2, <2>1
  <2>2. CASE j # p
    <3>1. job'[j] = job[j]
      BY <1>2, <2>2
    <3>2. JobShape
      BY DEF TypeInv
    <3> QED BY ONLY <3>1, <3>2, j \in Jobs DEF JobShape
  <2> QED BY <2>1, <2>2
<1> QED BY <1>1, <1>3

\* An action that changes nothing but one job.
LEMMA TypeOnlyJob ==
    ASSUME TypeInv, job' \in [Jobs -> JobRecord], JobShape',
           UNCHANGED <<server, cache, chk, faults, history>>
    PROVE  TypeInv'
BY DEF TypeInv, TypeOK, cache, history

\* The steps of Plan::construct, for a fetch or a verify, keep TypeInv.
LEMMA TypePlanStep ==
    ASSUME TypeInv, NEW p \in Jobs, PlanStep(p)
    PROVE  TypeInv'
<1> USE DEF TypeInv
<1>0. job[p] \in JobRecord
  BY DEF TypeOK
<1>1. CASE ListDir(p)
  <2> DEFINE r == [job[p] EXCEPT !.pc = "hash", !.pos = 1, !.mkdir = ~dir,
                                 !.unwanted = {n \in Deletable : files[n] # Absent}]
  <2>1. r \in JobRecord
    BY <1>0 DEF JobRecord, FetchPcs
  <2>2. job' = [job EXCEPT ![p] = r]
    BY <1>1 DEF ListDir, TypeOK
  <2>3. job[p].rel \in Releases /\ job[p].cover = [n \in Names |-> {}]
    BY <1>1 DEF ListDir, JobShape
  <2>4. r.pc = "hash" /\ r.pos >= 1 /\ r.rel = job[p].rel /\ r.cover = job[p].cover
    BY <1>0 DEF JobRecord
  <2> HIDE DEF r
  <2>5. job' \in [Jobs -> JobRecord] /\ JobShape'
    BY <2>1, <2>2, <2>3, <2>4, TypeJobStep
  <2> QED BY <1>1, <2>5, TypeOnlyJob DEF ListDir
<1>2. CASE HashFile(p)
  <2> DEFINE i == job[p].pos
             e == Files(job[p].rel)[i]
             r == [job[p] EXCEPT !.pos = i + 1, !.unwanted = @ \ {e.filename},
                                 !.todo = IF Matches(files, e) THEN @ ELSE @ \cup {i}]
  <2>3. job[p].rel \in Releases /\ job[p].cover = [n \in Names |-> {}] /\ i \in Nat
    BY <1>2, <1>0 DEF HashFile, JobShape, JobRecord
  <2>a. job[p].todo \cup {i} \in SUBSET Nat /\ i + 1 \in Nat
    BY <1>0, <2>3 DEF JobRecord
  <2>b. \A n : job[p].unwanted \ {n} \in SUBSET Deletable
    BY <1>0 DEF JobRecord
  <2>1. r \in JobRecord
    BY <1>0, <2>a, <2>b DEF JobRecord, FetchPcs
  <2>2. job' = [job EXCEPT ![p] = r]
    BY <1>2 DEF HashFile, TypeOK
  <2>4. r.pc = "hash" /\ r.pos >= 1 /\ r.rel = job[p].rel /\ r.cover = job[p].cover
    BY <1>0, <1>2, <2>3 DEF JobRecord, HashFile
  <2> HIDE DEF r
  <2>5. job' \in [Jobs -> JobRecord] /\ JobShape'
    BY <2>1, <2>2, <2>3, <2>4, TypeJobStep
  <2> QED BY <1>2, <2>5, TypeOnlyJob DEF HashFile
<1>3. CASE SpareOld(p)
  <2> DEFINE r == [job[p] EXCEPT !.pc = "plan", !.pos = 1,
                                 !.unwanted = IF job[p].old = 0 THEN @
                                              ELSE @ \ NamesOf(job[p].old)]
  <2>1. r \in JobRecord
    BY <1>0 DEF JobRecord, FetchPcs
  <2>2. job' = [job EXCEPT ![p] = r]
    BY <1>3 DEF SpareOld, TypeOK
  <2>3. job[p].rel \in Releases /\ job[p].cover = [n \in Names |-> {}]
    BY <1>3 DEF SpareOld, JobShape
  <2>4. r.pc = "plan" /\ r.pos = 1 /\ r.rel = job[p].rel /\ r.cover = job[p].cover
    BY <1>0 DEF JobRecord
  <2> HIDE DEF r
  <2>5. job' \in [Jobs -> JobRecord] /\ JobShape'
    BY <2>1, <2>2, <2>3, <2>4, TypeJobStep
  <2> QED BY <1>3, <2>5, TypeOnlyJob DEF SpareOld
<1>4. CASE UsePlan(p)
  <2>1. PICK r : job' = [job EXCEPT ![p] = r]
                 /\ \/ r = [job[p] EXCEPT !.pc = "mkdir"]
                    \/ \E e \in Exits : r = Ended(p, e)
    BY <1>0, <1>4 DEF UsePlan, JobRecord, Exits
  <2>2. CASE r = [job[p] EXCEPT !.pc = "mkdir"]
    <3>1. r \in JobRecord
      BY <1>0, <2>2 DEF JobRecord, FetchPcs
    <3>2. job[p].rel \in Releases /\ job[p].pos = 1 /\ job[p].cover = [n \in Names |-> {}]
      BY <1>4 DEF UsePlan, JobShape
    <3>3. r.pc = "mkdir" /\ r.pos = job[p].pos /\ r.rel = job[p].rel
          /\ r.cover = job[p].cover
      BY <1>0, <2>2 DEF JobRecord
    <3>4. job' \in [Jobs -> JobRecord] /\ JobShape'
      BY <2>1, <3>1, <3>2, <3>3, TypeJobStep
    <3> QED BY <1>4, <3>4, TypeOnlyJob DEF UsePlan
  <2>3. CASE \E e \in Exits : r = Ended(p, e)
    <3>1. r \in JobRecord
      BY <1>0, <2>3, IdleJobType DEF Ended, JobRecord
    <3>2. r.pc = "idle"
      BY <2>3 DEF Ended, IdleJob
    <3>3. job' \in [Jobs -> JobRecord] /\ JobShape'
      BY <2>1, <3>1, <3>2, TypeJobStep
    <3> QED BY <1>4, <3>3, TypeOnlyJob DEF UsePlan
  <2> QED BY <2>1, <2>2, <2>3
<1> QED BY <1>1, <1>2, <1>3, <1>4 DEF PlanStep

\* The steps that execute the plan, and the ones that start and end a command.
LEMMA TypeFetchStep ==
    ASSUME TypeInv, NEW f \in Fetchers, FetchStep(f)
    PROVE  TypeInv'
<1> USE DEF TypeInv
<1>0. job[f] \in JobRecord /\ f \in Jobs
  BY DEF TypeOK, Jobs
<1>i. \A e \in Exits : Ended(f, e) \in JobRecord /\ Ended(f, e).pc = "idle"
  <2> TAKE e \in Exits
  <2>1. Ended(f, e) \in JobRecord
    BY <1>0, IdleJobType DEF Ended, JobRecord
  <2>2. Ended(f, e).pc = "idle"
    BY DEF Ended, IdleJob
  <2> QED BY <2>1, <2>2
<1>e. ASSUME NEW e \in Exits, job' = [job EXCEPT ![f] = Ended(f, e)]
      PROVE  job' \in [Jobs -> JobRecord] /\ JobShape'
  <2> DEFINE r == Ended(f, e)
  <2>1. r \in JobRecord /\ r.pc = "idle" /\ job' = [job EXCEPT ![f] = r]
    BY <1>i, <1>e
  <2> HIDE DEF r
  <2> QED BY <1>0, <2>1, TypeJobStep
<1>1. CASE ReadOldManifest(f)
  <2> DEFINE r == [job[f] EXCEPT !.pc = "list", !.old = manifest]
  <2>1. r \in JobRecord
    BY <1>0 DEF JobRecord, FetchPcs, TypeOK
  <2>2. job' = [job EXCEPT ![f] = r]
    BY <1>1 DEF ReadOldManifest, TypeOK
  <2>3. job[f].rel \in Releases /\ job[f].cover = [n \in Names |-> {}] /\ job[f].todo = {}
    BY <1>0, <1>1 DEF ReadOldManifest, JobShape
  <2>4. r.pc = "list" /\ r.todo = job[f].todo /\ r.rel = job[f].rel /\ r.cover = job[f].cover
    BY <1>0 DEF JobRecord
  <2> HIDE DEF r
  <2>5. job' \in [Jobs -> JobRecord] /\ JobShape'
    BY <1>0, <2>1, <2>2, <2>3, <2>4, TypeJobStep
  <2> QED BY <1>1, <2>5, TypeOnlyJob DEF ReadOldManifest
<1>2. CASE PlanStep(f)
  BY <1>0, <1>2, TypePlanStep
<1>3. CASE CreateDir(f)
  <2> DEFINE r == [job[f] EXCEPT !.pc = AfterDownloads(job[f].todo)]
  <2>1. r \in JobRecord
    BY <1>0 DEF JobRecord, FetchPcs, AfterDownloads
  <2>2. job' = [job EXCEPT ![f] = r]
    BY <1>3 DEF CreateDir, TypeOK
  <2>3. job[f].rel \in Releases /\ job[f].cover = [n \in Names |-> {}] /\ job[f].pos = 1
    BY <1>0, <1>3 DEF CreateDir, JobShape
  <2>4. r.pc \in {"index", "download"} /\ r.pos = 1 /\ r.pos >= 1 /\ r.rel = job[f].rel
        /\ r.cover = job[f].cover
    BY <1>0, <2>3 DEF JobRecord, AfterDownloads
  <2> HIDE DEF r
  <2>5. job' \in [Jobs -> JobRecord] /\ JobShape'
    BY <1>0, <2>1, <2>2, <2>3, <2>4, TypeJobStep
  <2>6. dir' \in BOOLEAN
    BY <1>3, Zenon DEF CreateDir
  <2> QED BY <1>3, <2>5, <2>6 DEF CreateDir, TypeOK, history
<1>4. CASE DownloadWrite(f)
  <2> DEFINE r == [job[f] EXCEPT !.pc = "check"]
  <2>1. r \in JobRecord
    BY <1>0 DEF JobRecord, FetchPcs
  <2>2. job' = [job EXCEPT ![f] = r]
    BY <1>4 DEF DownloadWrite, TypeOK
  <2>3. job[f].rel \in Releases /\ job[f].cover = [n \in Names |-> {}] /\ job[f].pos = 1
    BY <1>0, <1>4 DEF DownloadWrite, JobShape
  <2>4. r.pc = "check" /\ r.pos = 1 /\ r.rel = job[f].rel /\ r.cover = job[f].cover
    BY <1>0, <2>3 DEF JobRecord
  <2> HIDE DEF r
  <2>5. job' \in [Jobs -> JobRecord] /\ JobShape'
    BY <1>0, <2>1, <2>2, <2>3, <2>4, TypeJobStep
  <2>6. faults' \in 0 .. MaxFaults
    BY <1>4, ProcessAssumption DEF DownloadWrite, TypeOK
  <2>7. files' \in [Names -> Contents \cup {Absent}]
    BY <1>4 DEF DownloadWrite, TypeOK
  <2>8. watch' \in [Verifiers -> SUBSET Names]
    BY <1>4 DEF DownloadWrite, TypeOK
  <2> QED BY <1>4, <2>5, <2>6, <2>7, <2>8 DEF DownloadWrite, TypeOK
<1>5. CASE DownloadVerify(f)
  <2>1. PICK i \in DOMAIN Files(job[f].rel) :
          \/ job' = [job EXCEPT ![f].pc = AfterDownloads(job[f].todo \ {i}),
                                ![f].todo = @ \ {i}]
          \/ job' = [job EXCEPT ![f] = Ended(f, "error")]
    BY <1>5 DEF DownloadVerify
  <2>2. CASE job' = [job EXCEPT ![f].pc = AfterDownloads(job[f].todo \ {i}),
                                ![f].todo = @ \ {i}]
    <3> DEFINE r == [job[f] EXCEPT !.pc = AfterDownloads(job[f].todo \ {i}),
                                   !.todo = @ \ {i}]
    <3>1. r \in JobRecord
      <4>1. job[f].todo \ {i} \in SUBSET Nat
        BY <1>0 DEF JobRecord
      <4> QED BY <1>0, <4>1 DEF JobRecord, FetchPcs, AfterDownloads
    <3>2. job' = [job EXCEPT ![f] = r]
      BY <2>2 DEF TypeOK
    <3>3. job[f].rel \in Releases /\ job[f].cover = [n \in Names |-> {}] /\ job[f].pos = 1
      BY <1>0, <1>5 DEF DownloadVerify, JobShape
    <3>4. r.pc \in {"index", "download"} /\ r.pos = 1 /\ r.pos >= 1 /\ r.rel = job[f].rel
          /\ r.cover = job[f].cover
      BY <1>0, <3>3 DEF JobRecord, AfterDownloads
    <3> HIDE DEF r
    <3>5. job' \in [Jobs -> JobRecord] /\ JobShape'
      BY <1>0, <3>1, <3>2, <3>3, <3>4, TypeJobStep
    <3> QED BY <1>5, <3>5, TypeOnlyJob DEF DownloadVerify
  <2>3. CASE job' = [job EXCEPT ![f] = Ended(f, "error")]
    BY <1>5, <1>e, <2>3, TypeOnlyJob DEF DownloadVerify, Exits
  <2> QED BY <2>1, <2>2, <2>3
<1>6. CASE IndexOneFile(f)
  <2> DEFINE n == Files(job[f].rel)[job[f].pos].filename
             cv == [job[f].cover EXCEPT ![n] = @ \cup Universe(files[n])]
             r == [job[f] EXCEPT !.pos = job[f].pos + 1, !.cover = cv]
             q == [job[f] EXCEPT !.pc = "manifest"]
  <2>0. job[f].rel \in Releases /\ job[f].pos \in Nat /\ job[f].pc = "index"
        /\ job[f].pos >= 1
    BY <1>0, <1>6 DEF IndexOneFile, JobShape, JobRecord
  <2>1. r \in JobRecord
    <3>1. job[f].cover \in [Names -> SUBSET Certs] /\ job[f].pos + 1 \in Nat
      BY <1>0 DEF JobRecord
    <3>2. cv \in [Names -> SUBSET Certs]
      BY <3>1 DEF Universe
    <3> HIDE DEF cv
    <3> QED BY <1>0, <3>1, <3>2 DEF JobRecord
  <2>2. q \in JobRecord
    BY <1>0 DEF JobRecord, FetchPcs
  <2>3. job' = [job EXCEPT ![f] = r] \/ job' = [job EXCEPT ![f] = q]
    <3>1. \/ job' = [job EXCEPT ![f].pos = @ + 1, ![f].cover = cv]
          \/ job' = [job EXCEPT ![f].pc = "manifest"]
      BY <1>6 DEF IndexOneFile
    <3> HIDE DEF cv
    <3> QED BY <3>1 DEF TypeOK
  <2>4. r.pc = "index" /\ r.pos >= 1 /\ r.rel = job[f].rel
    BY <1>0, <2>0 DEF JobRecord
  <2>5. q.pc = "manifest" /\ q.rel = job[f].rel
    BY <1>0 DEF JobRecord
  <2> HIDE DEF r, q
  <2>6. CASE job' = [job EXCEPT ![f] = r]
    <3>1. job' \in [Jobs -> JobRecord] /\ JobShape'
      BY <1>0, <2>0, <2>1, <2>4, <2>6, TypeJobStep
    <3> QED BY <1>6, <3>1, TypeOnlyJob DEF IndexOneFile
  <2>7. CASE job' = [job EXCEPT ![f] = q]
    <3>1. job' \in [Jobs -> JobRecord] /\ JobShape'
      BY <1>0, <2>0, <2>2, <2>5, <2>7, TypeJobStep
    <3> QED BY <1>6, <3>1, TypeOnlyJob DEF IndexOneFile
  <2> QED BY <2>3, <2>6, <2>7
<1>7. CASE PersistIndex(f)
  <2> DEFINE r == [job[f] EXCEPT !.pc = "manifest"]
  <2>1. r \in JobRecord
    BY <1>0 DEF JobRecord, FetchPcs
  <2>2. job' = [job EXCEPT ![f] = r]
    BY <1>7 DEF PersistIndex, TypeOK
  <2>3. job[f].rel \in Releases
    BY <1>0, <1>7 DEF PersistIndex, JobShape
  <2>4. r.pc = "manifest" /\ r.rel = job[f].rel
    BY <1>0 DEF JobRecord
  <2> HIDE DEF r
  <2>5. job' \in [Jobs -> JobRecord] /\ JobShape'
    BY <1>0, <2>1, <2>2, <2>3, <2>4, TypeJobStep
  <2>6. index' \in IndexFile
    BY <1>0, <1>7, <2>3 DEF PersistIndex, IndexFile, JobRecord
  <2>7. chk' \in [Checkers -> CheckRecord]
    <3> SUFFICES ASSUME NEW c \in Checkers
                 PROVE  [chk[c] EXCEPT !.age = IF chk[c].pc = "reading" /\ @ < 2
                                               THEN @ + 1 ELSE @] \in CheckRecord
      BY <1>7 DEF PersistIndex
    <3>1. chk[c] \in CheckRecord
      BY DEF TypeOK
    <3> QED BY <3>1 DEF CheckRecord
  <2> QED BY <1>7, <2>5, <2>6, <2>7 DEF PersistIndex, TypeOK, history
<1>8. CASE SaveManifest(f)
  <2> DEFINE r == [job[f] EXCEPT !.pc = "delete"]
  <2>1. r \in JobRecord
    BY <1>0 DEF JobRecord, FetchPcs
  <2>2. job' = [job EXCEPT ![f] = r]
    BY <1>8 DEF SaveManifest, TypeOK
  <2>3. job[f].rel \in Releases
    BY <1>0, <1>8 DEF SaveManifest, JobShape
  <2>4. r.pc = "delete" /\ r.rel = job[f].rel
    BY <1>0 DEF JobRecord
  <2> HIDE DEF r
  <2>5. job' \in [Jobs -> JobRecord] /\ JobShape'
    BY <1>0, <2>1, <2>2, <2>3, <2>4, TypeJobStep
  <2>6. manifest' \in 0 .. NumReleases
    BY <1>8, <2>3, ReleaseAssumption DEF SaveManifest, Releases
  <2> QED BY <1>8, <2>5, <2>6 DEF SaveManifest, TypeOK, history
<1>9. CASE DeleteFile(f)
  <2>1. PICK n \in job[f].unwanted :
          \/ job' = [job EXCEPT ![f].unwanted = @ \ {n}]
             /\ files' = [files EXCEPT ![n] = Absent]
          \/ job' = [job EXCEPT ![f] = Ended(f, "error")] /\ files' = files
    BY <1>9 DEF DeleteFile
  <2>2. files' \in [Names -> Contents \cup {Absent}]
    BY <2>1 DEF TypeOK
  <2>3. job' \in [Jobs -> JobRecord] /\ JobShape'
    <3>1. CASE job' = [job EXCEPT ![f].unwanted = @ \ {n}]
      <4> DEFINE r == [job[f] EXCEPT !.unwanted = @ \ {n}]
      <4>1. r \in JobRecord
        <5>1. job[f].unwanted \ {n} \in SUBSET Deletable
          BY <1>0 DEF JobRecord
        <5> QED BY <1>0, <5>1 DEF JobRecord
      <4>2. job' = [job EXCEPT ![f] = r]
        BY <3>1 DEF TypeOK
      <4>3. job[f].rel \in Releases /\ job[f].pc = "delete"
        BY <1>0, <1>9 DEF DeleteFile, JobShape
      <4>4. r.pc = job[f].pc /\ r.rel = job[f].rel
        BY <1>0 DEF JobRecord
      <4> HIDE DEF r
      <4> QED BY <1>0, <4>1, <4>2, <4>3, <4>4, TypeJobStep
    <3>2. CASE job' = [job EXCEPT ![f] = Ended(f, "error")]
      BY <1>e, <3>2 DEF Exits
    <3> QED BY <2>1, <3>1, <3>2
  <2> QED BY <1>9, <2>2, <2>3 DEF DeleteFile, TypeOK, history
<1>10. CASE FinishFetch(f)
  BY <1>10, <1>e, TypeOnlyJob DEF FinishFetch, Exits
<1> QED BY <1>1, <1>2, <1>3, <1>4, <1>5, <1>6, <1>7, <1>8, <1>9, <1>10 DEF FetchStep

\* Starting a command, reading the old manifest and aborting keep TypeInv.
LEMMA TypeOtherJobSteps ==
    ASSUME TypeInv,
           \/ \E f \in Fetchers, mode \in {"fetch", "dry"} : StartFetch(f, mode)
           \/ \E v \in Verifiers : StartVerify(v)
           \/ \E j \in Jobs : Abort(j)
    PROVE  TypeInv'
<1> USE DEF TypeInv
<1>0. IdleJob \in JobRecord
  BY ReleaseAssumption DEF IdleJob, JobRecord, FetchPcs, Exits
<1>1. ASSUME NEW f \in Fetchers, NEW mode \in {"fetch", "dry"}, StartFetch(f, mode)
      PROVE  TypeInv'
  <2>a. PICK q \in 1 .. server :
          job' = [job EXCEPT ![f] = [IdleJob EXCEPT !.pc = "old", !.mode = mode, !.rel = q]]
    BY <1>1 DEF StartFetch
  <2> DEFINE r == [IdleJob EXCEPT !.pc = "old", !.mode = mode, !.rel = q]
  <2>b. q \in Releases
    BY ReleaseAssumption DEF TypeOK, Releases
  <2>1. r \in JobRecord
    <3>1. q \in 0 .. NumReleases /\ mode \in {"fetch", "dry", "verify"}
      BY <2>b, ReleaseAssumption DEF Releases
    <3> QED BY <1>0, <3>1 DEF JobRecord, FetchPcs
  <2>2. job' = [job EXCEPT ![f] = r] /\ f \in Jobs
    BY <2>a DEF Jobs
  <2>3. r.pc = "old" /\ r.rel \in Releases /\ r.todo = {} /\ r.cover = [n \in Names |-> {}]
    BY <2>b DEF IdleJob
  <2> HIDE DEF r
  <2>4. job' \in [Jobs -> JobRecord] /\ JobShape'
    BY <2>1, <2>2, <2>3, TypeJobStep
  <2>5. faults' \in 0 .. MaxFaults
    <3>1. faults' = faults \/ (faults < MaxFaults /\ faults' = faults + 1)
      BY <1>1 DEF StartFetch
    <3> QED BY <3>1, ProcessAssumption DEF TypeOK
  <2> QED BY <1>1, <2>4, <2>5 DEF StartFetch, TypeOK, cache, history
<1>2. ASSUME NEW v \in Verifiers, StartVerify(v)
      PROVE  TypeInv'
  <2> DEFINE q == [IdleJob EXCEPT !.mode = "verify", !.exit = "error"]
             r == [IdleJob EXCEPT !.pc = "list", !.mode = "verify", !.rel = manifest]
  <2>1. q \in JobRecord /\ r \in JobRecord
    BY <1>0 DEF JobRecord, FetchPcs, TypeOK, Exits
  <2>2. q.pc = "idle" /\ r.pc = "list" /\ r.todo = {} /\ r.cover = [n \in Names |-> {}]
        /\ r.rel = manifest
    BY DEF IdleJob
  <2>3. v \in Jobs
    BY DEF Jobs
  <2>4. \/ manifest = 0 /\ job' = [job EXCEPT ![v] = q] /\ watch' = [watch EXCEPT ![v] = {}]
        \/ manifest # 0 /\ job' = [job EXCEPT ![v] = r]
           /\ watch' = [watch EXCEPT ![v] = BadNames(files, manifest)]
    BY <1>2 DEF StartVerify
  <2> HIDE DEF q, r
  <2>5. manifest # 0 => manifest \in Releases /\ BadNames(files, manifest) \subseteq Names
    BY EntryType, ReleaseAssumption DEF TypeOK, Releases, BadNames
  <2>6. job' \in [Jobs -> JobRecord] /\ JobShape'
    BY <2>1, <2>2, <2>3, <2>4, <2>5, TypeJobStep
  <2>7. watch' \in [Verifiers -> SUBSET Names]
    BY <2>4, <2>5 DEF TypeOK
  <2> QED BY <1>2, <2>6, <2>7 DEF StartVerify, TypeOK, cache
<1>3. ASSUME NEW j \in Jobs, Abort(j)
      PROVE  TypeInv'
  <2> DEFINE r == Ended(j, "error")
  <2>1. job[j] \in JobRecord
    BY DEF TypeOK
  <2>2. r \in JobRecord
    BY <2>1, IdleJobType DEF Ended, JobRecord, Exits
  <2>3. r.pc = "idle"
    BY DEF Ended, IdleJob
  <2>4. job' = [job EXCEPT ![j] = r]
    BY <1>3 DEF Abort
  <2> HIDE DEF r
  <2>5. job' \in [Jobs -> JobRecord] /\ JobShape'
    BY <2>2, <2>3, <2>4, TypeJobStep
  <2>6. faults' \in 0 .. MaxFaults
    BY <1>3, ProcessAssumption DEF Abort, TypeOK
  <2>7. orphaned' \in SUBSET Releases
    BY <1>3 DEF Abort, TypeOK, JobShape
  <2> QED BY <1>3, <2>5, <2>6, <2>7 DEF Abort, TypeOK, cache
<1> QED BY <1>1, <1>2, <1>3

\* Publishing a release and damage to the storage keep TypeInv.
LEMMA TypeEnvironment ==
    ASSUME TypeInv, Publish \/ Damage
    PROVE  TypeInv'
<1> USE DEF TypeInv
<1>1. CASE Publish
  <2>1. server' \in Releases
    BY <1>1, ReleaseAssumption DEF Publish, TypeOK, Releases
  <2> QED BY <1>1, <2>1 DEF Publish, TypeOK, JobShape, cache, history
<1>2. CASE Damage
  <2>1. files' \in [Names -> Contents \cup {Absent}]
    BY <1>2 DEF Damage, TypeOK
  <2>2. manifest' \in 0 .. NumReleases /\ index' \in IndexFile \cup {NoIndex}
    BY <1>2, ReleaseAssumption DEF Damage, TypeOK
  <2>3. faults' \in 0 .. MaxFaults
    BY <1>2, ProcessAssumption DEF Damage, TypeOK
  <2>4. watch' \in [Verifiers -> SUBSET Names]
    BY <1>2 DEF Damage, TypeOK
  <2> QED BY <1>2, <2>1, <2>2, <2>3, <2>4 DEF Damage, TypeOK, JobShape
<1> QED BY <1>1, <1>2

\* The steps of a revocation check keep TypeInv.
LEMMA TypeCheckSteps ==
    ASSUME TypeInv, NEW c \in Checkers, OpenIndex(c) \/ CheckStep(c)
    PROVE  TypeInv'
<1> USE DEF TypeInv
<1>0. chk[c] \in CheckRecord
  BY DEF TypeOK
<1>a. IdleCheck \in CheckRecord
  BY ContentAssumption DEF IdleCheck, CheckRecord
<1>b. ASSUME NEW r \in Verdicts \cup {"FileRead", "FileDecode"}
      PROVE  Answer(c, r) \in [Checkers -> CheckRecord]
  <2>1. [chk[c] EXCEPT !.pc = "idle", !.todo = {}, !.good = FALSE, !.result = r]
          \in CheckRecord
    BY <1>0 DEF CheckRecord
  <2>2. Answer(c, r) = [chk EXCEPT ![c] =
          [chk[c] EXCEPT !.pc = "idle", !.todo = {}, !.good = FALSE, !.result = r]]
    BY DEF Answer, TypeOK
  <2> QED BY <2>1, <2>2 DEF TypeOK
<1>1. CASE OpenIndex(c)
  <2>1. PICK x \in Certs :
          \/ chk' = [chk EXCEPT ![c] = [IdleCheck EXCEPT !.cert = x, !.result = "IndexError"]]
          \/ /\ index # NoIndex
             /\ chk' = [chk EXCEPT ![c] =
                   [IdleCheck EXCEPT !.pc = "reading", !.cert = x, !.snap = index,
                                     !.todo = Consulted(index, x)]]
    BY <1>1 DEF OpenIndex
  <2>2. [IdleCheck EXCEPT !.cert = x, !.result = "IndexError"] \in CheckRecord
    BY <1>a DEF CheckRecord
  <2>3. [IdleCheck EXCEPT !.pc = "reading", !.cert = x, !.snap = index,
                          !.todo = Consulted(index, x)] \in CheckRecord
    <3>1. Consulted(index, x) \in SUBSET Names
      BY DEF Consulted
    <3> QED BY <1>a, <3>1 DEF CheckRecord, TypeOK
  <2>4. chk' \in [Checkers -> CheckRecord]
    BY <2>1, <2>2, <2>3 DEF TypeOK
  <2> QED BY <1>1, <2>4 DEF OpenIndex, TypeOK, JobShape, cache, history
<1>2. CASE ReadFilter(c)
  <2>1. PICK n \in chk[c].todo :
          \/ \E r \in Verdicts \cup {"FileRead", "FileDecode"} : chk' = Answer(c, r)
          \/ \E s \in CRLiteStatus :
               chk' = [chk EXCEPT ![c].todo = @ \ {n}, ![c].good = @ \/ s = "Good"]
    <3>1. PICK n \in chk[c].todo :
            chk' = CASE files[n] = Absent -> Answer(c, "FileRead")
                     [] files[n] \in Contents \ Decodable -> Answer(c, "FileDecode")
                     [] files[n] \in Decodable ->
                          LET s == Status[files[n]][chk[c].cert]
                          IN IF s = "Revoked" THEN Answer(c, "CertainlyRevoked")
                             ELSE [chk EXCEPT ![c].todo = @ \ {n},
                                              ![c].good = @ \/ s = "Good"]
      BY <1>2 DEF ReadFilter
    <3>2. files[n] \in Contents \cup {Absent} /\ chk[c].cert \in Certs
      BY <1>0 DEF TypeOK, CheckRecord
    <3>3. CASE files[n] = Absent
      <4>1. chk' = Answer(c, "FileRead")
        BY <3>1, <3>3, ContentAssumption
      <4> QED BY <4>1
    <3>4. CASE files[n] \in Contents \ Decodable
      <4>1. chk' = Answer(c, "FileDecode")
        BY <3>1, <3>4, ContentAssumption
      <4> QED BY <4>1
    <3>5. CASE files[n] \in Decodable
      <4> DEFINE s == Status[files[n]][chk[c].cert]
      <4>1. s \in CRLiteStatus
        BY <3>2, <3>5, ContentAssumption
      <4>2. chk' = IF s = "Revoked" THEN Answer(c, "CertainlyRevoked")
                   ELSE [chk EXCEPT ![c].todo = @ \ {n}, ![c].good = @ \/ s = "Good"]
        BY <3>1, <3>5, ContentAssumption
      <4> HIDE DEF s
      <4> QED BY <4>1, <4>2 DEF Verdicts
    <3> QED BY <3>2, <3>3, <3>4, <3>5
  <2>2. CASE \E r \in Verdicts \cup {"FileRead", "FileDecode"} : chk' = Answer(c, r)
    BY <1>2, <1>b, <2>2 DEF ReadFilter, TypeOK, JobShape, cache, history
  <2>3. ASSUME NEW s \in CRLiteStatus,
               chk' = [chk EXCEPT ![c].todo = @ \ {n}, ![c].good = @ \/ s = "Good"]
        PROVE  TypeInv'
    <3>1. chk[c].todo \ {n} \in SUBSET Names /\ (chk[c].good \/ s = "Good") \in BOOLEAN
      BY <1>0 DEF CheckRecord
    <3>2. [chk[c] EXCEPT !.todo = @ \ {n}, !.good = @ \/ s = "Good"] \in CheckRecord
      BY <1>0, <3>1 DEF CheckRecord
    <3>3. chk' = [chk EXCEPT ![c] =
                    [chk[c] EXCEPT !.todo = @ \ {n}, !.good = @ \/ s = "Good"]]
      BY <2>3 DEF TypeOK
    <3>4. chk' \in [Checkers -> CheckRecord]
      BY <3>2, <3>3 DEF TypeOK
    <3> QED BY <1>2, <3>4 DEF ReadFilter, TypeOK, JobShape, cache, history
  <2> QED BY <2>1, <2>2, <2>3
<1>3. CASE FinishCheck(c)
  <2>1. \E r \in Verdicts : chk' = Answer(c, r)
    BY <1>3 DEF FinishCheck, Verdicts
  <2> QED BY <1>3, <1>b, <2>1 DEF FinishCheck, TypeOK, JobShape, cache, history
<1> QED BY <1>1, <1>2, <1>3 DEF CheckStep

\* So does a step that changes nothing.
LEMMA TypeStutter ==
    ASSUME TypeInv, UNCHANGED vars
    PROVE  TypeInv'
BY DEF TypeInv, TypeOK, JobShape, vars

\* TypeInv is inductive.
LEMMA TypeNext ==
    ASSUME TypeInv, [Next]_vars
    PROVE  TypeInv'
BY TypePlanStep, TypeFetchStep, TypeOtherJobSteps, TypeEnvironment, TypeCheckSteps,
   TypeStutter DEF Next, Jobs

\* Every reachable state is well typed: the type invariant that the run of the
\* serial cache checks, for all values of the constants.
THEOREM TypeCorrect == Spec => []TypeOK
<1>1. Init => TypeInv
  BY TypeInit
<1>2. TypeInv /\ [Next]_vars => TypeInv'
  BY TypeNext
<1>3. TypeInv => TypeOK
  BY DEF TypeInv
<1> QED BY <1>1, <1>2, <1>3, PTL DEF Spec

-------------------------------------------------------------------------------
(***************************************************************************)
(* IndexSound, for a deployment that provides SerialFetch, ImmutableNames  *)
(* and AllIndexable.  IndexSound alone is not inductive: a download could  *)
(* overwrite, and a deletion remove, a file of the index.  PlanSound says  *)
(* why the plan that a fetch formed earlier forbids both.                  *)
(***************************************************************************)
SafeInv == TypeInv /\ IndexSound /\ PlanSound

\* BadNames is empty exactly when every entry of the manifest matches.
LEMMA NoBadNames ==
    ASSUME NEW r, NEW fs
    PROVE  BadNames(fs, r) = {} <=> \A i \in DOMAIN Files(r) : Matches(fs, Files(r)[i])
BY DEF BadNames

\* Names outside the index keep their role when the directory changes there.
LEMMA IndexKept ==
    ASSUME IndexSound, damaged' = damaged, index' = index,
           index # NoIndex => \A n \in NamesOf(index.rel) : files'[n] = files[n]
    PROVE  IndexSound'
<1> SUFFICES ASSUME ~damaged, index # NoIndex
             PROVE  /\ BadNames(files, index.rel)' = {}
                    /\ \A n \in Names : index.cover[n] = IF n \in NamesOf(index.rel)'
                                                         THEN Universe(files[n])' ELSE {}
  BY DEF IndexSound
<1>1. \A i \in DOMAIN Files(index.rel) : Matches(files, Files(index.rel)[i])
  BY NoBadNames DEF IndexSound
<1>2. \A i \in DOMAIN Files(index.rel) :
        files'[Files(index.rel)[i].filename] = files[Files(index.rel)[i].filename]
  BY DEF NamesOf
<1>3. \A i \in DOMAIN Files(index.rel) : Matches(files', Files(index.rel)[i])
  BY <1>1, <1>2 DEF Matches
<1>4. BadNames(files, index.rel)' = {}
  BY <1>3 DEF BadNames, Files, Matches
<1>5. NamesOf(index.rel)' = NamesOf(index.rel)
  BY DEF NamesOf, Files
<1>6. \A n \in NamesOf(index.rel) : Universe(files[n])' = Universe(files[n])
  BY DEF Universe
<1>7. \A n \in Names : index.cover[n] = IF n \in NamesOf(index.rel)'
                                       THEN Universe(files[n])' ELSE {}
  BY <1>5, <1>6 DEF IndexSound
<1> QED BY <1>4, <1>7

\* A fetch is not concerned by a step that leaves its job, the files and the
\* index alone, nor by one that ends or starts a fetch.
LEMMA FetchKept ==
    ASSUME NEW f, FetchSound(f), job'[f] = job[f], files' = files, index' = index
    PROVE  FetchSound(f)'
<1>1. \A i : EntryDone(f, i)' <=> EntryDone(f, i)
  BY DEF EntryDone, Matches, Files
<1>2. NamesOf(index.rel)' = NamesOf(index.rel) /\ NamesOf(job[f].rel)' = NamesOf(job[f].rel)
  BY DEF NamesOf, Files
<1>3. DownloadsAside(f)' <=> DownloadsAside(f)
  BY <1>2 DEF DownloadsAside, Files
<1>4. Prefix(f)' = Prefix(f)
  BY DEF Prefix, Files
<1>5. \A n : Universe(files[n])' = Universe(files[n])
  BY DEF Universe
<1>6. Files(job[f].rel)' = Files(job[f].rel)
  BY DEF Files
<1>7. \A i : Matches(files, Files(job[f].rel)[i])' <=> Matches(files, Files(job[f].rel)[i])
  BY DEF Matches, Files
<1> QED BY <1>1, <1>2, <1>3, <1>4, <1>5, <1>6, <1>7 DEF FetchSound

\* A fetch that is not running, or only starting, relies on nothing.
LEMMA FetchStarts ==
    ASSUME NEW f, job'[f].pc \in {"idle", "old", "list"}
    PROVE  FetchSound(f)'
BY DEF FetchSound

\* In a sound state, a file that does not match its entry is not in the index.
LEMMA MismatchAside ==
    ASSUME TypeInv, IndexSound, ImmutableNames, ~damaged, index # NoIndex,
           NEW r \in Releases, NEW i \in DOMAIN Files(r), ~Matches(files, Files(r)[i])
    PROVE  Files(r)[i].filename \notin NamesOf(index.rel)
<1> SUFFICES ASSUME Files(r)[i].filename \in NamesOf(index.rel) PROVE FALSE
  OBVIOUS
<1>1. PICK m \in DOMAIN Files(index.rel) :
        Files(index.rel)[m].filename = Files(r)[i].filename
  BY DEF NamesOf
<1>2. index.rel \in Releases
  BY DEF TypeInv, TypeOK, IndexFile
<1>3. Files(index.rel)[m].hash = Files(r)[i].hash
  BY <1>1, <1>2 DEF ImmutableNames
<1>4. Matches(files, Files(index.rel)[m])
  BY NoBadNames DEF IndexSound
<1> QED BY <1>1, <1>3, <1>4 DEF Matches

\* The primed forms, with the prime moved to the variables.
LEMMA Primed ==
    ASSUME NEW f
    PROVE  /\ \A i : EntryDone(f, i)' <=>
                   \/ Matches(files', Files(job'[f].rel)[i])
                   \/ \E k \in job'[f].todo :
                        Files(job'[f].rel)[k].filename = Files(job'[f].rel)[i].filename
           /\ DownloadsAside(f)' <=>
                 \A k \in job'[f].todo :
                    /\ k \in DOMAIN Files(job'[f].rel)
                    /\ index' # NoIndex =>
                         Files(job'[f].rel)[k].filename \notin NamesOf(index'.rel)
           /\ Prefix(f)' = {Files(job'[f].rel)[k].filename :
                  k \in {m \in DOMAIN Files(job'[f].rel) : m < job'[f].pos}}
           /\ FetchSound(f)' <=>
                 /\ job'[f].pc = "hash" =>
                      /\ \A i \in DOMAIN Files(job'[f].rel) :
                            i < job'[f].pos => EntryDone(f, i)'
                      /\ job'[f].unwanted \cap Prefix(f)' = {}
                 /\ job'[f].pc \in {"plan", "mkdir", "download", "check"} =>
                      \A i \in DOMAIN Files(job'[f].rel) : EntryDone(f, i)'
                 /\ job'[f].pc \in {"hash", "plan", "mkdir", "download", "check"}
                      => DownloadsAside(f)'
                 /\ job'[f].pc \in {"plan", "mkdir", "download", "check", "index",
                                    "manifest", "delete"}
                      => job'[f].unwanted \cap NamesOf(job'[f].rel) = {}
                 /\ job'[f].pc = "index" =>
                      /\ \A i \in DOMAIN Files(job'[f].rel) :
                            Matches(files', Files(job'[f].rel)[i])
                      /\ \A n \in Names : job'[f].cover[n] =
                            IF n \in Prefix(f)' THEN Universe(files'[n]) ELSE {}
                 /\ job'[f].pc \in {"manifest", "delete"} =>
                      index' # NoIndex /\ index'.rel = job'[f].rel
<1>1. \A i : EntryDone(f, i)' <=>
         \/ Matches(files', Files(job'[f].rel)[i])
         \/ \E k \in job'[f].todo :
              Files(job'[f].rel)[k].filename = Files(job'[f].rel)[i].filename
  BY DEF EntryDone, Matches, Files
<1>2. NamesOf(index.rel)' = NamesOf(index'.rel) /\ NamesOf(job[f].rel)' = NamesOf(job'[f].rel)
  BY DEF NamesOf, Files
<1>3. DownloadsAside(f)' <=>
         \A k \in job'[f].todo :
            /\ k \in DOMAIN Files(job'[f].rel)
            /\ index' # NoIndex =>
                 Files(job'[f].rel)[k].filename \notin NamesOf(index'.rel)
  BY <1>2 DEF DownloadsAside, Files
<1>4. Prefix(f)' = {Files(job'[f].rel)[k].filename :
         k \in {m \in DOMAIN Files(job'[f].rel) : m < job'[f].pos}}
  BY DEF Prefix, Files
<1>5. \A n : Universe(files[n])' = Universe(files'[n])
  BY DEF Universe
<1>6. Files(job[f].rel)' = Files(job'[f].rel)
  BY DEF Files
<1>7. \A i : Matches(files, Files(job[f].rel)[i])' <=> Matches(files', Files(job'[f].rel)[i])
  BY DEF Matches, Files
<1> QED BY <1>1, <1>2, <1>3, <1>4, <1>5, <1>6, <1>7 DEF FetchSound

\* Forming the plan keeps the index and prepares a sound execution.
LEMMA PlanStepSafe ==
    ASSUME SafeInv, ImmutableNames, ~damaged, NEW f \in Fetchers, PlanStep(f)
    PROVE  FetchSound(f)'
<1>0. /\ job[f] \in JobRecord /\ f \in Jobs /\ job \in [Jobs -> JobRecord]
      /\ FetchSound(f) /\ files' = files /\ index' = index
  <2>1. files' = files /\ index' = index
    BY DEF PlanStep, ListDir, HashFile, SpareOld, UsePlan, cache
  <2> QED BY <2>1 DEF SafeInv, TypeInv, TypeOK, Jobs, PlanSound
<1>1. CASE ListDir(f)
  <2>1. /\ job'[f].pc = "hash" /\ job'[f].pos = 1 /\ job'[f].rel = job[f].rel
        /\ job'[f].todo = job[f].todo
    BY <1>0, <1>1 DEF ListDir, JobRecord
  <2>2. job[f].rel \in Releases /\ job[f].todo = {}
    BY <1>0, <1>1 DEF ListDir, SafeInv, TypeInv, JobShape
  <2>3. \A i \in DOMAIN Files(job[f].rel) : ~(i < 1)
    BY <2>2, EntryType
  <2>4. Prefix(f)' = {}
    BY <2>1, <2>3, Primed
  <2>5. DownloadsAside(f)'
    BY <2>1, <2>2, Primed
  <2> QED BY <2>1, <2>3, <2>4, <2>5, Primed
<1>2. CASE HashFile(f)
  <2> DEFINE i == job[f].pos
             e == Files(job[f].rel)[i]
             td == IF Matches(files, e) THEN job[f].todo ELSE job[f].todo \cup {i}
  <2>1. /\ job'[f].pc = "hash" /\ job'[f].pos = i + 1 /\ job'[f].rel = job[f].rel
        /\ job'[f].todo = td /\ job'[f].unwanted = job[f].unwanted \ {e.filename}
    BY <1>0, <1>2 DEF HashFile, JobRecord
  <2>2. job[f].rel \in Releases /\ i \in DOMAIN Files(job[f].rel) /\ i \in Nat
        /\ job[f].pc = "hash"
    BY <1>0, <1>2 DEF HashFile, SafeInv, TypeInv, JobShape, JobRecord
  <2>3. \A k \in DOMAIN Files(job[f].rel) : k < i + 1 <=> k < i \/ k = i
    BY <2>2, EntryType
  <2>4. \A k \in DOMAIN Files(job[f].rel) : k < i + 1 => EntryDone(f, k)'
    <3> SUFFICES ASSUME NEW k \in DOMAIN Files(job[f].rel), k < i \/ k = i
                 PROVE  EntryDone(f, k)'
      BY <2>3
    <3>1. CASE k < i
      <4>1. EntryDone(f, k)
        BY <1>0, <2>2, <3>1 DEF FetchSound
      <4> QED BY <1>0, <2>1, <4>1, Primed DEF EntryDone
    <3>2. CASE k = i
      BY <1>0, <2>1, <3>2, Primed
    <3> QED BY <3>1, <3>2
  <2>5. Prefix(f)' = Prefix(f) \cup {e.filename}
    BY <2>1, <2>2, <2>3, Primed DEF Prefix
  <2>6. job'[f].unwanted \cap Prefix(f)' = {}
    BY <1>0, <2>1, <2>2, <2>5 DEF FetchSound
  <2>7. DownloadsAside(f)'
    <3> SUFFICES ASSUME NEW k \in td
                 PROVE  /\ k \in DOMAIN Files(job[f].rel)
                        /\ index # NoIndex =>
                             Files(job[f].rel)[k].filename \notin NamesOf(index.rel)
      BY <1>0, <2>1, Primed
    <3>1. CASE k \in job[f].todo
      BY <1>0, <2>2, <3>1 DEF FetchSound, DownloadsAside
    <3>2. CASE k = i /\ ~Matches(files, e)
      BY <2>2, <3>2, MismatchAside DEF SafeInv
    <3> QED BY <3>1, <3>2
  <2> HIDE DEF i, e, td
  <2> QED BY <2>1, <2>4, <2>6, <2>7, Primed
<1>3. CASE SpareOld(f)
  <2>1. /\ job'[f].pc = "plan" /\ job'[f].rel = job[f].rel /\ job'[f].todo = job[f].todo
        /\ job'[f].unwanted \subseteq job[f].unwanted
    BY <1>0, <1>3 DEF SpareOld, JobRecord
  <2>2. job[f].rel \in Releases /\ job[f].pos \in Nat /\ job[f].pos >= 1
        /\ job[f].pc = "hash" /\ job[f].pos \notin DOMAIN Files(job[f].rel)
    BY <1>0, <1>3 DEF SpareOld, SafeInv, TypeInv, JobShape, JobRecord
  <2>3. \A i \in DOMAIN Files(job[f].rel) : i < job[f].pos
    <3>1. Files(job[f].rel) \in Seq(ManifestFile)
      BY <2>2, ReleaseAssumption DEF Files
    <3> QED BY <2>2, <3>1
  <2>4. Prefix(f) = NamesOf(job[f].rel)
    BY <2>3 DEF Prefix, NamesOf
  <2>5. \A i \in DOMAIN Files(job[f].rel) : EntryDone(f, i)'
    BY <1>0, <2>1, <2>2, <2>3, Primed DEF FetchSound, EntryDone
  <2>6. DownloadsAside(f)'
    BY <1>0, <2>1, <2>2, Primed DEF FetchSound, DownloadsAside
  <2>7. job'[f].unwanted \cap NamesOf(job[f].rel) = {}
    BY <1>0, <2>1, <2>2, <2>4 DEF FetchSound
  <2> QED BY <2>1, <2>5, <2>6, <2>7, Primed
<1>4. CASE UsePlan(f)
  <2>1. CASE job[f].mode = "fetch"
    <3>1. /\ job'[f].pc = "mkdir" /\ job'[f].rel = job[f].rel
          /\ job'[f].todo = job[f].todo /\ job'[f].unwanted = job[f].unwanted
      BY <1>0, <1>4, <2>1 DEF UsePlan, JobRecord
    <3>2. job[f].pc = "plan"
      BY <1>4 DEF UsePlan
    <3>3. \A i \in DOMAIN Files(job[f].rel) : EntryDone(f, i)'
      BY <1>0, <3>1, <3>2, Primed DEF FetchSound, EntryDone
    <3>4. DownloadsAside(f)'
      BY <1>0, <3>1, <3>2, Primed DEF FetchSound, DownloadsAside
    <3>5. job'[f].unwanted \cap NamesOf(job[f].rel) = {}
      BY <1>0, <3>1, <3>2 DEF FetchSound
    <3> QED BY <3>1, <3>3, <3>4, <3>5, Primed
  <2>2. CASE job[f].mode # "fetch"
    <3>1. job'[f].pc = "idle"
      BY <1>0, <1>4, <2>2 DEF UsePlan, JobRecord, Ended, IdleJob
    <3> QED BY <3>1, FetchStarts
  <2> QED BY <2>1, <2>2
<1> QED BY <1>1, <1>2, <1>3, <1>4 DEF PlanStep

\* Entering SaveIndex: with no download left every file matches, and the
\* collection of universes starts empty.
LEMMA EnterIndex ==
    ASSUME SafeInv, NEW f \in Fetchers,
           job'[f].pc = "index", job'[f].todo = {}, job'[f].pos = 1,
           job'[f].rel \in Releases, job'[f].cover = [n \in Names |-> {}],
           job'[f].unwanted \cap NamesOf(job'[f].rel) = {},
           \A i \in DOMAIN Files(job'[f].rel) : EntryDone(f, i)'
    PROVE  FetchSound(f)'
<1>1. \A i \in DOMAIN Files(job'[f].rel) : Matches(files', Files(job'[f].rel)[i])
  BY Primed
<1>2. \A i \in DOMAIN Files(job'[f].rel) : ~(i < 1)
  BY EntryType
<1>3. Prefix(f)' = {}
  BY <1>2, Primed
<1> QED BY <1>1, <1>3, Primed

\* Executing the plan keeps the index sound.
LEMMA ExecuteSafe ==
    ASSUME SafeInv, SerialFetch, ImmutableNames, AllIndexable, ~damaged,
           NEW f \in Fetchers,
           \/ CreateDir(f) \/ DownloadWrite(f) \/ DownloadVerify(f)
           \/ IndexOneFile(f) \/ PersistIndex(f) \/ SaveManifest(f)
           \/ DeleteFile(f) \/ FinishFetch(f)
    PROVE  FetchSound(f)' /\ IndexSound'
<1>0. /\ job[f] \in JobRecord /\ f \in Jobs /\ job \in [Jobs -> JobRecord]
      /\ FetchSound(f) /\ IndexSound /\ TypeOK /\ JobShape
  BY DEF SafeInv, TypeInv, TypeOK, Jobs, PlanSound
<1>d. damaged' = damaged
  BY DEF CreateDir, DownloadWrite, DownloadVerify, IndexOneFile, PersistIndex,
         SaveManifest, DeleteFile, FinishFetch, history
<1>s. ASSUME files' = files, index' = index
      PROVE  IndexSound'
  BY <1>0, <1>d, <1>s, IndexKept
<1>1. CASE CreateDir(f)
  <2>1. /\ job'[f].pc = AfterDownloads(job[f].todo) /\ job'[f].rel = job[f].rel
        /\ job'[f].todo = job[f].todo /\ job'[f].unwanted = job[f].unwanted
        /\ job'[f].pos = job[f].pos /\ job'[f].cover = job[f].cover
        /\ files' = files /\ index' = index
    BY <1>0, <1>1 DEF CreateDir, JobRecord
  <2>2. job[f].pc = "mkdir" /\ job[f].rel \in Releases /\ job[f].pos = 1
        /\ job[f].cover = [n \in Names |-> {}]
    BY <1>0, <1>1 DEF CreateDir, JobShape
  <2>3. \A i \in DOMAIN Files(job[f].rel) : EntryDone(f, i)'
    BY <1>0, <2>1, <2>2, Primed DEF FetchSound, EntryDone
  <2>4. DownloadsAside(f)'
    BY <1>0, <2>1, <2>2, Primed DEF FetchSound, DownloadsAside
  <2>5. job'[f].unwanted \cap NamesOf(job[f].rel) = {}
    BY <1>0, <2>1, <2>2 DEF FetchSound
  <2>6. CASE job[f].todo = {}
    <3>1. job'[f].pc = "index"
      BY <2>1, <2>6 DEF AfterDownloads
    <3> QED BY <1>s, <2>1, <2>2, <2>3, <2>5, <2>6, <3>1, EnterIndex
  <2>7. CASE job[f].todo # {}
    <3>1. job'[f].pc = "download"
      BY <2>1, <2>7 DEF AfterDownloads
    <3>2. FetchSound(f)'
      BY <2>1, <2>3, <2>4, <2>5, <3>1, Primed
    <3> QED BY <1>s, <2>1, <3>2
  <2> QED BY <2>6, <2>7
<1>2. CASE DownloadWrite(f)
  <2>1. /\ job'[f].pc = "check" /\ job'[f].rel = job[f].rel
        /\ job'[f].todo = job[f].todo /\ job'[f].unwanted = job[f].unwanted
        /\ index' = index
    BY <1>0, <1>2 DEF DownloadWrite, JobRecord
  <2>2. job[f].pc = "download" /\ job[f].rel \in Releases
    BY <1>0, <1>2 DEF DownloadWrite, JobShape
  <2>3. PICK i \in DOMAIN Files(job[f].rel), c \in Contents :
          /\ i \in job[f].todo
          /\ files' = [files EXCEPT ![Files(job[f].rel)[i].filename] = c]
    BY <1>2 DEF DownloadWrite, IsNext
  <2> DEFINE n == Files(job[f].rel)[i].filename
  <2>4. \A m \in Names : m # n => files'[m] = files[m]
    BY <1>0, <2>3 DEF TypeOK
  <2>5. \A k \in DOMAIN Files(job[f].rel) : EntryDone(f, k)'
    <3> SUFFICES ASSUME NEW k \in DOMAIN Files(job[f].rel) PROVE EntryDone(f, k)'
      OBVIOUS
    <3>1. CASE Files(job[f].rel)[k].filename = n
      BY <2>1, <2>3, <3>1, Primed
    <3>2. CASE Files(job[f].rel)[k].filename # n
      <4>1. EntryDone(f, k)
        BY <1>0, <2>2 DEF FetchSound
      <4>2. files'[Files(job[f].rel)[k].filename] = files[Files(job[f].rel)[k].filename]
        BY <2>2, <2>4, <3>2, EntryType
      <4>3. Matches(files, Files(job[f].rel)[k]) => Matches(files', Files(job[f].rel)[k])
        BY <4>2 DEF Matches
      <4> QED BY <2>1, <4>1, <4>3, Primed DEF EntryDone
    <3> QED BY <3>1, <3>2
  <2>6. DownloadsAside(f)'
    BY <1>0, <2>1, <2>2, Primed DEF FetchSound, DownloadsAside
  <2>7. job'[f].unwanted \cap NamesOf(job[f].rel) = {}
    BY <1>0, <2>1, <2>2 DEF FetchSound
  <2>8. index # NoIndex => n \notin NamesOf(index.rel)
    BY <1>0, <2>2, <2>3 DEF FetchSound, DownloadsAside
  <2>9. index # NoIndex => NamesOf(index.rel) \subseteq Names
    BY <1>0, EntryType DEF TypeOK, IndexFile
  <2>10. index # NoIndex => \A m \in NamesOf(index.rel) : files'[m] = files[m]
    BY <2>4, <2>8, <2>9
  <2>11. IndexSound'
    BY <1>0, <1>d, <2>1, <2>10, IndexKept
  <2>12. FetchSound(f)'
    BY <2>1, <2>5, <2>6, <2>7, Primed
  <2> QED BY <2>11, <2>12
<1>3. CASE DownloadVerify(f)
  <2>1. job[f].pc = "check" /\ job[f].rel \in Releases /\ job[f].pos = 1
        /\ job[f].cover = [n \in Names |-> {}] /\ files' = files /\ index' = index
    BY <1>0, <1>3 DEF DownloadVerify, JobShape, cache
  <2>2. PICK i \in DOMAIN Files(job[f].rel) :
          \/ /\ Matches(files, Files(job[f].rel)[i])
             /\ job' = [job EXCEPT ![f].pc = AfterDownloads(job[f].todo \ {i}),
                                   ![f].todo = @ \ {i}]
          \/ job' = [job EXCEPT ![f] = Ended(f, "error")]
    BY <1>3 DEF DownloadVerify
  <2>3. CASE /\ Matches(files, Files(job[f].rel)[i])
             /\ job' = [job EXCEPT ![f].pc = AfterDownloads(job[f].todo \ {i}),
                                   ![f].todo = @ \ {i}]
    <3>1. /\ job'[f].pc = AfterDownloads(job[f].todo \ {i}) /\ job'[f].rel = job[f].rel
          /\ job'[f].todo = job[f].todo \ {i} /\ job'[f].unwanted = job[f].unwanted
          /\ job'[f].pos = job[f].pos /\ job'[f].cover = job[f].cover
      BY <1>0, <2>3 DEF JobRecord
    <3>2. \A k \in DOMAIN Files(job[f].rel) : EntryDone(f, k)'
      <4> SUFFICES ASSUME NEW k \in DOMAIN Files(job[f].rel) PROVE EntryDone(f, k)'
        OBVIOUS
      <4>1. EntryDone(f, k)
        BY <1>0, <2>1 DEF FetchSound
      <4>2. CASE Files(job[f].rel)[k].filename = Files(job[f].rel)[i].filename
        <5>1. Files(job[f].rel)[k].hash = Files(job[f].rel)[i].hash
          BY <2>1, <4>2 DEF ImmutableNames
        <5>2. Matches(files, Files(job[f].rel)[k])
          BY <2>3, <4>2, <5>1 DEF Matches
        <5> QED BY <2>1, <3>1, <5>2, Primed
      <4>3. CASE Files(job[f].rel)[k].filename # Files(job[f].rel)[i].filename
        BY <2>1, <3>1, <4>1, <4>3, Primed DEF EntryDone
      <4> QED BY <4>2, <4>3
    <3>3. DownloadsAside(f)'
      BY <1>0, <2>1, <3>1, Primed DEF FetchSound, DownloadsAside
    <3>4. job'[f].unwanted \cap NamesOf(job[f].rel) = {}
      BY <1>0, <2>1, <3>1 DEF FetchSound
    <3>5. CASE job[f].todo \ {i} = {}
      <4>1. job'[f].pc = "index"
        BY <3>1, <3>5 DEF AfterDownloads
      <4>2. FetchSound(f)'
        BY <2>1, <3>1, <3>2, <3>4, <3>5, <4>1, EnterIndex
      <4> QED BY <1>s, <2>1, <4>2
    <3>6. CASE job[f].todo \ {i} # {}
      <4>1. job'[f].pc = "download"
        BY <3>1, <3>6 DEF AfterDownloads
      <4>2. FetchSound(f)'
        BY <3>1, <3>2, <3>3, <3>4, <4>1, Primed
      <4> QED BY <1>s, <2>1, <4>2
    <3> QED BY <3>5, <3>6
  <2>4. CASE job' = [job EXCEPT ![f] = Ended(f, "error")]
    <3>1. job'[f].pc = "idle"
      BY <1>0, <2>4 DEF Ended, IdleJob
    <3> QED BY <1>s, <2>1, <3>1, FetchStarts
  <2> QED BY <2>2, <2>3, <2>4
<1>4. CASE IndexOneFile(f)
  <2> DEFINE p == job[f].pos
             n == Files(job[f].rel)[p].filename
             cv == [job[f].cover EXCEPT ![n] = @ \cup Universe(files[n])]
  <2>1. job[f].pc = "index" /\ job[f].rel \in Releases /\ files' = files /\ index' = index
        /\ p \in DOMAIN Files(job[f].rel)
    BY <1>0, <1>4 DEF IndexOneFile, JobShape, cache
  <2>2. Matches(files, Files(job[f].rel)[p])
    BY <1>0, <2>1 DEF FetchSound
  <2>3. n \in Names /\ n \notin LongNames /\ files[n] \in Decodable
    <3>1. n \in Names
      BY <2>1, EntryType
    <3>2. files[n] \in Contents /\ Digest[files[n]] = Files(job[f].rel)[p].hash
      BY <1>0, <2>2, <3>1 DEF Matches, TypeOK
    <3> QED BY <2>1, <3>1, <3>2 DEF AllIndexable
  <2>4. job' = [job EXCEPT ![f].pos = @ + 1, ![f].cover = cv]
    BY <1>4, <2>3 DEF IndexOneFile
  <2>5. /\ job'[f].pc = "index" /\ job'[f].rel = job[f].rel /\ job'[f].pos = p + 1
        /\ job'[f].cover = cv /\ job'[f].unwanted = job[f].unwanted
    <3> HIDE DEF cv
    <3> QED BY <1>0, <2>1, <2>4 DEF JobRecord
  <2>6. \A k \in DOMAIN Files(job[f].rel) : k < p + 1 <=> k < p \/ k = p
    BY <2>1, EntryType
  <2>7. Prefix(f)' = Prefix(f) \cup {n}
    BY <2>1, <2>5, <2>6, Primed DEF Prefix
  <2>8. job[f].cover \in [Names -> SUBSET Certs]
    BY <1>0 DEF JobRecord
  <2>9. \A m \in Names : cv[m] = IF m \in Prefix(f)' THEN Universe(files[m]) ELSE {}
    <3> SUFFICES ASSUME NEW m \in Names
                 PROVE  cv[m] = IF m \in Prefix(f)' THEN Universe(files[m]) ELSE {}
      OBVIOUS
    <3>1. job[f].cover[m] = IF m \in Prefix(f) THEN Universe(files[m]) ELSE {}
      BY <1>0, <2>1 DEF FetchSound
    <3>2. cv[m] = IF m = n THEN job[f].cover[m] \cup Universe(files[m]) ELSE job[f].cover[m]
      BY <2>8
    <3> QED BY <2>7, <3>1, <3>2
  <2>10. job'[f].unwanted \cap NamesOf(job[f].rel) = {}
    BY <1>0, <2>1, <2>5 DEF FetchSound
  <2>11. \A i \in DOMAIN Files(job[f].rel) : Matches(files, Files(job[f].rel)[i])
    BY <1>0, <2>1 DEF FetchSound
  <2> HIDE DEF cv
  <2>12. FetchSound(f)'
    BY <2>1, <2>5, <2>9, <2>10, <2>11, Primed
  <2> QED BY <1>s, <2>1, <2>12
<1>5. CASE PersistIndex(f)
  <2>1. job[f].pc = "index" /\ job[f].rel \in Releases /\ files' = files
        /\ job[f].pos \in Nat /\ job[f].pos >= 1 /\ job[f].pos \notin DOMAIN Files(job[f].rel)
        /\ job[f].cover \in [Names -> SUBSET Certs]
    BY <1>0, <1>5 DEF PersistIndex, JobShape, JobRecord
  <2>2. /\ job'[f].pc = "manifest" /\ job'[f].rel = job[f].rel
        /\ job'[f].unwanted = job[f].unwanted
        /\ index' = [rel |-> job[f].rel, cover |-> job[f].cover]
    BY <1>0, <1>5 DEF PersistIndex, JobRecord
  <2>3. index' # NoIndex /\ index'.rel = job[f].rel /\ index'.cover = job[f].cover
    BY <2>1, <2>2, IndexAssumption DEF IndexFile
  <2>4. \A i \in DOMAIN Files(job[f].rel) : i < job[f].pos
    <3>1. Files(job[f].rel) \in Seq(ManifestFile)
      BY <2>1, ReleaseAssumption DEF Files
    <3> QED BY <2>1, <3>1
  <2>5. Prefix(f) = NamesOf(job[f].rel)
    BY <2>4 DEF Prefix, NamesOf
  <2>6. BadNames(files, job[f].rel) = {}
    BY <1>0, <2>1, NoBadNames DEF FetchSound
  <2>7. \A n \in Names : job[f].cover[n] = IF n \in NamesOf(job[f].rel)
                                           THEN Universe(files[n]) ELSE {}
    BY <1>0, <2>1, <2>5 DEF FetchSound
  <2>8. BadNames(files, index.rel)' = {}
    BY <2>1, <2>3, <2>6 DEF BadNames, Files, Matches
  <2>9. NamesOf(index.rel)' = NamesOf(job[f].rel)
    BY <2>3 DEF NamesOf, Files
  <2>10. \A n : Universe(files[n])' = Universe(files[n])
    BY <2>1 DEF Universe
  <2>11. IndexSound'
    BY <2>3, <2>7, <2>8, <2>9, <2>10 DEF IndexSound
  <2>12. job'[f].unwanted \cap NamesOf(job[f].rel) = {}
    BY <1>0, <2>1, <2>2 DEF FetchSound
  <2>13. FetchSound(f)'
    BY <2>2, <2>3, <2>12, Primed
  <2> QED BY <2>11, <2>13
<1>6. CASE SaveManifest(f)
  <2>1. /\ job'[f].pc = "delete" /\ job'[f].rel = job[f].rel
        /\ job'[f].unwanted = job[f].unwanted /\ files' = files /\ index' = index
        /\ job[f].pc = "manifest"
    BY <1>0, <1>6 DEF SaveManifest, JobRecord
  <2>2. FetchSound(f)'
    BY <1>0, <2>1, Primed DEF FetchSound
  <2> QED BY <1>s, <2>1, <2>2
<1>7. CASE DeleteFile(f)
  <2>1. job[f].pc = "delete" /\ index' = index
        /\ index # NoIndex /\ index.rel = job[f].rel
        /\ job[f].unwanted \cap NamesOf(job[f].rel) = {}
    BY <1>0, <1>7 DEF DeleteFile, FetchSound
  <2>2. PICK n \in job[f].unwanted :
          \/ job' = [job EXCEPT ![f].unwanted = @ \ {n}]
             /\ files' = [files EXCEPT ![n] = Absent]
          \/ job' = [job EXCEPT ![f] = Ended(f, "error")] /\ files' = files
    BY <1>7 DEF DeleteFile
  <2>3. CASE job' = [job EXCEPT ![f].unwanted = @ \ {n}]
             /\ files' = [files EXCEPT ![n] = Absent]
    <3>1. \A m \in NamesOf(index.rel) : files'[m] = files[m]
      BY <1>0, <2>1, <2>2, <2>3 DEF TypeOK
    <3>2. IndexSound'
      BY <1>0, <1>d, <2>1, <3>1, IndexKept
    <3>3. /\ job'[f].pc = "delete" /\ job'[f].rel = job[f].rel
          /\ job'[f].unwanted \subseteq job[f].unwanted
      BY <1>0, <2>1, <2>3 DEF JobRecord
    <3>4. FetchSound(f)'
      BY <2>1, <3>3, Primed
    <3> QED BY <3>2, <3>4
  <2>4. CASE job' = [job EXCEPT ![f] = Ended(f, "error")] /\ files' = files
    <3>1. job'[f].pc = "idle"
      BY <1>0, <2>4 DEF Ended, IdleJob
    <3> QED BY <1>s, <2>1, <2>4, <3>1, FetchStarts
  <2> QED BY <2>2, <2>3, <2>4
<1>8. CASE FinishFetch(f)
  <2>1. job'[f].pc = "idle" /\ files' = files /\ index' = index
    BY <1>0, <1>8 DEF FinishFetch, Ended, IdleJob, cache
  <2> QED BY <1>s, <2>1, FetchStarts
<1> QED BY <1>1, <1>2, <1>3, <1>4, <1>5, <1>6, <1>7, <1>8

\* Nothing is indexed and no fetch runs in the initial state.
LEMMA SafeInit == Init => SafeInv
<1> SUFFICES ASSUME Init PROVE SafeInv
  OBVIOUS
<1>1. TypeInv
  BY TypeInit
<1>2. IndexSound
  BY DEF Init, IndexSound
<1>3. PlanSound
  BY DEF Init, PlanSound, FetchSound, IdleJob, Jobs
<1> QED BY <1>1, <1>2, <1>3 DEF SafeInv

\* Steps of processes other than the fetcher leave its job, the files and the
\* index alone; a step that starts or ends a fetch leaves the directory alone.
LEMMA OthersSafe ==
    ASSUME SafeInv, ~damaged', damaged' = damaged, files' = files, index' = index,
           \A f \in Fetchers : job'[f] = job[f] \/ job'[f].pc \in {"idle", "old", "list"}
    PROVE  IndexSound' /\ PlanSound'
<1>1. IndexSound'
  BY IndexKept DEF SafeInv
<1>2. \A f \in Fetchers : FetchSound(f)'
  BY FetchKept, FetchStarts DEF SafeInv, PlanSound
<1> QED BY <1>1, <1>2 DEF PlanSound

\* SafeInv is inductive.
LEMMA SafeNext ==
    ASSUME SafeInv, SerialFetch, ImmutableNames, AllIndexable, [Next]_vars
    PROVE  SafeInv'
<1>1. TypeInv'
  BY TypeNext DEF SafeInv
<1>2. ASSUME damaged' PROVE IndexSound' /\ PlanSound'
  BY <1>2 DEF IndexSound, PlanSound
<1>3. ASSUME ~damaged' PROVE IndexSound' /\ PlanSound'
  <2>0. job \in [Jobs -> JobRecord] /\ Fetchers \subseteq Jobs /\ Verifiers \subseteq Jobs
        /\ \A f \in Fetchers : f \notin Verifiers
    BY ProcessAssumption DEF SafeInv, TypeInv, TypeOK, Jobs
  <2>1. CASE Publish \/ UNCHANGED vars \/ \E c \in Checkers : OpenIndex(c) \/ CheckStep(c)
    <3>1. damaged' = damaged /\ files' = files /\ index' = index /\ job' = job
      BY <2>1 DEF Publish, vars, OpenIndex, CheckStep, ReadFilter, FinishCheck, cache, history
    <3> QED BY <1>3, <3>1, OthersSafe
  <2>2. CASE Damage
    BY <1>3, <2>2 DEF Damage
  <2>3. ASSUME NEW f \in Fetchers, NEW mode \in {"fetch", "dry"}, StartFetch(f, mode)
        PROVE  IndexSound' /\ PlanSound'
    <3>1. damaged' = damaged /\ files' = files /\ index' = index
      BY <2>3 DEF StartFetch, cache, history
    <3>2. \A g \in Fetchers : job'[g] = job[g] \/ job'[g].pc = "old"
      BY <2>0, <2>3 DEF StartFetch, IdleJob
    <3> QED BY <1>3, <3>1, <3>2, OthersSafe
  <2>4. ASSUME NEW v \in Verifiers, StartVerify(v) \/ PlanStep(v)
        PROVE  IndexSound' /\ PlanSound'
    <3>1. damaged' = damaged /\ files' = files /\ index' = index
      BY <2>4 DEF StartVerify, PlanStep, ListDir, HashFile, SpareOld, UsePlan, cache, history
    <3>2. \A g \in Fetchers : job'[g] = job[g]
      <4>1. PICK r : job' = [job EXCEPT ![v] = r]
        <5>1. CASE StartVerify(v)
          BY <5>1 DEF StartVerify
        <5>2. CASE ListDir(v)
          BY <2>0, <5>2 DEF ListDir
        <5>3. CASE HashFile(v)
          BY <2>0, <5>3 DEF HashFile
        <5>4. CASE SpareOld(v)
          BY <2>0, <5>4 DEF SpareOld
        <5>5. CASE UsePlan(v)
          BY <5>5 DEF UsePlan
        <5> QED BY <2>4, <5>1, <5>2, <5>3, <5>4, <5>5 DEF PlanStep
      <4> QED BY <2>0, <4>1
    <3> QED BY <1>3, <3>1, <3>2, OthersSafe
  <2>5. ASSUME NEW j \in Jobs, Abort(j)
        PROVE  IndexSound' /\ PlanSound'
    <3>1. damaged' = damaged /\ files' = files /\ index' = index
      BY <2>5 DEF Abort, cache
    <3>2. \A g \in Fetchers : job'[g] = job[g] \/ job'[g].pc = "idle"
      BY <2>0, <2>5 DEF Abort, Ended, IdleJob
    <3> QED BY <1>3, <3>1, <3>2, OthersSafe
  <2>6. ASSUME NEW f \in Fetchers, FetchStep(f)
        PROVE  IndexSound' /\ PlanSound'
    <3>1. CASE ReadOldManifest(f)
      <4>1. damaged' = damaged /\ files' = files /\ index' = index
        BY <3>1 DEF ReadOldManifest, cache, history
      <4>2. \A g \in Fetchers : job'[g] = job[g] \/ job'[g].pc = "list"
        BY <2>0, <3>1 DEF ReadOldManifest, JobRecord
      <4> QED BY <1>3, <4>1, <4>2, OthersSafe
    <3>2. CASE PlanStep(f)
      <4>1. damaged' = damaged /\ files' = files /\ index' = index
        BY <3>2 DEF PlanStep, ListDir, HashFile, SpareOld, UsePlan, cache, history
      <4>2. FetchSound(f)'
        BY <1>3, <3>2, <4>1, PlanStepSafe
      <4>3. IndexSound'
        BY <4>1, IndexKept DEF SafeInv
      <4> QED BY <4>2, <4>3 DEF PlanSound, SerialFetch
    <3>3. CASE \/ CreateDir(f) \/ DownloadWrite(f) \/ DownloadVerify(f)
               \/ IndexOneFile(f) \/ PersistIndex(f) \/ SaveManifest(f)
               \/ DeleteFile(f) \/ FinishFetch(f)
      <4>1. damaged' = damaged
        BY <3>3 DEF CreateDir, DownloadWrite, DownloadVerify, IndexOneFile, PersistIndex,
                    SaveManifest, DeleteFile, FinishFetch, history
      <4>2. FetchSound(f)' /\ IndexSound'
        BY <1>3, <3>3, <4>1, ExecuteSafe
      <4> QED BY <4>2 DEF PlanSound, SerialFetch
    <3> QED BY <2>6, <3>1, <3>2, <3>3 DEF FetchStep
  <2> QED BY <2>1, <2>2, <2>3, <2>4, <2>5, <2>6 DEF Next
<1>4. damaged' \in BOOLEAN
  BY <1>1 DEF TypeInv, TypeOK
<1> QED BY <1>1, <1>2, <1>3, <1>4 DEF SafeInv

\* index.bin is "the single source of truth": with at most one fetch at a time,
\* names that are never reused and contents that can be indexed, and whatever
\* steps fail, whatever bytes the network delivers and wherever a fetch dies,
\* every file that index.bin was built from is in the directory, unchanged.
THEOREM IndexAlwaysSound ==
    ASSUME SerialFetch, ImmutableNames, AllIndexable
    PROVE  Spec => []IndexSound
<1>1. Init => SafeInv
  BY SafeInit
<1>2. SafeInv /\ [Next]_vars => SafeInv'
  BY SafeNext
<1>3. SafeInv => IndexSound
  BY DEF SafeInv
<1> QED BY <1>1, <1>2, <1>3, PTL DEF Spec

\* ... and the plan of a running fetch stays right until it is executed.
THEOREM PlanAlwaysSound ==
    ASSUME SerialFetch, ImmutableNames, AllIndexable
    PROVE  Spec => []PlanSound
<1>1. Init => SafeInv
  BY SafeInit
<1>2. SafeInv /\ [Next]_vars => SafeInv'
  BY SafeNext
<1>3. SafeInv => PlanSound
  BY DEF SafeInv
<1> QED BY <1>1, <1>2, <1>3, PTL DEF Spec
===============================================================================
