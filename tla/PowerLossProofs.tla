---------------------------- MODULE PowerLossProofs ----------------------------
(***************************************************************************)
(* Proofs about PowerLoss, for every number of power losses.  After one,   *)
(* index.bin may be that of files that are gone or torn, so what a fetch   *)
(* promises has to be shown without relying on the index it finds.         *)
(***************************************************************************)
EXTENDS PowerLoss, CacheCheckProofs

(***************************************************************************)
(* What a path may hold.                                                   *)
(***************************************************************************)
OldRecord ==
    [dir : SUBSET BOOLEAN,
     files : [Names -> SUBSET (Contents \cup {Absent})],
     manifest : SUBSET (0 .. NumReleases),
     index : SUBSET (IndexFile \cup {NoIndex})]

\* What a path holds now is among what it may hold after a power loss.
NowIncluded ==
    /\ dir \in old.dir /\ manifest \in old.manifest /\ index \in old.index
    /\ \A n \in Names : files[n] \in old.files[n]

PTypeInv == TypeInv /\ old \in OldRecord /\ NowIncluded

\* After a restart, old is what was found.
LEMMA FoundType ==
    ASSUME TypeInv', Found
    PROVE  (old \in OldRecord /\ NowIncluded)'
<1>1. /\ dir' \in BOOLEAN /\ files' \in [Names -> Contents \cup {Absent}]
      /\ manifest' \in 0 .. NumReleases /\ index' \in IndexFile \cup {NoIndex}
  BY DEF TypeInv, TypeOK
<1> DEFINE of == [n \in Names |-> {files'[n]}]
<1>2. of \in [Names -> SUBSET (Contents \cup {Absent})]
  BY <1>1
<1>3. \A n \in Names : files'[n] \in of[n]
  OBVIOUS
<1> HIDE DEF of
<1>4. old' = [dir |-> {dir'}, files |-> of, manifest |-> {manifest'}, index |-> {index'}]
  BY DEF Found, of
<1>5. {dir'} \in SUBSET BOOLEAN
  BY <1>1
<1>6. {manifest'} \in SUBSET (0 .. NumReleases)
  BY <1>1
<1>7. {index'} \in SUBSET (IndexFile \cup {NoIndex})
  BY <1>1
<1>8. OldRecord' = OldRecord
  BY DEF OldRecord, IndexFile, Releases
<1>9. old' \in OldRecord
  BY <1>2, <1>4, <1>5, <1>6, <1>7 DEF OldRecord
<1>10. NowIncluded'
  BY <1>3, <1>4 DEF NowIncluded
<1> QED BY <1>8, <1>9, <1>10

\* A step of the cache adds what it renamed, and a torn file beside it.
LEMMA WrittenType ==
    ASSUME PTypeInv, TypeInv', Written
    PROVE  (old \in OldRecord /\ NowIncluded)'
<1>1. /\ dir' \in BOOLEAN /\ files' \in [Names -> Contents \cup {Absent}]
      /\ manifest' \in 0 .. NumReleases /\ index' \in IndexFile \cup {NoIndex}
      /\ 0 \in 0 .. NumReleases /\ Torn \in Contents
  BY ReleaseAssumption, TornAssumption DEF TypeInv, TypeOK
<1>2. /\ old.dir \in SUBSET BOOLEAN
      /\ old.files \in [Names -> SUBSET (Contents \cup {Absent})]
      /\ old.manifest \in SUBSET (0 .. NumReleases)
      /\ old.index \in SUBSET (IndexFile \cup {NoIndex})
  BY DEF PTypeInv, OldRecord
<1> DEFINE of == [n \in Names |->
                    IF files'[n] = files[n] THEN old.files[n]
                    ELSE old.files[n] \cup {files'[n]}
                           \cup (IF files'[n] = Absent THEN {} ELSE {Torn})]
           om == IF \E f \in Fetchers : SaveManifest(f)
                 THEN old.manifest \cup {0, manifest'}
                 ELSE old.manifest \cup {manifest'}
           oi == IF \E f \in Fetchers : PersistIndex(f)
                 THEN old.index \cup {NoIndex, index'}
                 ELSE old.index \cup {index'}
<1>3. of \in [Names -> SUBSET (Contents \cup {Absent})]
  BY <1>1, <1>2
<1>4. \A n \in Names : files'[n] \in of[n]
  BY DEF PTypeInv, NowIncluded
<1>5. om \in SUBSET (0 .. NumReleases) /\ manifest' \in om
  BY <1>1, <1>2
<1>6. oi \in SUBSET (IndexFile \cup {NoIndex}) /\ index' \in oi
  BY <1>1, <1>2
<1>7. old.dir \cup {dir'} \in SUBSET BOOLEAN
  BY <1>1, <1>2
<1>8. old' = [dir |-> old.dir \cup {dir'}, files |-> of, manifest |-> om, index |-> oi]
  BY DEF Written
<1> HIDE DEF of, om, oi
<1>9. OldRecord' = OldRecord
  BY DEF OldRecord, IndexFile, Releases
<1>10. old' \in OldRecord
  BY <1>3, <1>5, <1>6, <1>7, <1>8 DEF OldRecord
<1>11. NowIncluded'
  BY <1>4, <1>5, <1>6, <1>8 DEF NowIncluded
<1> QED BY <1>9, <1>10, <1>11

\* After a power loss every path holds something of its type, and nothing runs.
LEMMA LoseType ==
    ASSUME PTypeInv, Lose
    PROVE  TypeInv'
<1>1. /\ old.dir \in SUBSET BOOLEAN
      /\ old.files \in [Names -> SUBSET (Contents \cup {Absent})]
      /\ old.manifest \in SUBSET (0 .. NumReleases)
      /\ old.index \in SUBSET (IndexFile \cup {NoIndex})
  BY DEF PTypeInv, OldRecord
<1>2. dir' \in BOOLEAN
  BY <1>1 DEF Lose
<1>3. files' \in [Names -> Contents \cup {Absent}]
  BY <1>1 DEF Lose
<1>4. manifest' \in 0 .. NumReleases
  BY <1>1, ReleaseAssumption DEF Lose
<1>5. index' \in IndexFile \cup {NoIndex}
  BY <1>1 DEF Lose
<1>6. IdleJob \in JobRecord
  BY IdleJobType DEF Exits
<1>7. IdleCheck \in CheckRecord
  BY ContentAssumption DEF IdleCheck, CheckRecord
<1>8. job' \in [Jobs -> JobRecord] /\ chk' \in [Checkers -> CheckRecord]
  BY <1>6, <1>7 DEF Lose
<1>9. faults' \in 0 .. MaxFaults
  BY ProcessAssumption DEF Lose, PTypeInv, TypeInv, TypeOK
<1>10. TypeOK'
  BY <1>2, <1>3, <1>4, <1>5, <1>8, <1>9 DEF Lose, PTypeInv, TypeInv, TypeOK
<1>11. JobShape'
  BY DEF Lose, JobShape, IdleJob
<1> QED BY <1>10, <1>11 DEF TypeInv

\* PTypeInv is inductive.
LEMMA PTypeNext ==
    ASSUME PTypeInv, [PNext]_pvars
    PROVE  PTypeInv'
<1>1. CASE Next /\ Written
  <2>1. TypeInv'
    BY <1>1, TypeNext DEF PTypeInv
  <2> QED BY <1>1, <2>1, WrittenType DEF PTypeInv
<1>2. CASE Lose
  <2>1. TypeInv'
    BY <1>2, LoseType
  <2> QED BY <1>2, <2>1, FoundType DEF PTypeInv, Lose
<1>3. CASE UNCHANGED pvars
  <2>1. TypeInv'
    BY <1>3, TypeStutter DEF pvars, PTypeInv
  <2>2. OldRecord' = OldRecord
    BY DEF OldRecord, IndexFile, Releases
  <2>3. (old \in OldRecord)'
    BY <1>3, <2>2 DEF pvars, PTypeInv
  <2>4. NowIncluded'
    BY <1>3 DEF pvars, vars, PTypeInv, NowIncluded
  <2> QED BY <2>1, <2>3, <2>4 DEF PTypeInv
<1> QED BY <1>1, <1>2, <1>3 DEF PNext

\* Nothing was written yet.
LEMMA PTypeInit == PInit => PTypeInv
<1> SUFFICES ASSUME PInit PROVE PTypeInv
  OBVIOUS
<1>1. TypeInv
  BY TypeInit DEF PInit
<1> DEFINE of == [n \in Names |-> {Absent}]
<1>2. of \in [Names -> SUBSET (Contents \cup {Absent})] /\ \A n \in Names : of[n] = {Absent}
  OBVIOUS
<1> HIDE DEF of
<1>3. old = [dir |-> {dir}, files |-> of, manifest |-> {0}, index |-> {NoIndex}]
  BY DEF PInit, of
<1>4. {dir} \in SUBSET BOOLEAN /\ {0} \in SUBSET (0 .. NumReleases)
      /\ {NoIndex} \in SUBSET (IndexFile \cup {NoIndex})
  BY <1>1, ReleaseAssumption DEF TypeInv, TypeOK
<1>5. old \in OldRecord
  BY <1>2, <1>3, <1>4 DEF OldRecord
<1>6. NowIncluded
  BY <1>2, <1>3 DEF NowIncluded, PInit, Init
<1> QED BY <1>1, <1>5, <1>6 DEF PTypeInv

-------------------------------------------------------------------------------
\* `upki verify` is not deceived by what a power loss leaves: it never succeeds
\* while a file of the manifest it found is bad all the time it runs.
THEOREM VerifyIsSoundAfterLoss ==
    ASSUME SizesPositive
    PROVE  PSpec => []VerifySound
<1>1. PInit => PTypeInv /\ WatchInv
  <2> SUFFICES ASSUME PInit PROVE PTypeInv /\ WatchInv
    OBVIOUS
  <2>1. \A v \in Verifiers : job[v].pc = "idle" /\ job[v].exit = "none"
    BY DEF PInit, Init, IdleJob, Jobs
  <2> QED BY <2>1, PTypeInit DEF PTypeInv, WatchInv, WatchSound
<1>2. PTypeInv /\ WatchInv /\ [PNext]_pvars => (PTypeInv /\ WatchInv)'
  <2> SUFFICES ASSUME PTypeInv, WatchInv, [PNext]_pvars PROVE (PTypeInv /\ WatchInv)'
    OBVIOUS
  <2>1. PTypeInv'
    BY PTypeNext
  <2>2. CASE [Next]_vars
    BY <2>1, <2>2, WatchNext
  <2>3. CASE Lose
    <3>1. \A v \in Verifiers : job'[v].pc = "idle" /\ job'[v].exit = "none"
      BY <2>3 DEF Lose, IdleJob, Jobs
    <3>2. \A v \in Verifiers : WatchSound(v)'
      BY <3>1, WatchPrimed
    <3> QED BY <2>1, <3>1, <3>2 DEF WatchInv, PTypeInv
  <2> QED BY <2>2, <2>3 DEF PNext, pvars
<1>3. WatchInv => VerifySound
  BY DEF WatchInv, VerifySound
<1> QED BY <1>1, <1>2, <1>3, PTL DEF PSpec

-------------------------------------------------------------------------------
(***************************************************************************)
(* A fetch repairs: what it relies on between its steps, whatever index.bin*)
(* says.  FetchSound needs that no download touches a file of the index,   *)
(* which fails after a power loss; here every file is taken from the       *)
(* manifest alone.                                                         *)
(***************************************************************************)
Looking == {"plan", "mkdir", "download", "check"}
Saving == {"index", "manifest", "delete"}

RepairSound(f) ==
    LET j == job[f] IN
    /\ j.pc = "hash" =>
         /\ \A i \in DOMAIN Files(j.rel) : i < j.pos => EntryDone(f, i)
         /\ j.unwanted \cap Prefix(f) = {}
    /\ j.pc \in Looking => \A i \in DOMAIN Files(j.rel) : EntryDone(f, i)
    /\ j.pc \in Looking \cup Saving => j.unwanted \cap NamesOf(j.rel) = {}
    /\ j.pc \in Saving => \A i \in DOMAIN Files(j.rel) : Matches(files, Files(j.rel)[i])
    /\ j.pc \in {"manifest", "delete"} => index # NoIndex /\ index.rel = j.rel

RepairInv == ~damaged => \A f \in Fetchers : RepairSound(f)

\* The primed form, with the prime moved to the variables.
LEMMA RepairPrimed ==
    ASSUME NEW f
    PROVE  RepairSound(f)' <=>
             /\ job'[f].pc = "hash" =>
                  /\ \A i \in DOMAIN Files(job'[f].rel) :
                        i < job'[f].pos => EntryDone(f, i)'
                  /\ job'[f].unwanted \cap Prefix(f)' = {}
             /\ job'[f].pc \in Looking =>
                  \A i \in DOMAIN Files(job'[f].rel) : EntryDone(f, i)'
             /\ job'[f].pc \in Looking \cup Saving =>
                  job'[f].unwanted \cap NamesOf(job'[f].rel) = {}
             /\ job'[f].pc \in Saving =>
                  \A i \in DOMAIN Files(job'[f].rel) : Matches(files', Files(job'[f].rel)[i])
             /\ job'[f].pc \in {"manifest", "delete"} =>
                  index' # NoIndex /\ index'.rel = job'[f].rel
<1>1. NamesOf(job[f].rel)' = NamesOf(job'[f].rel)
  BY DEF NamesOf, Files
<1>2. Files(job[f].rel)' = Files(job'[f].rel)
  BY DEF Files
<1>3. \A i : Matches(files, Files(job[f].rel)[i])' <=> Matches(files', Files(job'[f].rel)[i])
  BY DEF Matches, Files
<1>4. Looking' = Looking /\ Saving' = Saving
  BY DEF Looking, Saving
<1> QED BY <1>1, <1>2, <1>3, <1>4 DEF RepairSound

\* A step that leaves the job, the files and the index alone.
LEMMA RepairKept ==
    ASSUME NEW f, RepairSound(f), job'[f] = job[f], files' = files, index' = index
    PROVE  RepairSound(f)'
<1>1. \A i : EntryDone(f, i)' <=> EntryDone(f, i)
  BY DEF EntryDone, Matches, Files
<1>2. Prefix(f)' = Prefix(f)
  BY DEF Prefix, Files
<1> QED BY <1>1, <1>2, RepairPrimed DEF RepairSound

\* A fetch that is not running, or only starting, relies on nothing.
LEMMA RepairStarts ==
    ASSUME NEW f, job'[f].pc \in {"idle", "old", "list"}
    PROVE  RepairSound(f)'
BY RepairPrimed DEF Looking, Saving

\* Forming the plan: every entry of the manifest is good or to be downloaded.
LEMMA RepairPlan ==
    ASSUME TypeInv, NEW f \in Fetchers, RepairSound(f), PlanStep(f)
    PROVE  RepairSound(f)'
<1>0. /\ job[f] \in JobRecord /\ f \in Jobs /\ job \in [Jobs -> JobRecord] /\ JobShape
      /\ files' = files
  <2>1. files' = files
    BY DEF PlanStep, ListDir, HashFile, SpareOld, UsePlan, cache
  <2> QED BY <2>1 DEF TypeInv, TypeOK, Jobs
<1>1. CASE ListDir(f)
  <2>1. job'[f].pc = "hash" /\ job'[f].pos = 1 /\ job'[f].rel = job[f].rel
    BY <1>0, <1>1 DEF ListDir, JobRecord
  <2>2. job[f].rel \in Releases
    BY <1>0, <1>1 DEF ListDir, JobShape
  <2>3. \A i \in DOMAIN Files(job[f].rel) : ~(i < 1)
    BY <2>2, EntryType
  <2>4. Prefix(f)' = {}
    BY <2>1, <2>3, Primed
  <2> QED BY <2>1, <2>3, <2>4, RepairPrimed DEF Looking, Saving
<1>2. CASE HashFile(f)
  <2> DEFINE i == job[f].pos
             e == Files(job[f].rel)[i]
             td == IF Matches(files, e) THEN job[f].todo ELSE job[f].todo \cup {i}
  <2>1. /\ job'[f].pc = "hash" /\ job'[f].pos = i + 1 /\ job'[f].rel = job[f].rel
        /\ job'[f].todo = td /\ job'[f].unwanted = job[f].unwanted \ {e.filename}
    BY <1>0, <1>2 DEF HashFile, JobRecord
  <2>2. job[f].rel \in Releases /\ i \in DOMAIN Files(job[f].rel) /\ i \in Nat
        /\ job[f].pc = "hash"
    BY <1>0, <1>2 DEF HashFile, JobShape, JobRecord
  <2>3. \A k \in DOMAIN Files(job[f].rel) : k < i + 1 <=> k < i \/ k = i
    BY <2>2, EntryType
  <2>4. \A k \in DOMAIN Files(job[f].rel) : k < i + 1 => EntryDone(f, k)'
    <3> SUFFICES ASSUME NEW k \in DOMAIN Files(job[f].rel), k < i \/ k = i
                 PROVE  EntryDone(f, k)'
      BY <2>3
    <3>1. CASE k < i
      <4>1. EntryDone(f, k)
        BY <2>2, <3>1 DEF RepairSound
      <4> QED BY <1>0, <2>1, <4>1, Primed DEF EntryDone
    <3>2. CASE k = i
      BY <1>0, <2>1, <3>2, Primed
    <3> QED BY <3>1, <3>2
  <2>5. Prefix(f)' = Prefix(f) \cup {e.filename}
    BY <2>1, <2>2, <2>3, Primed DEF Prefix
  <2>6. job'[f].unwanted \cap Prefix(f)' = {}
    BY <2>1, <2>2, <2>5 DEF RepairSound
  <2> HIDE DEF i, e, td
  <2> QED BY <2>1, <2>4, <2>6, RepairPrimed DEF Looking, Saving
<1>3. CASE SpareOld(f)
  <2>1. /\ job'[f].pc = "plan" /\ job'[f].rel = job[f].rel /\ job'[f].todo = job[f].todo
        /\ job'[f].unwanted \subseteq job[f].unwanted
    BY <1>0, <1>3 DEF SpareOld, JobRecord
  <2>2. job[f].rel \in Releases /\ job[f].pos \in Nat /\ job[f].pos >= 1
        /\ job[f].pc = "hash" /\ job[f].pos \notin DOMAIN Files(job[f].rel)
    BY <1>0, <1>3 DEF SpareOld, JobShape, JobRecord
  <2>3. \A i \in DOMAIN Files(job[f].rel) : i < job[f].pos
    <3>1. Files(job[f].rel) \in Seq(ManifestFile)
      BY <2>2, ReleaseAssumption DEF Files
    <3> QED BY <2>2, <3>1
  <2>4. Prefix(f) = NamesOf(job[f].rel)
    BY <2>3 DEF Prefix, NamesOf
  <2>5. \A i \in DOMAIN Files(job[f].rel) : EntryDone(f, i)'
    BY <1>0, <2>1, <2>2, <2>3, Primed DEF RepairSound, EntryDone
  <2>6. job'[f].unwanted \cap NamesOf(job[f].rel) = {}
    BY <2>1, <2>2, <2>4 DEF RepairSound
  <2> QED BY <2>1, <2>5, <2>6, RepairPrimed DEF Looking, Saving
<1>4. CASE UsePlan(f)
  <2>1. CASE job[f].mode = "fetch"
    <3>1. /\ job'[f].pc = "mkdir" /\ job'[f].rel = job[f].rel
          /\ job'[f].todo = job[f].todo /\ job'[f].unwanted = job[f].unwanted
      BY <1>0, <1>4, <2>1 DEF UsePlan, JobRecord
    <3>2. job[f].pc = "plan" /\ job[f].pc \in Looking
      BY <1>4 DEF UsePlan, Looking
    <3>3. \A i \in DOMAIN Files(job[f].rel) : EntryDone(f, i)'
      BY <1>0, <3>1, <3>2, Primed DEF RepairSound, EntryDone
    <3>4. job'[f].unwanted \cap NamesOf(job[f].rel) = {}
      BY <3>1, <3>2 DEF RepairSound
    <3> QED BY <3>1, <3>3, <3>4, RepairPrimed DEF Looking, Saving
  <2>2. CASE job[f].mode # "fetch"
    <3>1. job'[f].pc = "idle"
      BY <1>0, <1>4, <2>2 DEF UsePlan, JobRecord, Ended, IdleJob
    <3> QED BY <3>1, RepairStarts
  <2> QED BY <2>1, <2>2
<1> QED BY <1>1, <1>2, <1>3, <1>4 DEF PlanStep

\* The step after CreateDir or a download.
LEMMA RepairGoesOn ==
    ASSUME NEW f, job'[f].pc = AfterDownloads(job'[f].todo),
           job'[f].unwanted \cap NamesOf(job'[f].rel) = {},
           \A i \in DOMAIN Files(job'[f].rel) : EntryDone(f, i)'
    PROVE  RepairSound(f)'
<1>1. CASE job'[f].todo = {}
  <2>1. job'[f].pc = "index"
    BY <1>1 DEF AfterDownloads
  <2>2. \A i \in DOMAIN Files(job'[f].rel) : Matches(files', Files(job'[f].rel)[i])
    BY <1>1, Primed
  <2> QED BY <2>1, <2>2, RepairPrimed DEF Looking, Saving
<1>2. CASE job'[f].todo # {}
  <2>1. job'[f].pc = "download"
    BY <1>2 DEF AfterDownloads
  <2> QED BY <2>1, RepairPrimed DEF Looking, Saving
<1> QED BY <1>1, <1>2

\* Executing the plan, one step after the other.
LEMMA RepairExecute ==
    ASSUME TypeInv, ImmutableNames, AllIndexable, NEW f \in Fetchers, RepairSound(f),
           \/ CreateDir(f) \/ DownloadWrite(f) \/ DownloadVerify(f)
           \/ IndexOneFile(f) \/ PersistIndex(f) \/ SaveManifest(f)
           \/ DeleteFile(f) \/ FinishFetch(f)
    PROVE  RepairSound(f)'
<1>0. /\ job[f] \in JobRecord /\ f \in Jobs /\ job \in [Jobs -> JobRecord]
      /\ TypeOK /\ JobShape
  BY DEF TypeInv, TypeOK, Jobs
<1>1. CASE CreateDir(f)
  <2>1. /\ job'[f].pc = AfterDownloads(job[f].todo) /\ job'[f].rel = job[f].rel
        /\ job'[f].todo = job[f].todo /\ job'[f].unwanted = job[f].unwanted
        /\ files' = files /\ job[f].pc = "mkdir"
    BY <1>0, <1>1 DEF CreateDir, JobRecord
  <2>2. job[f].pc \in Looking
    BY <2>1 DEF Looking
  <2>3. \A i \in DOMAIN Files(job[f].rel) : EntryDone(f, i)'
    BY <2>1, <2>2, Primed DEF RepairSound, EntryDone
  <2> QED BY <2>1, <2>2, <2>3, RepairGoesOn DEF RepairSound
<1>2. CASE DownloadWrite(f)
  <2>1. /\ job'[f].pc = "check" /\ job'[f].rel = job[f].rel
        /\ job'[f].todo = job[f].todo /\ job'[f].unwanted = job[f].unwanted
    BY <1>0, <1>2 DEF DownloadWrite, JobRecord
  <2>2. job[f].pc = "download" /\ job[f].rel \in Releases /\ job[f].pc \in Looking
    BY <1>0, <1>2 DEF DownloadWrite, JobShape, Looking
  <2>3. PICK i \in DOMAIN Files(job[f].rel), c \in Contents :
          /\ i \in job[f].todo
          /\ files' = [files EXCEPT ![Files(job[f].rel)[i].filename] = c]
    BY <1>2 DEF DownloadWrite, IsNext
  <2> DEFINE n == Files(job[f].rel)[i].filename
  <2>4. \A m \in Names : m # n => files'[m] = files[m]
    BY <1>0, <2>3 DEF TypeOK
  <2>5. \A k \in DOMAIN Files(job[f].rel) : EntryDone(f, k)'
    <3> SUFFICES ASSUME NEW k \in DOMAIN Files(job[f].rel) PROVE EntryDone(f, k)'
      OBVIOUS
    <3>1. CASE Files(job[f].rel)[k].filename = n
      BY <2>1, <2>3, <3>1, Primed
    <3>2. CASE Files(job[f].rel)[k].filename # n
      <4>1. EntryDone(f, k)
        BY <2>2 DEF RepairSound
      <4>2. files'[Files(job[f].rel)[k].filename] = files[Files(job[f].rel)[k].filename]
        BY <2>2, <2>4, <3>2, EntryType
      <4>3. Matches(files, Files(job[f].rel)[k]) => Matches(files', Files(job[f].rel)[k])
        BY <4>2 DEF Matches
      <4> QED BY <2>1, <4>1, <4>3, Primed DEF EntryDone
    <3> QED BY <3>1, <3>2
  <2>6. job'[f].unwanted \cap NamesOf(job[f].rel) = {}
    BY <2>1, <2>2 DEF RepairSound
  <2> QED BY <2>1, <2>5, <2>6, RepairPrimed DEF Looking, Saving
<1>3. CASE DownloadVerify(f)
  <2>1. job[f].pc = "check" /\ job[f].rel \in Releases /\ files' = files
        /\ job[f].pc \in Looking
    BY <1>0, <1>3 DEF DownloadVerify, JobShape, cache, Looking
  <2>2. PICK i \in DOMAIN Files(job[f].rel) :
          \/ /\ Matches(files, Files(job[f].rel)[i])
             /\ job' = [job EXCEPT ![f].pc = AfterDownloads(job[f].todo \ {i}),
                                   ![f].todo = @ \ {i}]
          \/ job' = [job EXCEPT ![f] = Ended(f, "error")]
    BY <1>3 DEF DownloadVerify
  <2>3. CASE /\ Matches(files, Files(job[f].rel)[i])
             /\ job' = [job EXCEPT ![f].pc = AfterDownloads(job[f].todo \ {i}),
                                   ![f].todo = @ \ {i}]
    <3>1. /\ job'[f].pc = AfterDownloads(job[f].todo \ {i}) /\ job'[f].rel = job[f].rel
          /\ job'[f].todo = job[f].todo \ {i} /\ job'[f].unwanted = job[f].unwanted
      BY <1>0, <2>3 DEF JobRecord
    <3>2. \A k \in DOMAIN Files(job[f].rel) : EntryDone(f, k)'
      <4> SUFFICES ASSUME NEW k \in DOMAIN Files(job[f].rel) PROVE EntryDone(f, k)'
        OBVIOUS
      <4>1. EntryDone(f, k)
        BY <2>1 DEF RepairSound
      <4>2. CASE Files(job[f].rel)[k].filename = Files(job[f].rel)[i].filename
        <5>1. Files(job[f].rel)[k].hash = Files(job[f].rel)[i].hash
          BY <2>1, <4>2 DEF ImmutableNames
        <5>2. Matches(files, Files(job[f].rel)[k])
          BY <2>3, <4>2, <5>1 DEF Matches
        <5> QED BY <2>1, <3>1, <5>2, Primed
      <4>3. CASE Files(job[f].rel)[k].filename # Files(job[f].rel)[i].filename
        BY <2>1, <3>1, <4>1, <4>3, Primed DEF EntryDone
      <4> QED BY <4>2, <4>3
    <3>3. job'[f].unwanted \cap NamesOf(job[f].rel) = {}
      BY <2>1, <3>1 DEF RepairSound
    <3> QED BY <3>1, <3>2, <3>3, RepairGoesOn
  <2>4. CASE job' = [job EXCEPT ![f] = Ended(f, "error")]
    <3>1. job'[f].pc = "idle"
      BY <1>0, <2>4 DEF Ended, IdleJob
    <3> QED BY <3>1, RepairStarts
  <2> QED BY <2>2, <2>3, <2>4
<1>4. CASE IndexOneFile(f)
  <2> DEFINE p == job[f].pos
             n == Files(job[f].rel)[p].filename
             cv == [job[f].cover EXCEPT ![n] = @ \cup Universe(files[n])]
  <2>1. job[f].pc = "index" /\ job[f].rel \in Releases /\ files' = files
        /\ p \in DOMAIN Files(job[f].rel) /\ job[f].pc \in Saving
    BY <1>0, <1>4 DEF IndexOneFile, JobShape, cache, Saving
  <2>2. Matches(files, Files(job[f].rel)[p])
    BY <2>1 DEF RepairSound
  <2>3. n \notin LongNames /\ files[n] \in Decodable
    <3>1. n \in Names
      BY <2>1, EntryType
    <3>2. files[n] \in Contents /\ Digest[files[n]] = Files(job[f].rel)[p].hash
      BY <1>0, <2>2, <3>1 DEF Matches, TypeOK
    <3> QED BY <2>1, <3>2 DEF AllIndexable
  <2>4. job' = [job EXCEPT ![f].pos = @ + 1, ![f].cover = cv]
    BY <1>4, <2>3 DEF IndexOneFile
  <2>5. /\ job'[f].pc = "index" /\ job'[f].rel = job[f].rel
        /\ job'[f].unwanted = job[f].unwanted
    <3> HIDE DEF cv
    <3> QED BY <1>0, <2>1, <2>4 DEF JobRecord
  <2> QED BY <2>1, <2>5, RepairPrimed DEF RepairSound, Looking, Saving
<1>5. CASE PersistIndex(f)
  <2>1. job[f].pc = "index" /\ job[f].rel \in Releases /\ files' = files
        /\ job[f].cover \in [Names -> SUBSET Certs] /\ job[f].pc \in Saving
    BY <1>0, <1>5 DEF PersistIndex, JobShape, JobRecord, Saving
  <2>2. /\ job'[f].pc = "manifest" /\ job'[f].rel = job[f].rel
        /\ job'[f].unwanted = job[f].unwanted
        /\ index' = [rel |-> job[f].rel, cover |-> job[f].cover]
    BY <1>0, <1>5 DEF PersistIndex, JobRecord
  <2>3. index' # NoIndex /\ index'.rel = job[f].rel
    BY <2>1, <2>2, IndexAssumption DEF IndexFile
  <2> QED BY <2>1, <2>2, <2>3, RepairPrimed DEF RepairSound, Looking, Saving
<1>6. CASE SaveManifest(f)
  <2>1. /\ job'[f].pc = "delete" /\ job'[f].rel = job[f].rel
        /\ job'[f].unwanted = job[f].unwanted /\ files' = files /\ index' = index
        /\ job[f].pc = "manifest"
    BY <1>0, <1>6 DEF SaveManifest, JobRecord
  <2> QED BY <2>1, RepairPrimed DEF RepairSound, Looking, Saving
<1>7. CASE DeleteFile(f)
  <2>1. job[f].pc = "delete" /\ index' = index /\ job[f].rel \in Releases
        /\ index # NoIndex /\ index.rel = job[f].rel
        /\ job[f].unwanted \cap NamesOf(job[f].rel) = {}
        /\ \A i \in DOMAIN Files(job[f].rel) : Matches(files, Files(job[f].rel)[i])
    BY <1>0, <1>7 DEF DeleteFile, RepairSound, Saving, JobShape
  <2>2. PICK n \in job[f].unwanted :
          \/ job' = [job EXCEPT ![f].unwanted = @ \ {n}]
             /\ files' = [files EXCEPT ![n] = Absent]
          \/ job' = [job EXCEPT ![f] = Ended(f, "error")] /\ files' = files
    BY <1>7 DEF DeleteFile
  <2>3. CASE job' = [job EXCEPT ![f].unwanted = @ \ {n}]
             /\ files' = [files EXCEPT ![n] = Absent]
    <3>1. \A i \in DOMAIN Files(job[f].rel) :
            files'[Files(job[f].rel)[i].filename] = files[Files(job[f].rel)[i].filename]
      BY <1>0, <2>1, <2>2, <2>3, EntryType DEF TypeOK, NamesOf
    <3>2. \A i \in DOMAIN Files(job[f].rel) : Matches(files', Files(job[f].rel)[i])
      BY <2>1, <3>1 DEF Matches
    <3>3. /\ job'[f].pc = "delete" /\ job'[f].rel = job[f].rel
          /\ job'[f].unwanted \subseteq job[f].unwanted
      BY <1>0, <2>1, <2>3 DEF JobRecord
    <3> QED BY <2>1, <3>2, <3>3, RepairPrimed DEF Looking, Saving
  <2>4. CASE job' = [job EXCEPT ![f] = Ended(f, "error")]
    <3>1. job'[f].pc = "idle"
      BY <1>0, <2>4 DEF Ended, IdleJob
    <3> QED BY <3>1, RepairStarts
  <2> QED BY <2>2, <2>3, <2>4
<1>8. CASE FinishFetch(f)
  <2>1. job'[f].pc = "idle"
    BY <1>0, <1>8 DEF FinishFetch, Ended, IdleJob
  <2> QED BY <2>1, RepairStarts
<1> QED BY <1>1, <1>2, <1>3, <1>4, <1>5, <1>6, <1>7, <1>8

\* RepairInv is inductive for one fetch at a time: nobody else writes.
LEMMA RepairNext ==
    ASSUME TypeInv, RepairInv, SerialFetch, ImmutableNames, AllIndexable, [Next]_vars
    PROVE  RepairInv'
<1> SUFFICES ASSUME ~damaged', NEW f \in Fetchers PROVE RepairSound(f)'
  BY DEF RepairInv
<1>0. job \in [Jobs -> JobRecord] /\ f \in Jobs
  BY DEF TypeInv, TypeOK, Jobs
<1>1. ~Damage
  BY DEF Damage
<1>2. damaged' = damaged
  BY <1>1, EveryMove
<1>3. RepairSound(f)
  BY <1>2 DEF RepairInv
<1>4. CASE Publish \/ UNCHANGED vars \/ \E c \in Checkers : OpenIndex(c) \/ CheckStep(c)
  <2>1. files' = files /\ index' = index /\ job' = job
    BY <1>4 DEF Publish, vars, OpenIndex, CheckStep, ReadFilter, FinishCheck, cache
  <2> QED BY <1>3, <2>1, RepairKept
<1>5. ASSUME NEW g \in Fetchers, NEW mode \in {"fetch", "dry"}, StartFetch(g, mode)
      PROVE  RepairSound(f)'
  <2>1. job'[f].pc = "old"
    BY <1>0, <1>5 DEF SerialFetch, StartFetch, IdleJob
  <2> QED BY <2>1, RepairStarts
<1>6. ASSUME NEW g \in Fetchers, FetchStep(g) PROVE RepairSound(f)'
  <2>1. f = g
    BY DEF SerialFetch
  <2>2. CASE ReadOldManifest(f)
    <3>1. job'[f].pc = "list"
      BY <1>0, <2>2 DEF ReadOldManifest, JobRecord
    <3> QED BY <3>1, RepairStarts
  <2> QED BY <1>3, <1>6, <2>1, <2>2, RepairPlan, RepairExecute DEF FetchStep
<1>7. ASSUME NEW v \in Verifiers, StartVerify(v) \/ PlanStep(v) PROVE RepairSound(f)'
  BY <1>3, <1>7, VerifierAside, RepairKept DEF Quiet
<1>8. ASSUME NEW j \in Jobs, Abort(j) PROVE RepairSound(f)'
  <2>1. files' = files /\ index' = index
    BY <1>8 DEF Abort, cache
  <2>2. job'[f] = job[f] \/ job'[f].pc = "idle"
    BY <1>0, <1>8 DEF Abort, Ended, IdleJob
  <2> QED BY <1>3, <2>1, <2>2, RepairKept, RepairStarts
<1> QED BY <1>1, <1>4, <1>5, <1>6, <1>7, <1>8 DEF Next

\* A power loss ends every command.
LEMMA RepairLose ==
    ASSUME Lose
    PROVE  /\ RepairInv' /\ TidyInv'
           /\ \A f \in Fetchers : job'[f].pc = "idle" /\ job'[f].exit = "none"
<1>1. \A f \in Fetchers : job'[f].pc = "idle" /\ job'[f].exit = "none"
  BY DEF Lose, IdleJob, Jobs
<1>2. \A f \in Fetchers : RepairSound(f)'
  BY <1>1, RepairStarts
<1>3. \A f \in Fetchers : FetchTidy(f)'
  BY <1>1, TidyPrimed DEF Planned
<1> QED BY <1>1, <1>2, <1>3 DEF RepairInv, TidyInv

\* The fetch that ends with success has put everything in place.
LEMMA RepairedStep ==
    ASSUME TypeInv, RepairInv, TidyInv, SerialFetch, [Next]_vars, NEW f \in Fetchers,
           job[f].pc # "idle", job[f].mode = "fetch", job'[f].pc = "idle",
           job'[f].exit = "success", ~damaged
    PROVE  LocalMatches(job[f].rel, job[f].old)
<1>1. FinishFetch(f)
  BY SuccessEnds
<1>2. job[f].pc = "delete" /\ job[f].unwanted = {} /\ RepairSound(f) /\ FetchTidy(f)
  BY <1>1 DEF FinishFetch, RepairInv, TidyInv
<1>3. index # NoIndex /\ index.rel = job[f].rel /\ manifest = job[f].rel
  BY <1>2 DEF RepairSound, FetchTidy
<1>4. BadNames(files, job[f].rel) = {}
  BY <1>2, NoBadNames DEF RepairSound, Saving
<1>5. \A n \in Deletable : files[n] # Absent => n \in NamesOf(job[f].rel) \cup OldNames(f)
  BY <1>2 DEF FetchTidy, Planned
<1> QED BY <1>3, <1>4, <1>5 DEF LocalMatches, OldNames

\* A fetch repairs what a power loss left: with one fetch at a time, after any
\* number of losses, each of which may bring back old files, lose new ones and
\* leave an index beside files it was not built from, a fetch that exits with
\* success has put the whole release in place and left no stray filter.
THEOREM SuccessIsSyncedAfterLoss ==
    ASSUME SerialFetch, ImmutableNames, AllIndexable
    PROVE  PSpec => SyncedOnSuccess
<1> DEFINE Inv == PTypeInv /\ RepairInv /\ TidyInv
           Ends == \A f \in Fetchers :
                     (/\ job[f].pc # "idle" /\ job[f].mode = "fetch"
                      /\ job'[f].pc = "idle" /\ job'[f].exit = "success"
                      /\ ~damaged) => LocalMatches(job[f].rel, job[f].old)
<1>1. PInit => Inv
  <2> SUFFICES ASSUME PInit PROVE Inv
    OBVIOUS
  <2>1. \A f \in Fetchers : job[f].pc = "idle"
    BY DEF PInit, Init, IdleJob, Jobs
  <2>2. RepairInv
    BY <2>1 DEF RepairInv, RepairSound, Looking, Saving
  <2> QED BY <2>2, PTypeInit, TidyInit DEF PInit
<1>2. Inv /\ [PNext]_pvars => Inv'
  <2> SUFFICES ASSUME Inv, [PNext]_pvars PROVE Inv'
    OBVIOUS
  <2>1. PTypeInv'
    BY PTypeNext
  <2>2. CASE [Next]_vars
    BY <2>1, <2>2, RepairNext, TidyNext DEF PTypeInv
  <2>3. CASE Lose
    BY <2>1, <2>3, RepairLose
  <2> QED BY <2>2, <2>3 DEF PNext, pvars
<1>3. Inv /\ [PNext]_pvars => [Ends]_vars
  <2> SUFFICES ASSUME Inv, [PNext]_pvars PROVE Ends
    OBVIOUS
  <2>1. CASE [Next]_vars
    BY <2>1, RepairedStep DEF PTypeInv
  <2>2. CASE Lose
    BY <2>2, RepairLose
  <2> QED BY <2>1, <2>2 DEF PNext, pvars
<1>4. [][Ends]_vars => SyncedOnSuccess
  BY DEF SyncedOnSuccess
<1> QED BY <1>1, <1>2, <1>3, <1>4, PTL DEF PSpec

-------------------------------------------------------------------------------
(***************************************************************************)
(* Verdicts after power losses.  A loss may bring back any index and any   *)
(* file; each is one that a fetch wrote, or has no data.                   *)
(***************************************************************************)
OldGenuine ==
    /\ \A n \in Names : \A c \in old.files[n] : Published(n, c)
    /\ \A x \in old.index : x # NoIndex => CoverSound(x)

LossInv == PTypeInv /\ (~damaged => OldGenuine /\ OverlapInv)

\* The primed form, with the prime moved to the variables.
LEMMA OldPrimed ==
    OldGenuine' <=>
        /\ \A n \in Names : \A c \in old'.files[n] : Published(n, c)
        /\ \A x \in old'.index : x # NoIndex => CoverSound(x)
BY DEF OldGenuine, Published, CoverSound, Files, IsFile, Universe, NamesOf

\* What is there now is one of the things that may come back.
LEMMA NowGenuine ==
    ASSUME NowIncluded, OldGenuine
    PROVE  Genuine
BY DEF NowIncluded, OldGenuine, Genuine

\* What a step of the cache adds to old is as good as what was there, and a
\* file without its data does not decode.
LEMMA OldWritten ==
    ASSUME OldGenuine, Written, Genuine', OverlapInv'
    PROVE  OldGenuine'
<1>1. \A n \in Names : Published(n, files'[n])
  BY DEF Genuine, Published, Files
<1>2. \A n : Published(n, Torn)
  BY TornAssumption DEF Published
<1>3. index' # NoIndex => CoverSound(index')
  <2>1. CoverSound(index)' <=> CoverSound(index')
    BY DEF CoverSound, IsFile, Universe, NamesOf, Files
  <2> QED BY <2>1 DEF OverlapInv
<1>4. \A n \in Names : \A c \in old'.files[n] :
        c \in old.files[n] \/ c = files'[n] \/ c = Torn
  BY DEF Written
<1>5. \A x \in old'.index : x \in old.index \/ x = NoIndex \/ x = index'
  BY DEF Written
<1>6. \A n \in Names : \A c \in old'.files[n] : Published(n, c)
  BY <1>1, <1>2, <1>4 DEF OldGenuine
<1>7. \A x \in old'.index : x # NoIndex => CoverSound(x)
  BY <1>3, <1>5 DEF OldGenuine
<1> QED BY <1>6, <1>7, OldPrimed

\* After a restart nothing runs, and the index found is one that was written.
LEMMA OldFound ==
    ASSUME PTypeInv, TypeInv', Lose, OldGenuine, OverlapInv
    PROVE  OldGenuine' /\ OverlapInv'
<1>0. Absent \notin Decodable
  BY ContentAssumption
<1>1. \A n \in Names : Published(n, files'[n])
  <2>1. \A n \in Names : files'[n] \in old.files[n] \/ files'[n] = Absent
    BY DEF Lose
  <2> QED BY <1>0, <2>1 DEF OldGenuine, Published
<1>2. index' # NoIndex => CoverSound(index')
  <2>1. index' \in old.index \/ index' = NoIndex
    BY DEF Lose
  <2> QED BY <2>1 DEF OldGenuine
<1>3. \A n \in Names : old'.files[n] = {files'[n]}
  BY DEF Lose, Found
<1>4. old'.index = {index'}
  BY DEF Lose, Found
<1>5. OldGenuine'
  BY <1>1, <1>2, <1>3, <1>4, OldPrimed
<1>6. \A f \in Fetchers : job'[f].pc = "idle"
  BY DEF Lose, IdleJob, Jobs
<1>7. \A c \in Checkers : chk'[c].pc = "idle" /\ chk'[c].result = "none"
  BY DEF Lose, IdleCheck
<1>8. CollectInv'
  BY <1>6 DEF CollectInv
<1>9. \A c \in Checkers : AskSound(c)' /\ Answered(c)'
  BY <1>7, AskPrimed DEF Verdicts
<1>10. (index # NoIndex => CoverSound(index))'
  <2>1. CoverSound(index)' <=> CoverSound(index')
    BY DEF CoverSound, IsFile, Universe, NamesOf, Files
  <2> QED BY <1>2, <2>1
<1>11. OverlapInv'
  BY <1>8, <1>9, <1>10 DEF OverlapInv
<1> QED BY <1>5, <1>11

\* Index::check on a machine that loses power any number of times, beside any
\* number of fetches: nothing is synced, so the index of one release may come
\* back beside the files of another, some of them without data, and still a
\* verdict is that of the release of the index, unless a download was altered.
THEOREM VerdictsAreSoundAfterLoss ==
    ASSUME ImmutableNames
    PROVE  PSpec /\ Unaltered => []VerdictSound
<1> DEFINE Honest == \A f \in Fetchers : ~Alters(f)
<1>1. PInit => LossInv
  <2> SUFFICES ASSUME PInit PROVE LossInv
    OBVIOUS
  <2>1. OldGenuine
    BY ContentAssumption DEF PInit, OldGenuine, Published
  <2> QED BY <2>1, PTypeInit, OverlapInit DEF PInit, LossInv
<1>2. LossInv /\ [PNext]_pvars /\ [Honest]_vars => LossInv'
  <2> SUFFICES ASSUME LossInv, [PNext]_pvars, [Honest]_vars PROVE LossInv'
    OBVIOUS
  <2>1. PTypeInv /\ PTypeInv' /\ TypeInv /\ TypeInv'
    BY PTypeNext DEF LossInv, PTypeInv
  <2>2. ASSUME ~damaged' PROVE OldGenuine' /\ OverlapInv'
    <3>1. CASE Next /\ Written
      <4>1. OldGenuine /\ OverlapInv /\ ~Damage
        BY <2>1, <2>2, <3>1, DamageStays DEF LossInv
      <4>2. Genuine
        BY <2>1, <4>1, NowGenuine DEF PTypeInv
      <4>3. Genuine'
        <5>1. CASE Honest
          BY <2>1, <3>1, <4>1, <4>2, <5>1, GenuineNext
        <5>2. CASE UNCHANGED vars
          BY <4>2, <5>2 DEF vars, Genuine, Published, Files
        <5> QED BY <5>1, <5>2
      <4>4. OverlapInv'
        BY <3>1, <4>1, <4>2, OverlapNext
      <4> QED BY <3>1, <4>1, <4>3, <4>4, OldWritten
    <3>2. CASE Lose
      <4>1. OldGenuine /\ OverlapInv
        BY <2>2, <3>2 DEF LossInv, Lose
      <4> QED BY <2>1, <3>2, <4>1, OldFound
    <3>3. CASE UNCHANGED pvars
      <4>1. OldGenuine /\ OverlapInv
        BY <2>2, <3>3 DEF LossInv, pvars, vars
      <4>2. Genuine
        BY <2>1, <4>1, NowGenuine DEF PTypeInv
      <4>3. OverlapInv'
        BY <3>3, <4>1, <4>2, OverlapNext DEF pvars
      <4>4. OldGenuine'
        BY <3>3, <4>1, OldPrimed DEF OldGenuine, pvars
      <4> QED BY <4>3, <4>4
    <3> QED BY <3>1, <3>2, <3>3 DEF PNext
  <2> QED BY <2>1, <2>2 DEF LossInv
<1>3. LossInv => VerdictSound
  BY DEF LossInv, OverlapInv, Answered, VerdictSound
<1>4. Unaltered <=> [][Honest]_vars
  BY DEF Unaltered
<1> HIDE DEF Honest
<1> QED BY <1>1, <1>2, <1>3, <1>4, PTL DEF PSpec
===============================================================================
