------------------------------- MODULE PowerLoss -------------------------------
(***************************************************************************)
(* The cache directory on a machine that may lose power.                   *)
(*                                                                         *)
(* atomic_write and SaveIndex (upki/src/revocation/fetch.rs) write a       *)
(* temporary file and rename it; neither the file nor the directory is     *)
(* ever synced.  A rename is atomic for the other processes, but after a   *)
(* power loss a path may hold anything it held before, or a file whose     *)
(* data was never written, and each path its own: the index of release 2   *)
(* beside the filters of release 1.  A file without its data is taken not  *)
(* to decode.                                                              *)
(***************************************************************************)
EXTENDS RevocationCache

CONSTANT
    Torn    \* the content of a filter file without its data

ASSUME TornAssumption ==
    /\ Torn \in Contents \ Decodable
    /\ \A r \in Releases : \A i \in DOMAIN Files(r) : Files(r)[i].hash # Digest[Torn]

VARIABLE
    old       \* old.files[n], old.manifest, old.index, old.dir: what each path
              \* may be found to hold after a power loss

pvars == <<vars, old>>

PInit ==
    /\ Init
    /\ old = [dir |-> {dir}, files |-> [n \in Names |-> {Absent}],
              manifest |-> {0}, index |-> {NoIndex}]

\* After a restart a path holds what was found there.
Found ==
    old' = [dir |-> {dir'}, files |-> [n \in Names |-> {files'[n]}],
            manifest |-> {manifest'}, index |-> {index'}]

\* After a step of the cache: what it renamed into place, or an unwritten file
\* instead of it, or what was there before; what it deleted may come back.
\* manifest.json and index.bin without their data do not parse.
Written ==
    old' = [dir |-> old.dir \cup {dir'},
            files |-> [n \in Names |->
                         IF files'[n] = files[n] THEN old.files[n]
                         ELSE old.files[n] \cup {files'[n]}
                                \cup (IF files'[n] = Absent THEN {} ELSE {Torn})],
            manifest |-> IF \E f \in Fetchers : SaveManifest(f)
                         THEN old.manifest \cup {0, manifest'}
                         ELSE old.manifest \cup {manifest'},
            index |-> IF \E f \in Fetchers : PersistIndex(f)
                      THEN old.index \cup {NoIndex, index'}
                      ELSE old.index \cup {index'}]

\* The power fails: every process is gone, and each path holds one of the
\* things it may hold.
Lose ==
    /\ faults < MaxFaults
    /\ faults' = faults + 1
    /\ dir' \in old.dir
    /\ IF dir'
       THEN /\ files' \in [Names -> Contents \cup {Absent}]
            /\ \A n \in Names : files'[n] \in old.files[n]
            /\ manifest' \in old.manifest
            /\ index' \in old.index
       ELSE /\ files' = [n \in Names |-> Absent]
            /\ manifest' = 0
            /\ index' = NoIndex
    /\ Found
    /\ job' = [j \in Jobs |-> IdleJob]
    /\ chk' = [c \in Checkers |-> IdleCheck]
    /\ watch' = [v \in Verifiers |-> {}]
    /\ UNCHANGED <<server, damaged, orphaned>>

PNext ==
    \/ Next /\ Written
    \/ Lose

PSpec == PInit /\ [][PNext]_pvars

\* The machine comes back, and so do the timer's fetches.
PFairSpec == PSpec /\ Fairness
===============================================================================
