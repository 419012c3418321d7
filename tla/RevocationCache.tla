---------------------------- MODULE RevocationCache ----------------------------
(***************************************************************************)
(* The local revocation cache: one directory that holds crlite filter      *)
(* files, manifest.json and index.bin.                                     *)
(*                                                                         *)
(*   - `upki fetch` (upki/src/revocation/fetch.rs) synchronises it with a  *)
(*     remote server: GET the manifest, form a plan by comparing it with   *)
(*     the directory, execute the plan step by step;                       *)
(*   - `upki verify` (revocation/mod.rs) forms the same plan from the      *)
(*     manifest on disk and only looks at it;                              *)
(*   - a revocation check (revocation/index.rs) opens index.bin and reads  *)
(*     the filters the index names for the certificate.                    *)
(*                                                                         *)
(* No lock is taken anywhere: every process sees the directory between the *)
(* system calls of the others.  A file is replaced by a rename, so one     *)
(* open file, and hence one read of a whole file, is a snapshot.           *)
(***************************************************************************)
EXTENDS Naturals, Sequences, FiniteSets

CONSTANTS
    Fetchers,      \* processes that run `upki fetch`
    Verifiers,     \* processes that run `upki verify`
    Checkers,      \* processes that check certificates
    Names,         \* file names that some manifest uses
    Deletable,     \* the names that end in ".filter" or ".delta"
    LongNames,     \* the names that do not fit a slot of the index
    Contents,      \* the byte strings a filter file can hold
    Decodable,     \* the contents CRLiteClubcard::from_bytes accepts
    Hashes,        \* SHA-256 digests
    Digest,        \* Digest[c] is the digest of content c
    Certs,         \* the certificates that are checked
    Status,        \* Status[c][x]: CRLiteClubcard::contains for cert x
    NumReleases,   \* how many manifests the server publishes
    Release,       \* Release[r]: the `files` of the r-th manifest
    Absent,        \* the content of a file that does not exist
    NoIndex,       \* index.bin does not exist, or does not decode
    MaxFaults      \* bound on failed steps, altered downloads, answers of a
                   \* server that is behind, and storage damage

Releases == 1 .. NumReleases
ManifestFile == [filename : Names, hash : Hashes, size : Nat]
CRLiteStatus == {"Revoked", "Good", "NotEnrolled", "NotCovered"}

ASSUME ProcessAssumption ==
    /\ Fetchers \cap Verifiers = {}
    /\ MaxFaults \in Nat
ASSUME ContentAssumption ==
    /\ Decodable \subseteq Contents
    /\ Absent \notin Contents
    /\ Digest \in [Contents -> Hashes]
    /\ Certs # {}
    /\ Status \in [Contents -> [Certs -> CRLiteStatus]]
\* SHA-256 is taken to be collision free.
ASSUME DigestInjective ==
    \A c, d \in Contents : Digest[c] = Digest[d] => c = d
ASSUME NameAssumption == Deletable \subseteq Names /\ LongNames \subseteq Names
ASSUME ReleaseAssumption ==
    /\ NumReleases \in Nat \ {0}
    /\ Release \in [Releases -> Seq(ManifestFile)]

\* The certificates with an SCT in the universe of the filter `c`: the part of
\* a filter that the index repeats.
Universe(c) == {x \in Certs : Status[c][x] # "NotCovered"}

IndexFile == [rel : Releases, cover : [Names -> SUBSET Certs]]
ASSUME IndexAssumption == NoIndex \notin IndexFile

VARIABLES
    server,    \* number of the newest manifest that was published
    dir,       \* does the cache directory exist?
    files,     \* files[n]: content of the file n of the cache directory
    manifest,  \* number of the manifest in manifest.json, 0 if there is none
    index,     \* index.bin: its routing table `cover`, and (for the
               \* properties only) the release `rel` it was built for
    job,       \* job[p]: the command that p in Fetchers \cup Verifiers runs
    chk,       \* chk[c]: the check that c in Checkers performs
    faults,    \* number of faults so far
    \* The rest is history, read by no action:
    damaged,   \* the storage was modified by something other than upki
    orphaned,  \* releases whose fetch ended between its two saves
    watch      \* watch[v]: files bad since v started and not written since

cache == <<dir, files, manifest, index>>
history == <<damaged, orphaned, watch>>
vars == <<server, dir, files, manifest, index, job, chk, faults, damaged,
          orphaned, watch>>

Jobs == Fetchers \cup Verifiers
FetchPcs == {"idle", "old", "list", "hash", "plan", "mkdir", "download",
             "check", "index", "manifest", "delete"}
Exits == {"none", "success", "error"}
Verdicts == {"CertainlyRevoked", "NotRevoked", "NotCoveredByRevocationData"}

Files(r) == Release[r]
NamesOf(r) == {Files(r)[i].filename : i \in DOMAIN Files(r)}

\* hash_file(path) is Ok(digest) and the digest is the manifest's.
Matches(fs, e) == fs[e.filename] # Absent /\ Digest[fs[e.filename]] = e.hash
BadNames(fs, r) ==
    {Files(r)[i].filename : i \in {k \in DOMAIN Files(r) : ~Matches(fs, Files(r)[k])}}

JobRecord ==
    [pc : FetchPcs, mode : {"fetch", "dry", "verify"}, rel : 0 .. NumReleases,
     old : 0 .. NumReleases, unwanted : SUBSET Deletable, mkdir : BOOLEAN,
     pos : Nat, todo : SUBSET Nat, cover : [Names -> SUBSET Certs], exit : Exits]
CheckRecord ==
    [pc : {"idle", "reading"}, cert : Certs, snap : IndexFile \cup {NoIndex},
     todo : SUBSET Names, good : BOOLEAN, age : 0 .. 2,
     result : Verdicts \cup {"none", "IndexError", "FileRead", "FileDecode"}]

TypeOK ==
    /\ server \in Releases
    /\ dir \in BOOLEAN
    /\ files \in [Names -> Contents \cup {Absent}]
    /\ manifest \in 0 .. NumReleases
    /\ index \in IndexFile \cup {NoIndex}
    /\ job \in [Jobs -> JobRecord]
    /\ chk \in [Checkers -> CheckRecord]
    /\ faults \in 0 .. MaxFaults
    /\ damaged \in BOOLEAN
    /\ orphaned \in SUBSET Releases
    /\ watch \in [Verifiers -> SUBSET Names]

IdleJob ==
    [pc |-> "idle", mode |-> "fetch", rel |-> 0, old |-> 0, unwanted |-> {},
     mkdir |-> FALSE, pos |-> 0, todo |-> {}, cover |-> [n \in Names |-> {}],
     exit |-> "none"]
IdleCheck ==
    [pc |-> "idle", cert |-> CHOOSE x \in Certs : TRUE, snap |-> NoIndex,
     todo |-> {}, good |-> FALSE, age |-> 0, result |-> "none"]

\* A machine on which nothing was fetched yet; a package may have created the
\* directory.
Init ==
    /\ server = 1
    /\ dir \in BOOLEAN
    /\ files = [n \in Names |-> Absent]
    /\ manifest = 0
    /\ index = NoIndex
    /\ job = [j \in Jobs |-> IdleJob]
    /\ chk = [c \in Checkers |-> IdleCheck]
    /\ faults = 0
    /\ damaged = FALSE
    /\ orphaned = {}
    /\ watch = [v \in Verifiers |-> {}]

(***************************************************************************)
(* The environment: the server publishes the next manifest, or the storage *)
(* loses or alters a file.                                                 *)
(***************************************************************************)
Publish ==
    /\ server < NumReleases
    /\ server' = server + 1
    /\ UNCHANGED <<cache, job, chk, faults, history>>

Damage ==
    /\ faults < MaxFaults
    /\ dir
    /\ \/ \E n \in Names, c \in Contents \cup {Absent} :
            /\ files[n] # Absent /\ files[n] # c
            /\ files' = [files EXCEPT ![n] = c]
            /\ UNCHANGED <<manifest, index>>
       \/ manifest' = 0 /\ UNCHANGED <<files, index>>
       \/ index' = NoIndex /\ UNCHANGED <<files, manifest>>
    /\ faults' = faults + 1
    /\ damaged' = TRUE
    /\ watch' = [v \in Verifiers |-> watch[v] \ {n \in Names : files'[n] # files[n]}]
    /\ UNCHANGED <<server, dir, job, chk, orphaned>>

(***************************************************************************)
(* fetch: the manifest, the old manifest and Plan::construct.              *)
(***************************************************************************)
Ended(j, e) == [IdleJob EXCEPT !.mode = job[j].mode, !.exit = e]

\* GET manifest.json and decode it: whatever is answered is taken.  Nothing in
\* the code compares generated_at with that of the manifest on disk, so the
\* answer of a proxy or a mirror that is behind (counted as a fault) brings an
\* earlier release back.
StartFetch(f, mode) ==
    /\ job[f].pc = "idle"
    /\ \E r \in 1 .. server :
         /\ \/ r = server /\ UNCHANGED faults
            \/ /\ r < server
               /\ faults < MaxFaults
               /\ faults' = faults + 1
         /\ job' = [job EXCEPT ![f] = [IdleJob EXCEPT !.pc = "old", !.mode = mode,
                                                      !.rel = r]]
    /\ UNCHANGED <<server, cache, chk, history>>

\* `Manifest::from_config(config).ok()`
ReadOldManifest(f) ==
    /\ job[f].pc = "old"
    /\ job' = [job EXCEPT ![f].pc = "list", ![f].old = manifest]
    /\ UNCHANGED <<server, cache, chk, faults, history>>

\* Without a manifest on disk `upki verify` fails; with one, it plans against
\* it, with no old manifest.
StartVerify(v) ==
    /\ job[v].pc = "idle"
    /\ IF manifest = 0
       THEN /\ job' = [job EXCEPT ![v] = [IdleJob EXCEPT !.mode = "verify",
                                                         !.exit = "error"]]
            /\ watch' = [watch EXCEPT ![v] = {}]
       ELSE /\ job' = [job EXCEPT ![v] = [IdleJob EXCEPT !.pc = "list",
                                                !.mode = "verify", !.rel = manifest]]
            /\ watch' = [watch EXCEPT ![v] = BadNames(files, manifest)]
    /\ UNCHANGED <<server, cache, chk, faults, damaged, orphaned>>

\* `local.exists()` and `read_dir`: every filter present is unwanted at first.
\* Mutants: the directory is not listed; whatever is in it is.
ListNothing(j) ==
    /\ job[j].pc = "list"
    /\ job' = [job EXCEPT ![j].pc = "hash", ![j].pos = 1, ![j].mkdir = ~dir]
    /\ UNCHANGED <<server, cache, chk, faults, history>>
ListAll(j) ==
    /\ job[j].pc = "list"
    /\ job' = [job EXCEPT ![j].pc = "hash", ![j].pos = 1, ![j].mkdir = ~dir,
                          ![j].unwanted = {n \in Names : files[n] # Absent}]
    /\ UNCHANGED <<server, cache, chk, faults, history>>
ListDir(j) ==
    /\ job[j].pc = "list"
    /\ job' = [job EXCEPT ![j].pc = "hash", ![j].pos = 1, ![j].mkdir = ~dir,
                          ![j].unwanted = {n \in Deletable : files[n] # Absent}]
    /\ UNCHANGED <<server, cache, chk, faults, history>>

\* One turn of the loop over manifest.files: the file is wanted, and
\* downloaded unless it is there with the right hash.
\* Mutants: a file that is there is good; a good file is not marked as wanted.
HashPresent(j) ==
    /\ job[j].pc = "hash"
    /\ job[j].pos \in DOMAIN Files(job[j].rel)
    /\ LET n == Files(job[j].rel)[job[j].pos].filename
       IN job' = [job EXCEPT
                    ![j].pos = @ + 1,
                    ![j].unwanted = @ \ {n},
                    ![j].todo = IF files[n] # Absent THEN @ ELSE @ \cup {job[j].pos}]
    /\ UNCHANGED <<server, cache, chk, faults, history>>
HashUnwanted(j) ==
    /\ job[j].pc = "hash"
    /\ job[j].pos \in DOMAIN Files(job[j].rel)
    /\ LET e == Files(job[j].rel)[job[j].pos]
       IN job' = [job EXCEPT
                    ![j].pos = @ + 1,
                    ![j].todo = IF Matches(files, e) THEN @ ELSE @ \cup {job[j].pos}]
    /\ UNCHANGED <<server, cache, chk, faults, history>>
HashFile(j) ==
    /\ job[j].pc = "hash"
    /\ job[j].pos \in DOMAIN Files(job[j].rel)
    /\ LET i == job[j].pos
           e == Files(job[j].rel)[i]
       IN job' = [job EXCEPT
                    ![j].pos = i + 1,
                    ![j].unwanted = @ \ {e.filename},
                    ![j].todo = IF Matches(files, e) THEN @ ELSE @ \cup {i}]
    /\ UNCHANGED <<server, cache, chk, faults, history>>

\* The files of the old manifest are left alone; the plan is complete.
\* Mutant: they are not.
SpareNone(j) ==
    /\ job[j].pc = "hash"
    /\ job[j].pos \notin DOMAIN Files(job[j].rel)
    /\ job' = [job EXCEPT ![j].pc = "plan", ![j].pos = 1]
    /\ UNCHANGED <<server, cache, chk, faults, history>>
SpareOld(j) ==
    /\ job[j].pc = "hash"
    /\ job[j].pos \notin DOMAIN Files(job[j].rel)
    /\ job' = [job EXCEPT
                 ![j].pc = "plan",
                 ![j].pos = 1,
                 ![j].unwanted = IF job[j].old = 0 THEN @
                                 ELSE @ \ NamesOf(job[j].old)]
    /\ UNCHANGED <<server, cache, chk, faults, history>>

\* `plan.download_bytes() == 0`: the sum of the manifest's indicative sizes.
NothingToDownload(j) == \A i \in job[j].todo : Files(job[j].rel)[i].size = 0

\* fetch executes the plan, a dry run prints it and succeeds, verify turns it
\* into an exit status.
UsePlan(j) ==
    /\ job[j].pc = "plan"
    /\ job' = [job EXCEPT ![j] =
                 CASE job[j].mode = "fetch"  -> [@ EXCEPT !.pc = "mkdir"]
                   [] job[j].mode = "dry"    -> Ended(j, "success")
                   [] job[j].mode = "verify" ->
                        Ended(j, IF NothingToDownload(j) THEN "success" ELSE "error")]
    /\ UNCHANGED <<server, cache, chk, faults, history>>

(***************************************************************************)
(* PlanStep::execute, in the order of the plan.                            *)
(***************************************************************************)
\* The step after CreateDir or a Download: SaveIndex once no download is left.
\* Mutants: SaveIndex is left out; the downloads are.
SkipIndex(todo) == IF todo = {} THEN "manifest" ELSE "download"
SkipDownloads(todo) == "index"
AfterDownloads(todo) == IF todo = {} THEN "index" ELSE "download"

CreateDir(f) ==
    /\ job[f].pc = "mkdir"
    /\ dir' = (dir \/ job[f].mkdir)
    /\ job' = [job EXCEPT ![f].pc = AfterDownloads(job[f].todo)]
    /\ UNCHANGED <<server, files, manifest, index, chk, faults, history>>

\* The next download of the plan: downloads keep the manifest's order.
IsNext(f, i) == i \in job[f].todo /\ \A k \in job[f].todo : i <= k

\* The response is renamed onto its final path before its hash is known.
DownloadWrite(f) ==
    /\ job[f].pc = "download"
    /\ \E i \in DOMAIN Files(job[f].rel), c \in Contents :
         LET e == Files(job[f].rel)[i]
         IN /\ IsNext(f, i)
            /\ \/ Digest[c] = e.hash /\ faults' = faults
               \/ /\ Digest[c] # e.hash
                  /\ faults < MaxFaults
                  /\ faults' = faults + 1
            /\ files' = [files EXCEPT ![e.filename] = c]
            /\ watch' = [v \in Verifiers |-> watch[v] \ {e.filename}]
    /\ job' = [job EXCEPT ![f].pc = "check"]
    /\ UNCHANGED <<server, dir, manifest, index, chk, damaged, orphaned>>

\* hash_file of what was written: HashMismatch ends the fetch.
DownloadVerify(f) ==
    /\ job[f].pc = "check"
    /\ \E i \in DOMAIN Files(job[f].rel) :
         /\ IsNext(f, i)
         /\ IF Matches(files, Files(job[f].rel)[i])
            THEN job' = [job EXCEPT ![f].pc = AfterDownloads(job[f].todo \ {i}),
                                    ![f].todo = @ \ {i}]
            ELSE job' = [job EXCEPT ![f] = Ended(f, "error")]
    /\ UNCHANGED <<server, cache, chk, faults, history>>

\* Index::write reads the files in the manifest's order and collects their
\* universes.  It gives up (None) on a name that does not fit its slot and on a
\* file that cannot be read or decoded: SaveIndex then returns Ok without
\* saving anything, and the plan goes on to SaveManifest.
IndexOneFile(f) ==
    /\ job[f].pc = "index"
    /\ job[f].pos \in DOMAIN Files(job[f].rel)
    /\ LET n == Files(job[f].rel)[job[f].pos].filename
           more == [job[f].cover EXCEPT ![n] = @ \cup Universe(files[n])]
       IN IF n \notin LongNames /\ files[n] \in Decodable
          THEN job' = [job EXCEPT ![f].pos = @ + 1, ![f].cover = more]
          ELSE job' = [job EXCEPT ![f].pc = "manifest"]
    /\ UNCHANGED <<server, cache, chk, faults, history>>

\* The rename of the temporary file onto index.bin.
PersistIndex(f) ==
    /\ job[f].pc = "index"
    /\ job[f].pos \notin DOMAIN Files(job[f].rel)
    /\ index' = [rel |-> job[f].rel, cover |-> job[f].cover]
    /\ chk' = [c \in Checkers |->
                 [chk[c] EXCEPT !.age = IF chk[c].pc = "reading" /\ @ < 2
                                        THEN @ + 1 ELSE @]]
    /\ job' = [job EXCEPT ![f].pc = "manifest"]
    /\ UNCHANGED <<server, dir, files, manifest, faults, history>>

SaveManifest(f) ==
    /\ job[f].pc = "manifest"
    /\ manifest' = job[f].rel
    /\ job' = [job EXCEPT ![f].pc = "delete"]
    /\ UNCHANGED <<server, dir, files, index, chk, faults, history>>

\* The unwanted files go in the order of a HashSet; a file that is already
\* gone is a RemoveFile error that ends the fetch.
DeleteFile(f) ==
    /\ job[f].pc = "delete"
    /\ \E n \in job[f].unwanted :
         IF files[n] # Absent
         THEN /\ files' = [files EXCEPT ![n] = Absent]
              /\ job' = [job EXCEPT ![f].unwanted = @ \ {n}]
         ELSE /\ job' = [job EXCEPT ![f] = Ended(f, "error")]
              /\ UNCHANGED files
    /\ UNCHANGED <<server, dir, manifest, index, chk, faults, history>>

FinishFetch(f) ==
    /\ job[f].pc = "delete"
    /\ job[f].unwanted = {}
    /\ job' = [job EXCEPT ![f] = Ended(f, "success")]
    /\ UNCHANGED <<server, cache, chk, faults, history>>

\* Any system call or request of a command may fail before it takes effect,
\* and the process may be killed between two of them: both end the command.
Abort(j) ==
    /\ job[j].pc # "idle"
    /\ faults < MaxFaults
    /\ faults' = faults + 1
    /\ orphaned' = IF job[j].pc = "manifest" THEN orphaned \cup {job[j].rel}
                                             ELSE orphaned
    /\ job' = [job EXCEPT ![j] = Ended(j, "error")]
    /\ UNCHANGED <<server, cache, chk, damaged, watch>>

(***************************************************************************)
(* Index::from_cache and Index::check.                                     *)
(***************************************************************************)
\* The files whose index entries cover one of the certificate's SCTs.
\* Mutant: only the first is asked.
ConsultedFirst(idx, x) ==
    LET all == {n \in Names : x \in idx.cover[n]}
    IN {n \in all : n = CHOOSE m \in all : TRUE}
Consulted(idx, x) == {n \in Names : x \in idx.cover[n]}

OpenIndex(c) ==
    /\ chk[c].pc = "idle"
    /\ \E x \in Certs :
         chk' = [chk EXCEPT ![c] =
                   IF index = NoIndex
                   THEN [IdleCheck EXCEPT !.cert = x, !.result = "IndexError"]
                   ELSE [IdleCheck EXCEPT !.pc = "reading", !.cert = x, !.snap = index,
                                          !.todo = Consulted(index, x)]]
    /\ UNCHANGED <<server, cache, job, faults, history>>

Answer(c, r) == [chk EXCEPT ![c].pc = "idle", ![c].todo = {}, ![c].good = FALSE,
                            ![c].result = r]

\* One filter file is read, decoded and asked.  Which one comes next depends on
\* the order of the certificate's SCTs and of the index entries.
\* Mutant: a file that is not there is passed over.
ReadSkips(c) ==
    /\ chk[c].pc = "reading"
    /\ \E n \in chk[c].todo :
         chk' = CASE files[n] = Absent -> [chk EXCEPT ![c].todo = @ \ {n}]
                  [] files[n] \in Contents \ Decodable -> Answer(c, "FileDecode")
                  [] files[n] \in Decodable ->
                       LET s == Status[files[n]][chk[c].cert]
                       IN IF s = "Revoked" THEN Answer(c, "CertainlyRevoked")
                          ELSE [chk EXCEPT ![c].todo = @ \ {n},
                                           ![c].good = @ \/ s = "Good"]
    /\ UNCHANGED <<server, cache, job, faults, history>>
ReadFilter(c) ==
    /\ chk[c].pc = "reading"
    /\ \E n \in chk[c].todo :
         chk' = CASE files[n] = Absent -> Answer(c, "FileRead")
                  [] files[n] \in Contents \ Decodable -> Answer(c, "FileDecode")
                  [] files[n] \in Decodable ->
                       LET s == Status[files[n]][chk[c].cert]
                       IN IF s = "Revoked" THEN Answer(c, "CertainlyRevoked")
                          ELSE [chk EXCEPT ![c].todo = @ \ {n},
                                           ![c].good = @ \/ s = "Good"]
    /\ UNCHANGED <<server, cache, job, faults, history>>

FinishCheck(c) ==
    /\ chk[c].pc = "reading"
    /\ chk[c].todo = {}
    /\ chk' = Answer(c, IF chk[c].good THEN "NotRevoked"
                                       ELSE "NotCoveredByRevocationData")
    /\ UNCHANGED <<server, cache, job, faults, history>>

PlanStep(j) ==
    \/ ListDir(j) \/ HashFile(j) \/ SpareOld(j) \/ UsePlan(j)
FetchStep(f) ==
    \/ ReadOldManifest(f) \/ PlanStep(f)
    \/ CreateDir(f) \/ DownloadWrite(f) \/ DownloadVerify(f)
    \/ IndexOneFile(f) \/ PersistIndex(f) \/ SaveManifest(f)
    \/ DeleteFile(f) \/ FinishFetch(f)
CheckStep(c) == ReadFilter(c) \/ FinishCheck(c)

Next ==
    \/ Publish
    \/ Damage
    \/ \E f \in Fetchers, mode \in {"fetch", "dry"} : StartFetch(f, mode)
    \/ \E f \in Fetchers : FetchStep(f)
    \/ \E v \in Verifiers : StartVerify(v) \/ PlanStep(v)
    \/ \E j \in Jobs : Abort(j)
    \/ \E c \in Checkers : OpenIndex(c) \/ CheckStep(c)

Spec == Init /\ [][Next]_vars

\* Fetches are started by a timer, over and over, whatever dry runs an operator
\* makes in between; a running process takes its steps; the check is a call.
Fairness ==
    /\ \A f \in Fetchers : /\ SF_vars(StartFetch(f, "fetch"))
                           /\ WF_vars(FetchStep(f))
    /\ \A c \in Checkers : WF_vars(CheckStep(c))

FairSpec == Spec /\ Fairness

(***************************************************************************)
(* What the deployment provides.                                           *)
(***************************************************************************)
\* At most one `upki fetch` at a time.
SerialFetch == \A f, g \in Fetchers : f = g

\* A published name always stands for the same bytes.
ImmutableNames ==
    \A r, s \in Releases : \A i \in DOMAIN Files(r), k \in DOMAIN Files(s) :
        Files(r)[i].filename = Files(s)[k].filename => Files(r)[i].hash = Files(s)[k].hash

\* Everything that is published can be indexed.
AllIndexable ==
    \A r \in Releases : \A i \in DOMAIN Files(r) :
        /\ Files(r)[i].filename \notin LongNames
        /\ \A c \in Contents : Digest[c] = Files(r)[i].hash => c \in Decodable

\* A name that a release no longer lists does not come back in a later one.
NamesRetire ==
    \A r, s, t \in Releases :
        (r <= s /\ s <= t) => NamesOf(r) \cap NamesOf(t) \subseteq NamesOf(s)

\* No manifest gives 0 as the size of a file.
SizesPositive ==
    \A r \in Releases : \A i \in DOMAIN Files(r) : Files(r)[i].size > 0

(***************************************************************************)
(* Properties.                                                             *)
(***************************************************************************)
\* "the single source of truth for revocation checks" (index.rs): every file
\* of the release that index.bin was built for is in the directory with its
\* published content, and the index routes to it exactly the certificates in
\* its universe.
IndexSound ==
    (~damaged /\ index # NoIndex) =>
        /\ BadNames(files, index.rel) = {}
        /\ \A n \in Names : index.cover[n] = IF n \in NamesOf(index.rel)
                                             THEN Universe(files[n]) ELSE {}

\* The entries of the plan of f: everything the manifest lists is either good
\* on disk or still to be downloaded ...
EntryDone(f, i) ==
    \/ Matches(files, Files(job[f].rel)[i])
    \/ \E k \in job[f].todo :
         Files(job[f].rel)[k].filename = Files(job[f].rel)[i].filename
\* ... and no download goes to a file that index.bin relies on.
DownloadsAside(f) ==
    \A k \in job[f].todo :
        /\ k \in DOMAIN Files(job[f].rel)
        /\ index # NoIndex =>
             Files(job[f].rel)[k].filename \notin NamesOf(index.rel)
\* The names of the first entries of the manifest of f.
Prefix(f) ==
    {Files(job[f].rel)[k].filename :
        k \in {m \in DOMAIN Files(job[f].rel) : m < job[f].pos}}

\* What the fetch of f relies on between its steps.
FetchSound(f) ==
    LET j == job[f] IN
    /\ j.pc = "hash" =>
         /\ \A i \in DOMAIN Files(j.rel) : i < j.pos => EntryDone(f, i)
         /\ j.unwanted \cap Prefix(f) = {}
    /\ j.pc \in {"plan", "mkdir", "download", "check"} =>
         \A i \in DOMAIN Files(j.rel) : EntryDone(f, i)
    /\ j.pc \in {"hash", "plan", "mkdir", "download", "check"} => DownloadsAside(f)
    /\ j.pc \in {"plan", "mkdir", "download", "check", "index", "manifest", "delete"}
         => j.unwanted \cap NamesOf(j.rel) = {}
    /\ j.pc = "index" =>
         /\ \A i \in DOMAIN Files(j.rel) : Matches(files, Files(j.rel)[i])
         /\ \A n \in Names :
              j.cover[n] = IF n \in Prefix(f) THEN Universe(files[n]) ELSE {}
    /\ j.pc \in {"manifest", "delete"} => index # NoIndex /\ index.rel = j.rel

\* A plan is made from a directory that was looked at earlier, and it stays
\* right while it is executed: a download never touches what the index in use
\* needs, the index is only built from files that all match, and by the time of
\* the deletions the index on disk is the one of this fetch.
PlanSound == ~damaged => \A f \in Fetchers : FetchSound(f)

\* The answer that the published contents of release r give for certificate x.
Truth(r, x) ==
    LET said == {Status[c][x] : c \in {d \in Contents :
                    \E i \in DOMAIN Files(r) : Files(r)[i].hash = Digest[d]}}
    IN IF "Revoked" \in said THEN "CertainlyRevoked"
       ELSE IF "Good" \in said THEN "NotRevoked"
       ELSE "NotCoveredByRevocationData"

\* A check that returns a verdict returns the verdict of the one release whose
\* index it opened, whatever fetches replaced or deleted while it ran.
VerdictSound ==
    \A c \in Checkers :
        (~damaged /\ chk[c].result \in Verdicts)
            => chk[c].result = Truth(chk[c].snap.rel, chk[c].cert)

\* The files of the old manifest are left alone, for the checks under way: a
\* check finds its files unless two index updates came after it opened the
\* index, or the fetch of its release ended between SaveIndex and SaveManifest.
ReaderGrace ==
    \A c \in Checkers :
        chk[c].result \in {"FileRead", "FileDecode"}
            => damaged \/ chk[c].age = 2 \/ chk[c].snap.rel \in orphaned

\* `upki verify` "Exits non-zero ... if any filter file is missing or corrupt":
\* it does not succeed when a file of its manifest was bad from the start and
\* was not rewritten while it ran.
VerifySound ==
    \A v \in Verifiers : job[v].exit = "success" => watch[v] = {}

\* "If that succeeds the remote server contents matches the local filesystem":
\* a fetch that exits successfully leaves the manifest, the index and the files
\* of the release it fetched, and no other filter but those of the old manifest.
LocalMatches(r, old) ==
    /\ manifest = r
    /\ index # NoIndex /\ index.rel = r
    /\ BadNames(files, r) = {}
    /\ \A n \in Deletable : files[n] # Absent =>
            n \in NamesOf(r) \/ (old # 0 /\ n \in NamesOf(old))
SyncedOnSuccess ==
    [][\A f \in Fetchers :
        (/\ job[f].pc # "idle" /\ job[f].mode = "fetch"
         /\ job'[f].pc = "idle" /\ job'[f].exit = "success"
         /\ ~damaged) => LocalMatches(job[f].rel, job[f].old)]_vars

\* Once faults and releases end, the timer's fetches bring index, manifest and
\* files to the server's release for good, whatever was damaged or half done.
Heals ==
    <>[](/\ index # NoIndex /\ index.rel = server
         /\ manifest = server
         /\ BadNames(files, server) = {}
         /\ \A n \in Names : index.cover[n] = IF n \in NamesOf(server)
                                              THEN Universe(files[n]) ELSE {})

\* ... and every filter that this release does not list is deleted.
Tidied ==
    <>[](\A n \in Deletable : files[n] # Absent => n \in NamesOf(server))

(***************************************************************************)
(* The cache as its readers see it.                                        *)
(***************************************************************************)
Errors == {"IndexError", "FileRead", "FileDecode"}
ReleaseOf(idx) == IF idx = NoIndex THEN 0 ELSE idx.rel
Atomic == INSTANCE AtomicCache WITH
    installed <- ReleaseOf(index),
    intact <- ~damaged,
    check <- [c \in Checkers |->
                [pc |-> IF chk[c].pc = "reading" THEN "asked" ELSE "idle",
                 cert |-> chk[c].cert, rel |-> ReleaseOf(chk[c].snap),
                 answer |-> IF chk[c].result \in Errors THEN "error"
                            ELSE chk[c].result]]

\* All the files, plans and steps of fetches come down to this: index.bin is
\* replaced by the index of one release, a check answers for
\* the release it opened, and it fails only if there was no index or the index
\* has been replaced by that of another release since.
ImplementsAtomic == Atomic!Spec
===============================================================================
