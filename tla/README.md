# A TLA+ model of upki

upki brings revocation checking to programs outside of browsers. A fetcher
keeps a directory of crlite filters in step with a server; any program then
checks certificates against that directory, without a daemon, through a library,
a C API, a rustls verifier or an OpenSSL callback. This directory holds a model of
those parts and of the mirror that the fetcher downloads from, the TLC runs that
check it, and TLAPS proofs of all its safety properties.

`PROJECT.json` lists the components, runs, mutants, findings, hazards and theorems,
and maps each definition to the lines of code it models.

## The system

| Part | State | Operations | Talks to |
|---|---|---|---|
| fetch (`upki/src/revocation/fetch.rs`) | none of its own: the plan of one run | GET the manifest, `Plan::construct`, then `PlanStep::execute` for CreateDir, Download…, SaveIndex, SaveManifest, Delete… | the server over HTTP; the cache directory |
| cache directory | filter files, `manifest.json`, `index.bin` | replaced by renames, deleted one by one, listed, read | every other part; no lock anywhere |
| verify (`revocation/mod.rs`) | none | the plan against the manifest on disk, turned into an exit status | cache directory |
| check (`revocation/index.rs`) | an open `index.bin`, the filters seen so far | `Index::from_cache`, `Index::check` | cache directory |
| index.bin (`revocation/index.rs`) | file name table, sorted log directory, entry sections | `Index::write`, binary search, section reads | written by fetch, read by check |
| SHA-256 (`upki/src/sha256.rs`) | chaining value, block buffer | `update`, `finish` | `hash_file`, `RevocationCheckInput::new` |
| configuration (`upki/src/lib.rs`) | none | `ConfigPath::new` probes the user's and the system's file, `Config::from_file` reads what was found, `Config::try_default` probes two directories | every entry point; no lock |
| C API (`upki/src/ffi.rs`) | heap-allocated configurations | `upki_config_new/free`, `upki_check_revocation` | the application, the OpenSSL integration |
| OpenSSL (`upki-openssl/src/lib.rs`) | one ex_data slot per `SSL_CTX` | `set_config`, `verify_callback`, the slot's destructor | C API, OpenSSL |
| rustls (`rustls-upki/src/lib.rs`) | policy and configuration, fixed at construction | `new`, `verify_server_cert` | check |
| mirror (`upki-mirror`, `.github/workflows/mirror.yml`) | an output directory, the deployed site | walk Mozilla's filter records, check and write the files, write a manifest; the same for intermediates; replace the site | Mozilla and the CCADB; fetch, over HTTP |
| command line (`upki-cli`) | none | one of fetch, verify, check, show-config per process; outcomes as exit statuses | all |

What is hard here is not in one function. Fetches, verifies and checks are separate
processes that see the directory between each other's system calls; a fetch can stop
after any step, and the next one finds whatever is there; a plan is made from a
listing that is old when the plan is executed; a check holds an index whose files
are being deleted; nothing is synced to disk; a client downloads from a site that is
replaced meanwhile; the file format, the hash and the callbacks have boundaries that
ordinary data seldom meets.

What makes the parts correct:

- cache: `index.bin` never names a file that is missing or altered, whatever
  fails; a verdict is the verdict of one release; the cache converges;
- index.bin: looking through the index gives the answer of asking every filter,
  and a damaged file gives an error;
- SHA-256: the way a message is cut does not matter;
- mirror: what is served is one whole release, and clients end up with the
  newest;
- configuration: what is found is what the documented order of the search says,
  although files come and go between the probes; an exit status says what the
  data says;
- rustls and OpenSSL: a handshake is accepted only on a status that the
  configured cache gave, or that the policy allows to be missing; configurations
  are freed once.

## The modules

### RevocationCache

The core: server, directory, fetches, verifies and checks. The directory is
`files` (name to content or `Absent`), `manifest` (the number of the release in
`manifest.json`, 0 for none) and `index` (`index.bin`: for each name the
certificates routed to it, and the release it was built for). `job[p]` is the run
of a fetch or a verify, `chk[c]` a revocation check.

Each action is one system call or one turn of a loop of the code, since this is
where other processes get in:

| Action | Code |
|---|---|
| `StartFetch`, `ReadOldManifest` | `fetch`: GET and decode; `Manifest::from_config(..).ok()` |
| `StartVerify` | `Manifest::from_config`, `Manifest::verify` |
| `ListDir`, `HashFile`, `SpareOld` | `Plan::construct`: the listing, one `hash_file`, the old manifest's files |
| `UsePlan` | execute, print (`--dry-run`) or turn into an exit status |
| `CreateDir`, `DownloadWrite`, `DownloadVerify`, `IndexOneFile`, `PersistIndex`, `SaveManifest`, `DeleteFile`, `FinishFetch` | `PlanStep::execute` in the order of the plan; a download is a rename followed by a hash; SaveIndex reads the filters one by one and then renames |
| `Abort` | any of these failing, or the process killed |
| `OpenIndex`, `ReadFilter`, `FinishCheck` | `Index::from_cache`, one filter of `Index::check`, its result |
| `Publish`, `Damage` | the environment: the next release; a file lost or altered |

Filter contents are values with a digest (SHA-256 taken to be injective), a
decodability and a status per certificate; a certificate's SCTs are abstracted to
the set of filters that cover it. `damaged`, `orphaned`, `watch`, the index's `rel`
and a check's `age` are history that only properties read.

The manifest a fetch is given is the newest or, as a fault, an earlier one: a
mirror or a proxy may be behind, and the code never compares `generated_at`. The
cache then goes back to that release, and no property says that it does not.

### AtomicCache and the refinement

`AtomicCache` is what a program that checks certificates may expect, without files,
plans or fetch processes: one release is installed at a time, it is replaced as a
whole (by an older one too, if that is what the server answers), a check answers for
the release that was installed when it began, and fails only if that release has
been replaced meanwhile or somebody touched the data. `ImplementsAtomic` in
RevocationCache instantiates it: the installed release is the one whose index is in
place, so the only step that installs is `PersistIndex`; downloads, deletions and
the manifest are stutters, and so are all steps of a check but the first and the
last. CacheSerial checks the refinement for fetches that do not overlap.

### PowerLoss

RevocationCache on a machine that may lose power. No file and no directory is ever
synced, so a path may come back with anything it held since the last start, or as a
file without its data (`Torn`), and each path with its own: the index of one release
beside the filters of another. `old` keeps what each path may be found to hold;
`Written` adds to it after every step of RevocationCache, `Lose` picks from it and
ends all processes.

### Mirror

Both tools of upki-mirror, the scheduled job that runs them, and a client. The walk
(`Root`, `ByParent`, `Walk`) takes one record at a time in the order of the answer;
a file is truncated (`OpenFile`) and then filled (`WriteFile`), as `fs::write` does;
the two manifests are written last. The job works in an empty directory and replaces
the whole site (`Deploy`); `direct` is the other way to use the tools, writing into
a directory that a web server serves. The client takes the manifest and then file
after file from whatever is served at that moment.

### IndexFile

`Index::write`, `from_cache` and `check` in byte offsets, for both versions of the
format. The file is a record of its fields together with a length, so a file cut
at any byte is a smaller length. `check` is a state machine: outer loop over SCTs,
one turn of the binary search, one section read, one entry. The layout is
defined by counting, not by a loop: the k-th log of the directory is the log
with k logs up to it, and a section begins where the entries of the earlier logs
end, so that the same definitions are evaluated by TLC and reasoned about by
TLAPS. `Width` is the number of files that a version of the format can count.
Filters always read well here; RevocationCache is about the ones that do not.

### Sha256Stream

`Context` and `Blockwise`. The chaining value is the sequence of bytes compressed
so far, each byte named by its place in the message or the padding, so the digest
is right exactly when the sequence is the padded message of FIPS 180-4. The
compression function itself is abstract.

### ConfigSearch, CommandLine, ServerVerifier and VerifyingHost

`ConfigSearch` holds the host (configuration files and cache directories, which
change between any two steps) and the search, one probe or read per action.
`CommandLine` continues a found configuration as one of upki's commands, up to the
exit status (`ParseArgs` is a command line that is answered before: help, usage
errors, a bad log filter); `ServerVerifier` continues it as `ServerVerifier::new`
and has `verify_server_cert` in three steps: the path, the opening of the index, the
check. A client builds one verifier and may try again after a failure. The outcome
of `Index::check` is that of the dataset whose index was opened, or an error: what
RevocationCache establishes. `VerifyingHost` composes them on one host and adds the
history its properties need: what each file and directory was since a search began
(`saw`), and what the directory in use held since a call began (`held`). Connections
share nothing that changes, so one shows what there is to see.

### OpensslVerifier

Heap, ownership and the callback. A pointer is never reused, so that using a
freed one is visible (`misuse`). The application keeps to the documented rules: it
frees or hands over only what it owns, and works with one `SSL_CTX` from one
thread. `set_config` stores the configuration or, without an ex_data index or when
`SSL_CTX_set_ex_data` fails, which it does not notice, leaks it (`leaked`). OpenSSL's
call fails only where it has to make room for the index, so never where an
earlier configuration was stored and has just been freed. The callback runs as
EarlyReturn, GetConfig, Check, Drop, per depth of the chain; its X509_STORE_CTX may
belong to no SSL, and then it uses the default configuration.

### MC modules

`MCRevocationCache`, `MCPowerLoss`, `MCMirror`, `MCIndexFile`, `MCSha256Stream`,
`MCVerifyingHost` and `MCOpensslVerifier` give the constants their values.
Definitions introduced by "Mutant" in the component modules are deliberately wrong
variants of the definition that follows them; replacing it by one of them makes the
property fail that `PROJECT.json` names.

## The runs

| Run | Instance | Shows |
|---|---|---|
| CacheSerial | 1 fetch, 1 check, 3 releases (a full filter with a delta, the next delta, a new full filter whose name ends in neither `.filter` nor `.delta`), 1 fault | `IndexSound`, `PlanSound`, `VerdictSound`, `ReaderGrace`, `SyncedOnSuccess` and the refinement `ImplementsAtomic` with one fetch at a time |
| PowerLoss | 1 fetch, 1 verify, 1 check, 2 releases, 1 fault (a power loss, a damaged file or a failing step), fairness | `VerdictSound`, `VerifySound`, `SyncedOnSuccess`, `Heals` and `Tidied` hold although nothing is synced |
| CacheHeals | 2 fetches, 2 releases of one filter, 1 fault, fairness | `Heals`, `Tidied` |
| CacheOverlapIndex | 2 fetches, 2 releases | violation: `IndexSound` does not |
| CacheUndecodable | a release whose filter does not decode | violation: `IndexSound` |
| IndexFile | all pairs of filters over two logs; 0 to 5 logs cut at every byte | `NeverWrong`, `NeverFails`, `SearchSound`, `Terminates` |
| Sha256Stream | blocks of 8 bytes, length of 3, messages up to 33 bytes, slices up to 17 | `StreamsWhole`, `DigestCorrect` |
| Mirror | 10 first answers of Mozilla and 4 later ones, 1 change, 1 fault, deployed or direct, fairness | `WalkSound`, `PublishedWhole`, `Servable`, `CatchesUp` |
| Verifier | 1 process at a time and 2 in all, 1 connection, 1 change of a file or a directory, 3 datasets | `ConfigSound`, `ExitSound`, `AcceptSound`, `RevokedSound` |
| VerifierMissing | the same, 1 process | violation: `MissingDataAllowed` |
| VerifierNoScts | the same, with a policy that allows certificates without SCTs and not those that are not covered | violation: `RevokedSound` |
| OpensslVerifier | 2 contexts, 3 configurations, 3 caches, 10 chains | `NoMisuse`, `OneOwner`, `PassesSound`, `RevokedReported` |

Bounds. Three releases are the fewest in which a file is shared by two releases,
dropped by the next and replaced by a third; a reader's grace ends after two index
updates. One fault is enough to stop a fetch at every point, to damage every file
once or to give a fetch an outdated manifest, since every other state is reached as
a fault's consequence. PowerLoss has one as well: a power loss already sets every
path on its own, and with a bad download after it `VerdictSound` is not to be had
(below). Two fetches show every pairwise overlap. The mirror's records have chains
of three in every order, forks, other channels and no root; one change and one fault
fall between any two steps of the job and of the client. In the Verifier run the
change falls between any two probes, reads and checks, and a second command may
follow on a first. The index run has directories of 0 to 5 logs because five probes
reach every branch of the search from both sides; the counters of the two formats
are narrowed to 3 and 4 values, so that a manifest of three files fits the new
format only. Blocks of 8 bytes with 3 for the length leave room for every case of
the padding, one block or two, and 33 bytes is four blocks and a byte.
`CHECK_DEADLOCK FALSE` is given where the program stops: a check, a hash or the last
process that has returned, an application that has freed everything.

Fairness (`FairSpec` of RevocationCache). `StartFetch` is strongly fair for real
fetches: PACKAGING.md asks for a timer that runs `upki fetch` every two hours
or so, and dry runs in between do not stop it. The steps of a running fetch and
of a check are weakly fair: they are calls that return or time out
(`REQUEST_TIMEOUT`). Faults are bounded, and nothing says they happen. PowerLoss has
the same (`PFairSpec`): the machine comes back, and its timer with it. In Mirror
the job is started every six hours by its cron line, and its steps and those of
a client end, all weakly fair; nothing says that Mozilla's answer changes.
IndexFile has weak fairness of its only process.

### What the violations show

- **Overlapping fetches** (CacheOverlapIndex). Nothing keeps a timer's fetch and a
  network-up fetch apart. A slow fetch can rename its index over that of a faster
  one, which has installed the next release and deletes, before or after that
  rename, the files that the slow one's index needs. Checks then fail until a later
  fetch repairs the cache (CacheHeals). As long as no download is altered they fail
  and do not answer wrongly (`OverlapsAreSound`). With one altered download they
  can: two fetches plan the same file, one installs its index, the other renames the
  altered bytes onto the file before it hashes them (`fetch.rs:274-288`), and a
  check that comes in between answers from them. With one fetch at a time that path
  is never one the index in use names.
- **A filter that cannot be indexed** (CacheUndecodable). SaveIndex succeeds without
  saving, the manifest is saved, and after one more fetch the old index names
  deleted files. Repeated fetches do not repair this as long as the server publishes
  that filter.
- **`missing_data: Allowed`** (VerifierMissing). The policy item is used when the
  verifier is built and not when it is used.
- **`cert_has_no_scts: Allowed`** (VerifierNoScts). A certificate without SCTs that
  this item allows is taken for one that is not covered, and `cert_not_covered` then
  refuses it as revoked. The other policies keep `RevokedSound` (`PoliciesAgree`).

Other differences between code, documentation and expectation came up and have no
run of their own.

- `Manifest::verify` adds up sizes that the manifest calls indicative and takes a
  sum of 0 for "nothing is missing" (`revocation/mod.rs:81`); it does not look at
  `index.bin`, so that a cache without one verifies. `VerifySound` says what a
  success does mean for manifests with sizes above 0.
- A power loss that loses the data of a filter, followed by a download of the wrong
  bytes, can leave a file that the index names with other content: the step renames
  before it hashes (`fetch.rs:274-283`). It takes two faults; a verdict is then that
  of the altered file until the next fetch.
- `lib.rs:37` says that without a file the default configuration is returned; a path
  that the caller gave is an error instead. If the user's file disappears between
  the probe and the read, the defaults are used even if a system file exists:
  `ConfigSound` makes this the only exception.
- Usage errors of the argument parser also end with status 2, which `upki.rs`
  documents as "revoked".
- `find_issuer` takes the first certificate whose subject matches, so with two CAs
  of one name the position of the intermediates does matter.
- An outdated manifest brings an old release back (`StartFetch`). Together with an
  altered download, so with two faults, this can give a wrong verdict to a check
  that has the index of the release that is coming back.
- An index that does not decode reaches C callers as `UPKI_ERR_UNKNOWN`
  (`ResultOf`), which ffi.rs reserves for variants added to the library; where
  `upki_openssl_set_config` cannot store a configuration it leaves it without an
  owner; and when the default configuration cannot be loaded the callback returns 0
  without setting an error (`GetConfig`).
- Without a full filter of the default channel the mirror publishes an empty
  manifest, and one bad row of the CCADB report stops the deployment of the
  revocation data too (`GetReport`).

## The proofs

Every safety property of the passing runs is a theorem, for every number of
processes, files, releases, logs, bytes and faults. The assumptions are the named
`ASSUME`s of the modules, which TLC evaluates in the runs, and those that a
theorem states itself. Each `…Proofs` module first gives an invariant that is
inductive, because hardly any property is by itself, then one lemma per action or
group of actions, and the theorems at the end.

### The cache: RevocationCacheProofs, CacheCheckProofs

| Theorem | Needs |
|---|---|
| `TypeCorrect` | – |
| `IndexAlwaysSound`, `PlanAlwaysSound` | one fetch at a time (`SerialFetch`), a name always stands for the same bytes (`ImmutableNames`), what is published can be indexed (`AllIndexable`) |
| `SuccessIsSynced` | `SerialFetch`, `ImmutableNames`, `AllIndexable` |
| `VerifyIsSound` | sizes in manifests are above 0 (`SizesPositive`); fetches may overlap |
| `VerdictsAreSound`, `ReadersHaveGrace`, `CacheIsAtomic` | as `SuccessIsSynced`, names that a release has dropped do not come back (`NamesRetire`), and fetches are given the newest manifest (`Fresh`) |
| `OverlapsAreSound` | `ImmutableNames` and no altered download (`Unaltered`); any number of overlapping fetches, failing or killed anywhere |

The two violation runs drop `SerialFetch` and `AllIndexable` and show that
`IndexSound` needs them. crlite's file names carry the date of the filter, which
is what `ImmutableNames` and `NamesRetire` say. Without `NamesRetire` TLC finds a
wrong verdict: of four releases the first and the last have the same filter, a
check opened the first one's index, and the fetch of the last puts a bad download
in the place of the file that had been deleted. An outdated manifest has the
same effect, which is why those three theorems assume `Fresh` as well; the runs do
not, since an outdated manifest and a bad download are two faults.

`TypeOK` needs `JobShape`: a running command has a manifest and loops start where
they should. `IndexSound` depends on the state of the running fetch, and
`PlanSound` says how, step by step (`FetchSound`): while the plan is formed and
downloads are made, every entry of the manifest matches or will be downloaded,
and no download goes to a file of the index in use (a file of the index matches,
and by `ImmutableNames` so does every entry of that name); while the index is
built, every file matches and the universes collected so far are the right ones;
when files are deleted, the index on disk is already this fetch's, and nothing it
needs is on the list. `SafeInv`, the conjunction, is inductive.

The rest adds to it, in `CheckInv`: `OrderInv` (given `Fresh`, the index is not
newer than the release of a running fetch, nor that than the server), `TidyInv`
(each filter in the directory is of this release, of the old one, or on the list of
deletions), `ManifestInv` (the manifest on disk is that of the index, unless a fetch
is between its two saves or ended there) and `ReadInv` (a check's index routes to
the published universes; each file of its release is still right or gone; what was
asked so far agrees with what was published; no file is gone before the grace is
over). The refinement is then shown step by step: one lemma for each kind of step
says which action of AtomicCache it is, or that it is a stutter. `VerifyIsSound` has
its own `WatchInv`: a name that was bad all the time is on the list of downloads
once it has been hashed.

With overlapping fetches nothing of this holds: the index may name files that
are gone, and its release may be any. `OverlapInv` does without: files that
decode are what their names stand for (`Genuine`, kept by every step that is not an
altered download or damage), so whatever an index is built from (`CollectInv`) and
whatever a check reads is right, or the check fails.

### PowerLossProofs

`VerifyIsSoundAfterLoss`, `SuccessIsSyncedAfterLoss` and
`VerdictsAreSoundAfterLoss`, for any number of losses. `SafeInv` is false after a
loss, since the index may be that of files that are torn. `RepairInv` is what a
fetch establishes without relying on what it finds: an entry that has been hashed
matches or is going to be downloaded. The last theorem, with overlapping fetches
too, carries `Genuine` and the index's part of `OverlapInv` over to everything that
a path may come back with (`OldGenuine`); it needs `Unaltered`, because a loss
followed by a bad download does give a wrong verdict (above).

### IndexFileProofs

`TypeCorrect`, `SearchIsSound`, `VerdictsAreRight` (`NeverWrong`) and
`WholeFilesAreRead` (`NeverFails`), for every manifest with fewer files than the
format counts, every finite set of logs, every query, and files cut at any
byte or with entries that name no file. The first half is about the layout, by
counting: `InOrder` lists a finite set of numbers in order, sections lie one after
another, and the offset of a section leads back to its log. The second half is
`CheckInv`: the file is the index of the manifest (`FixedInv`), the filters asked
cover the certificate (`AskedInv`), those for SCTs that the loop is past have all been
asked (`PastInv`), and of the SCT at hand they have been asked or are among the
entries left (`RestInv`).

### Sha256StreamProofs

`TypeCorrect`, `StreamsAreWhole` and `DigestIsCorrect`, for every size of block and
length field, every message and every way to cut it. `StreamInv` says of each
position of the compressed bytes and of the buffer which byte of the message is
there; the end is a case analysis of the padding.

### VerifyingHostProofs

`TypeCorrect`, `SearchIsSound` (`ConfigSound`), `ExitsAreSound`, `AcceptsAreSound`
and `RevocationsAreSound`, for any number of processes and connections and any
changes to the host; the last for policies that agree on certificates without SCTs
(`PoliciesAgree`). `HostInv` says what a process or a call holds at each step, and
that the dataset it opened was there since it began; `SearchInv` what a search has
established at each probe about what the files were (`saw`).

### OpensslVerifierProofs

`TypeCorrect`, `NeverMisused`, `AlwaysOneOwner`, `PassesAreSound` and
`RevokedIsReported`, for any number of contexts, configurations and chains.
`OwnInv`: what the application, a slot or a callback holds is live (`HeldLive`), no
two hold the same (`Exclusive`), and what is live is held or was leaked (`Covered`).
`CallSound` adds what the callbacks of a chain have established from the top down to
this depth.

### MirrorProofs

`TypeCorrect`, `WalkIsSound`, `PublishedIsWhole` and `SiteIsServable`, for any
records, reports, changes and faults, given `UniqueIds` (no two records have one id)
and `ImmutableAttachments` (a file name always stands for the same attachment).
`MirrorInv` says that the plan is the line of descent so far (`WalkOK`), that
manifests come from answers that were seen (`FromSeen`, `Listed`), that a file is
absent, truncated or right (`NamesOK`), and that what a manifest lists is there, if
only truncated (`Kept`; `CleanJob` and `SiteOK` for a deployed site). Descent is
defined as the least set that is closed under children, which needs no induction.

### What is only model-checked

- Liveness: `Heals`, `Tidied`, `CatchesUp` and `Terminates`. The provers do not
  handle fairness and `ENABLED`.
- `VerdictSound` of PowerLoss with an altered download as the only fault: after a
  power loss it may be wrong, without one it is `VerdictsAreSound`.
- `VerdictSound`, `ReaderGrace` and `ImplementsAtomic` with an outdated manifest as
  the only fault (CacheSerial).

Theorems that need an induction over data are out of reach too, because the
induction rules take an operator as a parameter. Where the proofs need one they
count instead (the lemmas on finite sets of FiniteSetTheorems), use the
least-number principle, or have the state machine's invariant do the induction.

## What is not modelled

- The compression function of SHA-256, base64, hex and JSON, and clubcard queries:
  computations on data, from other crates or tested against known answers.
- Leftover temporary files. Their names end neither in `.filter` nor in `.delta`, so
  that no step of a fetch sees them; they only take up space.
- Manifests of 65536 files and more, whose numbers are cut to a u16.
- Overlapping jobs of the mirror, whose order of deployment is GitHub's, and the
  job's copy of the files for clients of an older layout.
- Records with duplicate ids, along which the mirror's walk may not end.
- Null arguments and panics of the C API.
- revoke-test (a test suite against live sites), benchmarks, packaging scripts and
  the rest of CI.

## Plan

The parts that can be modelled are, and their safety properties are proved. What
could still be said:

1. `SuccessIsSynced` for overlapping fetches: which part of it a fetch may rely on
   if another one ends first;
2. `ImplementsAtomic` with overlapping fetches and unaltered downloads;
3. the safety half of the liveness properties: what each step of a fetch
   brings nearer to the end.
