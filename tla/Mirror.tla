-------------------------------- MODULE Mirror --------------------------------
(***************************************************************************)
(* The server side: how the site that `upki fetch` downloads from is made. *)
(*                                                                         *)
(*   - mozilla-crlite (upki-mirror/src/bin) GETs Mozilla's filter records, *)
(*     walks from the root filter along its deltas, downloads and checks   *)
(*     each of them into the output directory and writes manifest.json;    *)
(*   - intermediates GETs the CCADB report and writes its certificates     *)
(*     into up to 256 bucket files and another manifest;                   *)
(*   - a scheduled job (.github/workflows/mirror.yml) runs both into a new *)
(*     directory and then replaces the whole site by it.  The tools may as *)
(*     well be pointed at a directory that a web server serves (`direct`): *)
(*     fs::write truncates a file and then fills it, under the eyes of the *)
(*     clients;                                                            *)
(*   - a client GETs the manifest, and then the files, one by one.         *)
(***************************************************************************)
EXTENDS Naturals, Sequences, FiniteSets, SequencesExt

CONSTANTS
    Upstreams,     \* what Mozilla and the CCADB may answer with at first
    Updates,       \* ... and later
    MaxChanges,    \* bound on how often it changes
    Names,         \* the file names of filters
    Buckets,       \* the names of bucket files
    Contents,      \* the byte strings a filter download can be
    SizeOf,        \* SizeOf[c]: the length of content c
    None,          \* no parent, no item
    Absent,        \* no such file
    Torn,          \* a file that was truncated and not filled yet
    MaxFaults      \* bound on failed or killed jobs and bad downloads

Sha256(c) == <<"sha256", c>>

\* mozilla::Item (with its Attachment), a row of the CCADB report (`ok`: its
\* PEM parses and its hash column is the hash of the DER), ManifestFile.
IsItem(it) ==
    /\ DOMAIN it = {"id", "parent", "channel", "incremental", "filename", "hash", "size"}
    /\ it.channel \in {"Default", "Compat"} /\ it.incremental \in BOOLEAN
    /\ it.filename \in Names /\ it.size \in Nat /\ it.id # None
IsRow(row) == DOMAIN row = {"cert", "bucket", "ok"} /\ row.bucket \in Buckets

AllRecords == {u.records : u \in Upstreams \cup Updates}
ASSUME UpstreamAssumption ==
    /\ \A d \in AllRecords : /\ d \in Seq(ToSet(d))
                             /\ \A i \in DOMAIN d : IsItem(d[i]) /\ d[i] # None
    /\ \A u \in Upstreams \cup Updates : /\ u.report \in Seq(ToSet(u.report))
                                        /\ \A i \in DOMAIN u.report : IsRow(u.report[i])
    /\ Names \cap Buckets = {} /\ SizeOf \in [Contents -> Nat]
    /\ MaxChanges \in Nat /\ MaxFaults \in Nat
\* The settings service keeps ids unique, and an attachment's name stands for
\* the same bytes for ever.
ASSUME UniqueIds ==
    \A d \in AllRecords : \A i, k \in DOMAIN d : d[i].id = d[k].id => i = k
ASSUME ImmutableAttachments ==
    \A d, e \in AllRecords : \A i \in DOMAIN d, k \in DOMAIN e :
        d[i].filename = e[k].filename => d[i].hash = e[k].hash

VARIABLES
    direct,     \* the output directory is served as it is
    upstream,   \* the records and the report that are answered now
    changes,    \* how often they have changed
    out,        \* the output directories
    site,       \* what was deployed last
    run,        \* the job
    client,     \* the client
    faults,
    \* History:
    seen,       \* what upstream has answered so far
    cut         \* files left truncated by a job that died

vars == <<direct, upstream, changes, out, site, run, client, faults, seen, cut>>

Tools == {"crlite", "intermediates"}
NoFiles == [files |-> [n \in Names \cup Buckets |-> Absent],
            manifest |-> [t \in Tools |-> Absent]]
web == IF direct THEN out ELSE site

Whole(m) == m \notin {Absent, Torn}
Matches(fs, e) == fs[e.filename] \notin {Absent, Torn} /\ Sha256(fs[e.filename]) = e.hash

IdleRun == [pc |-> "idle", tool |-> "crlite", data |-> <<>>, next |-> None,
            plan |-> <<>>, pos |-> 1, bytes |-> None, files |-> <<>>]
IdleClient == [pc |-> "idle", m |-> <<>>, pos |-> 1, have |-> None]

Init ==
    /\ direct \in BOOLEAN
    /\ upstream \in Upstreams
    /\ changes = 0
    /\ out = NoFiles
    /\ site = NoFiles
    /\ run = IdleRun
    /\ client = IdleClient
    /\ faults = 0
    /\ seen = {upstream}
    /\ cut = {}

Change ==
    /\ changes < MaxChanges
    /\ upstream' \in Updates \ {upstream}
    /\ changes' = changes + 1
    /\ seen' = seen \cup {upstream'}
    /\ UNCHANGED <<direct, out, site, run, client, faults, cut>>

(***************************************************************************)
(* mozilla-crlite.                                                         *)
(***************************************************************************)
\* The first item that is a full filter of the default channel.
IsRoot(it) == ~it.incremental /\ it.parent = None /\ it.channel = "Default"
\* Mutant: the channel is not looked at.
AnyRoot(data) ==
    LET i == SelectInSeq(data, LAMBDA it : ~it.incremental /\ it.parent = None)
    IN IF i = 0 THEN None ELSE data[i]
Root(data) ==
    LET i == SelectInSeq(data, IsRoot) IN IF i = 0 THEN None ELSE data[i]

\* by_parent: a map, in which the last item with a parent wins.
\* Mutant: the items are looked for from the last one on, in their order.
Following(data, id) ==
    LET k == SelectInSeq(data, LAMBDA it : it.id = id)
        i == SelectInSubSeq(data, k, Len(data), LAMBDA it : it.parent = id)
    IN IF i = 0 THEN None ELSE data[i]
ByParent(data, id) ==
    LET i == SelectLastInSeq(data, LAMBDA it : it.parent = id)
    IN IF i = 0 THEN None ELSE data[i]

\* The job starts with empty directories, except where they are the site.
StartJob ==
    /\ run.pc = "idle"
    /\ run' = [IdleRun EXCEPT !.pc = "records"]
    /\ out' = IF direct THEN out ELSE NoFiles
    /\ UNCHANGED <<direct, upstream, changes, site, client, faults, seen, cut>>

GetRecords ==
    /\ run.pc = "records"
    /\ run' = [run EXCEPT !.pc = "walk", !.data = upstream.records,
                          !.next = Root(upstream.records)]
    /\ UNCHANGED <<direct, upstream, changes, out, site, client, faults, seen, cut>>

\* `while let Some(item) = next`
Walk ==
    /\ run.pc = "walk"
    /\ run' = IF run.next = None
              THEN [run EXCEPT !.pc = "take"]
              ELSE [run EXCEPT !.plan = Append(@, run.next),
                               !.next = ByParent(run.data, run.next.id)]
    /\ UNCHANGED <<direct, upstream, changes, out, site, client, faults, seen, cut>>

Failed == IdleRun

\* An attachment is accepted for its hash and its size, or it ends the job.
\* Mutants: the hash is not checked; a bad attachment is passed over.
RightSize(c, it) == SizeOf[c] = it.size
Accepted(c, it) == Sha256(c) = it.hash /\ SizeOf[c] = it.size
PassedOver == [run EXCEPT !.pos = @ + 1]
Rejected == Failed

\* One attachment is downloaded, and checked before it is written.
Download ==
    /\ run.pc = "take" /\ run.tool = "crlite" /\ run.pos \in DOMAIN run.plan
    /\ \E c \in Contents :
         LET it == run.plan[run.pos]
         IN /\ faults' = faults + (IF Sha256(c) = it.hash THEN 0 ELSE 1)
            /\ faults' <= MaxFaults
            /\ run' = IF Accepted(c, it)
                      THEN [run EXCEPT !.pc = "open", !.bytes = c] ELSE Rejected
    /\ UNCHANGED <<direct, upstream, changes, out, site, client, seen, cut>>

(***************************************************************************)
(* intermediates.                                                          *)
(***************************************************************************)
\* The rows of one bucket, in the order of the report.
BucketOf(report, b) ==
    LET rows == {i \in DOMAIN report : report[i].bucket = b}
        Nth(k) == CHOOSE i \in rows : Cardinality({j \in rows : j <= i}) = k
    IN [k \in 1 .. Cardinality(rows) |-> report[Nth(k)].cert]
\* Absent and Torn are no content of a file.
ASSUME MarkerAssumption ==
    /\ Absent # Torn /\ {Absent, Torn} \cap Contents = {}
    /\ \A u \in Upstreams \cup Updates, b \in Buckets :
         BucketOf(u.report, b) \notin {Absent, Torn}
BucketsOf(report) == {report[i].bucket : i \in DOMAIN report}

\* Every row is checked before anything is written; the buckets come in the
\* order of a HashMap.
GetReport ==
    /\ run.pc = "report"
    /\ run' \in IF \A i \in DOMAIN upstream.report : upstream.report[i].ok
                THEN {[IdleRun EXCEPT !.pc = "take", !.tool = "intermediates",
                                      !.data = upstream.report, !.plan = p] :
                        p \in SetToSeqs(BucketsOf(upstream.report))}
                ELSE {Failed}
    /\ UNCHANGED <<direct, upstream, changes, out, site, client, faults, seen, cut>>

FillBucket ==
    /\ run.pc = "take" /\ run.tool = "intermediates" /\ run.pos \in DOMAIN run.plan
    /\ run' = [run EXCEPT !.pc = "open", !.bytes = BucketOf(run.data, run.plan[run.pos])]
    /\ UNCHANGED <<direct, upstream, changes, out, site, client, faults, seen, cut>>

(***************************************************************************)
(* Writing the output, the same in both tools.                             *)
(***************************************************************************)
\* The entry of the manifest for the file at hand.
Entry ==
    IF run.tool = "crlite"
    THEN LET it == run.plan[run.pos]
         IN [filename |-> it.filename, hash |-> it.hash, size |-> it.size]
    ELSE [filename |-> run.plan[run.pos], hash |-> Sha256(run.bytes),
          size |-> Len(run.bytes)]

\* fs::write opens and truncates the file ...
OpenFile ==
    /\ run.pc = "open"
    /\ out' = [out EXCEPT !.files[Entry.filename] = Torn]
    /\ run' = [run EXCEPT !.pc = "fill"]
    /\ UNCHANGED <<direct, upstream, changes, site, client, faults, seen, cut>>
\* ... and writes it.
\* Mutant: the next file of the plan is passed over.
WriteSkips ==
    /\ run.pc = "fill"
    /\ out' = [out EXCEPT !.files[Entry.filename] = run.bytes]
    /\ cut' = cut \ {Entry.filename}
    /\ run' = [run EXCEPT !.pc = "take", !.pos = @ + 2, !.bytes = None,
                          !.files = Append(@, Entry)]
    /\ UNCHANGED <<direct, upstream, changes, site, client, faults, seen>>
WriteFile ==
    /\ run.pc = "fill"
    /\ out' = [out EXCEPT !.files[Entry.filename] = run.bytes]
    /\ cut' = cut \ {Entry.filename}
    /\ run' = [run EXCEPT !.pc = "take", !.pos = @ + 1, !.bytes = None,
                          !.files = Append(@, Entry)]
    /\ UNCHANGED <<direct, upstream, changes, site, client, faults, seen>>

OpenManifest ==
    /\ run.pc = "take" /\ run.pos \notin DOMAIN run.plan
    /\ out' = [out EXCEPT !.manifest[run.tool] = Torn]
    /\ run' = [run EXCEPT !.pc = "manifest"]
    /\ UNCHANGED <<direct, upstream, changes, site, client, faults, seen, cut>>
WriteManifest ==
    /\ run.pc = "manifest"
    /\ out' = [out EXCEPT !.manifest[run.tool] = run.files]
    /\ run' = [IdleRun EXCEPT !.pc = IF run.tool = "crlite" THEN "report" ELSE "deploy"]
    /\ UNCHANGED <<direct, upstream, changes, site, client, faults, seen, cut>>

\* The site is replaced as a whole.
Deploy ==
    /\ run.pc = "deploy"
    /\ site' = IF direct THEN site ELSE out
    /\ run' = IdleRun
    /\ UNCHANGED <<direct, upstream, changes, out, client, faults, seen, cut>>

\* A request, a parse or a write fails, or the job is killed: nothing later in
\* the job is run.
Abort ==
    /\ run.pc # "idle"
    /\ faults < MaxFaults
    /\ faults' = faults + 1
    /\ cut' = IF run.pc = "fill" THEN cut \cup {Entry.filename} ELSE cut
    /\ run' = Failed
    /\ UNCHANGED <<direct, upstream, changes, out, site, client, seen>>

(***************************************************************************)
(* A client without a cache, as in fetch.rs: without a manifest that       *)
(* decodes nothing happens, and a file that is not there or does not match *)
(* ends the fetch.                                                         *)
(***************************************************************************)
ClientManifest ==
    /\ client.pc = "idle"
    /\ Whole(web.manifest["crlite"])
    /\ client' = [client EXCEPT !.pc = "get", !.m = web.manifest["crlite"], !.pos = 1]
    /\ UNCHANGED <<direct, upstream, changes, out, site, run, faults, seen, cut>>
ClientFile ==
    /\ client.pc = "get"
    /\ client.pos \in DOMAIN client.m
    /\ client' = IF Matches(web.files, client.m[client.pos])
                 THEN [client EXCEPT !.pos = @ + 1]
                 ELSE [IdleClient EXCEPT !.have = client.have]
    /\ UNCHANGED <<direct, upstream, changes, out, site, run, faults, seen, cut>>
ClientDone ==
    /\ client.pc = "get"
    /\ client.pos \notin DOMAIN client.m
    /\ client' = [IdleClient EXCEPT !.have = client.m]
    /\ UNCHANGED <<direct, upstream, changes, out, site, run, faults, seen, cut>>

JobStep ==
    \/ GetRecords \/ Walk \/ Download \/ GetReport \/ FillBucket
    \/ OpenFile \/ WriteFile \/ OpenManifest \/ WriteManifest \/ Deploy
ClientStep == ClientManifest \/ ClientFile \/ ClientDone

Next == Change \/ StartJob \/ JobStep \/ Abort \/ ClientStep

Spec == Init /\ [][Next]_vars

\* The job is scheduled every six hours and its steps run; so do the client's.
Fairness == WF_vars(StartJob) /\ WF_vars(JobStep) /\ WF_vars(ClientStep)
FairSpec == Spec /\ Fairness

(***************************************************************************)
(* What is to be published.                                                *)
(***************************************************************************)
\* The first root and everything that descends from it, as long as no two items have
\* the same parent.
Forked(d) == \E i, k \in DOMAIN d : i # k /\ d[i].parent = d[k].parent /\ d[i].parent # None
Descends(d, root, it) ==
    \A S \in SUBSET ToSet(d) :
        (root \in S /\ \A x \in S, y \in ToSet(d) : y.parent = x.id => y \in S) => it \in S
Chain == [d \in AllRecords |->
    {it \in ToSet(d) : \E i \in DOMAIN d : /\ IsRoot(d[i]) /\ Descends(d, d[i], it)
                                           /\ \A k \in 1 .. i - 1 : ~IsRoot(d[k])}]
Listing == [d \in AllRecords |->
    {[filename |-> it.filename, hash |-> it.hash, size |-> it.size] : it \in Chain[d]}]
BucketListing(report) ==
    {[filename |-> b, hash |-> Sha256(BucketOf(report, b)),
      size |-> Cardinality({i \in DOMAIN report : report[i].bucket = b})] :
        b \in BucketsOf(report)}

\* Every attachment and every row is what the records say it is.
Publishable(u) ==
    /\ ~Forked(u.records)
    /\ \A it \in Chain[u.records] :
         \E c \in Contents : Sha256(c) = it.hash /\ SizeOf[c] = it.size
    /\ \A i \in DOMAIN u.report : u.report[i].ok

(***************************************************************************)
(* Properties.                                                             *)
(***************************************************************************)
IsListing(m) == \A i \in DOMAIN m : DOMAIN m[i] = {"filename", "hash", "size"}
DirOK(d) ==
    /\ \A n \in Names : d.files[n] \in Contents \cup {Absent, Torn}
    /\ \A t \in Tools : Whole(d.manifest[t]) => IsListing(d.manifest[t])
TypeOK ==
    /\ direct \in BOOLEAN /\ upstream \in Upstreams \cup Updates
    /\ changes \in 0 .. MaxChanges /\ faults \in 0 .. MaxFaults
    /\ DirOK(out) /\ DirOK(site)
    /\ run.pc \in {"idle", "records", "walk", "take", "open", "fill", "manifest",
                   "report", "deploy"}
    /\ run.tool \in Tools /\ run.pos \in 1 .. Len(run.plan) + 1
    /\ client.pc \in {"idle", "get"} /\ client.pos \in 1 .. Len(client.m) + 1
    /\ cut \subseteq Names \cup Buckets

\* "Walk the DAG of filters, starting from the root full filter": whatever the
\* order of the records, the plan is one line of descent from a full filter of
\* the default channel to an item without children; no item comes twice; and
\* without forks it is everything that descends from that filter.
WalkSound ==
    (run.tool = "crlite" /\ run.pc \in {"take", "open", "fill", "manifest"}) =>
        LET p == run.plan IN
        /\ IsInjective(p)
        /\ p = <<>> <=> \A i \in DOMAIN run.data : ~IsRoot(run.data[i])
        /\ p # <<>> =>
             /\ IsRoot(p[1])
             /\ \A i \in 1 .. Len(p) - 1 : p[i + 1].parent = p[i].id
             /\ \A i \in DOMAIN run.data : run.data[i].parent # p[Len(p)].id
        /\ ~Forked(run.data) => ToSet(p) = Chain[run.data]

\* What is served is never a part of a release: manifest.json lists exactly the
\* filters of one answer of Mozilla, or the buckets of one report, whatever job
\* failed in the middle.
PublishedWhole ==
    LET m == web.manifest IN
    /\ Whole(m["crlite"]) =>
         \E u \in seen : Forked(u.records) \/ ToSet(m["crlite"]) = Listing[u.records]
    /\ Whole(m["intermediates"]) =>
         \E u \in seen : ToSet(m["intermediates"]) = BucketListing(u.report)

\* The file is truncated, by the job at work or by one that died.
Rewritten(n) == n \in cut \/ (run.pc = "fill" /\ Entry.filename = n)

\* A deployed site has every file its manifests list, with the listed hash.  A
\* directory that is served directly has every filter of the manifest in it,
\* and of the manifest that a client is at, except for a file that is being
\* rewritten or was left truncated.
Servable ==
    IF direct
    THEN \A m \in {out.manifest["crlite"], client.m} :
           Whole(m) => \A i \in DOMAIN m :
             \/ Matches(out.files, m[i])
             \/ out.files[m[i].filename] = Torn /\ Rewritten(m[i].filename)
    ELSE \A t \in Tools : Whole(site.manifest[t]) =>
           \A i \in DOMAIN site.manifest[t] : Matches(site.files, site.manifest[t][i])

\* Once upstream and the faults are quiet, the clients of a deployed site get
\* what Mozilla has now, however often the site is replaced, and keep it.
CatchesUp ==
    <>[](\/ direct \/ ~Publishable(upstream)
         \/ client.have # None /\ ToSet(client.have) = Listing[upstream.records])
===============================================================================
