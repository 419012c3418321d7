----------------------------- MODULE MirrorProofs -----------------------------
(***************************************************************************)
(* Proofs about the server side: for every sequence of answers of upstream *)
(* (however long, in whatever order of the records), every place at which  *)
(* a job fails and every interleaving with a client, what is served is one *)
(* whole answer, with the files it lists.                                  *)
(*                                                                         *)
(* MirrorInv is a conjunction of what holds of the job by itself (JobOK    *)
(* and, for the walk along the deltas, WalkOK), of where data comes from   *)
(* (FromSeen, Listed), and of the files on disk (NamesOK, Kept, CleanJob,  *)
(* SiteOK).                                                                *)
(***************************************************************************)
EXTENDS Mirror, SequenceTheorems, FiniteSetTheorems, TLAPS

Items == UNION {ToSet(d) : d \in AllRecords}
Reports == {u.report : u \in Upstreams \cup Updates}
BucketBytes == {BucketOf(r, b) : r \in Reports, b \in Buckets}

\* The entry of the manifest for an element of a tool's plan.
ItemEntry(it) == [filename |-> it.filename, hash |-> it.hash, size |-> it.size]
BucketEntry(r, b) == [filename |-> b, hash |-> Sha256(BucketOf(r, b)),
                      size |-> Len(BucketOf(r, b))]
ItemEntries == {ItemEntry(it) : it \in Items}
BucketEntries == {BucketEntry(r, b) : r \in Reports, b \in Buckets}
Entries == ItemEntries \cup BucketEntries

Steps == {"idle", "records", "walk", "take", "open", "fill", "manifest", "report", "deploy"}
RunRecord ==
    [pc : Steps, tool : Tools, data : AllRecords \cup Reports \cup {<<>>},
     next : Items \cup {None}, plan : Seq(Items) \cup Seq(Buckets), pos : Nat,
     bytes : Contents \cup BucketBytes \cup {None}, files : Seq(Entries)]
ClientRecord ==
    [pc : {"idle", "get"}, m : Seq(ItemEntries), pos : Nat, have : Seq(ItemEntries) \cup {None}]
DirRecord ==
    [files : [Names \cup Buckets -> Contents \cup BucketBytes \cup {Absent, Torn}],
     manifest : [Tools -> Seq(Entries) \cup {Absent, Torn}]]

Types ==
    /\ direct \in BOOLEAN /\ upstream \in Upstreams \cup Updates
    /\ changes \in 0 .. MaxChanges /\ faults \in 0 .. MaxFaults
    /\ out \in DirRecord /\ site \in DirRecord
    /\ run \in RunRecord /\ client \in ClientRecord
    /\ client.pos \in 1 .. Len(client.m) + 1
    /\ seen \subseteq Upstreams \cup Updates /\ upstream \in seen
    /\ cut \subseteq Names \cup Buckets

-----------------------------------------------------------------------------
(***************************************************************************)
(* The job.                                                                *)
(***************************************************************************)
AtWork == run.pc \in {"take", "open", "fill", "manifest"}

\* Between the tools nothing of the last one is left.
Fresh == run.pc \in {"idle", "records", "report", "deploy"} => run = [IdleRun EXCEPT !.pc = run.pc]

Walking ==
    run.pc = "walk" =>
        /\ run.tool = "crlite" /\ run.data \in AllRecords /\ run.plan \in Seq(Items)
        /\ run.pos = 1 /\ run.files = <<>>

\* What the tool has written so far is listed, in the order of its plan.
PlanEntry(x) == IF run.tool = "crlite" THEN ItemEntry(x) ELSE BucketEntry(run.data, x)
Working ==
    AtWork =>
        /\ run.tool = "crlite" => run.data \in AllRecords /\ run.plan \in Seq(Items)
        /\ run.tool = "intermediates" =>
             /\ run.data \in Reports /\ run.plan \in Seq(Buckets)
             /\ ToSet(run.plan) = BucketsOf(run.data)
        /\ run.pos \in 1 .. Len(run.plan) + 1
        /\ Len(run.files) = run.pos - 1
        /\ \A k \in 1 .. run.pos - 1 : run.files[k] = PlanEntry(run.plan[k])
        /\ run.pc = "manifest" => run.pos = Len(run.plan) + 1
        /\ run.pc \in {"open", "fill"} =>
             /\ run.pos \in DOMAIN run.plan
             /\ run.tool = "crlite" => run.bytes \in Contents /\ Accepted(run.bytes, run.plan[run.pos])
             /\ run.tool = "intermediates" => run.bytes = BucketOf(run.data, run.plan[run.pos])
JobOK == Fresh /\ Walking /\ Working

\* The plan is the line of descent so far, and `next` what follows it.
Line(d, p) ==
    /\ p \in Seq(ToSet(d)) /\ IsInjective(p)
    /\ p # <<>> => p[1] = Root(d)
    /\ \A i \in 1 .. Len(p) - 1 : p[i + 1].parent = p[i].id
    /\ \A i \in 1 .. Len(p) : p[i] \in Chain[d]
WalkOK ==
    (run.tool = "crlite" /\ (run.pc = "walk" \/ AtWork)) =>
        /\ Line(run.data, run.plan)
        /\ run.next = IF run.plan = <<>> THEN Root(run.data)
                      ELSE ByParent(run.data, run.plan[Len(run.plan)].id)
        /\ AtWork => run.next = None

-----------------------------------------------------------------------------
(***************************************************************************)
(* Where it comes from.                                                    *)
(***************************************************************************)
FromSeen ==
    /\ (run.tool = "crlite" /\ (run.pc = "walk" \/ AtWork)) => \E u \in seen : run.data = u.records
    /\ (run.tool = "intermediates" /\ AtWork) => \E u \in seen : run.data = u.report

ListsFilters(m) == \E u \in seen : Forked(u.records) \/ ToSet(m) = Listing[u.records]
ListsBuckets(m) == \E u \in seen : ToSet(m) = BucketListing(u.report)
Listed ==
    \A d \in {out, site} :
        /\ Whole(d.manifest["crlite"]) =>
             d.manifest["crlite"] \in Seq(ItemEntries) /\ ListsFilters(d.manifest["crlite"])
        /\ Whole(d.manifest["intermediates"]) =>
             d.manifest["intermediates"] \in Seq(BucketEntries) /\ ListsBuckets(d.manifest["intermediates"])

-----------------------------------------------------------------------------
(***************************************************************************)
(* The files.                                                              *)
(***************************************************************************)
\* A filter file holds what its name stands for.
Right(n, c) == \A it \in Items : it.filename = n => Sha256(c) = it.hash
NamesOK ==
    \A d \in {out, site} : \A n \in Names :
        \/ d.files[n] \in {Absent, Torn}
        \/ d.files[n] \in Contents /\ Right(n, d.files[n])

\* What a manifest lists is there, if only truncated; what is truncated is being
\* rewritten, or was when a job died.
There(fs, m) == \A i \in DOMAIN m : fs[m[i].filename] # Absent
Kept ==
    /\ run.tool = "crlite" /\ AtWork => There(out.files, run.files)
    /\ Whole(out.manifest["crlite"]) => There(out.files, out.manifest["crlite"])
    /\ direct => There(out.files, client.m)
    /\ \A n \in Names \cup Buckets : out.files[n] = Torn => Rewritten(n)

\* A job that starts with an empty directory has truncated no file but the one
\* at hand, and its buckets are what its manifest says.
HasBuckets(m) ==
    \A i \in DOMAIN m : \/ Matches(out.files, m[i])
                        \/ run.pc = "fill" /\ m[i].filename = run.plan[run.pos]
CleanJob ==
    (~direct /\ run.pc # "idle") =>
        /\ \A n \in Names \cup Buckets :
             out.files[n] = Torn => run.pc = "fill" /\ Entry.filename = n
        /\ (run.tool = "intermediates" /\ AtWork) => HasBuckets(run.files)
        /\ run.pc # "deploy" => ~Whole(out.manifest["intermediates"])
        /\ run.pc = "deploy" /\ Whole(out.manifest["intermediates"]) =>
             HasBuckets(out.manifest["intermediates"])

SiteOK ==
    \A t \in Tools : Whole(site.manifest[t]) =>
        \A i \in DOMAIN site.manifest[t] : Matches(site.files, site.manifest[t][i])

MirrorInv ==
    /\ Types /\ JobOK /\ WalkOK
    /\ FromSeen /\ Listed
    /\ NamesOK /\ Kept /\ CleanJob /\ SiteOK

-----------------------------------------------------------------------------
(***************************************************************************)
(* Least and greatest elements.                                            *)
(***************************************************************************)
\* The least-number principle, for sets.
LEMMA LeastNat ==
    ASSUME NEW T \in SUBSET Nat, T # {}
    PROVE  \E x \in T : \A y \in T : x <= y
<1> DEFINE R == {ss \in Nat \X Nat : ss[1] < ss[2]}
<1>1. IsWellFoundedOn(R, Nat)
  BY NatLessThanWellFounded DEF OpToRel
<1> HIDE DEF R
<1>2. PICK x \in T : \A y \in T : ~(<<y, x>> \in R)
  BY <1>1, WFMin
<1>3. ASSUME NEW y \in T, y < x PROVE FALSE
  <2>1. <<y, x>> \in Nat \X Nat /\ <<y, x>>[1] < <<y, x>>[2]
    BY <1>3
  <2> QED BY <1>2, <2>1 DEF R
<1> QED BY <1>3

\* The greatest element of a bounded set.
LEMMA GreatestNat ==
    ASSUME NEW n \in Nat, NEW T \in SUBSET (1 .. n), T # {}
    PROVE  \E x \in T : \A y \in T : x >= y
<1> DEFINE D == {n - x : x \in T}
<1>1. D \subseteq Nat /\ D # {}
  <2>1. \A x \in T : n - x \in Nat
    OBVIOUS
  <2>2. PICK x : x \in T
    OBVIOUS
  <2>3. n - x \in D
    BY <2>2
  <2> QED BY <2>1, <2>3
<1>2. PICK z \in D : \A y \in D : z <= y
  <2> HIDE DEF D
  <2> QED BY <1>1, LeastNat
<1>3. PICK x \in T : z = n - x
  BY <1>2
<1>4. \A y \in T : n - y \in D
  OBVIOUS
<1>5. ASSUME NEW y \in T PROVE x >= y
  <2>1. n - x <= n - y
    BY <1>2, <1>3, <1>4
  <2> QED BY <2>1
<1> QED BY <1>5

\* The first position that SelectInSeq finds.
LEMMA MinFacts ==
    ASSUME NEW n \in Nat, NEW T \in SUBSET (1 .. n), T # {}
    PROVE  Min(T) \in T /\ \A y \in T : Min(T) <= y
<1>1. \E x \in T : \A y \in T : x <= y
  BY LeastNat
<1> QED BY <1>1 DEF Min

\* The last position that SelectLastInSeq finds.
LEMMA MaxFacts ==
    ASSUME NEW n \in Nat, NEW T \in SUBSET (1 .. n), T # {}
    PROVE  Max(T) \in T /\ \A y \in T : Max(T) >= y
<1>1. \E x \in T : \A y \in T : x >= y
  BY GreatestNat
<1> QED BY <1>1 DEF Max

-----------------------------------------------------------------------------
(***************************************************************************)
(* The records and the report.                                             *)
(***************************************************************************)
\* An answer of Mozilla is a sequence of items.
LEMMA RecordFacts ==
    ASSUME NEW d \in AllRecords
    PROVE  /\ d \in Seq(ToSet(d)) /\ Len(d) \in Nat /\ DOMAIN d = 1 .. Len(d)
           /\ ToSet(d) \subseteq Items
           /\ \A i \in DOMAIN d : d[i] \in ToSet(d)
<1>1. d \in Seq(ToSet(d))
  BY UpstreamAssumption
<1>2. Len(d) \in Nat /\ DOMAIN d = 1 .. Len(d)
  BY <1>1, LenProperties
<1> QED BY <1>1, <1>2 DEF ToSet, Items

\* An item has its fields, and an id.
LEMMA ItemFacts ==
    ASSUME NEW it \in Items
    PROVE  IsItem(it) /\ it # None
<1>1. PICK d \in AllRecords : it \in ToSet(d)
  BY DEF Items
<1>2. PICK i \in DOMAIN d : it = d[i]
  BY <1>1 DEF ToSet
<1> QED BY <1>2, UpstreamAssumption

\* A name stands for one content, in all records.
LEMMA OneHash ==
    ASSUME NEW x \in Items, NEW y \in Items, x.filename = y.filename
    PROVE  x.hash = y.hash
<1>1. PICK d \in AllRecords : x \in ToSet(d)
  BY DEF Items
<1>2. PICK i \in DOMAIN d : x = d[i]
  BY <1>1 DEF ToSet
<1>3. PICK e \in AllRecords : y \in ToSet(e)
  BY DEF Items
<1>4. PICK k \in DOMAIN e : y = e[k]
  BY <1>3 DEF ToSet
<1> QED BY <1>2, <1>4, ImmutableAttachments

\* The full filter that the walk starts with is the first.
LEMMA RootFacts ==
    ASSUME NEW d \in AllRecords
    PROVE  /\ Root(d) = None <=> \A i \in DOMAIN d : ~IsRoot(d[i])
           /\ Root(d) # None => \E i \in DOMAIN d : /\ Root(d) = d[i] /\ IsRoot(d[i])
                                                    /\ \A k \in 1 .. i - 1 : ~IsRoot(d[k])
<1> DEFINE I == {i \in 1 .. Len(d) : IsRoot(d[i])}
<1>1. Len(d) \in Nat /\ DOMAIN d = 1 .. Len(d)
  BY RecordFacts
<1>2. Root(d) = IF I # {} THEN (IF Min(I) = 0 THEN None ELSE d[Min(I)]) ELSE None
  BY DEF Root, SelectInSeq
<1>3. CASE I = {}
  <2>1. Root(d) = None
    BY <1>2, <1>3
  <2>2. \A i \in DOMAIN d : ~IsRoot(d[i])
    BY <1>1, <1>3
  <2> QED BY <2>1, <2>2
<1>4. CASE I # {}
  <2> DEFINE i == Min(I)
  <2> HIDE DEF I
  <2>0. I \subseteq 1 .. Len(d)
    BY DEF I
  <2>1. i \in I /\ \A y \in I : i <= y
    BY <2>0, <1>1, <1>4, MinFacts
  <2> HIDE DEF i
  <2>2. i \in 1 .. Len(d) /\ IsRoot(d[i])
    BY <2>1 DEF I
  <2>3. Root(d) = d[i]
    BY <1>2, <1>4, <2>2 DEF i
  <2>4. d[i] # None
    BY <2>2, <1>1, UpstreamAssumption
  <2>5. \A k \in 1 .. i - 1 : ~IsRoot(d[k])
    BY <2>1, <2>2, <1>1 DEF I
  <2> QED BY <2>2, <2>3, <2>4, <2>5, <1>1
<1> QED BY <1>3, <1>4

\* The walk goes on to an item with that parent, and ends where there is none.
LEMMA ParentFacts ==
    ASSUME NEW d \in AllRecords, NEW id
    PROVE  /\ ByParent(d, id) = None <=> \A i \in DOMAIN d : d[i].parent # id
           /\ ByParent(d, id) # None =>
                \E i \in DOMAIN d : ByParent(d, id) = d[i] /\ d[i].parent = id
<1> DEFINE I == {i \in 1 .. Len(d) : d[i].parent = id}
<1>1. Len(d) \in Nat /\ DOMAIN d = 1 .. Len(d)
  BY RecordFacts
<1>2. ByParent(d, id) = IF I # {} THEN (IF Max(I) = 0 THEN None ELSE d[Max(I)]) ELSE None
  BY DEF ByParent, SelectLastInSeq
<1>3. CASE I = {}
  <2>1. ByParent(d, id) = None
    BY <1>2, <1>3
  <2>2. \A i \in DOMAIN d : d[i].parent # id
    BY <1>1, <1>3
  <2> QED BY <2>1, <2>2
<1>4. CASE I # {}
  <2> DEFINE i == Max(I)
  <2> HIDE DEF I
  <2>0. I \subseteq 1 .. Len(d)
    BY DEF I
  <2>1. i \in I
    BY <2>0, <1>1, <1>4, MaxFacts
  <2> HIDE DEF i
  <2>2. i \in 1 .. Len(d) /\ d[i].parent = id
    BY <2>1 DEF I
  <2>3. ByParent(d, id) = d[i]
    BY <1>2, <1>4, <2>2 DEF i
  <2>4. d[i] # None
    BY <2>2, <1>1, UpstreamAssumption
  <2> QED BY <2>2, <2>3, <2>4, <1>1
<1> QED BY <1>3, <1>4

\* A bucket has one certificate for each of its rows.
LEMMA BucketFacts ==
    ASSUME NEW r \in Reports, NEW b
    PROVE  Len(BucketOf(r, b)) = Cardinality({i \in DOMAIN r : r[i].bucket = b})
           /\ Len(BucketOf(r, b)) \in Nat
<1> DEFINE rows == {i \in DOMAIN r : r[i].bucket = b}
<1>1. r \in Seq(ToSet(r))
  BY UpstreamAssumption DEF Reports
<1>2. Len(r) \in Nat /\ DOMAIN r = 1 .. Len(r)
  BY <1>1, LenProperties
<1>3. IsFiniteSet(1 .. Len(r))
  BY <1>2, FS_Interval
<1>4. rows \in SUBSET (1 .. Len(r))
  BY <1>2
<1>5. Cardinality(rows) \in Nat
  <2> HIDE DEF rows
  <2> QED BY <1>3, <1>4, FS_Subset, FS_CardinalityType
<1>6. Len(BucketOf(r, b)) = Cardinality(rows)
  BY <1>5 DEF BucketOf
<1> QED BY <1>5, <1>6

\* A report has finitely many buckets.
LEMMA ReportFacts ==
    ASSUME NEW r \in Reports
    PROVE  BucketsOf(r) \subseteq Buckets /\ IsFiniteSet(BucketsOf(r))
<1>1. r \in Seq(ToSet(r)) /\ \A i \in DOMAIN r : IsRow(r[i])
  BY UpstreamAssumption DEF Reports
<1>2. Len(r) \in Nat /\ DOMAIN r = 1 .. Len(r)
  BY <1>1, LenProperties
<1>3. BucketsOf(r) \subseteq Buckets
  BY <1>1 DEF BucketsOf, IsRow
<1> DEFINE f == [i \in 1 .. Len(r) |-> r[i].bucket]
<1>4. f \in Surjection(1 .. Len(r), BucketsOf(r))
  BY <1>2 DEF BucketsOf, Surjection
<1>5. IsFiniteSet(1 .. Len(r))
  BY <1>2, FS_Interval
<1> HIDE DEF f
<1>6. IsFiniteSet(BucketsOf(r))
  BY <1>4, <1>5, FS_Surjection
<1> QED BY <1>3, <1>6

\* Whatever order the HashMap has, every bucket is written, and once.
LEMMA PlanFacts ==
    ASSUME NEW r \in Reports, NEW p \in SetToSeqs(BucketsOf(r))
    PROVE  p \in Seq(Buckets) /\ ToSet(p) = BucketsOf(r)
<1> DEFINE B == BucketsOf(r)
           n == Cardinality(B)
<1>1. B \subseteq Buckets /\ IsFiniteSet(B)
  BY ReportFacts
<1>2. p \in [1 .. n -> B] /\ \A i, j \in 1 .. n : i # j => p[i] # p[j]
  BY DEF SetToSeqs
<1> HIDE DEF B
<1>3. n \in Nat
  BY <1>1, FS_CardinalityType
<1> HIDE DEF n
<1>4. p \in Injection(1 .. n, B)
  BY <1>2 DEF Injection, IsInjective
<1>5. Cardinality(1 .. n) = Cardinality(B)
  BY <1>3, FS_Interval DEF n
<1>6. p \in Surjection(1 .. n, B)
  BY <1>1, <1>4, <1>5, FS_Injection
<1>7. ToSet(p) = B
  BY <1>2, <1>6 DEF Surjection, ToSet
<1>8. p \in Seq(Buckets)
  <2>1. p \in [1 .. n -> Buckets]
    BY <1>1, <1>2
  <2> QED BY <2>1, <1>3, SeqDef
<1> QED BY <1>7, <1>8 DEF B

-----------------------------------------------------------------------------
(***************************************************************************)
(* The types.                                                              *)
(***************************************************************************)
\* The job between two runs.
LEMMA IdleRunType == IdleRun \in RunRecord
BY DEF IdleRun, RunRecord, Steps, Tools

\* The client between two fetches.
LEMMA IdleClientType ==
    ASSUME NEW x \in Seq(ItemEntries) \cup {None}
    PROVE  LET c == [IdleClient EXCEPT !.have = x]
           IN c \in ClientRecord /\ c.pos \in 1 .. Len(c.m) + 1
<1> DEFINE c == [IdleClient EXCEPT !.have = x]
<1>1. c = [pc |-> "idle", m |-> <<>>, pos |-> 1, have |-> x]
  BY DEF IdleClient
<1>2. <<>> \in Seq(ItemEntries) /\ Len(<<>>) = 0
  OBVIOUS
<1>3. c \in ClientRecord
  <2> DEFINE S == Seq(ItemEntries)
  <2>1. \A y \in S, z \in S \cup {None} :
          [pc |-> "idle", m |-> y, pos |-> 1, have |-> z]
            \in [pc : {"idle", "get"}, m : S, pos : Nat, have : S \cup {None}]
    <3> HIDE DEF S
    <3> QED OBVIOUS
  <2>2. [pc |-> "idle", m |-> <<>>, pos |-> 1, have |-> x] \in ClientRecord
    BY <1>2, <2>1, Zenon DEF ClientRecord
  <2> QED BY <1>1, <2>2, Zenon
<1>4. c.pos = 1 /\ c.m = <<>>
  BY <1>1
<1> HIDE DEF c
<1>5. c.pos \in 1 .. Len(c.m) + 1
  BY <1>2, <1>4
<1> QED BY <1>3, <1>5 DEF c

\* A directory as a job finds it.
LEMMA NoFilesType == NoFiles \in DirRecord
BY DEF NoFiles, DirRecord

\* A filter's entry is named for its attachment.
LEMMA ItemEntryFacts ==
    ASSUME NEW it \in Items
    PROVE  /\ ItemEntry(it) \in ItemEntries /\ ItemEntry(it) \in Entries
           /\ ItemEntry(it).filename = it.filename /\ it.filename \in Names
           /\ ItemEntry(it).hash = it.hash
<1>1. IsItem(it)
  BY ItemFacts
<1> QED BY <1>1 DEF ItemEntries, Entries, ItemEntry, IsItem

\* A bucket's entry has the hash of the bytes that are written.
LEMMA BucketEntryFacts ==
    ASSUME NEW r \in Reports, NEW b \in Buckets
    PROVE  /\ BucketEntry(r, b) \in BucketEntries /\ BucketEntry(r, b) \in Entries
           /\ BucketEntry(r, b).filename = b
           /\ BucketEntry(r, b).hash = Sha256(BucketOf(r, b))
           /\ BucketOf(r, b) \in BucketBytes
BY DEF BucketEntries, Entries, BucketEntry, BucketBytes

\* An entry of a manifest has the three fields.
LEMMA EntryFields ==
    ASSUME NEW e \in Entries
    PROVE  DOMAIN e = {"filename", "hash", "size"}
BY DEF Entries, ItemEntries, BucketEntries, ItemEntry, BucketEntry

\* The entry at hand is the one of the plan.
LEMMA AtHand ==
    ASSUME Types, JobOK, run.pc \in {"open", "fill"}
    PROVE  /\ run.pos \in 1 .. Len(run.plan) /\ Len(run.plan) \in Nat
           /\ DOMAIN run.plan = 1 .. Len(run.plan)
           /\ Entry \in Entries /\ Entry = PlanEntry(run.plan[run.pos])
           /\ run.tool = "crlite" =>
                /\ run.data \in AllRecords /\ run.plan[run.pos] \in Items
                /\ Entry = ItemEntry(run.plan[run.pos])
                /\ Entry.filename = run.plan[run.pos].filename /\ Entry.filename \in Names
                /\ run.bytes \in Contents /\ Sha256(run.bytes) = run.plan[run.pos].hash
           /\ run.tool = "intermediates" =>
                /\ run.data \in Reports /\ run.plan[run.pos] \in Buckets
                /\ Entry = BucketEntry(run.data, run.plan[run.pos])
                /\ Entry.filename = run.plan[run.pos]
                /\ run.bytes = BucketOf(run.data, run.plan[run.pos]) /\ run.bytes \in BucketBytes
           /\ run.tool \in Tools
<1>1. AtWork /\ Working
  BY DEF AtWork, JobOK
<1>2. run.tool \in Tools
  BY DEF Types, RunRecord
<1>3. run.pos \in DOMAIN run.plan
  BY <1>1 DEF Working
<1>4. CASE run.tool = "crlite"
  <2>1. run.data \in AllRecords /\ run.plan \in Seq(Items) /\ run.bytes \in Contents
          /\ Accepted(run.bytes, run.plan[run.pos])
    BY <1>1, <1>4 DEF Working
  <2>2. Len(run.plan) \in Nat /\ DOMAIN run.plan = 1 .. Len(run.plan)
    BY <2>1, LenProperties
  <2>3. run.plan[run.pos] \in Items
    BY <2>1, <2>2, <1>3, ElementOfSeq
  <2>4. Entry = ItemEntry(run.plan[run.pos]) /\ Entry = PlanEntry(run.plan[run.pos])
    BY <1>4 DEF Entry, ItemEntry, PlanEntry
  <2> QED BY <2>1, <2>2, <2>3, <2>4, <1>3, <1>4, ItemEntryFacts DEF Accepted, Tools
<1>5. CASE run.tool = "intermediates"
  <2>1. run.data \in Reports /\ run.plan \in Seq(Buckets)
          /\ run.bytes = BucketOf(run.data, run.plan[run.pos])
    BY <1>1, <1>5 DEF Working
  <2>2. Len(run.plan) \in Nat /\ DOMAIN run.plan = 1 .. Len(run.plan)
    BY <2>1, LenProperties
  <2>3. run.plan[run.pos] \in Buckets
    BY <2>1, <2>2, <1>3, ElementOfSeq
  <2>4. /\ Entry = BucketEntry(run.data, run.plan[run.pos])
        /\ Entry = PlanEntry(run.plan[run.pos])
    BY <2>1, <1>5 DEF Entry, BucketEntry, PlanEntry
  <2> QED BY <2>1, <2>2, <2>3, <2>4, <1>3, <1>5, BucketEntryFacts DEF Tools
<1> QED BY <1>2, <1>4, <1>5 DEF Tools

\* At first everything is empty.
LEMMA TypesInit == Init => Types
<1> SUFFICES ASSUME Init PROVE Types
  OBVIOUS
<1>1. out \in DirRecord /\ site \in DirRecord /\ run \in RunRecord
  BY IdleRunType, NoFilesType DEF Init
<1>2. client \in ClientRecord /\ client.pos \in 1 .. Len(client.m) + 1
  BY DEF Init, IdleClient, ClientRecord
<1>3. changes \in 0 .. MaxChanges /\ faults \in 0 .. MaxFaults
  BY UpstreamAssumption DEF Init
<1>4. direct \in BOOLEAN
  BY DEF Init
<1>5. /\ upstream \in Upstreams \cup Updates /\ seen \subseteq Upstreams \cup Updates
      /\ upstream \in seen /\ cut \subseteq Names \cup Buckets
  BY DEF Init
<1> QED BY <1>1, <1>2, <1>3, <1>4, <1>5 DEF Types

\* The steps of the job that change nothing but its own state.
LEMMA RunType ==
    ASSUME Types, run' \in RunRecord, out' \in DirRecord, site' \in DirRecord,
           faults' \in 0 .. MaxFaults, cut' \subseteq Names \cup Buckets,
           UNCHANGED <<direct, upstream, changes, client, seen>>
    PROVE  Types'
BY DEF Types

\* Every step keeps the types.
LEMMA TypesNext == Types /\ JobOK /\ Listed /\ [Next]_vars => Types'
<1> SUFFICES ASSUME Types, JobOK, Listed, [Next]_vars PROVE Types'
  OBVIOUS
<1>0. /\ run \in RunRecord /\ out \in DirRecord /\ site \in DirRecord
      /\ faults \in 0 .. MaxFaults /\ cut \subseteq Names \cup Buckets
      /\ upstream \in Upstreams \cup Updates
  BY DEF Types
<1>a. run \in RunRecord
  BY <1>0
<1>b. out \in DirRecord
  BY <1>0
<1>1. CASE Change
  <2>1. changes' \in 0 .. MaxChanges
    BY <1>1, UpstreamAssumption DEF Types, Change
  <2>2. /\ upstream' \in Upstreams \cup Updates /\ upstream' \in seen'
        /\ seen' \subseteq Upstreams \cup Updates
    BY <1>1 DEF Types, Change
  <2>3. UNCHANGED <<direct, out, site, run, client, faults, cut>>
    BY <1>1 DEF Change
  <2> QED BY <2>1, <2>2, <2>3 DEF Types
<1>2. CASE StartJob
  <2>1. run' \in RunRecord
    BY <1>2, IdleRunType DEF StartJob, RunRecord, Steps
  <2>2. out' \in DirRecord
    BY <1>2, <1>0, NoFilesType DEF StartJob
  <2> QED BY <2>1, <2>2, <1>0, <1>2, RunType DEF StartJob
<1>3. CASE GetRecords
  <2>1. upstream.records \in AllRecords
    BY <1>0 DEF AllRecords
  <2>2. Root(upstream.records) \in Items \cup {None}
    BY <2>1, RootFacts, RecordFacts
  <2>3. run' \in RunRecord
    BY <1>3, <1>a, <2>1, <2>2 DEF GetRecords, RunRecord, Steps
  <2> QED BY <2>3, <1>0, <1>3, RunType DEF GetRecords
<1>4. CASE Walk
  <2>1. run.data \in AllRecords /\ run.plan \in Seq(Items)
    BY <1>4 DEF Walk, JobOK, Walking
  <2>2. CASE run.next = None
    <3>1. run' \in RunRecord
      BY <1>4, <1>a, <2>2 DEF Walk, RunRecord, Steps
    <3> QED BY <3>1, <1>0, <1>4, RunType DEF Walk
  <2>3. CASE run.next # None
    <3>1. run.next \in Items
      BY <1>a, <2>3 DEF RunRecord
    <3>2. Append(run.plan, run.next) \in Seq(Items)
      BY <2>1, <3>1, AppendProperties
    <3>3. ByParent(run.data, run.next.id) \in Items \cup {None}
      BY <2>1, ParentFacts, RecordFacts
    <3>4. run' = [run EXCEPT !.plan = Append(run.plan, run.next),
                             !.next = ByParent(run.data, run.next.id)]
      BY <1>4, <2>3 DEF Walk
    <3>5. run' \in RunRecord
      BY <3>2, <3>3, <3>4, <1>a DEF RunRecord
    <3> QED BY <3>5, <1>0, <1>4, RunType DEF Walk
  <2> QED BY <2>2, <2>3
<1>5. CASE Download
  <2>1. PICK c \in Contents :
          LET it == run.plan[run.pos]
          IN /\ faults' = faults + (IF Sha256(c) = it.hash THEN 0 ELSE 1)
             /\ faults' <= MaxFaults
             /\ run' = IF Accepted(c, it)
                       THEN [run EXCEPT !.pc = "open", !.bytes = c] ELSE Rejected
    BY <1>5 DEF Download
  <2>2. faults' \in 0 .. MaxFaults
    BY <2>1, <1>0, UpstreamAssumption
  <2>3. run' \in RunRecord
    <3>1. [run EXCEPT !.pc = "open", !.bytes = c] \in RunRecord
      BY <1>a DEF RunRecord, Steps
    <3> QED BY <3>1, <2>1, IdleRunType DEF Rejected, Failed
  <2> QED BY <2>2, <2>3, <1>0, <1>5, RunType DEF Download
<1>6. CASE GetReport
  <2>1. upstream.report \in Reports
    BY <1>0 DEF Reports
  <2>2. CASE run' = Failed
    BY <2>2, <1>0, <1>6, RunType, IdleRunType DEF GetReport, Failed
  <2>3. CASE run' # Failed
    <3>1. PICK p \in SetToSeqs(BucketsOf(upstream.report)) :
            run' = [IdleRun EXCEPT !.pc = "take", !.tool = "intermediates",
                                   !.data = upstream.report, !.plan = p]
      BY <1>6, <2>3 DEF GetReport
    <3>2. p \in Seq(Buckets)
      BY <2>1, PlanFacts
    <3>3. run' \in RunRecord
      BY <2>1, <3>1, <3>2, IdleRunType DEF RunRecord, Steps, Tools
    <3> QED BY <3>3, <1>0, <1>6, RunType DEF GetReport
  <2> QED BY <2>2, <2>3
<1>7. CASE FillBucket
  <2>1. run.data \in Reports /\ run.plan \in Seq(Buckets) /\ run.pos \in DOMAIN run.plan
    BY <1>7 DEF FillBucket, JobOK, Working, AtWork
  <2>2. run.plan[run.pos] \in Buckets
    BY <2>1, LenProperties, ElementOfSeq
  <2>3. BucketOf(run.data, run.plan[run.pos]) \in BucketBytes
    BY <2>1, <2>2 DEF BucketBytes
  <2>4. run' \in RunRecord
    BY <2>3, <1>7, <1>a DEF FillBucket, RunRecord, Steps
  <2> QED BY <2>4, <1>0, <1>7, RunType DEF FillBucket
<1>8. CASE OpenFile
  <2>1. run' \in RunRecord
    BY <1>8, <1>a DEF OpenFile, RunRecord, Steps
  <2>2. out' \in DirRecord
    BY <1>8, <1>b DEF OpenFile, DirRecord
  <2> QED BY <2>1, <2>2, <1>0, <1>8, RunType DEF OpenFile
<1>9. CASE WriteFile
  <2>1. /\ Entry \in Entries /\ run.bytes \in Contents \cup BucketBytes
    BY <1>9, AtHand DEF WriteFile, Tools
  <2>2. Append(run.files, Entry) \in Seq(Entries)
    <3>1. run.files \in Seq(Entries)
      BY <1>a DEF RunRecord
    <3> QED BY <2>1, <3>1, AppendProperties
  <2>3. run' \in RunRecord
    <3>1. run' = [run EXCEPT !.pc = "take", !.pos = run.pos + 1, !.bytes = None,
                             !.files = Append(run.files, Entry)]
      BY <1>9 DEF WriteFile
    <3>2. run.pos + 1 \in Nat
      BY <1>a DEF RunRecord
    <3> QED BY <2>2, <3>1, <3>2, <1>a DEF RunRecord, Steps
  <2>4. out' \in DirRecord
    BY <2>1, <1>9, <1>b DEF WriteFile, DirRecord
  <2>5. cut' \subseteq Names \cup Buckets
    BY <1>0, <1>9 DEF WriteFile
  <2> QED BY <2>3, <2>4, <2>5, <1>0, <1>9, RunType DEF WriteFile
<1>10. CASE OpenManifest
  <2>1. run' \in RunRecord
    BY <1>10, <1>a DEF OpenManifest, RunRecord, Steps
  <2>2. out' \in DirRecord
    BY <1>10, <1>b DEF OpenManifest, DirRecord
  <2> QED BY <2>1, <2>2, <1>0, <1>10, RunType DEF OpenManifest
<1>11. CASE WriteManifest
  <2>1. run' \in RunRecord
    BY <1>11, IdleRunType DEF WriteManifest, RunRecord, Steps
  <2>2. out' \in DirRecord
    <3>1. run.files \in Seq(Entries)
      BY <1>a DEF RunRecord
    <3> QED BY <3>1, <1>11, <1>b DEF WriteManifest, DirRecord
  <2> QED BY <2>1, <2>2, <1>0, <1>11, RunType DEF WriteManifest
<1>12. CASE Deploy
  <2>1. site' \in DirRecord
    BY <1>0, <1>12 DEF Deploy
  <2> QED BY <2>1, <1>0, <1>12, RunType, IdleRunType DEF Deploy
<1>13. CASE Abort
  <2>1. faults' \in 0 .. MaxFaults
    BY <1>0, <1>13, UpstreamAssumption DEF Abort
  <2>2. cut' \subseteq Names \cup Buckets
    <3>1. CASE run.pc = "fill"
      <4>1. Entry.filename \in Names \cup Buckets
        BY <3>1, AtHand DEF Tools
      <4> QED BY <4>1, <1>0, <1>13 DEF Abort
    <3>2. CASE run.pc # "fill"
      BY <3>2, <1>0, <1>13 DEF Abort
    <3> QED BY <3>1, <3>2
  <2> QED BY <2>1, <2>2, <1>0, <1>13, RunType, IdleRunType DEF Abort, Failed
<1>14. CASE ClientStep
  <2>0. client \in ClientRecord /\ client.pos \in 1 .. Len(client.m) + 1
    BY DEF Types
  <2>1. UNCHANGED <<direct, upstream, changes, out, site, run, faults, seen, cut>>
    BY <1>14 DEF ClientStep, ClientManifest, ClientFile, ClientDone
  <2>2. client.m \in Seq(ItemEntries) /\ Len(client.m) \in Nat /\ DOMAIN client.m = 1 .. Len(client.m)
    <3>1. client.m \in Seq(ItemEntries)
      BY <2>0 DEF ClientRecord
    <3> QED BY <3>1, LenProperties
  <2>3. client' \in ClientRecord /\ client'.pos \in 1 .. Len(client'.m) + 1
    <3>1. CASE ClientManifest
      <4> DEFINE m == web.manifest["crlite"]
      <4>1. m \in Seq(ItemEntries)
        BY <3>1 DEF ClientManifest, web, Listed
      <4>2. client' = [client EXCEPT !.pc = "get", !.m = m, !.pos = 1]
        BY <3>1 DEF ClientManifest
      <4> HIDE DEF m
      <4>3. client' \in ClientRecord /\ client'.m = m /\ client'.pos = 1
        BY <2>0, <4>1, <4>2 DEF ClientRecord
      <4>4. Len(m) \in Nat
        BY <4>1, LenProperties
      <4> QED BY <4>3, <4>4
    <3>2. CASE ClientFile
      <4>1. CASE client' = [client EXCEPT !.pos = client.pos + 1]
        <5>1. client'.pos = client.pos + 1 /\ client'.m = client.m
          BY <4>1, <2>0 DEF ClientRecord
        <5>2. client.pos + 1 \in 1 .. Len(client.m) + 1
          BY <3>2, <2>2 DEF ClientFile
        <5>3. client.pos + 1 \in Nat
          BY <5>2, <2>2
        <5>4. client' \in ClientRecord
          BY <4>1, <5>3, <2>0 DEF ClientRecord
        <5> QED BY <5>1, <5>2, <5>4
      <4>2. CASE client' = [IdleClient EXCEPT !.have = client.have]
        <5>1. client.have \in Seq(ItemEntries) \cup {None}
          BY <2>0 DEF ClientRecord
        <5> QED BY <4>2, <5>1, IdleClientType
      <4> QED BY <4>1, <4>2, <3>2 DEF ClientFile
    <3>3. CASE ClientDone
      <4>1. client' = [IdleClient EXCEPT !.have = client.m]
        BY <3>3 DEF ClientDone
      <4> QED BY <4>1, <2>2, IdleClientType
    <3> QED BY <3>1, <3>2, <3>3, <1>14 DEF ClientStep
  <2> QED BY <2>1, <2>3 DEF Types
<1>15. CASE UNCHANGED vars
  BY <1>15 DEF Types, vars
<1> QED
  BY <1>1, <1>2, <1>3, <1>4, <1>5, <1>6, <1>7, <1>8, <1>9, <1>10, <1>11, <1>12, <1>13,
     <1>14, <1>15 DEF Next, JobStep

-----------------------------------------------------------------------------
(***************************************************************************)
(* The job by itself.                                                      *)
(***************************************************************************)
\* Between the tools only the step of the job is set.
LEMMA FreshFields ==
    ASSUME NEW p
    PROVE  LET r == [IdleRun EXCEPT !.pc = p]
           IN /\ r.pc = p /\ r.tool = "crlite" /\ r.data = <<>> /\ r.next = None
              /\ r.plan = <<>> /\ r.pos = 1 /\ r.bytes = None /\ r.files = <<>>
BY DEF IdleRun

\* A run that is between the tools has nothing to say about them.
LEMMA FreshRun ==
    ASSUME NEW p \in {"idle", "records", "report", "deploy"}, run' = [IdleRun EXCEPT !.pc = p]
    PROVE  JobOK' /\ WalkOK' /\ run'.pc = p /\ run'.tool = "crlite" /\ ~AtWork'
<1>1. run'.pc = p /\ run'.tool = "crlite"
  BY FreshFields
<1>2. p # "walk" /\ ~AtWork'
  BY <1>1 DEF AtWork
<1> QED BY <1>1, <1>2 DEF JobOK, Fresh, Walking, Working, WalkOK

\* A job that failed or finished is fresh.
LEMMA IdleIsFresh == IdleRun = [IdleRun EXCEPT !.pc = "idle"]
BY DEF IdleRun

\* Where the job goes in one step, if not back to a fresh state.
LEMMA JobGoes ==
    ASSUME Types, JobOK, Next
    PROVE  \/ run' = run
           \/ \E p \in {"idle", "records", "report", "deploy"} : run' = [IdleRun EXCEPT !.pc = p]
           \/ GetRecords \/ Walk \/ GetReport \/ FillBucket \/ OpenFile \/ WriteFile
           \/ OpenManifest
           \/ Download /\ \E c \in Contents :
                /\ Accepted(c, run.plan[run.pos])
                /\ run' = [run EXCEPT !.pc = "open", !.bytes = c]
<1>1. CASE Change
  BY <1>1 DEF Change
<1>2. CASE StartJob
  BY <1>2 DEF StartJob
<1>3. CASE Download
  <2>1. PICK c \in Contents :
          run' = IF Accepted(c, run.plan[run.pos])
                 THEN [run EXCEPT !.pc = "open", !.bytes = c] ELSE Rejected
    BY <1>3 DEF Download
  <2>2. CASE Accepted(c, run.plan[run.pos])
    BY <1>3, <2>1, <2>2
  <2>3. CASE ~Accepted(c, run.plan[run.pos])
    BY <2>1, <2>3, IdleIsFresh DEF Rejected, Failed
  <2> QED BY <2>2, <2>3
<1>4. CASE WriteManifest
  BY <1>4 DEF WriteManifest
<1>5. CASE Deploy
  BY <1>5, IdleIsFresh DEF Deploy
<1>6. CASE Abort
  BY <1>6, IdleIsFresh DEF Abort, Failed
<1>7. CASE ClientStep
  BY <1>7 DEF ClientStep, ClientManifest, ClientFile, ClientDone
<1> QED BY <1>1, <1>2, <1>3, <1>4, <1>5, <1>6, <1>7 DEF Next, JobStep

\* No job is at work at first.
LEMMA JobInit == Init => JobOK /\ WalkOK
<1> SUFFICES ASSUME Init PROVE JobOK /\ WalkOK
  OBVIOUS
<1>1. run = IdleRun /\ run.pc = "idle" /\ ~AtWork
  BY DEF Init, IdleRun, AtWork
<1> QED BY <1>1, IdleIsFresh DEF JobOK, Fresh, Walking, Working, WalkOK

\* The job's own state: every file that it writes is listed, in the order of the plan.
LEMMA JobNext == Types /\ JobOK /\ [Next]_vars => JobOK'
<1> SUFFICES ASSUME Types, JobOK, [Next]_vars PROVE JobOK'
  OBVIOUS
<1>0. run \in RunRecord
  BY DEF Types
<1>1. CASE run' = run
  BY <1>1 DEF JobOK, Fresh, Walking, Working, AtWork, PlanEntry
<1>2. CASE \E p \in {"idle", "records", "report", "deploy"} : run' = [IdleRun EXCEPT !.pc = p]
  BY <1>2, FreshRun
<1>3. CASE GetRecords
  <2>1. run = [IdleRun EXCEPT !.pc = "records"]
    BY <1>3 DEF GetRecords, JobOK, Fresh
  <2>2. /\ run'.pc = "walk" /\ run'.tool = run.tool /\ run'.data = upstream.records
        /\ run'.plan = run.plan /\ run'.pos = run.pos /\ run'.files = run.files
    BY <1>0, <1>3 DEF GetRecords, RunRecord
  <2>3. run.tool = "crlite" /\ run.plan = <<>> /\ run.pos = 1 /\ run.files = <<>>
    BY <2>1, FreshFields
  <2>4. upstream.records \in AllRecords
    BY DEF Types, AllRecords
  <2>5. Walking'
    BY <2>2, <2>3, <2>4 DEF Walking
  <2>6. ~AtWork' /\ run'.pc \notin {"idle", "records", "report", "deploy"}
    BY <2>2 DEF AtWork
  <2> QED BY <2>5, <2>6 DEF JobOK, Fresh, Working
<1>4. CASE Walk
  <2>1. /\ run.tool = "crlite" /\ run.data \in AllRecords /\ run.plan \in Seq(Items)
        /\ run.pos = 1 /\ run.files = <<>> /\ run.pc = "walk"
    BY <1>4 DEF Walk, JobOK, Walking
  <2>2. CASE run.next = None
    <3>1. /\ run'.pc = "take" /\ run'.tool = run.tool /\ run'.data = run.data
          /\ run'.plan = run.plan /\ run'.pos = run.pos /\ run'.files = run.files
      BY <1>0, <1>4, <2>2 DEF Walk, RunRecord
    <3>2. AtWork' /\ run'.pc \notin {"idle", "records", "walk", "report", "deploy", "open", "fill", "manifest"}
      BY <3>1 DEF AtWork
    <3>3. Len(run.plan) \in Nat /\ Len(<<>>) = 0
      BY <2>1, LenProperties
    <3>4. Working'
      BY <2>1, <3>1, <3>2, <3>3 DEF Working
    <3> QED BY <3>2, <3>4 DEF JobOK, Fresh, Walking
  <2>3. CASE run.next # None
    <3>1. /\ run'.pc = run.pc /\ run'.tool = run.tool /\ run'.data = run.data
          /\ run'.plan = Append(run.plan, run.next) /\ run'.pos = run.pos
          /\ run'.files = run.files
      BY <1>0, <1>4, <2>3 DEF Walk, RunRecord
    <3>2. run.next \in Items
      BY <1>0, <2>3 DEF RunRecord
    <3>3. Append(run.plan, run.next) \in Seq(Items)
      BY <2>1, <3>2, AppendProperties
    <3>4. Walking' /\ ~AtWork'
      BY <2>1, <3>1, <3>3 DEF Walking, AtWork
    <3> QED BY <2>1, <3>1, <3>4 DEF JobOK, Fresh, Working
  <2> QED BY <2>2, <2>3
<1>5. CASE Download /\ \E c \in Contents :
             /\ Accepted(c, run.plan[run.pos])
             /\ run' = [run EXCEPT !.pc = "open", !.bytes = c]
  <2>1. PICK c \in Contents : /\ Accepted(c, run.plan[run.pos])
                              /\ run' = [run EXCEPT !.pc = "open", !.bytes = c]
    BY <1>5
  <2>2. /\ run'.pc = "open" /\ run'.tool = run.tool /\ run'.data = run.data
        /\ run'.plan = run.plan /\ run'.pos = run.pos /\ run'.files = run.files
        /\ run'.bytes = c
    BY <1>0, <2>1 DEF RunRecord
  <2>3. run.tool = "crlite" /\ AtWork /\ Working /\ run.pos \in DOMAIN run.plan
    BY <1>5 DEF Download, AtWork, JobOK
  <2>4. \A x : PlanEntry(x)' = PlanEntry(x)
    BY <2>2 DEF PlanEntry
  <2>5. Working'
    BY <2>1, <2>2, <2>3, <2>4 DEF Working
  <2> QED BY <2>2, <2>5 DEF JobOK, Fresh, Walking
<1>6. CASE GetReport
  <2>1. upstream.report \in Reports
    BY DEF Types, Reports
  <2>2. CASE run' = Failed
    BY <2>2, FreshRun, IdleIsFresh DEF Failed
  <2>3. CASE run' # Failed
    <3>1. PICK p \in SetToSeqs(BucketsOf(upstream.report)) :
            run' = [IdleRun EXCEPT !.pc = "take", !.tool = "intermediates",
                                   !.data = upstream.report, !.plan = p]
      BY <1>6, <2>3 DEF GetReport
    <3>2. p \in Seq(Buckets) /\ ToSet(p) = BucketsOf(upstream.report)
      BY <2>1, PlanFacts
    <3>3. /\ run'.pc = "take" /\ run'.tool = "intermediates" /\ run'.data = upstream.report
          /\ run'.plan = p /\ run'.pos = 1 /\ run'.files = <<>>
      BY <3>1 DEF IdleRun
    <3>4. Len(p) \in Nat /\ Len(<<>>) = 0
      BY <3>2, LenProperties
    <3>5. Working'
      BY <2>1, <3>2, <3>3, <3>4 DEF Working
    <3> QED BY <3>3, <3>5 DEF JobOK, Fresh, Walking
  <2> QED BY <2>2, <2>3
<1>7. CASE FillBucket
  <2>1. /\ run'.pc = "open" /\ run'.tool = run.tool /\ run'.data = run.data
        /\ run'.plan = run.plan /\ run'.pos = run.pos /\ run'.files = run.files
        /\ run'.bytes = BucketOf(run.data, run.plan[run.pos])
    BY <1>0, <1>7 DEF FillBucket, RunRecord
  <2>2. run.tool = "intermediates" /\ AtWork /\ Working /\ run.pos \in DOMAIN run.plan
    BY <1>7 DEF FillBucket, AtWork, JobOK
  <2>3. \A x : PlanEntry(x)' = PlanEntry(x)
    BY <2>1 DEF PlanEntry
  <2>4. Working'
    BY <2>1, <2>2, <2>3 DEF Working
  <2> QED BY <2>1, <2>4 DEF JobOK, Fresh, Walking
<1>8. CASE OpenFile
  <2>1. /\ run'.pc = "fill" /\ run'.tool = run.tool /\ run'.data = run.data
        /\ run'.plan = run.plan /\ run'.pos = run.pos /\ run'.files = run.files
        /\ run'.bytes = run.bytes
    BY <1>0, <1>8 DEF OpenFile, RunRecord
  <2>2. AtWork /\ Working /\ run.pc = "open"
    BY <1>8 DEF OpenFile, AtWork, JobOK
  <2>3. \A x : PlanEntry(x)' = PlanEntry(x)
    BY <2>1 DEF PlanEntry
  <2>4. Working'
    BY <2>1, <2>2, <2>3 DEF Working
  <2> QED BY <2>1, <2>4 DEF JobOK, Fresh, Walking
<1>9. CASE WriteFile
  <2>1. /\ run'.pc = "take" /\ run'.tool = run.tool /\ run'.data = run.data
        /\ run'.plan = run.plan /\ run'.pos = run.pos + 1
        /\ run'.files = Append(run.files, Entry)
    BY <1>0, <1>9 DEF WriteFile, RunRecord
  <2>2. AtWork /\ Working /\ run.pc = "fill"
    BY <1>9 DEF WriteFile, AtWork, JobOK
  <2>3. \A x : PlanEntry(x)' = PlanEntry(x)
    BY <2>1 DEF PlanEntry
  <2>4. /\ run.pos \in 1 .. Len(run.plan) /\ Len(run.plan) \in Nat
        /\ Entry \in Entries /\ Entry = PlanEntry(run.plan[run.pos])
    BY <2>2, AtHand
  <2>5. run.files \in Seq(Entries)
    BY <1>0 DEF RunRecord
  <2>6. /\ Len(run.files) = run.pos - 1
        /\ \A k \in 1 .. run.pos - 1 : run.files[k] = PlanEntry(run.plan[k])
    BY <2>2 DEF Working
  <2>7. /\ Len(run'.files) = run'.pos - 1
        /\ \A k \in 1 .. run'.pos - 1 : (run.files[k] = PlanEntry(run.plan[k]))'
    <3>1. /\ Len(Append(run.files, Entry)) = run.pos
          /\ \A k \in 1 .. run.pos - 1 : Append(run.files, Entry)[k] = run.files[k]
          /\ Append(run.files, Entry)[run.pos] = Entry
      BY <2>4, <2>5, <2>6, AppendProperties
    <3>2. ASSUME NEW k \in 1 .. run.pos PROVE run'.files[k] = PlanEntry(run.plan[k])
      <4>1. CASE k = run.pos
        BY <4>1, <3>1, <2>1, <2>4
      <4>2. CASE k # run.pos
        <5>1. k \in 1 .. run.pos - 1
          BY <4>2, <2>4
        <5> QED BY <5>1, <3>1, <2>1, <2>6
      <4> QED BY <4>1, <4>2
    <3>3. ASSUME NEW k \in 1 .. run.pos PROVE (run.files[k] = PlanEntry(run.plan[k]))'
      BY <3>2, <2>1 DEF PlanEntry
    <3>4. run'.pos - 1 = run.pos
      BY <2>1, <2>4
    <3> QED BY <3>1, <3>3, <3>4, <2>1
  <2>8. run'.pos \in 1 .. Len(run'.plan) + 1
    BY <2>1, <2>4
  <2>9. /\ run.tool = "crlite" => run.data \in AllRecords /\ run.plan \in Seq(Items)
        /\ run.tool = "intermediates" =>
             /\ run.data \in Reports /\ run.plan \in Seq(Buckets)
             /\ ToSet(run.plan) = BucketsOf(run.data)
    BY <2>2 DEF Working
  <2>10. Working'
    BY <2>1, <2>7, <2>8, <2>9 DEF Working
  <2> QED BY <2>1, <2>10 DEF JobOK, Fresh, Walking
<1>10. CASE OpenManifest
  <2>1. /\ run'.pc = "manifest" /\ run'.tool = run.tool /\ run'.data = run.data
        /\ run'.plan = run.plan /\ run'.pos = run.pos /\ run'.files = run.files
    BY <1>0, <1>10 DEF OpenManifest, RunRecord
  <2>2. AtWork /\ Working /\ run.pos \notin DOMAIN run.plan
    BY <1>10 DEF OpenManifest, AtWork, JobOK
  <2>3. \A x : PlanEntry(x)' = PlanEntry(x)
    BY <2>1 DEF PlanEntry
  <2>4. run.pos = Len(run.plan) + 1
    <3>1. run.plan \in Seq(Items) \/ run.plan \in Seq(Buckets)
      BY <1>0 DEF RunRecord
    <3>2. Len(run.plan) \in Nat /\ DOMAIN run.plan = 1 .. Len(run.plan)
      BY <3>1, LenProperties
    <3>3. run.pos \in 1 .. Len(run.plan) + 1
      BY <2>2 DEF Working
    <3> QED BY <3>2, <3>3, <2>2
  <2>5. Working'
    BY <2>1, <2>2, <2>3, <2>4 DEF Working
  <2> QED BY <2>1, <2>5 DEF JobOK, Fresh, Walking
<1>11. CASE UNCHANGED vars
  BY <1>1, <1>11 DEF vars
<1> QED
  BY <1>1, <1>2, <1>3, <1>4, <1>5, <1>6, <1>7, <1>8, <1>9, <1>10, <1>11, JobGoes

-----------------------------------------------------------------------------
(***************************************************************************)
(* The walk.                                                               *)
(***************************************************************************)
\* The item that the walk goes on to descends from the root.
LEMMA ChainFacts ==
    ASSUME NEW d \in AllRecords
    PROVE  /\ Root(d) # None => Root(d) \in Chain[d] /\ Root(d) \in ToSet(d) /\ IsRoot(Root(d))
           /\ \A x \in Chain[d], y \in ToSet(d) : y.parent = x.id => y \in Chain[d]
           /\ Chain[d] \subseteq ToSet(d)
<1> DEFINE First(i) == IsRoot(d[i]) /\ \A k \in 1 .. i - 1 : ~IsRoot(d[k])
<1>1. Chain[d] = {it \in ToSet(d) : \E i \in DOMAIN d : First(i) /\ Descends(d, d[i], it)}
  BY DEF Chain
<1>2. ASSUME Root(d) # None
      PROVE  Root(d) \in Chain[d] /\ Root(d) \in ToSet(d) /\ IsRoot(Root(d))
  <2>1. PICK i \in DOMAIN d : Root(d) = d[i] /\ First(i)
    BY <1>2, RootFacts
  <2>2. Descends(d, d[i], d[i])
    BY DEF Descends
  <2>3. d[i] \in ToSet(d)
    BY RecordFacts
  <2> HIDE DEF First
  <2>4. d[i] \in Chain[d]
    BY <1>1, <2>1, <2>2, <2>3
  <2> QED BY <2>1, <2>3, <2>4 DEF First
<1>3. ASSUME NEW x \in Chain[d], NEW y \in ToSet(d), y.parent = x.id
      PROVE  y \in Chain[d]
  <2> HIDE DEF First
  <2>1. PICK i \in DOMAIN d : First(i) /\ Descends(d, d[i], x)
    BY <1>1
  <2>2. x \in ToSet(d)
    BY <1>1
  <2>3. Descends(d, d[i], y)
    BY <2>1, <1>3 DEF Descends
  <2> QED BY <1>1, <2>1, <2>3
<1> QED BY <1>1, <1>2, <1>3

\* Ids tell the items of an answer apart.
LEMMA OneId ==
    ASSUME NEW d \in AllRecords, NEW x \in ToSet(d), NEW y \in ToSet(d), x.id = y.id
    PROVE  x = y
<1>1. PICK i \in DOMAIN d : x = d[i]
  BY DEF ToSet
<1>2. PICK k \in DOMAIN d : y = d[k]
  BY DEF ToSet
<1> QED BY <1>1, <1>2, UniqueIds

\* The line grows by an item that was not in it, since each item has one parent
\* and the root has none: the walk ends, whatever the records are.
LEMMA LineGrows ==
    ASSUME NEW d \in AllRecords, NEW p, Line(d, p), NEW x, x # None,
           x = IF p = <<>> THEN Root(d) ELSE ByParent(d, p[Len(p)].id)
    PROVE  Line(d, Append(p, x)) /\ Len(Append(p, x)) = Len(p) + 1
           /\ Append(p, x)[Len(p) + 1] = x
<1> DEFINE n == Len(p)
           q == Append(p, x)
<1>1. p \in Seq(ToSet(d))
  BY DEF Line
<1>2. n \in Nat /\ DOMAIN p = 1 .. n /\ (p = <<>> <=> n = 0)
  BY <1>1, LenProperties, EmptySeq
<1>3. \A i \in 1 .. n : p[i] \in ToSet(d)
  BY <1>1, <1>2, ElementOfSeq
<1>4. x \in ToSet(d) /\ x \in Chain[d] /\ (n > 0 => x.parent = p[n].id)
  <2>1. CASE p = <<>>
    BY <2>1, <1>2, ChainFacts
  <2>2. CASE p # <<>>
    <3>1. n \in 1 .. n
      BY <2>2, <1>2
    <3>2. PICK i \in DOMAIN d : x = d[i] /\ d[i].parent = p[n].id
      BY <2>2, ParentFacts
    <3>3. x \in ToSet(d) /\ x.parent = p[n].id
      BY <3>2, RecordFacts
    <3>4. p[n] \in Chain[d]
      BY <3>1 DEF Line
    <3> QED BY <3>3, <3>4, ChainFacts
  <2> QED BY <2>1, <2>2
<1>5. q \in Seq(ToSet(d)) /\ Len(q) = n + 1 /\ q[n + 1] = x /\ \A i \in 1 .. n : q[i] = p[i]
  BY <1>1, <1>2, <1>4, AppendProperties
<1>6. ASSUME NEW j \in 1 .. n, p[j] = x PROVE FALSE
  <2>1. n > 0 /\ n \in 1 .. n /\ p # <<>>
    BY <1>2
  <2>2. x.parent = p[n].id
    BY <2>1, <1>4
  <2>3. CASE j = 1
    <3>1. x = Root(d) /\ IsRoot(x)
      BY <1>6, <2>1, <2>3, ChainFacts DEF Line
    <3>2. p[n].id = None
      BY <3>1, <2>2 DEF IsRoot
    <3>3. p[n] \in Items
      BY <2>1, <1>3, RecordFacts
    <3> QED BY <3>2, <3>3, ItemFacts DEF IsItem
  <2>4. CASE j # 1
    <3>1. j - 1 \in 1 .. n - 1 /\ j - 1 \in 1 .. n /\ (j - 1) + 1 = j
      BY <2>4, <1>2
    <3>2. p[j].parent = p[j - 1].id
      BY <3>1 DEF Line
    <3>3. p[j - 1] = p[n]
      BY <3>1, <3>2, <2>1, <2>2, <1>3, <1>6, OneId
    <3>4. j - 1 = n
      BY <3>1, <3>3, <2>1, <1>2 DEF Line, IsInjective
    <3> QED BY <3>1, <3>4, <1>2
  <2> QED BY <2>3, <2>4
<1> HIDE DEF q
<1>7. DOMAIN q = 1 .. n + 1
  <2>1. DOMAIN q = 1 .. Len(q)
    BY <1>5, LenProperties
  <2> QED BY <2>1, <1>5
<1>8. IsInjective(q)
  <2> SUFFICES ASSUME NEW a \in 1 .. n + 1, NEW b \in 1 .. n + 1, q[a] = q[b] PROVE a = b
    BY <1>7 DEF IsInjective
  <2>1. CASE a \in 1 .. n /\ b \in 1 .. n
    BY <2>1, <1>2, <1>5 DEF Line, IsInjective
  <2>2. CASE a \in 1 .. n /\ b = n + 1
    BY <2>2, <1>5, <1>6
  <2>3. CASE a = n + 1 /\ b \in 1 .. n
    BY <2>3, <1>5, <1>6
  <2> QED BY <2>1, <2>2, <2>3, <1>2
<1>9. q[1] = Root(d)
  <2>1. CASE n = 0
    BY <2>1, <1>2, <1>5
  <2>2. CASE n # 0
    BY <2>2, <1>2, <1>5 DEF Line
  <2> QED BY <2>1, <2>2
<1>10. ASSUME NEW i \in 1 .. (n + 1) - 1 PROVE q[i + 1].parent = q[i].id
  <2>1. CASE i = n
    BY <2>1, <1>2, <1>4, <1>5
  <2>2. CASE i # n
    <3>1. i \in 1 .. n - 1 /\ i + 1 \in 1 .. n
      <4>1. n \in Nat
        BY <1>2
      <4> HIDE DEF n
      <4> QED BY <4>1, <2>2
    <3> QED BY <3>1, <1>2, <1>5 DEF Line
  <2> QED BY <2>1, <2>2
<1>11. ASSUME NEW i \in 1 .. n + 1 PROVE q[i] \in Chain[d]
  <2>1. CASE i = n + 1
    BY <2>1, <1>4, <1>5
  <2>2. CASE i # n + 1
    <3>1. i \in 1 .. n
      BY <2>2, <1>2
    <3> QED BY <3>1, <1>5 DEF Line
  <2> QED BY <2>1, <2>2
<1>12. Line(d, q)
  BY <1>5, <1>8, <1>9, <1>10, <1>11 DEF Line
<1> QED BY <1>5, <1>12 DEF q

\* The empty plan is a line.
LEMMA LineStarts ==
    ASSUME NEW d \in AllRecords
    PROVE  Line(d, <<>>)
<1>1. <<>> \in Seq(ToSet(d)) /\ Len(<<>>) = 0 /\ IsInjective(<<>>)
  BY DEF IsInjective
<1> QED BY <1>1 DEF Line

\* The plan stays a line of descent.
LEMMA WalkNext == Types /\ JobOK /\ WalkOK /\ [Next]_vars => WalkOK'
<1> SUFFICES ASSUME Types, JobOK, WalkOK, [Next]_vars PROVE WalkOK'
  OBVIOUS
<1>0. run \in RunRecord
  BY DEF Types
<1>1. CASE run' = run
  BY <1>1 DEF WalkOK, AtWork
<1>2. CASE \E p \in {"idle", "records", "report", "deploy"} : run' = [IdleRun EXCEPT !.pc = p]
  BY <1>2, FreshRun
<1>3. CASE GetRecords
  <2>1. run = [IdleRun EXCEPT !.pc = "records"]
    BY <1>3 DEF GetRecords, JobOK, Fresh
  <2>2. run.plan = <<>>
    BY <2>1, FreshFields
  <2>3. /\ run'.pc = "walk" /\ run'.data = upstream.records
        /\ run'.plan = run.plan /\ run'.next = Root(upstream.records)
    BY <1>0, <1>3 DEF GetRecords, RunRecord
  <2>4. upstream.records \in AllRecords
    BY DEF Types, AllRecords
  <2>5. Line(run'.data, run'.plan)
    BY <2>2, <2>3, <2>4, LineStarts
  <2> QED BY <2>2, <2>3, <2>5 DEF WalkOK, AtWork
<1>4. CASE Walk
  <2>1. run.tool = "crlite" /\ run.data \in AllRecords /\ run.pc = "walk"
    BY <1>4 DEF Walk, JobOK, Walking
  <2>a. run.plan \in Seq(Items)
    BY <1>4 DEF Walk, JobOK, Walking
  <2>2. /\ Line(run.data, run.plan)
        /\ run.next = IF run.plan = <<>> THEN Root(run.data)
                      ELSE ByParent(run.data, run.plan[Len(run.plan)].id)
    BY <2>1 DEF WalkOK
  <2>3. CASE run.next = None
    <3>1. /\ run'.data = run.data /\ run'.plan = run.plan /\ run'.next = run.next
      BY <1>0, <1>4, <2>3 DEF Walk, RunRecord
    <3> QED BY <2>2, <2>3, <3>1 DEF WalkOK
  <2>4. CASE run.next # None
    <3> DEFINE q == Append(run.plan, run.next)
    <3>1. /\ run'.data = run.data /\ run'.plan = q /\ run'.pc = run.pc
          /\ run'.next = ByParent(run.data, run.next.id)
      BY <1>0, <1>4, <2>4 DEF Walk, RunRecord
    <3>2. Line(run.data, q) /\ Len(q) = Len(run.plan) + 1 /\ q[Len(run.plan) + 1] = run.next
      BY <2>1, <2>2, <2>4, LineGrows
    <3>3. Len(run.plan) \in Nat
      BY <2>a, LenProperties
    <3> HIDE DEF q
    <3>4. q # <<>>
      BY <3>2, <3>3
    <3>5. q[Len(q)] = run.next
      BY <3>2
    <3> QED BY <2>1, <3>1, <3>2, <3>4, <3>5 DEF WalkOK, AtWork
  <2> QED BY <2>3, <2>4
<1>5. CASE FillBucket
  <2>1. run'.tool = run.tool /\ run.tool = "intermediates"
    BY <1>0, <1>5 DEF FillBucket, RunRecord
  <2> QED BY <2>1 DEF WalkOK
<1>6. CASE GetReport
  <2>1. CASE run' = Failed
    BY <2>1, FreshRun, IdleIsFresh DEF Failed
  <2>2. CASE run' # Failed
    <3>1. PICK p \in SetToSeqs(BucketsOf(upstream.report)) :
            run' = [IdleRun EXCEPT !.pc = "take", !.tool = "intermediates",
                                   !.data = upstream.report, !.plan = p]
      BY <1>6, <2>2 DEF GetReport
    <3>2. run'.tool = "intermediates"
      BY <3>1 DEF IdleRun
    <3> QED BY <3>2 DEF WalkOK
  <2> QED BY <2>1, <2>2
<1>7. ASSUME run'.tool = run.tool, run'.data = run.data, run'.plan = run.plan,
             run'.next = run.next, AtWork, AtWork'
      PROVE  WalkOK'
  BY <1>7 DEF WalkOK
<1>8. CASE Download /\ \E c \in Contents :
             /\ Accepted(c, run.plan[run.pos])
             /\ run' = [run EXCEPT !.pc = "open", !.bytes = c]
  <2>1. PICK c \in Contents : run' = [run EXCEPT !.pc = "open", !.bytes = c]
    BY <1>8
  <2>2. /\ run'.tool = run.tool /\ run'.data = run.data /\ run'.plan = run.plan
        /\ run'.next = run.next /\ run'.pc = "open"
    BY <1>0, <2>1 DEF RunRecord
  <2> QED BY <1>7, <1>8, <2>2 DEF Download, AtWork
<1>9. CASE OpenFile \/ WriteFile \/ OpenManifest
  <2>1. /\ run'.tool = run.tool /\ run'.data = run.data /\ run'.plan = run.plan
        /\ run'.next = run.next /\ run'.pc \in {"fill", "take", "manifest"}
    BY <1>0, <1>9 DEF OpenFile, WriteFile, OpenManifest, RunRecord
  <2>2. AtWork
    BY <1>9 DEF OpenFile, WriteFile, OpenManifest, AtWork
  <2> QED BY <1>7, <2>1, <2>2 DEF AtWork
<1>10. CASE UNCHANGED vars
  BY <1>1, <1>10 DEF vars
<1> QED
  BY <1>1, <1>2, <1>3, <1>4, <1>5, <1>6, <1>8, <1>9, <1>10, JobGoes

\* Without a fork the line that cannot go on is all that descends from the root.
LEMMA LineIsChain ==
    ASSUME NEW d \in AllRecords, NEW p, Line(d, p), ~Forked(d),
           (IF p = <<>> THEN Root(d) ELSE ByParent(d, p[Len(p)].id)) = None
    PROVE  ToSet(p) = Chain[d]
<1> DEFINE n == Len(p)
           S == ToSet(p)
<1>1. p \in Seq(ToSet(d))
  BY DEF Line
<1>2. n \in Nat /\ DOMAIN p = 1 .. n /\ (p = <<>> <=> n = 0)
  BY <1>1, LenProperties, EmptySeq
<1>3. \A i \in 1 .. n : p[i] \in ToSet(d)
  BY <1>1, <1>2, ElementOfSeq
<1>4. S = {p[i] : i \in 1 .. n}
  BY <1>2 DEF ToSet
<1>5. S \subseteq Chain[d]
  BY <1>4 DEF Line
<1>6. S \in SUBSET ToSet(d)
  BY <1>3, <1>4
<1>7. ASSUME NEW x \in S, NEW y \in ToSet(d), y.parent = x.id
      PROVE  y \in S
  <2>1. PICK j \in 1 .. n : x = p[j]
    BY <1>4
  <2>2. PICK k \in DOMAIN d : y = d[k]
    BY DEF ToSet
  <2>3. p # <<>>
    BY <1>2, <2>1
  <2>4. CASE j = n
    BY <2>1, <2>2, <2>3, <2>4, <1>7, ParentFacts
  <2>5. CASE j # n
    <3>0. n \in Nat
      BY <1>2
    <3>1. j \in 1 .. n - 1 /\ j + 1 \in 1 .. n
      <4> HIDE DEF n
      <4> QED BY <3>0, <2>5
    <3>2. p[j + 1].parent = p[j].id
      BY <3>1 DEF Line
    <3>3. PICK l \in DOMAIN d : p[j + 1] = d[l]
      BY <3>1, <1>3 DEF ToSet
    <3>4. p[j] \in Items
      BY <1>3, RecordFacts
    <3>5. p[j].id # None
      BY <3>4, ItemFacts DEF IsItem
    <3>6. l = k
      BY <3>2, <3>3, <3>5, <2>1, <2>2, <1>7 DEF Forked
    <3> QED BY <3>1, <3>3, <3>6, <2>2, <1>4
  <2> QED BY <2>4, <2>5
<1>8. ASSUME NEW it \in Chain[d] PROVE it \in S
  <2>1. PICK i \in DOMAIN d : /\ IsRoot(d[i]) /\ Descends(d, d[i], it)
                              /\ \A k \in 1 .. i - 1 : ~IsRoot(d[k])
    BY DEF Chain
  <2>2. Root(d) # None
    BY <2>1, RootFacts
  <2>3. PICK j \in DOMAIN d : /\ Root(d) = d[j] /\ IsRoot(d[j])
                              /\ \A k \in 1 .. j - 1 : ~IsRoot(d[k])
    BY <2>2, RootFacts
  <2>4. DOMAIN d = 1 .. Len(d) /\ Len(d) \in Nat
    BY RecordFacts
  <2>5. i = j
    <3>1. i \notin 1 .. j - 1 /\ j \notin 1 .. i - 1
      BY <2>1, <2>3
    <3> QED BY <3>1, <2>4
  <2>6. p # <<>>
    BY <2>2
  <2>7. p[1] = d[i] /\ 1 \in 1 .. n
    BY <2>3, <2>5, <2>6, <1>2 DEF Line
  <2>8. d[i] \in S
    BY <2>7, <1>4
  <2> HIDE DEF S
  <2> QED BY <2>1, <2>8, <1>6, <1>7 DEF Descends
<1> QED BY <1>5, <1>8

\* The walk of a tool at work is sound.
LEMMA WalkIsDone ==
    ASSUME Types, JobOK, WalkOK
    PROVE  WalkSound
<1> SUFFICES ASSUME run.tool = "crlite", AtWork PROVE WalkSound
  BY DEF WalkSound, AtWork
<1> DEFINE d == run.data
           p == run.plan
<1>1. d \in AllRecords
  BY DEF JobOK, Working
<1>2. Line(d, p) /\ (IF p = <<>> THEN Root(d) ELSE ByParent(d, p[Len(p)].id)) = None
  BY DEF WalkOK
<1> HIDE DEF d, p
<1>3. p = <<>> <=> \A i \in DOMAIN d : ~IsRoot(d[i])
  <2>1. CASE p = <<>>
    BY <2>1, <1>1, <1>2, RootFacts
  <2>2. CASE p # <<>>
    <3>1. p \in Seq(ToSet(d))
      BY <1>2 DEF Line
    <3>2. Len(p) \in Nat /\ Len(p) # 0
      BY <2>2, <3>1, LenProperties, EmptySeq
    <3>3. p[1] = Root(d) /\ p[1] \in ToSet(d)
      BY <2>2, <3>1, <3>2, <1>2, ElementOfSeq DEF Line
    <3>4. p[1] # None
      BY <3>3, <1>1, RecordFacts, ItemFacts
    <3> QED BY <2>2, <3>3, <3>4, <1>1, RootFacts
  <2> QED BY <2>1, <2>2
<1>4. ASSUME p # <<>>
      PROVE  /\ IsRoot(p[1])
             /\ \A i \in 1 .. Len(p) - 1 : p[i + 1].parent = p[i].id
             /\ \A i \in DOMAIN d : d[i].parent # p[Len(p)].id
  <2>1. Root(d) # None
    BY <1>1, <1>3, <1>4, RootFacts
  <2>2. IsRoot(p[1])
    BY <2>1, <1>1, <1>2, <1>4, ChainFacts DEF Line
  <2>3. \A i \in DOMAIN d : d[i].parent # p[Len(p)].id
    BY <1>1, <1>2, <1>4, ParentFacts
  <2> QED BY <2>2, <2>3, <1>2 DEF Line
<1>5. ~Forked(d) => ToSet(p) = Chain[d]
  BY <1>1, <1>2, LineIsChain
<1>6. IsInjective(p)
  BY <1>2 DEF Line
<1> QED BY <1>3, <1>4, <1>5, <1>6 DEF WalkSound, d, p

-----------------------------------------------------------------------------
(***************************************************************************)
(* Where it comes from.                                                    *)
(***************************************************************************)
\* A tool works on what upstream has answered, even after upstream has changed.
LEMMA SeenNext == Types /\ JobOK /\ FromSeen /\ [Next]_vars => FromSeen'
<1> SUFFICES ASSUME Types, JobOK, FromSeen, [Next]_vars PROVE FromSeen'
  OBVIOUS
<1>0. run \in RunRecord /\ upstream \in seen
  BY DEF Types
<1>1. seen \subseteq seen'
  BY DEF Next, JobStep, ClientStep, Change, StartJob, GetRecords, Walk, Download, GetReport,
     FillBucket, OpenFile, WriteFile, OpenManifest, WriteManifest, Deploy, Abort,
     ClientManifest, ClientFile, ClientDone, vars
<1>2. ASSUME run'.tool = run.tool, run'.data = run.data,
             run.pc = "walk" \/ AtWork, run.tool = "intermediates" => AtWork
      PROVE  FromSeen'
  BY <1>1, <1>2 DEF FromSeen
<1>3. CASE run' = run
  BY <1>1, <1>3 DEF FromSeen, AtWork
<1>4. CASE \E p \in {"idle", "records", "report", "deploy"} : run' = [IdleRun EXCEPT !.pc = p]
  <2>1. PICK p \in {"idle", "records", "report", "deploy"} : run' = [IdleRun EXCEPT !.pc = p]
    BY <1>4
  <2>2. run'.pc = p /\ ~AtWork'
    BY <2>1, FreshRun
  <2> QED BY <2>2 DEF FromSeen
<1>5. CASE GetRecords
  <2>1. run = [IdleRun EXCEPT !.pc = "records"]
    BY <1>5 DEF GetRecords, JobOK, Fresh
  <2>2. run.tool = "crlite"
    BY <2>1, FreshFields
  <2>3. run'.tool = run.tool /\ run'.data = upstream.records
    BY <1>0, <1>5 DEF GetRecords, RunRecord
  <2> QED BY <2>2, <2>3, <1>0, <1>1 DEF FromSeen
<1>6. CASE Walk
  <2>1. run.tool = "crlite" /\ run.pc = "walk"
    BY <1>6 DEF Walk, JobOK, Walking
  <2>2. run'.tool = run.tool /\ run'.data = run.data
    BY <1>0, <1>6 DEF Walk, RunRecord
  <2> QED BY <2>1, <2>2, <1>2
<1>7. CASE GetReport
  <2>1. CASE run' = Failed
    BY <2>1, <1>4, IdleIsFresh DEF Failed
  <2>2. CASE run' # Failed
    <3>1. PICK p \in SetToSeqs(BucketsOf(upstream.report)) :
            run' = [IdleRun EXCEPT !.pc = "take", !.tool = "intermediates",
                                   !.data = upstream.report, !.plan = p]
      BY <1>7, <2>2 DEF GetReport
    <3>2. run'.tool = "intermediates" /\ run'.data = upstream.report
      BY <3>1 DEF IdleRun
    <3> QED BY <3>2, <1>0, <1>1 DEF FromSeen
  <2> QED BY <2>1, <2>2
<1>8. CASE Download /\ \E c \in Contents :
             /\ Accepted(c, run.plan[run.pos])
             /\ run' = [run EXCEPT !.pc = "open", !.bytes = c]
  <2>1. run'.tool = run.tool /\ run'.data = run.data
    BY <1>0, <1>8 DEF RunRecord
  <2> QED BY <2>1, <1>2, <1>8 DEF Download, AtWork
<1>9. CASE FillBucket \/ OpenFile \/ WriteFile \/ OpenManifest
  <2>1. run'.tool = run.tool /\ run'.data = run.data
    BY <1>0, <1>9 DEF FillBucket, OpenFile, WriteFile, OpenManifest, RunRecord
  <2> QED BY <2>1, <1>2, <1>9 DEF FillBucket, OpenFile, WriteFile, OpenManifest, AtWork
<1>10. CASE UNCHANGED vars
  BY <1>3, <1>10 DEF vars
<1> QED
  BY <1>3, <1>4, <1>5, <1>6, <1>7, <1>8, <1>9, <1>10, JobGoes

\* What a tool has listed when it writes its manifest is a whole answer.
LEMMA WholeAnswer ==
    ASSUME Types, JobOK, WalkOK, FromSeen, run.pc = "manifest"
    PROVE  /\ run.tool = "crlite" => run.files \in Seq(ItemEntries) /\ ListsFilters(run.files)
           /\ run.tool = "intermediates" =>
                run.files \in Seq(BucketEntries) /\ ListsBuckets(run.files)
<1> DEFINE n == Len(run.plan)
           f == run.files
<1>1. AtWork /\ run.pos = n + 1 /\ Len(f) = run.pos - 1
        /\ \A k \in 1 .. run.pos - 1 : f[k] = PlanEntry(run.plan[k])
  BY DEF AtWork, JobOK, Working
<1>2. f \in Seq(Entries)
  BY DEF Types, RunRecord
<1>3. n \in Nat
  <2>1. run.plan \in Seq(Items) \/ run.plan \in Seq(Buckets)
    BY DEF Types, RunRecord
  <2> QED BY <2>1, LenProperties
<1>4. Len(f) = n /\ DOMAIN f = 1 .. n /\ \A k \in 1 .. n : f[k] = PlanEntry(run.plan[k])
  <2>1. Len(f) = n /\ run.pos - 1 = n
    <3> HIDE DEF n
    <3> QED BY <1>1, <1>3
  <2>2. DOMAIN f = 1 .. Len(f)
    BY <1>2, LenProperties
  <2> QED BY <1>1, <2>1, <2>2
<1> HIDE DEF f
<1>5. ASSUME run.tool = "crlite"
      PROVE  f \in Seq(ItemEntries) /\ ListsFilters(f)
  <2>1. run.data \in AllRecords /\ run.plan \in Seq(Items)
    BY <1>1, <1>5 DEF JobOK, Working
  <2>2. \A k \in 1 .. n : run.plan[k] \in Items
    BY <2>1, ElementOfSeq
  <2>3. \A k \in 1 .. n : f[k] = ItemEntry(run.plan[k]) /\ f[k] \in ItemEntries
    BY <1>4, <1>5, <2>2, ItemEntryFacts DEF PlanEntry
  <2>4. f \in Seq(ItemEntries)
    BY <1>2, <1>3, <1>4, <2>3, SeqDef, ElementOfSeq, LenProperties
  <2>5. PICK u \in seen : run.data = u.records
    BY <1>1, <1>5 DEF FromSeen
  <2>6. ASSUME ~Forked(run.data) PROVE ToSet(f) = Listing[run.data]
    <3>1. ToSet(run.plan) = Chain[run.data]
      BY <1>1, <1>5, <2>6, WalkIsDone DEF WalkSound, AtWork
    <3>2. DOMAIN run.plan = 1 .. n
      BY <2>1, LenProperties
    <3>3. ToSet(run.plan) = {run.plan[k] : k \in 1 .. n}
      BY <3>2 DEF ToSet
    <3>4. ToSet(f) = {ItemEntry(run.plan[k]) : k \in 1 .. n}
      BY <1>4, <2>3 DEF ToSet
    <3>5. Listing[run.data] = {ItemEntry(it) : it \in Chain[run.data]}
      BY <2>1 DEF Listing, ItemEntry
    <3>6. \A x : x \in ToSet(f) <=> \E k \in 1 .. n : x = ItemEntry(run.plan[k])
      BY <3>4
    <3>7. \A x : x \in Listing[run.data] <=> \E it \in Chain[run.data] : x = ItemEntry(it)
      BY <3>5
    <3>8. \A it : it \in Chain[run.data] <=> \E k \in 1 .. n : it = run.plan[k]
      BY <3>1, <3>3
    <3>9. \A x : x \in ToSet(f) <=> x \in Listing[run.data]
      BY <3>6, <3>7, <3>8
    <3> QED BY <3>9
  <2> QED BY <2>4, <2>5, <2>6 DEF ListsFilters
<1>6. ASSUME run.tool = "intermediates"
      PROVE  f \in Seq(BucketEntries) /\ ListsBuckets(f)
  <2>1. run.data \in Reports /\ run.plan \in Seq(Buckets) /\ ToSet(run.plan) = BucketsOf(run.data)
    BY <1>1, <1>6 DEF JobOK, Working
  <2>2. \A k \in 1 .. n : run.plan[k] \in Buckets
    BY <2>1, ElementOfSeq
  <2>3. \A k \in 1 .. n : /\ f[k] = BucketEntry(run.data, run.plan[k])
                          /\ f[k] \in BucketEntries
    BY <1>4, <1>6, <2>1, <2>2, BucketEntryFacts DEF PlanEntry
  <2>4. f \in Seq(BucketEntries)
    BY <1>2, <1>3, <1>4, <2>3, SeqDef, ElementOfSeq, LenProperties
  <2>5. PICK u \in seen : run.data = u.report
    BY <1>1, <1>6 DEF FromSeen
  <2>6. ToSet(f) = BucketListing(run.data)
    <3>2. DOMAIN run.plan = 1 .. n
      BY <2>1, LenProperties
    <3>3. ToSet(run.plan) = {run.plan[k] : k \in 1 .. n}
      BY <3>2 DEF ToSet
    <3>4. ToSet(f) = {BucketEntry(run.data, run.plan[k]) : k \in 1 .. n}
      BY <1>4, <2>3 DEF ToSet
    <3>5. \A b : BucketEntry(run.data, b)
                   = [filename |-> b, hash |-> Sha256(BucketOf(run.data, b)),
                      size |-> Cardinality({i \in DOMAIN run.data : run.data[i].bucket = b})]
      BY <2>1, BucketFacts DEF BucketEntry
    <3>6. BucketListing(run.data) = {BucketEntry(run.data, b) : b \in BucketsOf(run.data)}
      BY <3>5 DEF BucketListing
    <3> QED BY <2>1, <3>3, <3>4, <3>6
  <2> QED BY <2>4, <2>5, <2>6 DEF ListsBuckets
<1> QED BY <1>5, <1>6 DEF f

-----------------------------------------------------------------------------
(***************************************************************************)
(* What the steps do to the directories.                                   *)
(***************************************************************************)
\* No file that was written looks like one that is absent or truncated.
LEMMA RealBytes ==
    ASSUME NEW c \in Contents \cup BucketBytes
    PROVE  c # Absent /\ c # Torn
<1>1. CASE c \in Contents
  BY <1>1, MarkerAssumption
<1>2. CASE c \in BucketBytes
  <2>1. PICK r \in Reports, b \in Buckets : c = BucketOf(r, b)
    BY <1>2 DEF BucketBytes
  <2>2. PICK u \in Upstreams \cup Updates : r = u.report
    BY <2>1 DEF Reports
  <2> QED BY <2>1, <2>2, MarkerAssumption
<1> QED BY <1>1, <1>2

\* Only four steps and the start of a job touch the output directory, and only
\* a deployment touches the site.
LEMMA DirSteps ==
    ASSUME [Next]_vars
    PROVE  /\ \/ out' = out
              \/ StartJob /\ ~direct /\ out' = NoFiles
              \/ OpenFile \/ WriteFile \/ OpenManifest \/ WriteManifest
           /\ site' = site \/ (Deploy /\ ~direct /\ site' = out /\ out' = out)
           /\ seen \subseteq seen' /\ direct' = direct
<1>1. CASE StartJob
  BY <1>1 DEF StartJob
<1>2. CASE Deploy
  BY <1>2 DEF Deploy
<1>3. CASE OpenFile \/ WriteFile \/ OpenManifest \/ WriteManifest
  BY <1>3 DEF OpenFile, WriteFile, OpenManifest, WriteManifest
<1>4. CASE Change \/ GetRecords \/ Walk \/ Download \/ GetReport \/ FillBucket \/ Abort
  BY <1>4 DEF Change, GetRecords, Walk, Download, GetReport, FillBucket, Abort
<1>5. CASE ClientStep
  BY <1>5 DEF ClientStep, ClientManifest, ClientFile, ClientDone
<1>6. CASE UNCHANGED vars
  BY <1>6 DEF vars
<1> QED BY <1>1, <1>2, <1>3, <1>4, <1>5, <1>6 DEF Next, JobStep

\* A file is opened: it is truncated, and every other one stays.
LEMMA Opens ==
    ASSUME Types, JobOK, OpenFile
    PROVE  /\ Entry.filename \in Names \cup Buckets /\ out'.manifest = out.manifest
           /\ out'.files[Entry.filename] = Torn
           /\ \A n \in Names \cup Buckets : n # Entry.filename => out'.files[n] = out.files[n]
           /\ run'.pc = "fill" /\ run.pc = "open" /\ run'.tool = run.tool
           /\ run'.data = run.data /\ run'.plan = run.plan /\ run'.pos = run.pos
           /\ run'.files = run.files
           /\ (Entry.filename)' = Entry.filename
<1>1. run.pc = "open" /\ run \in RunRecord /\ out \in DirRecord
  BY DEF OpenFile, Types
<1>2. Entry.filename \in Names \cup Buckets
  BY <1>1, AtHand DEF Tools
<1>3. /\ run'.pc = "fill" /\ run'.tool = run.tool
      /\ run'.data = run.data /\ run'.plan = run.plan /\ run'.pos = run.pos
      /\ run'.files = run.files
  BY <1>1 DEF OpenFile, RunRecord
<1>4. (Entry.filename)' = Entry.filename
  BY <1>3 DEF Entry
<1>5. out'.files = [out.files EXCEPT ![Entry.filename] = Torn] /\ out'.manifest = out.manifest
  BY <1>1 DEF OpenFile, DirRecord
<1>6. out.files \in [Names \cup Buckets -> Contents \cup BucketBytes \cup {Absent, Torn}]
  BY <1>1 DEF DirRecord
<1>7. DOMAIN out.files = Names \cup Buckets
  BY <1>6
<1> QED BY <1>1, <1>2, <1>3, <1>4, <1>5, <1>7

\* A file is written: it has the bytes at hand, and every other one stays.
LEMMA Writes ==
    ASSUME Types, JobOK, WriteFile
    PROVE  /\ Entry.filename \in Names \cup Buckets /\ out'.manifest = out.manifest
           /\ out'.files[Entry.filename] = run.bytes
           /\ run.bytes # Absent /\ run.bytes # Torn
           /\ \A n \in Names \cup Buckets : n # Entry.filename => out'.files[n] = out.files[n]
           /\ run'.pc = "take" /\ run.pc = "fill" /\ run'.tool = run.tool
           /\ run'.data = run.data /\ run'.plan = run.plan
           /\ run'.files = Append(run.files, Entry) /\ run.files \in Seq(Entries)
           /\ Entry \in Entries
<1>1. run.pc = "fill" /\ run \in RunRecord /\ out \in DirRecord
  BY DEF WriteFile, Types
<1>2. /\ Entry.filename \in Names \cup Buckets /\ Entry \in Entries
      /\ run.bytes \in Contents \cup BucketBytes
  BY <1>1, AtHand DEF Tools
<1>3. /\ run'.pc = "take" /\ run'.tool = run.tool
      /\ run'.data = run.data /\ run'.plan = run.plan
      /\ run'.files = Append(run.files, Entry)
  BY <1>1 DEF WriteFile, RunRecord
<1>4. run.files \in Seq(Entries)
  BY <1>1 DEF RunRecord
<1>5. out'.files = [out.files EXCEPT ![Entry.filename] = run.bytes] /\ out'.manifest = out.manifest
  BY <1>1 DEF WriteFile, DirRecord
<1>6. out.files \in [Names \cup Buckets -> Contents \cup BucketBytes \cup {Absent, Torn}]
  BY <1>1 DEF DirRecord
<1>7. DOMAIN out.files = Names \cup Buckets
  BY <1>6
<1> QED BY <1>1, <1>2, <1>3, <1>4, <1>5, <1>7, RealBytes

\* A manifest is opened, or written; the files and the other manifest stay.
LEMMA Manifests ==
    ASSUME Types, OpenManifest \/ WriteManifest
    PROVE  /\ run.tool \in Tools /\ out'.files = out.files
           /\ OpenManifest => out'.manifest[run.tool] = Torn
           /\ WriteManifest => out'.manifest[run.tool] = run.files
           /\ \A t \in Tools : t # run.tool => out'.manifest[t] = out.manifest[t]
<1>1. out \in DirRecord /\ run.tool \in Tools
  BY DEF Types, RunRecord
<1>2. /\ out'.files = out.files
      /\ OpenManifest => out'.manifest = [out.manifest EXCEPT ![run.tool] = Torn]
      /\ WriteManifest => out'.manifest = [out.manifest EXCEPT ![run.tool] = run.files]
  BY <1>1 DEF OpenManifest, WriteManifest, DirRecord
<1>3. out.manifest \in [Tools -> Seq(Entries) \cup {Absent, Torn}]
  BY <1>1 DEF DirRecord
<1>4. DOMAIN out.manifest = Tools
  BY <1>3
<1> QED BY <1>1, <1>2, <1>4

\* An empty directory.
LEMMA Empty ==
    /\ \A n \in Names \cup Buckets : NoFiles.files[n] = Absent
    /\ \A t \in Tools : NoFiles.manifest[t] = Absent
BY DEF NoFiles

-----------------------------------------------------------------------------
(***************************************************************************)
(* Every manifest, wherever it is, lists a whole answer.                   *)
(***************************************************************************)
\* A manifest is written when all of its plan is, and copied with its site.
LEMMA ListedNext ==
    Types /\ JobOK /\ WalkOK /\ FromSeen /\ Listed /\ [Next]_vars => Listed'
<1> SUFFICES ASSUME Types, JobOK, WalkOK, FromSeen, Listed, [Next]_vars PROVE Listed'
  OBVIOUS
<1> DEFINE Filters(m) == m \in Seq(ItemEntries) /\ ListsFilters(m)
           Bucketed(m) == m \in Seq(BucketEntries) /\ ListsBuckets(m)
           Filters1(m) == /\ m \in Seq(ItemEntries)
                          /\ \E u \in seen' : Forked(u.records) \/ ToSet(m) = Listing[u.records]
           Bucketed1(m) == /\ m \in Seq(BucketEntries)
                           /\ \E u \in seen' : ToSet(m) = BucketListing(u.report)
           Good(d) == /\ Whole(d.manifest["crlite"]) => Filters(d.manifest["crlite"])
                      /\ Whole(d.manifest["intermediates"]) => Bucketed(d.manifest["intermediates"])
           Good1(d) == /\ Whole(d.manifest["crlite"]) => Filters1(d.manifest["crlite"])
                       /\ Whole(d.manifest["intermediates"]) => Bucketed1(d.manifest["intermediates"])
<1>1. seen \subseteq seen'
  BY DirSteps
<1>2. \A m : (Filters(m) => Filters1(m)) /\ (Bucketed(m) => Bucketed1(m))
  BY <1>1 DEF ListsFilters, ListsBuckets
<1>3. Good(out) /\ Good(site)
  BY DEF Listed
<1>4. SUFFICES Good1(out') /\ Good1(site')
  BY DEF Listed, ListsFilters, ListsBuckets
<1> HIDE DEF Filters, Bucketed, Filters1, Bucketed1
<1>5. Good1(out) /\ Good1(site)
  BY <1>2, <1>3
<1>6. Good1(NoFiles)
  BY Empty DEF Tools, Whole
<1>7. CASE out' = out /\ site' = site
  BY <1>5, <1>7
<1>8. CASE Deploy
  BY <1>5, <1>8, DirSteps DEF Deploy
<1>9. CASE StartJob
  BY <1>5, <1>6, <1>9 DEF StartJob
<1>10. CASE OpenFile \/ WriteFile
  <2>1. out'.manifest = out.manifest /\ site' = site
    BY <1>10, Opens, Writes DEF OpenFile, WriteFile
  <2> QED BY <1>5, <2>1
<1>11. CASE OpenManifest
  <2>1. site' = site /\ ~Whole(Torn)
    BY <1>11 DEF OpenManifest, Whole
  <2> QED BY <1>5, <1>11, <2>1, Manifests DEF Tools
<1>12. CASE WriteManifest
  <2>1. site' = site /\ run.pc = "manifest"
    BY <1>12 DEF WriteManifest
  <2>2. /\ run.tool = "crlite" => Filters1(run.files)
        /\ run.tool = "intermediates" => Bucketed1(run.files)
    BY <1>2, <2>1, WholeAnswer DEF Filters, Bucketed
  <2> QED BY <1>5, <1>12, <2>1, <2>2, Manifests DEF Tools
<1> QED BY <1>7, <1>8, <1>9, <1>10, <1>11, <1>12, DirSteps

\* Only accepted bytes reach a filter file.
LEMMA NamesNext == Types /\ JobOK /\ NamesOK /\ [Next]_vars => NamesOK'
<1> SUFFICES ASSUME Types, JobOK, NamesOK, [Next]_vars PROVE NamesOK'
  OBVIOUS
<1> DEFINE Holds(n, c) == c \in {Absent, Torn} \/ (c \in Contents /\ Right(n, c))
           Good(d) == \A n \in Names : Holds(n, d.files[n])
<1>1. Good(out) /\ Good(site)
  BY DEF NamesOK
<1>2. SUFFICES Good(out') /\ Good(site')
  BY DEF NamesOK
<1>3. CASE out' = out
  BY <1>1, <1>3, DirSteps
<1>4. CASE StartJob
  <2>1. Good(NoFiles)
    BY Empty
  <2> QED BY <1>1, <1>4, <2>1 DEF StartJob
<1>5. CASE OpenManifest \/ WriteManifest
  <2>1. out'.files = out.files /\ site' = site
    BY <1>5, Manifests DEF OpenManifest, WriteManifest
  <2> QED BY <1>1, <2>1
<1>6. CASE OpenFile
  <2>1. site' = site
    BY <1>6 DEF OpenFile
  <2>2. \A n \in Names : out'.files[n] \in {Torn, out.files[n]}
    BY <1>6, Opens
  <2> QED BY <1>1, <2>1, <2>2
<1>7. CASE WriteFile
  <2>1. site' = site /\ run.pc = "fill"
    BY <1>7 DEF WriteFile
  <2> SUFFICES ASSUME NEW n \in Names PROVE Holds(n, out'.files[n])
    BY <1>1, <2>1
  <2>2. CASE n # Entry.filename
    BY <1>1, <1>7, <2>2, Writes
  <2>3. CASE n = Entry.filename
    <3>1. run.tool = "crlite"
      BY <2>1, <2>3, AtHand, UpstreamAssumption DEF Tools
    <3>2. /\ run.plan[run.pos] \in Items /\ n = run.plan[run.pos].filename
          /\ run.bytes \in Contents /\ Sha256(run.bytes) = run.plan[run.pos].hash
      BY <2>1, <2>3, <3>1, AtHand
    <3>3. Right(n, run.bytes)
      BY <3>2, OneHash DEF Right
    <3>4. out'.files[n] = run.bytes
      BY <1>7, <2>3, Writes
    <3> QED BY <3>2, <3>3, <3>4
  <2> QED BY <2>2, <2>3
<1> QED BY <1>3, <1>4, <1>5, <1>6, <1>7, DirSteps

-----------------------------------------------------------------------------
(***************************************************************************)
(* What is listed is there.                                                *)
(***************************************************************************)
\* A manifest lists files that a directory can have.
LEMMA SeqNames ==
    ASSUME NEW m, m \in Seq(Entries) \/ m \in Seq(ItemEntries)
    PROVE  \A i \in DOMAIN m : m[i].filename \in Names \cup Buckets
<1>1. ASSUME NEW e \in Entries PROVE e.filename \in Names \cup Buckets
  <2>1. CASE e \in ItemEntries
    <3>1. PICK it \in Items : e = ItemEntry(it)
      BY <2>1 DEF ItemEntries
    <3> QED BY <3>1, ItemEntryFacts
  <2>2. CASE e \in BucketEntries
    <3>1. PICK r \in Reports, b \in Buckets : e = BucketEntry(r, b)
      BY <2>2 DEF BucketEntries
    <3> QED BY <3>1, BucketEntryFacts
  <2> QED BY <2>1, <2>2 DEF Entries
<1>2. DOMAIN m = 1 .. Len(m)
  BY LenProperties
<1>3. ASSUME NEW i \in DOMAIN m PROVE m[i] \in Entries
  BY <1>2, ElementOfSeq DEF Entries
<1> QED BY <1>1, <1>3

\* No file goes, except when a job starts with a new directory.
LEMMA ThereStays ==
    ASSUME Types, JobOK, [Next]_vars, ~(StartJob /\ ~direct), NEW m,
           m \in Seq(Entries) \/ m \in Seq(ItemEntries), There(out.files, m)
    PROVE  There(out'.files, m)
<1>1. \A i \in DOMAIN m : m[i].filename \in Names \cup Buckets
  BY SeqNames
<1>2. ASSUME NEW n \in Names \cup Buckets, out.files[n] # Absent
      PROVE  out'.files[n] # Absent
  <2>1. CASE out' = out
    BY <1>2, <2>1
  <2>2. CASE OpenFile
    BY <1>2, <2>2, Opens, MarkerAssumption
  <2>3. CASE WriteFile
    BY <1>2, <2>3, Writes
  <2>4. CASE OpenManifest \/ WriteManifest
    BY <1>2, <2>4, Manifests
  <2> QED BY <2>1, <2>2, <2>3, <2>4, DirSteps
<1> QED BY <1>1, <1>2 DEF There

\* Nothing is listed at first.
LEMMA KeptInit == Init => Kept
<1> SUFFICES ASSUME Init PROVE Kept
  OBVIOUS
<1>1. run.pc = "idle" /\ out = NoFiles /\ client.m = <<>>
  BY DEF Init, IdleRun, IdleClient
<1>2. ~Whole(out.manifest["crlite"])
  BY <1>1, Empty DEF Tools, Whole
<1>3. \A n \in Names \cup Buckets : out.files[n] # Torn
  BY <1>1, Empty, MarkerAssumption
<1> QED BY <1>1, <1>2, <1>3 DEF Kept, AtWork, There

\* The files that the job at hand has listed are there.
LEMMA KeptJob ==
    ASSUME Types, JobOK, Kept, [Next]_vars
    PROVE  run'.tool = "crlite" /\ AtWork' => There(out'.files, run'.files)
<1> SUFFICES ASSUME run'.tool = "crlite", AtWork' PROVE There(out'.files, run'.files)
  OBVIOUS
<1>0. run \in RunRecord
  BY DEF Types
<1>1. run.files \in Seq(Entries)
  BY <1>0 DEF RunRecord
<1>2. CASE \E p \in {"idle", "records", "report", "deploy"} : run' = [IdleRun EXCEPT !.pc = p]
  BY <1>2, FreshRun
<1>3. ASSUME run'.files = run.files, run.tool = "crlite", AtWork PROVE There(out'.files, run'.files)
  <2>1. There(out.files, run.files)
    BY <1>3 DEF Kept
  <2>2. ~StartJob
    BY <1>3 DEF StartJob, AtWork
  <2> QED BY <1>1, <1>3, <2>1, <2>2, ThereStays
<1>4. CASE run' = run
  BY <1>3, <1>4 DEF AtWork
<1>5. CASE GetRecords
  <2>1. run'.pc = "walk"
    BY <1>0, <1>5 DEF GetRecords, RunRecord
  <2> QED BY <2>1 DEF AtWork
<1>6. CASE Walk
  <2>1. run.files = <<>>
    BY <1>6 DEF Walk, JobOK, Walking
  <2>2. run'.files = run.files
    BY <1>0, <1>6 DEF Walk, RunRecord
  <2> QED BY <2>1, <2>2 DEF There
<1>7. CASE GetReport
  <2>1. CASE run' = Failed
    BY <2>1, <1>2, IdleIsFresh DEF Failed
  <2>2. CASE run' # Failed
    <3>1. PICK p \in SetToSeqs(BucketsOf(upstream.report)) :
            run' = [IdleRun EXCEPT !.pc = "take", !.tool = "intermediates",
                                   !.data = upstream.report, !.plan = p]
      BY <1>7, <2>2 DEF GetReport
    <3>2. run'.tool = "intermediates"
      BY <3>1 DEF IdleRun
    <3> QED BY <3>2
  <2> QED BY <2>1, <2>2
<1>8. CASE FillBucket
  BY <1>0, <1>8 DEF FillBucket, RunRecord
<1>9. CASE Download /\ \E c \in Contents :
             /\ Accepted(c, run.plan[run.pos])
             /\ run' = [run EXCEPT !.pc = "open", !.bytes = c]
  <2>1. run'.files = run.files
    BY <1>0, <1>9 DEF RunRecord
  <2> QED BY <2>1, <1>3, <1>9 DEF Download, AtWork
<1>10. CASE OpenFile \/ OpenManifest
  <2>1. run'.files = run.files /\ run.tool = "crlite"
    BY <1>0, <1>10 DEF OpenFile, OpenManifest, RunRecord
  <2> QED BY <2>1, <1>3, <1>10 DEF OpenFile, OpenManifest, AtWork
<1>11. CASE WriteFile
  <2>1. /\ run'.tool = run.tool /\ run'.files = Append(run.files, Entry)
        /\ Entry \in Entries /\ run.pc = "fill"
        /\ out'.files[Entry.filename] = run.bytes /\ run.bytes # Absent
    BY <1>11, Writes
  <2>2. There(out.files, run.files) /\ ~StartJob
    BY <2>1 DEF Kept, AtWork, StartJob
  <2>3. There(out'.files, run.files)
    BY <1>1, <2>2, ThereStays
  <2>4. Len(run.files) \in Nat /\ DOMAIN run.files = 1 .. Len(run.files)
    BY <1>1, LenProperties
  <2> DEFINE k == Len(run.files)
             q == Append(run.files, Entry)
  <2>5. Len(q) = k + 1 /\ q[k + 1] = Entry /\ q \in Seq(Entries)
    BY <1>1, <2>1, AppendProperties
  <2>6. \A i \in 1 .. k : q[i] = run.files[i]
    BY <1>1, <2>1, AppendProperties
  <2>7. DOMAIN q = 1 .. k + 1
    <3>1. DOMAIN q = 1 .. Len(q)
      BY <2>5, LenProperties
    <3> QED BY <3>1, <2>5
  <2> HIDE DEF q
  <2>8. ASSUME NEW i \in 1 .. k + 1 PROVE out'.files[q[i].filename] # Absent
    <3>1. CASE i = k + 1
      BY <3>1, <2>1, <2>5
    <3>2. CASE i # k + 1
      <4>1. i \in DOMAIN run.files /\ i \in 1 .. k
        BY <3>2, <2>4
      <4> QED BY <4>1, <2>3, <2>6 DEF There
    <3> QED BY <3>1, <3>2
  <2>9. run'.files = q
    BY <2>1 DEF q
  <2> QED BY <2>7, <2>8, <2>9 DEF There
<1> QED
  BY <1>2, <1>4, <1>5, <1>6, <1>7, <1>8, <1>9, <1>10, <1>11, JobGoes DEF vars

\* A truncated file is the one at hand, or a job that died left it so.
LEMMA KeptTorn ==
    ASSUME Types, JobOK, Kept, [Next]_vars
    PROVE  \A n \in Names \cup Buckets : out'.files[n] = Torn => Rewritten(n)'
<1> SUFFICES ASSUME NEW n \in Names \cup Buckets, out'.files[n] = Torn PROVE Rewritten(n)'
  OBVIOUS
<1>1. out.files[n] = Torn => n \in cut \/ (run.pc = "fill" /\ Entry.filename = n)
  BY DEF Kept, Rewritten
<1>2. CASE OpenFile
  <2>1. cut' = cut /\ run.pc = "open"
    BY <1>2 DEF OpenFile
  <2>2. run'.pc = "fill" /\ (Entry.filename)' = Entry.filename
    BY <1>2, Opens
  <2>3. CASE n = Entry.filename
    BY <2>2, <2>3 DEF Rewritten
  <2>4. CASE n # Entry.filename
    BY <1>1, <1>2, <2>1, <2>4, Opens DEF Rewritten
  <2> QED BY <2>3, <2>4
<1>3. CASE WriteFile
  <2>1. cut' = cut \ {Entry.filename}
    BY <1>3 DEF WriteFile
  <2> QED BY <1>1, <1>3, <2>1, Writes DEF Rewritten
<1>4. CASE StartJob
  <2>1. cut' = cut /\ run.pc = "idle"
    BY <1>4 DEF StartJob
  <2>2. NoFiles.files[n] # Torn
    BY Empty, MarkerAssumption
  <2> QED BY <1>1, <1>4, <2>1, <2>2 DEF StartJob, Rewritten
<1>5. CASE OpenManifest \/ WriteManifest
  <2>1. cut' = cut /\ run.pc # "fill" /\ out'.files = out.files
    BY <1>5, Manifests DEF OpenManifest, WriteManifest
  <2> QED BY <1>1, <2>1 DEF Rewritten
<1>6. CASE GetRecords \/ Walk \/ Download \/ GetReport \/ FillBucket \/ Deploy
  <2>1. cut' = cut /\ run.pc # "fill" /\ out' = out
    BY <1>6 DEF GetRecords, Walk, Download, GetReport, FillBucket, Deploy
  <2> QED BY <1>1, <2>1 DEF Rewritten
<1>7. CASE Abort
  BY <1>1, <1>7 DEF Abort, Rewritten
<1>8. CASE UNCHANGED <<out, run, cut>>
  BY <1>1, <1>8 DEF Rewritten, Entry
<1>9. CASE Change \/ ClientStep
  BY <1>8, <1>9 DEF Change, ClientStep, ClientManifest, ClientFile, ClientDone
<1> QED
  BY <1>2, <1>3, <1>4, <1>5, <1>6, <1>7, <1>8, <1>9 DEF Next, JobStep, vars

\* What is listed stays there, if only truncated.
LEMMA KeptNext == Types /\ JobOK /\ Listed /\ Kept /\ [Next]_vars => Kept'
<1> SUFFICES ASSUME Types, JobOK, Listed, Kept, [Next]_vars PROVE Kept'
  OBVIOUS
<1>1. ASSUME Whole(out'.manifest["crlite"])
      PROVE  There(out'.files, out'.manifest["crlite"])
  <2>1. ASSUME out'.manifest["crlite"] = out.manifest["crlite"], ~(StartJob /\ ~direct)
        PROVE  There(out'.files, out'.manifest["crlite"])
    <3>1. Whole(out.manifest["crlite"])
      BY <1>1, <2>1
    <3>2. There(out.files, out.manifest["crlite"])
      BY <3>1 DEF Kept
    <3>3. out.manifest["crlite"] \in Seq(ItemEntries)
      BY <3>1 DEF Listed
    <3> QED BY <2>1, <3>2, <3>3, ThereStays
  <2>2. CASE out' = out
    <3>1. CASE StartJob /\ ~direct
      BY <1>1, <3>1, Empty DEF StartJob, Tools, Whole
    <3>2. CASE ~(StartJob /\ ~direct)
      BY <2>1, <2>2, <3>2
    <3> QED BY <3>1, <3>2
  <2>3. CASE StartJob /\ ~direct /\ out' = NoFiles
    BY <1>1, <2>3, Empty DEF Tools, Whole
  <2>4. CASE OpenFile \/ WriteFile
    <3>1. ~StartJob
      BY <2>4 DEF StartJob, OpenFile, WriteFile
    <3> QED BY <2>1, <2>4, <3>1, Opens, Writes
  <2>5. CASE (OpenManifest \/ WriteManifest) /\ run.tool # "crlite"
    <3>1. ~StartJob
      BY <2>5 DEF StartJob, OpenManifest, WriteManifest
    <3> QED BY <2>1, <2>5, <3>1, Manifests DEF Tools
  <2>6. CASE OpenManifest /\ run.tool = "crlite"
    BY <1>1, <2>6, Manifests DEF Whole
  <2>7. CASE WriteManifest /\ run.tool = "crlite"
    <3>1. AtWork
      BY <2>7 DEF WriteManifest, AtWork
    <3>2. There(out.files, run.files)
      BY <2>7, <3>1 DEF Kept
    <3> QED BY <2>7, <3>2, Manifests
  <2> QED BY <2>2, <2>3, <2>4, <2>5, <2>6, <2>7, DirSteps
<1>2. ASSUME direct' PROVE There(out'.files, client'.m)
  <2>0. direct
    BY <1>2, DirSteps
  <2>1. CASE client' = client
    <3>1. client.m \in Seq(ItemEntries)
      BY DEF Types, ClientRecord
    <3> QED BY <2>0, <2>1, <3>1, ThereStays DEF Kept
  <2>2. CASE ClientManifest
    BY <2>0, <2>2 DEF ClientManifest, web, Kept, Types, ClientRecord
  <2>3. CASE ClientFile
    <3>1. out' = out /\ client'.m \in {client.m, <<>>}
      BY <2>3 DEF ClientFile, Types, ClientRecord, IdleClient
    <3> QED BY <2>0, <3>1 DEF Kept, There
  <2>4. CASE ClientDone
    <3>1. client'.m = <<>>
      BY <2>4 DEF ClientDone, IdleClient
    <3> QED BY <3>1 DEF There
  <2> QED
    BY <2>1, <2>2, <2>3, <2>4 DEF Next, JobStep, ClientStep, Change, StartJob, GetRecords,
       Walk, Download, GetReport, FillBucket, OpenFile, WriteFile, OpenManifest,
       WriteManifest, Deploy, Abort, vars
<1> QED BY <1>1, <1>2, KeptJob, KeptTorn DEF Kept

-----------------------------------------------------------------------------
(***************************************************************************)
(* A job that deploys.                                                     *)
(***************************************************************************)
\* The buckets that the job has listed stay what it has listed.
LEMMA BucketsStay ==
    ASSUME Types, JobOK, [Next]_vars, run.tool = "intermediates", AtWork, HasBuckets(run.files),
           AtWork', run' # run
    PROVE  HasBuckets(run.files)'
<1>0. run \in RunRecord
  BY DEF Types
<1>1. run.files \in Seq(Entries)
  BY <1>0 DEF RunRecord
<1>2. \A i \in DOMAIN run.files : run.files[i].filename \in Names \cup Buckets
  BY <1>1, SeqNames
<1>3. CASE FillBucket \/ OpenManifest
  <2>1. run'.files = run.files /\ run.pc # "fill" /\ out'.files = out.files
    BY <1>0, <1>3, Manifests DEF FillBucket, OpenManifest, RunRecord
  <2> QED BY <2>1 DEF HasBuckets
<1>4. CASE OpenFile
  <2>1. /\ run'.files = run.files /\ run.pc = "open" /\ run'.pc = "fill"
        /\ run'.plan = run.plan /\ run'.pos = run.pos
    BY <1>4, Opens
  <2>2. Entry.filename = run.plan[run.pos]
    BY <2>1, AtHand
  <2>3. ASSUME NEW i \in DOMAIN run.files
        PROVE  Matches(out'.files, run.files[i]) \/ run.files[i].filename = run.plan[run.pos]
    <3>1. Matches(out.files, run.files[i])
      BY <2>1 DEF HasBuckets
    <3>2. CASE run.files[i].filename # Entry.filename
      BY <1>2, <1>4, <3>1, <3>2, Opens DEF Matches
    <3> QED BY <2>2, <3>2
  <2> QED BY <2>1, <2>3 DEF HasBuckets
<1>5. CASE WriteFile
  <2> DEFINE k == Len(run.files)
             q == Append(run.files, Entry)
             b == run.plan[run.pos]
  <2>1. /\ run'.files = q /\ run.pc = "fill" /\ Entry \in Entries
        /\ out'.files[Entry.filename] = run.bytes /\ run.bytes # Absent /\ run.bytes # Torn
    BY <1>5, Writes
  <2>2. /\ Entry.filename = b /\ run.bytes = BucketOf(run.data, b)
        /\ Entry = BucketEntry(run.data, b) /\ run.data \in Reports /\ b \in Buckets
    BY <2>1, AtHand
  <2>3. Entry.hash = Sha256(run.bytes)
    BY <2>2, BucketEntryFacts
  <2>4. Matches(out'.files, Entry)
    BY <2>1, <2>3 DEF Matches
  <2>5. k \in Nat /\ DOMAIN run.files = 1 .. k
    BY <1>1, LenProperties
  <2>6. /\ k = run.pos - 1
        /\ \A i \in 1 .. run.pos - 1 : run.files[i] = PlanEntry(run.plan[i])
    BY DEF JobOK, Working
  <2>7. ASSUME NEW i \in 1 .. k PROVE Matches(out'.files, run.files[i])
    <3>1. CASE run.files[i].filename # b
      <4>1. Matches(out.files, run.files[i])
        BY <2>5, <3>1 DEF HasBuckets
      <4>2. run.files[i].filename \in Names \cup Buckets
        BY <1>2, <2>5
      <4>3. out'.files[run.files[i].filename] = out.files[run.files[i].filename]
        BY <1>5, <2>2, <3>1, <4>2, Writes
      <4> QED BY <4>1, <4>3 DEF Matches
    <3>2. CASE run.files[i].filename = b
      <4>1. run.files[i] = BucketEntry(run.data, run.plan[i])
        BY <2>6 DEF PlanEntry
      <4>2. run.files[i].filename = run.plan[i]
        BY <4>1 DEF BucketEntry
      <4>3. run.files[i] = Entry
        BY <2>2, <3>2, <4>1, <4>2
      <4> QED BY <2>4, <4>3
    <3> QED BY <3>1, <3>2
  <2>8. Len(q) = k + 1 /\ q[k + 1] = Entry /\ q \in Seq(Entries)
    BY <1>1, <2>1, AppendProperties
  <2>9. \A i \in 1 .. k : q[i] = run.files[i]
    BY <1>1, <2>1, AppendProperties
  <2>10. DOMAIN q = 1 .. k + 1
    <3>1. DOMAIN q = 1 .. Len(q)
      BY <2>8, LenProperties
    <3> QED BY <3>1, <2>8
  <2> HIDE DEF q
  <2>11. ASSUME NEW i \in 1 .. k + 1 PROVE Matches(out'.files, q[i])
    <3>1. CASE i = k + 1
      BY <3>1, <2>4, <2>8
    <3>2. CASE i # k + 1
      <4>1. i \in 1 .. k
        BY <3>2, <2>5
      <4> QED BY <4>1, <2>7, <2>9
    <3> QED BY <3>1, <3>2
  <2> QED BY <2>1, <2>10, <2>11 DEF HasBuckets
<1>6. ~GetRecords /\ ~Walk /\ ~GetReport /\ ~Download
  BY DEF GetRecords, Walk, GetReport, Download, AtWork
<1>7. ~\E p \in {"idle", "records", "report", "deploy"} : run' = [IdleRun EXCEPT !.pc = p]
  BY FreshRun
<1> QED BY <1>3, <1>4, <1>5, <1>6, <1>7, JobGoes DEF vars

\* A job that is not served directly leaves no truncated file when it deploys.
LEMMA CleanNext == Types /\ JobOK /\ CleanJob /\ [Next]_vars => CleanJob'
<1> SUFFICES ASSUME Types, JobOK, CleanJob, [Next]_vars, ~direct, run'.pc # "idle" PROVE CleanJob'
  BY DirSteps DEF CleanJob
<1>0. run \in RunRecord
  BY DEF Types
<1> DEFINE im == "intermediates"
           Torn1 == \A n \in Names \cup Buckets :
                      out'.files[n] = Torn => run'.pc = "fill" /\ (Entry.filename)' = n
           Job1 == (run'.tool = im /\ AtWork') => HasBuckets(run.files)'
           None1 == run'.pc # "deploy" => ~Whole(out'.manifest[im])
           Done1 == run'.pc = "deploy" /\ Whole(out'.manifest[im]) =>
                      HasBuckets(out.manifest[im])'
<1>1. SUFFICES Torn1 /\ Job1 /\ None1 /\ Done1
  BY DEF CleanJob
<1>2. CASE run' = run /\ out' = out
  BY <1>2 DEF CleanJob, AtWork, HasBuckets, Entry
<1>3. CASE StartJob
  <2>1. out' = NoFiles /\ run' = [IdleRun EXCEPT !.pc = "records"]
    BY <1>3 DEF StartJob
  <2>2. run'.pc = "records" /\ ~AtWork'
    BY <2>1, FreshRun
  <2>3. Torn1
    BY <2>1, Empty, MarkerAssumption
  <2>4. None1
    BY <2>1, Empty DEF Whole, Tools
  <2> QED BY <2>2, <2>3, <2>4
<1>4. ASSUME run.pc # "idle", run.pc # "fill", run.pc # "deploy", out' = out,
             run'.pc # "deploy", Job1
      PROVE  Torn1 /\ Job1 /\ None1 /\ Done1
  BY <1>4 DEF CleanJob
<1>5. CASE GetRecords
  <2>1. run'.pc = "walk" /\ out' = out
    BY <1>0, <1>5 DEF GetRecords, RunRecord
  <2>2. ~AtWork'
    BY <2>1 DEF AtWork
  <2> QED BY <1>4, <1>5, <2>1, <2>2 DEF GetRecords
<1>6. CASE Walk
  <2>1. run'.tool = run.tool /\ run'.pc \in {"walk", "take"} /\ out' = out
    BY <1>0, <1>6 DEF Walk, RunRecord
  <2>2. run.tool = "crlite"
    BY <1>6 DEF Walk, JobOK, Walking
  <2> QED BY <1>4, <1>6, <2>1, <2>2 DEF Walk
<1>7. CASE Download
  <2>1. run'.tool = "crlite" /\ run'.pc = "open"
    BY <1>0, <1>7 DEF Download, RunRecord, Rejected, Failed, IdleRun
  <2>2. out' = out
    BY <1>7 DEF Download
  <2> QED BY <1>4, <1>7, <2>1, <2>2 DEF Download
<1>8. CASE GetReport
  <2>1. run' # Failed
    BY DEF Failed, IdleRun
  <2>2. PICK p \in SetToSeqs(BucketsOf(upstream.report)) :
            run' = [IdleRun EXCEPT !.pc = "take", !.tool = "intermediates",
                                   !.data = upstream.report, !.plan = p]
    BY <1>8, <2>1 DEF GetReport
  <2>3. run'.pc = "take" /\ run'.files = <<>> /\ out' = out
    BY <1>8, <2>2 DEF IdleRun, GetReport
  <2>4. Job1
    BY <2>3 DEF HasBuckets
  <2> QED BY <1>4, <1>8, <2>3, <2>4 DEF GetReport
<1>9. ASSUME run' # run, run.pc # "idle", run'.tool = run.tool, AtWork, AtWork' PROVE Job1
  BY <1>9, BucketsStay DEF CleanJob
<1>10. CASE FillBucket
  <2>1. run'.tool = run.tool /\ run'.pc = "open" /\ run.pc = "take" /\ out' = out
    BY <1>0, <1>10 DEF FillBucket, RunRecord
  <2>2. Job1
    BY <1>9, <2>1 DEF AtWork
  <2> QED BY <1>4, <2>1, <2>2
<1>11. CASE OpenFile
  <2>1. /\ run'.tool = run.tool /\ run'.pc = "fill" /\ run.pc = "open"
        /\ out'.manifest = out.manifest /\ (Entry.filename)' = Entry.filename
    BY <1>11, Opens
  <2>2. Job1
    BY <1>9, <2>1 DEF AtWork
  <2>3. Torn1
    BY <1>11, <2>1, Opens DEF CleanJob
  <2> QED BY <2>1, <2>2, <2>3 DEF CleanJob
<1>12. CASE WriteFile
  <2>1. /\ run'.tool = run.tool /\ run'.pc = "take" /\ run.pc = "fill"
        /\ out'.manifest = out.manifest
    BY <1>12, Writes
  <2>2. Job1
    BY <1>9, <2>1 DEF AtWork
  <2>3. Torn1
    BY <1>12, <2>1, Writes DEF CleanJob
  <2> QED BY <2>1, <2>2, <2>3 DEF CleanJob
<1>13. CASE OpenManifest
  <2>1. /\ run'.tool = run.tool /\ run'.pc = "manifest" /\ run.pc = "take"
        /\ out'.files = out.files
    BY <1>0, <1>13, Manifests DEF OpenManifest, RunRecord
  <2>2. Job1
    BY <1>9, <2>1 DEF AtWork
  <2>3. Torn1
    BY <2>1 DEF CleanJob
  <2>4. None1
    BY <1>13, <2>1, Manifests DEF CleanJob, Whole, Tools
  <2> QED BY <2>1, <2>2, <2>3, <2>4
<1>14. CASE WriteManifest
  <2>1. run.pc = "manifest" /\ out'.files = out.files
    BY <1>14, Manifests DEF WriteManifest
  <2>2. /\ run'.pc = IF run.tool = "crlite" THEN "report" ELSE "deploy"
        /\ run'.tool = "crlite"
    BY <1>14 DEF WriteManifest, IdleRun
  <2>3. Torn1
    BY <2>1 DEF CleanJob
  <2>4. None1
    BY <1>14, <2>1, <2>2, Manifests DEF CleanJob, Tools
  <2>5. ASSUME run'.pc = "deploy" PROVE HasBuckets(out.manifest[im])'
    <3>1. run.tool = im
      BY <1>14, <2>2, <2>5, Manifests DEF Tools
    <3>2. out'.manifest[im] = run.files
      BY <1>14, <3>1, Manifests
    <3>3. HasBuckets(run.files)
      BY <2>1, <3>1 DEF CleanJob, AtWork
    <3> QED BY <2>1, <3>2, <3>3 DEF HasBuckets
  <2> QED BY <2>2, <2>3, <2>4, <2>5
<1>15. CASE Deploy \/ Abort
  BY <1>15 DEF Deploy, Abort, Failed, IdleRun
<1>16. CASE Change \/ ClientStep
  BY <1>2, <1>16 DEF Change, ClientStep, ClientManifest, ClientFile, ClientDone
<1> QED
  BY <1>2, <1>3, <1>5, <1>6, <1>7, <1>8, <1>10, <1>11, <1>12, <1>13, <1>14, <1>15, <1>16
  DEF Next, JobStep, vars

\* A deployment puts up a site that has what it lists.
LEMMA SiteNext ==
    Types /\ JobOK /\ Listed /\ NamesOK /\ Kept /\ CleanJob /\ SiteOK /\ [Next]_vars => SiteOK'
<1> SUFFICES ASSUME Types, JobOK, Listed, NamesOK, Kept, CleanJob, SiteOK, [Next]_vars
             PROVE  SiteOK'
  OBVIOUS
<1>1. CASE site' = site
  BY <1>1 DEF SiteOK
<1>2. CASE Deploy /\ ~direct /\ site' = out
  <2>1. run.pc = "deploy"
    BY <1>2 DEF Deploy
  <2>2. \A n \in Names \cup Buckets : out.files[n] # Torn
    BY <1>2, <2>1 DEF CleanJob
  <2>3. ASSUME Whole(out.manifest["crlite"]), NEW i \in DOMAIN out.manifest["crlite"]
        PROVE  Matches(out.files, out.manifest["crlite"][i])
    <3> DEFINE m == out.manifest["crlite"]
    <3>1. m \in Seq(ItemEntries)
      BY <2>3 DEF Listed
    <3>2. DOMAIN m = 1 .. Len(m)
      BY <3>1, LenProperties
    <3>3. m[i] \in ItemEntries
      BY <2>3, <3>1, <3>2, ElementOfSeq
    <3>4. PICK it \in Items : m[i] = ItemEntry(it)
      BY <3>3 DEF ItemEntries
    <3>5. m[i].filename = it.filename /\ m[i].hash = it.hash /\ it.filename \in Names
      BY <3>4, ItemEntryFacts
    <3>6. out.files[it.filename] # Absent
      BY <2>3, <3>5 DEF Kept, There
    <3>7. out.files[it.filename] # Torn
      BY <2>2, <3>5
    <3>8. Right(it.filename, out.files[it.filename])
      BY <3>5, <3>6, <3>7 DEF NamesOK
    <3>9. Sha256(out.files[it.filename]) = it.hash
      BY <3>8 DEF Right
    <3> QED BY <3>5, <3>6, <3>7, <3>9 DEF Matches
  <2>4. ASSUME Whole(out.manifest["intermediates"]), NEW i \in DOMAIN out.manifest["intermediates"]
        PROVE  Matches(out.files, out.manifest["intermediates"][i])
    BY <1>2, <2>1, <2>4 DEF CleanJob, HasBuckets
  <2> QED BY <1>2, <2>3, <2>4 DEF SiteOK, Tools
<1> QED BY <1>1, <1>2, DirSteps

-----------------------------------------------------------------------------
(***************************************************************************)
(* The invariant, and what follows from it.                                *)
(***************************************************************************)
\* The invariant holds at first,
LEMMA MirrorInit == Init => MirrorInv
<1> SUFFICES ASSUME Init PROVE MirrorInv
  OBVIOUS
<1>1. run.pc = "idle" /\ out = NoFiles /\ site = NoFiles
  BY DEF Init, IdleRun
<1>2. FromSeen /\ CleanJob
  BY <1>1 DEF FromSeen, CleanJob, AtWork
<1>3. \A t \in Tools : ~Whole(NoFiles.manifest[t])
  BY Empty DEF Whole
<1>4. Listed /\ SiteOK
  BY <1>1, <1>3 DEF Listed, SiteOK, Tools
<1>5. NamesOK
  BY <1>1, Empty DEF NamesOK
<1> QED BY <1>2, <1>4, <1>5, TypesInit, JobInit, KeptInit DEF MirrorInv

\* is kept by every step,
LEMMA MirrorStep == MirrorInv /\ [Next]_vars => MirrorInv'
BY TypesNext, JobNext, WalkNext, SeenNext, ListedNext, NamesNext, KeptNext, CleanNext, SiteNext
   DEF MirrorInv

\* and so holds always.
LEMMA MirrorInvariant == Spec => []MirrorInv
BY MirrorInit, MirrorStep, PTL DEF Spec

\* A directory has the files and the manifests of its type.
LEMMA DirType ==
    ASSUME MirrorInv, NEW d \in {out, site}
    PROVE  DirOK(d)
<1>1. d \in DirRecord
  BY DEF MirrorInv, Types
<1>2. \A n \in Names : d.files[n] \in Contents \cup {Absent, Torn}
  BY DEF MirrorInv, NamesOK
<1>3. ASSUME NEW t \in Tools, Whole(d.manifest[t]) PROVE IsListing(d.manifest[t])
  <2>1. d.manifest[t] \in Seq(Entries)
    BY <1>1, <1>3 DEF DirRecord, Whole
  <2>2. DOMAIN d.manifest[t] = 1 .. Len(d.manifest[t])
    BY <2>1, LenProperties
  <2>3. \A i \in DOMAIN d.manifest[t] : d.manifest[t][i] \in Entries
    BY <2>1, <2>2, ElementOfSeq
  <2> QED BY <2>3, EntryFields DEF IsListing
<1> QED BY <1>2, <1>3 DEF DirOK

\* The directories, the job and the client keep their types, and no tool works
\* beyond the end of its plan.
THEOREM TypeCorrect == Spec => []TypeOK
<1>1. ASSUME MirrorInv PROVE TypeOK
  <2>1. /\ upstream \in Upstreams \cup Updates
        /\ changes \in 0 .. MaxChanges /\ faults \in 0 .. MaxFaults
        /\ client.pos \in 1 .. Len(client.m) + 1 /\ cut \subseteq Names \cup Buckets
    BY <1>1 DEF MirrorInv, Types
  <2>2. direct \in BOOLEAN
    BY <1>1 DEF MirrorInv, Types
  <2>3. run.pc \in Steps /\ run.tool \in Tools /\ client.pc \in {"idle", "get"}
    BY <1>1 DEF MirrorInv, Types, RunRecord, ClientRecord
  <2>4. run.pos \in 1 .. Len(run.plan) + 1
    <3>1. run.plan \in Seq(Items) \/ run.plan \in Seq(Buckets)
      BY <1>1 DEF MirrorInv, Types, RunRecord
    <3>2. Len(run.plan) \in Nat
      BY <3>1, LenProperties
    <3>3. CASE AtWork
      BY <1>1, <3>3 DEF MirrorInv, JobOK, Working
    <3>4. CASE run.pc = "walk"
      BY <1>1, <3>2, <3>4 DEF MirrorInv, JobOK, Walking
    <3>5. CASE run.pc \in {"idle", "records", "report", "deploy"}
      <4>1. run = [IdleRun EXCEPT !.pc = run.pc]
        BY <1>1, <3>5 DEF MirrorInv, JobOK, Fresh
      <4>2. run.pos = 1
        BY <4>1, FreshFields
      <4> QED BY <3>2, <4>2
    <3> QED BY <2>3, <3>3, <3>4, <3>5 DEF Steps, AtWork
  <2>5. DirOK(out) /\ DirOK(site)
    BY <1>1, DirType
  <2> QED BY <2>1, <2>2, <2>3, <2>4, <2>5 DEF TypeOK, Steps
<1> QED BY <1>1, MirrorInvariant, PTL

\* mozilla-crlite's `while let Some(item) = next` loop: whatever the records and
\* their order, the plan of a tool at work is one line of descent from the first
\* full filter to an item without children, no item twice, and everything that
\* descends from it if no two items have the same parent.
THEOREM WalkIsSound == Spec => []WalkSound
<1>1. MirrorInv => WalkSound
  BY WalkIsDone DEF MirrorInv
<1> QED BY <1>1, MirrorInvariant, PTL

\* What is served lists one whole answer of Mozilla or of the CCADB, wherever
\* jobs fail and whenever upstream changes.
THEOREM PublishedIsWhole == Spec => []PublishedWhole
<1>1. ASSUME MirrorInv PROVE PublishedWhole
  <2>1. web \in {out, site}
    BY DEF web
  <2>2. /\ Whole(web.manifest["crlite"]) => ListsFilters(web.manifest["crlite"])
        /\ Whole(web.manifest["intermediates"]) => ListsBuckets(web.manifest["intermediates"])
    BY <1>1, <2>1 DEF MirrorInv, Listed
  <2> QED BY <2>2 DEF PublishedWhole, ListsFilters, ListsBuckets
<1> QED BY <1>1, MirrorInvariant, PTL

\* A deployed site has every file that it lists; a directory that is served as
\* it is lacks, for a client at the old or the new manifest, only files that
\* fs::write has truncated and not filled, now or in a job that died.
THEOREM SiteIsServable == Spec => []Servable
<1>1. ASSUME MirrorInv PROVE Servable
  <2>1. CASE ~direct
    BY <1>1, <2>1 DEF MirrorInv, SiteOK, Servable
  <2>2. CASE direct
    <3>1. ASSUME NEW m, m \in Seq(ItemEntries), There(out.files, m), NEW i \in DOMAIN m
          PROVE  \/ Matches(out.files, m[i])
                 \/ out.files[m[i].filename] = Torn /\ Rewritten(m[i].filename)
      <4>1. DOMAIN m = 1 .. Len(m)
        BY <3>1, LenProperties
      <4>2. m[i] \in ItemEntries
        BY <3>1, <4>1, ElementOfSeq
      <4>3. PICK it \in Items : m[i] = ItemEntry(it)
        BY <4>2 DEF ItemEntries
      <4>4. m[i].filename = it.filename /\ m[i].hash = it.hash /\ it.filename \in Names
        BY <4>3, ItemEntryFacts
      <4>5. out.files[it.filename] # Absent
        BY <3>1, <4>4 DEF There
      <4>6. CASE out.files[it.filename] = Torn
        BY <1>1, <4>4, <4>6 DEF MirrorInv, Kept
      <4>7. CASE out.files[it.filename] # Torn
        <5>1. Right(it.filename, out.files[it.filename])
          BY <1>1, <4>4, <4>5, <4>7 DEF MirrorInv, NamesOK
        <5>2. Sha256(out.files[it.filename]) = it.hash
          BY <5>1 DEF Right
        <5> QED BY <4>4, <4>5, <4>7, <5>2 DEF Matches
      <4> QED BY <4>6, <4>7
    <3>2. ASSUME Whole(out.manifest["crlite"])
          PROVE  /\ out.manifest["crlite"] \in Seq(ItemEntries)
                 /\ There(out.files, out.manifest["crlite"])
      BY <1>1, <3>2 DEF MirrorInv, Listed, Kept
    <3>3. client.m \in Seq(ItemEntries) /\ There(out.files, client.m)
      BY <1>1, <2>2 DEF MirrorInv, Kept, Types, ClientRecord
    <3> QED BY <2>2, <3>1, <3>2, <3>3 DEF Servable
  <2> QED BY <2>1, <2>2
<1> QED BY <1>1, MirrorInvariant, PTL
===============================================================================
