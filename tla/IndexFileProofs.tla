---------------------------- MODULE IndexFileProofs ----------------------------
(***************************************************************************)
(* Proofs about IndexFile, for every manifest, certificate, version and    *)
(* way of cutting the file: what Index::write lays out is what             *)
(* Index::check finds again by binary search and byte offsets.             *)
(***************************************************************************)
EXTENDS IndexFile, FiniteSetTheorems, TLAPS

(***************************************************************************)
(* Arithmetic and order.                                                   *)
(***************************************************************************)
\* Numbers below the width survive the conversion to it.
LEMMA SmallMod ==
    ASSUME NEW n \in Nat, NEW w \in Nat, n < w
    PROVE  n % w = n
OBVIOUS

\* The members of a finite set of numbers, in order: each comes once.
LEMMA InOrderLemma ==
    ASSUME NEW S \in SUBSET Nat, IsFiniteSet(S)
    PROVE  /\ Cardinality(S) \in Nat
           /\ \A k \in 1 .. Cardinality(S) : InOrder(S)[k] \in S
           /\ \A x \in S : \E k \in 1 .. Cardinality(S) : InOrder(S)[k] = x
           /\ \A j, k \in 1 .. Cardinality(S) : j < k => InOrder(S)[j] < InOrder(S)[k]
<1> DEFINE n == Cardinality(S)
           Upto(x) == {y \in S : y <= x}
           f == [x \in S |-> Cardinality(Upto(x))]
<1>1. n \in Nat
  BY FS_CardinalityType
<1>2. \A x \in S : IsFiniteSet(Upto(x)) /\ Cardinality(Upto(x)) \in 1 .. n
  <2> SUFFICES ASSUME NEW x \in S
               PROVE  IsFiniteSet(Upto(x)) /\ Cardinality(Upto(x)) \in 1 .. n
    OBVIOUS
  <2>1. Upto(x) \in SUBSET S /\ x \in Upto(x)
    OBVIOUS
  <2> HIDE DEF Upto
  <2>2. IsFiniteSet(Upto(x)) /\ Cardinality(Upto(x)) <= n
    BY <2>1, FS_Subset
  <2>3. Cardinality(Upto(x)) \in Nat /\ Cardinality(Upto(x)) # 0
    BY <2>1, <2>2, FS_CardinalityType, FS_EmptySet
  <2> QED BY <1>1, <2>2, <2>3
<1>3. ASSUME NEW x \in S, NEW z \in S, x < z
      PROVE  Cardinality(Upto(x)) < Cardinality(Upto(z))
  <2>0. /\ \A y \in S : y <= x => y <= z
        /\ z <= z /\ ~(z <= x)
    BY <1>3
  <2>1. Upto(x) \in SUBSET Upto(z) /\ z \in Upto(z) /\ z \notin Upto(x)
    BY <2>0
  <2>2. IsFiniteSet(Upto(z)) /\ Cardinality(Upto(x)) \in Nat /\ Cardinality(Upto(z)) \in Nat
    BY <1>1, <1>2
  <2> HIDE DEF Upto
  <2>3. /\ Cardinality(Upto(x)) <= Cardinality(Upto(z))
        /\ Cardinality(Upto(z)) = Cardinality(Upto(x)) => Upto(z) = Upto(x)
    BY <2>1, <2>2, FS_Subset
  <2> QED BY <2>1, <2>2, <2>3
<1>4. f \in [S -> 1 .. n] /\ \A x \in S : f[x] = Cardinality(Upto(x))
  BY <1>2
<1>5. \A x, z \in S : x # z => f[x] # f[z]
  <2> SUFFICES ASSUME NEW x \in S, NEW z \in S, x # z PROVE f[x] # f[z]
    OBVIOUS
  <2>1. x < z \/ z < x
    OBVIOUS
  <2>2. Cardinality(Upto(x)) \in Nat /\ Cardinality(Upto(z)) \in Nat
    BY <1>1, <1>2
  <2> HIDE DEF Upto, f
  <2> QED BY <1>3, <1>4, <2>1, <2>2
<1>6. f \in Injection(S, 1 .. n)
  <2> HIDE DEF f
  <2> QED BY <1>4, <1>5 DEF Injection, IsInjective
<1>7. IsFiniteSet(1 .. n) /\ Cardinality(1 .. n) = n
  BY <1>1, FS_Interval
<1>8. f \in Surjection(S, 1 .. n)
  <2> HIDE DEF f
  <2> QED BY <1>6, <1>7, FS_Injection
<1>9. \A k \in 1 .. n : \E x \in S : f[x] = k
  <2> HIDE DEF f
  <2> QED BY <1>8 DEF Surjection
<1>10. \A k \in 1 .. n : /\ InOrder(S)[k] \in S
                         /\ Cardinality(Upto(InOrder(S)[k])) = k
  <2> SUFFICES ASSUME NEW k \in 1 .. n
               PROVE  InOrder(S)[k] \in S /\ Cardinality(Upto(InOrder(S)[k])) = k
    OBVIOUS
  <2>1. InOrder(S)[k] = CHOOSE x \in S : Cardinality(Upto(x)) = k
    BY DEF InOrder, Nth
  <2>2. \E x \in S : Cardinality(Upto(x)) = k
    BY <1>4, <1>9
  <2> HIDE DEF Upto
  <2> QED BY <2>1, <2>2
<1>11. ASSUME NEW x \in S, NEW z \in S, Cardinality(Upto(x)) = Cardinality(Upto(z))
       PROVE  x = z
  <2> HIDE DEF Upto, f
  <2> QED BY <1>4, <1>5, <1>11
<1>12. ASSUME NEW x \in S PROVE \E k \in 1 .. n : InOrder(S)[k] = x
  <2>1. Cardinality(Upto(x)) \in 1 .. n
    BY <1>2
  <2> HIDE DEF Upto, f
  <2>2. InOrder(S)[Cardinality(Upto(x))] = x
    BY <1>10, <1>11, <2>1
  <2> QED BY <2>1, <2>2
<1>13. ASSUME NEW j \in 1 .. n, NEW k \in 1 .. n, j < k
       PROVE  InOrder(S)[j] < InOrder(S)[k]
  <2> DEFINE a == InOrder(S)[j]
             b == InOrder(S)[k]
  <2>1. a \in S /\ b \in S /\ Cardinality(Upto(a)) = j /\ Cardinality(Upto(b)) = k
    BY <1>10
  <2> HIDE DEF Upto, f, a, b
  <2>2. a \in Nat /\ b \in Nat /\ a # b /\ ~(b < a)
    BY <1>1, <1>3, <1>13, <2>1
  <2>3. a < b
    BY <2>2
  <2> QED BY <2>3 DEF a, b
<1> QED BY <1>1, <1>10, <1>12, <1>13

-------------------------------------------------------------------------------
(***************************************************************************)
(* What Index::write lays out.                                             *)
(***************************************************************************)
\* The sets that are laid out are finite sets of numbers.
LEMMA LayoutSets ==
    ASSUME NEW m \in Manifests
    PROVE  /\ Logs(m) \in SUBSET Nat /\ IsFiniteSet(Logs(m))
           /\ \A l : With(m, l) \in SUBSET Nat /\ IsFiniteSet(With(m, l))
           /\ \A l : Cardinality(With(m, l)) \in Nat /\ Cardinality(With(m, l)) < U16
           /\ IsFiniteSet(Pairs(m)) /\ Cardinality(Pairs(m)) \in Nat
<1>0. /\ DOMAIN m = 1 .. Len(m) /\ Len(m) \in Nat /\ Len(m) < U16
      /\ U16 \in Nat
  BY ManifestAssumption, WidthAssumption
<1>1. Logs(m) \in SUBSET LogIds
  BY DEF Logs
<1>2. Logs(m) \in SUBSET Nat /\ IsFiniteSet(Logs(m))
  BY <1>1, LogAssumption, FS_Subset
<1>3. IsFiniteSet(DOMAIN m) /\ Cardinality(DOMAIN m) = Len(m)
  <2>1. Len(m) \in Int /\ 1 \in Int
    BY <1>0
  <2>2. /\ IsFiniteSet(1 .. Len(m))
        /\ Cardinality(1 .. Len(m)) = IF 1 > Len(m) THEN 0 ELSE Len(m) - 1 + 1
    BY <2>1, FS_Interval
  <2> QED BY <1>0, <2>2
<1>4. ASSUME NEW l
      PROVE  /\ With(m, l) \in SUBSET Nat /\ IsFiniteSet(With(m, l))
             /\ Cardinality(With(m, l)) \in Nat /\ Cardinality(With(m, l)) < U16
  <2>1. With(m, l) \in SUBSET (DOMAIN m)
    BY DEF With
  <2>2. IsFiniteSet(With(m, l)) /\ Cardinality(With(m, l)) <= Len(m)
    BY <1>3, <2>1, FS_Subset
  <2>3. Cardinality(With(m, l)) \in Nat
    BY <2>2, FS_CardinalityType
  <2>4. With(m, l) \in SUBSET Nat
    BY <1>0, <2>1
  <2> QED BY <1>0, <2>2, <2>3, <2>4
<1>5. IsFiniteSet(LogIds \X DOMAIN m)
  BY <1>3, LogAssumption, FS_Product
<1>6. Pairs(m) \in SUBSET (LogIds \X DOMAIN m)
  BY DEF Pairs
<1>7. IsFiniteSet(Pairs(m))
  BY <1>5, <1>6, FS_Subset
<1>8. Cardinality(Pairs(m)) \in Nat
  BY <1>7, FS_CardinalityType
<1> QED BY <1>2, <1>4, <1>7, <1>8

\* A set of entries that has all those of the logs up to l has at least as many
\* as there are before the end of the section of l.
LEMMA SectionFits ==
    ASSUME NEW m \in Manifests, NEW l \in Logs(m), NEW T \in SUBSET Pairs(m),
           \A p \in Pairs(m) : p[1] <= l => p \in T
    PROVE  /\ EntriesBefore(m, l) \in Nat
           /\ EntriesBefore(m, l) + Cardinality(With(m, l)) <= Cardinality(T)
<1> DEFINE A == {p \in Pairs(m) : p[1] < l}
           B == {p \in Pairs(m) : p[1] = l}
           W == With(m, l)
           f == [i \in W |-> <<l, i>>]
<1>0. IsFiniteSet(Pairs(m)) /\ l \in Nat /\ l \in LogIds
  BY LayoutSets, LogAssumption DEF Logs
<1>1. \A p \in Pairs(m) : p[1] \in Nat
  BY LogAssumption DEF Pairs
<1>2. A \in SUBSET Pairs(m) /\ B \in SUBSET Pairs(m) /\ A \cap B = {}
  BY <1>0, <1>1
<1>3. A \cup B \in SUBSET T
  BY <1>0, <1>1
<1>4. \A i \in W : <<l, i>> \in B
  <2>1. \A i \in W : i \in DOMAIN m /\ l \in DOMAIN m[i].universe
    BY DEF With
  <2>2. \A i \in W : <<l, i>> \in LogIds \X DOMAIN m
    BY <1>0, <2>1
  <2> QED BY <2>1, <2>2 DEF Pairs
<1>5. f \in Injection(W, B)
  <2>1. f \in [W -> B]
    BY <1>4
  <2>2. \A i, k \in W : i # k => f[i] # f[k]
    OBVIOUS
  <2> HIDE DEF f, W, B
  <2> QED BY <2>1, <2>2 DEF Injection, IsInjective
<1>e. EntriesBefore(m, l) = Cardinality(A)
  BY DEF EntriesBefore
<1> HIDE DEF A, B, W, f
<1>6. IsFiniteSet(A) /\ IsFiniteSet(B) /\ IsFiniteSet(T)
  BY <1>0, <1>2, FS_Subset
<1>7. Cardinality(W) <= Cardinality(B)
  BY <1>5, <1>6, FS_Injection
<1>8. Cardinality(A \cup B) = Cardinality(A) + Cardinality(B) - Cardinality({})
  BY <1>2, <1>6, FS_Union
<1>9. Cardinality({}) = 0
  BY FS_EmptySet
<1>10. Cardinality(A \cup B) <= Cardinality(T)
  BY <1>3, <1>6, FS_Subset
<1>11. Cardinality(A) \in Nat /\ Cardinality(B) \in Nat /\ Cardinality(T) \in Nat
       /\ Cardinality(W) \in Nat
  BY <1>6, FS_CardinalityType, LayoutSets DEF W
<1>12. Cardinality(A) + Cardinality(W) <= Cardinality(T)
  BY <1>7, <1>8, <1>9, <1>10, <1>11
<1> QED BY <1>e, <1>11, <1>12 DEF W

\* Sections do not overlap, and all of them are in the file.
LEMMA SectionsApart ==
    ASSUME NEW m \in Manifests, NEW l \in Logs(m)
    PROVE  /\ EntriesBefore(m, l) \in Nat
           /\ EntriesBefore(m, l) + Cardinality(With(m, l)) <= Cardinality(Pairs(m))
           /\ \A x \in Logs(m) : l < x =>
                EntriesBefore(m, l) + Cardinality(With(m, l)) <= EntriesBefore(m, x)
<1>1. /\ EntriesBefore(m, l) \in Nat
      /\ EntriesBefore(m, l) + Cardinality(With(m, l)) <= Cardinality(Pairs(m))
  BY SectionFits
<1>2. ASSUME NEW x \in Logs(m), l < x
      PROVE  EntriesBefore(m, l) + Cardinality(With(m, l)) <= EntriesBefore(m, x)
  <2> DEFINE T == {p \in Pairs(m) : p[1] < x}
  <2>1. \A p \in Pairs(m) : p[1] \in Nat
    BY LogAssumption DEF Pairs
  <2>2. l \in Nat /\ x \in Nat
    BY LogAssumption DEF Logs
  <2>3. T \in SUBSET Pairs(m) /\ \A p \in Pairs(m) : p[1] <= l => p \in T
    BY <1>2, <2>1, <2>2
  <2>4. EntriesBefore(m, x) = Cardinality(T)
    BY DEF EntriesBefore
  <2> HIDE DEF T
  <2> QED BY <2>3, <2>4, SectionFits
<1> QED BY <1>1, <1>2

\* The entries behind the ones of the logs before l are those of the section of l.
LEMMA EntryInSection ==
    ASSUME NEW magic, NEW m \in Manifests, NEW l \in Logs(m),
           NEW j \in 1 .. Cardinality(With(m, l))
    PROVE  EntryOf(magic, m, EntriesBefore(m, l) + j) = Section(magic, m, l)[j]
<1> DEFINE p == EntriesBefore(m, l) + j
           Falls(x) == EntriesBefore(m, x) < p
                       /\ p <= EntriesBefore(m, x) + Cardinality(With(m, x))
           c == CHOOSE x \in Logs(m) : Falls(x)
<1>0. /\ Logs(m) \in SUBSET Nat
      /\ \A x : Cardinality(With(m, x)) \in Nat
      /\ \A x \in Logs(m) : EntriesBefore(m, x) \in Nat
      /\ \A x, y \in Logs(m) : x < y =>
           EntriesBefore(m, x) + Cardinality(With(m, x)) <= EntriesBefore(m, y)
  BY LayoutSets, SectionsApart
<1>1. Falls(l)
  BY <1>0
<1>2. c \in Logs(m) /\ Falls(c)
  <2> HIDE DEF Falls
  <2> QED BY <1>1
<1>3. c = l
  <2> HIDE DEF c
  <2>1. ~(c < l) /\ ~(l < c)
    BY <1>0, <1>1, <1>2
  <2> QED BY <1>0, <1>2, <2>1
<1>4. EntryOf(magic, m, p) = Section(magic, m, c)[p - EntriesBefore(m, c)]
  BY DEF EntryOf
<1>5. p - EntriesBefore(m, l) = j
  BY <1>0
<1> QED BY <1>3, <1>4, <1>5

\* The j-th entry of a section.
LEMMA SectionEntry ==
    ASSUME NEW magic, NEW m \in Manifests, Len(m) < Width(magic), NEW l \in Logs(m),
           NEW j \in 1 .. Cardinality(With(m, l))
    PROVE  LET i == InOrder(With(m, l))[j]
           IN /\ i \in With(m, l)
              /\ Section(magic, m, l)[j] =
                   [filter |-> i - 1, low |-> m[i].universe[l].low,
                    high |-> m[i].universe[l].high]
<1> DEFINE i == InOrder(With(m, l))[j]
<1>1. i \in With(m, l)
  BY LayoutSets, InOrderLemma
<1>2. i \in 1 .. Len(m) /\ Len(m) \in Nat /\ Width(magic) \in Nat
  BY <1>1, ManifestAssumption, WidthAssumption DEF With, Width
<1>3. Section(magic, m, l)[j] =
        [filter |-> Narrow(magic, i - 1), low |-> m[i].universe[l].low,
         high |-> m[i].universe[l].high]
  BY DEF Section
<1> HIDE DEF i
<1>4. i - 1 \in Nat /\ i - 1 < Width(magic)
  BY <1>2
<1>5. Narrow(magic, i - 1) = i - 1
  BY <1>2, <1>4, SmallMod DEF Narrow
<1> QED BY <1>1, <1>3, <1>5 DEF i

\* What is known of index.bin: it is what was written for the manifest, but for
\* entries that name a file behind the last one.
IsIndexOf(f, m) ==
    LET n == Cardinality(Logs(m)) IN
    /\ f.magic \in Versions /\ Len(m) < Width(f.magic)
    /\ f.num_filenames = Len(m) /\ f.num_logs = n
    /\ \A k \in 1 .. n :
         LET l == SortedLogs(m)[k] IN
         /\ f.dir[k].log_id = l
         /\ f.dir[k].offset = TablesEnd(f.magic, Len(m), n)
                                + EntriesBefore(m, l) * ENTRY_SIZE(f.magic)
         /\ f.dir[k].num = Cardinality(With(m, l))
    /\ f.entries \in Seq({f.entries[p] : p \in DOMAIN f.entries})
    /\ Len(f.entries) = Cardinality(Pairs(m))
    /\ \A p \in 1 .. Cardinality(Pairs(m)) :
         \/ f.entries[p] = EntryOf(f.magic, m, p)
         \/ f.entries[p] = [EntryOf(f.magic, m, p) EXCEPT !.filter = Len(m)]

\* A function on 1 .. n is a sequence of its values.
LEMMA SeqOfValues ==
    ASSUME NEW n \in Nat, NEW s, s = [p \in 1 .. n |-> s[p]]
    PROVE  s \in Seq({s[p] : p \in DOMAIN s}) /\ Len(s) = n
<1> DEFINE V == {s[p] : p \in 1 .. n}
<1>1. DOMAIN s = 1 .. n
  OBVIOUS
<1>2. \A p \in 1 .. n : s[p] \in V
  OBVIOUS
<1> HIDE DEF V
<1>3. s \in [1 .. n -> V]
  BY <1>2
<1>4. s \in Seq(V) /\ Len(s) = n
  BY <1>3
<1> QED BY <1>1, <1>4 DEF V

\* Index::write gives such a file.
LEMMA WriteIsIndex ==
    ASSUME NEW magic \in Versions, NEW m \in Manifests, Len(m) < Width(magic)
    PROVE  IsIndexOf(Write(magic, m), m)
<1> DEFINE f == Write(magic, m)
           n == Cardinality(Logs(m))
           np == Cardinality(Pairs(m))
<1>0. /\ n \in Nat /\ np \in Nat /\ Len(m) \in Nat /\ U16 \in Nat
      /\ \A l : Cardinality(With(m, l)) \in Nat /\ Cardinality(With(m, l)) < U16
  BY LayoutSets, ManifestAssumption, WidthAssumption, FS_CardinalityType
<1>1. /\ f.magic = magic /\ f.num_filenames = Narrow(magic, Len(m)) /\ f.num_logs = n
      /\ f.dir = [k \in 1 .. n |->
                   [log_id |-> SortedLogs(m)[k],
                    offset |-> TablesEnd(magic, Len(m), n)
                                 + BytesBefore(magic, m, SortedLogs(m)[k]),
                    num |-> Cardinality(With(m, SortedLogs(m)[k])) % U16]]
      /\ f.entries = [p \in 1 .. np |-> EntryOf(magic, m, p)]
  BY DEF Write
<1>2. Narrow(magic, Len(m)) = Len(m)
  <2>1. Width(magic) \in Nat
    BY WidthAssumption DEF Width
  <2> QED BY <1>0, <2>1, SmallMod DEF Narrow
<1>3. \A l : Cardinality(With(m, l)) % U16 = Cardinality(With(m, l))
  <2> SUFFICES ASSUME NEW l PROVE Cardinality(With(m, l)) % U16 = Cardinality(With(m, l))
    OBVIOUS
  <2>1. Cardinality(With(m, l)) \in Nat /\ Cardinality(With(m, l)) < U16
    BY <1>0
  <2> QED BY <1>0, <2>1, SmallMod
<1> HIDE DEF f, n, np
<1>4. \A k \in 1 .. n :
         /\ f.dir[k].log_id = SortedLogs(m)[k]
         /\ f.dir[k].offset = TablesEnd(magic, Len(m), n)
                                + EntriesBefore(m, SortedLogs(m)[k]) * ENTRY_SIZE(magic)
         /\ f.dir[k].num = Cardinality(With(m, SortedLogs(m)[k]))
  BY <1>1, <1>3 DEF BytesBefore
<1>5. f.entries \in Seq({f.entries[p] : p \in DOMAIN f.entries}) /\ Len(f.entries) = np
  <2> DEFINE s == f.entries
  <2>1. s = [p \in 1 .. np |-> s[p]]
    BY <1>1
  <2> HIDE DEF s
  <2>2. s \in Seq({s[p] : p \in DOMAIN s}) /\ Len(s) = np
    BY <1>0, <2>1, SeqOfValues
  <2> QED BY <2>2 DEF s
<1>6. \A p \in 1 .. np : f.entries[p] = EntryOf(magic, m, p)
  BY <1>1
<1> QED BY <1>1, <1>2, <1>4, <1>5, <1>6 DEF IsIndexOf, n, np, f

\* So does tampering with one of its entries.
LEMMA TamperedIsIndex ==
    ASSUME NEW magic \in Versions, NEW m \in Manifests, Len(m) < Width(magic),
           NEW bad \in DOMAIN Write(magic, m).entries
    PROVE  IsIndexOf([Write(magic, m) EXCEPT !.entries[bad].filter = Len(m)], m)
<1> DEFINE f == Write(magic, m)
           np == Cardinality(Pairs(m))
           s == [f.entries EXCEPT ![bad].filter = Len(m)]
           g == [f EXCEPT !.entries[bad].filter = Len(m)]
<1>0. np \in Nat
  BY LayoutSets
<1>1. IsIndexOf(f, m)
  BY WriteIsIndex
<1>2. f.entries = [p \in 1 .. np |-> EntryOf(magic, m, p)] /\ f.magic = magic
  BY DEF Write
<1>3. /\ g.magic = f.magic /\ g.num_filenames = f.num_filenames /\ g.num_logs = f.num_logs
      /\ g.dir = f.dir /\ g.entries = s
  BY DEF Write
<1>4. bad \in 1 .. np
  BY <1>2
<1> HIDE DEF f, g, np
<1>5. s = [p \in 1 .. np |-> s[p]]
  BY <1>2
<1>6. \A p \in 1 .. np : \/ s[p] = EntryOf(magic, m, p)
                         \/ s[p] = [EntryOf(magic, m, p) EXCEPT !.filter = Len(m)]
  BY <1>2, <1>4
<1> HIDE DEF s
<1>7. s \in Seq({s[p] : p \in DOMAIN s}) /\ Len(s) = np
  BY <1>0, <1>5, SeqOfValues
<1>8. IsIndexOf(g, m)
  BY <1>1, <1>2, <1>3, <1>6, <1>7 DEF IsIndexOf, np
<1> QED BY <1>8 DEF g, f

-------------------------------------------------------------------------------
(***************************************************************************)
(* What Index::check finds.                                                *)
(***************************************************************************)
EntryRecord == [filter : Nat, low : Nat, high : Nat]

\* Entry e is that of the i-th filter of manifest m for log l, or names a file
\* behind the last one instead of it.
Stands(e, m, i, l) ==
    /\ i \in With(m, l)
    /\ e.low = m[i].universe[l].low /\ e.high = m[i].universe[l].high
    /\ e.filter = i - 1 \/ e.filter = Len(m)

\* All entries name a file that is listed.
Untouched(f, m) == \A k \in DOMAIN f.entries : f.entries[k].filter < Len(m)

\* The section of log l: an entry for each of its filters and no other.
IsSection(es, f, m, l) ==
    /\ es \in Seq(EntryRecord)
    /\ \A r \in DOMAIN es : \E i \in DOMAIN m : Stands(es[r], m, i, l)
    /\ \A i \in With(m, l) : \E r \in DOMAIN es : Stands(es[r], m, i, l)
    /\ Untouched(f, m) => \A r \in DOMAIN es : es[r].filter < Len(m)

\* The sizes are numbers.
LEMMA Sizes ==
    ASSUME NEW magic, NEW a \in Nat, NEW b \in Nat
    PROVE  /\ ENTRY_SIZE(magic) \in {17, 18}
           /\ HEADER_SIZE(magic) \in {13, 14}
           /\ TablesEnd(magic, a, b) \in Nat /\ TablesEnd(magic, a, b) >= HEADER_SIZE(magic)
BY DEF ENTRY_SIZE, HEADER_SIZE, TablesEnd, FILENAME_SIZE, LOG_DIR_ENTRY_SIZE

\* The offset of a section, turned back into a number of entries.
LEMMA OffsetBack ==
    ASSUME NEW a \in Nat, NEW b \in Nat, NEW e \in {17, 18}
    PROVE  ((a + b * e) - a) \div e = b
<1>1. CASE e = 17
  BY <1>1
<1>2. CASE e = 18
  BY <1>2
<1> QED BY <1>1, <1>2

\* An entry of a section, tampered with or not.
LEMMA EntryStands ==
    ASSUME NEW f, NEW m \in Manifests, IsIndexOf(f, m), NEW l \in Logs(m),
           NEW j \in 1 .. Cardinality(With(m, l))
    PROVE  LET e == f.entries[EntriesBefore(m, l) + j]
           IN /\ EntriesBefore(m, l) + j \in DOMAIN f.entries
              /\ e \in EntryRecord
              /\ Stands(e, m, InOrder(With(m, l))[j], l)
<1> DEFINE i == InOrder(With(m, l))[j]
           p == EntriesBefore(m, l) + j
           e == f.entries[p]
           s == [filter |-> i - 1, low |-> m[i].universe[l].low,
                 high |-> m[i].universe[l].high]
<1>0. /\ EntriesBefore(m, l) \in Nat /\ Cardinality(With(m, l)) \in Nat
      /\ EntriesBefore(m, l) + Cardinality(With(m, l)) <= Cardinality(Pairs(m))
      /\ Cardinality(Pairs(m)) \in Nat
  BY SectionsApart, LayoutSets
<1>1. p \in 1 .. Cardinality(Pairs(m))
  BY <1>0
<1>2. f.entries \in Seq({f.entries[q] : q \in DOMAIN f.entries})
      /\ Len(f.entries) = Cardinality(Pairs(m)) /\ Len(m) < Width(f.magic)
  BY DEF IsIndexOf
<1>3. p \in DOMAIN f.entries
  <2> DEFINE V == {f.entries[q] : q \in DOMAIN f.entries}
  <2>1. f.entries \in Seq(V)
    BY <1>2
  <2> HIDE DEF V, p
  <2> QED BY <1>1, <1>2, <2>1
<1>4. EntryOf(f.magic, m, p) = Section(f.magic, m, l)[j]
  BY EntryInSection
<1>5. i \in With(m, l) /\ Section(f.magic, m, l)[j] = s
  BY <1>2, SectionEntry
<1>6. e = s \/ e = [s EXCEPT !.filter = Len(m)]
  <2> HIDE DEF s, i
  <2> QED BY <1>1, <1>4, <1>5 DEF IsIndexOf
<1>7. /\ i \in 1 .. Len(m) /\ Len(m) \in Nat
      /\ m[i].universe[l].low \in Nat /\ m[i].universe[l].high \in Nat
  <2>1. i \in DOMAIN m /\ l \in DOMAIN m[i].universe
    BY <1>5 DEF With
  <2>2. IsFilter(m[i]) /\ DOMAIN m = 1 .. Len(m) /\ Len(m) \in Nat
    BY <2>1, ManifestAssumption
  <2> QED BY <2>1, <2>2 DEF IsFilter
<1> HIDE DEF i, e, p
<1>8. e \in EntryRecord
  BY <1>6, <1>7 DEF EntryRecord
<1>9. Stands(e, m, i, l)
  BY <1>5, <1>6 DEF Stands
<1> QED BY <1>3, <1>8, <1>9 DEF i, e, p

\* Reading the num entries at the offset of a directory entry gives the section
\* of its log, and it lies within the file.
LEMMA SectionFound ==
    ASSUME NEW f, NEW m \in Manifests, IsIndexOf(f, m), NEW k \in 1 .. f.num_logs
    PROVE  LET d == f.dir[k]
           IN /\ d.log_id \in Logs(m)
              /\ d.offset \in Nat /\ d.num \in Nat
              /\ d.offset + d.num * ENTRY_SIZE(f.magic) <= FullLength(f)
              /\ IsSection(EntriesAt(f, d.offset, d.num), f, m, d.log_id)
<1> DEFINE n == Cardinality(Logs(m))
           l == SortedLogs(m)[k]
           b == EntriesBefore(m, l)
           w == Cardinality(With(m, l))
           np == Cardinality(Pairs(m))
           size == ENTRY_SIZE(f.magic)
           tables == TablesEnd(f.magic, Len(m), n)
           d == f.dir[k]
           es == EntriesAt(f, d.offset, d.num)
<1>0. /\ n \in Nat /\ np \in Nat /\ Len(m) \in Nat
  BY LayoutSets, ManifestAssumption, FS_CardinalityType
<1>1. /\ f.num_logs = n /\ f.num_filenames = Len(m)
      /\ d.log_id = l /\ d.offset = tables + b * size /\ d.num = w
      /\ Len(f.entries) = np
  BY DEF IsIndexOf
<1>2. l \in Logs(m)
  BY <1>1, LayoutSets, InOrderLemma DEF SortedLogs
<1>3. b \in Nat /\ w \in Nat /\ b + w <= np
  BY <1>2, SectionsApart, LayoutSets
<1>4. tables \in Nat /\ size \in {17, 18}
  BY <1>0, Sizes
<1>5. FullLength(f) = tables + np * size
  BY <1>1 DEF FullLength
<1>6. es = SubSeq(f.entries, ((d.offset - tables) \div size) + 1,
                             ((d.offset - tables) \div size) + w)
  BY <1>1 DEF EntriesAt
<1>s. \A j \in 1 .. w : /\ b + j \in DOMAIN f.entries
                        /\ f.entries[b + j] \in EntryRecord
                        /\ Stands(f.entries[b + j], m, InOrder(With(m, l))[j], l)
  BY <1>2, EntryStands
<1>v. f.entries \in Seq({f.entries[q] : q \in DOMAIN f.entries})
  BY DEF IsIndexOf
<1>i. \A i \in With(m, l) : \E j \in 1 .. w : InOrder(With(m, l))[j] = i
  BY LayoutSets, InOrderLemma
<1>x. \A i \in With(m, l) : i \in DOMAIN m
  BY DEF With
<1> HIDE DEF n, l, b, w, np, size, tables, d, es
<1>7. (d.offset - tables) \div size = b
  BY <1>1, <1>3, <1>4, OffsetBack
<1>8. es = SubSeq(f.entries, b + 1, b + w)
  BY <1>6, <1>7
<1>9. /\ Len(es) = w /\ DOMAIN es = 1 .. w
      /\ \A j \in 1 .. w : es[j] = f.entries[b + j]
  <2> DEFINE V == {f.entries[q] : q \in DOMAIN f.entries}
             s == f.entries
  <2>1. s \in Seq(V) /\ Len(s) = np
    BY <1>1, <1>v
  <2> HIDE DEF V, s
  <2>2. /\ SubSeq(s, b + 1, b + w) \in Seq(V) /\ Len(SubSeq(s, b + 1, b + w)) = w
        /\ \A j \in 1 .. w : SubSeq(s, b + 1, b + w)[j] = s[b + j]
    BY <1>0, <1>3, <2>1
  <2> QED BY <1>8, <2>2 DEF s
<1>10. es \in Seq(EntryRecord)
  <2>1. es \in Seq({f.entries[q] : q \in DOMAIN f.entries})
    <3> DEFINE V == {f.entries[q] : q \in DOMAIN f.entries}
    <3>1. f.entries \in Seq(V)
      BY <1>v
    <3> HIDE DEF V
    <3>2. SubSeq(f.entries, b + 1, b + w) \in Seq(V)
      BY <1>0, <1>1, <1>3, <3>1
    <3> QED BY <1>8, <3>2 DEF V
  <2>2. \A j \in 1 .. w : es[j] \in EntryRecord
    BY <1>9, <1>s
  <2>3. es = [j \in 1 .. w |-> es[j]]
    <3> DEFINE V == {f.entries[q] : q \in DOMAIN f.entries}
    <3>1. es \in Seq(V)
      BY <2>1
    <3> HIDE DEF V
    <3> QED BY <1>9, <3>1
  <2>4. es \in [1 .. w -> EntryRecord]
    BY <2>2, <2>3
  <2> QED BY <1>3, <2>4
<1>11. \A r \in DOMAIN es : \E i \in DOMAIN m : Stands(es[r], m, i, l)
  <2> SUFFICES ASSUME NEW r \in DOMAIN es
               PROVE  \E i \in DOMAIN m : Stands(es[r], m, i, l)
    OBVIOUS
  <2>1. Stands(es[r], m, InOrder(With(m, l))[r], l)
    BY <1>9, <1>s
  <2>2. InOrder(With(m, l))[r] \in DOMAIN m
    BY <1>x, <2>1 DEF Stands
  <2> QED BY <2>1, <2>2
<1>12. \A i \in With(m, l) : \E r \in DOMAIN es : Stands(es[r], m, i, l)
  BY <1>9, <1>s, <1>i
<1>13. Untouched(f, m) => \A r \in DOMAIN es : es[r].filter < Len(m)
  BY <1>9, <1>s DEF Untouched
<1>14. IsSection(es, f, m, l)
  BY <1>10, <1>11, <1>12, <1>13 DEF IsSection
<1>15. d.offset \in Nat /\ d.num \in Nat /\ d.offset + d.num * size <= FullLength(f)
  <2>1. CASE size = 17
    BY <1>0, <1>1, <1>3, <1>4, <1>5, <2>1
  <2>2. CASE size = 18
    BY <1>0, <1>1, <1>3, <1>4, <1>5, <2>2
  <2> QED BY <1>4, <2>1, <2>2
<1> QED BY <1>1, <1>2, <1>14, <1>15 DEF d, es, size

\* The directory is sorted, and has every log of the manifest.
LEMMA DirectoryFound ==
    ASSUME NEW f, NEW m \in Manifests, IsIndexOf(f, m)
    PROVE  /\ f.num_logs \in Nat
           /\ \A k \in 1 .. f.num_logs : f.dir[k].log_id \in Nat
           /\ \A j, k \in 1 .. f.num_logs : j < k => f.dir[j].log_id < f.dir[k].log_id
           /\ \A i \in DOMAIN m : \A l \in DOMAIN m[i].universe :
                \E k \in 1 .. f.num_logs : f.dir[k].log_id = l
<1> DEFINE S == Logs(m)
<1>1. S \in SUBSET Nat /\ IsFiniteSet(S)
  BY LayoutSets
<1>2. f.num_logs = Cardinality(S) /\ \A k \in 1 .. Cardinality(S) : f.dir[k].log_id = InOrder(S)[k]
  BY DEF IsIndexOf, SortedLogs
<1>3. \A i \in DOMAIN m : \A l \in DOMAIN m[i].universe : l \in S
  BY ManifestAssumption DEF Logs, IsFilter
<1> HIDE DEF S
<1>4. Cardinality(S) \in Nat
  BY <1>1, InOrderLemma
<1>5. \A k \in 1 .. Cardinality(S) : InOrder(S)[k] \in Nat
  BY <1>1, InOrderLemma
<1>6. \A j, k \in 1 .. Cardinality(S) : j < k => InOrder(S)[j] < InOrder(S)[k]
  BY <1>1, InOrderLemma
<1>7. \A x \in S : \E k \in 1 .. Cardinality(S) : InOrder(S)[k] = x
  BY <1>1, InOrderLemma
<1>8. \A i \in DOMAIN m : \A l \in DOMAIN m[i].universe :
        \E k \in 1 .. f.num_logs : f.dir[k].log_id = l
  BY <1>2, <1>3, <1>7
<1>9. \A j, k \in 1 .. f.num_logs : j < k => f.dir[j].log_id < f.dir[k].log_id
  BY <1>2, <1>6
<1> QED BY <1>2, <1>4, <1>5, <1>8, <1>9


-------------------------------------------------------------------------------
(***************************************************************************)
(* The check.                                                              *)
(***************************************************************************)
\* SCT k of query q is in the universe of the i-th filter of manifest m.
Hit(m, q, i, k) ==
    /\ i \in With(m, q[k].log_id)
    /\ Covers(m[i].universe[q[k].log_id], q[k])

\* What no step changes.
FixedInv ==
    /\ manifest \in Manifests
    /\ query \in Queries(manifest)
    /\ IsIndexOf(file, manifest)
    /\ len \in Nat /\ len <= FullLength(file)

\* The counters are numbers, and the loops are within their bounds.
CounterInv ==
    /\ TypeOK
    /\ lo \in Nat /\ hi \in Nat
    /\ pc \in {"search", "section", "entry"} => sct <= Len(query)
    /\ pc \in {"section", "entry"} =>
         at < file.num_logs /\ file.dir[at + 1].log_id = query[sct].log_id
    /\ pc # "done" => result = "none"

\* The filters asked cover the certificate; while the check goes on, none of
\* them said it is revoked, and good says whether one of them knew it.
AskedInv ==
    /\ \A j \in seen : j + 1 \in Covering
    /\ pc # "done" =>
         /\ \A j \in seen : manifest[j + 1].answer # "Revoked"
         /\ good <=> \E j \in seen : manifest[j + 1].answer = "Good"

\* All filters that cover an SCT the outer loop is past have been asked.
PastInv ==
    pc # "done" => \A k \in 1 .. sct - 1 : \A i \in DOMAIN manifest :
        Hit(manifest, query, i, k) => i - 1 \in seen

\* The entries left in the section are of filters with the log, and those that
\* cover the SCT and have not been asked are among them.
RestInv ==
    pc = "entry" =>
        LET l == query[sct].log_id IN
        /\ rest \in Seq(EntryRecord)
        /\ \A r \in DOMAIN rest : \E i \in DOMAIN manifest : Stands(rest[r], manifest, i, l)
        /\ \A i \in DOMAIN manifest : Hit(manifest, query, i, sct) =>
             i - 1 \in seen \/ \E r \in DOMAIN rest : Stands(rest[r], manifest, i, l)
        /\ Untouched(file, manifest) => \A r \in DOMAIN rest : rest[r].filter < Len(manifest)

CheckInv == /\ FixedInv /\ CounterInv /\ AskedInv /\ PastInv /\ RestInv
            /\ SearchSound /\ NeverWrong /\ NeverFails

\* What is known of a manifest, a query and the file, in one place.
LEMMA FixedFacts ==
    ASSUME FixedInv
    PROVE  /\ Len(manifest) \in Nat /\ DOMAIN manifest = 1 .. Len(manifest)
           /\ Len(query) \in Nat /\ DOMAIN query = 1 .. Len(query)
           /\ \A k \in DOMAIN query : query[k].log_id \in Nat /\ query[k].timestamp \in Nat
           /\ file.num_filenames = Len(manifest) /\ file.num_logs \in Nat
           /\ file.magic \in Versions
           /\ \A i \in DOMAIN manifest : \A l \in DOMAIN manifest[i].universe :
                manifest[i].universe[l].low \in Nat /\ manifest[i].universe[l].high \in Nat
<1>1. manifest \in Manifests /\ query \in Queries(manifest) /\ IsIndexOf(file, manifest)
  BY DEF FixedInv
<1>2. /\ Len(manifest) \in Nat /\ DOMAIN manifest = 1 .. Len(manifest)
      /\ \A i \in DOMAIN manifest : IsFilter(manifest[i])
      /\ Len(query) \in Nat /\ DOMAIN query = 1 .. Len(query)
      /\ \A k \in DOMAIN query : IsSct(query[k])
  BY <1>1, ManifestAssumption
<1>3. file.num_filenames = Len(manifest) /\ file.magic \in Versions
  BY <1>1 DEF IsIndexOf
<1>4. file.num_logs \in Nat
  BY <1>1, DirectoryFound
<1>5. \A k \in DOMAIN query : query[k].log_id \in Nat /\ query[k].timestamp \in Nat
  BY <1>2 DEF IsSct
<1>6. \A i \in DOMAIN manifest : \A l \in DOMAIN manifest[i].universe :
                manifest[i].universe[l].low \in Nat /\ manifest[i].universe[l].high \in Nat
  BY <1>2 DEF IsFilter
<1> QED BY <1>2, <1>3, <1>4, <1>5, <1>6

\* The filters that cover the certificate are those hit by one of its SCTs.
LEMMA CoveringIsHit ==
    ASSUME FixedInv
    PROVE  \A i : i \in Covering <=>
              i \in DOMAIN manifest /\ \E k \in DOMAIN query : Hit(manifest, query, i, k)
<1>1. /\ \A k \in DOMAIN query : query[k].log_id \in Nat /\ query[k].timestamp \in Nat
      /\ \A i \in DOMAIN manifest : \A l \in DOMAIN manifest[i].universe :
           manifest[i].universe[l].low \in Nat /\ manifest[i].universe[l].high \in Nat
  BY FixedFacts
<1>2. ASSUME NEW i \in DOMAIN manifest, NEW k \in DOMAIN query
      PROVE  /\ query[k].log_id \in DOMAIN manifest[i].universe
             /\ LET u == manifest[i].universe[query[k].log_id]
                IN query[k].timestamp \in u.low .. u.high
             <=> Hit(manifest, query, i, k)
  BY <1>1 DEF Hit, With, Covers
<1> QED BY <1>2 DEF Covering

\* A step that leaves the files alone keeps what is known of them.
LEMMA FixedStays ==
    ASSUME FixedInv, UNCHANGED fixed
    PROVE  /\ FixedInv' /\ Covering' = Covering /\ Reference' = Reference
           /\ manifest' = manifest /\ query' = query /\ file' = file /\ len' = len
<1>1. manifest' = manifest /\ query' = query /\ file' = file /\ len' = len
  BY DEF fixed
<1>2. FixedInv'
  BY <1>1 DEF FixedInv
<1>3. Covering' = Covering
  BY <1>1 DEF Covering
<1>4. Reference' = Reference
  BY <1>1, <1>3 DEF Reference
<1> QED BY <1>1, <1>2, <1>3, <1>4

\* The tables are in a file that is whole, behind the magic and the header.
LEMMA WholeFile ==
    ASSUME FixedInv
    PROVE  /\ FullLength(file) \in Nat
           /\ FullLength(file) >= TablesEnd(file.magic, file.num_filenames, file.num_logs)
           /\ TablesEnd(file.magic, file.num_filenames, file.num_logs) >= HEADER_SIZE(file.magic)
           /\ HEADER_SIZE(file.magic) \in {13, 14}
<1> DEFINE t == TablesEnd(file.magic, file.num_filenames, file.num_logs)
           size == ENTRY_SIZE(file.magic)
           n == Len(file.entries)
<1>1. file.num_filenames \in Nat /\ file.num_logs \in Nat
  BY FixedFacts
<1>2. t \in Nat /\ t >= HEADER_SIZE(file.magic) /\ size \in {17, 18}
      /\ HEADER_SIZE(file.magic) \in {13, 14}
  BY <1>1, Sizes
<1>3. n \in Nat
  BY LayoutSets DEF FixedInv, IsIndexOf
<1>4. FullLength(file) = t + n * size
  BY DEF FullLength
<1> HIDE DEF t, size, n
<1>5. FullLength(file) \in Nat /\ FullLength(file) >= t
  <2>1. CASE size = 17
    BY <1>2, <1>3, <1>4, <2>1
  <2>2. CASE size = 18
    BY <1>2, <1>3, <1>4, <2>2
  <2> QED BY <1>2, <2>1, <2>2
<1> QED BY <1>2, <1>5 DEF t

\* The check starts with a file that was written for the manifest.
LEMMA StartsRight == Init => CheckInv
<1> SUFFICES ASSUME Init PROVE CheckInv
  OBVIOUS
<1>1. manifest \in Manifests /\ query \in Queries(manifest)
  BY DEF Init
<1>2. IsIndexOf(file, manifest)
  <2>1. PICK magic \in {v \in Versions : Len(manifest) < Width(v)} :
          LET f == Write(magic, manifest)
          IN \/ file = f
             \/ \E bad \in Tampered(manifest) \cap DOMAIN f.entries :
                  file = [f EXCEPT !.entries[bad].filter = Len(manifest)]
    BY DEF Init
  <2>2. CASE file = Write(magic, manifest)
    BY <1>1, <2>2, WriteIsIndex
  <2>3. CASE \E bad \in Tampered(manifest) \cap DOMAIN Write(magic, manifest).entries :
               file = [Write(magic, manifest) EXCEPT !.entries[bad].filter = Len(manifest)]
    <3>1. PICK bad \in DOMAIN Write(magic, manifest).entries :
            file = [Write(magic, manifest) EXCEPT !.entries[bad].filter = Len(manifest)]
      BY <2>3
    <3> QED BY <1>1, <3>1, TamperedIsIndex
  <2> QED BY <2>1, <2>2, <2>3
<1>3. PICK lost \in Lost(manifest) : lost <= FullLength(file) /\ len = FullLength(file) - lost
  BY DEF Init
<1>4. lost \in Nat
  BY <1>1, ManifestAssumption
<1>5. FullLength(file) \in Nat
  <2> DEFINE t == TablesEnd(file.magic, file.num_filenames, file.num_logs)
             size == ENTRY_SIZE(file.magic)
             n == Len(file.entries)
  <2>1. file.num_filenames \in Nat /\ file.num_logs \in Nat
    BY <1>1, <1>2, ManifestAssumption, DirectoryFound DEF IsIndexOf
  <2>2. t \in Nat /\ size \in {17, 18} /\ n \in Nat
    BY <1>1, <1>2, <2>1, Sizes, LayoutSets DEF IsIndexOf
  <2>3. FullLength(file) = t + n * size
    BY DEF FullLength
  <2> HIDE DEF t, size, n
  <2>4. CASE size = 17
    BY <2>2, <2>3, <2>4
  <2>5. CASE size = 18
    BY <2>2, <2>3, <2>5
  <2> QED BY <2>2, <2>4, <2>5
<1>6. FixedInv
  BY <1>1, <1>2, <1>3, <1>4, <1>5 DEF FixedInv
<1>7. Len(query) \in Nat /\ file.num_logs \in Nat /\ Len(manifest) \in Nat
  BY <1>6, FixedFacts
<1>i. /\ pc = "open" /\ sct = 1 /\ lo = 0 /\ hi = 0 /\ at = 0 /\ seen = {}
      /\ good = FALSE /\ result = "none"
  BY DEF Init
<1>8. CounterInv
  <2>1. sct \in 1 .. Len(query) + 1 /\ 0 <= lo /\ lo <= hi /\ hi <= file.num_logs
        /\ at \in 0 .. file.num_logs /\ lo \in Nat /\ hi \in Nat
    BY <1>7, <1>i
  <2>2. /\ seen \subseteq 0 .. Len(manifest) - 1 /\ good \in BOOLEAN
        /\ result \in {"none", "IndexDecode", "CertainlyRevoked", "NotRevoked",
                       "NotCoveredByRevocationData"}
        /\ pc \in {"open", "sct", "search", "section", "entry", "done"}
        /\ pc \notin {"search", "section", "entry"}
    BY <1>i
  <2> QED BY <1>i, <2>1, <2>2 DEF CounterInv, TypeOK
<1>9. AskedInv /\ PastInv /\ RestInv /\ SearchSound /\ NeverWrong /\ NeverFails
  BY <1>i DEF AskedInv, PastInv, RestInv, SearchSound, NeverWrong, NeverFails
<1> QED BY <1>6, <1>8, <1>9 DEF CheckInv

\* Opening the file: a whole one has room for all that is read here.
LEMMA FromCacheKeeps ==
    ASSUME CheckInv, FromCache
    PROVE  CheckInv'
<1>0. FixedInv /\ CounterInv /\ AskedInv /\ PastInv /\ pc = "open"
  BY DEF CheckInv, FromCache
<1>1. /\ FixedInv' /\ Covering' = Covering /\ Reference' = Reference
      /\ manifest' = manifest /\ query' = query /\ file' = file /\ len' = len
  BY <1>0, FixedStays DEF FromCache
<1>2. /\ sct' = sct /\ lo' = lo /\ hi' = hi /\ at' = at /\ rest' = rest /\ seen' = seen /\ good' = good
      /\ \/ pc' = "done" /\ result' = "IndexDecode"
         \/ pc' = "sct" /\ result' = result
  BY DEF FromCache, Return
<1>3. CounterInv'
  BY <1>0, <1>1, <1>2 DEF CounterInv, TypeOK
<1>4. AskedInv' /\ PastInv' /\ RestInv' /\ SearchSound' /\ NeverWrong'
  BY <1>0, <1>1, <1>2 DEF AskedInv, PastInv, RestInv, SearchSound, NeverWrong
<1>5. NeverFails'
  <2> SUFFICES ASSUME len = FullLength(file), file.magic \in {"upkiidx0", "upkiidx1"}
               PROVE  pc' = "sct"
    BY <1>1, <1>2 DEF NeverFails
  <2>1. /\ ~(len < 8) /\ ~(len < HEADER_SIZE(file.magic))
        /\ ~(TablesEnd(file.magic, file.num_filenames, file.num_logs) > len)
    <3> DEFINE t == TablesEnd(file.magic, file.num_filenames, file.num_logs)
    <3>1. t \in Nat
      BY <1>0, FixedFacts, Sizes
    <3> HIDE DEF t
    <3>2. len >= t /\ t >= HEADER_SIZE(file.magic) /\ HEADER_SIZE(file.magic) \in {13, 14} /\ len \in Nat
      BY <1>0, WholeFile DEF t
    <3>3. ~(len < 8) /\ ~(len < HEADER_SIZE(file.magic)) /\ ~(t > len)
      BY <3>1, <3>2
    <3> QED BY <3>3 DEF t
  <2> QED BY <2>1 DEF FromCache
<1> QED BY <1>1, <1>3, <1>4, <1>5 DEF CheckInv

\* With all SCTs looked at and no filter that says revoked, the verdict is the
\* one that asking every filter gives.
LEMMA VerdictRight ==
    ASSUME CheckInv, pc = "sct", ~(sct <= Len(query))
    PROVE  Reference = IF good THEN "NotRevoked" ELSE "NotCoveredByRevocationData"
<1> DEFINE said == {manifest[i].answer : i \in Covering}
<1>0. FixedInv /\ CounterInv /\ AskedInv /\ PastInv
  BY DEF CheckInv
<1>1. /\ Len(manifest) \in Nat /\ DOMAIN manifest = 1 .. Len(manifest)
      /\ Len(query) \in Nat /\ DOMAIN query = 1 .. Len(query)
  BY <1>0, FixedFacts
<1>2. sct - 1 = Len(query) /\ seen \subseteq 0 .. Len(manifest) - 1 /\ good \in BOOLEAN
  BY <1>0, <1>1 DEF CounterInv, TypeOK
<1>3. \A i \in Covering : i \in DOMAIN manifest /\ i - 1 \in seen
  <2> SUFFICES ASSUME NEW i \in Covering PROVE i \in DOMAIN manifest /\ i - 1 \in seen
    OBVIOUS
  <2>1. PICK k \in DOMAIN query : i \in DOMAIN manifest /\ Hit(manifest, query, i, k)
    BY <1>0, CoveringIsHit
  <2>2. k \in 1 .. sct - 1
    BY <1>1, <1>2
  <2> QED BY <1>0, <2>1, <2>2 DEF PastInv
<1>4. \A i \in Covering : (i - 1) + 1 = i
  BY <1>1, <1>3
<1>5. /\ \A j \in seen : j + 1 \in Covering /\ manifest[j + 1].answer # "Revoked"
      /\ good <=> \E j \in seen : manifest[j + 1].answer = "Good"
  BY <1>0 DEF AskedInv
<1>6. "Revoked" \notin said
  BY <1>3, <1>4, <1>5
<1>7. "Good" \in said <=> good
  <2>1. ASSUME good PROVE "Good" \in said
    BY <1>5, <2>1
  <2>2. ASSUME "Good" \in said PROVE good
    <3>1. PICK i \in Covering : manifest[i].answer = "Good"
      BY <2>2
    <3>2. i - 1 \in seen /\ manifest[(i - 1) + 1].answer = "Good"
      BY <1>3, <1>4, <3>1
    <3> QED BY <1>5, <3>2
  <2> QED BY <2>1, <2>2
<1>8. Reference = IF "Revoked" \in said THEN "CertainlyRevoked"
                  ELSE IF "Good" \in said THEN "NotRevoked" ELSE "NotCoveredByRevocationData"
  BY DEF Reference
<1> HIDE DEF said
<1> QED BY <1>2, <1>6, <1>7, <1>8

\* The outer loop: a search starts with all of the directory.
LEMMA NextSctKeeps ==
    ASSUME CheckInv, NextSct
    PROVE  CheckInv'
<1>0. FixedInv /\ CounterInv /\ AskedInv /\ PastInv /\ pc = "sct"
  BY DEF CheckInv, NextSct
<1>1. /\ FixedInv' /\ Covering' = Covering /\ Reference' = Reference
      /\ manifest' = manifest /\ query' = query /\ file' = file /\ len' = len
  BY <1>0, FixedStays DEF NextSct
<1>2. sct' = sct /\ at' = at /\ rest' = rest /\ seen' = seen /\ good' = good
  BY DEF NextSct
<1>3. file.num_logs \in Nat /\ Len(query) \in Nat
  BY <1>0, FixedFacts
<1>4. CASE sct <= Len(query)
  <2>1. pc' = "search" /\ lo' = 0 /\ hi' = file.num_logs /\ result' = result
    BY <1>4 DEF NextSct
  <2>2. CounterInv'
    BY <1>0, <1>1, <1>2, <1>3, <1>4, <2>1 DEF CounterInv, TypeOK
  <2>3. SearchSound'
    BY <1>1, <1>2, <1>3, <2>1 DEF SearchSound
  <2>4. AskedInv' /\ PastInv' /\ RestInv' /\ NeverWrong' /\ NeverFails'
    BY <1>0, <1>1, <1>2, <2>1 DEF AskedInv, PastInv, RestInv, NeverWrong, NeverFails
  <2> QED BY <1>1, <2>2, <2>3, <2>4 DEF CheckInv
<1>5. CASE ~(sct <= Len(query))
  <2>1. /\ pc' = "done" /\ lo' = lo /\ hi' = hi
        /\ result' = IF good THEN "NotRevoked" ELSE "NotCoveredByRevocationData"
    BY <1>5 DEF NextSct, Return
  <2>2. result' = Reference
    BY <1>0, <1>5, <2>1, VerdictRight
  <2>3. CounterInv'
    BY <1>0, <1>1, <1>2, <2>1 DEF CounterInv, TypeOK
  <2>4. AskedInv' /\ PastInv' /\ RestInv' /\ SearchSound' /\ NeverWrong' /\ NeverFails'
    BY <1>0, <1>1, <1>2, <2>1, <2>2
       DEF AskedInv, PastInv, RestInv, SearchSound, NeverWrong, NeverFails
  <2> QED BY <1>1, <2>3, <2>4 DEF CheckInv
<1> QED BY <1>4, <1>5

\* Moving on to the next SCT when all filters that cover this one were asked.
LEMMA PastOne ==
    ASSUME FixedInv, CounterInv, PastInv, pc # "done", pc' # "done",
           UNCHANGED <<manifest, query, seen>>, sct' = sct + 1,
           \A i \in DOMAIN manifest : Hit(manifest, query, i, sct) => i - 1 \in seen
    PROVE  PastInv'
<1>1. sct \in Nat
  BY FixedFacts DEF CounterInv, TypeOK
<1>2. \A k \in 1 .. (sct + 1) - 1 : k \in 1 .. sct - 1 \/ k = sct
  BY <1>1
<1> QED BY <1>1, <1>2 DEF PastInv

\* The binary search.
LEMMA SearchKeeps ==
    ASSUME CheckInv, Search
    PROVE  CheckInv'
<1> DEFINE mid == lo + (hi - lo) \div 2
           log == query[sct].log_id
<1>0. FixedInv /\ CounterInv /\ AskedInv /\ PastInv /\ SearchSound /\ pc = "search"
  BY DEF CheckInv, Search
<1>1. /\ FixedInv' /\ Covering' = Covering /\ Reference' = Reference
      /\ manifest' = manifest /\ query' = query /\ file' = file /\ len' = len
  BY <1>0, FixedStays DEF Search
<1>2. rest' = rest /\ seen' = seen /\ good' = good /\ result' = result
  BY DEF Search
<1>3. /\ file.num_logs \in Nat /\ Len(query) \in Nat /\ DOMAIN query = 1 .. Len(query)
      /\ \A k \in DOMAIN query : query[k].log_id \in Nat
  BY <1>0, FixedFacts
<1>4. sct \in 1 .. Len(query) /\ lo \in Nat /\ hi \in Nat /\ lo <= hi /\ hi <= file.num_logs
  BY <1>0, <1>3 DEF CounterInv, TypeOK
<1>5. /\ \A k \in 1 .. file.num_logs : file.dir[k].log_id \in Nat
      /\ \A j, k \in 1 .. file.num_logs : j < k => file.dir[j].log_id < file.dir[k].log_id
      /\ \A i \in DOMAIN manifest : \A l \in DOMAIN manifest[i].universe :
           \E k \in 1 .. file.num_logs : file.dir[k].log_id = l
  BY <1>0, DirectoryFound DEF FixedInv
<1>6. \A k \in 1 .. file.num_logs : file.dir[k].log_id = log => lo < k /\ k <= hi
  BY <1>0 DEF SearchSound
<1>7. log \in Nat
  BY <1>3, <1>4
<1>8. lo < hi => mid \in Nat /\ lo <= mid /\ mid < hi /\ mid + 1 \in 1 .. file.num_logs
  BY <1>3, <1>4
<1>9. \/ lo >= hi /\ pc' = "sct" /\ sct' = sct + 1 /\ lo' = lo /\ hi' = hi /\ at' = at
      \/ /\ lo < hi /\ file.dir[mid + 1].log_id = log
         /\ pc' = "section" /\ at' = mid /\ sct' = sct /\ lo' = lo /\ hi' = hi
      \/ /\ lo < hi /\ file.dir[mid + 1].log_id # log
         /\ pc' = pc /\ sct' = sct /\ at' = at
         /\ lo' = IF file.dir[mid + 1].log_id < log THEN mid + 1 ELSE lo
         /\ hi' = IF file.dir[mid + 1].log_id < log THEN hi ELSE mid
  BY DEF Search, Half
<1>10. AskedInv' /\ RestInv' /\ NeverWrong' /\ NeverFails'
  BY <1>0, <1>1, <1>2, <1>9 DEF AskedInv, RestInv, NeverWrong, NeverFails
<1> HIDE DEF mid, log
<1>11. CASE lo >= hi /\ pc' = "sct" /\ sct' = sct + 1 /\ lo' = lo /\ hi' = hi /\ at' = at
  <2>1. \A i \in DOMAIN manifest : ~Hit(manifest, query, i, sct)
    <3> SUFFICES ASSUME NEW i \in DOMAIN manifest, log \in DOMAIN manifest[i].universe
                 PROVE  FALSE
      BY DEF Hit, With, log
    <3>1. PICK k \in 1 .. file.num_logs : file.dir[k].log_id = log
      BY <1>5
    <3> QED BY <1>3, <1>4, <1>6, <1>11, <3>1
  <2>2. PastInv'
    BY <1>0, <1>1, <1>2, <1>11, <2>1, PastOne
  <2>3. CounterInv'
    BY <1>0, <1>1, <1>2, <1>3, <1>4, <1>11 DEF CounterInv, TypeOK
  <2>4. SearchSound'
    BY <1>11 DEF SearchSound
  <2> QED BY <1>1, <1>10, <2>2, <2>3, <2>4 DEF CheckInv
<1>12. CASE /\ lo < hi /\ file.dir[mid + 1].log_id = log
            /\ pc' = "section" /\ at' = mid /\ sct' = sct /\ lo' = lo /\ hi' = hi
  <2>1. mid \in 0 .. file.num_logs /\ mid < file.num_logs
    BY <1>3, <1>4, <1>8, <1>12
  <2>2. CounterInv'
    BY <1>0, <1>1, <1>2, <1>4, <1>12, <2>1 DEF CounterInv, TypeOK, log
  <2>3. SearchSound' /\ PastInv'
    BY <1>0, <1>1, <1>2, <1>12 DEF SearchSound, PastInv
  <2> QED BY <1>1, <1>10, <2>2, <2>3 DEF CheckInv
<1>13. CASE /\ lo < hi /\ file.dir[mid + 1].log_id # log
            /\ pc' = pc /\ sct' = sct /\ at' = at
            /\ lo' = IF file.dir[mid + 1].log_id < log THEN mid + 1 ELSE lo
            /\ hi' = IF file.dir[mid + 1].log_id < log THEN hi ELSE mid
  <2>1. lo' \in Nat /\ hi' \in Nat /\ lo' <= hi' /\ hi' <= file.num_logs
    BY <1>3, <1>4, <1>8, <1>13
  <2>2. CounterInv'
    BY <1>0, <1>1, <1>2, <1>13, <2>1 DEF CounterInv, TypeOK
  <2>3. ASSUME NEW k \in 1 .. file.num_logs, file.dir[k].log_id = log
        PROVE  lo' < k /\ k <= hi'
    <3>1. lo < k /\ k <= hi /\ k # mid + 1
      BY <1>6, <1>13, <2>3
    <3>2. CASE file.dir[mid + 1].log_id < log
      <4>1. ~(k < mid + 1)
        BY <1>5, <1>7, <1>8, <1>13, <2>3, <3>2
      <4> QED BY <1>4, <1>8, <1>13, <3>1, <3>2, <4>1
    <3>3. CASE ~(file.dir[mid + 1].log_id < log)
      <4>1. ~(mid + 1 < k)
        BY <1>5, <1>7, <1>8, <1>13, <2>3, <3>3
      <4> QED BY <1>4, <1>8, <1>13, <3>1, <3>3, <4>1
    <3> QED BY <3>2, <3>3
  <2>4. SearchSound'
    BY <1>1, <1>13, <2>3 DEF SearchSound, log
  <2>5. PastInv'
    BY <1>0, <1>1, <1>2, <1>13 DEF PastInv
  <2> QED BY <1>1, <1>10, <2>2, <2>4, <2>5 DEF CheckInv
<1> QED BY <1>9, <1>11, <1>12, <1>13

\* Reading the section of the log that the search found.
LEMMA ReadSectionKeeps ==
    ASSUME CheckInv, ReadSection
    PROVE  CheckInv'
<1> DEFINE e == file.dir[at + 1]
           log == query[sct].log_id
           es == EntriesAt(file, e.offset, e.num)
           end == e.offset + e.num * ENTRY_SIZE(file.magic)
<1>0. FixedInv /\ CounterInv /\ AskedInv /\ PastInv /\ pc = "section"
  BY DEF CheckInv, ReadSection
<1>1. /\ FixedInv' /\ Covering' = Covering /\ Reference' = Reference
      /\ manifest' = manifest /\ query' = query /\ file' = file /\ len' = len
  BY <1>0, FixedStays DEF ReadSection
<1>2. sct' = sct /\ lo' = lo /\ hi' = hi /\ at' = at /\ seen' = seen /\ good' = good
  BY DEF ReadSection
<1>3. file.num_logs \in Nat
  BY <1>0, FixedFacts
<1>4. at + 1 \in 1 .. file.num_logs /\ e.log_id = log
  BY <1>0, <1>3 DEF CounterInv, TypeOK
<1>5. end <= FullLength(file) /\ IsSection(es, file, manifest, log)
  <2>1. manifest \in Manifests /\ IsIndexOf(file, manifest)
    BY <1>0 DEF FixedInv
  <2> QED BY <1>4, <2>1, SectionFound
<1>6. \/ end > len /\ pc' = "done" /\ result' = "IndexDecode" /\ rest' = rest
      \/ ~(end > len) /\ pc' = "entry" /\ rest' = es /\ result' = result
  BY DEF ReadSection, Return
<1>e. e.offset \in Nat /\ e.num \in Nat
  <2>1. manifest \in Manifests /\ IsIndexOf(file, manifest)
    BY <1>0 DEF FixedInv
  <2> QED BY <1>4, <2>1, SectionFound
<1>n. end \in Nat
  <2> DEFINE o == e.offset
             w == e.num
             size == ENTRY_SIZE(file.magic)
  <2>1. size \in {17, 18}
    BY <1>3, Sizes
  <2>2. o \in Nat /\ w \in Nat
    BY <1>e
  <2> HIDE DEF o, w, size
  <2>3. o + w * size \in Nat
    <3>1. CASE size = 17
      BY <2>2, <3>1
    <3>2. CASE size = 18
      BY <2>2, <3>2
    <3> QED BY <2>1, <3>1, <3>2
  <2> QED BY <2>3 DEF o, w, size
<1>7. CounterInv'
  BY <1>0, <1>1, <1>2, <1>6 DEF CounterInv, TypeOK
<1> HIDE DEF e, es, end
<1>8. AskedInv' /\ PastInv' /\ SearchSound' /\ NeverWrong'
  BY <1>0, <1>1, <1>2, <1>6 DEF AskedInv, PastInv, SearchSound, NeverWrong
<1>9. RestInv'
  <2> SUFFICES ASSUME pc' = "entry"
               PROVE  /\ es \in Seq(EntryRecord)
                      /\ \A r \in DOMAIN es : \E i \in DOMAIN manifest :
                           Stands(es[r], manifest, i, log)
                      /\ \A i \in DOMAIN manifest : Hit(manifest, query, i, sct) =>
                           \E r \in DOMAIN es : Stands(es[r], manifest, i, log)
                      /\ Untouched(file, manifest) =>
                           \A r \in DOMAIN es : es[r].filter < Len(manifest)
    <3>1. pc' = "entry" => rest' = es
      BY <1>6
    <3> HIDE DEF log
    <3> QED BY <1>1, <1>2, <3>1 DEF RestInv, log
  <2>1. \A i \in DOMAIN manifest : Hit(manifest, query, i, sct) => i \in With(manifest, log)
    BY DEF Hit
  <2> QED BY <1>5, <2>1 DEF IsSection
<1>10. NeverFails'
  <2>1. len = FullLength(file) => ~(end > len)
    <3>1. len \in Nat
      BY <1>0 DEF FixedInv
    <3> QED BY <1>5, <1>n, <3>1
  <2> QED BY <1>1, <1>6, <2>1 DEF NeverFails
<1> QED BY <1>1, <1>7, <1>8, <1>9, <1>10 DEF CheckInv

\* All entries of the section were looked at.
LEMMA EndOfSectionKeeps ==
    ASSUME CheckInv, EndOfSection
    PROVE  CheckInv'
<1>0. FixedInv /\ CounterInv /\ AskedInv /\ PastInv /\ RestInv /\ pc = "entry" /\ rest = << >>
  BY DEF CheckInv, EndOfSection
<1>1. /\ FixedInv' /\ Covering' = Covering /\ Reference' = Reference
      /\ manifest' = manifest /\ query' = query /\ file' = file /\ len' = len
  BY <1>0, FixedStays DEF EndOfSection
<1>2. /\ pc' = "sct" /\ sct' = sct + 1 /\ lo' = lo /\ hi' = hi /\ at' = at /\ rest' = rest
      /\ seen' = seen /\ good' = good /\ result' = result
  BY DEF EndOfSection
<1>3. \A i \in DOMAIN manifest : Hit(manifest, query, i, sct) => i - 1 \in seen
  <2>1. DOMAIN rest = {}
    BY <1>0
  <2> QED BY <1>0, <2>1 DEF RestInv
<1>4. PastInv'
  BY <1>0, <1>1, <1>2, <1>3, PastOne
<1>5. Len(query) \in Nat
  BY <1>0, FixedFacts
<1>6. CounterInv'
  BY <1>0, <1>1, <1>2, <1>5 DEF CounterInv, TypeOK
<1>7. AskedInv' /\ RestInv' /\ SearchSound' /\ NeverWrong' /\ NeverFails'
  BY <1>0, <1>1, <1>2 DEF AskedInv, RestInv, SearchSound, NeverWrong, NeverFails
<1> QED BY <1>1, <1>4, <1>6, <1>7 DEF CheckInv

\* An entry that covers the SCT and is in bounds is that of the filter it names.
LEMMA EntryNames ==
    ASSUME FixedInv, NEW k \in DOMAIN query, NEW e \in EntryRecord,
           NEW i \in DOMAIN manifest, Stands(e, manifest, i, query[k].log_id)
    PROVE  /\ Hit(manifest, query, i, k) <=> Covers(e, query[k])
           /\ ~OutOfBounds(e.filter) => e.filter = i - 1
<1>1. Len(manifest) \in Nat /\ file.num_filenames = Len(manifest)
  BY FixedFacts
<1>2. e.filter \in Nat
  BY DEF EntryRecord
<1>3. Hit(manifest, query, i, k) <=> Covers(e, query[k])
  BY DEF Hit, Stands, Covers
<1>4. ~OutOfBounds(e.filter) => e.filter < Len(manifest)
  BY <1>1, <1>2 DEF OutOfBounds
<1>5. e.filter = i - 1 \/ e.filter = Len(manifest)
  BY DEF Stands
<1>6. ~OutOfBounds(e.filter) => e.filter = i - 1
  BY <1>1, <1>2, <1>4, <1>5
<1> QED BY <1>3, <1>6

\* Going past an entry: of the filters that cover the SCT, only its own may be
\* missing from the rest.
LEMMA EntryPassed ==
    ASSUME FixedInv, RestInv, pc = "entry", rest # << >>
    PROVE  /\ Head(rest) \in EntryRecord
           /\ \E i \in DOMAIN manifest : Stands(Head(rest), manifest, i, query[sct].log_id)
           /\ Untouched(file, manifest) => Head(rest).filter < Len(manifest)
           /\ Tail(rest) \in Seq(EntryRecord)
           /\ \A r \in DOMAIN Tail(rest) : \E i \in DOMAIN manifest :
                Stands(Tail(rest)[r], manifest, i, query[sct].log_id)
           /\ Untouched(file, manifest) =>
                \A r \in DOMAIN Tail(rest) : Tail(rest)[r].filter < Len(manifest)
           /\ \A i \in DOMAIN manifest : Hit(manifest, query, i, sct) =>
                \/ i - 1 \in seen \/ Stands(Head(rest), manifest, i, query[sct].log_id)
                \/ \E r \in DOMAIN Tail(rest) : Stands(Tail(rest)[r], manifest, i, query[sct].log_id)
<1> DEFINE l == query[sct].log_id
           t == Tail(rest)
<1>1. /\ rest \in Seq(EntryRecord)
      /\ \A r \in DOMAIN rest : \E i \in DOMAIN manifest : Stands(rest[r], manifest, i, l)
      /\ \A i \in DOMAIN manifest : Hit(manifest, query, i, sct) =>
           i - 1 \in seen \/ \E r \in DOMAIN rest : Stands(rest[r], manifest, i, l)
      /\ Untouched(file, manifest) => \A r \in DOMAIN rest : rest[r].filter < Len(manifest)
  BY DEF RestInv
<1>2. Len(rest) \in Nat /\ Len(rest) > 0 /\ DOMAIN rest = 1 .. Len(rest)
  BY <1>1
<1>3. t \in Seq(EntryRecord) /\ Len(t) = Len(rest) - 1 /\ DOMAIN t = 1 .. Len(rest) - 1
      /\ \A r \in 1 .. Len(rest) - 1 : t[r] = rest[r + 1]
  BY <1>1, <1>2
<1>4. Head(rest) = rest[1] /\ 1 \in DOMAIN rest /\ rest[1] \in EntryRecord
  BY <1>1, <1>2
<1>5. \A r \in DOMAIN t : r + 1 \in DOMAIN rest /\ t[r] = rest[r + 1]
  BY <1>2, <1>3
<1>6. \A r \in DOMAIN rest : r = 1 \/ (r - 1 \in DOMAIN t /\ rest[r] = t[r - 1])
  <2>1. \A r \in 1 .. Len(rest) : r = 1 \/ (r - 1 \in 1 .. Len(rest) - 1 /\ (r - 1) + 1 = r)
    BY <1>2
  <2> QED BY <1>2, <1>3, <2>1
<1> HIDE DEF t, l
<1>7. \A r \in DOMAIN t : \E i \in DOMAIN manifest : Stands(t[r], manifest, i, l)
  BY <1>1, <1>5
<1>8. Untouched(file, manifest) => \A r \in DOMAIN t : t[r].filter < Len(manifest)
  BY <1>1, <1>5
<1>9. ASSUME NEW i \in DOMAIN manifest, Hit(manifest, query, i, sct), i - 1 \notin seen
      PROVE  \/ Stands(Head(rest), manifest, i, l)
             \/ \E r \in DOMAIN t : Stands(t[r], manifest, i, l)
  <2>1. PICK r \in DOMAIN rest : Stands(rest[r], manifest, i, l)
    BY <1>1, <1>9
  <2> QED BY <1>4, <1>6, <2>1
<1>10. /\ \E i \in DOMAIN manifest : Stands(Head(rest), manifest, i, l)
       /\ Untouched(file, manifest) => Head(rest).filter < Len(manifest)
  BY <1>1, <1>4
<1> QED BY <1>3, <1>4, <1>7, <1>8, <1>9, <1>10 DEF t, l

\* One entry of the section.
LEMMA EntryKeeps ==
    ASSUME CheckInv, Entry
    PROVE  CheckInv'
<1> DEFINE e == Head(rest)
           l == query[sct].log_id
           t == Tail(rest)
<1>0. FixedInv /\ CounterInv /\ AskedInv /\ PastInv /\ RestInv /\ pc = "entry" /\ rest # << >>
  BY DEF CheckInv, Entry
<1>1. /\ FixedInv' /\ Covering' = Covering /\ Reference' = Reference
      /\ manifest' = manifest /\ query' = query /\ file' = file /\ len' = len
  BY <1>0, FixedStays DEF Entry
<1>2. sct' = sct /\ lo' = lo /\ hi' = hi /\ at' = at /\ rest' = t
  BY DEF Entry
<1>3. /\ e \in EntryRecord /\ t \in Seq(EntryRecord)
      /\ \E i \in DOMAIN manifest : Stands(e, manifest, i, l)
      /\ Untouched(file, manifest) => e.filter < Len(manifest)
      /\ \A r \in DOMAIN t : \E i \in DOMAIN manifest : Stands(t[r], manifest, i, l)
      /\ Untouched(file, manifest) => \A r \in DOMAIN t : t[r].filter < Len(manifest)
      /\ \A i \in DOMAIN manifest : Hit(manifest, query, i, sct) =>
           \/ i - 1 \in seen \/ Stands(e, manifest, i, l)
           \/ \E r \in DOMAIN t : Stands(t[r], manifest, i, l)
  BY <1>0, EntryPassed
<1>4. /\ Len(manifest) \in Nat /\ DOMAIN manifest = 1 .. Len(manifest)
      /\ Len(query) \in Nat /\ DOMAIN query = 1 .. Len(query)
      /\ file.num_filenames = Len(manifest)
  BY <1>0, FixedFacts
<1>5. sct \in DOMAIN query
  BY <1>0, <1>4 DEF CounterInv, TypeOK
<1>6. \A i \in DOMAIN manifest : Stands(e, manifest, i, l) =>
        /\ Hit(manifest, query, i, sct) <=> Covers(e, query[sct])
        /\ ~OutOfBounds(e.filter) => e.filter = i - 1
  BY <1>0, <1>3, <1>5, EntryNames
<1>7. \/ /\ ~Covers(e, query[sct])
         /\ pc' = pc /\ seen' = seen /\ good' = good /\ result' = result
      \/ /\ Covers(e, query[sct]) /\ OutOfBounds(e.filter)
         /\ pc' = "done" /\ result' = "IndexDecode" /\ seen' = seen /\ good' = good
      \/ /\ ~OutOfBounds(e.filter) /\ e.filter \in seen
         /\ pc' = pc /\ seen' = seen /\ good' = good /\ result' = result
      \/ /\ Covers(e, query[sct]) /\ ~OutOfBounds(e.filter)
         /\ seen' = seen \cup {e.filter}
         /\ \/ /\ manifest[e.filter + 1].answer = "Revoked"
               /\ pc' = "done" /\ result' = "CertainlyRevoked" /\ good' = good
            \/ /\ manifest[e.filter + 1].answer # "Revoked"
               /\ pc' = pc /\ result' = result
               /\ good' = (good \/ manifest[e.filter + 1].answer = "Good")
  BY DEF Entry, Return
<1> HIDE DEF e, l, t
<1>8. ASSUME pc' = "entry",
             \A i \in DOMAIN manifest :
               Hit(manifest, query, i, sct) /\ Stands(e, manifest, i, l) => i - 1 \in seen',
             seen \subseteq seen'
      PROVE  RestInv'
  BY <1>1, <1>2, <1>3, <1>8 DEF RestInv, l
<1>9. CASE /\ pc' = pc /\ seen' = seen /\ good' = good /\ result' = result
           /\ ~Covers(e, query[sct]) \/ (~OutOfBounds(e.filter) /\ e.filter \in seen)
  <2>1. RestInv'
    BY <1>0, <1>6, <1>8, <1>9
  <2>2. CounterInv'
    BY <1>0, <1>1, <1>2, <1>9 DEF CounterInv, TypeOK
  <2>3. AskedInv' /\ PastInv' /\ SearchSound' /\ NeverWrong' /\ NeverFails'
    BY <1>0, <1>1, <1>2, <1>9 DEF AskedInv, PastInv, SearchSound, NeverWrong, NeverFails
  <2> QED BY <1>1, <2>1, <2>2, <2>3 DEF CheckInv
<1>10. CASE /\ OutOfBounds(e.filter)
            /\ pc' = "done" /\ result' = "IndexDecode" /\ seen' = seen /\ good' = good
  <2>1. ~Untouched(file, manifest)
    <3>1. e.filter \in Nat
      BY <1>3 DEF EntryRecord
    <3> QED BY <1>3, <1>4, <1>10, <3>1 DEF OutOfBounds
  <2>2. NeverFails'
    BY <1>1, <2>1 DEF NeverFails, Untouched
  <2>3. CounterInv'
    BY <1>0, <1>1, <1>2, <1>10 DEF CounterInv, TypeOK
  <2>4. AskedInv' /\ PastInv' /\ RestInv' /\ SearchSound' /\ NeverWrong'
    BY <1>0, <1>1, <1>2, <1>10 DEF AskedInv, PastInv, RestInv, SearchSound, NeverWrong
  <2> QED BY <1>1, <2>2, <2>3, <2>4 DEF CheckInv
<1>11. CASE /\ Covers(e, query[sct]) /\ ~OutOfBounds(e.filter) /\ seen' = seen \cup {e.filter}
            /\ \/ /\ manifest[e.filter + 1].answer = "Revoked"
                  /\ pc' = "done" /\ result' = "CertainlyRevoked" /\ good' = good
               \/ /\ manifest[e.filter + 1].answer # "Revoked"
                  /\ pc' = pc /\ result' = result
                  /\ good' = (good \/ manifest[e.filter + 1].answer = "Good")
  <2>1. PICK i \in DOMAIN manifest : Stands(e, manifest, i, l)
    BY <1>3
  <2>2. e.filter = i - 1 /\ Hit(manifest, query, i, sct)
    BY <1>6, <1>11, <2>1
  <2>3. e.filter + 1 = i /\ e.filter \in 0 .. Len(manifest) - 1
    BY <1>4, <2>2
  <2>4. i \in Covering
    BY <1>0, <1>5, <2>2, CoveringIsHit
  <2>5. CounterInv'
    BY <1>0, <1>1, <1>2, <1>11, <2>3 DEF CounterInv, TypeOK
  <2>6. \A j \in seen' : j + 1 \in Covering
    BY <1>0, <1>11, <2>3, <2>4 DEF AskedInv
  <2>7. CASE manifest[i].answer = "Revoked"
    <3>1. pc' = "done" /\ result' = "CertainlyRevoked"
      BY <1>11, <2>3, <2>7
    <3>2. Reference = "CertainlyRevoked"
      BY <2>4, <2>7 DEF Reference
    <3>3. AskedInv' /\ PastInv' /\ RestInv' /\ SearchSound' /\ NeverWrong' /\ NeverFails'
      BY <1>1, <2>6, <3>1, <3>2
         DEF AskedInv, PastInv, RestInv, SearchSound, NeverWrong, NeverFails
    <3> QED BY <1>1, <2>5, <3>3 DEF CheckInv
  <2>8. CASE manifest[i].answer # "Revoked"
    <3>1. pc' = "entry" /\ result' = result /\ good' = (good \/ manifest[i].answer = "Good")
      BY <1>0, <1>11, <2>3, <2>8
    <3>2. /\ \A j \in seen' : manifest[j + 1].answer # "Revoked"
          /\ good' <=> \E j \in seen' : manifest[j + 1].answer = "Good"
      <4>1. /\ \A j \in seen : manifest[j + 1].answer # "Revoked"
            /\ good <=> \E j \in seen : manifest[j + 1].answer = "Good"
        BY <1>0 DEF AskedInv
      <4> QED BY <1>11, <2>3, <2>8, <3>1, <4>1
    <3>3. AskedInv'
      BY <1>1, <2>6, <3>2 DEF AskedInv
    <3>4. RestInv'
      <4>1. \A x \in DOMAIN manifest : Stands(e, manifest, x, l) => x - 1 \in seen'
        BY <1>6, <1>11
      <4> QED BY <1>8, <1>11, <3>1, <4>1
    <3>5. PastInv' /\ SearchSound' /\ NeverWrong' /\ NeverFails'
      BY <1>0, <1>1, <1>2, <1>11, <3>1 DEF PastInv, SearchSound, NeverWrong, NeverFails
    <3> QED BY <1>1, <2>5, <3>3, <3>4, <3>5 DEF CheckInv
  <2> QED BY <2>7, <2>8
<1> QED BY <1>7, <1>9, <1>10, <1>11

-------------------------------------------------------------------------------
(***************************************************************************)
(* The theorems.                                                           *)
(***************************************************************************)
LEMMA StutterKeeps ==
    ASSUME CheckInv, UNCHANGED vars
    PROVE  CheckInv'
<1>1. UNCHANGED fixed /\ UNCHANGED <<pc, sct, lo, hi, at, rest, seen, good, result>>
  BY DEF vars, fixed
<1>2. /\ FixedInv' /\ Covering' = Covering /\ Reference' = Reference
      /\ manifest' = manifest /\ query' = query /\ file' = file /\ len' = len
  BY <1>1, FixedStays DEF CheckInv
<1>3. CounterInv' /\ AskedInv' /\ PastInv' /\ RestInv'
  BY <1>1, <1>2 DEF CheckInv, CounterInv, TypeOK, AskedInv, PastInv, RestInv
<1>4. SearchSound' /\ NeverWrong' /\ NeverFails'
  BY <1>1, <1>2 DEF CheckInv, SearchSound, NeverWrong, NeverFails
<1> QED BY <1>2, <1>3, <1>4 DEF CheckInv

LEMMA CheckInvariant == Spec => []CheckInv
<1>1. CheckInv /\ [Next]_vars => CheckInv'
  BY FromCacheKeeps, NextSctKeeps, SearchKeeps, ReadSectionKeeps, EntryKeeps,
     EndOfSectionKeeps, StutterKeeps DEF Next
<1> QED BY <1>1, StartsRight, PTL DEF Spec

\* The counters of Index::check stay within the file, the query and the manifest
\* they index, for every file of the format, whole, torn or tampered with.
THEOREM TypeCorrect == Spec => []TypeOK
<1>1. CheckInv => TypeOK
  BY DEF CheckInv, CounterInv
<1> QED BY <1>1, CheckInvariant, PTL

\* The binary search of Index::check never discards the half of the directory that
\* holds the log, whatever logs the manifest has.
THEOREM SearchIsSound == Spec => []SearchSound
<1>1. CheckInv => SearchSound
  BY DEF CheckInv
<1> QED BY <1>1, CheckInvariant, PTL

\* Every verdict that Index::check gives through the index is the one that asking
\* every filter of the manifest would give, at whatever byte the file is cut and
\* whichever entries name a file that is not listed.
THEOREM VerdictsAreRight == Spec => []NeverWrong
<1>1. CheckInv => NeverWrong
  BY DEF CheckInv
<1> QED BY <1>1, CheckInvariant, PTL

\* What Index::write wrote, in either version of the format, Index::check reads to
\* the end: no offset, count or width sends it out of the file.
THEOREM WholeFilesAreRead == Spec => []NeverFails
<1>1. CheckInv => NeverFails
  BY DEF CheckInv
<1> QED BY <1>1, CheckInvariant, PTL
===============================================================================
