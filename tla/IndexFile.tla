------------------------------- MODULE IndexFile -------------------------------
(***************************************************************************)
(* index.bin: how Index::write lays it out, how Index::from_cache opens    *)
(* it, and how Index::check finds the filters to ask through it            *)
(* (upki/src/revocation/index.rs).                                         *)
(*                                                                         *)
(* The file is a record of its fields, in file order, and a length in      *)
(* bytes; every offset is computed in bytes as the code does, so that a    *)
(* file cut at any byte is a smaller length.  Log ids are numbers, ordered *)
(* as their bytes are; the filter files themselves are all readable here   *)
(* (RevocationCache is about the ones that are not).                       *)
(***************************************************************************)
EXTENDS Integers, Sequences, FiniteSets

CONSTANTS
    LogIds,      \* log ids
    Manifests,   \* sequences of filters: what the manifest's files contain
    Queries(_),  \* for a manifest, sequences of SCTs: input.sct_timestamps
    Versions,    \* the magics a file may start with
    Lost(_),     \* how many bytes may be missing at the end of a torn file
    Tampered(_), \* positions of entries that may name a file not listed
    U8, U16      \* 2^8 and 2^16, or smaller to reach the limit

ASSUME WidthAssumption == U8 \in Nat /\ U16 \in Nat /\ 0 < U8 /\ U8 <= U16
ASSUME LogAssumption == LogIds \subseteq Nat /\ IsFiniteSet(LogIds)

\* A filter: its universe, and what it answers for the certificate when one of
\* its SCTs is in the universe.
IsFilter(f) ==
    /\ DOMAIN f.universe \subseteq LogIds
    /\ \A l \in DOMAIN f.universe : f.universe[l].low \in Nat /\ f.universe[l].high \in Nat
    /\ f.answer \in {"Revoked", "Good", "NotEnrolled"}
IsSct(s) == s.log_id \in Nat /\ s.timestamp \in Nat
ASSUME ManifestAssumption ==
    \A m \in Manifests :
        /\ Len(m) \in Nat /\ Len(m) < U16
        /\ DOMAIN m = 1 .. Len(m) /\ \A i \in DOMAIN m : IsFilter(m[i])
        /\ Lost(m) \subseteq Nat
        /\ \A q \in Queries(m) :
             /\ Len(q) \in Nat
             /\ DOMAIN q = 1 .. Len(q) /\ \A k \in DOMAIN q : IsSct(q[k])
ASSUME VersionAssumption == Versions \subseteq {"upkiidx0", "upkiidx1", "wrongmag"}

FILENAME_SIZE == 32
LOG_DIR_ENTRY_SIZE == 32 + 8 + 2
HEADER_SIZE(magic) == IF magic = "upkiidx0" THEN 8 + 1 + 4 ELSE 8 + 2 + 4
ENTRY_SIZE(magic) == IF magic = "upkiidx0" THEN 1 + 8 + 8 ELSE 2 + 8 + 8
\* The numbers of files fit a u16; in the legacy format, a u8.
Width(magic) == IF magic = "upkiidx0" THEN U8 ELSE U16
\* `as u16`
Narrow(magic, n) == n % Width(magic)

(***************************************************************************)
(* Index::write                                                            *)
(***************************************************************************)
\* The k-th smallest member of a finite set of numbers.
Nth(S, k) == CHOOSE x \in S : Cardinality({y \in S : y <= x}) = k
InOrder(S) == [k \in 1 .. Cardinality(S) |-> Nth(S, k)]

\* The keys of the BTreeMap, and by_log_id[l]: the filters with l in their
\* universe, in manifest order.
Logs(m) == {l \in LogIds : \E i \in DOMAIN m : l \in DOMAIN m[i].universe}
With(m, l) == {i \in DOMAIN m : l \in DOMAIN m[i].universe}
SortedLogs(m) == InOrder(Logs(m))
Section(magic, m, l) ==
    [k \in 1 .. Cardinality(With(m, l)) |->
        LET i == InOrder(With(m, l))[k]
        IN [filter |-> Narrow(magic, i - 1),
            low |-> m[i].universe[l].low, high |-> m[i].universe[l].high]]

TablesEnd(magic, names, logs) ==
    HEADER_SIZE(magic) + names * FILENAME_SIZE + logs * LOG_DIR_ENTRY_SIZE

\* An entry for each filter of each log; how many are in the sections of the
\* logs before l.
Pairs(m) == {p \in LogIds \X DOMAIN m : p[1] \in DOMAIN m[p[2]].universe}
EntriesBefore(m, l) == Cardinality({p \in Pairs(m) : p[1] < l})

\* The bytes of the sections before the one of log l.
\* Mutant: its own section is counted too.
BytesUpTo(magic, m, l) ==
    (EntriesBefore(m, l) + Cardinality(With(m, l))) * ENTRY_SIZE(magic)
BytesBefore(magic, m, l) == EntriesBefore(m, l) * ENTRY_SIZE(magic)

\* The p-th entry of the file is in the section of the log that p falls to.
EntryOf(magic, m, p) ==
    LET l == CHOOSE x \in Logs(m) :
               /\ EntriesBefore(m, x) < p
               /\ p <= EntriesBefore(m, x) + Cardinality(With(m, x))
    IN Section(magic, m, l)[p - EntriesBefore(m, l)]

Write(magic, m) ==
    LET logs == SortedLogs(m)
        num_logs == Cardinality(Logs(m))
        start == TablesEnd(magic, Len(m), num_logs)
    IN [magic |-> magic,
        num_filenames |-> Narrow(magic, Len(m)),
        num_logs |-> num_logs,
        dir |-> [k \in 1 .. num_logs |->
                   [log_id |-> logs[k],
                    offset |-> start + BytesBefore(magic, m, logs[k]),
                    num |-> Cardinality(With(m, logs[k])) % U16]],
        entries |-> [p \in 1 .. Cardinality(Pairs(m)) |-> EntryOf(magic, m, p)]]

FullLength(f) ==
    TablesEnd(f.magic, f.num_filenames, f.num_logs) + Len(f.entries) * ENTRY_SIZE(f.magic)

\* The entries at byte `offset` of a file of this layout.
EntriesAt(f, offset, num) ==
    LET first == (offset - TablesEnd(f.magic, f.num_filenames, f.num_logs))
                   \div ENTRY_SIZE(f.magic)
    IN SubSeq(f.entries, first + 1, first + num)

(***************************************************************************)
(* One check.                                                              *)
(***************************************************************************)
VARIABLES
    manifest,  \* the filters the index was written for
    query,     \* the SCTs of the certificate
    file,      \* the fields of index.bin
    len,       \* its length in bytes: less than FullLength if it is torn
    pc,        \* "open", "sct", "search", "section", "entry" or "done"
    sct,       \* the SCT the outer loop is at
    lo, hi,    \* the bounds of the binary search
    at,        \* the position of the directory entry it found
    rest,      \* the entries of the section still to be looked at
    seen,      \* the filters asked so far
    good,      \* maybe_good
    result     \* what the check returned

vars == <<manifest, query, file, len, pc, sct, lo, hi, at, rest, seen,
          good, result>>
fixed == <<manifest, query, file, len>>

Init ==
    /\ manifest \in Manifests
    /\ query \in Queries(manifest)
    /\ \E magic \in {v \in Versions : Len(manifest) < Width(v)} :
         LET f == Write(magic, manifest)
         IN \/ file = f
            \/ \E bad \in Tampered(manifest) \cap DOMAIN f.entries :
                 file = [f EXCEPT !.entries[bad].filter = Len(manifest)]
    /\ \E lost \in Lost(manifest) :
         /\ lost <= FullLength(file)
         /\ len = FullLength(file) - lost
    /\ pc = "open"
    /\ sct = 1 /\ lo = 0 /\ hi = 0 /\ at = 0
    /\ rest = <<>> /\ seen = {} /\ good = FALSE
    /\ result = "none"

Return(r) == pc' = "done" /\ result' = r

\* Index::from_cache: magic, header, and tables no longer than the file.
FromCache ==
    /\ pc = "open"
    /\ IF \/ len < 8
          \/ file.magic \notin {"upkiidx0", "upkiidx1"}
          \/ len < HEADER_SIZE(file.magic)
          \/ TablesEnd(file.magic, file.num_filenames, file.num_logs) > len
       THEN Return("IndexDecode")
       ELSE pc' = "sct" /\ UNCHANGED result
    /\ UNCHANGED <<fixed, sct, lo, hi, at, rest, seen, good>>

\* The outer loop: the binary search for the next SCT's log, or the verdict.
NextSct ==
    /\ pc = "sct"
    /\ IF sct <= Len(query)
       THEN /\ pc' = "search" /\ lo' = 0 /\ hi' = file.num_logs
            /\ UNCHANGED result
       ELSE /\ Return(IF good THEN "NotRevoked" ELSE "NotCoveredByRevocationData")
            /\ UNCHANGED <<lo, hi>>
    /\ UNCHANGED <<fixed, sct, at, rest, seen, good>>

\* The bounds after a probe at mid that was before or after the log.
\* Mutants: the probe is skipped too far, left out twice, or kept.
HalfTooFar(mid, before) == IF before THEN <<mid + 2, hi>> ELSE <<lo, mid>>
HalfTooSmall(mid, before) == IF before THEN <<mid + 1, hi>> ELSE <<lo, mid - 1>>
HalfStuck(mid, before) == IF before THEN <<mid, hi>> ELSE <<lo, mid>>
Half(mid, before) == IF before THEN <<mid + 1, hi>> ELSE <<lo, mid>>

\* One turn of the binary search.
Search ==
    /\ pc = "search"
    /\ LET mid == lo + (hi - lo) \div 2
           log == query[sct].log_id
       IN \/ /\ lo >= hi
             /\ pc' = "sct" /\ sct' = sct + 1
             /\ UNCHANGED <<lo, hi, at>>
          \/ /\ lo < hi /\ file.dir[mid + 1].log_id = log
             /\ pc' = "section" /\ at' = mid
             /\ UNCHANGED <<sct, lo, hi>>
          \/ /\ lo < hi /\ file.dir[mid + 1].log_id # log
             /\ LET kept == Half(mid, file.dir[mid + 1].log_id < log)
                IN lo' = kept[1] /\ hi' = kept[2]
             /\ UNCHANGED <<pc, sct, at>>
    /\ UNCHANGED <<fixed, rest, seen, good, result>>

\* seek and read_exact of the log's entry section.
\* Mutant: what is left of a torn section is taken for all of it.
ReadSectionPart ==
    /\ pc = "section"
    /\ LET e == file.dir[at + 1]
           left == IF len < e.offset THEN 0
                   ELSE (len - e.offset) \div ENTRY_SIZE(file.magic)
       IN rest' = EntriesAt(file, e.offset, IF left < e.num THEN left ELSE e.num)
    /\ pc' = "entry"
    /\ UNCHANGED <<fixed, sct, lo, hi, at, seen, good, result>>
ReadSection ==
    /\ pc = "section"
    /\ LET e == file.dir[at + 1]
       IN IF e.offset + e.num * ENTRY_SIZE(file.magic) > len
          THEN Return("IndexDecode") /\ UNCHANGED rest
          ELSE /\ pc' = "entry" /\ rest' = EntriesAt(file, e.offset, e.num)
               /\ UNCHANGED result
    /\ UNCHANGED <<fixed, sct, lo, hi, at, seen, good>>

Covers(e, s) == e.low <= s.timestamp /\ s.timestamp <= e.high

\* filename(): `filter index out of bounds`
OutOfBounds(i) == i >= file.num_filenames

\* One entry: skipped unless it covers the SCT and names a filter that was not
\* asked yet; otherwise the filter is read and asked about all the SCTs.
Entry ==
    /\ pc = "entry"
    /\ rest # <<>>
    /\ LET e == Head(rest)
           skip == pc' = pc /\ UNCHANGED <<seen, good, result>>
       IN IF ~Covers(e, query[sct]) THEN skip
          ELSE IF OutOfBounds(e.filter)
          THEN Return("IndexDecode") /\ UNCHANGED <<seen, good>>
          ELSE IF e.filter \in seen THEN skip
          ELSE /\ seen' = seen \cup {e.filter}
               /\ LET answer == manifest[e.filter + 1].answer
                  IN IF answer = "Revoked"
                     THEN Return("CertainlyRevoked") /\ UNCHANGED good
                     ELSE /\ good' = (good \/ answer = "Good")
                          /\ UNCHANGED <<pc, result>>
    /\ rest' = Tail(rest)
    /\ UNCHANGED <<fixed, sct, lo, hi, at>>

EndOfSection ==
    /\ pc = "entry"
    /\ rest = <<>>
    /\ pc' = "sct" /\ sct' = sct + 1
    /\ UNCHANGED <<fixed, lo, hi, at, rest, seen, good, result>>

Next == FromCache \/ NextSct \/ Search \/ ReadSection \/ Entry \/ EndOfSection

Spec == Init /\ [][Next]_vars /\ WF_vars(Next)

(***************************************************************************)
(* Properties.                                                             *)
(***************************************************************************)
TypeOK ==
    /\ pc \in {"open", "sct", "search", "section", "entry", "done"}
    /\ sct \in 1 .. Len(query) + 1
    /\ 0 <= lo /\ lo <= hi /\ hi <= file.num_logs
    /\ at \in 0 .. file.num_logs
    /\ seen \subseteq 0 .. Len(manifest) - 1
    /\ good \in BOOLEAN
    /\ result \in {"none", "IndexDecode", "CertainlyRevoked", "NotRevoked",
                   "NotCoveredByRevocationData"}

\* The filters with one of the SCTs in their universe.
Covering ==
    {i \in DOMAIN manifest : \E k \in DOMAIN query :
        /\ query[k].log_id \in DOMAIN manifest[i].universe
        /\ LET u == manifest[i].universe[query[k].log_id]
           IN query[k].timestamp \in u.low .. u.high}

\* The verdict without an index: ask every filter of the manifest.
Reference ==
    LET said == {manifest[i].answer : i \in Covering}
    IN IF "Revoked" \in said THEN "CertainlyRevoked"
       ELSE IF "Good" \in said THEN "NotRevoked"
       ELSE "NotCoveredByRevocationData"

\* A verdict found through the index is the one that asking every filter would
\* give, even when the file is torn or an entry names a file that is not listed.
NeverWrong ==
    (pc = "done" /\ result # "IndexDecode") => result = Reference

\* A complete file, of either version, never fails to decode.
NeverFails ==
    (/\ pc = "done" /\ len = FullLength(file)
     /\ file.magic \in {"upkiidx0", "upkiidx1"}
     /\ \A k \in DOMAIN file.entries : file.entries[k].filter < Len(manifest))
        => result # "IndexDecode"

\* The binary search never discards the half that holds the log it looks for.
SearchSound ==
    pc = "search" =>
        \A k \in 1 .. file.num_logs :
            file.dir[k].log_id = query[sct].log_id => lo < k /\ k <= hi

\* Every check comes to an end.
Terminates == <>(pc = "done")
===============================================================================
