------------------------------- MODULE MCMirror -------------------------------
(* An instance of Mirror for TLC. *)
EXTENDS Mirror

MCContents == {"f1", "d1", "d2", "e1", "f2", "c1"}
MCSizeOf == [c \in MCContents |-> IF c = "f1" THEN 2 ELSE 1]
MCNames == MCContents
MCBuckets == {"00.pem", "ff.pem"}

Item(id, parent, channel) ==
    [id |-> id, parent |-> parent, channel |-> channel, incremental |-> parent # None,
     filename |-> id, hash |-> Sha256(id), size |-> MCSizeOf[id]]
F1 == Item("f1", None, "Default")
D1 == Item("d1", "f1", "Default")
D2 == Item("d2", "d1", "Default")
E1 == Item("e1", "f1", "Default")   \* another child of the full filter
F2 == Item("f2", None, "Default")
C1 == Item("c1", None, "Compat")
Lied == [D1 EXCEPT !.size = 7]

Row(c, b) == [cert |-> c, bucket |-> b, ok |-> TRUE]
Report == <<Row("i1", "00.pem"), Row("i2", "ff.pem"), Row("i3", "00.pem")>>
Short == <<Row("i3", "00.pem")>>
Up(d, r) == [records |-> d, report |-> r]

\* A full filter of the other channel and one with two deltas, in every order;
\* a fork; nothing of the default channel; nothing at all.
MCUpstreams ==
    {Up(d, Short) : d \in {<<C1>> \o o : o \in SetToSeqs({F1, D1, D2})}
                            \cup {<<F1, D1, E1>>, <<F1, E1, D1>>, <<C1>>, <<>>}}
\* Later: the next full filter, which may still stand beside the last; a record
\* with a wrong size; a report with more buckets, or with a bad row.
MCUpdates ==
    {Up(<<F2, C1>>, Report), Up(<<F1, F2>>, Report), Up(<<Lied, F1>>, Short),
     Up(<<D1, F1>>, <<[Row("i1", "00.pem") EXCEPT !.ok = FALSE]>>)}
===============================================================================
