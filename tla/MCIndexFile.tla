------------------------------ MODULE MCIndexFile ------------------------------
(* An instance of IndexFile for TLC. *)
EXTENDS IndexFile

MCLogIds == 1 .. 10
Interval == [low : 0 .. 1, high : 1 .. 2]
Sct(ls) == [log_id : ls, timestamp : 0 .. 2]
Answers == {"Revoked", "Good", "NotEnrolled"}

\* Two filters over two logs, with every answer and partly overlapping ranges;
\* asked with every pair of SCTs.
TwoLogs ==
    LET U == UNION {[d -> Interval] : d \in SUBSET {2, 4}}
    IN {<<[universe |-> u, answer |-> a], [universe |-> v, answer |-> b]>> :
          u \in {w \in U : DOMAIN w # {}}, v \in U, a \in Answers, b \in {"Revoked", "Good"}}
PairQueries == {<<s, t>> : s \in Sct({2}), t \in Sct({2, 4})}

\* Directories of no to five logs, with gaps, and up to three filters: searched
\* for every log in or between, in a file that is cut at every byte.
Wide(d) == [universe |-> [l \in d |-> [low |-> 1, high |-> 1]], answer |-> "Good"]
Even(n) == {2 * k : k \in 1 .. n}
Directories ==
    {<<>>} \cup {<<Wide(Even(n))>> : n \in 1 .. 5}
           \cup {<<Wide({2}), Wide({1, 2, 5})>>, <<Wide({4}), Wide({2, 4}), Wide({3})>>}
SearchQueries == {<<>>} \cup {<<[log_id |-> l, timestamp |-> t]>> : l \in 0 .. 11, t \in 1 .. 2}

MCManifests == TwoLogs \cup Directories
MCQueries(m) == IF m \in Directories THEN SearchQueries ELSE PairQueries
MCLost(m) == IF m \in Directories THEN 0 .. 420 ELSE {0}
MCTampered(m) == IF m \in Directories THEN {1, 3} ELSE {}
===============================================================================
