--------------------------- MODULE MCRevocationCache ---------------------------
(* Instances of RevocationCache for TLC. *)
EXTENDS RevocationCache, TLC

\* A full filter with its delta, the next delta, and a new full filter; the
\* same under a name with another ending, which no fetch deletes.
F1 == "f1.filter"
D1 == "d1.delta"
D2 == "d2.delta"
F2 == "f2.filter"
F3 == "f3.clubcard"
MCNames == {F1, D1, D2, F2}
SerialNames == {F1, D1, D2, F3}
SerialDeletable == SerialNames \ {F3}

\* Contents are named after the file they are published as; "junk" does not
\* decode, "other" is a filter that nobody published.
MCContents == {"f1", "d1", "d2", "f2", "other", "junk"}
MCDecodable == MCContents \ {"junk"}
Published == (F1 :> "f1") @@ (D1 :> "d1") @@ (D2 :> "d2") @@ (F2 :> "f2")
               @@ (F3 :> "f2")
MCDigest == [c \in MCContents |-> "sha256 of " \o c]
MCHashes == {MCDigest[c] : c \in MCContents}

MCCerts == {"x", "y"}
MCStatus ==
    [c \in MCContents |-> [x \in MCCerts |->
        CASE x = "x" /\ c \in {"f1", "d1"} -> "Good"
          [] x = "x" /\ c \in {"d2", "f2"} -> "Revoked"
          [] x = "y" /\ c = "f1" -> "NotEnrolled"
          [] x = "y" /\ c = "f2" -> "Good"
          [] x = "y" /\ c = "other" -> "Revoked"
          [] OTHER -> "NotCovered"]]

File(n) == [filename |-> n, hash |-> MCDigest[Published[n]], size |-> 1]
SerialRelease ==
    << <<File(F1), File(D1)>>, <<File(F1), File(D2)>>, <<File(F3)>> >>
MCRelease2 == << <<File(F1), File(D1)>>, <<File(F2)>> >>

\* The smallest instance with something to replace, for the liveness of
\* overlapping fetches.
SmallNames == {F1, F2}
SmallContents == {"f1", "f2", "junk"}
SmallDecodable == SmallContents \ {"junk"}
SmallDigest == [c \in SmallContents |-> MCDigest[c]]
SmallStatus == [c \in SmallContents |-> MCStatus[c]]
SmallRelease == << <<File(F1)>>, <<File(F2)>> >>

\* The second release is a file that does not decode.
MCReleaseJunk == << <<File(F1)>>,
                    <<[filename |-> F2, hash |-> MCDigest["junk"], size |-> 1]>> >>

\* Fetches are interchangeable.
Symmetry == Permutations(Fetchers)
===============================================================================
