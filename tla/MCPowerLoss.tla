------------------------------ MODULE MCPowerLoss ------------------------------
(* An instance of PowerLoss for TLC. *)
EXTENDS PowerLoss, TLC

F1 == "f1.filter"
F2 == "f2.filter"
MCNames == {F1, F2}

\* "junk" does not decode; it is also what a file without its data holds.
MCContents == {"f1", "f2", "junk"}
MCDecodable == MCContents \ {"junk"}
Published == (F1 :> "f1") @@ (F2 :> "f2")
MCDigest == [c \in MCContents |-> "sha256 of " \o c]
MCHashes == {MCDigest[c] : c \in MCContents}

\* "x" was revoked after the first filter was made.
MCCerts == {"x"}
MCStatus ==
    [c \in MCContents |-> [x \in MCCerts |->
        CASE c = "f1" -> "Good" [] c = "f2" -> "Revoked" [] OTHER -> "NotCovered"]]

File(n) == [filename |-> n, hash |-> MCDigest[Published[n]], size |-> 1]
MCRelease == << <<File(F1)>>, <<File(F2)>> >>
===============================================================================
