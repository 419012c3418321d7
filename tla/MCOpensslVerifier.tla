--------------------------- MODULE MCOpensslVerifier ---------------------------
(* Instances of OpensslVerifier for TLC. *)
EXTENDS OpensslVerifier, TLC

Good(s, i) == [parses |-> TRUE, scts |-> "good", subject |-> s, issuer |-> i]
Junk(s) == [parses |-> FALSE, scts |-> "bad list", subject |-> s, issuer |-> 9]
Leaf == Good(1, 2)
AllOk(certs) == [certs |-> certs, preverify |-> [d \in 0 .. Len(certs) |-> 1]]

Normal == AllOk(<<Leaf, Good(2, 3)>>)
\* The issuer is not next to the leaf, and a certificate after it is no good.
Shuffled == AllOk(<<Leaf, Good(3, 3), Good(2, 3), Junk(4)>>)
Lonely == AllOk(<<Leaf>>)
Broken == AllOk(<<Leaf, Junk(4), Good(2, 3)>>)
BadSct == AllOk(<<[Leaf EXCEPT !.scts = "bad entry"], Good(2, 3)>>)
BadSctList == AllOk(<<[Leaf EXCEPT !.scts = "bad list"], Good(2, 3)>>)
BadLeaf == AllOk(<<Junk(1), Good(2, 3)>>)
Empty == AllOk(<<>>)
Untrusted == [Normal EXCEPT !.preverify[1] = 0]
Expired == [Normal EXCEPT !.preverify[0] = 0]

MCChains == {Normal, Shuffled, Lonely, Broken, BadSct, BadSctList, BadLeaf, Empty,
             Untrusted, Expired}
\* The caches disagree about the leaf, and one of them does not cover it in a
\* longer chain; "noIndex" has no index that decodes.
MCSays == [d \in Dirs |-> [c \in MCChains |->
             CASE d = "revokes" -> "CertainlyRevoked"
               [] d = "passes" -> IF c = Shuffled THEN "NotCoveredByRevocationData"
                                  ELSE "NotRevoked"
               [] d = "noIndex" -> "IndexDecode"]]

\* Addresses and contexts are interchangeable.
Symmetry == Permutations(Pointers) \cup Permutations(Contexts)
===============================================================================
