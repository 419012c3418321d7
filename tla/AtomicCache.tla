------------------------------ MODULE AtomicCache ------------------------------
(***************************************************************************)
(* What the revocation cache promises to the programs that check           *)
(* certificates, without files, plans or processes that fetch: at any time *)
(* one release of the data is installed, it is replaced as a whole, and a  *)
(* check answers for the release that was installed when it began.         *)
(* RevocationCache implements this when fetches do not overlap.            *)
(***************************************************************************)
EXTENDS Naturals

CONSTANTS
    Checkers,     \* processes that check certificates
    Certs,        \* the certificates that are checked
    NumReleases,  \* releases of the data, numbered from 1 in their order
    Truth(_, _)   \* Truth(r, x): what release r says about certificate x

VARIABLES
    installed,    \* the release in use, 0 if there is none
    intact,       \* nothing but upki has touched the data
    check         \* check[c]: the check that c performs

vars == <<installed, intact, check>>

Idle(x, r, a) == [pc |-> "idle", cert |-> x, rel |-> r, answer |-> a]

Init ==
    /\ installed = 0
    /\ intact = TRUE
    /\ \E x \in Certs : check = [c \in Checkers |-> Idle(x, 0, "none")]

\* A release is replaced by another one, or installed again.  Nobody compares
\* the two: it may be an earlier one.
Install ==
    /\ installed' \in 1 .. NumReleases
    /\ UNCHANGED <<intact, check>>

\* Somebody alters the stored data, or loses the record of the release.
Tamper ==
    /\ intact' = FALSE
    /\ installed' \in {0, installed}
    /\ UNCHANGED check

\* A check begins; without data it ends at once.
Begin(c, x) ==
    /\ check[c].pc = "idle"
    /\ check' = [check EXCEPT ![c] =
                   IF installed = 0 THEN Idle(x, 0, "error")
                   ELSE [pc |-> "asked", cert |-> x, rel |-> installed,
                         answer |-> "none"]]
    /\ UNCHANGED <<installed, intact>>

\* It ends with the answer of its release.
Reply(c) ==
    /\ check[c].pc = "asked"
    /\ check' = [check EXCEPT ![c] = Idle(@.cert, @.rel, Truth(@.rel, @.cert))]
    /\ UNCHANGED <<installed, intact>>

\* It may fail, but only if its release has been replaced meanwhile.
Fail(c) ==
    /\ check[c].pc = "asked"
    /\ installed # check[c].rel
    /\ check' = [check EXCEPT ![c] = Idle(@.cert, @.rel, "error")]
    /\ UNCHANGED <<installed, intact>>

\* Nothing is promised about altered data.
Stray(c) ==
    /\ check[c].pc = "asked"
    /\ ~intact
    /\ \E a \in {"CertainlyRevoked", "NotRevoked", "NotCoveredByRevocationData",
                 "error"} :
         check' = [check EXCEPT ![c] = Idle(@.cert, @.rel, a)]
    /\ UNCHANGED <<installed, intact>>

Next ==
    \/ Install
    \/ Tamper
    \/ \E c \in Checkers, x \in Certs : Begin(c, x)
    \/ \E c \in Checkers : Reply(c) \/ Fail(c) \/ Stray(c)

Spec == Init /\ [][Next]_vars
===============================================================================
