--------------------------- MODULE MCVerifyingHost ----------------------------
(* Instances of VerifyingHost for TLC. *)
EXTENDS VerifyingHost

Fact(p, n, s) == [path |-> p, name |-> n, scts |-> s]
MCCerts == {Fact(TRUE, TRUE, "some"), Fact(TRUE, TRUE, "none"),
            Fact(TRUE, TRUE, "malformed"), Fact(FALSE, TRUE, "some"),
            Fact(TRUE, FALSE, "some")}
\* "good", "stale" and "bad" answer differently for every certificate.
MCSays == [d \in {"good", "stale", "bad"} |-> [c \in MCCerts |->
             CASE d = "good" -> "NotRevoked"
               [] d = "stale" -> "NotCoveredByRevocationData"
               [] d = "bad" -> "CertainlyRevoked"]]
\* Policy::default(), everything allowed, and two strict ones.
Choose(m, n, s) == [missing_data |-> m, cert_not_covered |-> n, cert_has_no_scts |-> s]
MCPolicies == {Choose("Error", "Allowed", "Allowed"),
               Choose("Allowed", "Allowed", "Allowed"),
               Choose("TreatAsRevoked", "Error", "Allowed"),
               Choose("Allowed", "TreatAsRevoked", "TreatAsRevoked")}

\* Certificates that are not covered are refused, those without SCTs allowed.
SplitPolicies == {Choose("Error", "TreatAsRevoked", "Allowed")}

MCDirs == {UserCache, SystemCache, "opt"}
\* A file may name a directory of its own, or one of the default ones.
MCNamed == {SystemCache, "opt"}
\* Every choice of files and of default directories that exist.
MCHosts ==
    {[conf |-> c, cache |-> k] :
       c \in {d \in [Files -> MCNamed \cup {Absent}] :
                d["user"] # SystemCache /\ d["system"] # "opt" /\ d["given"] = "opt"},
       k \in {e \in [MCDirs -> {NoDir, "good", "stale", "bad"}] :
                /\ e[UserCache] \in {NoDir, "good"} /\ e[SystemCache] \in {NoDir, "bad"}
                /\ e["opt"] = "stale"}}
===============================================================================
