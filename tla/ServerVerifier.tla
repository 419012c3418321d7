---------------------------- MODULE ServerVerifier ----------------------------
(***************************************************************************)
(* rustls_upki::ServerVerifier (rustls-upki/src/lib.rs): a rustls          *)
(* certificate verifier that asks upki after webpki has accepted a path.   *)
(*                                                                         *)
(* A verifier is built once, from a policy and the configuration of that   *)
(* moment, and then shared by all the connections of a client, while       *)
(* fetches replace the cache and operators edit the configuration.  What a *)
(* cache directory holds is a dataset; RevocationCache shows that a check  *)
(* answers for the one dataset whose index it opened, or fails.            *)
(***************************************************************************)
EXTENDS ConfigSearch

CONSTANTS
    Connections,  \* handshakes that verify_server_cert may be in
    Policies      \* the policies a verifier may be built with

Outcome == {"Allowed", "TreatAsRevoked", "Error"}
Policy == [missing_data : Outcome, cert_not_covered : Outcome,
           cert_has_no_scts : Outcome]
ASSUME PolicyAssumption == Policies \subseteq Policy /\ Policies # {}

VARIABLES
    self,    \* the verifier: built or not, its policy and its config
    conn     \* conn[k]: the call of verify_server_cert of connection k

NoVerifier == [built |-> FALSE, policy |-> CHOOSE p \in Policies : TRUE,
               config |-> "none"]
IdleConn == [pc |-> "idle", cert |-> CHOOSE c \in Certs : TRUE, snap |-> Missing,
             result |-> "none"]

VerifierInit ==
    /\ self = NoVerifier
    /\ conn = [k \in Connections |-> IdleConn]

(***************************************************************************)
(* ServerVerifier::new                                                     *)
(***************************************************************************)
\* The client builds one verifier; it may try again after a failure.
New(p) ==
    /\ ~self.built
    /\ \A q \in Procs : proc[q].cmd # "new"
    /\ \E policy \in Policies, given \in BOOLEAN : Search(p, "new", policy, given)
    /\ UNCHANGED <<self, conn>>

\* The index is opened once to see that it can be, and missing_data decides if
\* it cannot; the configuration is kept.
NewFinish(p) ==
    /\ proc[p].pc = "found"
    /\ proc[p].cmd = "new"
    /\ IF Usable(proc[p].config) \/ proc[p].in.missing_data = "Allowed"
       THEN /\ self' = [built |-> TRUE, policy |-> proc[p].in, config |-> proc[p].config]
            /\ proc' = [proc EXCEPT ![p] = Exit("0")]
       ELSE /\ proc' = [proc EXCEPT ![p] = Exit("1")]
            /\ UNCHANGED self
    /\ UNCHANGED <<host, runs, conn>>

(***************************************************************************)
(* verify_server_cert                                                      *)
(***************************************************************************)
\* Outcome::as_result
\* Mutant: an error becomes a revocation.
AlwaysRevoked(o) == IF o = "Allowed" THEN "NotCoveredByRevocationData" ELSE "Revoked"
AsResult(o) ==
    CASE o = "Allowed"        -> "NotCoveredByRevocationData"
      [] o = "TreatAsRevoked" -> "Revoked"
      [] o = "Error"          -> "PolicyError"

\* The match on what check_revocation_status returned: a status, or an error
\* that `?` passes on.
Conclude(k, status) ==
    conn' = [conn EXCEPT ![k] = [IdleConn EXCEPT !.result =
        CASE status = "NotRevoked" -> "Accepted"
          [] status = "NotCoveredByRevocationData" ->
               IF AsResult(self.policy.cert_not_covered) = "NotCoveredByRevocationData"
               THEN "Accepted" ELSE AsResult(self.policy.cert_not_covered)
          [] status = "CertainlyRevoked" -> "Revoked"
          [] OTHER -> status]]

\* A server presents a certificate.
VerifyServerCert(k, c) ==
    /\ self.built
    /\ conn[k].pc = "idle"
    /\ conn' = [conn EXCEPT ![k] = [IdleConn EXCEPT !.pc = "path", !.cert = c]]
    /\ UNCHANGED <<host, runs, proc, self>>

\* webpki, the subject name and the SCTs, in this order; a certificate without
\* SCTs is left to the policy.
VerifyPath(k) ==
    /\ conn[k].pc = "path"
    /\ LET c == conn[k].cert
       IN \/ /\ ~c.path \/ ~c.name \/ c.scts = "malformed"
             /\ Conclude(k, "CertificateError")
          \/ /\ c.path /\ c.name /\ c.scts = "none"
             /\ Conclude(k, AsResult(self.policy.cert_has_no_scts))
          \/ /\ c.path /\ c.name /\ c.scts = "some"
             /\ conn' = [conn EXCEPT ![k].pc = "open"]
    /\ UNCHANGED <<host, runs, proc, self>>

\* Index::from_cache(&self.config)
\* Mutant: the configuration file is read again.
OpenCurrent(k) ==
    /\ conn[k].pc = "open"
    /\ LET d == IF conf["user"] \in Dirs THEN conf["user"] ELSE self.config
       IN IF Usable(d)
          THEN conn' = [conn EXCEPT ![k].pc = "check", ![k].snap = cache[d]]
          ELSE Conclude(k, "General")
    /\ UNCHANGED <<host, runs, proc, self>>
OpenIndex(k) ==
    /\ conn[k].pc = "open"
    /\ IF Usable(self.config)
       THEN conn' = [conn EXCEPT ![k].pc = "check", ![k].snap = cache[self.config]]
       ELSE Conclude(k, "General")
    /\ UNCHANGED <<host, runs, proc, self>>

\* index.check(&input): the status of the dataset whose index was opened, or an
\* error when a filter is missing or does not decode, because the dataset has
\* been replaced since or was damaged.
CheckIndex(k) ==
    /\ conn[k].pc = "check"
    /\ \/ Conclude(k, Says[conn[k].snap][conn[k].cert])
       \/ Conclude(k, "General")
    /\ UNCHANGED <<host, runs, proc, self>>

VerifyStep(k) == VerifyPath(k) \/ OpenIndex(k) \/ CheckIndex(k)
===============================================================================
