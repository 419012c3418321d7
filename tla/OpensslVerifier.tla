---------------------------- MODULE OpensslVerifier ----------------------------
(***************************************************************************)
(* The C interfaces: upki_config_new, upki_config_free and                 *)
(* upki_check_revocation (upki/src/ffi.rs), and on top of them             *)
(* upki_openssl_set_config and upki_openssl_verify_callback                *)
(* (upki-openssl/src/lib.rs), under an application that keeps to their     *)
(* safety comments.                                                        *)
(*                                                                         *)
(* A configuration is an allocation.  The application owns what            *)
(* upki_config_new gave it until it frees it or hands it to an SSL_CTX,    *)
(* and one thread works with one SSL_CTX; several work side by side.       *)
(* OpenSSL calls the callback once per certificate of a chain, from the    *)
(* root down to depth 0, until a call returns 0.                           *)
(***************************************************************************)
EXTENDS Naturals, Sequences, FiniteSets

CONSTANTS
    Contexts,   \* SSL_CTX objects, each used by one thread
    Pointers,   \* addresses upki_config_new may return; none is used twice
    Null,       \* the null pointer
    Dirs,       \* cache directories a configuration may name
    Default,    \* the one of the configuration found by default
    Chains,     \* the chains servers present, with OpenSSL's own results
    Says        \* Says[d][c]: Index::from_cache and Index::check of the leaf
                \* of chain c in directory d: a status or an Error

Statuses == {"NotRevoked", "NotCoveredByRevocationData", "CertainlyRevoked"}
\* The errors of Index::from_cache and Index::check.
IndexErrors == {"FileRead", "FileDecode", "IndexDecode"}

\* A certificate: does webpki parse it, does it parse its list of SCTs and each
\* of them, and whose name is its subject's and its issuer's.  A chain:
\* certificates from the leaf up, and for each the `preverify_ok` that OpenSSL
\* passes for it.
Certificate == [parses : BOOLEAN, scts : {"good", "bad list", "bad entry"},
                subject : Nat, issuer : Nat]

ASSUME PointerAssumption ==
    /\ Null \notin Pointers
    /\ Default \in Dirs /\ {"fresh", "freed"} \cap Dirs = {}
ASSUME ChainAssumption ==
    /\ Chains # {}
    /\ \A c \in Chains : /\ c.certs \in Seq(Certificate)
                         /\ c.preverify \in [0 .. Len(c.certs) -> {0, 1}]
ASSUME DataAssumption == Says \in [Dirs -> [Chains -> Statuses \cup IndexErrors]]

VARIABLES
    index,   \* UPKI_SSL_CTX_CONFIG_INDEX is Some(index)
    heap,    \* heap[p]: "fresh", the directory of the live config at p, or "freed"
    owned,   \* the configs the application owns
    ctx,     \* the contexts that are not freed
    slot,    \* slot[x]: the ex_data of context x
    call,    \* call[x]: the verification under way in the thread of x
    leaked,  \* history: the configs set_config took and stored nowhere
    misuse   \* history: a freed config was freed again or read

vars == <<index, heap, owned, ctx, slot, call, leaked, misuse>>

NoCall == [pc |-> "idle", chain |-> CHOOSE c \in Chains : TRUE, depth |-> 0,
           ssl |-> FALSE, config |-> Null, ours |-> FALSE, ret |-> 1,
           error |-> "X509_V_OK", code |-> "none"]

Init ==
    /\ index \in BOOLEAN
    /\ heap = [p \in Pointers |-> "fresh"]
    /\ owned = {}
    /\ ctx = Contexts
    /\ slot = [x \in Contexts |-> Null]
    /\ call = [x \in Contexts |-> NoCall]
    /\ leaked = {}
    /\ misuse = FALSE

Live(p) == p \in Pointers /\ heap[p] \in Dirs

(***************************************************************************)
(* upki_config_new and upki_config_free                                    *)
(***************************************************************************)
\* On an error nothing is allocated and *out is not written.
Allocate(p, d) == heap[p] = "fresh" /\ heap' = [heap EXCEPT ![p] = d]

\* Nothing for NULL, else drop(Box::from_raw(config)).
Free(p) ==
    IF p = Null THEN UNCHANGED <<heap, misuse>>
    ELSE /\ heap' = [heap EXCEPT ![p] = "freed"]
         /\ misuse' = (misuse \/ ~Live(p))

AppNewConfig ==
    /\ \E p \in Pointers, d \in Dirs : Allocate(p, d) /\ owned' = owned \cup {p}
    /\ UNCHANGED <<index, ctx, slot, call, leaked, misuse>>

AppFreeConfig ==
    /\ \E p \in owned : Free(p) /\ owned' = owned \ {p}
    /\ UNCHANGED <<index, ctx, slot, call, leaked>>

(***************************************************************************)
(* upki_openssl_set_config, and SSL_CTX_free with the ex_data destructor.  *)
(***************************************************************************)
\* The previous value is freed, then the new one stored.  Without an ex_data
\* index the function returns at once; and the result of SSL_CTX_set_ex_data is
\* not looked at.  That call fails only where OpenSSL has to make room for the
\* index, so never over a stored value.  Either way nobody owns the config.
SetConfig(x) ==
    /\ x \in ctx /\ call[x].pc = "idle"
    /\ \E p \in owned \cup {Null} :
         /\ owned' = owned \ {p}
         /\ \/ /\ index
               /\ Free(slot[x])
               /\ slot' = [slot EXCEPT ![x] = p]
               /\ UNCHANGED leaked
            \/ /\ ~index \/ slot[x] = Null
               /\ leaked' = leaked \cup ({p} \ {Null})
               /\ UNCHANGED <<heap, misuse, slot>>
    /\ UNCHANGED <<index, ctx, call>>

\* ssl_ctx_upki_config_free
FreeContext(x) ==
    /\ x \in ctx /\ call[x].pc = "idle"
    /\ ctx' = ctx \ {x}
    /\ IF index THEN Free(slot[x]) ELSE UNCHANGED <<heap, misuse>>
    /\ UNCHANGED <<index, owned, slot, call, leaked>>

(***************************************************************************)
(* upki_openssl_verify_callback                                            *)
(***************************************************************************)
\* OpenSSL has built the chain c and starts with its last certificate.  The
\* X509_STORE_CTX knows the SSL it works for, or no SSL or no SSL_CTX: then the
\* thread verifies a chain outside any connection of x.
Handshake(x, c) ==
    /\ x \in ctx /\ call[x].pc = "idle"
    /\ \E ssl \in BOOLEAN :
         call' = [call EXCEPT ![x] = [NoCall EXCEPT !.pc = "call", !.chain = c,
                    !.ssl = ssl,
                    !.depth = IF c.certs = <<>> THEN 0 ELSE Len(c.certs) - 1]]
    /\ UNCHANGED <<index, heap, owned, ctx, slot, leaked, misuse>>

\* The callback returns r with the error e: OpenSSL goes on to the next
\* certificate, or is done with the chain.
Return(x, r, e) ==
    call' = [call EXCEPT ![x] =
        IF r = 1 /\ call[x].depth > 0
        THEN [call[x] EXCEPT !.pc = "call", !.depth = @ - 1, !.ret = r, !.error = e,
                             !.config = Null, !.ours = FALSE]
        ELSE [NoCall EXCEPT !.ret = r, !.error = e]]

\* The early returns: preverify_ok is 0, the certificate is not the leaf,
\* the chain cannot be copied (an OpenSSL failure) or is empty.
EarlyReturn(x) ==
    /\ call[x].pc = "call"
    /\ LET c == call[x].chain
           ok == c.preverify[call[x].depth]
       IN \/ ok = 0 /\ Return(x, 0, "by OpenSSL")
          \/ ok = 1 /\ call[x].depth # 0 /\ Return(x, 1, call[x].error)
          \/ ok = 1 /\ call[x].depth = 0 /\ Return(x, 0, call[x].error)
          \/ /\ ok = 1 /\ call[x].depth = 0 /\ c.certs = <<>>
             /\ Return(x, 0, "X509_V_ERR_APPLICATION_VERIFICATION")
    /\ UNCHANGED <<index, heap, owned, ctx, slot, leaked, misuse>>

\* upki_config_from_ssl_ctx
\* Mutant: the context's config is never found.
NoContextConfig(x) == Null
ContextConfig(x) == IF index /\ call[x].ssl THEN slot[x] ELSE Null

\* UpkiConfig::new: the context's config if it has one, else one of our own.
\* Loading the default configuration may fail.
GetConfig(x) ==
    /\ call[x].pc = "call"
    /\ call[x].depth = 0
    /\ call[x].chain.preverify[0] = 1 /\ call[x].chain.certs # <<>>
    /\ LET set == ContextConfig(x)
       IN \/ /\ set # Null
             /\ call' = [call EXCEPT ![x].pc = "check", ![x].config = set]
             /\ UNCHANGED heap
          \/ /\ set = Null
             /\ \E p \in Pointers :
                  /\ Allocate(p, Default)
                  /\ call' = [call EXCEPT ![x].pc = "check", ![x].config = p,
                                          ![x].ours = TRUE]
          \/ /\ set = Null
             /\ Return(x, 0, call[x].error)
             /\ UNCHANGED heap
    /\ UNCHANGED <<index, owned, ctx, slot, leaked, misuse>>

\* find_issuer: the first candidate with the name wanted; one that does not
\* parse before it ends the search.
FindIssuer(name, candidates) ==
    LET stops == {i \in DOMAIN candidates :
                    ~candidates[i].parses \/ candidates[i].subject = name}
    IN IF stops = {} THEN "NoIssuer"
       ELSE LET first == CHOOSE i \in stops : \A k \in stops : i <= k
            IN IF candidates[first].parses THEN "Ok"
               ELSE "InvalidIntermediateCertificate"

\* RevocationCheckInput::from_certificates
FromCertificates(certs) ==
    CASE certs = <<>> -> "TooFewCertificates"
      [] certs # <<>> /\ ~certs[1].parses -> "InvalidEndEntityCertificate"
      [] certs # <<>> /\ certs[1].parses ->
           IF FindIssuer(certs[1].issuer, Tail(certs)) # "Ok"
           THEN FindIssuer(certs[1].issuer, Tail(certs))
           ELSE CASE certs[1].scts = "good" -> "Ok"
                  [] certs[1].scts = "bad list" -> "InvalidEndEntityCertificate"
                  [] certs[1].scts = "bad entry" -> "InvalidSctInCertificate"

\* From<Error> for upki_result: every Error has a code of its own but
\* IndexDecode, which falls to the last arm.
ResultOf(err) == IF err = "IndexDecode" THEN "UPKI_ERR_UNKNOWN" ELSE err

\* upki_check_revocation with the config in directory d.
CheckRevocation(d, c) ==
    LET input == FromCertificates(c.certs)
    IN IF input # "Ok" THEN ResultOf(input)
       ELSE IF Says[d][c] \in Statuses THEN Says[d][c] ELSE ResultOf(Says[d][c])

\* A freed config may still look like any configuration.
Readable(p) == IF Live(p) THEN {heap[p]} ELSE Dirs

Check(x) ==
    /\ call[x].pc = "check"
    /\ \E d \in Readable(call[x].config) :
         call' = [call EXCEPT ![x].pc = "drop",
                              ![x].code = CheckRevocation(d, call[x].chain)]
    /\ misuse' = (misuse \/ ~Live(call[x].config))
    /\ UNCHANGED <<index, heap, owned, ctx, slot, leaked>>

\* What the callback returns, and sets as the error, for a result.
\* Mutants: every failure is reported as a revocation; the code of a failure is
\* returned (18: UPKI_ERR_UNKNOWN), which OpenSSL takes for consent.
AllRevoked(x, code) ==
    IF code \in {"NotRevoked", "NotCoveredByRevocationData"}
    THEN [ret |-> 1, error |-> call[x].error]
    ELSE [ret |-> 0, error |-> "X509_V_ERR_CERT_REVOKED"]
CodeReturned(x, code) ==
    CASE code = "CertainlyRevoked" -> [ret |-> 0, error |-> "X509_V_ERR_CERT_REVOKED"]
      [] code \in {"NotRevoked", "NotCoveredByRevocationData"} ->
           [ret |-> 1, error |-> call[x].error]
      [] OTHER -> [ret |-> 18, error |-> "X509_V_ERR_APPLICATION_VERIFICATION"]
Conclusion(x, code) ==
    CASE code = "CertainlyRevoked" -> [ret |-> 0, error |-> "X509_V_ERR_CERT_REVOKED"]
      [] code \in {"NotRevoked", "NotCoveredByRevocationData"} ->
           [ret |-> 1, error |-> call[x].error]
      [] OTHER -> [ret |-> 0, error |-> "X509_V_ERR_APPLICATION_VERIFICATION"]

\* Drop for UpkiConfig: only a config of our own is freed.
\* Mutants: every config is freed; none is.
DropAny(x) == Free(call[x].config)
DropNone(x) == UNCHANGED <<heap, misuse>>
DropConfig(x) ==
    IF call[x].ours THEN Free(call[x].config) ELSE UNCHANGED <<heap, misuse>>

\* The match on the result; the config is dropped on the way out.
Drop(x) ==
    /\ call[x].pc = "drop"
    /\ LET end == Conclusion(x, call[x].code) IN Return(x, end.ret, end.error)
    /\ DropConfig(x)
    /\ UNCHANGED <<index, owned, ctx, slot, leaked>>

CallbackStep(x) == EarlyReturn(x) \/ GetConfig(x) \/ Check(x) \/ Drop(x)

Next ==
    \/ AppNewConfig \/ AppFreeConfig
    \/ \E x \in Contexts : \/ SetConfig(x) \/ FreeContext(x)
                           \/ \E c \in Chains : Handshake(x, c)
                           \/ CallbackStep(x)

Spec == Init /\ [][Next]_vars

(***************************************************************************)
(* Properties.                                                             *)
(***************************************************************************)
Errors == {"X509_V_OK", "by OpenSSL", "X509_V_ERR_CERT_REVOKED",
           "X509_V_ERR_APPLICATION_VERIFICATION"}
Codes == Statuses \cup {"none", "TooFewCertificates", "InvalidEndEntityCertificate",
            "InvalidIntermediateCertificate", "InvalidSctInCertificate", "NoIssuer",
            "FileRead", "FileDecode", "UPKI_ERR_UNKNOWN"}
CallRecord == [pc : {"idle", "call", "check", "drop"}, chain : Chains, depth : Nat,
               ssl : BOOLEAN, config : Pointers \cup {Null}, ours : BOOLEAN,
               ret : {0, 1}, error : Errors, code : Codes]
TypeOK ==
    /\ index \in BOOLEAN
    /\ heap \in [Pointers -> Dirs \cup {"fresh", "freed"}]
    /\ owned \subseteq Pointers
    /\ ctx \subseteq Contexts
    /\ slot \in [Contexts -> Pointers \cup {Null}]
    /\ call \in [Contexts -> CallRecord]
    /\ leaked \subseteq Pointers
    /\ misuse \in BOOLEAN

\* The configs something will still free: the application, a context, a callback.
Reachable ==
    owned \cup {slot[x] : x \in ctx}
          \cup {call[x].config : x \in {y \in ctx : call[y].ours}}

\* `upki_config_free` is only ever given NULL or a live config, and a callback
\* only reads live ones: for an application that hands a config over once, no
\* order of set_config, handshakes and SSL_CTX_free frees or reads it twice.
NoMisuse == ~misuse

\* "`config` becomes owned by `SSL_CTX`": every live config has exactly one
\* owner, so that none is lost, but for those that set_config could not store.
\* These stay allocated: nobody is left who could free them.
OneOwner ==
    /\ \A p \in Pointers : Live(p) => p \in Reachable \cup leaked
    /\ \A p \in leaked : Live(p) /\ p \notin Reachable
    /\ \A x, y \in ctx : x # y /\ slot[x] # Null => slot[x] # slot[y]
    /\ \A x \in ctx : slot[x] \notin owned
    /\ \A x \in ctx : call[x].ours =>
         /\ call[x].config \notin owned
         /\ \A y \in ctx : call[x].config # slot[y]

\* What is configured for the call under way in the thread of context x:
\* set_config's if the call is for that context, else the default.
Configured(x) ==
    IF index /\ call[x].ssl /\ slot[x] # Null THEN heap[slot[x]] ELSE Default

\* A handshake passes only if OpenSSL accepted every certificate of the chain
\* and the configured cache does not know the leaf as revoked.
PassesSound ==
    [][\A x \in Contexts :
        (call[x].pc # "idle" /\ call'[x].pc = "idle" /\ call'[x].ret = 1) =>
            LET c == call[x].chain
            IN /\ \A d \in 0 .. Len(c.certs) - 1 : c.preverify[d] = 1
               /\ FromCertificates(c.certs) = "Ok"
               /\ Says[Configured(x)][c] \in {"NotRevoked", "NotCoveredByRevocationData"}]_vars

\* X509_V_ERR_CERT_REVOKED is set only for a leaf that the configured cache
\* says is revoked.
RevokedReported ==
    [][\A x \in Contexts :
        (call[x].pc # "idle" /\ call'[x].error = "X509_V_ERR_CERT_REVOKED") =>
            Says[Configured(x)][call[x].chain] = "CertainlyRevoked"]_vars
===============================================================================
