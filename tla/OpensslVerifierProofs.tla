------------------------- MODULE OpensslVerifierProofs -------------------------
(***************************************************************************)
(* Proofs about OpensslVerifier, for every number of contexts, pointers,   *)
(* directories and chains: configurations are freed once and read while    *)
(* they are live, and a handshake passes only on what the configured cache *)
(* says.                                                                   *)
(***************************************************************************)
EXTENDS OpensslVerifier, TLAPS

\* What the holders of a configuration rely on.  The application, a context
\* and a callback hold live configurations; a callback without one of its own
\* borrows that of its context.
HeldLive ==
    /\ \A p \in owned : Live(p)
    /\ \A x \in ctx : slot[x] # Null => Live(slot[x])
    /\ \A x \in Contexts : call[x].ours => Live(call[x].config)
    /\ \A p \in leaked : Live(p)

\* Who is in a callback, and where its configuration comes from.
CallShape ==
    \A x \in Contexts :
        /\ ~index => slot[x] = Null
        /\ call[x].pc # "idle" => x \in ctx
        /\ call[x].ours =>
             /\ call[x].pc \in {"check", "drop"}
             /\ ~index \/ ~call[x].ssl \/ slot[x] = Null
        /\ (call[x].pc \in {"check", "drop"} /\ ~call[x].ours) =>
             /\ index /\ call[x].ssl /\ slot[x] # Null
             /\ call[x].config = slot[x]

\* No two holders hold the same configuration, and none one that was leaked.
Exclusive ==
    /\ \A x, y \in ctx : (x # y /\ slot[x] # Null) => slot[x] # slot[y]
    /\ \A x \in ctx : slot[x] \notin owned
    /\ \A x \in Contexts : call[x].ours =>
         /\ call[x].config \notin owned
         /\ \A y \in ctx : call[x].config # slot[y]
         /\ \A y \in Contexts : (x # y /\ call[y].ours) => call[x].config # call[y].config
    /\ \A p \in leaked :
         /\ p \notin owned
         /\ \A x \in ctx : slot[x] # p
         /\ \A x \in Contexts : call[x].ours => call[x].config # p

\* No live configuration is without a holder, but for the leaked ones.
Covered ==
    \A p \in Pointers : Live(p) =>
        \/ p \in owned
        \/ p \in leaked
        \/ \E x \in ctx : slot[x] = p
        \/ \E x \in ctx : call[x].ours /\ call[x].config = p

OwnInv == TypeOK /\ HeldLive /\ CallShape /\ Exclusive /\ Covered /\ ~misuse

\* What the callbacks of a chain have established so far: OpenSSL accepted the
\* certificates above this one, the configuration at hand is the one that is
\* configured, and the code is what it says about the leaf.
CallOK(x) ==
    LET c == call[x] IN
    /\ c.pc # "idle" =>
         /\ \A d \in 0 .. Len(c.chain.certs) - 1 : d > c.depth => c.chain.preverify[d] = 1
         /\ c.error # "X509_V_ERR_CERT_REVOKED"
    /\ c.pc \in {"check", "drop"} => c.depth = 0 /\ c.chain.preverify[0] = 1
    /\ (c.pc \in {"check", "drop"} /\ c.ours) => heap[c.config] = Default
    /\ c.pc = "drop" => c.code = CheckRevocation(Configured(x), c.chain)

CallSound == \A x \in Contexts : CallOK(x)

SoundInv == OwnInv /\ CallSound

-----------------------------------------------------------------------------
\* The codes that can come out of a check.
LEMMA InputCodes ==
    ASSUME NEW c \in Chains
    PROVE  FromCertificates(c.certs) \in
             {"Ok", "TooFewCertificates", "InvalidEndEntityCertificate",
              "InvalidIntermediateCertificate", "InvalidSctInCertificate", "NoIssuer"}
<1> DEFINE certs == c.certs
<1>1. certs \in Seq(Certificate)
  BY ChainAssumption
<1>2. \A name, cs : FindIssuer(name, cs) \in {"Ok", "NoIssuer", "InvalidIntermediateCertificate"}
  BY DEF FindIssuer
<1>3. CASE certs = <<>>
  BY <1>3 DEF FromCertificates
<1>4. CASE certs # <<>>
  <2>1. certs[1] \in Certificate
    BY <1>1, <1>4
  <2>2. certs[1].parses \in BOOLEAN /\ certs[1].scts \in {"good", "bad list", "bad entry"}
    BY <2>1 DEF Certificate
  <2>3. CASE certs[1].parses
    BY <1>2, <1>4, <2>2, <2>3 DEF FromCertificates
  <2>4. CASE ~certs[1].parses
    BY <1>4, <2>4 DEF FromCertificates
  <2> QED BY <2>2, <2>3, <2>4
<1> QED BY <1>3, <1>4

\* A check gives a code, and a status only for a chain that it could read.
LEMMA CheckCodes ==
    ASSUME NEW c \in Chains, NEW d \in Dirs
    PROVE  /\ CheckRevocation(d, c) \in Codes
           /\ CheckRevocation(d, c) \in Statuses =>
                /\ FromCertificates(c.certs) = "Ok"
                /\ Says[d][c] = CheckRevocation(d, c)
<1>1. FromCertificates(c.certs) \in
             {"Ok", "TooFewCertificates", "InvalidEndEntityCertificate",
              "InvalidIntermediateCertificate", "InvalidSctInCertificate", "NoIssuer"}
  BY InputCodes
<1>2. Says[d][c] \in Statuses \cup IndexErrors
  BY DataAssumption
<1> QED BY <1>1, <1>2 DEF CheckRevocation, ResultOf, Codes, Statuses, IndexErrors

\* The record of a context without a call.
LEMMA NoCallType == NoCall \in CallRecord
BY ChainAssumption DEF NoCall, CallRecord, Errors, Codes

\* What a return of the callback does to its call.
LEMMA ReturnEffect ==
    ASSUME TypeOK, NEW x \in Contexts, NEW r \in {0, 1}, NEW e \in Errors, Return(x, r, e)
    PROVE  /\ call' \in [Contexts -> CallRecord]
           /\ \A y \in Contexts \ {x} : call'[y] = call[y]
           /\ call'[x].ours = FALSE /\ call'[x].config = Null
           /\ call'[x].error = e /\ call'[x].ret = r
           /\ call'[x].pc \in {"call", "idle"}
           /\ (r = 1 /\ call[x].depth > 0) =>
                /\ call'[x].pc = "call" /\ call'[x].depth = call[x].depth - 1
                /\ call'[x].chain = call[x].chain
           /\ (r = 0 \/ call[x].depth = 0) => call'[x].pc = "idle"
<1> DEFINE more == r = 1 /\ call[x].depth > 0
           next == [call[x] EXCEPT !.pc = "call", !.depth = @ - 1, !.ret = r, !.error = e,
                                   !.config = Null, !.ours = FALSE]
           end == [NoCall EXCEPT !.ret = r, !.error = e]
<1>1. call[x] \in CallRecord /\ call \in [Contexts -> CallRecord] /\ NoCall \in CallRecord
  BY NoCallType DEF TypeOK
<1>2. call' = [call EXCEPT ![x] = IF more THEN next ELSE end]
  BY DEF Return
<1>3. call[x].depth \in Nat
  BY <1>1 DEF CallRecord
<1>4. CASE more
  <2>1. call[x].depth - 1 \in Nat
    BY <1>3, <1>4
  <2>2. next \in CallRecord
    BY <1>1, <2>1 DEF CallRecord
  <2>3. call' = [call EXCEPT ![x] = next]
    BY <1>2, <1>4
  <2>4. call'[x] = next /\ call' \in [Contexts -> CallRecord]
        /\ \A y \in Contexts \ {x} : call'[y] = call[y]
    BY <1>1, <2>2, <2>3
  <2> QED BY <1>1, <1>3, <1>4, <2>4 DEF CallRecord
<1>5. CASE ~more
  <2>1. end \in CallRecord
    BY <1>1 DEF CallRecord
  <2>2. call' = [call EXCEPT ![x] = end]
    BY <1>2, <1>5
  <2>3. call'[x] = end /\ call' \in [Contexts -> CallRecord]
        /\ \A y \in Contexts \ {x} : call'[y] = call[y]
    BY <1>1, <2>1, <2>2
  <2>4. /\ end.ours = FALSE /\ end.config = Null /\ end.error = e /\ end.ret = r
        /\ end.pc = "idle"
    BY DEF NoCall
  <2> QED BY <1>5, <2>3, <2>4
<1> QED BY <1>4, <1>5

\* What upki_config_free does to the heap: the config at p is gone, every other
\* one is as it was, and it is a misuse only if p was given and not live.
LEMMA FreeEffect ==
    ASSUME TypeOK, NEW p \in Pointers \cup {Null}, Free(p)
    PROVE  /\ heap' \in [Pointers -> Dirs \cup {"fresh", "freed"}]
           /\ misuse' \in BOOLEAN
           /\ \A q \in Pointers \ {p} : heap'[q] = heap[q]
           /\ p # Null => heap'[p] = "freed"
           /\ (p = Null \/ Live(p)) => misuse' = misuse
BY PointerAssumption DEF Free, TypeOK

\* An allocation.
LEMMA AllocateEffect ==
    ASSUME TypeOK, NEW p \in Pointers, NEW d \in Dirs, Allocate(p, d)
    PROVE  /\ heap' \in [Pointers -> Dirs \cup {"fresh", "freed"}]
           /\ \A q \in Pointers \ {p} : heap'[q] = heap[q]
           /\ heap'[p] = d /\ ~Live(p)
BY PointerAssumption DEF Allocate, Live, TypeOK

\* At first there is no configuration and no call.
LEMMA TypeInit == Init => TypeOK
<1> SUFFICES ASSUME Init PROVE TypeOK
  OBVIOUS
<1>1. index \in BOOLEAN /\ misuse \in BOOLEAN
  BY Zenon DEF Init
<1> QED BY <1>1, NoCallType DEF Init, TypeOK

\* The steps of a callback keep the types.
LEMMA TypeCallback ==
    ASSUME TypeOK, NEW x \in Contexts, CallbackStep(x)
    PROVE  TypeOK'
<1>0. call[x] \in CallRecord /\ call \in [Contexts -> CallRecord]
  BY DEF TypeOK
<1>1. CASE EarlyReturn(x)
  <2>1. PICK r \in {0, 1}, e \in Errors : Return(x, r, e)
    BY <1>0, <1>1 DEF EarlyReturn, Errors, CallRecord
  <2> QED BY <1>1, <2>1, ReturnEffect DEF EarlyReturn, TypeOK
<1>2. CASE GetConfig(x)
  <2>0. ContextConfig(x) \in Pointers \cup {Null}
    BY DEF ContextConfig, TypeOK
  <2>1. CASE /\ call' = [call EXCEPT ![x].pc = "check", ![x].config = ContextConfig(x)]
             /\ UNCHANGED heap
    <3>1. call' \in [Contexts -> CallRecord]
      BY <1>0, <2>0, <2>1 DEF CallRecord
    <3> QED BY <1>2, <2>1, <3>1 DEF GetConfig, TypeOK
  <2>2. ASSUME NEW p \in Pointers, Allocate(p, Default),
               call' = [call EXCEPT ![x].pc = "check", ![x].config = p, ![x].ours = TRUE]
        PROVE  TypeOK'
    <3>1. call' \in [Contexts -> CallRecord]
      BY <1>0, <2>2 DEF CallRecord
    <3>2. heap' \in [Pointers -> Dirs \cup {"fresh", "freed"}]
      BY <2>2, AllocateEffect, PointerAssumption
    <3> QED BY <1>2, <3>1, <3>2 DEF GetConfig, TypeOK
  <2>3. CASE Return(x, 0, call[x].error) /\ UNCHANGED heap
    <3>1. call' \in [Contexts -> CallRecord]
      BY <1>0, <2>3, ReturnEffect DEF CallRecord
    <3> QED BY <1>2, <2>3, <3>1 DEF GetConfig, TypeOK
  <2> QED BY <1>2, <2>1, <2>2, <2>3 DEF GetConfig
<1>3. CASE Check(x)
  <2>1. PICK d \in Readable(call[x].config) :
          call' = [call EXCEPT ![x].pc = "drop",
                               ![x].code = CheckRevocation(d, call[x].chain)]
    BY <1>3 DEF Check
  <2>2. d \in Dirs
    BY DEF Readable, Live
  <2>3. CheckRevocation(d, call[x].chain) \in Codes
    BY <1>0, <2>2, CheckCodes DEF CallRecord
  <2>4. call' \in [Contexts -> CallRecord]
    BY <1>0, <2>1, <2>3 DEF CallRecord
  <2>5. misuse' \in BOOLEAN
    BY <1>3 DEF Check
  <2> QED BY <1>3, <2>4, <2>5 DEF Check, TypeOK
<1>4. CASE Drop(x)
  <2>1. PICK r \in {0, 1}, e \in Errors : Return(x, r, e)
    <3> DEFINE end == Conclusion(x, call[x].code)
    <3>1. end.ret \in {0, 1} /\ end.error \in Errors
      BY <1>0 DEF Conclusion, CallRecord, Errors
    <3> QED BY <1>4, <3>1 DEF Drop
  <2>2. call' \in [Contexts -> CallRecord]
    BY <2>1, ReturnEffect
  <2>3. CASE call[x].ours
    <3>1. Free(call[x].config) /\ call[x].config \in Pointers \cup {Null}
      BY <1>0, <1>4, <2>3 DEF Drop, DropConfig, CallRecord
    <3> QED BY <1>4, <2>2, <3>1, FreeEffect DEF Drop, TypeOK
  <2>4. CASE ~call[x].ours
    <3>1. UNCHANGED <<heap, misuse>>
      BY <1>4, <2>4 DEF Drop, DropConfig
    <3> QED BY <1>4, <2>2, <3>1 DEF Drop, TypeOK
  <2> QED BY <2>3, <2>4
<1> QED BY <1>1, <1>2, <1>3, <1>4 DEF CallbackStep

\* The calls of the application, and the start of a handshake, keep the types.
LEMMA TypeApplication ==
    ASSUME TypeOK,
           \/ AppNewConfig \/ AppFreeConfig
           \/ \E x \in Contexts : \/ SetConfig(x) \/ FreeContext(x)
                                  \/ \E c \in Chains : Handshake(x, c)
    PROVE  TypeOK'
<1>1. CASE AppNewConfig
  <2>1. PICK p \in Pointers, d \in Dirs : Allocate(p, d) /\ owned' = owned \cup {p}
    BY <1>1 DEF AppNewConfig
  <2> QED BY <1>1, <2>1, AllocateEffect DEF AppNewConfig, TypeOK
<1>2. CASE AppFreeConfig
  <2>1. PICK p \in owned : Free(p) /\ owned' = owned \ {p}
    BY <1>2 DEF AppFreeConfig
  <2>2. p \in Pointers
    BY DEF TypeOK
  <2> QED BY <1>2, <2>1, <2>2, FreeEffect DEF AppFreeConfig, TypeOK
<1>3. ASSUME NEW x \in Contexts, SetConfig(x) PROVE TypeOK'
  <2>0. slot[x] \in Pointers \cup {Null}
    BY DEF TypeOK
  <2>1. PICK p \in owned \cup {Null} :
          /\ owned' = owned \ {p}
          /\ \/ Free(slot[x]) /\ slot' = [slot EXCEPT ![x] = p] /\ UNCHANGED leaked
             \/ leaked' = leaked \cup ({p} \ {Null}) /\ UNCHANGED <<heap, misuse, slot>>
    BY <1>3 DEF SetConfig
  <2>2. CASE Free(slot[x]) /\ slot' = [slot EXCEPT ![x] = p] /\ UNCHANGED leaked
    <3>1. slot' \in [Contexts -> Pointers \cup {Null}] /\ owned' \subseteq Pointers
      BY <2>1, <2>2 DEF TypeOK
    <3> QED BY <1>3, <2>0, <2>2, <3>1, FreeEffect DEF SetConfig, TypeOK
  <2>3. CASE leaked' = leaked \cup ({p} \ {Null}) /\ UNCHANGED <<heap, misuse, slot>>
    BY <1>3, <2>1, <2>3 DEF SetConfig, TypeOK
  <2> QED BY <2>1, <2>2, <2>3
<1>4. ASSUME NEW x \in Contexts, FreeContext(x) PROVE TypeOK'
  <2>0. slot[x] \in Pointers \cup {Null}
    BY DEF TypeOK
  <2>1. CASE index
    BY <1>4, <2>0, <2>1, FreeEffect DEF FreeContext, TypeOK
  <2>2. CASE ~index
    BY <1>4, <2>2 DEF FreeContext, TypeOK
  <2> QED BY <2>1, <2>2
<1>5. ASSUME NEW x \in Contexts, NEW c \in Chains, Handshake(x, c) PROVE TypeOK'
  <2>1. (IF c.certs = <<>> THEN 0 ELSE Len(c.certs) - 1) \in Nat
    <3>1. c.certs \in Seq(Certificate)
      BY ChainAssumption
    <3> QED BY <3>1
  <2>2. \A ssl \in BOOLEAN :
          [NoCall EXCEPT !.pc = "call", !.chain = c, !.ssl = ssl,
           !.depth = IF c.certs = <<>> THEN 0 ELSE Len(c.certs) - 1] \in CallRecord
    BY <2>1, NoCallType DEF CallRecord
  <2>3. PICK new \in CallRecord : call' = [call EXCEPT ![x] = new]
    BY <1>5, <2>2 DEF Handshake
  <2> QED BY <1>5, <2>3 DEF Handshake, TypeOK
<1> QED BY <1>1, <1>2, <1>3, <1>4, <1>5

\* Every step keeps the types.
LEMMA TypeNext == TypeOK /\ [Next]_vars => TypeOK'
<1> SUFFICES ASSUME TypeOK, [Next]_vars PROVE TypeOK'
  OBVIOUS
<1>1. CASE Next
  BY <1>1, TypeCallback, TypeApplication DEF Next
<1>2. CASE UNCHANGED vars
  BY <1>2 DEF vars, TypeOK
<1> QED BY <1>1, <1>2

\* The variables keep their types: a callback never goes below the leaf, and a
\* result of a check is one of the codes of upki_result.
THEOREM TypeCorrect == Spec => []TypeOK
BY TypeInit, TypeNext, PTL DEF Spec

-----------------------------------------------------------------------------
\* At first nothing is allocated.
LEMMA OwnInit == Init => OwnInv
<1> SUFFICES ASSUME Init PROVE OwnInv
  OBVIOUS
<1>1. TypeOK
  BY TypeInit
<1>2. \A x \in Contexts : call[x].pc = "idle" /\ ~call[x].ours /\ slot[x] = Null
  BY DEF Init, NoCall
<1>3. \A p \in Pointers : ~Live(p)
  BY PointerAssumption DEF Init, Live
<1>4. owned = {} /\ leaked = {} /\ misuse = FALSE
  BY DEF Init
<1> QED BY <1>1, <1>2, <1>3, <1>4, PointerAssumption
        DEF OwnInv, HeldLive, CallShape, Exclusive, Covered, TypeOK

\* upki_config_new: the new address was nobody's.
LEMMA OwnNewConfig == OwnInv /\ AppNewConfig => OwnInv'
<1> SUFFICES ASSUME OwnInv, AppNewConfig PROVE OwnInv'
  OBVIOUS
<1> USE DEF OwnInv
<1>1. PICK p \in Pointers, d \in Dirs : Allocate(p, d) /\ owned' = owned \cup {p}
  BY DEF AppNewConfig
<1>2. /\ \A q \in Pointers \ {p} : heap'[q] = heap[q]
      /\ heap'[p] = d /\ ~Live(p)
  BY <1>1, AllocateEffect
<1>3. /\ index' = index /\ ctx' = ctx /\ slot' = slot /\ call' = call /\ misuse' = misuse
      /\ leaked' = leaked /\ TypeOK /\ TypeOK'
  BY TypeApplication DEF AppNewConfig
<1>4. /\ p \notin owned /\ p \notin leaked
      /\ \A x \in ctx : slot[x] # p
      /\ \A x \in Contexts : call[x].ours => call[x].config # p
  BY <1>2, PointerAssumption DEF HeldLive, Live
<1>5. HeldLive'
  BY <1>1, <1>2, <1>3 DEF HeldLive, Live
<1>6. CallShape'
  BY <1>3 DEF CallShape
<1>7. Exclusive'
  BY <1>1, <1>3, <1>4 DEF Exclusive
<1>8. Covered'
  BY <1>1, <1>2, <1>3 DEF Covered, Live
<1> QED BY <1>3, <1>5, <1>6, <1>7, <1>8

\* upki_config_free, of a config the application owns: it was nobody else's.
LEMMA OwnFreeConfig == OwnInv /\ AppFreeConfig => OwnInv'
<1> SUFFICES ASSUME OwnInv, AppFreeConfig PROVE OwnInv'
  OBVIOUS
<1> USE DEF OwnInv
<1>1. PICK p \in owned : Free(p) /\ owned' = owned \ {p}
  BY DEF AppFreeConfig
<1>2. p \in Pointers /\ Live(p)
  BY DEF TypeOK, HeldLive
<1>3. /\ \A q \in Pointers \ {p} : heap'[q] = heap[q]
      /\ heap'[p] = "freed" /\ misuse' = misuse
  BY <1>1, <1>2, FreeEffect, PointerAssumption
<1>4. /\ index' = index /\ ctx' = ctx /\ slot' = slot /\ call' = call
      /\ leaked' = leaked /\ TypeOK /\ TypeOK'
  BY TypeApplication DEF AppFreeConfig
<1>5. HeldLive'
  BY <1>1, <1>2, <1>3, <1>4, PointerAssumption DEF HeldLive, Live, Exclusive, TypeOK
<1>6. CallShape'
  BY <1>4 DEF CallShape
<1>7. Exclusive'
  BY <1>1, <1>4 DEF Exclusive
<1>8. Covered'
  BY <1>1, <1>3, <1>4, PointerAssumption DEF Covered, Live
<1> QED BY <1>3, <1>4, <1>5, <1>6, <1>7, <1>8

\* set_config: the context's previous config is freed, and the application's
\* becomes the context's; or it is stored nowhere, and leaked.
LEMMA OwnSetConfig ==
    ASSUME OwnInv, NEW x \in Contexts, SetConfig(x)
    PROVE  OwnInv'
<1> USE DEF OwnInv
<1>1. PICK p \in owned \cup {Null} :
        /\ owned' = owned \ {p}
        /\ \/ /\ index /\ Free(slot[x]) /\ slot' = [slot EXCEPT ![x] = p]
              /\ leaked' = leaked
           \/ leaked' = leaked \cup ({p} \ {Null}) /\ UNCHANGED <<heap, misuse, slot>>
  BY DEF SetConfig
<1>2. /\ index' = index /\ ctx' = ctx /\ call' = call /\ x \in ctx /\ call[x].pc = "idle"
      /\ TypeOK /\ TypeOK'
  BY TypeApplication DEF SetConfig
<1>3. owned \subseteq Pointers /\ slot[x] \in Pointers \cup {Null}
  BY DEF TypeOK
<1>4. CASE /\ index /\ Free(slot[x]) /\ slot' = [slot EXCEPT ![x] = p]
           /\ leaked' = leaked
  <2>1. Free(slot[x]) /\ slot' = [slot EXCEPT ![x] = p]
    BY <1>4
  <2>2. /\ \A q \in Pointers \ {slot[x]} : heap'[q] = heap[q]
        /\ slot[x] # Null => heap'[slot[x]] = "freed"
        /\ misuse' = misuse
    BY <1>2, <1>3, <2>1, FreeEffect DEF HeldLive
  <2>3. \A y \in Contexts : slot'[y] = IF y = x THEN p ELSE slot[y]
    BY <2>1 DEF TypeOK
  <2>4. ~call[x].ours
    BY <1>2 DEF CallShape
  <2>5. HeldLive'
    <3>1. \A q \in owned : q # slot[x]
      BY <1>2 DEF Exclusive
    <3>2. \A q \in owned' : q \in Pointers /\ heap'[q] \in Dirs
      BY <1>1, <1>3, <2>2, <3>1 DEF HeldLive, Live
    <3>3. \A y \in ctx : slot'[y] # Null => slot'[y] \in Pointers /\ heap'[slot'[y]] \in Dirs
      <4> SUFFICES ASSUME NEW y \in ctx, slot'[y] # Null
                   PROVE  slot'[y] \in Pointers /\ heap'[slot'[y]] \in Dirs
        OBVIOUS
      <4>1. CASE y = x
        BY <1>2, <1>3, <2>2, <2>3, <3>1, <4>1 DEF HeldLive, Live
      <4>2. CASE y # x
        BY <1>2, <2>2, <2>3, <4>2 DEF HeldLive, Live, Exclusive, TypeOK
      <4> QED BY <4>1, <4>2
    <3>4. \A y \in Contexts : call[y].ours =>
            call[y].config \in Pointers /\ heap'[call[y].config] \in Dirs
      BY <1>2, <2>2 DEF HeldLive, Live, Exclusive
    <3>5. \A q \in leaked : q \in Pointers /\ heap'[q] \in Dirs
      BY <1>2, <2>2 DEF HeldLive, Live, Exclusive
    <3> QED BY <1>2, <1>4, <3>2, <3>3, <3>4, <3>5 DEF HeldLive, Live
  <2>6. CallShape'
    <3> SUFFICES ASSUME NEW y \in Contexts
                 PROVE  /\ call[y].pc # "idle" => y \in ctx
                        /\ call[y].ours =>
                             /\ call[y].pc \in {"check", "drop"}
                             /\ ~index \/ ~call[y].ssl \/ slot'[y] = Null
                        /\ (call[y].pc \in {"check", "drop"} /\ ~call[y].ours) =>
                             /\ index /\ call[y].ssl /\ slot'[y] # Null
                             /\ call[y].config = slot'[y]
      BY <1>2, <1>4 DEF CallShape
    <3> QED BY <1>2, <2>3, <2>4 DEF CallShape
  <2>7. Exclusive'
    <3>1. \A y, z \in ctx : (y # z /\ slot'[y] # Null) => slot'[y] # slot'[z]
      BY <1>1, <1>2, <1>3, <2>3, PointerAssumption DEF Exclusive, TypeOK
    <3>2. \A y \in ctx : slot'[y] \notin owned'
      BY <1>1, <1>2, <1>3, <2>3, PointerAssumption DEF Exclusive, TypeOK
    <3>3. \A y \in Contexts : call[y].ours => \A z \in ctx : call[y].config # slot'[z]
      BY <1>1, <1>2, <2>3, PointerAssumption DEF Exclusive, HeldLive, Live, TypeOK
    <3>4. \A q \in leaked : q \notin owned' /\ \A y \in ctx : slot'[y] # q
      BY <1>1, <1>2, <2>3, PointerAssumption DEF Exclusive, TypeOK
    <3> QED BY <1>1, <1>2, <1>4, <3>1, <3>2, <3>3, <3>4 DEF Exclusive
  <2>8. Covered'
    <3> SUFFICES ASSUME NEW q \in Pointers, Live(q)'
                 PROVE  \/ q \in owned' \/ q \in leaked
                        \/ \E y \in ctx : slot'[y] = q
                        \/ \E y \in ctx : call[y].ours /\ call[y].config = q
      BY <1>2, <1>4 DEF Covered
    <3>1. q # slot[x] /\ Live(q)
      BY <1>3, <2>2, PointerAssumption DEF Live
    <3> QED BY <1>1, <1>2, <1>4, <2>3, <3>1 DEF Covered, TypeOK
  <2> QED BY <1>2, <2>2, <2>5, <2>6, <2>7, <2>8
<1>5. CASE leaked' = leaked \cup ({p} \ {Null}) /\ UNCHANGED <<heap, misuse, slot>>
  <2>1. heap' = heap /\ misuse' = misuse /\ slot' = slot
    BY <1>5
  <2>2. HeldLive'
    BY <1>1, <1>2, <1>5, <2>1 DEF HeldLive, Live
  <2>3. CallShape'
    BY <1>2, <2>1 DEF CallShape
  <2>4. Exclusive'
    BY <1>1, <1>2, <1>5, <2>1 DEF Exclusive
  <2>5. Covered'
    BY <1>1, <1>2, <1>5, <2>1, PointerAssumption DEF Covered, Live
  <2> QED BY <1>2, <2>1, <2>2, <2>3, <2>4, <2>5
<1> QED BY <1>1, <1>4, <1>5

\* SSL_CTX_free: the destructor frees what the context owned.
LEMMA OwnFreeContext ==
    ASSUME OwnInv, NEW x \in Contexts, FreeContext(x)
    PROVE  OwnInv'
<1> USE DEF OwnInv
<1>1. /\ index' = index /\ ctx' = ctx \ {x} /\ call' = call /\ slot' = slot
      /\ owned' = owned /\ leaked' = leaked /\ x \in ctx /\ call[x].pc = "idle"
      /\ TypeOK /\ TypeOK'
  BY TypeApplication DEF FreeContext
<1>2. ~call[x].ours
  BY <1>1 DEF CallShape
<1>3. CallShape'
  BY <1>1, <1>2 DEF CallShape
<1>4. Exclusive'
  BY <1>1 DEF Exclusive
<1>5. CASE index
  <2>1. Free(slot[x]) /\ slot[x] \in Pointers \cup {Null}
    BY <1>5 DEF FreeContext, TypeOK
  <2>2. /\ \A q \in Pointers \ {slot[x]} : heap'[q] = heap[q]
        /\ slot[x] # Null => heap'[slot[x]] = "freed"
        /\ misuse' = misuse
    BY <1>1, <2>1, FreeEffect DEF HeldLive
  <2>3. HeldLive'
    BY <1>1, <2>2 DEF HeldLive, Live, Exclusive, TypeOK
  <2>4. Covered'
    BY <1>1, <1>2, <2>1, <2>2, PointerAssumption DEF Covered, Live
  <2> QED BY <1>1, <1>3, <1>4, <2>2, <2>3, <2>4
<1>6. CASE ~index
  <2>1. heap' = heap /\ misuse' = misuse
    BY <1>6 DEF FreeContext
  <2>2. HeldLive'
    BY <1>1, <2>1 DEF HeldLive, Live
  <2>3. Covered'
    BY <1>1, <1>2, <1>6, <2>1, PointerAssumption DEF Covered, CallShape, Live
  <2> QED BY <1>1, <1>3, <1>4, <2>1, <2>2, <2>3
<1> QED BY <1>5, <1>6

\* A step that leaves the configurations and their owners alone, and in which
\* the callback of x neither takes nor gives up one of its own.
LEMMA OwnOnlyCall ==
    ASSUME OwnInv, NEW x \in Contexts, TypeOK',
           UNCHANGED <<index, heap, owned, ctx, slot, leaked, misuse>>,
           \A y \in Contexts \ {x} : call'[y] = call[y],
           x \in ctx, call'[x].ours = call[x].ours,
           call[x].ours => /\ call'[x].config = call[x].config
                           /\ call'[x].ssl = call[x].ssl
                           /\ call'[x].pc \in {"check", "drop"},
           (call'[x].pc \in {"check", "drop"} /\ ~call[x].ours) =>
             index /\ call'[x].ssl /\ slot[x] # Null /\ call'[x].config = slot[x]
    PROVE  OwnInv'
<1> USE DEF OwnInv
<1>1. \A y \in Contexts : /\ call'[y].ours = call[y].ours
                          /\ call[y].ours => call'[y].config = call[y].config
  OBVIOUS
<1>2. HeldLive'
  BY <1>1 DEF HeldLive, Live
<1>3. CallShape'
  <2> SUFFICES ASSUME NEW y \in Contexts
               PROVE  /\ ~index => slot[y] = Null
                      /\ call'[y].pc # "idle" => y \in ctx
                      /\ call'[y].ours =>
                           /\ call'[y].pc \in {"check", "drop"}
                           /\ ~index \/ ~call'[y].ssl \/ slot[y] = Null
                      /\ (call'[y].pc \in {"check", "drop"} /\ ~call'[y].ours) =>
                           /\ index /\ call'[y].ssl /\ slot[y] # Null
                           /\ call'[y].config = slot[y]
    BY DEF CallShape
  <2>1. CASE y = x
    BY <2>1 DEF CallShape
  <2>2. CASE y # x
    BY <2>2 DEF CallShape
  <2> QED BY <2>1, <2>2
<1>4. Exclusive'
  BY <1>1 DEF Exclusive
<1>5. Covered'
  BY <1>1 DEF Covered, Live, TypeOK
<1> QED BY <1>2, <1>3, <1>4, <1>5

\* A handshake takes no pointer yet.
LEMMA OwnHandshake ==
    ASSUME OwnInv, NEW x \in Contexts, NEW c \in Chains, Handshake(x, c)
    PROVE  OwnInv'
<1> USE DEF OwnInv
<1>1. TypeOK'
  BY TypeApplication
<1>2. call'[x].pc = "call" /\ call'[x].ours = FALSE /\ x \in ctx /\ call[x].pc = "idle"
  BY DEF Handshake, NoCall, TypeOK
<1>3. \A y \in Contexts \ {x} : call'[y] = call[y]
  BY DEF Handshake, TypeOK
<1>4. call[x].ours = FALSE
  <2>1. call[x].ours \in BOOLEAN
    BY DEF TypeOK, CallRecord
  <2> QED BY <1>2, <2>1 DEF CallShape
<1> QED BY <1>1, <1>2, <1>3, <1>4, OwnOnlyCall DEF Handshake

\* An early return has taken none that it would have to give back.
LEMMA OwnEarlyReturn ==
    ASSUME OwnInv, NEW x \in Contexts, EarlyReturn(x)
    PROVE  OwnInv'
<1> USE DEF OwnInv
<1>1. TypeOK' /\ call[x] \in CallRecord
  BY TypeCallback DEF CallbackStep, TypeOK
<1>2. PICK r \in {0, 1}, e \in Errors : Return(x, r, e)
  BY <1>1 DEF EarlyReturn, Errors, CallRecord
<1>3. /\ \A y \in Contexts \ {x} : call'[y] = call[y]
      /\ call'[x].ours = FALSE
      /\ call'[x].pc \in {"call", "idle"}
  BY <1>2, ReturnEffect
<1>4. call[x].ours = FALSE /\ x \in ctx
  <2>1. call[x].ours \in BOOLEAN /\ call[x].pc = "call"
    BY <1>1 DEF EarlyReturn, CallRecord
  <2> QED BY <2>1 DEF CallShape
<1> QED BY <1>1, <1>3, <1>4, OwnOnlyCall DEF EarlyReturn

\* The context's config is borrowed, or a new one becomes the callback's own.
LEMMA OwnGetConfig ==
    ASSUME OwnInv, NEW x \in Contexts, GetConfig(x)
    PROVE  OwnInv'
<1> USE DEF OwnInv
<1>1. TypeOK' /\ call[x] \in CallRecord /\ call \in [Contexts -> CallRecord]
  BY TypeCallback DEF CallbackStep, TypeOK
<1>2. /\ call[x].pc = "call" /\ index' = index /\ owned' = owned /\ ctx' = ctx
      /\ slot' = slot /\ leaked' = leaked /\ misuse' = misuse
  BY DEF GetConfig
<1>3. call[x].ours = FALSE /\ x \in ctx
  <2>1. call[x].ours \in BOOLEAN
    BY <1>1 DEF CallRecord
  <2> QED BY <1>2, <2>1 DEF CallShape
<1>4. CASE /\ ContextConfig(x) # Null
           /\ call' = [call EXCEPT ![x].pc = "check", ![x].config = ContextConfig(x)]
           /\ UNCHANGED heap
  <2>1. index /\ call[x].ssl /\ slot[x] # Null /\ ContextConfig(x) = slot[x]
    BY <1>4 DEF ContextConfig
  <2>2. /\ \A y \in Contexts \ {x} : call'[y] = call[y]
        /\ call'[x].ours = FALSE /\ call'[x].config = slot[x]
        /\ call'[x].ssl = call[x].ssl
    BY <1>1, <1>3, <1>4, <2>1 DEF CallRecord
  <2> QED BY <1>1, <1>2, <1>3, <1>4, <2>1, <2>2, OwnOnlyCall
<1>5. ASSUME NEW p \in Pointers, Allocate(p, Default), ContextConfig(x) = Null,
             call' = [call EXCEPT ![x].pc = "check", ![x].config = p, ![x].ours = TRUE]
      PROVE  OwnInv'
  <2>1. /\ \A q \in Pointers \ {p} : heap'[q] = heap[q]
        /\ heap'[p] = Default /\ ~Live(p)
    BY <1>5, AllocateEffect, PointerAssumption
  <2>2. /\ \A y \in Contexts \ {x} : call'[y] = call[y]
        /\ call'[x].ours = TRUE /\ call'[x].config = p /\ call'[x].pc = "check"
        /\ call'[x].ssl = call[x].ssl
    BY <1>1, <1>5 DEF CallRecord
  <2>3. ~index \/ ~call[x].ssl \/ slot[x] = Null
    BY <1>5 DEF ContextConfig
  <2>4. /\ p \notin owned /\ p \notin leaked
        /\ \A y \in ctx : slot[y] # p
        /\ \A y \in Contexts : call[y].ours => call[y].config # p
    BY <2>1, PointerAssumption DEF HeldLive, Live
  <2>5. HeldLive'
    BY <1>2, <2>1, <2>2, PointerAssumption DEF HeldLive, Live
  <2>6. CallShape'
    BY <1>2, <1>3, <2>2, <2>3 DEF CallShape
  <2>7. Exclusive'
    BY <1>2, <1>3, <2>2, <2>4 DEF Exclusive
  <2>8. Covered'
    <3> SUFFICES ASSUME NEW q \in Pointers, heap'[q] \in Dirs
                 PROVE  \/ q \in owned \/ q \in leaked
                        \/ \E y \in ctx : slot[y] = q
                        \/ \E y \in ctx : call'[y].ours /\ call'[y].config = q
      BY <1>2 DEF Covered, Live
    <3>1. CASE q = p
      BY <1>3, <2>2, <3>1
    <3>2. CASE q # p
      BY <1>3, <2>1, <2>2, <3>2 DEF Covered, Live, TypeOK
    <3> QED BY <3>1, <3>2
  <2> QED BY <1>1, <1>2, <2>5, <2>6, <2>7, <2>8
<1>6. CASE Return(x, 0, call[x].error) /\ UNCHANGED heap
  <2>1. /\ \A y \in Contexts \ {x} : call'[y] = call[y]
        /\ call'[x].ours = FALSE
        /\ call'[x].pc \in {"call", "idle"}
    BY <1>1, <1>6, ReturnEffect DEF CallRecord
  <2> QED BY <1>1, <1>2, <1>3, <1>6, <2>1, OwnOnlyCall
<1> QED BY <1>4, <1>5, <1>6 DEF GetConfig

\* The config that a callback reads is live.
LEMMA CheckReadsLive ==
    ASSUME OwnInv, NEW x \in Contexts, call[x].pc \in {"check", "drop"}
    PROVE  Live(call[x].config)
BY DEF OwnInv, HeldLive, CallShape

\* The check borrows what the call owns.
LEMMA OwnCheck ==
    ASSUME OwnInv, NEW x \in Contexts, Check(x)
    PROVE  OwnInv'
<1> USE DEF OwnInv
<1>1. TypeOK' /\ call[x] \in CallRecord /\ call \in [Contexts -> CallRecord]
  BY TypeCallback DEF CallbackStep, TypeOK
<1>2. PICK d \in Readable(call[x].config) :
        call' = [call EXCEPT ![x].pc = "drop",
                             ![x].code = CheckRevocation(d, call[x].chain)]
  BY DEF Check
<1>3. /\ \A y \in Contexts \ {x} : call'[y] = call[y]
      /\ call'[x].ours = call[x].ours /\ call'[x].config = call[x].config
      /\ call'[x].ssl = call[x].ssl /\ call'[x].pc = "drop"
  BY <1>1, <1>2 DEF CallRecord
<1>4. misuse' = misuse
  <2>1. Live(call[x].config) /\ misuse' = (misuse \/ ~Live(call[x].config))
    BY CheckReadsLive DEF Check
  <2>2. misuse \in BOOLEAN
    BY DEF TypeOK
  <2> QED BY <2>1, <2>2
<1>5. call[x].pc = "check" /\ x \in ctx
  BY DEF Check, CallShape
<1>6. ~call[x].ours =>
        index /\ call[x].ssl /\ slot[x] # Null /\ call[x].config = slot[x]
  BY <1>5 DEF CallShape
<1> QED BY <1>1, <1>3, <1>4, <1>5, <1>6, OwnOnlyCall DEF Check

\* A config of the callback's own is freed, and nobody else has it; a borrowed
\* one stays with its context.
LEMMA OwnDrop ==
    ASSUME OwnInv, NEW x \in Contexts, Drop(x)
    PROVE  OwnInv'
<1> USE DEF OwnInv
<1>1. TypeOK' /\ call[x] \in CallRecord /\ call \in [Contexts -> CallRecord]
  BY TypeCallback DEF CallbackStep, TypeOK
<1>2. /\ call[x].pc = "drop" /\ index' = index /\ owned' = owned /\ ctx' = ctx
      /\ slot' = slot /\ leaked' = leaked
  BY DEF Drop
<1>3. PICK r \in {0, 1}, e \in Errors : Return(x, r, e)
  <2> DEFINE end == Conclusion(x, call[x].code)
  <2>1. end.ret \in {0, 1} /\ end.error \in Errors
    BY <1>1 DEF Conclusion, CallRecord, Errors
  <2> QED BY <2>1 DEF Drop
<1>4. /\ \A y \in Contexts \ {x} : call'[y] = call[y]
      /\ call'[x].ours = FALSE
      /\ call'[x].pc \in {"call", "idle"}
  BY <1>3, ReturnEffect
<1>5. x \in ctx /\ Live(call[x].config) /\ call[x].config # Null
  BY <1>2, CheckReadsLive, PointerAssumption DEF CallShape, Live
<1>6. CASE ~call[x].ours
  <2>1. UNCHANGED <<heap, misuse>> /\ call[x].ours = FALSE
    BY <1>1, <1>6 DEF Drop, DropConfig, CallRecord
  <2> QED BY <1>1, <1>2, <1>4, <1>5, <2>1, OwnOnlyCall
<1>7. CASE call[x].ours
  <2> DEFINE p == call[x].config
  <2>0. Free(p) /\ p \in Pointers
    BY <1>5, <1>7 DEF Drop, DropConfig, Live
  <2>1. /\ \A q \in Pointers \ {p} : heap'[q] = heap[q]
        /\ heap'[p] = "freed" /\ misuse' = misuse
    BY <1>5, <2>0, FreeEffect
  <2>2. \A y \in Contexts : call'[y].ours => y # x /\ call'[y] = call[y]
    BY <1>4
  <2>3. HeldLive'
    <3>1. \A q \in owned : q \in Pointers /\ heap'[q] \in Dirs
      BY <1>7, <2>1 DEF HeldLive, Live, Exclusive
    <3>2. \A y \in ctx : slot[y] # Null => slot[y] \in Pointers /\ heap'[slot[y]] \in Dirs
      BY <1>7, <2>1 DEF HeldLive, Live, Exclusive
    <3>3. \A y \in Contexts : call'[y].ours =>
            call'[y].config \in Pointers /\ heap'[call'[y].config] \in Dirs
      BY <1>7, <2>1, <2>2 DEF HeldLive, Live, Exclusive
    <3>4. \A q \in leaked : q \in Pointers /\ heap'[q] \in Dirs
      BY <1>7, <2>1 DEF HeldLive, Live, Exclusive
    <3> QED BY <1>2, <3>1, <3>2, <3>3, <3>4 DEF HeldLive, Live
  <2>4. CallShape'
    BY <1>2, <1>4, <1>5 DEF CallShape
  <2>5. Exclusive'
    BY <1>2, <2>2 DEF Exclusive
  <2>6. Covered'
    <3> SUFFICES ASSUME NEW q \in Pointers, heap'[q] \in Dirs
                 PROVE  \/ q \in owned \/ q \in leaked
                        \/ \E y \in ctx : slot[y] = q
                        \/ \E y \in ctx : call'[y].ours /\ call'[y].config = q
      BY <1>2 DEF Covered, Live
    <3>1. q # p /\ Live(q)
      BY <2>1, PointerAssumption DEF Live
    <3>2. \A y \in ctx : (call[y].ours /\ call[y].config = q) =>
            call'[y].ours /\ call'[y].config = q
      BY <1>4, <3>1 DEF TypeOK
    <3> QED BY <3>1, <3>2 DEF Covered
  <2> QED BY <1>1, <1>2, <2>1, <2>3, <2>4, <2>5, <2>6
<1> QED BY <1>6, <1>7

\* Every pointer keeps its one owner.
LEMMA OwnNext == OwnInv /\ [Next]_vars => OwnInv'
<1> SUFFICES ASSUME OwnInv, [Next]_vars PROVE OwnInv'
  OBVIOUS
<1>1. CASE Next
  BY <1>1, OwnNewConfig, OwnFreeConfig, OwnSetConfig, OwnFreeContext, OwnHandshake,
     OwnEarlyReturn, OwnGetConfig, OwnCheck, OwnDrop DEF Next, CallbackStep
<1>2. CASE UNCHANGED vars
  BY <1>2 DEF vars, OwnInv, TypeOK, HeldLive, CallShape, Exclusive, Covered, Live
<1> QED BY <1>1, <1>2

\* upki_config_free is never given a config that is not live, and no callback
\* reads one, in any interleaving of any number of contexts.
THEOREM NeverMisused == Spec => []NoMisuse
<1>1. OwnInv => NoMisuse
  BY DEF OwnInv, NoMisuse
<1> QED BY <1>1, OwnInit, OwnNext, PTL DEF Spec

\* Every live config has exactly one owner, that will free it, but for those
\* that set_config could not store; nobody ever frees or reads these.
THEOREM AlwaysOneOwner == Spec => []OneOwner
<1>1. OwnInv => OneOwner
  <2> SUFFICES ASSUME OwnInv PROVE OneOwner
    OBVIOUS
  <2> USE DEF OwnInv
  <2>1. \A p \in Pointers : Live(p) => p \in Reachable \cup leaked
    BY DEF Reachable, Covered
  <2>2. \A p \in leaked : Live(p) /\ p \notin Reachable
    BY DEF Reachable, Exclusive, HeldLive, TypeOK
  <2> QED BY <2>1, <2>2 DEF OneOwner, Exclusive, TypeOK
<1> QED BY <1>1, OwnInit, OwnNext, PTL DEF Spec

-----------------------------------------------------------------------------
\* Addresses are not used twice: a config that stays live stays what it is.
LEMMA LiveKept ==
    ASSUME OwnInv, [Next]_vars, NEW p \in Pointers, heap[p] \in Dirs, heap'[p] \in Dirs
    PROVE  heap'[p] = heap[p]
<1> USE DEF OwnInv
<1>1. ASSUME NEW q \in Pointers \cup {Null}, Free(q) PROVE heap'[p] = heap[p]
  BY <1>1, FreeEffect, PointerAssumption
<1>2. ASSUME NEW q \in Pointers, NEW d \in Dirs, Allocate(q, d) PROVE heap'[p] = heap[p]
  BY <1>2, AllocateEffect DEF Live
<1>3. CASE AppNewConfig
  BY <1>2, <1>3 DEF AppNewConfig
<1>4. CASE AppFreeConfig
  BY <1>1, <1>4 DEF AppFreeConfig, TypeOK
<1>5. ASSUME NEW x \in Contexts, SetConfig(x) \/ FreeContext(x) PROVE heap'[p] = heap[p]
  <2>1. slot[x] \in Pointers \cup {Null}
    BY DEF TypeOK
  <2>2. Free(slot[x]) \/ heap' = heap
    BY <1>5 DEF SetConfig, FreeContext
  <2> QED BY <1>1, <2>1, <2>2
<1>6. ASSUME NEW x \in Contexts, CallbackStep(x) PROVE heap'[p] = heap[p]
  <2>1. CASE Drop(x)
    <3>1. Free(call[x].config) \/ heap' = heap
      BY <2>1 DEF Drop, DropConfig
    <3>2. call[x].config \in Pointers \cup {Null}
      BY DEF TypeOK, CallRecord
    <3> QED BY <1>1, <3>1, <3>2
  <2>2. CASE GetConfig(x)
    BY <1>2, <2>2, PointerAssumption DEF GetConfig
  <2> QED BY <1>6, <2>1, <2>2 DEF CallbackStep, EarlyReturn, Check
<1>7. ASSUME NEW x \in Contexts, NEW c \in Chains, Handshake(x, c) PROVE heap'[p] = heap[p]
  BY <1>7 DEF Handshake
<1>8. CASE UNCHANGED vars
  BY <1>8 DEF vars
<1> QED BY <1>3, <1>4, <1>5, <1>6, <1>7, <1>8 DEF Next

\* While a callback runs, its context's slot is not set.
LEMMA SlotKept ==
    ASSUME OwnInv, [Next]_vars, NEW y \in Contexts, call[y].pc # "idle"
    PROVE  slot'[y] = slot[y] /\ index' = index
<1>1. ASSUME NEW x \in Contexts, SetConfig(x) PROVE slot'[y] = slot[y] /\ index' = index
  <2>1. x # y
    BY <1>1 DEF SetConfig
  <2> QED BY <1>1, <2>1 DEF SetConfig, OwnInv, TypeOK
<1>2. ASSUME NEW x \in Contexts,
             FreeContext(x) \/ CallbackStep(x) \/ \E c \in Chains : Handshake(x, c)
      PROVE  slot' = slot /\ index' = index
  BY <1>2 DEF FreeContext, CallbackStep, EarlyReturn, GetConfig, Check, Drop, Handshake
<1> QED BY <1>1, <1>2 DEF Next, vars, AppNewConfig, AppFreeConfig

\* What is configured for a context does not change under its callback.
LEMMA ConfiguredKept ==
    ASSUME OwnInv, OwnInv', [Next]_vars, NEW y \in Contexts,
           call[y].pc \in {"check", "drop"}, call'[y].pc # "idle",
           call'[y].ssl = call[y].ssl
    PROVE  Configured(y)' = Configured(y)
<1>1. slot'[y] = slot[y] /\ index' = index
  BY SlotKept
<1>2. CASE index /\ slot[y] # Null
  <2>1. y \in ctx /\ y \in ctx'
    BY DEF OwnInv, CallShape
  <2>2. Live(slot[y]) /\ slot[y] \in Pointers /\ heap'[slot[y]] \in Dirs
    BY <1>1, <1>2, <2>1 DEF OwnInv, HeldLive, Live
  <2>3. heap'[slot[y]] = heap[slot[y]]
    BY <2>2, LiveKept DEF Live
  <2> QED BY <1>1, <2>3 DEF Configured
<1>3. CASE ~(index /\ slot[y] # Null)
  BY <1>1, <1>3 DEF Configured
<1> QED BY <1>2, <1>3

\* A call that does not move stays sound, whatever the others do.
LEMMA CallKept ==
    ASSUME OwnInv, OwnInv', [Next]_vars, NEW y \in Contexts, CallOK(y), call'[y] = call[y]
    PROVE  CallOK(y)'
<1>1. CASE call[y].pc \in {"check", "drop"}
  <2>1. Configured(y)' = Configured(y)
    BY <1>1, ConfiguredKept
  <2>2. /\ call[y].config \in Pointers /\ heap[call[y].config] \in Dirs
        /\ heap'[call[y].config] \in Dirs
    <3>1. OwnInv' => (call'[y].pc \in {"check", "drop"} => Live(call[y].config)')
      BY DEF OwnInv, HeldLive, CallShape
    <3> QED BY <1>1, <3>1, CheckReadsLive DEF Live
  <2>3. heap'[call[y].config] = heap[call[y].config]
    BY <2>2, LiveKept
  <2> QED BY <2>1, <2>3 DEF CallOK, CheckRevocation
<1>2. CASE call[y].pc \notin {"check", "drop"}
  BY <1>2 DEF CallOK
<1> QED BY <1>1, <1>2

\* No call has returned at first.
LEMMA SoundInit == Init => SoundInv
<1> SUFFICES ASSUME Init PROVE SoundInv
  OBVIOUS
<1>1. \A x \in Contexts : call[x].pc = "idle"
  BY DEF Init, NoCall
<1> QED BY <1>1, OwnInit DEF SoundInv, CallSound, CallOK

\* A call starts with the chain that it is asked about.
LEMMA SoundHandshake ==
    ASSUME SoundInv, NEW x \in Contexts, NEW c \in Chains, Handshake(x, c)
    PROVE  CallOK(x)'
<1>1. PICK ssl \in BOOLEAN :
        call'[x] = [NoCall EXCEPT !.pc = "call", !.chain = c, !.ssl = ssl,
                     !.depth = IF c.certs = <<>> THEN 0 ELSE Len(c.certs) - 1]
  BY DEF Handshake, SoundInv, OwnInv, TypeOK
<1>2. /\ call'[x].pc = "call" /\ call'[x].error = "X509_V_OK"
      /\ call'[x].chain = c
      /\ call'[x].depth = IF c.certs = <<>> THEN 0 ELSE Len(c.certs) - 1
  BY <1>1 DEF NoCall
<1>3. c.certs \in Seq(Certificate)
  BY ChainAssumption
<1>4. \A d \in 0 .. Len(c.certs) - 1 : ~(d > call'[x].depth)
  BY <1>2, <1>3
<1> QED BY <1>2, <1>4 DEF CallOK

\* The next certificate is called for only if OpenSSL accepted this one.
LEMMA SoundEarlyReturn ==
    ASSUME SoundInv, NEW x \in Contexts, EarlyReturn(x)
    PROVE  CallOK(x)'
<1> DEFINE c == call[x].chain
<1>0. TypeOK /\ call[x] \in CallRecord /\ CallOK(x)
  BY DEF SoundInv, OwnInv, TypeOK, CallSound
<1>1. call[x].pc = "call" /\ call[x].depth \in Nat /\ call[x].error \in Errors
  BY <1>0 DEF EarlyReturn, CallRecord
<1>2. CASE \E e \in Errors : Return(x, 0, e)
  <2>0. PICK e \in Errors : Return(x, 0, e)
    BY <1>2
  <2>1. call'[x].pc = "idle"
    BY <1>0, <2>0, ReturnEffect
  <2> QED BY <2>1 DEF CallOK
<1>3. CASE /\ c.preverify[call[x].depth] = 1 /\ call[x].depth # 0
           /\ Return(x, 1, call[x].error)
  <2>1. /\ call'[x].chain = c /\ call'[x].pc = "call"
        /\ call'[x].depth = call[x].depth - 1 /\ call'[x].error = call[x].error
    <3>1. call[x].depth > 0
      BY <1>1, <1>3
    <3> QED BY <1>0, <1>1, <1>3, <3>1, ReturnEffect
  <2>2. Len(c.certs) \in Nat
    BY <1>0, ChainAssumption DEF CallRecord
  <2>3. \A d \in 0 .. Len(c.certs) - 1 : d > call'[x].depth => c.preverify[d] = 1
    <3> SUFFICES ASSUME NEW d \in 0 .. Len(c.certs) - 1, d > call'[x].depth
                 PROVE  c.preverify[d] = 1
      OBVIOUS
    <3>1. d = call[x].depth \/ d > call[x].depth
      BY <1>1, <2>1, <2>2
    <3> QED BY <1>0, <1>1, <1>3, <3>1 DEF CallOK
  <2> QED BY <1>0, <1>1, <2>1, <2>3 DEF CallOK
<1> QED BY <1>1, <1>2, <1>3 DEF EarlyReturn, Errors

\* It takes the configuration of its own context.
LEMMA SoundGetConfig ==
    ASSUME SoundInv, NEW x \in Contexts, GetConfig(x)
    PROVE  CallOK(x)'
<1>0. /\ TypeOK /\ call[x] \in CallRecord /\ call \in [Contexts -> CallRecord]
      /\ CallOK(x)
  BY DEF SoundInv, OwnInv, TypeOK, CallSound
<1>1. /\ call[x].pc = "call" /\ call[x].depth = 0 /\ call[x].chain.preverify[0] = 1
      /\ call[x].ours = FALSE
  <2>1. call[x].ours \in BOOLEAN /\ call[x].pc = "call"
    BY <1>0 DEF CallRecord, GetConfig
  <2> QED BY <2>1 DEF GetConfig, SoundInv, OwnInv, CallShape
<1>2. CASE call' = [call EXCEPT ![x].pc = "check", ![x].config = ContextConfig(x)]
  <2>1. /\ call'[x].pc = "check" /\ call'[x].depth = 0 /\ call'[x].chain = call[x].chain
        /\ call'[x].error = call[x].error /\ call'[x].ours = FALSE
    BY <1>0, <1>1, <1>2 DEF CallRecord
  <2> QED BY <1>0, <1>1, <2>1 DEF CallOK
<1>3. ASSUME NEW p \in Pointers, Allocate(p, Default),
             call' = [call EXCEPT ![x].pc = "check", ![x].config = p, ![x].ours = TRUE]
      PROVE  CallOK(x)'
  <2>1. /\ call'[x].pc = "check" /\ call'[x].depth = 0 /\ call'[x].chain = call[x].chain
        /\ call'[x].error = call[x].error /\ call'[x].config = p
    BY <1>0, <1>1, <1>3 DEF CallRecord
  <2>2. heap'[p] = Default
    BY <1>0, <1>3, AllocateEffect, PointerAssumption
  <2> QED BY <1>0, <1>1, <2>1, <2>2 DEF CallOK
<1>4. CASE Return(x, 0, call[x].error)
  <2>1. call'[x].pc = "idle"
    BY <1>0, <1>4, ReturnEffect DEF CallRecord
  <2> QED BY <2>1 DEF CallOK
<1> QED BY <1>2, <1>3, <1>4 DEF GetConfig

\* The config that is read is the one that is configured.
LEMMA SoundCheck ==
    ASSUME SoundInv, NEW x \in Contexts, Check(x)
    PROVE  CallOK(x)'
<1>0. /\ TypeOK /\ call[x] \in CallRecord /\ call \in [Contexts -> CallRecord]
      /\ CallOK(x) /\ OwnInv
  BY DEF SoundInv, OwnInv, TypeOK, CallSound
<1>1. call[x].pc = "check" /\ UNCHANGED <<index, heap, owned, ctx, slot>>
  BY DEF Check
<1>2. Live(call[x].config)
  BY <1>0, <1>1, CheckReadsLive
<1>3. call' = [call EXCEPT ![x].pc = "drop",
                 ![x].code = CheckRevocation(heap[call[x].config], call[x].chain)]
  BY <1>2 DEF Check, Readable
<1>4. /\ call'[x].pc = "drop" /\ call'[x].depth = call[x].depth
      /\ call'[x].chain = call[x].chain /\ call'[x].error = call[x].error
      /\ call'[x].config = call[x].config /\ call'[x].ours = call[x].ours
      /\ call'[x].ssl = call[x].ssl
      /\ call'[x].code = CheckRevocation(heap[call[x].config], call[x].chain)
  BY <1>0, <1>3 DEF CallRecord
<1>5. heap[call[x].config] = Configured(x)
  <2>1. CASE call[x].ours
    BY <1>0, <1>1, <2>1 DEF CallOK, Configured, OwnInv, CallShape
  <2>2. CASE ~call[x].ours
    BY <1>0, <1>1, <2>2 DEF Configured, OwnInv, CallShape
  <2> QED BY <2>1, <2>2
<1>6. Configured(x)' = Configured(x)
  BY <1>1, <1>4 DEF Configured
<1> QED BY <1>0, <1>1, <1>4, <1>5, <1>6 DEF CallOK, CheckRevocation

\* It returns what the check of its chain concluded.
LEMMA DropReturns ==
    ASSUME SoundInv, NEW x \in Contexts, Drop(x)
    PROVE  /\ call'[x].pc = "idle"
           /\ call[x].code = CheckRevocation(Configured(x), call[x].chain)
           /\ call'[x].ret = Conclusion(x, call[x].code).ret
           /\ call'[x].error = Conclusion(x, call[x].code).error
<1> DEFINE end == Conclusion(x, call[x].code)
<1>0. TypeOK /\ call[x] \in CallRecord /\ CallOK(x)
  BY DEF SoundInv, OwnInv, TypeOK, CallSound
<1>1. end.ret \in {0, 1} /\ end.error \in Errors
  BY <1>0 DEF Conclusion, CallRecord, Errors
<1>2. call[x].pc = "drop" /\ Return(x, end.ret, end.error)
  BY DEF Drop
<1>3. call[x].depth = 0 /\ call[x].code = CheckRevocation(Configured(x), call[x].chain)
  BY <1>0, <1>2 DEF CallOK
<1> QED BY <1>0, <1>1, <1>2, <1>3, ReturnEffect

\* Every step keeps what a call has found true to its chain and configuration.
LEMMA SoundNext == SoundInv /\ [Next]_vars => SoundInv'
<1> SUFFICES ASSUME SoundInv, [Next]_vars PROVE SoundInv'
  OBVIOUS
<1>0. OwnInv /\ OwnInv' /\ call \in [Contexts -> CallRecord]
  BY OwnNext DEF SoundInv, OwnInv, TypeOK
<1> SUFFICES ASSUME NEW y \in Contexts PROVE CallOK(y)'
  BY <1>0 DEF SoundInv, CallSound
<1>1. CASE call'[y] = call[y]
  BY <1>0, <1>1, CallKept DEF SoundInv, CallSound
<1>2. CASE call'[y] # call[y]
  <2>1. (\E c \in Chains : Handshake(y, c)) \/ CallbackStep(y)
    <3>1. ASSUME NEW x \in Contexts, NEW c \in Chains, Handshake(x, c) PROVE x = y
      BY <1>0, <1>2, <3>1 DEF Handshake
    <3>2. ASSUME NEW x \in Contexts, CallbackStep(x) PROVE x = y
      BY <1>0, <1>2, <3>2 DEF CallbackStep, EarlyReturn, GetConfig, Check, Drop, Return
    <3> QED BY <1>2, <3>1, <3>2
            DEF Next, vars, AppNewConfig, AppFreeConfig, SetConfig, FreeContext
  <2>2. CASE Drop(y)
    BY <2>2, DropReturns DEF CallOK
  <2> QED BY <2>1, <2>2, SoundHandshake, SoundEarlyReturn, SoundGetConfig, SoundCheck
          DEF CallbackStep
<1> QED BY <1>1, <1>2

\* The configured directory of a callback that is under way exists.
LEMMA ConfiguredIsDir ==
    ASSUME OwnInv, NEW x \in Contexts, call[x].pc # "idle"
    PROVE  Configured(x) \in Dirs
BY PointerAssumption DEF OwnInv, HeldLive, CallShape, Live, Configured

\* A call changes only by a step of its own context.
LEMMA OwnStep ==
    ASSUME TypeOK, [Next]_vars, NEW y \in Contexts, call'[y] # call[y]
    PROVE  (\E c \in Chains : Handshake(y, c)) \/ CallbackStep(y)
<1>0. call \in [Contexts -> CallRecord]
  BY DEF TypeOK
<1>1. ASSUME NEW x \in Contexts, NEW c \in Chains, Handshake(x, c) PROVE x = y
  BY <1>0, <1>1 DEF Handshake
<1>2. ASSUME NEW x \in Contexts, CallbackStep(x) PROVE x = y
  BY <1>0, <1>2 DEF CallbackStep, EarlyReturn, GetConfig, Check, Drop, Return
<1> QED BY <1>1, <1>2
        DEF Next, vars, AppNewConfig, AppFreeConfig, SetConfig, FreeContext

\* Where the callbacks of a chain end with 1, and where REVOKED is set: only
\* where the result of the check is acted on.
LEMMA OnlyDropConcludes ==
    ASSUME SoundInv, [Next]_vars, NEW x \in Contexts, call[x].pc # "idle",
           \/ call'[x].pc = "idle" /\ call'[x].ret = 1
           \/ call'[x].error = "X509_V_ERR_CERT_REVOKED"
    PROVE  Drop(x)
<1>0. /\ TypeOK /\ call \in [Contexts -> CallRecord] /\ call[x] \in CallRecord
      /\ call[x].error # "X509_V_ERR_CERT_REVOKED"
  BY DEF SoundInv, OwnInv, TypeOK, CallSound, CallOK
<1>1. call'[x] # call[x]
  BY <1>0
<1>2. CallbackStep(x)
  BY <1>0, <1>1, OwnStep DEF Handshake
<1>3. ASSUME EarlyReturn(x) PROVE FALSE
  <2>1. call[x].error \in Errors /\ call[x].depth \in Nat
    BY <1>0 DEF CallRecord
  <2>2. CASE \E e \in Errors : Return(x, 0, e) /\ e # "X509_V_ERR_CERT_REVOKED"
    <3>1. PICK e \in Errors : Return(x, 0, e) /\ e # "X509_V_ERR_CERT_REVOKED"
      BY <2>2
    <3>2. call'[x].ret = 0 /\ call'[x].error = e
      BY <1>0, <3>1, ReturnEffect
    <3> QED BY <3>1, <3>2
  <2>3. CASE call[x].depth # 0 /\ Return(x, 1, call[x].error)
    <3>1. call[x].depth > 0
      BY <2>1, <2>3
    <3>2. call'[x].pc = "call" /\ call'[x].error = call[x].error
      BY <1>0, <2>1, <2>3, <3>1, ReturnEffect
    <3> QED BY <1>0, <3>2
  <2> QED BY <1>0, <1>3, <2>1, <2>2, <2>3 DEF EarlyReturn, Errors
<1>4. ASSUME GetConfig(x) PROVE FALSE
  <2>1. call[x].error \in Errors
    BY <1>0 DEF CallRecord
  <2>2. CASE Return(x, 0, call[x].error)
    <3>1. call'[x].ret = 0 /\ call'[x].error = call[x].error
      BY <1>0, <2>1, <2>2, ReturnEffect
    <3> QED BY <1>0, <3>1
  <2>3. CASE ~Return(x, 0, call[x].error)
    <3>1. \/ call' = [call EXCEPT ![x].pc = "check", ![x].config = ContextConfig(x)]
          \/ \E p \in Pointers :
               call' = [call EXCEPT ![x].pc = "check", ![x].config = p, ![x].ours = TRUE]
      BY <1>4, <2>3 DEF GetConfig
    <3>2. CASE call' = [call EXCEPT ![x].pc = "check", ![x].config = ContextConfig(x)]
      <4>1. call'[x].pc = "check" /\ call'[x].error = call[x].error
        BY <1>0, <3>2 DEF CallRecord
      <4> QED BY <1>0, <4>1
    <3>3. ASSUME NEW p \in Pointers,
                 call' = [call EXCEPT ![x].pc = "check", ![x].config = p, ![x].ours = TRUE]
          PROVE  FALSE
      <4>1. call'[x].pc = "check" /\ call'[x].error = call[x].error
        BY <1>0, <3>3 DEF CallRecord
      <4> QED BY <1>0, <4>1
    <3> QED BY <3>1, <3>2, <3>3
  <2> QED BY <2>2, <2>3
<1>5. ASSUME Check(x) PROVE FALSE
  <2>1. call'[x].pc = "drop" /\ call'[x].error = call[x].error
    BY <1>0, <1>5 DEF Check, CallRecord
  <2> QED BY <1>0, <2>1
<1> QED BY <1>2, <1>3, <1>4, <1>5 DEF CallbackStep

\* What a step to the end of a chain with 1 was preceded by.
LEMMA PassesStep ==
    ASSUME SoundInv, [Next]_vars, NEW x \in Contexts, call[x].pc # "idle",
           call'[x].pc = "idle", call'[x].ret = 1
    PROVE  LET c == call[x].chain
           IN /\ \A d \in 0 .. Len(c.certs) - 1 : c.preverify[d] = 1
              /\ FromCertificates(c.certs) = "Ok"
              /\ Says[Configured(x)][c] \in {"NotRevoked", "NotCoveredByRevocationData"}
<1> DEFINE c == call[x].chain
<1>1. Drop(x)
  BY OnlyDropConcludes
<1>2. /\ call[x].code = CheckRevocation(Configured(x), c)
      /\ call'[x].ret = Conclusion(x, call[x].code).ret
  BY <1>1, DropReturns
<1>3. /\ c \in Chains /\ Configured(x) \in Dirs
      /\ CallOK(x) /\ call[x].pc = "drop"
  BY <1>1, ConfiguredIsDir DEF SoundInv, OwnInv, TypeOK, CallRecord, CallSound, Drop
<1>4. call[x].code \in {"NotRevoked", "NotCoveredByRevocationData"}
  BY <1>2 DEF Conclusion
<1>5. FromCertificates(c.certs) = "Ok" /\ Says[Configured(x)][c] = call[x].code
  BY <1>2, <1>3, <1>4, CheckCodes DEF Statuses
<1>6. \A d \in 0 .. Len(c.certs) - 1 : c.preverify[d] = 1
  <2>1. Len(c.certs) \in Nat
    BY <1>3, ChainAssumption
  <2>2. /\ call[x].depth = 0 /\ c.preverify[0] = 1
        /\ \A d \in 0 .. Len(c.certs) - 1 : d > call[x].depth => c.preverify[d] = 1
    BY <1>3 DEF CallOK
  <2> QED BY <2>1, <2>2
<1> QED BY <1>4, <1>5, <1>6

\* Only a revoked chain is reported as revoked.
LEMMA RevokedStep ==
    ASSUME SoundInv, [Next]_vars, NEW x \in Contexts, call[x].pc # "idle",
           call'[x].error = "X509_V_ERR_CERT_REVOKED"
    PROVE  Says[Configured(x)][call[x].chain] = "CertainlyRevoked"
<1> DEFINE c == call[x].chain
<1>1. Drop(x)
  BY OnlyDropConcludes
<1>2. /\ call[x].code = CheckRevocation(Configured(x), c)
      /\ call'[x].error = Conclusion(x, call[x].code).error
  BY <1>1, DropReturns
<1>3. /\ c \in Chains /\ Configured(x) \in Dirs
      /\ call[x].error # "X509_V_ERR_CERT_REVOKED"
  BY ConfiguredIsDir DEF SoundInv, OwnInv, TypeOK, CallRecord, CallSound, CallOK
<1>4. call[x].code = "CertainlyRevoked"
  BY <1>2, <1>3 DEF Conclusion
<1> QED BY <1>2, <1>3, <1>4, CheckCodes DEF Statuses

\* upki_openssl_verify_callback: OpenSSL is let through only if it accepted
\* every certificate itself and the configured cache, at the moment of the
\* answer, does not know the leaf as revoked.
THEOREM PassesAreSound == Spec => PassesSound
<1>1. SoundInv /\ [Next]_vars =>
        [\A x \in Contexts :
           (call[x].pc # "idle" /\ call'[x].pc = "idle" /\ call'[x].ret = 1) =>
             LET c == call[x].chain
             IN /\ \A d \in 0 .. Len(c.certs) - 1 : c.preverify[d] = 1
                /\ FromCertificates(c.certs) = "Ok"
                /\ Says[Configured(x)][c] \in {"NotRevoked", "NotCoveredByRevocationData"}]_vars
  BY PassesStep
<1> QED BY <1>1, SoundInit, SoundNext, PTL DEF Spec, PassesSound

\* upki_openssl_verify_callback: X509_V_ERR_CERT_REVOKED is never set for
\* anything but a leaf that the configured cache says is revoked.
THEOREM RevokedIsReported == Spec => RevokedReported
<1>1. SoundInv /\ [Next]_vars =>
        [\A x \in Contexts :
           (call[x].pc # "idle" /\ call'[x].error = "X509_V_ERR_CERT_REVOKED") =>
             Says[Configured(x)][call[x].chain] = "CertainlyRevoked"]_vars
  BY RevokedStep
<1> QED BY <1>1, SoundInit, SoundNext, PTL DEF Spec, RevokedReported
===============================================================================
