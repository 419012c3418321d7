-------------------------- MODULE Sha256StreamProofs --------------------------
(***************************************************************************)
(* Proofs about the incremental interface of SHA-256: for every block and  *)
(* length-field size, every message length and every way of cutting the    *)
(* message into slices, what is compressed is the padded message.          *)
(*                                                                         *)
(* StreamsWhole is not inductive by itself: it says nothing of where the   *)
(* bytes lie in the buffer.  StreamInv says it position by position, and   *)
(* that the length that `finish` computes from nblocks and used is the     *)
(* length of the message.                                                  *)
(***************************************************************************)
EXTENDS Sha256Stream, SequenceTheorems, TLAPS

Byte == {"message", "zero", "delimiter", "length"} \X Nat

Compressed == nblocks * BLOCK_SZ

\* Before finish: whole blocks of the message are compressed, the bytes after
\* them lie in the buffer in order, and together they are the message.
Underway ==
    /\ length = Compressed + used
    /\ h = MessageBytes(0, Compressed)
    /\ \A i \in 1 .. used : buffer[i] = <<"message", Compressed + i>>

Counters ==
    /\ used \in 0 .. BLOCK_SZ - 1
    /\ nblocks \in Nat
    /\ length \in 0 .. MaxMessage

StreamInv ==
    /\ Counters /\ done \in BOOLEAN
    /\ buffer \in [1 .. BLOCK_SZ -> Byte]
    /\ ~done => Underway
    /\ done => h = Padded

-----------------------------------------------------------------------------
(***************************************************************************)
(* Arithmetic of blocks.                                                   *)
(***************************************************************************)
\* Division with remainder, as `chunks_exact` cuts a slice into blocks.
LEMMA DivMod ==
    ASSUME NEW m \in Nat, NEW b \in Nat \ {0}
    PROVE  /\ m % b \in 0 .. b - 1 /\ m \div b \in Nat
           /\ m = (m \div b) * b + (m % b)
OBVIOUS

\* The bytes of consecutive groups of blocks add up.
LEMMA Distribute ==
    ASSUME NEW a \in Nat, NEW c \in Nat, NEW b \in Nat
    PROVE  (a + c) * b = a * b + c * b /\ a * b \in Nat
OBVIOUS

\* Quotient and remainder are determined by the number of whole blocks.
LEMMA Unique ==
    ASSUME NEW q \in Nat, NEW r \in Nat, NEW b \in Nat \ {0}, r < b
    PROVE  (q * b + r) % b = r /\ (q * b) \div b = q /\ (q * b) % b = 0
OBVIOUS

-----------------------------------------------------------------------------
(***************************************************************************)
(* The sequences that are compressed.                                      *)
(***************************************************************************)
\* A sequence given by its length and its bytes.
LEMMA FcnIsSeq ==
    ASSUME NEW n \in Nat, NEW s \in [1 .. n -> Byte]
    PROVE  s \in Seq(Byte) /\ Len(s) = n
BY SeqDef

\* The bytes of the message.
LEMMA MessageIsSeq ==
    ASSUME NEW from \in Nat, NEW n \in Nat
    PROVE  MessageBytes(from, n) \in Seq(Byte) /\ Len(MessageBytes(from, n)) = n
<1>1. MessageBytes(from, n) \in [1 .. n -> Byte]
  BY DEF MessageBytes, Byte
<1> QED BY <1>1, FcnIsSeq

\* The fill.
LEMMA FillIsSeq ==
    ASSUME NEW n \in Nat
    PROVE  Zeroes(n) \in Seq(Byte) /\ Len(Zeroes(n)) = n
<1>1. Zeroes(n) \in [1 .. n -> Byte]
  BY DEF Zeroes, Byte
<1> QED BY <1>1, FcnIsSeq

\* The delimiter.
LEMMA DelimiterIsSeq ==
    Delimiter \in Seq(Byte) /\ Len(Delimiter) = 1 /\ Delimiter[1] = <<"delimiter", 128>>
BY DEF Delimiter, Byte

\* The length field.
LEMMA LengthIsSeq ==
    ASSUME NEW n \in Nat
    PROVE  LengthField(n) \in Seq(Byte) /\ Len(LengthField(n)) = LENGTH_SZ
<1>1. \A i \in 1 .. LENGTH_SZ : n * LENGTH_SZ + i \in Nat
  BY SizeAssumption, Distribute
<1>2. LengthField(n) \in [1 .. LENGTH_SZ -> Byte]
  BY <1>1 DEF LengthField, Byte
<1> QED BY <1>2, FcnIsSeq, SizeAssumption

\* A slice of the message is the message from another place on.
LEMMA SubBytes ==
    ASSUME NEW n \in Nat, NEW from \in Nat, NEW i \in 0 .. n, NEW j \in i .. n
    PROVE  SubSeq(MessageBytes(from, n), i + 1, j) = MessageBytes(from + i, j - i)
<1> DEFINE s == MessageBytes(from, n)
           t == MessageBytes(from + i, j - i)
           u == SubSeq(s, i + 1, j)
<1>0. from + i \in Nat /\ j - i \in Nat
  OBVIOUS
<1>1. s \in Seq(Byte) /\ Len(s) = n /\ t \in Seq(Byte) /\ Len(t) = j - i
  BY <1>0, MessageIsSeq, Zenon
<1>2. \A k \in i + 1 .. j : s[k] \in Byte
  BY <1>1, ElementOfSeq
<1>3. /\ u \in Seq(Byte) /\ Len(u) = j - i
      /\ \A k \in 1 .. j - i : u[k] = s[i + k]
  <2> HIDE DEF s
  <2>1. /\ SubSeq(s, i + 1, j) \in Seq(Byte)
        /\ Len(SubSeq(s, i + 1, j)) = IF i + 1 <= j THEN j - (i + 1) + 1 ELSE 0
        /\ \A k \in 1 .. j - (i + 1) + 1 : SubSeq(s, i + 1, j)[k] = s[(i + 1) + k - 1]
    BY <1>2, SubSeqProperties
  <2> QED BY <2>1
<1>4. \A k \in 1 .. j - i : u[k] = t[k]
  BY <1>3 DEF MessageBytes
<1> HIDE DEF s, t, u
<1> QED BY <1>1, <1>3, <1>4, SeqEqual DEF s, t, u

\* Consecutive parts of the message join.
LEMMA JoinBytes ==
    ASSUME NEW from \in Nat, NEW m \in Nat, NEW n \in Nat
    PROVE  MessageBytes(from, m) \o MessageBytes(from + m, n) = MessageBytes(from, m + n)
<1> DEFINE s == MessageBytes(from, m)
           t == MessageBytes(from + m, n)
           u == MessageBytes(from, m + n)
<1>0. from + m \in Nat /\ m + n \in Nat
  OBVIOUS
<1>1. /\ s \in Seq(Byte) /\ Len(s) = m /\ t \in Seq(Byte) /\ Len(t) = n
      /\ u \in Seq(Byte) /\ Len(u) = m + n
  BY <1>0, MessageIsSeq, Zenon
<1>2. \A k \in 1 .. m + n : u[k] = IF k <= m THEN s[k] ELSE t[k - m]
  BY DEF MessageBytes
<1> HIDE DEF s, t, u
<1>3. /\ s \o t \in Seq(Byte) /\ Len(s \o t) = m + n
      /\ \A k \in 1 .. m + n : (s \o t)[k] = IF k <= m THEN s[k] ELSE t[k - m]
  BY <1>1, ConcatProperties
<1>4. s \o t = u
  BY <1>1, <1>2, <1>3, SeqEqual
<1> QED BY <1>4 DEF s, t, u

\* What is compressed next joins what was compressed so far.
LEMMA JoinNext ==
    ASSUME NEW m \in Nat, NEW n \in Nat
    PROVE  MessageBytes(0, m) \o MessageBytes(m, n) = MessageBytes(0, m + n)
<1>1. 0 \in Nat /\ 0 + m = m
  OBVIOUS
<1>2. MessageBytes(0, m) \o MessageBytes(0 + m, n) = MessageBytes(0, m + n)
  BY <1>1, JoinBytes, Zenon
<1> QED BY <1>1, <1>2

\* The beginning of a slice of the message.
LEMMA FirstBytes ==
    ASSUME NEW n \in Nat, NEW from \in Nat, NEW j \in 0 .. n
    PROVE  SubSeq(MessageBytes(from, n), 1, j) = MessageBytes(from, j)
<1>1. /\ 0 \in 0 .. n /\ j \in 0 .. n /\ 0 + 1 = 1 /\ from + 0 = from /\ j - 0 = j
  OBVIOUS
<1>2. SubSeq(MessageBytes(from, n), 0 + 1, j) = MessageBytes(from + 0, j - 0)
  BY <1>1, SubBytes, Zenon
<1> QED BY <1>1, <1>2

\* Fills join.
LEMMA JoinZeroes ==
    ASSUME NEW m \in Nat, NEW n \in Nat
    PROVE  Zeroes(m) \o Zeroes(n) = Zeroes(m + n)
<1> DEFINE s == Zeroes(m)
           t == Zeroes(n)
           u == Zeroes(m + n)
<1>1. /\ s \in Seq(Byte) /\ Len(s) = m /\ t \in Seq(Byte) /\ Len(t) = n
      /\ u \in Seq(Byte) /\ Len(u) = m + n
  BY FillIsSeq
<1>2. \A k \in 1 .. m + n : u[k] = IF k <= m THEN s[k] ELSE t[k - m]
  BY DEF Zeroes
<1> HIDE DEF s, t, u
<1>3. /\ s \o t \in Seq(Byte) /\ Len(s \o t) = m + n
      /\ \A k \in 1 .. m + n : (s \o t)[k] = IF k <= m THEN s[k] ELSE t[k - m]
  BY <1>1, ConcatProperties
<1>4. s \o t = u
  BY <1>1, <1>2, <1>3, SeqEqual
<1> QED BY <1>4 DEF s, t, u

\* What copy_from_slice leaves in the buffer.
LEMMA CopyBytes ==
    ASSUME NEW buf \in [1 .. BLOCK_SZ -> Byte], NEW at \in Nat, NEW s \in Seq(Byte)
    PROVE  /\ Copy(buf, at, s) \in [1 .. BLOCK_SZ -> Byte]
           /\ \A i \in 1 .. BLOCK_SZ :
                Copy(buf, at, s)[i] =
                    IF at < i /\ i <= at + Len(s) THEN s[i - at] ELSE buf[i]
<1>1. Len(s) \in Nat /\ \A i \in 1 .. Len(s) : s[i] \in Byte
  BY ElementOfSeq, LenProperties
<1>2. ASSUME NEW i \in 1 .. BLOCK_SZ
      PROVE  (IF at < i /\ i <= at + Len(s) THEN s[i - at] ELSE buf[i]) \in Byte
  <2>1. CASE at < i /\ i <= at + Len(s)
    <3>1. i - at \in 1 .. Len(s) BY <2>1, <1>1, SizeAssumption
    <3> QED BY <3>1, <1>1, <2>1
  <2>2. CASE ~(at < i /\ i <= at + Len(s))
    BY <2>2
  <2> QED BY <2>1, <2>2
<1> QED BY <1>2 DEF Copy

\* A buffer that begins with the given bytes and has no others is those bytes.
LEMMA FullBuffer ==
    ASSUME NEW buf \in [1 .. BLOCK_SZ -> Byte], NEW s \in Seq(Byte), Len(s) = BLOCK_SZ,
           \A i \in 1 .. BLOCK_SZ : buf[i] = s[i]
    PROVE  buf = s
BY FcnIsSeq, SeqEqual, SizeAssumption

-----------------------------------------------------------------------------
(***************************************************************************)
(* The first state and the calls of update.                                *)
(***************************************************************************)
\* A new hasher has compressed nothing.
LEMMA StreamInit == Init => StreamInv
<1> SUFFICES ASSUME Init PROVE StreamInv
  OBVIOUS
<1> USE DEF Init
<1>1. Zeroes(BLOCK_SZ) \in [1 .. BLOCK_SZ -> Byte]
  BY DEF Zeroes, Byte
<1>2. Counters
  BY SizeAssumption, BoundAssumption DEF Counters
<1>6. done \in BOOLEAN /\ ~done
  OBVIOUS
<1>3. Compressed = 0
  BY SizeAssumption DEF Compressed
<1>4. MessageBytes(0, 0) = <<>>
  <2>1. MessageBytes(0, 0) \in Seq(Byte) /\ Len(MessageBytes(0, 0)) = 0
    BY MessageIsSeq
  <2> QED BY <2>1, EmptySeq
<1>5. Underway
  BY <1>3, <1>4 DEF Underway
<1> QED BY <1>1, <1>2, <1>5, <1>6 DEF StreamInv

\* What is known of the bytes when update is called with n of them.
LEMMA UpdateFacts ==
    ASSUME StreamInv, ~done, NEW n \in Nat
    PROVE  /\ BLOCK_SZ \in Nat \ {0} /\ nblocks \in Nat /\ Compressed \in Nat
           /\ used \in 0 .. BLOCK_SZ - 1 /\ length \in Nat /\ length = Compressed + used
           /\ h = MessageBytes(0, Compressed) /\ buffer \in [1 .. BLOCK_SZ -> Byte]
           /\ \A i \in 1 .. used : buffer[i] = <<"message", Compressed + i>>
<1>1. BLOCK_SZ \in Nat \ {0}
  BY SizeAssumption
<1>2. Compressed \in Nat
  BY <1>1, Distribute DEF StreamInv, Counters, Compressed
<1>3. Underway /\ Counters /\ buffer \in [1 .. BLOCK_SZ -> Byte]
  BY DEF StreamInv
<1> QED BY <1>1, <1>2, <1>3, BoundAssumption DEF Counters, Underway

\* update on an empty buffer with whole blocks: they are compressed directly.
LEMMA AlignedUpdate ==
    ASSUME StreamInv, NEW n \in Nat, Update(n), used = 0, n % BLOCK_SZ = 0
    PROVE  StreamInv'
<1>0. ~done
  BY DEF Update
<1>1. /\ BLOCK_SZ \in Nat \ {0} /\ nblocks \in Nat /\ Compressed \in Nat
      /\ length \in Nat /\ length = Compressed
      /\ h = MessageBytes(0, Compressed) /\ buffer \in [1 .. BLOCK_SZ -> Byte]
  BY <1>0, UpdateFacts
<1>2. /\ h' = h \o MessageBytes(length, n) /\ nblocks' = nblocks + (n \div BLOCK_SZ)
      /\ buffer' = buffer /\ used' = 0 /\ length' = length + n /\ done' = FALSE
      /\ length + n <= MaxMessage
  BY <1>0 DEF Update
<1>3. n \div BLOCK_SZ \in Nat /\ n = (n \div BLOCK_SZ) * BLOCK_SZ
  <2> DEFINE q == n \div BLOCK_SZ
             b == q * BLOCK_SZ
  <2>1. q \in Nat /\ n = b + (n % BLOCK_SZ)
    BY <1>1, DivMod, Zenon
  <2> HIDE DEF q
  <2>2. b \in Nat
    BY <1>1, <2>1, Distribute, Zenon
  <2> HIDE DEF b
  <2>3. n = b
    BY <2>1, <2>2
  <2> QED BY <2>1, <2>3 DEF q, b
<1>4. Compressed' = Compressed + n
  <2>1. (nblocks + (n \div BLOCK_SZ)) * BLOCK_SZ
          = nblocks * BLOCK_SZ + (n \div BLOCK_SZ) * BLOCK_SZ
    BY <1>1, <1>3, Distribute
  <2> QED BY <2>1, <1>2, <1>3 DEF Compressed
<1>5. h' = MessageBytes(0, Compressed')
  BY <1>1, <1>2, <1>4, JoinNext
<1>6. Underway'
  BY <1>1, <1>2, <1>4, <1>5 DEF Underway
<1>7. Counters'
  BY <1>1, <1>2, <1>3, BoundAssumption DEF Counters
<1> QED BY <1>1, <1>2, <1>6, <1>7 DEF StreamInv

\* The general case of update, in the code's order: the leading bytes fill the
\* buffer, whole blocks are compressed, the rest is buffered.  Stated once for
\* the three ways in which the buffer takes the leading bytes: `c` is what is
\* compressed when the rest of the slice is cut, `k` what is buffered by then.
LEMMA OtherUpdate ==
    ASSUME StreamInv, NEW n \in Nat, Update(n), ~(used = 0 /\ n % BLOCK_SZ = 0)
    PROVE  StreamInv'
<1> DEFINE take == Taken(used, n)
           lead == Copy(buffer, used, SubSeq(MessageBytes(length, n), 1, take))
           full == used + take = BLOCK_SZ
           left == SubSeq(MessageBytes(length, n), take + 1, n)
           whole == Len(left) - (Len(left) % BLOCK_SZ)
           kept == IF full THEN 0 ELSE used + take
           m == n - take
           q == m \div BLOCK_SZ
           rest == m % BLOCK_SZ
<1> HIDE DEF take, lead, full, left, whole, kept, m, q, rest
<1>0. ~done
  BY DEF Update
<1>1. /\ BLOCK_SZ \in Nat \ {0} /\ nblocks \in Nat /\ Compressed \in Nat
      /\ used \in 0 .. BLOCK_SZ - 1 /\ length \in Nat /\ length = Compressed + used
      /\ h = MessageBytes(0, Compressed) /\ buffer \in [1 .. BLOCK_SZ -> Byte]
      /\ \A i \in 1 .. used : buffer[i] = <<"message", Compressed + i>>
  BY <1>0, UpdateFacts
<1>2. /\ h' = h \o (IF full THEN lead ELSE <<>>) \o SubSeq(left, 1, whole)
      /\ nblocks' = nblocks + (IF full THEN 1 ELSE 0) + (whole \div BLOCK_SZ)
      /\ buffer' = Copy(lead, 0, SubSeq(left, whole + 1, Len(left)))
      /\ used' = kept + (Len(left) - whole)
      /\ length' = length + n /\ done' = FALSE /\ length + n <= MaxMessage
  <2>1. done' = FALSE /\ length + n <= MaxMessage /\ length' = length + n
    BY <1>0 DEF Update
  <2>2. /\ h' = h \o (IF full THEN lead ELSE <<>>) \o SubSeq(left, 1, whole)
        /\ nblocks' = nblocks + (IF full THEN 1 ELSE 0) + (whole \div BLOCK_SZ)
        /\ buffer' = Copy(lead, 0, SubSeq(left, whole + 1, Len(left)))
        /\ used' = kept + (Len(left) - whole)
    BY DEF Update, take, lead, full, left, whole, kept
  <2> QED BY <2>1, <2>2
<1>3. take \in 0 .. n /\ used + take <= BLOCK_SZ
  BY <1>1 DEF Taken, take
<1>4. /\ SubSeq(MessageBytes(length, n), 1, take) = MessageBytes(length, take)
      /\ left = MessageBytes(length + take, m)
  <2>1. n \in take .. n
    BY <1>3
  <2>2. SubSeq(MessageBytes(length, n), take + 1, n) = MessageBytes(length + take, n - take)
    BY <2>1, <1>1, <1>3, SubBytes, Zenon
  <2>3. SubSeq(MessageBytes(length, n), 1, take) = MessageBytes(length, take)
    BY <1>1, <1>3, FirstBytes, Zenon
  <2> QED BY <2>2, <2>3 DEF left, m
<1>5. /\ lead \in [1 .. BLOCK_SZ -> Byte]
      /\ \A i \in 1 .. used + take : lead[i] = <<"message", Compressed + i>>
  <2>1. /\ MessageBytes(length, take) \in Seq(Byte) /\ Len(MessageBytes(length, take)) = take
    <3>1. take \in Nat BY <1>3
    <3> QED BY <3>1, <1>1, MessageIsSeq
  <2>2. used \in Nat
    BY <1>1
  <2>4. lead = Copy(buffer, used, MessageBytes(length, take))
    BY <1>4 DEF lead
  <2>5. /\ lead \in [1 .. BLOCK_SZ -> Byte]
        /\ \A i \in 1 .. BLOCK_SZ :
             lead[i] = IF used < i /\ i <= used + take
                       THEN MessageBytes(length, take)[i - used] ELSE buffer[i]
    <3> DEFINE s == MessageBytes(length, take)
    <3> HIDE DEF s
    <3>1. s \in Seq(Byte) /\ Len(s) = take
      BY <2>1 DEF s
    <3>2. /\ Copy(buffer, used, s) \in [1 .. BLOCK_SZ -> Byte]
          /\ \A i \in 1 .. BLOCK_SZ :
               Copy(buffer, used, s)[i] =
                   IF used < i /\ i <= used + Len(s) THEN s[i - used] ELSE buffer[i]
      BY <1>1, <2>2, <3>1, CopyBytes
    <3> QED BY <3>1, <3>2, <2>4 DEF s
  <2>3. ASSUME NEW i \in 1 .. used + take PROVE lead[i] = <<"message", Compressed + i>>
    <3>1. CASE i <= used
      BY <3>1, <1>1, <1>3, <2>5
    <3>2. CASE used < i
      <4>1. i - used \in 1 .. take /\ length + (i - used) = Compressed + i
        BY <3>2, <1>1, <1>3
      <4>2. MessageBytes(length, take)[i - used] = <<"message", length + (i - used)>>
        BY <4>1 DEF MessageBytes
      <4> QED BY <4>1, <4>2, <2>5, <3>2, <1>1, <1>3
    <3> QED BY <3>1, <3>2, <1>1, <1>3
  <2> QED BY <2>5, <2>3
<1>6. /\ m \in Nat /\ q \in Nat /\ rest \in 0 .. BLOCK_SZ - 1
      /\ m = q * BLOCK_SZ + rest /\ q * BLOCK_SZ \in Nat
  <2>1. m \in Nat
    BY <1>3 DEF m
  <2>2. q \in Nat /\ rest \in 0 .. BLOCK_SZ - 1 /\ m = q * BLOCK_SZ + rest
    BY <2>1, <1>1, DivMod, Zenon DEF q, rest
  <2>3. q * BLOCK_SZ \in Nat
    BY <2>2, <1>1, Distribute, Zenon
  <2> QED BY <2>1, <2>2, <2>3
<1>7. /\ Len(left) = m /\ whole = q * BLOCK_SZ /\ whole \div BLOCK_SZ = q
      /\ Len(left) - whole = rest
  <2>1. Len(left) = m
    <3>1. length + take \in Nat BY <1>1, <1>3
    <3> QED BY <3>1, <1>4, <1>6, MessageIsSeq
  <2>2. (q * BLOCK_SZ) \div BLOCK_SZ = q
    BY <1>1, <1>6, Unique
  <2>3. whole = q * BLOCK_SZ /\ Len(left) - whole = rest
    BY <2>1, <1>6 DEF whole, rest
  <2> QED BY <2>1, <2>2, <2>3
<1>8. /\ SubSeq(left, 1, whole) = MessageBytes(length + take, q * BLOCK_SZ)
      /\ SubSeq(left, whole + 1, Len(left))
           = MessageBytes(length + take + q * BLOCK_SZ, rest)
  <2>0. length + take \in Nat
    BY <1>1, <1>3
  <2>1. /\ q * BLOCK_SZ \in 0 .. m /\ m \in q * BLOCK_SZ .. m /\ m - q * BLOCK_SZ = rest
    BY <1>6
  <2>2. SubSeq(MessageBytes(length + take, m), 1, q * BLOCK_SZ)
          = MessageBytes(length + take, q * BLOCK_SZ)
    BY <2>0, <2>1, <1>6, FirstBytes, Zenon
  <2>3. SubSeq(MessageBytes(length + take, m), q * BLOCK_SZ + 1, m)
          = MessageBytes((length + take) + q * BLOCK_SZ, m - q * BLOCK_SZ)
    BY <2>0, <2>1, <1>6, SubBytes, Zenon
  <2> QED BY <2>1, <2>2, <2>3, <1>4, <1>7, Zenon
<1>9. /\ buffer' \in [1 .. BLOCK_SZ -> Byte]
      /\ \A i \in 1 .. BLOCK_SZ :
           buffer'[i] = IF i <= rest
                        THEN <<"message", length + take + q * BLOCK_SZ + i>> ELSE lead[i]
  <2> DEFINE tail == MessageBytes(length + take + q * BLOCK_SZ, rest)
  <2>0. length + take + q * BLOCK_SZ \in Nat /\ rest \in Nat
    BY <1>1, <1>3, <1>6
  <2>1. tail \in Seq(Byte) /\ Len(tail) = rest
    BY <2>0, MessageIsSeq
  <2>2. \A i \in 1 .. rest : tail[i] = <<"message", length + take + q * BLOCK_SZ + i>>
    BY DEF MessageBytes
  <2>3. buffer' = Copy(lead, 0, tail)
    BY <1>2, <1>8
  <2> HIDE DEF tail
  <2>4. /\ Copy(lead, 0, tail) \in [1 .. BLOCK_SZ -> Byte]
        /\ \A i \in 1 .. BLOCK_SZ :
             Copy(lead, 0, tail)[i] = IF 0 < i /\ i <= 0 + Len(tail) THEN tail[i - 0] ELSE lead[i]
    BY <1>5, <2>1, CopyBytes
  <2>5. \A i \in 1 .. BLOCK_SZ : 0 < i /\ i - 0 = i /\ 0 + Len(tail) = rest
    BY <2>0, <2>1, <1>1
  <2>6. ASSUME NEW i \in 1 .. BLOCK_SZ
        PROVE  buffer'[i] = IF i <= rest
                            THEN <<"message", length + take + q * BLOCK_SZ + i>> ELSE lead[i]
    <3>1. CASE i <= rest
      <4>1. i \in 1 .. rest BY <3>1, <2>0, <1>1
      <4> QED BY <4>1, <3>1, <2>1, <2>2, <2>3, <2>4, <2>5
    <3>2. CASE ~(i <= rest)
      BY <3>2, <2>3, <2>4, <2>5
    <3> QED BY <3>1, <3>2
  <2> QED BY <2>3, <2>4, <2>6
<1>10. /\ nblocks' = nblocks + (IF full THEN 1 ELSE 0) + q /\ used' = kept + rest
       /\ h' = h \o (IF full THEN lead ELSE <<>>) \o MessageBytes(length + take, q * BLOCK_SZ)
  BY <1>2, <1>7, <1>8
<1>11. (n < BLOCK_SZ - used /\ used # 0) => take = n
  BY DEF Taken, take
<1>12. ~(n < BLOCK_SZ - used) /\ used # 0 => take = BLOCK_SZ - used
  BY DEF Taken, take
<1>13. used = 0 => take = 0
  BY DEF Taken, take
<1>14. Underway' /\ used' \in 0 .. BLOCK_SZ - 1 /\ nblocks' \in Nat
  <2>1. CASE full
    <3>1. take = BLOCK_SZ - used /\ kept = 0 /\ length + take = Compressed + BLOCK_SZ
      BY <2>1, <1>1, <1>3 DEF full, kept
    <3>2. lead = MessageBytes(Compressed, BLOCK_SZ)
      <4>1. /\ MessageBytes(Compressed, BLOCK_SZ) \in Seq(Byte)
            /\ Len(MessageBytes(Compressed, BLOCK_SZ)) = BLOCK_SZ
        BY <1>1, MessageIsSeq
      <4>2. \A i \in 1 .. BLOCK_SZ : MessageBytes(Compressed, BLOCK_SZ)[i] = <<"message", Compressed + i>>
        BY DEF MessageBytes
      <4>3. \A i \in 1 .. BLOCK_SZ : lead[i] = <<"message", Compressed + i>>
        BY <2>1, <1>5 DEF full
      <4> QED BY <4>1, <4>2, <4>3, <1>5, FullBuffer
    <3>3. Compressed' = Compressed + BLOCK_SZ + q * BLOCK_SZ /\ nblocks' \in Nat
      <4>1. nblocks' = (nblocks + 1) + q /\ nblocks + 1 \in Nat /\ nblocks' \in Nat
        BY <2>1, <1>1, <1>6, <1>10
      <4>2. ((nblocks + 1) + q) * BLOCK_SZ = (nblocks + 1) * BLOCK_SZ + q * BLOCK_SZ
        <5>1. BLOCK_SZ \in Nat
          BY <1>1
        <5>2. \A a \in Nat : (a + q) * BLOCK_SZ = a * BLOCK_SZ + q * BLOCK_SZ
          BY <5>1, <1>6, Distribute
        <5> QED BY <5>2, <4>1, Zenon
      <4>3. (nblocks + 1) * BLOCK_SZ = nblocks * BLOCK_SZ + BLOCK_SZ
        BY <1>1
      <4> QED BY <4>1, <4>2, <4>3 DEF Compressed
    <3>4. h' = MessageBytes(0, Compressed')
      <4>1. h' = (MessageBytes(0, Compressed) \o MessageBytes(Compressed, BLOCK_SZ))
                   \o MessageBytes(Compressed + BLOCK_SZ, q * BLOCK_SZ)
        BY <2>1, <3>1, <3>2, <1>1, <1>10
      <4>2. Compressed + BLOCK_SZ \in Nat /\ BLOCK_SZ \in Nat
        BY <1>1
      <4>3. MessageBytes(0, Compressed) \o MessageBytes(Compressed, BLOCK_SZ)
              = MessageBytes(0, Compressed + BLOCK_SZ)
        BY <4>2, <1>1, JoinNext
      <4>4. MessageBytes(0, Compressed + BLOCK_SZ)
              \o MessageBytes(Compressed + BLOCK_SZ, q * BLOCK_SZ)
              = MessageBytes(0, (Compressed + BLOCK_SZ) + q * BLOCK_SZ)
        BY <4>2, <1>6, JoinNext
      <4> QED BY <4>1, <4>3, <4>4, <3>3
    <3>5. used' = rest
      BY <3>1, <1>6, <1>10
    <3>6. \A i \in 1 .. used' : buffer'[i] = <<"message", Compressed' + i>>
      <4> SUFFICES ASSUME NEW i \in 1 .. rest
                   PROVE  buffer'[i] = <<"message", Compressed' + i>>
        BY <3>5
      <4>1. i \in 1 .. BLOCK_SZ /\ i <= rest
        BY <1>1, <1>6
      <4>2. buffer'[i] = <<"message", length + take + q * BLOCK_SZ + i>>
        BY <4>1, <1>9
      <4> QED BY <4>2, <3>1, <3>3
    <3>7. length' = Compressed' + used'
      <4>1. n = take + (q * BLOCK_SZ + rest)
        BY <1>3, <1>6 DEF m
      <4>2. length' = (Compressed + used) + (BLOCK_SZ - used) + (q * BLOCK_SZ + rest)
        BY <4>1, <3>1, <1>1, <1>2, <1>6
      <4>3. \A z \in Nat : (Compressed + used) + (BLOCK_SZ - used) + (z + rest)
                            = (Compressed + BLOCK_SZ + z) + rest
        BY <1>1, <1>6
      <4> QED BY <4>2, <4>3, <3>3, <3>5, <1>6
    <3> QED BY <3>3, <3>4, <3>5, <3>6, <3>7, <1>6 DEF Underway
  <2>2. CASE ~full /\ used = 0
    <3>1. take = 0 /\ kept = 0 /\ length + take = Compressed /\ length = Compressed
      BY <2>2, <1>1, <1>13 DEF kept
    <3>2. Compressed' = Compressed + q * BLOCK_SZ /\ nblocks' \in Nat
      <4>1. nblocks' = nblocks + q /\ nblocks' \in Nat
        BY <2>2, <1>1, <1>6, <1>10
      <4>2. (nblocks + q) * BLOCK_SZ = nblocks * BLOCK_SZ + q * BLOCK_SZ
        BY <1>1, <1>6, Distribute
      <4> QED BY <4>1, <4>2 DEF Compressed
    <3>3. h' = MessageBytes(0, Compressed')
      <4>1. MessageBytes(0, Compressed) \in Seq(Byte)
        BY <1>1, MessageIsSeq
      <4>2. MessageBytes(0, Compressed) \o <<>> = MessageBytes(0, Compressed)
        BY <4>1, ConcatEmptySeq
      <4>3. h' = MessageBytes(0, Compressed) \o MessageBytes(Compressed, q * BLOCK_SZ)
        <5>1. h' = (h \o <<>>) \o MessageBytes(length + take, q * BLOCK_SZ)
          BY <2>2, <1>10
        <5>2. h' = (MessageBytes(0, Compressed) \o <<>>) \o MessageBytes(Compressed, q * BLOCK_SZ)
          BY <5>1, <3>1, <1>1, Zenon
        <5> QED BY <5>2, <4>2, Zenon
      <4> QED BY <4>3, <3>2, <1>1, <1>6, JoinNext
    <3>4. used' = rest
      BY <3>1, <1>6, <1>10
    <3>5. \A i \in 1 .. used' : buffer'[i] = <<"message", Compressed' + i>>
      <4> SUFFICES ASSUME NEW i \in 1 .. rest
                   PROVE  buffer'[i] = <<"message", Compressed' + i>>
        BY <3>4
      <4>1. i \in 1 .. BLOCK_SZ /\ i <= rest
        BY <1>1, <1>6
      <4>2. buffer'[i] = <<"message", length + take + q * BLOCK_SZ + i>>
        BY <4>1, <1>9
      <4> QED BY <4>2, <3>1, <3>2
    <3>6. length' = Compressed' + used'
      BY <3>1, <3>2, <3>4, <1>1, <1>2, <1>6 DEF m
    <3> QED BY <3>2, <3>3, <3>4, <3>5, <3>6, <1>6 DEF Underway
  <2>3. CASE ~full /\ used # 0
    <3>1. take = n /\ kept = used + n /\ used + n < BLOCK_SZ
      BY <2>3, <1>1, <1>3, <1>11, <1>12 DEF full, kept
    <3>2. m = 0 /\ q = 0 /\ rest = 0 /\ q * BLOCK_SZ = 0
      <4>1. m = 0
        BY <3>1, <1>1 DEF m
      <4>2. (0 * BLOCK_SZ) \div BLOCK_SZ = 0 /\ (0 * BLOCK_SZ) % BLOCK_SZ = 0
        BY <1>1, Unique
      <4>3. 0 * BLOCK_SZ = 0
        BY <1>1
      <4> QED BY <4>1, <4>2, <4>3 DEF q, rest
    <3>3. Compressed' = Compressed /\ nblocks' \in Nat
      <4>1. nblocks' = nblocks + 0 + 0
        BY <2>3, <3>2, <1>10
      <4>2. nblocks' = nblocks
        BY <4>1, <1>1
      <4> QED BY <4>2, <1>1 DEF Compressed
    <3>4. h' = MessageBytes(0, Compressed')
      <4>1. MessageBytes(0, Compressed) \in Seq(Byte)
        BY <1>1, MessageIsSeq
      <4>2. MessageBytes(length + take, 0) = <<>>
        <5>1. length + take \in Nat
          BY <1>1, <1>3
        <5>2. /\ MessageBytes(length + take, 0) \in Seq(Byte)
              /\ Len(MessageBytes(length + take, 0)) = 0
          BY <5>1, MessageIsSeq
        <5> QED BY <5>2, EmptySeq
      <4>3. h' = (MessageBytes(0, Compressed) \o <<>>) \o <<>>
        BY <2>3, <3>2, <4>2, <1>1, <1>10
      <4> QED BY <4>1, <4>3, <3>3, ConcatEmptySeq
    <3>5. used' = used + n
      BY <3>1, <3>2, <1>1, <1>10
    <3>6. \A i \in 1 .. used' : buffer'[i] = <<"message", Compressed' + i>>
      <4> SUFFICES ASSUME NEW i \in 1 .. used + n
                   PROVE  buffer'[i] = <<"message", Compressed + i>>
        BY <3>3, <3>5
      <4>1. i \in 1 .. BLOCK_SZ /\ ~(i <= rest)
        BY <3>1, <3>2, <1>1
      <4>2. buffer'[i] = lead[i]
        BY <4>1, <1>9
      <4> QED BY <4>2, <3>1, <1>5
    <3>7. length' = Compressed' + used'
      BY <3>3, <3>5, <1>1, <1>2
    <3> QED BY <3>1, <3>3, <3>4, <3>5, <3>6, <3>7, <1>1 DEF Underway
  <2> QED BY <2>1, <2>2, <2>3
<1>15. Counters'
  BY <1>1, <1>2, <1>14, BoundAssumption DEF Counters
<1> QED BY <1>2, <1>9, <1>14, <1>15 DEF StreamInv

-----------------------------------------------------------------------------
(***************************************************************************)
(* finish.                                                                 *)
(***************************************************************************)
\* Copying into the rest of the buffer appends to what is buffered.
LEMMA CopyAppends ==
    ASSUME NEW buf \in [1 .. BLOCK_SZ -> Byte], NEW s \in Seq(Byte), NEW t \in Seq(Byte),
           Len(s) + Len(t) = BLOCK_SZ, \A i \in 1 .. Len(s) : buf[i] = s[i]
    PROVE  Copy(buf, Len(s), t) = s \o t
<1> DEFINE c == Copy(buf, Len(s), t)
<1>1. Len(s) \in Nat /\ Len(t) \in Nat
  BY LenProperties
<1>2. /\ c \in [1 .. BLOCK_SZ -> Byte]
      /\ \A i \in 1 .. BLOCK_SZ :
           c[i] = IF Len(s) < i /\ i <= Len(s) + Len(t) THEN t[i - Len(s)] ELSE buf[i]
  BY <1>1, CopyBytes
<1> HIDE DEF c
<1>3. /\ s \o t \in Seq(Byte) /\ Len(s \o t) = BLOCK_SZ
      /\ \A i \in 1 .. BLOCK_SZ : (s \o t)[i] = IF i <= Len(s) THEN s[i] ELSE t[i - Len(s)]
  BY ConcatProperties
<1>4. ASSUME NEW i \in 1 .. BLOCK_SZ PROVE c[i] = (s \o t)[i]
  <2>1. CASE i <= Len(s)
    <3>1. i \in 1 .. Len(s) /\ ~(Len(s) < i) BY <2>1, <1>1, SizeAssumption
    <3> QED BY <3>1, <2>1, <1>2, <1>3
  <2>2. CASE ~(i <= Len(s))
    <3>1. Len(s) < i /\ i <= Len(s) + Len(t) BY <2>2, <1>1, SizeAssumption
    <3> QED BY <3>1, <2>2, <1>2, <1>3
  <2> QED BY <2>1, <2>2
<1>5. c = s \o t
  BY <1>2, <1>3, <1>4, FullBuffer
<1> QED BY <1>5 DEF c

\* Concatenation of bytes is associative.
LEMMA Associates ==
    \A s, t, u \in Seq(Byte) : (s \o t) \o u = s \o (t \o u)
BY ConcatAssociative

\* The last block, when delimiter and length fit.
OneBlock(a, b, d, z, l) == a \o (b \o (d \o z \o l)) = ((a \o b) \o d) \o z \o l

\* Regrouped, it is the padded message.
LEMMA RegroupOne ==
    ASSUME NEW a \in Seq(Byte), NEW b \in Seq(Byte), NEW d \in Seq(Byte),
           NEW z \in Seq(Byte), NEW l \in Seq(Byte)
    PROVE  OneBlock(a, b, d, z, l)
<1> DEFINE dz == d \o z
           dzl == dz \o l
           ab == a \o b
<1>1. dz \in Seq(Byte)
  BY ConcatProperties
<1>2. ab \in Seq(Byte)
  BY ConcatProperties
<1> HIDE DEF dz, ab
<1>3. dzl \in Seq(Byte)
  BY <1>1, ConcatProperties
<1> HIDE DEF dzl
<1>4. a \o (b \o dzl) = ab \o dzl
  BY <1>3, Associates DEF ab
<1>5. ab \o dzl = (ab \o dz) \o l
  BY <1>1, <1>2, Associates DEF dzl
<1>6. ab \o dz = (ab \o d) \o z
  BY <1>2, Associates DEF dz
<1>7. a \o (b \o dzl) = ((ab \o d) \o z) \o l
  BY <1>4, <1>5, <1>6
<1> QED BY <1>7 DEF dz, dzl, ab, OneBlock

\* The last two blocks otherwise: the fill is cut between them.
TwoBlocks(a, b, d, y, z, l) ==
    a \o (((b \o d) \o y) \o (z \o l)) = ((a \o b) \o d) \o (y \o z) \o l

\* Regrouped, they are the padded message.
LEMMA RegroupTwo ==
    ASSUME NEW a \in Seq(Byte), NEW b \in Seq(Byte), NEW d \in Seq(Byte),
           NEW y \in Seq(Byte), NEW z \in Seq(Byte), NEW l \in Seq(Byte)
    PROVE  TwoBlocks(a, b, d, y, z, l)
<1> DEFINE bd == b \o d
           zl == z \o l
           yz == y \o z
           yzl == yz \o l
           dyz == d \o yz
           dyzl == dyz \o l
           ab == a \o b
<1>1. bd \in Seq(Byte)
  BY ConcatProperties
<1>2. zl \in Seq(Byte)
  BY ConcatProperties
<1>3. yz \in Seq(Byte)
  BY ConcatProperties
<1> HIDE DEF bd, zl, yz
<1>4. yzl \in Seq(Byte)
  BY <1>3, ConcatProperties
<1> HIDE DEF yzl, dyz, dyzl, ab
<1>5. (bd \o y) \o zl = bd \o (y \o zl)
  BY <1>1, <1>2, Associates
<1>6. y \o zl = yzl
  BY Associates DEF zl, yz, yzl
<1>7. bd \o yzl = b \o (d \o yzl)
  BY <1>4, Associates DEF bd
<1>8. d \o yzl = dyz \o l
  <2>1. \A q \in Seq(Byte) : (d \o q) \o l = d \o (q \o l)
    BY Associates
  <2> QED BY <2>1, <1>3 DEF yzl, dyz
<1>9. a \o (b \o (dyz \o l)) = (ab \o d) \o yz \o l
  <2>1. dyz \in Seq(Byte)
    BY <1>3, ConcatProperties DEF dyz
  <2>2. ab \in Seq(Byte)
    BY ConcatProperties DEF ab
  <2>3. a \o (b \o dyzl) = ab \o dyzl
    <3>1. dyzl \in Seq(Byte)
      BY <2>1, ConcatProperties DEF dyzl
    <3>2. \A q \in Seq(Byte) : (a \o b) \o q = a \o (b \o q)
      BY Associates
    <3> QED BY <3>1, <3>2 DEF ab
  <2>4. ab \o dyzl = (ab \o dyz) \o l
    BY <2>1, <2>2, Associates DEF dyzl
  <2>5. ab \o dyz = (ab \o d) \o yz
    BY <1>3, <2>2, Associates DEF dyz
  <2>6. a \o (b \o dyzl) = ((ab \o d) \o yz) \o l
    BY <2>3, <2>4, <2>5
  <2> QED BY <2>6 DEF dyzl
<1>10. a \o ((bd \o y) \o zl) = (ab \o d) \o yz \o l
  BY <1>5, <1>6, <1>7, <1>8, <1>9
<1> QED BY <1>10 DEF bd, zl, yz, ab, TwoBlocks

\* The fill that FIPS 180-4 asks for is what the code's last blocks hold.
LEMMA Fill ==
    ASSUME NEW n \in Nat, NEW u \in 0 .. BLOCK_SZ - 1
    PROVE  LET over == (n * BLOCK_SZ + u + 1 + LENGTH_SZ) % BLOCK_SZ
               fill == IF over = 0 THEN 0 ELSE BLOCK_SZ - over
           IN  fill = IF NeedsTwoBlocks(BLOCK_SZ - u) THEN 2 * BLOCK_SZ - u - 1 - LENGTH_SZ
                                                      ELSE BLOCK_SZ - u - 1 - LENGTH_SZ
<1> DEFINE over == (n * BLOCK_SZ + u + 1 + LENGTH_SZ) % BLOCK_SZ
<1>0. BLOCK_SZ \in Nat \ {0} /\ LENGTH_SZ \in Nat /\ LENGTH_SZ < BLOCK_SZ /\ n * BLOCK_SZ \in Nat
  BY SizeAssumption, Distribute
<1>1. CASE u + 1 + LENGTH_SZ < BLOCK_SZ
  <2>1. (n * BLOCK_SZ + (u + 1 + LENGTH_SZ)) % BLOCK_SZ = u + 1 + LENGTH_SZ
    BY <1>0, <1>1, Unique
  <2>2. n * BLOCK_SZ + (u + 1 + LENGTH_SZ) = n * BLOCK_SZ + u + 1 + LENGTH_SZ
    BY <1>0
  <2>3. over = u + 1 + LENGTH_SZ
    BY <2>1, <2>2
  <2> HIDE DEF over
  <2> QED BY <2>3, <1>0, <1>1 DEF NeedsTwoBlocks, over
<1>2. CASE u + 1 + LENGTH_SZ >= BLOCK_SZ
  <2> DEFINE r == u + 1 + LENGTH_SZ - BLOCK_SZ
  <2>1. r \in Nat /\ r < BLOCK_SZ
    BY <1>0, <1>2
  <2>2. ((n + 1) * BLOCK_SZ + r) % BLOCK_SZ = r
    <3> HIDE DEF r
    <3>1. n + 1 \in Nat
      OBVIOUS
    <3> QED BY <1>0, <2>1, <3>1, Unique
  <2>3. (n + 1) * BLOCK_SZ + r = n * BLOCK_SZ + u + 1 + LENGTH_SZ
    <3>1. (n + 1) * BLOCK_SZ = n * BLOCK_SZ + BLOCK_SZ
      BY <1>0
    <3> QED BY <3>1, <1>0
  <2>4. over = r
    BY <2>2, <2>3
  <2> HIDE DEF over
  <2> QED BY <2>4, <1>0, <1>2 DEF NeedsTwoBlocks, over
<1> QED BY <1>1, <1>2, <1>0

\* What finish appends makes the compressed bytes the padded message.
LEMMA FinishPads ==
    ASSUME StreamInv, Finish
    PROVE  /\ (h = Padded)'
           /\ LastBlocks(LengthField(length)) \in Seq(Byte)
<1> DEFINE two == NeedsTwoBlocks(BLOCK_SZ - used)
           a == MessageBytes(0, Compressed)
           b == MessageBytes(Compressed, used)
           bits == LengthField(length)
           fill == IF two THEN 2 * BLOCK_SZ - used - 1 - LENGTH_SZ
                          ELSE BLOCK_SZ - used - 1 - LENGTH_SZ
<1> HIDE DEF two, a, b, bits, fill
<1>0. ~done
  BY DEF Finish
<1>1. /\ BLOCK_SZ \in Nat \ {0} /\ nblocks \in Nat /\ Compressed \in Nat
      /\ used \in 0 .. BLOCK_SZ - 1 /\ length \in Nat /\ length = Compressed + used
      /\ h = MessageBytes(0, Compressed) /\ buffer \in [1 .. BLOCK_SZ -> Byte]
      /\ \A i \in 1 .. used : buffer[i] = <<"message", Compressed + i>>
  BY <1>0, UpdateFacts
<1>2. h' = a \o LastBlocks(bits) /\ length' = length
  BY <1>1 DEF Finish, a, bits, Compressed
<1>3. used \in Nat /\ LENGTH_SZ \in Nat \ {0} /\ LENGTH_SZ < BLOCK_SZ
  BY <1>1, SizeAssumption
<1>4. a \in Seq(Byte)
  BY <1>1, MessageIsSeq DEF a
<1>5. b \in Seq(Byte) /\ Len(b) = used
  BY <1>1, <1>3, MessageIsSeq DEF b
<1>6. bits \in Seq(Byte) /\ Len(bits) = LENGTH_SZ
  BY <1>1, LengthIsSeq DEF bits
<1>7. \A i \in 1 .. used : buffer[i] = b[i]
  BY <1>1 DEF b, MessageBytes
<1>8. a \o b = MessageBytes(0, length)
  BY <1>1, <1>3, JoinNext DEF a, b
<1>9. (Padded)' = ((a \o b) \o Delimiter) \o Zeroes(fill) \o bits
  <2>1. length + 1 + LENGTH_SZ = nblocks * BLOCK_SZ + used + 1 + LENGTH_SZ
    BY <1>1 DEF Compressed
  <2>2. (IF (length + 1 + LENGTH_SZ) % BLOCK_SZ = 0 THEN 0
         ELSE BLOCK_SZ - ((length + 1 + LENGTH_SZ) % BLOCK_SZ)) = fill
    BY <2>1, <1>1, Fill DEF fill, two
  <2>3. (Padded)' = MessageBytes(0, length) \o Delimiter \o Zeroes(fill) \o LengthField(length)
    BY <2>2, <1>2 DEF Padded, Message
  <2> QED BY <2>3, <1>8 DEF bits
<1>12. Delimiter \in Seq(Byte)
  BY DelimiterIsSeq
<1>13. Len(Delimiter) = 1
  BY DelimiterIsSeq
<1>14. b \in Seq(Byte)
  BY <1>5
<1>15. bits \in Seq(Byte)
  BY <1>6
<1>10. CASE ~two
  <2> DEFINE z == Zeroes(fill)
             t == Delimiter \o z \o bits
  <2>1. fill \in Nat /\ fill = BLOCK_SZ - used - 1 - LENGTH_SZ
    BY <1>10, <1>1, <1>3 DEF fill, two, NeedsTwoBlocks
  <2>2. z \in Seq(Byte) /\ Len(z) = fill
    BY <2>1, FillIsSeq
  <2>3. LastBlocks(bits) = Copy(buffer, used, t)
    BY <1>10, <2>1 DEF LastBlocks, two
  <2> HIDE DEF z
  <2>7. z \in Seq(Byte)
    BY <2>2
  <2>4. t \in Seq(Byte) /\ Len(t) = 1 + fill + LENGTH_SZ
    <3> DEFINE dz == Delimiter \o z
    <3>1. dz \in Seq(Byte) /\ Len(dz) = Len(Delimiter) + Len(z)
      BY <2>7, <1>12, ConcatProperties
    <3>2. dz \in Seq(Byte)
      BY <3>1
    <3>3. Len(dz) = 1 + fill
      BY <3>1, <2>2, <1>13
    <3> HIDE DEF dz
    <3>4. dz \o bits \in Seq(Byte) /\ Len(dz \o bits) = Len(dz) + Len(bits)
      BY <3>2, <1>15, ConcatProperties
    <3> QED BY <3>3, <3>4, <1>6 DEF dz
  <2> HIDE DEF t
  <2>5. Copy(buffer, used, t) = b \o t
    <3>1. Len(b) + Len(t) = BLOCK_SZ
      BY <2>1, <2>4, <1>1, <1>3, <1>5
    <3>2. Copy(buffer, Len(b), t) = b \o t
      BY <3>1, <2>4, <1>1, <1>5, <1>7, CopyAppends
    <3> QED BY <3>2, <1>5
  <2>6. a \o (b \o (Delimiter \o z \o bits)) = ((a \o b) \o Delimiter) \o z \o bits
    <3>1. OneBlock(a, b, Delimiter, z, bits)
      BY <2>7, <1>4, <1>14, <1>15, <1>12, RegroupOne
    <3> QED BY <3>1 DEF OneBlock
  <2>8. (h = Padded)'
    BY <2>3, <2>5, <2>6, <1>2, <1>9 DEF t, z
  <2>9. t \in Seq(Byte)
    BY <2>4
  <2>10. b \o t \in Seq(Byte)
    BY <2>9, <1>14, ConcatProperties
  <2> QED BY <2>3, <2>5, <2>8, <2>10 DEF bits
<1>11. CASE two
  <2> DEFINE y == Zeroes(BLOCK_SZ - used - 1)
             z == Zeroes(BLOCK_SZ - LENGTH_SZ)
             delim == Copy(buffer, used, Delimiter)
             bd == b \o Delimiter
  <2>1. used # 0 /\ BLOCK_SZ - used - 1 \in Nat /\ BLOCK_SZ - LENGTH_SZ \in Nat
    BY <1>11, <1>1, <1>3 DEF two, NeedsTwoBlocks
  <2>2. Taken(used, 1) = 1 /\ Taken(used + 1, BLOCK_SZ) = BLOCK_SZ - used - 1
    BY <2>1, <1>1, <1>3 DEF Taken
  <2>3. SubSeq(Delimiter, 1, 1) = Delimiter
    BY DelimiterIsSeq, SubSeqFull
  <2>4. LastBlocks(bits) = Copy(delim, used + 1, y) \o (z \o bits)
    BY <1>11, <2>2, <2>3 DEF LastBlocks, two
  <2>5. y \in Seq(Byte) /\ Len(y) = BLOCK_SZ - used - 1
    BY <2>1, FillIsSeq
  <2>6. z \in Seq(Byte)
    BY <2>1, FillIsSeq
  <2>7. Zeroes(fill) = y \o z
    <3>1. (BLOCK_SZ - used - 1) + (BLOCK_SZ - LENGTH_SZ) = fill
      BY <1>11, <1>1, <1>3 DEF fill
    <3> QED BY <3>1, <2>1, JoinZeroes
  <2>8. /\ bd \in Seq(Byte) /\ Len(bd) = used + 1
        /\ \A i \in 1 .. used + 1 : bd[i] = IF i <= used THEN b[i] ELSE Delimiter[i - used]
    <3>1. /\ bd \in Seq(Byte) /\ Len(bd) = Len(b) + Len(Delimiter)
          /\ \A i \in 1 .. Len(b) + Len(Delimiter) :
               bd[i] = IF i <= Len(b) THEN b[i] ELSE Delimiter[i - Len(b)]
      BY <1>12, <1>14, ConcatProperties
    <3> QED BY <3>1, <1>5, <1>13
  <2>9. /\ delim \in [1 .. BLOCK_SZ -> Byte]
        /\ \A i \in 1 .. BLOCK_SZ :
             delim[i] = IF used < i /\ i <= used + 1 THEN Delimiter[i - used] ELSE buffer[i]
    <3>1. buffer \in [1 .. BLOCK_SZ -> Byte]
      BY <1>1
    <3>2. used \in Nat
      BY <1>3
    <3>3. /\ delim \in [1 .. BLOCK_SZ -> Byte]
          /\ \A i \in 1 .. BLOCK_SZ :
               delim[i] = IF used < i /\ i <= used + Len(Delimiter)
                          THEN Delimiter[i - used] ELSE buffer[i]
      BY <3>1, <3>2, <1>12, CopyBytes, Zenon
    <3> QED BY <3>3, <1>13
  <2> HIDE DEF y, z, delim, bd
  <2>10. ASSUME NEW i \in 1 .. used + 1 PROVE delim[i] = bd[i]
    <3>1. i \in 1 .. BLOCK_SZ
      BY <1>1
    <3>2. CASE i <= used
      <4>1. i \in 1 .. used /\ ~(used < i)
        BY <3>2, <1>1, <1>3
      <4> QED BY <4>1, <3>1, <3>2, <2>8, <2>9, <1>7
    <3>3. CASE ~(i <= used)
      <4>1. used < i /\ i <= used + 1
        BY <3>3, <1>1, <1>3
      <4> QED BY <4>1, <3>1, <3>3, <2>8, <2>9
    <3> QED BY <3>2, <3>3
  <2>11. Copy(delim, used + 1, y) = bd \o y
    <3>1. Len(bd) + Len(y) = BLOCK_SZ
      BY <2>5, <2>8, <1>1, <1>3
    <3>2. \A i \in 1 .. Len(bd) : delim[i] = bd[i]
      BY <2>8, <2>10
    <3>3. Copy(delim, Len(bd), y) = bd \o y
      BY <3>1, <3>2, <2>5, <2>8, <2>9, CopyAppends
    <3> QED BY <3>3, <2>8
  <2>12. a \o (((b \o Delimiter) \o y) \o (z \o bits))
           = ((a \o b) \o Delimiter) \o (y \o z) \o bits
    <3>1. y \in Seq(Byte)
      BY <2>5
    <3>2. TwoBlocks(a, b, Delimiter, y, z, bits)
      BY <3>1, <2>6, <1>4, <1>14, <1>15, <1>12, RegroupTwo
    <3> QED BY <3>2 DEF TwoBlocks
  <2>13. (h = Padded)'
    BY <2>4, <2>7, <2>11, <2>12, <1>2, <1>9 DEF bd
  <2>14. LastBlocks(bits) \in Seq(Byte)
    <3> DEFINE first == bd \o y
               second == z \o bits
    <3>1. bd \in Seq(Byte)
      BY <2>8
    <3>2. y \in Seq(Byte)
      BY <2>5
    <3>3. first \in Seq(Byte)
      BY <3>1, <3>2, ConcatProperties
    <3>4. second \in Seq(Byte)
      BY <2>6, <1>15, ConcatProperties
    <3> HIDE DEF first, second
    <3>5. first \o second \in Seq(Byte)
      BY <3>3, <3>4, ConcatProperties
    <3> QED BY <3>5, <2>4, <2>11 DEF first, second
  <2> QED BY <2>13, <2>14 DEF bits
<1> QED BY <1>10, <1>11

\* Finishing pads what is left, in one block or in two.
LEMMA FinishStep == StreamInv /\ Finish => StreamInv'
<1> SUFFICES ASSUME StreamInv, Finish PROVE StreamInv'
  OBVIOUS
<1>1. (h = Padded)'
  BY FinishPads
<1>2. /\ Counters /\ buffer \in [1 .. BLOCK_SZ -> Byte]
      /\ used' = 0 /\ buffer' = buffer /\ length' = length
  BY DEF StreamInv, Finish
<1>3. done' = TRUE
  BY DEF Finish
<1>4. nblocks' \in Nat
  <2> DEFINE last == LastBlocks(LengthField(nblocks * BLOCK_SZ + used))
  <2>1. Len(last) \in Nat
    <3>1. length = nblocks * BLOCK_SZ + used
      <4>1. ~done
        BY DEF Finish
      <4> QED BY <4>1 DEF StreamInv, Underway, Compressed
    <3>2. last \in Seq(Byte)
      BY <3>1, FinishPads
    <3> QED BY <3>2, LenProperties
  <2> HIDE DEF last
  <2>2. nblocks' = nblocks + (Len(last) \div BLOCK_SZ)
    BY DEF Finish, last
  <2>3. Len(last) \div BLOCK_SZ \in Nat
    <3>1. BLOCK_SZ \in Nat \ {0}
      BY SizeAssumption
    <3> QED BY <2>1, <3>1, DivMod, Zenon
  <2> QED BY <2>2, <2>3, <1>2 DEF Counters
<1>5. Counters'
  BY <1>2, <1>4, SizeAssumption DEF Counters
<1> QED BY <1>1, <1>2, <1>3, <1>5 DEF StreamInv

\* StreamInv is preserved by every step.
LEMMA StreamNext == StreamInv /\ [Next]_vars => StreamInv'
<1> SUFFICES ASSUME StreamInv, [Next]_vars PROVE StreamInv'
  OBVIOUS
<1>1. ASSUME NEW n \in Chunks, Update(n) PROVE StreamInv'
  <2>1. n \in Nat
    BY BoundAssumption
  <2>2. CASE used = 0 /\ n % BLOCK_SZ = 0
    BY <1>1, <2>1, <2>2, AlignedUpdate
  <2>3. CASE ~(used = 0 /\ n % BLOCK_SZ = 0)
    BY <1>1, <2>1, <2>3, OtherUpdate
  <2> QED BY <2>2, <2>3
<1>2. CASE Finish
  BY <1>2, FinishStep
<1>3. CASE UNCHANGED vars
  <2>1. /\ Counters' <=> Counters
        /\ Underway' <=> Underway
        /\ Padded' = Padded
    BY <1>3 DEF vars, Counters, Underway, Compressed, Padded, Message
  <2> QED BY <2>1, <1>3 DEF StreamInv, vars
<1> QED BY <1>1, <1>2, <1>3 DEF Next

\* What the invariant says of the buffer, read as a sequence.
LEMMA StreamWhole == StreamInv => StreamsWhole
<1> SUFFICES ASSUME StreamInv, ~done
             PROVE  /\ h \o SubSeq(buffer, 1, used) = Message
                    /\ Len(h) = nblocks * BLOCK_SZ
  BY DEF StreamsWhole
<1> DEFINE b == MessageBytes(Compressed, used)
           s == SubSeq(buffer, 1, used)
<1>1. /\ BLOCK_SZ \in Nat \ {0} /\ nblocks \in Nat /\ Compressed \in Nat
      /\ used \in 0 .. BLOCK_SZ - 1 /\ length \in Nat /\ length = Compressed + used
      /\ h = MessageBytes(0, Compressed) /\ buffer \in [1 .. BLOCK_SZ -> Byte]
      /\ \A i \in 1 .. used : buffer[i] = <<"message", Compressed + i>>
  BY UpdateFacts
<1>2. used \in Nat
  BY <1>1
<1>3. b \in Seq(Byte) /\ Len(b) = used
  BY <1>1, <1>2, MessageIsSeq
<1>4. \A i \in 1 .. used : b[i] = buffer[i]
  BY <1>1 DEF MessageBytes
<1>5. s \in Seq(Byte) /\ Len(s) = used /\ \A i \in 1 .. used : s[i] = buffer[i]
  <2>1. \A i \in 1 .. used : buffer[i] \in Byte
    BY <1>1
  <2>2. /\ s \in Seq(Byte) /\ Len(s) = IF 1 <= used THEN used - 1 + 1 ELSE 0
        /\ \A i \in 1 .. used - 1 + 1 : s[i] = buffer[1 + i - 1]
    BY <2>1, <1>2, SubSeqProperties
  <2> HIDE DEF s
  <2> QED BY <2>2, <1>2
<1> HIDE DEF b, s
<1>6. s = b
  <2>1. s \in Seq(Byte)
    BY <1>5
  <2>2. b \in Seq(Byte)
    BY <1>3
  <2> QED BY <2>1, <2>2, <1>3, <1>4, <1>5, SeqEqual
<1>7. h \o s = MessageBytes(0, Compressed + used)
  BY <1>1, <1>2, <1>6, JoinNext DEF b
<1>8. Len(h) = Compressed
  BY <1>1, MessageIsSeq
<1> QED BY <1>1, <1>7, <1>8 DEF s, Message, Compressed

\* The invariant holds in every behaviour.
LEMMA StreamAlways == Spec => []StreamInv
BY StreamInit, StreamNext, PTL DEF Spec

\* `used` always stays below the block size (sha256.rs keeps it as an index
\* into the buffer), whatever slices update is called with.
THEOREM TypeCorrect == Spec => []TypeOK
<1>1. StreamInv => TypeOK
  BY DEF StreamInv, Counters, TypeOK
<1> QED BY <1>1, StreamAlways, PTL

\* However a message is cut into slices for `update`, the bytes compressed and
\* the bytes buffered are the message in order, for every size of a block.
THEOREM StreamsAreWhole == Spec => []StreamsWhole
BY StreamWhole, StreamAlways, PTL

\* `finish` has compressed exactly the padded message of FIPS 180-4, for every
\* length of the message: one block or two, the length field beyond the edge of
\* the block or not.
THEOREM DigestIsCorrect == Spec => []DigestCorrect
<1>1. StreamInv => DigestCorrect
  BY DEF StreamInv, DigestCorrect
<1> QED BY <1>1, StreamAlways, PTL
===============================================================================
