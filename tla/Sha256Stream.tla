----------------------------- MODULE Sha256Stream -----------------------------
(***************************************************************************)
(* The incremental interface of SHA-256 (upki/src/sha256.rs): how Context  *)
(* and Blockwise cut a message that arrives in pieces into blocks, and how *)
(* the last blocks are padded.  The compression function is abstract: the  *)
(* chaining value is represented by the bytes that were compressed into    *)
(* it, so two computations agree exactly when they compressed the same     *)
(* bytes.  A byte is named by what it is, the k-th byte of the message or  *)
(* a byte of the padding: one that is lost, repeated or moved is noticed.  *)
(***************************************************************************)
EXTENDS Naturals, Sequences

CONSTANTS
    BLOCK_SZ,    \* bytes of a block, 64 in the code
    LENGTH_SZ,   \* bytes of the length field of the padding, 8 in the code
    MaxMessage,  \* bound on the length of the message
    Chunks       \* the lengths of slice that `update` is called with

ASSUME SizeAssumption ==
    /\ BLOCK_SZ \in Nat /\ LENGTH_SZ \in Nat \ {0}
    /\ LENGTH_SZ < BLOCK_SZ
ASSUME BoundAssumption == MaxMessage \in Nat /\ Chunks \subseteq Nat

VARIABLES
    h,        \* the bytes compressed so far
    buffer,   \* Blockwise::buffer; what lies behind `used` is left over
    used,     \* Blockwise::used
    nblocks,  \* blocks compressed so far
    length,   \* length of the message so far
    done      \* has finish returned?

vars == <<h, buffer, used, nblocks, length, done>>

MessageBytes(from, n) == [i \in 1 .. n |-> <<"message", from + i>>]
Zeroes(n) == [i \in 1 .. n |-> <<"zero", 0>>]
Delimiter == << <<"delimiter", 128>> >>
\* The length in bits, as big-endian bytes: one value per message length.
LengthField(bytes) == [i \in 1 .. LENGTH_SZ |-> <<"length", bytes * LENGTH_SZ + i>>]

Init ==
    /\ h = <<>>
    /\ buffer = Zeroes(BLOCK_SZ)
    /\ used = 0 /\ nblocks = 0 /\ length = 0
    /\ done = FALSE

\* buffer[at..at + Len(bytes)].copy_from_slice(bytes)
Copy(buf, at, bytes) ==
    [i \in 1 .. BLOCK_SZ |->
        IF at < i /\ i <= at + Len(bytes) THEN bytes[i - at] ELSE buf[i]]

\* How many of `n` bytes add_leading takes into a buffer holding `u`: none when
\* the buffer is empty.
\* Mutants: none at all; the last byte of the block is left out.
TakenNone(u, n) == 0
TakenShort(u, n) ==
    IF u = 0 THEN 0 ELSE IF n < BLOCK_SZ - u THEN n ELSE BLOCK_SZ - u - 1
Taken(u, n) ==
    LET space == BLOCK_SZ - u
    IN IF u = 0 THEN 0 ELSE IF n < space THEN n ELSE space

\* Context::update with a slice of n bytes.
Update(n) ==
    /\ ~done
    /\ length + n <= MaxMessage
    /\ LET bytes == MessageBytes(length, n)
           take == Taken(used, n)
           lead == Copy(buffer, used, SubSeq(bytes, 1, take))
           full == used + take = BLOCK_SZ
           left == SubSeq(bytes, take + 1, n)
           whole == Len(left) - (Len(left) % BLOCK_SZ)
           kept == IF full THEN 0 ELSE used + take
       IN IF used = 0 /\ n % BLOCK_SZ = 0
          THEN \* whole blocks go straight to the compression function
               /\ h' = h \o bytes
               /\ nblocks' = nblocks + n \div BLOCK_SZ
               /\ UNCHANGED <<buffer, used>>
          ELSE /\ h' = h \o (IF full THEN lead ELSE <<>>) \o SubSeq(left, 1, whole)
               /\ nblocks' = nblocks + (IF full THEN 1 ELSE 0) + whole \div BLOCK_SZ
               \* add_trailing writes at the start of the buffer
               /\ buffer' = Copy(lead, 0, SubSeq(left, whole + 1, Len(left)))
               /\ used' = kept + (Len(left) - whole)
    /\ length' = length + n
    /\ UNCHANGED done

\* md_pad_with_length: one block if the delimiter and the length fit, else two.
\* Mutant: the delimiter is forgotten.
LengthDoesNotFit(space) == LENGTH_SZ > space
NeedsTwoBlocks(space) == 1 + LENGTH_SZ > space

LastBlocks(bits) ==
    LET space == BLOCK_SZ - used
        delim == Copy(buffer, used, SubSeq(Delimiter, 1, Taken(used, 1)))
        after == used + Taken(used, 1)
        first == Copy(delim, after, Zeroes(Taken(after, BLOCK_SZ)))
        second == Zeroes(BLOCK_SZ - LENGTH_SZ) \o bits
        one == Copy(buffer, used, Delimiter \o Zeroes(space - 1 - LENGTH_SZ) \o bits)
    IN IF NeedsTwoBlocks(space) THEN first \o second ELSE one

Finish ==
    /\ ~done
    /\ LET last == LastBlocks(LengthField(nblocks * BLOCK_SZ + used))
       IN h' = h \o last /\ nblocks' = nblocks + Len(last) \div BLOCK_SZ
    /\ used' = 0
    /\ done' = TRUE
    /\ UNCHANGED <<buffer, length>>

Next == (\E n \in Chunks : Update(n)) \/ Finish

Spec == Init /\ [][Next]_vars

(***************************************************************************)
(* Properties.                                                             *)
(***************************************************************************)
TypeOK ==
    /\ used \in 0 .. BLOCK_SZ - 1
    /\ nblocks \in Nat
    /\ length \in 0 .. MaxMessage
    /\ DOMAIN buffer = 1 .. BLOCK_SZ
    /\ done \in BOOLEAN

Message == MessageBytes(0, length)

\* FIPS 180-4, 5.1.1: the delimiter, the fewest zeroes that make whole blocks,
\* and the length of the message.
Padded ==
    LET over == (length + 1 + LENGTH_SZ) % BLOCK_SZ
        fill == IF over = 0 THEN 0 ELSE BLOCK_SZ - over
    IN Message \o Delimiter \o Zeroes(fill) \o LengthField(length)

\* Whatever the slices were, what was compressed and what is buffered are
\* together the message: nothing is lost, repeated or out of order.
StreamsWhole ==
    ~done => /\ h \o SubSeq(buffer, 1, used) = Message
             /\ Len(h) = nblocks * BLOCK_SZ

\* The digest is that of the padded message, at every length modulo the block.
DigestCorrect == done => h = Padded
===============================================================================
