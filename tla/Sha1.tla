-------------------------------- MODULE Sha1 --------------------------------
(***************************************************************************)
(* The hash behind challenges and authenticator ids (fingerprint/hash.c):  *)
(* what SHA1Reset, SHA1Input, SHA1Result and SHA1PadMessage do to the one  *)
(* global context, for one message after the other of hash_file and        *)
(* hash_string, one step per byte.                                         *)
(*                                                                         *)
(* The sizes are parameters.  hash.c has blocks of 64 bytes and two length *)
(* counters of 4 bytes; a small instance meets the same boundaries (a      *)
(* message that just leaves room for its length or just does not, a full   *)
(* last block, a carry between the counters, their overflow) after a few   *)
(* bytes.                                                                  *)
(*                                                                         *)
(* The compression of a block into Message_Digest is arithmetic without a  *)
(* decision in it.  It is abstracted to one that has no collisions: the    *)
(* digest is the sequence of the blocks compressed since the reset.        *)
(***************************************************************************)
EXTENDS Integers, Sequences

CONSTANTS
    BlockSize,      \* bytes of Message_Block: 64
    ByteValues,     \* values of a byte: 256
    WordBytes,      \* bytes of Length_Low and of Length_High: 4
    WordSize,       \* the counters are kept modulo this: 2^32
    MaxFileLength,  \* MAX_FILE_LENGTH: 300000
    Files,          \* contents of the database file
    Strings         \* the strings that are hashed, without the 0 behind them

\* The counters count bits, eight for each byte, and so wrap at a whole byte.
ASSUME Sha1Assumption ==
    /\ ByteValues \in Nat \ {0} /\ WordBytes \in Nat \ {0} /\ WordSize \in Nat \ {0}
    /\ WordSize = ByteValues ^ WordBytes /\ WordSize % 8 = 0
    /\ BlockSize \in Nat /\ BlockSize > 2 * WordBytes
    /\ MaxFileLength \in Nat /\ Files \subseteq Seq(Nat) /\ Strings \subseteq Seq(Nat)

VARIABLES
    sha,        \* the global context
    message,    \* the arguments of sha1_hash
    taken,      \* how many bytes of it SHA1Input has taken
    at          \* where sha1_hash is: its loop in SHA1Input, or done

hashVars == <<sha, message, taken, at>>

PadAt == BlockSize - 2 * WordBytes      \* where the length is written: 56
Mark == ByteValues \div 2               \* 0x80

\* Byte k of a word, the highest first.
ByteOf(word, k) == (word \div ByteValues ^ (WordBytes - 1 - k)) % ByteValues

-----------------------------------------------------------------------------
(* SHA1Context and its functions. *)

\* The global sha before its first use: zeroed memory.
NewContext == [digest |-> <<>>, low |-> 0, high |-> 0,
               block |-> [i \in 0..BlockSize - 1 |-> 0], index |-> 0,
               computed |-> FALSE, corrupted |-> FALSE]

\* Message_Block keeps what the last message left in it.
SHA1Reset(c) == [c EXCEPT !.digest = <<>>, !.low = 0, !.high = 0, !.index = 0,
                          !.computed = FALSE, !.corrupted = FALSE]

\* Mutant: the block is not emptied.
SHA1ProcessKeepsIndex(c) ==
    [c EXCEPT !.digest = Append(@, [i \in 1..BlockSize |-> c.block[i - 1]])]

SHA1ProcessMessageBlock(c) ==
    [c EXCEPT !.digest = Append(@, [i \in 1..BlockSize |-> c.block[i - 1]]),
              !.index = 0]

Put(c, byte) == [c EXCEPT !.block[c.index] = byte, !.index = @ + 1]

\* SHA1Input before its loop: a context that is in use takes nothing.
EnterInput(c, source) ==
    IF source # <<>> /\ (c.computed \/ c.corrupted) THEN [c EXCEPT !.corrupted = TRUE] ELSE c

\* One turn of its loop: the counters count bits, and an overflow of both is noted.
InputByte(c, byte) ==
    LET low  == (c.low + 8) % WordSize
        high == IF low = 0 THEN (c.high + 1) % WordSize ELSE c.high
        d    == [Put(c, byte) EXCEPT !.low = low, !.high = high,
                                     !.corrupted = (low = 0 /\ high = 0)]
    IN IF d.index = BlockSize THEN SHA1ProcessMessageBlock(d) ELSE d

\* Zeroes up to an index of the block, none if it is already past it.
PadTo(c, end) ==
    [c EXCEPT !.block = [i \in 0..BlockSize - 1 |-> IF i \in c.index..end - 1 THEN 0 ELSE @[i]],
              !.index = IF @ < end THEN end ELSE @]

\* The bytes of Length_High, then those of Length_Low.
PutLength(c) ==
    [c EXCEPT !.block = [i \in 0..BlockSize - 1 |->
        IF i < PadAt THEN @[i]
        ELSE IF i < PadAt + WordBytes THEN ByteOf(c.high, i - PadAt)
        ELSE ByteOf(c.low, i - PadAt - WordBytes)]]

\* Mutant: the length is thought to fit behind a block that is full up to it.
SHA1PadMessageTight(c) ==
    LET marked == Put(c, Mark)
    IN SHA1ProcessMessageBlock(PutLength(
           IF c.index > PadAt THEN PadTo(SHA1ProcessMessageBlock(PadTo(marked, BlockSize)), PadAt)
           ELSE PadTo(marked, PadAt)))

\* The mark 0x80, zeroes and the length, in a block of their own when the length does
\* not fit behind the mark.
SHA1PadMessage(c) ==
    LET marked == Put(c, Mark)
    IN SHA1ProcessMessageBlock(PutLength(
           IF c.index > PadAt - 1
           THEN PadTo(SHA1ProcessMessageBlock(PadTo(marked, BlockSize)), PadAt)
           ELSE PadTo(marked, PadAt)))

-----------------------------------------------------------------------------
(* The steps of sha1_hash. *)

HashInit == sha = NewContext /\ message = <<>> /\ taken = 0 /\ at = "start"

sha1_hash(source) ==
    /\ at # "input" /\ at' = "input"
    /\ sha' = EnterInput(SHA1Reset(sha), source)
    /\ message' = source /\ taken' = 0

\* What is read of a file that can be opened; without one the context is not touched.
hash_file(file) ==
    sha1_hash(IF Len(file) < MaxFileLength THEN file ELSE SubSeq(file, 1, MaxFileLength))
hash_string(str) == sha1_hash(str)

SHA1Input ==
    /\ at = "input" /\ taken < Len(message) /\ ~sha.corrupted
    /\ sha' = InputByte(sha, message[taken + 1]) /\ taken' = taken + 1
    /\ UNCHANGED <<message, at>>

\* A failure is returned, and nobody looks at it.
SHA1Result ==
    /\ at = "input" /\ (taken = Len(message) \/ sha.corrupted)
    /\ sha' = IF sha.corrupted \/ sha.computed THEN sha
              ELSE [SHA1PadMessage(sha) EXCEPT !.computed = TRUE]
    /\ at' = "done" /\ UNCHANGED <<message, taken>>

HashNext == \/ \E file \in Files : hash_file(file)
        \/ \E str \in Strings : hash_string(str)
        \/ SHA1Input \/ SHA1Result
HashSpec == HashInit /\ [][HashNext]_hashVars

\* The first two words of the digest as one number.  The code keeps these 64 bits of the
\* 160; the digest of the model has no words to choose from, and stands for them as it
\* stands for all: different block sequences are taken to differ in them.
convert_hash_to_number(c) == c.digest

-----------------------------------------------------------------------------
(* The reference: the message is padded as a whole, then cut into blocks. *)

\* As many blocks as the message, its mark and its length need.
BlockCount(n) == (n + 2 * WordBytes) \div BlockSize + 1

\* Byte i of the padded message: its length in bits, as two words, ends the last block.
PaddedByte(m, i) ==
    LET n      == Len(m)
        length == BlockCount(n) * BlockSize - 2 * WordBytes
    IN IF i <= n THEN m[i]
       ELSE IF i = n + 1 THEN Mark
       ELSE IF i <= length THEN 0
       ELSE IF i <= length + WordBytes THEN ByteOf((8 * n) \div WordSize, i - length - 1)
       ELSE ByteOf((8 * n) % WordSize, i - length - WordBytes - 1)

Reference(m) == [q \in 1..BlockCount(Len(m)) |->
                    [j \in 1..BlockSize |-> PaddedByte(m, (q - 1) * BlockSize + j)]]

-----------------------------------------------------------------------------
(* Properties. *)

\* The types of SHA1Context: Message_Block_Index stays inside Message_Block and the
\* counters inside their words.
ContextOK ==
    /\ DOMAIN sha = DOMAIN NewContext /\ DOMAIN sha.block = 0..BlockSize - 1
    /\ sha.index \in 0..BlockSize - 1
    /\ sha.low \in 0..WordSize - 1 /\ sha.high \in 0..WordSize - 1
    /\ sha.computed \in BOOLEAN /\ sha.corrupted \in BOOLEAN
    /\ message \in Seq(Nat) /\ taken \in 0..Len(message) /\ at \in {"start", "input", "done"}

\* hash.c: what hash_file and hash_string return is the number of just that message,
\* padded as SHA-1 wants it, wherever its last byte falls in a block and whatever the
\* context was used for before; and the context is corrupted exactly when the counters
\* cannot hold the message's length.
DigestOfInput ==
    at = "done" =>
        IF 8 * Len(message) < WordSize * WordSize
        THEN /\ sha.computed /\ ~sha.corrupted
             /\ convert_hash_to_number(sha) = Reference(message)
        ELSE sha.corrupted

=============================================================================
