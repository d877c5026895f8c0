----------------------------- MODULE Sha1Proofs -----------------------------
(* Proofs about Sha1, for every size of blocks, words and bytes and for every message. *)
EXTENDS Sha1, TLAPS

-----------------------------------------------------------------------------
(* Numbers. *)

\* The sizes, without what makes the bytes of a word.
LEMMA Sizes ==
  /\ WordSize \in Nat /\ WordSize > 0 /\ WordSize % 8 = 0
  /\ WordBytes \in Nat /\ WordBytes > 0 /\ BlockSize \in Nat /\ BlockSize > 2 * WordBytes
  BY Sha1Assumption

\* Quotient and remainder of a number that is given by them.
LEMMA Division ==
  ASSUME NEW q \in Nat, NEW b \in Nat, NEW r \in Nat, r < b
  PROVE  (q * b + r) % b = r /\ (q * b + r) \div b = q
  OBVIOUS

\* Whole blocks in front of an earlier block end before it.
LEMMA BlocksBefore ==
  ASSUME NEW p \in Nat, NEW q \in Nat, NEW b \in Nat, p < q
  PROVE  p * b + b <= q * b
  OBVIOUS

\* The counters hold bits, as one number with Length_High in front; Full is when that
\* number does not fit any more.
Counting(high, low, bytes) == 8 * bytes = high * WordSize + low /\ low % 8 = 0
Counted(c, bytes) == Counting(c.high, c.low, bytes)
Full(bytes) == 8 * bytes = WordSize * WordSize

\* The counters after a byte more.
NextLow(low) == (low + 8) % WordSize
NextHigh(low, high) == IF low = 0 THEN (high + 1) % WordSize ELSE high

\* A byte more: the counters hold eight bits more, or both have run over.
LEMMA CountByte ==
  ASSUME NEW low \in 0..WordSize - 1, NEW high \in 0..WordSize - 1, NEW bytes \in Nat,
         Counting(high, low, bytes),
         NEW low2, low2 = NextLow(low), NEW high2, high2 = NextHigh(low2, high)
  PROVE  /\ low2 \in 0..WordSize - 1 /\ high2 \in 0..WordSize - 1
         /\ IF low2 = 0 /\ high2 = 0 THEN Full(bytes + 1) ELSE Counting(high2, low2, bytes + 1)
  <1> USE DEF Counting, Full, NextLow, NextHigh
  <1>1. low + 8 < WordSize \/ low + 8 = WordSize
    BY Sizes
  <1>2. CASE low + 8 < WordSize
    <2>1. low2 = low + 8
      BY <1>2, Sizes
    <2> QED
      BY <1>2, <2>1, Sizes
  <1>3. CASE low + 8 = WordSize
    <2>1. low2 = 0
      BY <1>3, Sizes
    <2>2. 8 * (bytes + 1) = high * WordSize + WordSize
      BY <1>3, Sizes
    <2>3. CASE high + 1 < WordSize
      <3>1. high2 = high + 1
        BY <2>1, <2>3, Sizes
      <3>2. (high + 1) * WordSize = high * WordSize + WordSize
        BY Sizes
      <3> QED
        BY <2>1, <2>2, <2>3, <3>1, <3>2, Sizes
    <2>4. CASE high + 1 = WordSize
      <3>1. high2 = 0
        BY <2>1, <2>4, Sizes
      <3>2. (high + 1) * WordSize = high * WordSize + WordSize
        BY Sizes
      <3> QED
        BY <2>1, <2>2, <2>4, <3>1, <3>2, Sizes
    <2> QED
      BY <2>3, <2>4, Sizes
  <1> QED
    BY <1>1, <1>2, <1>3

-----------------------------------------------------------------------------
(* Blocks. *)

\* Block q of a message, and its first k blocks.
Chunk(m, q) == [j \in 1..BlockSize |-> m[(q - 1) * BlockSize + j]]
Chunks(m, k) == [q \in 1..k |-> Chunk(m, q)]

\* One or two blocks behind the first k of a message.
AndOne(m, k, x) == [q \in 1..k + 1 |-> IF q <= k THEN Chunk(m, q) ELSE x]
AndTwo(m, k, x, y) ==
    [q \in 1..k + 2 |-> IF q <= k THEN Chunk(m, q) ELSE IF q = k + 1 THEN x ELSE y]

\* One block compressed behind those of the message.
LEMMA AppendOne ==
  ASSUME NEW m, NEW k \in Nat, NEW x
  PROVE  Append(Chunks(m, k), x) = AndOne(m, k, x)
  BY DEF Chunks, AndOne

\* And another one behind that.
LEMMA AppendTwo ==
  ASSUME NEW m, NEW k \in Nat, NEW x, NEW y
  PROVE  Append(Append(Chunks(m, k), x), y) = AndTwo(m, k, x, y)
  <1>1. Append([q \in 1..k + 1 |-> IF q <= k THEN Chunk(m, q) ELSE x], y) =
            [q \in 1..k + 1 + 1 |-> IF q <= k + 1 THEN IF q <= k THEN Chunk(m, q) ELSE x ELSE y]
    OBVIOUS
  <1>2. /\ k + 1 + 1 = k + 2
        /\ \A q \in 1..k + 2 : (q <= k => q <= k + 1) /\ (q <= k + 1 /\ ~(q <= k) <=> q = k + 1)
    OBVIOUS
  <1>3. [q \in 1..k + 1 + 1 |-> IF q <= k + 1 THEN IF q <= k THEN Chunk(m, q) ELSE x ELSE y] =
            AndTwo(m, k, x, y)
    BY <1>2 DEF AndTwo
  <1>4. Append(AndOne(m, k, x), y) = AndTwo(m, k, x, y)
    BY <1>1, <1>3 DEF AndOne
  <1> QED
    BY <1>4, AppendOne

\* The next block of the message.
LEMMA NextChunk ==
  ASSUME NEW m, NEW k \in Nat
  PROVE  Append(Chunks(m, k), Chunk(m, k + 1)) = Chunks(m, k + 1)
  BY DEF Chunks

-----------------------------------------------------------------------------
(* The functions of hash.c on a context. *)

\* Contexts whose digest is from D and whose block has bytes from V; the index is past
\* the block while the block is full.
Blocks(V) == [0..BlockSize - 1 -> V]
Contexts(D, V) ==
    [digest : D, low : 0..WordSize - 1, high : 0..WordSize - 1, block : Blocks(V),
     index : 0..BlockSize, computed : BOOLEAN, corrupted : BOOLEAN]

\* Message_Block with a byte written to it, and as it is compressed.
Written(block, index, byte) == [block EXCEPT ![index] = byte]
Compressed(block) == [i \in 1..BlockSize |-> block[i - 1]]
Grown(digest, block) == Append(digest, Compressed(block))

\* A byte is put where the index is.
LEMMA PutEffect ==
  ASSUME NEW D, NEW V, NEW c \in Contexts(D, V), c.index < BlockSize, NEW byte,
         NEW d, d = Put(c, byte)
  PROVE  /\ d \in Contexts(D, V \cup {byte})
         /\ d.digest = c.digest /\ d.low = c.low /\ d.high = c.high
         /\ d.block = Written(c.block, c.index, byte) /\ d.index = c.index + 1
         /\ d.computed = c.computed /\ d.corrupted = c.corrupted
  <1>1. c.index \in 0..BlockSize - 1 /\ c.block \in Blocks(V)
    BY Sizes DEF Contexts
  <1> DEFINE block == Written(c.block, c.index, byte)
  <1>2. block \in Blocks(V \cup {byte})
    BY <1>1 DEF Blocks, Written
  <1>3. d = [c EXCEPT !.block = block, !.index = c.index + 1]
    BY DEF Put, Written
  <1> HIDE DEF block
  <1>4. c.index + 1 \in 0..BlockSize
    BY <1>1, Sizes
  <1>5. d \in Contexts(D, V \cup {byte})
    BY <1>2, <1>3, <1>4 DEF Contexts
  <1>6. /\ d.digest = c.digest /\ d.low = c.low /\ d.high = c.high
        /\ d.block = block /\ d.index = c.index + 1
        /\ d.computed = c.computed /\ d.corrupted = c.corrupted
    BY <1>3 DEF Contexts
  <1> QED
    BY <1>5, <1>6 DEF block

\* A block is compressed behind those before it.
LEMMA ProcessEffect ==
  ASSUME NEW D, NEW V, NEW c \in Contexts(D, V), NEW d, d = SHA1ProcessMessageBlock(c)
  PROVE  /\ d \in Contexts(D \cup {d.digest}, V)
         /\ d.digest = Grown(c.digest, c.block) /\ d.index = 0
         /\ d.low = c.low /\ d.high = c.high /\ d.block = c.block
         /\ d.computed = c.computed /\ d.corrupted = c.corrupted
  <1> DEFINE digest == Grown(c.digest, c.block)
  <1>1. d = [c EXCEPT !.digest = digest, !.index = 0]
    BY DEF SHA1ProcessMessageBlock, Grown, Compressed
  <1> HIDE DEF digest
  <1>2. d \in Contexts(D \cup {digest}, V)
    <2>1. 0 \in 0..BlockSize /\ digest \in D \cup {digest}
      BY Sizes
    <2> QED
      BY <1>1, <2>1 DEF Contexts
  <1>3. /\ d.digest = digest /\ d.index = 0
        /\ d.low = c.low /\ d.high = c.high /\ d.block = c.block
        /\ d.computed = c.computed /\ d.corrupted = c.corrupted
    BY <1>1 DEF Contexts
  <1> QED
    BY <1>1, <1>2, <1>3 DEF digest

\* A context after a byte: its counters and its block, and whether the block was compressed.
Advanced(c, d, low, high, block) ==
    /\ d.low = low /\ d.high = high /\ d.block = block /\ d.computed = c.computed
    /\ d.corrupted <=> low = 0 /\ high = 0
    /\ IF c.index + 1 = BlockSize
       THEN d.digest = Grown(c.digest, block) /\ d.index = 0
       ELSE d.digest = c.digest /\ d.index = c.index + 1

\* What SHA1Input's loop does with a byte.
LEMMA InputEffect ==
  ASSUME NEW D, NEW V, NEW c \in Contexts(D, V), c.index < BlockSize, NEW byte,
         NEW low \in 0..WordSize - 1, low = NextLow(c.low),
         NEW high \in 0..WordSize - 1, high = NextHigh(low, c.high),
         NEW d, d = InputByte(c, byte),
         NEW block, block = Written(c.block, c.index, byte)
  PROVE  /\ Advanced(c, d, low, high, block)
         /\ \E E, W : d \in Contexts(E, W)
  <1> USE DEF Advanced
  <1>1. PICK over \in BOOLEAN : over = (low = 0 /\ high = 0)
    OBVIOUS
  <1>2. PICK p : p = Put(c, byte)
    OBVIOUS
  <1>3. PICK e : e = [p EXCEPT !.low = low, !.high = high, !.corrupted = over]
    OBVIOUS
  <1>4. /\ p \in Contexts(D, V \cup {byte})
        /\ p.digest = c.digest /\ p.block = block /\ p.index = c.index + 1 /\ p.computed = c.computed
    BY <1>2, PutEffect
  <1>5. d = IF e.index = BlockSize THEN SHA1ProcessMessageBlock(e) ELSE e
    BY <1>1, <1>2, <1>3 DEF InputByte, NextLow, NextHigh
  <1>6. e \in Contexts(D, V \cup {byte})
    BY <1>3, <1>4 DEF Contexts
  <1>7. /\ e.digest = p.digest /\ e.low = low /\ e.high = high /\ e.block = p.block
        /\ e.index = p.index /\ e.computed = p.computed /\ e.corrupted = over
    BY <1>3, <1>4 DEF Contexts
  <1>8. CASE e.index = BlockSize
    <2>1. d = SHA1ProcessMessageBlock(e)
      BY <1>5, <1>8
    <2>2. /\ d \in Contexts(D \cup {d.digest}, V \cup {byte})
          /\ d.digest = Grown(e.digest, e.block) /\ d.index = 0
          /\ d.low = e.low /\ d.high = e.high /\ d.block = e.block
          /\ d.computed = e.computed /\ d.corrupted = e.corrupted
      BY <1>6, <2>1, ProcessEffect
    <2> QED
      BY <1>1, <1>4, <1>7, <1>8, <2>2
  <1>9. CASE e.index # BlockSize
    <2>1. Contexts(D, V \cup {byte}) \subseteq Contexts(D \cup {e.digest}, V \cup {byte})
      BY DEF Contexts
    <2>2. d = e
      BY <1>5, <1>9
    <2> QED
      BY <1>1, <1>4, <1>6, <1>7, <1>9, <2>1, <2>2
  <1> QED
    BY <1>8, <1>9

-----------------------------------------------------------------------------
(* The padding. *)

IsContext(c) == \E D, V : c \in Contexts(D, V)

\* Message_Block with zeroes from an index up to another, and with the length at its end.
Zeroed(block, from, end) ==
    [i \in 0..BlockSize - 1 |-> IF i \in from..end - 1 THEN 0 ELSE block[i]]
WithLength(block, high, low) ==
    [i \in 0..BlockSize - 1 |->
        IF i < PadAt THEN block[i]
        ELSE IF i < PadAt + WordBytes THEN ByteOf(high, i - PadAt)
        ELSE ByteOf(low, i - PadAt - WordBytes)]

\* Two contexts that differ in nothing but their blocks and what was compressed.
SameCounters(c, d) ==
    d.low = c.low /\ d.high = c.high /\ d.computed = c.computed /\ d.corrupted = c.corrupted

\* Zeroes up to an index.
LEMMA PadToEffect ==
  ASSUME NEW c, IsContext(c), NEW end \in 0..BlockSize, c.index <= end, NEW d, d = PadTo(c, end)
  PROVE  /\ IsContext(d) /\ SameCounters(c, d) /\ d.digest = c.digest
         /\ d.block = Zeroed(c.block, c.index, end) /\ d.index = end
  <1>1. PICK D, V : c \in Contexts(D, V)
    BY DEF IsContext
  <1>2. PICK block : block = Zeroed(c.block, c.index, end)
    OBVIOUS
  <1>3. block \in Blocks(V \cup {0})
    BY <1>1, <1>2 DEF Contexts, Blocks, Zeroed
  <1>4. PICK index : index = IF c.index < end THEN end ELSE c.index
    OBVIOUS
  <1>5. index = end
    BY <1>1, <1>4, Sizes DEF Contexts
  <1>6. d = [c EXCEPT !.block = block, !.index = index]
    BY <1>2, <1>4 DEF PadTo, Zeroed
  <1>7. d \in Contexts(D, V \cup {0})
    BY <1>1, <1>3, <1>5, <1>6 DEF Contexts
  <1>8. SameCounters(c, d) /\ d.digest = c.digest /\ d.block = block /\ d.index = index
    BY <1>1, <1>6 DEF Contexts, SameCounters
  <1> QED
    BY <1>2, <1>5, <1>7, <1>8 DEF IsContext

\* The length at the end of the block.
LEMMA PutLengthEffect ==
  ASSUME NEW c, IsContext(c), NEW d, d = PutLength(c)
  PROVE  /\ IsContext(d) /\ SameCounters(c, d) /\ d.digest = c.digest
         /\ d.block = WithLength(c.block, c.high, c.low) /\ d.index = c.index
  <1>1. PICK D, V : c \in Contexts(D, V)
    BY DEF IsContext
  <1>2. PICK block : block = WithLength(c.block, c.high, c.low)
    OBVIOUS
  <1> DEFINE W == {block[i] : i \in 0..BlockSize - 1}
  <1>3. block \in Blocks(W)
    <2>1. DOMAIN block = 0..BlockSize - 1 /\ block = [i \in 0..BlockSize - 1 |-> block[i]]
      BY <1>2 DEF WithLength
    <2>2. \A i \in 0..BlockSize - 1 : block[i] \in W
      OBVIOUS
    <2> QED
      BY <2>1, <2>2 DEF Blocks
  <1> HIDE DEF W
  <1>4. d = [c EXCEPT !.block = block]
    BY <1>2 DEF PutLength, WithLength
  <1>5. d \in Contexts(D, W)
    BY <1>1, <1>3, <1>4 DEF Contexts
  <1>6. SameCounters(c, d) /\ d.digest = c.digest /\ d.block = block /\ d.index = c.index
    BY <1>1, <1>4 DEF Contexts, SameCounters
  <1> QED
    BY <1>2, <1>5, <1>6 DEF IsContext

\* Compression once more, for any context.
LEMMA ProcessContext ==
  ASSUME NEW c, IsContext(c), NEW d, d = SHA1ProcessMessageBlock(c)
  PROVE  /\ IsContext(d) /\ SameCounters(c, d)
         /\ d.digest = Grown(c.digest, c.block) /\ d.block = c.block /\ d.index = 0
  <1>1. PICK D, V : c \in Contexts(D, V)
    BY DEF IsContext
  <1>2. /\ d \in Contexts(D \cup {d.digest}, V)
        /\ d.digest = Grown(c.digest, c.block) /\ d.index = 0
        /\ d.low = c.low /\ d.high = c.high /\ d.block = c.block
        /\ d.computed = c.computed /\ d.corrupted = c.corrupted
    BY <1>1, ProcessEffect
  <1> QED
    BY <1>2 DEF IsContext, SameCounters

\* A byte at the index, for any context.
LEMMA PutContext ==
  ASSUME NEW c, IsContext(c), c.index < BlockSize, NEW byte, NEW d, d = Put(c, byte)
  PROVE  /\ IsContext(d) /\ SameCounters(c, d) /\ d.digest = c.digest
         /\ d.block = Written(c.block, c.index, byte) /\ d.index = c.index + 1
  <1>1. PICK D, V : c \in Contexts(D, V)
    BY DEF IsContext
  <1>2. /\ d \in Contexts(D, V \cup {byte})
        /\ d.digest = c.digest /\ d.low = c.low /\ d.high = c.high
        /\ d.block = Written(c.block, c.index, byte) /\ d.index = c.index + 1
        /\ d.computed = c.computed /\ d.corrupted = c.corrupted
    BY <1>1, PutEffect
  <1> QED
    BY <1>2 DEF IsContext, SameCounters

\* The blocks that the padding leaves: the one with the mark, and behind it, if the length
\* did not fit, one of zeroes; the last one has the length.
MarkedBlock(c, end) == Zeroed(Written(c.block, c.index, Mark), c.index + 1, end)
ShortLast(c) == WithLength(MarkedBlock(c, PadAt), c.high, c.low)
LongLast(c) == WithLength(Zeroed(MarkedBlock(c, BlockSize), 0, PadAt), c.high, c.low)

\* SHA1PadMessage, with the length in the same block or in one of its own.
LEMMA PadEffect ==
  ASSUME NEW c, IsContext(c), c.index < BlockSize, NEW d, d = SHA1PadMessage(c)
  PROVE  /\ IsContext(d) /\ SameCounters(c, d) /\ d.index = 0
         /\ c.index < PadAt => d.digest = Grown(c.digest, ShortLast(c))
         /\ c.index >= PadAt =>
              d.digest = Grown(Grown(c.digest, MarkedBlock(c, BlockSize)), LongLast(c))
  <1>1. c.index \in 0..BlockSize - 1 /\ PadAt \in 1..BlockSize - 1
    BY Sizes DEF IsContext, Contexts, PadAt
  <1>2. PICK p : p = Put(c, Mark)
    OBVIOUS
  <1>3. /\ IsContext(p) /\ SameCounters(c, p) /\ p.digest = c.digest
        /\ p.block = Written(c.block, c.index, Mark) /\ p.index = c.index + 1
    BY <1>2, PutContext
  <1>4. CASE c.index < PadAt
    <2>1. PICK e : e = PadTo(p, PadAt)
      OBVIOUS
    <2>2. PICK l : l = PutLength(e)
      OBVIOUS
    <2>3. d = SHA1ProcessMessageBlock(l)
      <3>1. ~(c.index > PadAt - 1)
        BY <1>1, <1>4
      <3> QED
        BY <1>2, <2>1, <2>2, <3>1 DEF SHA1PadMessage
    <2>4. PadAt \in 0..BlockSize /\ p.index <= PadAt
      BY <1>1, <1>3, <1>4, Sizes
    <2>5. /\ IsContext(e) /\ SameCounters(p, e) /\ e.digest = p.digest
          /\ e.block = Zeroed(p.block, p.index, PadAt)
      BY <1>3, <2>1, <2>4, PadToEffect
    <2>6. /\ IsContext(l) /\ SameCounters(e, l) /\ l.digest = e.digest
          /\ l.block = WithLength(e.block, e.high, e.low)
      BY <2>2, <2>5, PutLengthEffect
    <2>7. /\ IsContext(d) /\ SameCounters(l, d)
          /\ d.digest = Grown(l.digest, l.block) /\ d.index = 0
      BY <2>3, <2>6, ProcessContext
    <2>8. l.block = ShortLast(c) /\ l.digest = c.digest
      BY <1>3, <2>5, <2>6 DEF SameCounters, ShortLast, MarkedBlock
    <2> QED
      BY <1>1, <1>3, <1>4, <2>5, <2>6, <2>7, <2>8 DEF SameCounters
  <1>5. CASE c.index >= PadAt
    <2>1. PICK e : e = PadTo(p, BlockSize)
      OBVIOUS
    <2>2. PICK f : f = SHA1ProcessMessageBlock(e)
      OBVIOUS
    <2>3. PICK g : g = PadTo(f, PadAt)
      OBVIOUS
    <2>4. PICK l : l = PutLength(g)
      OBVIOUS
    <2>5. d = SHA1ProcessMessageBlock(l)
      <3>1. c.index > PadAt - 1
        BY <1>1, <1>5
      <3> QED
        BY <1>2, <2>1, <2>2, <2>3, <2>4, <3>1 DEF SHA1PadMessage
    <2>6. BlockSize \in 0..BlockSize /\ p.index <= BlockSize
      BY <1>1, <1>3, Sizes
    <2>7. /\ IsContext(e) /\ SameCounters(p, e) /\ e.digest = p.digest
          /\ e.block = Zeroed(p.block, p.index, BlockSize)
      BY <1>3, <2>1, <2>6, PadToEffect
    <2>8. /\ IsContext(f) /\ SameCounters(e, f)
          /\ f.digest = Grown(e.digest, e.block) /\ f.block = e.block /\ f.index = 0
      BY <2>2, <2>7, ProcessContext
    <2>9. PadAt \in 0..BlockSize /\ f.index <= PadAt
      BY <1>1, <2>8, Sizes
    <2>10. /\ IsContext(g) /\ SameCounters(f, g) /\ g.digest = f.digest
           /\ g.block = Zeroed(f.block, f.index, PadAt)
      BY <2>3, <2>8, <2>9, PadToEffect
    <2>11. /\ IsContext(l) /\ SameCounters(g, l) /\ l.digest = g.digest
           /\ l.block = WithLength(g.block, g.high, g.low)
      BY <2>4, <2>10, PutLengthEffect
    <2>12. /\ IsContext(d) /\ SameCounters(l, d)
           /\ d.digest = Grown(l.digest, l.block) /\ d.index = 0
      BY <2>5, <2>11, ProcessContext
    <2>13. e.block = MarkedBlock(c, BlockSize)
      BY <1>3, <2>7 DEF MarkedBlock
    <2>14. l.high = c.high /\ l.low = c.low /\ g.high = c.high /\ g.low = c.low
      BY <1>3, <2>7, <2>8, <2>10, <2>11 DEF SameCounters
    <2>15. l.block = LongLast(c)
      BY <2>8, <2>10, <2>11, <2>13, <2>14 DEF LongLast
    <2>16. l.digest = Grown(c.digest, MarkedBlock(c, BlockSize))
      BY <1>3, <2>7, <2>8, <2>10, <2>11, <2>13
    <2>17. SameCounters(c, d)
      BY <1>3, <2>7, <2>8, <2>10, <2>11, <2>12 DEF SameCounters
    <2> QED
      BY <1>1, <1>5, <2>12, <2>15, <2>16, <2>17
  <1> QED
    BY <1>1, <1>4, <1>5

-----------------------------------------------------------------------------
(* The padded blocks are those of the reference. *)

\* How the bytes of a message that the context has taken are spread: k whole blocks and
\* what Message_Block holds.
Spread(c, m, n, k) ==
    /\ k \in Nat /\ n = k * BlockSize + c.index
    /\ c.digest = Chunks(m, k)
    /\ \A j \in 0..c.index - 1 : c.block[j] = m[k * BlockSize + j + 1]

\* Block q of the padded message.
PaddedBlock(m, q) == [j \in 1..BlockSize |-> PaddedByte(m, (q - 1) * BlockSize + j)]

\* The number of blocks: one behind the whole ones, or two.
LEMMA BlockCounts ==
  ASSUME NEW k \in Nat, NEW i \in 0..BlockSize - 1
  PROVE  BlockCount(k * BlockSize + i) = IF i < PadAt THEN k + 1 ELSE k + 2
  <1>1. k * BlockSize \in Nat /\ PadAt = BlockSize - 2 * WordBytes
    BY Sizes DEF PadAt
  <1>2. CASE i < PadAt
    <2>1. (k * BlockSize + (i + 2 * WordBytes)) \div BlockSize = k
      <3>1. i + 2 * WordBytes \in Nat /\ i + 2 * WordBytes < BlockSize
        BY <1>1, <1>2, Sizes
      <3> QED
        BY <3>1, Division, Sizes
    <2>2. k * BlockSize + i + 2 * WordBytes = k * BlockSize + (i + 2 * WordBytes)
      BY <1>1, Sizes
    <2> QED
      BY <1>2, <2>1, <2>2 DEF BlockCount
  <1>3. CASE ~(i < PadAt)
    <2>1. i + 2 * WordBytes - BlockSize \in Nat /\ i + 2 * WordBytes - BlockSize < BlockSize
      BY <1>1, <1>3, Sizes
    <2>2. ((k + 1) * BlockSize + (i + 2 * WordBytes - BlockSize)) \div BlockSize = k + 1
      BY <2>1, Division, Sizes
    <2>3. (k + 1) * BlockSize = k * BlockSize + BlockSize
      BY Sizes
    <2>4. k * BlockSize + i + 2 * WordBytes = (k + 1) * BlockSize + (i + 2 * WordBytes - BlockSize)
      BY <1>1, <2>3, Sizes
    <2> QED
      BY <1>3, <2>2, <2>4 DEF BlockCount
  <1> QED
    BY <1>2, <1>3

\* A whole block of the message is not changed by the padding.
LEMMA WholeBlock ==
  ASSUME NEW m \in Seq(Nat), NEW k \in Nat, k * BlockSize <= Len(m), NEW q \in 1..k
  PROVE  PaddedBlock(m, q) = Chunk(m, q)
  <1>1. (q - 1) * BlockSize \in Nat /\ (q - 1) * BlockSize + BlockSize <= k * BlockSize
    <2>1. q - 1 \in Nat /\ q - 1 < k
      OBVIOUS
    <2> QED
      BY <2>1, BlocksBefore, Sizes
  <1>2. k * BlockSize \in Nat
    BY Sizes
  <1>3. \A j \in 1..BlockSize : (q - 1) * BlockSize + j <= Len(m)
    BY <1>1, <1>2, Sizes
  <1>4. \A j \in 1..BlockSize : PaddedByte(m, (q - 1) * BlockSize + j) = m[(q - 1) * BlockSize + j]
    BY <1>3 DEF PaddedByte
  <1> QED
    BY <1>4 DEF PaddedBlock, Chunk

\* The two words of the length.
LEMMA LengthWords ==
  ASSUME NEW c, IsContext(c), NEW n \in Nat, Counted(c, n)
  PROVE  (8 * n) \div WordSize = c.high /\ (8 * n) % WordSize = c.low
  <1>1. c.high \in Nat /\ c.low \in Nat /\ c.low < WordSize
    BY Sizes DEF IsContext, Contexts
  <1>2. /\ (c.high * WordSize + c.low) % WordSize = c.low
        /\ (c.high * WordSize + c.low) \div WordSize = c.high
    <2>1. \A q, r \in Nat : r < WordSize =>
             (q * WordSize + r) % WordSize = r /\ (q * WordSize + r) \div WordSize = q
      BY Division, Sizes
    <2> QED
      BY <1>1, <2>1
  <1> QED
    BY <1>2 DEF Counted, Counting

\* The bytes of the blocks that the padding leaves.
LEMMA MarkedByte ==
  ASSUME NEW c, IsContext(c), c.index < BlockSize, NEW end \in 0..BlockSize, c.index < end,
         NEW x \in 0..BlockSize - 1
  PROVE  MarkedBlock(c, end)[x] =
             IF x < c.index THEN c.block[x] ELSE IF x = c.index THEN Mark
             ELSE IF x < end THEN 0 ELSE c.block[x]
  <1>1. c.index \in 0..BlockSize - 1 /\ DOMAIN c.block = 0..BlockSize - 1
    BY Sizes DEF IsContext, Contexts, Blocks
  <1>2. Written(c.block, c.index, Mark)[x] = IF x = c.index THEN Mark ELSE c.block[x]
    BY <1>1 DEF Written
  <1>3. MarkedBlock(c, end)[x] = IF x \in c.index + 1..end - 1 THEN 0
                                 ELSE Written(c.block, c.index, Mark)[x]
    BY DEF MarkedBlock, Zeroed
  <1> QED
    BY <1>1, <1>2, <1>3, Sizes

\* In the block with the mark and the length.
LEMMA ShortByte ==
  ASSUME NEW c, IsContext(c), c.index < PadAt, NEW x \in 0..BlockSize - 1
  PROVE  ShortLast(c)[x] =
             IF x < c.index THEN c.block[x] ELSE IF x = c.index THEN Mark
             ELSE IF x < PadAt THEN 0
             ELSE IF x < PadAt + WordBytes THEN ByteOf(c.high, x - PadAt)
             ELSE ByteOf(c.low, x - PadAt - WordBytes)
  <1>1. c.index \in 0..BlockSize /\ PadAt \in 1..BlockSize - 1
    BY Sizes DEF IsContext, Contexts, PadAt
  <1>2. PadAt \in 0..BlockSize /\ c.index < BlockSize
    BY <1>1, Sizes
  <1>3. MarkedBlock(c, PadAt)[x] =
             IF x < c.index THEN c.block[x] ELSE IF x = c.index THEN Mark
             ELSE IF x < PadAt THEN 0 ELSE c.block[x]
    BY <1>2, MarkedByte
  <1>4. ShortLast(c)[x] =
             IF x < PadAt THEN MarkedBlock(c, PadAt)[x]
             ELSE IF x < PadAt + WordBytes THEN ByteOf(c.high, x - PadAt)
             ELSE ByteOf(c.low, x - PadAt - WordBytes)
    BY DEF ShortLast, WithLength
  <1> QED
    BY <1>1, <1>3, <1>4

\* In the block that only has the length.
LEMMA LongByte ==
  ASSUME NEW c, IsContext(c), NEW x \in 0..BlockSize - 1
  PROVE  LongLast(c)[x] =
             IF x < PadAt THEN 0
             ELSE IF x < PadAt + WordBytes THEN ByteOf(c.high, x - PadAt)
             ELSE ByteOf(c.low, x - PadAt - WordBytes)
  <1>1. x < PadAt => Zeroed(MarkedBlock(c, BlockSize), 0, PadAt)[x] = 0
    BY Sizes DEF Zeroed, PadAt
  <1>2. LongLast(c)[x] =
             IF x < PadAt THEN Zeroed(MarkedBlock(c, BlockSize), 0, PadAt)[x]
             ELSE IF x < PadAt + WordBytes THEN ByteOf(c.high, x - PadAt)
             ELSE ByteOf(c.low, x - PadAt - WordBytes)
    BY DEF LongLast, WithLength
  <1> QED
    BY <1>1, <1>2

\* The bytes of the padded message, with its length in the block that ends at last.
LEMMA ReferenceByte ==
  ASSUME NEW m \in Seq(Nat), NEW c, IsContext(c), Counted(c, Len(m)),
         NEW last \in Nat, last = BlockCount(Len(m)) * BlockSize, NEW i \in Nat
  PROVE  PaddedByte(m, i) =
             IF i <= Len(m) THEN m[i] ELSE IF i = Len(m) + 1 THEN Mark
             ELSE IF i <= last - 2 * WordBytes THEN 0
             ELSE IF i <= last - 2 * WordBytes + WordBytes
                  THEN ByteOf(c.high, i - (last - 2 * WordBytes) - 1)
             ELSE ByteOf(c.low, i - (last - 2 * WordBytes) - WordBytes - 1)
  <1>1. (8 * Len(m)) \div WordSize = c.high /\ (8 * Len(m)) % WordSize = c.low
    BY LengthWords
  <1> QED
    BY <1>1 DEF PaddedByte

\* A block has the bytes of the padded message behind the first base ones.
HasBytes(block, m, base) == \A j \in 1..BlockSize : PaddedByte(m, base + j) = block[j - 1]

\* A block of the padded message, byte by byte.
LEMMA BlockOfBytes ==
  ASSUME NEW m, NEW q \in Nat, NEW base, base = (q - 1) * BlockSize, NEW block,
         HasBytes(block, m, base)
  PROVE  PaddedBlock(m, q) = Compressed(block)
  BY DEF HasBytes, PaddedBlock, Compressed

\* Where the bytes of the last blocks lie in the message, when base bytes are before them.
LEMMA Positions ==
  ASSUME NEW base \in Nat, NEW index \in 0..BlockSize - 1, NEW n, n = base + index,
         NEW x \in 0..BlockSize - 1, NEW i, i = base + x + 1
  PROVE  /\ i \in Nat /\ (i <= n <=> x < index) /\ (i = n + 1 <=> x = index)
         /\ x < index => x \in 0..index - 1
  BY Sizes

\* The mark and the length in one block.
LEMMA ShortPadding ==
  ASSUME NEW m \in Seq(Nat), NEW c, IsContext(c), c.index < PadAt, Counted(c, Len(m)),
         NEW k, Spread(c, m, Len(m), k)
  PROVE  PaddedBlock(m, k + 1) = Compressed(ShortLast(c))
  <1>1. c.index \in 0..BlockSize - 1
    BY Sizes DEF IsContext, Contexts, PadAt
  <1>2. k \in Nat
    BY DEF Spread
  <1>3. PICK base \in Nat : base = k * BlockSize
    BY <1>2, Sizes
  <1>4. Len(m) = base + c.index
    BY <1>3 DEF Spread
  <1>5. \A j \in 0..c.index - 1 : c.block[j] = m[base + j + 1]
    BY <1>3 DEF Spread
  <1>6. PICK last \in Nat : last = base + BlockSize
    BY Sizes
  <1>7. last = BlockCount(Len(m)) * BlockSize
    <2>1. BlockCount(k * BlockSize + c.index) = k + 1
      BY <1>1, <1>2, BlockCounts
    <2>2. BlockCount(Len(m)) = k + 1
      BY <1>3, <1>4, <2>1
    <2> QED
      BY <1>2, <1>3, <1>6, <2>2, Sizes
  <1>8. ASSUME NEW j \in 1..BlockSize
        PROVE  PaddedByte(m, base + j) = ShortLast(c)[j - 1]
    <2>1. PICK x \in 0..BlockSize - 1 : x = j - 1
      BY Sizes
    <2>2. PICK i : i = base + x + 1
      OBVIOUS
    <2>3. base + j = i
      BY <2>1, <2>2, Sizes
    <2>4. /\ i \in Nat /\ (i <= Len(m) <=> x < c.index) /\ (i = Len(m) + 1 <=> x = c.index)
          /\ x < c.index => x \in 0..c.index - 1
      BY <1>1, <1>4, <2>2, Positions
    <2>5. /\ i <= last - 2 * WordBytes <=> x < PadAt
          /\ i <= last - 2 * WordBytes + WordBytes <=> x < PadAt + WordBytes
          /\ i - (last - 2 * WordBytes) - 1 = x - PadAt
          /\ i - (last - 2 * WordBytes) - WordBytes - 1 = x - PadAt - WordBytes
      BY <1>6, <2>2, Sizes DEF PadAt
    <2>6. ShortLast(c)[x] =
             IF x < c.index THEN c.block[x] ELSE IF x = c.index THEN Mark
             ELSE IF x < PadAt THEN 0
             ELSE IF x < PadAt + WordBytes THEN ByteOf(c.high, x - PadAt)
             ELSE ByteOf(c.low, x - PadAt - WordBytes)
      BY ShortByte
    <2>7. PaddedByte(m, i) =
             IF i <= Len(m) THEN m[i] ELSE IF i = Len(m) + 1 THEN Mark
             ELSE IF i <= last - 2 * WordBytes THEN 0
             ELSE IF i <= last - 2 * WordBytes + WordBytes
                  THEN ByteOf(c.high, i - (last - 2 * WordBytes) - 1)
             ELSE ByteOf(c.low, i - (last - 2 * WordBytes) - WordBytes - 1)
      BY <1>7, <2>4, ReferenceByte
    <2>8. x < c.index => c.block[x] = m[i]
      BY <1>5, <2>2, <2>4
    <2>9. PaddedByte(m, i) = ShortLast(c)[x]
      BY <2>4, <2>5, <2>6, <2>7, <2>8
    <2> QED
      BY <2>1, <2>3, <2>9
  <1>9. HasBytes(ShortLast(c), m, base)
    BY <1>8 DEF HasBytes
  <1>10. PICK q \in Nat : q = k + 1 /\ base = (q - 1) * BlockSize
    BY <1>2, <1>3
  <1>11. PaddedBlock(m, q) = Compressed(ShortLast(c))
    BY <1>9, <1>10, BlockOfBytes
  <1> QED
    BY <1>10, <1>11

\* The mark in one block and the length in the next.
LEMMA LongPadding ==
  ASSUME NEW m \in Seq(Nat), NEW c, IsContext(c), ~(c.index < PadAt), c.index < BlockSize,
         Counted(c, Len(m)), NEW k, Spread(c, m, Len(m), k)
  PROVE  /\ PaddedBlock(m, k + 1) = Compressed(MarkedBlock(c, BlockSize))
         /\ PaddedBlock(m, k + 2) = Compressed(LongLast(c))
  <1>1. c.index \in 0..BlockSize - 1
    BY Sizes DEF IsContext, Contexts
  <1>2. k \in Nat
    BY DEF Spread
  <1>3. PICK base \in Nat : base = k * BlockSize
    BY <1>2, Sizes
  <1>4. Len(m) = base + c.index
    BY <1>3 DEF Spread
  <1>5. \A j \in 0..c.index - 1 : c.block[j] = m[base + j + 1]
    BY <1>3 DEF Spread
  <1>6. PICK next \in Nat : next = base + BlockSize
    BY Sizes
  <1>7. PICK last \in Nat : last = next + BlockSize
    BY Sizes
  <1>8. last = BlockCount(Len(m)) * BlockSize
    <2>1. BlockCount(k * BlockSize + c.index) = k + 2
      BY <1>1, <1>2, BlockCounts
    <2>2. BlockCount(Len(m)) = k + 2
      BY <1>3, <1>4, <2>1
    <2> QED
      BY <1>2, <1>3, <1>6, <1>7, <2>2, Sizes
  <1>9. \A i \in Nat : PaddedByte(m, i) =
             IF i <= Len(m) THEN m[i] ELSE IF i = Len(m) + 1 THEN Mark
             ELSE IF i <= last - 2 * WordBytes THEN 0
             ELSE IF i <= last - 2 * WordBytes + WordBytes
                  THEN ByteOf(c.high, i - (last - 2 * WordBytes) - 1)
             ELSE ByteOf(c.low, i - (last - 2 * WordBytes) - WordBytes - 1)
    BY <1>8, ReferenceByte
  <1>10. ASSUME NEW j \in 1..BlockSize
         PROVE  PaddedByte(m, base + j) = MarkedBlock(c, BlockSize)[j - 1]
    <2>1. PICK x \in 0..BlockSize - 1 : x = j - 1
      BY Sizes
    <2>2. PICK i : i = base + x + 1
      OBVIOUS
    <2>3. base + j = i
      BY <2>1, <2>2, Sizes
    <2>4. /\ i \in Nat /\ (i <= Len(m) <=> x < c.index) /\ (i = Len(m) + 1 <=> x = c.index)
          /\ x < c.index => x \in 0..c.index - 1
      BY <1>1, <1>4, <2>2, Positions
    <2>5. i <= last - 2 * WordBytes /\ x < BlockSize
      BY <1>6, <1>7, <2>2, Sizes
    <2>6. MarkedBlock(c, BlockSize)[x] =
             IF x < c.index THEN c.block[x] ELSE IF x = c.index THEN Mark
             ELSE IF x < BlockSize THEN 0 ELSE c.block[x]
      <3>1. BlockSize \in 0..BlockSize
        BY Sizes
      <3> QED
        BY <3>1, MarkedByte
    <2>7. x < c.index => c.block[x] = m[i]
      BY <1>5, <2>2, <2>4
    <2>8. PaddedByte(m, i) = MarkedBlock(c, BlockSize)[x]
      BY <1>9, <2>4, <2>5, <2>6, <2>7
    <2> QED
      BY <2>1, <2>3, <2>8
  <1>11. ASSUME NEW j \in 1..BlockSize
         PROVE  PaddedByte(m, next + j) = LongLast(c)[j - 1]
    <2>1. PICK x \in 0..BlockSize - 1 : x = j - 1
      BY Sizes
    <2>2. PICK i : i = next + x + 1
      OBVIOUS
    <2>3. next + j = i
      BY <2>1, <2>2, Sizes
    <2>4. i \in Nat /\ ~(i <= Len(m)) /\ i # Len(m) + 1
      BY <1>1, <1>4, <1>6, <2>2, Sizes
    <2>5. /\ i <= last - 2 * WordBytes <=> x < PadAt
          /\ i <= last - 2 * WordBytes + WordBytes <=> x < PadAt + WordBytes
          /\ i - (last - 2 * WordBytes) - 1 = x - PadAt
          /\ i - (last - 2 * WordBytes) - WordBytes - 1 = x - PadAt - WordBytes
      BY <1>7, <2>2, Sizes DEF PadAt
    <2>6. LongLast(c)[x] =
             IF x < PadAt THEN 0
             ELSE IF x < PadAt + WordBytes THEN ByteOf(c.high, x - PadAt)
             ELSE ByteOf(c.low, x - PadAt - WordBytes)
      BY LongByte
    <2>7. PaddedByte(m, i) = LongLast(c)[x]
      BY <1>9, <2>4, <2>5, <2>6
    <2> QED
      BY <2>1, <2>3, <2>7
  <1>12. PaddedBlock(m, k + 1) = Compressed(MarkedBlock(c, BlockSize))
    <2>1. HasBytes(MarkedBlock(c, BlockSize), m, base)
      BY <1>10 DEF HasBytes
    <2>2. PICK q \in Nat : q = k + 1 /\ base = (q - 1) * BlockSize
      BY <1>2, <1>3
    <2>3. PaddedBlock(m, q) = Compressed(MarkedBlock(c, BlockSize))
      BY <2>1, <2>2, BlockOfBytes
    <2> QED
      BY <2>2, <2>3
  <1>13. PaddedBlock(m, k + 2) = Compressed(LongLast(c))
    <2>1. HasBytes(LongLast(c), m, next)
      BY <1>11 DEF HasBytes
    <2>2. PICK q \in Nat : q = k + 2 /\ next = (q - 1) * BlockSize
      BY <1>2, <1>3, <1>6, Sizes
    <2>3. PaddedBlock(m, q) = Compressed(LongLast(c))
      BY <2>1, <2>2, BlockOfBytes
    <2> QED
      BY <2>2, <2>3
  <1> QED
    BY <1>12, <1>13

\* The reference is its blocks.
LEMMA ReferenceBlocks ==
  ASSUME NEW m
  PROVE  Reference(m) = [q \in 1..BlockCount(Len(m)) |-> PaddedBlock(m, q)]
  BY DEF Reference, PaddedBlock

\* What SHA1PadMessage leaves of a message that was taken whole is its reference.
LEMMA PaddedDigest ==
  ASSUME NEW m \in Seq(Nat), NEW c, IsContext(c), c.index < BlockSize, Counted(c, Len(m)),
         NEW k, Spread(c, m, Len(m), k), NEW d, d = SHA1PadMessage(c)
  PROVE  d.digest = Reference(m)
  <1>1. c.index \in 0..BlockSize - 1 /\ PadAt \in Int
    BY Sizes DEF IsContext, Contexts, PadAt
  <1>2. k \in Nat /\ k * BlockSize \in Nat /\ Len(m) = k * BlockSize + c.index
    BY Sizes DEF Spread
  <1>3. k * BlockSize <= Len(m)
    BY <1>1, <1>2
  <1>4. \A q \in 1..k : PaddedBlock(m, q) = Chunk(m, q)
    BY <1>2, <1>3, WholeBlock
  <1>5. BlockCount(Len(m)) = IF c.index < PadAt THEN k + 1 ELSE k + 2
    BY <1>1, <1>2, BlockCounts
  <1>6. c.digest = Chunks(m, k)
    BY DEF Spread
  <1>7. CASE c.index < PadAt
    <2>1. PICK x : x = Compressed(ShortLast(c))
      OBVIOUS
    <2>2. d.digest = Append(Chunks(m, k), x)
      BY <1>6, <1>7, <2>1, PadEffect DEF Grown
    <2>3. d.digest = AndOne(m, k, x)
      BY <1>2, <2>2, AppendOne
    <2>4. PaddedBlock(m, k + 1) = x
      BY <1>7, <2>1, ShortPadding
    <2>5. \A q \in 1..k + 1 : PaddedBlock(m, q) = IF q <= k THEN Chunk(m, q) ELSE x
      <3>1. \A q \in 1..k + 1 : (q <= k => q \in 1..k) /\ (~(q <= k) => q = k + 1)
        BY <1>2
      <3> QED
        BY <1>4, <2>4, <3>1
    <2>6. Reference(m) = [q \in 1..k + 1 |-> PaddedBlock(m, q)]
      BY <1>5, <1>7, ReferenceBlocks
    <2>7. [q \in 1..k + 1 |-> PaddedBlock(m, q)] = AndOne(m, k, x)
      BY <2>5 DEF AndOne
    <2> QED
      BY <2>3, <2>6, <2>7
  <1>8. CASE ~(c.index < PadAt)
    <2>1. PICK x : x = Compressed(MarkedBlock(c, BlockSize))
      OBVIOUS
    <2>2. PICK y : y = Compressed(LongLast(c))
      OBVIOUS
    <2>3. d.digest = Append(Append(Chunks(m, k), x), y)
      <3>1. c.index >= PadAt
        BY <1>1, <1>8
      <3> QED
        BY <1>6, <2>1, <2>2, <3>1, PadEffect DEF Grown
    <2>4. d.digest = AndTwo(m, k, x, y)
      BY <1>2, <2>3, AppendTwo
    <2>5. PaddedBlock(m, k + 1) = x /\ PaddedBlock(m, k + 2) = y
      BY <1>8, <2>1, <2>2, LongPadding
    <2>6. \A q \in 1..k + 2 : PaddedBlock(m, q) =
              IF q <= k THEN Chunk(m, q) ELSE IF q = k + 1 THEN x ELSE y
      <3>1. \A q \in 1..k + 2 : /\ q <= k => q \in 1..k
                                /\ ~(q <= k) /\ q # k + 1 => q = k + 2
        BY <1>2
      <3> QED
        BY <1>4, <2>5, <3>1
    <2>7. Reference(m) = [q \in 1..k + 2 |-> PaddedBlock(m, q)]
      BY <1>5, <1>8, ReferenceBlocks
    <2>8. [q \in 1..k + 2 |-> PaddedBlock(m, q)] = AndTwo(m, k, x, y)
      BY <2>6 DEF AndTwo
    <2> QED
      BY <2>4, <2>7, <2>8
  <1> QED
    BY <1>7, <1>8

-----------------------------------------------------------------------------
(* The invariant. *)

\* Between the steps the block is never full.
ContextInv == IsContext(sha) /\ sha.index < BlockSize

\* What sha1_hash works on.
MessageInv == message \in Seq(Nat) /\ taken \in 0..Len(message) /\ at \in {"start", "input", "done"}

\* While a message is taken: its bytes so far are counted and spread over the digest and
\* Message_Block, or the counters have just run over.
InputInv ==
    at = "input" =>
        /\ ~sha.computed
        /\ IF sha.corrupted THEN Full(taken)
           ELSE Counted(sha, taken) /\ \E k : Spread(sha, message, taken, k)

HashInv == ContextInv /\ MessageInv /\ InputInv /\ DigestOfInput

\* The context of a new message, whatever the last one left.
LEMMA ResetEffect ==
  ASSUME NEW c, IsContext(c), NEW m, NEW d, d = EnterInput(SHA1Reset(c), m)
  PROVE  /\ IsContext(d) /\ d.index = 0 /\ ~d.computed /\ ~d.corrupted
         /\ Counted(d, 0) /\ Spread(d, m, 0, 0)
  <1>1. PICK D, V : c \in Contexts(D, V)
    BY DEF IsContext
  <1>2. PICK r : r = SHA1Reset(c)
    OBVIOUS
  <1>3. r = [c EXCEPT !.digest = <<>>, !.low = 0, !.high = 0, !.index = 0,
                      !.computed = FALSE, !.corrupted = FALSE]
    BY <1>2 DEF SHA1Reset
  <1>4. /\ r.digest = <<>> /\ r.low = 0 /\ r.high = 0 /\ r.index = 0
        /\ r.computed = FALSE /\ r.corrupted = FALSE
    BY <1>1, <1>3 DEF Contexts
  <1>5. r \in Contexts({<<>>}, V)
    <2>1. 0 \in 0..WordSize - 1 /\ 0 \in 0..BlockSize /\ <<>> \in {<<>>}
      BY Sizes
    <2>2. FALSE \in BOOLEAN
      OBVIOUS
    <2> QED
      BY <1>1, <1>3, <2>1, <2>2 DEF Contexts
  <1>6. d = r
    BY <1>2, <1>4 DEF EnterInput
  <1>7. Counted(d, 0)
    BY <1>4, <1>6, Sizes DEF Counted, Counting
  <1>8. Spread(d, m, 0, 0)
    <2>1. Chunks(m, 0) = <<>>
      BY DEF Chunks
    <2> QED
      BY <1>4, <1>6, <2>1, Sizes DEF Spread
  <1> QED
    BY <1>4, <1>5, <1>6, <1>7, <1>8 DEF IsContext

\* The index behind a byte, and how many bytes that makes.
LEMMA NextIndex ==
  ASSUME NEW index \in 0..BlockSize - 1
  PROVE  /\ index + 1 # BlockSize => index + 1 < BlockSize
         /\ index + 1 = BlockSize =>
              \A base \in Nat : base + index + 1 = base + BlockSize
  BY Sizes

\* A byte more is counted and spread, or the counters have run over.
LEMMA TakeByte ==
  ASSUME NEW c, IsContext(c), c.index < BlockSize, NEW m \in Seq(Nat), NEW n \in Nat,
         n < Len(m), Counted(c, n), NEW k, Spread(c, m, n, k),
         NEW d, d = InputByte(c, m[n + 1])
  PROVE  /\ IsContext(d) /\ d.index < BlockSize /\ d.computed = c.computed
         /\ d.corrupted \in BOOLEAN
         /\ d.corrupted => Full(n + 1)
         /\ ~d.corrupted => Counted(d, n + 1)
         /\ \E q : Spread(d, m, n + 1, q)
  <1>1. PICK D, V : c \in Contexts(D, V)
    BY DEF IsContext
  <1>2. /\ c.low \in 0..WordSize - 1 /\ c.high \in 0..WordSize - 1
        /\ c.index \in 0..BlockSize - 1 /\ c.block \in Blocks(V)
    BY <1>1, Sizes DEF Contexts
  <1>3. PICK low : low = NextLow(c.low)
    OBVIOUS
  <1>4. PICK high : high = NextHigh(low, c.high)
    OBVIOUS
  <1>5. /\ low \in 0..WordSize - 1 /\ high \in 0..WordSize - 1
        /\ IF low = 0 /\ high = 0 THEN Full(n + 1) ELSE Counting(high, low, n + 1)
    BY <1>2, <1>3, <1>4, CountByte DEF Counted
  <1>6. PICK byte : byte = m[n + 1]
    OBVIOUS
  <1>7. PICK block : block = Written(c.block, c.index, byte)
    OBVIOUS
  <1>8. Advanced(c, d, low, high, block) /\ \E E, W : d \in Contexts(E, W)
    <2>1. d = InputByte(c, byte)
      BY <1>6
    <2> QED
      BY <1>1, <1>3, <1>4, <1>5, <1>7, <2>1, InputEffect
  <1>9. IsContext(d) /\ d.corrupted \in BOOLEAN
    BY <1>8 DEF IsContext, Contexts
  <1> USE DEF Advanced
  <1>10. d.index < BlockSize
    <2>1. CASE c.index + 1 = BlockSize
      BY <1>8, <2>1, Sizes
    <2>2. CASE c.index + 1 # BlockSize
      <3>1. d.index = c.index + 1
        BY <1>8, <2>2
      <3>2. c.index + 1 < BlockSize
        BY <1>2, <2>2, NextIndex
      <3> QED
        BY <3>1, <3>2
    <2> QED
      BY <2>1, <2>2
  <1>11. d.corrupted => Full(n + 1)
    BY <1>5, <1>8
  <1>12. ~d.corrupted => Counted(d, n + 1)
    BY <1>5, <1>8 DEF Counted
  <1>13. PICK base \in Nat : base = k * BlockSize
    BY Sizes DEF Spread
  <1>14. k \in Nat /\ n = base + c.index /\ c.digest = Chunks(m, k)
    BY <1>13 DEF Spread
  <1>15. \A j \in 0..c.index - 1 : c.block[j] = m[base + j + 1]
    BY <1>13 DEF Spread
  <1>16. \A j \in 0..c.index : block[j] = m[base + j + 1]
    <2>1. \A j \in 0..c.index : block[j] = IF j = c.index THEN byte ELSE c.block[j]
      BY <1>2, <1>7, Sizes DEF Written, Blocks
    <2>2. \A j \in 0..c.index : j # c.index => j \in 0..c.index - 1
      BY <1>2, Sizes
    <2>3. byte = m[base + c.index + 1]
      BY <1>6, <1>14
    <2> QED
      BY <1>15, <2>1, <2>2, <2>3
  <1>17. CASE c.index + 1 = BlockSize
    <2>1. Compressed(block) = Chunk(m, k + 1)
      <3>1. \A j \in 1..BlockSize : j - 1 \in 0..c.index /\ base + (j - 1) + 1 = base + j
        BY <1>2, <1>17, Sizes
      <3>2. \A j \in 1..BlockSize : block[j - 1] = m[base + j]
        BY <1>16, <3>1
      <3>3. PICK q : q = k + 1 /\ (q - 1) * BlockSize = base
        BY <1>13, <1>14
      <3>4. Compressed(block) = Chunk(m, q)
        BY <3>2, <3>3 DEF Compressed, Chunk
      <3> QED
        BY <3>3, <3>4
    <2>2. d.digest = Chunks(m, k + 1)
      BY <1>8, <1>14, <1>17, <2>1, NextChunk DEF Grown
    <2>3. k + 1 \in Nat /\ n + 1 = (k + 1) * BlockSize + d.index
      <3>1. d.index = 0
        BY <1>8, <1>17
      <3>2. (k + 1) * BlockSize = base + BlockSize
        BY <1>13, <1>14, Sizes
      <3>3. n + 1 = base + BlockSize
        BY <1>2, <1>14, <1>17, NextIndex
      <3>4. (k + 1) * BlockSize \in Nat /\ k + 1 \in Nat
        BY <1>14, Sizes
      <3> QED
        BY <3>1, <3>2, <3>3, <3>4
    <2>4. Spread(d, m, n + 1, k + 1)
      <3>1. 0..d.index - 1 = {}
        BY <1>8, <1>17
      <3> QED
        BY <2>2, <2>3, <3>1 DEF Spread
    <2> QED
      BY <1>8, <1>9, <1>10, <1>11, <1>12, <2>4
  <1>18. CASE c.index + 1 # BlockSize
    <2>1. d.index = c.index + 1 /\ d.digest = Chunks(m, k)
      BY <1>8, <1>14, <1>18
    <2>2. n + 1 = k * BlockSize + d.index
      BY <1>2, <1>13, <1>14, <2>1, Sizes
    <2>3. \A j \in 0..d.index - 1 : d.block[j] = m[k * BlockSize + j + 1]
      <3>1. 0..d.index - 1 = 0..c.index
        BY <1>2, <2>1, Sizes
      <3> QED
        BY <1>8, <1>13, <1>16, <3>1
    <2>4. Spread(d, m, n + 1, k)
      BY <1>14, <2>1, <2>2, <2>3 DEF Spread
    <2> QED
      BY <1>8, <1>9, <1>10, <1>11, <1>12, <2>4
  <1> QED
    BY <1>17, <1>18

-----------------------------------------------------------------------------
(* The steps. *)

\* Zeroed memory is a context.
LEMMA HashInvInit == HashInit => HashInv
  <1> SUFFICES ASSUME HashInit PROVE HashInv
    OBVIOUS
  <1>1. PICK block : block = [i \in 0..BlockSize - 1 |-> 0]
    OBVIOUS
  <1>2. block \in Blocks({0})
    BY <1>1 DEF Blocks
  <1>3. sha = [digest |-> <<>>, low |-> 0, high |-> 0, block |-> block, index |-> 0,
               computed |-> FALSE, corrupted |-> FALSE]
    BY <1>1 DEF HashInit, NewContext
  <1>4. sha \in Contexts({<<>>}, {0}) /\ sha.index < BlockSize
    <2>1. 0 \in 0..WordSize - 1 /\ 0 \in 0..BlockSize /\ 0 < BlockSize
      BY Sizes
    <2>2. FALSE \in BOOLEAN
      OBVIOUS
    <2> QED
      BY <1>2, <1>3, <2>1, <2>2 DEF Contexts
  <1>5. message = <<>> /\ taken = 0 /\ at = "start"
    BY DEF HashInit
  <1> QED
    BY <1>4, <1>5 DEF HashInv, ContextInv, IsContext, MessageInv, InputInv, DigestOfInput

\* A new message.
LEMMA HashStart ==
  ASSUME HashInv, NEW source \in Seq(Nat), sha1_hash(source)
  PROVE  HashInv'
  <1>1. /\ at' = "input" /\ message' = source /\ taken' = 0
        /\ sha' = EnterInput(SHA1Reset(sha), source)
    BY DEF sha1_hash
  <1>2. /\ IsContext(sha') /\ sha'.index = 0 /\ ~sha'.computed /\ ~sha'.corrupted
        /\ Counted(sha', 0) /\ Spread(sha', source, 0, 0)
    BY <1>1, ResetEffect DEF HashInv, ContextInv
  <1>3. ContextInv'
    BY <1>2, Sizes DEF ContextInv
  <1>4. MessageInv'
    <2>1. Len(source) \in Nat
      OBVIOUS
    <2> QED
      BY <1>1, <2>1 DEF MessageInv
  <1>5. InputInv'
    BY <1>1, <1>2 DEF InputInv
  <1>6. DigestOfInput'
    BY <1>1 DEF DigestOfInput
  <1> QED
    BY <1>3, <1>4, <1>5, <1>6 DEF HashInv

\* What is read of a file is a message.
LEMMA FileMessage ==
  ASSUME NEW file \in Files
  PROVE  /\ file \in Seq(Nat)
         /\ ~(Len(file) < MaxFileLength) => SubSeq(file, 1, MaxFileLength) \in Seq(Nat)
  <1>1. file \in Seq(Nat) /\ MaxFileLength \in Nat
    BY Sha1Assumption
  <1>2. ~(Len(file) < MaxFileLength) =>
            \A i \in 1..MaxFileLength : i \in 1..Len(file)
    BY <1>1
  <1> QED
    BY <1>1, <1>2

\* A byte of the message.
LEMMA HashByte ==
  ASSUME HashInv, SHA1Input
  PROVE  HashInv'
  <1>1. /\ at = "input" /\ at' = "input" /\ message' = message /\ taken' = taken + 1
        /\ taken < Len(message) /\ ~sha.corrupted
        /\ sha' = InputByte(sha, message[taken + 1])
    BY DEF SHA1Input
  <1>2. /\ IsContext(sha) /\ sha.index < BlockSize
        /\ message \in Seq(Nat) /\ taken \in Nat /\ Len(message) \in Nat
    BY DEF HashInv, ContextInv, MessageInv
  <1>3. PICK k : ~sha.computed /\ Counted(sha, taken) /\ Spread(sha, message, taken, k)
    BY <1>1 DEF HashInv, InputInv
  <1>4. /\ IsContext(sha') /\ sha'.index < BlockSize /\ sha'.computed = sha.computed
        /\ sha'.corrupted \in BOOLEAN
        /\ sha'.corrupted => Full(taken + 1)
        /\ ~sha'.corrupted => Counted(sha', taken + 1)
        /\ \E q : Spread(sha', message, taken + 1, q)
    BY <1>1, <1>2, <1>3, TakeByte
  <1>5. ContextInv'
    BY <1>4 DEF ContextInv
  <1>6. MessageInv'
    BY <1>1, <1>2 DEF MessageInv
  <1>7. InputInv'
    BY <1>1, <1>3, <1>4 DEF InputInv
  <1>8. DigestOfInput'
    BY <1>1 DEF DigestOfInput
  <1> QED
    BY <1>5, <1>6, <1>7, <1>8 DEF HashInv

\* Counters that have not run over hold a length below what they can hold, and counters
\* that have belong to a message that is too long.
LEMMA CountersHold ==
  ASSUME NEW c, IsContext(c), NEW n \in Nat
  PROVE  /\ Counted(c, n) => 8 * n < WordSize * WordSize
         /\ \A l \in Nat : Full(n) /\ n <= l => ~(8 * l < WordSize * WordSize)
  <1>1. c.high \in Nat /\ c.low \in Nat /\ c.low < WordSize /\ c.high < WordSize
    BY Sizes DEF IsContext, Contexts
  <1>2. c.high * WordSize + WordSize <= WordSize * WordSize
    BY <1>1, BlocksBefore, Sizes
  <1>3. c.high * WordSize \in Nat /\ WordSize * WordSize \in Nat
    BY <1>1, Sizes
  <1> QED
    BY <1>1, <1>2, <1>3, Sizes DEF Counted, Counting, Full

\* The end of the message: it is padded, unless the counters have run over.
LEMMA HashEnd ==
  ASSUME HashInv, SHA1Result
  PROVE  HashInv'
  <1>1. /\ at = "input" /\ at' = "done" /\ message' = message /\ taken' = taken
        /\ taken = Len(message) \/ sha.corrupted
        /\ sha' = IF sha.corrupted \/ sha.computed THEN sha
                  ELSE [SHA1PadMessage(sha) EXCEPT !.computed = TRUE]
    BY DEF SHA1Result
  <1>2. /\ IsContext(sha) /\ sha.index < BlockSize
        /\ message \in Seq(Nat) /\ taken \in Nat /\ Len(message) \in Nat /\ taken <= Len(message)
    BY DEF HashInv, ContextInv, MessageInv
  <1>3. MessageInv' /\ InputInv'
    BY <1>1 DEF HashInv, MessageInv, InputInv
  <1>4. CASE sha.corrupted
    <2>1. sha' = sha
      BY <1>1, <1>4
    <2>2. Full(taken)
      BY <1>1, <1>4 DEF HashInv, InputInv
    <2>3. ~(8 * Len(message) < WordSize * WordSize)
      BY <1>2, <2>2, CountersHold
    <2>4. DigestOfInput'
      BY <1>1, <1>4, <2>1, <2>3 DEF DigestOfInput
    <2> QED
      BY <1>3, <2>1, <2>4 DEF HashInv, ContextInv
  <1>5. CASE ~sha.corrupted
    <2>1. PICK k : ~sha.computed /\ Counted(sha, taken) /\ Spread(sha, message, taken, k)
      BY <1>1, <1>5 DEF HashInv, InputInv
    <2>2. taken = Len(message)
      BY <1>1, <1>5
    <2>3. PICK d : d = SHA1PadMessage(sha)
      OBVIOUS
    <2>4. sha' = [d EXCEPT !.computed = TRUE]
      BY <1>1, <1>5, <2>1, <2>3
    <2>5. IsContext(d) /\ SameCounters(sha, d) /\ d.index = 0
      BY <1>2, <2>3, PadEffect
    <2>6. d.digest = Reference(message)
      BY <1>2, <2>1, <2>2, <2>3, PaddedDigest
    <2>7. PICK D, V : d \in Contexts(D, V)
      BY <2>5 DEF IsContext
    <2>8. sha' \in Contexts(D, V)
      BY <2>4, <2>7 DEF Contexts
    <2>9. /\ sha'.digest = d.digest /\ sha'.index = d.index /\ sha'.computed = TRUE
          /\ sha'.corrupted = d.corrupted
      BY <2>4, <2>7 DEF Contexts
    <2>10. 8 * Len(message) < WordSize * WordSize
      BY <1>2, <2>1, <2>2, CountersHold
    <2>11. ~sha'.corrupted
      BY <1>5, <2>5, <2>9 DEF SameCounters
    <2>12. DigestOfInput'
      BY <1>1, <2>6, <2>9, <2>10, <2>11 DEF DigestOfInput, convert_hash_to_number
    <2>13. ContextInv'
      BY <2>5, <2>8, <2>9, Sizes DEF ContextInv, IsContext
    <2> QED
      BY <1>3, <2>12, <2>13 DEF HashInv
  <1> QED
    BY <1>4, <1>5

\* Every step.
LEMMA HashInvStep == HashInv /\ [HashNext]_hashVars => HashInv'
  <1> SUFFICES ASSUME HashInv, [HashNext]_hashVars PROVE HashInv'
    OBVIOUS
  <1>1. ASSUME NEW file \in Files, hash_file(file) PROVE HashInv'
    <2>1. PICK source \in Seq(Nat) : sha1_hash(source)
      BY <1>1, FileMessage DEF hash_file
    <2> QED
      BY <2>1, HashStart
  <1>2. ASSUME NEW str \in Strings, hash_string(str) PROVE HashInv'
    <2>1. str \in Seq(Nat)
      BY Sha1Assumption
    <2> QED
      BY <1>2, <2>1, HashStart DEF hash_string
  <1>3. CASE SHA1Input
    BY <1>3, HashByte
  <1>4. CASE SHA1Result
    BY <1>4, HashEnd
  <1>5. CASE UNCHANGED hashVars
    BY <1>5 DEF hashVars, HashInv, ContextInv, MessageInv, InputInv, DigestOfInput
  <1> QED
    BY <1>1, <1>2, <1>3, <1>4, <1>5 DEF HashNext

-----------------------------------------------------------------------------
(* Theorems. *)

\* The index of Message_Block stays inside it and the counters inside their words, for
\* every block and word size and every message.
THEOREM HashTypes == HashSpec => []ContextOK
  <1>1. HashInv => ContextOK
    <2> SUFFICES ASSUME HashInv PROVE ContextOK
      OBVIOUS
    <2>1. PICK D, V : sha \in Contexts(D, V) /\ sha.index < BlockSize
      BY DEF HashInv, ContextInv, IsContext
    <2>2. DOMAIN sha = DOMAIN NewContext
      BY <2>1 DEF Contexts, NewContext
    <2>3. /\ DOMAIN sha.block = 0..BlockSize - 1
          /\ sha.low \in 0..WordSize - 1 /\ sha.high \in 0..WordSize - 1
      BY <2>1 DEF Contexts, Blocks
    <2>4. sha.computed \in BOOLEAN /\ sha.corrupted \in BOOLEAN
      BY <2>1 DEF Contexts
    <2>5. sha.index \in 0..BlockSize - 1
      BY <2>1, Sizes DEF Contexts
    <2> QED
      BY <2>2, <2>3, <2>4, <2>5 DEF ContextOK, HashInv, MessageInv
  <1> QED
    BY <1>1, HashInvInit, HashInvStep, PTL DEF HashSpec

\* What hash_file and hash_string return is the number of just their message, padded as
\* SHA-1 wants it, for every message whose length the counters can hold; for a longer one
\* the context is corrupted.  It holds for every block size, word size and message, and
\* whatever was hashed before.
THEOREM DigestComputed == HashSpec => []DigestOfInput
  <1>1. HashInv => DigestOfInput
    BY DEF HashInv
  <1> QED
    BY <1>1, HashInvInit, HashInvStep, PTL DEF HashSpec

=============================================================================
