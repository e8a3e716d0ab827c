-------------------------------- MODULE Prg ---------------------------------
(****************************************************************************)
(* runtime/crypto/prg.h: generators that hand out the AES counter stream of *)
(* a key as blocks, as bytes at any address, as bits and as words from a    *)
(* buffer.  Byte i of a stream is the number i, so block c is the bytes     *)
(* c * BlockBytes onward and a bit is a byte and a place in it.             *)
(****************************************************************************)
EXTENDS Integers, Sequences, SequencesExt

CONSTANTS Prgs,           \* the generators
          Keys,           \* effective keys (seed XOR id)
          BlockBytes,     \* 16
          ByteBits,       \* 8
          GroupBytes,     \* 4: bytes unpacked by one bits32_to_bytes
          WordBytes,      \* 8
          BufferBlocks,   \* 16: blocks in the word buffer
          ChunkBlocks,    \* CHUNK_B
          AesBatch,       \* AES_BATCH_SIZE
          MaxBlock,       \* bound: stream blocks reached
          ByteSizes, BitSizes  \* bounds: sizes of fills

ASSUME PrgAssumption ==
    /\ BlockBytes % WordBytes = 0 /\ BlockBytes % GroupBytes = 0
    /\ \A c \in {ByteBits, BufferBlocks, ChunkBlocks, AesBatch} : c \in Nat \ {0}

VARIABLES prg,     \* per generator: key, counter, word buffer and ptr
          fill,    \* the last fill: generator, key and counter before it, data
          given,   \* history: bytes each generator handed out since it was positioned
          twice    \* history: some byte was handed out twice

prgVars == <<prg, fill, given, twice>>

CeilDiv(a, b) == (a + b - 1) \div b
Least(a, b) == IF a < b THEN a ELSE b
Full == (BufferBlocks * BlockBytes) \div WordBytes      \* ptr = 32: no words left

Fresh(k) == [key |-> k, counter |-> 0, words |-> <<>>, ptr |-> Full]
Nothing == [unit |-> "none"]

PrgInit ==
    /\ prg \in [Prgs -> {Fresh(k) : k \in Keys}]
    /\ fill = Nothing
    /\ given = [g \in Prgs |-> {}]
    /\ twice = FALSE

\* ParaCtrEnc in batches: the bytes of n blocks from counter c.
RandomBlock(c, n) ==
    FoldLeft(LAMBDA out, b : out \o [i \in 1 .. BlockBytes * Least(AesBatch, n - AesBatch * (b - 1)) |->
                                        c * BlockBytes + Len(out) + i - 1],
             <<>>, [b \in 1 .. CeilDiv(n, AesBatch) |-> b])

\* random_data: whole blocks, then the head of one more.
RandomData(c, n) == RandomBlock(c, n \div BlockBytes)
                    \o SubSeq(RandomBlock(c + n \div BlockBytes, 1), 1, n % BlockBytes)

\* Mutant: the leftover is taken from one block only.
UnalignedOneBlock(c, n, skew) ==
    IF n <= 2 * BlockBytes THEN SubSeq(RandomBlock(c, CeilDiv(n, BlockBytes)), 1, n)
    ELSE LET off == (BlockBytes - skew) % BlockBytes
             size == BlockBytes * ((n - off) \div BlockBytes)
             last == RandomBlock(c + size \div BlockBytes, 1)
         IN  RandomData(c, size) \o [i \in 1 .. n - size |-> last[((i - 1) % BlockBytes) + 1]]
\* random_data_unaligned to an address skew past a block boundary: small fills go
\* through a copy; others fill the aligned middle, move it to the front and top up
\* the end block by block.
RandomDataUnaligned(c, n, skew) ==
    IF n <= 2 * BlockBytes THEN SubSeq(RandomBlock(c, CeilDiv(n, BlockBytes)), 1, n)
    ELSE LET off == (BlockBytes - skew) % BlockBytes
             size == BlockBytes * ((n - off) \div BlockBytes)
             middle == [i \in 1 .. n |-> IF i - off \in 1 .. size THEN RandomData(c, size)[i - off] ELSE -1]
             moved == [i \in 1 .. n |-> IF i <= size THEN middle[i + off] ELSE middle[i]]
             top(buf, b) ==
                 LET rest == n - size - (b - 1) * BlockBytes
                     tmp == RandomBlock(c + size \div BlockBytes + b - 1, 1)
                 IN  [i \in 1 .. n |-> IF i - (n - rest) \in 1 .. Least(rest, BlockBytes)
                                      THEN tmp[i - (n - rest)] ELSE buf[i]]
         IN  FoldLeft(top, moved, [b \in 1 .. CeilDiv(n - size, BlockBytes) |-> b])

\* random_bool: chunks of blocks, each unpacked by groups, then bit by bit.
RandomBool(c, n) ==
    LET chunkBits == ChunkBlocks * BlockBytes * ByteBits
        bitsOf(bytes) == [i \in 1 .. Len(bytes) * ByteBits |-> <<bytes[((i - 1) \div ByteBits) + 1], (i - 1) % ByteBits>>]
        chunk(out, k) ==
            LET bits == Least(n - Len(out), chunkBits)
                buf == RandomBlock(c + Len(out) \div (BlockBytes * ByteBits), CeilDiv(bits, BlockBytes * ByteBits))
                groups == bits \div (GroupBytes * ByteBits)
                tailBits == bits - groups * GroupBytes * ByteBits
                tail == SubSeq(buf, groups * GroupBytes + 1, groups * GroupBytes + CeilDiv(tailBits, ByteBits))
            IN  out \o bitsOf(SubSeq(buf, 1, groups * GroupBytes)) \o SubSeq(bitsOf(tail), 1, tailBits)
    IN  FoldLeft(chunk, <<>>, [k \in 1 .. CeilDiv(n, chunkBits) |-> k])

\* g has handed out data, n blocks further on.
Handed(g, unit, size, data, n, bytes) ==
    /\ prg[g].counter + n <= MaxBlock
    /\ prg' = [prg EXCEPT ![g].counter = @ + n]
    /\ fill' = [unit |-> unit, key |-> prg[g].key, from |-> prg[g].counter, size |-> size, data |-> data, to |-> prg[g].counter + n]
    /\ given' = [given EXCEPT ![g] = @ \cup bytes]
    /\ twice' = (twice \/ bytes \cap given[g] # {})
Keyed(g, data) == {<<prg[g].key, x>> : x \in ToSet(data)}

Data(g, n) ==
    LET d == RandomData(prg[g].counter, n)
    IN  Handed(g, "byte", n, d, CeilDiv(n, BlockBytes), Keyed(g, d))
\* The small path and the topping up take the same number of blocks.
DataUnaligned(g, n, skew) ==
    LET d == RandomDataUnaligned(prg[g].counter, n, skew)
    IN  Handed(g, "byte", n, d, CeilDiv(n, BlockBytes), Keyed(g, d))
Bools(g, n) ==
    LET d == RandomBool(prg[g].counter, n)
    IN  Handed(g, "bit", n, d, CeilDiv(n, BlockBytes * ByteBits), Keyed(g, [i \in DOMAIN d |-> d[i][1]]))

\* operator(): refills the buffer when it is used up.
Refilled(p) ==
    IF p.ptr # Full THEN p
    ELSE [p EXCEPT !.words = [i \in 1 .. Full |-> <<p.key, RandomBlock(p.counter, BufferBlocks)[(i - 1) * WordBytes + 1]>>],
                   !.counter = p.counter + BufferBlocks, !.ptr = 0]
Word(g) ==
    LET p == Refilled(prg[g])
        w == p.words[p.ptr + 1]
        bytes == {<<w[1], w[2] + i>> : i \in 0 .. WordBytes - 1}
    IN  /\ p.counter <= MaxBlock
        /\ prg' = [prg EXCEPT ![g] = [p EXCEPT !.ptr = p.ptr + 1]]
        /\ fill' = [unit |-> "word", key |-> p.key, word |-> w]
        /\ given' = [given EXCEPT ![g] = @ \cup bytes]
        /\ twice' = (twice \/ bytes \cap given[g] # {})

\* Positioning: history starts over.
Positioned(g, p) ==
    /\ prg' = [prg EXCEPT ![g] = p]
    /\ given' = [given EXCEPT ![g] = {}]
    /\ fill' = Nothing
    /\ UNCHANGED twice

Seek(g, c) == Positioned(g, [prg[g] EXCEPT !.counter = c, !.ptr = Full])
ForkAt(g, h, c) == Positioned(h, [prg[g] EXCEPT !.counter = c, !.ptr = Full])
\* reseed: key and counter; the buffered words are left.
Reseed(g, k) == Positioned(g, [prg[g] EXCEPT !.key = k, !.counter = 0])

PrgNext ==
    \E g \in Prgs :
        \/ \E n \in ByteSizes : Data(g, n)
        \/ \E n \in ByteSizes, skew \in 0 .. BlockBytes - 1 : DataUnaligned(g, n, skew)
        \/ \E n \in BitSizes : Bools(g, n)
        \/ Word(g)
        \/ \E c \in 0 .. MaxBlock - 3 : Seek(g, c)
        \/ \E h \in Prgs \ {g}, c \in 0 .. MaxBlock - 3 : ForkAt(g, h, c)
        \/ \E k \in Keys : prg[g].ptr = Full /\ Reseed(g, k)    \* no words are left over

PrgSpec == PrgInit /\ [][PrgNext]_prgVars

(***************************************************************************)
(* Properties                                                              *)
(***************************************************************************)
\* Every fill is the stream itself from the generator's position on, whatever the
\* alignment of the destination and the unit: every byte of it is written, none is
\* skipped or doubled at the seams of batches, chunks, the moved middle and the
\* topped-up end, and the position moves past the last block touched.
FillsAreStream ==
    fill.unit \in {"byte", "bit"} =>
        LET per == IF fill.unit = "byte" THEN BlockBytes ELSE BlockBytes * ByteBits
            start == fill.from * BlockBytes
            at(i) == IF fill.unit = "byte" THEN start + i - 1
                     ELSE <<start + (i - 1) \div ByteBits, (i - 1) % ByteBits>>
        IN  /\ fill.data = [i \in 1 .. fill.size |-> at(i)]
            /\ fill.to = fill.from + CeilDiv(fill.size, per)

\* Between two positionings no byte of the stream is handed out twice, in fills and
\* in words from the buffer together.
NothingTwice == ~twice

\* A generator is its key's stream, read once: fills are stretches of it, and no
\* byte is handed out twice.
StreamOnce == FillsAreStream /\ NothingTwice
=============================================================================
