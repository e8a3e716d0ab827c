--------------------------- MODULE MessageFraming ---------------------------
(****************************************************************************)
(* How circuits/crypto lays messages out around its primitives: the padding *)
(* and words of sha256_wires, the sponge of sha3_256_wires and the counter  *)
(* mode of aes128_ctr.  Wires are symbolic: message wire i is <<"m", i>>; a *)
(* primitive is known by what it is given.                                  *)
(****************************************************************************)
EXTENDS CircuitInts, FiniteSets

CONSTANTS MessageBytes,      \* bound: lengths of hashed messages
          StreamBits,        \* bound: lengths of encrypted streams
          Counters,          \* bound: initial counters, bytes 15 down to 8
          StartChunks        \* bound: start_chunk, bytes from the lowest

VARIABLES job,       \* the call and its size
          at,        \* blocks done
          given,     \* what the primitive was given, block by block
          made       \* the output wires so far; in counter mode with the counter

frameVars == <<job, at, given, made>>

M(i) == <<"m", i>>
Zero == <<"bit", 0>>
One == <<"bit", 1>>
\* Lengths are below 2^31 here.
LengthBit(L, weight) == weight < 31 /\ (L \div 2 ^ weight) % 2 = 1
Least(a, b) == IF a < b THEN a ELSE b

(***************************************************************************)
(* sha256_wires                                                            *)
(***************************************************************************)
\* Word of a block and bit of the word to the wire in the block: bytes are least
\* significant bit first, words most significant byte first.
WordBitIndex(word, b) == 8 * (4 * word + 3 - b \div 8) + (b % 8)

Sha256Total(L) == ((L + 1 + 64 + 511) \div 512) * 512

Sha256Padded(L, i) ==
    LET total == Sha256Total(L)
        pos == i - (total - 64)                                  \* place in the length field
        weight == 8 * (7 - pos \div 8) + (pos % 8)
    IN  CASE pos >= 0 /\ LengthBit(L, weight) -> One
          [] i = L + 7 -> One
          [] i < L -> M(i)
          [] OTHER -> Zero

Sha256Block ==
    /\ job.call = "sha256" /\ at < Sha256Total(job.bits) \div 512
    /\ given' = Append(given, [j \in 0 .. 15 |-> [b \in 0 .. 31 |-> Sha256Padded(job.bits, at * 512 + WordBitIndex(j, b))]])
    /\ at' = at + 1
    /\ UNCHANGED <<job, made>>

\* Output wire to the word and bit of the final state it carries.
Sha256Digest ==
    /\ job.call = "sha256" /\ at = Sha256Total(job.bits) \div 512 /\ made = <<>>
    /\ made' = [i \in {WordBitIndex(w, b) : w \in 0 .. 7, b \in 0 .. 31} |->
                   CHOOSE p \in (0 .. 7) \X (0 .. 31) : WordBitIndex(p[1], p[2]) = i]
    /\ UNCHANGED <<job, at, given>>

(***************************************************************************)
(* sha3_256_wires                                                          *)
(***************************************************************************)
Sha3StateBitIndex(idx) ==
    LET byteJ == idx \div 8
        lane == byteJ \div 8
    IN  64 * (5 * (lane \div 5) + (lane % 5)) + 8 * (byteJ % 8) + (idx % 8)

\* The bits of the state change since the last permutation: absorbed wires, and
\* flips by not_gate.
Absorbed(from, n) == {<<Sha3StateBitIndex(k), M(from + k)>> : k \in 0 .. n - 1}

\* Absorbs up to the next permutation: 1088 bits, or what is left.
Sha3Block ==
    /\ job.call = "sha3" /\ 1088 * (at + 1) <= job.bits
    /\ given' = Append(given, Absorbed(1088 * at, 1088))
    /\ at' = at + 1
    /\ UNCHANGED <<job, made>>

\* The domain separator at the next byte boundary, and the last bit of the rate.
Sha3PadBits(index) ==
    LET next == 8 * ((index + 7) \div 8)
    IN  {Sha3StateBitIndex(next + 1), Sha3StateBitIndex(next + 2), 1087}

Sha3Last ==
    /\ job.call = "sha3" /\ 1088 * (at + 1) > job.bits /\ made = <<>>
    /\ LET index == job.bits - 1088 * at
       IN  given' = Append(given, Absorbed(1088 * at, index) \cup {<<s, One>> : s \in Sha3PadBits(index)})
    /\ made' = [i \in 0 .. 255 |-> Sha3StateBitIndex(i)]
    /\ UNCHANGED <<job, at>>

(***************************************************************************)
(* aes128_ctr                                                              *)
(***************************************************************************)
BytesToWires(bytes) == [i \in 1 .. 64 |-> UConstant(8, bytes[((i - 1) \div 8) + 1])[((i - 1) % 8) + 1]]
WiresToBytes(w) == [k \in 1 .. 8 |-> UDecode(SubSeq(w, 8 * k - 7, 8 * k))]

\* The ripple of 64 wires as two of 32, the carry of the first into the second.
AddHalves(x, y) ==
    LET low == AddFull(SubSeq(x, 1, 32), SubSeq(y, 1, 32), 0)
        high == AddFull(SubSeq(x, 33, 64), SubSeq(y, 33, 64), low.carry)
    IN  low.bits \o high.bits

\* ctr_inc_be64 on bytes 15 down to 8; bytes 0 to 7 are not touched.
CtrInc(low, delta) ==
    IF \A k \in 1 .. 8 : delta[k] = 0 THEN low
    ELSE WiresToBytes(AddHalves(BytesToWires(low), BytesToWires(delta)))

One64 == <<1, 0, 0, 0, 0, 0, 0, 0>>

CtrStart ==
    /\ job.call = "ctr" /\ made = <<>>
    /\ made' = [counter |-> CtrInc(job.iv, job.start), out |-> <<>>]
    /\ UNCHANGED <<job, at, given>>

\* One keystream block; the counter is not stepped past the last.
CtrBlock ==
    /\ job.call = "ctr" /\ made # <<>> /\ Len(made.out) < job.bits
    /\ LET done == Len(made.out)
           blk == Least(128, job.bits - done)
       IN  made' = [out |-> made.out \o [i \in 1 .. blk |-> <<M(done + i - 1), made.counter, i - 1>>],
                    counter |-> IF done + blk < job.bits THEN CtrInc(made.counter, One64) ELSE made.counter]
    /\ at' = at + 1
    /\ UNCHANGED <<job, given>>

(***************************************************************************)
Jobs ==
    {[call |-> c, bits |-> 8 * n] : c \in {"sha256", "sha3"}, n \in MessageBytes}
    \cup {[call |-> "ctr", bits |-> n, iv |-> iv, start |-> s] : n \in StreamBits, iv \in Counters, s \in StartChunks}

FrameStart(jobs) ==
    /\ job \in jobs
    /\ at = 0 /\ given = <<>> /\ made = <<>>

FrameNext == Sha256Block \/ Sha256Digest \/ Sha3Block \/ Sha3Last \/ CtrStart \/ CtrBlock

FrameInit == FrameStart(Jobs)
FrameSpec == FrameInit /\ [][FrameNext]_frameVars

(***************************************************************************)
(* Properties                                                              *)
(***************************************************************************)
\* Bit q of the padded message of FIPS 180-4, section 5.1.1, most significant bit
\* of each byte first.
Fips180(L, q) ==
    LET k == CHOOSE k \in 0 .. 511 : (L + 1 + k) % 512 = 448
        fromEnd == L + 1 + k + 63 - q                             \* weight in the length field
    IN  CASE q < L -> M(8 * (q \div 8) + 7 - (q % 8))
          [] q = L -> One
          [] q > L /\ fromEnd >= 64 -> Zero
          [] OTHER -> IF LengthBit(L, fromEnd) THEN One ELSE Zero

\* Word j of every block compressed is the standard's 32 bits from 32 * j, most
\* significant first, for messages that end at any byte of a block; the number of
\* blocks is the standard's, and the digest's bytes are those of the state's words in
\* order, most significant first.
Sha256Framed ==
    job.call = "sha256" =>
        /\ \A n \in 1 .. Len(given), j \in 0 .. 15, b \in 0 .. 31 :
               given[n][j][b] = Fips180(job.bits, 512 * (n - 1) + 32 * j + 31 - b)
        /\ made # <<>> =>
               /\ 512 * Len(given) = job.bits + 65 + (CHOOSE k \in 0 .. 511 : (job.bits + 1 + k) % 512 = 448)
               /\ \A byte \in 0 .. 31, k \in 0 .. 7 :
                      made[8 * byte + k] = <<byte \div 4, 8 * (3 - (byte % 4)) + k>>

\* Every block absorbed is the standard's: the message, 01, and pad10*1 up to a
\* whole number of 1088 bits (FIPS 202, sections 5.1 and 6.1); the digest is the
\* state's first 256 bits.
Sha3Framed ==
    job.call = "sha3" =>
        LET L == job.bits
            j == CHOOSE j \in 0 .. 1087 : (L + 2 + 2 + j) % 1088 = 0
            ones == {L + 1, L + 2, L + 3 + j}
        IN  /\ \A n \in 1 .. Len(given) :
                   given[n] = {<<q - 1088 * (n - 1), IF q < L THEN M(q) ELSE One>> :
                                  q \in {p \in 1088 * (n - 1) .. 1088 * n - 1 : p < L \/ p \in ones}}
            /\ made # <<>> => 1088 * Len(given) = L + 4 + j /\ \A i \in 0 .. 255 : made[i] = i

\* Byte-wise sum of two little-endian numbers of eight bytes, without the last carry.
AddBytes(x, y) ==
    LET carry[k \in 1 .. 9] == IF k = 1 THEN 0 ELSE (x[k - 1] + y[k - 1] + carry[k - 1]) \div 256
    IN  [k \in 1 .. 8 |-> (x[k] + y[k] + carry[k]) % 256]

\* Output bit i is input bit i under bit i % 128 of the block of counter
\* iv + start_chunk + i / 128, carries run through all eight bytes and wrap.
CtrFramed ==
    job.call = "ctr" /\ made # <<>> =>
        \A i \in 0 .. Len(made.out) - 1 :
            made.out[i + 1] = <<M(i), AddBytes(AddBytes(job.iv, job.start), [One64 EXCEPT ![1] = i \div 128]), i % 128>>
=============================================================================
