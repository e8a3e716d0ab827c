----------------------------- MODULE AesRounds ------------------------------
(*****************************************************************************)
(* AES-128 three times over, at real width: the Boolean circuit of           *)
(* circuits/crypto/aes128.h, and the rounds of runtime/crypto/aes.hpp on x86 *)
(* and on ARM, each with its own key schedule, run round by round beside the *)
(* definition of FIPS 197.  A byte is the set of its bits that are one; a    *)
(* block is its 16 bytes in order.                                           *)
(*****************************************************************************)
EXTENDS Integers, Sequences, SequencesExt, FiniteSets

CONSTANT Inputs        \* bound: keys and plaintexts tried, as byte numbers

VARIABLES aesRounds,           \* round
          stdAes,         \* the standard's state and round key
          aes,     \* the circuit's
          x86,         \* the runtime's, with AESENC
          neon         \* the state on ARM, where AESE adds the round key first

aesVars == <<aesRounds, stdAes, aes, x86, neon>>

Byte == SUBSET (0 .. 7)
Bytes == 0 .. 15
B(n) == {k \in 0 .. 7 : (n \div 2 ^ k) % 2 = 1}
XorBytes(a, b) == (a \ b) \cup (b \ a)
XorBlock(a, b) == [i \in Bytes |-> XorBytes(a[i], b[i])]

(***************************************************************************)
(* FIPS 197                                                                *)
(***************************************************************************)
Times2(a) == XorBytes({k + 1 : k \in a \ {7}}, IF 7 \in a THEN B(27) ELSE {})
AesTimes(a, b) ==
    LET power[k \in 0 .. 7] == IF k = 0 THEN a ELSE Times2(power[k - 1])
    IN  {n \in 0 .. 7 : Cardinality({k \in b : n \in power[k]}) % 2 = 1}
Inverse8(a) == IF a = {} THEN {} ELSE CHOOSE b \in Byte : AesTimes(a, b) = {0}
Affine(a) == {n \in 0 .. 7 : (Cardinality({k \in {0, 4, 5, 6, 7} : (n + k) % 8 \in a}) % 2 = 1) # (n \in B(99))}
\* A table, which @@ has computed once.
SBox == [a \in Byte |-> Affine(Inverse8(a))] @@ <<>>

SubBytes(s) == [i \in Bytes |-> SBox[s[i]]]
ShiftRows(s) == [i \in Bytes |-> s[(i + 4 * (i % 4)) % 16]]
MixColumns(s) ==
    [i \in Bytes |->
        LET at(k) == s[4 * (i \div 4) + ((i + k) % 4)]
        IN  XorBytes(XorBytes(AesTimes(B(2), at(0)), AesTimes(B(3), at(1))), XorBytes(at(2), at(3)))]

RECURSIVE Rcon(_)
Rcon(n) == IF n = 1 THEN B(1) ELSE Times2(Rcon(n - 1))
\* Word i of a round key is word i of the last one plus word i - 1 of this one,
\* or plus the rotated, substituted last word.
StdKey(prev, n) ==
    LET temp(k) == XorBytes(SBox[prev[12 + ((k + 1) % 4)]], IF k = 0 THEN Rcon(n) ELSE {})
        next[i \in Bytes] == XorBytes(prev[i], IF i < 4 THEN temp(i) ELSE next[i - 4])
    IN  next
StdAesRound(s, key, n) ==
    LET shifted == ShiftRows(SubBytes(s))
    IN  XorBlock(IF n = 10 THEN shifted ELSE MixColumns(shifted), key)

(***************************************************************************)
(* The circuit                                                             *)
(***************************************************************************)
\* Gate t of aes_sbox has the operands SBoxGates[t]: an earlier gate, or 200 + i
\* for U[i].  SBoxAnds are the AND gates, the others XOR.
SBoxGates ==
    <<
        <<203, 205>>, <<200, 206>>, <<200, 203>>, <<200, 205>>, <<201, 202>>, <<5, 207>>, <<6, 203>>, <<2, 1>>,
        <<6, 200>>, <<6, 206>>, <<10, 4>>, <<204, 8>>, <<12, 205>>, <<12, 201>>, <<13, 207>>, <<13, 5>>,
        <<14, 3>>, <<207, 17>>, <<16, 17>>, <<16, 4>>, <<5, 17>>, <<2, 21>>, <<200, 21>>, <<8, 13>>, <<11, 15>>,
        <<25, 24>>, <<7, 207>>, <<27, 24>>, <<2, 21>>, <<10, 6>>, <<30, 29>>, <<9, 18>>, <<32, 29>>, <<3, 17>>,
        <<1, 19>>, <<35, 34>>, <<4, 16>>, <<37, 34>>, <<26, 14>>, <<28, 38>>, <<31, 36>>, <<33, 38>>,
        <<39, 36>>, <<40, 20>>, <<41, 22>>, <<42, 23>>, <<43, 44>>, <<43, 45>>, <<46, 48>>, <<47, 49>>,
        <<50, 44>>, <<45, 46>>, <<44, 48>>, <<53, 52>>, <<54, 46>>, <<45, 55>>, <<49, 55>>, <<46, 57>>,
        <<58, 56>>, <<49, 58>>, <<51, 60>>, <<47, 61>>, <<62, 59>>, <<51, 55>>, <<51, 62>>, <<55, 59>>,
        <<64, 63>>, <<66, 13>>, <<59, 15>>, <<55, 207>>, <<65, 21>>, <<62, 6>>, <<51, 18>>, <<64, 17>>,
        <<67, 19>>, <<63, 16>>, <<66, 8>>, <<59, 11>>, <<55, 7>>, <<65, 2>>, <<62, 10>>, <<51, 9>>, <<64, 3>>,
        <<67, 1>>, <<63, 4>>, <<83, 84>>, <<78, 86>>, <<77, 87>>, <<68, 70>>, <<69, 68>>, <<71, 72>>,
        <<80, 89>>, <<75, 91>>, <<76, 92>>, <<93, 94>>, <<91, 90>>, <<71, 73>>, <<81, 86>>, <<89, 97>>,
        <<74, 93>>, <<82, 95>>, <<98, 99>>, <<83, 100>>, <<87, 79>>, <<101, 103>>>>
SBoxAnds == {24, 25, 27, 29, 30, 32, 34, 35, 37, 48, 50, 54, 58, 61} \cup (68 .. 85)

\* The last gate of each stretch of gates that do not use one another.
SBoxLayers == <<5, 6, 10, 12, 14, 17, 21, 25, 27, 30, 32, 35, 37, 39, 43, 46, 48, 49, 50, 53, 54, 55, 57, 58,
                60, 61, 62, 66, 74, 85, 86, 87, 91, 93, 94, 98, 101, 104, 105>>

AesSbox(byte) ==
    LET wire(t, o) == IF o >= 200 THEN (207 - o) \in byte ELSE t[o]
        gate(t, n) == LET a == wire(t, SBoxGates[n][1])
                          b == wire(t, SBoxGates[n][2])
                      IN  IF n \in SBoxAnds THEN a /\ b ELSE a # b
        layer(t, l) == t \o [n \in 1 .. SBoxLayers[l] - Len(t) |-> gate(t, Len(t) + n)]
        T == FoldLeft(layer, <<>>, [l \in 1 .. Len(SBoxLayers) |-> l])
        s0 == T[88] # T[100]
        s3 == T[88] # T[96]
        S == <<s0, ~(s3 # T[100]), ~(T[105] # T[85]), s3, T[99] # s3, T[104] # T[101],
               ~(T[95] # T[102]), ~(T[80] # T[102])>>
    IN  {k \in 0 .. 7 : S[8 - k]}
CircuitSBox == [byte \in Byte |-> AesSbox(byte)] @@ <<>>

AesXtime(in) ==
    LET m == 7 \in in
        out == <<m, (0 \in in) # m, 1 \in in, (2 \in in) # m, (3 \in in) # m, 4 \in in, 5 \in in, 6 \in in>>
    IN  {k \in 0 .. 7 : out[k + 1]}

\* Mutant: the words are chained on the last round key.
Aes128KeyScheduleUnchained(prev, n) ==
    LET rcon == <<1, 2, 4, 8, 16, 32, 64, 128, 27, 54>>
        tmp == [b \in 0 .. 3 |-> XorBytes(CircuitSBox[prev[12 + ((b + 1) % 4)]], IF b = 0 THEN B(rcon[n]) ELSE {})]
    IN  [i \in Bytes |-> IF i < 4 THEN XorBytes(prev[i], tmp[i]) ELSE XorBytes(prev[i - 4], prev[i])]
\* aes128_key_schedule: round key n from the one before.
Aes128KeySchedule(prev, n) ==
    LET rcon == <<1, 2, 4, 8, 16, 32, 64, 128, 27, 54>>
        tmp == [b \in 0 .. 3 |-> XorBytes(CircuitSBox[prev[12 + ((b + 1) % 4)]], IF b = 0 THEN B(rcon[n]) ELSE {})]
        word[w \in 0 .. 3] ==
            [k \in 0 .. 3 |-> XorBytes(prev[4 * w + k], IF w = 0 THEN tmp[k] ELSE word[w - 1][k])]
    IN  [i \in Bytes |-> word[i \div 4][i % 4]]

\* One column: each byte plus the sum of all four plus twice itself and the next.
MixColumn(col) ==
    LET t == XorBytes(XorBytes(col[0], col[1]), XorBytes(col[2], col[3]))
    IN  [k \in 0 .. 3 |-> XorBytes(col[k], XorBytes(t, AesXtime(XorBytes(col[k], col[(k + 1) % 4]))))]

Aes128Round(state, rk, n) ==
    LET sub == [b \in Bytes |-> CircuitSBox[state[b]]]
        shifted == [b \in Bytes |-> sub[4 * (((b \div 4) + (b % 4)) % 4) + (b % 4)]]
        mixed == [b \in Bytes |-> MixColumn([k \in 0 .. 3 |-> shifted[4 * (b \div 4) + k]])[b % 4]]
    IN  XorBlock(IF n # 10 THEN mixed ELSE shifted, rk)

(***************************************************************************)
(* The runtime                                                             *)
(***************************************************************************)
AesEncLast(s, k) == XorBlock(ShiftRows(SubBytes(s)), k)
AesEnc(s, k) == XorBlock(MixColumns(ShiftRows(SubBytes(s))), k)
AesE(s, k) == ShiftRows(SubBytes(XorBlock(s, k)))
ShuffleEpi8(a, m) == [i \in Bytes |-> IF m[i] >= 128 THEN {} ELSE a[m[i] % 16]]
SlliEpi64By32(a) == [i \in Bytes |-> IF i % 8 < 4 THEN {} ELSE a[i - 4]]
AesLanes(bytes) == [i \in Bytes |-> bytes[(i % 4) + 1]]

\* The constants of AES_opt_key_schedule: con is shifted up to 2^7, then con2.
Con(n) == AesLanes(<<B(IF n <= 8 THEN 2 ^ (n - 1) ELSE 27 * 2 ^ (n - 9)), {}, {}, {}>>)
Mask == AesLanes(<<13, 14, 15, 12>>)
Con3 == [i \in Bytes |-> IF i < 8 THEN 255 ELSE 4 + (i % 4)]

\* ks_rounds
KsRounds(key, n) ==
    LET aux == AesEncLast(ShuffleEpi8(key, Mask), Con(n))
        pairs == XorBlock(SlliEpi64By32(key), key)
    IN  XorBlock(aux, XorBlock(ShuffleEpi8(pairs, Con3), pairs))

\* The loop of aes_tiles_src.
TileRound(x, rk, n) == IF n < 10 THEN AesEnc(x, rk) ELSE AesEncLast(x, rk)

\* The ARM loop: nine AESE and AESMC under the keys up to 8, one AESE under key 9,
\* and key 10 by exclusive or.
NeonRound(x, last, rk, n) == IF n < 10 THEN MixColumns(AesE(x, last)) ELSE XorBlock(AesE(x, last), rk)

(***************************************************************************)
(* All of them, a round at a time                                          *)
(***************************************************************************)
AesStart(inputs) ==
    /\ aesRounds = 0
    /\ \E in \in inputs :
           LET key == [i \in Bytes |-> B(in.key[i + 1])]
               first == XorBlock([i \in Bytes |-> B(in.plaintext[i + 1])], key)
           IN  /\ stdAes = [state |-> first, key |-> key]
               /\ aes = [state |-> first, key |-> key]
               /\ x86 = [state |-> first, key |-> key]
               /\ neon = [i \in Bytes |-> B(in.plaintext[i + 1])]

AesRound ==
    /\ aesRounds < 10
    /\ aesRounds' = aesRounds + 1
    /\ LET key == StdKey(stdAes.key, aesRounds + 1)
       IN  stdAes' = [key |-> key, state |-> StdAesRound(stdAes.state, key, aesRounds + 1)]
    /\ LET key == Aes128KeySchedule(aes.key, aesRounds + 1)
       IN  aes' = [key |-> key, state |-> Aes128Round(aes.state, key, aesRounds + 1)]
    /\ LET key == KsRounds(x86.key, aesRounds + 1)
       IN  /\ x86' = [key |-> key, state |-> TileRound(x86.state, key, aesRounds + 1)]
           /\ neon' = NeonRound(neon, x86.key, key, aesRounds + 1)

AesInit == AesStart(Inputs)
AesSpec == AesInit /\ [][AesRound]_aesVars

(***************************************************************************)
(* Properties                                                              *)
(***************************************************************************)
\* After every round the circuit has the standard's state and round key: its
\* 105-gate S-box, the key words and the shared MixColumns sums included.
CircuitIsAes == aes = stdAes

\* The runtime's four-lane key schedule and its AESENC rounds are the standard's.
RuntimeIsAes == x86 = stdAes

\* The ARM rounds, which add each key before the round and not after it, end in
\* the block x86 ends in, and are one exclusive or behind it on the way.
NeonIsX86 == IF aesRounds < 10 THEN XorBlock(neon, x86.key) = x86.state ELSE neon = x86.state
=============================================================================
