----------------------------- MODULE HashRounds -----------------------------
(***************************************************************************)
(* sha256_compress (circuits/crypto/sha256.h) and keccak_f1600             *)
(* (circuits/crypto/keccak.h) round by round, each beside the standard it  *)
(* implements: FIPS 180-4 on sets of bits and FIPS 202 on 64-bit lanes.    *)
(***************************************************************************)
EXTENDS CircuitInts, FiniteSets, TLC

CONSTANT Blocks        \* bound: runs of 16-word blocks compressed, words as halves

VARIABLES blocks,      \* blocks still to be compressed
          sha,     \* the circuit's state, schedule W and working variables
          stdSha,         \* the standard's
          shaRounds            \* rounds done

shaVars == <<blocks, sha, stdSha, shaRounds>>

SHA256K ==
    <<
      <<\h428a, \h2f98>>, <<\h7137, \h4491>>, <<\hb5c0, \hfbcf>>, <<\he9b5, \hdba5>>, <<\h3956, \hc25b>>, <<\h59f1, \h11f1>>,
      <<\h923f, \h82a4>>, <<\hab1c, \h5ed5>>, <<\hd807, \haa98>>, <<\h1283, \h5b01>>, <<\h2431, \h85be>>, <<\h550c, \h7dc3>>,
      <<\h72be, \h5d74>>, <<\h80de, \hb1fe>>, <<\h9bdc, \h06a7>>, <<\hc19b, \hf174>>, <<\he49b, \h69c1>>, <<\hefbe, \h4786>>,
      <<\h0fc1, \h9dc6>>, <<\h240c, \ha1cc>>, <<\h2de9, \h2c6f>>, <<\h4a74, \h84aa>>, <<\h5cb0, \ha9dc>>, <<\h76f9, \h88da>>,
      <<\h983e, \h5152>>, <<\ha831, \hc66d>>, <<\hb003, \h27c8>>, <<\hbf59, \h7fc7>>, <<\hc6e0, \h0bf3>>, <<\hd5a7, \h9147>>,
      <<\h06ca, \h6351>>, <<\h1429, \h2967>>, <<\h27b7, \h0a85>>, <<\h2e1b, \h2138>>, <<\h4d2c, \h6dfc>>, <<\h5338, \h0d13>>,
      <<\h650a, \h7354>>, <<\h766a, \h0abb>>, <<\h81c2, \hc92e>>, <<\h9272, \h2c85>>, <<\ha2bf, \he8a1>>, <<\ha81a, \h664b>>,
      <<\hc24b, \h8b70>>, <<\hc76c, \h51a3>>, <<\hd192, \he819>>, <<\hd699, \h0624>>, <<\hf40e, \h3585>>, <<\h106a, \ha070>>,
      <<\h19a4, \hc116>>, <<\h1e37, \h6c08>>, <<\h2748, \h774c>>, <<\h34b0, \hbcb5>>, <<\h391c, \h0cb3>>, <<\h4ed8, \haa4a>>,
      <<\h5b9c, \hca4f>>, <<\h682e, \h6ff3>>, <<\h748f, \h82ee>>, <<\h78a5, \h636f>>, <<\h84c8, \h7814>>, <<\h8cc7, \h0208>>,
      <<\h90be, \hfffa>>, <<\ha450, \h6ceb>>, <<\hbef9, \ha3f7>>, <<\hc671, \h78f2>>>>
SHA256H0 ==
    <<
      <<\h6a09, \he667>>, <<\hbb67, \hae85>>, <<\h3c6e, \hf372>>, <<\ha54f, \hf53a>>, <<\h510e, \h527f>>, <<\h9b05, \h688c>>,
      <<\h1f83, \hd9ab>>, <<\h5be0, \hcd19>>>>

Word(c) == UConstant(16, c[2]) \o UConstant(16, c[1])

(***************************************************************************)
(* The circuit                                                             *)
(***************************************************************************)
Xor3(x, y, z) == BitXor(BitXor(x, y), z)
Ch(x, y, z) == BitXor(z, BitAnd(x, BitXor(y, z)))
Maj(x, y, z) == BitXor(BitAnd(x, y), BitAnd(z, BitXor(x, y)))
BSig0(x) == Xor3(Rotr(x, 2), Rotr(x, 13), Rotr(x, 22))
BSig1(x) == Xor3(Rotr(x, 6), Rotr(x, 11), Rotr(x, 25))
SSig0(x) == Xor3(Rotr(x, 7), Rotr(x, 18), UShr(x, 3))
SSig1(x) == Xor3(Rotr(x, 17), Rotr(x, 19), UShr(x, 10))
\* operator+, of equal widths (same_width_).
Plus(x, y) == CASE Len(x) = Len(y) -> RippleAdd(x, y)
PlusAll(words) == FoldLeft(Plus, Head(words), Tail(words))

\* W[n] for n = Len(W); the words of W are counted from 1 here.
Extend(W) ==
    LET n == Len(W) + 1
    IN  Append(W, PlusAll(<<SSig1(W[n - 2]), W[n - 7], SSig0(W[n - 15]), W[n - 16]>>))

CompressRound(v, k, w) ==
    LET T1 == PlusAll(<<v[8], BSig1(v[5]), Ch(v[5], v[6], v[7]), Word(k), w>>)
        T2 == Plus(BSig0(v[1]), Maj(v[1], v[2], v[3]))
    IN  <<Plus(T1, T2), v[1], v[2], v[3], Plus(v[4], T1), v[5], v[6], v[7]>>

FoldState(state, v) == [i \in 1 .. 8 |-> Plus(state[i], v[i])]

(***************************************************************************)
(* FIPS 180-4, sections 4.1.2 and 6.2, on the set of the bits that are one *)
(***************************************************************************)
Places == 0 .. 31
Set(wires) == {i \in Places : wires[i + 1] = 1}
SumOdd(S) == {i \in Places : Cardinality({k \in DOMAIN S : i \in S[k]}) % 2 = 1}
Carry(a, b, i) == \E j \in 0 .. i - 1 : j \in a /\ j \in b /\ \A m \in j + 1 .. i - 1 : m \in a \/ m \in b
AddMod(a, b) == {i \in Places : ((i \in a) # (i \in b)) # Carry(a, b, i)}
ROTR(n, a) == {(i - n) % 32 : i \in a}
SHR(n, a) == {i - n : i \in {j \in a : j >= n}}

StdExtend(W) ==
    LET n == Len(W) + 1
        s1 == SumOdd(<<ROTR(17, W[n - 2]), ROTR(19, W[n - 2]), SHR(10, W[n - 2])>>)
        s0 == SumOdd(<<ROTR(7, W[n - 15]), ROTR(18, W[n - 15]), SHR(3, W[n - 15])>>)
    IN  Append(W, AddMod(AddMod(s1, W[n - 7]), AddMod(s0, W[n - 16])))

StdRound(v, k, w) ==
    LET S1 == SumOdd(<<ROTR(6, v[5]), ROTR(11, v[5]), ROTR(25, v[5])>>)
        S0 == SumOdd(<<ROTR(2, v[1]), ROTR(13, v[1]), ROTR(22, v[1])>>)
        ch == (v[5] \cap v[6]) \cup (v[7] \ v[5])
        maj == (v[1] \cap v[2]) \cup (v[1] \cap v[3]) \cup (v[2] \cap v[3])
        T1 == AddMod(AddMod(AddMod(v[8], S1), AddMod(ch, Set(Word(k)))), w)
    IN  <<AddMod(T1, AddMod(S0, maj)), v[1], v[2], v[3], AddMod(v[4], T1), v[5], v[6], v[7]>>

(***************************************************************************)
(* Both, a step at a time                                                  *)
(***************************************************************************)
Load(state, block) == [state |-> state, W |-> block, v |-> state]
Sets(words) == [i \in DOMAIN words |-> Set(words[i])]
Wires(block) == [i \in 1 .. 16 |-> Word(block[i])]

ShaStart(messages) ==
    /\ blocks \in messages
    /\ LET h0 == [i \in 1 .. 8 |-> Word(SHA256H0[i])] IN
       /\ sha = Load(h0, Wires(Head(blocks)))
       /\ stdSha = Load(Sets(h0), Sets(Wires(Head(blocks))))
    /\ shaRounds = 0

Schedule ==
    /\ blocks # <<>> /\ Len(sha.W) < 64
    /\ sha' = [sha EXCEPT !.W = Extend(sha.W)]
    /\ stdSha' = [stdSha EXCEPT !.W = StdExtend(stdSha.W)]
    /\ UNCHANGED <<blocks, shaRounds>>

ShaRound ==
    /\ blocks # <<>> /\ Len(sha.W) = 64 /\ shaRounds < 64
    /\ sha' = [sha EXCEPT !.v = CompressRound(sha.v, SHA256K[shaRounds + 1], sha.W[shaRounds + 1])]
    /\ stdSha' = [stdSha EXCEPT !.v = StdRound(stdSha.v, SHA256K[shaRounds + 1], stdSha.W[shaRounds + 1])]
    /\ shaRounds' = shaRounds + 1
    /\ UNCHANGED blocks

\* The end of a block, and the next one loaded.
EndBlock ==
    /\ blocks # <<>> /\ shaRounds = 64
    /\ blocks' = Tail(blocks)
    /\ shaRounds' = 0
    /\ LET next == IF Len(blocks) > 1 THEN Wires(blocks[2]) ELSE <<>> IN
       /\ sha' = Load(FoldState(sha.state, sha.v), next)
       /\ stdSha' = Load([i \in 1 .. 8 |-> AddMod(stdSha.state[i], stdSha.v[i])], Sets(next))

ShaNext == Schedule \/ ShaRound \/ EndBlock

ShaInit == ShaStart(Blocks)
ShaSpec == ShaInit /\ [][ShaNext]_shaVars

(***************************************************************************)
(* The roots behind the constants, on bytes, lowest first                  *)
(***************************************************************************)
PrimeSet == {p \in 2 .. 311 : \A d \in 2 .. 17 : d < p => p % d # 0}
Prime(n) == CHOOSE p \in PrimeSet : Cardinality({q \in PrimeSet : q < p}) = n
Normal(x) ==
    FoldLeft(LAMBDA r, i : [byte |-> Append(r.byte, (x[i] + r.carry) % 256), carry |-> (x[i] + r.carry) \div 256],
             [byte |-> <<>>, carry |-> 0], Indices(Len(x))).byte
Times(x, y) ==
    Normal([i \in 1 .. 14 |->
        FoldLeft(LAMBDA s, j : s + (IF j <= i /\ j <= Len(x) /\ i + 1 - j <= Len(y) THEN x[j] * y[i + 1 - j] ELSE 0),
                 0, Indices(i))])
Power(x, e) == IF e = 2 THEN Times(x, x) ELSE Times(Times(x, x), x)
\* What is left of x^e when the 32 fraction bits of each factor are cut off.
Whole(x, e) == Power(x, e)[4 * e + 1] + 256 * Power(x, e)[4 * e + 2]
\* c is the first 32 bits of the fraction of the root of p.
IsRoot(c, p, e) ==
    LET int == CHOOSE n \in 1 .. p : n ^ e < p /\ (n + 1) ^ e > p
        x == <<c[2] % 256, c[2] \div 256, c[1] % 256, c[1] \div 256, int>>
    IN  Whole(x, e) < p /\ Whole(Normal([x EXCEPT ![1] = @ + 1]), e) >= p

(***************************************************************************)
(* Properties                                                              *)
(***************************************************************************)
\* After every schedule word, round and block the wires carry the words of the
\* standard: the gate-saving Ch and Maj and the ripple-carry sums included.
CircuitIsSha256 == stdSha = [state |-> Sets(sha.state), W |-> Sets(sha.W), v |-> Sets(sha.v)]

\* The constant of every round is the fraction of the cube root of its prime, and
\* the initial state the fractions of the square roots of the first eight.
ConstantsAreRoots ==
    /\ IsRoot(SHA256K[(shaRounds % 64) + 1], Prime(shaRounds % 64), 3)
    /\ IsRoot(SHA256H0[(shaRounds % 8) + 1], Prime(shaRounds % 8), 2)

(***************************************************************************)
(* keccak_f1600                                                            *)
(***************************************************************************)
CONSTANT States        \* bound: states permuted, as sets of bit numbers

VARIABLES keccak,          \* the lanes
          stdKeccak,         \* the standard's state, and its shift register for iota
          keccakRounds            \* rounds done

keccakVars == <<keccak, stdKeccak, keccakRounds>>

KECCAKRHO == <<<<0, 1, 62, 28, 27>>, <<36, 44, 6, 55, 20>>, <<3, 10, 43, 25, 39>>, <<41, 45, 15, 21, 8>>,
               <<18, 2, 61, 56, 14>>>>
\* The bits of each round constant.
KECCAKRC ==
    <<{0}, {1, 7, 15}, {1, 3, 7, 15, 63}, {15, 31, 63}, {0, 1, 3, 7, 15}, {0, 31}, {0, 7, 15, 31, 63},
      {0, 3, 15, 63}, {1, 3, 7}, {3, 7}, {0, 3, 15, 31}, {1, 3, 31}, {0, 1, 3, 7, 15, 31}, {0, 1, 3, 7, 63},
      {0, 3, 7, 15, 63}, {0, 1, 15, 63}, {1, 15, 63}, {7, 63}, {1, 3, 15}, {1, 3, 31, 63},
      {0, 7, 15, 31, 63}, {7, 15, 63}, {0, 31}, {3, 15, 31, 63}>>

Five == 0 .. 4
KeccakLanes == 0 .. 24
KeccakLane(x, y) == 5 * y + x
XorLanes(a, b) == (a \ b) \cup (b \ a)
RotlLane(a, n) == {(z + n) % 64 : z \in a}

(***************************************************************************)
(* The circuit                                                             *)
(***************************************************************************)
Theta(L) ==
    LET C == [x \in Five |-> XorLanes(XorLanes(XorLanes(XorLanes(L[KeccakLane(x, 0)], L[KeccakLane(x, 1)]), L[KeccakLane(x, 2)]),
                                     L[KeccakLane(x, 3)]), L[KeccakLane(x, 4)])]
        D == [x \in Five |-> XorLanes(C[(x + 4) % 5], RotlLane(C[(x + 1) % 5], 1))]
    IN  [i \in KeccakLanes |-> XorLanes(L[i], D[i % 5])]

\* B[lane(y, 2x + 3y)] is lane (x, y) rotated.
RhoPi(L) ==
    [i \in KeccakLanes |->
        LET from == CHOOSE p \in Five \X Five : i = KeccakLane(p[2], (2 * p[1] + 3 * p[2]) % 5)
        IN  RotlLane(L[KeccakLane(from[1], from[2])], KECCAKRHO[from[2] + 1][from[1] + 1])]

Chi(L) ==
    [i \in KeccakLanes |->
        LET row(k) == L[KeccakLane((i + k) % 5, i \div 5)]
        IN  XorLanes(row(0), ((0 .. 63) \ row(1)) \cap row(2))]

Iota(L, n) == [L EXCEPT ![0] = XorLanes(L[0], KECCAKRC[n + 1])]

KeccakRound(L, n) == Iota(Chi(RhoPi(Theta(L))), n)

(***************************************************************************)
(* FIPS 202, section 3.2                                                   *)
(***************************************************************************)
Each(F(_, _, _)) == [x \in Five |-> [y \in Five |-> [z \in 0 .. 63 |-> F(x, y, z)]]]
Parity(S, x, z) == Cardinality({y \in Five : S[x % 5][y][z % 64]}) % 2
StdTheta(S) == Each(LAMBDA x, y, z : S[x][y][z] # (Parity(S, x + 4, z) # Parity(S, x + 1, z + 63)))

\* The t-th lane on the walk from (1, 0) is rotated by the t-th triangular number.
Walk[n \in 0 .. 23] == IF n = 0 THEN <<1, 0>> ELSE LET p == Walk[n - 1] IN <<p[2], (2 * p[1] + 3 * p[2]) % 5>>
Offset == [p \in Five \X Five |->
              IF p = <<0, 0>> THEN 0
              ELSE LET n == CHOOSE n \in 0 .. 23 : Walk[n] = p IN (((n + 1) * (n + 2)) \div 2) % 64] @@ <<>>
StdRho(S) == Each(LAMBDA x, y, z : S[x][y][(z + 64 - Offset[<<x, y>>]) % 64])
StdPi(S) == Each(LAMBDA x, y, z : S[(x + 3 * y) % 5][x][z])
StdChi(S) == Each(LAMBDA x, y, z : S[x][y][z] # (~S[(x + 1) % 5][y][z] /\ S[(x + 2) % 5][y][z]))

\* Bit 2^j - 1 of a round constant is the shift register's output j steps on.
Step(R) ==
    LET S == {i + 1 : i \in R}
    IN  XorLanes(S, IF 8 \in S THEN {0, 4, 5, 6} ELSE {}) \cap (0 .. 7)
Steps(R) == LET after[j \in 0 .. 7] == IF j = 0 THEN R ELSE Step(after[j - 1]) IN after
StdIota(S, R) ==
    LET steps == Steps(R)
        RC == {2 ^ j - 1 : j \in {k \in 0 .. 6 : 0 \in steps[k]}}
    IN  Each(LAMBDA x, y, z : S[x][y][z] # (x = 0 /\ y = 0 /\ z \in RC))

(***************************************************************************)
(* Both, a round at a time                                                 *)
(***************************************************************************)
KeccakStart(states) ==
    /\ \E S \in states :
           /\ keccak = [i \in KeccakLanes |-> {z \in 0 .. 63 : 64 * i + z \in S}]
           /\ stdKeccak = [state |-> Each(LAMBDA x, y, z : 64 * KeccakLane(x, y) + z \in S), register |-> {0}]
    /\ keccakRounds = 0

KeccakStep ==
    /\ keccakRounds < 24
    /\ keccak' = KeccakRound(keccak, keccakRounds)
    /\ stdKeccak' = [state |-> StdIota(StdChi(StdPi(StdRho(StdTheta(stdKeccak.state)))), stdKeccak.register),
               register |-> Steps(stdKeccak.register)[7]]
    /\ keccakRounds' = keccakRounds + 1

KeccakInit == KeccakStart(States)
KeccakSpec == KeccakInit /\ [][KeccakStep]_keccakVars

(***************************************************************************)
(* Properties                                                              *)
(***************************************************************************)
\* After every round the lanes hold the bits of the standard's state, with the
\* rotations and round constants of the tables against those the standard derives.
CircuitIsKeccak == \A i \in KeccakLanes : keccak[i] = {z \in 0 .. 63 : stdKeccak.state[i % 5][i \div 5][z]}
=============================================================================
