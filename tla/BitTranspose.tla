---------------------------- MODULE BitTranspose ----------------------------
(****************************************************************************)
(* The bit-matrix transposes of runtime/core/transpose.hpp, at their real   *)
(* register widths.  The bit in row r and column c of the input is the      *)
(* number r * ncols + c, a byte is a function of its 8 bits, and a register *)
(* is a function of its bytes, so a kernel is followed as a permutation.    *)
(* Each step is one unit of a kernel's loops; out is what it has stored.    *)
(****************************************************************************)
EXTENDS Integers, FiniteSets

CONSTANTS RowCounts, ColCounts,   \* dimensions given to sse_trans
          RowBlocks               \* 128-bit blocks per row given to sse_trans_n128

VARIABLES shape,       \* the kernel, nrows and ncols
          rr, cc,    \* the loop counters: row, and column (sse_trans) or block
          out        \* stored bytes, by address

transVars == <<shape, rr, cc, out>>

Kernels128 == {"sse2", "avx2", "avx512bw", "gfni512", "gfni256", "neon"}

Shapes ==
    [kernel : {"generic"}, nrows : RowCounts, ncols : ColCounts]
    \cup [kernel : Kernels128, nrows : {128}, ncols : {128 * b : b \in RowBlocks}]

TransStart(shapes) ==
    /\ shape \in shapes
    /\ rr = 0 /\ cc = 0
    /\ out = {}

\* Memory: n bytes of row r from byte k on; stores of registers and of 16-bit masks.
LoadRows(r, k, n) == [p \in 0 .. n - 1 |-> [i \in 0 .. 7 |-> r * shape.ncols + 8 * (k + p) + i]]
Store(addr, x) == {<<addr + p, x[p]>> : p \in DOMAIN x}
StoreU16(addr, bits) == Store(addr, [p \in 0 .. 1 |-> [i \in 0 .. 7 |-> bits[8 * p + i]]])

\* _mm*_unpack{lo,hi}_epi<8w>, vzip{1,2}q: within each 128-bit lane.
Unpack(a, b, w, hi) ==
    [p \in DOMAIN a |-> LET e == (p % 16) \div w
                        IN  (IF (e % 2) = 0 THEN a ELSE b)[16 * (p \div 16) + 8 * hi + (e \div 2) * w + (p % w)]]
\* _mm*_movemask_epi8 after s shifts of the 64-bit lanes to the left.
MoveMask(x, s) == [p \in DOMAIN x |-> x[p][7 - s]]

\* The 16x16 byte transpose in each lane: rounds of unpacks of 1, 2, 4 and 8 bytes.
TransBytes(m) ==
    LET t == [x \in 0 .. 15 |-> Unpack(m[x - (x % 2)], m[x - (x % 2) + 1], 1, (x % 2))]
        u == [x \in 0 .. 15 |-> LET b == 4 * (x \div 4) + (x % 4) \div 2 IN Unpack(t[b], t[b + 2], 2, (x % 2))]
        v == [x \in 0 .. 15 |-> LET b == 8 * (x \div 8) + (x % 8) \div 2 IN Unpack(u[b], u[b + 4], 4, (x % 2))]
    IN  [x \in 0 .. 15 |-> Unpack(v[x \div 2], v[x \div 2 + 8], 8, (x % 2))]

\* 16 rows from row r and lanes * 16 bytes from byte k: transpose the bytes, peel the bits.
TileOf(r, k, lanes) ==
    LET m == TransBytes([y \in 0 .. 15 |-> LoadRows(r + y, k, 16 * lanes)])
        stride == shape.nrows \div 8
    IN  UNION {LET mask == MoveMask(m[j], 7 - b)
                   cc8 == (k + 16 * l + j) * 8
               IN  StoreU16((cc8 + b) * stride + r \div 8, [p \in 0 .. 15 |-> mask[16 * l + p]])
               : l \in 0 .. lanes - 1, j \in 0 .. 15, b \in 0 .. 7}

\* sse_trans with nrows % 16 = 0 and ncols % 128 = 0.
FastPath ==
    /\ shape.kernel = "generic" /\ (shape.nrows % 16) = 0 /\ (shape.ncols % 128) = 0
    /\ rr < shape.nrows
    /\ out' = out \cup TileOf(rr, cc \div 8, 1)
    /\ IF cc + 128 < shape.ncols THEN cc' = cc + 128 /\ UNCHANGED rr ELSE cc' = 0 /\ rr' = rr + 16
    /\ UNCHANGED shape

General == shape.kernel = "generic" /\ ((shape.nrows % 16) # 0 \/ (shape.ncols % 128) # 0)
OutAddr(r, c) == c * (shape.nrows \div 8) + r \div 8

\* The main body: 16x8 blocks.
Block16x8 ==
    /\ General /\ rr + 16 <= shape.nrows
    /\ LET vec == [y \in 0 .. 15 |-> LoadRows(rr + y, cc \div 8, 1)[0]]
       IN  out' = out \cup UNION {StoreU16(OutAddr(rr, cc + i), MoveMask(vec, 7 - i)) : i \in 0 .. 7}
    /\ IF cc + 8 < shape.ncols THEN cc' = cc + 8 /\ UNCHANGED rr ELSE cc' = 0 /\ rr' = rr + 16
    /\ UNCHANGED shape

\* The last 8 rows, 16 columns at a time.  (Then nrows % 16 # 0, and the second
\* form of this loop in the code is not reached.)
Pair8x16 ==
    /\ General /\ rr + 8 = shape.nrows /\ cc + 16 <= shape.ncols
    /\ LET tmp == [y \in 0 .. 15 |-> LoadRows(rr + (y % 8), cc \div 8 + y \div 8, 1)[0]]
           h(i) == MoveMask(tmp, 7 - i)
       IN  out' = out \cup UNION {Store(OutAddr(rr, cc + i), [p \in {0} |-> [b \in 0 .. 7 |-> h(i)[b]]])
                                  \cup Store(OutAddr(rr, cc + i + 8), [p \in {0} |-> [b \in 0 .. 7 |-> h(i)[8 + b]]]) : i \in 0 .. 7}
    /\ cc' = cc + 16
    /\ UNCHANGED <<shape, rr>>

\* The last 8x8 block; the upper half of tmp is stale or was never set.
Last8x8 ==
    /\ General /\ rr + 8 = shape.nrows /\ cc + 8 = shape.ncols
    /\ LET tmp == [y \in 0 .. 15 |-> IF y < 8 THEN LoadRows(rr + y, cc \div 8, 1)[0] ELSE [i \in 0 .. 7 |-> -1]]
       IN  out' = out \cup UNION {Store(OutAddr(rr, cc + i), [p \in {0} |-> [b \in 0 .. 7 |-> MoveMask(tmp, 7 - i)[b]]]) : i \in 0 .. 7}
    /\ cc' = cc + 8
    /\ UNCHANGED <<shape, rr>>

Bpr == shape.ncols \div 128

\* A kernel of n lanes: tiles of n blocks, then single ones.
UnpackTier(kernel, n) ==
    /\ shape.kernel = kernel /\ rr < 128 /\ cc < Bpr
    /\ LET wide == cc + n <= Bpr
           next == IF wide THEN cc + n ELSE cc + 1
       IN  /\ out' = out \cup TileOf(rr, 16 * cc, IF wide THEN n ELSE 1)
           /\ IF next < Bpr THEN cc' = next /\ UNCHANGED rr ELSE cc' = 0 /\ rr' = rr + 16
    /\ UNCHANGED shape
Sse2 == UnpackTier("sse2", 1)
Avx2 == UnpackTier("avx2", 2)
Avx512bw == UnpackTier("avx512bw", 4)

(***************************************************************************)
(* GFNI with 512-bit registers                                             *)
(***************************************************************************)
\* vgf2p8affineqb with the data as matrix and the identity as operand.
Gf2p8Affine(x) == [p \in DOMAIN x |-> [i \in 0 .. 7 |-> x[8 * (p \div 8) + 7 - i][(p % 8)]]]
Permutex2Var(a, idx, b) == [p \in 0 .. 63 |-> IF idx[p] >= 64 THEN b[idx[p] - 64] ELSE a[idx[p]]]
ShuffleI64x2(a, b, odd) ==
    [p \in 0 .. 63 |-> LET l == p \div 16 IN (IF l < 2 THEN a ELSE b)[16 * (2 * (l % 2) + odd) + (p % 16)]]

\* make_patterns
PatA == [x \in 0 .. 63 |-> (7 - (x % 8)) * 16 + x \div 8]
PatB == [x \in 0 .. 63 |-> (7 - (x % 8)) * 16 + 8 + x \div 8]
P0 == [x \in 0 .. 63 |-> (IF (x % 16) >= 8 THEN 64 ELSE 0) + 8 * (x % 8) + x \div 16]
P1 == [x \in 0 .. 63 |-> (IF (x % 16) >= 8 THEN 64 ELSE 0) + 8 * (x % 8) + x \div 16 + 4]

\* gfni_trans_qword8
QwordPerm == <<0, 2, 1, 3, 4, 6, 5, 7>>     \* its own inverse
TransQword8(R) ==
    LET t0 == [x \in 0 .. 7 |-> Unpack(R[x - (x % 2)], R[x - (x % 2) + 1], 8, (x % 2))]
        t1 == [x \in 0 .. 7 |-> LET b == 4 * (x \div 4) + (x % 4) \div 2 IN ShuffleI64x2(t0[b], t0[b + 2], (x % 2))]
        F == [x \in 0 .. 7 |-> ShuffleI64x2(t1[(x % 4)], t1[(x % 4) + 4], x \div 4)]
    IN  [x \in 0 .. 7 |-> F[QwordPerm[x + 1]]]

\* Block column t: gather and transpose the 8x8 blocks of each slab of 8 rows, then
\* gfni_trans_emit_tile.
Gfni512Tile(t) ==
    LET rows(s, h) == [p \in 0 .. 63 |-> LoadRows(8 * s + 4 * h + p \div 16, 16 * t, 16)[(p % 16)]]
        A(s) == Gf2p8Affine(Permutex2Var(rows(s, 0), PatA, rows(s, 1)))
        Bq(s) == Gf2p8Affine(Permutex2Var(rows(s, 0), PatB, rows(s, 1)))
        a0 == TransQword8([s \in 0 .. 7 |-> A(s)])
        a1 == TransQword8([s \in 0 .. 7 |-> A(8 + s)])
        b0 == TransQword8([s \in 0 .. 7 |-> Bq(s)])
        b1 == TransQword8([s \in 0 .. 7 |-> Bq(8 + s)])
        dst == t * 128 * 16
    IN  UNION {Store(dst + 8 * u * 16, Permutex2Var(a0[u], P0, a1[u]))
               \cup Store(dst + (8 * u + 4) * 16, Permutex2Var(a0[u], P1, a1[u]))
               \cup Store(dst + 8 * (u + 8) * 16, Permutex2Var(b0[u], P0, b1[u]))
               \cup Store(dst + (8 * (u + 8) + 4) * 16, Permutex2Var(b0[u], P1, b1[u])) : u \in 0 .. 7}

\* Two tiles off one set of row loads, then the odd one.
Gfni512 ==
    /\ shape.kernel = "gfni512" /\ cc < Bpr
    /\ IF cc + 2 <= Bpr THEN out' = out \cup Gfni512Tile(cc) \cup Gfni512Tile(cc + 1) /\ cc' = cc + 2
       ELSE out' = out \cup Gfni512Tile(cc) /\ cc' = cc + 1
    /\ UNCHANGED <<shape, rr>>

(***************************************************************************)
(* Two passes through a stage: GFNI with 256-bit registers, and NEON       *)
(***************************************************************************)
\* Pass 1: 8 rows into byte columns, two 8x8 blocks to a lane.
ZipTree(r) ==
    LET a == [x \in 0 .. 7 |-> Unpack(r[2 * (x % 4)], r[2 * (x % 4) + 1], 1, x \div 4)]
        b == [x \in 0 .. 7 |-> LET y == <<0, 4, 2, 6>>[x \div 2 + 1] IN Unpack(a[y], a[y + 1], 2, (x % 2))]
    IN  [x \in 0 .. 7 |-> Unpack(b[x \div 2], b[x \div 2 + 4], 4, (x % 2))]

\* The delta swaps of bit_transpose8x8_x2 on a 64-bit word of bits; a bit is the set
\* of the bits it is the exclusive or of.
XorBits(S, T) == (S \ T) \cup (T \ S)
DeltaSwap(x, mask, d) ==
    LET t(n) == IF n \in mask THEN XorBits(x[n], IF n + d <= 63 THEN x[n + d] ELSE {}) ELSE {}
    IN  [n \in 0 .. 63 |-> XorBits(XorBits(x[n], t(n)), IF n >= d THEN t(n - d) ELSE {})]
MaskA == {n \in 0 .. 63 : (n \div 8) % 2 = 0 /\ (n % 2) = 1}                      \* 0x00AA00AA00AA00AA
MaskC == {n \in 0 .. 63 : (n \div 8) % 4 < 2 /\ (n % 8) \in {2, 3, 6, 7}}       \* 0x0000CCCC0000CCCC
MaskF == {n \in 0 .. 63 : n \div 8 < 4 /\ (n % 8) >= 4}                           \* 0x00000000F0F0F0F0
Swapped1 == DeltaSwap([n \in 0 .. 63 |-> {n}], MaskA, 7)
Swapped2 == DeltaSwap(Swapped1, MaskC, 14)
Swapped3 == DeltaSwap(Swapped2, MaskF, 28)
BitTranspose8x8 ==
    [n \in 0 .. 63 |-> IF Cardinality(Swapped3[n]) = 1 THEN CHOOSE m \in Swapped3[n] : TRUE ELSE -1]
DeltaSwaps(x) ==
    [p \in DOMAIN x |-> [i \in 0 .. 7 |-> LET m == BitTranspose8x8[8 * (p % 8) + i]
                                          IN  x[8 * (p \div 8) + m \div 8][(m % 8)]]]

\* Mutant: the rows go in unreversed.
Gfni256TilesUnreversed(t) ==
    LET stage == [s \in 0 .. 15 |-> LET q == ZipTree([x \in 0 .. 7 |-> LoadRows(8 * s + x, 16 * t, 32)])
                                    IN  [i \in 0 .. 7 |-> Gf2p8Affine(q[i])]]
    IN  UNION {LET m == TransBytes([s \in 0 .. 15 |-> stage[s][i]])[x]
                   half(l) == [p \in 0 .. 15 |-> m[16 * l + p]]
               IN  Store(t * 128 * 16 + (16 * i + x) * 16, half(0))
                   \cup Store((t + 1) * 128 * 16 + (16 * i + x) * 16, half(1)) : i \in 0 .. 7, x \in 0 .. 15}
\* Block columns t and t + 1, one to a lane; rows are loaded in reverse.
Gfni256Tiles(t) ==
    LET stage == [s \in 0 .. 15 |-> LET q == ZipTree([x \in 0 .. 7 |-> LoadRows(8 * s + 7 - x, 16 * t, 32)])
                                    IN  [i \in 0 .. 7 |-> Gf2p8Affine(q[i])]]
    IN  UNION {LET m == TransBytes([s \in 0 .. 15 |-> stage[s][i]])[x]
                   half(l) == [p \in 0 .. 15 |-> m[16 * l + p]]
               IN  Store(t * 128 * 16 + (16 * i + x) * 16, half(0))
                   \cup Store((t + 1) * 128 * 16 + (16 * i + x) * 16, half(1)) : i \in 0 .. 7, x \in 0 .. 15}
Gfni256 ==
    /\ shape.kernel = "gfni256" /\ cc < Bpr
    /\ IF cc + 2 <= Bpr THEN out' = out \cup Gfni256Tiles(cc) /\ cc' = cc + 2
       ELSE out' = out \cup UNION {TileOf(16 * i, 16 * cc, 1) : i \in 0 .. 7} /\ cc' = cc + 1
    /\ UNCHANGED <<shape, rr>>

NeonTile(t) ==
    LET stage == [s \in 0 .. 15 |-> LET q == ZipTree([x \in 0 .. 7 |-> LoadRows(8 * s + x, 16 * t, 16)])
                                    IN  [i \in 0 .. 7 |-> DeltaSwaps(q[i])]]
    IN  UNION {Store(t * 128 * 16 + (16 * i + x) * 16, TransBytes([s \in 0 .. 15 |-> stage[s][i]])[x])
               : i \in 0 .. 7, x \in 0 .. 15}
Neon ==
    /\ shape.kernel = "neon" /\ cc < Bpr
    /\ out' = out \cup NeonTile(cc)
    /\ cc' = cc + 1
    /\ UNCHANGED <<shape, rr>>

TransNext == FastPath \/ Block16x8 \/ Pair8x16 \/ Last8x8 \/ Sse2 \/ Avx2 \/ Avx512bw \/ Gfni512 \/ Gfni256 \/ Neon

TransInit == TransStart(Shapes)
TransSpec == TransInit /\ [][TransNext]_transVars

(***************************************************************************)
(* Properties                                                              *)
(***************************************************************************)
\* Every byte a kernel stores is right: bit r of output row c is bit c of input row
\* r, in every unit of every tier, tails and remainders included, and nothing that
\* was not loaded is stored.
StoresTransposed ==
    \A w \in out :
        LET c == w[1] \div (shape.nrows \div 8)
            r == 8 * (w[1] % (shape.nrows \div 8))
        IN  \A i \in 0 .. 7 : w[2][i] = (r + i) * shape.ncols + c

\* A kernel that has come to an end has stored every byte of the output, and no
\* address outside it.
WholeOutput ==
    ~ENABLED TransNext => {w[1] : w \in out} = 0 .. shape.nrows * (shape.ncols \div 8) - 1
=============================================================================
