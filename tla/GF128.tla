------------------------------- MODULE GF128 --------------------------------
(*****************************************************************************)
(* runtime/crypto/f2k.hpp: arithmetic of GF(2^128) by carryless products and *)
(* 32-bit lane shifts.  A block is the set of its bits that are one, at real *)
(* width, so exclusive or is symmetric difference.  Every routine is linear  *)
(* in each block, so single bits and sums of two stand for all blocks.       *)
(*****************************************************************************)
EXTENDS Integers, FiniteSets

CONSTANTS MaxSize,       \* bound: elements of a vector
          PackBits       \* bound: bits of a packed block tried

VARIABLES gfCall, res

gfVars == <<gfCall, res>>

XorSets(S, T) == (S \ T) \cup (T \ S)
XorAll(f) == {n \in UNION {f[i] : i \in DOMAIN f} : Cardinality({i \in DOMAIN f : n \in f[i]}) % 2 = 1}

\* Shifts of 32-bit and 64-bit lanes by bits, and of the register by bytes.
Slli(S, w, k) == {x + k : x \in {y \in S : (y % w) + k < w}}
Srli(S, w, k) == {x - k : x \in {y \in S : (y % w) >= k}}
SlliSi128(S, bytes) == {x + 8 * bytes : x \in S} \cap (0 .. 127)
SrliSi128(S, bytes) == {x - 8 * bytes : x \in S} \cap (0 .. 127)

\* Carryless product; clmul of the chosen 64-bit halves.
Product(A, B) == {n \in {a + b : a \in A, b \in B} : Cardinality({a \in A : n - a \in B}) % 2 = 1}
Half(S, h) == {x - 64 * h : x \in S \cap (64 * h .. 64 * h + 63)}
Clmul(a, b, ha, hb) == Product(Half(a, ha), Half(b, hb))

Mul128(a, b) ==
    LET mid == XorSets(Clmul(a, b, 0, 1), Clmul(a, b, 1, 0))
    IN  [lo |-> XorSets(Clmul(a, b, 0, 0), SlliSi128(mid, 8)),
         hi |-> XorSets(Clmul(a, b, 1, 1), SrliSi128(mid, 8))]

\* reduce_reflect: shift the product left by one, then fold the low half.
ReduceReflect(p) ==
    LET c3 == Srli(p.lo, 32, 31)
        c6 == Srli(p.hi, 32, 31)
        lo == Slli(p.lo, 32, 1) \cup SlliSi128(c3, 4)
        hi == Slli(p.hi, 32, 1) \cup SlliSi128(c6, 4) \cup SrliSi128(c3, 12)
        t7 == XorAll(<<Slli(lo, 32, 31), Slli(lo, 32, 30), Slli(lo, 32, 25)>>)
        t3 == XorSets(lo, SlliSi128(t7, 12))
        t2 == XorAll(<<Srli(t3, 32, 1), Srli(t3, 32, 2), Srli(t3, 32, 7), SrliSi128(t7, 4)>>)
    IN  XorSets(hi, XorSets(t3, t2))

\* reduce: the shuffle by 147 turns the lanes up by one.
Reduce(p) ==
    LET t7 == XorAll(<<Srli(p.hi, 32, 31), Srli(p.hi, 32, 30), Srli(p.hi, 32, 25)>>)
        t8 == {(x + 32) % 128 : x \in t7}
        t3 == XorSets(p.lo, t8 \ (0 .. 31))
        t6 == XorSets(p.hi, t8 \cap (0 .. 31))
    IN  XorAll(<<t3, Slli(t6, 32, 1), Slli(t6, 32, 2), Slli(t6, 32, 7), t6>>)

Gfmul(a, b) == Reduce(Mul128(a, b))
GfmulReflect(a, b) == ReduceReflect(Mul128(a, b))

\* inn_prdt_drain_lanes: chunks of n from acc.i on, each lane summed, then folded.
Drain(acc, a, b, sz, n) ==
    LET rounds == (sz - acc.i) \div n
        part(l, ha, hb) == XorAll([t \in 0 .. rounds - 1 |-> Clmul(a[acc.i + n * t + l], b[acc.i + n * t + l], ha, hb)])
        mid(l) == XorSets(part(l, 0, 1), part(l, 1, 0))
    IN  [i |-> acc.i + n * rounds,
         lo |-> XorSets(acc.lo, XorAll([l \in 0 .. n - 1 |-> XorSets(part(l, 0, 0), SlliSi128(mid(l), 8))])),
         hi |-> XorSets(acc.hi, XorAll([l \in 0 .. n - 1 |-> XorSets(part(l, 1, 1), SrliSi128(mid(l), 8))]))]
\* vector_inn_prdt_sum_no_red and _red in a build whose widest lane is tier.
InnPrdtSumNoRed(a, b, sz, tier) ==
    LET empty == [i |-> 0, lo |-> {}, hi |-> {}]
        four == IF tier >= 4 THEN Drain(empty, a, b, sz, 4) ELSE empty
        two == IF tier >= 2 THEN Drain(four, a, b, sz, 2) ELSE four
    IN  Drain(two, a, b, sz, 1)
InnPrdtSumRed(a, b, sz, tier) == Reduce(InnPrdtSumNoRed(a, b, sz, tier))

\* The sum with bits: four accumulators, the rest into the first.
InnPrdtSumBits(a, b, sz) ==
    LET full == 4 * (sz \div 4)
        lane(j) == {i \in 0 .. full - 1 : i % 4 = j} \cup (IF j = 0 THEN full .. sz - 1 ELSE {})
        sum(j) == XorAll([i \in lane(j) |-> IF b[i] # 0 THEN a[i] ELSE {}])
    IN  XorSets(XorSets(sum(0), sum(1)), XorSets(sum(2), sum(3)))
\* vector_self_xor: the rest goes round the accumulators.
VectorSelfXor(a, sz) ==
    LET full == 4 * (sz \div 4)
        sum(j) == XorAll([i \in {k \in 0 .. full - 1 : k % 4 = j} \cup ({full + j} \cap (0 .. sz - 1)) |-> a[i]])
    IN  XorSets(XorSets(sum(0), sum(1)), XorSets(sum(2), sum(3)))

\* uni_hash_coeff_gen, by the power of the seed each entry holds (gfmul adds
\* powers; -1 is an entry never written): the first four one by one, batches of
\* four by the fourth power, and the remainder from the entry before.
UniHashCoeffGen(sz) ==
    LET e[i \in 0 .. sz - 1] == IF i = 0 THEN 1 ELSE IF i < 4 THEN e[i - 1] + e[0]
                                ELSE IF 4 * (i \div 4) < sz - 3 THEN e[i - 4] + e[3]
                                ELSE IF i >= sz - (sz % 4) THEN e[i - 1] + e[0]
                                ELSE -1
    IN  e

\* Blocks 8 * off to 8 * off + 7, each shifted by its place, and the group by off bytes.
PackShift(lo, hi, off) ==
    IF off = 0 THEN [lo |-> lo, hi |-> hi]
    ELSE [lo |-> SlliSi128(lo, off), hi |-> XorSets(SrliSi128(lo, 16 - off), SlliSi128(hi, off))]
\* gf_pack_byte: the first block has no carry.
GfPackByte(data, off) ==
    LET d(j) == data[8 * off + j]
        carry(j) == IF j = 0 THEN {} ELSE Srli(d(j), 64, 64 - j)
    IN  PackShift(XorAll([j \in 0 .. 7 |-> XorSets(Slli(d(j), 64, j), SlliSi128(carry(j), 8))]),
                  XorAll([j \in 0 .. 7 |-> SrliSi128(carry(j), 8)]), off)
\* gf_pack_group_avx512, _avx2, lane l of n: variable shifts, 64 - j with j = 0 giving 0.
GfPackGroup(data, off, n, l) ==
    LET J == {j \in 0 .. 7 : j % n = l}
        d(j) == data[8 * off + j]
        carry(j) == Srli(d(j), 64, 64 - j)
    IN  PackShift(XorAll([j \in J |-> XorSets(Slli(d(j), 64, j), SlliSi128(carry(j), 8))]),
                  XorAll([j \in J |-> SrliSi128(carry(j), 8)]), off)

\* GaloisFieldPacking::packing with n lanes: accumulate per lane, fold, reduce.
PackingWide(data, n) ==
    LET acc(l) == [off \in 0 .. 15 |-> GfPackGroup(data, off, n, l)]
    IN  Reduce([lo |-> XorAll([l \in 0 .. n - 1 |-> XorAll([o \in 0 .. 15 |-> acc(l)[o].lo])]),
                hi |-> XorAll([l \in 0 .. n - 1 |-> XorAll([o \in 0 .. 15 |-> acc(l)[o].hi])])])
PackingAvx512(data) == PackingWide(data, 4)
PackingAvx2(data) == PackingWide(data, 2)
PackingPlain(data) ==
    LET acc == [off \in 0 .. 15 |-> GfPackByte(data, off)]
    IN  Reduce([lo |-> XorAll([o \in 0 .. 15 |-> acc[o].lo]), hi |-> XorAll([o \in 0 .. 15 |-> acc[o].hi])])

(***************************************************************************)
(* Calls                                                                   *)
(***************************************************************************)
GfTiers == {1, 2, 4}
GfInit ==
    /\ \/ gfCall \in [op : {"mul", "reflect"}, a : {{i} : i \in 0 .. 127}, b : {{j} : j \in 0 .. 127} \cup {{j, 127} : j \in 0 .. 126}]
       \/ gfCall \in [op : {"sum"}, size : 0 .. MaxSize, tier : GfTiers]
       \/ gfCall \in [op : {"bits"}, size : 0 .. MaxSize, ones : {1, 2, 3}]
       \/ gfCall \in [op : {"xor"}, size : 0 .. MaxSize]
       \/ gfCall \in [op : {"powers"}, size : 1 .. MaxSize]
       \/ gfCall \in [op : {"pack"}, at : 0 .. 127, bit : PackBits, tier : GfTiers]
    /\ res = <<>>

\* Inputs of the vector routines: element i has bits in both halves.
VecA == [i \in 0 .. MaxSize |-> {i, 64 + 2 * i}]
VecB == [i \in 0 .. MaxSize |-> {3 * i, 127 - i}]
OnesOf == [i \in 0 .. MaxSize |-> IF (i % gfCall.ones) = 0 THEN i + 1 ELSE 0]
Packed == [k \in 0 .. 127 |-> IF k = gfCall.at THEN {gfCall.bit} ELSE {}]

Returns(op, v) == /\ res = <<>> /\ gfCall.op = op
                  /\ res' = <<v>>
                  /\ UNCHANGED gfCall
CallMul == Returns("mul", Gfmul(gfCall.a, gfCall.b))
CallReflect == Returns("reflect", GfmulReflect(gfCall.a, gfCall.b))
CallSum == Returns("sum", InnPrdtSumRed(VecA, VecB, gfCall.size, gfCall.tier))
CallBits == Returns("bits", InnPrdtSumBits(VecA, OnesOf, gfCall.size))
CallXor == Returns("xor", VectorSelfXor(VecA, gfCall.size))
CallPowers == Returns("powers", UniHashCoeffGen(gfCall.size))
CallPack == Returns("pack", CASE gfCall.tier = 4 -> PackingAvx512(Packed)
                              [] gfCall.tier = 2 -> PackingAvx2(Packed)
                              [] gfCall.tier = 1 -> PackingPlain(Packed))

GfNext == CallMul \/ CallReflect \/ CallSum \/ CallBits \/ CallXor \/ CallPowers \/ CallPack

GfSpec == GfInit /\ [][GfNext]_gfVars

(***************************************************************************)
(* Reference: polynomials over GF(2) modulo x^128 + x^7 + x^2 + x + 1      *)
(***************************************************************************)
PowerOfX[k \in 0 .. 255] ==
    IF k < 128 THEN {k}
    ELSE XorAll(<<PowerOfX[k - 128], PowerOfX[k - 127], PowerOfX[k - 126], PowerOfX[k - 121]>>)
Modulo(P) == XorAll([k \in P |-> PowerOfX[k]])
Reflected(S) == {127 - x : x \in S}
Returned(op) == gfCall.op = op /\ res # <<>>

(***************************************************************************)
(* Properties                                                              *)
(***************************************************************************)
\* gfmul is the product in the field, and gfmul_reflect the product of the operands
\* read with their bits in reverse.
MulExact ==
    /\ Returned("mul") => res[1] = Modulo(Product(gfCall.a, gfCall.b))
    /\ Returned("reflect") => Reflected(res[1]) = Modulo(Product(Reflected(gfCall.a), Reflected(gfCall.b)))

\* Sums take every element once, whatever the tier, the lanes and the remainder,
\* and reducing once at the end is the sum of the products.
SumsExact ==
    /\ Returned("sum") => res[1] = XorAll([i \in 0 .. gfCall.size - 1 |-> Modulo(Product(VecA[i], VecB[i]))])
    /\ Returned("bits") => res[1] = XorAll([i \in {k \in 0 .. gfCall.size - 1 : OnesOf[k] # 0} |-> VecA[i]])
    /\ Returned("xor") => res[1] = XorAll([i \in 0 .. gfCall.size - 1 |-> VecA[i]])

\* The coefficients are the successive powers of the seed, for every size.
PowersExact == Returned("powers") => res[1] = [i \in 0 .. gfCall.size - 1 |-> i + 1]

\* Packing multiplies block k by x^k in every tier.
PackingExact == Returned("pack") => res[1] = PowerOfX[gfCall.at + gfCall.bit]
=============================================================================
