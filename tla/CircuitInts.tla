---------------------------- MODULE CircuitInts -----------------------------
(*******************************************************************************)
(* Numbers on wires.  First circuits/numeric_kernels.h: gates on single wires  *)
(* and the carry, select, multiply and divide circuits built from them; a wire *)
(* carries 0 or 1, a value is a sequence of wires, least significant first.    *)
(* Then UInt_T, Int_T and BitVec_T (circuits/unsigned_int.h, signed_int.h,     *)
(* bitvec.h) at a width taken from the value: what each operator computes on   *)
(* wires.  Carrier is the width of the uint64_t or int64_t that clear values   *)
(* ride in.                                                                    *)
(*******************************************************************************)
EXTENDS Integers, Sequences, SequencesExt

CONSTANT Carrier

ASSUME CarrierAssumption == Carrier \in Nat \ {0}

Bit == {0, 1}
XorGate(a, b) == (a + b) % 2
AndGate(a, b) == a * b
NotGate(a) == 1 - a

OrGate(a, b) == XorGate(XorGate(a, b), AndGate(a, b))
Mux(sel, t, f) == XorGate(f, AndGate(sel, XorGate(t, f)))

\* ceil(log2(n)), and the width that holds 0 .. n.
Clog2Ceil(n) == CHOOSE b \in 0 .. n : 2 ^ b >= n /\ \A c \in 0 .. b - 1 : 2 ^ c < n
BitsFor(n) == CHOOSE b \in 1 .. n + 1 : 2 ^ b > n /\ \A c \in 1 .. b - 1 : 2 ^ c <= n

Indices(n) == [i \in 1 .. n |-> i]
From(v, i) == SubSeq(v, i, Len(v))
Zeros(n) == [i \in 1 .. n |-> 0]

\* [bits, carry] of op1 + op2 + carryIn: one AND per position.
AddFull(op1, op2, carryIn) ==
    LET upTo[i \in 0 .. Len(op1)] ==
            IF i = 0 THEN [bits |-> <<>>, carry |-> carryIn]
            ELSE LET r == upTo[i - 1]
                     axc == XorGate(op1[i], r.carry)
                     bxc == XorGate(op2[i], r.carry)
                 IN  [bits |-> Append(r.bits, XorGate(op1[i], bxc)),
                      carry |-> XorGate(r.carry, AndGate(axc, bxc))]
    IN  upTo[Len(op1)]

\* [bits, borrow] of op1 - op2 - borrowIn.
SubFull(op1, op2, borrowIn) ==
    LET upTo[i \in 0 .. Len(op1)] ==
            IF i = 0 THEN [bits |-> <<>>, borrow |-> borrowIn]
            ELSE LET r == upTo[i - 1]
                     bxa == XorGate(op1[i], op2[i])
                     bxc == XorGate(r.borrow, op2[i])
                 IN  [bits |-> Append(r.bits, XorGate(bxa, r.borrow)),
                      borrow |-> XorGate(r.borrow, AndGate(bxa, bxc))]
    IN  upTo[Len(op1)]

RippleAdd(a, b) == AddFull(a, b, 0).bits
RippleSub(a, b) == SubFull(a, b, 0).bits
LessThan(a, b) == SubFull(a, b, 0).borrow
Equal(a, b) == FoldLeft(LAMBDA acc, i : AndGate(acc, NotGate(XorGate(a[i], b[i]))), 1, Indices(Len(a)))
IfThenElse(cond, t, f) == [i \in DOMAIN t |-> XorGate(AndGate(cond, XorGate(t[i], f[i])), f[i])]

\* Row i adds op1 shifted by i - 1, masked by op2[i], to the sum from there on.
MulFull(op1, op2) ==
    LET n == Len(op1)
        row(i) == [k \in 1 .. n - i + 1 |-> AndGate(op1[k], op2[i])]
    IN  FoldLeft(LAMBDA sum, i : SubSeq(sum, 1, i - 1) \o RippleAdd(From(sum, i), row(i)),
                 Zeros(n), Indices(n))

\* Restoring division from the top position down: [quot, rem].  overflow[i] says
\* that the divisor has a bit the narrow subtraction does not see.
DivFull(op1, op2) ==
    LET n == Len(op1)
        overflow(i) == FoldLeft(OrGate, 0, [k \in 1 .. i - 1 |-> op2[n - k + 1]])
        step(r, k) ==
            LET i == n - k + 1
                d == SubFull(From(r.rem, i), SubSeq(op2, 1, n - i + 1), 0)
                b == OrGate(d.borrow, overflow(i))
            IN  [rem |-> SubSeq(r.rem, 1, i - 1) \o IfThenElse(b, From(r.rem, i), d.bits),
                 quot |-> <<NotGate(b)>> \o r.quot]
    IN  FoldLeft(step, [rem |-> op1, quot |-> <<>>], Indices(n))

(***************************************************************************)
(* The value types                                                         *)
(***************************************************************************)
BitOf(v, i) == (v \div 2 ^ (i - 1)) % 2

\* Public constants and encode: bits past the carrier are zero, or the sign.
UConstant(n, v) == [i \in 1 .. n |-> IF i <= Carrier THEN BitOf(v, i) ELSE 0]
IConstant(n, v) == [i \in 1 .. n |-> BitOf(v % 2 ^ Carrier, IF i <= Carrier THEN i ELSE Carrier)]

\* decode: at most Carrier bits, the top one of them the sign for Int_T.
UDecode(x) ==
    FoldLeft(LAMBDA v, i : v + x[i] * 2 ^ (i - 1), 0,
             Indices(IF Len(x) < Carrier THEN Len(x) ELSE Carrier))
IDecode(x) ==
    LET sb == IF Len(x) < Carrier THEN Len(x) ELSE Carrier
    IN  UDecode(x) - x[sb] * 2 ^ sb

Map2(Gate(_, _), x, y) == [i \in DOMAIN x |-> Gate(x[i], y[i])]
BitAnd(x, y) == Map2(AndGate, x, y)
BitXor(x, y) == Map2(XorGate, x, y)
BitOr(x, y) == Map2(OrGate, x, y)
BitNot(x) == [i \in DOMAIN x |-> NotGate(x[i])]
Select(x, sel, t) == [i \in DOMAIN x |-> Mux(sel, t[i], x[i])]

Neg(x) == RippleSub(Zeros(Len(x)), x)
Sign(x) == x[Len(x)]

ULess(x, y) == LessThan(x, y)
ILess(x, y) ==
    Mux(XorGate(Sign(x), Sign(y)), Sign(x), LessThan(x, y))

Magnitude(x) == Select(x, Sign(x), Neg(x))
\* Mutant: the quotient takes the sign of the dividend.
IDivDividend(x, y) ==
    LET q == DivFull(Magnitude(x), Magnitude(y)).quot
    IN  Select(q, Sign(x), Neg(q))
IDiv(x, y) ==
    LET q == DivFull(Magnitude(x), Magnitude(y)).quot
    IN  Select(q, XorGate(Sign(x), Sign(y)), Neg(q))
IRem(x, y) ==
    LET r == DivFull(Magnitude(x), Magnitude(y)).rem
    IN  Select(r, Sign(x), Neg(r))

\* Shifts by a public amount; >> clamps it and fills with zero or the sign.
Shl(x, s) == [i \in DOMAIN x |-> IF i > s THEN x[i - s] ELSE 0]
Shr(x, s, fill) ==
    LET n == Len(x)
        t == IF s > n THEN n ELSE s
    IN  [i \in 1 .. n |-> IF i + t <= n THEN x[i + t] ELSE fill]
UShr(x, s) == Shr(x, s, 0)
IShr(x, s) == Shr(x, s, Sign(x))

Rotl(x, s) ==
    LET n == Len(x)
        t == ((s % n) + n) % n
    IN  [i \in 1 .. n |-> x[((((i - 1 - t) % n) + n) % n) + 1]]
Rotr(x, s) ==
    LET n == Len(x)
        t == ((s % n) + n) % n
    IN  [i \in 1 .. n |-> x[((i - 1 + t) % n) + 1]]

\* Shifts by a secret amount: a mux per low bit, and whole if a high bit is set.
Use(n) == IF n <= 1 THEN 0 ELSE Clog2Ceil(n)
Shift(kind, x, s) ==
    CASE kind = "shl" -> Shl(x, s) [] kind = "ushr" -> UShr(x, s) [] kind = "ishr" -> IShr(x, s)
Barrel(kind, x, shamt, whole) ==
    LET n == Len(x)
        low == FoldLeft(LAMBDA r, i : Select(r, shamt[i], Shift(kind, r, 2 ^ (i - 1))), x, Indices(Use(n)))
        overflow == FoldLeft(OrGate, 0, From(shamt, Use(n) + 1))
    IN  Select(low, overflow, whole)
SecretShl(x, shamt) == Barrel("shl", x, shamt, Zeros(Len(x)))
SecretUShr(x, shamt) == Barrel("ushr", x, shamt, Zeros(Len(x)))
SecretIShr(x, shamt) == Barrel("ishr", x, shamt, [i \in DOMAIN x |-> Sign(x)])

\* popcount into r wires, hamming_weight and leading_zeros.
Popcount(x, r) ==
    FoldLeft(LAMBDA acc, i : RippleAdd(acc, [Zeros(r) EXCEPT ![1] = x[i]]), Zeros(r), Indices(Len(x)))
HammingWeight(x) == Popcount(x, BitsFor(Len(x)))
LeadingZeros(x) ==
    LET n == Len(x)
        sat == [i \in 1 .. n |-> FoldLeft(OrGate, 0, [k \in 1 .. n - i + 1 |-> x[n - k + 1]])]
    IN  HammingWeight(BitNot(sat))

\* Square and multiply: products wrap at the width before they are reduced.
ModExp(x, p, q) ==
    LET step(r, i) ==
            [res |-> Select(r.res, p[i], DivFull(MulFull(r.res, r.base), q).rem),
             base |-> DivFull(MulFull(r.base, r.base), q).rem]
    IN  FoldLeft(step, [res |-> UConstant(Len(x), 1), base |-> x], Indices(Len(p))).res

\* zext, sext, trunc, resize, to_fixed; slice and concat are SubSeq and \o.
Resize(x, m, fill) == [i \in 1 .. m |-> IF i <= Len(x) THEN x[i] ELSE fill]
UResize(x, m) == Resize(x, m, 0)
IResize(x, m) == Resize(x, m, Sign(x))
Slice(x, lo, hi) == SubSeq(x, lo + 1, hi)
Concat(x, hi) == x \o hi
=============================================================================
