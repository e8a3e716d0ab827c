----------------------------- MODULE Calculator -----------------------------
(*****************************************************************************)
(* A caller computing with the value types of circuits/: lhs holds a UInt_T, *)
(* an Int_T or a BitVec_T, rhs a second operand of the same type, and every  *)
(* step applies one of the type's operations to the wires.  Beside the wires *)
(* runs the arithmetic of docs/numeric_semantics.md on integers: exp is the  *)
(* number lhs must stand for, expOut what the last query must have answered. *)
(*****************************************************************************)
EXTENDS CircuitInts, FiniteSets, FiniteSetsExt, Bitwise

CONSTANT Widths     \* the widths values may have

ASSUME WidthsAssumption == Widths \subseteq Nat \ {0}

VARIABLES typ, lhs, rhs, exp, result, expOut

calcVars == <<typ, lhs, rhs, exp, result, expOut>>

Types == {"UInt", "Int", "BitVec"}
Signed(t) == t = "Int"

\* The integer that wires stand for, and the one v wraps to at width n.
Value(x, t) ==
    MapThenSumSet(LAMBDA i : x[i] * 2 ^ (i - 1), DOMAIN x)
        - (IF Signed(t) THEN x[Len(x)] * 2 ^ Len(x) ELSE 0)
Fit(v, n, t) ==
    LET u == v % 2 ^ n
    IN  IF Signed(t) /\ u >= 2 ^ (n - 1) THEN u - 2 ^ n ELSE u

Width == Len(lhs)
RhsValue == Value(rhs, typ)
Unsigned(v) == v % 2 ^ Width
Abs(v) == IF v < 0 THEN -v ELSE v
Quotient(v, w) == IF (v < 0) # (w < 0) THEN -(Abs(v) \div Abs(w)) ELSE Abs(v) \div Abs(w)
Power(v, p) == IF p = 0 THEN 1 ELSE v ^ p
AsInt(p) == IF p THEN 1 ELSE 0

CalcStart(types, widths) ==
    /\ typ \in types
    /\ \E n \in widths : lhs \in [1 .. n -> Bit] /\ rhs \in [1 .. n -> Bit]
    /\ exp = Value(lhs, typ)
    /\ result = 0 /\ expOut = 0

\* x is the new value; v is what it must stand for, before wrapping.
Becomes(t, x, v) ==
    /\ typ = t
    /\ lhs' = x
    /\ exp' = Fit(v, Width, t)
    /\ UNCHANGED <<typ, rhs, result, expOut>>

\* A query answered r where v is right.
Answers(t, r, v) ==
    /\ typ = t
    /\ result' = r /\ expOut' = v
    /\ UNCHANGED <<typ, lhs, rhs, exp>>

UAddSub == Becomes("UInt", RippleAdd(lhs, rhs), exp + RhsValue) \/ Becomes("UInt", RippleSub(lhs, rhs), exp - RhsValue)
IAddSub ==
    \/ Becomes("Int", RippleAdd(lhs, rhs), exp + RhsValue)
    \/ Becomes("Int", RippleSub(lhs, rhs), exp - RhsValue)
    \/ Becomes("Int", Neg(lhs), -exp)

UBitwise ==
    \/ Becomes("UInt", BitAnd(lhs, rhs), exp & RhsValue)
    \/ Becomes("UInt", BitXor(lhs, rhs), exp ^^ RhsValue)
    \/ Becomes("UInt", BitOr(lhs, rhs), exp | RhsValue)
    \/ Becomes("UInt", BitNot(lhs), -1 - exp)
IBitwise ==
    \/ Becomes("Int", BitAnd(lhs, rhs), Unsigned(exp) & Unsigned(RhsValue))
    \/ Becomes("Int", BitXor(lhs, rhs), Unsigned(exp) ^^ Unsigned(RhsValue))
    \/ Becomes("Int", BitOr(lhs, rhs), Unsigned(exp) | Unsigned(RhsValue))
    \/ Becomes("Int", BitNot(lhs), -1 - exp)
VBitwise ==
    \/ Becomes("BitVec", BitAnd(lhs, rhs), exp & RhsValue)
    \/ Becomes("BitVec", BitOr(lhs, rhs), exp | RhsValue)
    \/ Becomes("BitVec", BitXor(lhs, rhs), exp ^^ RhsValue)
    \/ Becomes("BitVec", BitNot(lhs), -1 - exp)

UMul == Becomes("UInt", MulFull(lhs, rhs), exp * RhsValue)
IMul == Becomes("Int", MulFull(lhs, rhs), exp * RhsValue)

\* By zero: the quotient is all ones and the remainder the dividend.
UDivRem ==
    \/ Becomes("UInt", DivFull(lhs, rhs).quot, IF RhsValue = 0 THEN 2 ^ Width - 1 ELSE exp \div RhsValue)
    \/ Becomes("UInt", DivFull(lhs, rhs).rem, IF RhsValue = 0 THEN exp ELSE exp % RhsValue)
\* The documented domain: the divisor is not zero.
IDivide == RhsValue # 0 /\ Becomes("Int", IDiv(lhs, rhs), Quotient(exp, RhsValue))
IRemain == RhsValue # 0 /\ Becomes("Int", IRem(lhs, rhs), exp - RhsValue * Quotient(exp, RhsValue))

USelect == \E sel \in Bit : Becomes("UInt", Select(lhs, sel, rhs), IF sel = 1 THEN RhsValue ELSE exp)
ISelect == \E sel \in Bit : Becomes("Int", Select(lhs, sel, rhs), IF sel = 1 THEN RhsValue ELSE exp)
VSelect == \E sel \in Bit : Becomes("BitVec", Select(lhs, sel, rhs), IF sel = 1 THEN RhsValue ELSE exp)

\* Public amounts, from none to past the width.
Amounts == 0 .. Width + 1
UShift ==
    \E s \in Amounts : \/ Becomes("UInt", Shl(lhs, s), exp * 2 ^ s)
                       \/ Becomes("UInt", UShr(lhs, s), exp \div 2 ^ s)
IShift ==
    \E s \in Amounts : \/ Becomes("Int", Shl(lhs, s), exp * 2 ^ s)
                       \/ Becomes("Int", IShr(lhs, s), exp \div 2 ^ s)
VShift ==
    \E s \in Amounts : \/ Becomes("BitVec", Shl(lhs, s), exp * 2 ^ s)
                       \/ Becomes("BitVec", UShr(lhs, s), exp \div 2 ^ s)

\* Rotates, by any amount of either sign.
RotatedLeft(v, s) == LET t == s % Width IN v * 2 ^ t + v \div 2 ^ (Width - t)
URotate ==
    \E s \in (-Width - 1) .. Width + 1 : \/ Becomes("UInt", Rotl(lhs, s), RotatedLeft(exp, s))
                                 \/ Becomes("UInt", Rotr(lhs, s), RotatedLeft(exp, -s))

\* Secret amounts: the amount is the wires of b, read as unsigned.
USecretShift ==
    \/ Becomes("UInt", SecretShl(lhs, rhs), exp * 2 ^ RhsValue)
    \/ Becomes("UInt", SecretUShr(lhs, rhs), exp \div 2 ^ RhsValue)
ISecretShift ==
    \/ Becomes("Int", SecretShl(lhs, rhs), exp * 2 ^ Unsigned(RhsValue))
    \/ Becomes("Int", SecretIShr(lhs, rhs), exp \div 2 ^ Unsigned(RhsValue))

UCompare ==
    \/ Answers("UInt", Equal(lhs, rhs), AsInt(exp = RhsValue))
    \/ Answers("UInt", NotGate(Equal(lhs, rhs)), AsInt(exp # RhsValue))
    \/ Answers("UInt", ULess(lhs, rhs), AsInt(exp < RhsValue))
    \/ Answers("UInt", ULess(rhs, lhs), AsInt(exp > RhsValue))
    \/ Answers("UInt", NotGate(ULess(rhs, lhs)), AsInt(exp <= RhsValue))
    \/ Answers("UInt", NotGate(ULess(lhs, rhs)), AsInt(exp >= RhsValue))
ICompare ==
    \/ Answers("Int", Equal(lhs, rhs), AsInt(exp = RhsValue))
    \/ Answers("Int", NotGate(Equal(lhs, rhs)), AsInt(exp # RhsValue))
    \/ Answers("Int", ILess(lhs, rhs), AsInt(exp < RhsValue))
    \/ Answers("Int", ILess(rhs, lhs), AsInt(exp > RhsValue))
    \/ Answers("Int", NotGate(ILess(rhs, lhs)), AsInt(exp <= RhsValue))
    \/ Answers("Int", NotGate(ILess(lhs, rhs)), AsInt(exp >= RhsValue))
VCompare ==
    \/ Answers("BitVec", Equal(lhs, rhs), AsInt(exp = RhsValue))
    \/ Answers("BitVec", NotGate(Equal(lhs, rhs)), AsInt(exp # RhsValue))

\* Counts of bits of the number: the ones, and the zeros above the highest one.
Ones(v) == Quantify(1 .. Width, LAMBDA i : BitOf(v, i) = 1)
UCount ==
    \/ Answers("UInt", Value(HammingWeight(lhs), "UInt"), Ones(exp))
    \/ Answers("UInt", Value(LeadingZeros(lhs), "UInt"), Quantify(1 .. Width, LAMBDA i : exp < 2 ^ (i - 1)))

\* lhs^rhs mod q for q # 0.  The products are taken at the width: what comes out is
\* the power where no product of two factors below the modulus wraps, and nothing is
\* claimed elsewhere.
UModExp ==
    \E q \in [1 .. Width -> Bit] :
        LET Q == Value(q, "UInt")
            r == Value(ModExp(lhs, rhs, q), "UInt")
            fits == Q > 1 /\ Q * Q <= 2 ^ Width /\ exp * exp < 2 ^ Width
        IN  Q # 0 /\ Answers("UInt", r, IF fits THEN Power(exp, RhsValue) % Q ELSE r)

\* A public constant of the carrier type, and the clear codec.
UConst == \E v \in 0 .. 2 ^ Carrier - 1 : Becomes("UInt", UConstant(Width, v), v)
IConst == \E v \in -(2 ^ (Carrier - 1)) .. 2 ^ (Carrier - 1) - 1 : Becomes("Int", IConstant(Width, v), v)
UReveal == Answers("UInt", UDecode(lhs), exp % 2 ^ Carrier)
IReveal == Answers("Int", IDecode(lhs), Fit(exp, Carrier, "Int"))

\* Views: the type or the width changes, for both operands.
AsSigned ==
    /\ typ = "UInt" /\ typ' = "Int" /\ exp' = Fit(exp, Width, "Int")
    /\ UNCHANGED <<lhs, rhs, result, expOut>>
AsUnsigned ==
    /\ typ = "Int" /\ typ' = "UInt" /\ exp' = Unsigned(exp)
    /\ UNCHANGED <<lhs, rhs, result, expOut>>
AsUint ==
    /\ typ = "BitVec" /\ typ' = "UInt"
    /\ UNCHANGED <<lhs, rhs, exp, result, expOut>>
UReshape ==
    \E m \in Widths :
        /\ typ = "UInt"
        /\ lhs' = UResize(lhs, m) /\ rhs' = UResize(rhs, m)
        /\ exp' = exp % 2 ^ m
        /\ UNCHANGED <<typ, result, expOut>>
IReshape ==
    \E m \in Widths :
        /\ typ = "Int"
        /\ lhs' = IResize(lhs, m) /\ rhs' = IResize(rhs, m)
        /\ exp' = Fit(exp, m, "Int")
        /\ UNCHANGED <<typ, result, expOut>>
\* Cut at lo and put together the other way round: slice, then concat.
USwapHalves ==
    \E lo \in 0 .. Width :
        Becomes("UInt", Concat(Slice(lhs, lo, Width), Slice(lhs, 0, lo)),
                exp \div 2 ^ lo + (exp % 2 ^ lo) * 2 ^ (Width - lo))
VSwapHalves ==
    \E lo \in 0 .. Width :
        Becomes("BitVec", Concat(Slice(lhs, lo, Width), Slice(lhs, 0, lo)),
                exp \div 2 ^ lo + (exp % 2 ^ lo) * 2 ^ (Width - lo))

CalcNext ==
    \/ UAddSub \/ IAddSub \/ UBitwise \/ IBitwise \/ VBitwise \/ UMul \/ IMul
    \/ UDivRem \/ IDivide \/ IRemain \/ USelect \/ ISelect \/ VSelect
    \/ UShift \/ IShift \/ VShift \/ URotate \/ USecretShift \/ ISecretShift
    \/ UCompare \/ ICompare \/ VCompare \/ UCount \/ UModExp
    \/ UConst \/ IConst \/ UReveal \/ IReveal
    \/ AsSigned \/ AsUnsigned \/ AsUint \/ UReshape \/ IReshape \/ USwapHalves \/ VSwapHalves

CalcInit == CalcStart(Types, Widths)
CalcSpec == CalcInit /\ [][CalcNext]_calcVars

(***************************************************************************)
(* Properties                                                              *)
(***************************************************************************)
\* After any sequence of operations, on any width, the wires stand for the number
\* that docs/numeric_semantics.md prescribes: + - * << wrap, signed / truncates
\* toward zero and % follows the dividend, >> floors, an amount past the width
\* empties or sign-fills, resize wraps or keeps the value.
ValuesExact == Value(lhs, typ) = exp

\* Every query answers what the numbers say: the six comparisons in either
\* signedness, the bit counts, mod_exp where no product wraps, and what decode
\* puts in the 64-bit carrier.
AnswersExact == result = expOut
=============================================================================
