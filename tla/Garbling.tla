------------------------------ MODULE Garbling ------------------------------
(*****************************************************************************)
(* runtime/execution/half_gate.h and privacy_free.h in use: a garbler turns  *)
(* gates into tables, an evaluator follows on the tables that arrive, each   *)
(* with a MITCCRH of its own (Mitccrh) whose BatchSize is its own affair.    *)
(* A block is a formal XOR, the set of the atoms in it: delta, the block     *)
(* with only the low bit set, the random labels, and one atom for every hash *)
(* of a block under a key and a tweak.  The low bit of an atom is chosen     *)
(* when the atom comes up.                                                   *)
(*****************************************************************************)
EXTENDS Integers, Sequences, FiniteSets

CONSTANTS Schemes,        \* subset of {"half", "free"}
          GarblerBatch, EvaluatorBatch,
          KeySpan,        \* 1 << ReuseShift: gids that share a key
          Inputs,         \* number of input wires
          MaxGates,       \* bound: gates of the circuit
          FreeLows        \* bound: hashes of a call whose low bit is free

ASSUME GarblingAssumption ==
    /\ Schemes \subseteq {"half", "free"}
    /\ \A B \in {GarblerBatch, EvaluatorBatch} : B \in Nat \ {0} /\ B % 2 = 0
    /\ KeySpan \in Nat \ {0}
    /\ Inputs \in Nat \ {0} /\ MaxGates \in Nat /\ FreeLows \in Nat

VARIABLES scheme,
          gates,      \* the circuit, as far as the garbler has come
          zero,       \* garbler: per wire, the label of 0
          active,     \* evaluator: per wire, the label it holds
          value,      \* history: per wire, the bit it stands for
          tables,     \* tables on their way to the evaluator
          gm, em,     \* the two MITCCRH objects
          hash,       \* the atoms given to hashes: <<block, gid or index, key>> |-> atom
          lsb         \* the low bit of every atom

garbleVars == <<scheme, gates, zero, active, value, tables, gm, em, hash, lsb>>

SpanBucket(g) == g \div KeySpan
\* A MITCCRH that schedules B keys at a time.
MH(B) == INSTANCE Mitccrh WITH BatchSize <- B, Reuse <- KeySpan > 1, Bucket <- SpanBucket,
             Lanes <- {2}, Starts <- {"S"}, MaxGid <- 2 * MaxGates, m <- gm, lanes <- {}, top <- 0
Started(B) == MH(B)!WithS(MH(B)!New, "S")
\* Lane k of the next call on object o, with block x in it: hash<2, H>.
LaneQuery(B, o, x, k) ==
    LET r == MH(B)!Ready(o, 2) IN <<x, MH(B)!LaneGid(r, k), MH(B)!LaneKey(r, k)>>
AfterCall(B, o) == MH(B)!Taken(o, 2)

Bits == {0, 1}
Delta == {0}
LowBit == {-1}
Xor(x, y) == (x \ y) \cup (y \ x)
Xor3(x, y, z) == Xor(Xor(x, y), z)
Masked(bit, x) == IF bit = 1 THEN x ELSE {}          \* select_mask[bit] & x
GetLSB(low, x) == Cardinality({i \in x : low[i] = 1}) % 2
WithLSB(low, x, bit) == IF GetLSB(low, x) = bit THEN x ELSE Xor(x, LowBit)

\* Delta has low bit 1; privacy-free labels of 0 have low bit 0.
GarbleInit ==
    /\ scheme \in Schemes
    /\ gates = <<>> /\ tables = <<>> /\ hash = <<>>
    /\ zero = [w \in 1 .. Inputs |-> {w}]
    /\ value \in [1 .. Inputs -> Bits]
    /\ active = [w \in 1 .. Inputs |-> Xor(zero[w], Masked(value[w], Delta))]
    /\ lsb \in [-1 .. Inputs -> Bits] /\ lsb[0] = 1 /\ lsb[-1] = 1
    /\ scheme = "free" => \A w \in 1 .. Inputs : lsb[w] = 0
    /\ gm = Started(GarblerBatch) /\ em = Started(EvaluatorBatch)

\* Hashing the blocks of qs: one met before has its atom, a new one gets the next
\* atom.  The first FreeLows take any low bit, the others 0: a label's low bit is
\* the parity of its atoms, so these reach every combination.
Query(qs) ==
    LET base == Inputs + Cardinality(DOMAIN hash)
        new == {i \in DOMAIN qs : qs[i] \notin DOMAIN hash}
        fresh == {base + i : i \in new}
    IN  /\ hash' = [q \in DOMAIN hash \cup {qs[i] : i \in new} |->
                       IF q \in DOMAIN hash THEN hash[q] ELSE base + (CHOOSE i \in new : qs[i] = q)]
        /\ \E c \in [1 .. FreeLows -> Bits] :
               lsb' = [i \in DOMAIN lsb \cup fresh |->
                          IF i \in DOMAIN lsb THEN lsb[i]
                          ELSE IF i - base <= FreeLows THEN c[i - base] ELSE 0]
H(q) == {hash'[q]}

Gate(op, a, b) == [op |-> op, a |-> a, b |-> b]
\* The garbler has made a gate: its zero label, its table if it has one.
Garbled(g, label, table, bit) ==
    /\ gates' = Append(gates, g)
    /\ zero' = Append(zero, label)
    /\ tables' = tables \o table
    /\ value' = Append(value, bit)
    /\ UNCHANGED <<scheme, active, em>>

\* Mutant: the evaluator half is masked with the wrong wire's select bit.
HalfgatesGarbleSwapped(a, b) ==
    LET LA0 == zero[a]  A1 == Xor(zero[a], Delta)
        LB0 == zero[b]  B1 == Xor(zero[b], Delta)
        pa == GetLSB(lsb, LA0)  pb == GetLSB(lsb, LB0)
        q(x, k) == LaneQuery(GarblerBatch, gm, x, k)
        T0 == Xor3(H(q(LA0, 0)), H(q(A1, 0)), Masked(pa, Delta))
        tmp == Xor(H(q(LB0, 1)), H(q(B1, 1)))
    IN  /\ Query(<<q(LA0, 0), q(A1, 0), q(LB0, 1), q(B1, 1)>>)
        /\ gm' = AfterCall(GarblerBatch, gm)
        /\ Garbled(Gate("and", a, b),
                   Xor3(Xor(H(q(LA0, 0)), Masked(pa, T0)), H(q(LB0, 1)), Masked(pb, tmp)),
                   <<<<T0, Xor(tmp, LA0)>>>>, value[a] * value[b])
HalfgatesGarble(a, b) ==
    LET LA0 == zero[a]  A1 == Xor(zero[a], Delta)
        LB0 == zero[b]  B1 == Xor(zero[b], Delta)
        pa == GetLSB(lsb, LA0)  pb == GetLSB(lsb, LB0)
        q(x, k) == LaneQuery(GarblerBatch, gm, x, k)
        T0 == Xor3(H(q(LA0, 0)), H(q(A1, 0)), Masked(pb, Delta))
        tmp == Xor(H(q(LB0, 1)), H(q(B1, 1)))
    IN  /\ Query(<<q(LA0, 0), q(A1, 0), q(LB0, 1), q(B1, 1)>>)
        /\ gm' = AfterCall(GarblerBatch, gm)
        /\ Garbled(Gate("and", a, b),
                   Xor3(Xor(H(q(LA0, 0)), Masked(pa, T0)), H(q(LB0, 1)), Masked(pb, tmp)),
                   <<<<T0, Xor(tmp, LA0)>>>>, value[a] * value[b])

\* The index of a privacy-free gate is its place in the circuit.
PrivacyFreeQuery(x, idx) == <<x, 2 * idx, <<"fixed key", 0>>>>
PrivacyFreeGarble(a, b) ==
    LET q(x) == PrivacyFreeQuery(x, Len(gates) + 1)
        LA0 == zero[a]  A1 == Xor(zero[a], Delta)
        HLA0 == WithLSB(lsb', H(q(LA0)), 0)
        HA1 == WithLSB(lsb', H(q(A1)), 1)
    IN  /\ Query(<<q(LA0), q(A1)>>)
        /\ Garbled(Gate("and", a, b), HLA0, <<<<Xor3(HLA0, HA1, zero[b])>>>>, value[a] * value[b])
        /\ UNCHANGED gm

\* XOR and NOT are the caller's: the labels are combined, nothing is sent.
FreeGates(a, b) ==
    /\ \/ Garbled(Gate("xor", a, b), Xor(zero[a], zero[b]), <<>>, (value[a] + value[b]) % 2)
       \/ scheme = "half" /\ a = b /\ Garbled(Gate("not", a, a), Xor(zero[a], Delta), <<>>, 1 - value[a])
    /\ UNCHANGED <<gm, hash, lsb>>

Garble ==
    /\ Len(gates) < MaxGates
    /\ \E a, b \in DOMAIN zero :
           \/ scheme = "half" /\ HalfgatesGarble(a, b)
           \/ scheme = "free" /\ PrivacyFreeGarble(a, b)
           \/ FreeGates(a, b)

\* The evaluator's next gate, once its table is here.
NextGate == gates[Len(active) - Inputs + 1]
CanEvaluate(op) == Len(active) - Inputs < Len(gates) /\ NextGate.op = op
Evaluated(label) ==
    /\ active' = Append(active, label)
    /\ UNCHANGED <<scheme, gates, zero, value, gm>>

HalfgatesEval ==
    LET A == active[NextGate.a]  B == active[NextGate.b]
        q(x, k) == LaneQuery(EvaluatorBatch, em, x, k)
        sa == GetLSB(lsb, A)  sb == GetLSB(lsb, B)
        T == Head(tables)
    IN  /\ Query(<<q(A, 0), q(B, 1)>>)
        /\ em' = AfterCall(EvaluatorBatch, em)
        /\ Evaluated(Xor3(Xor(H(q(A, 0)), H(q(B, 1))), Masked(sa, T[1]), Masked(sb, Xor(T[2], A))))
        /\ tables' = Tail(tables)

PrivacyFreeEval ==
    LET A == active[NextGate.a]  B == active[NextGate.b]
        q == PrivacyFreeQuery(A, Len(active) - Inputs + 1)
    IN  /\ Query(<<q>>)
        /\ Evaluated(IF GetLSB(lsb, A) = 1 THEN Xor3(WithLSB(lsb', H(q), 1), Head(tables)[1], B)
                                           ELSE WithLSB(lsb', H(q), 0))
        /\ tables' = Tail(tables) /\ UNCHANGED em

EvalFree(op, label) ==
    /\ CanEvaluate(op) /\ Evaluated(label)
    /\ UNCHANGED <<tables, em, hash, lsb>>

Evaluate ==
    \/ CanEvaluate("and") /\ scheme = "half" /\ HalfgatesEval
    \/ CanEvaluate("and") /\ scheme = "free" /\ PrivacyFreeEval
    \/ EvalFree("xor", Xor(active[NextGate.a], active[NextGate.b]))
    \/ EvalFree("not", active[NextGate.a])

GarbleNext == Garble \/ Evaluate

GarbleSpec == GarbleInit /\ [][GarbleNext]_garbleVars

(***************************************************************************)
(* Properties                                                              *)
(***************************************************************************)
\* The evaluator holds, on every wire it has reached, the label of the bit the wire
\* stands for: the label of 0, or that label XOR delta.  For both schemes, whatever
\* the low bits of labels and hashes, wires used twice or as both inputs included,
\* and with key schedules of different batch sizes at the two ends.
LabelsMatch ==
    \A w \in DOMAIN active : active[w] = Xor(zero[w], Masked(value[w], Delta))

\* Privacy-free gates tell 0 from 1 by the low bit: the label of 0 keeps low bit 0
\* on every wire (privacy_free_garble clears and sets it).
LowBitIsValue ==
    scheme = "free" => \A w \in DOMAIN active : GetLSB(lsb, active[w]) = value[w]

\* The evaluator is never left behind: for every AND gate it has yet to reach one
\* table is on its way, so it finds one at the gate and none is left over.
Reached == Len(active) - Inputs
TablesInStep ==
    /\ Reached <= Len(gates)
    /\ Len(tables) = Cardinality({i \in Reached + 1 .. Len(gates) : gates[i].op = "and"})

\* The evaluator arrives at the labels the garbler meant, can tell their values in
\* the privacy-free scheme, and never lacks a table.
EvaluatorFollows == LabelsMatch /\ LowBitIsValue /\ TablesInStep
=============================================================================
