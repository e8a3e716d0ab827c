--------------------------- MODULE BooleanProgram ---------------------------
(***************************************************************************)
(* The Boolean-circuit IR of emp-tool (ir/program.h): gates over numbered  *)
(* wires, and what it means for wire values to be a run of a program.      *)
(***************************************************************************)
EXTENDS Integers, Sequences, FiniteSets

Op == {"And", "Xor", "Not", "Const0", "Const1"}

Gate == [op : Op, in0 : Nat, in1 : Nat, out : Nat]

IsConst(g) == g.op \in {"Const0", "Const1"}
IsNot(g) == g.op = "Not"

\* The wires a gate reads; the operand fields it does not use are dummies.
Operands(g) == IF IsConst(g) THEN {}
               ELSE IF IsNot(g) THEN {g.in0}
               ELSE {g.in0, g.in1}

Apply(op, a, b) == CASE op = "And" -> a /\ b
                     [] op = "Xor" -> a # b
                     [] op = "Not" -> ~a
                     [] op = "Const0" -> FALSE
                     [] op = "Const1" -> TRUE

\* A program: wires 0 .. num_wires-1, the first num_inputs of them inputs.
Program == [num_wires : Nat, num_inputs : Nat, gates : Seq(Gate)]

Wires(p) == 0 .. p.num_wires - 1

\* In a program that gives every wire one producer, executing the gates in
\* order leaves the wire values w: the inputs are as given, and each gate's
\* output is its operation on the values of its operands.
IsRun(p, inputs, w) ==
    /\ w \in [Wires(p) -> BOOLEAN]
    /\ \A i \in 1 .. p.num_inputs : w[i - 1] = inputs[i]
    /\ \A k \in DOMAIN p.gates :
           LET g == p.gates[k] IN w[g.out] = Apply(g.op, w[g.in0], w[g.in1])

Runs(p, inputs) == {w \in [Wires(p) -> BOOLEAN] : IsRun(p, inputs, w)}

\* validate_program on a dense program: every operand is an input or the output
\* of an earlier gate, every wire past the inputs has exactly one producer, the
\* operand fields a gate does not use are 0.
ValidDense(p) ==
    /\ p.num_inputs <= p.num_wires
    /\ p.num_wires = p.num_inputs + Len(p.gates)
    /\ \A k \in DOMAIN p.gates :
           /\ p.gates[k].out \in p.num_inputs .. p.num_wires - 1
           /\ \A j \in 1 .. k - 1 : p.gates[j].out # p.gates[k].out
           /\ IsConst(p.gates[k]) => p.gates[k].in0 = 0
           /\ IsConst(p.gates[k]) \/ IsNot(p.gates[k]) => p.gates[k].in1 = 0
           /\ \A v \in Operands(p.gates[k]) :
                  \/ v < p.num_inputs
                  \/ \E j \in 1 .. k - 1 : v = p.gates[j].out
=============================================================================
