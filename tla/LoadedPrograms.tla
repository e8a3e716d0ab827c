--------------------------- MODULE LoadedPrograms ---------------------------
(****************************************************************************)
(* Programs that did not come from RecordCtx: a file or a hand-written list *)
(* of gates with any operands and any output ids, dense or reusing ids, put *)
(* through validate_program and, when it accepts, through everything that   *)
(* trusts it.                                                               *)
(****************************************************************************)
EXTENDS IRPasses

CONSTANTS NumWires,    \* wire ids of a candidate program
          NumInputs,   \* the possible numbers of inputs
          LoadedGates,    \* bound on its gates
          LoadedOps,         \* the operations tried
          Lanes,       \* instances per block (128 in simd.h)
          Instances    \* instances of a SIMD execution

ASSUME LoadedAssumption ==
    /\ {NumWires, LoadedGates, Lanes, Instances} \subseteq Nat
    /\ NumInputs \subseteq 0 .. NumWires
    /\ LoadedOps \subseteq Op

VARIABLE loaded

Ids == 0 .. NumWires - 1

LoadedInit ==
    \E n \in NumInputs, reuse \in {"None", "Linear"}, o \in Ids :
        loaded = [num_wires |-> NumWires, num_inputs |-> n, wire_reuse |-> reuse,
                  gates |-> <<>>, outputs |-> <<o>>]

\* And and Xor are symmetric: their operands are tried in increasing order.
Candidates ==
    {g \in [op : LoadedOps, in0 : Ids, in1 : Ids, out : Ids] :
        /\ IsConst(g) => g.in0 = 0
        /\ IsConst(g) \/ IsNot(g) => g.in1 = 0
        /\ g.op \in {"And", "Xor"} => g.in0 <= g.in1}

\* A program that reads a wire before it is written stays rejected and is not extended.
AddGate ==
    /\ Len(loaded.gates) < LoadedGates
    /\ \A k \in Gates(loaded) : Operands(loaded.gates[k]) \subseteq Written(loaded, k - 1)
    /\ \E g \in Candidates : loaded' = [loaded EXCEPT !.gates = Append(@, g)]

LoadedNext == AddGate

LoadedSpec == LoadedInit /\ [][LoadedNext]_loaded

-----------------------------------------------------------------------------
Accepted == ValidateProgram(loaded)
LoadedBits(n) == [1 .. n -> BOOLEAN]
Clean(p) == [w \in Wires(p) |-> FALSE]
LoadedStale(p) == [Wires(p) -> BOOLEAN]

\* A program validate_program accepts never shows what an earlier execution left
\* in the reused workspace: its outputs depend on its inputs alone (CircuitScratch).
ScratchUnseen ==
    Accepted =>
        \A inputs \in LoadedBits(loaded.num_inputs), scratch \in LoadedStale(loaded) :
            Execute(Plain, loaded, inputs, scratch)
                = Execute(Plain, loaded, inputs, Clean(loaded))

\* What layout_pass does not reach is dead: with other gates in place of those that
\* write a wire out of its reach, the outputs of a dense program stay what they were.
UnreachedIsDead ==
    Accepted /\ loaded.wire_reuse = "None" =>
        LET reach == Reachable(loaded)
            rest(op) == [loaded EXCEPT !.gates =
                [k \in Gates(loaded) |->
                    IF @[k].out \in reach THEN @[k]
                    ELSE [op |-> op, in0 |-> 0, in1 |-> 0, out |-> @[k].out]]]
        IN  \A inputs \in LoadedBits(loaded.num_inputs), op \in {"Const0", "Const1"} :
                Execute(Plain, rest(op), inputs, Clean(loaded))
                    = Execute(Plain, loaded, inputs, Clean(loaded))

\* uncompact turns any accepted program, whoever reused its ids, into a valid
\* dense one with monotonic ids that computes the same function.
UncompactPreserves ==
    Accepted =>
        LET d == Uncompact(loaded)
        IN  /\ ValidateProgram(d)
            /\ \A k \in Gates(d) : d.gates[k].out = d.num_inputs + k - 1
            /\ \A inputs \in LoadedBits(loaded.num_inputs) :
                   Execute(Plain, d, inputs, Clean(d))
                       = Execute(Plain, loaded, inputs, Clean(loaded))

\* Programs with ids in any order can be scheduled and run 128 at a time: every
\* instance of a SIMD execution gets the outputs of its own plain execution, the
\* padding lanes and the stale workspace included (simd_execute_program).
SimdComputes ==
    Accepted /\ loaded.wire_reuse = "None" =>
        \A instances \in [1 .. Instances -> LoadedBits(loaded.num_inputs)] :
            SimdExecute(Lanes, loaded, MakeScheduledPlan(loaded), instances,
                        [w \in Wires(loaded) |-> [t \in 1 .. Lanes |-> TRUE]])
                = [n \in 1 .. Instances |->
                      Execute(Plain, loaded, instances[n], Clean(loaded))]

\* All ways to run an accepted program agree with plain execution: expanded by
\* uncompact, without what layout_pass does not reach, and in SIMD lanes.
ExecutorsAgree == UnreachedIsDead /\ UncompactPreserves /\ SimdComputes
=============================================================================
