-------------------------- MODULE MCChunkedSession --------------------------
(***************************************************************************)
(* Instances of ChunkedSession for TLC.                                    *)
(***************************************************************************)
EXTENDS ChunkedSession, TLC

\* x /\ ~y, with both inputs used by the last gate's cone.
AndNot == [num_wires |-> 4, num_inputs |-> 2,
           gates |-> <<[op |-> "Not", in0 |-> 1, in1 |-> 0, out |-> 2],
                       [op |-> "And", in0 |-> 0, in1 |-> 2, out |-> 3]>>]

MCCircuits == {AndNot}
NoCircuits == {}

SlotSymmetry == Permutations(Slot)
=============================================================================
