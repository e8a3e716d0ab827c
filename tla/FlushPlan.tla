----------------------------- MODULE FlushPlan -----------------------------
(****************************************************************************)
(* plan_flush (ir/session/flush_plan.h): which gates of the recorded chunk  *)
(* a flush must run, and the compacted program that runs them.  Gates carry *)
(* recorder ids; the program's wires are numbered from 0.                   *)
(****************************************************************************)
EXTENDS BooleanProgram

\* wire_to_gate: the ids produced in the chunk.
Local(chunk) == {chunk[i].out : i \in DOMAIN chunk}

\* What the worklist reaches: the least set of gates that has the producers of
\* the ids to keep and, with a gate, the producers of its operands.
Closed(chunk, keep, S) ==
    \A i \in DOMAIN chunk :
        (\/ chunk[i].out \in keep
         \/ \E j \in S : chunk[i].out \in Operands(chunk[j])) => i \in S

Needed(chunk, keep) ==
    {i \in DOMAIN chunk :
        \A S \in SUBSET DOMAIN chunk : Closed(chunk, keep, S) => i \in S}

\* The operands of needed gates that come from outside the chunk.
Imported(chunk, needed) ==
    (UNION {Operands(chunk[i]) : i \in needed}) \ Local(chunk)

\* note_input's first-seen order: operand reads are numbered in emission order
\* of their gates, in0 before in1.
FirstSeen(chunk, needed, v) ==
    LET reads == {2 * i + (IF v = chunk[i].in0 THEN 0 ELSE 1) :
                     i \in {j \in needed : v \in Operands(chunk[j])}}
    IN  CHOOSE r \in reads : \A q \in reads : r <= q

\* The wires [0, num_inputs) are the imported ids, the gates' outputs follow in
\* emission order.
Remap(chunk, needed, ins) ==
    LET first == [v \in ins |-> FirstSeen(chunk, needed, v)]
        input(v) == Cardinality({u \in ins : first[u] < first[v]})
        gate(v) == LET i == CHOOSE i \in needed : chunk[i].out = v
                   IN  Cardinality(ins) + Cardinality({j \in needed : j < i})
    IN  [v \in ins \cup {chunk[i].out : i \in needed} |->
            IF v \in ins THEN input(v) ELSE gate(v)]

\* The needed gate with k needed gates before it.
NeededAt(needed, k) ==
    CHOOSE i \in needed : Cardinality({j \in needed : j < i}) = k

CompactedOneOperand(g, remap) ==
    [op |-> g.op,
     in0 |-> IF IsConst(g) THEN 0 ELSE remap[g.in0],
     in1 |-> IF IsConst(g) \/ IsNot(g) THEN 0 ELSE remap[g.in0],
     out |-> remap[g.out]]

CompactedOneConst(g, remap) ==
    [op |-> IF IsConst(g) THEN "Const0" ELSE g.op,
     in0 |-> IF IsConst(g) THEN 0 ELSE remap[g.in0],
     in1 |-> IF IsConst(g) \/ IsNot(g) THEN 0 ELSE remap[g.in1],
     out |-> remap[g.out]]

Compacted(g, remap) ==
    [op |-> g.op,
     in0 |-> IF IsConst(g) THEN 0 ELSE remap[g.in0],
     in1 |-> IF IsConst(g) \/ IsNot(g) THEN 0 ELSE remap[g.in1],
     out |-> remap[g.out]]

PlanOk(ins, materialized) == ins \subseteq materialized

\* FlushPlan: the ids to keep that are pending are the outputs (as a function
\* from id to wire: their order and their repetitions do not matter to a flush).
\* A plan that is not ok is never used.
PlanFlush(chunk, keep, materialized) ==
    LET needed == Needed(chunk, keep)
        ins == Imported(chunk, needed)
        remap == Remap(chunk, needed, ins)
        n == Cardinality(ins)
        m == Cardinality(needed)
    IN  [ok |-> PlanOk(ins, materialized),
         input_ids |-> [k \in 1 .. n |-> CHOOSE v \in ins : remap[v] = k - 1],
         prog |-> [num_wires |-> n + m,
                   num_inputs |-> n,
                   gates |-> [k \in 1 .. m |->
                                 Compacted(chunk[NeededAt(needed, k - 1)], remap)]],
         outputs |-> [id \in keep \cap Local(chunk) |-> remap[id]]]
=============================================================================
