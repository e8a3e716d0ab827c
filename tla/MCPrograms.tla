----------------------------- MODULE MCPrograms -----------------------------
(*****************************************************************************)
(* The life of a Boolean program, for TLC: recorded and transformed          *)
(* (RecordContexts), composed of units (Composition), planned chunk by chunk *)
(* (FlushPlan), read from a file (LoadedPrograms) and saved to one (Empbc).  *)
(* The five do not share state, so a behaviour runs one of them, and the     *)
(* others stay in their initial state.                                       *)
(*****************************************************************************)
EXTENDS RecordContexts, LoadedPrograms, Composition, Empbc, FlushPlan

CONSTANTS
    Imports,      \* ids 1 .. Imports are carried over from earlier chunks,
    StaleIds,     \* and those in StaleIds have no value
    ChunkGates,   \* bound: gates of a chunk
    ChunkOps      \* and what they are

VARIABLES at,     \* which of them runs
          body    \* the chunk that plan_flush is called on

-----------------------------------------------------------------------------
G(op, a, b, o) == [op |-> op, in0 |-> a, in1 |-> b, out |-> o]
P(n, w, reuse, gates, outputs) ==
    [num_inputs |-> n, num_wires |-> w, wire_reuse |-> reuse, gates |-> gates,
     outputs |-> outputs]

\* Units for Composition: one whose Linear compaction reuses a slot and returns an
\* argument untouched, and one that uses a constant.
Artifact(p, widths) ==
    [program |-> p, arg_widths |-> widths, return_width |-> Len(p.outputs),
     arg_types |-> widths, ret_type |-> Len(p.outputs)]
Chain == P(2, 6, "None", <<G("Not", 0, 0, 2), G("Xor", 2, 1, 3), G("Not", 3, 0, 4), G("And", 4, 0, 5)>>, <<5, 1>>)
Masked == P(1, 3, "None", <<G("Const1", 0, 0, 1), G("Xor", 0, 1, 2)>>, <<2>>)

MCUnits == {Artifact(MakeCompact(Chain, "Linear"), <<1, 1>>), Artifact(Masked, <<1>>)}
MCArgWidths == <<1, 1>>

\* Programs for Empbc: two of the same size, one that reuses an id, one with the
\* first number of wires that needs 32-bit indices and one just below it, and one
\* without gates.
MCFiles ==
    {Masked,
     P(1, 3, "None", <<G("Not", 0, 0, 1), G("And", 1, 1, 2)>>, <<1>>),
     P(1, 2, "Full", <<G("Not", 0, 0, 1), G("Xor", 0, 1, 1)>>, <<1, 0>>),
     P(24, 25, "None", <<G("And", 23, 7, 24)>>, <<24>>),
     P(24, 26, "None", <<G("And", 23, 7, 24), G("Not", 24, 0, 25)>>, <<25>>),
     P(2, 2, "None", <<>>, <<>>)}

(***************************************************************************)
(* Chunks as the recorder writes them, for plan_flush                      *)
(***************************************************************************)
Materialized == 1 .. Imports \ StaleIds
NextOut == Imports + Len(body) + 1

ChunkInit == body = <<>>

\* A gate as the recorder writes it: unused operands are 0.
Record(op, a, b) ==
    /\ Len(body) < ChunkGates
    /\ body' = Append(body, [op |-> op, in0 |-> a, in1 |-> b, out |-> NextOut])

ChunkNext ==
    \E op \in ChunkOps, a, b \in 0 .. NextOut - 1 :
        /\ op \in {"Const0", "Const1"} => a = 0
        /\ op \in {"Const0", "Const1", "Not"} => b = 0
        /\ op \in {"And", "Xor"} => a # 0 /\ b # 0
        /\ op = "Not" => a # 0
        /\ Record(op, a, b)

ChunkSpec == ChunkInit /\ [][ChunkNext]_body

-----------------------------------------------------------------------------
\* A candidate of LoadedPrograms whose output no gate writes.
Unwritten == P(CHOOSE n \in NumInputs : TRUE, NumWires, "None", <<>>, <<NumWires - 1>>)

Init ==
    /\ at \in {"record", "compose", "chunk", "load", "save"}
    /\ RecordInit /\ ComposeInit /\ ChunkInit
    /\ LoadedInit /\ (at # "load" => loaded = Unwritten)
    /\ FileInit /\ (at # "save" => saved = Masked)

Next ==
    /\ \/ at = "record" /\ RecordNext /\ UNCHANGED <<composeVars, body, loaded, fileVars>>
       \/ at = "compose" /\ ComposeNext /\ UNCHANGED <<recordVars, body, loaded, fileVars>>
       \/ at = "chunk" /\ ChunkNext /\ UNCHANGED <<recordVars, composeVars, loaded, fileVars>>
       \/ at = "load" /\ LoadedNext /\ UNCHANGED <<recordVars, composeVars, body, fileVars>>
       \/ at = "save" /\ FileNext /\ UNCHANGED <<recordVars, composeVars, body, loaded>>
    /\ UNCHANGED at

Spec == Init /\ [][Next]_<<at, recordVars, composeVars, body, loaded, fileVars>>

-----------------------------------------------------------------------------
Keeps == SUBSET Local(body) \ {{}}
Plan(keep) == PlanFlush(body, keep, Materialized)
Position(v) == v - Imports

\* The value of a recorded id from the bits of the imported ones, and whether
\* it has one, gate by gate with no planning.
ValueOf(bits) ==
    LET value[i \in DOMAIN body] ==
            LET g == body[i]
                of(v) == IF v \in 1 .. Imports THEN bits[v] ELSE value[Position(v)]
            IN  IF IsConst(g) THEN Apply(g.op, FALSE, FALSE)
                ELSE IF IsNot(g) THEN ~of(g.in0)
                ELSE Apply(g.op, of(g.in0), of(g.in1))
    IN  value

HasValue ==
    LET has[i \in DOMAIN body] ==
            \A v \in Operands(body[i]) :
                IF v \in 1 .. Imports THEN v \in Materialized ELSE has[Position(v)]
    IN  has

\* What plan_flush hands to the engine is canonical, whatever part of the chunk
\* is kept: a valid dense program whose k-th gate writes wire num_inputs + k - 1.
PlanCanonical ==
    \A keep \in Keeps :
        LET plan == Plan(keep)
            p == plan.prog
        IN  plan.ok =>
                /\ ValidDense(p)
                /\ \A k \in DOMAIN p.gates : p.gates[k].out = p.num_inputs + k - 1

\* Dead-code elimination is complete: every gate and every input of a plan is
\* read by one of its gates or is one of its outputs (plan_flush).
PlanHasNoDeadWire ==
    \A keep \in Keeps :
        LET plan == Plan(keep)
        IN  plan.ok =>
                \A v \in Wires(plan.prog) :
                    \/ \E k \in DOMAIN plan.prog.gates :
                           v \in Operands(plan.prog.gates[k])
                    \/ \E id \in DOMAIN plan.outputs : plan.outputs[id] = v

\* A plan is refused exactly when a kept id depends on a wire without a value;
\* dead gates over stale wires do not spoil a flush (plan_flush's ok).
RefusedIffStale ==
    \A keep \in Keeps :
        Plan(keep).ok <=> \A id \in keep : HasValue[Position(id)]

\* Dropping, renumbering and reordering inputs preserve meaning: a run of the
\* plan on the carried bits gives every kept id the value that evaluating the
\* chunk in place gives it (plan_flush's remap).
PlanComputes ==
    \A keep \in Keeps :
        LET plan == Plan(keep)
        IN  plan.ok =>
                \A bits \in [1 .. Imports -> BOOLEAN] :
                    LET value == ValueOf(bits)
                        runs == Runs(plan.prog, [k \in DOMAIN plan.input_ids |->
                                                    bits[plan.input_ids[k]]])
                    IN  /\ runs # {}
                        /\ \A w \in runs, id \in keep :
                               w[plan.outputs[id]] = value[Position(id)]

\* plan_flush is exact: refused only for a missing value, else a canonical program
\* without dead wires that computes what the chunk means.
PlanExact == PlanCanonical /\ PlanHasNoDeadWire /\ RefusedIffStale /\ PlanComputes
=============================================================================
