----------------------------- MODULE Composition -----------------------------
(******************************************************************************)
(* One body that calls compiled circuits, on two contexts at once: ComposeCtx *)
(* (ir/context/compose.h) records each call as an opaque instance, RecordCtx  *)
(* inlines it gate by gate (frontend::run in circuits/frontend/circuit_fn.h). *)
(* flatten_compose then has to give back the inlined program's function.      *)
(******************************************************************************)
EXTENDS IRPasses

CONSTANTS Units,       \* circuits a body may call: program, signature, value types
          ArgWidths,   \* widths of the body's own arguments, in order
          GlueOps,         \* glue gates a body may emit
          MaxEvents,   \* bound on glue gates and calls together
          ComposeMaxId        \* UINT32_MAX

\* The signature fits the program; the declared value types fit the signature.
ValidateArtifact(a) ==
    /\ ValidateProgram(a.program)
    /\ SumFunction(a.arg_widths) = a.program.num_inputs
    /\ a.return_width = Len(a.program.outputs)

IsCircuit(a) ==
    /\ ValidateArtifact(a)
    /\ a.arg_widths = a.arg_types
    /\ a.return_width = a.ret_type

ASSUME CompositionAssumption ==
    /\ \A a \in Units : IsCircuit(a)
    /\ GlueOps \subseteq Op
    /\ {MaxEvents, ComposeMaxId} \subseteq Nat

VARIABLES composePlan,     \* ComposeCtx: events, next_id, constants, inputs_closed
          inline,   \* RecordCtx: gates, next_id, constants
          composeArgs,     \* arguments reserved so far
          wire,     \* the RecordCtx wire of each composition id
          composeStatus    \* "recording", "finished" or "failed"

composeVars == <<composePlan, inline, composeArgs, wire, composeStatus>>

NoComposeConst == [b \in BOOLEAN |-> -1]

ComposeInit ==
    /\ composePlan = [num_inputs |-> 0, next_id |-> 0, events |-> <<>>, const |-> NoComposeConst,
               inputs_closed |-> FALSE, outputs |-> <<>>]
    /\ inline = [num_inputs |-> 0, next_id |-> 0, gates |-> <<>>, const |-> NoComposeConst]
    /\ composeArgs = 0
    /\ wire = <<>>
    /\ composeStatus = "recording"

ComposeFail == composeStatus' = "failed" /\ UNCHANGED <<composePlan, inline, composeArgs, wire>>

\* compose() and compile() reserve one window per argument, left to right.
MakeArg ==
    /\ composeStatus = "recording"
    /\ composeArgs < Len(ArgWidths)
    /\ LET n == ArgWidths[composeArgs + 1]
       IN  IF composePlan.inputs_closed \/ n = 0 \/ n > ComposeMaxId - composePlan.next_id
           THEN ComposeFail
           ELSE /\ composePlan' = [composePlan EXCEPT !.num_inputs = @ + n, !.next_id = @ + n]
                /\ inline' = [inline EXCEPT !.num_inputs = @ + n, !.next_id = @ + n]
                /\ wire' = wire @@ [w \in composePlan.next_id .. composePlan.next_id + n - 1 |->
                                       inline.next_id + (w - composePlan.next_id)]
                /\ composeArgs' = composeArgs + 1
                /\ UNCHANGED composeStatus

\* The gate calls of RecordCtx: a fresh wire, or the constant already there.
RecordGate(r, op, a, b) ==
    [r EXCEPT !.gates = Append(@, [op |-> op, in0 |-> a, in1 |-> b, out |-> r.next_id]),
              !.next_id = @ + 1]

ConstOf(op) == op = "Const1"

RecordConst(r, op) ==
    IF r.const[ConstOf(op)] >= 0 THEN r
    ELSE [RecordGate(r, op, 0, 0) EXCEPT !.const[ConstOf(op)] = r.next_id]

\* frontend::run on RecordCtx: execute_program with wires that are ids.
InlineStep(s, g) ==
    LET r == IF IsConst(g) THEN RecordConst(s.rec, g.op)
             ELSE RecordGate(s.rec, g.op, s.w[g.in0], IF IsNot(g) THEN 0 ELSE s.w[g.in1])
        out == IF IsConst(g) THEN r.const[ConstOf(g.op)] ELSE s.rec.next_id
    IN  [rec |-> r, w |-> (g.out :> out) @@ s.w]

RunInline(r, p, ids) ==
    FoldLeft(InlineStep, [rec |-> r, w |-> [j \in 0 .. p.num_inputs - 1 |-> ids[j + 1]]],
             p.gates)

\* Glue: and_gate, xor_gate, not_gate of the body's own.
Glue(op, a, b) ==
    /\ composeStatus = "recording"
    /\ Len(composePlan.events) < MaxEvents
    /\ IF composePlan.next_id = ComposeMaxId
       THEN ComposeFail
       ELSE LET g == [op |-> op, in0 |-> a, in1 |-> b, out |-> composePlan.next_id]
            IN  /\ composePlan' = [composePlan EXCEPT !.events = Append(@, [gate |-> g, call |-> <<>>]),
                                        !.next_id = @ + 1, !.inputs_closed = TRUE]
                /\ inline' = RecordGate(inline, op, wire[a], IF op = "Not" THEN 0 ELSE wire[b])
                /\ wire' = wire @@ (composePlan.next_id :> inline.next_id)
                /\ UNCHANGED <<composeArgs, composeStatus>>

\* public_bit, deduplicated by each context on its own.
ComposePublicBit(op) ==
    /\ composeStatus = "recording"
    /\ Len(composePlan.events) < MaxEvents
    /\ composePlan.const[ConstOf(op)] < 0
    /\ IF composePlan.next_id = ComposeMaxId
       THEN ComposeFail
       ELSE LET g == [op |-> op, in0 |-> 0, in1 |-> 0, out |-> composePlan.next_id]
                r == RecordConst(inline, op)
            IN  /\ composePlan' = [composePlan EXCEPT !.events = Append(@, [gate |-> g, call |-> <<>>]),
                                        !.next_id = @ + 1, !.inputs_closed = TRUE,
                                        !.const[ConstOf(op)] = composePlan.next_id]
                /\ inline' = r
                /\ wire' = wire @@ (composePlan.next_id :> r.const[ConstOf(op)])
                /\ UNCHANGED <<composeArgs, composeStatus>>

\* call_unit on ComposeCtx, and the same call inlined on RecordCtx.
CallUnit(a, in) ==
    /\ composeStatus = "recording"
    /\ Len(composePlan.events) < MaxEvents
    /\ LET p == a.program
           outs == [k \in DOMAIN p.outputs |-> composePlan.next_id + k - 1]
           run == RunInline(inline, p, [j \in DOMAIN in |-> wire[in[j]]])
           call == [unit |-> p, in_ids |-> in, out_ids |-> outs]
       IN  IF Len(outs) > ComposeMaxId - composePlan.next_id
           THEN ComposeFail
           ELSE /\ composePlan' = [composePlan EXCEPT
                               !.events = Append(@, [gate |-> <<>>, call |-> call]),
                               !.next_id = @ + Len(outs), !.inputs_closed = TRUE]
                /\ inline' = run.rec
                /\ wire' = wire @@ [w \in Range(outs) |->
                                        run.w[p.outputs[w - composePlan.next_id + 1]]]
                /\ UNCHANGED <<composeArgs, composeStatus>>

ComposeFinish(outputs) ==
    /\ composeStatus = "recording"
    /\ composeArgs = Len(ArgWidths)
    /\ composePlan' = [composePlan EXCEPT !.outputs = outputs]
    /\ composeStatus' = "finished"
    /\ UNCHANGED <<inline, composeArgs, wire>>

HeldIds == DOMAIN wire

ComposeNext ==
    \/ MakeArg
    \/ \E op \in GlueOps \cap {"And", "Xor"}, a, b \in HeldIds :
           composeArgs = Len(ArgWidths) /\ a <= b /\ Glue(op, a, b)
    \/ \E a \in HeldIds : composeArgs = Len(ArgWidths) /\ "Not" \in GlueOps /\ Glue("Not", a, 0)
    \/ \E op \in GlueOps \cap {"Const0", "Const1"} : composeArgs = Len(ArgWidths) /\ ComposePublicBit(op)
    \/ \E a \in Units :
           /\ composeArgs = Len(ArgWidths)
           /\ \E in \in [1 .. a.program.num_inputs -> HeldIds] : CallUnit(a, in)
    \/ \E o \in HeldIds : ComposeFinish(<<o>>)

ComposeSpec == ComposeInit /\ [][ComposeNext]_composeVars

-----------------------------------------------------------------------------
\* flatten_compose: glue gates are renumbered through cmap, a call's gates
\* through a map of its own that starts at the wired ids.
FlattenGate(s, map, g) == Renamed(g, map, composePlan.num_inputs + Len(s))

\* Mutant: the first writer of a reused unit id wins.
FlattenUnitFirst(s, call) ==
    LET Step(t, g) ==
            LET ng == FlattenGate(t.gates, t.umap, g)
            IN  [gates |-> Append(t.gates, ng), umap |-> t.umap @@ (g.out :> ng.out)]
        done == FoldLeft(Step, [gates |-> s.gates,
                                umap |-> [j \in 0 .. call.unit.num_inputs - 1 |->
                                             s.cmap[call.in_ids[j + 1]]]],
                         call.unit.gates)
    IN  [gates |-> done.gates,
         cmap |-> s.cmap @@ [w \in Range(call.out_ids) |->
                     done.umap[call.unit.outputs[w - call.out_ids[1] + 1]]]]

FlattenUnit(s, call) ==
    LET Step(t, g) ==
            LET ng == FlattenGate(t.gates, t.umap, g)
            IN  [gates |-> Append(t.gates, ng), umap |-> (g.out :> ng.out) @@ t.umap]
        done == FoldLeft(Step, [gates |-> s.gates,
                                umap |-> [j \in 0 .. call.unit.num_inputs - 1 |->
                                             s.cmap[call.in_ids[j + 1]]]],
                         call.unit.gates)
    IN  [gates |-> done.gates,
         cmap |-> s.cmap @@ [w \in Range(call.out_ids) |->
                     done.umap[call.unit.outputs[w - call.out_ids[1] + 1]]]]

FlattenEvent(s, ev) ==
    IF ev.call = <<>>
    THEN LET ng == FlattenGate(s.gates, s.cmap, ev.gate)
         IN  [gates |-> Append(s.gates, ng), cmap |-> s.cmap @@ (ev.gate.out :> ng.out)]
    ELSE FlattenUnit(s, ev.call)

FlattenCompose ==
    LET done == FoldLeft(FlattenEvent,
                         [gates |-> <<>>, cmap |-> [w \in 0 .. composePlan.num_inputs - 1 |-> w]],
                         composePlan.events)
    IN  [num_inputs |-> composePlan.num_inputs, num_wires |-> composePlan.num_inputs + Len(done.gates),
         wire_reuse |-> "None", gates |-> done.gates,
         outputs |-> [i \in DOMAIN composePlan.outputs |-> done.cmap[composePlan.outputs[i]]]]

InlineProgram ==
    [num_inputs |-> inline.num_inputs, num_wires |-> inline.next_id, wire_reuse |-> "None",
     gates |-> inline.gates, outputs |-> [i \in DOMAIN composePlan.outputs |-> wire[composePlan.outputs[i]]]]

Results0(p, inputs) == Execute(Plain, p, inputs, [w \in Wires(p) |-> FALSE])

\* Recording a body for a flattening backend and inlining it give the same
\* function at the same price: both programs are valid and dense, agree on every
\* input, units that reuse wire ids or return an argument included, and have the
\* same ANDs; only constants repeat, which flatten_compose does not share between
\* units and RecordCtx does.
FlattenIsInline ==
    composeStatus = "finished" =>
        LET flat == FlattenCompose
            f == CountPass(flat)
            i == CountPass(InlineProgram)
        IN  /\ ValidateProgram(flat)
            /\ ValidateProgram(InlineProgram)
            /\ \A inputs \in [1 .. composePlan.num_inputs -> BOOLEAN] :
                   Results0(flat, inputs) = Results0(InlineProgram, inputs)
            /\ f.ands = i.ands /\ f.xors = i.xors /\ f.nots = i.nots
            /\ f.consts >= i.consts
=============================================================================
