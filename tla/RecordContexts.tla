--------------------------- MODULE RecordContexts ---------------------------
(*****************************************************************************)
(* One circuit body run on three recording contexts at once: RecordCtx       *)
(* (ir/context/record.h) builds the program, DigestCtx (digest.h) hashes     *)
(* the stream and CountCtx (count.h) counts it.  The body is any sequence of *)
(* legal calls; finish() hands out the program, which a cached plan of an    *)
(* earlier program may then be used to execute.                              *)
(*****************************************************************************)
EXTENDS IRPasses

CONSTANTS MaxId,        \* UINT32_MAX: the last wire id is MaxId - 1
          Widths,       \* the argument widths a body may ask for
          RecordOps,          \* the gates a body may emit
          MaxGates,     \* bound on the gates of a body
          CachedGates,  \* and of one whose plan is kept, or that follows it
          MaxArgs,      \* bound on external_input calls of one body
          MaxOutputs,   \* bound on the outputs of one body
          MaxBodies     \* bound on the bodies recorded one after another

ASSUME RecordAssumption ==
    /\ {MaxId, MaxGates, CachedGates, MaxArgs, MaxOutputs, MaxBodies} \subseteq Nat
    /\ Widths \subseteq Nat
    /\ RecordOps \subseteq Op

VARIABLES rec,      \* RecordCtx
          dig,      \* DigestCtx
          cnt,      \* CountCtx
          args,     \* external_input calls so far
          status,   \* "recording", "finished" or "failed" (error() was called)
          prog,     \* the program finish() returned
          cached,     \* a ScheduledPlan cached from an earlier body, or NoPlan
          bodies    \* bodies finished so far

recordVars == <<rec, dig, cnt, args, status, prog, cached, bodies>>

NoConst == [b \in BOOLEAN |-> -1]
NoPlan == [digest |-> <<>>]
NoProgram == [num_wires |-> 0, num_inputs |-> 0, wire_reuse |-> "None",
              gates |-> <<>>, outputs |-> <<>>]

NewRecordCtx == [next_id |-> 0, num_inputs |-> 0, const |-> NoConst,
                 inputs_closed |-> FALSE, gates |-> <<>>]
NewDigestCtx == [next_id |-> 0, const |-> NoConst, digest |-> <<>>]
NewCountCtx == [ands |-> 0, xors |-> 0, nots |-> 0, consts |-> 0,
                seen |-> [b \in BOOLEAN |-> FALSE]]

RecordInit ==
    /\ rec = NewRecordCtx
    /\ dig = NewDigestCtx
    /\ cnt = NewCountCtx
    /\ args = 0
    /\ status = "recording"
    /\ prog = NoProgram
    /\ cached = NoPlan
    /\ bodies = 0

-----------------------------------------------------------------------------
\* The effect of one call on each context, when no check of it fails.
ReserveRec(r, n) == [r EXCEPT !.next_id = @ + n, !.num_inputs = @ + n]
ReserveDig(d, n) == [d EXCEPT !.next_id = @ + n, !.digest = @ \o <<"E", n>>]

EmitRec(r, g) ==
    [r EXCEPT !.inputs_closed = TRUE, !.next_id = @ + 1, !.gates = Append(@, g)]
\* Mutant: the output id is not mixed in.
EmitDigShort(d, g) ==
    [d EXCEPT !.next_id = @ + 1, !.digest = @ \o <<g.op, g.in0, g.in1>>]

EmitDig(d, g) ==
    [d EXCEPT !.next_id = @ + 1,
              !.digest = @ \o <<g.op, g.in0, g.in1, d.next_id>>]

Tally(c, op) == CASE op = "And" -> [c EXCEPT !.ands = @ + 1]
                  [] op = "Xor" -> [c EXCEPT !.xors = @ + 1]
                  [] op = "Not" -> [c EXCEPT !.nots = @ + 1]

ConstOp(b) == IF b THEN "Const1" ELSE "Const0"
GateOf(op, a, b) == [op |-> op, in0 |-> a, in1 |-> b, out |-> rec.next_id]

GateBound == IF cached = NoPlan THEN MaxGates ELSE CachedGates

Fail == status' = "failed" /\ UNCHANGED <<rec, dig, cnt, args, prog, cached, bodies>>

\* external_input(n): refused after a gate, for width zero and at the id limit.
ExternalInput(n) ==
    /\ status = "recording"
    /\ args < MaxArgs
    /\ IF rec.inputs_closed \/ n = 0 \/ n > MaxId - rec.next_id
       THEN Fail
       ELSE /\ rec' = ReserveRec(rec, n)
            /\ dig' = ReserveDig(dig, n)
            /\ args' = args + 1
            /\ UNCHANGED <<cnt, status, prog, cached, bodies>>

\* and_gate, xor_gate, not_gate on wires the body holds; alloc_ may overflow.
EmitGate(op, a, b) ==
    /\ status = "recording"
    /\ Len(rec.gates) < GateBound
    /\ IF rec.next_id = MaxId
       THEN Fail
       ELSE /\ rec' = EmitRec(rec, GateOf(op, a, b))
            /\ dig' = EmitDig(dig, GateOf(op, a, b))
            /\ cnt' = Tally(cnt, op)
            /\ UNCHANGED <<args, status, prog, cached, bodies>>

\* public_bit(v): one constant gate per value; later calls return its wire.
PublicBit(v) ==
    /\ status = "recording"
    /\ Len(rec.gates) < GateBound
    /\ ConstOp(v) \in RecordOps
    /\ rec.const[v] < 0
    /\ IF rec.next_id = MaxId
       THEN Fail
       ELSE LET g == GateOf(ConstOp(v), 0, 0)
            IN  /\ rec' = [EmitRec(rec, g) EXCEPT !.const[v] = g.out]
                /\ dig' = [EmitDig(dig, g) EXCEPT !.const[v] = dig.next_id]
                /\ cnt' = IF cnt.seen[v] THEN cnt
                          ELSE [cnt EXCEPT !.consts = @ + 1, !.seen[v] = TRUE]
                /\ UNCHANGED <<args, status, prog, cached, bodies>>

FinishedProgram(outputs) ==
    [num_wires |-> rec.next_id, num_inputs |-> rec.num_inputs, wire_reuse |-> "None",
     gates |-> rec.gates, outputs |-> outputs]

\* finish(outputs): the program, once it validates.
Finish(outputs) ==
    /\ status = "recording"
    /\ IF ValidateProgram(FinishedProgram(outputs))
       THEN /\ prog' = FinishedProgram(outputs)
            /\ status' = "finished"
            /\ UNCHANGED <<rec, dig, cnt, args, cached, bodies>>
       ELSE Fail

\* The caller keeps the plan of this program and records another body.
CachePlan ==
    /\ status = "finished"
    /\ bodies + 1 < MaxBodies /\ Len(prog.gates) <= CachedGates
    /\ cached' = MakeScheduledPlan(prog)
    /\ bodies' = bodies + 1
    /\ rec' = NewRecordCtx
    /\ dig' = NewDigestCtx
    /\ cnt' = NewCountCtx
    /\ args' = 0
    /\ prog' = NoProgram
    /\ status' = "recording"

\* And and Xor are symmetric: a body gives their operands in increasing order.
Held == 0 .. rec.next_id - 1
OutputLists == UNION {[1 .. n -> Held] : n \in 1 .. MaxOutputs}

RecordNext ==
    \/ \E n \in Widths : ExternalInput(n)
    \/ \E op \in RecordOps \cap {"And", "Xor"}, a, b \in Held : a <= b /\ EmitGate(op, a, b)
    \/ \E a \in Held : "Not" \in RecordOps /\ EmitGate("Not", a, 0)
    \/ \E v \in BOOLEAN : PublicBit(v)
    \/ \E outputs \in OutputLists : Finish(outputs)
    \/ CachePlan

RecordSpec == RecordInit /\ [][RecordNext]_recordVars

-----------------------------------------------------------------------------

\* A body that calls the context legally always ends in a program: finish()
\* rejects no choice of outputs among the wires handed out, and the ids are dense
\* and monotonic in emission order, as program.h says of WireReuse::None.
FinishAccepts ==
    /\ \A outputs \in OutputLists : ValidateProgram(FinishedProgram(outputs))
    /\ \A k \in DOMAIN rec.gates : rec.gates[k].out = rec.num_inputs + k - 1

\* A body runs alike on the three contexts: the wire numbering, the shared
\* constants and, when its inputs are one argument, the streamed digest and
\* the counts are those of the recorded program.
ContextsAgree ==
    /\ dig.next_id = rec.next_id
    /\ dig.const = rec.const
    /\ args = 1 => dig.digest = DigestProgram(FinishedProgram(<<>>))
    /\ [ands |-> cnt.ands, xors |-> cnt.xors, nots |-> cnt.nots, consts |-> cnt.consts]
           = CountPass(FinishedProgram(<<>>))

Bits(n) == [1 .. n -> BOOLEAN]
Stale(p) == {[w \in Wires(p) |-> b] : b \in BOOLEAN}
Computes(p, inputs) == Execute(Plain, p, inputs, [w \in Wires(p) |-> FALSE])

\* make_compact changes slots, never results: at both levels the compacted
\* program validates, computes what the dense one does whatever an earlier
\* execution left in the workspace, and uncompact gives the dense one back.
CompactPreserves ==
    status = "finished" =>
        \A target \in {"Linear", "Full"} :
            LET c == MakeCompact(prog, target)
            IN  /\ ValidateProgram(c)
                /\ Uncompact(c) = prog
                /\ \A inputs \in Bits(prog.num_inputs), scratch \in Stale(c) :
                       Execute(Plain, c, inputs, scratch) = Computes(prog, inputs)

\* Under Linear no later gate writes the slot of an And output, so a pass that
\* stored a value there finds it again (program.h, make_compact).
LinearPinsAnds ==
    status = "finished" =>
        LET c == MakeCompact(prog, "Linear")
        IN  \A k \in Gates(c) :
                c.gates[k].op = "And" =>
                    \A j \in Gates(c) \ {k} : c.gates[j].out # c.gates[k].out

\* peak_live_wires counts what the free lists of layout_pass leave alive while
\* each gate runs, and no compaction of the program fits in fewer slots.
PeakIsTight ==
    status = "finished" =>
        LET frees == Frees(prog)
            last == LastUse(prog)
            born(k) == {w \in Written(prog, k - 1) : last[w] # 0 \/ w \in Outputs(prog)}
            alive(k) == Cardinality(born(k) \ UNION {frees[j] : j \in 1 .. k - 1}) + 1
            start == Cardinality(born(1))
        IN  /\ PeakLiveWires(prog) = Max({start} \cup {alive(k) : k \in Gates(prog)})
            /\ PeakLiveWires(prog) <= MakeCompact(prog, "Full").num_wires

\* Replaying by AND-depth gives the same outputs as emission order: all the ANDs
\* of a level may be issued together (make_scheduled_plan, and_many).
ScheduledComputes ==
    status = "finished" =>
        \A inputs \in Bits(prog.num_inputs), scratch \in Stale(prog) :
            ScheduledExecute(Plain, prog, MakeScheduledPlan(prog), inputs, scratch)
                = Computes(prog, inputs)

\* A debug build never runs a program through the plan of another: a cached plan
\* that passes the guard is the program's own.
DebugGuardExact ==
    status = "finished" /\ cached # NoPlan /\ PlanMatches(prog, cached, TRUE)
        => cached = MakeScheduledPlan(prog)

\* Every legal sequence of calls is a program: finish() accepts it, and the three
\* contexts saw the same one.
BodiesAlike == FinishAccepts /\ ContextsAgree

\* The passes keep what a finished program computes: compaction at both levels and
\* scheduled replay give its outputs, the peak is the true one, and a debug build
\* takes no other program's plan (transform.h, schedule.h, passes.h).
PassesSound ==
    /\ CompactPreserves
    /\ LinearPinsAnds
    /\ PeakIsTight
    /\ ScheduledComputes
    /\ DebugGuardExact
=============================================================================
