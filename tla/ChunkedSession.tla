--------------------------- MODULE ChunkedSession ---------------------------
(****************************************************************************)
(* The direct session of the crypto protocols: ChunkRecorderCtx records     *)
(* gates without running them (ir/session/chunk_recorder.h) and             *)
(* ChunkedSession runs what is still wanted at a reveal or a checkpoint     *)
(* (ir/session/chunked_session.h, flush_plan.h).  What is still wanted is   *)
(* known from reference counts: a wire is in scope while a C++ variable     *)
(* (a slot) holds its id.  Values are one wire wide.  The hooks of Derived, *)
(* which authenticate inputs, run a program and decode outputs, belong to   *)
(* the protocol: they are modelled by their effect on the carried bits.     *)
(****************************************************************************)
EXTENDS FlushPlan

CONSTANTS
    Slot,         \* C++ variables of the authoring program
    UINT32_MAX,   \* the recorder id that is never given out
    Defers,       \* Derived has the materialize_deferred_inputs_ hook
    Circuits,     \* compiled programs that run() may be given
    Calls         \* which calls the authoring program makes

ASSUME ConstantsOK ==
    /\ IsFiniteSet(Slot)
    /\ UINT32_MAX \in Nat \ {0}
    /\ Defers \in BOOLEAN

\* Compiled programs are validated: at least one wire, every wire computed once,
\* so that the inputs decide the run.
ASSUME CircuitsOK ==
    \A c \in Circuits :
        /\ c \in Program /\ c.num_wires > 0
        /\ \A in \in [1 .. c.num_inputs -> BOOLEAN] :
               \A w1, w2 \in Runs(c, in) : w1 = w2

VARIABLES
    wire,        \* slot -> ChunkWire::id, 0 for the null wire
    rc,          \* rc_: id -> reference count; ids are 1 .. Len(rc)
    chunk,       \* chunk_gates_: gates recorded and not run
    constWire,   \* const_wire_: the chunk's Const0 and Const1 ids, 0 for none
    carried,     \* Derived's state: id -> bit, for the materialized ids
    deferred,    \* inputs taken in, not yet authenticated: id -> bit
    batch,       \* the InputBatch: its state and its entries, id -> bit
    shown,       \* what the last call returned, if it was a reveal
    status       \* "open", "closed" by the destructor, "failed" by error()

\* History, read by no action: the plaintext of every id, and the ids whose value
\* the program gave up or never had.
VARIABLES clear, lost

recorder == <<rc, chunk, constWire>>
session == <<carried, deferred>>
history == <<clear, lost>>
vars == <<wire, recorder, session, batch, shown, status, history>>

\* An optional bit: a set of at most one.
Optional == {{}, {FALSE}, {TRUE}}
Empty == [id \in {} |-> FALSE]

\* f with the bindings of g added; g's win.
Extend(f, g) == [id \in DOMAIN f \cup DOMAIN g |->
                    IF id \in DOMAIN g THEN g[id] ELSE f[id]]
Only(f, S) == [id \in DOMAIN f \cap S |-> f[id]]

Pending == Local(chunk)
InScope == {id \in DOMAIN rc : rc[id] > 0}
LivePending == Pending \cap InScope
NextId == Len(rc) + 1

Init ==
    /\ wire = [s \in Slot |-> 0]
    /\ rc = <<>>
    /\ chunk = <<>>
    /\ constWire = [v \in BOOLEAN |-> 0]
    /\ carried = Empty
    /\ deferred = Empty
    /\ batch = [state |-> "none", entries |-> Empty]
    /\ shown = {}
    /\ status = "open"
    /\ clear = <<>>
    /\ lost = {}

\* The recorder and the session are gone.
Gone ==
    /\ rc' = <<>>
    /\ chunk' = <<>>
    /\ constWire' = [v \in BOOLEAN |-> 0]
    /\ carried' = Empty
    /\ deferred' = Empty
    /\ batch' = [state |-> "none", entries |-> Empty]
    /\ shown' = {}
    /\ clear' = <<>>
    /\ lost' = {}

\* error(): the process ends here, and everything with it.
Fail ==
    /\ status' = "failed"
    /\ wire' = [s \in Slot |-> 0]
    /\ Gone

\* A call that returns no revealed value, and returns.
Returns == shown' = {} /\ UNCHANGED status

-----------------------------------------------------------------------------
(* Reference counts.                                                        *)

\* chunk_unpin(old), then chunk_pin(new); id 0 is skipped.
Repin(counts, old, new) ==
    [id \in DOMAIN counts |->
        counts[id] - (IF id = old THEN 1 ELSE 0) + (IF id = new THEN 1 ELSE 0)]

CopyUnbalanced(s, a) ==
    /\ wire' = [wire EXCEPT ![s] = wire[a]]
    /\ rc' = Repin(rc, 0, wire[a])
    /\ Returns /\ UNCHANGED <<chunk, constWire, session, batch, history>>

\* s is move-assigned the temporary wire id returned by a call that left counts.
Assign(s, id, counts) ==
    /\ wire' = [wire EXCEPT ![s] = id]
    /\ rc' = Repin(counts, wire[s], id)

Copy(s, a) ==
    /\ IF wire[s] # wire[a] THEN Assign(s, wire[a], rc) ELSE UNCHANGED <<wire, rc>>
    /\ Returns /\ UNCHANGED <<chunk, constWire, session, batch, history>>

Move(s, a) ==
    /\ s # a
    /\ wire' = [wire EXCEPT ![a] = 0, ![s] = wire[a]]
    /\ rc' = Repin(rc, wire[s], 0)
    /\ Returns /\ UNCHANGED <<chunk, constWire, session, batch, history>>

\* The slot's value leaves scope.
Drop(s) ==
    /\ Assign(s, 0, rc)
    /\ Returns /\ UNCHANGED <<chunk, constWire, session, batch, history>>

-----------------------------------------------------------------------------
(* Recording.                                                               *)

\* alloc_id_() that finds no id left.
Overflow == NextId = UINT32_MAX /\ Fail

\* What the history keeps of a gate over ids a and b.
ClearOf(id) == IF id = 0 THEN {} ELSE clear[id]
ClearGate(op, a, b) ==
    IF op = "Not" THEN {~x : x \in ClearOf(a)}
                  ELSE {Apply(op, x, y) : x \in ClearOf(a), y \in ClearOf(b)}

Remember(value, isLost) ==
    /\ clear' = Append(clear, value)
    /\ lost' = IF isLost THEN lost \cup {NextId} ELSE lost

\* and_gate, xor_gate and not_gate; a not_gate's second operand is a null wire.
\* The operands may be stale or null: that is found out at the flush.
GateOp(s, op, a, b) ==
    LET g == [op |-> op, in0 |-> wire[a], out |-> NextId,
              in1 |-> IF op = "Not" THEN 0 ELSE wire[b]]
    IN  /\ NextId # UINT32_MAX
        /\ chunk' = Append(chunk, g)
        /\ Assign(s, NextId, Append(rc, 0))
        /\ Remember(ClearGate(op, g.in0, g.in1),
                    Operands(g) \cap (lost \cup {0}) # {})
        /\ Returns /\ UNCHANGED <<constWire, session, batch>>

\* public_bit: one constant gate per chunk and value.
ConstOp(v) == IF v THEN "Const1" ELSE "Const0"

NewPublicBit(s, v) ==
    /\ constWire[v] = 0
    /\ NextId # UINT32_MAX
    /\ chunk' = Append(chunk, [op |-> ConstOp(v), in0 |-> 0, in1 |-> 0, out |-> NextId])
    /\ constWire' = [constWire EXCEPT ![v] = NextId]
    /\ Assign(s, NextId, Append(rc, 0))
    /\ Remember({v}, FALSE)
    /\ Returns /\ UNCHANGED <<session, batch>>

SamePublicBit(s, v) ==
    /\ constWire[v] # 0
    /\ Assign(s, constWire[v], rc)
    /\ Returns /\ UNCHANGED <<chunk, constWire, session, batch, history>>

-----------------------------------------------------------------------------
(* Inputs.                                                                  *)

\* authenticate_into_ and batch_authenticate_into_, now or when settled.
Authenticate(bits) ==
    /\ carried' = IF Defers THEN carried ELSE Extend(carried, bits)
    /\ deferred' = IF Defers THEN Extend(deferred, bits) ELSE deferred

Input(s, b) ==
    /\ NextId # UINT32_MAX
    /\ Authenticate([id \in {NextId} |-> b])
    /\ Assign(s, NextId, Append(rc, 0))
    /\ Remember({b}, FALSE)
    /\ Returns /\ UNCHANGED <<chunk, constWire, batch>>

InputBatch ==
    /\ batch.state = "none"
    /\ batch' = [batch EXCEPT !.state = "open"]
    /\ Returns /\ UNCHANGED <<wire, recorder, session, history>>

\* add(): the id is reserved, its bit waits for finish().
BatchAdd(s, b) ==
    /\ batch.state = "open"
    /\ NextId # UINT32_MAX
    /\ batch' = [batch EXCEPT !.entries = Extend(@, [id \in {NextId} |-> b])]
    /\ Assign(s, NextId, Append(rc, 0))
    /\ Remember({b}, FALSE)
    /\ Returns /\ UNCHANGED <<chunk, constWire, session>>

BatchFinish ==
    /\ batch.state = "open"
    /\ batch' = [state |-> "finished", entries |-> Empty]
    /\ Authenticate(batch.entries)
    /\ Returns /\ UNCHANGED <<wire, recorder, history>>

\* add() or finish() on a finished batch.
BatchReused == batch.state = "finished" /\ Fail

\* ~InputBatch
BatchDestroyed ==
    /\ batch.state # "none"
    /\ IF batch.entries = Empty
       THEN /\ batch' = [batch EXCEPT !.state = "none"]
            /\ Returns /\ UNCHANGED <<wire, recorder, session, history>>
       ELSE Fail

-----------------------------------------------------------------------------
(* Flush: run what the ids to keep need, drop the rest of the chunk.        *)

SettledNever == carried

\* settle_deferred_inputs_
Settled == Extend(carried, deferred)

StaleKeep(keep) == ~(keep \subseteq Pending \cup DOMAIN Settled)
Plan(keep) == PlanFlush(chunk, keep, DOMAIN Settled)
Runnable(keep) == keep \cap Pending # {}

\* A wanted id, or an operand of a gate it needs, has no value: error().
FlushFails(keep) == StaleKeep(keep) \/ (Runnable(keep) /\ ~Plan(keep).ok)

\* run_program_into_: the inputs are gathered from the carried bits, and the
\* outputs join them.
Executed(plan) ==
    {Extend(Settled, [id \in DOMAIN plan.outputs |-> w[plan.outputs[id]]]) :
        w \in Runs(plan.prog, [k \in DOMAIN plan.input_ids |->
                                  Settled[plan.input_ids[k]]])}

\* The carried bits a flush that does not fail may leave.
Flushed(keep) ==
    IF StaleKeep(keep) THEN {}
    ELSE IF Runnable(keep)
         THEN LET plan == Plan(keep) IN IF plan.ok THEN Executed(plan) ELSE {}
         ELSE {Settled}

\* drop_chunk, and nothing is left to settle.
DropChunk ==
    /\ deferred' = Empty
    /\ chunk' = <<>>
    /\ constWire' = [v \in BOOLEAN |-> 0]

-----------------------------------------------------------------------------
(* Reveal, checkpoint and run.                                              *)

Held(S) == {wire[s] : s \in S}

RevealKeepOnly(s, K) == {wire[s]} \cup Held(K)

\* reveal(v, recipient, keep...): a party that is no recipient gets no value.
RevealKeep(s, K) == LivePending \cup {wire[s]} \cup Held(K)

Reveal(s, K) ==
    /\ \E c \in Flushed(RevealKeep(s, K)) :
           /\ carried' = c
           /\ shown' \in {{}, {c[wire[s]]}}
    /\ DropChunk
    /\ UNCHANGED <<wire, rc, batch, status, history>>

\* validate_recipient_ refuses the recipient, or the flush fails.
BadRecipient == Fail
RevealFails(s, K) == FlushFails(RevealKeep(s, K)) /\ Fail

CheckpointUnpruned ==
    /\ \E c \in Flushed(LivePending) : carried' = c
    /\ DropChunk
    /\ Returns /\ UNCHANGED <<wire, rc, batch, history>>

\* checkpoint()
Checkpoint ==
    /\ \E c \in Flushed(LivePending) : carried' = Only(c, InScope)
    /\ DropChunk
    /\ Returns /\ UNCHANGED <<wire, rc, batch, history>>

CheckpointKeepUnpruned(K) ==
    /\ K # {}
    /\ \E c \in Flushed(Held(K)) : carried' = c
    /\ DropChunk
    /\ lost' = lost \cup (DOMAIN rc \ (Held(K) \cup DOMAIN batch.entries))
    /\ Returns /\ UNCHANGED <<wire, rc, batch, clear>>

\* checkpoint(keep...)
CheckpointKeep(K) ==
    /\ K # {}
    /\ \E c \in Flushed(Held(K)) : carried' = Only(c, Held(K))
    /\ DropChunk
    /\ lost' = lost \cup (DOMAIN rc \ (Held(K) \cup DOMAIN batch.entries))
    /\ Returns /\ UNCHANGED <<wire, rc, batch, clear>>

CheckpointFails(K) == FlushFails(IF K = {} THEN LivePending ELSE Held(K)) /\ Fail

\* run(circuit, args...) and run_artifact: the chunk is left alone; the last
\* wire of the program is its output.
Unflushed(args) == \E i \in DOMAIN args : wire[args[i]] \notin DOMAIN Settled

ResultFirst(c, w) == w[c.num_inputs]

Result(c, w) == w[c.num_wires - 1]

RunCircuit(s, c, args) ==
    /\ ~Unflushed(args)
    /\ NextId # UINT32_MAX
    /\ \E w \in Runs(c, [i \in DOMAIN args |-> Settled[wire[args[i]]]]) :
           carried' = Extend(Settled, [id \in {NextId} |-> Result(c, w)])
    /\ \E in \in [DOMAIN args -> BOOLEAN] : \E w \in Runs(c, in) :
           /\ \A i \in DOMAIN args : clear[wire[args[i]]] = {in[i]}
           /\ clear' = Append(clear, {w[c.num_wires - 1]})
    /\ deferred' = Empty
    /\ Assign(s, NextId, Append(rc, 0))
    /\ Returns /\ UNCHANGED <<chunk, constWire, batch, lost>>

RunFails(args) == Unflushed(args) /\ Fail

\* ~ChunkRecorderCtx in a build with EMP_CONTEXT_CHECKS.
Teardown ==
    /\ batch.state = "none"
    /\ IF InScope = {}
       THEN status' = "closed" /\ Gone /\ UNCHANGED wire
       ELSE Fail

-----------------------------------------------------------------------------
Ops == {"And", "Xor", "Not"} \cap Calls

SlotStep(s) ==
    \/ "copy" \in Calls /\ \E a \in Slot : Copy(s, a) \/ Move(s, a)
    \/ Drop(s)
    \/ \E op \in Ops, a \in Slot :
           \E b \in (IF op = "Not" THEN {a} ELSE Slot) : GateOp(s, op, a, b)
    \/ "public_bit" \in Calls /\ \E v \in BOOLEAN : NewPublicBit(s, v) \/ SamePublicBit(s, v)
    \/ "input" \in Calls /\ \E v \in BOOLEAN : Input(s, v)
    \/ "batch" \in Calls /\ \E v \in BOOLEAN : BatchAdd(s, v)
    \/ \E c \in Circuits : \E args \in [1 .. c.num_inputs -> Slot] :
           RunCircuit(s, c, args) \/ RunFails(args)
    \/ \E K \in (IF "keep" \in Calls THEN SUBSET (Slot \ {s}) ELSE {{}}) :
           Reveal(s, K) \/ RevealFails(s, K)

SessionStep ==
    \/ Overflow
    \/ "batch" \in Calls /\ (InputBatch \/ BatchFinish \/ BatchReused \/ BatchDestroyed)
    \/ BadRecipient
    \/ Checkpoint \/ CheckpointFails({})
    \/ "keep" \in Calls /\ \E K \in SUBSET Slot : CheckpointKeep(K) \/ CheckpointFails(K)
    \/ Teardown

Next == status = "open" /\ (SessionStep \/ \E s \in Slot : SlotStep(s))

Spec == Init /\ [][Next]_vars

-----------------------------------------------------------------------------
(* Properties.                                                              *)

Bits(f) == DOMAIN f \subseteq DOMAIN rc /\ \A id \in DOMAIN f : f[id] \in BOOLEAN

\* Ids are allocated ids, gates read older ids than they write, and the bit
\* tables are keyed by allocated ids (the recorder's and the session's members).
TypeOK ==
    /\ wire \in [Slot -> Nat]
    /\ rc \in Seq(Int)
    /\ Len(rc) < UINT32_MAX
    /\ chunk \in Seq(Gate)
    /\ constWire \in [BOOLEAN -> 0 .. Len(rc)]
    /\ Bits(carried) /\ Bits(deferred) /\ Bits(batch.entries)
    /\ batch.state \in {"none", "open", "finished"}
    /\ shown \in Optional
    /\ status \in {"open", "closed", "failed"}
    /\ clear \in Seq(Optional) /\ Len(clear) = Len(rc)
    /\ lost \subseteq DOMAIN rc

\* The count of every id is the number of C++ variables that hold it, through
\* copies, moves, self-assignments and the cached constants (ChunkWire): an
\* extra unpin would drop a value in use, a missing one would keep it forever.
RefcountExact ==
    \A id \in DOMAIN rc : rc[id] = Cardinality({s \in Slot : wire[s] = id})

\* ~ChunkRecorderCtx closes the recorder only when no variable holds one of its
\* wires: none is left to unpin in the table of the next recorder.
NoWireOutlives == status = "closed" => \A s \in Slot : wire[s] = 0

\* Where a value can still come from.
Backed == Pending \cup DOMAIN carried \cup DOMAIN deferred \cup DOMAIN batch.entries

\* "Revealing one value never invalidates another you still hold": after any
\* reveal or checkpoint() every id in a variable still has a value or a gate
\* that computes it, and so has every operand of a recorded gate; only an
\* explicit checkpoint(keep...) or a null operand loses one.
HeldIsBacked ==
    /\ \A s \in Slot : wire[s] \in {0} \cup lost \cup Backed
    /\ \A i \in DOMAIN chunk :
           chunk[i].out \in lost \/ Operands(chunk[i]) \subseteq Backed \ lost

\* A wire that was given up, or computed from one, never has a value again: use
\* after checkpoint(keep...) ends in error(), never in a wrong bit (flush_).
StaleIsLoud == lost \cap (DOMAIN carried \cup DOMAIN deferred) = {}

\* Recording late, dropping dead gates and renumbering wires change no value:
\* every materialized id carries the bit the plaintext evaluation gives it.
CarriedIsClear ==
    \A f \in {carried, deferred, batch.entries} :
        \A id \in DOMAIN f : clear[id] = {f[id]}

\* The cached constants belong to the current chunk: public_bit never hands out
\* the id of a gate that drop_chunk() threw away (const_wire_).
ConstCacheCurrent ==
    \A v \in BOOLEAN :
        constWire[v] # 0 =>
            \E i \in DOMAIN chunk : /\ chunk[i].out = constWire[v]
                                    /\ chunk[i].op = ConstOp(v)

\* A reveal fails only for the caller's own reason: a null or given-up wire
\* among the variables, or inputs of a batch that is not finished (flush_).
FlushFailsOnlyOnMisuse ==
    \A s \in Slot, K \in SUBSET Slot :
        FlushFails(RevealKeep(s, K)) =>
            \/ 0 \in Held(K \cup {s})
            \/ Held(Slot) \cap lost # {}
            \/ batch.entries # Empty

\* checkpoint() keeps exactly what is in C++ scope: of the ids in scope all
\* that have a value, and no other id.
CheckpointIsExact ==
    [][Checkpoint => DOMAIN carried' = InScope \ (lost \cup DOMAIN batch.entries)]_vars

\* The session implements the plaintext session: whatever is recorded, dropped,
\* kept and flushed, a reveal returns the bit ClearSession would return, or the
\* process has stopped.
Clear == INSTANCE ClearSession WITH
            val <- [s \in Slot |-> ClearOf(wire[s])],
            alive <- (status # "failed")

ImplementsClearSession == Clear!Spec

\* The recorder knows which wires the program holds: the counts are exact, and
\* ~ChunkRecorderCtx leaves no variable with a wire of the closed recorder.
HandlesExact == RefcountExact /\ NoWireOutlives
=============================================================================
