---------------------------- MODULE ClearSession ----------------------------
(****************************************************************************)
(* The plaintext session (ir/session/clear_session.h over ClearCtx), the    *)
(* meaning of an authored program: every value is known the moment it is    *)
(* made, and a reveal returns it.  The only other thing a session may do is *)
(* stop the process.  Values are one wire wide; a C++ variable that holds   *)
(* one is a slot.                                                           *)
(****************************************************************************)
EXTENDS BooleanProgram

CONSTANTS Slot, Circuits

VARIABLES
    val,      \* slot -> the bit it holds, as a set: {} for a variable without a value
    shown,    \* what the last call returned, if it was a reveal
    alive     \* FALSE once error() has stopped the process

vars == <<val, shown, alive>>

\* The plaintext result of a gate; an operand without a value gives none.
ClearGate(op, a, b) ==
    IF op = "Not" THEN {~x : x \in a} ELSE {Apply(op, x, y) : x \in a, y \in b}

Init ==
    /\ val = [s \in Slot |-> {}]
    /\ shown = {}
    /\ alive = TRUE

\* s receives a new bit: an input, a constant or a copy of another slot.
Set(s, x) ==
    /\ val' = [val EXCEPT ![s] = x]
    /\ shown' = {}
    /\ UNCHANGED alive

Input(s, b) == Set(s, {b})

GateOp(s, op, a, b) == Set(s, ClearGate(op, val[a], val[b]))

Copy(s, a) == Set(s, val[a])

Move(s, a) ==
    /\ val' = [val EXCEPT ![a] = {}, ![s] = val[a]]
    /\ shown' = {}
    /\ UNCHANGED alive

Drop(s) == Set(s, {})

\* A compiled circuit run on slots that hold bits; its last wire is returned.
RunCircuit(s, c, args) ==
    \E in \in [DOMAIN args -> BOOLEAN] :
        /\ \A i \in DOMAIN args : val[args[i]] = {in[i]}
        /\ \E w \in Runs(c, in) : Set(s, {w[c.num_wires - 1]})

\* A recipient learns the value, another party gets no value.
Reveal(s, mine) ==
    /\ val[s] # {}
    /\ shown' = IF mine THEN val[s] ELSE {}
    /\ UNCHANGED <<val, alive>>

\* A call that changes no value, such as a checkpoint.
Quiet == shown' = {} /\ UNCHANGED <<val, alive>>

Stop ==
    /\ alive' = FALSE
    /\ val' = [s \in Slot |-> {}]
    /\ shown' = {}

Next ==
    /\ alive
    /\ \/ Stop \/ Quiet
       \/ \E s \in Slot :
             \/ \E b \in BOOLEAN : Input(s, b) \/ Reveal(s, b)
             \/ \E a \in Slot : Copy(s, a) \/ Move(s, a)
             \/ \E op \in {"And", "Xor", "Not"}, a, b \in Slot : GateOp(s, op, a, b)
             \/ Drop(s)
             \/ \E c \in Circuits : \E args \in [1 .. c.num_inputs -> Slot] :
                    RunCircuit(s, c, args)

Spec == Init /\ [][Next]_vars
=============================================================================
