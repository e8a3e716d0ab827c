----------------------------- MODULE ByteStream -----------------------------
(***************************************************************************)
(* What a connected pair of IOChannel endpoints promises its two callers,  *)
(* whatever is buffered where: every direction is a FIFO stream of bytes.  *)
(* Bytes are delivered in the order they were sent, without gaps, repeats  *)
(* or reordering.  When an end disappears the stream is cut: a suffix of   *)
(* the bytes in flight may be lost, and nothing is added to it any more.   *)
(***************************************************************************)
EXTENDS Naturals, Sequences

CONSTANTS
    Stream,     \* the directions
    Byte        \* what they carry

VARIABLES
    inflight,   \* sent and not delivered, oldest first
    delivered,  \* handed to the receiving caller
    cut         \* one of the two ends is gone

streamVars == <<inflight, delivered, cut>>

Prefix(s, t) == Len(s) <= Len(t) /\ s = SubSeq(t, 1, Len(s))

Init ==
    /\ inflight = [s \in Stream |-> <<>>]
    /\ delivered = [s \in Stream |-> <<>>]
    /\ cut = [s \in Stream |-> FALSE]

\* The sender appends bytes of its choice.
Send(s) ==
    /\ ~cut[s]
    /\ inflight' \in [Stream -> Seq(Byte)]
    /\ Prefix(inflight[s], inflight'[s])
    /\ \A t \in Stream \ {s} : inflight'[t] = inflight[t]
    /\ UNCHANGED <<delivered, cut>>

\* The receiver takes the k oldest bytes.
Deliver(s) ==
    \E k \in 1..Len(inflight[s]) :
        /\ delivered' = [delivered EXCEPT
                            ![s] = @ \o SubSeq(inflight[s], 1, k)]
        /\ inflight' = [inflight EXCEPT
                            ![s] = SubSeq(@, k + 1, Len(@))]
        /\ UNCHANGED cut

\* An end of every stream in S disappears.
Cut(S) ==
    /\ cut' = [s \in Stream |-> cut[s] \/ s \in S]
    /\ inflight' \in [Stream -> Seq(Byte)]
    /\ \A s \in S : Prefix(inflight'[s], inflight[s])
    /\ \A s \in Stream \ S : inflight'[s] = inflight[s]
    /\ UNCHANGED delivered

Next ==
    \/ \E s \in Stream : Send(s) \/ Deliver(s)
    \/ \E S \in SUBSET Stream : Cut(S)

Spec == Init /\ [][Next]_streamVars
=============================================================================
