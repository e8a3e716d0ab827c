---------------------------- MODULE MCNetChannel ----------------------------
(****************************************************************************)
(* Instances of NetChannel for TLC: which pairs of programs the two parties *)
(* run.  Programs are enumerated exhaustively up to a length and filtered   *)
(* by what the library asks of its callers.                                 *)
(****************************************************************************)
EXTENDS NetChannel, FiniteSets, SequencesExt

CONSTANTS
    c1, c2,
    Alphabet,   \* the calls programs are made of
    MaxCalls,   \* how many of them a program makes at most
    CrashCalls, \* and one whose process may be killed, beside those
    Contract    \* TRUE: only programs that keep the flush contract

VARIABLE killable   \* the processes of this behaviour may be killed

Call(name, c, n) == [op |-> name, ch |-> c, n |-> n]

Pair(a, b) == [p \in Party |-> IF p = "alice" THEN a ELSE b]

-----------------------------------------------------------------------------
(* The two programs fit: per channel and per stretch between two syncs, one *)
(* side receives as many bytes as the other sends.                          *)

On(prg, c) == SelectSeq(prg, LAMBDA x : x.ch = c)
SyncsBefore(prg, i) == Cardinality({j \in 1..i : prg[j].op = "sync"})
Total(prg, name, k) ==
    LET idx == {i \in DOMAIN prg : prg[i].op = name /\ SyncsBefore(prg, i) = k}
    IN  FoldSet(LAMBDA i, acc : acc + prg[i].n, 0, idx)

\* Per channel c and stretch k, the totals of the calls named out and in.
Traffic(prg, outName, inName) ==
    UNION {{<<c, k, Total(On(prg, c), outName, k), Total(On(prg, c), inName, k)>> :
               k \in 0..SyncsBefore(On(prg, c), Len(On(prg, c)))} : c \in Chan}

\* The pairs of members of S whose traffic matches.
Fitting(S) ==
    LET as == {<<a, Traffic(a, "send", "recv")>> : a \in S}
        bs == {<<b, Traffic(b, "recv", "send")>> : b \in S}
    IN  {<<x[1][1], x[2][1]>> : x \in {y \in as \X bs : y[1][2] = y[2][2]}}

-----------------------------------------------------------------------------
(* The flush contract (net_io_channel.h): after a send on c the party       *)
(* flushes c before it returns (the program ends) or before anything that   *)
(* may block on another channel; a recv, a sync or the destructor of c      *)
(* flushes by itself.                                                       *)

Drains(x, c) == x.ch = c /\ x.op \in {"flush", "recv", "sync", "close"}

FollowsFlushContract(prg) ==
    \A i \in DOMAIN prg :
        prg[i].op = "send" =>
            \E j \in i+1..Len(prg) :
                /\ Drains(prg[j], prg[i].ch)
                /\ \A k \in i+1..j-1 :
                       prg[k].ch = prg[i].ch \/ prg[k].op = "enable_fs"

-----------------------------------------------------------------------------
(* The pair completes over unbuffered pipes that hold PipeSize bytes.  The   *)
(* two programs and the pipes form a deterministic dataflow network, so one *)
(* schedule decides.                                                        *)

Units(p, x) ==
    LET s == <<"s", x.ch>>
        r == <<"r", x.ch>>
    IN  CASE x.op = "send" -> [i \in 1..x.n |-> s]
          [] x.op = "recv" -> [i \in 1..x.n |-> r]
          [] x.op = "sync" -> IF <<p, x.ch>> \in IsServer THEN <<s, r>>
                                                          ELSE <<r, s>>
          [] OTHER -> <<>>

Unfold(p, prg) == FlattenSeq([i \in DOMAIN prg |-> Units(p, prg[i])])

Count(u, i, x) == Cardinality({k \in 1..i : u[k] = x})

CanStep(u, i, v, j) ==
    /\ i < Len(u)
    /\ LET c == u[i+1][2]
       IN  IF u[i+1][1] = "s"
           THEN Count(u, i, <<"s", c>>) - Count(v, j, <<"r", c>>) < PipeSize
           ELSE Count(v, j, <<"s", c>>) - Count(u, i, <<"r", c>>) > 0

Completes(a, b) ==
    LET u == Unfold("alice", a)
        v == Unfold("bob", b)
        run[i \in 0..Len(u), j \in 0..Len(v)] ==
            IF CanStep(u, i, v, j) THEN run[i+1, j]
            ELSE IF CanStep(v, j, u, i) THEN run[i, j+1]
            ELSE i = Len(u) /\ j = Len(v)
    IN  run[0, 0]

-----------------------------------------------------------------------------
(* Enumerations.                                                            *)

Calls1 == {Call("send", c1, 1), Call("send", c1, 3), Call("recv", c1, 1),
           Call("recv", c1, 3), Call("flush", c1, 0), Call("sync", c1, 0)}

Calls2 == {Call("send", c1, 1), Call("send", c2, 3), Call("recv", c1, 1),
           Call("recv", c2, 3), Call("flush", c1, 0), Call("flush", c2, 0),
           Call("sync", c2, 0)}

UpTo(S, n) == UNION {[1..k -> S] : k \in 0..n}

Ended(prg) == Append(prg, Call("close", c1, 0))

\* The pairs that fit, follow the flush contract and complete over pipes, not both
\* of the greatest length.
ContractPrograms(S) ==
    {Pair(x[1], x[2]) :
        x \in {y \in Fitting({a \in S :
                                    FollowsFlushContract(a)}) :
                   /\ Len(y[1]) + Len(y[2]) < 2 * MaxCalls
                   /\ Completes(y[1], y[2])}}

\* Every fitting pair, ended by the destructor, and the calls that abort or move no
\* bytes.
AnyPrograms(S) ==
    {Pair(Ended(<<Call("enable_fs", c1, 1)>> \o x[1]), Ended(<<Call("enable_fs", c1, 0)>> \o x[2])) :
        x \in Fitting(S)}
    \cup {Pair(<<Call("send", c1, CtrMax), Call("send", c1, 1)>>,
               <<Call("recv", c1, CtrMax), Call("recv", c1, 1)>>),
          Pair(<<Call("send", c1, 0), Call("flush", c1, 0)>>,
               <<Call("recv", c1, 0), Call("enable_fs", c1, 0),
                 Call("enable_fs", c1, 1)>>)}

CrashPrograms == AnyPrograms(UpTo(Calls1, CrashCalls))
MCPrograms ==
    CrashPrograms \cup (IF Contract THEN ContractPrograms(UpTo(Alphabet, MaxCalls)) ELSE {})

\* One sync() on either side.
SyncPrograms == {Pair(<<Call("sync", c1, 0)>>, <<Call("sync", c1, 0)>>)}

AliceServes == {<<"alice", c>> : c \in Chan}
Nobody == {}
Everyone == Endpoint

-----------------------------------------------------------------------------
MCInit == Init /\ killable = (prog \in CrashPrograms)
MCNext ==
    /\ \E p \in Party : Move(p) \/ (killable /\ Crash(p))
    /\ UNCHANGED killable

MCSpec == MCInit /\ [][MCNext]_<<vars, killable>>

\* The fairness of FairSpec.
MCFairSpec == MCSpec /\ \A p \in Party : WF_vars(Move(p))

\* Programs that keep the flush contract and complete over pipes run to completion on
\* the buffered channels (Termination of NetChannel): the deferred flushes of
\* send_data_internal and the flush before every read add no deadlock.
ContractTerminates == ~killable => Termination
=============================================================================
