----------------------------- MODULE NetChannel -----------------------------
(****************************************************************************)
(* The byte channels of emp-tool (emp-tool/runtime/io): two single-threaded *)
(* parties, each running a program of channel calls over one or more        *)
(* IOChannel endpoints.                                                     *)
(*                                                                          *)
(* A byte travels through five places in turn.  For an endpoint <<p, c>>    *)
(*   staging[p, c]  the 32 KiB send_buf                                     *)
(*   out[p, c]      the 1 MiB stdio buffer of `stream` (empty for TLSIO)    *)
(*   wire[p, c]     the kernel: written by p, not yet read by the peer      *)
(*   rbuf[q, c]     the unread part of the peer's recv_buf                  *)
(*   got[q]         the bytes the peer's current recv call has copied out   *)
(* Nothing moves a byte but a call of its owner: there is no background     *)
(* flusher, which is why the flush contract exists.                         *)
(*                                                                          *)
(* A call is a sequence `todo` of internal steps (put, flush, read, close), *)
(* split exactly where the code can block: in a write to the kernel, and in *)
(* a read from it.                                                          *)
(****************************************************************************)
EXTENDS Naturals, Sequences

CONSTANTS
    Chan,           \* channels between the two parties
    Programs,       \* the pairs of programs the parties may run
    StagingSize,    \* NETWORK_STAGING_BUFFER_SIZE
    StreamSize,     \* NETWORK_STREAM_BUFFER_SIZE; 0 models TLSIO
    PipeSize,       \* bytes the kernel holds per direction
    CtrMax,         \* largest value of the 64-bit byte counters
    IsServer,       \* endpoints whose is_server bit is set
    Traced,         \* endpoints wrapped in a TraceIO
    Tls,            \* TRUE: TLSIO endpoints, FALSE: NetIO endpoints
    IgnoreSigpipe,  \* TRUE: the process ignores SIGPIPE
    MayCrash        \* TRUE: a party may be killed at any time

Party == {"alice", "bob"}
Peer(p) == IF p = "alice" THEN "bob" ELSE "alice"
Endpoint == Party \X Chan

\* A data byte is its position in its sender's stream; sync() sends a 0.
Byte == Nat
SyncByte == 0

\* One call of a program.  n is a byte count, or 1 for enable_fs(true).
Op == [op : {"send", "recv", "flush", "sync", "enable_fs", "close"},
       ch : Chan, n : Nat]

\* One internal step of a call.  app tells recv_data from sync's bare read.
Step == [do : {"put", "flush", "read", "close"}, bytes : Seq(Byte),
         n : Nat, app : BOOLEAN]

ASSUME SizesAssumption ==
    /\ StagingSize \in Nat \ {0}
    /\ StreamSize \in Nat
    /\ PipeSize \in Nat \ {0}
    /\ CtrMax \in Nat

ASSUME ChanAssumption == Chan # {}

ASSUME ModeAssumption ==
    /\ IsServer \subseteq Endpoint
    /\ Traced \subseteq Endpoint
    /\ Tls \in BOOLEAN
    /\ IgnoreSigpipe \in BOOLEAN
    /\ MayCrash \in BOOLEAN
    /\ Tls => StreamSize = 0

ASSUME ProgramsAssumption == Programs \subseteq [Party -> Seq(Op)]

VARIABLES
    prog,       \* calls a party has still to make
    pc,         \* "idle", blocked in "raw"/"fflush"/"read", or "dead"
    cur,        \* the channel of the current call
    todo,       \* internal steps left in the current call
    need,       \* bytes the current read has still to deliver
    got,        \* bytes the current read has delivered
    closed,     \* endpoints whose destructor has run
    staging, out, wire, rbuf, dirty,
    sendCtr, recvCtr, rounds, lastDir, flushes,
    fs,         \* "off", or the role given to enable_fs
    fsSend, fsRecv,     \* Fiat-Shamir transcripts
    trSend, trRecv,     \* TraceIO's .send and .recv files
    sent, rcvd,         \* history: bytes put into, taken out of a channel
    werr                \* history: endpoints one of whose writes failed

callVars  == <<prog, pc, cur, todo, need, got>>
bufVars   == <<staging, out, wire, rbuf, dirty>>
statVars  == <<sendCtr, recvCtr, rounds, lastDir, flushes>>
logVars   == <<fs, fsSend, fsRecv, trSend, trRecv>>
histVars  == <<sent, rcvd, werr>>
vars == <<callVars, closed, bufVars, statVars, logVars, histVars>>

-----------------------------------------------------------------------------
Drop(s, n) == SubSeq(s, n + 1, Len(s))
Take(s, n) == SubSeq(s, 1, n)
Least(a, b) == IF a <= b THEN a ELSE b

PutStep(bytes)  == [do |-> "put",   bytes |-> bytes, n |-> 0, app |-> FALSE]
FlushStep       == [do |-> "flush", bytes |-> <<>>,  n |-> 0, app |-> FALSE]
ReadStep(n, a)  == [do |-> "read",  bytes |-> <<>>,  n |-> n, app |-> a]
CloseStep       == [do |-> "close", bytes |-> <<>>,  n |-> 0, app |-> FALSE]

\* The endpoint can no longer read or write: destroyed, or its process died.
Gone(p, c) == closed[p, c] \/ pc[p] = "dead"

Init ==
    /\ prog \in Programs
    /\ pc = [p \in Party |-> "idle"]
    /\ cur = [p \in Party |-> CHOOSE c \in Chan : TRUE]
    /\ todo = [p \in Party |-> <<>>]
    /\ need = [p \in Party |-> 0]
    /\ got = [p \in Party |-> <<>>]
    /\ closed = [e \in Endpoint |-> FALSE]
    /\ staging = [e \in Endpoint |-> <<>>]
    /\ out = [e \in Endpoint |-> <<>>]
    /\ wire = [e \in Endpoint |-> <<>>]
    /\ rbuf = [e \in Endpoint |-> <<>>]
    /\ dirty = [e \in Endpoint |-> FALSE]
    /\ sendCtr = [e \in Endpoint |-> 0]
    /\ recvCtr = [e \in Endpoint |-> 0]
    /\ rounds = [e \in Endpoint |-> 0]
    /\ lastDir = [e \in Endpoint |-> "NONE"]
    /\ flushes = [e \in Endpoint |-> 0]
    /\ fs = [e \in Endpoint |-> "off"]
    /\ fsSend = [e \in Endpoint |-> <<>>]
    /\ fsRecv = [e \in Endpoint |-> <<>>]
    /\ trSend = [e \in Endpoint |-> <<>>]
    /\ trRecv = [e \in Endpoint |-> <<>>]
    /\ sent = [e \in Endpoint |-> <<>>]
    /\ rcvd = [e \in Endpoint |-> <<>>]
    /\ werr = [e \in Endpoint |-> FALSE]

-----------------------------------------------------------------------------
(* Calls.  Each takes the next call of p's program.                         *)

\* p is between two calls and the next one is `name` on a live channel.
Calls(p, name) ==
    /\ pc[p] = "idle" /\ todo[p] = <<>>
    /\ prog[p] # <<>> /\ Head(prog[p]).op = name
    /\ ~closed[p, Head(prog[p]).ch]

\* Enter the call: its internal steps become p's todo list.
Enter(p, steps) ==
    /\ prog' = [prog EXCEPT ![p] = Tail(@)]
    /\ cur' = [cur EXCEPT ![p] = Head(prog[p]).ch]
    /\ todo' = [todo EXCEPT ![p] = steps]
    /\ UNCHANGED <<pc, need, got, closed, bufVars, histVars>>

\* error(): the process ends at once and runs no destructor.
Abort(p) ==
    /\ pc' = [pc EXCEPT ![p] = "dead"]
    /\ UNCHANGED <<prog, cur, todo, need, got, closed, bufVars, statVars,
                   logVars, histVars>>

\* The `rounds` bookkeeping: a change of direction opens a new round.
Turn(e, dir) ==
    /\ rounds' = [rounds EXCEPT ![e] = IF lastDir[e] = dir THEN @ ELSE @ + 1]
    /\ lastDir' = [lastDir EXCEPT ![e] = dir]

\* Counting n more bytes would exceed the counter's range.
Overflows(ctr, n) == n > CtrMax - ctr

\* The transcript absorbs bytes from enable_fs on.
Absorb(e, transcript, bytes) ==
    IF fs[e] = "off" THEN transcript ELSE transcript \o bytes

\* TraceIO appends the bytes to one of its two files.
Tee(e, file, bytes) == IF e \in Traced THEN file \o bytes ELSE file

\* The counters advance before the transport is touched; the send transcript
\* (and TraceIO's .send file) absorbs the bytes before they are put.
SendData(p) ==
    /\ Calls(p, "send")
    /\ LET e == <<p, Head(prog[p]).ch>>
           n == Head(prog[p]).n
           bytes == [i \in 1..n |-> sendCtr[e] + i]
       IN  \/ /\ n = 0
              /\ Enter(p, <<>>) /\ UNCHANGED <<statVars, logVars>>
           \/ /\ Overflows(sendCtr[e], n)
              /\ Abort(p)
           \/ /\ n > 0 /\ ~Overflows(sendCtr[e], n)
              /\ Enter(p, <<PutStep(bytes)>>)
              /\ sendCtr' = [sendCtr EXCEPT ![e] = @ + n]
              /\ Turn(e, "SEND")
              /\ fsSend' = [fsSend EXCEPT ![e] = Absorb(e, @, bytes)]
              /\ trSend' = [trSend EXCEPT ![e] = Tee(e, @, bytes)]
              /\ UNCHANGED <<recvCtr, flushes, fs, fsRecv, trRecv>>

\* recv_data_internal drains pending sends before it blocks.
RecvStepsUndrained(n) == <<ReadStep(n, TRUE)>>
RecvSteps(n) == <<FlushStep, ReadStep(n, TRUE)>>

RecvData(p) ==
    /\ Calls(p, "recv")
    /\ LET e == <<p, Head(prog[p]).ch>>
           n == Head(prog[p]).n
       IN  \/ /\ n = 0
              /\ Enter(p, <<>>) /\ UNCHANGED <<statVars, logVars>>
           \/ /\ Overflows(recvCtr[e], n)
              /\ Abort(p)
           \/ /\ n > 0 /\ ~Overflows(recvCtr[e], n)
              /\ Enter(p, RecvSteps(n))
              /\ recvCtr' = [recvCtr EXCEPT ![e] = @ + n]
              /\ Turn(e, "RECV")
              /\ UNCHANGED <<sendCtr, flushes, logVars>>

Flush(p) ==
    /\ Calls(p, "flush")
    /\ Enter(p, <<FlushStep>>)
    /\ UNCHANGED <<statVars, logVars>>

\* The acceptor pings, the other side answers.  sync() moves its bytes with
\* send_data_internal / recv_data_internal: no counter, transcript or trace
\* sees them.  NetIO's client flushes its answer, TLSIO's does not.
SyncStepsUnflushed(e) ==
    IF e \in IsServer
    THEN <<PutStep(<<SyncByte>>), FlushStep, ReadStep(1, FALSE)>>
    ELSE <<FlushStep, ReadStep(1, FALSE), PutStep(<<SyncByte>>)>>
SyncSteps(e) ==
    IF e \in IsServer
    THEN <<PutStep(<<SyncByte>>), FlushStep, ReadStep(1, FALSE)>>
    ELSE <<FlushStep, ReadStep(1, FALSE), PutStep(<<SyncByte>>)>>
         \o (IF Tls THEN <<>> ELSE <<FlushStep>>)

Sync(p) ==
    /\ Calls(p, "sync")
    /\ Enter(p, SyncSteps(<<p, Head(prog[p]).ch>>))
    /\ UNCHANGED <<statVars, logVars>>

EnableFs(p) ==
    /\ Calls(p, "enable_fs")
    /\ LET e == <<p, Head(prog[p]).ch>>
           role == IF Head(prog[p]).n = 1 THEN "first" ELSE "second"
       IN  \/ /\ fs[e] # "off"
              /\ Abort(p)
           \/ /\ fs[e] = "off"
              /\ Enter(p, <<>>)
              /\ fs' = [fs EXCEPT ![e] = role]
              /\ UNCHANGED <<statVars, fsSend, fsRecv, trSend, trRecv>>

\* ~NetIO / ~TLSIO: flush, then close the descriptor.
CloseSteps == <<FlushStep, CloseStep>>

Destroy(p) ==
    /\ Calls(p, "close")
    /\ Enter(p, CloseSteps)
    /\ UNCHANGED <<statVars, logVars>>

-----------------------------------------------------------------------------
(* Internal steps of the current call, on channel cur[p].                   *)

Does(p, step) ==
    pc[p] = "idle" /\ todo[p] # <<>> /\ Head(todo[p]).do = step

NextStep(p) == todo' = [todo EXCEPT ![p] = Tail(@)]

\* The bytes fit in what is left of send_buf.
FitsOffByOne(e, bytes) == Len(bytes) <= StagingSize - Len(staging[e]) + 1
Fits(e, bytes) == Len(bytes) <= StagingSize - Len(staging[e])

\* What the stream holds after the staged bytes and the new ones are pushed.
PushedOutOfOrder(e, bytes) == out[e] \o bytes \o staging[e]
Pushed(e, bytes) == out[e] \o staging[e] \o bytes

\* send_dirty = true.
MarkDirty(e) == dirty' = [dirty EXCEPT ![e] = TRUE]

\* send_data_internal: stage what fits; otherwise push the staged bytes and
\* then the new ones into the stream.  fwrite touches the kernel only when
\* its buffer overflows.
SendDataInternal(p) ==
    /\ Does(p, "put")
    /\ NextStep(p)
    /\ LET e == <<p, cur[p]>>
           bytes == Head(todo[p]).bytes
           pushed == Pushed(e, bytes)
       IN  /\ sent' = [sent EXCEPT ![e] = @ \o bytes]
           /\ \/ /\ Fits(e, bytes)
                 /\ staging' = [staging EXCEPT ![e] = @ \o bytes]
                 /\ MarkDirty(e)
                 /\ UNCHANGED <<out, pc>>
              \/ /\ ~Fits(e, bytes)
                 /\ staging' = [staging EXCEPT ![e] = <<>>]
                 /\ out' = [out EXCEPT ![e] = pushed]
                 /\ \/ /\ Len(pushed) <= StreamSize
                       /\ MarkDirty(e)
                       /\ UNCHANGED pc
                    \/ /\ Len(pushed) > StreamSize
                       /\ pc' = [pc EXCEPT ![p] = "raw"]
                       /\ UNCHANGED dirty
    /\ UNCHANGED <<prog, cur, need, got, closed, wire, rbuf, statVars,
                   logVars, rcvd, werr>>

\* flush_unlocked up to the write that may block.
FlushUnlocked(p) ==
    /\ Does(p, "flush")
    /\ NextStep(p)
    /\ LET e == <<p, cur[p]>>
       IN  \/ /\ ~dirty[e]
              /\ UNCHANGED <<pc, staging, out, flushes>>
           \/ /\ dirty[e]
              /\ flushes' = [flushes EXCEPT ![e] = @ + 1]
              /\ out' = [out EXCEPT ![e] = @ \o staging[e]]
              /\ staging' = [staging EXCEPT ![e] = <<>>]
              /\ pc' = [pc EXCEPT ![p] = "fflush"]
    /\ UNCHANGED <<prog, cur, need, got, closed, wire, rbuf, dirty, sendCtr,
                   recvCtr, rounds, lastDir, logVars, histVars>>

\* The kernel accepts some of the bytes the call is writing.
KernelWrite(p) ==
    /\ pc[p] \in {"raw", "fflush"}
    /\ LET e == <<p, cur[p]>>
       IN  \E k \in 1..Least(Len(out[e]), PipeSize - Len(wire[e])) :
              /\ wire' = [wire EXCEPT ![e] = @ \o Take(out[e], k)]
              /\ out' = [out EXCEPT ![e] = Drop(@, k)]
    /\ UNCHANGED <<callVars, closed, staging, rbuf, dirty, statVars, logVars,
                   histVars>>

\* send_raw returns once the stream buffer can hold the rest.
RawReturn(p) ==
    /\ pc[p] = "raw"
    /\ Len(out[p, cur[p]]) <= StreamSize
    /\ MarkDirty(<<p, cur[p]>>)
    /\ pc' = [pc EXCEPT ![p] = "idle"]
    /\ UNCHANGED <<prog, cur, todo, need, got, closed, staging, out, wire,
                   rbuf, statVars, logVars, histVars>>

FflushReturn(p) ==
    /\ pc[p] = "fflush"
    /\ out[p, cur[p]] = <<>>
    /\ dirty' = [dirty EXCEPT ![<<p, cur[p]>>] = FALSE]
    /\ pc' = [pc EXCEPT ![p] = "idle"]
    /\ UNCHANGED <<prog, cur, todo, need, got, closed, staging, out, wire,
                   rbuf, statVars, logVars, histVars>>

\* flush_unlocked is past its send_raw: the rest is written by fflush itself.
InFflush(p) == pc[p] = "fflush" /\ Len(out[p, cur[p]]) <= StreamSize

\* The peer is gone and the write fails.  SIGPIPE, SSL_write_ex's check and
\* send_raw's check on fwrite end the process; the result of NetIO's fflush
\* is not looked at, and stdio discards the bytes.
WriteError(p) ==
    /\ pc[p] \in {"raw", "fflush"}
    /\ LET e == <<p, cur[p]>>
       IN  /\ out[e] # <<>>
           /\ Gone(Peer(p), cur[p])
           /\ werr' = [werr EXCEPT ![e] = TRUE]
           /\ \/ /\ InFflush(p) /\ IgnoreSigpipe /\ ~Tls
                 /\ out' = [out EXCEPT ![e] = <<>>]
                 /\ UNCHANGED pc
              \/ /\ ~InFflush(p) \/ ~IgnoreSigpipe \/ Tls
                 /\ pc' = [pc EXCEPT ![p] = "dead"]
                 /\ UNCHANGED out
    /\ UNCHANGED <<prog, cur, todo, need, got, closed, staging, wire, rbuf,
                   dirty, statVars, logVars, sent, rcvd>>

\* recv_data_internal past its flush.
StartRead(p) ==
    /\ Does(p, "read")
    /\ pc' = [pc EXCEPT ![p] = "read"]
    /\ need' = [need EXCEPT ![p] = Head(todo[p]).n]
    /\ UNCHANGED <<prog, cur, todo, got, closed, bufVars, statVars, logVars,
                   histVars>>

\* Refill an exhausted recv_buf with whatever the kernel has.
ReadKernel(p) ==
    /\ pc[p] = "read"
    /\ LET e == <<p, cur[p]>>
           from == <<Peer(p), cur[p]>>
       IN  /\ rbuf[e] = <<>>
           /\ \E k \in 1..Least(Len(wire[from]), StagingSize) :
                 /\ rbuf' = [rbuf EXCEPT ![e] = Take(wire[from], k)]
                 /\ wire' = [wire EXCEPT ![from] = Drop(@, k)]
    /\ UNCHANGED <<callVars, closed, staging, out, dirty, statVars, logVars,
                   histVars>>

\* Copy out of recv_buf.  The last byte ends the call: recv_data then lets
\* TraceIO's .recv file and the receive transcript absorb the whole message.
ReadBuffered(p) ==
    /\ pc[p] = "read"
    /\ LET e == <<p, cur[p]>>
           k == Least(Len(rbuf[e]), need[p])
           msg == got[p] \o Take(rbuf[e], k)
           app == Head(todo[p]).app
       IN  /\ rbuf[e] # <<>>
           /\ rbuf' = [rbuf EXCEPT ![e] = Drop(@, k)]
           /\ rcvd' = [rcvd EXCEPT ![e] = @ \o Take(rbuf[e], k)]
           /\ need' = [need EXCEPT ![p] = @ - k]
           /\ \/ /\ k < need[p]
                 /\ got' = [got EXCEPT ![p] = msg]
                 /\ UNCHANGED <<pc, todo, fsRecv, trRecv>>
              \/ /\ k = need[p]
                 /\ got' = [got EXCEPT ![p] = <<>>]
                 /\ pc' = [pc EXCEPT ![p] = "idle"]
                 /\ NextStep(p)
                 /\ fsRecv' = [fsRecv EXCEPT ![e] =
                                   IF app THEN Absorb(e, @, msg) ELSE @]
                 /\ trRecv' = [trRecv EXCEPT ![e] =
                                   IF app THEN Tee(e, @, msg) ELSE @]
    /\ UNCHANGED <<prog, cur, closed, staging, out, wire, dirty, statVars,
                   fs, fsSend, trSend, sent, werr>>

\* read() returns 0, or an error: fatal.  A peer that went away without
\* reading all of p's bytes resets the connection, and the kernel may then
\* discard what p had still to read.
ReadEofIgnored(p) == FALSE /\ Abort(p)
ReadEof(p) ==
    /\ pc[p] = "read"
    /\ rbuf[p, cur[p]] = <<>>
    /\ Gone(Peer(p), cur[p])
    /\ wire[Peer(p), cur[p]] = <<>> \/ wire[p, cur[p]] # <<>>
    /\ Abort(p)

\* fclose / close(sock).
CloseSocket(p) ==
    /\ Does(p, "close")
    /\ NextStep(p)
    /\ closed' = [closed EXCEPT ![<<p, cur[p]>>] = TRUE]
    /\ UNCHANGED <<prog, pc, cur, need, got, bufVars, statVars, logVars,
                   histVars>>

\* The process is killed: what was in its user-space buffers is lost, what
\* the kernel holds is still delivered.
Crash(p) == MayCrash /\ pc[p] # "dead" /\ Abort(p)

Move(p) ==
    \/ SendData(p) \/ RecvData(p) \/ Flush(p) \/ Sync(p) \/ EnableFs(p)
    \/ Destroy(p)
    \/ SendDataInternal(p) \/ FlushUnlocked(p) \/ KernelWrite(p)
    \/ RawReturn(p) \/ FflushReturn(p) \/ WriteError(p)
    \/ StartRead(p) \/ ReadKernel(p) \/ ReadBuffered(p) \/ ReadEof(p)
    \/ CloseSocket(p)

Next == \E p \in Party : Move(p) \/ Crash(p)

Spec == Init /\ [][Next]_vars

\* A runnable thread is eventually scheduled, and TCP eventually moves bytes
\* between two live hosts.  Crashes are never required to happen.
FairSpec == Spec /\ \A p \in Party : WF_vars(Move(p))

-----------------------------------------------------------------------------
(* Properties.                                                              *)

\* The type invariant, one part per group of variables.
CallType ==
    /\ prog \in [Party -> Seq(Op)]
    /\ pc \in [Party -> {"idle", "raw", "fflush", "read", "dead"}]
    /\ cur \in [Party -> Chan]
    /\ todo \in [Party -> Seq(Step)]
    /\ need \in [Party -> Nat]
    /\ got \in [Party -> Seq(Byte)]
BufType ==
    /\ closed \in [Endpoint -> BOOLEAN]
    /\ staging \in [Endpoint -> Seq(Byte)]
    /\ out \in [Endpoint -> Seq(Byte)]
    /\ wire \in [Endpoint -> Seq(Byte)]
    /\ rbuf \in [Endpoint -> Seq(Byte)]
    /\ dirty \in [Endpoint -> BOOLEAN]
StatType ==
    /\ sendCtr \in [Endpoint -> 0..CtrMax]
    /\ recvCtr \in [Endpoint -> 0..CtrMax]
    /\ rounds \in [Endpoint -> Nat]
    /\ lastDir \in [Endpoint -> {"NONE", "SEND", "RECV"}]
    /\ flushes \in [Endpoint -> Nat]
LogType ==
    /\ fs \in [Endpoint -> {"off", "first", "second"}]
    /\ fsSend \in [Endpoint -> Seq(Byte)]
    /\ fsRecv \in [Endpoint -> Seq(Byte)]
    /\ trSend \in [Endpoint -> Seq(Byte)]
    /\ trRecv \in [Endpoint -> Seq(Byte)]
HistType ==
    /\ sent \in [Endpoint -> Seq(Byte)]
    /\ rcvd \in [Endpoint -> Seq(Byte)]
    /\ werr \in [Endpoint -> BOOLEAN]
TypeOK == CallType /\ BufType /\ StatType /\ LogType /\ HistType

\* The buffers never outgrow the memory behind them: send_buf and recv_buf
\* hold NETWORK_STAGING_BUFFER_SIZE bytes, the stream buffer
\* NETWORK_STREAM_BUFFER_SIZE except while an fwrite is draining it.
BuffersBounded ==
    \A p \in Party, c \in Chan :
        /\ Len(staging[p, c]) <= StagingSize
        /\ Len(rbuf[p, c]) <= StagingSize
        /\ Len(wire[p, c]) <= PipeSize
        /\ (pc[p] = "idle" \/ cur[p] # c) =>
               Len(out[p, c]) <= StreamSize

\* Where a byte of p's stream on c is, oldest first.
InTransit(p, c) ==
    rbuf[Peer(p), c] \o (wire[p, c] \o (out[p, c] \o staging[p, c]))

\* send_data_internal / flush_unlocked / recv_data_internal keep the stream
\* in order across all their buffers: what was put in is what was taken out
\* followed by what is in transit, whichever path each byte took.
InOrder ==
    \A p \in Party, c \in Chan :
        ~werr[p, c] => sent[p, c] = rcvd[Peer(p), c] \o InTransit(p, c)

\* A clear send_dirty bit makes flush_unlocked return early, so it must mean
\* that no byte is held back in user space.
CleanMeansEmpty ==
    \A p \in Party, c \in Chan :
        ~dirty[p, c] /\ pc[p] # "dead" /\ ~(pc[p] = "raw" /\ cur[p] = c) =>
            staging[p, c] = <<>> /\ out[p, c] = <<>>

\* recv_data_internal "drains pending sends before blocking": a party that
\* waits for the peer has left nothing of its own behind on that channel.
ReadingMeansDrained ==
    \A p \in Party :
        pc[p] = "read" => /\ staging[p, cur[p]] = <<>>
                          /\ out[p, cur[p]] = <<>>

\* ~NetIO flushes before it closes: an endpoint that was destroyed, rather
\* than killed, has lost nothing.
ClosedMeansDrained ==
    \A p \in Party, c \in Chan :
        closed[p, c] => staging[p, c] = <<>> /\ out[p, c] = <<>>

\* What every call keeps true at each of its internal steps: a read or a
\* close comes right after a flush, so send_dirty is clear when it starts,
\* and the destructor is the last thing to touch its channel.
Settled == {"read", "close"}
StepsOrdered(steps) ==
    \A i \in 1..Len(steps) :
        /\ i > 1 /\ steps[i].do \in Settled => steps[i-1].do = "flush"
        /\ steps[i].do = "close" => i = Len(steps)

CallShapeOf(p) ==
    /\ StepsOrdered(todo[p])
    /\ pc[p] = "read" => todo[p] # <<>> /\ todo[p][1].do = "read"
    /\ pc[p] = "raw" /\ todo[p] # <<>> => todo[p][1].do \notin Settled
    /\ pc[p] = "fflush" => staging[p, cur[p]] = <<>>
    /\ pc[p] \in {"idle", "read"} /\ todo[p] # <<>>
           /\ todo[p][1].do \in Settled => ~dirty[p, cur[p]]
    /\ closed[p, cur[p]] => todo[p] = <<>> /\ pc[p] \in {"idle", "dead"}

CallShape == \A p \in Party : CallShapeOf(p)

\* get_digest(): the digests of the two transcripts, the send_first side's
\* own send transcript first.  The hash is injective on what it absorbs.
DigestUnordered(e) == <<fsSend[e], fsRecv[e]>>
Digest(e) == IF fs[e] = "first" THEN <<fsSend[e], fsRecv[e]>>
                                ELSE <<fsRecv[e], fsSend[e]>>

\* Both parties derive the same challenge once each has absorbed as much as
\* the other sent, however the bytes were batched, staged or interleaved
\* with sync(), provided exactly one of them passed send_first.
DigestAgreement ==
    \A c \in Chan :
        LET a == <<"alice", c>>
            b == <<"bob", c>>
        IN  {fs[a], fs[b]} = {"first", "second"}
            /\ Len(fsSend[a]) = Len(fsRecv[b])
            /\ Len(fsSend[b]) = Len(fsRecv[a])
            => Digest(a) = Digest(b)

\* TraceIO: a .recv file is always a prefix of the peer's .send file, and
\* neither sees sync()'s bytes.
TraceConsistent ==
    \A p \in Party, c \in Chan :
        <<p, c>> \in Traced /\ <<Peer(p), c>> \in Traced =>
            /\ Len(trRecv[Peer(p), c]) <= Len(trSend[p, c])
            /\ trRecv[Peer(p), c] =
                   Take(trSend[p, c], Len(trRecv[Peer(p), c]))

\* The byte counters never drift: between calls, what one side counted as
\* sent is what the other counted as received plus what is still in transit,
\* sync()'s bytes not counted on either side.
IsData(b) == b # SyncByte
BetweenCalls(p) == pc[p] = "idle" /\ todo[p] = <<>>
CountersExact ==
    \A p \in Party, c \in Chan :
        BetweenCalls(p) /\ BetweenCalls(Peer(p)) /\ ~werr[p, c] =>
            sendCtr[p, c] = recvCtr[Peer(p), c]
                            + Len(SelectSeq(InTransit(p, c), IsData))

Finished(p) == BetweenCalls(p) /\ prog[p] = <<>>

\* Every program pair runs to completion.
Termination == <>(\A p \in Party : Finished(p))

\* A process that disappears never leaves its peer hanging: blocked in a
\* read or a write, or not yet, the peer ends, one way or the other.
PeerDeathNoticed ==
    \A p \in Party :
        pc[Peer(p)] = "dead" ~> (pc[p] = "dead" \/ Finished(p))

-----------------------------------------------------------------------------
(* The channel implements a FIFO byte stream per direction.                 *)

StreamCut(p, c) == pc[p] = "dead" \/ Gone(Peer(p), c)
StreamInflight(p, c) ==
    IF Gone(Peer(p), c) THEN <<>>
    ELSE IF pc[p] = "dead" THEN rbuf[Peer(p), c] \o wire[p, c]
    ELSE InTransit(p, c)

Stream == INSTANCE ByteStream WITH
    Stream <- Endpoint,
    inflight <- [e \in Endpoint |-> StreamInflight(e[1], e[2])],
    delivered <- [e \in Endpoint |-> rcvd[Peer(e[1]), e[2]]],
    cut <- [e \in Endpoint |-> StreamCut(e[1], e[2])]

\* Every behaviour of the buffered channel, crashes included, is a behaviour
\* of a plain FIFO stream per direction.
ImplementsByteStream == Stream!Spec

\* No byte is forgotten in user space: none behind a clear send_dirty bit
\* (flush_unlocked), none of a party that waits for its peer
\* (recv_data_internal), none of an endpoint that was destroyed (~NetIO).
NothingHeldBack == CleanMeansEmpty /\ ReadingMeansDrained /\ ClosedMeansDrained

\* What the endpoints record of the traffic agrees: the digests of the
\* transcripts, TraceIO's files and the byte counters.
RecordsAgree == DigestAgreement /\ TraceConsistent /\ CountersExact
=============================================================================
