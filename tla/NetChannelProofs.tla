-------------------------- MODULE NetChannelProofs --------------------------
(****************************************************************************)
(* Proofs about NetChannel, for every set of channels, every set of program *)
(* pairs and every buffer size: its invariants, and that it implements      *)
(* ByteStream.                                                              *)
(****************************************************************************)
EXTENDS NetChannel, SequenceTheorems, TLAPS

-----------------------------------------------------------------------------
(* Facts about the operators the actions are built from.                    *)

\* Splitting a byte sequence at k loses nothing and reorders nothing.
LEMMA TakeDrop ==
    ASSUME NEW s \in Seq(Byte), NEW k \in 0..Len(s)
    PROVE  /\ Take(s, k) \in Seq(Byte) /\ Len(Take(s, k)) = k
           /\ Drop(s, k) \in Seq(Byte) /\ Len(Drop(s, k)) = Len(s) - k
           /\ Take(s, k) \o Drop(s, k) = s
<1>1. Len(s) \in Nat /\ \A i \in 1..Len(s) : s[i] \in Byte
  BY LenProperties, ElementOfSeq
<1>2. Take(s, k) \in Seq(Byte) /\ Len(Take(s, k)) = k
  <2>1. \A i \in 1..k : s[i] \in Byte
    BY <1>1
  <2>2. QED
    BY <1>1, <2>1, SubSeqProperties DEF Take
<1>3. Drop(s, k) \in Seq(Byte) /\ Len(Drop(s, k)) = Len(s) - k
  <2>1. \A i \in k+1..Len(s) : s[i] \in Byte
    BY <1>1
  <2>2. QED
    BY <1>1, <2>1, SubSeqProperties DEF Drop
<1>4. Take(s, k) \o Drop(s, k) = SubSeq(s, 1, Len(s))
  <2>1. 1 \in 1..Len(s)+1 /\ k \in (1-1)..Len(s) /\ Len(s) \in k..Len(s)
    BY <1>1
  <2>2. QED
    BY <2>1, ConcatAdjacentSubSeq, Zenon DEF Take, Drop
<1>5. QED
  BY <1>2, <1>3, <1>4, SubSeqFull

\* Least picks one of its arguments, and neither is smaller.
LEMMA LeastProperties ==
    ASSUME NEW a \in Nat, NEW b \in Nat
    PROVE  Least(a, b) \in Nat /\ Least(a, b) <= a /\ Least(a, b) <= b
BY DEF Least

\* A sequence with a first index is not empty.
LEMMA IndexedNotEmpty ==
    ASSUME NEW s \in Seq(Byte), \E k \in 1..Len(s) : TRUE
    PROVE  s # <<>>
OBVIOUS

\* A count below the smaller of two sizes is below both: the bound of a
\* partial write or read.
LEMMA BelowLeast ==
    ASSUME NEW a \in Int, NEW b \in Int, NEW k \in 1..Least(a, b)
    PROVE  k \in 1..a /\ k <= b
BY DEF Least

\* The internal steps of every call are well-typed.
LEMMA StepTypes ==
    /\ \A bytes \in Seq(Byte) : PutStep(bytes) \in Step
    /\ FlushStep \in Step /\ CloseStep \in Step
    /\ \A n \in Nat, a \in BOOLEAN : ReadStep(n, a) \in Step
BY DEF PutStep, FlushStep, CloseStep, ReadStep, Step, Byte

\* The step lists of recv_data, sync and the destructor are well typed.
LEMMA StepListTypes ==
    /\ \A bytes \in Seq(Byte) : <<PutStep(bytes)>> \in Seq(Step)
    /\ \A n \in Nat : RecvSteps(n) \in Seq(Step)
    /\ <<FlushStep>> \in Seq(Step) /\ CloseSteps \in Seq(Step)
    /\ \A e : SyncSteps(e) \in Seq(Step)
<1>1. <<SyncByte>> \in Seq(Byte)
  BY DEF SyncByte, Byte
<1>2. \A a, b, c \in Step : /\ <<a>> \in Seq(Step) /\ <<a, b>> \in Seq(Step)
                            /\ <<a, b, c>> \in Seq(Step)
  OBVIOUS
<1>3. \A n \in Nat : RecvSteps(n) \in Seq(Step)
  BY <1>2, StepTypes, ZenonT(20) DEF RecvSteps
<1>4. CloseSteps \in Seq(Step)
  BY <1>2, StepTypes DEF CloseSteps
<1>5. ASSUME NEW e PROVE SyncSteps(e) \in Seq(Step)
  <2>1. PutStep(<<SyncByte>>) \in Step /\ ReadStep(1, FALSE) \in Step
    BY <1>1, StepTypes, ZenonT(20)
  <2>2. <<FlushStep, ReadStep(1, FALSE), PutStep(<<SyncByte>>)>> \in Seq(Step)
    BY <1>2, <2>1, StepTypes, ZenonT(20)
  <2>3. (IF Tls THEN <<>> ELSE <<FlushStep>>) \in Seq(Step)
    BY <1>2, StepTypes
  <2>4. <<PutStep(<<SyncByte>>), FlushStep, ReadStep(1, FALSE)>> \in Seq(Step)
    BY <1>2, <2>1, StepTypes, ZenonT(20)
  <2>5. QED
    BY <2>2, <2>3, <2>4, ConcatProperties, ZenonT(20) DEF SyncSteps
<1>6. QED
  BY <1>2, <1>3, <1>4, <1>5, StepTypes

\* The bytes a send call puts into the channel.
LEMMA SendBytesType ==
    ASSUME NEW c \in Nat, NEW n \in Nat
    PROVE  [i \in 1..n |-> c + i] \in Seq(Byte)
BY IsASeq, \A i \in 1..n : c + i \in Byte DEF Byte

\* Changing one endpoint of a well-typed function.
LEMMA ExceptType ==
    ASSUME NEW T, NEW f \in [Endpoint -> T], NEW e \in Endpoint, NEW v \in T
    PROVE  [f EXCEPT ![e] = v] \in [Endpoint -> T]
OBVIOUS

\* Each party has one peer, and is its peer's peer.
LEMMA PeerType == \A p \in Party : Peer(p) \in Party /\ Peer(p) # p /\ Peer(Peer(p)) = p
BY DEF Party, Peer

-----------------------------------------------------------------------------
(* Type correctness.                                                        *)

\* A new channel is well typed.
LEMMA InitType == Init => TypeOK
<1> SUFFICES ASSUME Init PROVE TypeOK
  OBVIOUS
<1>1. (CHOOSE c \in Chan : TRUE) \in Chan
  BY ChanAssumption
<1>2. CallType
  <2>1. prog \in [Party -> Seq(Op)]
    BY ProgramsAssumption DEF Init
  <2>2. cur \in [Party -> Chan]
    BY <1>1, ZenonT(20) DEF Init
  <2>3. /\ pc = [p \in Party |-> "idle"] /\ need = [p \in Party |-> 0]
        /\ todo = [p \in Party |-> <<>>] /\ got = [p \in Party |-> <<>>]
    BY DEF Init
  <2>4. QED
    BY <2>1, <2>2, <2>3 DEF CallType
<1>3. BufType /\ HistType
  BY DEF Init, BufType, HistType
<1>4. StatType /\ LogType
  BY SizesAssumption DEF Init, StatType, LogType
<1>5. QED
  BY <1>2, <1>3, <1>4 DEF TypeOK

\* A group of variables that does not change keeps its type.
LEMMA Frame ==
    /\ CallType /\ UNCHANGED callVars => CallType'
    /\ BufType /\ UNCHANGED <<closed, bufVars>> => BufType'
    /\ StatType /\ UNCHANGED statVars => StatType'
    /\ LogType /\ UNCHANGED logVars => LogType'
    /\ HistType /\ UNCHANGED histVars => HistType'
BY DEF CallType, BufType, StatType, LogType, HistType,
       callVars, bufVars, statVars, logVars, histVars

\* Entering a call keeps the call, buffer and history variables typed.
LEMMA EnterType ==
    ASSUME TypeOK, NEW p \in Party, NEW name, Calls(p, name),
           NEW steps \in Seq(Step), Enter(p, steps)
    PROVE  CallType' /\ BufType' /\ HistType'
<1>1. Head(prog[p]) \in Op /\ Tail(prog[p]) \in Seq(Op)
  BY HeadTailProperties, ZenonT(20) DEF TypeOK, CallType, Calls
<1>2. Head(prog[p]).ch \in Chan
  BY <1>1 DEF Op
<1>3. CallType'
  BY <1>1, <1>2 DEF TypeOK, CallType, Enter
<1>4. QED
  BY <1>3, Frame DEF TypeOK, Enter

\* A call that moves no bytes.
LEMMA EnterNothing ==
    ASSUME TypeOK, NEW p \in Party, NEW name, Calls(p, name),
           Enter(p, <<>>), UNCHANGED <<statVars, logVars>>
    PROVE  TypeOK'
<1>1. <<>> \in Seq(Step)
  OBVIOUS
<1>2. CallType' /\ BufType' /\ HistType'
  BY <1>1, EnterType, ZenonT(20)
<1>3. QED
  BY <1>2, Frame DEF TypeOK

\* The call about to be made, and its endpoint.
LEMMA CallOp ==
    ASSUME TypeOK, NEW p \in Party, NEW name, Calls(p, name)
    PROVE  <<p, Head(prog[p]).ch>> \in Endpoint /\ Head(prog[p]).n \in Nat
<1>1. Head(prog[p]) \in Op
  BY HeadTailProperties, ZenonT(20) DEF TypeOK, CallType, Calls
<1>2. QED
  BY <1>1 DEF Op, Endpoint

\* The channel a call works on, at either end.
LEMMA CurEndpoint ==
    ASSUME TypeOK, NEW p \in Party
    PROVE  <<p, cur[p]>> \in Endpoint /\ <<Peer(p), cur[p]>> \in Endpoint
BY PeerType DEF TypeOK, CallType, Endpoint

\* The first internal step of the current call.
LEMMA CurStep ==
    ASSUME TypeOK, NEW p \in Party, todo[p] # <<>>
    PROVE  Head(todo[p]) \in Step /\ Tail(todo[p]) \in Seq(Step)
BY HeadTailProperties DEF TypeOK, CallType

\* The rounds bookkeeping keeps its types.
LEMMA TurnType ==
    ASSUME StatType, NEW e \in Endpoint, NEW dir \in {"SEND", "RECV"}, Turn(e, dir)
    PROVE  /\ rounds' \in [Endpoint -> Nat]
           /\ lastDir' \in [Endpoint -> {"NONE", "SEND", "RECV"}]
BY DEF StatType, Turn

\* error() keeps the types.
LEMMA AbortType == ASSUME TypeOK, NEW p \in Party, Abort(p) PROVE TypeOK'
<1>1. CallType'
  BY DEF TypeOK, CallType, Abort
<1>2. QED
  BY <1>1, Frame DEF TypeOK, Abort

\* send_data keeps the types; its overflow check bounds send_counter.
LEMMA SendDataType == ASSUME TypeOK, NEW p \in Party, SendData(p) PROVE TypeOK'
<1> DEFINE e == <<p, Head(prog[p]).ch>>
           n == Head(prog[p]).n
           bytes == [i \in 1..n |-> sendCtr[e] + i]
<1>1. Calls(p, "send") /\ e \in Endpoint /\ n \in Nat /\ sendCtr[e] \in 0..CtrMax
  <2>1. Calls(p, "send")
    BY DEF SendData
  <2>2. e \in Endpoint /\ n \in Nat
    BY <2>1, CallOp
  <2>3. QED
    BY <2>1, <2>2 DEF TypeOK, StatType
<1>2. bytes \in Seq(Byte)
  <2>1. sendCtr[e] \in Nat
    BY <1>1, SizesAssumption
  <2>2. QED
    BY <1>1, <2>1, SendBytesType, ZenonT(20)
<1>3. CASE n = 0 /\ Enter(p, <<>>) /\ UNCHANGED <<statVars, logVars>>
  BY <1>1, <1>3, EnterNothing
<1>4. CASE Abort(p)
  BY <1>4, AbortType
<1>5. CASE /\ ~Overflows(sendCtr[e], n)
           /\ Enter(p, <<PutStep(bytes)>>)
           /\ sendCtr' = [sendCtr EXCEPT ![e] = @ + n]
           /\ Turn(e, "SEND")
           /\ fsSend' = [fsSend EXCEPT ![e] = IF fs[e] = "off" THEN @ ELSE @ \o bytes]
           /\ trSend' = [trSend EXCEPT ![e] = IF e \in Traced THEN @ \o bytes ELSE @]
           /\ UNCHANGED <<recvCtr, flushes, fs, fsRecv, trRecv>>
  <2>1. CallType' /\ BufType' /\ HistType'
    BY <1>1, <1>2, <1>5, EnterType, StepListTypes, ZenonT(20)
  <2>2. sendCtr[e] + n \in 0..CtrMax
    BY <1>1, <1>5, SizesAssumption DEF Overflows
  <2>3. StatType'
    BY <1>1, <1>5, <2>2, TurnType, SMTT(30) DEF TypeOK, StatType
  <2>4. fsSend[e] \o bytes \in Seq(Byte) /\ trSend[e] \o bytes \in Seq(Byte)
    BY <1>1, <1>2, ConcatProperties DEF TypeOK, LogType
  <2>5. LogType'
    BY <1>1, <1>5, <2>4, ZenonT(20) DEF TypeOK, LogType
  <2>6. QED
    BY <2>1, <2>3, <2>5 DEF TypeOK
<1>6. QED
  BY <1>3, <1>4, <1>5, ZenonT(20) DEF SendData, Absorb, Tee

\* recv_data keeps the types; its overflow check bounds recv_counter.
LEMMA RecvDataType == ASSUME TypeOK, NEW p \in Party, RecvData(p) PROVE TypeOK'
<1> DEFINE e == <<p, Head(prog[p]).ch>>
           n == Head(prog[p]).n
<1>1. Calls(p, "recv") /\ e \in Endpoint /\ n \in Nat /\ recvCtr[e] \in 0..CtrMax
  <2>1. Calls(p, "recv")
    BY DEF RecvData
  <2>2. e \in Endpoint /\ n \in Nat
    BY <2>1, CallOp
  <2>3. QED
    BY <2>1, <2>2 DEF TypeOK, StatType
<1>2. CASE n = 0 /\ Enter(p, <<>>) /\ UNCHANGED <<statVars, logVars>>
  BY <1>1, <1>2, EnterNothing
<1>3. CASE Abort(p)
  BY <1>3, AbortType
<1>4. CASE /\ ~Overflows(recvCtr[e], n)
           /\ Enter(p, RecvSteps(n))
           /\ recvCtr' = [recvCtr EXCEPT ![e] = @ + n]
           /\ Turn(e, "RECV")
           /\ UNCHANGED <<sendCtr, flushes, logVars>>
  <2>1. CallType' /\ BufType' /\ HistType'
    BY <1>1, <1>4, EnterType, StepListTypes, ZenonT(20)
  <2>2. recvCtr[e] + n \in 0..CtrMax
    BY <1>1, <1>4, SizesAssumption DEF Overflows
  <2>3. StatType'
    BY <1>1, <1>4, <2>2, TurnType DEF TypeOK, StatType
  <2>4. QED
    BY <1>4, <2>1, <2>3, Frame DEF TypeOK
<1>5. QED
  BY <1>2, <1>3, <1>4 DEF RecvData

\* enable_fs keeps the types.
LEMMA EnableFsType == ASSUME TypeOK, NEW p \in Party, EnableFs(p) PROVE TypeOK'
<1> DEFINE e == <<p, Head(prog[p]).ch>>
           role == IF Head(prog[p]).n = 1 THEN "first" ELSE "second"
<1>1. CASE Abort(p)
  BY <1>1, AbortType
<1>2. CASE /\ Enter(p, <<>>)
           /\ fs' = [fs EXCEPT ![e] = role]
           /\ UNCHANGED <<statVars, fsSend, fsRecv, trSend, trRecv>>
  <2>1. Calls(p, "enable_fs") /\ e \in Endpoint
    BY CallOp DEF EnableFs
  <2>2. LogType'
    BY <1>2, <2>1 DEF TypeOK, LogType
  <2>3. CallType' /\ BufType' /\ HistType'
    BY <1>2, <2>1, EnterType, <<>> \in Seq(Step), ZenonT(20)
  <2>4. QED
    BY <1>2, <2>2, <2>3, Frame DEF TypeOK
<1>3. QED
  BY <1>1, <1>2 DEF EnableFs

\* send_data_internal keeps the types on both of its paths.
LEMMA SendDataInternalType ==
    ASSUME TypeOK, NEW p \in Party, SendDataInternal(p) PROVE TypeOK'
<1> DEFINE e == <<p, cur[p]>>
           bytes == Head(todo[p]).bytes
<1>1. e \in Endpoint /\ Does(p, "put")
  BY CurEndpoint, ZenonT(20) DEF SendDataInternal
<1>2. bytes \in Seq(Byte) /\ Tail(todo[p]) \in Seq(Step)
  BY <1>1, CurStep, ZenonT(20) DEF Does, Step
<1>3. /\ staging[e] \in Seq(Byte) /\ out[e] \in Seq(Byte)
      /\ sent[e] \in Seq(Byte)
  BY <1>1 DEF TypeOK, BufType, HistType
<1>4. /\ staging[e] \o bytes \in Seq(Byte) /\ sent[e] \o bytes \in Seq(Byte)
      /\ Pushed(e, bytes) \in Seq(Byte)
  BY <1>2, <1>3, ConcatProperties DEF Pushed
<1>5. CallType'
  BY <1>2, ZenonT(30) DEF SendDataInternal, NextStep, TypeOK, CallType
<1>6. BufType'
  <2>1. staging' \in [Endpoint -> Seq(Byte)] /\ out' \in [Endpoint -> Seq(Byte)]
    <3>1. \/ /\ staging' = [staging EXCEPT ![e] = staging[e] \o bytes]
             /\ out' = out
          \/ /\ staging' = [staging EXCEPT ![e] = <<>>]
             /\ out' = [out EXCEPT ![e] = Pushed(e, bytes)]
      BY ZenonT(20) DEF SendDataInternal
    <3>2. staging \in [Endpoint -> Seq(Byte)] /\ out \in [Endpoint -> Seq(Byte)]
      BY DEF TypeOK, BufType
    <3>3. /\ [staging EXCEPT ![e] = staging[e] \o bytes] \in [Endpoint -> Seq(Byte)]
          /\ [staging EXCEPT ![e] = <<>>] \in [Endpoint -> Seq(Byte)]
          /\ [out EXCEPT ![e] = Pushed(e, bytes)] \in [Endpoint -> Seq(Byte)]
      <4> HIDE DEF e, bytes
      <4>1. QED
        BY <1>1, <1>4, <3>2, ExceptType, <<>> \in Seq(Byte), SMTT(30)
    <3>4. QED
      BY <3>1, <3>2, <3>3, ZenonT(20)
  <2>2. dirty' \in [Endpoint -> BOOLEAN]
    BY <1>1, ZenonT(30) DEF SendDataInternal, MarkDirty, TypeOK, BufType
  <2>3. QED
    BY <2>1, <2>2, ZenonT(20) DEF SendDataInternal, TypeOK, BufType
<1>7. HistType'
  BY <1>1, <1>4, ZenonT(20) DEF SendDataInternal, TypeOK, HistType
<1>8. QED
  BY <1>5, <1>6, <1>7, Frame, ZenonT(20) DEF SendDataInternal, TypeOK

\* flush_unlocked keeps the types.
LEMMA FlushUnlockedType ==
    ASSUME TypeOK, NEW p \in Party, FlushUnlocked(p) PROVE TypeOK'
<1> DEFINE e == <<p, cur[p]>>
<1>1. e \in Endpoint /\ Does(p, "flush")
  BY CurEndpoint, ZenonT(20) DEF FlushUnlocked
<1>2. Tail(todo[p]) \in Seq(Step)
  BY <1>1, CurStep DEF Does
<1>3. out[e] \o staging[e] \in Seq(Byte)
  BY <1>1, ConcatProperties DEF TypeOK, BufType
<1>4. CallType'
  BY <1>2, ZenonT(20) DEF FlushUnlocked, NextStep, TypeOK, CallType
<1>5. BufType'
  <2>1. staging' \in [Endpoint -> Seq(Byte)] /\ out' \in [Endpoint -> Seq(Byte)]
    <3>1. \/ staging' = staging /\ out' = out
          \/ /\ staging' = [staging EXCEPT ![e] = <<>>]
             /\ out' = [out EXCEPT ![e] = out[e] \o staging[e]]
      BY ZenonT(20) DEF FlushUnlocked
    <3>2. staging \in [Endpoint -> Seq(Byte)] /\ out \in [Endpoint -> Seq(Byte)]
      BY DEF TypeOK, BufType
    <3>3. /\ [staging EXCEPT ![e] = <<>>] \in [Endpoint -> Seq(Byte)]
          /\ [out EXCEPT ![e] = out[e] \o staging[e]] \in [Endpoint -> Seq(Byte)]
      <4> HIDE DEF e
      <4>1. QED
        BY <1>1, <1>3, <3>2, ExceptType, <<>> \in Seq(Byte)
    <3>4. QED
      BY <3>1, <3>2, <3>3, ZenonT(20)
  <2>2. QED
    BY <2>1 DEF FlushUnlocked, TypeOK, BufType
<1>6. StatType'
  <2>1. flushes' = flushes \/ flushes' = [flushes EXCEPT ![e] = flushes[e] + 1]
    BY ZenonT(20) DEF FlushUnlocked
  <2>2. QED
    <3>1. flushes[e] + 1 \in Nat
      BY <1>1 DEF TypeOK, StatType
    <3>2. flushes' \in [Endpoint -> Nat]
      BY <1>1, <2>1, <3>1, ExceptType, Zenon DEF TypeOK, StatType
    <3>3. QED
      BY <3>2 DEF FlushUnlocked, TypeOK, StatType
<1>7. QED
  BY <1>4, <1>5, <1>6, Frame DEF FlushUnlocked, TypeOK

\* What a kernel write moves is a non-empty prefix of the stream buffer.
LEMMA KernelWriteMoves ==
    ASSUME TypeOK, NEW p \in Party, KernelWrite(p)
    PROVE  \E k \in 1..Len(out[p, cur[p]]) :
              /\ k <= PipeSize - Len(wire[p, cur[p]])
              /\ wire' = [wire EXCEPT ![<<p, cur[p]>>] = @ \o Take(out[p, cur[p]], k)]
              /\ out' = [out EXCEPT ![<<p, cur[p]>>] = Drop(@, k)]
<1> DEFINE e == <<p, cur[p]>>
<1>1. e \in Endpoint
  BY CurEndpoint, ZenonT(20)
<1>2. out[e] \in Seq(Byte) /\ wire[e] \in Seq(Byte)
  BY <1>1 DEF TypeOK, BufType
<1>3. Len(out[e]) \in Nat /\ Len(wire[e]) \in Nat
  BY <1>2, LenProperties
<1>4. PICK k \in 1..Least(Len(out[e]), PipeSize - Len(wire[e])) :
              /\ wire' = [wire EXCEPT ![e] = @ \o Take(out[e], k)]
              /\ out' = [out EXCEPT ![e] = Drop(@, k)]
  BY ZenonT(20) DEF KernelWrite
<1>5. k \in 1..Len(out[e]) /\ k <= PipeSize - Len(wire[e])
  <2>1. Len(out[e]) \in Int /\ PipeSize - Len(wire[e]) \in Int
    BY <1>3, SizesAssumption
  <2>2. QED
    BY <1>4, <2>1, BelowLeast
<1>6. QED
  BY <1>4, <1>5, ZenonT(20)

\* The kernel only takes bytes that are there.
LEMMA KernelWriteNeedsBytes ==
    ASSUME TypeOK, NEW p \in Party, KernelWrite(p)
    PROVE  out[p, cur[p]] # <<>>
<1>1. \E k \in 1..Len(out[p, cur[p]]) : TRUE
  BY KernelWriteMoves, ZenonT(20)
<1>2. out[p, cur[p]] \in Seq(Byte)
  BY CurEndpoint, ZenonT(20) DEF TypeOK, BufType
<1>3. QED
  BY <1>1, <1>2, IndexedNotEmpty, ZenonT(20)

\* A partial write keeps the types.
LEMMA KernelWriteType ==
    ASSUME TypeOK, NEW p \in Party, KernelWrite(p) PROVE TypeOK'
<1> DEFINE e == <<p, cur[p]>>
<1>1. e \in Endpoint
  BY CurEndpoint, ZenonT(20)
<1>2. PICK k \in 1..Len(out[e]) :
              /\ wire' = [wire EXCEPT ![e] = @ \o Take(out[e], k)]
              /\ out' = [out EXCEPT ![e] = Drop(@, k)]
  BY KernelWriteMoves, ZenonT(20)
<1>3. out[e] \in Seq(Byte) /\ wire[e] \in Seq(Byte)
  BY <1>1 DEF TypeOK, BufType
<1>4. k \in 0..Len(out[e])
  BY <1>3, LenProperties
<1>5. wire[e] \o Take(out[e], k) \in Seq(Byte) /\ Drop(out[e], k) \in Seq(Byte)
  BY <1>3, <1>4, TakeDrop, ConcatProperties
<1>6. BufType'
  BY <1>1, <1>2, <1>5, ZenonT(20) DEF KernelWrite, TypeOK, BufType
<1>7. QED
  BY <1>6, Frame DEF KernelWrite, TypeOK

\* The return of send_raw keeps the types.
LEMMA RawReturnType == ASSUME TypeOK, NEW p \in Party, RawReturn(p) PROVE TypeOK'
<1>1. <<p, cur[p]>> \in Endpoint
  BY CurEndpoint, ZenonT(20)
<1>2. CallType' /\ BufType'
  BY <1>1, ZenonT(20) DEF RawReturn, MarkDirty, TypeOK, CallType, BufType
<1>3. QED
  BY <1>2, Frame, ZenonT(20) DEF RawReturn, TypeOK

\* The return of fflush keeps the types.
LEMMA FflushReturnType ==
    ASSUME TypeOK, NEW p \in Party, FflushReturn(p) PROVE TypeOK'
<1>1. <<p, cur[p]>> \in Endpoint
  BY CurEndpoint, ZenonT(20)
<1>2. CallType' /\ BufType'
  BY <1>1, ZenonT(20) DEF FflushReturn, TypeOK, CallType, BufType
<1>3. QED
  BY <1>2, Frame, ZenonT(20) DEF FflushReturn, TypeOK

\* A failed write keeps the types.
LEMMA WriteErrorType == ASSUME TypeOK, NEW p \in Party, WriteError(p) PROVE TypeOK'
<1> DEFINE e == <<p, cur[p]>>
<1>1. e \in Endpoint
  BY CurEndpoint, ZenonT(20)
<1>2. pc' = pc \/ pc' = [pc EXCEPT ![p] = "dead"]
  BY DEF WriteError
<1>3. out' = out \/ out' = [out EXCEPT ![e] = <<>>]
  BY DEF WriteError
<1>4. CallType'
  BY <1>2, ZenonT(20) DEF WriteError, TypeOK, CallType
<1>5. BufType'
  <2>1. out' \in [Endpoint -> Seq(Byte)]
    BY <1>1, <1>3, ExceptType, <<>> \in Seq(Byte), Zenon DEF TypeOK, BufType
  <2>2. QED
    BY <2>1 DEF WriteError, TypeOK, BufType
<1>6. HistType'
  BY <1>1 DEF WriteError, TypeOK, HistType
<1>7. QED
  BY <1>4, <1>5, <1>6, Frame DEF WriteError, TypeOK

\* Entering recv_data_internal's loop keeps the types.
LEMMA StartReadType == ASSUME TypeOK, NEW p \in Party, StartRead(p) PROVE TypeOK'
<1>1. Head(todo[p]).n \in Nat
  BY CurStep DEF StartRead, Does, Step
<1>2. CallType'
  BY <1>1 DEF StartRead, TypeOK, CallType
<1>3. QED
  BY <1>2, Frame DEF StartRead, TypeOK

\* A refill moves a non-empty prefix of what the kernel holds.
LEMMA ReadKernelMoves ==
    ASSUME TypeOK, NEW p \in Party, ReadKernel(p)
    PROVE  \E k \in 1..Len(wire[Peer(p), cur[p]]) :
              /\ k <= StagingSize
              /\ rbuf' = [rbuf EXCEPT ![<<p, cur[p]>>] = Take(wire[Peer(p), cur[p]], k)]
              /\ wire' = [wire EXCEPT ![<<Peer(p), cur[p]>>] = Drop(@, k)]
<1> DEFINE e == <<p, cur[p]>>
           from == <<Peer(p), cur[p]>>
<1>1. wire[from] \in Seq(Byte)
  BY CurEndpoint, ZenonT(20) DEF TypeOK, BufType
<1>2. Len(wire[from]) \in Int /\ StagingSize \in Int
  BY <1>1, LenProperties, SizesAssumption
<1>3. PICK k \in 1..Least(Len(wire[from]), StagingSize) :
              /\ rbuf' = [rbuf EXCEPT ![e] = Take(wire[from], k)]
              /\ wire' = [wire EXCEPT ![from] = Drop(@, k)]
  BY ZenonT(20) DEF ReadKernel
<1>4. k \in 1..Len(wire[from]) /\ k <= StagingSize
  BY <1>2, <1>3, BelowLeast
<1>5. QED
  BY <1>3, <1>4, ZenonT(20)

\* A refill of recv_buf keeps the types.
LEMMA ReadKernelType == ASSUME TypeOK, NEW p \in Party, ReadKernel(p) PROVE TypeOK'
<1> DEFINE e == <<p, cur[p]>>
           from == <<Peer(p), cur[p]>>
<1>1. e \in Endpoint /\ from \in Endpoint
  BY CurEndpoint
<1>2. PICK k \in 1..Len(wire[from]) :
              /\ rbuf' = [rbuf EXCEPT ![e] = Take(wire[from], k)]
              /\ wire' = [wire EXCEPT ![from] = Drop(@, k)]
  BY ReadKernelMoves, ZenonT(20)
<1>3. wire[from] \in Seq(Byte)
  BY <1>1 DEF TypeOK, BufType
<1>4. k \in 0..Len(wire[from])
  BY <1>3, LenProperties
<1>5. Take(wire[from], k) \in Seq(Byte) /\ Drop(wire[from], k) \in Seq(Byte)
  BY <1>3, <1>4, TakeDrop, SMTT(30)
<1>6. BufType'
  BY <1>1, <1>2, <1>5 DEF ReadKernel, TypeOK, BufType
<1>7. QED
  BY <1>6, Frame DEF ReadKernel, TypeOK

\* What ReadBuffered copies out is a prefix of recv_buf, no longer than asked.
LEMMA ReadBufferedMoves ==
    ASSUME TypeOK, NEW p \in Party, ReadBuffered(p)
    PROVE  \E k \in 0..Len(rbuf[p, cur[p]]) :
              /\ k = Least(Len(rbuf[p, cur[p]]), need[p])
              /\ k <= need[p]
              /\ rbuf' = [rbuf EXCEPT ![<<p, cur[p]>>] = Drop(@, k)]
              /\ rcvd' = [rcvd EXCEPT ![<<p, cur[p]>>] = @ \o Take(rbuf[p, cur[p]], k)]
<1> DEFINE e == <<p, cur[p]>>
           k == Least(Len(rbuf[e]), need[p])
<1>1. Len(rbuf[e]) \in Nat /\ need[p] \in Nat
  BY CurEndpoint, LenProperties DEF TypeOK, BufType, CallType
<1>2. k \in 0..Len(rbuf[e]) /\ k <= need[p]
  BY <1>1, SMTT(30) DEF Least
<1>3. /\ rbuf' = [rbuf EXCEPT ![e] = Drop(@, k)]
      /\ rcvd' = [rcvd EXCEPT ![e] = @ \o Take(rbuf[e], k)]
  BY ZenonT(20) DEF ReadBuffered
<1>4. QED
  BY <1>2, <1>3, ZenonT(20)

\* Copying out of recv_buf keeps the types: the byte count still needed
\* never goes below zero.
LEMMA ReadBufferedType ==
    ASSUME TypeOK, CallShape, NEW p \in Party, ReadBuffered(p) PROVE TypeOK'
<1> DEFINE e == <<p, cur[p]>>
           k == Least(Len(rbuf[e]), need[p])
           msg == got[p] \o Take(rbuf[e], k)
<1>1. e \in Endpoint
  BY CurEndpoint, ZenonT(20)
<1>2. /\ rbuf[e] \in Seq(Byte) /\ rcvd[e] \in Seq(Byte) /\ got[p] \in Seq(Byte)
      /\ fsRecv[e] \in Seq(Byte) /\ trRecv[e] \in Seq(Byte) /\ need[p] \in Nat
  BY <1>1 DEF TypeOK, BufType, HistType, CallType, LogType
<1>3. k \in 0..Len(rbuf[e]) /\ k <= need[p] /\ k \in Nat
  BY <1>2, LenProperties DEF Least
<1>4. Take(rbuf[e], k) \in Seq(Byte) /\ Drop(rbuf[e], k) \in Seq(Byte)
  BY <1>2, <1>3, TakeDrop, SMTT(30)
<1>5. msg \in Seq(Byte) /\ rcvd[e] \o Take(rbuf[e], k) \in Seq(Byte)
  BY <1>2, <1>4, ConcatProperties
<1>6. fsRecv[e] \o msg \in Seq(Byte) /\ trRecv[e] \o msg \in Seq(Byte)
  BY <1>2, <1>5, ConcatProperties
<1>7. Tail(todo[p]) \in Seq(Step)
  BY CurStep, ZenonT(20) DEF CallShape, CallShapeOf, ReadBuffered
<1>8. CallType'
  <2>1. need[p] - k \in Nat /\ need' = [need EXCEPT ![p] = need[p] - k]
    <3>1. need' = [need EXCEPT ![p] = need[p] - k]
      BY DEF ReadBuffered
    <3>2. need[p] - k \in Nat
      <4> HIDE DEF k
      <4>1. QED
        BY <1>2, <1>3, SMTT(30)
    <3>3. QED
      BY <3>1, <3>2, SMTT(30)
  <2>2. \/ got' = [got EXCEPT ![p] = msg] /\ UNCHANGED <<pc, todo>>
        \/ /\ got' = [got EXCEPT ![p] = <<>>] /\ pc' = [pc EXCEPT ![p] = "idle"]
           /\ todo' = [todo EXCEPT ![p] = Tail(todo[p])]
    BY ZenonT(20) DEF ReadBuffered, NextStep
  <2>3. prog' = prog /\ cur' = cur
    BY DEF ReadBuffered
  <2> HIDE DEF k, msg
  <2>4. need' \in [Party -> Nat]
    BY <2>1 DEF TypeOK, CallType
  <2>5. got' \in [Party -> Seq(Byte)]
    <3>1. got' = [got EXCEPT ![p] = msg] \/ got' = [got EXCEPT ![p] = <<>>]
      BY <2>2
    <3>2. got \in [Party -> Seq(Byte)] /\ msg \in Seq(Byte) /\ <<>> \in Seq(Byte)
      BY <1>5 DEF TypeOK, CallType
    <3>3. QED
      BY <3>1, <3>2, ZenonT(20)
  <2>6. todo' \in [Party -> Seq(Step)]
    BY <1>7, <2>2, ZenonT(20) DEF TypeOK, CallType
  <2>7. pc' \in [Party -> {"idle", "raw", "fflush", "read", "dead"}]
    BY <2>2, ZenonT(20) DEF TypeOK, CallType
  <2>8. QED
    BY <2>3, <2>4, <2>5, <2>6, <2>7 DEF TypeOK, CallType
<1>9. BufType'
  <2>1. rbuf' = [rbuf EXCEPT ![e] = Drop(rbuf[e], k)]
    BY DEF ReadBuffered
  <2>2. rbuf' \in [Endpoint -> Seq(Byte)]
    BY <1>1, <1>4, <2>1, ExceptType, ZenonT(30) DEF TypeOK, BufType
  <2>3. QED
    BY <2>2, ZenonT(20) DEF ReadBuffered, TypeOK, BufType
<1>10. HistType'
  <2>1. rcvd' = [rcvd EXCEPT ![e] = rcvd[e] \o Take(rbuf[e], k)]
    BY DEF ReadBuffered
  <2>2. rcvd' \in [Endpoint -> Seq(Byte)]
    BY <1>1, <1>5, <2>1, ExceptType, ZenonT(30) DEF TypeOK, HistType
  <2>3. QED
    BY <2>2, ZenonT(30) DEF ReadBuffered, TypeOK, HistType
<1>11. LogType'
  <2>1. \/ fsRecv' = fsRecv \/ fsRecv' = [fsRecv EXCEPT ![e] = fsRecv[e]]
        \/ fsRecv' = [fsRecv EXCEPT ![e] = fsRecv[e] \o msg]
    BY ZenonT(30) DEF ReadBuffered, Absorb
  <2>2. \/ trRecv' = trRecv \/ trRecv' = [trRecv EXCEPT ![e] = trRecv[e]]
        \/ trRecv' = [trRecv EXCEPT ![e] = trRecv[e] \o msg]
    BY ZenonT(20) DEF ReadBuffered, Tee
  <2>3. fsRecv' \in [Endpoint -> Seq(Byte)] /\ trRecv' \in [Endpoint -> Seq(Byte)]
    <3>1. fsRecv \in [Endpoint -> Seq(Byte)] /\ trRecv \in [Endpoint -> Seq(Byte)]
      BY DEF TypeOK, LogType
    <3> HIDE DEF e, msg
    <3>2. /\ [fsRecv EXCEPT ![e] = fsRecv[e]] \in [Endpoint -> Seq(Byte)]
          /\ [fsRecv EXCEPT ![e] = fsRecv[e] \o msg] \in [Endpoint -> Seq(Byte)]
          /\ [trRecv EXCEPT ![e] = trRecv[e]] \in [Endpoint -> Seq(Byte)]
          /\ [trRecv EXCEPT ![e] = trRecv[e] \o msg] \in [Endpoint -> Seq(Byte)]
      BY <1>1, <1>2, <1>6, <3>1, ExceptType
    <3>3. QED
      BY <2>1, <2>2, <3>1, <3>2, ZenonT(20)
  <2>4. QED
    BY <2>3, ZenonT(30) DEF ReadBuffered, TypeOK, LogType
<1>12. QED
  BY <1>8, <1>9, <1>10, <1>11, Frame DEF ReadBuffered, TypeOK

\* Closing the socket keeps the types.
LEMMA CloseSocketType == ASSUME TypeOK, NEW p \in Party, CloseSocket(p) PROVE TypeOK'
<1>1. <<p, cur[p]>> \in Endpoint
  BY CurEndpoint, ZenonT(20)
<1>2. Tail(todo[p]) \in Seq(Step)
  BY CurStep DEF CloseSocket, Does
<1>3. CallType'
  BY <1>2 DEF CloseSocket, NextStep, TypeOK, CallType
<1>4. BufType'
  BY <1>1 DEF CloseSocket, bufVars, TypeOK, BufType
<1>5. QED
  BY <1>3, <1>4, Frame DEF CloseSocket, TypeOK

\* Every step keeps the types, given the shape of the calls.
LEMMA TypeStep == TypeOK /\ CallShape /\ [Next]_vars => TypeOK'
<1> SUFFICES ASSUME TypeOK, CallShape, [Next]_vars PROVE TypeOK'
  OBVIOUS
<1>1. CASE UNCHANGED vars
  BY <1>1, Frame DEF TypeOK, vars
<1>2. ASSUME NEW p \in Party, Flush(p) \/ Sync(p) \/ Destroy(p) PROVE TypeOK'
  <2>1. PICK steps \in Seq(Step), name \in {"flush", "sync", "close"} :
            Calls(p, name) /\ Enter(p, steps) /\ UNCHANGED <<statVars, logVars>>
    BY <1>2, StepListTypes, ZenonT(20) DEF Flush, Sync, Destroy
  <2>2. CallType' /\ BufType' /\ HistType'
    BY <2>1, EnterType
  <2>3. QED
    BY <2>1, <2>2, Frame DEF TypeOK
<1>3. QED
  BY <1>1, <1>2, AbortType, SendDataType, RecvDataType, EnableFsType, SendDataInternalType, FlushUnlockedType, KernelWriteType, RawReturnType, FflushReturnType, WriteErrorType, StartReadType, ReadKernelType, ReadBufferedType, CloseSocketType, ZenonT(20)
     DEF Next,
        Move,
        ReadEof,
        Crash

-----------------------------------------------------------------------------
(* The flush discipline: a call that waits for the peer, or closes its      *)
(* channel, has drained everything it ever staged there.                    *)

\* p's own share of the flush discipline.
PartyInv(p) ==
    /\ CallShapeOf(p)
    /\ \A c \in Chan :
          ~dirty[p, c] /\ pc[p] # "dead" /\ ~(pc[p] = "raw" /\ cur[p] = c) =>
              staging[p, c] = <<>> /\ out[p, c] = <<>>
    /\ \A c \in Chan :
          closed[p, c] => staging[p, c] = <<>> /\ out[p, c] = <<>>

\* The three invariants of the flush discipline are its parties' shares.
LEMMA PartyInvIsAll ==
    (\A p \in Party : PartyInv(p)) <=>
        CallShape /\ CleanMeansEmpty /\ ClosedMeansDrained
BY Zenon DEF PartyInv, CallShape, CleanMeansEmpty, ClosedMeansDrained

\* Finishing a step of a call leaves the rest of the call well formed.
LEMMA OrderedTail ==
    ASSUME NEW steps \in Seq(Step), steps # <<>>, StepsOrdered(steps)
    PROVE  /\ StepsOrdered(Tail(steps))
           /\ Tail(steps) # <<>> /\ steps[1].do # "flush" =>
                  Tail(steps)[1].do \notin Settled
           /\ steps[1].do = "close" => Tail(steps) = <<>>
<1>1. /\ Tail(steps) \in Seq(Step) /\ Len(steps) \in Nat /\ Len(steps) > 0
      /\ Len(Tail(steps)) = Len(steps) - 1
      /\ \A i \in 1..Len(Tail(steps)) : Tail(steps)[i] = steps[i + 1]
  BY HeadTailProperties, LenProperties, EmptySeq
<1>2. StepsOrdered(Tail(steps))
  <2> SUFFICES ASSUME NEW i \in 1..Len(Tail(steps))
               PROVE  /\ i > 1 /\ Tail(steps)[i].do \in Settled =>
                             Tail(steps)[i-1].do = "flush"
                      /\ Tail(steps)[i].do = "close" => i = Len(Tail(steps))
    BY DEF StepsOrdered
  <2>1. i + 1 \in 1..Len(steps) /\ Tail(steps)[i] = steps[i + 1]
    BY <1>1
  <2>2. i > 1 => Tail(steps)[i-1] = steps[i]
    BY <1>1
  <2>3. /\ steps[i+1].do \in Settled => steps[(i+1)-1].do = "flush"
        /\ steps[i+1].do = "close" => i + 1 = Len(steps)
    BY <2>1 DEF StepsOrdered
  <2>4. (i + 1) - 1 = i
    OBVIOUS
  <2>5. QED
    BY <1>1, <2>1, <2>2, <2>3, <2>4, ZenonT(20)
<1>3. Tail(steps) # <<>> => Tail(steps)[1] = steps[2] /\ 2 \in 1..Len(steps)
  BY <1>1, EmptySeq
<1>4. Tail(steps) # <<>> /\ steps[1].do # "flush" => Tail(steps)[1].do \notin Settled
  <2>1. 2 \in 1..Len(steps) => (steps[2].do \in Settled => steps[2-1].do = "flush")
    BY DEF StepsOrdered
  <2>2. QED
    BY <1>3, <2>1, 2-1 = 1
<1>5. steps[1].do = "close" => Len(steps) = 1
  <2>1. 1 \in 1..Len(steps)
    BY <1>1
  <2>2. QED
    BY <2>1, ZenonT(20) DEF StepsOrdered
<1>6. QED
  BY <1>1, <1>2, <1>4, <1>5, EmptySeq

\* Every call starts with a put or a flush and is ordered throughout.
Opens(steps) ==
    StepsOrdered(steps) /\ (steps # <<>> => steps[1].do \notin Settled)

\* No call enters a channel whose destructor has run.
LEMMA CallsOpen ==
    /\ Opens(<<>>) /\ Opens(<<FlushStep>>) /\ Opens(CloseSteps)
    /\ \A bytes : Opens(<<PutStep(bytes)>>)
    /\ \A n : Opens(RecvSteps(n))
    /\ \A e : Opens(SyncSteps(e))
<1> USE DEF Opens, StepsOrdered, Settled, FlushStep, PutStep, ReadStep, CloseStep
<1>1. Opens(<<>>) /\ Opens(<<FlushStep>>) /\ Opens(CloseSteps)
  BY DEF CloseSteps
<1>2. \A bytes : Opens(<<PutStep(bytes)>>)
  OBVIOUS
<1>3. \A n : Opens(RecvSteps(n))
  BY DEF RecvSteps
<1>4. ASSUME NEW e PROVE Opens(SyncSteps(e))
  <2>1. CASE e \in IsServer
    BY <2>1 DEF SyncSteps
  <2>2. CASE e \notin IsServer /\ Tls
    BY <2>2 DEF SyncSteps
  <2>3. CASE e \notin IsServer /\ ~Tls
    BY <2>3 DEF SyncSteps
  <2>4. QED
    BY <2>1, <2>2, <2>3
<1>5. QED
  BY <1>1, <1>2, <1>3, <1>4, ZenonT(20)

\* A step of p touches no endpoint but the one its call is on, and nothing of
\* the other party's call.
Local(p) ==
    /\ \A e \in Endpoint : e # <<p, cur[p]>> =>
          /\ staging'[e] = staging[e] /\ out'[e] = out[e]
          /\ dirty'[e] = dirty[e] /\ closed'[e] = closed[e]
    /\ \A q \in Party : q # p =>
          pc'[q] = pc[q] /\ todo'[q] = todo[q] /\ cur'[q] = cur[q]

\* A party's step changes only its own send side and its own control state.
LEMMA StepIsLocal ==
    ASSUME TypeOK, NEW p \in Party, Move(p) \/ Crash(p)
    PROVE  Local(p)
<1> USE DEF TypeOK, CallType, BufType, Local
<1>1. <<p, cur[p]>> \in Endpoint
  BY CurEndpoint, ZenonT(30)
<1>2. ASSUME NEW steps, Enter(p, steps) PROVE Local(p)
  BY <1>2 DEF Enter, bufVars
<1>3. ASSUME Abort(p) PROVE Local(p)
  BY <1>3 DEF Abort, bufVars
<1>4. CASE SendData(p)
  BY <1>2, <1>3, <1>4, ZenonT(30) DEF SendData
<1>5. CASE RecvData(p)
  BY <1>2, <1>3, <1>5, ZenonT(30) DEF RecvData
<1>6. CASE Flush(p) \/ Sync(p) \/ Destroy(p)
  BY <1>2, <1>6, ZenonT(30) DEF Flush, Sync, Destroy
<1>7. CASE EnableFs(p)
  BY <1>2, <1>3, <1>7, ZenonT(30) DEF EnableFs
<1>8. CASE SendDataInternal(p)
  BY <1>1, <1>8, ZenonT(20) DEF SendDataInternal, NextStep, MarkDirty
<1>9. CASE FlushUnlocked(p)
  BY <1>1, <1>9, ZenonT(20) DEF FlushUnlocked, NextStep
<1>10. CASE KernelWrite(p)
  BY <1>1, <1>10 DEF KernelWrite, callVars
<1>11. CASE RawReturn(p) \/ FflushReturn(p)
  BY <1>1, <1>11, ZenonT(20) DEF RawReturn, FflushReturn, MarkDirty
<1>12. CASE WriteError(p)
  BY <1>1, <1>12, ZenonT(20) DEF WriteError
<1>13. CASE StartRead(p)
  BY <1>13, ZenonT(20) DEF StartRead, bufVars
<1>14. CASE ReadKernel(p)
  BY <1>14, SMTT(30) DEF ReadKernel, callVars
<1>15. CASE ReadBuffered(p)
  BY <1>15, ZenonT(20) DEF ReadBuffered, NextStep
<1>16. CASE CloseSocket(p)
  BY <1>1, <1>16, ZenonT(20) DEF CloseSocket, NextStep, bufVars
<1>17. QED
  BY <1>3, <1>4, <1>5, <1>6, <1>7, <1>8, <1>9, <1>10, <1>11, <1>12, <1>13,
     <1>14, <1>15, <1>16 DEF Move, ReadEof, Crash

\* A step of p leaves the other party's share alone.
LEMMA OtherPartyInv ==
    ASSUME TypeOK, NEW p \in Party, NEW q \in Party, q # p, Local(p), PartyInv(q)
    PROVE  PartyInv(q)'
<1>1. cur[q] \in Chan
  BY DEF TypeOK, CallType
<1>2. pc'[q] = pc[q] /\ todo'[q] = todo[q] /\ cur'[q] = cur[q]
  BY ZenonT(20) DEF Local
<1>3. \A c \in Chan : /\ staging'[q, c] = staging[q, c] /\ out'[q, c] = out[q, c]
                      /\ dirty'[q, c] = dirty[q, c] /\ closed'[q, c] = closed[q, c]
  BY ZenonT(20) DEF Local, Endpoint
<1>4. CallShapeOf(q)'
  BY <1>1, <1>2, <1>3, ZenonT(20) DEF PartyInv, CallShapeOf
<1>5. QED
  BY <1>2, <1>3, <1>4, ZenonT(20) DEF PartyInv

\* Entering a call keeps the flush discipline.
LEMMA EnterInv ==
    ASSUME TypeOK, NEW p \in Party, PartyInv(p), NEW name, Calls(p, name),
           NEW steps, Opens(steps), Enter(p, steps)
    PROVE  PartyInv(p)'
<1>1. /\ pc'[p] = "idle" /\ todo'[p] = steps /\ cur'[p] = Head(prog[p]).ch
      /\ ~closed[p, Head(prog[p]).ch]
      /\ UNCHANGED <<staging, out, dirty, closed>>
  BY ZenonT(20) DEF Enter, Calls, TypeOK, CallType, bufVars
<1>2. CallShapeOf(p)'
  BY <1>1, ZenonT(20) DEF CallShapeOf, Opens
<1>3. QED
  BY <1>1, <1>2, ZenonT(20) DEF PartyInv, Calls

\* A dead party keeps the flush discipline.
LEMMA AbortInv ==
    ASSUME TypeOK, NEW p \in Party, PartyInv(p), Abort(p) PROVE PartyInv(p)'
<1>1. /\ pc'[p] = "dead" /\ todo'[p] = todo[p] /\ cur'[p] = cur[p]
      /\ UNCHANGED <<staging, out, dirty, closed>>
  BY DEF Abort, TypeOK, CallType, bufVars
<1>2. CallShapeOf(p)'
  BY <1>1, ZenonT(20) DEF PartyInv, CallShapeOf
<1>3. QED
  BY <1>1, <1>2, ZenonT(20) DEF PartyInv

\* The shape of p's state when it is about to make the internal step `step`.
LEMMA AtStep ==
    ASSUME TypeOK, NEW p \in Party, PartyInv(p), NEW step, Does(p, step)
    PROVE  /\ pc[p] = "idle" /\ ~closed[p, cur[p]]
           /\ StepsOrdered(Tail(todo[p])) /\ todo[p][1].do = step
           /\ Tail(todo[p]) # <<>> /\ step # "flush" =>
                  Tail(todo[p])[1].do \notin Settled
           /\ step = "close" => Tail(todo[p]) = <<>>
<1>1. todo[p] \in Seq(Step) /\ todo[p] # <<>> /\ StepsOrdered(todo[p])
  BY ZenonT(20) DEF TypeOK, CallType, Does, PartyInv, CallShapeOf
<1>2. todo[p][1].do = step
  BY <1>1 DEF Does
<1>3. pc[p] = "idle" /\ ~closed[p, cur[p]]
  BY <1>1, ZenonT(20) DEF Does, PartyInv, CallShapeOf
<1>4. QED
  BY <1>1, <1>2, <1>3, OrderedTail, ZenonT(20)

\* send_data_internal sets send_dirty whenever it leaves bytes behind.
LEMMA SendDataInternalInv ==
    ASSUME TypeOK, NEW p \in Party, PartyInv(p), Local(p), SendDataInternal(p)
    PROVE  PartyInv(p)'
<1>1. Does(p, "put") /\ <<p, cur[p]>> \in Endpoint
  BY CurEndpoint, ZenonT(20) DEF SendDataInternal
<1>2. /\ todo'[p] = Tail(todo[p]) /\ cur' = cur /\ closed' = closed
      /\ \/ pc'[p] = "idle" /\ dirty'[p, cur[p]]
         \/ pc'[p] = "raw"
  <2>1. todo'[p] = Tail(todo[p]) /\ cur' = cur /\ closed' = closed
    BY ZenonT(30) DEF SendDataInternal, NextStep, TypeOK, CallType
  <2>2. \/ pc' = pc /\ dirty' = [dirty EXCEPT ![<<p, cur[p]>>] = TRUE]
        \/ pc' = [pc EXCEPT ![p] = "raw"]
    BY ZenonT(20) DEF SendDataInternal, MarkDirty
  <2>3. pc[p] = "idle"
    BY <1>1 DEF Does
  <2>4. QED
    BY <1>1, <2>1, <2>2, <2>3, ZenonT(30) DEF TypeOK, CallType, BufType
<1>3. CallShapeOf(p)'
  <2>1. /\ StepsOrdered(Tail(todo[p])) /\ ~closed[p, cur[p]]
        /\ Tail(todo[p]) # <<>> => Tail(todo[p])[1].do \notin Settled
    <3>1. todo[p] \in Seq(Step) /\ todo[p] # <<>> /\ todo[p][1].do = "put"
      BY <1>1, AtStep, ZenonT(20) DEF Does, TypeOK, CallType
    <3>2. QED
      BY <1>1, <3>1, OrderedTail, AtStep, ZenonT(20) DEF PartyInv, CallShapeOf
  <2>2. QED
    BY <1>2, <2>1, Zenon DEF CallShapeOf
<1>4. \A c \in Chan : c # cur[p] => /\ staging'[p, c] = staging[p, c]
                                    /\ out'[p, c] = out[p, c]
                                    /\ dirty'[p, c] = dirty[p, c]
  BY ZenonT(20) DEF Local, Endpoint
<1>5. QED
  BY <1>1, <1>2, <1>3, <1>4, AtStep, ZenonT(30) DEF PartyInv

\* flush_unlocked either finds nothing to do or starts draining everything.
LEMMA FlushUnlockedInv ==
    ASSUME TypeOK, NEW p \in Party, PartyInv(p), Local(p), FlushUnlocked(p)
    PROVE  PartyInv(p)'
<1>1. Does(p, "flush") /\ <<p, cur[p]>> \in Endpoint
  BY CurEndpoint, ZenonT(20) DEF FlushUnlocked
<1>2. /\ todo'[p] = Tail(todo[p])
      /\ cur' = cur /\ closed' = closed /\ dirty' = dirty
  BY ZenonT(20) DEF FlushUnlocked, NextStep, TypeOK, CallType
<1>3. \/ ~dirty[p, cur[p]] /\ pc' = pc /\ staging' = staging /\ out' = out
      \/ dirty[p, cur[p]] /\ pc'[p] = "fflush" /\ staging'[p, cur[p]] = <<>>
  BY <1>1, ZenonT(20) DEF FlushUnlocked, TypeOK, CallType, BufType
<1>4. CallShapeOf(p)'
  BY <1>1, <1>2, <1>3, AtStep, ZenonT(20) DEF CallShapeOf
<1>5. \A c \in Chan : c # cur[p] => /\ staging'[p, c] = staging[p, c]
                                    /\ out'[p, c] = out[p, c]
  BY ZenonT(20) DEF Local, Endpoint
<1>6. QED
  BY <1>1, <1>2, <1>3, <1>4, <1>5, AtStep, ZenonT(30) DEF PartyInv

\* A partial write keeps the flush discipline.
LEMMA KernelWriteInv ==
    ASSUME TypeOK, NEW p \in Party, PartyInv(p), Local(p), KernelWrite(p)
    PROVE  PartyInv(p)'
<1>1. pc[p] \in {"raw", "fflush"} /\ cur[p] \in Chan /\ ~closed[p, cur[p]]
  BY ZenonT(20) DEF KernelWrite, TypeOK, CallType, PartyInv, CallShapeOf
<1>2. /\ pc' = pc /\ todo' = todo /\ cur' = cur /\ closed' = closed
      /\ dirty' = dirty /\ staging' = staging
  BY DEF KernelWrite, callVars
<1>3. out[p, cur[p]] # <<>>
  BY KernelWriteNeedsBytes, ZenonT(20)
<1>4. pc[p] = "fflush" => dirty[p, cur[p]]
  BY <1>1, <1>3, ZenonT(20) DEF PartyInv
<1>5. CallShapeOf(p)'
  BY <1>2, ZenonT(20) DEF PartyInv, CallShapeOf
<1>6. \A c \in Chan : c # cur[p] => out'[p, c] = out[p, c]
  BY ZenonT(20) DEF Local, Endpoint
<1>7. QED
  BY <1>1, <1>2, <1>4, <1>5, <1>6, ZenonT(20) DEF PartyInv

\* send_raw returns with send_dirty set, fflush with both buffers empty.
LEMMA WriteReturnInv ==
    ASSUME TypeOK, NEW p \in Party, PartyInv(p), Local(p),
           RawReturn(p) \/ FflushReturn(p)
    PROVE  PartyInv(p)'
<1>1. /\ pc[p] \in {"raw", "fflush"} /\ cur[p] \in Chan /\ ~closed[p, cur[p]]
      /\ <<p, cur[p]>> \in Endpoint
  BY CurEndpoint, ZenonT(20) DEF RawReturn, FflushReturn, TypeOK, CallType, PartyInv, CallShapeOf
<1>2. /\ pc'[p] = "idle" /\ todo' = todo /\ cur' = cur /\ closed' = closed
      /\ staging' = staging /\ out' = out
  BY ZenonT(20) DEF RawReturn, FflushReturn, TypeOK, CallType
<1>3. \/ pc[p] = "raw" /\ dirty'[p, cur[p]]
      \/ pc[p] = "fflush" /\ ~dirty'[p, cur[p]] /\ out[p, cur[p]] = <<>>
  BY <1>1, ZenonT(20) DEF RawReturn, FflushReturn, MarkDirty, TypeOK, BufType
<1>4. CallShapeOf(p)'
  BY <1>1, <1>2, <1>3, ZenonT(20) DEF PartyInv, CallShapeOf
<1>5. \A c \in Chan : c # cur[p] => dirty'[p, c] = dirty[p, c]
  BY ZenonT(20) DEF Local, Endpoint
<1>6. pc[p] = "fflush" => staging[p, cur[p]] = <<>>
  BY ZenonT(20) DEF PartyInv, CallShapeOf
<1>7. QED
  BY <1>1, <1>2, <1>3, <1>4, <1>5, <1>6, ZenonT(20) DEF PartyInv

\* A failed write keeps the flush discipline.
LEMMA WriteErrorInv ==
    ASSUME TypeOK, NEW p \in Party, PartyInv(p), Local(p), WriteError(p)
    PROVE  PartyInv(p)'
<1>1. /\ pc[p] \in {"raw", "fflush"} /\ cur[p] \in Chan /\ ~closed[p, cur[p]]
      /\ <<p, cur[p]>> \in Endpoint
  BY CurEndpoint, ZenonT(20) DEF WriteError, TypeOK, CallType, PartyInv, CallShapeOf
<1>2. /\ todo' = todo /\ cur' = cur /\ closed' = closed
      /\ staging' = staging /\ dirty' = dirty
  BY DEF WriteError
<1>3. \/ pc' = pc /\ out'[p, cur[p]] = <<>>
      \/ pc'[p] = "dead" /\ out' = out
  BY <1>1, ZenonT(20) DEF WriteError, TypeOK, CallType, BufType
<1>4. CallShapeOf(p)'
  BY <1>1, <1>2, <1>3, ZenonT(20) DEF PartyInv, CallShapeOf
<1>5. \A c \in Chan : c # cur[p] => out'[p, c] = out[p, c]
  BY ZenonT(20) DEF Local, Endpoint
<1>6. pc[p] = "fflush" => staging[p, cur[p]] = <<>>
  BY ZenonT(20) DEF PartyInv, CallShapeOf
<1>7. QED
  BY <1>1, <1>2, <1>3, <1>4, <1>5, <1>6, ZenonT(20) DEF PartyInv

\* The steps of recv_data_internal's loop keep the flush discipline.
LEMMA ReadInv ==
    ASSUME TypeOK, NEW p \in Party, PartyInv(p),
           StartRead(p) \/ ReadKernel(p) \/ ReadBuffered(p)
    PROVE  PartyInv(p)'
<1>1. /\ cur' = cur /\ closed' = closed /\ staging' = staging /\ out' = out
      /\ dirty' = dirty
  BY ZenonT(20) DEF StartRead, ReadKernel, ReadBuffered, bufVars, callVars
<1>2. CASE StartRead(p)
  <2>1. /\ pc'[p] = "read" /\ todo' = todo /\ todo[p] # <<>> /\ pc[p] = "idle"
    BY <1>2 DEF StartRead, Does, TypeOK, CallType
  <2>2. todo[p][1].do = "read" /\ ~closed[p, cur[p]]
    BY <1>2, AtStep, ZenonT(20) DEF StartRead
  <2>3. CallShapeOf(p)'
    BY <1>1, <2>1, <2>2, ZenonT(20) DEF PartyInv, CallShapeOf
  <2>4. QED
    BY <1>1, <2>1, <2>3, ZenonT(20) DEF PartyInv
<1>3. CASE pc' = pc /\ todo' = todo
  BY <1>1, <1>3, ZenonT(20) DEF PartyInv, CallShapeOf
<1>4. CASE pc[p] = "read" /\ pc'[p] = "idle" /\ todo'[p] = Tail(todo[p])
  <2>1. todo[p] \in Seq(Step) /\ todo[p] # <<>> /\ todo[p][1].do = "read"
    BY <1>4, ZenonT(20) DEF TypeOK, CallType, PartyInv, CallShapeOf
  <2>2. /\ StepsOrdered(Tail(todo[p]))
        /\ Tail(todo[p]) # <<>> => Tail(todo[p])[1].do \notin Settled
    BY <2>1, OrderedTail, ZenonT(20) DEF PartyInv, CallShapeOf
  <2>3. ~closed[p, cur[p]]
    BY <1>4, ZenonT(20) DEF PartyInv, CallShapeOf
  <2>4. CallShapeOf(p)'
    BY <1>1, <1>4, <2>2, <2>3, ZenonT(30) DEF CallShapeOf
  <2>5. QED
    BY <1>1, <1>4, <2>4, ZenonT(20) DEF PartyInv
<1>5. ReadKernel(p) => pc' = pc /\ todo' = todo
  BY ZenonT(30) DEF ReadKernel, callVars
<1>6. ReadBuffered(p) =>
         \/ pc' = pc /\ todo' = todo
         \/ pc[p] = "read" /\ pc'[p] = "idle" /\ todo'[p] = Tail(todo[p])
  BY ZenonT(20) DEF ReadBuffered, NextStep, TypeOK, CallType
<1>7. QED
  BY <1>2, <1>3, <1>4, <1>5, <1>6, SMTT(30)

\* The destructor closes a channel it has just drained.
LEMMA CloseSocketInv ==
    ASSUME TypeOK, NEW p \in Party, PartyInv(p), Local(p), CloseSocket(p)
    PROVE  PartyInv(p)'
<1>1. /\ todo'[p] = Tail(todo[p]) /\ pc' = pc /\ cur' = cur
      /\ staging' = staging /\ out' = out /\ dirty' = dirty
  BY DEF CloseSocket, NextStep, bufVars, TypeOK, CallType
<1>2. Does(p, "close") /\ cur[p] \in Chan
  BY DEF CloseSocket, TypeOK, CallType
<1>3. /\ pc[p] = "idle" /\ Tail(todo[p]) = <<>> /\ StepsOrdered(Tail(todo[p]))
      /\ todo[p][1].do = "close"
  BY <1>2, AtStep, ZenonT(20)
<1>4. ~dirty[p, cur[p]]
  BY <1>2, <1>3, ZenonT(20) DEF Does, Settled, PartyInv, CallShapeOf
<1>5. staging[p, cur[p]] = <<>> /\ out[p, cur[p]] = <<>>
  BY <1>2, <1>3, <1>4, ZenonT(20) DEF PartyInv
<1>6. CallShapeOf(p)'
  BY <1>1, <1>3, ZenonT(20) DEF CallShapeOf
<1>7. \A c \in Chan : c # cur[p] => closed'[p, c] = closed[p, c]
  BY ZenonT(20) DEF Local, Endpoint
<1>8. QED
  BY <1>1, <1>3, <1>5, <1>6, <1>7, ZenonT(20) DEF PartyInv

\* Every step of a party keeps its share of the flush discipline.
LEMMA PartyInvStep ==
    ASSUME TypeOK, NEW p \in Party, PartyInv(p), Move(p) \/ Crash(p)
    PROVE  PartyInv(p)'
<1>1. Local(p)
  BY StepIsLocal, SMTT(30)
<1>2. CASE SendData(p)
  BY <1>2, EnterInv, AbortInv, CallsOpen, ZenonT(30) DEF SendData
<1>3. CASE RecvData(p)
  BY <1>3, EnterInv, AbortInv, CallsOpen, ZenonT(20) DEF RecvData
<1>4. CASE Flush(p) \/ Sync(p) \/ Destroy(p)
  BY <1>4, EnterInv, CallsOpen DEF Flush, Sync, Destroy
<1>5. CASE EnableFs(p)
  BY <1>5, EnterInv, AbortInv, CallsOpen DEF EnableFs
<1>6. QED
  BY <1>1, <1>2, <1>3, <1>4, <1>5, AbortInv, SendDataInternalInv, FlushUnlockedInv, KernelWriteInv, WriteReturnInv, WriteErrorInv, ReadInv, CloseSocketInv, ZenonT(20) DEF Move,
        ReadEof,
        Crash

-----------------------------------------------------------------------------
(* The stream stays in order.  Each lemma is one way a byte changes place.  *)

\* Concatenation of byte sequences is associative.
LEMMA Assoc ==
    \A s, t, u \in Seq(Byte) : (s \o t) \o u = s \o (t \o u)
BY SMTT(30)

\* Concatenating byte sequences gives a byte sequence.
LEMMA ConcatType == \A s, t \in Seq(Byte) : s \o t \in Seq(Byte)
BY ConcatProperties

\* Emptying send_buf into the stream, with or without new bytes, keeps the
\* order of the bytes.
LEMMA Pushes ==
    ASSUME NEW o \in Seq(Byte), NEW s \in Seq(Byte), NEW x \in Seq(Byte)
    PROVE  /\ (o \o s \o x) \o <<>> = o \o (s \o x)
           /\ (o \o s) \o <<>> = o \o s
<1>1. o \o s \in Seq(Byte) /\ (o \o s) \o x \in Seq(Byte)
  BY ConcatProperties
<1>2. (o \o s) \o x = o \o (s \o x)
  BY Assoc, Zenon
<1>3. ((o \o s) \o x) \o <<>> = (o \o s) \o x /\ (o \o s) \o <<>> = o \o s
  BY <1>1, ConcatEmptySeq, Zenon
<1>4. QED
  BY <1>2, <1>3, Zenon

\* Moving the first k bytes of a buffer to the end of the one before it
\* keeps the order of the bytes.
LEMMA Moves ==
    ASSUME NEW w \in Seq(Byte), NEW o \in Seq(Byte), NEW s \in Seq(Byte),
           NEW k \in 0..Len(o)
    PROVE  w \o (o \o s) = (w \o Take(o, k)) \o (Drop(o, k) \o s)
<1> DEFINE t == Take(o, k)
           d == Drop(o, k)
<1>0. t \in Seq(Byte) /\ d \in Seq(Byte)
  BY TakeDrop
<1>1. t \o d = o
  BY TakeDrop
<1> HIDE DEF t, d
<1>2. (t \o d) \o s = t \o (d \o s)
  BY <1>0, Assoc, ZenonT(30)
<1>3. d \o s \in Seq(Byte)
  BY <1>0, ConcatType, Zenon
<1>4. w \o (t \o (d \o s)) = (w \o t) \o (d \o s)
  <2> DEFINE u == d \o s
  <2>1. u \in Seq(Byte)
    BY <1>3
  <2> HIDE DEF u
  <2>2. (w \o t) \o u = w \o (t \o u)
    BY <1>0, <2>1, Assoc, ZenonT(60)
  <2>3. QED
    BY <2>2 DEF u
<1>5. w \o (o \o s) = (w \o t) \o (d \o s)
  BY <1>1, <1>2, <1>4, Zenon
<1>6. QED
  BY <1>5 DEF t, d

\* The stream of r on c, as InOrder states it.
OrderOf(r, c) == ~werr[r, c] => sent[r, c] = rcvd[Peer(r), c] \o InTransit(r, c)

\* The buffers of one endpoint, and their concatenations, are byte sequences.
LEMMA StreamTypes ==
    ASSUME TypeOK, NEW r \in Party, NEW c \in Chan
    PROVE  /\ staging[r, c] \in Seq(Byte) /\ out[r, c] \in Seq(Byte)
           /\ wire[r, c] \in Seq(Byte) /\ rbuf[r, c] \in Seq(Byte)
           /\ sent[r, c] \in Seq(Byte) /\ rcvd[r, c] \in Seq(Byte)
           /\ out[r, c] \o staging[r, c] \in Seq(Byte)
           /\ wire[r, c] \o (out[r, c] \o staging[r, c]) \in Seq(Byte)
<1>1. <<r, c>> \in Endpoint
  BY DEF Endpoint
<1>2. /\ staging[r, c] \in Seq(Byte) /\ out[r, c] \in Seq(Byte)
      /\ wire[r, c] \in Seq(Byte) /\ rbuf[r, c] \in Seq(Byte)
      /\ sent[r, c] \in Seq(Byte) /\ rcvd[r, c] \in Seq(Byte)
  BY <1>1, ZenonT(20) DEF TypeOK, BufType, HistType
<1>3. QED
  BY <1>2, ConcatProperties, ZenonT(20)

\* What is in transit is a byte sequence.
LEMMA TransitType ==
    ASSUME TypeOK, NEW r \in Party, NEW c \in Chan
    PROVE  InTransit(r, c) \in Seq(Byte)
<1>1. /\ rbuf[Peer(r), c] \in Seq(Byte)
      /\ wire[r, c] \o (out[r, c] \o staging[r, c]) \in Seq(Byte)
  BY StreamTypes, PeerType, ZenonT(20)
<1>2. QED
  BY <1>1, ConcatType, Zenon DEF InTransit

\* A positive count is a count.
LEMMA FromOne == \A n \in Nat : \A k \in 1..n : k \in 0..n
OBVIOUS

\* send_data_internal appends to what is in transit, on both of its paths.
LEMMA SendDataInternalTransit ==
    ASSUME TypeOK, NEW p \in Party, SendDataInternal(p)
    PROVE  \E x \in Seq(Byte) :
              /\ sent' = [sent EXCEPT ![<<p, cur[p]>>] = sent[p, cur[p]] \o x]
              /\ InTransit(p, cur[p])' = InTransit(p, cur[p]) \o x
              /\ \A r \in Party, c \in Chan : <<r, c>> # <<p, cur[p]>> =>
                    InTransit(r, c)' = InTransit(r, c)
<1> DEFINE e == <<p, cur[p]>>
<1>1. e \in Endpoint /\ cur[p] \in Chan /\ Does(p, "put")
  BY CurEndpoint, ZenonT(20) DEF SendDataInternal, TypeOK, CallType
<1>2. PICK x : x \in Seq(Byte) /\ x = Head(todo[p]).bytes
  BY <1>1, CurStep, SMTT(30) DEF Does, Step
<1>3. /\ sent' = [sent EXCEPT ![e] = sent[e] \o x]
      /\ rbuf' = rbuf /\ wire' = wire /\ cur' = cur
  BY <1>2, ZenonT(30) DEF SendDataInternal
<1>4. \/ staging' = [staging EXCEPT ![e] = staging[e] \o x] /\ out' = out
      \/ /\ staging' = [staging EXCEPT ![e] = <<>>]
         /\ out' = [out EXCEPT ![e] = out[e] \o staging[e] \o x]
  BY <1>2, ZenonT(20) DEF SendDataInternal, Pushed
<1>5. staging \in [Endpoint -> Seq(Byte)] /\ out \in [Endpoint -> Seq(Byte)]
  BY DEF TypeOK, BufType
<1>6. ASSUME NEW r \in Party, NEW c \in Chan, <<r, c>> # e
      PROVE  InTransit(r, c)' = InTransit(r, c)
  <2>1. <<r, c>> \in Endpoint
    BY DEF Endpoint
  <2>2. out'[r, c] = out[r, c] /\ staging'[r, c] = staging[r, c]
    <3> HIDE DEF e
    <3>1. QED
      BY <1>1, <1>4, <1>5, <1>6, <2>1, ZenonT(20)
  <2>3. QED
    BY <1>3, <2>2, ZenonT(20) DEF InTransit
<1>7. InTransit(p, cur[p])' = InTransit(p, cur[p]) \o x
  <2> DEFINE b == rbuf[Peer(p), cur[p]]
             w == wire[p, cur[p]]
             o == out[p, cur[p]]
             g == staging[p, cur[p]]
  <2>1. /\ b \in Seq(Byte) /\ w \in Seq(Byte) /\ o \in Seq(Byte) /\ g \in Seq(Byte)
    BY <1>1, StreamTypes, PeerType, ZenonT(20)
  <2>2. \/ staging'[e] = g \o x /\ out'[e] = o
        \/ staging'[e] = <<>> /\ out'[e] = o \o g \o x
    BY <1>1, <1>4, <1>5, ZenonT(20)
  <2>3. InTransit(p, cur[p])' = b \o (w \o (out'[e] \o staging'[e]))
    BY <1>3, ZenonT(20) DEF InTransit
  <2>4. InTransit(p, cur[p]) = b \o (w \o (o \o g))
    BY DEF InTransit
  <2> HIDE DEF b, w, o, g
  <2>5. out'[e] \o staging'[e] = o \o (g \o x)
    <3>1. o \in Seq(Byte) /\ g \in Seq(Byte) /\ x \in Seq(Byte)
      BY <1>2, <2>1
    <3>2. (o \o g \o x) \o <<>> = o \o (g \o x)
      BY <3>1, Pushes, Zenon
    <3>3. QED
      BY <2>2, <3>2, Zenon
  <2> DEFINE t1 == o \o g
             t2 == w \o t1
  <2>6. t1 \in Seq(Byte) /\ t2 \in Seq(Byte)
    BY <2>1, ConcatType
  <2>7. t1 \o x = o \o (g \o x)
    <3>1. o \in Seq(Byte) /\ g \in Seq(Byte) /\ x \in Seq(Byte)
      BY <1>2, <2>1
    <3>2. QED
      BY <3>1, Assoc, Zenon
  <2>8. t2 \o x = w \o (t1 \o x)
    <3>1. w \in Seq(Byte) /\ t1 \in Seq(Byte) /\ x \in Seq(Byte)
      BY <1>2, <2>1, <2>6
    <3> HIDE DEF t1
    <3>2. QED
      BY <3>1, Assoc, Zenon
  <2>9. (b \o t2) \o x = b \o (t2 \o x)
    <3>1. b \in Seq(Byte) /\ t2 \in Seq(Byte) /\ x \in Seq(Byte)
      BY <1>2, <2>1, <2>6
    <3> HIDE DEF t2
    <3>2. QED
      BY <3>1, Assoc, Zenon
  <2>10. QED
    BY <2>3, <2>4, <2>5, <2>7, <2>8, <2>9, Zenon
<1>8. QED
  BY <1>2, <1>3, <1>6, <1>7, ZenonT(30)

\* send_data_internal appends to the stream.
LEMMA SendDataInternalOrder ==
    ASSUME TypeOK, InOrder, NEW p \in Party, SendDataInternal(p),
           NEW r \in Party, NEW c \in Chan
    PROVE  OrderOf(r, c)'
<1>1. <<p, cur[p]>> \in Endpoint /\ <<r, c>> \in Endpoint /\ OrderOf(r, c)
  BY CurEndpoint, ZenonT(30) DEF InOrder, OrderOf, Endpoint
<1>2. rcvd' = rcvd /\ werr' = werr
  BY ZenonT(20) DEF SendDataInternal
<1>3. PICK x \in Seq(Byte) :
          /\ sent' = [sent EXCEPT ![<<p, cur[p]>>] = sent[p, cur[p]] \o x]
          /\ InTransit(p, cur[p])' = InTransit(p, cur[p]) \o x
          /\ \A q \in Party, d \in Chan : <<q, d>> # <<p, cur[p]>> =>
                InTransit(q, d)' = InTransit(q, d)
  BY SendDataInternalTransit, ZenonT(20)
<1>4. sent \in [Endpoint -> Seq(Byte)]
  BY DEF TypeOK, HistType
<1>5. CASE <<r, c>> # <<p, cur[p]>>
  <2>1. sent'[r, c] = sent[r, c] /\ InTransit(r, c)' = InTransit(r, c)
    BY <1>1, <1>3, <1>4, <1>5, ZenonT(20)
  <2>2. QED
    BY <1>1, <1>2, <2>1, ZenonT(20) DEF OrderOf
<1>6. CASE r = p /\ c = cur[p]
  <2> DEFINE a == rcvd[Peer(r), c]
             t == InTransit(r, c)
  <2>1. a \in Seq(Byte) /\ t \in Seq(Byte) /\ x \in Seq(Byte)
    BY TransitType, StreamTypes, PeerType, ZenonT(20)
  <2>2. sent'[r, c] = sent[r, c] \o x /\ InTransit(r, c)' = t \o x
    <3>1. sent'[<<r, c>>] = sent[<<r, c>>] \o x
      BY <1>1, <1>3, <1>4, <1>6, ZenonT(30)
    <3>2. InTransit(r, c)' = t \o x
      BY <1>3, <1>6, ZenonT(20) DEF SendDataInternal
    <3>3. QED
      BY <3>1, <3>2, ZenonT(20)
  <2>3. ~werr[r, c] => sent[r, c] = a \o t
    BY <1>1, ZenonT(20) DEF OrderOf
  <2> HIDE DEF a, t
  <2>4. (a \o t) \o x = a \o (t \o x)
    BY <2>1, Assoc, Zenon
  <2>5. ~werr[r, c] => sent'[r, c] = a \o InTransit(r, c)'
    BY <2>2, <2>3, <2>4, Zenon
  <2>6. QED
    BY <1>2, <2>5, ZenonT(20) DEF OrderOf, a
<1>7. QED
  BY <1>5, <1>6

\* flush_unlocked moves the staged bytes behind the streamed ones.
LEMMA FlushUnlockedTransit ==
    ASSUME TypeOK, NEW p \in Party, FlushUnlocked(p), NEW r \in Party, NEW c \in Chan
    PROVE  InTransit(r, c)' = InTransit(r, c)
<1> DEFINE e == <<p, cur[p]>>
<1>1. e \in Endpoint /\ <<r, c>> \in Endpoint
  BY CurEndpoint, ZenonT(30) DEF Endpoint
<1>2. rbuf' = rbuf /\ wire' = wire
  BY ZenonT(20) DEF FlushUnlocked
<1>3. \/ staging' = staging /\ out' = out
      \/ /\ staging' = [staging EXCEPT ![e] = <<>>]
         /\ out' = [out EXCEPT ![e] = out[e] \o staging[e]]
  BY ZenonT(20) DEF FlushUnlocked
<1>4. staging \in [Endpoint -> Seq(Byte)] /\ out \in [Endpoint -> Seq(Byte)]
  BY DEF TypeOK, BufType
<1>5. out'[r, c] \o staging'[r, c] = out[r, c] \o staging[r, c]
  <2>1. CASE <<r, c>> # e
    BY <1>1, <1>3, <1>4, <2>1, ZenonT(20)
  <2>2. CASE r = p /\ c = cur[p]
    <3>1. \/ staging'[r, c] = staging[r, c] /\ out'[r, c] = out[r, c]
          \/ staging'[r, c] = <<>> /\ out'[r, c] = out[r, c] \o staging[r, c]
      BY <1>1, <1>3, <1>4, <2>2, ZenonT(20)
    <3>2. QED
      <4>1. (out[r, c] \o staging[r, c]) \o <<>> = out[r, c] \o staging[r, c]
        BY ConcatEmptySeq, StreamTypes, Zenon
      <4>2. QED
        BY <3>1, <4>1, Zenon
  <2>3. QED
    BY <2>1, <2>2, ZenonT(20)
<1>6. QED
  BY <1>2, <1>5, ZenonT(20) DEF InTransit

\* A partial write moves the oldest bytes of the stream into the kernel.
LEMMA KernelWriteTransit ==
    ASSUME TypeOK, NEW p \in Party, KernelWrite(p), NEW r \in Party, NEW c \in Chan
    PROVE  InTransit(r, c)' = InTransit(r, c)
<1> DEFINE e == <<p, cur[p]>>
<1>1. e \in Endpoint /\ <<r, c>> \in Endpoint
  BY CurEndpoint, ZenonT(20) DEF Endpoint
<1>2. rbuf' = rbuf /\ staging' = staging
  BY DEF KernelWrite
<1>3. PICK k \in 1..Len(out[e]) :
              /\ wire' = [wire EXCEPT ![e] = @ \o Take(out[e], k)]
              /\ out' = [out EXCEPT ![e] = Drop(@, k)]
  BY KernelWriteMoves, ZenonT(20)
<1>4. wire \in [Endpoint -> Seq(Byte)] /\ out \in [Endpoint -> Seq(Byte)]
  BY DEF TypeOK, BufType
<1>5. wire'[r, c] \o (out'[r, c] \o staging[r, c])
        = wire[r, c] \o (out[r, c] \o staging[r, c])
  <2>1. CASE <<r, c>> # e
    BY <1>1, <1>3, <1>4, <2>1, ZenonT(20)
  <2>2. CASE r = p /\ c = cur[p]
    <3> DEFINE w == wire[r, c]
               o == out[r, c]
               s == staging[r, c]
    <3>1. /\ wire'[r, c] = w \o Take(o, k) /\ out'[r, c] = Drop(o, k)
      BY <1>1, <1>3, <1>4, <2>2, ZenonT(20)
    <3>2. /\ w \in Seq(Byte) /\ o \in Seq(Byte) /\ s \in Seq(Byte)
          /\ Len(o) \in Nat
      BY StreamTypes, LenProperties, ZenonT(20)
    <3>3. k \in 0..Len(o)
      <4>1. k \in 1..Len(o)
        BY <1>3, <2>2, Zenon
      <4> HIDE DEF o
      <4>2. QED
        BY <3>2, <4>1, FromOne, ZenonT(20)
    <3> HIDE DEF w, o, s
    <3>4. w \o (o \o s) = (w \o Take(o, k)) \o (Drop(o, k) \o s)
      BY <3>2, <3>3, Moves, ZenonT(20)
    <3>5. wire'[r, c] \o (out'[r, c] \o s) = w \o (o \o s)
      BY <3>1, <3>4, Zenon
    <3>6. QED
      BY <3>5, Zenon DEF w, o, s
  <2>3. QED
    BY <2>1, <2>2, ZenonT(20)
<1>6. QED
  BY <1>2, <1>5, ZenonT(20) DEF InTransit

\* A refill moves the oldest bytes of the kernel into an empty recv_buf.
LEMMA ReadKernelTransit ==
    ASSUME TypeOK, NEW p \in Party, ReadKernel(p), NEW r \in Party, NEW c \in Chan
    PROVE  /\ InTransit(r, c)' = InTransit(r, c)
           /\ rbuf'[Peer(r), c] \o wire'[r, c] = rbuf[Peer(r), c] \o wire[r, c]
<1> DEFINE e == <<p, cur[p]>>
           from == <<Peer(p), cur[p]>>
<1>1. /\ e \in Endpoint /\ from \in Endpoint
      /\ <<r, c>> \in Endpoint /\ <<Peer(r), c>> \in Endpoint
  BY CurEndpoint, PeerType DEF Endpoint
<1>2. out' = out /\ staging' = staging /\ rbuf[e] = <<>>
  BY DEF ReadKernel
<1>3. PICK k \in 1..Len(wire[from]) :
              /\ rbuf' = [rbuf EXCEPT ![e] = Take(wire[from], k)]
              /\ wire' = [wire EXCEPT ![from] = Drop(@, k)]
  BY ReadKernelMoves, ZenonT(20)
<1>4. wire \in [Endpoint -> Seq(Byte)] /\ rbuf \in [Endpoint -> Seq(Byte)]
  BY DEF TypeOK, BufType
<1>5. CASE c # cur[p] \/ r = p
  <2>1. wire'[r, c] = wire[r, c] /\ rbuf'[Peer(r), c] = rbuf[Peer(r), c]
    BY <1>1, <1>3, <1>4, <1>5, PeerType, ZenonT(20)
  <2>2. QED
    BY <1>2, <2>1, ZenonT(20) DEF InTransit
<1>6. CASE r = Peer(p) /\ c = cur[p]
  <2> DEFINE w == wire[r, c]
             s == out[r, c] \o staging[r, c]
             b == <<>>
  <2>1. Peer(r) = p /\ rbuf[Peer(r), c] = b
    BY <1>2, <1>6, PeerType, ZenonT(20)
  <2>2. rbuf'[Peer(r), c] = Take(w, k) /\ wire'[r, c] = Drop(w, k)
    BY <1>1, <1>3, <1>4, <1>6, <2>1, ZenonT(20)
  <2>3. w \in Seq(Byte) /\ s \in Seq(Byte) /\ b \in Seq(Byte)
    <3>1. b \in Seq(Byte)
      OBVIOUS
    <3>2. QED
      BY <3>1, StreamTypes, Zenon
  <2>4. k \in 0..Len(w)
    <3>1. k \in 1..Len(w)
      BY <1>3, <1>6, Zenon
    <3> HIDE DEF w
    <3>2. Len(w) \in Nat
      BY <2>3, LenProperties, ZenonT(20)
    <3>3. QED
      BY <3>1, <3>2, FromOne
  <2> HIDE DEF w, s
  <2>5. Take(w, k) \in Seq(Byte)
    BY <2>3, <2>4, TakeDrop
  <2>6. b \o Take(w, k) = Take(w, k)
    BY <2>5, ConcatEmptySeq
  <2> HIDE DEF b
  <2>7. b \o (w \o s) = (b \o Take(w, k)) \o (Drop(w, k) \o s)
    BY <2>3, <2>4, Moves, ZenonT(20)
  <2>8. rbuf'[Peer(r), c] \o (wire'[r, c] \o s) = rbuf[Peer(r), c] \o (w \o s)
    BY <2>1, <2>2, <2>6, <2>7, Zenon
  <2>9. rbuf'[Peer(r), c] \o wire'[r, c] = rbuf[Peer(r), c] \o w
    <3>1. Take(w, k) \o Drop(w, k) = w
      BY <2>3, <2>4, TakeDrop
    <3>2. b \o w = w
      BY <2>3, ConcatEmptySeq DEF b
    <3>3. QED
      BY <2>1, <2>2, <3>1, <3>2, Zenon
  <2>10. QED
    BY <1>2, <2>8, <2>9, Zenon DEF InTransit, w, s
<1>7. QED
  BY <1>5, <1>6, PeerType, ZenonT(20) DEF Party, Peer

\* What leaves sent, rcvd and the bytes in transit alone keeps the order.
LEMMA TransitOrder ==
    ASSUME InOrder, UNCHANGED <<sent, rcvd, werr>>, NEW r \in Party, NEW c \in Chan,
           InTransit(r, c)' = InTransit(r, c)
    PROVE  OrderOf(r, c)'
BY ZenonT(20) DEF InOrder, OrderOf

\* The three steps that only move bytes from one buffer to the next.
LEMMA MoveOrder ==
    ASSUME TypeOK, InOrder, NEW p \in Party,
           FlushUnlocked(p) \/ KernelWrite(p) \/ ReadKernel(p),
           NEW r \in Party, NEW c \in Chan
    PROVE  OrderOf(r, c)'
<1>1. UNCHANGED <<sent, rcvd, werr>>
  BY ZenonT(20) DEF FlushUnlocked, KernelWrite, ReadKernel, histVars
<1>2. InTransit(r, c)' = InTransit(r, c)
  BY FlushUnlockedTransit, KernelWriteTransit, ReadKernelTransit, ZenonT(20)
<1>3. QED
  BY <1>1, <1>2, TransitOrder, SMTT(30)

\* recv_data_internal copies the oldest bytes of recv_buf to the caller.
LEMMA ReadBufferedOrder ==
    ASSUME TypeOK, InOrder, NEW p \in Party, ReadBuffered(p),
           NEW r \in Party, NEW c \in Chan
    PROVE  OrderOf(r, c)'
<1> DEFINE e == <<p, cur[p]>>
<1>1. /\ e \in Endpoint /\ OrderOf(r, c) /\ <<Peer(r), c>> \in Endpoint
  BY CurEndpoint, PeerType, ZenonT(30) DEF InOrder, OrderOf, Endpoint
<1>2. /\ sent' = sent /\ wire' = wire /\ out' = out /\ staging' = staging
      /\ werr' = werr
  BY ZenonT(20) DEF ReadBuffered
<1>3. PICK k \in 0..Len(rbuf[e]) :
              /\ rbuf' = [rbuf EXCEPT ![e] = Drop(@, k)]
              /\ rcvd' = [rcvd EXCEPT ![e] = @ \o Take(rbuf[e], k)]
  BY ReadBufferedMoves, ZenonT(20)
<1>4. rbuf \in [Endpoint -> Seq(Byte)] /\ rcvd \in [Endpoint -> Seq(Byte)]
  BY DEF TypeOK, BufType, HistType
<1>5. CASE <<Peer(r), c>> # e
  <2>1. rbuf'[Peer(r), c] = rbuf[Peer(r), c] /\ rcvd'[Peer(r), c] = rcvd[Peer(r), c]
    BY <1>1, <1>3, <1>4, <1>5, ZenonT(20)
  <2>2. QED
    BY <1>1, <1>2, <2>1, ZenonT(20) DEF OrderOf, InTransit
<1>6. CASE Peer(r) = p /\ c = cur[p]
  <2> DEFINE a == rcvd[Peer(r), c]
             b == rbuf[Peer(r), c]
             s == wire[r, c] \o (out[r, c] \o staging[r, c])
  <2>1. rcvd'[Peer(r), c] = a \o Take(b, k) /\ rbuf'[Peer(r), c] = Drop(b, k)
    BY <1>1, <1>3, <1>4, <1>6, ZenonT(20)
  <2>2. a \in Seq(Byte) /\ b \in Seq(Byte) /\ s \in Seq(Byte) /\ k \in 0..Len(b)
    BY <1>6, StreamTypes, PeerType, ZenonT(20)
  <2> HIDE DEF a, b, s
  <2>3. a \o (b \o s) = (a \o Take(b, k)) \o (Drop(b, k) \o s)
    BY <2>2, Moves, ZenonT(20)
  <2>4. rcvd'[Peer(r), c] \o (rbuf'[Peer(r), c] \o s) = a \o (b \o s)
    BY <2>1, <2>3, Zenon
  <2>5. QED
    BY <1>1, <1>2, <2>4, Zenon DEF OrderOf, InTransit, a, b, s
<1>7. QED
  BY <1>5, <1>6

\* A failed write gives up the order of its own stream only.
LEMMA WriteErrorOrder ==
    ASSUME TypeOK, InOrder, NEW p \in Party, WriteError(p),
           NEW r \in Party, NEW c \in Chan
    PROVE  OrderOf(r, c)'
<1> DEFINE e == <<p, cur[p]>>
<1>1. e \in Endpoint /\ <<r, c>> \in Endpoint /\ OrderOf(r, c)
  BY CurEndpoint, ZenonT(20) DEF InOrder, OrderOf, Endpoint
<1>2. /\ sent' = sent /\ rcvd' = rcvd /\ rbuf' = rbuf /\ staging' = staging
      /\ wire' = wire /\ werr' = [werr EXCEPT ![e] = TRUE]
  BY DEF WriteError
<1>3. out' = out \/ out' = [out EXCEPT ![e] = <<>>]
  BY DEF WriteError
<1>4. werr \in [Endpoint -> BOOLEAN] /\ out \in [Endpoint -> Seq(Byte)]
  BY DEF TypeOK, BufType, HistType
<1>5. CASE r = p /\ c = cur[p]
  BY <1>1, <1>2, <1>4, <1>5, ZenonT(20) DEF OrderOf
<1>6. CASE <<r, c>> # e
  <2>1. out'[r, c] = out[r, c] /\ werr'[r, c] = werr[r, c]
    BY <1>1, <1>2, <1>3, <1>4, <1>6, ZenonT(20)
  <2>2. QED
    BY <1>1, <1>2, <2>1, ZenonT(20) DEF OrderOf, InTransit
<1>7. QED
  BY <1>5, <1>6

\* Every other step leaves the bytes where they are.
LEMMA StillOrder ==
    ASSUME InOrder, UNCHANGED <<staging, out, wire, rbuf, sent, rcvd, werr>>
    PROVE  InOrder'
BY ZenonT(20) DEF InOrder, InTransit

\* InOrder is kept by every step of the channel.
LEMMA InOrderStep == TypeOK /\ InOrder /\ [Next]_vars => InOrder'
<1> SUFFICES ASSUME TypeOK, InOrder, [Next]_vars PROVE InOrder'
  OBVIOUS
<1>1. CASE UNCHANGED vars
  BY <1>1, StillOrder DEF vars, bufVars, histVars
<1>2. ASSUME NEW p \in Party,
             \/ SendDataInternal(p) \/ FlushUnlocked(p) \/ KernelWrite(p)
             \/ WriteError(p) \/ ReadKernel(p) \/ ReadBuffered(p)
      PROVE  InOrder'
  <2>1. \A r \in Party, c \in Chan : OrderOf(r, c)'
    BY <1>2, SendDataInternalOrder, MoveOrder, WriteErrorOrder, ReadBufferedOrder
  <2>2. QED
    BY <2>1, ZenonT(20) DEF InOrder, OrderOf
<1>3. ASSUME NEW p \in Party, NEW steps, Enter(p, steps) PROVE InOrder'
  BY <1>3, StillOrder DEF Enter, bufVars, histVars
<1>4. ASSUME NEW p \in Party, Abort(p) PROVE InOrder'
  BY <1>4, StillOrder DEF Abort, bufVars, histVars
<1>5. ASSUME NEW p \in Party,
             \/ SendData(p) \/ RecvData(p) \/ Flush(p) \/ Sync(p)
             \/ EnableFs(p) \/ Destroy(p) \/ ReadEof(p) \/ Crash(p)
      PROVE  InOrder'
  BY <1>3, <1>4, <1>5, ZenonT(20) DEF SendData, RecvData, Flush, Sync, EnableFs, Destroy,
                          ReadEof, Crash
<1>6. ASSUME NEW p \in Party,
             RawReturn(p) \/ FflushReturn(p) \/ StartRead(p) \/ CloseSocket(p)
      PROVE  InOrder'
  BY <1>6, StillOrder, ZenonT(20) DEF RawReturn, FflushReturn, StartRead, CloseSocket,
                          bufVars, histVars
<1>7. QED
  BY <1>1, <1>2, <1>5, <1>6 DEF Next, Move

-----------------------------------------------------------------------------
(* The sizes of the buffers.                                                *)

\* BuffersBounded, for the buffers of r on c.
BoundedAt(r, c) ==
    /\ Len(staging[r, c]) <= StagingSize
    /\ Len(rbuf[r, c]) <= StagingSize
    /\ Len(wire[r, c]) <= PipeSize
    /\ (pc[r] = "idle" \/ cur[r] # c) => Len(out[r, c]) <= StreamSize

\* Entering a call moves no byte, and leaves no channel over its bounds: the
\* caller was between two calls.
LEMMA EnterBounded ==
    ASSUME BuffersBounded, TypeOK, NEW p \in Party, NEW name, Calls(p, name),
           NEW steps, Enter(p, steps)
    PROVE  BuffersBounded'
<1>1. pc[p] = "idle" /\ pc' = pc /\ bufVars' = bufVars
  BY ZenonT(20) DEF Calls, Enter
<1>2. \A q \in Party : q # p => cur'[q] = cur[q]
  BY DEF Enter, TypeOK, CallType
<1>3. QED
  BY <1>1, <1>2, ZenonT(20) DEF BuffersBounded, bufVars

\* A process that ends moves no byte.
LEMMA AbortBounded ==
    ASSUME BuffersBounded, TypeOK, NEW p \in Party, Abort(p) PROVE BuffersBounded'
<1>1. pc'[p] = "dead" /\ cur' = cur /\ bufVars' = bufVars
  BY DEF Abort, TypeOK, CallType
<1>2. \A q \in Party : q # p => pc'[q] = pc[q]
  BY DEF Abort, TypeOK, CallType
<1>3. QED
  BY <1>1, <1>2, ZenonT(20) DEF BuffersBounded, bufVars

\* send_data_internal stages only what fits.
LEMMA SendDataInternalBounded ==
    ASSUME BuffersBounded, TypeOK, NEW p \in Party, SendDataInternal(p),
           NEW r \in Party, NEW c \in Chan
    PROVE  BoundedAt(r, c)'
<1> DEFINE e == <<p, cur[p]>>
           bytes == Head(todo[p]).bytes
<1>1. e \in Endpoint /\ <<r, c>> \in Endpoint /\ Does(p, "put") /\ BoundedAt(r, c)
  BY CurEndpoint, ZenonT(30) DEF SendDataInternal, Endpoint, BuffersBounded, BoundedAt
<1>2. bytes \in Seq(Byte) /\ Len(bytes) \in Nat
  BY <1>1, CurStep, LenProperties, ZenonT(30) DEF Does, Step
<1>3. wire' = wire /\ rbuf' = rbuf /\ cur' = cur /\ pc[p] = "idle"
  BY <1>1, ZenonT(30) DEF SendDataInternal, Does
<1>4. \A q \in Party : q # p => pc'[q] = pc[q]
  BY ZenonT(20) DEF SendDataInternal, TypeOK, CallType
<1>5. staging \in [Endpoint -> Seq(Byte)] /\ out \in [Endpoint -> Seq(Byte)]
  BY DEF TypeOK, BufType
<1>6. \/ /\ Len(bytes) <= StagingSize - Len(staging[e])
         /\ staging' = [staging EXCEPT ![e] = staging[e] \o bytes]
         /\ out' = out /\ pc' = pc
      \/ /\ staging' = [staging EXCEPT ![e] = <<>>]
         /\ out' = [out EXCEPT ![e] = Pushed(e, bytes)]
         /\ pc' = pc => Len(Pushed(e, bytes)) <= StreamSize
         /\ pc' = pc \/ pc' = [pc EXCEPT ![p] = "raw"]
  <2>1. \/ /\ Fits(e, bytes) /\ staging' = [staging EXCEPT ![e] = staging[e] \o bytes]
           /\ out' = out /\ pc' = pc
        \/ /\ staging' = [staging EXCEPT ![e] = <<>>]
           /\ out' = [out EXCEPT ![e] = Pushed(e, bytes)]
           /\ \/ Len(Pushed(e, bytes)) <= StreamSize /\ pc' = pc
              \/ pc' = [pc EXCEPT ![p] = "raw"]
    BY ZenonT(20) DEF SendDataInternal
  <2>2. [pc EXCEPT ![p] = "raw"] # pc
    BY <1>3, SMTT(30) DEF TypeOK, CallType
  <2>3. QED
    BY <2>1, <2>2, ZenonT(30) DEF Fits
<1>7. CASE <<r, c>> # e
  <2> HIDE DEF e, bytes
  <2>1. staging'[<<r, c>>] = staging[<<r, c>>] /\ out'[<<r, c>>] = out[<<r, c>>]
    BY <1>1, <1>5, <1>6, <1>7
  <2>2. (pc'[r] = "idle" \/ cur[r] # c) => (pc[r] = "idle" \/ cur[r] # c)
    BY <1>3, <1>4, SMTT(30)
  <2>3. QED
    BY <1>1, <1>3, <2>1, <2>2, ZenonT(20) DEF BoundedAt
<1>8. CASE r = p /\ c = cur[p]
  <2> HIDE DEF bytes
  <2>1. Len(staging[e]) \in Nat /\ StagingSize \in Nat /\ Len(staging[e] \o bytes) = Len(staging[e]) + Len(bytes)
    BY <1>1, <1>2, <1>5, ConcatProperties, LenProperties, SizesAssumption
  <2>2. Len(staging'[e]) <= StagingSize
    <3>1. CASE /\ Len(bytes) <= StagingSize - Len(staging[e])
               /\ staging' = [staging EXCEPT ![e] = staging[e] \o bytes]
      BY <1>1, <1>2, <1>5, <2>1, <3>1
    <3>2. CASE staging' = [staging EXCEPT ![e] = <<>>]
      BY <1>1, <1>5, <2>1, <3>2, EmptySeq
    <3>3. QED
      BY <1>6, <3>1, <3>2, ZenonT(20)
  <2>3. pc'[p] = "idle" => Len(out'[e]) <= StreamSize
    <3>1. CASE out' = out
      BY <1>1, <1>3, <1>8, <3>1, ZenonT(20) DEF BoundedAt
    <3>2. CASE /\ out' = [out EXCEPT ![e] = Pushed(e, bytes)]
               /\ pc' = pc => Len(Pushed(e, bytes)) <= StreamSize
               /\ pc' = pc \/ pc' = [pc EXCEPT ![p] = "raw"]
      <4> HIDE DEF e
      <4>1. out'[e] = Pushed(e, bytes)
        BY <1>1, <1>5, <3>2
      <4>2. pc' = [pc EXCEPT ![p] = "raw"] => pc'[p] # "idle"
        BY SMTT(30) DEF TypeOK, CallType
      <4>3. QED
        BY <3>2, <4>1, <4>2, Zenon
    <3>3. QED
      BY <1>6, <3>1, <3>2
  <2>4. QED
    BY <1>1, <1>3, <1>8, <2>2, <2>3, ZenonT(20) DEF BoundedAt
<1>9. QED
  BY <1>7, <1>8, SMTT(30)

\* flush_unlocked empties send_buf; what it moves is written before it returns.
LEMMA FlushUnlockedBounded ==
    ASSUME BuffersBounded, TypeOK, NEW p \in Party, FlushUnlocked(p),
           NEW r \in Party, NEW c \in Chan
    PROVE  BoundedAt(r, c)'
<1> DEFINE e == <<p, cur[p]>>
<1>1. e \in Endpoint /\ <<r, c>> \in Endpoint /\ BoundedAt(r, c)
  BY CurEndpoint, ZenonT(20) DEF Endpoint, BuffersBounded, BoundedAt
<1>2. wire' = wire /\ rbuf' = rbuf /\ cur' = cur
  BY ZenonT(20) DEF FlushUnlocked
<1>3. staging \in [Endpoint -> Seq(Byte)] /\ out \in [Endpoint -> Seq(Byte)]
  BY DEF TypeOK, BufType
<1>4. CASE UNCHANGED <<pc, staging, out>>
  BY <1>1, <1>2, <1>4, ZenonT(20) DEF BoundedAt
<1>5. CASE /\ out' = [out EXCEPT ![e] = out[e] \o staging[e]]
           /\ staging' = [staging EXCEPT ![e] = <<>>]
           /\ pc' = [pc EXCEPT ![p] = "fflush"]
  <2>1. pc'[p] = "fflush" /\ \A q \in Party : q # p => pc'[q] = pc[q]
    BY <1>5 DEF TypeOK, CallType
  <2>2. Len(staging'[r, c]) <= StagingSize
    <3>1. staging'[r, c] = staging[r, c] \/ staging'[r, c] = <<>>
      BY <1>1, <1>3, <1>5, ZenonT(20)
    <3>2. Len(<<>>) = 0
      OBVIOUS
    <3>3. CASE staging'[r, c] = staging[r, c]
      BY <1>1, <3>3, ZenonT(20) DEF BoundedAt
    <3>4. 0 <= StagingSize
      BY SizesAssumption
    <3>5. CASE staging'[r, c] = <<>>
      BY <3>2, <3>4, <3>5, Zenon
    <3>6. QED
      BY <3>1, <3>3, <3>5, ZenonT(20)
  <2>3. (r = p /\ c = cur[p]) \/ out'[r, c] = out[r, c]
    BY <1>1, <1>3, <1>5, ZenonT(20)
  <2>4. QED
    BY <1>1, <1>2, <2>1, <2>2, <2>3, ZenonT(20) DEF BoundedAt
<1>6. QED
  BY <1>4, <1>5, ZenonT(20) DEF FlushUnlocked

\* The kernel takes no more than it has room for.
LEMMA KernelWriteBounded ==
    ASSUME BuffersBounded, TypeOK, NEW p \in Party, KernelWrite(p),
           NEW r \in Party, NEW c \in Chan
    PROVE  BoundedAt(r, c)'
<1> DEFINE e == <<p, cur[p]>>
<1>1. e \in Endpoint /\ <<r, c>> \in Endpoint /\ BoundedAt(r, c) /\ cur[p] \in Chan
  BY CurEndpoint, ZenonT(20) DEF Endpoint, BuffersBounded, BoundedAt, TypeOK, CallType
<1>2. /\ staging' = staging /\ rbuf' = rbuf /\ cur' = cur /\ pc' = pc
      /\ pc[p] \in {"raw", "fflush"}
  BY DEF KernelWrite, callVars
<1>3. PICK k \in 1..Len(out[e]) :
          /\ k <= PipeSize - Len(wire[e])
          /\ wire' = [wire EXCEPT ![e] = @ \o Take(out[e], k)]
          /\ out' = [out EXCEPT ![e] = Drop(@, k)]
  BY KernelWriteMoves, ZenonT(20)
<1>4. wire \in [Endpoint -> Seq(Byte)] /\ out \in [Endpoint -> Seq(Byte)]
  BY DEF TypeOK, BufType
<1>5. CASE <<r, c>> # e
  BY <1>1, <1>2, <1>3, <1>4, <1>5, ZenonT(20) DEF BoundedAt
<1>6. CASE r = p /\ c = cur[p]
  <2>1. wire[e] \in Seq(Byte) /\ out[e] \in Seq(Byte) /\ Len(out[e]) \in Nat
    BY <1>1, <1>4, LenProperties
  <2>2. k \in 0..Len(out[e])
    BY <2>1, FromOne
  <2>3. Take(out[e], k) \in Seq(Byte) /\ Len(Take(out[e], k)) = k
    BY <2>1, <2>2, TakeDrop, ZenonT(20)
  <2>4. Len(wire[e] \o Take(out[e], k)) = Len(wire[e]) + k /\ Len(wire[e]) \in Nat
    <3> DEFINE w == wire[e]
               t == Take(out[e], k)
    <3>1. w \in Seq(Byte) /\ t \in Seq(Byte) /\ Len(t) = k
      BY <2>1, <2>3
    <3> HIDE DEF w, t
    <3>2. Len(w \o t) = Len(w) + Len(t) /\ Len(w) \in Nat
      BY <3>1, ConcatProperties, LenProperties, ZenonT(20)
    <3>3. QED
      BY <3>1, <3>2 DEF w, t
  <2>5. wire'[e] = wire[e] \o Take(out[e], k)
    BY <1>1, <1>3, <1>4
  <2>6. Len(wire'[r, c]) <= PipeSize
    <3>1. Len(wire'[e]) = Len(wire[e]) + k
      BY <2>4, <2>5, Zenon
    <3>2. Len(wire'[e]) <= PipeSize
      <4> DEFINE m == Len(wire[e])
      <4>1. m \in Nat /\ k \in Int /\ k <= PipeSize - m /\ Len(wire'[e]) = m + k
        BY <1>3, <2>1, <2>4, <3>1
      <4> HIDE DEF m
      <4>2. QED
        BY <4>1, SizesAssumption
    <3>3. QED
      BY <1>6, <3>2, ZenonT(20)
  <2>7. QED
    BY <1>1, <1>2, <1>6, <2>6, ZenonT(20) DEF BoundedAt
<1>7. QED
  BY <1>5, <1>6

\* A refill takes no more than recv_buf holds, and it leaves less in the kernel.
LEMMA ReadKernelBounded ==
    ASSUME BuffersBounded, TypeOK, NEW p \in Party, ReadKernel(p),
           NEW r \in Party, NEW c \in Chan
    PROVE  BoundedAt(r, c)'
<1> DEFINE e == <<p, cur[p]>>
           from == <<Peer(p), cur[p]>>
<1>1. /\ e \in Endpoint /\ from \in Endpoint /\ <<r, c>> \in Endpoint
      /\ BoundedAt(r, c) /\ cur[p] \in Chan
  BY CurEndpoint, ZenonT(20) DEF Endpoint, BuffersBounded, BoundedAt, TypeOK, CallType
<1>2. staging' = staging /\ out' = out /\ cur' = cur /\ pc' = pc
  BY DEF ReadKernel, callVars
<1>3. PICK k \in 1..Len(wire[from]) :
          /\ k <= StagingSize
          /\ rbuf' = [rbuf EXCEPT ![e] = Take(wire[from], k)]
          /\ wire' = [wire EXCEPT ![from] = Drop(@, k)]
  BY ReadKernelMoves, ZenonT(20)
<1>4. wire \in [Endpoint -> Seq(Byte)] /\ rbuf \in [Endpoint -> Seq(Byte)]
  BY DEF TypeOK, BufType
<1>5. wire[from] \in Seq(Byte) /\ Len(wire[from]) \in Nat
  BY <1>1, <1>4, LenProperties, SMTT(30)
<1>6. k \in 0..Len(wire[from])
  BY <1>5, FromOne, ZenonT(20)
<1>7. /\ Len(Take(wire[from], k)) = k
      /\ Len(Drop(wire[from], k)) = Len(wire[from]) - k
  BY <1>5, <1>6, TakeDrop, ZenonT(20)
<1>8. Len(rbuf'[r, c]) <= StagingSize
  <2>1. rbuf'[r, c] = rbuf[r, c] \/ rbuf'[r, c] = Take(wire[from], k)
    BY <1>1, <1>3, <1>4, ZenonT(20)
  <2>2. QED
    BY <1>1, <1>3, <1>7, <2>1, ZenonT(20) DEF BoundedAt
<1>9. Len(wire'[r, c]) <= PipeSize
  <2>1. CASE <<r, c>> # from
    BY <1>1, <1>3, <1>4, <2>1, ZenonT(20) DEF BoundedAt
  <2>2. CASE <<r, c>> = from
    <3>1. wire'[from] = Drop(wire[from], k) /\ Len(wire[from]) <= PipeSize
      BY <1>1, <1>3, <1>4, <2>2, ZenonT(20) DEF BoundedAt
    <3>2. Len(wire'[from]) <= PipeSize
      <4> DEFINE m == Len(wire[from])
      <4>1. m \in Nat /\ k \in 0..m /\ m <= PipeSize /\ Len(wire'[from]) = m - k
        BY <1>5, <1>6, <1>7, <3>1, ZenonT(20)
      <4> HIDE DEF m
      <4>2. QED
        BY <4>1, SizesAssumption, SMTT(30)
    <3>3. QED
      BY <2>2, <3>2, ZenonT(30)
  <2>3. QED
    BY <2>1, <2>2, ZenonT(20)
<1>10. QED
  BY <1>1, <1>2, <1>8, <1>9, ZenonT(20) DEF BoundedAt

\* recv_data_internal copies bytes out, with nothing left in its own stream.
LEMMA ReadBufferedBounded ==
    ASSUME BuffersBounded, ReadingMeansDrained, TypeOK, NEW p \in Party,
           ReadBuffered(p), NEW r \in Party, NEW c \in Chan
    PROVE  BoundedAt(r, c)'
<1> DEFINE e == <<p, cur[p]>>
<1>1. e \in Endpoint /\ <<r, c>> \in Endpoint /\ BoundedAt(r, c) /\ cur[p] \in Chan
  BY CurEndpoint, ZenonT(20) DEF Endpoint, BuffersBounded, BoundedAt, TypeOK, CallType
<1>2. staging' = staging /\ out' = out /\ cur' = cur /\ wire' = wire /\ out[e] = <<>>
  BY ZenonT(30) DEF ReadBuffered, ReadingMeansDrained
<1>3. \A q \in Party : q # p => pc'[q] = pc[q]
  BY ZenonT(20) DEF ReadBuffered, TypeOK, CallType
<1>4. PICK k \in 0..Len(rbuf[e]) : rbuf' = [rbuf EXCEPT ![e] = Drop(@, k)]
  BY ReadBufferedMoves, ZenonT(20)
<1>5. rbuf \in [Endpoint -> Seq(Byte)]
  BY DEF TypeOK, BufType
<1>6. rbuf[e] \in Seq(Byte) /\ Len(rbuf[e]) \in Nat
  BY <1>1, <1>5, LenProperties, SMTT(30)
<1>7. Len(Drop(rbuf[e], k)) = Len(rbuf[e]) - k
  BY <1>6, TakeDrop
<1>8. Len(rbuf'[r, c]) <= StagingSize
  <2>1. CASE <<r, c>> # e
    BY <1>1, <1>4, <1>5, <2>1, ZenonT(20) DEF BoundedAt
  <2>2. CASE <<r, c>> = e
    <3>1. rbuf'[e] = Drop(rbuf[e], k) /\ Len(rbuf[e]) <= StagingSize
      BY <1>1, <1>4, <1>5, <2>2, ZenonT(20) DEF BoundedAt
    <3>2. Len(rbuf'[e]) <= StagingSize
      <4> DEFINE m == Len(rbuf[e])
      <4>1. m \in Nat /\ k \in 0..m /\ m <= StagingSize /\ Len(rbuf'[e]) = m - k
        BY <1>4, <1>6, <1>7, <3>1
      <4> HIDE DEF m
      <4>2. QED
        BY <4>1, SizesAssumption
    <3>3. QED
      BY <2>2, <3>2, ZenonT(30)
  <2>3. QED
    BY <2>1, <2>2, ZenonT(20)
<1>9. (pc'[r] = "idle" \/ cur[r] # c) => Len(out[r, c]) <= StreamSize
  <2>1. CASE r = p /\ c = cur[p]
    <3>1. out[r, c] = <<>>
      BY <1>2, <2>1, ZenonT(20)
    <3>2. Len(<<>>) = 0
      OBVIOUS
    <3>3. 0 <= StreamSize
      BY SizesAssumption
    <3>4. QED
      BY <3>1, <3>2, <3>3, Zenon
  <2>2. CASE ~(r = p /\ c = cur[p])
    BY <1>1, <1>3, <2>2, ZenonT(30) DEF BoundedAt
  <2>3. QED
    BY <2>1, <2>2, ZenonT(20)
<1>10. QED
  BY <1>1, <1>2, <1>8, <1>9, ZenonT(20) DEF BoundedAt

\* A write returns when the stream buffer can hold the rest, or is empty.
LEMMA WriteReturnBounded ==
    ASSUME BuffersBounded, TypeOK, NEW p \in Party, RawReturn(p) \/ FflushReturn(p),
           NEW r \in Party, NEW c \in Chan
    PROVE  BoundedAt(r, c)'
<1>1. BoundedAt(r, c)
  BY ZenonT(20) DEF BuffersBounded, BoundedAt
<1>2. staging' = staging /\ out' = out /\ wire' = wire /\ rbuf' = rbuf /\ cur' = cur
  BY ZenonT(20) DEF RawReturn, FflushReturn
<1>3. \A q \in Party : q # p => pc'[q] = pc[q]
  BY ZenonT(20) DEF RawReturn, FflushReturn, TypeOK, CallType
<1>4. Len(out[p, cur[p]]) <= StreamSize
  <2>1. CASE RawReturn(p)
    BY <2>1, ZenonT(20) DEF RawReturn
  <2>2. CASE FflushReturn(p)
    <3>1. out[p, cur[p]] = <<>>
      BY <2>2, ZenonT(20) DEF FflushReturn
    <3>2. Len(<<>>) = 0
      OBVIOUS
    <3>3. 0 <= StreamSize
      BY SizesAssumption
    <3>4. QED
      BY <3>1, <3>2, <3>3, Zenon
  <2>3. QED
    BY <2>1, <2>2, ZenonT(30)
<1>5. (pc'[r] = "idle" \/ cur[r] # c) => Len(out[r, c]) <= StreamSize
  <2>1. CASE r = p /\ c = cur[p]
    BY <1>4, <2>1, ZenonT(20)
  <2>2. CASE ~(r = p /\ c = cur[p])
    BY <1>1, <1>3, <2>2, ZenonT(20) DEF BoundedAt
  <2>3. QED
    BY <2>1, <2>2, ZenonT(20)
<1>6. QED
  BY <1>1, <1>2, <1>5, ZenonT(30) DEF BoundedAt

\* A failed write leaves the stream as it was, or empty.
LEMMA WriteErrorBounded ==
    ASSUME BuffersBounded, TypeOK, NEW p \in Party, WriteError(p),
           NEW r \in Party, NEW c \in Chan
    PROVE  BoundedAt(r, c)'
<1> DEFINE e == <<p, cur[p]>>
<1>1. e \in Endpoint /\ <<r, c>> \in Endpoint /\ BoundedAt(r, c)
  BY CurEndpoint, ZenonT(20) DEF Endpoint, BuffersBounded, BoundedAt
<1>2. staging' = staging /\ wire' = wire /\ rbuf' = rbuf /\ cur' = cur
  BY DEF WriteError
<1>3. pc'[p] # "idle" /\ \A q \in Party : q # p => pc'[q] = pc[q]
  BY DEF WriteError, TypeOK, CallType
<1>4. <<r, c>> # e => out'[r, c] = out[r, c]
  BY <1>1, ZenonT(20) DEF WriteError, TypeOK, BufType
<1>5. QED
  BY <1>1, <1>2, <1>3, <1>4, ZenonT(30) DEF BoundedAt

\* Every step keeps the buffers within their sizes.
LEMMA BoundedStep ==
    ASSUME TypeOK, ReadingMeansDrained, BuffersBounded, [Next]_vars
    PROVE  BuffersBounded'
<1>1. CASE UNCHANGED vars
  BY <1>1, ZenonT(20) DEF vars, bufVars, callVars, BuffersBounded
<1>2. ASSUME NEW p \in Party,
             \/ SendDataInternal(p) \/ FlushUnlocked(p) \/ KernelWrite(p)
             \/ RawReturn(p) \/ FflushReturn(p) \/ WriteError(p)
             \/ ReadKernel(p) \/ ReadBuffered(p)
      PROVE  BuffersBounded'
  <2>1. \A r \in Party, c \in Chan : BoundedAt(r, c)'
    BY <1>2, SendDataInternalBounded, FlushUnlockedBounded, KernelWriteBounded,
       WriteReturnBounded, WriteErrorBounded, ReadKernelBounded, ReadBufferedBounded
  <2>2. QED
    BY <2>1, ZenonT(20) DEF BuffersBounded, BoundedAt
<1>3. ASSUME NEW p \in Party,
             \/ SendData(p) \/ RecvData(p) \/ Flush(p) \/ Sync(p)
             \/ EnableFs(p) \/ Destroy(p) \/ ReadEof(p) \/ Crash(p)
      PROVE  BuffersBounded'
  <2>1. Abort(p) \/ \E name, steps : Calls(p, name) /\ Enter(p, steps)
    BY <1>3, ZenonT(20) DEF SendData, RecvData, Flush, Sync, EnableFs, Destroy, ReadEof, Crash
  <2>2. QED
    BY <2>1, EnterBounded, AbortBounded, SMTT(30)
<1>4. ASSUME NEW p \in Party, StartRead(p) \/ CloseSocket(p)
      PROVE  BuffersBounded'
  <2>1. bufVars' = bufVars /\ cur' = cur
    BY <1>4 DEF StartRead, CloseSocket
  <2>2. \A q \in Party : pc'[q] = "idle" => pc[q] = "idle"
    BY <1>4 DEF StartRead, CloseSocket, TypeOK, CallType
  <2>3. QED
    BY <2>1, <2>2, ZenonT(20) DEF BuffersBounded, bufVars
<1>5. QED
  BY <1>1, <1>2, <1>3, <1>4, SMTT(30) DEF Next, Move

-----------------------------------------------------------------------------
(* The theorems.                                                            *)

\* The inductive invariant.  TypeOK alone is not inductive: Tail(todo) and
\* the read counters need CallShape, which in turn needs CleanMeansEmpty; the
\* bound on the stream buffer needs a reader's stream to be empty.
IInv == TypeOK /\ InOrder /\ BuffersBounded /\ (\A p \in Party : PartyInv(p))

\* A fresh channel has empty buffers, so everything holds.
LEMMA InitInv == Init => IInv
<1> SUFFICES ASSUME Init PROVE IInv
  OBVIOUS
<1>1. TypeOK
  BY InitType
<1>2. ASSUME NEW r \in Party, NEW c \in Chan
      PROVE  /\ staging[r, c] = <<>> /\ out[r, c] = <<>> /\ wire[r, c] = <<>>
             /\ rbuf[r, c] = <<>> /\ sent[r, c] = <<>> /\ rcvd[r, c] = <<>>
             /\ closed[r, c] = FALSE
  BY ZenonT(20) DEF Init, Endpoint
<1>3. \A r \in Party : todo[r] = <<>> /\ pc[r] = "idle"
  BY DEF Init
<1>4. InOrder
  <2>1. <<>> \o (<<>> \o (<<>> \o (<<>> \o <<>>))) = <<>>
    BY ConcatEmptySeq
  <2>2. QED
    BY <1>2, <2>1, PeerType, Zenon DEF InOrder, InTransit
<1>5. ASSUME NEW p \in Party PROVE PartyInv(p)
  <2>1. cur[p] \in Chan
    BY <1>1 DEF TypeOK, CallType
  <2>2. CallShapeOf(p)
    <3>1. StepsOrdered(<<>>)
      BY DEF StepsOrdered
    <3>2. QED
      BY <1>2, <1>3, <2>1, <3>1, ZenonT(20) DEF CallShapeOf
  <2>3. QED
    BY <1>2, <2>2, ZenonT(20) DEF PartyInv
<1>6. BuffersBounded
  <2>1. Len(<<>>) = 0
    OBVIOUS
  <2>2. 0 <= StagingSize /\ 0 <= PipeSize /\ 0 <= StreamSize
    BY SizesAssumption
  <2>3. QED
    BY <1>2, <2>1, <2>2, Zenon DEF BuffersBounded
<1>7. QED
  BY <1>1, <1>4, <1>5, <1>6 DEF IInv

\* What the invariant says in the words of the specification.
LEMMA InvGives ==
    IInv => /\ TypeOK /\ InOrder /\ BuffersBounded /\ CallShape /\ CleanMeansEmpty
            /\ ReadingMeansDrained /\ ClosedMeansDrained
<1> SUFFICES ASSUME IInv
             PROVE  /\ TypeOK /\ InOrder /\ BuffersBounded /\ CallShape /\ CleanMeansEmpty
                    /\ ReadingMeansDrained /\ ClosedMeansDrained
  OBVIOUS
<1>1. /\ TypeOK /\ InOrder /\ BuffersBounded
      /\ CallShape /\ CleanMeansEmpty /\ ClosedMeansDrained
  BY PartyInvIsAll DEF IInv
<1>2. ASSUME NEW p \in Party, pc[p] = "read"
      PROVE  staging[p, cur[p]] = <<>> /\ out[p, cur[p]] = <<>>
  <2>1. cur[p] \in Chan
    BY <1>1 DEF TypeOK, CallType
  <2>2. ~dirty[p, cur[p]]
    BY <1>1, <1>2, ZenonT(20) DEF CallShape, CallShapeOf, Settled
  <2>3. QED
    BY <1>1, <1>2, <2>1, <2>2, ZenonT(20) DEF CleanMeansEmpty
<1>3. QED
  BY <1>1, <1>2, ZenonT(20) DEF ReadingMeansDrained

\* Every step keeps it.
LEMMA StepInv == IInv /\ [Next]_vars => IInv'
<1> SUFFICES ASSUME IInv, [Next]_vars PROVE IInv'
  OBVIOUS
<1>1. TypeOK /\ InOrder /\ CallShape /\ BuffersBounded /\ ReadingMeansDrained
  BY InvGives
<1>2. TypeOK' /\ InOrder' /\ BuffersBounded'
  BY <1>1, TypeStep, InOrderStep, BoundedStep
<1>3. ASSUME NEW q \in Party PROVE PartyInv(q)'
  <2>1. PartyInv(q)
    BY DEF IInv
  <2>2. CASE UNCHANGED vars
    BY <2>1, <2>2, ZenonT(20) DEF vars, callVars, bufVars, PartyInv, CallShapeOf
  <2>3. ASSUME NEW p \in Party, Move(p) \/ Crash(p) PROVE PartyInv(q)'
    <3>1. CASE p = q
      BY <1>1, <2>1, <2>3, <3>1, PartyInvStep
    <3>2. CASE p # q
      BY <1>1, <2>1, <2>3, <3>2, StepIsLocal, OtherPartyInv
    <3>3. QED
      BY <3>1, <3>2
  <2>4. QED
    BY <2>2, <2>3 DEF Next
<1>4. QED
  BY <1>2, <1>3 DEF IInv

\* The inductive invariant holds in every state of every run.
LEMMA Invariance == Spec => []IInv
BY InitInv, StepInv, PTL DEF Spec

\* The variables of a channel keep their types whatever the two programs do.
THEOREM TypeCorrect == Spec => []TypeOK
BY Invariance, InvGives, PTL

\* send_data_internal, flush_unlocked, the kernel and recv_data_internal
\* together deliver the bytes of every channel once and in order: for every
\* size of the buffers, every number of channels and every pair of programs.
THEOREM StreamInOrder == Spec => []InOrder
BY Invariance, InvGives, PTL

\* No buffer of a channel outgrows its memory, and a stream buffer that an
\* fwrite had to drain is within its size again when the call returns.
THEOREM BuffersStayBounded == Spec => []BuffersBounded
BY Invariance, InvGives, PTL

\* No byte is forgotten in user space: flush_unlocked's early return on a clear
\* send_dirty strands none, a party blocked in recv_data_internal has written
\* out all it had sent, and so has a destroyed endpoint.
THEOREM NothingStranded == Spec => []NothingHeldBack
<1>1. IInv => NothingHeldBack
  BY InvGives DEF NothingHeldBack
<1>2. QED
  BY <1>1, Invariance, PTL

\* Reads and closes start only from a drained send side.
THEOREM CallsKeepShape == Spec => []CallShape
BY Invariance, InvGives, PTL

(****************************************************************************)
(* The buffered channel implements ByteStream: whatever a step does to the  *)
(* five places a byte can be in is sending, delivering, cutting, or nothing *)
(* at all to the stream as a caller sees it.                                *)
(****************************************************************************)
\* The mapped variables of ByteStream.
Inflight == [e \in Endpoint |-> StreamInflight(e[1], e[2])]
Delivered == [e \in Endpoint |-> rcvd[Peer(e[1]), e[2]]]
CutStreams == [e \in Endpoint |-> StreamCut(e[1], e[2])]

\* A function of the endpoints, pointwise.
LEMMA EndpointPair == \A e \in Endpoint : e[1] \in Party /\ e[2] \in Chan /\ e = <<e[1], e[2]>>
BY DEF Endpoint

\* Both ends of a channel are endpoints, and each is the other's peer.
LEMMA PairEndpoint == \A r \in Party, c \in Chan : <<r, c>> \in Endpoint /\ <<Peer(r), c>> \in Endpoint
BY PeerType DEF Endpoint

\* The mapped variables, as functions of the endpoints.
LEMMA MappedFunctions ==
    /\ Inflight = [e \in Endpoint |-> Inflight[e]] /\ Inflight' = [e \in Endpoint |-> Inflight'[e]]
    /\ Delivered = [e \in Endpoint |-> Delivered[e]] /\ Delivered' = [e \in Endpoint |-> Delivered'[e]]
    /\ CutStreams = [e \in Endpoint |-> CutStreams[e]] /\ CutStreams' = [e \in Endpoint |-> CutStreams'[e]]
BY Zenon DEF Inflight, Delivered, CutStreams

\* A caller of t cannot tell the step from nothing.
Quiet(t) == Inflight'[t] = Inflight[t] /\ Delivered'[t] = Delivered[t] /\ CutStreams'[t] = CutStreams[t]

\* A step that no caller can tell from nothing is a stutter of ByteStream.
LEMMA QuietStutters ==
    ASSUME \A t \in Endpoint : Quiet(t)
    PROVE  UNCHANGED Stream!streamVars
<1>1. Inflight' = Inflight /\ Delivered' = Delivered /\ CutStreams' = CutStreams
  BY MappedFunctions, Zenon DEF Quiet
<1>2. QED
  BY <1>1, ZenonT(20) DEF Stream!streamVars, Inflight, Delivered, CutStreams

\* The mapped variables at an endpoint.
LEMMA MappedAt ==
    ASSUME NEW r \in Party, NEW c \in Chan
    PROVE  /\ Inflight[<<r, c>>] = StreamInflight(r, c)
           /\ Inflight'[<<r, c>>] = StreamInflight(r, c)'
           /\ Delivered[<<r, c>>] = rcvd[Peer(r), c]
           /\ Delivered'[<<r, c>>] = rcvd'[Peer(r), c]
           /\ CutStreams[<<r, c>>] = StreamCut(r, c)
           /\ CutStreams'[<<r, c>>] = StreamCut(r, c)'
<1>1. <<r, c>> \in Endpoint /\ <<r, c>>[1] = r /\ <<r, c>>[2] = c
  BY PairEndpoint, ZenonT(20)
<1>2. QED
  BY <1>1, Zenon DEF Inflight, Delivered, CutStreams

\* What is in flight is a byte sequence.
LEMMA InflightType ==
    ASSUME TypeOK, NEW r \in Party, NEW c \in Chan
    PROVE  StreamInflight(r, c) \in Seq(Byte)
<1>1. rbuf[Peer(r), c] \in Seq(Byte) /\ wire[r, c] \in Seq(Byte)
  BY StreamTypes, PeerType, ZenonT(20)
<1>2. rbuf[Peer(r), c] \o wire[r, c] \in Seq(Byte)
  BY <1>1, ConcatType, Zenon
<1>3. InTransit(r, c) \in Seq(Byte)
  BY TransitType
<1>4. <<>> \in Seq(Byte)
  OBVIOUS
<1>5. QED
  BY <1>2, <1>3, <1>4, Zenon DEF StreamInflight

\* So Inflight is a function to byte sequences, before and after a step.
LEMMA InflightTypes ==
    /\ TypeOK => Inflight \in [Endpoint -> Seq(Byte)]
    /\ TypeOK' => Inflight' \in [Endpoint -> Seq(Byte)]
<1>1. TypeOK => Inflight \in [Endpoint -> Seq(Byte)]
  <2>1. ASSUME TypeOK, NEW e \in Endpoint PROVE StreamInflight(e[1], e[2]) \in Seq(Byte)
    BY <2>1, InflightType, EndpointPair
  <2>2. QED
    BY <2>1, Zenon DEF Inflight
<1>2. TypeOK' => (Inflight \in [Endpoint -> Seq(Byte)])'
  BY <1>1, PTL
<1>3. QED
  BY <1>1, <1>2

-----------------------------------------------------------------------------
(* The actions of ByteStream, in terms of what a caller can tell.           *)

\* A sequence is a prefix of itself with more bytes.
LEMMA PrefixOfMore ==
    ASSUME NEW s \in Seq(Byte), NEW x \in Seq(Byte)
    PROVE  Stream!Prefix(s, s \o x)
<1>1. /\ s \o x \in Seq(Byte) /\ Len(s \o x) = Len(s) + Len(x)
      /\ Len(s) \in Nat /\ Len(x) \in Nat
  BY ConcatProperties, LenProperties
<1>2. \A i \in 1..Len(s) : (s \o x)[i] = s[i]
  BY <1>1, ConcatProperties
<1>3. 1 \in 1..Len(s) + 1 /\ Len(s) \in 0..Len(s \o x)
  BY <1>1
<1>4. \A i \in 1..Len(s) : (s \o x)[i] \in Byte
  BY <1>1, <1>2, ElementOfSeq
<1>5. /\ SubSeq(s \o x, 1, Len(s)) \in Seq(Byte)
      /\ Len(SubSeq(s \o x, 1, Len(s))) = Len(s)
      /\ \A i \in 1..Len(s) : SubSeq(s \o x, 1, Len(s))[i] = (s \o x)[i]
  BY <1>1, <1>4, SubSeqProperties
<1>6. SubSeq(s \o x, 1, Len(s)) = s
  BY <1>1, <1>2, <1>5, SeqEqual
<1>7. QED
  BY <1>1, <1>6 DEF Stream!Prefix

\* Nothing is a prefix of everything, and everything of itself.
LEMMA PrefixTrivial ==
    ASSUME NEW s \in Seq(Byte)
    PROVE  Stream!Prefix(<<>>, s) /\ Stream!Prefix(s, s)
<1>1. <<>> \o s = s /\ s \o <<>> = s /\ <<>> \in Seq(Byte)
  BY ConcatEmptySeq
<1>2. Stream!Prefix(<<>>, <<>> \o s) /\ Stream!Prefix(s, s \o <<>>)
  BY <1>1, PrefixOfMore, ZenonT(20)
<1>3. QED
  BY <1>1, <1>2, Zenon

\* Bytes added at the end of one stream that is not cut.
LEMMA IsSend ==
    ASSUME TypeOK, TypeOK', NEW s \in Endpoint, ~CutStreams[s],
           NEW x \in Seq(Byte), Inflight'[s] = Inflight[s] \o x,
           \A t \in Endpoint : Delivered'[t] = Delivered[t] /\ CutStreams'[t] = CutStreams[t],
           \A t \in Endpoint \ {s} : Inflight'[t] = Inflight[t]
    PROVE  Stream!Next
<1>1. Inflight \in [Endpoint -> Seq(Byte)] /\ Inflight' \in [Endpoint -> Seq(Byte)]
  BY InflightTypes
<1>2. Stream!Prefix(Inflight[s], Inflight'[s])
  BY <1>1, PrefixOfMore, Zenon
<1>3. Delivered' = Delivered /\ CutStreams' = CutStreams
  BY MappedFunctions, Zenon
<1>4. Stream!Send(s)
  BY <1>1, <1>2, <1>3, ZenonT(20) DEF Stream!Send, Inflight, Delivered, CutStreams
<1>5. QED
  BY <1>4 DEF Stream!Next

\* The oldest bytes of one stream handed to its receiver.
LEMMA IsDeliver ==
    ASSUME NEW s \in Endpoint, NEW k \in 1..Len(Inflight[s]),
           Delivered'[s] = Delivered[s] \o Take(Inflight[s], k),
           Inflight'[s] = Drop(Inflight[s], k),
           \A t \in Endpoint : CutStreams'[t] = CutStreams[t],
           \A t \in Endpoint \ {s} : Inflight'[t] = Inflight[t] /\ Delivered'[t] = Delivered[t]
    PROVE  Stream!Next
<1>1. Delivered' = [Delivered EXCEPT ![s] = @ \o SubSeq(Inflight[s], 1, k)]
  BY MappedFunctions, Zenon DEF Take
<1>2. Inflight' = [Inflight EXCEPT ![s] = SubSeq(@, k + 1, Len(@))]
  BY MappedFunctions, Zenon DEF Drop
<1>3. CutStreams' = CutStreams
  BY MappedFunctions, Zenon
<1>4. Stream!Deliver(s)
  BY <1>1, <1>2, <1>3, ZenonT(20) DEF Stream!Deliver, Inflight, Delivered, CutStreams
<1>5. QED
  BY <1>4 DEF Stream!Next

\* The streams of S lose an end, and perhaps their last bytes.
LEMMA IsCut ==
    ASSUME TypeOK', NEW S \in SUBSET Endpoint,
           \A t \in Endpoint : /\ CutStreams'[t] = (CutStreams[t] \/ t \in S)
                               /\ Delivered'[t] = Delivered[t],
           \A t \in S : Stream!Prefix(Inflight'[t], Inflight[t]),
           \A t \in Endpoint \ S : Inflight'[t] = Inflight[t]
    PROVE  Stream!Next
<1>1. Inflight' \in [Endpoint -> Seq(Byte)]
  BY InflightTypes
<1>2. CutStreams' = [t \in Endpoint |-> CutStreams[t] \/ t \in S]
  BY MappedFunctions, Zenon
<1>3. Delivered' = Delivered
  BY MappedFunctions, Zenon
<1>4. Stream!Cut(S)
  BY <1>1, <1>2, <1>3, ZenonT(20) DEF Stream!Cut, Inflight, Delivered, CutStreams
<1>5. QED
  BY <1>4 DEF Stream!Next

-----------------------------------------------------------------------------
(* The steps of the channel, as steps of the stream.                        *)

\* Nobody dies and nothing is closed.
SameEnds == closed' = closed /\ \A q \in Party : (pc'[q] = "dead") <=> (pc[q] = "dead")

\* What leaves the mapped variables of an endpoint alone is quiet there.
LEMMA MappedQuiet ==
    ASSUME NEW r \in Party, NEW c \in Chan,
           StreamInflight(r, c)' = StreamInflight(r, c), StreamCut(r, c)' = StreamCut(r, c),
           rcvd'[Peer(r), c] = rcvd[Peer(r), c]
    PROVE  Quiet(<<r, c>>)
<1>1. <<r, c>> \in Endpoint /\ <<r, c>>[1] = r /\ <<r, c>>[2] = c
  BY PairEndpoint, ZenonT(20)
<1>2. Inflight'[<<r, c>>] = Inflight[<<r, c>>]
  BY <1>1, Zenon DEF Inflight
<1>3. CutStreams'[<<r, c>>] = CutStreams[<<r, c>>]
  BY <1>1, Zenon DEF CutStreams
<1>4. Delivered'[<<r, c>>] = Delivered[<<r, c>>]
  BY <1>1, Zenon DEF Delivered
<1>5. QED
  BY <1>2, <1>3, <1>4, Zenon DEF Quiet

\* What keeps the ends and the bytes that still matter keeps the stream.
LEMMA QuietAt ==
    ASSUME NEW r \in Party, NEW c \in Chan, SameEnds,
           rcvd'[Peer(r), c] = rcvd[Peer(r), c],
           \/ Gone(Peer(r), c)
           \/ pc[r] = "dead" /\ rbuf'[Peer(r), c] \o wire'[r, c] = rbuf[Peer(r), c] \o wire[r, c]
           \/ pc[r] # "dead" /\ InTransit(r, c)' = InTransit(r, c)
    PROVE  Quiet(<<r, c>>)
<1>1. /\ Gone(Peer(r), c)' = Gone(Peer(r), c)
      /\ (pc'[r] = "dead") = (pc[r] = "dead")
  BY PeerType, ZenonT(20) DEF SameEnds, Gone
<1>2. StreamCut(r, c)' = StreamCut(r, c)
  BY <1>1, ZenonT(20) DEF StreamCut
<1>3. StreamInflight(r, c)' = StreamInflight(r, c)
  BY <1>1, ZenonT(20) DEF StreamInflight
<1>4. QED
  BY <1>2, <1>3, MappedQuiet, ZenonT(20)

\* Quiet endpoints, one party and channel at a time.
LEMMA AllQuiet ==
    ASSUME \A r \in Party, c \in Chan : Quiet(<<r, c>>)
    PROVE  UNCHANGED Stream!streamVars
<1>1. ASSUME NEW t \in Endpoint PROVE Quiet(t)
  <2>1. t[1] \in Party /\ t[2] \in Chan /\ t = <<t[1], t[2]>>
    BY EndpointPair
  <2>2. Quiet(<<t[1], t[2]>>)
    BY <2>1
  <2>3. QED
    BY <2>1, <2>2, Zenon
<1>2. QED
  BY <1>1, QuietStutters

\* Entering a call, or returning from a write, moves no byte.
LEMMA StillRefines ==
    ASSUME SameEnds, UNCHANGED <<staging, out, wire, rbuf, rcvd>>
    PROVE  UNCHANGED Stream!streamVars
<1>1. ASSUME NEW r \in Party, NEW c \in Chan PROVE Quiet(<<r, c>>)
  <2>1. InTransit(r, c)' = InTransit(r, c)
    BY DEF InTransit
  <2>2. QED
    BY <2>1, QuietAt
<1>2. QED
  BY <1>1, AllQuiet

\* flush_unlocked and the kernel's share of a write happen inside the stream.
LEMMA WriteRefines ==
    ASSUME TypeOK, NEW p \in Party, FlushUnlocked(p) \/ KernelWrite(p)
    PROVE  UNCHANGED Stream!streamVars
<1>1. /\ pc[p] # "dead" /\ rcvd' = rcvd /\ rbuf' = rbuf /\ SameEnds
      /\ \A e \in Endpoint : e # <<p, cur[p]>> => wire'[e] = wire[e]
  <2>1. CASE FlushUnlocked(p)
    BY <2>1, ZenonT(20) DEF FlushUnlocked, Does, SameEnds, histVars, TypeOK, CallType
  <2>2. CASE KernelWrite(p)
    BY <2>2, CurEndpoint, ZenonT(20) DEF KernelWrite, SameEnds, histVars, callVars, TypeOK, BufType
  <2>3. QED
    BY <2>1, <2>2
<1>2. ASSUME NEW r \in Party, NEW c \in Chan PROVE Quiet(<<r, c>>)
  <2>1. InTransit(r, c)' = InTransit(r, c)
    BY FlushUnlockedTransit, KernelWriteTransit
  <2>2. pc[r] = "dead" => wire'[r, c] = wire[r, c]
    BY <1>1, PairEndpoint, ZenonT(20)
  <2>3. QED
    BY <1>1, <2>1, <2>2, QuietAt, ZenonT(20)
<1>3. QED
  BY <1>2, AllQuiet

\* So does refilling recv_buf.
LEMMA ReadKernelRefines ==
    ASSUME TypeOK, NEW p \in Party, ReadKernel(p)
    PROVE  UNCHANGED Stream!streamVars
<1>1. rcvd' = rcvd /\ SameEnds
  BY DEF ReadKernel, SameEnds, callVars, histVars
<1>2. ASSUME NEW r \in Party, NEW c \in Chan PROVE Quiet(<<r, c>>)
  BY <1>1, ReadKernelTransit, QuietAt, ZenonT(20)
<1>3. QED
  BY <1>2, AllQuiet

\* A failed write goes unnoticed, or ends the process and leaves its bytes.
LEMMA WriteErrorEnds ==
    ASSUME NEW p \in Party, WriteError(p)
    PROVE  pc' = pc \/ (pc' = [pc EXCEPT ![p] = "dead"] /\ out' = out)
BY DEF WriteError

\* An fflush whose failure nobody looks at drops bytes of a cut stream.
LEMMA LostWriteRefines ==
    ASSUME TypeOK, NEW p \in Party, WriteError(p), pc' = pc
    PROVE  UNCHANGED Stream!streamVars
<1>1. /\ rcvd' = rcvd /\ rbuf' = rbuf /\ wire' = wire /\ staging' = staging /\ SameEnds
      /\ Gone(Peer(p), cur[p])
      /\ \A e \in Endpoint : e # <<p, cur[p]>> => out'[e] = out[e]
  BY CurEndpoint DEF WriteError, SameEnds, TypeOK, BufType, CallType
<1>2. ASSUME NEW r \in Party, NEW c \in Chan PROVE Quiet(<<r, c>>)
  <2>1. CASE r = p /\ c = cur[p]
    BY <1>1, <2>1, QuietAt
  <2>2. CASE <<r, c>> # <<p, cur[p]>>
    <3>1. InTransit(r, c)' = InTransit(r, c)
      BY <1>1, <2>2, PairEndpoint, ZenonT(20) DEF InTransit
    <3>2. QED
      BY <1>1, <3>1, QuietAt
  <2>3. QED
    BY <2>1, <2>2
<1>3. QED
  BY <1>2, AllQuiet

\* send_data_internal sends, unless the receiving end is gone already.
LEMMA SendDataInternalRefines ==
    ASSUME TypeOK, TypeOK', NEW p \in Party, SendDataInternal(p)
    PROVE  Stream!Next \/ UNCHANGED Stream!streamVars
<1>1. /\ pc[p] # "dead" /\ rcvd' = rcvd /\ rbuf' = rbuf /\ wire' = wire
      /\ SameEnds
  BY ZenonT(20) DEF SendDataInternal, Does, SameEnds, TypeOK, CallType
<1>0. PICK d \in Chan : d = cur[p] /\ d = cur'[p]
  <2>1. cur' = cur /\ cur[p] \in Chan
    BY Zenon DEF SendDataInternal, TypeOK, CallType
  <2>2. QED
    BY <2>1, Zenon
<1>2. PICK x \in Seq(Byte) :
              /\ InTransit(p, d)' = InTransit(p, d) \o x
              /\ \A r \in Party, c \in Chan : <<r, c>> # <<p, d>> =>
                    InTransit(r, c)' = InTransit(r, c)
  BY <1>0, SendDataInternalTransit, Zenon
<1>3. ASSUME NEW r \in Party, NEW c \in Chan, <<r, c>> # <<p, d>> \/ Gone(Peer(p), d)
      PROVE  Quiet(<<r, c>>)
  <2>1. CASE <<r, c>> # <<p, d>>
    <3>1. InTransit(r, c)' = InTransit(r, c)
      BY <1>2, <2>1
    <3>2. QED
      BY <1>1, <3>1, QuietAt
  <2>2. CASE r = p /\ c = d /\ Gone(Peer(p), d)
    BY <1>1, <2>2, QuietAt
  <2>3. QED
    BY <1>3, <2>1, <2>2
<1>4. CASE Gone(Peer(p), d)
  BY <1>3, <1>4, AllQuiet
<1>5. CASE ~Gone(Peer(p), d)
  <2> DEFINE s == <<p, d>>
  <2>1. s \in Endpoint /\ Peer(p) \in Party
    BY <1>1, PairEndpoint, PeerType, ZenonT(20)
  <2>2. ~Gone(Peer(p), d)' /\ pc'[p] # "dead"
    BY <1>1, <1>5, <2>1, ZenonT(20) DEF Gone, SameEnds
  <2>3. ~CutStreams[s] /\ ~CutStreams'[s]
    BY <1>1, <1>5, <2>2, MappedAt, ZenonT(20) DEF StreamCut
  <2>4. Inflight[s] = InTransit(p, d) /\ Inflight'[s] = InTransit(p, d)'
    BY <1>1, <1>5, <2>2, MappedAt, ZenonT(20) DEF StreamInflight
  <2>5. Inflight'[s] = Inflight[s] \o x
    BY <1>2, <2>4, Zenon
  <2>6. ASSUME NEW t \in Endpoint \ {s} PROVE Quiet(t)
    <3>1. t[1] \in Party /\ t[2] \in Chan /\ t = <<t[1], t[2]>> /\ t # s
      BY EndpointPair
    <3>2. <<t[1], t[2]>> # <<p, d>>
      BY <3>1, Zenon
    <3>3. Quiet(<<t[1], t[2]>>)
      BY <1>3, <3>1, <3>2
    <3>4. QED
      BY <3>1, <3>3, Zenon
  <2>7. Delivered'[s] = Delivered[s] /\ CutStreams'[s] = CutStreams[s]
    <3>1. Delivered'[s] = Delivered[s]
      BY <1>1, MappedAt, ZenonT(20)
    <3>2. CutStreams'[s] = CutStreams[s]
      BY <1>1, <1>5, <2>2, MappedAt, ZenonT(20) DEF StreamCut
    <3>3. QED
      BY <3>1, <3>2
  <2>8. /\ \A t \in Endpoint : Delivered'[t] = Delivered[t] /\ CutStreams'[t] = CutStreams[t]
        /\ \A t \in Endpoint \ {s} : Inflight'[t] = Inflight[t]
    BY <2>6, <2>7, Zenon DEF Quiet
  <2>9. Stream!Next
    BY <2>1, <2>3, <2>5, <2>8, IsSend, ZenonT(20)
  <2>10. QED
    BY <2>9
<1>6. QED
  BY <1>4, <1>5

\* The oldest k bytes of a sequence with more behind it.
LEMMA TakeDropFront ==
    ASSUME NEW b \in Seq(Byte), NEW w \in Seq(Byte), NEW k \in 0..Len(b)
    PROVE  /\ k \in 0..Len(b \o w)
           /\ Take(b \o w, k) = Take(b, k)
           /\ Drop(b \o w, k) = Drop(b, k) \o w
<1>1. /\ Len(b) \in Nat /\ Len(w) \in Nat /\ b \o w \in Seq(Byte)
      /\ Len(b \o w) = Len(b) + Len(w)
      /\ \A i \in 1..Len(b) : (b \o w)[i] = b[i]
      /\ \A i \in 1..Len(w) : (b \o w)[Len(b) + i] = w[i]
  BY ConcatProperties, LenProperties
<1>2. k \in 0..Len(b \o w) /\ k \in Nat
  BY <1>1
<1>3. /\ Take(b, k) \in Seq(Byte) /\ Len(Take(b, k)) = k
      /\ Drop(b, k) \in Seq(Byte) /\ Len(Drop(b, k)) = Len(b) - k
      /\ Take(b \o w, k) \in Seq(Byte) /\ Len(Take(b \o w, k)) = k
      /\ Drop(b \o w, k) \in Seq(Byte) /\ Len(Drop(b \o w, k)) = Len(b \o w) - k
  BY <1>1, <1>2, TakeDrop, ZenonT(20)
<1>4. Take(b \o w, k) \o Drop(b \o w, k) = b \o w /\ Take(b, k) \o Drop(b, k) = b
  BY <1>1, <1>2, TakeDrop, ZenonT(20)
<1>5. Take(b \o w, k) = Take(b, k)
  <2>1. ASSUME NEW i \in 1..k PROVE Take(b \o w, k)[i] = Take(b, k)[i]
    <3>1. Take(b \o w, k)[i] = (b \o w)[i] /\ Take(b, k)[i] = b[i]
      BY <1>1, <1>2, <1>3 DEF Take
    <3>2. QED
      BY <1>1, <1>2, <3>1
  <2>2. QED
    BY <1>3, <2>1, SeqEqual
<1>6. Drop(b \o w, k) = Drop(b, k) \o w
  <2> DEFINE t == Take(b, k)
             d == Drop(b, k)
             u == Drop(b \o w, k)
  <2>1. t \in Seq(Byte) /\ d \in Seq(Byte) /\ u \in Seq(Byte)
    BY <1>3
  <2>2. t \o u = b \o w /\ t \o d = b
    BY <1>4, <1>5, Zenon
  <2> HIDE DEF t, d, u
  <2>3. (t \o d) \o w = t \o (d \o w)
    BY <2>1, Assoc, Zenon
  <2>4. t \o u = t \o (d \o w)
    BY <2>2, <2>3, Zenon
  <2>5. d \o w \in Seq(Byte)
    BY <2>1, ConcatType, Zenon
  <2>6. u = d \o w
    BY <2>1, <2>4, <2>5, ConcatSimplifications, Zenon
  <2>7. QED
    BY <2>6 DEF u, d
<1>7. QED
  BY <1>2, <1>5, <1>6

\* Taking nothing leaves everything.
LEMMA TakeDropNothing == \A b \in Seq(Byte) : Take(b, 0) = <<>> /\ Drop(b, 0) = b
<1> SUFFICES ASSUME NEW b \in Seq(Byte) PROVE Take(b, 0) = <<>> /\ Drop(b, 0) = b
  OBVIOUS
<1>1. 0 \in 0..Len(b)
  BY LenProperties
<1>2. Take(b, 0) = <<>>
  BY DEF Take
<1>3. Take(b, 0) \o Drop(b, 0) = b /\ Drop(b, 0) \in Seq(Byte)
  BY <1>1, TakeDrop
<1>4. <<>> \o Drop(b, 0) = Drop(b, 0)
  BY <1>3, ConcatEmptySeq, Zenon
<1>5. QED
  BY <1>2, <1>3, <1>4, Zenon

\* A count that is not zero is positive.
LEMMA Positive ==
    \A b, w \in Seq(Byte) : \A k \in 0..Len(b \o w) : k # 0 => k \in 1..Len(b \o w)
BY ConcatProperties, LenProperties

\* Copying out of recv_buf delivers the oldest bytes of the peer's stream.
LEMMA ReadBufferedRefines ==
    ASSUME TypeOK, CallShape, NEW p \in Party, ReadBuffered(p)
    PROVE  Stream!Next \/ UNCHANGED Stream!streamVars
<1> DEFINE q == Peer(p)
<1>1. q \in Party /\ Peer(q) = p /\ q # p
  BY PeerType
<1>2. PICK d \in Chan : d = cur[p]
  BY Zenon DEF TypeOK, CallType
<1>3. /\ pc[p] = "read" /\ ~closed[p, d] /\ ~Gone(p, d)
      /\ wire' = wire /\ out' = out /\ staging' = staging /\ SameEnds
  <2>1. pc[p] = "read" /\ wire' = wire /\ out' = out /\ staging' = staging /\ closed' = closed
    BY ZenonT(20) DEF ReadBuffered
  <2>2. pc' = pc \/ pc' = [pc EXCEPT ![p] = "idle"]
    BY ZenonT(20) DEF ReadBuffered
  <2>3. ~closed[p, d]
    BY <1>2, <2>1, ZenonT(20) DEF CallShape, CallShapeOf
  <2>4. pc \in [Party -> {"idle", "raw", "fflush", "read", "dead"}]
    BY DEF TypeOK, CallType
  <2>5. QED
    BY <2>1, <2>2, <2>3, <2>4, ZenonT(20) DEF SameEnds, Gone
<1>4. PICK k \in 0..Len(rbuf[p, d]) :
              /\ rbuf' = [rbuf EXCEPT ![<<p, d>>] = Drop(@, k)]
              /\ rcvd' = [rcvd EXCEPT ![<<p, d>>] = @ \o Take(rbuf[p, d], k)]
  BY <1>2, ReadBufferedMoves, Zenon
<1>5. rbuf \in [Endpoint -> Seq(Byte)] /\ rcvd \in [Endpoint -> Seq(Byte)]
  BY ZenonT(20) DEF TypeOK, BufType, HistType
<1> DEFINE s == <<q, d>>
           b == rbuf[p, d]
           w == IF pc[q] = "dead" THEN wire[q, d] ELSE wire[q, d] \o (out[q, d] \o staging[q, d])
<1>6. s \in Endpoint /\ <<p, d>> \in Endpoint
  BY <1>1, PairEndpoint, ZenonT(20)
<1>7. b \in Seq(Byte) /\ w \in Seq(Byte)
  BY <1>1, StreamTypes, ZenonT(20)
<1>8. rbuf'[p, d] = Drop(b, k) /\ rcvd'[p, d] = rcvd[p, d] \o Take(b, k)
  BY <1>4, <1>5, <1>6, ZenonT(20)
<1>9. Inflight[s] = b \o w /\ Inflight'[s] = Drop(b, k) \o w
  <2>1. ~Gone(Peer(q), d) /\ ~Gone(Peer(q), d)' /\ ((pc'[q] = "dead") <=> (pc[q] = "dead"))
    BY <1>1, <1>3, ZenonT(20) DEF SameEnds, Gone
  <2>2. StreamInflight(q, d) = b \o w
    BY <1>1, <2>1, ZenonT(20) DEF StreamInflight, InTransit
  <2>3. StreamInflight(q, d)' = rbuf'[p, d] \o w
    BY <1>1, <1>3, <2>1, ZenonT(20) DEF StreamInflight, InTransit
  <2>4. Inflight[s] = StreamInflight(q, d) /\ Inflight'[s] = StreamInflight(q, d)'
    BY <1>1, MappedAt, ZenonT(20)
  <2>5. QED
    BY <1>8, <2>2, <2>3, <2>4, Zenon
<1>10. Delivered[s] = rcvd[p, d] /\ Delivered'[s] = rcvd[p, d] \o Take(b, k)
  BY <1>1, <1>8, MappedAt, ZenonT(20)
<1>11. ASSUME NEW r \in Party, NEW c \in Chan, <<r, c>> # s PROVE Quiet(<<r, c>>)
  <2>1. <<Peer(r), c>> # <<p, d>> /\ <<Peer(r), c>> \in Endpoint
    BY <1>11, PeerType, PairEndpoint, ZenonT(20)
  <2>2. rbuf'[Peer(r), c] = rbuf[Peer(r), c] /\ rcvd'[Peer(r), c] = rcvd[Peer(r), c]
    BY <1>4, <1>5, <2>1, ZenonT(20)
  <2>3. InTransit(r, c)' = InTransit(r, c)
    BY <1>3, <2>2, ZenonT(20) DEF InTransit
  <2>4. QED
    BY <1>3, <2>2, <2>3, QuietAt, ZenonT(20)
<1>12. CutStreams'[s] = CutStreams[s]
  <2>1. CutStreams'[s] = StreamCut(q, d)' /\ CutStreams[s] = StreamCut(q, d)
    BY <1>1, MappedAt, ZenonT(20)
  <2>2. StreamCut(q, d)' = StreamCut(q, d)
    BY <1>1, <1>3, ZenonT(20) DEF StreamCut, SameEnds, Gone
  <2>3. QED
    BY <2>1, <2>2, ZenonT(20)
<1>13. ASSUME NEW t \in Endpoint \ {s} PROVE Quiet(t)
  <2>1. t[1] \in Party /\ t[2] \in Chan /\ t = <<t[1], t[2]>> /\ t # s
    BY EndpointPair, ZenonT(20)
  <2>2. <<t[1], t[2]>> # s
    BY <2>1, Zenon
  <2>3. Quiet(<<t[1], t[2]>>)
    BY <1>11, <2>1, <2>2, ZenonT(20)
  <2>4. QED
    BY <2>1, <2>3, Zenon
<1> HIDE DEF b, w, s
<1>14. /\ k \in 0..Len(b \o w) /\ Take(b \o w, k) = Take(b, k)
       /\ Drop(b \o w, k) = Drop(b, k) \o w
  <2>1. k \in 0..Len(b)
    BY ZenonT(20) DEF b
  <2>2. QED
    BY <1>7, <2>1, TakeDropFront, ZenonT(20)
<1>15. CASE k = 0
  <2>2. Take(b, 0) = <<>> /\ Drop(b, 0) = b
    BY <1>7, TakeDropNothing, Zenon
  <2>3. rcvd[p, d] \o <<>> = rcvd[p, d]
    BY <1>5, <1>6, ConcatEmptySeq, Zenon
  <2>4. Inflight'[s] = Inflight[s] /\ Delivered'[s] = Delivered[s]
    BY <1>9, <1>10, <1>15, <2>2, <2>3, Zenon
  <2>5. \A t \in Endpoint : Quiet(t)
    BY <1>12, <1>13, <2>4, Zenon DEF Quiet
  <2>6. QED
    BY <2>5, QuietStutters, ZenonT(20)
<1>16. CASE k # 0
  <2>1. k \in 1..Len(Inflight[s])
    <3>2. k \in 1..Len(b \o w)
      BY <1>7, <1>14, <1>16, Positive, Zenon
    <3>3. QED
      BY <1>9, <3>2, Zenon
  <2>2. /\ Delivered'[s] = Delivered[s] \o Take(Inflight[s], k)
        /\ Inflight'[s] = Drop(Inflight[s], k)
    BY <1>9, <1>10, <1>14, Zenon
  <2>3. /\ \A t \in Endpoint : CutStreams'[t] = CutStreams[t]
        /\ \A t \in Endpoint \ {s} : Inflight'[t] = Inflight[t] /\ Delivered'[t] = Delivered[t]
    BY <1>12, <1>13, Zenon DEF Quiet
  <2>4. QED
    BY <1>6, <2>1, <2>2, <2>3, IsDeliver, Zenon
<1>17. QED
  BY <1>15, <1>16, ZenonT(20)

\* A process that ends cuts every stream to and from it.  What the kernel and
\* the peer's recv_buf hold is a prefix of what was in flight.
LEMMA DiesRefines ==
    ASSUME TypeOK, TypeOK', NEW p \in Party, pc' = [pc EXCEPT ![p] = "dead"],
           UNCHANGED <<closed, staging, out, wire, rbuf, rcvd>>
    PROVE  Stream!Next
<1>1. pc'[p] = "dead" /\ \A r \in Party : r # p => pc'[r] = pc[r]
  BY DEF TypeOK, CallType
<1>2. ASSUME NEW r \in Party, NEW c \in Chan
      PROVE  /\ CutStreams'[<<r, c>>] = TRUE
             /\ Delivered'[<<r, c>>] = Delivered[<<r, c>>]
             /\ Stream!Prefix(Inflight'[<<r, c>>], Inflight[<<r, c>>])
  <2>1. r = p \/ Peer(r) = p
    BY DEF Party, Peer
  <2>2. CutStreams'[<<r, c>>] = TRUE
    BY <1>1, <2>1, MappedAt, ZenonT(20) DEF StreamCut, Gone
  <2>3. Delivered'[<<r, c>>] = Delivered[<<r, c>>]
    BY MappedAt, ZenonT(20)
  <2>4. Inflight[<<r, c>>] = StreamInflight(r, c) /\ Inflight'[<<r, c>>] = StreamInflight(r, c)'
    BY MappedAt, ZenonT(20)
  <2>5. StreamInflight(r, c) \in Seq(Byte)
    BY InflightType
  <2>6. Stream!Prefix(StreamInflight(r, c)', StreamInflight(r, c))
    <3>1. CASE Gone(Peer(r), c)'
      <4>1. StreamInflight(r, c)' = <<>>
        BY <3>1 DEF StreamInflight
      <4>2. Stream!Prefix(<<>>, StreamInflight(r, c))
        BY <2>5, PrefixTrivial
      <4>3. QED
        BY <4>1, <4>2, Zenon
    <3>2. CASE ~Gone(Peer(r), c)'
      <4> DEFINE b == rbuf[Peer(r), c]
                 w == wire[r, c]
                 o == out[r, c] \o staging[r, c]
      <4>1. r = p /\ Peer(r) # p /\ Peer(r) \in Party
        BY <1>1, <2>1, <3>2, PeerType, ZenonT(20) DEF Gone
      <4>2. ~Gone(Peer(r), c)
        BY <1>1, <3>2, <4>1, ZenonT(20) DEF Gone
      <4>3. StreamInflight(r, c)' = b \o w
        BY <1>1, <3>2, <4>1, ZenonT(20) DEF StreamInflight
      <4>4. StreamInflight(r, c) = b \o w \/ StreamInflight(r, c) = b \o (w \o o)
        BY <4>2 DEF StreamInflight, InTransit
      <4>5. b \in Seq(Byte) /\ w \in Seq(Byte) /\ o \in Seq(Byte)
        BY <4>1, StreamTypes, ZenonT(20)
      <4> HIDE DEF b, w, o
      <4>6. b \o w \in Seq(Byte)
        BY <4>5, ConcatType, Zenon
      <4>7. (b \o w) \o o = b \o (w \o o)
        BY <4>5, Assoc, Zenon
      <4>8. Stream!Prefix(b \o w, b \o w) /\ Stream!Prefix(b \o w, (b \o w) \o o)
        BY <4>5, <4>6, PrefixTrivial, PrefixOfMore, ZenonT(20)
      <4>9. QED
        BY <4>3, <4>4, <4>7, <4>8, Zenon
    <3>3. QED
      BY <3>1, <3>2
  <2>7. QED
    BY <2>2, <2>3, <2>4, <2>6, Zenon
<1>3. ASSUME NEW t \in Endpoint
      PROVE  /\ CutStreams'[t] = TRUE /\ Delivered'[t] = Delivered[t]
             /\ Stream!Prefix(Inflight'[t], Inflight[t])
  <2>1. t[1] \in Party /\ t[2] \in Chan /\ t = <<t[1], t[2]>>
    BY EndpointPair
  <2>2. /\ CutStreams'[<<t[1], t[2]>>] = TRUE
        /\ Delivered'[<<t[1], t[2]>>] = Delivered[<<t[1], t[2]>>]
        /\ Stream!Prefix(Inflight'[<<t[1], t[2]>>], Inflight[<<t[1], t[2]>>])
    BY <1>2, <2>1, ZenonT(20)
  <2>3. QED
    BY <2>1, <2>2, Zenon
<1>4. \A t \in Endpoint : CutStreams'[t] = (CutStreams[t] \/ t \in Endpoint)
  BY <1>3, ZenonT(20)
<1>5. QED
  BY <1>3, <1>4, IsCut, ZenonT(20)

\* ~NetIO takes the reading end of one stream away.
LEMMA CloseSocketRefines ==
    ASSUME TypeOK, TypeOK', NEW p \in Party, CloseSocket(p)
    PROVE  Stream!Next
<1> DEFINE q == Peer(p)
<1>1. q \in Party /\ Peer(q) = p /\ q # p
  BY PeerType
<1>2. PICK d \in Chan : d = cur[p]
  BY Zenon DEF TypeOK, CallType
<1>3. /\ closed' = [closed EXCEPT ![<<p, d>>] = TRUE] /\ pc' = pc /\ rcvd' = rcvd
      /\ rbuf' = rbuf /\ wire' = wire /\ out' = out /\ staging' = staging
  BY <1>2 DEF CloseSocket, bufVars, histVars
<1> DEFINE s == <<q, d>>
<1>4. s \in Endpoint /\ <<p, d>> \in Endpoint
  BY <1>1, PairEndpoint
<1>5. closed'[p, d] = TRUE /\ \A e \in Endpoint : e # <<p, d>> => closed'[e] = closed[e]
  BY <1>3, <1>4, ZenonT(20) DEF TypeOK, BufType
<1>6. Gone(Peer(q), d)'
  BY <1>1, <1>5, ZenonT(20) DEF Gone
<1>7. /\ CutStreams'[s] = TRUE /\ Delivered'[s] = Delivered[s]
      /\ Stream!Prefix(Inflight'[s], Inflight[s])
  <2>1. CutStreams'[s] = TRUE
    BY <1>1, <1>6, MappedAt, ZenonT(20) DEF StreamCut
  <2>2. Delivered'[s] = Delivered[s]
    BY <1>1, <1>3, MappedAt, ZenonT(20)
  <2>3. Inflight'[s] = <<>>
    BY <1>1, <1>6, MappedAt, ZenonT(20) DEF StreamInflight
  <2>4. Inflight[s] \in Seq(Byte)
    BY <1>4, InflightTypes
  <2>5. Stream!Prefix(<<>>, Inflight[s])
    BY <2>4, PrefixTrivial
  <2>6. QED
    BY <2>1, <2>2, <2>3, <2>5, Zenon
<1>8. ASSUME NEW r \in Party, NEW c \in Chan, <<r, c>> # s PROVE Quiet(<<r, c>>)
  <2>1. <<Peer(r), c>> # <<p, d>> /\ <<Peer(r), c>> \in Endpoint
    BY <1>8, PeerType, PairEndpoint, ZenonT(20)
  <2>2. (Gone(Peer(r), c)' <=> Gone(Peer(r), c)) /\ pc'[r] = pc[r]
    BY <1>3, <1>5, <2>1, ZenonT(20) DEF Gone
  <2>3. InTransit(r, c)' = InTransit(r, c)
    BY <1>3 DEF InTransit
  <2>4. StreamCut(r, c)' = StreamCut(r, c)
    BY <1>3, <1>5, <2>1, ZenonT(20) DEF StreamCut, Gone
  <2>5. StreamInflight(r, c)' = StreamInflight(r, c)
    BY <1>3, <2>2, <2>3, ZenonT(20) DEF StreamInflight
  <2>6. QED
    BY <1>3, <2>4, <2>5, MappedQuiet
<1>9. ASSUME NEW t \in Endpoint \ {s} PROVE Quiet(t)
  <2>1. t[1] \in Party /\ t[2] \in Chan /\ t = <<t[1], t[2]>> /\ t # s
    BY EndpointPair
  <2>2. <<t[1], t[2]>> # s
    BY <2>1, Zenon
  <2>3. Quiet(<<t[1], t[2]>>)
    BY <1>8, <2>1, <2>2
  <2>4. QED
    BY <2>1, <2>3, Zenon
<1>10. ASSUME NEW t \in Endpoint
       PROVE  /\ CutStreams'[t] = (CutStreams[t] \/ t \in {s})
              /\ Delivered'[t] = Delivered[t]
  <2>1. CutStreams[t] \in BOOLEAN
    BY Zenon DEF CutStreams, StreamCut
  <2>2. CASE t = s
    BY <1>7, <2>2, ZenonT(20)
  <2>3. CASE t # s
    BY <1>9, <2>1, <2>3 DEF Quiet
  <2>4. QED
    BY <2>2, <2>3
<1>11. /\ \A t \in {s} : Stream!Prefix(Inflight'[t], Inflight[t])
       /\ \A t \in Endpoint \ {s} : Inflight'[t] = Inflight[t]
  BY <1>7, <1>9, Zenon DEF Quiet
<1>12. {s} \in SUBSET Endpoint
  BY <1>4
<1>13. QED
  BY <1>10, <1>11, <1>12, IsCut, ZenonT(20)

\* Every step of the channel is a step of the stream, or none.
LEMMA StepRefines ==
    ASSUME IInv, Next
    PROVE  Stream!Next \/ UNCHANGED Stream!streamVars
<1>1. TypeOK /\ CallShape /\ TypeOK'
  BY InvGives, TypeStep
<1>2. PICK p \in Party : Move(p) \/ Crash(p)
  BY DEF Next
<1>3. ASSUME NEW steps, Enter(p, steps) PROVE UNCHANGED Stream!streamVars
  BY <1>3, StillRefines DEF Enter, bufVars, histVars, SameEnds
<1>4. ASSUME Abort(p) PROVE Stream!Next
  BY <1>1, <1>4, DiesRefines, ZenonT(20) DEF Abort, bufVars, histVars
<1>5. CASE \/ SendData(p) \/ RecvData(p) \/ Flush(p) \/ Sync(p)
           \/ EnableFs(p) \/ Destroy(p) \/ ReadEof(p) \/ Crash(p)
  BY <1>3, <1>4, <1>5, ZenonT(20) DEF SendData, RecvData, Flush, Sync, EnableFs, Destroy,
                          ReadEof, Crash
<1>6. CASE RawReturn(p) \/ FflushReturn(p) \/ StartRead(p)
  <2>1. /\ closed' = closed /\ UNCHANGED <<staging, out, wire, rbuf, rcvd>>
        /\ pc[p] # "dead"
        /\ pc' = [pc EXCEPT ![p] = "idle"] \/ pc' = [pc EXCEPT ![p] = "read"]
    BY <1>6, ZenonT(20) DEF RawReturn, FflushReturn, StartRead, Does, bufVars, histVars
  <2>2. SameEnds
    BY <1>1, <2>1 DEF SameEnds, TypeOK, CallType
  <2>3. QED
    BY <2>1, <2>2, StillRefines
<1>7. CASE WriteError(p)
  <2>1. pc' = pc \/ (pc' = [pc EXCEPT ![p] = "dead"] /\ out' = out)
    BY <1>7, WriteErrorEnds, Zenon
  <2>2. UNCHANGED <<closed, staging, wire, rbuf, rcvd>>
    BY <1>7 DEF WriteError
  <2>3. CASE pc' = pc
    BY <1>1, <1>7, <2>3, LostWriteRefines
  <2>4. CASE pc' = [pc EXCEPT ![p] = "dead"] /\ out' = out
    BY <1>1, <2>2, <2>4, DiesRefines, ZenonT(20)
  <2>5. QED
    BY <2>1, <2>3, <2>4
<1>8. CASE SendDataInternal(p)
  BY <1>1, <1>8, SendDataInternalRefines
<1>9. CASE FlushUnlocked(p) \/ KernelWrite(p)
  BY <1>1, <1>9, WriteRefines
<1>10. CASE ReadKernel(p)
  BY <1>1, <1>10, ReadKernelRefines
<1>11. CASE ReadBuffered(p)
  BY <1>1, <1>11, ReadBufferedRefines
<1>12. CASE CloseSocket(p)
  BY <1>1, <1>12, CloseSocketRefines
<1>13. QED
  BY <1>2, <1>5, <1>6, <1>7, <1>8, <1>9, <1>10, <1>11, <1>12 DEF Move

\* Whatever the two programs call and whenever a process dies, the channel
\* behaves as one FIFO byte stream per direction: the staging buffer, the stream
\* buffer, partial kernel writes and recv_buf are invisible to its callers.
THEOREM StreamRefinement == Spec => ImplementsByteStream
<1>1. Init => Stream!Init
  <2> SUFFICES ASSUME Init PROVE Stream!Init
    OBVIOUS
  <2>1. ASSUME NEW e \in Endpoint
        PROVE  /\ StreamInflight(e[1], e[2]) = <<>>
               /\ rcvd[Peer(e[1]), e[2]] = <<>>
               /\ StreamCut(e[1], e[2]) = FALSE
    <3>1. /\ e[1] \in Party /\ Peer(e[1]) \in Party
          /\ <<e[1], e[2]>> \in Endpoint /\ <<Peer(e[1]), e[2]>> \in Endpoint
      BY EndpointPair, PairEndpoint, PeerType
    <3>2. ~Gone(Peer(e[1]), e[2]) /\ pc[e[1]] # "dead"
      BY <3>1, ZenonT(20) DEF Init, Gone
    <3>3. <<>> \o (<<>> \o (<<>> \o <<>>)) = <<>>
      OBVIOUS
    <3>4. InTransit(e[1], e[2]) = <<>> \o (<<>> \o (<<>> \o <<>>))
      BY <3>1, Zenon DEF Init, InTransit
    <3>5. StreamInflight(e[1], e[2]) = <<>>
      BY <3>2, <3>3, <3>4, Zenon DEF StreamInflight
    <3>6. StreamCut(e[1], e[2]) = FALSE
      BY <3>2 DEF StreamCut
    <3>7. rcvd[Peer(e[1]), e[2]] = <<>>
      BY <3>1, Zenon DEF Init
    <3>8. QED
      BY <3>5, <3>6, <3>7, ZenonT(20)
  <2>2. QED
    BY <2>1, Zenon DEF Stream!Init
<1>2. IInv /\ [Next]_vars => [Stream!Next]_(Stream!streamVars)
  <2> SUFFICES ASSUME IInv, [Next]_vars PROVE [Stream!Next]_(Stream!streamVars)
    OBVIOUS
  <2>1. CASE UNCHANGED vars
    BY <2>1, StillRefines DEF vars, callVars, bufVars, histVars, SameEnds
  <2>2. CASE Next
    BY <2>2, StepRefines
  <2>3. QED
    BY <2>1, <2>2
<1>3. QED
  BY <1>1, <1>2, Invariance, PTL DEF Spec, ImplementsByteStream, Stream!Spec
=============================================================================
