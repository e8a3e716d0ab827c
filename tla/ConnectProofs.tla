---------------------------- MODULE ConnectProofs ----------------------------
(***************************************************************************)
(* Proofs for Connect, for every number of threads, sessions and attempts  *)
(* and every backlog: the threads the server has taken in its session are  *)
(* as many as the accepts it has made, so it is done with a session        *)
(* exactly when every thread has its channel, and takes none of the next   *)
(* before.                                                                 *)
(***************************************************************************)
EXTENDS Connect, FiniteSetTheorems, TLAPS

ConnTypeOK ==
    /\ listening \in BOOLEAN /\ sDead \in BOOLEAN /\ cDead \in BOOLEAN
    /\ queue \in Seq(Ids) /\ accepted \in Ids \cup {None} /\ served \in SUBSET Ids
    /\ made \in Nat /\ sSession \in 0 .. Sessions
    /\ cSession \in Nat \ {0} /\ (Sessions > 0 => cSession <= Sessions)
    /\ net \in [Ids -> {"open", "acked", "reset"}]
    /\ cpc \in [Clients -> {"idle", "connect", "await", "up", "done"}]
    /\ attempt \in [Clients -> Nat] /\ conn \in [Clients -> Ids \cup {None}]

\* A thread with a connection holds the one of its current attempt.
ConnOf(c) ==
    /\ cpc[c] \in {"await", "up"} => conn[c] \in Ids /\ conn[c] = <<c, cSession, attempt[c]>>
    /\ cpc[c] \notin {"await", "up"} => conn[c] = None
    /\ ~cDead => attempt[c] <= MaxRetries

\* A connection the server has still to acknowledge is one its thread waits on.
Waiting(i) == net[i] = "open" /\ cpc[i[1]] = "await" /\ conn[i[1]] = i

\* Each waits once, in the backlog or as the accepted one; and that one is of the
\* server's session.
Backlogged ==
    /\ \A k \in 1 .. Len(queue) : Waiting(queue[k]) /\ queue[k] # accepted
    /\ \A k, l \in 1 .. Len(queue) : queue[k] = queue[l] => k = l
    /\ accepted # None => Waiting(accepted) /\ accepted[2] = sSession

\* The attempts a thread has made in the current session.
Tried(c, a) == IF cpc[c] \in {"await", "up", "done"} THEN a <= attempt[c]
               ELSE cpc[c] = "connect" /\ a < attempt[c]

\* A connection is touched only once it was tried, and acknowledged only in a session
\* the server has reached; a thread makes no further attempt after that.
UsedOnce(i) ==
    /\ net[i] # "open" => i[2] < cSession \/ (i[2] = cSession /\ Tried(i[1], i[3]))
    /\ net[i] = "acked" => i[2] <= sSession
    /\ net[i] = "acked" /\ i[2] = cSession =>
           i[3] = attempt[i[1]] /\ cpc[i[1]] \in {"await", "up", "done"}

\* Thread c got through to the server in session s.
Acked(c, s) == \E i \in Ids : i[1] = c /\ i[2] = s /\ net[i] = "acked"

\* The threads whose connection the server has taken in its session: as many as made.
TakenThreads == {c \in Clients : Acked(c, sSession) \/ (accepted # None /\ accepted[1] = c)}
Counted == ~sDead => made = Cardinality(TakenThreads)

\* A closed listener has nothing left, and is closed by a server that has taken all
\* threads of its session, or is dead.
ListenerInv ==
    /\ ~listening => queue = <<>> /\ accepted = None /\ served = {}
    /\ listening => sSession > 0 /\ ~sDead
    /\ ~listening /\ ~sDead /\ sSession > 0 => TakenThreads = Clients

ServedAcked == \A i \in served : i[2] = sSession /\ net[i] = "acked"

\* Neither process is more than one session ahead, and whoever is ahead has left a session in
\* which every thread got through.
SessionOrder(c) ==
    /\ cSession <= sSession + 1 /\ sSession <= cSession + 1
    /\ cpc[c] \in {"up", "done"} => sSession >= cSession /\ (sDead \/ Acked(c, cSession))
    /\ cSession > sSession /\ sSession > 0 /\ ~sDead => Acked(c, sSession)
    /\ sSession > cSession /\ ~sDead => Acked(c, cSession)

UpAcked(c) == cpc[c] = "up" => net[conn[c]] = "acked" \/ sDead

ConnectInv ==
    /\ ConnTypeOK /\ Backlogged /\ Counted /\ ListenerInv /\ ServedAcked
    /\ \A i \in Ids : UsedOnce(i)
    /\ \A c \in Clients : ConnOf(c) /\ SessionOrder(c) /\ UpAcked(c)

\* A sequence's length and elements.
LEMMA QueueElements ==
    ASSUME NEW S, NEW s \in Seq(S)
    PROVE  Len(s) \in Nat /\ DOMAIN s = 1 .. Len(s) /\ \A k \in 1 .. Len(s) : s[k] \in S
  OBVIOUS

\* What the first element leaves behind.
LEMMA QueueRest ==
    ASSUME NEW S, NEW s \in Seq(S), s # <<>>
    PROVE  /\ Len(s) \in Nat /\ Len(s) > 0 /\ Head(s) = s[1] /\ Head(s) \in S
           /\ Tail(s) \in Seq(S) /\ Len(Tail(s)) = Len(s) - 1
           /\ \A k \in 1 .. Len(Tail(s)) : Tail(s)[k] = s[k + 1]
  OBVIOUS

\* A queue with one more.
LEMMA QueueMore ==
    ASSUME NEW S, NEW s \in Seq(S), NEW x \in S
    PROVE  /\ Append(s, x) \in Seq(S) /\ Len(Append(s, x)) = Len(s) + 1
           /\ Append(s, x)[Len(s) + 1] = x
           /\ \A k \in 1 .. Len(s) : Append(s, x)[k] = s[k]
  OBVIOUS

\* The parts of a connection's name.
LEMMA IdParts ==
    ASSUME NEW i \in Ids
    PROVE  /\ i[1] \in Clients /\ i[2] \in 1 .. Sessions /\ i[3] \in 0 .. MaxRetries
           /\ i = <<i[1], i[2], i[3]>> /\ i # None
  BY ConnectAssumption DEF Ids

\* A name from its parts.
LEMMA MakeId ==
    ASSUME NEW c \in Clients, NEW s \in 1 .. Sessions, NEW a \in 0 .. MaxRetries
    PROVE  /\ <<c, s, a>> \in Ids
           /\ <<c, s, a>>[1] = c /\ <<c, s, a>>[2] = s /\ <<c, s, a>>[3] = a
  BY DEF Ids

\* Before the first session.
LEMMA ConnectInitOK == ConnectInit => ConnectInv
  <1> SUFFICES ASSUME ConnectInit PROVE ConnectInv
    OBVIOUS
  <1> USE DEF ConnectInit
  <1>1. ConnTypeOK
    <2>1. queue \in Seq(Ids) /\ net \in [Ids -> {"open", "acked", "reset"}]
      OBVIOUS
    <2>2. /\ cpc \in [Clients -> {"idle", "connect", "await", "up", "done"}]
          /\ attempt \in [Clients -> Nat] /\ conn \in [Clients -> Ids \cup {None}]
      OBVIOUS
    <2>3. /\ sSession \in 0 .. Sessions
          /\ cSession \in Nat \ {0} /\ (Sessions > 0 => cSession <= Sessions)
      BY ConnectAssumption
    <2> QED
      BY <2>1, <2>2, <2>3, ZenonT(30) DEF ConnTypeOK
  <1>2. \A i \in Ids : net[i] = "open"
    OBVIOUS
  <1>3. \A c, s : ~Acked(c, s)
    BY <1>2 DEF Acked
  <1>4. TakenThreads = {}
    BY <1>3 DEF TakenThreads
  <1>5. Counted
    BY <1>4, FS_EmptySet DEF Counted
  <1>6. Backlogged
    BY DEF Backlogged
  <1>7. ListenerInv /\ ServedAcked
    BY DEF ListenerInv, ServedAcked
  <1>8. \A i \in Ids : UsedOnce(i)
    BY <1>2 DEF UsedOnce
  <1>9. \A c \in Clients : ConnOf(c) /\ SessionOrder(c) /\ UpAcked(c)
    BY ConnectAssumption DEF ConnOf, SessionOrder, UpAcked
  <1> QED
    BY <1>1, <1>5, <1>6, <1>7, <1>8, <1>9 DEF ConnectInv

\* The constructor of the first NetIO of a session: all of the last one is over.
LEMMA OpenListenerOK == ASSUME ConnectInv, OpenListener PROVE ConnectInv'
  <1>1. /\ ConnTypeOK /\ ListenerInv /\ Counted /\ Backlogged /\ ServedAcked
        /\ \A i \in Ids : UsedOnce(i)
        /\ \A c \in Clients : ConnOf(c) /\ SessionOrder(c) /\ UpAcked(c)
    BY DEF ConnectInv
  <1>2. /\ ~sDead /\ ~listening /\ sSession < Sessions /\ listening' = TRUE /\ made' = 0
        /\ sSession' = sSession + 1
        /\ queue' = queue /\ accepted' = accepted /\ served' = served /\ sDead' = sDead
        /\ net' = net /\ cpc' = cpc /\ conn' = conn /\ attempt' = attempt /\ cSession' = cSession
        /\ cDead' = cDead
    BY DEF OpenListener, client
  <1>3. sSession \in Nat /\ cSession \in Nat /\ Sessions \in Nat
    BY <1>1, ConnectAssumption DEF ConnTypeOK
  <1>4. queue = <<>> /\ accepted = None /\ served = {}
    BY <1>1, <1>2 DEF ListenerInv
  <1>5. ConnTypeOK'
    BY <1>1, <1>2, <1>3 DEF ConnTypeOK
  <1>6. Backlogged' /\ ServedAcked'
    BY <1>2, <1>4 DEF Backlogged, ServedAcked
  <1>7. ASSUME NEW i \in Ids PROVE UsedOnce(i)'
    <2>1. i[2] \in Nat /\ UsedOnce(i)
      BY <1>1, IdParts
    <2> QED
      BY <1>2, <1>3, <2>1 DEF UsedOnce, Tried
  <1>8. TakenThreads' = {}
    <2>1. ASSUME NEW i \in Ids, net[i] = "acked" PROVE i[2] # sSession + 1
      BY <1>1, <1>3, <2>1, IdParts DEF UsedOnce
    <2> QED
      BY <1>2, <1>4, <2>1 DEF TakenThreads, Acked
  <1>9. Counted' /\ ListenerInv'
    BY <1>2, <1>3, <1>8, FS_EmptySet DEF Counted, ListenerInv
  <1>10. ASSUME NEW c \in Clients PROVE ConnOf(c)' /\ SessionOrder(c)' /\ UpAcked(c)'
    <2>1. ConnOf(c) /\ SessionOrder(c) /\ UpAcked(c)
      BY <1>1
    <2>2. ConnOf(c)' /\ UpAcked(c)'
      BY <1>2, <2>1 DEF ConnOf, UpAcked
    <2>3. \A s : Acked(c, s)' = Acked(c, s)
      BY <1>2 DEF Acked
    <2>4. sSession > 0 => Acked(c, sSession)
      BY <1>1, <1>2, <1>4 DEF ListenerInv, TakenThreads
    <2>5. SessionOrder(c)'
      <3>1. sSession' > cSession => Acked(c, cSession)
        BY <1>1, <1>2, <1>3, <2>1, <2>4 DEF SessionOrder, ConnTypeOK
      <3>2. ~(cSession > sSession')
        BY <1>2, <1>3, <2>1 DEF SessionOrder
      <3>3. sSession <= cSession
        <4>1. ASSUME NEW i \in Ids, i[2] = sSession, net[i] = "acked" PROVE sSession <= cSession
          <5>1. sSession < cSession \/ sSession = cSession
            BY <1>1, <4>1 DEF UsedOnce
          <5> QED
            BY <1>3, <5>1
        <4>2. cSession \in Nat /\ (sSession = 0 \/ sSession > 0)
          BY <1>1, <1>3 DEF ConnTypeOK
        <4> QED
          BY <1>3, <2>4, <4>1, <4>2 DEF Acked
      <3> QED
        BY <1>1, <1>2, <1>3, <2>1, <2>3, <3>1, <3>2, <3>3 DEF SessionOrder, Acked, ConnTypeOK
    <2> QED
      BY <2>2, <2>5
  <1> QED
    BY <1>5, <1>6, <1>7, <1>9, <1>10 DEF ConnectInv

\* The first connection of the backlog, and the rest of it.
LEMMA HeadOfQueue ==
    ASSUME ConnTypeOK, Backlogged, queue # <<>>
    PROVE  /\ Head(queue) \in Ids /\ Tail(queue) \in Seq(Ids) /\ Waiting(Head(queue))
           /\ \A k \in 1 .. Len(Tail(queue)) :
                 Waiting(Tail(queue)[k]) /\ Tail(queue)[k] # Head(queue)
           /\ \A k, l \in 1 .. Len(Tail(queue)) : Tail(queue)[k] = Tail(queue)[l] => k = l
  <1>1. queue \in Seq(Ids)
    BY DEF ConnTypeOK
  <1>2. /\ Len(queue) \in Nat /\ Len(queue) > 0 /\ Head(queue) = queue[1] /\ Head(queue) \in Ids
        /\ Tail(queue) \in Seq(Ids) /\ Len(Tail(queue)) = Len(queue) - 1
        /\ \A k \in 1 .. Len(Tail(queue)) : Tail(queue)[k] = queue[k + 1]
    BY <1>1, QueueRest
  <1>3. 1 \in 1 .. Len(queue)
    BY <1>2
  <1>4. \A k \in 1 .. Len(Tail(queue)) : k + 1 \in 1 .. Len(queue) /\ k + 1 # 1
    BY <1>2
  <1>5. Waiting(Head(queue))
    BY <1>2, <1>3 DEF Backlogged
  <1>6. ASSUME NEW k \in 1 .. Len(Tail(queue))
        PROVE  Waiting(Tail(queue)[k]) /\ Tail(queue)[k] # Head(queue)
    <2>1. Tail(queue)[k] = queue[k + 1] /\ k + 1 \in 1 .. Len(queue) /\ k + 1 # 1
      BY <1>2, <1>4
    <2>2. Waiting(queue[k + 1]) /\ queue[k + 1] # queue[1]
      BY <1>3, <2>1 DEF Backlogged
    <2> QED
      BY <1>2, <2>1, <2>2
  <1>7. ASSUME NEW k \in 1 .. Len(Tail(queue)), NEW l \in 1 .. Len(Tail(queue)),
               Tail(queue)[k] = Tail(queue)[l]
        PROVE  k = l
    <2>1. queue[k + 1] = queue[l + 1] /\ k + 1 \in 1 .. Len(queue) /\ l + 1 \in 1 .. Len(queue)
      BY <1>2, <1>4, <1>7
    <2>2. k + 1 = l + 1
      BY <2>1 DEF Backlogged
    <2> QED
      BY <1>2, <2>2
  <1> QED
    BY <1>2, <1>5, <1>6, <1>7

\* A thread that waits has not got through in this session.
LEMMA WaitingNotAcked ==
    ASSUME ConnectInv, NEW i \in Ids, Waiting(i)
    PROVE  i[1] \in Clients /\ i[2] = cSession /\ i[3] = attempt[i[1]] /\ ~Acked(i[1], cSession)
  <1>1. i[1] \in Clients /\ i = <<i[1], cSession, attempt[i[1]]>>
    <2>1. i[1] \in Clients
      BY IdParts
    <2>2. ConnOf(i[1])
      BY <2>1 DEF ConnectInv
    <2> QED
      BY <2>1, <2>2 DEF ConnOf, Waiting
  <1>2. i[2] = cSession /\ i[3] = attempt[i[1]]
    <2>1. <<i[1], cSession, attempt[i[1]]>>[2] = cSession
      OBVIOUS
    <2>2. <<i[1], cSession, attempt[i[1]]>>[3] = attempt[i[1]]
      OBVIOUS
    <2> QED
      BY <1>1, <2>1, <2>2, Zenon
  <1>3. ASSUME NEW j \in Ids, j[1] = i[1], j[2] = cSession, net[j] = "acked" PROVE FALSE
    <2>1. UsedOnce(j)
      BY DEF ConnectInv
    <2>2. j[3] = attempt[i[1]]
      BY <1>3, <2>1 DEF UsedOnce
    <2>3. j = <<j[1], j[2], j[3]>>
      BY IdParts
    <2>4. j = i
      BY <1>1, <1>3, <2>2, <2>3, Zenon
    <2> QED
      BY <1>3, <2>4 DEF Waiting
  <1> QED
    BY <1>1, <1>2, <1>3, Zenon DEF Acked

\* accept_one takes a connection of its own session, of a thread it had not taken.
LEMMA AcceptOneOK == ASSUME ConnectInv, AcceptOne PROVE ConnectInv'
  <1>1. /\ ConnTypeOK /\ ListenerInv /\ Counted /\ Backlogged /\ ServedAcked
        /\ \A i \in Ids : UsedOnce(i)
        /\ \A c \in Clients : ConnOf(c) /\ SessionOrder(c) /\ UpAcked(c)
    BY DEF ConnectInv
  <1>2. /\ ~sDead /\ listening /\ accepted = None /\ queue # <<>> /\ made < Cardinality(Clients)
        /\ accepted' = Head(queue) /\ queue' = Tail(queue) /\ made' = made + 1
        /\ listening' = listening /\ served' = served /\ sSession' = sSession /\ sDead' = sDead
        /\ net' = net /\ cpc' = cpc /\ conn' = conn /\ attempt' = attempt /\ cSession' = cSession
        /\ cDead' = cDead
    BY DEF AcceptOne, client
  <1>3. PICK i : i = Head(queue)
    OBVIOUS
  <1>4. /\ i \in Ids /\ i # None /\ Tail(queue) \in Seq(Ids) /\ Waiting(i)
        /\ \A k \in 1 .. Len(Tail(queue)) : Waiting(Tail(queue)[k]) /\ Tail(queue)[k] # i
        /\ \A k, l \in 1 .. Len(Tail(queue)) : Tail(queue)[k] = Tail(queue)[l] => k = l
    BY <1>1, <1>2, <1>3, HeadOfQueue, IdParts
  <1>5. i[1] \in Clients /\ i[2] = cSession /\ ~Acked(i[1], cSession)
    BY <1>4, WaitingNotAcked
  <1>6. sSession \in Nat /\ cSession \in Nat /\ made \in Nat /\ sSession > 0
    BY <1>1, <1>2 DEF ConnTypeOK, ListenerInv
  <1>7. PICK c0 \in Clients : c0 \notin TakenThreads
    <2>1. TakenThreads \subseteq Clients /\ made = Cardinality(TakenThreads)
      BY <1>1, <1>2 DEF TakenThreads, Counted
    <2>2. Cardinality(Clients) \in Nat
      BY ConnectAssumption, FS_CardinalityType
    <2>3. TakenThreads # Clients
      BY <1>2, <1>6, <2>1, <2>2
    <2> QED
      BY <2>1, <2>3
  <1>8. sSession = cSession
    <2>1. ~(cSession > sSession)
      BY <1>1, <1>2, <1>6, <1>7 DEF SessionOrder, TakenThreads
    <2>2. ~(sSession > cSession)
      BY <1>1, <1>2, <1>5, SMTT(30) DEF SessionOrder
    <2> QED
      BY <1>6, <2>1, <2>2
  <1>9. ConnTypeOK'
    BY <1>1, <1>2, <1>3, <1>4, <1>6, SMTT(30) DEF ConnTypeOK
  <1>10. Backlogged'
    BY <1>2, <1>3, <1>4, <1>5, <1>8, SMTT(30) DEF Backlogged, Waiting
  <1>11. ServedAcked' /\ \A j \in Ids : UsedOnce(j)'
    BY <1>1, <1>2, SMTT(30) DEF ServedAcked, UsedOnce, Tried
  <1>12. TakenThreads' = TakenThreads \cup {i[1]} /\ i[1] \notin TakenThreads
    BY <1>2, <1>3, <1>4, <1>5, <1>8 DEF TakenThreads, Acked
  <1>13. Counted'
    <2>1. IsFiniteSet(TakenThreads)
      <3>1. TakenThreads \subseteq Clients
        BY DEF TakenThreads
      <3> QED
        BY <3>1, ConnectAssumption, FS_Subset
    <2>2. Cardinality(TakenThreads \cup {i[1]}) = Cardinality(TakenThreads) + 1
      BY <1>12, <2>1, FS_AddElement, ZenonT(30)
    <2> QED
      BY <1>1, <1>2, <1>12, <2>2 DEF Counted
  <1>14. ListenerInv'
    BY <1>1, <1>2 DEF ListenerInv
  <1>15. ASSUME NEW c \in Clients PROVE ConnOf(c)' /\ SessionOrder(c)' /\ UpAcked(c)'
    BY <1>1, <1>2 DEF ConnOf, SessionOrder, UpAcked, Acked
  <1> QED
    BY <1>9, <1>10, <1>11, <1>13, <1>14, <1>15 DEF ConnectInv

\* The acknowledgement turns the accepted connection into a channel.
LEMMA AcknowledgeOK == ASSUME ConnectInv, Acknowledge PROVE ConnectInv'
  <1>1. /\ ConnTypeOK /\ ListenerInv /\ Counted /\ Backlogged /\ ServedAcked
        /\ \A i \in Ids : UsedOnce(i)
        /\ \A c \in Clients : ConnOf(c) /\ SessionOrder(c) /\ UpAcked(c)
    BY DEF ConnectInv
  <1>2. PICK i : i = accepted
    OBVIOUS
  <1>3. /\ ~sDead /\ i # None /\ net' = [net EXCEPT ![i] = "acked"]
        /\ served' = served \cup {i} /\ accepted' = None
        /\ listening' = listening /\ queue' = queue /\ made' = made /\ sSession' = sSession
        /\ sDead' = sDead /\ cpc' = cpc /\ conn' = conn /\ attempt' = attempt
        /\ cSession' = cSession /\ cDead' = cDead
    BY <1>2, SMTT(30) DEF Acknowledge, client
  <1>4. i \in Ids /\ Waiting(i) /\ i[2] = sSession
    BY <1>1, <1>2, <1>3 DEF ConnTypeOK, Backlogged
  <1>5. i[1] \in Clients /\ i[2] = cSession /\ i[3] = attempt[i[1]]
    BY <1>4, WaitingNotAcked
  <1>6. net'[i] = "acked" /\ \A j \in Ids : j # i => net'[j] = net[j]
    BY <1>1, <1>3, <1>4 DEF ConnTypeOK
  <1>7. ConnTypeOK'
    BY <1>1, <1>3, <1>4, SMTT(30) DEF ConnTypeOK
  <1>8. Backlogged'
    <2>1. \A k \in 1 .. Len(queue) : Waiting(queue[k]) /\ queue[k] # i /\ queue[k] \in Ids
      BY <1>1, <1>2, QueueElements DEF Backlogged, ConnTypeOK
    <2>2. \A k \in 1 .. Len(queue) : Waiting(queue[k])' /\ queue[k] # None
      BY <1>3, <1>6, <2>1, IdParts DEF Waiting
    <2> QED
      BY <1>1, <1>3, <2>2 DEF Backlogged
  <1>9. ServedAcked'
    BY <1>1, <1>3, <1>4, <1>6 DEF ServedAcked, ConnTypeOK
  <1>10. ASSUME NEW j \in Ids PROVE UsedOnce(j)'
    <2>1. UsedOnce(j)
      BY <1>1
    <2>2. CASE j # i
      BY <1>3, <1>6, <2>1, <2>2 DEF UsedOnce, Tried
    <2>3. CASE j = i
      <3>1. cpc[i[1]] = "await" /\ attempt[i[1]] \in Nat /\ sSession \in Nat
        BY <1>1, <1>4, <1>5 DEF Waiting, ConnTypeOK
      <3> QED
        BY <1>3, <1>4, <1>5, <2>3, <3>1 DEF UsedOnce, Tried
    <2> QED
      BY <2>2, <2>3
  <1>11. \A c, s : Acked(c, s)' <=> (Acked(c, s) \/ (c = i[1] /\ s = i[2]))
    BY <1>4, <1>6 DEF Acked, Waiting
  <1>12. TakenThreads' = TakenThreads
    BY <1>2, <1>3, <1>4, <1>5, <1>11 DEF TakenThreads
  <1>13. Counted' /\ ListenerInv'
    BY <1>1, <1>2, <1>3, <1>12 DEF Counted, ListenerInv
  <1>14. ASSUME NEW c \in Clients PROVE ConnOf(c)' /\ SessionOrder(c)' /\ UpAcked(c)'
    <2>1. ConnOf(c) /\ SessionOrder(c) /\ UpAcked(c)
      BY <1>1
    <2>2. ConnOf(c)'
      BY <1>3, <2>1 DEF ConnOf
    <2>3. SessionOrder(c)'
      <3>1. /\ Acked(c, cSession) => Acked(c, cSession)'
            /\ Acked(c, sSession) => Acked(c, sSession)'
        BY <1>3, <1>6 DEF Acked
      <3> QED
        BY <1>3, <2>1, <3>1 DEF SessionOrder
    <2>4. UpAcked(c)'
      BY <1>3, <1>6, <2>1 DEF UpAcked, ConnOf
    <2> QED
      BY <2>2, <2>3, <2>4, SMTT(30)
  <1> QED
    BY <1>7, <1>8, <1>9, <1>10, <1>13, <1>14 DEF ConnectInv

\* What a closing listener resets was still waiting.
LEMMA QueuedWait ==
    ASSUME ConnectInv, NEW j \in Range(queue)
    PROVE  j \in Ids /\ Waiting(j)
  <1>1. queue \in Seq(Ids) /\ \A k \in 1 .. Len(queue) : Waiting(queue[k])
    BY DEF ConnectInv, ConnTypeOK, Backlogged
  <1>2. PICK k \in DOMAIN queue : j = queue[k]
    BY DEF Range
  <1>3. k \in 1 .. Len(queue)
    BY <1>1, <1>2
  <1> QED
    BY <1>1, <1>2, <1>3, QueueElements, SMTT(30)

\* A waiting connection belongs to its thread's latest attempt.
LEMMA WaitingTried ==
    ASSUME ConnectInv, NEW j \in Ids, Waiting(j)
    PROVE  j[2] = cSession /\ Tried(j[1], j[3])
  <1>1. j[1] \in Clients /\ j[2] = cSession /\ j[3] = attempt[j[1]]
    BY WaitingNotAcked
  <1>2. attempt[j[1]] \in Nat
    BY <1>1 DEF ConnectInv, ConnTypeOK
  <1> QED
    BY <1>1, <1>2 DEF Waiting, Tried

\* What the two processes know of each other's sessions stays true of thread d while
\* neither goes on, the acknowledgements stay and d does not get further.
LEMMA OrderKept ==
    ASSUME NEW d, SessionOrder(d), sSession' = sSession, cSession' = cSession, sDead' = sDead,
           \A i \in Ids : net'[i] = "acked" <=> net[i] = "acked",
           cpc'[d] \in {"up", "done"} => cpc[d] \in {"up", "done"}
    PROVE  SessionOrder(d)'
  BY ZenonT(30) DEF SessionOrder, Acked

\* What is known of a connection stays true while it and its thread stay as they are.
LEMMA UsedKept ==
    ASSUME NEW i \in Ids, UsedOnce(i), net'[i] = net[i], sSession' = sSession, cSession' = cSession,
           cpc'[i[1]] = cpc[i[1]], attempt'[i[1]] = attempt[i[1]]
    PROVE  UsedOnce(i)'
  BY ZenonT(30) DEF UsedOnce, Tried

\* And so does what is known of a thread.
LEMMA ConnKept ==
    ASSUME NEW d, ConnOf(d), UpAcked(d), cpc'[d] = cpc[d], conn'[d] = conn[d], attempt'[d] = attempt[d],
           cSession' = cSession, cDead' = cDead, sDead' = sDead, net' = net
    PROVE  ConnOf(d)' /\ UpAcked(d)'
  BY ZenonT(30) DEF ConnOf, UpAcked

\* The last channel to go closes the listener once every thread has been taken.
LEMMA DestroyOK == ASSUME ConnectInv, NEW i \in served, Destroy(i) PROVE ConnectInv'
  <1>1. /\ ConnTypeOK /\ ListenerInv /\ Counted /\ Backlogged /\ ServedAcked
        /\ \A j \in Ids : UsedOnce(j)
        /\ \A c \in Clients : ConnOf(c) /\ SessionOrder(c) /\ UpAcked(c)
    BY DEF ConnectInv
  <1>2. /\ ~sDead /\ accepted = None /\ served' = served \ {i}
        /\ accepted' = accepted /\ made' = made /\ sSession' = sSession /\ sDead' = sDead
        /\ cpc' = cpc /\ conn' = conn /\ attempt' = attempt /\ cSession' = cSession
        /\ cDead' = cDead
    BY DEF Destroy, client
  <1>3. CASE served = {i}
    <2>1. /\ made = Cardinality(Clients) /\ listening' = FALSE /\ queue' = <<>> /\ served' = {}
          /\ net' = [j \in Ids |-> IF j \in Range(queue) THEN "reset" ELSE net[j]]
      BY <1>2, <1>3 DEF Destroy, Reset
    <2>2. \A j \in Ids : net'[j] = "acked" <=> net[j] = "acked"
      BY <2>1, QueuedWait DEF Waiting
    <2>3. ConnTypeOK'
      <3>1. net' \in [Ids -> {"open", "acked", "reset"}]
        BY <1>1, <2>1 DEF ConnTypeOK
      <3>2. queue' \in Seq(Ids)
        BY <2>1
      <3>3. listening' \in BOOLEAN /\ served' \in SUBSET Ids
        BY <2>1, ZenonT(30)
      <3> QED
        BY <1>1, <1>2, <3>1, <3>2, <3>3 DEF ConnTypeOK
    <2>4. Backlogged'
      <3>1. queue' = <<>> /\ Len(queue') = 0
        BY <2>1
      <3> QED
        BY <1>2, <3>1 DEF Backlogged
    <2>5. ServedAcked'
      BY <2>1 DEF ServedAcked
    <2>6. ASSUME NEW j \in Ids PROVE UsedOnce(j)'
      <3>1. CASE j \in Range(queue)
        <4>1. j[2] = cSession /\ Tried(j[1], j[3])
          BY <3>1, QueuedWait, WaitingTried
        <4>2. net'[j] = "reset"
          BY <2>1, <3>1, SMTT(30)
        <4> QED
          BY <1>2, <4>1, <4>2 DEF UsedOnce, Tried
      <3>2. CASE j \notin Range(queue)
        <4>1. net'[j] = net[j] /\ UsedOnce(j)
          BY <1>1, <2>1, <3>2, SMTT(30)
        <4> QED
          BY <1>2, <4>1 DEF UsedOnce, Tried
      <3> QED
        BY <3>1, <3>2
    <2>7. TakenThreads' = TakenThreads
      BY <1>2, <2>2 DEF TakenThreads, Acked
    <2>8. TakenThreads = Clients
      <3>1. TakenThreads \in SUBSET Clients /\ IsFiniteSet(Clients)
        BY ConnectAssumption DEF TakenThreads
      <3>2. Cardinality(Clients) = Cardinality(TakenThreads)
        BY <1>1, <1>2, <2>1 DEF Counted
      <3> QED
        BY <3>1, <3>2, FS_Subset
    <2>9. Counted'
      BY <1>1, <1>2, <2>7 DEF Counted
    <2>10. ListenerInv'
      BY <1>2, <2>1, <2>7, <2>8 DEF ListenerInv
    <2>11. ASSUME NEW c \in Clients PROVE ConnOf(c)' /\ SessionOrder(c)' /\ UpAcked(c)'
      <3>1. ConnOf(c)'
        BY <1>1, <1>2, SMTT(30) DEF ConnOf
      <3>2. SessionOrder(c)'
        BY <1>1, <1>2, <2>2, OrderKept, Zenon
      <3>3. UpAcked(c)'
        BY <1>1, <1>2, <2>2 DEF UpAcked, ConnOf
      <3> QED
        BY <3>1, <3>2, <3>3, SMTT(30)
    <2> QED
      BY <2>3, <2>4, <2>5, <2>6, <2>9, <2>10, <2>11 DEF ConnectInv
  <1>4. CASE served # {i}
    <2>1. listening' = listening /\ queue' = queue /\ net' = net
      BY <1>4, SMTT(30) DEF Destroy
    <2>2. ConnTypeOK' /\ Backlogged' /\ Counted' /\ ServedAcked'
      <3>1. ConnTypeOK'
        BY <1>1, <1>2, <2>1, SMTT(30) DEF ConnTypeOK
      <3>2. Backlogged'
        BY <1>1, <1>2, <2>1, SMTT(30) DEF Backlogged, Waiting
      <3>3. Counted' /\ ServedAcked'
        <4>1. TakenThreads' = TakenThreads
          BY <1>2, <2>1, Zenon DEF TakenThreads, Acked
        <4>2. Counted /\ ServedAcked
          BY <1>1, Zenon
        <4> QED
          BY <1>2, <2>1, <4>1, <4>2, ZenonT(30) DEF Counted, ServedAcked
      <3> QED
        BY <3>1, <3>2, <3>3
    <2>3. ListenerInv'
      BY <1>1, <1>2, <2>1, ZenonT(30) DEF ListenerInv, TakenThreads, Acked
    <2>4. ASSUME NEW j \in Ids PROVE UsedOnce(j)'
      BY <1>1, <1>2, <2>1, UsedKept, Zenon
    <2>5. ASSUME NEW c \in Clients PROVE ConnOf(c)' /\ SessionOrder(c)' /\ UpAcked(c)'
      <3>1. ConnOf(c) /\ SessionOrder(c) /\ UpAcked(c)
        BY <1>1, Zenon
      <3>2. SessionOrder(c)'
        BY <1>2, <2>1, <3>1, OrderKept, Zenon
      <3> QED
        BY <1>2, <2>1, <3>1, <3>2, ConnKept, Zenon
    <2> QED
      BY <2>2, <2>3, <2>4, <2>5 DEF ConnectInv
  <1> QED
    BY <1>3, <1>4

\* A crash resets what the process had, and leaves it for good.
LEMMA CrashOK == ASSUME ConnectInv, Crash PROVE ConnectInv'
  <1>1. /\ ConnTypeOK /\ Backlogged /\ ServedAcked
        /\ \A j \in Ids : UsedOnce(j)
        /\ \A c \in Clients : ConnOf(c) /\ SessionOrder(c) /\ UpAcked(c)
    BY DEF ConnectInv
  <1>2. /\ sDead' = TRUE /\ listening' = FALSE /\ queue' = <<>> /\ accepted' = None /\ served' = {}
        /\ net' = [j \in Ids |-> IF j \in Range(queue) \cup {accepted} \cup served THEN "reset" ELSE net[j]]
        /\ made' = made /\ sSession' = sSession /\ cpc' = cpc /\ conn' = conn /\ attempt' = attempt
        /\ cSession' = cSession /\ cDead' = cDead
    BY DEF Crash, Reset, client
  <1>3. ConnTypeOK'
    <2>1. net' \in [Ids -> {"open", "acked", "reset"}]
      BY <1>1, <1>2 DEF ConnTypeOK
    <2>2. queue' \in Seq(Ids)
      BY <1>2
    <2>3. listening' \in BOOLEAN /\ sDead' \in BOOLEAN /\ served' \in SUBSET Ids /\ accepted' \in Ids \cup {None}
      BY <1>2, ZenonT(30)
    <2> QED
      BY <1>1, <1>2, <2>1, <2>2, <2>3 DEF ConnTypeOK
  <1>4. Backlogged'
    <2>1. queue' = <<>> /\ Len(queue') = 0
      BY <1>2
    <2> QED
      BY <1>2, <2>1 DEF Backlogged
  <1>5. ServedAcked' /\ Counted'
    BY <1>2 DEF ServedAcked, Counted
  <1>6. ListenerInv'
    BY <1>2 DEF ListenerInv
  <1>7. ASSUME NEW j \in Ids PROVE UsedOnce(j)'
    <2>1. j # None /\ UsedOnce(j)
      BY <1>1, IdParts, SMTT(30)
    <2>2. CASE j \in Range(queue) \cup {accepted}
      <3>1. Waiting(j)
        BY <1>1, <2>1, <2>2, QueuedWait DEF Backlogged
      <3>2. j[2] = cSession /\ Tried(j[1], j[3])
        BY <3>1, WaitingTried
      <3>3. net'[j] = "reset"
        BY <1>2, <2>2, SMTT(30)
      <3> QED
        BY <1>2, <3>2, <3>3, SMTT(30) DEF UsedOnce, Tried
    <2>3. CASE j \in served
      <3>1. net[j] = "acked" /\ net'[j] = "reset"
        BY <1>1, <1>2, <2>3, SMTT(30) DEF ServedAcked
      <3> QED
        BY <1>2, <2>1, <3>1, SMTT(30) DEF UsedOnce, Tried
    <2>4. CASE j \notin Range(queue) \cup {accepted} \cup served
      <3>1. net'[j] = net[j]
        BY <1>2, <2>4, SMTT(30)
      <3> QED
        BY <1>2, <2>1, <3>1 DEF UsedOnce, Tried
    <2> QED
      BY <2>2, <2>3, <2>4
  <1>8. ASSUME NEW c \in Clients PROVE ConnOf(c)' /\ SessionOrder(c)' /\ UpAcked(c)'
    <2>1. ConnOf(c) /\ SessionOrder(c)
      BY <1>1, Zenon
    <2>2. ConnOf(c)'
      BY <1>2, <2>1, ZenonT(30) DEF ConnOf
    <2>3. UpAcked(c)'
      BY <1>2, Zenon DEF UpAcked
    <2>4. SessionOrder(c)'
      BY <1>2, <2>1, ZenonT(30) DEF SessionOrder
    <2> QED
      BY <2>2, <2>3, <2>4
  <1> QED
    BY <1>3, <1>4, <1>5, <1>6, <1>7, <1>8 DEF ConnectInv

\* A client step leaves the server, and what it counts, alone.
LEMMA ClientStep ==
    ASSUME ConnectInv, server' = server, net' = net, cSession' = cSession
    PROVE  /\ Counted' /\ ServedAcked' /\ (queue' = queue => ListenerInv')
           /\ \A c, s : Acked(c, s)' <=> Acked(c, s)
  BY DEF ConnectInv, server, Counted, TakenThreads, Acked, ServedAcked, ListenerInv

\* A step of thread c leaves the connections of the others waiting.
LEMMA OthersWait ==
    ASSUME ConnectInv, NEW c \in Clients, server' = server, net' = net,
           \A d \in Clients \ {c} : cpc'[d] = cpc[d] /\ conn'[d] = conn[d],
           \A i \in Ids : Waiting(i) => i[1] # c
    PROVE  /\ \A i \in Ids : Waiting(i) => Waiting(i)'
           /\ queue' = queue => Backlogged'
  <1>1. \A i \in Ids : Waiting(i) => Waiting(i)'
    BY IdParts, SMTT(30) DEF Waiting
  <1>2. ASSUME queue' = queue PROVE Backlogged'
    <2>1. Backlogged /\ queue \in Seq(Ids) /\ accepted \in Ids \cup {None}
      BY ZenonT(30) DEF ConnectInv, ConnTypeOK
    <2>2. \A k \in 1 .. Len(queue) : queue[k] \in Ids
      BY <2>1, QueueElements, ZenonT(30)
    <2>3. accepted' = accepted /\ sSession' = sSession
      BY ZenonT(30) DEF server
    <2>4. \A k \in 1 .. Len(queue) : Waiting(queue[k])' /\ queue[k] # accepted
      BY <1>1, <1>2, <2>1, <2>2, ZenonT(30) DEF Backlogged, Waiting
    <2>5. accepted # None => Waiting(accepted)' /\ accepted[2] = sSession
      BY <1>1, <2>1, <2>3, SMTT(30) DEF Backlogged, Waiting
    <2>6. \A k, l \in 1 .. Len(queue) : queue[k] = queue[l] => k = l
      BY <2>1 DEF Backlogged
    <2> QED
      BY <1>2, <2>3, <2>4, <2>5, <2>6, SMTT(30) DEF Backlogged, Waiting
  <1> QED
    BY <1>1, <1>2

\* The constructor begins.
LEMMA StartOK == ASSUME ConnectInv, NEW c \in Clients, Start(c) PROVE ConnectInv'
  <1>1. /\ ConnTypeOK /\ \A i \in Ids : UsedOnce(i)
        /\ \A d \in Clients : ConnOf(d) /\ SessionOrder(d) /\ UpAcked(d)
    BY DEF ConnectInv
  <1>2. /\ cpc[c] = "idle" /\ cpc' = [cpc EXCEPT ![c] = "connect"]
        /\ attempt' = [attempt EXCEPT ![c] = 0]
        /\ server' = server /\ queue' = queue /\ net' = net /\ conn' = conn /\ cSession' = cSession
        /\ cDead' = cDead
        /\ listening' = listening /\ accepted' = accepted /\ served' = served /\ made' = made
        /\ sSession' = sSession /\ sDead' = sDead
    BY DEF Start, server
  <1>3. /\ cpc'[c] = "connect" /\ attempt'[c] = 0
        /\ \A d \in Clients \ {c} : cpc'[d] = cpc[d] /\ attempt'[d] = attempt[d]
    BY <1>1, <1>2 DEF ConnTypeOK
  <1>4. ConnTypeOK'
    BY <1>1, <1>2 DEF ConnTypeOK
  <1>5. Counted' /\ ServedAcked' /\ ListenerInv' /\ \A d, s : Acked(d, s)' <=> Acked(d, s)
    BY <1>2, ClientStep, SMTT(30)
  <1>6. Backlogged'
    BY <1>2, <1>3, OthersWait, SMTT(30) DEF Waiting
  <1>7. ASSUME NEW i \in Ids PROVE UsedOnce(i)'
    <2>1. UsedOnce(i) /\ i[1] \in Clients /\ i[3] \in Nat
      BY <1>1, IdParts
    <2> QED
      BY <1>2, <1>3, <2>1 DEF UsedOnce, Tried
  <1>8. ASSUME NEW d \in Clients PROVE ConnOf(d)' /\ SessionOrder(d)' /\ UpAcked(d)'
    <2>1. ConnOf(d) /\ SessionOrder(d) /\ UpAcked(d)
      BY <1>1, Zenon
    <2>2. ConnOf(d)' /\ UpAcked(d)'
      BY <1>2, <1>3, <2>1, ConnectAssumption, SMTT(30) DEF ConnOf, UpAcked
    <2>3. SessionOrder(d)'
      <3>1. cpc'[d] \in {"up", "done"} => cpc[d] \in {"up", "done"}
        BY <1>3
      <3> QED
        BY <1>2, <2>1, <3>1, OrderKept, Zenon
    <2> QED
      BY <2>2, <2>3
  <1> QED
    BY <1>4, <1>5, <1>6, <1>7, <1>8 DEF ConnectInv

\* ~NetIO at the client.
LEMMA FinishOK == ASSUME ConnectInv, NEW c \in Clients, Finish(c) PROVE ConnectInv'
  <1>1. /\ ConnTypeOK /\ \A i \in Ids : UsedOnce(i)
        /\ \A d \in Clients : ConnOf(d) /\ SessionOrder(d) /\ UpAcked(d)
    BY DEF ConnectInv
  <1>2. /\ cpc[c] = "up" /\ cpc' = [cpc EXCEPT ![c] = "done"]
        /\ conn' = [conn EXCEPT ![c] = None]
        /\ server' = server /\ queue' = queue /\ net' = net /\ attempt' = attempt
        /\ cSession' = cSession /\ cDead' = cDead
        /\ listening' = listening /\ accepted' = accepted /\ served' = served /\ made' = made
        /\ sSession' = sSession /\ sDead' = sDead
    BY DEF Finish, server
  <1>3. /\ cpc'[c] = "done" /\ conn'[c] = None
        /\ \A d \in Clients \ {c} : cpc'[d] = cpc[d] /\ conn'[d] = conn[d]
    BY <1>1, <1>2 DEF ConnTypeOK
  <1>4. ConnTypeOK'
    BY <1>1, <1>2 DEF ConnTypeOK
  <1>5. Counted' /\ ServedAcked' /\ ListenerInv' /\ \A d, s : Acked(d, s)' <=> Acked(d, s)
    BY <1>2, ClientStep, SMTT(30)
  <1>6. Backlogged'
    BY <1>2, <1>3, OthersWait, SMTT(30) DEF Waiting
  <1>7. ASSUME NEW i \in Ids PROVE UsedOnce(i)'
    <2>1. UsedOnce(i) /\ i[1] \in Clients /\ i[3] \in Nat
      BY <1>1, IdParts
    <2> QED
      BY <1>2, <1>3, <2>1, SMTT(30) DEF UsedOnce, Tried
  <1>8. ASSUME NEW d \in Clients PROVE ConnOf(d)' /\ SessionOrder(d)' /\ UpAcked(d)'
    <2>1. ConnOf(d) /\ SessionOrder(d) /\ UpAcked(d)
      BY <1>1
    <2>2. ConnOf(d)' /\ UpAcked(d)'
      BY <1>2, <1>3, <2>1, SMTT(30) DEF ConnOf, UpAcked
    <2>3. SessionOrder(d)'
      BY <1>2, <1>3, <1>5, <2>1, ZenonT(30) DEF SessionOrder, Acked
    <2> QED
      BY <2>2, <2>3
  <1> QED
    BY <1>4, <1>5, <1>6, <1>7, <1>8 DEF ConnectInv

\* A failed attempt is given up and counted: its connection is nobody's any more.
LEMMA RetryOK ==
    ASSUME ConnectInv, NEW c \in Clients, ~cDead, Retry(c),
           server' = server, queue' = queue, net' = net, cSession' = cSession,
           cpc[c] = "connect" \/ (cpc[c] = "await" /\ net[conn[c]] = "reset")
    PROVE  ConnectInv'
  <1>1. /\ ConnTypeOK /\ \A i \in Ids : UsedOnce(i)
        /\ \A d \in Clients : ConnOf(d) /\ SessionOrder(d) /\ UpAcked(d)
    BY ZenonT(30) DEF ConnectInv
  <1>2. /\ attempt' = [attempt EXCEPT ![c] = @ + 1] /\ cpc' = [cpc EXCEPT ![c] = "connect"]
        /\ conn' = [conn EXCEPT ![c] = None] /\ cDead' = (attempt[c] + 1 >= MaxRetries)
        /\ listening' = listening /\ accepted' = accepted /\ served' = served /\ made' = made
        /\ sSession' = sSession /\ sDead' = sDead
    BY SMTT(30) DEF Retry, server
  <1>3. /\ cpc'[c] = "connect" /\ conn'[c] = None /\ attempt'[c] = attempt[c] + 1 /\ attempt[c] \in Nat
        /\ \A d \in Clients \ {c} : cpc'[d] = cpc[d] /\ conn'[d] = conn[d] /\ attempt'[d] = attempt[d]
    BY <1>1, <1>2, SMTT(30) DEF ConnTypeOK
  <1>4. ConnTypeOK'
    <2>1. cDead' \in BOOLEAN
      BY <1>2
    <2>2. attempt' \in [Clients -> Nat]
      BY <1>1, <1>2, SMTT(30) DEF ConnTypeOK
    <2> QED
      BY <1>1, <1>2, <2>1, <2>2 DEF ConnTypeOK
  <1>5. Counted' /\ ServedAcked' /\ ListenerInv' /\ \A d, s : Acked(d, s)' <=> Acked(d, s)
    BY ClientStep, SMTT(30)
  <1>6. Backlogged'
    BY <1>3, OthersWait DEF Waiting
  <1>7. ASSUME NEW i \in Ids PROVE UsedOnce(i)'
    <2>1. UsedOnce(i) /\ i[1] \in Clients /\ i[3] \in Nat /\ i = <<i[1], i[2], i[3]>>
      BY <1>1, IdParts, SMTT(30)
    <2>2. CASE i[1] # c
      BY <1>2, <1>3, <2>1, <2>2, SMTT(30) DEF UsedOnce, Tried
    <2>3. CASE i[1] = c
      <3>1. net[i] = "acked" => i[2] # cSession
        <4>1. SUFFICES ASSUME net[i] = "acked", i[2] = cSession PROVE FALSE
          OBVIOUS
        <4>2. i[3] = attempt[c] /\ cpc[c] = "await" /\ net[conn[c]] = "reset"
          BY <2>1, <2>3, <4>1, SMTT(30) DEF UsedOnce
        <4>3. conn[c] = <<c, cSession, attempt[c]>>
          BY <1>1, <4>2 DEF ConnOf
        <4>4. conn[c] = i
          BY <2>1, <2>3, <4>1, <4>2, <4>3, Zenon
        <4> QED
          BY <4>1, <4>2, <4>4, SMTT(30)
      <3>2. Tried(i[1], i[3]) => Tried(i[1], i[3])'
        BY <1>3, <2>1, <2>3, SMTT(30) DEF Tried
      <3> QED
        BY <1>2, <2>1, <3>1, <3>2, SMTT(30) DEF UsedOnce
    <2> QED
      BY <2>2, <2>3, SMTT(30)
  <1>8. ASSUME NEW d \in Clients PROVE ConnOf(d)' /\ SessionOrder(d)' /\ UpAcked(d)'
    <2>1. ConnOf(d) /\ SessionOrder(d) /\ UpAcked(d)
      BY <1>1
    <2>2. ConnOf(d)' /\ UpAcked(d)'
      <3>1. CASE d = c
        <4>1. ~cDead' => attempt[c] + 1 <= MaxRetries
          <5>1. ~cDead' => ~(attempt[c] + 1 >= MaxRetries)
            BY <1>2, ZenonT(30)
          <5>2. attempt[c] \in Nat /\ MaxRetries \in Nat
            BY <1>3, ConnectAssumption
          <5>3. ~(attempt[c] + 1 >= MaxRetries) => attempt[c] + 1 <= MaxRetries
            BY <5>2, SMTT(30)
          <5> QED
            BY <5>1, <5>3, Zenon
        <4> QED
          BY <1>3, <3>1, <4>1 DEF ConnOf, UpAcked
      <3>2. CASE d # c
        BY <1>2, <1>3, <2>1, <3>2, ZenonT(30) DEF ConnOf, UpAcked
      <3> QED
        BY <3>1, <3>2, SMTT(30)
    <2>3. SessionOrder(d)'
      <3>1. cpc'[d] \in {"up", "done"} => cpc[d] \in {"up", "done"}
        BY <1>3
      <3> QED
        BY <1>2, <2>1, <3>1, OrderKept, Zenon
    <2> QED
      BY <2>2, <2>3
  <1> QED
    BY <1>4, <1>5, <1>6, <1>7, <1>8, ZenonT(30) DEF ConnectInv

\* A completed handshake waits in the backlog under a name never used before.
LEMMA TcpConnectOK == ASSUME ConnectInv, NEW c \in Clients, TcpConnect(c) PROVE ConnectInv'
  <1>1. /\ ConnTypeOK /\ \A i \in Ids : UsedOnce(i)
        /\ \A d \in Clients : ConnOf(d) /\ SessionOrder(d) /\ UpAcked(d)
    BY DEF ConnectInv
  <1>2. /\ ~cDead /\ cpc[c] = "connect"
        /\ server' = server /\ net' = net /\ cSession' = cSession
        /\ listening' = listening /\ accepted' = accepted /\ served' = served /\ made' = made
        /\ sSession' = sSession /\ sDead' = sDead
    BY SMTT(30) DEF TcpConnect, server
  <1>3. CASE ~listening
    BY <1>2, <1>3, RetryOK, ZenonT(30) DEF TcpConnect
  <1>4. CASE listening
    <2>1. PICK i : i = <<c, cSession, attempt[c]>>
      BY ZenonT(30)
    <2>2. /\ queue' = (IF Len(queue) < Backlog THEN Append(queue, i) ELSE queue)
          /\ conn' = [conn EXCEPT ![c] = i] /\ cpc' = [cpc EXCEPT ![c] = "await"]
          /\ attempt' = attempt /\ cDead' = cDead
      BY <1>4, <2>1 DEF TcpConnect
    <2>3. i \in Ids /\ i[1] = c /\ i[2] = cSession /\ i[3] = attempt[c]
      <3>1. cSession \in 1 .. Sessions /\ attempt[c] \in 0 .. MaxRetries
        BY <1>1, <1>2, <1>4, ConnectAssumption, SMTT(30) DEF ConnTypeOK, ListenerInv, ConnectInv, ConnOf
      <3> QED
        BY <2>1, <3>1, MakeId
    <2>4. net[i] = "open"
      <3>1. UsedOnce(i) /\ cSession \in Nat /\ attempt[c] \in Nat /\ net[i] \in {"open", "acked", "reset"}
        BY <1>1, <2>3 DEF ConnTypeOK
      <3> QED
        BY <1>2, <2>3, <3>1 DEF UsedOnce, Tried
    <2>5. /\ cpc'[c] = "await" /\ conn'[c] = i
          /\ \A d \in Clients \ {c} : cpc'[d] = cpc[d] /\ conn'[d] = conn[d]
      BY <1>1, <2>2, SMTT(30) DEF ConnTypeOK
    <2>6. queue \in Seq(Ids) /\ queue' \in Seq(Ids)
      BY <1>1, <2>2, <2>3, QueueMore, SMTT(30) DEF ConnTypeOK
    <2>7. ConnTypeOK'
      <3>1. conn' \in [Clients -> Ids \cup {None}] /\ cpc' \in [Clients -> {"idle", "connect", "await", "up", "done"}]
        BY <1>1, <2>2, <2>3 DEF ConnTypeOK
      <3> QED
        BY <1>1, <1>2, <2>2, <2>6, <3>1, SMTT(30) DEF ConnTypeOK
    <2>8. Counted' /\ ServedAcked' /\ \A d, s : Acked(d, s)' <=> Acked(d, s)
      BY <1>2, ClientStep
    <2>9. ListenerInv'
      BY <1>2, <1>4, SMTT(30) DEF ListenerInv, ConnectInv
    <2>10. \A j \in Ids : Waiting(j) => j[1] # c /\ j # i /\ Waiting(j)'
      <3>1. \A j \in Ids : Waiting(j) => j[1] # c
        BY <1>2 DEF Waiting
      <3> QED
        BY <1>2, <2>3, <2>5, <3>1, OthersWait
    <2>11. Backlogged'
      <3>1. Backlogged /\ accepted \in Ids \cup {None}
        BY <1>1 DEF ConnectInv, ConnTypeOK
      <3>2. CASE ~(Len(queue) < Backlog)
        BY <1>2, <2>2, <2>5, <2>10, <3>2, OthersWait, SMTT(30)
      <3>3. CASE Len(queue) < Backlog
        <4>0. \A k \in 1 .. Len(queue) : Waiting(queue[k])
          BY <3>1, Zenon DEF Backlogged
        <4>1. /\ queue' = Append(queue, i) /\ Len(queue) \in Nat /\ Len(queue') = Len(queue) + 1
              /\ queue'[Len(queue) + 1] = i
              /\ \A k \in 1 .. Len(queue) : queue'[k] = queue[k]
          BY <2>2, <2>3, <2>6, <3>3, QueueMore, QueueElements
        <4>2. \A k \in 1 .. Len(queue) : queue[k] \in Ids
          BY <2>6, QueueElements, SMTT(30)
        <4>3. Waiting(i)'
          BY <1>2, <2>3, <2>4, <2>5, ZenonT(30) DEF Waiting
        <4>4. \A k \in 1 .. Len(queue) : queue'[k] # i /\ queue'[k] # accepted
          BY <2>10, <3>1, <4>1, <4>2, ZenonT(30) DEF Backlogged
        <4>5. i # accepted
          BY <2>3, <2>10, <3>1, IdParts, SMTT(30) DEF Backlogged
        <4>6. \A k \in 1 .. Len(queue) : /\ net'[queue'[k]] = "open" /\ cpc'[queue'[k][1]] = "await"
                                         /\ conn'[queue'[k][1]] = queue'[k]
          <5> SUFFICES ASSUME NEW k \in 1 .. Len(queue)
                       PROVE  /\ net'[queue'[k]] = "open" /\ cpc'[queue'[k][1]] = "await"
                              /\ conn'[queue'[k][1]] = queue'[k]
            BY Zenon
          <5>1. PICK j : j = queue[k]
            OBVIOUS
          <5>2. queue'[k] = j /\ j \in Ids /\ Waiting(j)
            BY <4>0, <4>1, <4>2, <5>1, Zenon
          <5>3. Waiting(j)'
            BY <2>10, <5>2, Zenon
          <5> QED
            BY <5>2, <5>3, Zenon DEF Waiting
        <4>7. \A k \in 1 .. Len(queue') : k \in 1 .. Len(queue) \/ k = Len(queue) + 1
          BY <4>1, SMTT(30)
        <4>8. \A k \in 1 .. Len(queue') : /\ net'[queue'[k]] = "open" /\ cpc'[queue'[k][1]] = "await"
                                          /\ conn'[queue'[k][1]] = queue'[k] /\ queue'[k] # accepted
          BY <4>1, <4>3, <4>4, <4>5, <4>6, <4>7, SMTT(30) DEF Waiting
        <4>9. \A k, l \in 1 .. Len(queue') : queue'[k] = queue'[l] => k = l
          BY <3>1, <4>1, <4>4, <4>7, SMTT(30) DEF Backlogged
        <4>10. accepted # None =>
                  /\ net'[accepted] = "open" /\ cpc'[accepted[1]] = "await"
                  /\ conn'[accepted[1]] = accepted /\ accepted[2] = sSession
          BY <1>2, <2>10, <3>1, SMTT(30) DEF Backlogged, Waiting
        <4> QED
          BY <1>2, <4>8, <4>9, <4>10, SMTT(30) DEF Backlogged, Waiting
      <3> QED
        BY <3>2, <3>3
    <2>12. ASSUME NEW j \in Ids PROVE UsedOnce(j)'
      <3>1. UsedOnce(j) /\ j[1] \in Clients
        BY <1>1, IdParts, Zenon
      <3>2. j[3] \in Nat /\ attempt[c] \in Nat
        BY <1>1, IdParts DEF ConnTypeOK
      <3>3. CASE j[1] # c
        <4>1. cpc'[j[1]] = cpc[j[1]]
          BY <2>5, <3>1, <3>3, ZenonT(30)
        <4> QED
          BY <1>2, <2>2, <3>1, <4>1, UsedKept, ZenonT(30)
      <3>4. CASE j[1] = c
        BY <1>2, <2>2, <2>5, <3>1, <3>2, <3>4 DEF UsedOnce, Tried
      <3> QED
        BY <3>3, <3>4
    <2>13. ASSUME NEW d \in Clients PROVE ConnOf(d)' /\ SessionOrder(d)' /\ UpAcked(d)'
      <3>1. ConnOf(d) /\ SessionOrder(d) /\ UpAcked(d)
        BY <1>1, Zenon
      <3>2. ConnOf(d)' /\ UpAcked(d)'
        BY <1>2, <2>1, <2>2, <2>3, <2>5, <3>1, SMTT(30) DEF ConnOf, UpAcked
      <3>3. SessionOrder(d)'
        <4>1. cpc'[d] \in {"up", "done"} => cpc[d] \in {"up", "done"}
          BY <2>5, ZenonT(30)
        <4> QED
          BY <1>2, <3>1, <4>1, OrderKept, Zenon
      <3> QED
        BY <3>2, <3>3
    <2> QED
      BY <2>7, <2>8, <2>9, <2>11, <2>12, <2>13 DEF ConnectInv
  <1> QED
    BY <1>3, <1>4

\* The acknowledgement, or the end of a reset connection.
LEMMA RecvAckOK == ASSUME ConnectInv, NEW c \in Clients, RecvAck(c) PROVE ConnectInv'
  <1>1. /\ ConnTypeOK /\ \A i \in Ids : UsedOnce(i)
        /\ \A d \in Clients : ConnOf(d) /\ SessionOrder(d) /\ UpAcked(d)
    BY DEF ConnectInv
  <1>2. /\ ~cDead /\ cpc[c] = "await"
        /\ server' = server /\ queue' = queue /\ net' = net /\ cSession' = cSession
        /\ listening' = listening /\ accepted' = accepted /\ served' = served /\ made' = made
        /\ sSession' = sSession /\ sDead' = sDead
    BY DEF RecvAck, server
  <1>3. CASE net[conn[c]] = "reset" /\ Retry(c)
    BY <1>2, <1>3, RetryOK
  <1>4. CASE /\ net[conn[c]] = "acked" /\ cpc' = [cpc EXCEPT ![c] = "up"]
             /\ conn' = conn /\ attempt' = attempt /\ cDead' = cDead
    <2>1. PICK i \in Ids : i = conn[c] /\ i = <<c, cSession, attempt[c]>>
      BY <1>1, <1>2 DEF ConnOf
    <2>2. i[1] = c /\ i[2] = cSession /\ net[i] = "acked"
      <3>1. <<c, cSession, attempt[c]>>[1] = c /\ <<c, cSession, attempt[c]>>[2] = cSession
        OBVIOUS
      <3> QED
        BY <1>4, <2>1, <3>1, Zenon
    <2>3. /\ cpc'[c] = "up"
          /\ \A d \in Clients \ {c} : cpc'[d] = cpc[d]
      BY <1>1, <1>4, SMTT(30) DEF ConnTypeOK
    <2>4. ConnTypeOK'
      BY <1>1, <1>2, <1>4 DEF ConnTypeOK
    <2>5. Counted' /\ ServedAcked' /\ ListenerInv' /\ \A d, s : Acked(d, s)' <=> Acked(d, s)
      BY <1>2, ClientStep, SMTT(30)
    <2>6. Backlogged'
      <3>1. \A j \in Ids : Waiting(j) => j[1] # c
        BY <2>1, <2>2, ZenonT(30) DEF Waiting
      <3> QED
        BY <1>2, <1>4, <2>3, <3>1, OthersWait
    <2>7. ASSUME NEW j \in Ids PROVE UsedOnce(j)'
      <3>1. UsedOnce(j) /\ j[1] \in Clients
        BY <1>1, IdParts
      <3> QED
        BY <1>2, <1>4, <2>3, <3>1 DEF UsedOnce, Tried
    <2>8. Acked(c, cSession) /\ sSession >= cSession
      <3>1. cSession <= sSession
        BY <1>1, <2>2, ZenonT(30) DEF UsedOnce
      <3>2. sSession \in Nat /\ cSession \in Nat
        BY <1>1 DEF ConnTypeOK
      <3> QED
        BY <2>2, <3>1, <3>2, SMTT(30) DEF Acked
    <2>9. ASSUME NEW d \in Clients PROVE ConnOf(d)' /\ SessionOrder(d)' /\ UpAcked(d)'
      <3>1. ConnOf(d) /\ SessionOrder(d) /\ UpAcked(d)
        BY <1>1, Zenon
      <3>2. ConnOf(d)' /\ UpAcked(d)'
        BY <1>2, <1>4, <2>3, <3>1, SMTT(30) DEF ConnOf, UpAcked
      <3>3. SessionOrder(d)'
        BY <1>2, <2>3, <2>8, <3>1, ZenonT(30) DEF SessionOrder, Acked
      <3> QED
        BY <3>2, <3>3
    <2> QED
      BY <2>4, <2>5, <2>6, <2>7, <2>9, ZenonT(30) DEF ConnectInv
  <1> QED
    BY <1>3, <1>4, SMTT(30) DEF RecvAck

\* The client has joined its threads: nothing waits, and all of them got through.
LEMMA NextSessionOK == ASSUME ConnectInv, NextSession PROVE ConnectInv'
  <1>1. /\ ConnTypeOK /\ Backlogged /\ \A i \in Ids : UsedOnce(i)
        /\ Counted /\ ServedAcked /\ ListenerInv
        /\ \A d \in Clients : ConnOf(d) /\ SessionOrder(d) /\ UpAcked(d)
    BY DEF ConnectInv
  <1>2. /\ ~cDead /\ cSession < Sessions /\ \A d \in Clients : cpc[d] = "done"
        /\ cSession' = cSession + 1 /\ cpc' = [d \in Clients |-> "idle"]
        /\ queue' = queue /\ net' = net /\ conn' = conn /\ attempt' = attempt /\ cDead' = cDead
        /\ listening' = listening /\ accepted' = accepted /\ served' = served /\ made' = made
        /\ sSession' = sSession /\ sDead' = sDead
    BY DEF NextSession, server
  <1>3. cSession \in Nat /\ sSession \in Nat /\ Sessions \in Nat
    BY <1>1, ConnectAssumption, SMTT(30) DEF ConnTypeOK
  <1>4. ConnTypeOK'
    <2>1. cSession' \in Nat \ {0} /\ (Sessions > 0 => cSession' <= Sessions)
      BY <1>2, <1>3
    <2>2. cpc' \in [Clients -> {"idle", "connect", "await", "up", "done"}]
      BY <1>2
    <2> QED
      BY <1>1, <1>2, <2>1, <2>2, ZenonT(30) DEF ConnTypeOK
  <1>5. \A d, s : Acked(d, s)' <=> Acked(d, s)
    BY <1>2, SMTT(30) DEF Acked
  <1>6. Counted' /\ ServedAcked' /\ ListenerInv'
    <2>1. TakenThreads' = TakenThreads
      BY <1>2, Zenon DEF TakenThreads, Acked
    <2>2. Counted /\ ServedAcked /\ ListenerInv
      BY <1>1, Zenon
    <2> QED
      BY <1>2, <2>1, <2>2, ZenonT(30) DEF Counted, ServedAcked, ListenerInv
  <1>7. Backlogged'
    <2>1. \A i \in Ids : ~Waiting(i)
      BY <1>2, IdParts, SMTT(30) DEF Waiting
    <2>2. \A k \in 1 .. Len(queue) : FALSE
      BY <1>1, <2>1, QueueElements, SMTT(30) DEF Backlogged, ConnTypeOK
    <2>3. accepted = None
      BY <1>1, <2>1, SMTT(30) DEF Backlogged, ConnTypeOK
    <2> QED
      BY <1>2, <2>2, <2>3, ZenonT(30) DEF Backlogged
  <1>8. ASSUME NEW i \in Ids PROVE UsedOnce(i)'
    <2>1. UsedOnce(i) /\ i[2] \in Nat
      BY <1>1, IdParts
    <2>2. net[i] # "open" => i[2] < cSession + 1
      BY <1>3, <2>1 DEF UsedOnce
    <2> QED
      BY <1>2, <1>3, <2>1, <2>2 DEF UsedOnce
  <1>9. ASSUME NEW d \in Clients PROVE ConnOf(d)' /\ SessionOrder(d)' /\ UpAcked(d)'
    <2>1. ConnOf(d) /\ SessionOrder(d) /\ cpc[d] = "done" /\ cpc'[d] = "idle"
      BY <1>1, <1>2, SMTT(30)
    <2>2. ConnOf(d)' /\ UpAcked(d)'
      BY <1>2, <2>1 DEF ConnOf, UpAcked
    <2>3. sSession >= cSession /\ sSession <= cSession + 1 /\ (sDead \/ Acked(d, cSession))
      BY <2>1 DEF SessionOrder
    <2>4. cSession + 1 > sSession => sSession = cSession
      BY <1>3, <2>3, SMTT(30)
    <2>5. SessionOrder(d)'
      <3>1. cSession' <= sSession' + 1 /\ sSession' <= cSession' + 1 /\ ~(sSession' > cSession')
        BY <1>2, <1>3, <2>3
      <3>2. cSession' > sSession' /\ ~sDead' => Acked(d, sSession)
        BY <1>2, <2>3, <2>4
      <3> QED
        BY <1>2, <2>1, <3>1, <3>2 DEF SessionOrder, Acked
    <2> QED
      BY <2>2, <2>5
  <1> QED
    BY <1>4, <1>6, <1>7, <1>8, <1>9 DEF ConnectInv

\* ConnectInv holds in every reachable state.
THEOREM ConnectInvariant == ConnectSpec => []ConnectInv
  <1>1. ConnectInv /\ [ConnectNext]_connectVars => ConnectInv'
    <2> SUFFICES ASSUME ConnectInv, [ConnectNext]_connectVars PROVE ConnectInv'
      OBVIOUS
    <2>1. CASE UNCHANGED connectVars
      <3>1. /\ listening' = listening /\ queue' = queue /\ accepted' = accepted /\ served' = served
            /\ made' = made /\ sSession' = sSession /\ sDead' = sDead /\ net' = net /\ cpc' = cpc
            /\ conn' = conn /\ attempt' = attempt /\ cSession' = cSession /\ cDead' = cDead
        BY <2>1 DEF connectVars
      <3>2. ConnTypeOK' /\ Backlogged'
        <4>1. ConnTypeOK'
          BY <3>1, SMTT(30) DEF ConnectInv, ConnTypeOK
        <4>2. Backlogged'
          BY <3>1, SMTT(30) DEF ConnectInv, Backlogged, Waiting
        <4> QED
          BY <4>1, <4>2
      <3>3. Counted' /\ ListenerInv' /\ ServedAcked'
        BY <3>1, ZenonT(30) DEF ConnectInv, Counted, ListenerInv, ServedAcked, TakenThreads, Acked
      <3>4. \A i \in Ids : UsedOnce(i)'
        BY <3>1, ZenonT(30) DEF ConnectInv, UsedOnce, Tried
      <3>5. \A c \in Clients : ConnOf(c)' /\ SessionOrder(c)' /\ UpAcked(c)'
        BY <3>1, ZenonT(30) DEF ConnectInv, ConnOf, SessionOrder, UpAcked, Acked
      <3> QED
        BY <3>2, <3>3, <3>4, <3>5, ZenonT(30) DEF ConnectInv
    <2>2. CASE \E i \in served : Destroy(i)
      BY <2>2, DestroyOK
    <2>3. CASE \E c \in Clients : Start(c) \/ TcpConnect(c) \/ RecvAck(c) \/ Finish(c)
      BY <2>3, StartOK, TcpConnectOK, RecvAckOK, FinishOK
    <2> QED
      BY <2>1, <2>2, <2>3, OpenListenerOK, AcceptOneOK, AcknowledgeOK, CrashOK, NextSessionOK, SMTT(30) DEF ConnectNext
  <1> QED
    BY <1>1, ConnectInitOK, PTL DEF ConnectSpec

\* The two ends of a channel are in the same session, for any number of client
\* threads, sessions, attempts and backlog: a constructor that returned at the client
\* was accepted and acknowledged by a server that has come to the client's session,
\* and accept_one never takes a connection left over from another one.
THEOREM EndsMeet == ConnectSpec => []SessionsMatch
  <1>1. ConnectInv => ConnectedIsAccepted
    BY DEF ConnectInv, SessionOrder, UpAcked, ConnectedIsAccepted
  <1>2. ConnectInv => ServedIsCurrent
    BY DEF ConnectInv, ServedAcked, Backlogged, ServedIsCurrent
  <1>3. ConnectInv => SessionsMatch
    BY <1>1, <1>2 DEF SessionsMatch
  <1> QED
    BY <1>3, ConnectInvariant, PTL
=============================================================================
