------------------------------ MODULE Connect -------------------------------
(*****************************************************************************)
(* How NetIO endpoints meet (runtime/io/tcp_socket.h and the constructors,   *)
(* make_sibling and destructor of runtime/io/net_io_channel.h): one server   *)
(* process and one client process run sessions one after the other on the    *)
(* same port.  In a session every client thread opens one channel; the       *)
(* server accepts as many on one shared listener, which closes with the last *)
(* of its channels.                                                          *)
(*****************************************************************************)
EXTENDS Integers, Sequences, Functions, FiniteSets

CONSTANTS Clients,      \* threads of the client process
          Sessions,     \* sessions each process runs
          MaxRetries,   \* max_retries
          Backlog,      \* SOMAXCONN
          None          \* no connection

ASSUME ConnectAssumption ==
    /\ {Sessions, MaxRetries, Backlog} \subseteq Nat
    /\ IsFiniteSet(Clients)
    /\ None \notin Clients \X (1 .. Sessions) \X (0 .. MaxRetries)

VARIABLES listening,   \* the listener is open
          queue,       \* completed handshakes waiting in its backlog
          accepted,    \* connection accepted but not acknowledged, or None
          served,      \* channels alive at the server
          made,        \* accepts done in this session
          sSession,    \* the server's session, 0 before the first
          sDead,       \* the server process died
          net,         \* connection -> "open", "acked", "reset"
          cpc,          \* thread -> "idle", "connect", "await", "up", "done"
          conn,        \* thread -> its connection, or None
          attempt,     \* thread -> failed attempts
          cSession,    \* the client's session
          cDead        \* client_connect gave up: error()

connectVars == <<listening, queue, accepted, served, made, sSession, sDead, net, cpc, conn, attempt, cSession, cDead>>
server == <<listening, accepted, served, made, sSession, sDead>>
client == <<cpc, conn, attempt, cSession, cDead>>

\* A connection is known by who opened it, in which session, at which attempt.
Ids == Clients \X (1 .. Sessions) \X (0 .. MaxRetries)

ConnectInit ==
    /\ listening = FALSE /\ queue = <<>> /\ accepted = None
    /\ served = {} /\ made = 0 /\ sSession = 0 /\ sDead = FALSE
    /\ net = [i \in Ids |-> "open"]
    /\ cpc = [c \in Clients |-> "idle"]
    /\ conn = [c \in Clients |-> None]
    /\ attempt = [c \in Clients |-> 0]
    /\ cSession = 1 /\ cDead = FALSE

-----------------------------------------------------------------------------
\* The server: NetIO(nullptr, port), make_sibling, ~NetIO.

OpenListener ==
    /\ ~sDead /\ ~listening /\ sSession < Sessions
    /\ listening' = TRUE
    /\ made' = 0
    /\ sSession' = sSession + 1
    /\ UNCHANGED <<queue, accepted, served, sDead, net, client>>

\* accept_one, for the first channel or for a sibling of a live one.
AcceptOne ==
    /\ ~sDead /\ listening /\ accepted = None /\ queue # <<>>
    /\ made < Cardinality(Clients)
    /\ made = 0 \/ served # {}
    /\ accepted' = Head(queue)
    /\ queue' = Tail(queue)
    /\ made' = made + 1
    /\ UNCHANGED <<listening, served, sSession, sDead, net, client>>

\* The acknowledgement byte of accept_one_confirmed; the channel exists.
Acknowledge ==
    /\ ~sDead /\ accepted # None
    /\ net' = [net EXCEPT ![accepted] = "acked"]
    /\ served' = served \cup {accepted}
    /\ accepted' = None
    /\ UNCHANGED <<listening, queue, made, sSession, sDead, client>>

Reset(ids) == net' = [i \in Ids |-> IF i \in ids THEN "reset" ELSE net[i]]

\* Mutant: the last channel leaves the shared listener open.
DestroyKeep(i) ==
    /\ ~sDead /\ i \in served /\ accepted = None
    /\ served # {i} \/ made = Cardinality(Clients)
    /\ served' = served \ {i}
    /\ UNCHANGED <<listening, queue, accepted, made, sSession, sDead, net, client>>

\* ~NetIO; the last owner closes the listener and with it what is queued.  The
\* program keeps a channel until it has made all of its siblings.
Destroy(i) ==
    /\ ~sDead /\ i \in served /\ accepted = None
    /\ served # {i} \/ made = Cardinality(Clients)
    /\ served' = served \ {i}
    /\ IF served = {i}
       THEN listening' = FALSE /\ queue' = <<>> /\ Reset(Range(queue))
       ELSE UNCHANGED <<listening, queue, net>>
    /\ UNCHANGED <<accepted, made, sSession, sDead, client>>

\* The process dies and the system closes its sockets.
Crash ==
    /\ ~sDead
    /\ sDead' = TRUE
    /\ listening' = FALSE /\ queue' = <<>> /\ accepted' = None /\ served' = {}
    /\ Reset(Range(queue) \cup {accepted} \cup served)
    /\ UNCHANGED <<made, sSession, client>>

-----------------------------------------------------------------------------
\* The client: client_connect_impl with wait_for_accept, ~NetIO.

Start(c) ==
    /\ ~cDead /\ cpc[c] = "idle"
    /\ cpc' = [cpc EXCEPT ![c] = "connect"]
    /\ attempt' = [attempt EXCEPT ![c] = 0]
    /\ UNCHANGED <<server, queue, net, conn, cSession, cDead>>

\* close, usleep and the next attempt, or error() after the last.
Retry(c) ==
    /\ attempt' = [attempt EXCEPT ![c] = @ + 1]
    /\ cpc' = [cpc EXCEPT ![c] = "connect"]
    /\ conn' = [conn EXCEPT ![c] = None]
    /\ cDead' = (attempt[c] + 1 >= MaxRetries)

\* Mutant: a completed handshake counts as a connection.
TcpConnectUp(c) ==
    /\ ~cDead /\ cpc[c] = "connect"
    /\ listening
    /\ LET i == <<c, cSession, attempt[c]>>
       IN  queue' = Append(queue, i) /\ conn' = [conn EXCEPT ![c] = i]
    /\ cpc' = [cpc EXCEPT ![c] = "up"]
    /\ UNCHANGED <<server, net, attempt, cSession, cDead>>

\* connect: refused without a listener, else queued (a backlog that overflows
\* would complete the handshake and drop it).
TcpConnect(c) ==
    /\ ~cDead /\ cpc[c] = "connect"
    /\ \/ /\ listening
          /\ LET i == <<c, cSession, attempt[c]>>
             IN  /\ queue' = IF Len(queue) < Backlog THEN Append(queue, i) ELSE queue
                 /\ conn' = [conn EXCEPT ![c] = i]
          /\ cpc' = [cpc EXCEPT ![c] = "await"]
          /\ UNCHANGED <<attempt, cDead>>
       \/ ~listening /\ Retry(c) /\ UNCHANGED queue
    /\ UNCHANGED <<server, net, cSession>>

\* recv of the acknowledgement: the byte, or the end of a reset connection.
RecvAck(c) ==
    /\ ~cDead /\ cpc[c] = "await"
    /\ \/ /\ net[conn[c]] = "acked"
          /\ cpc' = [cpc EXCEPT ![c] = "up"]
          /\ UNCHANGED <<conn, attempt, cDead>>
       \/ net[conn[c]] = "reset" /\ Retry(c)
    /\ UNCHANGED <<server, queue, net, cSession>>

\* ~NetIO at the client.
Finish(c) ==
    /\ ~cDead /\ cpc[c] = "up"
    /\ cpc' = [cpc EXCEPT ![c] = "done"]
    /\ conn' = [conn EXCEPT ![c] = None]
    /\ UNCHANGED <<server, queue, net, attempt, cSession, cDead>>

\* The client program joins its threads before it starts another session.
NextSession ==
    /\ ~cDead /\ cSession < Sessions
    /\ \A c \in Clients : cpc[c] = "done"
    /\ cSession' = cSession + 1
    /\ cpc' = [c \in Clients |-> "idle"]
    /\ UNCHANGED <<server, queue, net, conn, attempt, cDead>>

ServerWork == OpenListener \/ AcceptOne \/ Acknowledge
ClientWork(c) == Start(c) \/ TcpConnect(c) \/ RecvAck(c) \/ Finish(c)

ConnectNext ==
    \/ OpenListener \/ AcceptOne \/ Acknowledge \/ Crash
    \/ \E i \in served : Destroy(i)
    \/ \E c \in Clients : Start(c) \/ TcpConnect(c) \/ RecvAck(c) \/ Finish(c)
    \/ NextSession

\* Both processes go on, and the server comes to the end of its sessions.
ConnectSpec ==
    /\ ConnectInit /\ [][ConnectNext]_connectVars
    /\ WF_connectVars(ServerWork) /\ WF_connectVars(NextSession)
    /\ WF_connectVars(\E i \in served : Destroy(i))
    /\ \A c \in Clients : WF_connectVars(ClientWork(c))

-----------------------------------------------------------------------------
\* "Connected always means the peer's accept() ran": a channel the client works
\* with was accepted and acknowledged, and the server has reached the client's
\* session, even when the connection first landed on the listener of the last one.
ConnectedIsAccepted ==
    \A c \in Clients : cpc[c] = "up" =>
        /\ sSession >= cSession
        /\ net[conn[c]] = "acked" \/ sDead

\* No accepted connection belongs to another session: an accept never takes a
\* connection its client has given up or will use elsewhere.
ServedIsCurrent ==
    \A i \in served \cup ({accepted} \ {None}) : i[2] = sSession

\* A connecting client thread gets its channel or the process gives up: it is
\* never left waiting.
ConnectReturns ==
    \A c \in Clients : cpc[c] \in {"connect", "await"} ~> cpc[c] \in {"up", "done"} \/ cDead

\* Unless the server dies or the client runs out of attempts, every session of
\* both processes takes place.
SessionsComplete ==
    <>(sDead \/ cDead \/ (cSession = Sessions /\ sSession = Sessions /\ \A c \in Clients : cpc[c] = "done"))

\* The two ends of a channel are in the same session: a client goes on only on a
\* connection the server took in its session, and a server takes no other.
SessionsMatch == ConnectedIsAccepted /\ ServedIsCurrent
=============================================================================
