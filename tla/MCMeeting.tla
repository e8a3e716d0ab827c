------------------------------ MODULE MCMeeting ------------------------------
(***************************************************************************)
(* How two parties come together, for TLC: connecting over TCP (Connect),  *)
(* agreeing on TLS (TlsSetup) and sending typed values (TypedTransfer).    *)
(* The three do not share state, so a behaviour runs one of them, and the  *)
(* others stay in their initial state.                                     *)
(***************************************************************************)
EXTENDS TlsSetup, Connect, TypedTransfer

VARIABLE at     \* which of them runs

\* Every TLS configuration, without those that differ only in options the constructor
\* does not look at: require_peer_cert and the trust anchor matter only when verification
\* is on; the pairs that fail to load are interchangeable past that point.
MCConfigs == {c \in AllConfigs : /\ c.skip => c.require /\ c.ca
                                 /\ ~c.ca => c.pair = "good"
                                 /\ c.pair = "mismatch" => c.role = "server"}

-----------------------------------------------------------------------------
AnyConfig == CHOOSE c \in Configs : ~c.arg
OnePoint == <<[from |-> 1, kind |-> "pt", data |-> <<>>]>>

MeetingInit ==
    /\ at \in {"tcp", "tls", "typed"}
    /\ ConnectInit
    /\ TlsInit /\ (at # "tls" => ctor = "address" /\ cfg = [p \in Parties |-> AnyConfig])
    /\ TransferStart(IF at = "typed" THEN Transfers ELSE {OnePoint})

MeetingNext ==
    /\ \/ at = "tcp" /\ ConnectNext /\ UNCHANGED <<tlsVars, transferVars>>
       \/ at = "tls" /\ TlsNext /\ UNCHANGED <<connectVars, transferVars>>
       \/ at = "typed" /\ TransferNext /\ UNCHANGED <<tlsVars, connectVars>>
    /\ UNCHANGED at

\* The fairness of the one that runs.
MeetingSpec ==
    /\ MeetingInit /\ [][MeetingNext]_<<at, tlsVars, connectVars, transferVars>>
    /\ WF_connectVars(at = "tcp" /\ ServerWork) /\ WF_connectVars(at = "tcp" /\ NextSession)
    /\ WF_connectVars(at = "tcp" /\ \E i \in served : Destroy(i))
    /\ \A c \in Clients : WF_connectVars(at = "tcp" /\ ClientWork(c))
    /\ WF_tlsVars(at = "tls" /\ ConstructBoth) /\ \A p \in Parties : WF_tlsVars(at = "tls" /\ Step(p))

-----------------------------------------------------------------------------
\* A meeting takes place: two processes that connect get through all their sessions
\* unless the server dies or the client runs out of attempts (SessionsComplete), every
\* connect returns, and every TLS setup settles.
MeetingCompletes == (at = "tcp" => SessionsComplete) /\ ConnectReturns /\ Settles
=============================================================================
