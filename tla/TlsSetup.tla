------------------------------ MODULE TlsSetup ------------------------------
(****************************************************************************)
(* The constructors of TLSIO (runtime/io/tls_io_channel.h): two parties on  *)
(* one TCP connection set up their TLS contexts from their TLSConfig, shake *)
(* hands and check the peer's certificate.  OpenSSL's part of the handshake *)
(* is modelled from the calls made and the TLS 1.3 message order they give. *)
(****************************************************************************)
EXTENDS Naturals

CONSTANT Configs      \* the configurations a party may be given, see AllConfigs

VARIABLES ctor,          \* "address": TLSIO(address, port, ...); "wrap": TLSIO(existing_sock, ...)
          cfg,           \* per party, its TLSConfig and the role argument of the wrapping constructor
          pc, isServer, isTlsServer,
          mode,          \* flags given to SSL_CTX_set_verify
          onWire,        \* handshake messages on the wire
          peerCert,      \* the certificate the peer presented: its chain is "good", "bad" or there is "none"
          closed         \* sockets closed by the end of their process

tlsVars == <<ctor, cfg, pc, isServer, isTlsServer, mode, onWire, peerCert, closed>>

Parties == {"acceptor", "connector"}      \* who accepted the TCP connection
Peer(p) == CHOOSE q \in Parties : q # p

\* role: what the caller wrote to is_tls_server ("unset" leaves its default);
\* pair: cert_pem_path and key_pem_path, by what the files hold.
AllConfigs == [role : {"unset", "server", "client"}, arg : BOOLEAN,
               pair : {"none", "no_key", "mismatch", "good", "bad"},
               ca : BOOLEAN, require : BOOLEAN, skip : BOOLEAN]
ASSUME ConfigsAssumption == Configs \subseteq AllConfigs

CfgServer(p) == cfg[p].role = "server"
HasCert(p) == cfg[p].pair \in {"good", "bad"}

TlsInit ==
    /\ ctor \in {"address", "wrap"}
    /\ cfg \in [Parties -> Configs]
    /\ ctor = "address" => \A p \in Parties : ~cfg[p].arg       \* no such argument
    /\ pc = [p \in Parties |-> "tcp"]
    /\ isServer = [p \in Parties |-> FALSE]
    /\ isTlsServer = [p \in Parties |-> FALSE]
    /\ mode = [p \in Parties |-> {}]
    /\ onWire = [p \in Parties |-> {}]
    /\ peerCert = [p \in Parties |-> "none"]
    /\ closed = {}

\* die: error() ends the process, and the system closes its socket.
Die(p) == pc' = [pc EXCEPT ![p] = "dead"] /\ closed' = closed \cup {p}
Goto(p, l) == pc' = [pc EXCEPT ![p] = l] /\ UNCHANGED closed

\* The constructors up to init_from_sock; both ends of the TCP connection appear together.
ConstructBoth ==
    /\ \A p \in Parties : pc[p] = "tcp"
    /\ pc' = [p \in Parties |-> "configure"]
    /\ isServer' = [p \in Parties |-> ctor = "address" /\ p = "acceptor"]
    /\ isTlsServer' = [p \in Parties |-> IF ctor = "address" THEN CfgServer(p) ELSE cfg[p].arg]
    /\ UNCHANGED <<ctor, cfg, mode, onWire, peerCert, closed>>

\* need_cert and the loading of certificate, key and trust anchor.
ConfigFails(p) ==
    \/ (CfgServer(p) \/ cfg[p].pair # "none") /\ ~HasCert(p)
    \/ ~cfg[p].skip /\ ~cfg[p].ca

VerifyMode(p) ==
    IF cfg[p].skip THEN {}
    ELSE {"peer"} \cup (IF CfgServer(p) /\ cfg[p].require THEN {"fail_if_no_cert"} ELSE {})

\* init_from_sock up to the handshake; any call into the library may fail.
Configure(p) ==
    /\ pc[p] = "configure"
    /\ \/ Die(p) /\ UNCHANGED mode
       \/ /\ ~ConfigFails(p)
          /\ mode' = [mode EXCEPT ![p] = VerifyMode(p)]
          /\ Goto(p, "handshake")
    /\ UNCHANGED <<ctor, cfg, isServer, isTlsServer, onWire, peerCert>>

Sends(p, msg) == onWire' = [onWire EXCEPT ![p] = @ \cup {msg}]
Quiet == UNCHANGED <<onWire, peerCert>>

\* SSL_connect: hello; then the server's flight, judged; then Finished.
SslConnect(p) ==
    /\ ~isTlsServer[p]
    /\ LET q == Peer(p) IN
       \/ pc[p] = "handshake" /\ Sends(p, "hello") /\ UNCHANGED peerCert /\ Goto(p, "hello_sent")
       \/ pc[p] = "hello_sent" /\ "hello" \in onWire[q] /\ Die(p) /\ Quiet
       \/ /\ pc[p] = "hello_sent" /\ "flight" \in onWire[q]
          /\ IF "peer" \in mode[p] /\ cfg[q].pair = "bad" THEN Die(p) /\ Quiet
             ELSE /\ Sends(p, IF "peer" \in mode[q] /\ HasCert(p) THEN "finished_cert" ELSE "finished")
                  /\ peerCert' = [peerCert EXCEPT ![p] = cfg[q].pair]
                  /\ Goto(p, "check")
    /\ UNCHANGED <<ctor, cfg, isServer, isTlsServer, mode>>

\* SSL_accept: needs a certificate to answer a hello, and judges what the client presents.
SslAccept(p) ==
    /\ isTlsServer[p]
    /\ LET q == Peer(p) IN
       \/ /\ pc[p] = "handshake" /\ "hello" \in onWire[q]
          /\ IF HasCert(p) THEN Sends(p, "flight") /\ UNCHANGED peerCert /\ Goto(p, "flight_sent")
             ELSE Die(p) /\ Quiet
       \/ /\ pc[p] = "flight_sent" /\ onWire[q] \cap {"finished", "finished_cert"} # {}
          /\ LET cert == IF "finished_cert" \in onWire[q] THEN cfg[q].pair ELSE "none"
             IN  IF \/ cert = "bad" /\ "peer" \in mode[p]
                    \/ cert = "none" /\ "fail_if_no_cert" \in mode[p]
                 THEN Die(p) /\ Quiet
                 ELSE /\ peerCert' = [peerCert EXCEPT ![p] = cert]
                      /\ UNCHANGED onWire /\ Goto(p, "check")
    /\ UNCHANGED <<ctor, cfg, isServer, isTlsServer, mode>>

\* The peer's socket is closed: a handshake call that still waits fails.
PeerGone(p) ==
    /\ Peer(p) \in closed /\ pc[p] \in {"handshake", "hello_sent", "flight_sent"}
    /\ Die(p)
    /\ Quiet /\ UNCHANGED <<ctor, cfg, isServer, isTlsServer, mode>>

\* Mutant: only a client expects the peer to present a certificate.
CheckClientOnly(p) ==
    /\ pc[p] = "check"
    /\ IF ~cfg[p].skip /\ (peerCert[p] = "bad" \/ (~isTlsServer[p] /\ peerCert[p] = "none"))
       THEN Die(p) ELSE Goto(p, "up")
    /\ Quiet /\ UNCHANGED <<ctor, cfg, isServer, isTlsServer, mode>>
\* After the handshake: the chain, and a certificate where one is expected.
Check(p) ==
    /\ pc[p] = "check"
    /\ IF ~cfg[p].skip /\ (peerCert[p] = "bad"
                           \/ ((isTlsServer[p] => cfg[p].require) /\ peerCert[p] = "none"))
       THEN Die(p) ELSE Goto(p, "up")
    /\ Quiet /\ UNCHANGED <<ctor, cfg, isServer, isTlsServer, mode>>

Step(p) == Configure(p) \/ SslConnect(p) \/ SslAccept(p) \/ PeerGone(p) \/ Check(p)
TlsNext == ConstructBoth \/ \E p \in Parties : Step(p)

\* Each constructor runs on a thread of its own that is scheduled until it blocks.
TlsSpec == /\ TlsInit /\ [][TlsNext]_tlsVars
           /\ WF_tlsVars(ConstructBoth) /\ \A p \in Parties : WF_tlsVars(Step(p))

(***************************************************************************)
(* Properties                                                              *)
(***************************************************************************)
\* A constructor that returns with verification on has a peer with a good
\* certificate wherever one is expected, also when the role given to the wrapping
\* constructor differs from the one in the configuration that set the verify mode.
PeerVerified ==
    \A p \in Parties :
        pc[p] = "up" /\ ~cfg[p].skip /\ (isTlsServer[p] => cfg[p].require)
            => peerCert[p] = "good" /\ cfg[Peer(p)].pair = "good"

\* A TLS server's constructor returns only if the client's SSL_connect has succeeded
\* and its own check does not end it afterwards.
ServerUpClientSound ==
    \A p \in Parties : isTlsServer[p] /\ pc[p] = "up" => pc[Peer(p)] \in {"check", "up"}

\* With one TLS server and one TLS client both constructors return or fail: neither
\* waits for ever for a peer that gave up.
Settles ==
    \A p \in Parties :
        (pc[p] = "configure" /\ isTlsServer[p] # isTlsServer[Peer(p)]) ~> (pc[p] \in {"up", "dead"})

\* What a returned constructor may conclude: its peer is the one the configuration
\* asks for, and on the server's side that the client's cannot fail any more.
HandshakeSound == PeerVerified /\ ServerUpClientSound
=============================================================================
