------------------------------ MODULE Hashing -------------------------------
(*****************************************************************************)
(* HashT of runtime/crypto/hash.h: small puts gather in a buffer of BufBytes *)
(* and reach the algorithm in larger pieces; digest commits them first, and  *)
(* either finishes the message or takes a snapshot of it.  The i-th byte put *)
(* since the last reset is the number i, and a digest is the message itself. *)
(*                                                                           *)
(* RO of runtime/crypto/ro.h: typed fields are absorbed as frames into one   *)
(* message M, and squeezed.  Two oracles absorb side by side; a hash is its  *)
(* message.  A frame is a type word, a length word and the bytes; a word is  *)
(* LenBytes bytes, low byte first.                                           *)
(*****************************************************************************)
EXTENDS Integers, Sequences

(***************************************************************************)
(* HashT                                                                   *)
(***************************************************************************)
CONSTANTS BufBytes,
          MaxPut,         \* bound: bytes of one put
          MaxMessage      \* bound: bytes of one message

ASSUME HashAssumption == BufBytes \in Nat \ {0} /\ MaxPut \in Nat /\ MaxMessage \in Nat

VARIABLES st,      \* what the algorithm has taken in
          buffered,     \* buf_[0 .. buf_len_ - 1]
          sent,    \* history: bytes put since the last reset
          dgst     \* the last digest: its message, and the bytes put at that time

hashVars == <<st, buffered, sent, dgst>>

HashInit ==
    /\ st = <<>> /\ buffered = <<>> /\ sent = 0
    /\ dgst = [message |-> <<>>, sent |-> 0]

Bytes(n) == [i \in 1 .. n |-> sent + i]

\* put; put_block is put of whole blocks.
Put(n) ==
    LET large == n >= BufBytes
        flush == n > BufBytes - Len(buffered)
    IN  /\ sent + n <= MaxMessage
        /\ st' = (IF flush THEN st \o buffered ELSE st) \o (IF large THEN Bytes(n) ELSE <<>>)
        /\ buffered' = (IF flush THEN <<>> ELSE buffered) \o (IF large THEN <<>> ELSE Bytes(n))
        /\ sent' = sent + n
        /\ UNCHANGED dgst

\* Mutant: a digest that resets leaves the buffer as it is.
DigestUnflushed(resetAfter) ==
    /\ dgst' = [message |-> st, sent |-> sent]
    /\ st' = IF resetAfter THEN <<>> ELSE st
    /\ sent' = IF resetAfter THEN 0 ELSE sent
    /\ UNCHANGED buffered
\* digest: commit, finish, and start a new message unless it is a snapshot.
Digest(resetAfter) ==
    /\ dgst' = [message |-> st \o buffered, sent |-> sent]
    /\ st' = IF resetAfter THEN <<>> ELSE st \o buffered
    /\ buffered' = <<>>
    /\ sent' = IF resetAfter THEN 0 ELSE sent

Reset ==
    /\ st' = <<>> /\ buffered' = <<>> /\ sent' = 0
    /\ UNCHANGED dgst

HashNext == (\E n \in 0 .. MaxPut : Put(n)) \/ (\E r \in BOOLEAN : Digest(r)) \/ Reset

HashSpec == HashInit /\ [][HashNext]_hashVars

(***************************************************************************)
(* Properties                                                              *)
(***************************************************************************)
\* A digest is of all the bytes put since the last reset, in order, and of no
\* others: buffering, direct puts, snapshots and resets do not show.
DigestIsMessage == dgst.message = [i \in 1 .. dgst.sent |-> i]

\* Nothing is copied past the end of the coalescing buffer, and it never holds
\* more than the tail of the current message.
BufferHolds == Len(buffered) <= BufBytes /\ st \o buffered = [i \in 1 .. sent |-> i]

\* The hash is of the message: digests are, and between two of them the algorithm's
\* state and the buffer together are, within the buffer's size.
HashesMessage == DigestIsMessage /\ BufferHolds

(***************************************************************************)
(* RO                                                                      *)
(***************************************************************************)
CONSTANTS Byte,        \* values of content bytes
          LenBytes,   \* 4
          Radix,       \* 256
          DomainLens,  \* lengths of domain strings
          BlockLen, U64Len, PointLens,
          MaxLen,      \* bound: bytes of a string or a byte field
          MaxFields    \* bound: fields absorbed by the two after construction

ASSUME OracleAssumption ==
    /\ LenBytes \in Nat \ {0} /\ Radix > 5 /\ Radix ^ LenBytes > MaxLen /\ Byte \subseteq 0 .. Radix - 1

VARIABLES calls,    \* history: the domain and fields each oracle was given
          absorbed       \* buf_ of each oracle

oracleVars == <<calls, absorbed>>
Oracles == {1, 2}

kStr == 1
kBytes == 2
kBlock == 3
kU64 == 4
kPoint == 5

Strings(lens) == UNION {[1 .. n -> Byte] : n \in lens}
Fields ==
    {<<kStr, s>> : s \in Strings(0 .. MaxLen)} \cup {<<kBytes, s>> : s \in Strings(0 .. MaxLen)}
    \cup {<<kBlock, s>> : s \in Strings({BlockLen})} \cup {<<kU64, s>> : s \in Strings({U64Len})}
    \cup {<<kPoint, s>> : s \in Strings(PointLens)}

LittleEndian(v) == [i \in 1 .. LenBytes |-> (v \div Radix ^ (i - 1)) % Radix]

\* Mutant: no length word.
FrameNoLength(b, f) == b \o LittleEndian(f[1]) \o f[2]
Frame(b, f) == b \o LittleEndian(f[1]) \o LittleEndian(Len(f[2])) \o f[2]

\* The constructor frames the domain and the session id.
Construct(d, sid) == Frame(Frame(<<>>, <<kStr, d>>), <<kBlock, sid>>)

Sid == [i \in 1 .. BlockLen |-> 0]
OracleInit ==
    \E d \in [Oracles -> Strings(DomainLens)] :
        /\ calls = [o \in Oracles |-> <<<<kStr, d[o]>>>>]
        /\ absorbed = [o \in Oracles |-> Construct(d[o], Sid)]

Absorb(o, f) ==
    /\ Len(calls[1]) + Len(calls[2]) < MaxFields + 2
    /\ calls' = [calls EXCEPT ![o] = Append(@, f)]
    /\ absorbed' = [absorbed EXCEPT ![o] = Frame(@, f)]

OracleNext == \E o \in Oracles, f \in Fields : Absorb(o, f)

OracleSpec == OracleInit /\ [][OracleNext]_oracleVars

SqueezeDigest(o) == absorbed[o]
SqueezePoint(o) == <<absorbed[o], calls[o][1][2]>>       \* the domain is the DST

\* The message determines the calls: oracles given different domains, fields or
\* types of fields, or the same bytes cut differently, squeeze different values.
CallsAreSeparated ==
    SqueezeDigest(1) = SqueezeDigest(2) \/ SqueezePoint(1) = SqueezePoint(2) => calls[1] = calls[2]
=============================================================================
