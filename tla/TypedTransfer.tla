--------------------------- MODULE TypedTransfer ----------------------------
(***************************************************************************)
(* The typed transfers of IOChannel (runtime/io/io_channel.h) over the bit *)
(* packing of runtime/core/utils.hpp: two parties run the same sequence of *)
(* operations, one sending and one receiving each.  Bools travel packed,   *)
(* LSB first, through a stack buffer of one chunk; a point travels as its  *)
(* length and its bytes.  The bytes below are ordered and reliable         *)
(* (NetChannel shows that of the transport).                               *)
(***************************************************************************)
EXTENDS Integers, Sequences, SequencesExt, FiniteSetsExt

CONSTANTS ByteBits,      \* 8
          GroupBytes,    \* 4: bytes packed by one bytes_to_bits32
          ChunkBits,     \* IO_BOOL_CHUNK_SIZE
          MaxPoint,      \* MAX_POINT_BYTES
          Bools,         \* contents of a bool or uint8_t cell; 0 is false
          Lengths,       \* bound: bools in a call
          MaxTrue,       \* bound: nonzero cells in a call
          PointLens,     \* bound: encoded lengths of points
          MaxOps         \* bound: operations

Ends == {1, 2}
Other(p) == 3 - p
GroupBits == GroupBytes * ByteBits

ASSUME TransferAssumption == ChunkBits % GroupBits = 0 /\ 0 \in Bools

VARIABLES prog,     \* the operations both parties run
          pos,      \* operations each party has finished
          off,      \* bools or points of the current one it has moved
          len,      \* the point length it has read, -1 outside
          buf,      \* the sender's stack buffer
          wire,     \* per sender: bytes under way
          transcript,     \* per party: the transcript of its sends
          out,      \* what the receiver of each operation has
          dead      \* parties stopped by expecting

transferVars == <<prog, pos, off, len, buf, wire, transcript, out, dead>>

CeilDiv(a, b) == (a + b - 1) \div b
Least(a, b) == IF a < b THEN a ELSE b
Vectors(n) == UNION {{[i \in 1 .. n |-> IF i \in t THEN b ELSE 0] : b \in Bools} : t \in kSubset(MaxTrue, 1 .. n)}
              \cup {[i \in 1 .. n |-> 0]}
Ops == [from : Ends, kind : {"bool"}, data : UNION {Vectors(n) : n \in Lengths}]
       \cup [from : Ends, kind : {"pt"}, data : UNION {[1 .. n -> PointLens] : n \in 0 .. 2}]

Transfers == UNION {[1 .. n -> Ops] : n \in 1 .. MaxOps}

\* Both parties are about to run one of programs.
TransferStart(programs) ==
    /\ prog \in programs
    /\ pos = [p \in Ends |-> 0] /\ off = [p \in Ends |-> 0] /\ len = [p \in Ends |-> -1]
    /\ buf = <<>>
    /\ wire = [p \in Ends |-> <<>>] /\ transcript = wire
    /\ out = [o \in 1 .. MaxOps |-> <<>>]
    /\ dead = {}

TransferInit == TransferStart(Transfers)

Op(p) == prog[pos[p] + 1]
Runs(p) == p \notin dead /\ pos[p] < Len(prog)

\* bytes_to_bits32: the complement of the mask of zero cells.
BytesToBits32(v) == [j \in DOMAIN v |-> 1 - (IF v[j] = 0 THEN 1 ELSE 0)]
\* bits32_to_bytes: each bit's byte, masked, then the minimum with 1.
Bits32ToBytes(bits) == [j \in DOMAIN bits |-> Least(bits[j] * 2 ^ ((j - 1) % ByteBits), 1)]

\* bools_to_bits: whole groups are overwritten, the tail bit by bit.
BoolsToBits(bits, v) ==
    LET full == (Len(v) \div GroupBits) * GroupBits
        packed == BytesToBits32(SubSeq(v, 1, full))
    IN  [i \in DOMAIN bits |-> IF i <= full THEN packed[i]
                               ELSE IF i <= Len(v) THEN IF v[i] # 0 THEN 1 ELSE 0
                               ELSE bits[i]]
\* bits_to_bools
BitsToBools(bits, n) ==
    LET full == (n \div GroupBits) * GroupBits
    IN  Bits32ToBytes(SubSeq(bits, 1, full)) \o [i \in 1 .. n - full |-> bits[full + i]]

\* The current operation has moved n of its items; the party goes on or ends it.
Advance(p, n) ==
    /\ pos' = [pos EXCEPT ![p] = IF n >= Len(Op(p).data) THEN @ + 1 ELSE @]
    /\ off' = [off EXCEPT ![p] = IF n >= Len(Op(p).data) THEN 0 ELSE n]
SendData(p, bytes) ==
    /\ wire' = [wire EXCEPT ![p] = @ \o bytes]
    /\ transcript' = [transcript EXCEPT ![p] = @ \o bytes]
RecvData(p, n) ==
    /\ Len(wire[Other(p)]) >= n
    /\ wire' = [wire EXCEPT ![Other(p)] = SubSeq(@, n + 1, Len(@))]

BytesOf(bits, n) == [b \in 1 .. n |-> SubSeq(bits, (b - 1) * ByteBits + 1, b * ByteBits)]
Concat(bytes) == [i \in 1 .. Len(bytes) * ByteBits |-> bytes[((i - 1) \div ByteBits) + 1][((i - 1) % ByteBits) + 1]]
Batch(p) == Least(Len(Op(p).data) - off[p], ChunkBits)
Slice(p) == SubSeq(Op(p).data, off[p] + 1, off[p] + Batch(p))

\* An empty transfer returns at once.
Empty(p) ==
    /\ Runs(p) /\ Op(p).data = <<>>
    /\ Advance(p, 0)
    /\ UNCHANGED <<prog, len, buf, wire, transcript, out, dead>>

\* One turn of the loop of send_bool_impl_; buf starts as whatever the stack held.
SendBools(p) ==
    /\ Runs(p) /\ Op(p).from = p /\ Op(p).kind = "bool" /\ Op(p).data # <<>>
    /\ \E g \in {0, 1} :
           LET bytes == CeilDiv(Batch(p), ByteBits)
               old == IF off[p] = 0 THEN [i \in 1 .. ChunkBits |-> g] ELSE buf
               clean == [i \in 1 .. ChunkBits |->
                            IF Batch(p) % ByteBits # 0 /\ CeilDiv(i, ByteBits) = bytes THEN 0 ELSE old[i]]
               new == BoolsToBits(clean, Slice(p))
           IN  /\ buf' = IF off[p] + Batch(p) = Len(Op(p).data) THEN <<>> ELSE new
               /\ SendData(p, BytesOf(new, bytes))
    /\ Advance(p, off[p] + Batch(p))
    /\ UNCHANGED <<prog, len, out, dead>>

\* Mutant: the receiver takes whole bytes only.
RecvBoolsFloor(p) ==
    /\ Runs(p) /\ Op(p).from # p /\ Op(p).kind = "bool" /\ Op(p).data # <<>>
    /\ RecvData(p, Batch(p) \div ByteBits)
    /\ LET bits == Concat(SubSeq(wire[Other(p)], 1, Batch(p) \div ByteBits))
       IN  out' = [out EXCEPT ![pos[p] + 1] = @ \o BitsToBools(bits, Len(bits))]
    /\ Advance(p, off[p] + Batch(p))
    /\ UNCHANGED <<prog, len, buf, transcript, dead>>
\* One turn of the loop of recv_bool_impl_.
RecvBools(p) ==
    LET bytes == CeilDiv(Batch(p), ByteBits)
    IN  /\ Runs(p) /\ Op(p).from # p /\ Op(p).kind = "bool" /\ Op(p).data # <<>>
        /\ RecvData(p, bytes)
        /\ out' = [out EXCEPT ![pos[p] + 1] = @ \o BitsToBools(Concat(SubSeq(wire[Other(p)], 1, bytes)), Batch(p))]
        /\ Advance(p, off[p] + Batch(p))
        /\ UNCHANGED <<prog, len, buf, transcript, dead>>

PointBytes(o, k, n) == [i \in 1 .. n |-> <<"pt", o, k, i>>]
\* One turn of the loop of send_pt: a point too long stops the party.
SendPt(p) ==
    /\ Runs(p) /\ Op(p).from = p /\ Op(p).kind = "pt" /\ Op(p).data # <<>>
    /\ LET n == Op(p).data[off[p] + 1]
       IN  IF n > MaxPoint
           THEN /\ dead' = dead \cup {p}
                /\ UNCHANGED <<pos, off, wire, transcript>>
           ELSE /\ SendData(p, <<<<"len", n>>>> \o PointBytes(pos[p] + 1, off[p] + 1, n))
                /\ Advance(p, off[p] + 1)
                /\ UNCHANGED dead
    /\ UNCHANGED <<prog, len, buf, out>>

\* recv_pt reads the length and checks it, ...
RecvPtLength(p) ==
    /\ Runs(p) /\ Op(p).from # p /\ Op(p).kind = "pt" /\ Op(p).data # <<>> /\ len[p] = -1
    /\ RecvData(p, 1)
    /\ LET n == wire[Other(p)][1][2]
       IN  IF n > MaxPoint THEN dead' = dead \cup {p} /\ UNCHANGED len
           ELSE len' = [len EXCEPT ![p] = n] /\ UNCHANGED dead
    /\ UNCHANGED <<prog, pos, off, buf, transcript, out>>
\* ... then that many bytes.
RecvPtBytes(p) ==
    /\ Runs(p) /\ len[p] # -1
    /\ RecvData(p, len[p])
    /\ out' = [out EXCEPT ![pos[p] + 1] = Append(@, SubSeq(wire[Other(p)], 1, len[p]))]
    /\ len' = [len EXCEPT ![p] = -1]
    /\ Advance(p, off[p] + 1)
    /\ UNCHANGED <<prog, buf, transcript, dead>>

Transfer(p) == Empty(p) \/ SendBools(p) \/ RecvBools(p) \/ SendPt(p) \/ RecvPtLength(p) \/ RecvPtBytes(p)
TransferNext == \E p \in Ends : Transfer(p)

TransferSpec == TransferInit /\ [][TransferNext]_transferVars

(***************************************************************************)
(* Properties                                                              *)
(***************************************************************************)
\* What a finished receive has is what was sent: a bool is the truth of the cell,
\* a point is its bytes, whatever the seams of chunks, groups and the tail.
Delivered ==
    \A p \in Ends : \A o \in 1 .. pos[p] :
        prog[o].from # p =>
            out[o] = IF prog[o].kind = "bool"
                     THEN [i \in DOMAIN prog[o].data |-> IF prog[o].data[i] # 0 THEN 1 ELSE 0]
                     ELSE [k \in DOMAIN prog[o].data |-> PointBytes(o, k, prog[o].data[k])]

\* Padding bits on the wire are zero, so what the stack held never reaches the wire
\* and a transcript depends on the data alone.
PaddingIsZero ==
    \A p \in Ends : pos[p] > 0 =>
        LET o == pos[p]
            n == Len(prog[o].data)
        IN  off[p] = 0 /\ prog[o].from = p /\ prog[o].kind = "bool" /\ n % ByteBits # 0 =>
                \A j \in (n % ByteBits) + 1 .. ByteBits : Last(transcript[p])[j] = 0

\* Neither party is left waiting: every step makes progress, and when no step is
\* possible both are at the end with nothing left over, unless an oversized point
\* stopped its sender; then the receiver is at the same operation and nothing of it
\* is under way.
Finishes ==
    \/ \E p \in Ends : ENABLED Transfer(p)
    \/ \E p \in dead : wire[p] = <<>> /\ pos[Other(p)] = pos[p]
    \/ \A p \in Ends : pos[p] = Len(prog) /\ wire[p] = <<>>

\* A typed transfer arrives as it was sent, sends nothing else, and leaves neither
\* party waiting (send_bool, recv_bool, send_pt, recv_pt).
TransferExact == Delivered /\ PaddingIsZero /\ Finishes
=============================================================================
