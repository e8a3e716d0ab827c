---------------------------- MODULE CryptoProofs ----------------------------
(*****************************************************************************)
(* Proofs for Mitccrh, for every batch size, every way of sharing keys among *)
(* neighbouring gids and every mix of call widths: each lane is hashed under *)
(* its own key, and no gid comes up twice.  For Hashing, for every buffer    *)
(* size and every length of put: the digest is the message.  And for         *)
(* TlsSetup, for every set of configurations: what a returned constructor    *)
(* may rely on follows from what each message on the wire says about its     *)
(* sender and from what the verify mode let through.                         *)
(*****************************************************************************)
EXTENDS Mitccrh, Hashing, TlsSetup, SequenceTheorems, TLAPS

Gids == 0 .. MaxGid + BatchSize
Points == Starts \cup {NoStart}

Object == [s : Points, gid : Gids, keyUsed : 0 .. BatchSize, bucket : Nat \cup {NoBucket},
           laneGid0 : Gids, key : [Places -> Points \X (Nat \cup {NoBucket})]]

\* The cached bucket is the one place 0 is scheduled for.
CacheCurrent(o) == o.bucket # NoBucket => Reuse /\ o.key[0] = <<o.s, o.bucket>>

\* While lanes are left, the schedule covers the gids from laneGid0 on, each under
\* its own bucket's key.
Scheduled(o) ==
    o.keyUsed < BatchSize =>
        /\ o.gid = o.laneGid0 + BatchSize
        /\ \A k \in Places : IF o.bucket # NoBucket THEN Bucket(o.laneGid0 + k) = o.bucket
                                                   ELSE o.key[k] = <<o.s, Bucket(o.laneGid0 + k)>>

GoodObject(o) == o \in Object /\ CacheCurrent(o) /\ Scheduled(o)

IInv ==
    /\ GoodObject(m)
    /\ top \in [Points -> Nat]
    /\ KeysMatchGids
    /\ GidsAreFresh

\* Neighbours in a bucket: a batch whose ends share a bucket lies within it.
LEMMA Between ==
    ASSUME NEW g \in 0 .. MaxGid, NEW k \in Places, Bucket(g) = Bucket(g + BatchSize - 1)
    PROVE  Bucket(g + k) = Bucket(g)
<1>1. /\ g \in 0 .. MaxGid + 2 * BatchSize
      /\ g + k \in 0 .. MaxGid + 2 * BatchSize
      /\ g + BatchSize - 1 \in 0 .. MaxGid + 2 * BatchSize
      /\ g <= g + k /\ g + k <= g + BatchSize - 1
  BY MitccrhAssumption DEF Places
<1>2. Bucket(g) <= Bucket(g + k) /\ Bucket(g + k) <= Bucket(g + BatchSize - 1)
  BY <1>1, BucketAssumption
<1>3. Bucket(g) \in Nat /\ Bucket(g + k) \in Nat
  BY <1>1, BucketAssumption
<1> QED BY <1>2, <1>3

\* The buckets of a batch are numbers.
LEMMA BucketNat ==
    ASSUME NEW g \in 0 .. MaxGid, NEW k \in Places
    PROVE  Bucket(g) \in Nat /\ Bucket(g + k) \in Nat
<1>1. g \in 0 .. MaxGid + 2 * BatchSize /\ g + k \in 0 .. MaxGid + 2 * BatchSize
  BY MitccrhAssumption DEF Places
<1> QED BY <1>1, BucketAssumption

\* renew_ks leaves a good object with every lane free and its gid moved on by a batch.
LEMMA RenewedGood ==
    ASSUME NEW o, o \in Object, CacheCurrent(o), o.gid <= MaxGid
    PROVE  /\ GoodObject(Renewed(o))
           /\ Renewed(o).s = o.s /\ Renewed(o).keyUsed = 0
           /\ Renewed(o).laneGid0 = o.gid /\ Renewed(o).gid = o.gid + BatchSize
<1> DEFINE r == Renewed(o)
           first == Bucket(o.gid)
           uniform == Reuse /\ first = Bucket(o.gid + BatchSize - 1)
<1>1. /\ o.s \in Points /\ o.gid \in 0 .. MaxGid /\ o.bucket \in Nat \cup {NoBucket}
      /\ o.key \in [Places -> Points \X (Nat \cup {NoBucket})]
  BY MitccrhAssumption DEF Object, Gids
<1>2. 0 \in Places /\ BatchSize \in Nat \ {0}
  BY MitccrhAssumption DEF Places
<1>3. \A k \in Places : Bucket(o.gid + k) \in Nat /\ first \in Nat
  BY <1>1, BucketNat
<1>4. first \in Nat
  BY <1>2, <1>3
<1>5. /\ r.s = o.s /\ r.gid = o.gid + BatchSize /\ r.keyUsed = 0 /\ r.laneGid0 = o.gid
      /\ r.bucket = IF uniform THEN first ELSE NoBucket
      /\ r.key = IF ~uniform THEN [k \in Places |-> <<o.s, Bucket(o.gid + k)>>]
                 ELSE IF first # o.bucket THEN [o.key EXCEPT ![0] = <<o.s, first>>]
                 ELSE o.key
      /\ r = [s |-> r.s, gid |-> r.gid, keyUsed |-> r.keyUsed, bucket |-> r.bucket,
              laneGid0 |-> r.laneGid0, key |-> r.key]
  BY DEF Renewed
<1>6. r.key \in [Places -> Points \X (Nat \cup {NoBucket})]
  BY <1>1, <1>2, <1>3, <1>4, <1>5
<1>7. r \in Object
  <2>1. r.gid \in Gids /\ r.laneGid0 \in Gids /\ r.keyUsed \in 0 .. BatchSize
    BY <1>1, <1>2, <1>5, MitccrhAssumption DEF Gids
  <2>2. r.bucket \in Nat \cup {NoBucket} /\ r.s \in Points
    BY <1>1, <1>4, <1>5
  <2> QED BY <1>5, <1>6, <2>1, <2>2 DEF Object
<1>8. CASE uniform
  <2>1. r.bucket = first /\ first # NoBucket
    BY <1>4, <1>5, <1>8 DEF NoBucket
  <2>2. r.key[0] = <<o.s, first>>
    <3>1. CASE first # o.bucket
      BY <1>1, <1>2, <1>5, <1>8, <3>1
    <3>2. CASE first = o.bucket
      BY <1>5, <1>8, <2>1, <3>2 DEF CacheCurrent
    <3> QED BY <3>1, <3>2
  <2>3. \A k \in Places : Bucket(r.laneGid0 + k) = r.bucket
    BY <1>1, <1>5, <1>8, <2>1, Between
  <2> QED BY <1>5, <1>7, <1>8, <2>1, <2>2, <2>3 DEF GoodObject, CacheCurrent, Scheduled
<1>9. CASE ~uniform
  <2>1. r.bucket = NoBucket
    BY <1>5, <1>9
  <2>2. \A k \in Places : r.key[k] = <<r.s, Bucket(r.laneGid0 + k)>>
    BY <1>5, <1>9
  <2> QED BY <1>5, <1>7, <2>1, <2>2 DEF GoodObject, CacheCurrent, Scheduled
<1> QED BY <1>5, <1>8, <1>9

\* What consume finds after its check: room for the call, and the gids at or above
\* those the object had in store.
LEMMA ReadyGood ==
    ASSUME NEW o, GoodObject(o), o.gid <= MaxGid, NEW K \in 1 .. BatchSize, NEW t \in Nat,
           t <= o.laneGid0 + o.keyUsed, t <= o.gid
    PROVE  /\ GoodObject(Ready(o, K)) /\ Ready(o, K).s = o.s
           /\ Ready(o, K).keyUsed + K <= BatchSize
           /\ t <= Ready(o, K).laneGid0 + Ready(o, K).keyUsed
<1>1. o \in Object /\ CacheCurrent(o)
  BY DEF GoodObject
<1>2. o.gid \in Nat /\ o.keyUsed \in 0 .. BatchSize /\ o.laneGid0 \in Nat
  BY <1>1 DEF Object, Gids
<1>3. CASE o.keyUsed + K > BatchSize
  <2>1. Ready(o, K) = Renewed(o)
    BY <1>3 DEF Ready
  <2>2. /\ GoodObject(Renewed(o)) /\ Renewed(o).s = o.s /\ Renewed(o).keyUsed = 0
        /\ Renewed(o).laneGid0 = o.gid
    BY <1>1, RenewedGood
  <2>3. 0 + K <= BatchSize /\ t <= o.gid + 0
    BY <1>2, MitccrhAssumption
  <2> QED BY <2>1, <2>2, <2>3
<1>4. CASE ~(o.keyUsed + K > BatchSize)
  <2>1. Ready(o, K) = o
    BY <1>4 DEF Ready
  <2> QED BY <1>2, <1>4, <2>1, MitccrhAssumption
<1> QED BY <1>3, <1>4

\* The object after a call.
LEMMA TakenGood ==
    ASSUME NEW o, GoodObject(o), NEW K \in 1 .. BatchSize, o.keyUsed + K <= BatchSize,
           NEW r, r \in Object, r.s = o.s, r.gid = o.gid, r.laneGid0 = o.laneGid0,
           r.bucket = o.bucket, r.key = o.key, r.keyUsed = o.keyUsed + K
    PROVE  /\ GoodObject(r) /\ r.laneGid0 + r.keyUsed = o.laneGid0 + o.keyUsed + K
           /\ r.gid = o.laneGid0 + BatchSize
<1>1. o \in Object /\ CacheCurrent(o) /\ Scheduled(o)
  BY DEF GoodObject
<1>2. o.keyUsed \in 0 .. BatchSize /\ o.laneGid0 \in Nat /\ BatchSize \in Nat
  BY <1>1, MitccrhAssumption DEF Object, Gids
<1>3. o.keyUsed < BatchSize /\ o.keyUsed + K \in 0 .. BatchSize
  BY <1>2
<1> QED BY <1>1, <1>2, <1>3 DEF GoodObject, CacheCurrent, Scheduled

\* Every lane of a call gets its own key.
LEMMA LanesGood ==
    ASSUME NEW o, GoodObject(o), NEW K \in 1 .. BatchSize, o.keyUsed + K <= BatchSize,
           NEW k \in 0 .. K - 1
    PROVE  LaneKey(o, k) = <<o.s, Bucket(LaneGid(o, k))>>
<1>1. o \in Object /\ CacheCurrent(o) /\ Scheduled(o)
  BY DEF GoodObject
<1>2. o.keyUsed \in 0 .. BatchSize /\ o.laneGid0 \in Nat /\ BatchSize \in Nat
  BY <1>1, MitccrhAssumption DEF Object, Gids
<1>3. o.keyUsed < BatchSize /\ o.keyUsed + k \in Places
  BY <1>2 DEF Places
<1>4. o.laneGid0 + (o.keyUsed + k) = LaneGid(o, k)
  BY <1>2 DEF LaneGid
<1>5. CASE o.bucket # NoBucket
  <2>1. Reuse /\ o.key[0] = <<o.s, o.bucket>>
    BY <1>1, <1>5 DEF CacheCurrent
  <2>2. Bucket(o.laneGid0 + (o.keyUsed + k)) = o.bucket
    BY <1>1, <1>3, <1>5 DEF Scheduled
  <2> QED BY <1>4, <1>5, <2>1, <2>2 DEF LaneKey
<1>6. CASE o.bucket = NoBucket
  <2>1. o.key[o.keyUsed + k] = <<o.s, Bucket(o.laneGid0 + (o.keyUsed + k))>>
    BY <1>1, <1>3, <1>6 DEF Scheduled
  <2> QED BY <1>4, <1>6, <2>1 DEF LaneKey
<1> QED BY <1>5, <1>6

\* A fresh MITCCRH, keys not yet scheduled, satisfies the invariant.
LEMMA InitHolds == Init => IInv
<1> SUFFICES ASSUME Init PROVE IInv
  OBVIOUS
<1>1. New \in Object
  BY MitccrhAssumption DEF New, Object, Gids, Points, Places, NoBucket
<1>2. /\ New.bucket = NoBucket /\ New.keyUsed = BatchSize /\ New.s = NoStart
      /\ New.gid = 0 /\ New.laneGid0 = 0
  BY DEF New
<1>3. GoodObject(New)
  BY <1>1, <1>2, MitccrhAssumption DEF GoodObject, CacheCurrent, Scheduled
<1>4. top \in [Points -> Nat] /\ top[NoStart] = 0
  BY DEF Init, Points
<1> QED BY <1>2, <1>3, <1>4, MitccrhAssumption DEF IInv, Init, KeysMatchGids, GidsAreFresh

\* Every call keeps the invariant: one step per operation of the class.
LEMMA StepHolds == IInv /\ [Next]_vars => IInv'
<1> SUFFICES ASSUME IInv, [Next]_vars PROVE IInv'
  OBVIOUS
<1>1. /\ GoodObject(m) /\ m \in Object /\ CacheCurrent(m) /\ top \in [Points -> Nat]
      /\ m.s \in Points /\ m.gid \in Nat /\ m.laneGid0 \in Nat /\ m.keyUsed \in 0 .. BatchSize
      /\ top[m.s] \in Nat /\ BatchSize \in Nat \ {0}
      /\ top[m.s] <= m.laneGid0 + m.keyUsed /\ top[m.s] <= m.gid
  BY MitccrhAssumption DEF IInv, GoodObject, Object, Gids, GidsAreFresh
<1>2. ASSUME NEW s \in Starts, SetS(s) PROVE IInv'
  <2>1. /\ m' = [s |-> s, gid |-> 0, keyUsed |-> BatchSize, bucket |-> NoBucket, laneGid0 |-> 0, key |-> m.key]
        /\ lanes' = lanes /\ top' = top /\ top[s] = 0
    BY <1>2 DEF SetS, WithS
  <2>2. /\ m'.s = s /\ m'.gid = 0 /\ m'.keyUsed = BatchSize /\ m'.bucket = NoBucket /\ m'.laneGid0 = 0
        /\ m' \in Object
    BY <1>1, <2>1, MitccrhAssumption DEF Object, Gids, Points
  <2>3. GoodObject(m')
    BY <1>1, <2>2 DEF GoodObject, CacheCurrent, Scheduled
  <2>4. GidsAreFresh'
    BY <1>1, <2>1, <2>2 DEF GidsAreFresh
  <2> QED BY <2>1, <2>3, <2>4 DEF IInv, KeysMatchGids
<1>3. ASSUME NEW o, o \in Object, CacheCurrent(o), o.s = m.s, o.gid <= MaxGid, top[m.s] <= o.gid,
             m' = Renewed(o), UNCHANGED <<lanes, top>>
      PROVE  IInv'
  <2>1. /\ GoodObject(m') /\ m'.s = m.s /\ m'.keyUsed = 0 /\ m'.laneGid0 = o.gid
        /\ m'.gid = o.gid + BatchSize
    BY <1>3, RenewedGood
  <2>2. o.gid \in Nat
    BY <1>3 DEF Object, Gids
  <2>3. GidsAreFresh'
    BY <1>1, <1>3, <2>1, <2>2 DEF GidsAreFresh
  <2> QED BY <1>1, <1>3, <2>1, <2>3 DEF IInv, KeysMatchGids
<1>4. ASSUME NEW g \in 0 .. MaxGid, RenewKsAt(g) PROVE IInv'
  <2> DEFINE o == [m EXCEPT !.gid = g]
  <2>1. /\ o \in Object /\ o.gid = g /\ o.s = m.s /\ o.bucket = m.bucket /\ o.key = m.key
    BY <1>1, MitccrhAssumption DEF Object, Gids
  <2>2. CacheCurrent(o)
    BY <1>1, <2>1 DEF CacheCurrent
  <2>3. top[m.s] <= g /\ m' = Renewed(o) /\ UNCHANGED <<lanes, top>> /\ g <= MaxGid
    BY <1>4, MitccrhAssumption DEF RenewKsAt
  <2> HIDE DEF o
  <2> QED BY <1>3, <2>1, <2>2, <2>3
<1>5. ASSUME RenewKs PROVE IInv'
  BY <1>1, <1>3, <1>5 DEF RenewKs
<1>6. ASSUME NEW K \in Lanes, Hash(K) PROVE IInv'
  <2>0. PICK o : o = Ready(m, K)
    OBVIOUS
  <2>1. K \in 1 .. BatchSize /\ m.gid <= MaxGid
    BY <1>6, MitccrhAssumption DEF Hash
  <2>2. /\ GoodObject(o) /\ o.s = m.s /\ o.keyUsed + K <= BatchSize
        /\ top[m.s] <= o.laneGid0 + o.keyUsed
    BY <1>1, <2>0, <2>1, ReadyGood
  <2>3. /\ m' = [o EXCEPT !.keyUsed = o.keyUsed + K]
        /\ lanes' = {[s |-> o.s, gid |-> LaneGid(o, k), key |-> LaneKey(o, k)] : k \in 0 .. K - 1}
        /\ top' = [top EXCEPT ![o.s] = LaneGid(o, K)]
    BY <1>6, <2>0 DEF Hash, Taken
  <2>4. /\ GoodObject(m') /\ m'.s = o.s /\ m'.laneGid0 + m'.keyUsed = o.laneGid0 + o.keyUsed + K
        /\ m'.gid = o.laneGid0 + BatchSize
    <3>1. PICK r : r = m'
      OBVIOUS
    <3>2. /\ r \in Object /\ r.s = o.s /\ r.gid = o.gid /\ r.laneGid0 = o.laneGid0
          /\ r.bucket = o.bucket /\ r.key = o.key /\ r.keyUsed = o.keyUsed + K
      <4>1. o \in Object /\ o.keyUsed + K \in 0 .. BatchSize
        BY <1>1, <2>1, <2>2 DEF GoodObject, Object
      <4> QED BY <2>3, <3>1, <4>1 DEF Object
    <3>3. /\ GoodObject(r) /\ r.laneGid0 + r.keyUsed = o.laneGid0 + o.keyUsed + K
          /\ r.gid = o.laneGid0 + BatchSize
      BY <2>1, <2>2, <3>2, TakenGood
    <3> QED BY <3>1, <3>2, <3>3
  <2>5. o.laneGid0 \in Nat /\ o.keyUsed \in Nat
    BY <2>2 DEF GoodObject, Object, Gids
  <2>6. LaneGid(o, K) = o.laneGid0 + o.keyUsed + K /\ LaneGid(o, K) \in Nat
    BY <2>1, <2>5 DEF LaneGid
  <2>7. top' \in [Points -> Nat] /\ top'[m'.s] = LaneGid(o, K)
    BY <1>1, <2>2, <2>3, <2>4, <2>6
  <2>8. GidsAreFresh'
    BY <1>1, <2>1, <2>2, <2>4, <2>5, <2>6, <2>7 DEF GidsAreFresh
  <2>9. \A k \in 0 .. K - 1 : LaneKey(o, k) = <<o.s, Bucket(LaneGid(o, k))>>
    BY <2>1, <2>2, LanesGood
  <2>10. KeysMatchGids'
    BY <2>3, <2>9 DEF KeysMatchGids
  <2> QED BY <2>4, <2>7, <2>8, <2>10 DEF IInv
<1>7. CASE UNCHANGED vars
  BY <1>7 DEF IInv, KeysMatchGids, GidsAreFresh, vars
<1> QED BY <1>2, <1>4, <1>5, <1>6, <1>7 DEF Next

\* The inductive invariant: cache, schedule and gid counter of MITCCRH stay consistent.
THEOREM InvariantHolds == Spec => []IInv
<1> QED BY InitHolds, StepHolds, PTL DEF Spec

\* MITCCRH hashes every lane under the key of its own bucket and start point, and
\* no pair of start point and gid twice, for every batch size, every monotone
\* bucketing of gids and every mix of call widths, renewals and forward jumps.
THEOREM LanesAreKeyed == Spec => []LanesKeyed
<1>1. IInv => LanesKeyed
  BY DEF IInv, LanesKeyed
<1> QED BY <1>1, InvariantHolds, PTL

(***************************************************************************)
(* Hashing                                                                 *)
(***************************************************************************)
HashTypeOK == /\ st \in Seq(Nat) /\ buffered \in Seq(Nat) /\ sent \in Nat
          /\ dgst \in [message : Seq(Nat), sent : Nat]
HashIInv == HashTypeOK /\ BufferHolds /\ DigestIsMessage

\* The message of n bytes: byte i is i.
Count(n) == [i \in 1 .. n |-> i]

\* A put of n bytes after m makes the message of m + n bytes.
LEMMA CountAppend ==
    ASSUME NEW l \in Nat, NEW n \in Nat
    PROVE  /\ Count(l) \in Seq(Nat) /\ [i \in 1 .. n |-> l + i] \in Seq(Nat)
           /\ Len([i \in 1 .. n |-> l + i]) = n
           /\ Count(l) \o [i \in 1 .. n |-> l + i] = Count(l + n)
  <1> DEFINE b == [i \in 1 .. n |-> l + i]
  <1>1. Count(l) \in Seq(Nat) /\ Len(Count(l)) = l /\ b \in Seq(Nat) /\ Len(b) = n
        /\ Count(l + n) \in Seq(Nat) /\ Len(Count(l + n)) = l + n
    BY IsASeq DEF Count
  <1> DEFINE c == Count(l) \o b
  <1>2. c \in Seq(Nat) /\ Len(c) = l + n
    BY <1>1, ConcatProperties
  <1>3. \A i \in 1 .. l + n : c[i] = i
    BY <1>1 DEF Count
  <1>4. \A i \in 1 .. l + n : c[i] = Count(l + n)[i]
    BY <1>3 DEF Count
  <1>5. c = Count(l + n)
    BY <1>1, <1>2, <1>4, SeqEqual, ZenonT(20)
  <1> QED
    BY <1>1, <1>5, ZenonT(20)

\* Concatenation of messages is associative.
LEMMA Assoc == \A s, t, u \in Seq(Nat) : (s \o t) \o u = s \o (t \o u)
  BY SMTT(30)

\* The bytes in the algorithm followed by the buffered ones stay the message,
\* whether a put commits the buffer, bypasses it or both.
LEMMA PutOK == ASSUME HashIInv, NEW n \in 0 .. MaxPut, Put(n) PROVE HashIInv'
  <1> DEFINE b == [i \in 1 .. n |-> sent + i]
  <1>1. n \in Nat /\ BufBytes \in Nat \ {0}
    BY HashAssumption DEF HashAssumption
  <1>2. /\ st \in Seq(Nat) /\ buffered \in Seq(Nat) /\ sent \in Nat /\ Len(buffered) \in Nat
        /\ Len(buffered) <= BufBytes /\ st \o buffered = Count(sent)
    BY DEF HashIInv, HashTypeOK, BufferHolds, Count
  <1>3. b \in Seq(Nat) /\ (st \o buffered) \o b = Count(sent + n) /\ Len(b) = n /\ st \o buffered \in Seq(Nat)
    <2>1. b \in Seq(Nat) /\ Count(sent) \o b = Count(sent + n) /\ Len(b) = n /\ Count(sent) \in Seq(Nat)
      BY <1>1, <1>2, CountAppend, ZenonT(20)
    <2> QED
      BY <1>2, <2>1, ZenonT(20)
  <1>4. /\ sent' = sent + n /\ dgst' = dgst
        /\ \/ st' = st /\ buffered' = buffered \o b /\ n <= BufBytes - Len(buffered)
           \/ st' = st \o buffered /\ buffered' = b /\ n <= BufBytes
           \/ st' = (st \o buffered) \o b /\ buffered' = <<>>
    <2> HIDE DEF b
    <2>1. Bytes(n) = b
      BY DEF Bytes, b
    <2>2. /\ (st \o buffered) \o <<>> = st \o buffered /\ st \o <<>> = st /\ buffered \o <<>> = buffered
          /\ <<>> \o b = b /\ <<>> \o <<>> = <<>>
      BY <1>2, <1>3, ConcatEmptySeq
    <2>3. CASE n > BufBytes - Len(buffered) /\ n >= BufBytes
      BY <2>1, <2>2, <2>3 DEF Put
    <2>4. CASE n > BufBytes - Len(buffered) /\ ~(n >= BufBytes)
      <3>1. st' = st \o buffered /\ buffered' = b /\ sent' = sent + n /\ dgst' = dgst
        BY <2>1, <2>2, <2>4 DEF Put
      <3> QED
        BY <1>1, <2>4, <3>1
    <2>5. CASE ~(n > BufBytes - Len(buffered)) /\ n >= BufBytes
      <3>1. Len(buffered) = 0
        BY <1>1, <1>2, <2>5
      <3>2. buffered = <<>>
        BY <1>2, <3>1, EmptySeq
      <3> QED
        BY <2>1, <2>2, <2>5, <3>2 DEF Put
    <2>6. CASE ~(n > BufBytes - Len(buffered)) /\ ~(n >= BufBytes)
      <3>1. st' = st /\ buffered' = buffered \o b /\ sent' = sent + n /\ dgst' = dgst
        BY <2>1, <2>2, <2>6 DEF Put
      <3> QED
        BY <1>1, <1>2, <2>6, <3>1
    <2> QED
      BY <2>3, <2>4, <2>5, <2>6
  <1> HIDE DEF b
  <1>5. /\ st' \in Seq(Nat) /\ buffered' \in Seq(Nat) /\ Len(buffered') <= BufBytes
        /\ st' \o buffered' = (st \o buffered) \o b
    <2>1. CASE st' = st /\ buffered' = buffered \o b /\ n <= BufBytes - Len(buffered)
      <3>1. buffered \o b \in Seq(Nat) /\ Len(buffered \o b) = Len(buffered) + n
        BY <1>2, <1>3, ConcatProperties, ZenonT(20)
      <3>2. st \o (buffered \o b) = (st \o buffered) \o b
        <4>1. st \in Seq(Nat) /\ buffered \in Seq(Nat) /\ b \in Seq(Nat)
          BY <1>2, <1>3
        <4> QED
          BY <4>1, Assoc, Zenon
      <3>3. Len(buffered) + n <= BufBytes
        BY <1>1, <1>2, <2>1
      <3> QED
        BY <1>2, <2>1, <3>1, <3>2, <3>3
    <2>2. CASE st' = st \o buffered /\ buffered' = b /\ n <= BufBytes
      BY <1>2, <1>3, <2>2
    <2>3. CASE st' = (st \o buffered) \o b /\ buffered' = <<>>
      <3>1. (st \o buffered) \o b \in Seq(Nat)
        BY <1>3, ConcatProperties, ZenonT(20)
      <3>2. ((st \o buffered) \o b) \o <<>> = (st \o buffered) \o b
        BY <3>1, ConcatEmptySeq
      <3> QED
        BY <1>1, <2>3, <3>1, <3>2
    <2> QED
      BY <1>4, <2>1, <2>2, <2>3, ZenonT(20)
  <1> QED
    BY <1>1, <1>2, <1>3, <1>4, <1>5 DEF HashIInv, HashTypeOK, BufferHolds, DigestIsMessage, Count

\* A digest commits the buffer before it finishes or copies the message.
LEMMA DigestOK == ASSUME HashIInv, NEW r \in BOOLEAN, Digest(r) PROVE HashIInv'
  <1>1. /\ st \in Seq(Nat) /\ buffered \in Seq(Nat) /\ sent \in Nat
        /\ st \o buffered = Count(sent) /\ st \o buffered \in Seq(Nat)
        /\ BufBytes \in Nat
    BY HashAssumption DEF HashIInv, HashTypeOK, BufferHolds, Count, HashAssumption
  <1>2. /\ buffered' = <<>> /\ dgst' = [message |-> st \o buffered, sent |-> sent]
        /\ \/ st' = <<>> /\ sent' = 0
           \/ st' = st \o buffered /\ sent' = sent
    BY DEF Digest
  <1>3. HashTypeOK'
    <2>1. st' \in Seq(Nat) /\ buffered' \in Seq(Nat) /\ sent' \in Nat
      <3> DEFINE whole == st \o buffered
      <3>1. whole \in Seq(Nat) /\ sent \in Nat /\ <<>> \in Seq(Nat)
        BY <1>1, EmptySeq, Zenon
      <3>2. buffered' = <<>> /\ ((st' = <<>> /\ sent' = 0) \/ (st' = whole /\ sent' = sent))
        BY <1>2
      <3> HIDE DEF whole
      <3>3. sent' \in Nat
        BY <3>1, <3>2
      <3> QED
        BY <3>1, <3>2, <3>3, Zenon
    <2>2. dgst' \in [message : Seq(Nat), sent : Nat]
      BY <1>1, <1>2
    <2> QED
      BY <2>1, <2>2 DEF HashTypeOK
  <1>4. st' \o buffered' = Count(sent')
    <2>1. (st \o buffered) \o <<>> = st \o buffered /\ <<>> \o <<>> = <<>> /\ Count(0) = <<>>
      BY <1>1, ConcatEmptySeq DEF Count
    <2> QED
      BY <1>1, <1>2, <2>1
  <1>5. DigestIsMessage'
    <2>1. dgst'.message = st \o buffered /\ dgst'.sent = sent
      BY <1>2
    <2> QED
      BY <1>1, <2>1 DEF DigestIsMessage, Count
  <1> QED
    BY <1>1, <1>2, <1>3, <1>4, <1>5 DEF HashIInv, BufferHolds, Count

\* The message, the buffer and the last digest stay consistent throughout.
THEOREM HashInvariant == HashSpec => []HashIInv
  <1>1. HashInit => HashIInv
    BY HashAssumption DEF HashInit, HashIInv, HashTypeOK, BufferHolds, DigestIsMessage, HashAssumption
  <1>2. HashIInv /\ [HashNext]_hashVars => HashIInv'
    <2> SUFFICES ASSUME HashIInv, [HashNext]_hashVars PROVE HashIInv'
      OBVIOUS
    <2>1. CASE Reset
      BY <2>1, HashAssumption DEF Reset, HashIInv, HashTypeOK, BufferHolds, DigestIsMessage, HashAssumption
    <2>2. CASE UNCHANGED hashVars
      BY <2>2 DEF hashVars, HashIInv, HashTypeOK, BufferHolds, DigestIsMessage
    <2> QED
      BY <2>1, <2>2, PutOK, DigestOK DEF HashNext
  <1> QED
    BY <1>1, <1>2, PTL DEF HashSpec

\* A digest is of exactly the bytes put since the last reset, in order, and the
\* coalescing buffer never overflows: for every buffer size, every length of put,
\* snapshots and resets.
THEOREM HashIsOfMessage == HashSpec => []HashesMessage
<1>1. HashIInv => HashesMessage
  BY DEF HashIInv, HashesMessage
<1> QED BY <1>1, HashInvariant, PTL

(*****************************************************************************)
(* TlsSetup                                                                  *)
(*****************************************************************************)
TlsPlaces == {"tcp", "configure", "handshake", "hello_sent", "flight_sent", "check", "up", "dead"}
Fin == {"finished", "finished_cert"}

TlsTypeOK ==
    /\ cfg \in [Parties -> AllConfigs]
    /\ pc \in [Parties -> TlsPlaces]
    /\ isTlsServer \in [Parties -> BOOLEAN]
    /\ mode \in [Parties -> SUBSET {"peer", "fail_if_no_cert"}]
    /\ onWire \in [Parties -> SUBSET ({"hello", "flight"} \cup Fin)]
    /\ peerCert \in [Parties -> {"none", "no_key", "mismatch", "good", "bad"}]

\* A certificate on the wire is one its sender could load.
WireHonest(p) == onWire[p] \cap {"flight", "finished_cert"} # {} => HasCert(p)
\* Only a client sends Finished, and it is then past its handshake and stays alive.
FinishedMeansSound(p) == onWire[p] \cap Fin # {} => ~isTlsServer[p] /\ pc[p] \in {"check", "up"}
Untouched(p) == pc[p] = "tcp" => onWire[p] = {}
ModeIsSet(p) == pc[p] \in {"handshake", "hello_sent", "flight_sent"} => mode[p] = VerifyMode(p)
CertIsPeers(p) == peerCert[p] # "none" => peerCert[p] = cfg[Peer(p)].pair /\ HasCert(Peer(p))
ClientSawGood(p) ==
    pc[p] = "check" /\ ~isTlsServer[p] => peerCert[p] # "none" /\ (~cfg[p].skip => peerCert[p] # "bad")
ServerSawFinished(p) == isTlsServer[p] /\ pc[p] \in {"check", "up"} => onWire[Peer(p)] \cap Fin # {}
UpIsChecked(p) ==
    pc[p] = "up" /\ ~cfg[p].skip
        => peerCert[p] # "bad" /\ ((isTlsServer[p] => cfg[p].require) => peerCert[p] # "none")

PartyInv(p) == /\ WireHonest(p) /\ FinishedMeansSound(p) /\ Untouched(p) /\ ModeIsSet(p) /\ CertIsPeers(p)
               /\ ClientSawGood(p) /\ ServerSawFinished(p) /\ UpIsChecked(p)
SetupInv == TlsTypeOK /\ \A p \in Parties : PartyInv(p)

(***************************************************************************)
(* Lemmas                                                                  *)
(***************************************************************************)
\* The two ends of a connection are each other's peer (Peer).
LEMMA PeerFacts ==
    ASSUME NEW p \in Parties
    PROVE  /\ Peer(p) \in Parties /\ Peer(p) # p /\ Peer(Peer(p)) = p
           /\ \A q \in Parties : q = p \/ q = Peer(p)
  <1>1. Peer("acceptor") = "connector" /\ Peer("connector") = "acceptor"
    BY DEF Peer, Parties
  <1> QED
    BY <1>1 DEF Parties

\* VerifyMode asks for the peer's certificate exactly when verification is on.
LEMMA ModeFacts ==
    ASSUME NEW p \in Parties
    PROVE  /\ VerifyMode(p) \in SUBSET {"peer", "fail_if_no_cert"}
           /\ ~cfg[p].skip => "peer" \in VerifyMode(p)
  BY DEF VerifyMode

\* The parties before the TCP connection: the constructors' members are unset.
LEMMA TlsInitOK == TlsInit => SetupInv
  <1> SUFFICES ASSUME TlsInit PROVE SetupInv
    OBVIOUS
  <1>1. TlsTypeOK
    BY ConfigsAssumption DEF TlsInit, TlsTypeOK, TlsPlaces
  <1>2. ASSUME NEW p \in Parties PROVE PartyInv(p)
    BY DEF TlsInit, PartyInv, WireHonest, FinishedMeansSound, Untouched, ModeIsSet, CertIsPeers,
           ClientSawGood, ServerSawFinished, UpIsChecked
  <1> QED
    BY <1>1, <1>2 DEF SetupInv

\* The constructors fix the TLS roles of both parties before anything is on the wire.
LEMMA ConstructOK == SetupInv /\ ConstructBoth => SetupInv'
  <1> SUFFICES ASSUME SetupInv, ConstructBoth PROVE SetupInv'
    OBVIOUS
  <1>1. TlsTypeOK'
    <2>1. isTlsServer' \in [Parties -> BOOLEAN]
      BY ZenonT(30) DEF ConstructBoth, SetupInv, TlsTypeOK, AllConfigs, CfgServer
    <2> QED
      BY <2>1 DEF ConstructBoth, SetupInv, TlsTypeOK, TlsPlaces
  <1>2. ASSUME NEW p \in Parties PROVE PartyInv(p)'
    <2>1. pc'[p] = "configure" /\ onWire'[p] = {} /\ peerCert' = peerCert /\ cfg' = cfg
      BY DEF ConstructBoth, SetupInv, PartyInv, Untouched
    <2>2. CertIsPeers(p)
      BY DEF SetupInv, PartyInv
    <2> QED
      BY <2>1, <2>2 DEF PartyInv, WireHonest, FinishedMeansSound, Untouched, ModeIsSet, CertIsPeers,
             ClientSawGood, ServerSawFinished, UpIsChecked, HasCert
  <1> QED
    BY <1>1, <1>2 DEF SetupInv

\* What a step of party p leaves alone, as all of them do: the other party, the
\* configurations and roles; and nothing is taken off the wire.
Local(p) == /\ cfg' = cfg /\ isTlsServer' = isTlsServer
            /\ \A q \in Parties \ {p} : /\ pc'[q] = pc[q] /\ mode'[q] = mode[q]
                                        /\ onWire'[q] = onWire[q] /\ peerCert'[q] = peerCert[q]
            /\ onWire[p] \subseteq onWire'[p]

\* Every step of a party after Construct is local to it.
LEMMA StepLocal ==
    ASSUME TlsTypeOK, NEW p \in Parties, Step(p)
    PROVE  Local(p) /\ TlsTypeOK'
  <1> USE DEF TlsTypeOK, TlsPlaces, Die, Goto, Quiet, Sends, Local, Fin
  <1>1. CASE Configure(p)
    BY <1>1, ModeFacts DEF Configure
  <1>2. CASE SslConnect(p)
    <2>1. cfg[Peer(p)].pair \in {"none", "no_key", "mismatch", "good", "bad"}
      BY PeerFacts DEF AllConfigs
    <2> QED
      BY <1>2, <2>1, PeerFacts DEF SslConnect
  <1>3. CASE SslAccept(p)
    <2>1. cfg[Peer(p)].pair \in {"none", "no_key", "mismatch", "good", "bad"}
      BY PeerFacts DEF AllConfigs
    <2> QED
      BY <1>3, <2>1, PeerFacts DEF SslAccept
  <1>4. CASE PeerGone(p)
    BY <1>4 DEF PeerGone
  <1>5. CASE Check(p)
    <2>1. /\ cfg' = cfg /\ isTlsServer' = isTlsServer /\ mode' = mode /\ onWire' = onWire
          /\ peerCert' = peerCert
          /\ pc' = [pc EXCEPT ![p] = "dead"] \/ pc' = [pc EXCEPT ![p] = "up"]
      BY <1>5, Zenon DEF Check
    <2> QED
      BY <2>1
  <1> QED
    BY <1>1, <1>2, <1>3, <1>4, <1>5 DEF Step

\* A local step of p keeps what is known of the other party: it can only add to
\* what that party has been sent.
LEMMA OtherOK ==
    ASSUME SetupInv, NEW p \in Parties, Local(p), NEW q \in Parties, q # p
    PROVE  PartyInv(q)'
  <1>1. PartyInv(q) /\ Peer(q) = p
    BY PeerFacts DEF SetupInv
  <1>2. /\ cfg' = cfg /\ isTlsServer' = isTlsServer /\ onWire[p] \subseteq onWire'[p]
        /\ pc'[q] = pc[q] /\ mode'[q] = mode[q] /\ onWire'[q] = onWire[q] /\ peerCert'[q] = peerCert[q]
    BY DEF Local
  <1>3. VerifyMode(q)' = VerifyMode(q)
    BY <1>2 DEF VerifyMode, CfgServer
  <1> QED
    BY <1>1, <1>2, <1>3 DEF PartyInv, WireHonest, FinishedMeansSound, Untouched, ModeIsSet, CertIsPeers,
           ClientSawGood, ServerSawFinished, UpIsChecked, HasCert

\* A party that is not past its handshake has sent no Finished.
LEMMA NotFinished ==
    ASSUME NEW p \in Parties, PartyInv(p), pc[p] \notin {"check", "up"}
    PROVE  onWire[p] \cap Fin = {}
  BY Zenon DEF PartyInv, FinishedMeansSound

\* What is known of a party whose process ends (die): a client that has sent Finished
\* does not.
LEMMA DeathOK ==
    ASSUME NEW p \in Parties, PartyInv(p), cfg' = cfg, pc'[p] = "dead",
           onWire'[p] = onWire[p], peerCert'[p] = peerCert[p], onWire[p] \cap Fin = {}
    PROVE  PartyInv(p)'
  <1>1. WireHonest(p) /\ CertIsPeers(p)
    BY Zenon DEF PartyInv
  <1>2. WireHonest(p)'
    BY <1>1, Zenon DEF WireHonest, HasCert
  <1>3. FinishedMeansSound(p)'
    BY Zenon DEF FinishedMeansSound
  <1>4. CertIsPeers(p)'
    BY <1>1, Zenon DEF CertIsPeers, HasCert
  <1>5. Untouched(p)' /\ ModeIsSet(p)'
    BY DEF Untouched, ModeIsSet
  <1>6. ClientSawGood(p)' /\ ServerSawFinished(p)' /\ UpIsChecked(p)'
    BY DEF ClientSawGood, ServerSawFinished, UpIsChecked
  <1> QED
    BY <1>2, <1>3, <1>4, <1>5, <1>6, Zenon DEF PartyInv

\* And of one that moves on to or in its handshake, with what it may have sent by then.
LEMMA ProgressOK ==
    ASSUME NEW p \in Parties, PartyInv(p), cfg' = cfg, VerifyMode(p)' = VerifyMode(p),
           pc'[p] \in {"handshake", "hello_sent", "flight_sent"}, mode'[p] = VerifyMode(p),
           peerCert'[p] = peerCert[p], onWire'[p] \cap Fin = {}, "flight" \in onWire'[p] => HasCert(p)
    PROVE  PartyInv(p)'
  <1>1. CertIsPeers(p)
    BY Zenon DEF PartyInv
  <1>2. WireHonest(p)'
    BY DEF WireHonest, HasCert, Fin
  <1>3. FinishedMeansSound(p)'
    BY Zenon DEF FinishedMeansSound
  <1>4. CertIsPeers(p)'
    BY <1>1, Zenon DEF CertIsPeers, HasCert
  <1>5. Untouched(p)' /\ ModeIsSet(p)'
    BY DEF Untouched, ModeIsSet
  <1>6. ClientSawGood(p)' /\ ServerSawFinished(p)' /\ UpIsChecked(p)'
    BY DEF ClientSawGood, ServerSawFinished, UpIsChecked
  <1> QED
    BY <1>2, <1>3, <1>4, <1>5, <1>6, Zenon DEF PartyInv

\* And of one whose handshake call returned, or whose check passed: its certificate is
\* the peer's, and good enough.
LEMMA ReturnOK ==
    ASSUME NEW p \in Parties, cfg' = cfg, isTlsServer' = isTlsServer, pc'[p] \in {"check", "up"},
           WireHonest(p)', CertIsPeers(p)', ClientSawGood(p)', UpIsChecked(p)',
           isTlsServer[p] => onWire'[p] \cap Fin = {} /\ onWire'[Peer(p)] \cap Fin # {}
    PROVE  PartyInv(p)'
  <1>1. FinishedMeansSound(p)'
    BY Zenon DEF FinishedMeansSound
  <1>2. Untouched(p)' /\ ModeIsSet(p)'
    BY DEF Untouched, ModeIsSet
  <1>3. ServerSawFinished(p)'
    BY Zenon DEF ServerSawFinished
  <1> QED
    BY <1>1, <1>2, <1>3, Zenon DEF PartyInv

\* The step of each call of init_from_sock keeps what is known of the party that takes it.
LEMMA OwnOK ==
    ASSUME SetupInv, NEW p \in Parties, Step(p)
    PROVE  PartyInv(p)'
  <1>1. PICK q \in Parties : q = Peer(p) /\ q # p
    BY PeerFacts
  <1>2. PartyInv(p) /\ PartyInv(q) /\ TlsTypeOK /\ Local(p)
    BY StepLocal, Zenon DEF SetupInv
  <1>3. /\ cfg' = cfg /\ isTlsServer' = isTlsServer /\ onWire'[q] = onWire[q]
        /\ VerifyMode(p)' = VerifyMode(p)
    BY <1>1, <1>2 DEF Local, VerifyMode, CfgServer
  <1>4. /\ pc \in [Parties -> TlsPlaces] /\ mode \in [Parties -> SUBSET {"peer", "fail_if_no_cert"}]
        /\ onWire \in [Parties -> SUBSET ({"hello", "flight"} \cup Fin)]
        /\ peerCert \in [Parties -> {"none", "no_key", "mismatch", "good", "bad"}]
    BY <1>2, Zenon DEF TlsTypeOK
  <1>5. WireHonest(p) /\ WireHonest(q) /\ ModeIsSet(p) /\ CertIsPeers(p) /\ ClientSawGood(p)
        /\ FinishedMeansSound(p) /\ ServerSawFinished(p)
    BY <1>2, Zenon DEF PartyInv
  <1>6. pc[p] \notin {"check", "up"} => onWire[p] \cap Fin = {}
    BY <1>2, NotFinished, Zenon
  <1>7. CASE Configure(p)
    <2>1. pc[p] = "configure" /\ onWire' = onWire /\ peerCert' = peerCert
      BY <1>7, Zenon DEF Configure
    <2>2. onWire[p] \cap Fin = {} /\ ("flight" \in onWire[p] => HasCert(p))
      BY <1>5, <1>6, <2>1 DEF WireHonest
    <2>3. CASE Die(p)
      <3>1. pc'[p] = "dead"
        BY <1>4, <2>3 DEF Die
      <3> QED
        BY <1>2, <1>3, <2>1, <2>2, <3>1, DeathOK
    <2>4. CASE mode' = [mode EXCEPT ![p] = VerifyMode(p)] /\ Goto(p, "handshake")
      <3>1. pc'[p] = "handshake" /\ mode'[p] = VerifyMode(p)
        BY <1>4, <2>4 DEF Goto
      <3> QED
        BY <1>2, <1>3, <2>1, <2>2, <3>1, ProgressOK
    <2> QED
      BY <1>7, <2>3, <2>4, Zenon DEF Configure
  <1>8. CASE SslConnect(p)
    <2>1. ~isTlsServer[p] /\ mode' = mode /\ pc[p] \in {"handshake", "hello_sent"}
      BY <1>8 DEF SslConnect
    <2>2. mode'[p] = VerifyMode(p) /\ onWire[p] \cap Fin = {}
      BY <1>5, <1>6, <2>1 DEF ModeIsSet
    <2>3. CASE Die(p) /\ Quiet
      <3>1. pc'[p] = "dead" /\ onWire' = onWire /\ peerCert' = peerCert
        BY <1>4, <2>3 DEF Die, Quiet
      <3> QED
        BY <1>2, <1>3, <2>2, <3>1, DeathOK
    <2>4. CASE Sends(p, "hello") /\ UNCHANGED peerCert /\ Goto(p, "hello_sent")
      <3>1. pc'[p] = "hello_sent" /\ onWire'[p] = onWire[p] \cup {"hello"} /\ peerCert' = peerCert
        BY <1>4, <2>4 DEF Goto, Sends
      <3>2. onWire'[p] \cap Fin = {} /\ ("flight" \in onWire'[p] => HasCert(p))
        BY <1>5, <2>2, <3>1 DEF WireHonest, Fin
      <3> QED
        BY <1>2, <1>3, <2>2, <3>1, <3>2, ProgressOK
    <2>5. CASE /\ "flight" \in onWire[q] /\ ~("peer" \in mode[p] /\ cfg[q].pair = "bad")
               /\ Sends(p, IF "peer" \in mode[q] /\ HasCert(p) THEN "finished_cert" ELSE "finished")
               /\ peerCert' = [peerCert EXCEPT ![p] = cfg[q].pair] /\ Goto(p, "check")
      <3>1. pc'[p] = "check" /\ peerCert'[p] = cfg[q].pair
        BY <1>4, <2>5 DEF Goto
      <3>2. \/ onWire'[p] = onWire[p] \cup {"finished"}
            \/ HasCert(p) /\ onWire'[p] = onWire[p] \cup {"finished_cert"}
        BY <1>4, <2>5 DEF Sends
      <3>3. HasCert(q) /\ cfg[q].pair # "none"
        BY <1>5, <2>5 DEF WireHonest, HasCert
      <3>4. ~cfg[p].skip => cfg[q].pair # "bad"
        BY <2>1, <2>2, <2>5, ModeFacts, Zenon
      <3>5. WireHonest(p)'
        BY <1>3, <1>5, <3>2 DEF WireHonest, HasCert
      <3>6. CertIsPeers(p)'
        BY <1>1, <1>3, <3>1, <3>3, Zenon DEF CertIsPeers, HasCert
      <3>7. ClientSawGood(p)' /\ UpIsChecked(p)'
        BY <1>3, <3>1, <3>3, <3>4 DEF ClientSawGood, UpIsChecked
      <3> QED
        BY <1>3, <2>1, <3>1, <3>5, <3>6, <3>7, ReturnOK, ZenonT(30)
    <2> QED
      BY <1>1, <1>8, <2>3, <2>4, <2>5, ZenonT(30) DEF SslConnect
  <1>9. CASE SslAccept(p)
    <2>1. isTlsServer[p] /\ mode' = mode /\ pc[p] \in {"handshake", "flight_sent"}
      BY <1>9 DEF SslAccept
    <2>2. mode'[p] = VerifyMode(p) /\ onWire[p] \cap Fin = {}
      BY <1>5, <1>6, <2>1 DEF ModeIsSet
    <2>3. CASE Die(p) /\ Quiet
      <3>1. pc'[p] = "dead" /\ onWire' = onWire /\ peerCert' = peerCert
        BY <1>4, <2>3 DEF Die, Quiet
      <3> QED
        BY <1>2, <1>3, <2>2, <3>1, DeathOK
    <2>4. CASE HasCert(p) /\ Sends(p, "flight") /\ UNCHANGED peerCert /\ Goto(p, "flight_sent")
      <3>1. pc'[p] = "flight_sent" /\ onWire'[p] = onWire[p] \cup {"flight"} /\ peerCert' = peerCert
        BY <1>4, <2>4 DEF Goto, Sends
      <3>2. onWire'[p] \cap Fin = {}
        BY <2>2, <3>1 DEF Fin
      <3> QED
        BY <1>2, <1>3, <2>2, <2>4, <3>1, <3>2, ProgressOK
    <2>5. CASE \E cert : /\ cert = (IF "finished_cert" \in onWire[q] THEN cfg[q].pair ELSE "none")
                         /\ onWire[q] \cap {"finished", "finished_cert"} # {}
                         /\ peerCert' = [peerCert EXCEPT ![p] = cert]
                         /\ UNCHANGED onWire /\ Goto(p, "check")
      <3>1. /\ pc'[p] = "check" /\ onWire' = onWire /\ onWire[q] \cap Fin # {}
            /\ peerCert'[p] = "none" \/ ("finished_cert" \in onWire[q] /\ peerCert'[p] = cfg[q].pair)
        BY <1>4, <2>5 DEF Goto, Fin
      <3>2. WireHonest(p)'
        BY <1>3, <1>5, <3>1, Zenon DEF WireHonest, HasCert
      <3>3. peerCert'[p] # "none" => peerCert'[p] = cfg[q].pair /\ HasCert(q)
        BY <1>5, <3>1 DEF WireHonest
      <3>4. CertIsPeers(p)'
        BY <1>1, <1>3, <3>3, Zenon DEF CertIsPeers, HasCert
      <3>5. ClientSawGood(p)' /\ UpIsChecked(p)'
        BY <1>3, <2>1, <3>1 DEF ClientSawGood, UpIsChecked
      <3> QED
        BY <1>1, <1>3, <2>2, <3>1, <3>2, <3>4, <3>5, ReturnOK, ZenonT(30)
    <2> QED
      BY <1>1, <1>9, <2>3, <2>4, <2>5, ZenonT(30) DEF SslAccept
  <1>10. CASE PeerGone(p)
    <2>1. /\ pc[p] \in {"handshake", "hello_sent", "flight_sent"} /\ pc'[p] = "dead"
          /\ onWire' = onWire /\ peerCert' = peerCert
      BY <1>4, <1>10 DEF PeerGone, Die, Quiet
    <2> QED
      BY <1>2, <1>3, <1>6, <2>1, DeathOK
  <1>11. CASE Check(p)
    <2>1. pc[p] = "check" /\ onWire' = onWire /\ peerCert' = peerCert
      BY <1>11, Zenon DEF Check, Quiet
    <2>2. isTlsServer[p] => onWire[p] \cap Fin = {} /\ onWire[q] \cap Fin # {}
      BY <1>1, <1>5, <2>1 DEF FinishedMeansSound, ServerSawFinished
    <2>3. CASE /\ ~cfg[p].skip /\ Die(p)
               /\ peerCert[p] = "bad" \/ ((isTlsServer[p] => cfg[p].require) /\ peerCert[p] = "none")
      <3>1. pc'[p] = "dead"
        BY <1>4, <2>3 DEF Die
      <3>2. isTlsServer[p]
        BY <1>5, <2>1, <2>3, Zenon DEF ClientSawGood
      <3> QED
        BY <1>2, <1>3, <2>1, <2>2, <3>1, <3>2, DeathOK
    <2>4. CASE /\ Goto(p, "up")
               /\ ~(/\ ~cfg[p].skip
                    /\ peerCert[p] = "bad" \/ ((isTlsServer[p] => cfg[p].require) /\ peerCert[p] = "none"))
      <3>1. pc'[p] = "up"
        BY <1>4, <2>4 DEF Goto
      <3>2. WireHonest(p)' /\ CertIsPeers(p)'
        BY <1>3, <1>5, <2>1, Zenon DEF WireHonest, CertIsPeers, HasCert
      <3>3. ClientSawGood(p)'
        BY <3>1 DEF ClientSawGood
      <3>4. UpIsChecked(p)'
        BY <1>3, <2>1, <2>4, Zenon DEF UpIsChecked
      <3> QED
        BY <1>1, <1>3, <2>1, <2>2, <3>1, <3>2, <3>3, <3>4, ReturnOK, ZenonT(30)
    <2> QED
      BY <1>11, <2>3, <2>4, Zenon DEF Check
  <1> QED
    BY <1>7, <1>8, <1>9, <1>10, <1>11, Zenon DEF Step

(***************************************************************************)
(* Theorems                                                                *)
(***************************************************************************)
\* Everything known of the two constructors holds throughout.
THEOREM SetupInvariant == TlsSpec => []SetupInv
  <1>1. SetupInv /\ [TlsNext]_tlsVars => SetupInv'
    <2> SUFFICES ASSUME SetupInv, [TlsNext]_tlsVars PROVE SetupInv'
      OBVIOUS
    <2>1. CASE ConstructBoth
      BY <2>1, ConstructOK
    <2>2. ASSUME NEW p \in Parties, Step(p) PROVE SetupInv'
      <3>1. Local(p) /\ TlsTypeOK'
        BY <2>2, StepLocal DEF SetupInv
      <3>2. \A q \in Parties : PartyInv(q)'
        BY <2>2, <3>1, OwnOK, OtherOK
      <3> QED
        BY <3>1, <3>2 DEF SetupInv
    <2>3. CASE UNCHANGED tlsVars
      BY <2>3 DEF tlsVars, SetupInv, TlsTypeOK, PartyInv, WireHonest, FinishedMeansSound, Untouched, ModeIsSet,
             CertIsPeers, ClientSawGood, ServerSawFinished, UpIsChecked, HasCert, VerifyMode, CfgServer
    <2> QED
      BY <2>1, <2>2, <2>3 DEF TlsNext
  <1> QED
    BY <1>1, TlsInitOK, PTL DEF TlsSpec

\* A constructor that returned with verification on has a peer with a good
\* certificate wherever it expects one, whatever role each constructor was given;
\* and when the TLS server's has returned, the client's SSL_connect has succeeded
\* and the client does not fail afterwards.
THEOREM HandshakeIsSound == TlsSpec => []HandshakeSound
  <1>1. SetupInv => PeerVerified
    <2> SUFFICES ASSUME SetupInv, NEW p \in Parties, pc[p] = "up", ~cfg[p].skip,
                        isTlsServer[p] => cfg[p].require
                 PROVE  peerCert[p] = "good" /\ cfg[Peer(p)].pair = "good"
      BY Zenon DEF PeerVerified
    <2>1. UpIsChecked(p) /\ CertIsPeers(p)
      BY Zenon DEF SetupInv, PartyInv
    <2>2. peerCert[p] # "bad" /\ peerCert[p] # "none"
      BY <2>1, Zenon DEF UpIsChecked
    <2> QED
      BY <2>1, <2>2 DEF CertIsPeers, HasCert
  <1>2. SetupInv => ServerUpClientSound
    <2> SUFFICES ASSUME SetupInv, NEW p \in Parties, isTlsServer[p], pc[p] = "up"
                 PROVE  pc[Peer(p)] \in {"check", "up"}
      BY Zenon DEF ServerUpClientSound
    <2>1. ServerSawFinished(p) /\ FinishedMeansSound(Peer(p))
      BY PeerFacts, Zenon DEF SetupInv, PartyInv
    <2> QED
      BY <2>1 DEF ServerSawFinished, FinishedMeansSound
  <1>3. SetupInv => HandshakeSound
    BY <1>1, <1>2 DEF HandshakeSound
  <1> QED
    BY <1>3, SetupInvariant, PTL
=============================================================================
