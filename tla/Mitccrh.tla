------------------------------ MODULE Mitccrh -------------------------------
(******************************************************************************)
(* runtime/crypto/mitccrh.h: a hash whose AES key is derived from a start     *)
(* point and a running gate id (gid).  Gids of one bucket (gid >> ReuseShift) *)
(* share a key; keys are scheduled BatchSize gids at a time, and a batch      *)
(* that lies in one bucket is scheduled once, in place 0, and kept over       *)
(* renewals.  A key is the pair of the start point and the bucket.            *)
(******************************************************************************)
EXTENDS Integers

CONSTANTS BatchSize,     \* gids scheduled at a time
          Reuse,         \* ReuseShift > 0
          Bucket(_),     \* gid >> ReuseShift
          Lanes,         \* the K of the calls: lanes a call hashes
          Starts,        \* start points given to setS
          MaxGid         \* bound: gids reached

NoStart == "unset"
NoBucket == -1

ASSUME MitccrhAssumption ==
    /\ BatchSize \in Nat \ {0} /\ Reuse \in BOOLEAN /\ MaxGid \in Nat
    /\ \A K \in Lanes : K \in 1 .. BatchSize /\ BatchSize % K = 0
    /\ NoStart \notin Starts

ASSUME BucketAssumption ==
    /\ \A g \in 0 .. MaxGid + 2 * BatchSize : Bucket(g) \in Nat
    /\ \A g, h \in 0 .. MaxGid + 2 * BatchSize : g <= h => Bucket(g) <= Bucket(h)

VARIABLES m,         \* the object: start_point s, gid, key_used, keys, bucket, lane_gid0
          lanes,     \* the lanes of the last call: start point, gid and key of each
          top        \* history: per start point, the gid above all those hashed

vars == <<m, lanes, top>>

Places == 0 .. BatchSize - 1

New == [s |-> NoStart, gid |-> 0, keyUsed |-> BatchSize, bucket |-> NoBucket, laneGid0 |-> 0,
        key |-> [k \in Places |-> <<NoStart, NoBucket>>]]

Init == m = New /\ lanes = {} /\ top = [s \in Starts \cup {NoStart} |-> 0]

\* setS
WithS(o, s) ==
    [s |-> s, gid |-> 0, keyUsed |-> BatchSize, bucket |-> NoBucket, laneGid0 |-> 0, key |-> o.key]

\* Mutant: a renewal leaves the gid where it was.
RenewedInPlace(o) ==
    [o EXCEPT !.laneGid0 = o.gid, !.keyUsed = 0, !.bucket = NoBucket,
              !.key = [k \in Places |-> <<o.s, Bucket(o.gid + k)>>]]
\* renew_ks(): a batch within one bucket needs place 0 only, and not even that
\* when the bucket is the one scheduled last.
Renewed(o) ==
    LET first   == Bucket(o.gid)
        uniform == Reuse /\ first = Bucket(o.gid + BatchSize - 1)
    IN  [s |-> o.s,
         laneGid0 |-> o.gid,
         gid |-> o.gid + BatchSize,
         keyUsed |-> 0,
         key |-> IF ~uniform THEN [k \in Places |-> <<o.s, Bucket(o.gid + k)>>]
                 ELSE IF first # o.bucket THEN [o.key EXCEPT ![0] = <<o.s, first>>]
                 ELSE o.key,
         bucket |-> IF uniform THEN first ELSE NoBucket]

\* The leftover lanes of a schedule too short for the call are skipped.
Ready(o, K) == IF o.keyUsed + K > BatchSize THEN Renewed(o) ELSE o
Taken(o, K) == [Ready(o, K) EXCEPT !.keyUsed = Ready(o, K).keyUsed + K]

\* The gid and the key of lane k of a call on a ready object.
LaneGid(o, k) == o.laneGid0 + o.keyUsed + k
LaneKey(o, k) == IF Reuse /\ o.bucket # NoBucket THEN o.key[0] ELSE o.key[o.keyUsed + k]

SetS(s) ==
    /\ top[s] = 0           \* the caller never replays a start point
    /\ m' = WithS(m, s)
    /\ UNCHANGED <<lanes, top>>

\* renew_ks(gid): the caller never goes back over gids it has hashed.
RenewKsAt(g) ==
    /\ top[m.s] <= g
    /\ m' = Renewed([m EXCEPT !.gid = g])
    /\ UNCHANGED <<lanes, top>>

RenewKs ==
    /\ m.gid <= MaxGid
    /\ m' = Renewed(m)
    /\ UNCHANGED <<lanes, top>>

\* hash<K, H>, hash_cir<K, H>
Hash(K) ==
    /\ m.gid <= MaxGid
    /\ m' = Taken(m, K)
    /\ LET o == Ready(m, K) IN
       /\ lanes' = {[s |-> o.s, gid |-> LaneGid(o, k), key |-> LaneKey(o, k)] : k \in 0 .. K - 1}
       /\ top' = [top EXCEPT ![o.s] = LaneGid(o, K)]

Next ==
    \/ \E s \in Starts : SetS(s)
    \/ \E g \in 0 .. MaxGid : RenewKsAt(g)
    \/ RenewKs
    \/ \E K \in Lanes : Hash(K)

Spec == Init /\ [][Next]_vars

(***************************************************************************)
(* Properties                                                              *)
(***************************************************************************)
\* Every lane is hashed under the key of its own gid's bucket and of the current
\* start point, through cached buckets, straddling batches, calls of mixed width
\* and repositioning (renew_ks, consume).
KeysMatchGids == \A l \in lanes : l.key = <<l.s, Bucket(l.gid)>>

\* The next lane's gid, in this schedule or the one after it, is at or above every
\* gid hashed under this start point: no pair of the two is hashed twice, though
\* schedules are cut short and skipped lanes are left behind.
GidsAreFresh == top[m.s] <= m.laneGid0 + m.keyUsed /\ top[m.s] <= m.gid

\* Every hash has its own key and tweak: the key is the one of its gid, and no gid
\* is hashed twice under a start point.
LanesKeyed == KeysMatchGids /\ GidsAreFresh
=============================================================================
