--------------------------- MODULE TestModeProofs ---------------------------
(*****************************************************************************)
(* Proofs about TestMode, for every number of threads, tasks and draws: no   *)
(* seed is handed out twice in an epoch, the seeds of a lane follow one      *)
(* another without a gap, lanes are apart, and no scalar outlives a reset.   *)
(*****************************************************************************)
EXTENDS TestMode, SequenceTheorems, TLAPS

SeedState == [lane : Seq(Nat), ctr : Nat, child_ctr : Nat, epoch : Nat]
Seed == [epoch : Nat, lane : Seq(Nat), ordinal : Nat, thread : Threads]

TestTypeOK ==
    /\ mode \in BOOLEAN /\ epoch \in Nat /\ resetting \subseteq Threads
    /\ tls \in [Threads -> SeedState]
    /\ DOMAIN saved = Threads
    /\ \A t \in Threads : saved[t] # <<>> => saved[t][1] \in SeedState /\ saved[t][1].lane = <<>>
    /\ laneOp \in [Threads -> {"none", "prg", "scalar"}]
    /\ pending \in Seq(Seq(Nat) \cup {NoLane})
    /\ drawn \subseteq Seed

\* The state of lane 0 on thread t, which a task with a lane has set aside.
Root(t) == IF tls[t].lane = <<>> THEN tls[t] ELSE saved[t][1]
RootCtr(t) == IF Root(t).epoch = epoch THEN Root(t).ctr ELSE 0
MainKids == IF tls[MainThread].epoch = epoch THEN tls[MainThread].child_ctr ELSE 0

\* The seeds of the current epoch, and the lanes seen in it.
Seeds == {a \in drawn : a.epoch = epoch}
KnownLanes ==
    ({pending[k] : k \in DOMAIN pending} \cup {tls[t].lane : t \in Threads} \cup {a.lane : a \in Seeds})
        \ {NoLane, <<>>}

\* Lane M belongs to work begun, at some remove, by the work of lane L.
Below(L, M) == Len(L) < Len(M) /\ \A i \in 1 .. Len(L) : M[i] = L[i]

\* The children of L have been given the numbers below c.
Kids(L, c) == \A M \in KnownLanes : Below(L, M) => M[Len(L) + 1] < c

\* The lane's seeds are those with ordinals below c.
SeedsBelow(L, c) == \A a \in Seeds : a.lane = L => a.ordinal < c
SeedsUpTo(L, c) == \A k \in 0 .. c - 1 : \E b \in Seeds : b.lane = L /\ b.ordinal = k

\* Work under a lane goes on in test mode and in the current epoch only, since
\* switches and resets wait for it.
WorkOf(t) ==
    /\ tls[t].lane # <<>> => saved[t] # <<>> /\ tls[t].epoch = epoch /\ mode
    /\ saved[t] # <<>> /\ mode => tls[t].lane # <<>>
    /\ laneOp[t] # "none" => tls[t].epoch = epoch
    /\ tls[t].epoch <= epoch /\ Root(t).epoch <= epoch
Queued ==
    \A k \in DOMAIN pending : (pending[k] # NoLane <=> mode) /\ pending[k] # <<>>
Calm ==
    /\ saved[MainThread] = <<>>
    /\ \A a \in drawn : a.epoch <= epoch
    /\ resetting # {} => Seeds = {} /\ pending = <<>> /\ \A t \in Threads : saved[t] = <<>> /\ laneOp[t] = "none"

\* Lane 0 is drawn on by its owner only.
RootSeeds ==
    /\ \A a \in Seeds : a.lane = <<>> => owner = {a.thread} /\ a.ordinal < RootCtr(a.thread)
    /\ \A t \in Threads : SeedsUpTo(<<>>, RootCtr(t))

\* A lane is held by one thread, which has its seeds and its children to itself.
HeldBy(t) ==
    tls[t].lane # <<>> =>
        /\ SeedsBelow(tls[t].lane, tls[t].ctr) /\ SeedsUpTo(tls[t].lane, tls[t].ctr)
        /\ Kids(tls[t].lane, tls[t].child_ctr)
        /\ \A u \in Threads : u # t => tls[u].lane # tls[t].lane

\* A lane that waits is new: no seeds, no children, no other holder.
WaitsNew(k) ==
    pending[k] # NoLane =>
        /\ \A M \in KnownLanes : ~Below(pending[k], M)
        /\ \A t \in Threads : tls[t].lane # pending[k]
        /\ \A a \in Seeds : a.lane # pending[k]
        /\ \A j \in DOMAIN pending : pending[j] = pending[k] => j = k

TestInv ==
    /\ TestTypeOK /\ Queued /\ Calm /\ RootSeeds
    /\ \A t \in Threads : WorkOf(t) /\ HeldBy(t)
    /\ Kids(<<>>, MainKids)
    /\ \A k \in DOMAIN pending : WaitsNew(k)
    /\ SeedsUnique /\ OrdinalsDense /\ ScalarsCurrent

\* A child's lane is new, and its ancestors are its parent and the parent's.
LEMMA ChildLane ==
    ASSUME NEW P \in Seq(Nat), NEW c \in Nat
    PROVE  LET N == Append(P, c) IN
           /\ N \in Seq(Nat) /\ N # <<>> /\ N # NoLane /\ N[Len(P) + 1] = c
           /\ ~Below(N, N) /\ (P # <<>> => Below(P, N)) /\ (P = <<>> => N[1] = c)
           /\ \A Q \in Seq(Nat) : Below(Q, N) => Q = P \/ (Below(Q, P) /\ N[Len(Q) + 1] = P[Len(Q) + 1])
           /\ \A M \in Seq(Nat) : (Below(P, M) => M[Len(P) + 1] < c) => M # N /\ ~Below(N, M)
  <1> DEFINE N == Append(P, c)
  <1>1. /\ N \in Seq(Nat) /\ Len(P) \in Nat /\ Len(N) = Len(P) + 1 /\ N[Len(P) + 1] = c
        /\ \A i \in 1 .. Len(P) : N[i] = P[i]
    BY AppendProperties, LenProperties
  <1>2. N # <<>> /\ N # NoLane /\ (P = <<>> => N[1] = c)
    <2>1. N # <<>>
      BY <1>1
    <2>2. N # NoLane
      BY <1>1, TestModeAssumption, SMTT(30)
    <2>3. P = <<>> => N[1] = c
      OBVIOUS
    <2> QED
      BY <2>1, <2>2, <2>3
  <1> HIDE DEF N
  <1>3. ~Below(N, N) /\ Below(P, N)
    BY <1>1 DEF Below
  <1>4. ASSUME NEW Q \in Seq(Nat), Below(Q, N), Q # P
        PROVE  Below(Q, P) /\ N[Len(Q) + 1] = P[Len(Q) + 1]
    <2>1. Len(Q) \in Nat /\ Len(Q) <= Len(P) /\ \A i \in 1 .. Len(Q) : Q[i] = P[i]
      BY <1>1, <1>4, LenProperties DEF Below
    <2>2. Len(Q) # Len(P)
      BY <1>1, <1>4, <2>1, SeqEqual
    <2>3. Len(Q) < Len(P) /\ Len(Q) + 1 \in 1 .. Len(P)
      BY <1>1, <2>1, <2>2
    <2> QED
      BY <1>1, <2>1, <2>3 DEF Below
  <1>5. ASSUME NEW M \in Seq(Nat), Below(P, M) => M[Len(P) + 1] < c PROVE M # N /\ ~Below(N, M)
    <2>1. M # N
      BY <1>1, <1>3, <1>5
    <2>2. ASSUME Below(N, M) PROVE FALSE
      <3>1. Len(M) \in Nat /\ Len(P) + 1 < Len(M) /\ \A i \in 1 .. Len(P) + 1 : M[i] = N[i]
        BY <1>1, <2>2, LenProperties DEF Below
      <3>2. M[Len(P) + 1] = c /\ Len(P) < Len(M)
        BY <1>1, <3>1
      <3>3. ASSUME NEW i \in 1 .. Len(P) PROVE M[i] = P[i]
        <4>1. i \in 1 .. Len(P) + 1
          BY <1>1
        <4> QED
          BY <1>1, <3>1, <4>1, Zenon
      <3> QED
        BY <1>1, <1>5, <3>2, <3>3 DEF Below
    <2> QED
      BY <2>1, <2>2
  <1> QED
    BY <1>1, <1>2, <1>3, <1>4, <1>5, ZenonT(30) DEF N

\* sync_test_epoch keeps the lane, and the counters of the current epoch.
LEMMA Synced ==
    ASSUME epoch \in Nat, NEW s \in SeedState
    PROVE  LET r == SyncTestEpoch(s) IN
           /\ r \in SeedState /\ r.lane = s.lane /\ r.epoch = epoch
           /\ (s.epoch = epoch => r = s)
           /\ r.ctr = IF s.epoch = epoch THEN s.ctr ELSE 0
           /\ r.child_ctr = IF s.epoch = epoch THEN s.child_ctr ELSE 0
  BY ZenonT(30) DEF SyncTestEpoch, SeedState

LEMMA KnownTyped ==
    ASSUME TestTypeOK
    PROVE  /\ KnownLanes \subseteq Seq(Nat) \ {<<>>, NoLane}
           /\ \A t \in Threads : tls[t] \in SeedState /\ tls[t].lane \in Seq(Nat) /\ tls[t].lane # NoLane
           /\ \A t \in Threads : tls[t].lane # <<>> => tls[t].lane \in KnownLanes
           /\ \A k \in DOMAIN pending : pending[k] \notin {NoLane, <<>>} => pending[k] \in KnownLanes
           /\ \A a \in Seeds : a.lane # <<>> => a.lane \in KnownLanes
  <1>1. \A t \in Threads : tls[t] \in SeedState /\ tls[t].lane \in Seq(Nat) /\ tls[t].lane # NoLane
    <2> TAKE t \in Threads
    <2>1. tls[t] \in SeedState
      BY DEF TestTypeOK
    <2>2. tls[t].lane \in Seq(Nat)
      BY <2>1 DEF SeedState
    <2> QED
      BY <2>1, <2>2, TestModeAssumption, Zenon
  <1>2. \A a \in Seeds : a.lane \in Seq(Nat) /\ a.lane # NoLane
    BY TestModeAssumption DEF TestTypeOK, Seed, Seeds
  <1>3. \A k \in DOMAIN pending : pending[k] \in Seq(Nat) \cup {NoLane}
    BY DEF TestTypeOK
  <1> QED
    BY <1>1, <1>2, <1>3, Zenon DEF KnownLanes

\* A step that draws no seed, makes no lane known and changes the state of no
\* lane in use keeps what its holder has to itself...
LEMMA HeldKept ==
    ASSUME TestInv, TestTypeOK', Seeds' = Seeds, KnownLanes' \subseteq KnownLanes,
           \A u \in Threads : tls'[u].lane # <<>> => tls'[u] = tls[u]
    PROVE  \A u \in Threads : HeldBy(u)'
  <1> SUFFICES ASSUME NEW u \in Threads, tls'[u].lane # <<>> PROVE HeldBy(u)'
    BY DEF HeldBy
  <1>1. HeldBy(u) /\ tls'[u] = tls[u] /\ tls[u].lane # <<>>
    BY DEF TestInv
  <1>2. SeedsBelow(tls[u].lane, tls[u].ctr)' /\ SeedsUpTo(tls[u].lane, tls[u].ctr)'
    BY <1>1 DEF HeldBy, SeedsBelow, SeedsUpTo
  <1>3. Kids(tls[u].lane, tls[u].child_ctr)'
    BY <1>1 DEF HeldBy, Kids
  <1>4. \A v \in Threads : v # u => tls'[v].lane # tls'[u].lane
    BY <1>1 DEF HeldBy
  <1> QED
    BY <1>2, <1>3, <1>4 DEF HeldBy

\* ... and the lanes that wait.
LEMMA WaitKept ==
    ASSUME TestInv, Seeds' = Seeds, KnownLanes' \subseteq KnownLanes, pending' = pending,
           \A u \in Threads : tls'[u].lane # <<>> => tls'[u] = tls[u]
    PROVE  \A k \in DOMAIN pending' : WaitsNew(k)'
  <1> SUFFICES ASSUME NEW k \in DOMAIN pending, pending[k] # NoLane PROVE WaitsNew(k)'
    BY DEF WaitsNew
  <1>1. WaitsNew(k) /\ pending[k] # <<>>
    BY DEF TestInv, Queued
  <1>2. \A u \in Threads : tls'[u].lane # pending[k]
    BY <1>1 DEF WaitsNew
  <1> QED
    BY <1>1, <1>2 DEF WaitsNew

\* With the log as it was, what it says stays true.
LEMMA LogKept ==
    ASSUME SeedsUnique, OrdinalsDense, drawn' = drawn PROVE SeedsUnique' /\ OrdinalsDense'
  BY DEF SeedsUnique, OrdinalsDense

\* A draw up to the CAS brings the thread's counters into the epoch.
LEMMA BeginDrawOK ==
    ASSUME TestInv, Quiescent, NEW t \in Threads, Free(t), NEW who \in {"prg", "scalar"}, BeginDraw(t, who)
    PROVE  TestInv'
  <1> DEFINE r == SyncTestEpoch(tls[t])
  <1>1. /\ TestTypeOK /\ Queued /\ Calm /\ RootSeeds /\ Kids(<<>>, MainKids)
        /\ \A u \in Threads : WorkOf(u)
        /\ SeedsUnique /\ OrdinalsDense /\ ScalarsCurrent
    BY DEF TestInv
  <1>2. /\ tls' = [tls EXCEPT ![t] = r] /\ laneOp' = [laneOp EXCEPT ![t] = who]
        /\ mode' = mode /\ epoch' = epoch /\ owner' = owner /\ saved' = saved /\ pending' = pending
        /\ resetting' = resetting /\ drawn' = drawn /\ scalars' = scalars
        /\ t \notin resetting
    BY DEF BeginDraw, Draws, Idle
  <1>3. resetting = {}
    BY <1>2 DEF Free
  <1>4. /\ r \in SeedState /\ r.lane = tls[t].lane /\ r.epoch = epoch
        /\ (tls[t].epoch = epoch => r = tls[t])
        /\ r.ctr = IF tls[t].epoch = epoch THEN tls[t].ctr ELSE 0
        /\ r.child_ctr = IF tls[t].epoch = epoch THEN tls[t].child_ctr ELSE 0
    BY <1>1, Synced, KnownTyped DEF TestTypeOK
  <1> HIDE DEF r
  <1>5. tls'[t] = r /\ \A u \in Threads : (u # t => tls'[u] = tls[u]) /\ tls'[u].lane = tls[u].lane
    BY <1>1, <1>2, <1>4 DEF TestTypeOK
  <1>6. TestTypeOK'
    BY <1>1, <1>2, <1>4 DEF TestTypeOK
  <1>7. Seeds' = Seeds
    BY <1>2 DEF Seeds
  <1>8. KnownLanes' = KnownLanes
    BY <1>2, <1>5, <1>7, ZenonT(30) DEF KnownLanes
  <1>9. \A u \in Threads : tls'[u].lane # <<>> => tls'[u] = tls[u]
    BY <1>1, <1>4, <1>5 DEF WorkOf
  <1>10. \A u \in Threads : HeldBy(u)'
    BY <1>6, <1>7, <1>8, <1>9, HeldKept
  <1>11. \A k \in DOMAIN pending' : WaitsNew(k)'
    BY <1>2, <1>7, <1>8, <1>9, WaitKept
  <1>12. \A u \in Threads : RootCtr(u)' = RootCtr(u) /\ Root(u)'.epoch <= epoch
    <2> TAKE u \in Threads
    <2>1. Root(u).epoch <= epoch
      BY <1>1 DEF WorkOf
    <2>2. CASE tls[u].lane # <<>> \/ u # t
      BY <1>2, <1>5, <1>9, <2>1, <2>2 DEF RootCtr, Root
    <2>3. CASE tls[u].lane = <<>> /\ u = t
      BY <1>1, <1>2, <1>4, <1>5, <2>3 DEF RootCtr, Root, TestTypeOK
    <2> QED
      BY <2>2, <2>3
  <1>13. RootSeeds'
    BY <1>1, <1>2, <1>7, <1>12 DEF RootSeeds, SeedsUpTo, Seeds, TestTypeOK, Seed
  <1>14. MainKids' = MainKids
    BY <1>2, <1>4, <1>5, TestModeAssumption DEF MainKids
  <1>15. Kids(<<>>, MainKids)'
    BY <1>1, <1>8, <1>14 DEF Kids
  <1>16. Queued' /\ Calm'
    BY <1>1, <1>2, <1>3, <1>7 DEF Queued, Calm
  <1>17. \A u \in Threads : WorkOf(u)'
    <2> TAKE u \in Threads
    <2>1. WorkOf(u) /\ tls'[u].epoch <= epoch /\ laneOp'[u] = IF u = t THEN who ELSE laneOp[u]
      BY <1>1, <1>2, <1>4, <1>5 DEF WorkOf, TestTypeOK
    <2>2. tls'[u].lane # <<>> => saved'[u] # <<>> /\ tls'[u].epoch = epoch /\ mode
      BY <1>2, <1>4, <1>5, <2>1 DEF WorkOf
    <2>3. saved'[u] # <<>> /\ mode' => tls'[u].lane # <<>>
      BY <1>2, <1>5, <2>1 DEF WorkOf
    <2>4. laneOp'[u] # "none" => tls'[u].epoch = epoch
      BY <1>4, <1>5, <2>1 DEF WorkOf
    <2> QED
      BY <1>2, <1>12, <2>1, <2>2, <2>3, <2>4 DEF WorkOf
  <1>18. ScalarsCurrent'
    BY <1>1, <1>2 DEF ScalarsCurrent
  <1> QED
    BY <1>1, <1>2, <1>6, <1>10, <1>11, <1>13, <1>15, <1>16, <1>17, <1>18, LogKept DEF TestInv

\* A step that touches none of the seeds' state keeps the invariant.
LEMMA ScalarsOnly ==
    ASSUME TestInv, ScalarsCurrent',
           mode' = mode, epoch' = epoch, owner' = owner, saved' = saved, pending' = pending,
           resetting' = resetting, drawn' = drawn, tls' = tls, laneOp' = laneOp
    PROVE  TestInv'
  <1>1. Seeds' = Seeds /\ KnownLanes' = KnownLanes /\ TestTypeOK'
    BY Zenon DEF Seeds, KnownLanes, TestTypeOK, TestInv
  <1>2. (\A u \in Threads : HeldBy(u)') /\ \A k \in DOMAIN pending' : WaitsNew(k)'
    BY <1>1, HeldKept, WaitKept
  <1>3. \A u \in Threads : Root(u)' = Root(u) /\ RootCtr(u)' = RootCtr(u)
    BY DEF Root, RootCtr
  <1>4. RootSeeds'
    BY <1>1, <1>3 DEF RootSeeds, SeedsUpTo, Seeds, TestTypeOK, Seed, TestInv
  <1>5. MainKids' = MainKids
    BY DEF MainKids
  <1>6. Kids(<<>>, MainKids)' /\ Queued' /\ Calm' /\ \A u \in Threads : WorkOf(u)'
    BY <1>1, <1>3, <1>5 DEF Kids, Queued, Calm, WorkOf, TestInv
  <1> QED
    BY <1>1, <1>2, <1>4, <1>6, LogKept DEF TestInv

\* The generator of rand_scalar is reused in its own epoch only.
LEMMA RandScalarOK ==
    ASSUME TestInv, Quiescent, NEW t \in Threads, Free(t), RandScalar(t)
    PROVE  TestInv'
  <1>1. CASE BeginDraw(t, "scalar")
    BY <1>1, BeginDrawOK
  <1>2. CASE ~BeginDraw(t, "scalar")
    <2>1. /\ scalarPrg[t].epoch = epoch /\ Scalar(t, scalarPrg[t])
          /\ mode' = mode /\ epoch' = epoch /\ owner' = owner /\ saved' = saved /\ pending' = pending
          /\ resetting' = resetting /\ drawn' = drawn /\ tls' = tls /\ laneOp' = laneOp
      BY <1>2 DEF RandScalar
    <2>2. ScalarsCurrent'
      BY <2>1 DEF ScalarsCurrent, Scalar, TestInv
    <2> QED
      BY <2>1, <2>2, ScalarsOnly
  <1> QED
    BY <1>1, <1>2

\* A task that ends gives its lane up and takes lane 0 back as it was.
LEMMA EndTaskOK ==
    ASSUME TestInv, NEW t \in Threads, EndTask(t)
    PROVE  TestInv'
  <1>1. /\ TestTypeOK /\ Queued /\ Calm /\ RootSeeds /\ Kids(<<>>, MainKids)
        /\ \A u \in Threads : WorkOf(u)
        /\ SeedsUnique /\ OrdinalsDense /\ ScalarsCurrent
    BY DEF TestInv
  <1>2. /\ saved[t] # <<>> /\ laneOp[t] = "none"
        /\ tls' = IF tls[t].lane = <<>> THEN tls ELSE [tls EXCEPT ![t] = saved[t][1]]
        /\ saved' = [saved EXCEPT ![t] = <<>>]
        /\ mode' = mode /\ epoch' = epoch /\ owner' = owner /\ laneOp' = laneOp /\ pending' = pending
        /\ resetting' = resetting /\ drawn' = drawn /\ scalars' = scalars
    BY DEF EndTask, Idle
  <1>3. resetting = {} /\ t # MainThread
    BY <1>1, <1>2 DEF Calm
  <1>4. Root(t) \in SeedState /\ Root(t).lane = <<>>
    BY <1>1, <1>2, KnownTyped DEF Root, TestTypeOK
  <1>5. /\ \A u \in Threads : u # t => tls'[u] = tls[u] /\ saved'[u] = saved[u]
        /\ tls'[t] = Root(t) /\ saved'[t] = <<>> /\ DOMAIN saved' = Threads
    BY <1>1, <1>2 DEF TestTypeOK, Root
  <1>6. tls' \in [Threads -> SeedState]
    BY <1>1, <1>2 DEF TestTypeOK
  <1>7. TestTypeOK'
    BY <1>1, <1>2, <1>5, <1>6 DEF TestTypeOK
  <1>8. Seeds' = Seeds
    BY <1>2 DEF Seeds
  <1>9. KnownLanes' \subseteq KnownLanes
    <2>1. \A u \in Threads : tls'[u].lane = <<>> \/ tls'[u].lane = tls[u].lane
      BY <1>4, <1>5
    <2> QED
      BY <1>2, <1>8, <2>1, Zenon DEF KnownLanes
  <1>10. \A u \in Threads : tls'[u].lane # <<>> => tls'[u] = tls[u]
    BY <1>4, <1>5
  <1>11. (\A u \in Threads : HeldBy(u)') /\ \A k \in DOMAIN pending' : WaitsNew(k)'
    BY <1>2, <1>7, <1>8, <1>9, <1>10, HeldKept, WaitKept
  <1>12. \A u \in Threads : Root(u)' = Root(u)
    BY <1>4, <1>5 DEF Root
  <1>13. \A u \in Threads : RootCtr(u)' = RootCtr(u)
    BY <1>2, <1>12 DEF RootCtr
  <1>14. RootSeeds'
    BY <1>1, <1>2, <1>8, <1>13 DEF RootSeeds, SeedsUpTo, Seeds, TestTypeOK, Seed
  <1>15. MainKids' = MainKids
    BY <1>2, <1>3, <1>5, TestModeAssumption DEF MainKids
  <1>16. Kids(<<>>, MainKids)'
    BY <1>1, <1>9, <1>15 DEF Kids
  <1>17. Queued' /\ Calm'
    BY <1>1, <1>2, <1>3, <1>5, <1>8, TestModeAssumption DEF Queued, Calm
  <1>18. ASSUME NEW u \in Threads PROVE WorkOf(u)'
    <2>1. WorkOf(u) /\ Root(u)' = Root(u)
      BY <1>1, <1>12
    <2>2. CASE u = t
      BY <1>2, <1>4, <1>5, <2>1, <2>2 DEF WorkOf
    <2>3. CASE u # t
      BY <1>2, <1>5, <2>1, <2>3 DEF WorkOf
    <2> QED
      BY <2>2, <2>3
  <1>19. ScalarsCurrent'
    BY <1>1, <1>2 DEF ScalarsCurrent
  <1> QED
    BY <1>1, <1>2, <1>7, <1>11, <1>14, <1>16, <1>17, <1>18, <1>19, LogKept DEF TestInv

\* When nothing is under way every thread is on lane 0 and no lane waits.
LEMMA RestIsBare ==
    ASSUME TestInv, AtRest
    PROVE  /\ pending = <<>> /\ resetting = {}
           /\ \A u \in Threads : saved[u] = <<>> /\ laneOp[u] = "none" /\ tls[u].lane = <<>> /\ Root(u) = tls[u]
  <1>1. /\ pending = <<>> /\ \A u \in Threads : saved[u] = <<>> /\ laneOp[u] = "none" /\ u \notin resetting
    BY DEF AtRest, AtWork
  <1>2. \A u \in Threads : tls[u].lane = <<>>
    BY <1>1, ZenonT(30) DEF TestInv, WorkOf
  <1> QED
    BY <1>1, <1>2 DEF Root, TestInv, TestTypeOK

\* A reset opens an epoch without seeds, in which every counter counts as 0.
LEMMA ResetEpochOK ==
    ASSUME TestInv, Quiescent, NEW t \in Threads, ResetEpoch(t)
    PROVE  TestInv'
  <1>1. /\ TestTypeOK /\ Calm /\ \A u \in Threads : WorkOf(u)
        /\ SeedsUnique /\ OrdinalsDense /\ ScalarsCurrent
    BY DEF TestInv
  <1>2. /\ AtRest /\ epoch' = epoch + 1 /\ resetting' = resetting \cup {t}
        /\ mode' = mode /\ owner' = owner /\ tls' = tls /\ saved' = saved /\ laneOp' = laneOp
        /\ pending' = pending /\ drawn' = drawn /\ scalars' = scalars
    BY DEF ResetEpoch
  <1>3. /\ pending = <<>>
        /\ \A u \in Threads : saved[u] = <<>> /\ laneOp[u] = "none" /\ tls[u].lane = <<>> /\ Root(u) = tls[u]
    BY <1>2, RestIsBare
  <1>4. TestTypeOK'
    BY <1>1, <1>2 DEF TestTypeOK
  <1>5. Seeds' = {}
    BY <1>1, <1>2 DEF Seeds, Calm, TestTypeOK, Seed
  <1>6. KnownLanes' = {}
    <2>1. DOMAIN pending' = {}
      BY <1>2, <1>3
    <2> QED
      BY <1>2, <1>3, <1>5, <2>1, Zenon DEF KnownLanes
  <1>7. \A u \in Threads : Root(u)' = tls[u] /\ tls[u].epoch < epoch' /\ RootCtr(u)' = 0
    BY <1>1, <1>2, <1>3 DEF Root, RootCtr, WorkOf, TestTypeOK, SeedState
  <1>8. RootSeeds'
    BY <1>5, <1>7 DEF RootSeeds, SeedsUpTo
  <1>9. Kids(<<>>, MainKids)'
    BY <1>6 DEF Kids
  <1>10. \A u \in Threads : HeldBy(u)' /\ WorkOf(u)'
    BY <1>1, <1>2, <1>3, <1>7 DEF HeldBy, WorkOf, TestTypeOK, SeedState
  <1>11. Queued' /\ \A k \in DOMAIN pending' : WaitsNew(k)'
    BY <1>2, <1>3 DEF Queued
  <1>12. Calm'
    BY <1>1, <1>2, <1>3, <1>5, TestModeAssumption DEF Calm, TestTypeOK, Seed
  <1>13. ScalarsCurrent'
    BY <1>1, <1>2 DEF ScalarsCurrent
  <1> QED
    BY <1>1, <1>2, <1>4, <1>8, <1>9, <1>10, <1>11, <1>12, <1>13, LogKept DEF TestInv

\* The owner is let go while the epoch has no seeds; test mode is switched when
\* nothing is under way.
LEMMA SwitchOK ==
    ASSUME TestInv, Quiescent, NEW t \in Threads, NEW on \in BOOLEAN, ResetOwner(t) \/ SetTestMode(t, on)
    PROVE  TestInv'
  <1>1. /\ TestTypeOK /\ Queued /\ Calm /\ RootSeeds /\ Kids(<<>>, MainKids)
        /\ \A u \in Threads : WorkOf(u)
        /\ SeedsUnique /\ OrdinalsDense /\ ScalarsCurrent
    BY DEF TestInv
  <1>2. /\ epoch' = epoch /\ tls' = tls /\ saved' = saved /\ laneOp' = laneOp
        /\ pending' = pending /\ drawn' = drawn /\ scalars' = scalars /\ resetting' \subseteq resetting
        /\ mode' \in BOOLEAN
    BY <1>1, ZenonT(20) DEF ResetOwner, SetTestMode, TestTypeOK
  <1>3. \/ mode' = mode /\ Seeds = {}
        \/ owner' = owner /\ AtRest
    BY <1>1, ZenonT(20) DEF ResetOwner, SetTestMode, Calm
  <1>4. Seeds' = Seeds /\ KnownLanes' = KnownLanes /\ TestTypeOK'
    <2>1. Seeds' = Seeds /\ KnownLanes' = KnownLanes
      BY <1>2, Zenon DEF Seeds, KnownLanes
    <2> QED
      BY <1>1, <1>2, <2>1 DEF TestTypeOK
  <1>5. (\A u \in Threads : HeldBy(u)') /\ \A k \in DOMAIN pending' : WaitsNew(k)'
    BY <1>2, <1>4, HeldKept, WaitKept
  <1>6. \A u \in Threads : Root(u)' = Root(u) /\ RootCtr(u)' = RootCtr(u)
    BY <1>2, SMTT(30) DEF Root, RootCtr
  <1>7. RootSeeds'
    BY <1>1, <1>2, <1>3, <1>4, <1>6 DEF RootSeeds, SeedsUpTo, Seeds, TestTypeOK, Seed
  <1>8. MainKids' = MainKids
    BY <1>2 DEF MainKids
  <1>9. Kids(<<>>, MainKids)'
    BY <1>1, <1>4, <1>8 DEF Kids
  <1>10. Queued' /\ \A u \in Threads : WorkOf(u)'
    <2>1. CASE mode' = mode
      BY <1>1, <1>2, <1>6, <2>1 DEF Queued, WorkOf
    <2>2. CASE AtRest
      <3>1. pending = <<>> /\ \A u \in Threads : saved[u] = <<>> /\ laneOp[u] = "none" /\ tls[u].lane = <<>>
        BY <2>2, RestIsBare, ZenonT(20)
      <3> QED
        BY <1>1, <1>2, <1>6, <3>1 DEF Queued, WorkOf
    <2> QED
      BY <1>3, <2>1, <2>2
  <1>11. Calm' /\ ScalarsCurrent'
    BY <1>1, <1>2, <1>4 DEF Calm, ScalarsCurrent
  <1> QED
    BY <1>1, <1>2, <1>4, <1>5, <1>7, <1>9, <1>10, <1>11, LogKept DEF TestInv

\* A task that starts takes the front lane over, with nothing drawn on it.
LEMMA StartTaskOK ==
    ASSUME TestInv, Quiescent, NEW t \in Threads, Free(t), StartTask(t)
    PROVE  TestInv'
  <1> DEFINE h == Head(pending)
             n == [TestSeedTls EXCEPT !.lane = h, !.epoch = epoch]
  <1>1. /\ TestTypeOK /\ Queued /\ Calm /\ RootSeeds /\ Kids(<<>>, MainKids)
        /\ \A u \in Threads : WorkOf(u) /\ HeldBy(u)
        /\ \A k \in DOMAIN pending : WaitsNew(k)
        /\ SeedsUnique /\ OrdinalsDense /\ ScalarsCurrent
    BY DEF TestInv
  <1>2. /\ t # MainThread /\ saved[t] = <<>> /\ laneOp[t] = "none" /\ pending # <<>> /\ t \notin resetting
        /\ pending' = Tail(pending)
        /\ saved' = [saved EXCEPT ![t] = <<tls[t]>>]
        /\ tls' = IF h = NoLane THEN tls
                  ELSE [tls EXCEPT ![t] = n]
        /\ mode' = mode /\ epoch' = epoch /\ owner' = owner /\ laneOp' = laneOp
        /\ resetting' = resetting /\ drawn' = drawn /\ scalars' = scalars
    BY Zenon DEF StartTask, Idle
  <1>3. /\ resetting = {} /\ tls[t].lane = <<>> /\ tls[t] \in SeedState
    BY <1>1, <1>2, KnownTyped DEF Free, Calm, WorkOf
  <1>4. /\ 1 \in DOMAIN pending /\ h = pending[1] /\ h \in Seq(Nat) \cup {NoLane}
        /\ pending' \in Seq(Seq(Nat) \cup {NoLane})
        /\ \A k \in DOMAIN pending' : k + 1 \in DOMAIN pending /\ pending'[k] = pending[k + 1] /\ k \in Nat /\ k > 0
    <2>1. pending \in Seq(Seq(Nat) \cup {NoLane}) /\ pending # <<>>
      BY <1>1, <1>2, ZenonT(20) DEF TestTypeOK
    <2> QED
      BY <1>2, <2>1, HeadTailProperties
  <1>5. (h # NoLane <=> mode) /\ h # <<>> /\ WaitsNew(1)
    BY <1>1, <1>4 DEF Queued
  <1>6. /\ n.lane = h /\ n.ctr = 0 /\ n.child_ctr = 0 /\ n.epoch = epoch
        /\ h # NoLane => n \in SeedState
    BY <1>1, <1>4, ZenonT(30) DEF TestTypeOK, SeedState, TestSeedTls
  <1> HIDE DEF n
  <1>7. /\ tls' \in [Threads -> SeedState]
        /\ \A u \in Threads : u # t => tls'[u] = tls[u] /\ saved'[u] = saved[u]
        /\ saved'[t] # <<>> /\ saved'[t][1] = tls[t] /\ DOMAIN saved' = Threads
    BY <1>1, <1>2, <1>6 DEF TestTypeOK
  <1>8. /\ h = NoLane => tls'[t] = tls[t]
        /\ h # NoLane => tls'[t].lane = h /\ tls'[t].ctr = 0 /\ tls'[t].child_ctr = 0 /\ tls'[t].epoch = epoch
    BY <1>1, <1>2, <1>6 DEF TestTypeOK
  <1> HIDE DEF h
  <1>9. TestTypeOK'
    BY <1>1, <1>2, <1>3, <1>4, <1>7 DEF TestTypeOK
  <1>10. Seeds' = Seeds
    BY <1>2 DEF Seeds
  <1>11. KnownLanes' \subseteq KnownLanes
    <2>1. \A k \in DOMAIN pending' : \E j \in DOMAIN pending : pending'[k] = pending[j]
      BY <1>4
    <2>2. \A u \in Threads : tls'[u].lane = tls[u].lane \/ \E j \in DOMAIN pending : tls'[u].lane = pending[j]
      BY <1>4, <1>7, <1>8
    <2> QED
      BY <1>10, <2>1, <2>2, ZenonT(30) DEF KnownLanes
  <1>12. \A u \in Threads : Root(u)' = Root(u)
    BY <1>3, <1>5, <1>7, <1>8 DEF Root
  <1>13. \A u \in Threads : RootCtr(u)' = RootCtr(u)
    BY <1>2, <1>12, SMTT(30) DEF RootCtr
  <1>14. RootSeeds'
    BY <1>1, <1>2, <1>10, <1>13 DEF RootSeeds, SeedsUpTo, Seeds, TestTypeOK, Seed
  <1>15. MainKids' = MainKids
    BY <1>2, <1>7, TestModeAssumption DEF MainKids
  <1>16. Kids(<<>>, MainKids)'
    BY <1>1, <1>11, <1>15 DEF Kids
  <1>17. Queued'
    BY <1>1, <1>2, <1>4 DEF Queued
  <1>18. Calm'
    BY <1>1, <1>2, <1>3, <1>7, <1>10, TestModeAssumption DEF Calm
  <1>19. ASSUME NEW u \in Threads PROVE WorkOf(u)'
    <2>1. WorkOf(u) /\ Root(u)' = Root(u)
      BY <1>1, <1>12, ZenonT(20)
    <2>2. CASE u = t
      <3>1. epoch' = epoch /\ mode' = mode /\ laneOp' = laneOp /\ epoch \in Nat /\ Root(t)' = Root(t)
        BY <1>1, <1>2, <1>3, <2>1, <2>2, ZenonT(20) DEF TestTypeOK
      <3>2. /\ saved'[t] # <<>> /\ (h # NoLane <=> mode) /\ h # <<>> /\ tls[t].epoch \in Nat
            /\ h = NoLane => tls'[t] = tls[t]
            /\ h # NoLane => tls'[t].lane = h /\ tls'[t].epoch = epoch
        BY <1>1, <1>5, <1>7, <1>8, ZenonT(20) DEF TestTypeOK, SeedState
      <3>3. epoch <= epoch
        BY <3>1
      <3> QED
        BY <2>1, <2>2, <3>1, <3>2, <3>3, ZenonT(20) DEF WorkOf
    <2>3. CASE u # t
      BY <1>2, <1>7, <2>1, <2>3 DEF WorkOf
    <2> QED
      BY <2>2, <2>3
  <1>20. ASSUME NEW u \in Threads, tls'[u].lane # <<>> PROVE HeldBy(u)'
    <2>1. CASE u = t
      <3>1. h # NoLane /\ tls'[t].lane = h
        BY <1>3, <1>8, <1>20, <2>1
      <3>2. SeedsBelow(tls[t].lane, tls[t].ctr)' /\ SeedsUpTo(tls[t].lane, tls[t].ctr)'
        BY <1>4, <1>5, <1>8, <1>10, <3>1 DEF WaitsNew, SeedsBelow, SeedsUpTo
      <3>3. Kids(tls[t].lane, tls[t].child_ctr)'
        BY <1>4, <1>5, <1>11, <3>1 DEF WaitsNew, Kids
      <3>4. \A v \in Threads : v # t => tls'[v].lane # tls'[t].lane
        BY <1>4, <1>5, <1>7, <3>1 DEF WaitsNew
      <3> QED
        BY <2>1, <3>2, <3>3, <3>4 DEF HeldBy
    <2>2. CASE u # t
      <3>1. HeldBy(u) /\ tls'[u] = tls[u] /\ tls[u].lane # <<>>
        BY <1>1, <1>7, <1>20, <2>2
      <3>2. SeedsBelow(tls[u].lane, tls[u].ctr)' /\ SeedsUpTo(tls[u].lane, tls[u].ctr)'
        BY <1>10, <3>1 DEF HeldBy, SeedsBelow, SeedsUpTo
      <3>3. Kids(tls[u].lane, tls[u].child_ctr)'
        BY <1>11, <3>1, SMTT(30) DEF HeldBy, Kids
      <3>4. \A v \in Threads : v # u => tls'[v].lane # tls'[u].lane
        <4>1. \A v \in Threads : v # u => tls[v].lane # tls[u].lane
          BY <3>1, ZenonT(20) DEF HeldBy
        <4>2. h # NoLane => tls[u].lane # h
          BY <1>4, <1>5, ZenonT(20) DEF WaitsNew
        <4>3. tls'[t].lane = tls[t].lane \/ (h # NoLane /\ tls'[t].lane = h)
          BY <1>8, ZenonT(20)
        <4>4. \A v \in Threads : v # t => tls'[v] = tls[v]
          BY <1>7, ZenonT(20)
        <4> QED
          BY <2>2, <3>1, <4>1, <4>2, <4>3, <4>4, ZenonT(20)
      <3> QED
        BY <3>2, <3>3, <3>4 DEF HeldBy
    <2> QED
      BY <2>1, <2>2
  <1>21. ASSUME NEW k \in DOMAIN pending', pending'[k] # NoLane PROVE WaitsNew(k)'
    <2>1. /\ k + 1 \in DOMAIN pending /\ pending'[k] = pending[k + 1] /\ k \in Nat /\ k > 0
          /\ WaitsNew(k + 1) /\ pending[k + 1] # NoLane /\ k + 1 # 1
      BY <1>1, <1>4, <1>21
    <2>2. \A M \in KnownLanes' : ~Below(pending'[k], M)
      BY <1>11, <2>1 DEF WaitsNew
    <2>3. \A u \in Threads : tls'[u].lane # pending'[k]
      BY <1>4, <1>7, <1>8, <2>1, ZenonT(30) DEF WaitsNew
    <2>4. \A a \in Seeds' : a.lane # pending'[k]
      BY <1>10, <2>1 DEF WaitsNew
    <2>5. \A j \in DOMAIN pending' : pending'[j] = pending'[k] => j = k
      BY <1>4, <2>1 DEF WaitsNew
    <2> QED
      BY <2>2, <2>3, <2>4, <2>5 DEF WaitsNew
  <1>22. (\A u \in Threads : HeldBy(u)') /\ \A k \in DOMAIN pending' : WaitsNew(k)'
    BY <1>20, <1>21, ZenonT(20) DEF HeldBy, WaitsNew
  <1>23. ScalarsCurrent'
    BY <1>1, <1>2 DEF ScalarsCurrent
  <1> QED
    BY <1>1, <1>2, <1>9, <1>14, <1>16, <1>17, <1>18, <1>19, <1>22, <1>23, LogKept DEF TestInv

\* A seed moves only its own counter.
LEMMA CtrNext ==
    ASSUME NEW s \in SeedState
    PROVE  LET r == [s EXCEPT !.ctr = @ + 1]
           IN  r \in SeedState /\ r.lane = s.lane /\ r.epoch = s.epoch /\ r.child_ctr = s.child_ctr
               /\ r.ctr = s.ctr + 1
  BY DEF SeedState

\* The seed handed out is new to its lane, and the next in it.
LEMMA NextSeed ==
    ASSUME TestInv, NEW t \in Threads, laneOp[t] # "none",
           tls[t].lane = <<>> => owner \in {{}, {t}}
    PROVE  /\ tls[t].epoch = epoch /\ resetting = {}
           /\ SeedsBelow(tls[t].lane, tls[t].ctr) /\ SeedsUpTo(tls[t].lane, tls[t].ctr)
           /\ tls[t].lane = <<>> => \A a \in Seeds : a.lane = <<>> => a.thread = t
  <1>1. /\ TestTypeOK /\ Calm /\ RootSeeds /\ WorkOf(t) /\ HeldBy(t)
    BY ZenonT(20) DEF TestInv
  <1>2. tls[t].epoch = epoch /\ resetting = {}
    BY <1>1 DEF WorkOf, Calm
  <1>3. CASE tls[t].lane # <<>>
    BY <1>1, <1>2, <1>3, ZenonT(20) DEF HeldBy
  <1>4. CASE tls[t].lane = <<>>
    <2>1. \A a \in Seeds : a.lane = <<>> => a.thread = t
      BY <1>1, <1>4, SMTT(30) DEF RootSeeds
    <2>2. RootCtr(t) = tls[t].ctr
      BY <1>2, <1>4 DEF RootCtr, Root
    <2> QED
      BY <1>1, <1>2, <1>4, <2>1, <2>2 DEF RootSeeds, SeedsBelow
  <1> QED
    BY <1>3, <1>4

LEMMA EndDrawOK ==
    ASSUME TestInv, NEW t \in Threads, EndDraw(t)
    PROVE  TestInv'
  <1> DEFINE L == tls[t].lane
             n == tls[t].ctr
             seed == [epoch |-> tls[t].epoch, lane |-> L, ordinal |-> n, thread |-> t]
  <1>1. /\ TestTypeOK /\ Queued /\ Calm /\ RootSeeds /\ Kids(<<>>, MainKids)
        /\ \A u \in Threads : WorkOf(u) /\ HeldBy(u)
        /\ \A k \in DOMAIN pending : WaitsNew(k)
        /\ SeedsUnique /\ OrdinalsDense /\ ScalarsCurrent
    BY DEF TestInv
  <1>2. CASE L = <<>> /\ owner \notin {{}, {t}}
    <2>1. /\ mode' = mode /\ epoch' = epoch /\ owner' = owner /\ saved' = saved /\ pending' = pending
          /\ resetting' = resetting /\ drawn' = drawn /\ tls' = tls /\ laneOp' = laneOp /\ scalars' = scalars
      BY <1>2, Zenon DEF EndDraw
    <2>2. ScalarsCurrent'
      BY <1>1, <2>1 DEF ScalarsCurrent
    <2> QED
      BY <2>1, <2>2, ScalarsOnly
  <1>3. CASE ~(L = <<>> /\ owner \notin {{}, {t}})
    <2>1. /\ laneOp[t] # "none"
          /\ owner' = IF L = <<>> THEN {t} ELSE owner
          /\ tls' = [tls EXCEPT ![t].ctr = @ + 1]
          /\ laneOp' = [laneOp EXCEPT ![t] = "none"]
          /\ drawn' = drawn \cup {seed}
          /\ scalars' = scalars \/ Scalar(t, seed)
          /\ mode' = mode /\ epoch' = epoch /\ saved' = saved /\ pending' = pending /\ resetting' = resetting
      BY <1>3, Zenon DEF EndDraw
    <2>2. /\ tls[t].epoch = epoch /\ resetting = {} /\ SeedsBelow(L, n) /\ SeedsUpTo(L, n)
          /\ L = <<>> => \A a \in Seeds : a.lane = <<>> => a.thread = t
      BY <1>3, <2>1, NextSeed, SMTT(30)
    <2>3. tls[t] \in SeedState /\ L \in Seq(Nat) /\ n \in Nat /\ seed \in Seed
      BY <1>1, ZenonT(20) DEF TestTypeOK, SeedState, Seed
    <2>4. seed.epoch = epoch /\ seed.lane = L /\ seed.ordinal = n /\ seed.thread = t
      BY <2>2, ZenonT(30)
    <2> HIDE DEF seed
    <2>5. /\ tls' \in [Threads -> SeedState]
          /\ \A u \in Threads : /\ u # t => tls'[u] = tls[u]
                                /\ tls'[u].lane = tls[u].lane /\ tls'[u].epoch = tls[u].epoch
                                /\ tls'[u].child_ctr = tls[u].child_ctr
          /\ tls'[t].ctr = n + 1
      <3> DEFINE r == [tls[t] EXCEPT !.ctr = @ + 1]
      <3>1. r \in SeedState /\ r.lane = L /\ r.epoch = tls[t].epoch /\ r.child_ctr = tls[t].child_ctr /\ r.ctr = n + 1
        BY <2>3, CtrNext, Zenon
      <3>2. tls' = [tls EXCEPT ![t] = r]
        BY <2>1
      <3> HIDE DEF r
      <3> QED
        BY <1>1, <3>1, <3>2, ZenonT(20) DEF TestTypeOK
    <2> HIDE DEF L, n
    <2>6. TestTypeOK'
      BY <1>1, <2>1, <2>3, <2>5 DEF TestTypeOK
    <2>7. Seeds' = Seeds \cup {seed}
      BY <2>1, <2>4 DEF Seeds
    <2>8. KnownLanes' = KnownLanes
      <3>1. {tls'[u].lane : u \in Threads} = {tls[u].lane : u \in Threads}
        BY <2>5, ZenonT(30)
      <3>2. {a.lane : a \in Seeds'} = {a.lane : a \in Seeds} \cup {L}
        BY <2>4, <2>7, ZenonT(20)
      <3>3. L \in {tls[u].lane : u \in Threads}
        BY DEF L
      <3> QED
        BY <2>1, <3>1, <3>2, <3>3, ZenonT(20) DEF KnownLanes
    <2>9. /\ \A a \in Seeds' : a.lane = L => a.ordinal < n + 1
          /\ \A k \in 0 .. n : \E b \in Seeds' : b.lane = L /\ b.ordinal = k
      <3>1. \A a \in Seeds : a.ordinal \in Nat
        BY <1>1, ZenonT(20) DEF Seeds, TestTypeOK, Seed
      <3>2. \A a \in Seeds' : a.lane = L => a.ordinal < n + 1
        BY <2>2, <2>3, <2>4, <2>7, <3>1 DEF SeedsBelow
      <3>3. \A k \in 0 .. n : k = n \/ k \in 0 .. n - 1
        BY <2>3
      <3>4. \A k \in 0 .. n : \E b \in Seeds' : b.lane = L /\ b.ordinal = k
        BY <2>2, <2>4, <2>7, <3>3, Zenon DEF SeedsUpTo
      <3> QED
        BY <3>2, <3>4, ZenonT(20)
    <2>10. SeedsUnique' /\ OrdinalsDense'
      <3>1. \A b \in drawn : b.epoch = epoch /\ b.lane = L => b.ordinal # n
        BY <2>2, <2>3 DEF SeedsBelow, Seeds
      <3>2. SeedsUnique'
        BY <1>1, <2>1, <2>4, <3>1, Zenon DEF SeedsUnique
      <3>3. \A k \in 0 .. n - 1 : \E b \in drawn : b.epoch = epoch /\ b.lane = L /\ b.ordinal = k
        BY <2>2, Zenon DEF SeedsUpTo, Seeds
      <3>4. ASSUME NEW a \in drawn', NEW k \in 0 .. a.ordinal - 1
            PROVE  \E b \in drawn' : b.epoch = a.epoch /\ b.lane = a.lane /\ b.ordinal = k
        <4>1. CASE a = seed
          BY <2>1, <2>4, <3>3, <3>4, <4>1
        <4>2. CASE a \in drawn
          BY <1>1, <2>1, <3>4, <4>2 DEF OrdinalsDense
        <4> QED
          BY <2>1, <4>1, <4>2
      <3> QED
        BY <3>2, <3>4 DEF OrdinalsDense
    <2>11. ScalarsCurrent'
      BY <1>1, <2>1, <2>4 DEF ScalarsCurrent, Scalar
    <2>12. \A u \in Threads : Root(u)'.epoch = Root(u).epoch
      BY <2>1, <2>5 DEF Root
    <2>13. \A u \in Threads : RootCtr(u)' = IF u = t /\ L = <<>> THEN n + 1 ELSE RootCtr(u)
      <3> TAKE u \in Threads
      <3>1. CASE u = t /\ L = <<>>
        BY <2>1, <2>2, <2>5, <3>1 DEF RootCtr, Root, L
      <3>2. CASE ~(u = t /\ L = <<>>)
        BY <2>1, <2>5, <3>2 DEF RootCtr, Root, L
      <3> QED
        BY <3>1, <3>2
    <2>14. RootSeeds'
      <3>1. ASSUME NEW a \in Seeds', a.lane = <<>> PROVE owner' = {a.thread} /\ a.ordinal < RootCtr(a.thread)'
        <4>1. CASE L = <<>>
          <5>1. a.thread = t /\ a.ordinal < n + 1
            BY <2>2, <2>4, <2>7, <2>9, <3>1, <4>1
          <5> QED
            BY <2>1, <2>13, <4>1, <5>1
        <4>2. CASE L # <<>>
          <5>1. a \in Seeds /\ a.thread \in Threads
            BY <1>1, <2>4, <2>7, <3>1, <4>2 DEF Seeds, TestTypeOK, Seed
          <5> QED
            BY <1>1, <2>1, <2>13, <3>1, <4>2, <5>1, ZenonT(20) DEF RootSeeds
        <4> QED
          BY <4>1, <4>2
      <3>2. ASSUME NEW u \in Threads, NEW k \in 0 .. RootCtr(u)' - 1
            PROVE  \E b \in Seeds' : b.lane = <<>> /\ b.ordinal = k
        <4>1. CASE u = t /\ L = <<>>
          BY <2>3, <2>9, <2>13, <3>2, <4>1, SMTT(30)
        <4>2. CASE ~(u = t /\ L = <<>>)
          BY <1>1, <2>7, <2>13, <3>2, <4>2, ZenonT(20) DEF RootSeeds, SeedsUpTo
        <4> QED
          BY <4>1, <4>2
      <3> QED
        BY <3>1, <3>2 DEF RootSeeds, SeedsUpTo
    <2>15. Kids(<<>>, MainKids)'
      <3>1. MainKids' = MainKids
        BY <2>1, <2>5, TestModeAssumption DEF MainKids
      <3> QED
        BY <1>1, <2>8, <3>1 DEF Kids
    <2>16. Queued' /\ Calm'
      BY <1>1, <2>1, <2>2, <2>3, <2>4 DEF Queued, Calm, TestTypeOK
    <2>17. ASSUME NEW u \in Threads PROVE WorkOf(u)'
      <3>1. WorkOf(u) /\ laneOp'[u] \in {"none", laneOp[u]} /\ Root(u)'.epoch = Root(u).epoch
        BY <1>1, <2>1, <2>12 DEF TestTypeOK
      <3> QED
        BY <2>1, <2>5, <3>1 DEF WorkOf
    <2>18. ASSUME NEW u \in Threads, tls'[u].lane # <<>> PROVE HeldBy(u)'
      <3>1. HeldBy(u) /\ tls[u].lane # <<>> /\ tls'[u].lane = tls[u].lane /\ tls'[u].child_ctr = tls[u].child_ctr
        BY <1>1, <2>5, <2>18
      <3>2. Kids(tls[u].lane, tls[u].child_ctr)'
        BY <2>8, <3>1, ZenonT(20) DEF HeldBy, Kids
      <3>3. \A v \in Threads : v # u => tls'[v].lane # tls'[u].lane
        BY <2>5, <3>1, ZenonT(20) DEF HeldBy
      <3>4. CASE u = t
        <4>1. SeedsBelow(tls[u].lane, tls[u].ctr)' /\ SeedsUpTo(tls[u].lane, tls[u].ctr)'
          <5>1. tls'[u].lane = L /\ tls'[u].ctr = n + 1 /\ n \in Nat
            BY <2>3, <2>5, <3>4, ZenonT(20) DEF L
          <5>2. 0 .. (n + 1) - 1 = 0 .. n
            BY <5>1
          <5> QED
            BY <2>9, <5>1, <5>2, ZenonT(20) DEF SeedsBelow, SeedsUpTo
        <4> QED
          BY <3>2, <3>3, <4>1 DEF HeldBy
      <3>5. CASE u # t
        <4>1. seed.lane # tls[u].lane /\ tls'[u] = tls[u]
          BY <2>4, <2>5, <3>1, <3>5, ZenonT(20) DEF HeldBy, L
        <4>2. SeedsBelow(tls[u].lane, tls[u].ctr)' /\ SeedsUpTo(tls[u].lane, tls[u].ctr)'
          BY <2>7, <3>1, <4>1 DEF HeldBy, SeedsBelow, SeedsUpTo
        <4> QED
          BY <3>2, <3>3, <4>2 DEF HeldBy
      <3> QED
        BY <3>4, <3>5
    <2>19. ASSUME NEW k \in DOMAIN pending, pending[k] # NoLane PROVE WaitsNew(k)'
      <3>1. WaitsNew(k) /\ L # pending[k]
        BY <1>1, <2>19, ZenonT(20) DEF WaitsNew, L
      <3> QED
        BY <2>1, <2>4, <2>5, <2>7, <2>8, <2>19, <3>1, SMTT(30) DEF WaitsNew
    <2>20. (\A u \in Threads : HeldBy(u)') /\ \A k \in DOMAIN pending' : WaitsNew(k)'
      BY <2>1, <2>18, <2>19, SMTT(30) DEF HeldBy, WaitsNew
    <2> QED
      BY <2>6, <2>10, <2>11, <2>14, <2>15, <2>16, <2>17, <2>20 DEF TestInv
  <1> QED
    BY <1>2, <1>3

\* The lane that next_test_child_lane makes is new, and no lane is below it.
LEMMA NextChild ==
    ASSUME TestInv, mode, NEW t \in Threads, t = MainThread \/ saved[t] # <<>>,
           NEW P, NEW c, P = SyncTestEpoch(tls[t]).lane, c = SyncTestEpoch(tls[t]).child_ctr
    PROVE  /\ P = tls[t].lane /\ P \in Seq(Nat) /\ c \in Nat /\ Kids(P, c)
           /\ P = <<>> <=> t = MainThread
           /\ Append(P, c) \in Seq(Nat) \ {<<>>, NoLane} /\ Append(P, c) \notin KnownLanes
           /\ \A M \in KnownLanes : ~Below(Append(P, c), M)
  <1>1. TestTypeOK /\ Calm /\ WorkOf(t) /\ HeldBy(t) /\ Kids(<<>>, MainKids)
    BY DEF TestInv
  <1>2. /\ P = tls[t].lane /\ P \in Seq(Nat) /\ c \in Nat
        /\ c = IF tls[t].epoch = epoch THEN tls[t].child_ctr ELSE 0
    <2>1. epoch \in Nat /\ tls[t] \in SeedState /\ tls[t].lane \in Seq(Nat) /\ tls[t].child_ctr \in Nat
      BY <1>1, ZenonT(20) DEF TestTypeOK, SeedState
    <2> QED
      BY <2>1, Synced
  <1>3. P = <<>> <=> t = MainThread
    BY <1>1, <1>2 DEF Calm, WorkOf
  <1>4. Kids(P, c)
    <2>1. CASE t = MainThread
      BY <1>1, <1>2, <1>3, <2>1, ZenonT(20) DEF MainKids
    <2>2. CASE t # MainThread
      BY <1>1, <1>2, <1>3, <2>2 DEF WorkOf, HeldBy
    <2> QED
      BY <2>1, <2>2, ZenonT(20)
  <1>5. \A M \in KnownLanes : M \in Seq(Nat) /\ (Below(P, M) => M[Len(P) + 1] < c)
    BY <1>1, <1>4, KnownTyped, ZenonT(20) DEF Kids
  <1>6. \A M \in KnownLanes : M # Append(P, c) /\ ~Below(Append(P, c), M)
    BY <1>2, <1>5, ChildLane, Zenon
  <1>7. Append(P, c) \in Seq(Nat) /\ Append(P, c) # <<>> /\ Append(P, c) # NoLane
    BY <1>2, ChildLane, Zenon
  <1> QED
    BY <1>2, <1>3, <1>4, <1>6, <1>7, ZenonT(30)

\* Outside test mode a task carries no lane.
LEMMA EnqueuePlainOK ==
    ASSUME TestInv, Quiescent, NEW t \in Threads, Free(t), EnqueueLane(t), ~mode
    PROVE  TestInv'
  <1>1. /\ TestTypeOK /\ Queued /\ Calm /\ RootSeeds /\ Kids(<<>>, MainKids)
        /\ \A u \in Threads : WorkOf(u)
        /\ SeedsUnique /\ OrdinalsDense /\ ScalarsCurrent
    BY DEF TestInv
  <1>2. /\ pending' = Append(pending, NoLane) /\ tls' = tls /\ t \notin resetting
        /\ mode' = mode /\ epoch' = epoch /\ owner' = owner /\ saved' = saved /\ laneOp' = laneOp
        /\ resetting' = resetting /\ drawn' = drawn /\ scalars' = scalars
    BY Zenon DEF EnqueueLane, Idle
  <1>3. resetting = {}
    BY <1>2 DEF Free
  <1>4. pending' \in Seq(Seq(Nat) \cup {NoLane}) /\ \A k \in DOMAIN pending' : pending'[k] = NoLane
    <2>1. \A k \in DOMAIN pending : pending[k] = NoLane
      BY <1>1 DEF Queued
    <2>2. pending \in Seq(Seq(Nat) \cup {NoLane})
      BY <1>1 DEF TestTypeOK
    <2> QED
      BY <1>2, <2>1, <2>2, AppendProperties
  <1>5. Seeds' = Seeds
    BY <1>2, ZenonT(20) DEF Seeds
  <1>6. TestTypeOK'
    BY <1>1, <1>2, <1>4 DEF TestTypeOK
  <1>7. KnownLanes' \subseteq KnownLanes
    BY <1>2, <1>4, <1>5, ZenonT(30) DEF KnownLanes
  <1>8. (\A u \in Threads : HeldBy(u)') /\ \A k \in DOMAIN pending' : WaitsNew(k)'
    BY <1>2, <1>4, <1>5, <1>6, <1>7, HeldKept DEF WaitsNew
  <1>9. \A u \in Threads : Root(u)' = Root(u) /\ RootCtr(u)' = RootCtr(u)
    BY <1>2, ZenonT(20) DEF Root, RootCtr
  <1>10. RootSeeds'
    BY <1>1, <1>2, <1>5, <1>9 DEF RootSeeds, SeedsUpTo, Seeds, TestTypeOK, Seed
  <1>11. Kids(<<>>, MainKids)'
    <2>1. MainKids' = MainKids
      BY <1>2 DEF MainKids
    <2> QED
      BY <1>1, <1>7, <2>1, ZenonT(20) DEF Kids
  <1>12. Queued'
    <2>1. NoLane # <<>>
      <3>1. <<>> \in Seq(Nat)
        BY SMTT(30)
      <3> QED
        BY <3>1, TestModeAssumption, Zenon
    <2> QED
      BY <1>2, <1>4, <2>1 DEF Queued
  <1>13. Calm' /\ ScalarsCurrent' /\ \A u \in Threads : WorkOf(u)'
    BY <1>1, <1>2, <1>3, <1>9 DEF Calm, WorkOf, ScalarsCurrent
  <1> QED
    BY <1>1, <1>2, <1>6, <1>8, <1>10, <1>11, <1>12, <1>13, LogKept DEF TestInv

\* In test mode it carries a lane of its own, made from its parent's.
LEMMA EnqueueLaneOK ==
    ASSUME TestInv, Quiescent, Spawners = {}, NEW t \in Threads, Free(t), EnqueueLane(t), mode
    PROVE  TestInv'
  <1> DEFINE r == SyncTestEpoch(tls[t])
  <1>1. /\ TestTypeOK /\ Queued /\ Calm /\ RootSeeds /\ Kids(<<>>, MainKids)
        /\ \A u \in Threads : WorkOf(u) /\ HeldBy(u)
        /\ \A k \in DOMAIN pending : WaitsNew(k)
        /\ SeedsUnique /\ OrdinalsDense /\ ScalarsCurrent
    BY DEF TestInv
  <1>2. PICK P, c, N : P = r.lane /\ c = r.child_ctr /\ N = Append(P, c)
    BY ZenonT(30)
  <1>3. /\ pending' = Append(pending, N) /\ tls' = [tls EXCEPT ![t] = [r EXCEPT !.child_ctr = @ + 1]]
        /\ t = MainThread \/ saved[t] # <<>>
        /\ t \notin resetting
        /\ mode' = mode /\ epoch' = epoch /\ owner' = owner /\ saved' = saved /\ laneOp' = laneOp
        /\ resetting' = resetting /\ drawn' = drawn /\ scalars' = scalars
    BY <1>2, Zenon DEF EnqueueLane, Idle
  <1>4. /\ P = tls[t].lane /\ P \in Seq(Nat) /\ c \in Nat /\ Kids(P, c)
        /\ P = <<>> <=> t = MainThread
        /\ N \in Seq(Nat) \ {<<>>, NoLane} /\ N \notin KnownLanes
        /\ \A M \in KnownLanes : ~Below(N, M)
    <2>1. P = SyncTestEpoch(tls[t]).lane /\ c = SyncTestEpoch(tls[t]).child_ctr
      BY <1>2
    <2> QED
      BY <1>2, <1>3, <2>1, NextChild
  <1>5. /\ N[Len(P) + 1] = c /\ ~Below(N, N)
        /\ \A Q \in Seq(Nat) : Below(Q, N) => Q = P \/ (Below(Q, P) /\ N[Len(Q) + 1] = P[Len(Q) + 1])
    <2>1. Append(P, c)[Len(P) + 1] = c /\ ~Below(Append(P, c), Append(P, c))
      BY <1>4, ChildLane, Zenon
    <2>2. \A Q \in Seq(Nat) : Below(Q, Append(P, c)) =>
             Q = P \/ (Below(Q, P) /\ Append(P, c)[Len(Q) + 1] = P[Len(Q) + 1])
      BY <1>4, ChildLane, Zenon
    <2> QED
      BY <1>2, <2>1, <2>2, Zenon
  <1>6. /\ tls' \in [Threads -> SeedState]
        /\ \A u \in Threads : (u # t => tls'[u] = tls[u]) /\ tls'[u].lane = tls[u].lane
        /\ tls'[t].child_ctr = c + 1 /\ tls'[t].epoch = epoch
        /\ tls'[t].ctr = IF tls[t].epoch = epoch THEN tls[t].ctr ELSE 0
    <2>1. tls[t] \in SeedState /\ epoch \in Nat
      BY <1>1 DEF TestTypeOK
    <2>2. r \in SeedState /\ r.epoch = epoch /\ r.ctr = IF tls[t].epoch = epoch THEN tls[t].ctr ELSE 0
      BY <2>1, Synced
    <2> HIDE DEF r
    <2> DEFINE q == [r EXCEPT !.child_ctr = @ + 1]
    <2>3. q \in SeedState /\ q.lane = P /\ q.epoch = epoch /\ q.ctr = r.ctr /\ q.child_ctr = c + 1
      <3>1. q \in SeedState /\ q.lane = r.lane /\ q.epoch = r.epoch /\ q.ctr = r.ctr /\ q.child_ctr = r.child_ctr + 1
        BY <2>2 DEF SeedState
      <3> HIDE DEF q
      <3> QED
        BY <1>2, <2>2, <3>1, Zenon
    <2>4. tls' = [tls EXCEPT ![t] = q]
      BY <1>3
    <2> HIDE DEF q
    <2> QED
      BY <1>1, <1>4, <2>2, <2>3, <2>4, ZenonT(30) DEF TestTypeOK
  <1> HIDE DEF r
  <1>7. /\ pending' \in Seq(Seq(Nat) \cup {NoLane}) /\ Len(pending') = Len(pending) + 1
        /\ DOMAIN pending' = DOMAIN pending \cup {Len(pending) + 1} /\ Len(pending) + 1 \notin DOMAIN pending
        /\ pending'[Len(pending) + 1] = N /\ \A k \in DOMAIN pending : pending'[k] = pending[k]
    <2>1. pending \in Seq(Seq(Nat) \cup {NoLane}) /\ N \in Seq(Nat) \cup {NoLane}
      BY <1>1, <1>4 DEF TestTypeOK
    <2> HIDE <1>2
    <2> QED
      BY <1>3, <2>1, AppendProperties
  <1>8. TestTypeOK'
    BY <1>1, <1>3, <1>6, <1>7 DEF TestTypeOK
  <1>9. Seeds' = Seeds
    BY <1>3 DEF Seeds
  <1>10. KnownLanes' = KnownLanes \cup {N}
    <2>1. {tls'[u].lane : u \in Threads} = {tls[u].lane : u \in Threads}
      BY <1>6, Zenon
    <2>2. {pending'[k] : k \in DOMAIN pending'} = {pending[k] : k \in DOMAIN pending} \cup {N}
      BY <1>7
    <2> QED
      BY <1>4, <1>9, <2>1, <2>2, Zenon DEF KnownLanes
  <1>11. ASSUME NEW Q \in Seq(Nat), NEW d, Q # P, Kids(Q, d) PROVE \A M \in KnownLanes' : Below(Q, M) => M[Len(Q) + 1] < d
    <2>1. ASSUME Below(Q, N) PROVE N[Len(Q) + 1] < d
      <3>1. Below(Q, P) /\ N[Len(Q) + 1] = P[Len(Q) + 1]
        BY <1>5, <1>11, <2>1, Zenon
      <3>2. P # <<>>
        BY <1>4, <1>11, <3>1, LenProperties DEF Below
      <3>3. P \in KnownLanes
        BY <1>1, <1>4, <3>2, KnownTyped
      <3> QED
        BY <1>11, <3>1, <3>3 DEF Kids
    <2> QED
      BY <1>10, <1>11, <2>1 DEF Kids
  <1>12. \A M \in KnownLanes' : Below(P, M) => M[Len(P) + 1] < c + 1
    <2>1. ASSUME NEW M \in KnownLanes, Below(P, M) PROVE M[Len(P) + 1] < c + 1
      <3>1. M[Len(P) + 1] < c /\ M \in Seq(Nat)
        BY <1>1, <1>4, <2>1, KnownTyped, Zenon DEF Kids
      <3>2. Len(P) \in Nat /\ Len(M) \in Nat /\ Len(P) < Len(M)
        BY <1>4, <2>1, <3>1, LenProperties DEF Below
      <3>3. Len(P) + 1 \in 1 .. Len(M)
        BY <3>2
      <3>4. M[Len(P) + 1] \in Nat
        BY <3>1, <3>3, ElementOfSeq
      <3> QED
        BY <1>4, <3>1, <3>4
    <2>2. N[Len(P) + 1] < c + 1
      BY <1>4, <1>5
    <2> QED
      BY <1>10, <2>1, <2>2
  <1>13. Kids(<<>>, MainKids)'
    <2>1. CASE t = MainThread
      <3>1. MainKids' = c + 1 /\ P = <<>>
        BY <1>3, <1>4, <1>6, <2>1 DEF MainKids
      <3> QED
        BY <1>12, <3>1 DEF Kids
    <2>2. CASE t # MainThread
      <3>1. MainKids' = MainKids /\ <<>> # P
        BY <1>3, <1>4, <1>6, <2>2, TestModeAssumption DEF MainKids
      <3>2. <<>> \in Seq(Nat)
        OBVIOUS
      <3>3. \A M \in KnownLanes' : Below(<<>>, M) => M[Len(<<>>) + 1] < MainKids
        BY <1>1, <1>11, <3>1, <3>2, Zenon
      <3> QED
        BY <3>1, <3>3, Zenon DEF Kids
    <2> QED
      BY <2>1, <2>2
  <1>14. \A u \in Threads : RootCtr(u)' = RootCtr(u) /\ Root(u)'.epoch <= epoch
    <2> TAKE u \in Threads
    <2>1. Root(u).epoch <= epoch /\ epoch \in Nat
      BY <1>1, ZenonT(20) DEF WorkOf, TestTypeOK
    <2>2. CASE tls[u].lane # <<>> \/ u # t
      BY <1>3, <1>6, <2>1, <2>2 DEF RootCtr, Root
    <2>3. CASE tls[u].lane = <<>> /\ u = t
      BY <1>3, <1>6, <2>1, <2>3 DEF RootCtr, Root
    <2> QED
      BY <2>2, <2>3
  <1>15. RootSeeds'
    BY <1>1, <1>3, <1>9, <1>14 DEF RootSeeds, SeedsUpTo, Seeds, TestTypeOK, Seed
  <1>16. resetting = {}
    BY <1>3 DEF Free
  <1>17. Queued'
    <2>1. N # NoLane /\ N # <<>>
      BY <1>4
    <2> QED
      BY <1>1, <1>3, <1>7, <2>1 DEF Queued
  <1>18. Calm' /\ ScalarsCurrent'
    BY <1>1, <1>3, <1>9, <1>16 DEF Calm, ScalarsCurrent
  <1>19. ASSUME NEW u \in Threads PROVE WorkOf(u)'
    <2>1. WorkOf(u) /\ epoch \in Nat /\ Root(u)'.epoch <= epoch
      BY <1>1, <1>14 DEF TestTypeOK
    <2>2. CASE u # t
      BY <1>3, <1>6, <2>1, <2>2 DEF WorkOf
    <2>3. CASE u = t
      BY <1>3, <1>6, <2>1, <2>3 DEF WorkOf
    <2> QED
      BY <2>2, <2>3, ZenonT(20)
  <1>20. ASSUME NEW u \in Threads, tls'[u].lane # <<>> PROVE HeldBy(u)'
    <2>1. HeldBy(u) /\ tls[u].lane # <<>> /\ tls'[u].lane = tls[u].lane /\ tls[u].lane \in Seq(Nat)
      BY <1>1, <1>6, <1>20, KnownTyped, ZenonT(20)
    <2>2. \A v \in Threads : v # u => tls'[v].lane # tls'[u].lane
      BY <1>6, <2>1, ZenonT(20) DEF HeldBy
    <2>3. CASE u = t
      <3>1. tls'[t].ctr = tls[t].ctr
        <4>1. tls[t].epoch = epoch
          BY <1>1, <2>1, <2>3, Zenon DEF WorkOf
        <4> QED
          BY <1>6, <4>1, Zenon
      <3>2. SeedsBelow(tls[t].lane, tls[t].ctr)' /\ SeedsUpTo(tls[t].lane, tls[t].ctr)'
        BY <1>9, <2>1, <2>3, <3>1, ZenonT(30) DEF HeldBy, SeedsBelow, SeedsUpTo
      <3>3. Kids(tls[t].lane, tls[t].child_ctr)'
        BY <1>4, <1>6, <1>12, ZenonT(30) DEF Kids
      <3> QED
        BY <2>2, <2>3, <3>2, <3>3, SMTT(30) DEF HeldBy
    <2>4. CASE u # t
      <3>1. tls'[u] = tls[u] /\ tls[u].lane # P /\ Kids(tls[u].lane, tls[u].child_ctr)
        BY <1>4, <1>6, <2>1, <2>4 DEF HeldBy
      <3>2. SeedsBelow(tls[u].lane, tls[u].ctr)' /\ SeedsUpTo(tls[u].lane, tls[u].ctr)'
        BY <1>9, <2>1, <3>1, SMTT(30) DEF HeldBy, SeedsBelow, SeedsUpTo
      <3>3. \A M \in KnownLanes' : Below(tls[u].lane, M) => M[Len(tls[u].lane) + 1] < tls[u].child_ctr
        BY <1>11, <2>1, <3>1
      <3>4. Kids(tls[u].lane, tls[u].child_ctr)'
        BY <3>1, <3>3, SMTT(30) DEF Kids
      <3> QED
        BY <2>2, <3>2, <3>4 DEF HeldBy
    <2> QED
      BY <2>3, <2>4, ZenonT(20)
  <1>21. ASSUME NEW k \in DOMAIN pending, pending[k] # NoLane PROVE WaitsNew(k)'
    <2>1. WaitsNew(k) /\ pending[k] # <<>> /\ pending[k] \in KnownLanes /\ pending[k] \in Seq(Nat)
      BY <1>1, <1>21, KnownTyped DEF Queued
    <2>2. ~Below(pending[k], N)
      <3>1. pending[k] # P
        BY <1>4, <1>21, <2>1 DEF WaitsNew
      <3>2. ASSUME Below(pending[k], P) PROVE FALSE
        <4>1. P # <<>>
          BY <1>4, <2>1, <3>2, LenProperties DEF Below
        <4>2. P \in KnownLanes
          BY <1>1, <1>4, <4>1, KnownTyped
        <4> QED
          BY <1>21, <2>1, <3>2, <4>2, SMTT(30) DEF WaitsNew
      <3> QED
        BY <1>5, <2>1, <3>1, <3>2, Zenon
    <2>3. \A j \in DOMAIN pending' : pending'[j] = pending'[k] => j = k
      BY <1>4, <1>7, <1>21, <2>1 DEF WaitsNew
    <2> QED
      BY <1>6, <1>7, <1>9, <1>10, <1>21, <2>1, <2>2, <2>3, SMTT(30) DEF WaitsNew
  <1>22. ASSUME NEW e, e = Len(pending) + 1 PROVE WaitsNew(e)'
    <2>1. \A M \in KnownLanes' : ~Below(N, M)
      BY <1>4, <1>5, <1>10, SMTT(30)
    <2>2. (\A u \in Threads : tls'[u].lane # N) /\ \A a \in Seeds' : a.lane # N
      BY <1>1, <1>4, <1>6, <1>9, KnownTyped, SMTT(30)
    <2>3. \A j \in DOMAIN pending' : pending'[j] = N => j = e
      <3>1. \A j \in DOMAIN pending : pending[j] # N
        <4> TAKE j \in DOMAIN pending
        <4>1. pending[j] \notin {NoLane, <<>>} => pending[j] \in KnownLanes
          BY <1>1, KnownTyped, Zenon
        <4> QED
          BY <1>4, <4>1, Zenon
      <3> QED
        BY <1>7, <1>22, <3>1, SMTT(30)
    <2>4. pending'[e] = N
      BY <1>7, <1>22, SMTT(30)
    <2> QED
      BY <2>1, <2>2, <2>3, <2>4 DEF WaitsNew
  <1>23. (\A u \in Threads : HeldBy(u)') /\ \A k \in DOMAIN pending' : WaitsNew(k)'
    <2>1. ASSUME NEW k \in DOMAIN pending' PROVE WaitsNew(k)'
      <3>1. CASE k = Len(pending) + 1
        BY <1>22, <3>1, SMTT(30)
      <3>2. CASE k \in DOMAIN pending
        BY <1>7, <1>21, <3>2, ZenonT(30) DEF WaitsNew
      <3> QED
        BY <1>7, <3>1, <3>2, ZenonT(30)
    <2> QED
      BY <1>20, <2>1, ZenonT(30) DEF HeldBy
  <1> QED
    BY <1>1, <1>3, <1>8, <1>13, <1>15, <1>17, <1>18, <1>19, <1>23, LogKept DEF TestInv

\* At the start nothing has been drawn and every thread is on lane 0.
LEMMA TestStart == ASSUME TestInit PROVE TestInv
  <1>1. /\ mode \in BOOLEAN /\ epoch = 0 /\ resetting = {} /\ drawn = {} /\ scalars = {} /\ pending = <<>>
        /\ \A t \in Threads : saved[t] = <<>> /\ laneOp[t] = "none" /\ tls[t] = TestSeedTls
        /\ DOMAIN saved = Threads
    BY DEF TestInit
  <1>2. TestSeedTls \in SeedState /\ TestSeedTls.lane = <<>> /\ TestSeedTls.ctr = 0 /\ TestSeedTls.epoch = 0
    BY DEF TestSeedTls, SeedState
  <1>3. TestTypeOK
    <2>1. tls \in [Threads -> SeedState] /\ laneOp \in [Threads -> {"none", "prg", "scalar"}]
      BY <1>2, SMTT(30) DEF TestInit
    <2>2. pending \in Seq(Seq(Nat) \cup {NoLane})
      BY <1>1
    <2> QED
      BY <1>1, <2>1, <2>2 DEF TestTypeOK
  <1>4. Seeds = {} /\ DOMAIN pending = {}
    BY <1>1 DEF Seeds
  <1>5. \A t \in Threads : tls[t].lane = <<>> /\ tls[t].epoch = 0 /\ Root(t) = tls[t] /\ RootCtr(t) = 0
    BY <1>1, <1>2, ZenonT(30) DEF Root, RootCtr
  <1>6. KnownLanes = {}
    BY <1>4, <1>5, Zenon DEF KnownLanes
  <1>7. Queued /\ Calm /\ RootSeeds
    BY <1>1, <1>4, <1>5, TestModeAssumption DEF Queued, Calm, RootSeeds, SeedsUpTo
  <1>8. ASSUME NEW t \in Threads PROVE WorkOf(t) /\ HeldBy(t)
    <2>1. /\ tls[t].lane = <<>> /\ saved[t] = <<>> /\ laneOp[t] = "none"
          /\ tls[t].epoch = 0 /\ Root(t).epoch = 0 /\ epoch = 0
      BY <1>1, <1>5, Zenon
    <2>2. tls[t].epoch <= epoch /\ Root(t).epoch <= epoch
      BY <2>1
    <2> QED
      BY <2>1, <2>2, Zenon DEF WorkOf, HeldBy
  <1>9. Kids(<<>>, MainKids) /\ SeedsUnique /\ OrdinalsDense /\ ScalarsCurrent
    BY <1>1, <1>6 DEF Kids, SeedsUnique, OrdinalsDense, ScalarsCurrent
  <1> QED
    BY <1>3, <1>4, <1>7, <1>8, <1>9 DEF TestInv

\* Whatever the number of threads, tasks, draws, resets and switches: when lanes
\* are made by the main thread and by tasks only, and resets and switches find
\* nothing under way, test mode gives each unit of work the seeds of its own
\* program order.
THEOREM WorkIsReproduced ==
    ASSUME Quiescent, Spawners = {}
    PROVE  TestSpec => []SeedsReproduce
  <1>1. TestInit => TestInv
    BY TestStart
  <1>2. TestInv /\ [TestNext]_testVars => TestInv'
    <2> SUFFICES ASSUME TestInv, [TestNext]_testVars PROVE TestInv'
      OBVIOUS
    <2>1. CASE UNCHANGED testVars
      <3>1. /\ mode' = mode /\ epoch' = epoch /\ owner' = owner /\ saved' = saved /\ pending' = pending
            /\ resetting' = resetting /\ drawn' = drawn /\ tls' = tls /\ laneOp' = laneOp /\ scalars' = scalars
        BY <2>1 DEF testVars
      <3>2. ScalarsCurrent'
        BY <3>1 DEF ScalarsCurrent, TestInv
      <3> QED
        BY <3>1, <3>2, ScalarsOnly
    <2>2. CASE TestNext
      <3>1. PICK t \in Threads :
                /\ Free(t)
                /\ \/ PRG(t) \/ RandScalar(t) \/ EndDraw(t) \/ EnqueueLane(t) \/ StartTask(t) \/ EndTask(t)
                   \/ ResetEpoch(t) \/ ResetOwner(t) \/ \E on \in BOOLEAN : SetTestMode(t, on)
        BY <2>2 DEF TestNext
      <3>2. CASE PRG(t)
        BY <3>1, <3>2, BeginDrawOK DEF PRG
      <3>3. CASE RandScalar(t)
        BY <3>1, <3>3, RandScalarOK
      <3>4. CASE EndDraw(t)
        BY <3>4, EndDrawOK
      <3>5. CASE EnqueueLane(t)
        BY <3>1, <3>5, EnqueueLaneOK, EnqueuePlainOK
      <3>6. CASE StartTask(t)
        BY <3>1, <3>6, StartTaskOK
      <3>7. CASE EndTask(t)
        BY <3>7, EndTaskOK
      <3>8. CASE ResetEpoch(t)
        BY <3>8, ResetEpochOK
      <3>9. CASE ResetOwner(t) \/ \E on \in BOOLEAN : SetTestMode(t, on)
        BY <3>9, SwitchOK, ZenonT(30)
      <3> QED
        BY <3>1, <3>2, <3>3, <3>4, <3>5, <3>6, <3>7, <3>8, <3>9
    <2> QED
      BY <2>1, <2>2
  <1>3. TestInv => SeedsReproduce
    <2> SUFFICES ASSUME TestInv PROVE LanesApart
      BY DEF SeedsReproduce, TestInv
    <2> QED
      BY DEF LanesApart, TestInv, HeldBy, WaitsNew
  <1> QED
    BY <1>1, <1>2, <1>3, PTL DEF TestSpec
=============================================================================
