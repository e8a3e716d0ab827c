------------------------------ MODULE TestMode ------------------------------
(***************************************************************************)
(* Test mode's deterministic randomness (runtime/core/test_mode.h): lanes, *)
(* per-thread ordinals, the owner of lane 0 and resets, drawn on by PRG()  *)
(* and by ECGroup::rand_scalar on the main thread, on pool workers running *)
(* tasks under lanes (third_party/ThreadPool.h) and on stray threads.      *)
(* Every access to an atomic is a step of its own.  A lane is the path of  *)
(* the unit of work that owns it; mix64 stands for an injective encoding.  *)
(***************************************************************************)
EXTENDS Integers, Sequences

CONSTANTS Threads, MainThread,
          Strays,       \* threads that draw without a scope
          Spawners,     \* threads that enqueue tasks without a scope
          Quiescent,    \* resets and switches happen only when nothing is under way
          MaxDraws, MaxSpawns, MaxResets, MaxToggles,
          NoLane        \* what a task enqueued outside test mode carries

ASSUME TestModeAssumption ==
    /\ MainThread \in Threads /\ Strays \cup Spawners \subseteq Threads /\ Quiescent \in BOOLEAN
    /\ {MaxDraws, MaxSpawns, MaxResets, MaxToggles} \subseteq Nat
    /\ NoLane \notin Seq(Nat)

VARIABLES mode,       \* test_mode_flag
          epoch,      \* test_seed_epoch
          owner,      \* lane0_owner: {} or one thread
          tls,        \* test_seed_tls of each thread
          saved,      \* the enclosing test_lane_scopes' saved states
          laneOp,         \* "none", or whose next_test_seed is between its two atomics
          scalarPrg,        \* rand_scalar's thread_local PRG: its seed, or NoLane
          pending,    \* lanes of enqueued tasks
          resetting,  \* threads between the two stores of a reset
          drawn,      \* log of seeds: [epoch, lane, ordinal, thread]
          scalars,    \* log of scalars: [lane, epoch, seed]
          spawns, draws, toggles,
          aborted        \* expecting() failed

testVars == <<mode, epoch, owner, tls, saved, laneOp, scalarPrg, pending, resetting, drawn, scalars, spawns, draws, toggles, aborted>>

TestSeedTls == [lane |-> <<>>, ctr |-> 0, child_ctr |-> 0, epoch |-> 0]

TestInit ==
    /\ mode \in BOOLEAN
    /\ epoch = 0
    /\ owner = {}
    /\ tls = [t \in Threads |-> TestSeedTls]
    /\ saved = [t \in Threads |-> <<>>]
    /\ laneOp = [t \in Threads |-> "none"]
    /\ scalarPrg = [t \in Threads |-> NoLane]
    /\ pending = <<>>
    /\ resetting = {}
    /\ drawn = {} /\ scalars = {}
    /\ spawns = 0 /\ draws = 0 /\ toggles = 0
    /\ aborted = FALSE

Idle(t) == ~aborted /\ laneOp[t] = "none" /\ t \notin resetting

AtWork(t) == saved[t] # <<>> \/ laneOp[t] # "none" \/ t \in resetting
AtRest == pending = <<>> /\ \A t \in Threads : ~AtWork(t)

SetTestMode(t, on) ==
    /\ Idle(t) /\ toggles < MaxToggles /\ mode # on
    /\ Quiescent => AtRest
    /\ mode' = on
    /\ toggles' = toggles + 1
    /\ UNCHANGED <<epoch, owner, tls, saved, laneOp, scalarPrg, pending, resetting, drawn, scalars, spawns, draws, aborted>>

SyncTestEpoch(s) ==
    IF s.epoch = epoch THEN s
    ELSE [s EXCEPT !.ctr = 0, !.child_ctr = 0, !.epoch = epoch]

Draws(t) ==
    /\ Idle(t) /\ mode /\ draws < MaxDraws
    /\ t \in {MainThread} \cup Strays \/ saved[t] # <<>>

\* next_test_seed up to the CAS, for PRG() ("prg") or rand_scalar ("scalar").
BeginDraw(t, who) ==
    /\ Draws(t)
    /\ tls' = [tls EXCEPT ![t] = SyncTestEpoch(@)]
    /\ laneOp' = [laneOp EXCEPT ![t] = who]
    /\ draws' = draws + 1
    /\ UNCHANGED <<mode, epoch, owner, saved, scalarPrg, pending, resetting, drawn, scalars, spawns, toggles, aborted>>

PRG(t) == BeginDraw(t, "prg")

\* A scalar from the thread's generator.
Scalar(t, seed) == scalars' = scalars \cup {[lane |-> tls[t].lane, epoch |-> epoch, seed |-> seed]}

\* rand_scalar: the thread's PRG is reused while its epoch is current (the two
\* loads of the epoch, here and in the draw, are one step).
RandScalar(t) ==
    \/ /\ scalarPrg[t] # NoLane => scalarPrg[t].epoch # epoch
       /\ BeginDraw(t, "scalar")
    \/ /\ Draws(t)
       /\ scalarPrg[t] # NoLane /\ scalarPrg[t].epoch = epoch
       /\ Scalar(t, scalarPrg[t])
       /\ draws' = draws + 1
       /\ UNCHANGED <<mode, epoch, owner, tls, saved, laneOp, scalarPrg, pending, resetting, drawn, spawns, toggles, aborted>>

\* Mutant: any thread may draw from lane 0.
EndDrawFree(t) ==
    /\ ~aborted /\ laneOp[t] # "none"
    /\ LET s == tls[t]
           seed == [epoch |-> s.epoch, lane |-> s.lane, ordinal |-> s.ctr, thread |-> t]
       IN  /\ drawn' = drawn \cup {seed}
           /\ tls' = [tls EXCEPT ![t].ctr = @ + 1]
    /\ laneOp' = [laneOp EXCEPT ![t] = "none"]
    /\ UNCHANGED <<mode, epoch, owner, saved, scalarPrg, pending, resetting, scalars, spawns, draws, toggles, aborted>>

\* The rest of next_test_seed: lane 0 is claimed or must already be ours; then
\* the seed is handed out.
EndDraw(t) ==
    /\ ~aborted /\ laneOp[t] # "none"
    /\ LET s == tls[t]
           seed == [epoch |-> s.epoch, lane |-> s.lane, ordinal |-> s.ctr, thread |-> t]
       IN  IF s.lane = <<>> /\ owner \notin {{}, {t}}
           THEN aborted' = TRUE /\ UNCHANGED <<owner, tls, laneOp, scalarPrg, drawn, scalars>>
           ELSE /\ owner' = IF s.lane = <<>> THEN {t} ELSE owner
                /\ tls' = [tls EXCEPT ![t].ctr = @ + 1]
                /\ laneOp' = [laneOp EXCEPT ![t] = "none"]
                /\ drawn' = drawn \cup {seed}
                /\ IF laneOp[t] = "scalar"
                   THEN scalarPrg' = [scalarPrg EXCEPT ![t] = seed] /\ Scalar(t, seed)
                   ELSE UNCHANGED <<scalarPrg, scalars>>
                /\ UNCHANGED aborted
    /\ UNCHANGED <<mode, epoch, saved, pending, resetting, spawns, draws, toggles>>

\* enqueue: next_test_child_lane on the enqueuing thread, if in test mode.
EnqueueLane(t) ==
    /\ Idle(t) /\ spawns < MaxSpawns
    /\ t \in {MainThread} \cup Spawners \/ saved[t] # <<>>
    /\ spawns' = spawns + 1
    /\ IF mode
       THEN LET s == SyncTestEpoch(tls[t])
            IN  /\ pending' = Append(pending, Append(s.lane, s.child_ctr))
                /\ tls' = [tls EXCEPT ![t] = [s EXCEPT !.child_ctr = @ + 1]]
       ELSE pending' = Append(pending, NoLane) /\ UNCHANGED tls
    /\ UNCHANGED <<mode, epoch, owner, saved, laneOp, scalarPrg, resetting, drawn, scalars, draws, toggles, aborted>>

\* A worker takes the front task; test_lane_scope saves and installs.
StartTask(t) ==
    /\ Idle(t) /\ t # MainThread /\ saved[t] = <<>> /\ pending # <<>>
    /\ pending' = Tail(pending)
    /\ saved' = [saved EXCEPT ![t] = <<tls[t]>>]
    /\ tls' = IF Head(pending) = NoLane THEN tls
              ELSE [tls EXCEPT ![t] = [TestSeedTls EXCEPT !.lane = Head(pending), !.epoch = epoch]]
    /\ UNCHANGED <<mode, epoch, owner, laneOp, scalarPrg, resetting, drawn, scalars, spawns, draws, toggles, aborted>>

\* ~test_lane_scope; a task without a lane leaves the thread's state behind.
EndTask(t) ==
    /\ Idle(t) /\ saved[t] # <<>>
    /\ tls' = IF tls[t].lane = <<>> THEN tls ELSE [tls EXCEPT ![t] = saved[t][1]]
    /\ saved' = [saved EXCEPT ![t] = <<>>]
    /\ UNCHANGED <<mode, epoch, owner, laneOp, scalarPrg, pending, resetting, drawn, scalars, spawns, draws, toggles, aborted>>

\* reset_test_seed_counter is two atomic stores.
ResetEpoch(t) ==
    /\ Idle(t) /\ epoch < MaxResets
    /\ Quiescent => AtRest
    /\ epoch' = epoch + 1
    /\ resetting' = resetting \cup {t}
    /\ UNCHANGED <<mode, owner, tls, saved, laneOp, scalarPrg, pending, drawn, scalars, spawns, draws, toggles, aborted>>

ResetOwner(t) ==
    /\ ~aborted /\ t \in resetting
    /\ owner' = {}
    /\ resetting' = resetting \ {t}
    /\ UNCHANGED <<mode, epoch, tls, saved, laneOp, scalarPrg, pending, drawn, scalars, spawns, draws, toggles, aborted>>

\* Under Quiescent nobody else moves while a reset is between its stores.
Free(t) == Quiescent => resetting \subseteq {t}

TestNext ==
    \E t \in Threads :
        /\ Free(t)
        /\ \/ PRG(t) \/ RandScalar(t) \/ EndDraw(t)
           \/ EnqueueLane(t) \/ StartTask(t) \/ EndTask(t)
           \/ ResetEpoch(t) \/ ResetOwner(t)
           \/ \E on \in BOOLEAN : SetTestMode(t, on)

TestSpec == TestInit /\ [][TestNext]_testVars

-----------------------------------------------------------------------------
\* Between two resets no (lane, ordinal) seeds two generators, whichever threads
\* draw, however the workers take the tasks and whenever test mode is switched.
SeedsUnique ==
    \A a, b \in drawn :
        a.epoch = b.epoch /\ a.lane = b.lane /\ a.ordinal = b.ordinal => a = b

\* Within an epoch the ordinals of a lane are 0, 1, 2, ... with no gap: what a
\* unit of work gets depends on its own program order alone.
OrdinalsDense ==
    \A a \in drawn : \A k \in 0 .. a.ordinal - 1 :
        \E b \in drawn : b.epoch = a.epoch /\ b.lane = a.lane /\ b.ordinal = k

\* Units of work waiting or running at the same time have lanes of their own.
LanesApart ==
    LET busy == {t \in Threads : tls[t].lane # <<>>}
    IN  /\ \A t, u \in busy : t # u => tls[t].lane # tls[u].lane
        /\ \A i \in DOMAIN pending : pending[i] # NoLane =>
               /\ \A t \in busy : tls[t].lane # pending[i]
               /\ \A j \in DOMAIN pending : pending[i] = pending[j] => i = j

\* A reset reaches rand_scalar: no scalar after it comes from a generator seeded
\* before it.
ScalarsCurrent ==
    \A s \in scalars : s.seed.epoch = s.epoch

\* "Pool-parallel randomness reproduces regardless of which worker executes the
\* task": a task's scalars come from its own lane.
ScalarsFollowLanes ==
    \A s \in scalars : s.seed.lane = s.lane

\* Test mode is a function of the work, not of the threads: no seed twice in an
\* epoch, ordinals without gaps, lanes apart, and no scalar from before a reset.
SeedsReproduce == SeedsUnique /\ OrdinalsDense /\ LanesApart /\ ScalarsCurrent
=============================================================================
