----------------------------- MODULE ThreadPool -----------------------------
(*****************************************************************************)
(* third_party/ThreadPool.h with the barriers of runtime/core/utils.hpp: a   *)
(* main thread enqueues batches, joins them and destroys the pool; a running *)
(* task may enqueue another.  A critical section under queue_mutex is one    *)
(* step; the notify calls that follow it are steps of their own.             *)
(*****************************************************************************)
EXTENDS Integers, Sequences, Functions

CONSTANTS Workers, Main,
          MaxTasks,    \* bound on tasks
          MaxBatches   \* bound on joins

ASSUME PoolAssumption ==
    /\ Main \notin Workers /\ Workers # {}
    /\ {MaxTasks, MaxBatches} \subseteq Nat

VARIABLES tasks,      \* the queue: numbers of tasks, in order of enqueueing
          stop,
          wpc,        \* worker -> "check", "wait", "run", "exit"
          cur,        \* worker -> its task
          notifying,  \* threads between an enqueue's unlock and its notify_one
          enqueued,   \* number of tasks so far
          started,    \* tasks taken, in order
          result,     \* task -> what its future holds: {} or {BOOLEAN}
          res,        \* main's vector of futures
          at,         \* how many of them the join has passed
          mpc,        \* "work", "join", "joined", "stop", "reap", "gone"
          kind,       \* "plain" (joinNclean) or "cheat" (joinNcleanCheat)
          verdict,    \* cheat
          last,       \* the futures of the last join
          batches,
          dead        \* enqueue on a stopped pool: error()

vars == <<tasks, stop, wpc, cur, notifying, enqueued, started, result, res, at, mpc, kind, verdict, last, batches, dead>>
pool == <<tasks, stop, wpc, cur, notifying, enqueued, started, result>>
main == <<res, at, mpc, kind, verdict, last, batches>>

Init ==
    /\ tasks = <<>> /\ stop = FALSE
    /\ wpc = [w \in Workers |-> "check"]
    /\ cur = [w \in Workers |-> 0]
    /\ notifying = {}
    /\ enqueued = 0 /\ started = <<>>
    /\ result = [t \in 1 .. MaxTasks |-> {}]
    /\ res = <<>> /\ at = 0 /\ mpc = "work" /\ kind = "plain" /\ verdict = FALSE
    /\ last = {} /\ batches = 0
    /\ dead = FALSE

\* Mutant: the front task is run but popped only by the next worker.
CheckPeek(w) ==
    /\ ~dead /\ wpc[w] = "check" /\ tasks # <<>>
    /\ cur' = [cur EXCEPT ![w] = Head(tasks)]
    /\ started' = Append(started, Head(tasks))
    /\ wpc' = [wpc EXCEPT ![w] = "run"]
    /\ UNCHANGED <<tasks, stop, notifying, enqueued, result, main, dead>>

\* The worker's loop up to task(): leave, take the front task, or wait.
Check(w) ==
    /\ ~dead /\ wpc[w] = "check"
    /\ \/ /\ stop /\ tasks = <<>>
          /\ wpc' = [wpc EXCEPT ![w] = "exit"]
          /\ UNCHANGED <<tasks, cur, started>>
       \/ /\ tasks # <<>>
          /\ cur' = [cur EXCEPT ![w] = Head(tasks)]
          /\ started' = Append(started, Head(tasks))
          /\ tasks' = Tail(tasks)
          /\ wpc' = [wpc EXCEPT ![w] = "run"]
       \/ /\ ~stop /\ tasks = <<>>
          /\ wpc' = [wpc EXCEPT ![w] = "wait"]
          /\ UNCHANGED <<tasks, cur, started>>
    /\ UNCHANGED <<stop, notifying, enqueued, result, main, dead>>

\* condition.wait may return with nobody having notified.
WakeUp(w) ==
    /\ ~dead /\ wpc[w] = "wait"
    /\ wpc' = [wpc EXCEPT ![w] = "check"]
    /\ UNCHANGED <<tasks, stop, cur, notifying, enqueued, started, result, main, dead>>

\* The packaged_task returns and its future is ready.
FinishTask(w) ==
    /\ ~dead /\ wpc[w] = "run" /\ w \notin notifying
    /\ \E r \in BOOLEAN : result' = [result EXCEPT ![cur[w]] = {r}]
    /\ wpc' = [wpc EXCEPT ![w] = "check"]
    /\ UNCHANGED <<tasks, stop, cur, notifying, enqueued, started, main, dead>>

\* enqueue under the lock, by main or by a running task.
Enqueue(th) ==
    /\ th \notin notifying /\ enqueued < MaxTasks
    /\ IF stop THEN dead' = TRUE /\ UNCHANGED <<tasks, enqueued, notifying>>
       ELSE /\ enqueued' = enqueued + 1
            /\ tasks' = Append(tasks, enqueued + 1)
            /\ notifying' = notifying \cup {th}
            /\ UNCHANGED dead

MainEnqueue ==
    /\ ~dead /\ mpc = "work"
    /\ Enqueue(Main)
    /\ res' = Append(res, enqueued + 1)
    /\ UNCHANGED <<stop, wpc, cur, started, result, at, mpc, kind, verdict, last, batches>>

TaskEnqueue(w) ==
    /\ ~dead /\ wpc[w] = "run"
    /\ Enqueue(w)
    /\ UNCHANGED <<stop, wpc, cur, started, result, main>>

\* condition.notify_one wakes some waiting worker, if there is one.
NotifyOne(th) ==
    /\ ~dead /\ th \in notifying
    /\ notifying' = notifying \ {th}
    /\ LET waiting == {w \in Workers : wpc[w] = "wait"}
       IN  IF waiting = {} THEN UNCHANGED wpc
           ELSE \E w \in waiting : wpc' = [wpc EXCEPT ![w] = "check"]
    /\ UNCHANGED <<tasks, stop, cur, enqueued, started, result, main, dead>>

\* joinNclean or joinNcleanCheat begins.
BeginJoin(k) ==
    /\ ~dead /\ mpc = "work" /\ Main \notin notifying /\ batches < MaxBatches
    /\ mpc' = "join" /\ kind' = k
    /\ at' = 0 /\ verdict' = FALSE
    /\ batches' = batches + 1
    /\ UNCHANGED <<pool, res, last, dead>>

Get(v) ==
    /\ result[v] # {}
    /\ verdict' = (verdict \/ TRUE \in result[v])

\* Mutant: a future that is not ready is passed over.
JoinStepPeek ==
    /\ ~dead /\ mpc = "join" /\ at < Len(res)
    /\ at' = at + 1
    /\ IF result[res[at + 1]] = {} THEN UNCHANGED verdict ELSE Get(res[at + 1])
    /\ UNCHANGED <<pool, res, mpc, kind, last, batches, dead>>

\* One future: get() waits for it; once cheat is set the rest are not waited for.
JoinStep ==
    /\ ~dead /\ mpc = "join" /\ at < Len(res)
    /\ at' = at + 1
    /\ IF kind = "cheat" /\ verdict THEN UNCHANGED verdict ELSE Get(res[at + 1])
    /\ UNCHANGED <<pool, res, mpc, kind, last, batches, dead>>

EndJoin ==
    /\ ~dead /\ mpc = "join" /\ at = Len(res)
    /\ last' = Range(res)
    /\ res' = <<>>
    /\ mpc' = "joined"
    /\ UNCHANGED <<pool, at, kind, verdict, batches, dead>>

Resume ==
    /\ ~dead /\ mpc = "joined"
    /\ mpc' = "work"
    /\ UNCHANGED <<pool, res, at, kind, verdict, last, batches, dead>>

\* ~ThreadPool: stop under the lock, notify_all, join.
Stop ==
    /\ ~dead /\ mpc = "work" /\ Main \notin notifying
    /\ stop' = TRUE
    /\ mpc' = "stop"
    /\ UNCHANGED <<tasks, wpc, cur, notifying, enqueued, started, result, res, at, kind, verdict, last, batches, dead>>

\* Mutant: the destructor wakes one worker.
NotifyAllOnlyOne ==
    /\ ~dead /\ mpc = "stop"
    /\ LET waiting == {w \in Workers : wpc[w] = "wait"}
       IN  IF waiting = {} THEN UNCHANGED wpc
           ELSE \E w \in waiting : wpc' = [wpc EXCEPT ![w] = "check"]
    /\ mpc' = "reap"
    /\ UNCHANGED <<tasks, stop, cur, notifying, enqueued, started, result, res, at, kind, verdict, last, batches, dead>>

NotifyAll ==
    /\ ~dead /\ mpc = "stop"
    /\ wpc' = [w \in Workers |-> IF wpc[w] = "wait" THEN "check" ELSE wpc[w]]
    /\ mpc' = "reap"
    /\ UNCHANGED <<tasks, stop, cur, notifying, enqueued, started, result, res, at, kind, verdict, last, batches, dead>>

Reap ==
    /\ ~dead /\ mpc = "reap" /\ \A w \in Workers : wpc[w] = "exit"
    /\ mpc' = "gone"
    /\ UNCHANGED <<pool, res, at, kind, verdict, last, batches, dead>>

WorkerStep(w) == Check(w) \/ FinishTask(w) \/ NotifyOne(w)
MainStep == NotifyOne(Main) \/ JoinStep \/ EndJoin \/ Resume \/ Stop \/ NotifyAll \/ Reap

Next ==
    \/ \E w \in Workers : Check(w) \/ WakeUp(w) \/ FinishTask(w) \/ TaskEnqueue(w)
    \/ \E th \in Workers \cup {Main} : NotifyOne(th)
    \/ MainEnqueue \/ \E k \in {"plain", "cheat"} : BeginJoin(k)
    \/ JoinStep \/ EndJoin \/ Resume \/ Stop \/ NotifyAll \/ Reap

\* Running threads go on, tasks end, and the main program ends with ~ThreadPool.
Spec ==
    /\ Init /\ [][Next]_vars
    /\ WF_vars(MainStep) /\ \A w \in Workers : WF_vars(WorkerStep(w))

-----------------------------------------------------------------------------
\* No task is lost, run twice or overtaken: what has been taken followed by what
\* waits is what was enqueued, in order.
NothingLost == started \o tasks = [i \in 1 .. enqueued |-> i]

\* joinNclean is a barrier: when it returns every task of the batch is over.
JoinIsBarrier ==
    mpc = "joined" /\ kind = "plain" => \A t \in last : result[t] # {}

\* "Did any task flag a cheat?": the answer is that of all tasks of the batch,
\* those it did not wait for included.
CheatIsSeen ==
    mpc = "joined" => (verdict <=> \E t \in last : TRUE \in result[t])

\* Destroying the pool runs what is queued first.
DestructorDrains ==
    mpc = "gone" => \A t \in 1 .. enqueued : result[t] # {}

\* The program ends: no worker sleeps through a notification, and no join or
\* destructor waits forever.
PoolEnds == <>(mpc = "gone" \/ dead)

\* What a join may conclude: joinNclean that its batch is over, joinNcleanCheat
\* whether a task of its batch cheated.
JoinsWait == JoinIsBarrier /\ CheatIsSeen

\* No task is lost, doubled or overtaken in the queue, and a destroyed pool has
\* run them all.
TasksAccounted == NothingLost /\ DestructorDrains
=============================================================================
