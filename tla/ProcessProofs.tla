--------------------------- MODULE ProcessProofs ----------------------------
(***************************************************************************)
(* Proofs for what threads and processes share on one machine: ThreadPool, *)
(* for every number of workers, tasks and joins, and Assets, for every     *)
(* number of callers, names, directories, assets and commands.             *)
(***************************************************************************)
EXTENDS ThreadPool, Assets, SequenceTheorems, WellFoundedInduction, TLAPS

(***************************************************************************)
(* ThreadPool                                                              *)
(***************************************************************************)

TypeOK ==
    /\ enqueued \in 0 .. MaxTasks
    /\ tasks \in Seq(Nat) /\ started \in Seq(Nat) /\ res \in Seq(1 .. MaxTasks)
    /\ wpc \in [Workers -> {"check", "wait", "run", "exit"}]
    /\ cur \in [Workers -> 0 .. MaxTasks]
    /\ result \in [1 .. MaxTasks -> SUBSET BOOLEAN]
    /\ at \in Nat /\ last \subseteq 1 .. MaxTasks
    /\ verdict \in BOOLEAN /\ kind \in {"plain", "cheat"}
    /\ mpc \in {"work", "join", "joined", "stop", "reap", "gone"}

\* Tasks are numbered as they are enqueued and taken from the front.
Queue ==
    /\ Len(started) + Len(tasks) = enqueued
    /\ \A i \in 1 .. Len(started) : started[i] = i
    /\ \A j \in 1 .. Len(tasks) : tasks[j] = Len(started) + j

\* A taken task is over or is run by one worker, and no other task has a result.
Running(w, i) == wpc[w] = "run" /\ cur[w] = i
RunsTaken == \A w \in Workers : wpc[w] = "run" => cur[w] \in 1 .. Len(started) /\ result[cur[w]] = {}
OneRunner == \A v, w \in Workers : v # w /\ wpc[v] = "run" /\ wpc[w] = "run" => cur[v] # cur[w]
TakenRuns == \A i \in 1 .. Len(started) : result[i] # {} \/ \E w \in Workers : Running(w, i)
RestFresh == \A i \in 1 .. MaxTasks : i > Len(started) => result[i] = {}
Taken == RunsTaken /\ OneRunner /\ TakenRuns /\ RestFresh

\* A worker leaves only a stopped pool with an empty queue, which stays empty.
Drained ==
    /\ \A w \in Workers : wpc[w] = "exit" => stop /\ tasks = <<>>
    /\ mpc = "gone" => \A w \in Workers : wpc[w] = "exit"

\* What a join knows of the futures it has passed: its verdict is theirs, and as
\* long as it has to wait for them they are over.
Covers(S) ==
    /\ verdict <=> \E t \in S : TRUE \in result[t]
    /\ kind = "plain" \/ ~verdict => \A t \in S : result[t] # {}
Passed == {res[i] : i \in 1 .. at}
Joining ==
    /\ mpc = "join" => at <= Len(res) /\ Covers(Passed)
    /\ mpc = "joined" => Covers(last)

IInv == TypeOK /\ Queue /\ Taken /\ Drained /\ Joining

(***************************************************************************)
(* Lemmas                                                                  *)
(***************************************************************************)
\* A fresh pool has no tasks.
LEMMA InitOK == Init => IInv
  <1> SUFFICES ASSUME Init PROVE IInv
    OBVIOUS
  <1>1. TypeOK
    <2>1. MaxTasks \in Nat
      BY PoolAssumption DEF PoolAssumption
    <2>2. result \in [1 .. MaxTasks -> SUBSET BOOLEAN]
      BY DEF Init
    <2>3. tasks \in Seq(Nat) /\ started \in Seq(Nat) /\ res \in Seq(1 .. MaxTasks)
      BY DEF Init
    <2>4. enqueued \in 0 .. MaxTasks /\ cur \in [Workers -> 0 .. MaxTasks] /\ at \in Nat
      BY <2>1 DEF Init
    <2>5. verdict \in BOOLEAN
      BY Zenon DEF Init
    <2> QED
      BY <2>2, <2>3, <2>4, <2>5 DEF Init, TypeOK
  <1>2. Queue
    BY DEF Init, Queue
  <1>3. Taken
    BY DEF Init, Taken, RunsTaken, OneRunner, TakenRuns, RestFresh
  <1> QED
    BY <1>1, <1>2, <1>3 DEF IInv, Init, Drained, Joining

\* What is known of the tasks stays true while none is enqueued, taken or ended and
\* no worker starts or stops running one.
LEMMA TasksKept ==
    ASSUME Queue, Taken, UNCHANGED <<tasks, cur, enqueued, started, result>>,
           \A v \in Workers : wpc'[v] = "run" <=> wpc[v] = "run"
    PROVE  Queue' /\ Taken'
  <1>1. Queue'
    BY DEF Queue
  <1>2. RunsTaken' /\ OneRunner' /\ RestFresh'
    BY DEF Taken, RunsTaken, OneRunner, RestFresh
  <1>3. TakenRuns'
    <2> SUFFICES ASSUME NEW i \in 1 .. Len(started), result[i] = {}
                 PROVE  \E w \in Workers : Running(w, i)'
      BY DEF TakenRuns
    <2>1. PICK w \in Workers : Running(w, i)
      BY DEF Taken, TakenRuns
    <2> QED
      BY <2>1 DEF Running
  <1> QED
    BY <1>1, <1>2, <1>3 DEF Taken

\* The worker's loop: a critical section takes at most the front task.
LEMMA CheckOK == ASSUME IInv, NEW w \in Workers, Check(w) PROVE IInv'
  <1>1. UNCHANGED <<stop, enqueued, result, res, at, mpc, kind, verdict, last>>
    BY DEF Check, main
  <1>2. TypeOK /\ Queue /\ Taken /\ Drained
    BY DEF IInv
  <1>3. Joining'
    BY <1>1, ZenonT(20) DEF IInv, Joining, Covers, Passed
  <1>4. CASE tasks = <<>>
    <2>1. UNCHANGED <<tasks, cur, started>> /\ wpc[w] = "check"
          /\ \/ stop /\ wpc' = [wpc EXCEPT ![w] = "exit"]
             \/ wpc' = [wpc EXCEPT ![w] = "wait"]
      BY <1>4 DEF Check
    <2>2. TypeOK'
      BY <1>1, <1>2, <2>1, ZenonT(20) DEF TypeOK
    <2>3. \A v \in Workers : wpc'[v] = "run" <=> wpc[v] = "run"
      BY <1>2, <2>1 DEF TypeOK
    <2>4. Queue' /\ Taken'
      BY <1>1, <1>2, <2>1, <2>3, TasksKept
    <2>5. Drained'
      BY <1>1, <1>2, <1>4, <2>1 DEF Drained, TypeOK
    <2> QED
      BY <1>3, <2>2, <2>4, <2>5 DEF IInv
  <1>5. CASE tasks # <<>>
    <2> DEFINE n == Len(started) + 1
    <2>1. /\ wpc[w] = "check" /\ wpc' = [wpc EXCEPT ![w] = "run"]
          /\ cur' = [cur EXCEPT ![w] = Head(tasks)]
          /\ started' = Append(started, Head(tasks)) /\ tasks' = Tail(tasks)
      BY <1>5 DEF Check
    <2>2. /\ tasks \in Seq(Nat) /\ started \in Seq(Nat) /\ enqueued \in Nat /\ enqueued <= MaxTasks
          /\ MaxTasks \in Nat /\ Len(tasks) \in Nat /\ Len(started) \in Nat
      BY <1>2, PoolAssumption DEF PoolAssumption, TypeOK
    <2>3. /\ tasks' \in Seq(Nat) /\ Len(tasks') = Len(tasks) - 1 /\ Len(tasks) > 0
          /\ \A j \in 1 .. Len(tasks') : tasks'[j] = tasks[j + 1]
          /\ Head(tasks) = n /\ n \in 1 .. MaxTasks
      BY <1>2, <1>5, <2>1, <2>2, HeadTailProperties DEF Queue
    <2>4. /\ started' \in Seq(Nat) /\ Len(started') = n /\ started'[n] = n
          /\ \A i \in 1 .. n - 1 : started'[i] = started[i]
      BY <2>1, <2>2, <2>3, AppendProperties
    <2>5. /\ \A i \in 1 .. n : i = n \/ (i \in 1 .. Len(started) /\ i \in 1 .. n - 1)
          /\ \A i \in 1 .. Len(started) : i \in 1 .. n /\ i # n
          /\ \A i \in 1 .. MaxTasks : i > n => i > Len(started)
          /\ n \in Nat /\ n > Len(started) /\ n = Len(started) + 1
      BY <2>2, <2>3
    <2> HIDE DEF n
    <2>6. TypeOK'
      BY <1>1, <1>2, <2>1, <2>3, <2>4 DEF TypeOK
    <2>7. Queue'
      <3>1. \A i \in 1 .. n : started'[i] = i
        BY <1>2, <2>4, <2>5 DEF Queue
      <3>2. \A j \in 1 .. Len(tasks') : tasks'[j] = n + j
        <4> SUFFICES ASSUME NEW j \in 1 .. Len(tasks') PROVE tasks'[j] = n + j
          OBVIOUS
        <4>1. j + 1 \in 1 .. Len(tasks) /\ tasks'[j] = tasks[j + 1]
          BY <2>2, <2>3
        <4>2. tasks[j + 1] = Len(started) + (j + 1)
          BY <1>2, <4>1 DEF Queue
        <4> QED
          BY <2>2, <2>5, <4>1, <4>2
      <3>3. n + Len(tasks') = enqueued'
        <4>1. Len(started) + Len(tasks) = enqueued /\ enqueued' = enqueued
          BY <1>1, <1>2 DEF Queue
        <4>2. Len(tasks') = Len(tasks) - 1 /\ n = Len(started) + 1
          BY <2>3, <2>5
        <4> QED
          BY <2>2, <4>1, <4>2
      <3> QED
        BY <2>4, <3>1, <3>2, <3>3 DEF Queue
    <2>8. /\ \A v \in Workers : v # w => wpc'[v] = wpc[v] /\ cur'[v] = cur[v]
          /\ wpc'[w] = "run" /\ cur'[w] = n
      BY <1>2, <2>1, <2>3 DEF TypeOK
    <2>9. result[n] = {}
      BY <1>2, <2>3, <2>5 DEF Taken, RestFresh
    <2>10. RunsTaken'
      <3> SUFFICES ASSUME NEW v \in Workers, wpc'[v] = "run"
                   PROVE  cur'[v] \in 1 .. n /\ result[cur'[v]] = {}
        BY <1>1, <2>4 DEF RunsTaken
      <3>1. n \in 1 .. n
        BY <2>2, <2>5
      <3>2. CASE v = w
        BY <2>8, <2>9, <3>1, <3>2
      <3>3. CASE v # w
        BY <1>2, <2>8, <2>5, <3>3 DEF Taken, RunsTaken
      <3> QED
        BY <3>2, <3>3
    <2>11. OneRunner'
      BY <1>2, <2>8, <2>5 DEF Taken, RunsTaken, OneRunner
    <2>12. TakenRuns'
      <3> SUFFICES ASSUME NEW i \in 1 .. n, result[i] = {}
                   PROVE  \E v \in Workers : Running(v, i)'
        BY <1>1, <2>4 DEF TakenRuns
      <3>1. CASE i = n
        BY <2>8, <3>1 DEF Running
      <3>2. CASE i # n
        <4>1. PICK v \in Workers : Running(v, i)
          BY <1>2, <2>5, <3>2 DEF Taken, TakenRuns
        <4> QED
          BY <2>1, <2>8, <4>1 DEF Running
      <3> QED
        BY <3>1, <3>2
    <2>13. RestFresh'
      BY <1>1, <1>2, <2>4, <2>5 DEF Taken, RestFresh
    <2>14. Drained'
      BY <1>1, <1>2, <1>5, <2>1, <2>8 DEF Drained
    <2> QED
      BY <1>3, <2>6, <2>7, <2>10, <2>11, <2>12, <2>13, <2>14 DEF IInv, Taken
  <1> QED
    BY <1>4, <1>5

\* Waking workers, by a notification or not, changes no task.
LEMMA WakesOK ==
    ASSUME IInv, wpc' \in [Workers -> {"check", "wait", "run", "exit"}],
           \A v \in Workers : wpc'[v] = wpc[v] \/ (wpc[v] = "wait" /\ wpc'[v] = "check"),
           UNCHANGED <<tasks, stop, cur, enqueued, started, result, res, at, kind, verdict, last>>,
           mpc' = mpc \/ (mpc = "stop" /\ mpc' = "reap")
    PROVE  IInv'
  <1> USE DEF IInv
  <1>1. \A v \in Workers : (wpc'[v] = "run" <=> wpc[v] = "run") /\ (wpc'[v] = "exit" <=> wpc[v] = "exit")
    OBVIOUS
  <1>2. TypeOK'
    BY DEF TypeOK
  <1>3. Queue' /\ Taken'
    BY <1>1, TasksKept
  <1> QED
    BY <1>1, <1>2, <1>3, ZenonT(30) DEF Drained, Joining, Covers, Passed

\* A task that ends fills its own future and no other, so what a join has seen stays.
LEMMA FinishOK == ASSUME IInv, NEW w \in Workers, FinishTask(w) PROVE IInv'
  <1>1. PICK r \in BOOLEAN : result' = [result EXCEPT ![cur[w]] = {r}]
    BY ZenonT(20) DEF FinishTask
  <1>2. /\ TypeOK /\ Queue /\ Taken /\ Drained /\ Joining
        /\ wpc[w] = "run" /\ wpc' = [wpc EXCEPT ![w] = "check"]
        /\ UNCHANGED <<tasks, stop, cur, enqueued, started, res, at, mpc, kind, verdict, last>>
    BY DEF IInv, FinishTask, main
  <1> DEFINE c == cur[w]
  <1>3. c \in 1 .. Len(started) /\ result[c] = {} /\ Len(started) <= MaxTasks /\ c \in 1 .. MaxTasks
    <2>1. c \in 1 .. Len(started) /\ result[c] = {}
      BY <1>2 DEF Taken, RunsTaken
    <2>2. Len(started) + Len(tasks) = enqueued /\ enqueued \in 0 .. MaxTasks
      BY <1>2 DEF Queue, TypeOK
    <2>3. Len(started) \in Nat /\ Len(tasks) \in Nat /\ MaxTasks \in Nat
      BY <1>2, PoolAssumption DEF TypeOK, PoolAssumption
    <2> QED
      BY <2>1, <2>2, <2>3
  <1>4. /\ result'[c] = {r} /\ \A t \in 1 .. MaxTasks : t # c => result'[t] = result[t]
        /\ wpc'[w] = "check" /\ \A v \in Workers : v # w => wpc'[v] = wpc[v]
    BY <1>1, <1>2, <1>3 DEF TypeOK
  <1>5. TypeOK'
    BY <1>1, <1>2, <1>3 DEF TypeOK
  <1>6. Queue'
    BY <1>2 DEF Queue
  <1>7. \A i \in 1 .. Len(started) : i \in 1 .. MaxTasks
    <2>1. Len(started) \in Nat /\ MaxTasks \in Nat
      BY <1>2, PoolAssumption DEF TypeOK, PoolAssumption
    <2> QED
      BY <1>3, <2>1
  <1>8. RunsTaken' /\ OneRunner'
    BY <1>2, <1>4, <1>7 DEF Taken, RunsTaken, OneRunner
  <1>9. TakenRuns'
    <2> SUFFICES ASSUME NEW i \in 1 .. Len(started), result'[i] = {}
                 PROVE  \E v \in Workers : Running(v, i)'
      BY <1>2, ZenonT(20) DEF TakenRuns
    <2>1. i # c /\ result[i] = {}
      BY <1>4, <1>7
    <2>2. PICK v \in Workers : Running(v, i)
      BY <1>2, <2>1, ZenonT(20) DEF Taken, TakenRuns
    <2> QED
      BY <1>2, <1>4, <2>1, <2>2, ZenonT(20) DEF Running
  <1>10. RestFresh'
    <2> SUFFICES ASSUME NEW i \in 1 .. MaxTasks, i > Len(started) PROVE result'[i] = {}
      BY <1>2 DEF RestFresh
    <2>1. i # c
      BY <1>2, <1>3 DEF TypeOK
    <2> QED
      BY <1>2, <1>4, <2>1 DEF Taken, RestFresh
  <1>11. Drained'
    BY <1>2, <1>4 DEF Drained
  <1>12. ASSUME NEW S, S \subseteq 1 .. MaxTasks, Covers(S)
         PROVE  /\ verdict <=> \E t \in S : TRUE \in result'[t]
                /\ kind = "plain" \/ ~verdict => \A t \in S : result'[t] # {}
    <2>1. CASE c \in S
      <3>1. kind # "plain" /\ verdict
        BY <1>3, <1>12, <2>1 DEF Covers
      <3>2. PICK t \in S : TRUE \in result[t]
        BY <1>12, <3>1, ZenonT(20) DEF Covers
      <3>3. TRUE \in result'[t]
        BY <1>3, <1>4, <1>12, <3>2, ZenonT(20)
      <3> QED
        BY <3>1, <3>3, ZenonT(20)
    <2>2. CASE c \notin S
      <3>1. \A t \in S : result'[t] = result[t]
        BY <1>4, <1>12, <2>2
      <3> QED
        BY <1>12, <3>1, ZenonT(20) DEF Covers
    <2> QED
      BY <2>1, <2>2, ZenonT(20)
  <1>13. Joining'
    <2>1. mpc = "join" => Passed \subseteq 1 .. MaxTasks
      <3> SUFFICES ASSUME mpc = "join", NEW i \in 1 .. at PROVE res[i] \in 1 .. MaxTasks
        BY DEF Passed
      <3>1. i \in 1 .. Len(res) /\ res \in Seq(1 .. MaxTasks)
        BY <1>2 DEF Joining, TypeOK
      <3> QED
        BY <3>1, ElementOfSeq, ZenonT(20)
    <2>2. last \subseteq 1 .. MaxTasks /\ Passed' = Passed
      BY <1>2 DEF TypeOK, Passed
    <2>3. mpc = "join" => Covers(Passed)'
      BY <1>2, <1>12, <2>1, <2>2, ZenonT(20) DEF Joining, Covers
    <2>4. mpc = "joined" => Covers(last)'
      BY <1>2, <1>12, <2>2, ZenonT(20) DEF Joining, Covers
    <2> QED
      BY <1>2, <2>3, <2>4 DEF Joining
  <1> QED
    BY <1>5, <1>6, <1>8, <1>9, <1>10, <1>11, <1>13 DEF IInv, Taken

\* An accepted task goes to the back of the queue; a stopped pool accepts none.
LEMMA EnqueueOK ==
    ASSUME IInv, NEW th, Enqueue(th), mpc = "work" \/ UNCHANGED res,
           res' = res \/ res' = Append(res, enqueued + 1),
           UNCHANGED <<stop, wpc, cur, started, result, at, mpc, kind, verdict, last>>
    PROVE  IInv'
  <1>1. TypeOK /\ Queue /\ Taken /\ Drained /\ Joining /\ MaxTasks \in Nat /\ enqueued \in Nat /\ enqueued < MaxTasks
    BY PoolAssumption DEF IInv, PoolAssumption, TypeOK, Enqueue
  <1>2. enqueued + 1 \in 1 .. MaxTasks
    BY <1>1
  <1>3. res' \in Seq(1 .. MaxTasks)
    <2>1. res \in Seq(1 .. MaxTasks)
      BY <1>1 DEF TypeOK
    <2>2. Append(res, enqueued + 1) \in Seq(1 .. MaxTasks)
      BY <1>2, <2>1, AppendProperties
    <2> QED
      BY <2>1, <2>2, ZenonT(20)
  <1>4. Taken'
    <2>1. RunsTaken' /\ OneRunner' /\ RestFresh'
      BY <1>1 DEF Taken, RunsTaken, OneRunner, RestFresh
    <2>2. TakenRuns'
      BY <1>1 DEF Taken, TakenRuns, Running
    <2> QED
      BY <2>1, <2>2 DEF Taken
  <1>5. Joining'
    BY <1>1, ZenonT(20) DEF Joining, Covers, Passed
  <1>6. CASE stop
    <2>1. UNCHANGED <<tasks, enqueued>>
      BY <1>6 DEF Enqueue
    <2> QED
      BY <1>1, <1>3, <1>4, <1>5, <2>1 DEF IInv, TypeOK, Queue, Drained
  <1>7. CASE ~stop
    <2>1. enqueued' = enqueued + 1 /\ tasks' = Append(tasks, enqueued + 1)
      BY <1>7 DEF Enqueue
    <2>2. tasks \in Seq(Nat) /\ Len(tasks) \in Nat /\ Len(started) \in Nat /\ enqueued + 1 \in Nat
      BY <1>1 DEF TypeOK
    <2>3. /\ tasks' \in Seq(Nat) /\ Len(tasks') = Len(tasks) + 1
          /\ \A j \in 1 .. Len(tasks) : tasks'[j] = tasks[j]
          /\ tasks'[Len(tasks) + 1] = enqueued + 1
      BY <2>1, <2>2, AppendProperties
    <2>4. TypeOK'
      BY <1>1, <1>2, <1>3, <2>1, <2>3 DEF TypeOK
    <2>5. Len(started) + Len(tasks) = enqueued /\ started' = started
      BY <1>1 DEF Queue
    <2>6. ASSUME NEW j \in 1 .. Len(tasks') PROVE tasks'[j] = Len(started) + j
      <3>1. CASE j = Len(tasks) + 1
        BY <2>2, <2>3, <2>5, <3>1
      <3>2. CASE j \in 1 .. Len(tasks)
        BY <1>1, <2>3, <3>2, ZenonT(20) DEF Queue
      <3> QED
        BY <2>2, <2>3, <3>1, <3>2
    <2>7. Len(started) + Len(tasks') = enqueued'
      BY <2>1, <2>2, <2>3, <2>5, <1>1
    <2>8. Queue'
      BY <1>1, <2>5, <2>6, <2>7 DEF Queue
    <2>9. Drained'
      BY <1>1, <1>7 DEF Drained
    <2> QED
      BY <1>4, <1>5, <2>4, <2>8, <2>9 DEF IInv
  <1> QED
    BY <1>6, <1>7

\* The steps of joinNclean and joinNcleanCheat: a future passed is over, or the
\* answer is known.
LEMMA JoinOK ==
    ASSUME IInv, JoinStep \/ EndJoin \/ Resume \/ (\E k \in {"plain", "cheat"} : BeginJoin(k))
    PROVE  IInv'
  <1>1. TypeOK /\ Queue /\ Taken /\ Drained /\ Joining
    BY DEF IInv
  <1>2. UNCHANGED <<tasks, stop, wpc, cur, enqueued, started, result>> /\ mpc' # "gone"
    BY DEF JoinStep, EndJoin, Resume, BeginJoin, pool
  <1>3. Queue' /\ Taken' /\ Drained'
    BY <1>1, <1>2, TasksKept DEF Drained
  <1>4. CASE \E k \in {"plain", "cheat"} : BeginJoin(k)
    <2>1. /\ at' = 0 /\ verdict' = FALSE /\ mpc' = "join" /\ kind' \in {"plain", "cheat"}
          /\ UNCHANGED <<res, last>>
      BY <1>4 DEF BeginJoin
    <2>2. TypeOK'
      BY <1>1, <1>2, <2>1, ZenonT(20) DEF TypeOK
    <2>3. Passed' = {} /\ Len(res) \in Nat
      BY <1>1, <2>1 DEF Passed, TypeOK
    <2> QED
      BY <1>3, <2>1, <2>2, <2>3 DEF IInv, Joining, Covers
  <1>5. CASE JoinStep
    <2> DEFINE t == res[at + 1]
    <2>1. /\ mpc = "join" /\ mpc' = "join" /\ at' = at + 1 /\ at < Len(res)
          /\ UNCHANGED <<res, kind, last>>
          /\ \/ kind = "cheat" /\ verdict /\ verdict' = verdict
             \/ result[t] # {} /\ verdict' = (verdict \/ TRUE \in result[t])
      BY <1>5, ZenonT(20) DEF JoinStep, Get
    <2>2. res \in Seq(1 .. MaxTasks) /\ at \in Nat /\ Len(res) \in Nat /\ verdict \in BOOLEAN /\ kind \in {"plain", "cheat"}
      BY <1>1 DEF TypeOK
    <2>3. Passed' = Passed \cup {t}
      <3>1. 1 .. at' = (1 .. at) \cup {at + 1} /\ res' = res
        BY <2>1, <2>2
      <3> QED
        BY <3>1 DEF Passed
    <2>4. verdict' \in BOOLEAN
      BY <2>1, <2>2, ZenonT(20)
    <2>5. TypeOK'
      BY <1>1, <1>2, <2>1, <2>4 DEF TypeOK
    <2> HIDE DEF t
    <2>6. Covers(Passed)
      BY <1>1, <2>1 DEF Joining
    <2>7. verdict' <=> \E u \in Passed' : TRUE \in result[u]
      BY <2>1, <2>3, <2>4, <2>6, ZenonT(20) DEF Covers
    <2>8. kind = "plain" \/ ~verdict' => \A u \in Passed' : result[u] # {}
      BY <2>1, <2>3, <2>6, ZenonT(20) DEF Covers
    <2>9. at' <= Len(res')
      BY <2>1, <2>2
    <2> QED
      BY <1>2, <1>3, <2>1, <2>5, <2>7, <2>8, <2>9, ZenonT(20) DEF IInv, Joining, Covers
  <1>6. CASE EndJoin
    <2>1. /\ mpc = "join" /\ mpc' = "joined" /\ at = Len(res) /\ last' = Range(res) /\ res' = <<>>
          /\ UNCHANGED <<at, kind, verdict>>
      BY <1>6 DEF EndJoin
    <2>2. res \in Seq(1 .. MaxTasks) /\ DOMAIN res = 1 .. at /\ at \in Nat
      BY <1>1, <2>1 DEF TypeOK
    <2>3. Range(res) = Passed /\ \A i \in 1 .. at : res[i] \in 1 .. MaxTasks
      BY <2>1, <2>2, ElementOfSeq, ZenonT(20) DEF Range, Passed
    <2>4. TypeOK'
      <3>1. last' \subseteq 1 .. MaxTasks
        BY <2>1, <2>3 DEF Passed
      <3> QED
        BY <1>1, <1>2, <2>1, <3>1 DEF TypeOK
    <2>5. Covers(last)'
      BY <1>1, <1>2, <2>1, <2>3, ZenonT(20) DEF Joining, Covers
    <2> QED
      BY <1>3, <2>1, <2>4, <2>5 DEF IInv, Joining
  <1>7. CASE Resume
    <2>1. mpc' = "work" /\ UNCHANGED <<res, at, kind, verdict, last>>
      BY <1>7 DEF Resume
    <2> QED
      BY <1>1, <1>2, <1>3, <2>1 DEF IInv, TypeOK, Joining
  <1> QED
    BY <1>4, <1>5, <1>6, <1>7

\* ~ThreadPool: stopping accepts no more, and it returns when every worker has left.
LEMMA DestroyOK == ASSUME IInv, Stop \/ Reap PROVE IInv'
  <1>1. TypeOK /\ Queue /\ Taken /\ Drained
    BY DEF IInv
  <1>2. /\ UNCHANGED <<tasks, wpc, cur, enqueued, started, result, res, at, kind, verdict, last>>
        /\ mpc' \in {"stop", "gone"} /\ (stop => stop')
        /\ mpc' = "gone" => \A w \in Workers : wpc[w] = "exit"
    BY DEF Stop, Reap, pool
  <1>3. Queue' /\ Taken'
    BY <1>1, <1>2, TasksKept
  <1> QED
    BY <1>1, <1>2, <1>3 DEF IInv, TypeOK, Drained, Joining

(***************************************************************************)
(* Theorems                                                                *)
(***************************************************************************)
\* Everything known of the pool and the joins holds throughout.
THEOREM PoolInvariant == Spec => []IInv
  <1>1. IInv /\ [Next]_vars => IInv'
    <2> SUFFICES ASSUME IInv, [Next]_vars PROVE IInv'
      OBVIOUS
    <2>1. ASSUME NEW w \in Workers, Check(w) PROVE IInv'
      BY <2>1, CheckOK
    <2>2. ASSUME NEW w \in Workers, WakeUp(w) PROVE IInv'
      <3>1. wpc' = [wpc EXCEPT ![w] = "check"] /\ wpc[w] = "wait"
            /\ UNCHANGED <<tasks, stop, cur, enqueued, started, result, res, at, mpc, kind, verdict, last>>
        BY <2>2 DEF WakeUp, main
      <3>2. wpc \in [Workers -> {"check", "wait", "run", "exit"}]
        BY DEF IInv, TypeOK
      <3> QED
        BY <3>1, <3>2, WakesOK
    <2>3. ASSUME NEW w \in Workers, FinishTask(w) PROVE IInv'
      BY <2>3, FinishOK
    <2>4. ASSUME NEW w \in Workers, TaskEnqueue(w) PROVE IInv'
      BY <2>4, EnqueueOK DEF TaskEnqueue, main
    <2>5. CASE MainEnqueue
      BY <2>5, EnqueueOK DEF MainEnqueue
    <2>6. ASSUME NEW th \in Workers \cup {Main}, NotifyOne(th) PROVE IInv'
      <3>1. UNCHANGED <<tasks, stop, cur, enqueued, started, result, res, at, mpc, kind, verdict, last>>
        BY <2>6 DEF NotifyOne, main
      <3>2. wpc \in [Workers -> {"check", "wait", "run", "exit"}]
        BY DEF IInv, TypeOK
      <3>3. \/ wpc' = wpc
            \/ \E w \in Workers : wpc[w] = "wait" /\ wpc' = [wpc EXCEPT ![w] = "check"]
        BY <2>6 DEF NotifyOne
      <3>4. /\ wpc' \in [Workers -> {"check", "wait", "run", "exit"}]
            /\ \A v \in Workers : wpc'[v] = wpc[v] \/ (wpc[v] = "wait" /\ wpc'[v] = "check")
        BY <3>2, <3>3
      <3> QED
        BY <3>1, <3>4, WakesOK
    <2>7. CASE NotifyAll
      <3>1. wpc \in [Workers -> {"check", "wait", "run", "exit"}]
        BY DEF IInv, TypeOK
      <3>2. /\ wpc' \in [Workers -> {"check", "wait", "run", "exit"}]
            /\ \A v \in Workers : wpc'[v] = wpc[v] \/ (wpc[v] = "wait" /\ wpc'[v] = "check")
        BY <2>7, <3>1 DEF NotifyAll
      <3> QED
        BY <2>7, <3>2, WakesOK DEF NotifyAll
    <2>8. CASE JoinStep \/ EndJoin \/ Resume \/ \E k \in {"plain", "cheat"} : BeginJoin(k)
      BY <2>8, JoinOK
    <2>9. CASE Stop \/ Reap
      BY <2>9, DestroyOK
    <2>10. CASE UNCHANGED vars
      <3>1. UNCHANGED <<tasks, stop, wpc, cur, enqueued, started, result, res, at, mpc, kind, verdict, last>>
        BY <2>10 DEF vars
      <3>2. Queue' /\ Taken'
        BY <3>1, TasksKept DEF IInv
      <3> QED
        BY <3>1, <3>2, ZenonT(20) DEF IInv, TypeOK, Drained, Joining, Covers, Passed
    <2> QED
      BY <2>1, <2>2, <2>3, <2>4, <2>5, <2>6, <2>7, <2>8, <2>9, <2>10 DEF Next
  <1> QED
    BY <1>1, InitOK, PTL DEF Spec

\* No task is lost, run twice or overtaken, for any number of workers; and a destroyed
\* pool has run everything it accepted.
THEOREM PoolRunsAll == Spec => []TasksAccounted
  <1>1. IInv => NothingLost
    <2> SUFFICES ASSUME IInv PROVE started \o tasks = [i \in 1 .. enqueued |-> i]
      BY DEF NothingLost
    <2>1. /\ started \in Seq(Nat) /\ tasks \in Seq(Nat) /\ Len(started) \in Nat /\ Len(tasks) \in Nat
          /\ Len(started) + Len(tasks) = enqueued
      BY DEF IInv, TypeOK, Queue
    <2>2. started \o tasks \in Seq(Nat) /\ Len(started \o tasks) = enqueued
      BY <2>1
    <2>3. ASSUME NEW i \in 1 .. enqueued PROVE (started \o tasks)[i] = i
      <3>1. CASE i \in 1 .. Len(started)
        BY <2>1, <3>1 DEF IInv, Queue
      <3>2. CASE i > Len(started)
        <4>1. i - Len(started) \in 1 .. Len(tasks) /\ (started \o tasks)[i] = tasks[i - Len(started)]
          BY <2>1, <3>2
        <4>2. tasks[i - Len(started)] = Len(started) + (i - Len(started))
          BY <4>1 DEF IInv, Queue
        <4> QED
          BY <2>1, <4>1, <4>2
      <3> QED
        BY <2>1, <3>1, <3>2
    <2> DEFINE both == started \o tasks
    <2> HIDE DEF both
    <2>4. both \in [1 .. enqueued -> Nat] /\ \A i \in 1 .. enqueued : both[i] = i
      <3>1. both \in Seq(Nat) /\ Len(both) = enqueued /\ \A i \in 1 .. enqueued : both[i] = i
        BY <2>2, <2>3 DEF both
      <3> QED
        BY <3>1, LenProperties
    <2>5. both = [i \in 1 .. enqueued |-> i]
      BY <2>4
    <2> QED
      BY <2>5 DEF both
  <1>2. IInv => DestructorDrains
    <2> SUFFICES ASSUME IInv, mpc = "gone", NEW t \in 1 .. enqueued PROVE result[t] # {}
      BY DEF DestructorDrains
    <2>1. \A w \in Workers : wpc[w] = "exit" /\ tasks = <<>>
      BY DEF IInv, Drained
    <2>2. tasks = <<>>
      BY <2>1, PoolAssumption DEF PoolAssumption
    <2>3. t \in 1 .. Len(started)
      BY <2>2 DEF IInv, TypeOK, Queue
    <2> QED
      BY <2>1, <2>3 DEF IInv, Taken, TakenRuns, Running
  <1>3. IInv => TasksAccounted
    BY <1>1, <1>2 DEF TasksAccounted
  <1> QED
    BY <1>3, PoolInvariant, PTL

\* joinNclean is a barrier for its batch, and joinNcleanCheat's answer is that of all
\* tasks of its batch, those it did not wait for included.
THEOREM JoinsAreBarriers == Spec => []JoinsWait
  <1>1. IInv => JoinIsBarrier
    BY DEF IInv, Joining, Covers, JoinIsBarrier
  <1>2. IInv => CheatIsSeen
    BY ZenonT(20) DEF IInv, Joining, Covers, CheatIsSeen
  <1>3. IInv => JoinsWait
    BY <1>1, <1>2 DEF JoinsWait
  <1> QED
    BY <1>3, PoolInvariant, PTL

(***************************************************************************)
(* Assets: the cache                                                       *)
(***************************************************************************)
\* The mutex is held by the thread that searches, so that what it found missing from
\* the cache is still missing when it stores it.
AssetInv ==
    /\ cache \in [Names -> Programs \cup {None}]
    /\ pc \in [Callers -> {"idle", "lock", "find", "probe", "load"}]
    /\ DOMAIN want = Callers
    /\ got \subseteq Names \X Programs
    /\ \A t \in Callers : pc[t] # "idle" => want[t] \in Names
    /\ \A t \in Callers : pc[t] \in {"find", "probe", "load"} => lock = t
    /\ \A t \in Callers : pc[t] \in {"probe", "load"} => cache[want[t]] = None
    /\ OneProgramPerName

\* builtin_circuit with the program in the cache, or with one just stored there.
LEMMA ReturnOK ==
    ASSUME AssetInv, NEW t \in Callers, NEW p \in Programs, pc[t] \in {"find", "load"}, Return(t, p),
           UNCHANGED want,
           \/ cache' = cache /\ cache[want[t]] = p
           \/ cache[want[t]] = None /\ cache' = [cache EXCEPT ![want[t]] = p]
    PROVE  AssetInv'
  <1>1. /\ pc' = [pc EXCEPT ![t] = "idle"] /\ got' = got \cup {<<want[t], p>>} /\ want[t] \in Names
    BY DEF AssetInv, Return
  <1>2. \A u \in Callers \ {t} : pc[u] \notin {"find", "probe", "load"}
    BY DEF AssetInv
  <1>3. pc' \in [Callers -> {"idle", "lock", "find", "probe", "load"}] /\ pc'[t] = "idle"
        /\ \A u \in Callers \ {t} : pc'[u] = pc[u]
    BY <1>1 DEF AssetInv
  <1>4. cache' \in [Names -> Programs \cup {None}] /\ got' \subseteq Names \X Programs
    BY <1>1 DEF AssetInv
  <1>5. OneProgramPerName'
    <2> SUFFICES ASSUME NEW r \in got' PROVE cache'[r[1]] = r[2]
      BY DEF OneProgramPerName
    <2>1. cache'[want[t]] = p
      BY <1>1 DEF AssetInv
    <2>2. CASE r = <<want[t], p>>
      BY <2>1, <2>2
    <2>3. CASE r \in got
      <3>1. r[1] \in Names /\ r[2] \in Programs /\ cache[r[1]] = r[2] /\ r[2] # None
        BY <2>3, AssetAssumption DEF AssetInv, OneProgramPerName
      <3> QED
        BY <1>1, <3>1 DEF AssetInv
    <2> QED
      BY <1>1, <2>2, <2>3
  <1> QED
    BY <1>2, <1>3, <1>4, <1>5 DEF AssetInv

\* Every lookup of a name in a process gets the same program, for any number of threads
\* and however other processes change the files while they are searched.
THEOREM LookupsAgree == AssetSpec => []OneProgramPerName
  <1>1. AssetInit => AssetInv
    BY DEF AssetInit, AssetInv, OneProgramPerName
  <1>2. AssetInv /\ [AssetNext]_assetVars => AssetInv'
    <2> SUFFICES ASSUME AssetInv, [AssetNext]_assetVars PROVE AssetInv'
      OBVIOUS
    <2>1. ASSUME NEW t \in Callers, NEW n \in Names, Call(t, n) PROVE AssetInv'
      BY <2>1 DEF AssetInv, Call, OneProgramPerName
    <2>2. ASSUME NEW t \in Callers, Lock(t) PROVE AssetInv'
      BY <2>2, AssetAssumption, SMTT(30) DEF AssetInv, Lock, OneProgramPerName
    <2>3. ASSUME NEW t \in Callers, Find(t) PROVE AssetInv'
      <3>1. CASE Miss(t)
        BY <2>3, <3>1, ZenonT(20) DEF AssetInv, Find, Miss, OneProgramPerName
      <3>2. CASE cache[want[t]] # None /\ Return(t, cache[want[t]])
        <4>1. cache[want[t]] \in Programs
          BY <2>3, <3>2 DEF AssetInv, Find
        <4> QED
          BY <2>3, <3>2, <4>1, ReturnOK DEF Find
      <3> QED
        BY <2>3, <3>1, <3>2, ZenonT(20) DEF Find
    <2>4. ASSUME NEW t \in Callers, Probe(t) PROVE AssetInv'
      BY <2>4 DEF AssetInv, Probe, OneProgramPerName
    <2>5. ASSUME NEW t \in Callers, Load(t) PROVE AssetInv'
      <3> DEFINE p == disk[from[t]][want[t]]
      <3>1. CASE p \in Programs
        <4>1. /\ cache' = [cache EXCEPT ![want[t]] = p] /\ Return(t, p) /\ UNCHANGED want
              /\ pc[t] = "load" /\ cache[want[t]] = None
          BY <2>5, <3>1 DEF Load, AssetInv
        <4> HIDE DEF p
        <4> QED
          BY <3>1, <4>1, ReturnOK, ZenonT(20)
      <3>2. CASE p \notin Programs
        BY <2>5, <3>2 DEF Load, AssetInv, OneProgramPerName
      <3> QED
        BY <3>1, <3>2
    <2>6. CASE \E d \in 1 .. Dirs, n \in Names, f \in Files : Edit(d, n, f)
      BY <2>6 DEF AssetInv, Edit, OneProgramPerName
    <2>7. CASE UNCHANGED assetVars
      BY <2>7 DEF AssetInv, assetVars, OneProgramPerName
    <2> QED
      BY <2>1, <2>2, <2>3, <2>4, <2>5, <2>6, <2>7 DEF AssetNext, Step
  <1>3. AssetInv => OneProgramPerName
    BY DEF AssetInv
  <1> QED
    BY <1>1, <1>2, <1>3, PTL DEF AssetSpec

(***************************************************************************)
(* Assets: the manifest tool                                               *)
(***************************************************************************)
ToolTypeOK ==
    /\ assets \in [Stems -> Versions \cup {"bad", "absent"}]
    /\ manifests \in [Stems -> Versions \cup {"other", "absent"}]
    /\ dir \in BOOLEAN /\ matches \in BOOLEAN /\ quiet \in BOOLEAN
    /\ phase \in {"idle", "write", "prune", "check"}
    /\ todo \subseteq expected /\ expected \subseteq Stems
    /\ read \in Versions \cup {"absent"}

Same(n) == manifests[n] = assets[n]

\* Undisturbed, a command works on the listing it started from; the entries a manifest
\* run has left behind are right, the one it is writing will be, and the verdict of a
\* check is that of the entries it has passed.
Working ==
    /\ phase # "idle" /\ quiet => expected = Listed
    /\ phase \in {"write", "prune"} => dir /\ (quiet => \A n \in expected \ todo : Same(n))
    /\ read # "absent" => phase = "write" /\ todo # {} /\ (quiet => read = assets[Min(todo)])
    /\ phase = "check" /\ quiet => (matches <=> \A n \in expected \ todo : dir /\ Same(n))

ToolInv == ToolTypeOK /\ Working /\ CheckTruthful /\ ManifestRepairs

\* A set of stems has a least one.
LEMMA LeastStem == ASSUME NEW S, S \subseteq Stems, S # {} PROVE Min(S) \in S
  <1>1. PICK R : R = {p \in Nat \X Nat : p[1] < p[2]}
    OBVIOUS
  <1>2. IsWellFoundedOn(R, Nat)
    BY <1>1, NatLessThanWellFounded, Zenon DEF OpToRel
  <1>3. S \subseteq Nat
    BY ManifestAssumption
  <1>4. PICK x \in S : \A y \in S : ~(<<y, x>> \in R)
    BY <1>2, <1>3, WFMin, Zenon
  <1>5. ASSUME NEW y \in S PROVE x <= y
    <2>1. SUFFICES ASSUME ~(x <= y) PROVE FALSE
      OBVIOUS
    <2>2. y < x /\ <<y, x>> \in Nat \X Nat
      BY <1>3, <2>1
    <2>3. <<y, x>> \in R
      BY <1>1, <2>2
    <2> QED
      BY <1>4, <2>3
  <1> QED
    BY <1>5 DEF Min

\* The commands start from what is there.
LEMMA StartToolOK == ASSUME ToolInv, StartManifest \/ StartCheck PROVE ToolInv'
  <1>1. /\ phase = "idle" /\ phase' \in {"write", "check"} /\ todo' = Listed /\ expected' = Listed
        /\ matches' = TRUE /\ quiet' = TRUE /\ (phase' = "write" => dir' = TRUE) /\ dir' \in BOOLEAN
        /\ UNCHANGED <<assets, manifests, read, lastCommand>>
    BY ZenonT(20) DEF StartManifest, StartCheck, Start, ToolInv, ToolTypeOK
  <1>2. Listed \subseteq Stems /\ Listed' = Listed /\ expected' \ todo' = {} /\ read = "absent"
    BY <1>1 DEF Listed, ToolInv, Working
  <1>3. ToolTypeOK'
    BY <1>1, <1>2 DEF ToolInv, ToolTypeOK
  <1>4. Working'
    BY <1>1, <1>2 DEF Working
  <1>5. CheckTruthful' /\ ManifestRepairs'
    BY <1>1 DEF CheckTruthful, ManifestRepairs
  <1> QED
    BY <1>3, <1>4, <1>5 DEF ToolInv

\* A command that fails reports nothing about the directories.
LEMMA FailOK ==
    ASSUME ToolInv, phase' = "idle", read' = "absent", lastCommand'.exit = 3,
           UNCHANGED <<assets, manifests, dir, todo, expected, matches, quiet>>
    PROVE  ToolInv'
  BY DEF ToolInv, ToolTypeOK, Working, CheckTruthful, ManifestRepairs

\* The entry being written becomes the manifest of its asset.
LEMMA WritingOK == ASSUME ToolInv, OpenEntry \/ WriteEntry PROVE ToolInv'
  <1>1. phase = "write" /\ todo \subseteq expected /\ expected \subseteq Stems
    BY DEF OpenEntry, WriteEntry, ToolInv, ToolTypeOK
  <1>2. todo # {} => Min(todo) \in todo /\ Min(todo) \in Stems
    BY <1>1, LeastStem
  <1>3. PICK n : n = Min(todo)
    OBVIOUS
  <1>4. CASE OpenEntry /\ assets[n] \in Versions
    <2>1. /\ todo # {} /\ read' = assets[n] /\ manifests' = [manifests EXCEPT ![n] = "other"]
          /\ UNCHANGED <<assets, dir, phase, todo, expected, matches, lastCommand, quiet>>
      BY <1>3, <1>4 DEF OpenEntry, Die
    <2>2. n \in todo /\ n \in Stems
      BY <1>2, <1>3, <2>1
    <2>3. ToolTypeOK'
      BY <1>4, <2>1, <2>2 DEF ToolInv, ToolTypeOK
    <2>4. \A m \in expected \ todo : manifests'[m] = manifests[m]
      BY <1>1, <2>1, <2>2 DEF ToolInv, ToolTypeOK
    <2>5. Working'
      BY <1>1, <1>3, <2>1, <2>4 DEF ToolInv, Working, Same, Listed
    <2> QED
      BY <1>1, <2>1, <2>3, <2>5 DEF ToolInv, CheckTruthful, ManifestRepairs
  <1>5. CASE OpenEntry /\ assets[n] \notin Versions
    <2>1. /\ phase' = "idle" /\ read' = "absent" /\ lastCommand' = [cmd |-> "manifest", exit |-> 3]
          /\ UNCHANGED <<assets, manifests, dir, todo, expected, matches, quiet>>
      BY <1>3, <1>5 DEF OpenEntry, Die, Exit
    <2> QED
      BY <2>1, FailOK
  <1>6. CASE WriteEntry
    <2>1. /\ read # "absent" /\ manifests' = [manifests EXCEPT ![n] = read] /\ todo' = todo \ {n} /\ read' = "absent"
          /\ UNCHANGED <<assets, dir, phase, expected, matches, lastCommand, quiet>>
      BY <1>3, <1>6 DEF WriteEntry
    <2>2. n \in todo /\ n \in Stems /\ read \in Versions /\ (quiet => read = assets[n])
      BY <1>2, <1>3, <2>1 DEF ToolInv, ToolTypeOK, Working
    <2>3. ToolTypeOK'
      BY <1>1, <2>1, <2>2 DEF ToolInv, ToolTypeOK
    <2>4. /\ manifests'[n] = read /\ \A m \in Stems \ {n} : manifests'[m] = manifests[m]
          /\ expected \ todo' = (expected \ todo) \cup {n}
      BY <1>1, <2>1, <2>2 DEF ToolInv, ToolTypeOK
    <2>5. quiet => \A m \in expected \ todo' : Same(m)'
      BY <1>1, <2>1, <2>2, <2>4 DEF ToolInv, Working, Same
    <2>6. Working'
      BY <1>1, <2>1, <2>5 DEF ToolInv, Working, Listed
    <2> QED
      BY <1>1, <2>1, <2>3, <2>6 DEF ToolInv, CheckTruthful, ManifestRepairs
  <1> QED
    BY <1>4, <1>5, <1>6

\* Pruning removes entries without an asset; when none is left the two sides agree.
LEMMA PruneOK == ASSUME ToolInv, Prune PROVE ToolInv'
  <1>1. /\ phase \in {"write", "prune"} /\ todo = {} /\ expected \subseteq Stems
        /\ UNCHANGED <<assets, dir, todo, expected, read, matches, quiet>>
    BY DEF Prune, ToolInv, ToolTypeOK
  <1>2. read = "absent" /\ dir
    BY <1>1 DEF ToolInv, Working
  <1>3. CASE Entries \ expected # {}
    <2>1. PICK n : n = Min(Entries \ expected)
      OBVIOUS
    <2>2. manifests' = [manifests EXCEPT ![n] = "absent"] /\ phase' = "prune"
      BY <1>3, <2>1 DEF Prune
    <2>3. n \in Stems /\ n \notin expected
      <3>1. Entries \ expected \subseteq Stems
        BY DEF Entries
      <3>2. n \in Entries \ expected
        BY <1>3, <2>1, <3>1, LeastStem
      <3> QED
        BY <3>1, <3>2
    <2>4. ToolTypeOK'
      BY <1>1, <2>2, <2>3 DEF ToolInv, ToolTypeOK
    <2>5. \A m \in expected : manifests'[m] = manifests[m]
      BY <1>1, <2>2, <2>3 DEF ToolInv, ToolTypeOK
    <2>6. Working'
      BY <1>1, <1>2, <2>2, <2>5 DEF ToolInv, Working, Same, Listed
    <2> QED
      BY <2>2, <2>4, <2>6 DEF ToolInv, CheckTruthful, ManifestRepairs
  <1>4. CASE Entries \ expected = {}
    <2>1. phase' = "idle" /\ lastCommand' = [cmd |-> "manifest", exit |-> 0] /\ UNCHANGED manifests
      BY <1>4 DEF Prune, Exit
    <2>2. ToolTypeOK' /\ Working'
      BY <1>1, <1>2, <2>1 DEF ToolInv, ToolTypeOK, Working
    <2>3. quiet => Fresh
      <3>1. SUFFICES ASSUME quiet, NEW n \in Stems PROVE manifests[n] = assets[n]
        BY <1>2 DEF Fresh
      <3>2. expected = Listed /\ \A m \in expected : manifests[m] = assets[m]
        BY <1>1, <3>1 DEF ToolInv, Working, Same
      <3>3. n \notin expected => manifests[n] = "absent" /\ assets[n] = "absent"
        BY <1>4, <3>1, <3>2 DEF Entries, Listed
      <3> QED
        BY <3>2, <3>3
    <2>4. CheckTruthful' /\ ManifestRepairs'
      BY <1>1, <2>1, <2>3, ZenonT(20) DEF CheckTruthful, ManifestRepairs, Fresh
    <2> QED
      BY <2>2, <2>4 DEF ToolInv
  <1> QED
    BY <1>3, <1>4

\* A check passes an entry, or dies on an asset that does not load.
LEMMA CheckEntryOK == ASSUME ToolInv, CheckEntry PROVE ToolInv'
  <1>1. phase = "check" /\ todo # {} /\ todo \subseteq expected /\ expected \subseteq Stems /\ read = "absent"
    BY DEF CheckEntry, ToolInv, ToolTypeOK, Working
  <1>2. PICK n : n = Min(todo)
    OBVIOUS
  <1>3. n \in todo /\ n \in Stems
    BY <1>1, <1>2, LeastStem
  <1> DEFINE here == dir /\ manifests[n] # "absent"
  <1>4. CASE Die("check")
    <2>1. /\ phase' = "idle" /\ read' = "absent" /\ lastCommand' = [cmd |-> "check", exit |-> 3]
          /\ UNCHANGED <<assets, manifests, dir, todo, expected, matches, quiet>>
      BY <1>1, <1>4 DEF Die, Exit
    <2> QED
      BY <2>1, FailOK
  <1>5. CASE /\ todo' = todo \ {n} /\ matches' = (matches /\ here /\ manifests[n] = assets[n])
             /\ UNCHANGED <<assets, manifests, dir, phase, expected, read, lastCommand, quiet>>
    <2>1. matches' \in BOOLEAN
      BY <1>5, Zenon
    <2>2. ToolTypeOK'
      BY <1>5, <2>1 DEF ToolInv, ToolTypeOK
    <2>3. expected \ todo' = (expected \ todo) \cup {n}
      BY <1>1, <1>3, <1>5
    <2>4. ASSUME quiet PROVE matches' <=> \A m \in expected \ todo' : dir /\ Same(m)
      <3>1. matches <=> \A m \in expected \ todo : dir /\ Same(m)
        BY <1>1, <2>4 DEF ToolInv, Working
      <3>2. here /\ manifests[n] = assets[n] <=> dir /\ Same(n)
        <4>1. assets[n] # "absent"
          BY <1>1, <1>3, <2>4 DEF ToolInv, Working, Listed
        <4> QED
          BY <4>1 DEF Same
      <3>3. matches' <=> matches /\ here /\ manifests[n] = assets[n]
        BY <1>5, Zenon
      <3> HIDE DEF here
      <3> QED
        BY <2>3, <3>1, <3>2, <3>3, Zenon
    <2>5. Working'
      <3>1. phase' = "check" /\ quiet' => (matches' <=> \A m \in (expected \ todo)' : dir' /\ Same(m)')
        BY <1>5, <2>4 DEF Same
      <3> QED
        BY <1>1, <1>5, <3>1 DEF ToolInv, Working, Listed
    <2> QED
      BY <1>1, <1>5, <2>2, <2>5 DEF ToolInv, CheckTruthful, ManifestRepairs
  <1> QED
    BY <1>2, <1>4, <1>5 DEF CheckEntry

\* The verdict.
LEMMA CheckExtraOK == ASSUME ToolInv, CheckExtra PROVE ToolInv'
  <1>1. /\ phase = "check" /\ todo = {} /\ phase' = "idle" /\ read = "absent"
        /\ lastCommand' = [cmd |-> "check", exit |-> IF dir /\ matches /\ Entries \subseteq expected THEN 0 ELSE 1]
        /\ UNCHANGED <<assets, manifests, dir, todo, expected, read, matches, quiet>>
    BY DEF CheckExtra, Exit, ToolInv, ToolTypeOK, Working
  <1>2. ToolTypeOK' /\ Working'
    BY <1>1 DEF ToolInv, ToolTypeOK, Working
  <1>3. quiet => (dir /\ matches /\ Entries \subseteq expected <=> Fresh)
    <2>1. SUFFICES ASSUME quiet PROVE dir /\ matches /\ Entries \subseteq expected <=> Fresh
      OBVIOUS
    <2>2. expected = Listed /\ (matches <=> \A m \in Listed : dir /\ manifests[m] = assets[m])
      BY <1>1, <2>1 DEF ToolInv, Working, Same
    <2>3. ASSUME Fresh PROVE dir /\ matches /\ Entries \subseteq expected
      BY <2>2, <2>3 DEF Fresh, Entries, Listed
    <2>4. ASSUME dir, matches, Entries \subseteq expected PROVE Fresh
      <3>1. ASSUME NEW n \in Stems PROVE manifests[n] = assets[n]
        <4>1. CASE n \in Listed
          BY <2>2, <2>4, <4>1
        <4>2. CASE n \notin Listed
          BY <2>2, <2>4, <4>2 DEF Listed, Entries
        <4> QED
          BY <4>1, <4>2
      <3> QED
        BY <2>4, <3>1 DEF Fresh
    <2> QED
      BY <2>3, <2>4
  <1>4. lastCommand'.cmd = "check" /\ (lastCommand'.exit = 0 <=> dir /\ matches /\ Entries \subseteq expected)
    BY <1>1
  <1>5. CheckTruthful' /\ ManifestRepairs'
    BY <1>1, <1>3, <1>4 DEF CheckTruthful, ManifestRepairs, Fresh
  <1> QED
    BY <1>2, <1>5 DEF ToolInv

\* The exit codes of manifest and check-manifest tell the truth about the directories,
\* for any number of assets and commands, crashes included, as long as nobody else
\* changes the assets meanwhile.
THEOREM ToolTellsTruth == ToolSpec => []ManifestsTruthful
  <1>1. ToolInit => ToolInv
    <2> SUFFICES ASSUME ToolInit PROVE ToolInv
      OBVIOUS
    <2>1. dir \in BOOLEAN
      BY DEF ToolInit
    <2>2. ToolTypeOK
      BY <2>1 DEF ToolInit, ToolTypeOK
    <2>3. Working /\ CheckTruthful /\ ManifestRepairs
      BY DEF ToolInit, Working, CheckTruthful, ManifestRepairs
    <2> QED
      BY <2>2, <2>3 DEF ToolInv
  <1>2. ToolInv /\ [ToolNext]_toolVars => ToolInv'
    <2> SUFFICES ASSUME ToolInv, [ToolNext]_toolVars PROVE ToolInv'
      OBVIOUS
    <2>1. CASE Kill
      <3>1. /\ phase' = "idle" /\ read' = "absent" /\ lastCommand' = [cmd |-> "manifest", exit |-> 3]
            /\ UNCHANGED <<assets, manifests, dir, todo, expected, matches, quiet>>
        BY <2>1 DEF Kill, Exit
      <3> QED
        BY <3>1, FailOK
    <2>2. ASSUME NEW n \in Stems, NEW f \in Versions \cup {"bad", "absent"}, EditTree(n, f) PROVE ToolInv'
      <3>1. ToolTypeOK'
        BY <2>2, ZenonT(20) DEF EditTree, ToolInv, ToolTypeOK
      <3>2. Working' /\ CheckTruthful' /\ ManifestRepairs'
        BY <2>2, ZenonT(20) DEF EditTree, ToolInv, Working, CheckTruthful, ManifestRepairs
      <3> QED
        BY <3>1, <3>2 DEF ToolInv
    <2>3. CASE UNCHANGED toolVars
      BY <2>3 DEF toolVars, ToolInv, ToolTypeOK, Working, Same, Listed, CheckTruthful, ManifestRepairs, Fresh
    <2> QED
      BY <2>1, <2>2, <2>3, StartToolOK, WritingOK, PruneOK, CheckEntryOK, CheckExtraOK DEF ToolNext, ToolStep
  <1>3. ToolInv => ManifestsTruthful
    BY DEF ToolInv, ManifestsTruthful
  <1> QED
    BY <1>1, <1>2, <1>3, PTL DEF ToolSpec
=============================================================================
