--------------------------- MODULE UThreads_proofs ---------------------------
(***************************************************************************)
(* Theorems about UThreads, for every number of threads, every bound on    *)
(* the counters, and whether or not the timer expires in the windows and   *)
(* clients terminate sleeping threads.                                     *)
(***************************************************************************)
EXTENDS UThreads, Collections_proofs

USE ThreadsAssumption, SleepAssumption, RangeAssumption

-----------------------------------------------------------------------------
(* Lemmas about the operators *)

\* A counter taken modulo INT_RANGE stays a counter.
LEMMA CounterType ==
  ASSUME NEW n \in Nat
  PROVE  n % INT_RANGE \in 0 .. INT_RANGE - 1
OBVIOUS

\* So does a counter one higher.
LEMMA BumpType ==
  ASSUME NEW n \in 0 .. INT_RANGE - 1
  PROVE  Bump(n) \in 0 .. INT_RANGE - 1
<1>1. n + 1 \in Nat
  OBVIOUS
<1> QED
  BY ONLY <1>1, CounterType DEF Bump

\* There are finitely many threads.
LEMMA TidFinite ==
  ASSUME NEW S, S \subseteq Tid
  PROVE  IsFiniteSet(S) /\ Cardinality(S) \in Nat
<1>1. IsFiniteSet(Tid)
  BY FS_Interval DEF Tid
<1>2. IsFiniteSet(S)
  BY <1>1, FS_Subset
<1> QED
  BY <1>2, FS_CardinalityType

\* The order in which update_sleepers queues S is a queue, of all of S.
LEMMA AscendingType ==
  ASSUME NEW S, S \subseteq Tid, NEW w \in Ascending(S)
  PROVE  w \in Seq(Tid) /\ ToSet(w) = S
<1>1. Cardinality(S) \in Nat
  BY TidFinite
<1>2. w \in [1 .. Cardinality(S) -> S] /\ \A t \in S : \E i \in DOMAIN w : w[i] = t
  BY DEF Ascending
<1>3. w \in Seq(S)
  BY <1>1, <1>2, SeqDef
<1>4. w \in Seq(Tid)
  BY <1>3, SeqMonotonic
<1>5. ToSet(w) = S
  BY <1>2, <1>3, ToSetType DEF ToSet
<1> QED
  BY <1>4, <1>5

-----------------------------------------------------------------------------
(* The scheduler's invariant *)

\* uthread_init establishes the invariant.
LEMMA InitInv == Init => SchedulerInv
<1> SUFFICES ASSUME Init PROVE SchedulerInv
  OBVIOUS
<1>1. 0 \in Tid
  BY DEF Tid
<1>2. 1 % INT_RANGE \in 0 .. INT_RANGE - 1
  BY CounterType
<1>3. TypeOK
  <2>1. InitialFreeIds \subseteq Tid
    BY DEF InitialFreeIds, Tid
  <2>2. <<>> \in Seq(Tid)
    BY EmptySeq
  <2>3. 0 \in 0 .. INT_RANGE - 1 /\ -1 \in -1 .. MAX_SLEEP
    OBVIOUS
  <2> QED
    BY <1>1, <1>2, <2>1, <2>2, <2>3 DEF Init, TypeOK, Status, Ret, At, Context
<1>4. IdsPartition
  BY DEF Init, InitialFreeIds, IdsPartition, Tid
<1>5. MainAlwaysSchedulable /\ ReadyThreadsAreQueued /\ OneRunning
  BY <1>1 DEF Init, MainAlwaysSchedulable, ReadyThreadsAreQueued, OneRunning
<1> QED
  BY <1>3, <1>4, <1>5 DEF SchedulerInv

\* What the statuses are when switch_threads takes the next thread from the
\* queue: nobody is running, and whoever is READY is in the queue.
LEMMA QueueReady ==
  ASSUME TypeOK, MainAlwaysSchedulable, ~ Over,
         NEW to \in {"READY", "BLOCKED", "ASLEEP", "TERMINATED"},
         NEW st \in [Tid -> Status], NEW sl \in [Tid -> -1 .. MAX_SLEEP],
         \A t \in Tid \ {running_tid_} : st[t] \notin {"RUNNING", "MAIN"},
         to \in {"ASLEEP", "TERMINATED"} => st[running_tid_] \notin {"RUNNING", "MAIN"},
         \A t \in all_threads_ : st[t] = "READY" => t \in Ready,
         to # "READY" => running_tid_ # 0,
         NEW woken \in Ascending(Awake(sl)),
         NEW queue, queue = Enqueued(woken, to),
         NEW out, out = OutgoingStatus(to, WakeStatus(st, sl))
  PROVE  /\ queue \in Seq(Tid) /\ 0 \in ToSet(queue) /\ queue # <<>>
         /\ out \in [Tid -> Status]
         /\ \A t \in Tid : out[t] \notin {"RUNNING", "MAIN"}
         /\ \A t \in all_threads_ : out[t] = "READY" => t \in ToSet(queue)
<1>1. woken \in Seq(Tid) /\ ToSet(woken) = Awake(sl)
  BY AscendingType DEF Awake, Due
<1>2. running_tid_ \in Tid /\ ready_tids_ \in Seq(Tid)
  BY DEF TypeOK
<1>3. /\ Requeued(to) \in Seq(Tid)
      /\ ToSet(Requeued(to)) = IF to = "READY" THEN {running_tid_} ELSE {}
  BY <1>2 DEF Requeued, ToSet
<1>4. queue \in Seq(Tid)
  BY <1>1, <1>2, <1>3, ConcatProperties DEF Enqueued
<1>5. ToSet(queue) = Ready \cup Awake(sl) \cup ToSet(Requeued(to))
  <2>1. ready_tids_ \o woken \in Seq(Tid)
    BY <1>1, <1>2, ConcatProperties
  <2>2. ToSet(queue) = ToSet(ready_tids_ \o woken) \cup ToSet(Requeued(to))
    <3> DEFINE front == ready_tids_ \o woken
               back == Requeued(to)
    <3>1. queue = front \o back
      BY DEF Enqueued
    <3>2. front \in Seq(Tid) /\ back \in Seq(Tid)
      BY <1>3, <2>1
    <3> HIDE DEF front, back
    <3>3. ToSet(front \o back) = ToSet(front) \cup ToSet(back)
      BY ONLY <3>2, ToSetConcat
    <3> QED
      BY <3>1, <3>3 DEF front, back
  <2>3. ToSet(ready_tids_ \o woken) = ToSet(ready_tids_) \cup ToSet(woken)
    BY ONLY <1>1, <1>2, ToSetConcat
  <2> QED
    BY <1>1, <2>2, <2>3 DEF Ready
<1>6. 0 \in ToSet(queue)
  BY <1>3, <1>5 DEF MainAlwaysSchedulable
<1>7. queue # <<>>
  BY <1>6 DEF ToSet
<1>8. /\ WakeStatus(st, sl) \in [Tid -> Status]
      /\ \A t \in Tid : \/ t \in Awake(sl) /\ WakeStatus(st, sl)[t] = "READY"
                        \/ t \notin Awake(sl) /\ WakeStatus(st, sl)[t] = "BLOCKED"
                        \/ t \notin Awake(sl) /\ WakeStatus(st, sl)[t] = st[t]
  <2>1. ASSUME NEW t \in Tid
        PROVE  WakeStatus(st, sl)[t] = IF t \in Awake(sl) THEN "READY"
                                       ELSE IF t \in Due(sl) THEN "BLOCKED" ELSE st[t]
    BY DEF WakeStatus, Awake
  <2>2. WakeStatus(st, sl) = [t \in Tid |-> WakeStatus(st, sl)[t]]
    BY DEF WakeStatus
  <2> HIDE DEF WakeStatus, Awake, Due
  <2>3. \A t \in Tid : WakeStatus(st, sl)[t] \in Status
    BY <2>1 DEF Status
  <2> QED
    BY <2>1, <2>2, <2>3
<1>9. /\ out \in [Tid -> Status]
      /\ \A t \in Tid : out[t] = IF t = running_tid_ /\ to \in {"READY", "BLOCKED"}
                                 THEN to ELSE WakeStatus(st, sl)[t]
  BY <1>8 DEF OutgoingStatus, Status
<1>10. ASSUME NEW t \in Tid
       PROVE  out[t] \notin {"RUNNING", "MAIN"}
  BY <1>8, <1>9
<1>11. ASSUME NEW t \in all_threads_, out[t] = "READY"
       PROVE  t \in ToSet(queue)
  <2>1. t \in Tid
    BY DEF TypeOK
  <2> QED
    BY <1>3, <1>5, <1>8, <1>9, <1>11, <2>1
<1> QED
  BY <1>4, <1>6, <1>7, <1>9, <1>10, <1>11
\* A switch preserves the invariant, whoever makes it and whatever the caller
\* has already done to the statuses and the sleepers.
LEMMA SwitchInv ==
  ASSUME SchedulerInv, ~ Over,
         NEW to \in {"READY", "BLOCKED", "ASLEEP", "TERMINATED"}, NEW ret,
         to # "TERMINATED" => ret \in Ret,
         NEW st \in [Tid -> Status], NEW sl \in [Tid -> -1 .. MAX_SLEEP],
         \A t \in Tid \ {running_tid_} : st[t] \notin {"RUNNING", "MAIN"},
         to \in {"ASLEEP", "TERMINATED"} => st[running_tid_] \notin {"RUNNING", "MAIN"},
         \A t \in all_threads_ : st[t] = "READY" => t \in Ready,
         to # "READY" => running_tid_ # 0,
         switch_threads(to, ret, st, sl)
  PROVE  SchedulerInv'
<1> USE DEF SchedulerInv
<1>1. PICK woken \in Ascending(Awake(sl)) :
        LET queue == Enqueued(woken, to) IN
        \/ /\ Dereferenced(to, sl, queue) \subseteq all_threads_
           /\ insert_ready_to_running(queue, OutgoingStatus(to, WakeStatus(st, sl)))
           /\ sleepers_' = Countdown(sl)
           /\ blocked_tids_' = blocked_tids_ \cup NewlyBlocked(to)
           /\ total_quantums' = Bump(total_quantums)
           /\ env_' = IF to = "TERMINATED" THEN env_ ELSE saveEnvironment(ret)
           /\ at' = "jump"
           /\ masked' = FALSE
           /\ UNCHANGED <<objects, stack>>
        \/ Crash
  BY DEF switch_threads
<1> DEFINE queue == Enqueued(woken, to)
           out == OutgoingStatus(to, WakeStatus(st, sl))
<1>2. CASE Crash
  BY <1>2 DEF Crash, objects, queues, TypeOK, At, IdsPartition, MainAlwaysSchedulable,
              ReadyThreadsAreQueued, OneRunning, Over, Ready
<1>3. CASE ~ Crash
  <2>1. /\ queue \in Seq(Tid) /\ 0 \in ToSet(queue) /\ queue # <<>>
        /\ out \in [Tid -> Status]
        /\ \A t \in Tid : out[t] \notin {"RUNNING", "MAIN"}
        /\ \A t \in all_threads_ : out[t] = "READY" => t \in ToSet(queue)
    BY QueueReady
  <2>2. /\ NextTid(queue) \in all_threads_
        /\ insert_ready_to_running(queue, out)
        /\ sleepers_' = Countdown(sl)
        /\ blocked_tids_' = blocked_tids_ \cup NewlyBlocked(to)
        /\ total_quantums' = Bump(total_quantums)
        /\ env_' = IF to = "TERMINATED" THEN env_ ELSE saveEnvironment(ret)
        /\ at' = "jump"
        /\ masked' = FALSE
        /\ UNCHANGED <<all_threads_, free_ids_, num_of_quantums_running, retired, stack>>
    BY <1>1, <1>3 DEF Dereferenced, objects
  <2> HIDE DEF queue, out
  <2>3. /\ Head(queue) \in Tid /\ Tail(queue) \in Seq(Tid)
        /\ ToSet(queue) = {Head(queue)} \cup ToSet(Tail(queue))
    BY <2>1, HeadOrTail
  <2>4. /\ running_tid_' = Head(queue)
        /\ ready_tids_' = Tail(queue)
        /\ status_' = [out EXCEPT ![Head(queue)] = "RUNNING"]
    BY <2>1, <2>2 DEF insert_ready_to_running, NextTid
  <2>5. Head(queue) \in all_threads_
    BY <2>1, <2>2 DEF NextTid
  <2>6. TypeOK'
    <3>1. sleepers_' \in [Tid -> -1 .. MAX_SLEEP]
      BY <2>2 DEF Countdown
    <3>2. total_quantums' \in 0 .. INT_RANGE - 1
      BY <2>2, BumpType DEF TypeOK
    <3>3. status_' \in [Tid -> Status]
      BY <2>1, <2>3, <2>4 DEF Status
    <3>4. env_' \in [Tid -> [stack : Tid, ret : Ret]]
      <4>1. CASE to = "TERMINATED"
        BY <2>2, <4>1 DEF TypeOK
      <4>2. CASE to # "TERMINATED"
        <5>1. Context(stack, ret) \in [stack : Tid, ret : Ret]
          BY <4>2 DEF TypeOK, Context
        <5>2. env_' = [env_ EXCEPT ![running_tid_] = Context(stack, ret)]
          BY <2>2, <4>2 DEF saveEnvironment
        <5> QED
          BY <5>1, <5>2 DEF TypeOK
      <4> QED
        BY <4>1, <4>2
    <3>5. blocked_tids_' \subseteq Tid
      BY <2>2 DEF TypeOK, NewlyBlocked
    <3> QED
      BY <2>2, <2>3, <2>4, <3>1, <3>2, <3>3, <3>4, <3>5 DEF TypeOK, At
  <2>7. IdsPartition'
    BY <2>2 DEF IdsPartition
  <2>8. MainAlwaysSchedulable'
    BY <2>1, <2>3, <2>4 DEF MainAlwaysSchedulable, Ready
  <2>9. ReadyThreadsAreQueued'
    <3> SUFFICES ASSUME NEW t \in all_threads_, status_'[t] = "READY"
                 PROVE  t \in ToSet(Tail(queue))
      BY <2>2, <2>4 DEF ReadyThreadsAreQueued, Ready
    <3>1. t \in Tid
      BY DEF TypeOK
    <3> QED
      BY <2>1, <2>3, <2>4, <3>1
  <2>10. OneRunning'
    BY <2>1, <2>2, <2>3, <2>4, <2>5 DEF OneRunning
  <2> QED
    BY <2>6, <2>7, <2>8, <2>9, <2>10
<1> QED
  BY <1>2, <1>3
\* Steps that touch none of what the invariant speaks of but the mask and at.
LEMMA FrameInv ==
  ASSUME SchedulerInv, ~ Over,
         UNCHANGED <<objects, status_, env_, queues, total_quantums, running_tid_, stack>>,
         masked' \in BOOLEAN, at' \in {at, "exited"}
  PROVE  SchedulerInv'
BY DEF SchedulerInv, objects, queues, TypeOK, At, IdsPartition, MainAlwaysSchedulable,
       ReadyThreadsAreQueued, OneRunning, Over, Ready

\* A refused call changes the mask only.
LEMMA RefuseInv ==
  ASSUME SchedulerInv, ~ Over, Refuse
  PROVE  SchedulerInv'
BY FrameInv DEF Refuse, control

\* exit changes nothing the invariant speaks of while the process lives.
LEMMA ExitInv ==
  ASSUME SchedulerInv, ~ Over, Exit
  PROVE  SchedulerInv'
BY FrameInv DEF Exit

\* The parts of the type invariant the steps use most.
LEMMA TypesOf ==
  ASSUME TypeOK
  PROVE  /\ running_tid_ \in Tid /\ ready_tids_ \in Seq(Tid)
         /\ status_ \in [Tid -> Status] /\ sleepers_ \in [Tid -> -1 .. MAX_SLEEP]
         /\ all_threads_ \subseteq Tid /\ blocked_tids_ \subseteq Tid
BY DEF TypeOK

\* update_sleepers with the mask open: the thread that is to run is then at the
\* front of the queue, and nobody is running.
LEMMA PickFrontInv ==
  ASSUME SchedulerInv, pickFront
  PROVE  SchedulerInv'
<1> USE DEF SchedulerInv
<1>1. /\ at = "leave" /\ ~ Over /\ running_tid_ # 0
      /\ \A t \in Tid : status_[t] \notin {"RUNNING", "MAIN"}
      /\ \A t \in all_threads_ : status_[t] = "READY" => t \in Ready
  BY DEF pickFront, Over, OneRunning, IdsPartition, ReadyThreadsAreQueued
<1>2. PICK woken \in Ascending(Awake(sleepers_)) :
        LET queue == Enqueued(woken, "TERMINATED") IN
        /\ ready_tids_' = queue
        /\ status_' = WakeStatus(status_, sleepers_)
        /\ sleepers_' = Countdown(sleepers_)
        /\ running_tid_' = NextTid(queue)
        /\ at' = IF queue = <<>> THEN "picked" ELSE "front"
        /\ UNCHANGED <<objects, env_, blocked_tids_, total_quantums, stack, masked>>
  BY DEF pickFront
<1> DEFINE queue == Enqueued(woken, "TERMINATED")
           out == OutgoingStatus("TERMINATED", WakeStatus(status_, sleepers_))
<1>3. /\ queue \in Seq(Tid) /\ 0 \in ToSet(queue) /\ queue # <<>>
      /\ out \in [Tid -> Status]
      /\ \A t \in Tid : out[t] \notin {"RUNNING", "MAIN"}
      /\ \A t \in all_threads_ : out[t] = "READY" => t \in ToSet(queue)
  <2>1. /\ status_ \in [Tid -> Status] /\ sleepers_ \in [Tid -> -1 .. MAX_SLEEP]
        /\ running_tid_ \in Tid
    BY DEF TypeOK
  <2>2. queue = Enqueued(woken, "TERMINATED")
    OBVIOUS
  <2>3. out = OutgoingStatus("TERMINATED", WakeStatus(status_, sleepers_))
    OBVIOUS
  <2> HIDE DEF queue, out
  <2> QED
    BY <1>1, <2>1, <2>2, <2>3, QueueReady
<1>4. out = WakeStatus(status_, sleepers_)
  BY DEF OutgoingStatus
<1>5. /\ ready_tids_' = queue /\ status_' = out
      /\ sleepers_' = Countdown(sleepers_)
      /\ running_tid_' = Head(queue) /\ at' = "front"
      /\ UNCHANGED <<all_threads_, free_ids_, num_of_quantums_running, retired, env_,
                     blocked_tids_, total_quantums, stack, masked>>
  BY <1>2, <1>3, <1>4 DEF NextTid, objects
<1> HIDE DEF queue, out
<1>6. Head(queue) \in Tid
  BY <1>3, HeadOrTail
<1>7. sleepers_' \in [Tid -> -1 .. MAX_SLEEP]
  BY <1>5 DEF TypeOK, Countdown
<1>8. TypeOK'
  BY <1>3, <1>5, <1>6, <1>7 DEF TypeOK, At
<1>9. IdsPartition'
  BY <1>5 DEF IdsPartition
<1>10. MainAlwaysSchedulable' /\ ReadyThreadsAreQueued'
  BY <1>3, <1>5 DEF MainAlwaysSchedulable, ReadyThreadsAreQueued, Ready
<1>11. OneRunning'
  BY <1>3, <1>5 DEF OneRunning
<1> QED
  BY <1>8, <1>9, <1>10, <1>11

\* The front of the queue becomes the running thread.
LEMMA PopFrontInv ==
  ASSUME SchedulerInv, popFront
  PROVE  SchedulerInv'
<1> USE DEF SchedulerInv
<1>1. CASE Crash
  BY <1>1 DEF Crash, objects, queues, TypeOK, At, IdsPartition, MainAlwaysSchedulable,
              ReadyThreadsAreQueued, OneRunning, Over, Ready
<1>2. CASE ~ Crash
  <2>1. /\ at = "front" /\ ~ Over /\ running_tid_ \in all_threads_
        /\ ready_tids_' = Tail(ready_tids_)
        /\ status_' = [status_ EXCEPT ![running_tid_] = "RUNNING"]
        /\ at' = "picked"
        /\ UNCHANGED <<all_threads_, free_ids_, num_of_quantums_running, retired, env_,
                       sleepers_, blocked_tids_, total_quantums, running_tid_, stack, masked>>
    BY <1>2 DEF popFront, objects, Over
  <2>2. /\ ready_tids_ # <<>> /\ running_tid_ = Head(ready_tids_)
        /\ \A t \in Tid : status_[t] \notin {"RUNNING", "MAIN"}
    BY <2>1 DEF OneRunning
  <2>3. ready_tids_ \in Seq(Tid) /\ running_tid_ \in Tid /\ status_ \in [Tid -> Status]
    BY DEF TypeOK
  <2>4. Tail(ready_tids_) \in Seq(Tid) /\ Ready = {running_tid_} \cup ToSet(Tail(ready_tids_))
    BY <2>2, <2>3, HeadOrTail DEF Ready
  <2>5. TypeOK'
    BY <2>1, <2>3, <2>4 DEF TypeOK, At, Status
  <2>6. IdsPartition' /\ MainAlwaysSchedulable' /\ OneRunning'
    BY <2>1, <2>2, <2>3, <2>4 DEF IdsPartition, MainAlwaysSchedulable, OneRunning, Ready
  <2>7. ReadyThreadsAreQueued'
    <3> SUFFICES ASSUME NEW t \in all_threads_, status_'[t] = "READY"
                 PROVE  t \in ToSet(Tail(ready_tids_))
      BY <2>1 DEF ReadyThreadsAreQueued, Ready
    <3>1. t \in Tid /\ t # running_tid_ /\ status_[t] = "READY"
      BY <2>1, <2>3 DEF TypeOK
    <3> QED
      BY <2>1, <2>4, <3>1 DEF ReadyThreadsAreQueued
  <2> QED
    BY <2>5, <2>6, <2>7
<1> QED
  BY <1>1, <1>2

\* The quantum is counted in the total.
LEMMA CountTotalInv ==
  ASSUME SchedulerInv, countTotal
  PROVE  SchedulerInv'
<1>1. total_quantums' \in 0 .. INT_RANGE - 1
  BY BumpType DEF SchedulerInv, TypeOK, countTotal
<1> QED
  BY <1>1 DEF SchedulerInv, countTotal, objects, queues, TypeOK, At, IdsPartition,
              MainAlwaysSchedulable, ReadyThreadsAreQueued, OneRunning, Over, Ready

\* Every step of the library preserves the invariant.
LEMMA NextInv ==
  ASSUME SchedulerInv, Next
  PROVE  SchedulerInv'
<1> USE DEF SchedulerInv
<1> USE TypesOf
<1>1. ASSUME startRunning
      PROVE  SchedulerInv'
  <2>1. num_of_quantums_running' \in [Tid -> 0 .. INT_RANGE - 1]
    <3>1. \/ num_of_quantums_running' = QuantumStarted(running_tid_)
          \/ UNCHANGED num_of_quantums_running
      BY <1>1 DEF startRunning
    <3>2. num_of_quantums_running \in [Tid -> 0 .. INT_RANGE - 1]
      BY DEF TypeOK
    <3> QED
      BY <3>1, <3>2, BumpType DEF QuantumStarted
  <2>2. /\ at \in {"jump", "counted"} /\ at' \in {"user", "counted", "lost"}
        /\ stack' \in {stack, running_tid_} /\ masked' \in BOOLEAN
        /\ UNCHANGED <<all_threads_, free_ids_, retired, status_, env_, queues,
                       total_quantums, running_tid_>>
    BY <1>1 DEF startRunning, siglongjmp, MaskOnReturn, TypeOK
  <2>3. TypeOK'
    BY <2>1, <2>2 DEF TypeOK, queues, At
  <2>4. IdsPartition' /\ MainAlwaysSchedulable' /\ ReadyThreadsAreQueued'
    <3>1. ~ Over /\ Ready' = Ready
      BY <2>2 DEF Over, Ready, queues
    <3> QED
      BY <2>2, <3>1 DEF IdsPartition, MainAlwaysSchedulable, ReadyThreadsAreQueued
  <2>5. OneRunning'
    BY <2>2 DEF OneRunning
  <2> QED
    BY <2>3, <2>4, <2>5
<1>2. ASSUME timer_handler
      PROVE  SchedulerInv'
  <2>1. /\ at \in {"user", "leave", "front", "picked", "jump", "counted"}
        /\ \E ret \in Ret : switch_threads("READY", ret, status_, sleepers_)
    BY <1>2 DEF timer_handler, Ret
  <2>2. ~ Over
    BY <2>1 DEF Over
  <2>3. \A t \in Tid \ {running_tid_} : status_[t] \notin {"RUNNING", "MAIN"}
    BY <2>1 DEF OneRunning
  <2>4. \A t \in all_threads_ : status_[t] = "READY" => t \in Ready
    BY <2>2 DEF ReadyThreadsAreQueued
  <2> QED
    BY <2>1, <2>2, <2>3, <2>4, SwitchInv
<1>3. ASSUME leave
      PROVE  SchedulerInv'
  <2>1. CASE /\ at = "leave"
             /\ switch_threads("TERMINATED", "uthread_terminate", status_, sleepers_)
    <3>1. ~ Over /\ running_tid_ # 0
      BY <2>1 DEF Over, OneRunning, IdsPartition
    <3>2. \A t \in Tid : status_[t] \notin {"RUNNING", "MAIN"}
      BY <2>1 DEF OneRunning
    <3>3. \A t \in all_threads_ : status_[t] = "READY" => t \in Ready
      BY <3>1 DEF ReadyThreadsAreQueued
    <3> QED
      BY <2>1, <3>1, <3>2, <3>3, SwitchInv
  <2> QED
    BY <1>3, <2>1, PickFrontInv, PopFrontInv, CountTotalInv DEF leave
<1>4. ASSUME NEW entry_point, uthread_spawn(entry_point)
      PROVE  SchedulerInv'
  <2>1. at = "user" /\ ~ Over
    BY <1>4 DEF uthread_spawn, Over
  <2>2. CASE Refuse
    BY <2>1, <2>2, RefuseInv
  <2>3. CASE Exit
    BY <2>1, <2>3, ExitInv
  <2>4. CASE ~ Refuse /\ ~ Exit
    <3>1. PICK tid \in Tid :
             /\ IsFirstFree(tid)
             /\ free_ids_' = free_ids_ \ {tid}
             /\ all_threads_' = all_threads_ \cup {tid}
             /\ status_' = [status_ EXCEPT ![tid] = "READY"]
             /\ env_' = [env_ EXCEPT ![tid] = Context(tid, "UThread")]
             /\ num_of_quantums_running' = [num_of_quantums_running EXCEPT ![tid] = 0]
             /\ ready_tids_' = Append(ready_tids_, tid)
             /\ masked' = FALSE
             /\ UNCHANGED <<sleepers_, blocked_tids_, total_quantums, control, retired>>
      BY <1>4, <2>4 DEF uthread_spawn
    <3>2. tid # 0 /\ tid \notin all_threads_ /\ tid # running_tid_
      BY <2>1, <3>1 DEF IsFirstFree, IdsPartition, OneRunning
    <3>3. ready_tids_' \in Seq(Tid) /\ Ready' = Ready \cup {tid}
      BY <3>1, ToSetAppend DEF Ready
    <3>4. Context(tid, "UThread") \in [stack : Tid, ret : Ret]
      BY DEF Context, Ret
    <3>5. TypeOK'
      <4>1. env_' \in [Tid -> [stack : Tid, ret : Ret]]
        BY <3>1, <3>4 DEF TypeOK
      <4>2. num_of_quantums_running' \in [Tid -> 0 .. INT_RANGE - 1]
        BY <3>1 DEF TypeOK
      <4>3. status_' \in [Tid -> Status]
        BY <3>1 DEF Status
      <4> QED
        BY <3>1, <3>3, <4>1, <4>2, <4>3 DEF TypeOK, control
    <3>6. IdsPartition'
      BY <3>1 DEF IdsPartition
    <3>7. MainAlwaysSchedulable' /\ ReadyThreadsAreQueued'
      BY <2>1, <3>1, <3>3 DEF MainAlwaysSchedulable, ReadyThreadsAreQueued, control, Over
    <3>8. OneRunning'
      BY <2>1, <3>1, <3>2 DEF OneRunning, control
    <3> QED
      BY <3>5, <3>6, <3>7, <3>8
  <2> QED
    BY <2>2, <2>3, <2>4
<1>5. ASSUME NEW tid \in Tid, uthread_terminate(tid)
      PROVE  SchedulerInv'
  <2>1. at = "user" /\ ~ Over
    BY <1>5 DEF uthread_terminate, Over
  <2>2. CASE Refuse
    BY <2>1, <2>2, RefuseInv
  <2>3. CASE Exit
    BY <2>1, <2>3, ExitInv
  <2>4. CASE ~ Refuse /\ ~ Exit
    <3>1. /\ tid # 0 /\ tid \in all_threads_
          /\ Delete(tid)
          /\ Unlink(tid)
          /\ at' = IF status_[tid] = "RUNNING" THEN "leave" ELSE at
          /\ masked' = FALSE
          /\ UNCHANGED <<total_quantums, running_tid_, stack>>
      BY <1>5, <2>4 DEF uthread_terminate, Exists
    <3>2. /\ ready_tids_' \in Seq(Tid)
          /\ \A t \in Ready : t # tid => t \in Ready'
      BY <3>1, RemoveFirstKeeps DEF Unlink, Ready
    <3>3. status_' = [status_ EXCEPT ![tid] = "TERMINATED"]
      BY <3>1 DEF Delete
    <3>4. TypeOK'
      <4>1. retired' \in 0 .. INT_RANGE - 1
        <5>1. retired + num_of_quantums_running[tid] \in Nat
          BY DEF TypeOK
        <5> QED
          BY <3>1, <5>1, CounterType DEF Delete
      <4>2. Context(tid, "UThread") \in [stack : Tid, ret : Ret]
        BY DEF Context, Ret
      <4>3. env_' \in [Tid -> [stack : Tid, ret : Ret]]
        BY <3>1, <4>2 DEF TypeOK, Delete
      <4>4. at' \in At
        BY <2>1, <3>1 DEF At
      <4>5. num_of_quantums_running' \in [Tid -> 0 .. INT_RANGE - 1]
        BY <3>1 DEF TypeOK, Delete
      <4>6. status_' \in [Tid -> Status]
        BY <3>3 DEF Status
      <4> QED
        BY <3>1, <3>2, <4>1, <4>3, <4>4, <4>5, <4>6 DEF TypeOK, Delete, Freed, Unlink
    <3>5. IdsPartition'
      BY <3>1 DEF IdsPartition, Delete, Freed
    <3>6. MainAlwaysSchedulable'
      BY <2>1, <3>1, <3>2 DEF MainAlwaysSchedulable
    <3>7. ReadyThreadsAreQueued'
      BY <2>1, <3>1, <3>2, <3>3 DEF ReadyThreadsAreQueued, Delete
    <3>8. OneRunning'
      <4>1. CASE status_[tid] = "RUNNING"
        BY <2>1, <3>1, <3>3, <4>1 DEF OneRunning, Delete
      <4>2. CASE status_[tid] # "RUNNING"
        BY <2>1, <3>1, <3>3, <4>2 DEF OneRunning, Delete
      <4> QED
        BY <4>1, <4>2
    <3> QED
      BY <3>4, <3>5, <3>6, <3>7, <3>8
  <2> QED
    BY <2>2, <2>3, <2>4
<1>6. ASSUME NEW tid \in Tid, uthread_block(tid)
      PROVE  SchedulerInv'
  <2>1. at = "user" /\ ~ Over
    BY <1>6 DEF uthread_block, Over
  <2>2. CASE Unblockable(tid)
    BY <1>6, <2>1, <2>2, RefuseInv DEF uthread_block
  <2>3. CASE ~ Unblockable(tid) /\ status_[tid] = "RUNNING"
    <3>1. tid = running_tid_ /\ running_tid_ # 0
      BY <2>1, <2>3 DEF OneRunning, Unblockable
    <3>2. switch_threads("BLOCKED", "uthread_block", status_, sleepers_)
      BY <1>6, <2>3 DEF uthread_block
    <3>3. \A t \in Tid \ {running_tid_} : status_[t] \notin {"RUNNING", "MAIN"}
      BY <2>1 DEF OneRunning
    <3>4. \A t \in all_threads_ : status_[t] = "READY" => t \in Ready
      BY <2>1 DEF ReadyThreadsAreQueued
    <3> QED
      BY <2>1, <3>1, <3>2, <3>3, <3>4, SwitchInv DEF Ret
  <2>4. CASE ~ Unblockable(tid) /\ status_[tid] = "READY"
    <3>1. /\ ready_tids_' = RemoveFirst(ready_tids_, tid)
          /\ blocked_tids_' = blocked_tids_ \cup {tid}
          /\ status_' = [status_ EXCEPT ![tid] = "BLOCKED"]
          /\ masked' = FALSE
          /\ UNCHANGED <<objects, env_, sleepers_, total_quantums, control>>
      BY <1>6, <2>4 DEF uthread_block
    <3>2. /\ ready_tids_' \in Seq(Tid)
          /\ \A t \in Ready : t # tid => t \in Ready'
      BY <3>1, RemoveFirstKeeps DEF Ready
    <3>3. TypeOK'
      BY <3>1, <3>2 DEF TypeOK, objects, control, Status
    <3>4. IdsPartition'
      BY <3>1 DEF IdsPartition, objects
    <3>5. MainAlwaysSchedulable'
      BY <2>1, <2>4, <3>1, <3>2 DEF MainAlwaysSchedulable, Unblockable, control
    <3>6. ReadyThreadsAreQueued'
      BY <2>1, <3>1, <3>2 DEF ReadyThreadsAreQueued, TypeOK, objects, control
    <3>7. OneRunning'
      BY <2>1, <2>4, <3>1 DEF OneRunning, objects, control
    <3> QED
      BY <3>3, <3>4, <3>5, <3>6, <3>7
  <2>5. CASE ~ Unblockable(tid) /\ status_[tid] \in {"ASLEEP", "BLOCKED"}
    <3>1. /\ blocked_tids_' \subseteq blocked_tids_ \cup {tid}
          /\ masked' = FALSE
          /\ UNCHANGED <<objects, status_, env_, sleepers_, ready_tids_,
                         total_quantums, control>>
      BY <1>6, <2>5 DEF uthread_block
    <3> QED
      BY <2>1, <3>1 DEF TypeOK, IdsPartition, MainAlwaysSchedulable, ReadyThreadsAreQueued,
                        OneRunning, Ready, Over, objects, control
  <2> QED
    BY <1>6, <2>2, <2>3, <2>4, <2>5 DEF uthread_block
<1>7. ASSUME NEW tid \in Tid, uthread_resume(tid)
      PROVE  SchedulerInv'
  <2>1. at = "user" /\ ~ Over
    BY <1>7 DEF uthread_resume, Over
  <2>2. CASE ~ Exists(tid)
    BY <1>7, <2>1, <2>2, RefuseInv DEF uthread_resume
  <2>3. CASE Exists(tid)
    <3>1. /\ blocked_tids_' \subseteq blocked_tids_
          /\ masked' = FALSE
          /\ UNCHANGED <<objects, env_, sleepers_, total_quantums, control>>
      BY <1>7, <2>3 DEF uthread_resume
    <3>2. CASE status_[tid] = "BLOCKED"
      <4>1. /\ ready_tids_' = Append(ready_tids_, tid)
            /\ status_' = [status_ EXCEPT ![tid] = "READY"]
        BY <1>7, <2>3, <3>2 DEF uthread_resume
      <4>2. ready_tids_' \in Seq(Tid) /\ Ready' = Ready \cup {tid}
        BY <4>1, ToSetAppend DEF Ready
      <4>3. TypeOK'
        BY <3>1, <4>1, <4>2 DEF TypeOK, objects, control, Status
      <4>4. IdsPartition' /\ MainAlwaysSchedulable'
        BY <2>1, <3>1, <4>2 DEF IdsPartition, MainAlwaysSchedulable, objects, control
      <4>5. ReadyThreadsAreQueued'
        BY <2>1, <3>1, <4>1, <4>2 DEF ReadyThreadsAreQueued, TypeOK, objects, control
      <4>6. OneRunning'
        BY <2>1, <3>1, <3>2, <4>1 DEF OneRunning, objects, control
      <4> QED
        BY <4>3, <4>4, <4>5, <4>6
    <3>3. CASE status_[tid] # "BLOCKED"
      <4>1. UNCHANGED <<ready_tids_, status_>>
        BY <1>7, <2>3, <3>3 DEF uthread_resume
      <4> QED
        BY <2>1, <3>1, <4>1 DEF TypeOK, IdsPartition, MainAlwaysSchedulable,
               ReadyThreadsAreQueued, OneRunning, Ready, Over, objects, control
    <3> QED
      BY <3>2, <3>3
  <2> QED
    BY <2>2, <2>3
<1>8. ASSUME NEW tid \in Tid, uthread_get_quantums(tid)
      PROVE  SchedulerInv'
  <2>1. ~ Over /\ masked' \in BOOLEAN /\ at' = at
    BY <1>8 DEF uthread_get_quantums, control, Over
  <2> QED
    BY <1>8, <2>1, FrameInv DEF uthread_get_quantums, control
<1>9. ASSUME NEW num_quantums \in -1 .. MAX_SLEEP, uthread_sleep(num_quantums)
      PROVE  SchedulerInv'
  <2>1. at = "user" /\ ~ Over
    BY <1>9 DEF uthread_sleep, Over
  <2>2. CASE Refuse
    BY <2>1, <2>2, RefuseInv
  <2>3. CASE ~ Refuse
    <3> DEFINE st == [status_ EXCEPT ![running_tid_] = "ASLEEP"]
               sl == Emplace(running_tid_, num_quantums)
    <3>1. /\ running_tid_ # 0 /\ num_quantums >= 0
          /\ switch_threads("ASLEEP", "uthread_sleep", st, sl)
      BY <1>9, <2>3 DEF uthread_sleep
    <3>2. st \in [Tid -> Status]
      BY DEF Status
    <3>3. sl \in [Tid -> -1 .. MAX_SLEEP]
      BY <3>1 DEF Emplace
    <3>4. \A t \in Tid : st[t] \notin {"RUNNING", "MAIN"}
      BY <2>1 DEF OneRunning
    <3>5. \A t \in all_threads_ : st[t] = "READY" => t \in Ready
      BY <2>1 DEF ReadyThreadsAreQueued
    <3> HIDE DEF st, sl
    <3> QED
      BY <2>1, <3>1, <3>2, <3>3, <3>4, <3>5, SwitchInv DEF Ret
  <2> QED
    BY <2>2, <2>3
<1>10. ASSUME Done
       PROVE  SchedulerInv'
  BY <1>10 DEF Done, vars, objects, queues, control, TypeOK, IdsPartition,
               MainAlwaysSchedulable, ReadyThreadsAreQueued, OneRunning, Over, Ready
<1> QED
  BY <1>1, <1>2, <1>3, <1>4, <1>5, <1>6, <1>7, <1>8, <1>9, <1>10 DEF Next

\* In every reachable state the scheduler's tables are consistent: each of the
\* five properties follows.
THEOREM SchedulerInvariant == Spec => []SchedulerInv
<1>1. Init => SchedulerInv
  BY InitInv
<1>2. SchedulerInv /\ [Next]_vars => SchedulerInv'
  <2>1. SchedulerInv /\ Next => SchedulerInv'
    BY NextInv
  <2>2. SchedulerInv /\ UNCHANGED vars => SchedulerInv'
    BY DEF vars, objects, queues, control, SchedulerInv, TypeOK, IdsPartition,
           MainAlwaysSchedulable, ReadyThreadsAreQueued, OneRunning, Over, Ready
  <2> QED
    BY <2>1, <2>2
<1> QED
  BY <1>1, <1>2, PTL DEF Spec
\* Every variable keeps its type, with the calls, the timer and the windows in
\* any order.
THEOREM TypeCorrect == Spec => []TypeOK
BY SchedulerInvariant, PTL DEF SchedulerInv

\* An id is free exactly when no thread has it.
THEOREM IdsArePartitioned == Spec => []IdsPartition
BY SchedulerInvariant, PTL DEF SchedulerInv

\* There is always a thread to switch to: main runs or is ready.
THEOREM MainIsSchedulable == Spec => []MainAlwaysSchedulable
BY SchedulerInvariant, PTL DEF SchedulerInv

\* A thread with status READY is found in the ready queue.
THEOREM ReadyAreQueued == Spec => []ReadyThreadsAreQueued
BY SchedulerInvariant, PTL DEF SchedulerInv

\* Exactly one thread is running, and it exists.
THEOREM OneThreadRuns == Spec => []OneRunning
BY SchedulerInvariant, PTL DEF SchedulerInv

-----------------------------------------------------------------------------
(* The quantum counters *)

\* Division leaves one remainder only.
LEMMA OneQuotient ==
  ASSUME NEW d \in Int, NEW m \in 0 .. INT_RANGE - 1, NEW x \in 0 .. INT_RANGE - 1,
         x = INT_RANGE * d + m
  PROVE  d = 0
<1>1. INT_RANGE \in Nat \ {0}
  BY RangeAssumption
<1>2. CASE d >= 1
  <2>1. INT_RANGE * d >= INT_RANGE
    BY <1>1, <1>2
  <2> QED
    BY <1>1, <2>1
<1>3. CASE d <= -1
  <2>1. INT_RANGE * d <= - INT_RANGE
    BY <1>1, <1>3
  <2> QED
    BY <1>1, <2>1
<1> QED
  BY <1>2, <1>3

\* Divide a, add c to the remainder, and divide again: a + c differs from that
\* remainder by a multiple.
LEMMA Multiple ==
  ASSUME NEW R \in Int, NEW a \in Int, NEW c \in Int, NEW q \in Int, NEW p \in Int,
         NEW s \in Int, NEW m \in Int, NEW r \in Int, NEW z \in Int,
         a = R * q + m, m + c = R * p + r, a + c = R * s + z
  PROVE  z = R * (q + p - s) + r
OBVIOUS

\* So a number may be reduced before something is added to it.
LEMMA Reduced ==
  ASSUME NEW a \in Int, NEW c \in Int
  PROVE  ((a % INT_RANGE) + c) % INT_RANGE = (a + c) % INT_RANGE
<1>1. ASSUME NEW x \in Int
      PROVE  \E d \in Int, m \in 0 .. INT_RANGE - 1 :
               x = INT_RANGE * d + m /\ m = x % INT_RANGE
  <2>1. /\ x % INT_RANGE \in 0 .. INT_RANGE - 1
        /\ x \div INT_RANGE \in Int
        /\ x = INT_RANGE * (x \div INT_RANGE) + (x % INT_RANGE)
    BY RangeAssumption
  <2> QED
    BY <2>1
<1>2. PICK q \in Int, m \in 0 .. INT_RANGE - 1 : a = INT_RANGE * q + m /\ m = a % INT_RANGE
  BY <1>1
<1>3. m + c \in Int /\ a + c \in Int
  BY RangeAssumption
<1>4. PICK p \in Int, r \in 0 .. INT_RANGE - 1 :
        m + c = INT_RANGE * p + r /\ r = (m + c) % INT_RANGE
  BY ONLY <1>1, <1>3
<1>5. PICK s \in Int, z \in 0 .. INT_RANGE - 1 :
        a + c = INT_RANGE * s + z /\ z = (a + c) % INT_RANGE
  BY ONLY <1>1, <1>3
<1>6. q + p - s \in Int /\ INT_RANGE \in Int /\ m \in Int /\ r \in Int /\ z \in Int
  BY RangeAssumption
<1>7. z = INT_RANGE * (q + p - s) + r
  <2>1. a = INT_RANGE * q + m /\ m + c = INT_RANGE * p + r /\ a + c = INT_RANGE * s + z
    BY <1>2, <1>4, <1>5
  <2> QED
    BY ONLY <1>6, <2>1, Multiple
<1>8. q + p - s = 0
  BY <1>6, <1>7, OneQuotient
<1>9. z = r
  BY <1>6, <1>7, <1>8
<1> QED
  BY <1>2, <1>4, <1>5, <1>9

\* A counter is one higher modulo INT_RANGE, and the total of the quanta too.
LEMMA BumpedSum ==
  ASSUME NEW sum \in Int, NEW n \in Int
  PROVE  /\ Bump(sum % INT_RANGE) = (sum + 1) % INT_RANGE
         /\ (sum - n + Bump(n)) % INT_RANGE = (sum + 1) % INT_RANGE
<1>1. Bump(sum % INT_RANGE) = (sum + 1) % INT_RANGE
  <2>1. 1 \in Int
    OBVIOUS
  <2>2. ((sum % INT_RANGE) + 1) % INT_RANGE = (sum + 1) % INT_RANGE
    BY ONLY <2>1, Reduced
  <2> QED
    BY ONLY <2>2 DEF Bump
<1>2. n + 1 \in Int /\ sum - n \in Int
  OBVIOUS
<1>3. (((n + 1) % INT_RANGE) + (sum - n)) % INT_RANGE = ((n + 1) + (sum - n)) % INT_RANGE
  BY ONLY <1>2, Reduced
<1>4. (n + 1) % INT_RANGE \in Int
  BY <1>2, RangeAssumption
<1>5. (n + 1) + (sum - n) = sum + 1
  OBVIOUS
<1>6. sum - n + Bump(n) = ((n + 1) % INT_RANGE) + (sum - n)
  BY <1>4 DEF Bump
<1> QED
  BY <1>1, <1>3, <1>5, <1>6

\* The quanta of the threads there are and of those deleted since.
Counted == retired + SumOver(num_of_quantums_running, all_threads_)

\* QuantumSum, said of them.
CountsAgree ==
  /\ at \in {"user", "leave"} => total_quantums = Counted % INT_RANGE
  /\ at = "jump" => total_quantums = (Counted + 1) % INT_RANGE

\* It is the same before a step and after it.
LEMMA CountedSum == (QuantumSum <=> CountsAgree) /\ (QuantumSum <=> CountsAgree)'
BY DEF QuantumSum, CountsAgree, Counted, SumOver

\* There are finitely many numbers to add up.
LEMMA CountedType ==
  ASSUME TypeOK
  PROVE  /\ IsFiniteSet(all_threads_) /\ all_threads_ \subseteq Tid
         /\ \A t \in Tid : num_of_quantums_running[t] \in Int
         /\ retired \in Int /\ Counted \in Int
<1>1. IsFiniteSet(all_threads_) /\ all_threads_ \subseteq Tid
  BY TidFinite DEF TypeOK
<1>2. retired \in Int /\ \A t \in Tid : num_of_quantums_running[t] \in Int
  BY DEF TypeOK
<1>3. \A t \in all_threads_ : num_of_quantums_running[t] \in Int
  BY <1>1, <1>2
<1>4. SumOver(num_of_quantums_running, all_threads_) \in Int
  BY ONLY <1>1, <1>3, SumStep
<1> QED
  BY <1>1, <1>2, <1>4 DEF Counted

\* uthread_init counts main's first quantum, and the total's.
LEMMA InitSum == Init => QuantumSum
<1> SUFFICES ASSUME Init PROVE QuantumSum
  OBVIOUS
<1> DEFINE num == num_of_quantums_running
<1>1. IsFiniteSet({0}) /\ \A t \in {0} : num[t] \in Int /\ num[t] = 1 % INT_RANGE
  <2>1. 1 % INT_RANGE \in Int
    BY RangeAssumption
  <2>2. num[0] = 1 % INT_RANGE
    BY DEF Init, Tid
  <2> QED
    BY <2>1, <2>2, FS_Singleton
<1> HIDE DEF num
<1>2. SumOver(num, {0}) = num[0] + SumOver(num, {0} \ {0})
  BY ONLY <1>1, SumRemove
<1>3. SumOver(num, {}) = 0
  BY FS_EmptySet, SumStep
<1>4. Counted = 1 % INT_RANGE
  <2>1. {0} \ {0} = {}
    OBVIOUS
  <2>2. Counted = 0 + SumOver(num, {0})
    BY DEF Counted, Init, num
  <2> QED
    BY <1>1, <1>2, <1>3, <2>1, <2>2
<1>5. (1 % INT_RANGE) % INT_RANGE = 1 % INT_RANGE
  <2>1. 1 \in Int /\ 0 \in Int /\ 1 % INT_RANGE \in Int
    BY RangeAssumption
  <2>2. ((1 % INT_RANGE) + 0) % INT_RANGE = (1 + 0) % INT_RANGE
    BY ONLY <2>1, Reduced
  <2> QED
    BY <2>1, <2>2
<1> QED
  BY <1>4, <1>5, CountedSum DEF Init, CountsAgree

\* A switch counts in the total the quantum it starts; the thread's own is
\* counted at the jump.
LEMMA SwitchSum ==
  ASSUME SchedulerInv, QuantumSum, at \in {"user", "leave"},
         NEW to, NEW ret, NEW st, NEW sl, switch_threads(to, ret, st, sl)
  PROVE  QuantumSum'
<1>1. \/ /\ total_quantums' = Bump(total_quantums)
         /\ at' = "jump"
         /\ UNCHANGED objects
      \/ at' = "crashed"
  BY DEF switch_threads, Crash
<1>2. CASE at' = "crashed"
  BY <1>2 DEF QuantumSum
<1>3. CASE at' = "jump" /\ total_quantums' = Bump(total_quantums) /\ UNCHANGED objects
  <2>1. total_quantums = Counted % INT_RANGE
    BY CountedSum DEF CountsAgree
  <2>2. Counted' = Counted
    BY <1>3 DEF Counted, objects
  <2>3. Counted \in Int
    BY CountedType DEF SchedulerInv
  <2>4. total_quantums' = (Counted' + 1) % INT_RANGE
    BY <1>3, <2>1, <2>2, <2>3, BumpedSum
  <2> QED
    BY <1>3, <2>4, CountedSum DEF CountsAgree
<1> QED
  BY <1>1, <1>2, <1>3

\* The jump counts the quantum in the thread.
LEMMA JumpSum ==
  ASSUME WindowTicks = {}, SchedulerInv, QuantumSum, startRunning
  PROVE  QuantumSum'
<1> DEFINE num == num_of_quantums_running
           r == running_tid_
           others == all_threads_ \ {r}
<1>1. /\ at = "jump" /\ at' \in {"user", "lost"}
      /\ num' = [num EXCEPT ![r] = Bump(@)]
      /\ UNCHANGED <<all_threads_, retired, total_quantums>>
  BY DEF startRunning, siglongjmp, QuantumStarted
<1>2. r \in all_threads_
  BY <1>1 DEF SchedulerInv, OneRunning
<1>3. /\ IsFiniteSet(all_threads_) /\ all_threads_ \subseteq Tid
      /\ \A t \in Tid : num[t] \in Int
      /\ retired \in Int /\ Counted \in Int
  BY CountedType DEF SchedulerInv
<1>4. \A t \in Tid : num'[t] = IF t = r THEN Bump(num[r]) ELSE num[t]
  BY <1>1 DEF SchedulerInv, TypeOK
<1>5. Bump(num[r]) \in Int
  BY <1>2, <1>3, RangeAssumption DEF Bump
<1> HIDE DEF num
<1>6. \A t \in all_threads_ : num[t] \in Int /\ num'[t] \in Int
  BY <1>3, <1>4, <1>5
<1>7. SumOver(num, all_threads_) = num[r] + SumOver(num, others)
  BY ONLY <1>2, <1>3, <1>6, SumRemove
<1>8. SumOver(num', all_threads_) = Bump(num[r]) + SumOver(num, others)
  <2>1. IsFiniteSet(others)
    BY <1>3, FS_Subset
  <2>2. SumOver(num', all_threads_) = num'[r] + SumOver(num', others)
    BY ONLY <1>2, <1>3, <1>6, SumRemove
  <2>3. \A t \in others : num[t] \in Int /\ num'[t] = num[t]
    BY <1>3, <1>4
  <2>4. SumOver(num', others) = SumOver(num, others)
    BY ONLY <2>1, <2>3, SumSame
  <2> QED
    BY <1>2, <1>3, <1>4, <2>2, <2>4
<1>9. SumOver(num, others) \in Int /\ num[r] \in Int
  <2>1. IsFiniteSet(others) /\ \A t \in others : num[t] \in Int
    BY <1>3, FS_Subset
  <2> QED
    BY <1>2, <1>3, <2>1, SumStep
<1>10. Counted' = Counted - num[r] + Bump(num[r])
  <2>1. Counted = retired + SumOver(num, all_threads_)
    BY DEF Counted, num
  <2>2. Counted' = retired + SumOver(num', all_threads_)
    BY <1>1 DEF Counted, num
  <2> HIDE DEF others, r
  <2> QED
    BY ONLY <1>3, <1>5, <1>7, <1>8, <1>9, <2>1, <2>2
<1>11. Counted' % INT_RANGE = (Counted + 1) % INT_RANGE
  BY <1>3, <1>9, <1>10, BumpedSum
<1>12. total_quantums' = Counted' % INT_RANGE
  BY <1>1, <1>11, CountedSum DEF CountsAgree
<1> QED
  BY <1>1, <1>12, CountedSum DEF CountsAgree

\* What a deleted thread has counted stays counted.
LEMMA DeleteSum ==
  ASSUME SchedulerInv, QuantumSum, at = "user", NEW tid \in all_threads_,
         Delete(tid), at' \in {"user", "leave"}, UNCHANGED total_quantums
  PROVE  QuantumSum'
<1> DEFINE num == num_of_quantums_running
           others == all_threads_ \ {tid}
<1>1. /\ all_threads_' = others
      /\ num' = [num EXCEPT ![tid] = 0]
      /\ retired' = (retired + num[tid]) % INT_RANGE
  BY DEF Delete
<1>2. /\ IsFiniteSet(all_threads_) /\ all_threads_ \subseteq Tid
      /\ \A t \in Tid : num[t] \in Int
      /\ retired \in Int /\ Counted \in Int
  BY CountedType DEF SchedulerInv
<1>3. \A t \in Tid : t # tid => num'[t] = num[t]
  BY <1>1 DEF SchedulerInv, TypeOK
<1> HIDE DEF num
<1>4. IsFiniteSet(others) /\ \A t \in others : num[t] \in Int /\ num'[t] = num[t]
  BY <1>2, <1>3, FS_Subset
<1>5. SumOver(num', others) = SumOver(num, others)
  BY ONLY <1>4, SumSame
<1>6. SumOver(num, all_threads_) = num[tid] + SumOver(num, others)
  <2>1. \A t \in all_threads_ : num[t] \in Int
    BY <1>2
  <2> QED
    BY ONLY <1>2, <2>1, SumRemove
<1>7. SumOver(num, others) \in Int /\ num[tid] \in Int
  BY <1>2, <1>4, SumStep
<1>8. Counted' % INT_RANGE = Counted % INT_RANGE
  <2> DEFINE rest == SumOver(num, others)
  <2>1. Counted = retired + (num[tid] + rest)
    BY <1>6 DEF Counted, num
  <2>2. Counted' = ((retired + num[tid]) % INT_RANGE) + rest
    BY <1>1, <1>5 DEF Counted, num
  <2> HIDE DEF rest
  <2>3. rest \in Int /\ retired + num[tid] \in Int
    BY <1>2, <1>7 DEF rest
  <2>4. (((retired + num[tid]) % INT_RANGE) + rest) % INT_RANGE
          = ((retired + num[tid]) + rest) % INT_RANGE
    BY ONLY <2>3, Reduced
  <2>5. retired + (num[tid] + rest) = (retired + num[tid]) + rest
    BY <1>2, <1>7, <2>3
  <2> QED
    BY <2>1, <2>2, <2>4, <2>5
<1> QED
  BY <1>8, CountedSum DEF CountsAgree

\* A new thread has counted nothing.
LEMMA SpawnSum ==
  ASSUME SchedulerInv, QuantumSum, at = "user", NEW tid \in Tid \ all_threads_,
         all_threads_' = all_threads_ \cup {tid},
         num_of_quantums_running' = [num_of_quantums_running EXCEPT ![tid] = 0],
         UNCHANGED <<at, total_quantums, retired>>
  PROVE  QuantumSum'
<1> DEFINE num == num_of_quantums_running
           all == all_threads_ \cup {tid}
<1>1. /\ IsFiniteSet(all_threads_) /\ all_threads_ \subseteq Tid
      /\ \A t \in Tid : num[t] \in Int
  BY CountedType DEF SchedulerInv
<1>2. \A t \in Tid : num'[t] = IF t = tid THEN 0 ELSE num[t]
  BY DEF SchedulerInv, TypeOK
<1>3. all_threads_' = all
  OBVIOUS
<1> HIDE DEF num
<1>4. IsFiniteSet(all) /\ \A t \in all : num'[t] \in Int
  <2>1. IsFiniteSet(all)
    BY <1>1, FS_AddElement
  <2> QED
    BY <1>1, <1>2, <2>1
<1>5. tid \in all /\ all \ {tid} = all_threads_ /\ num'[tid] = 0
  BY <1>2
<1>6. SumOver(num', all) = num'[tid] + SumOver(num', all \ {tid})
  BY ONLY <1>4, <1>5, SumRemove
<1>7. SumOver(num', all_threads_) = SumOver(num, all_threads_)
  <2>1. \A t \in all_threads_ : num[t] \in Int /\ num'[t] = num[t]
    BY <1>1, <1>2
  <2> QED
    BY ONLY <1>1, <2>1, SumSame
<1>8. SumOver(num, all_threads_) \in Int
  BY <1>1, SumStep
<1>9. Counted' = Counted
  BY <1>3, <1>5, <1>6, <1>7, <1>8 DEF Counted, num
<1> QED
  BY <1>9, CountedSum DEF CountsAgree

\* With the windows closed, every step keeps the quanta adding up.
LEMMA NextSum ==
  ASSUME WindowTicks = {}, SchedulerInv, QuantumSum, Next
  PROVE  QuantumSum'
<1>1. ASSUME UNCHANGED <<objects, total_quantums>>, at' \in {at, "exited"}
      PROVE  QuantumSum'
  <2>1. Counted' = Counted
    BY <1>1 DEF Counted, objects
  <2> QED
    BY <1>1, <2>1, CountedSum DEF CountsAgree
<1>2. CASE Refuse
  BY <1>1, <1>2 DEF Refuse, control
<1>3. CASE Exit
  BY <1>1, <1>3 DEF Exit
<1>4. CASE startRunning
  BY <1>4, JumpSum
<1>5. CASE timer_handler \/ leave
  BY <1>5, SwitchSum DEF timer_handler, leave
<1>6. ASSUME NEW entry_point, uthread_spawn(entry_point), ~ Refuse, ~ Exit
      PROVE  QuantumSum'
  <2>1. PICK tid \in Tid :
           /\ at = "user"
           /\ IsFirstFree(tid)
           /\ all_threads_' = all_threads_ \cup {tid}
           /\ num_of_quantums_running' = [num_of_quantums_running EXCEPT ![tid] = 0]
           /\ UNCHANGED <<at, total_quantums, retired>>
    BY <1>6 DEF uthread_spawn, control
  <2>2. tid \notin all_threads_
    BY <2>1 DEF IsFirstFree, SchedulerInv, IdsPartition
  <2> QED
    BY <2>1, <2>2, SpawnSum
<1>7. ASSUME NEW tid \in Tid, uthread_terminate(tid), ~ Refuse, ~ Exit
      PROVE  QuantumSum'
  <2>1. /\ at = "user" /\ tid \in all_threads_
        /\ Delete(tid)
        /\ at' = IF status_[tid] = "RUNNING" THEN "leave" ELSE at
        /\ UNCHANGED total_quantums
    BY <1>7 DEF uthread_terminate, Exists
  <2> QED
    BY <2>1, DeleteSum
<1>8. ASSUME NEW tid \in Tid, uthread_block(tid), ~ Refuse
      PROVE  QuantumSum'
  <2>1. CASE status_[tid] = "RUNNING"
    BY <1>8, <2>1, SwitchSum DEF uthread_block
  <2>2. CASE status_[tid] # "RUNNING"
    BY <1>1, <1>8, <2>2 DEF uthread_block, control
  <2> QED
    BY <2>1, <2>2
<1>9. ASSUME NEW tid \in Tid, uthread_resume(tid) \/ uthread_get_quantums(tid), ~ Refuse
      PROVE  QuantumSum'
  BY <1>1, <1>9 DEF uthread_resume, uthread_get_quantums, control
<1>10. ASSUME NEW num_quantums \in -1 .. MAX_SLEEP, uthread_sleep(num_quantums), ~ Refuse
       PROVE  QuantumSum'
  BY <1>10, SwitchSum DEF uthread_sleep
<1>11. CASE Done
  BY <1>1, <1>11 DEF Done, vars, control
<1> QED
  BY <1>2, <1>3, <1>4, <1>5, <1>6, <1>7, <1>8, <1>9, <1>10, <1>11 DEF Next

\* No quantum is lost or counted twice, whichever threads clients terminate,
\* as long as no signal comes in a window.
THEOREM QuantaAddUp == WindowTicks = {} /\ Spec => []QuantumSum
<1> SUFFICES ASSUME WindowTicks = {} PROVE Spec => []QuantumSum
  OBVIOUS
<1>1. Init => QuantumSum
  BY InitSum
<1>2. SchedulerInv /\ QuantumSum /\ [Next]_vars => QuantumSum'
  <2>1. SchedulerInv /\ QuantumSum /\ Next => QuantumSum'
    BY NextSum
  <2>2. QuantumSum /\ UNCHANGED vars => QuantumSum'
    BY CountedSum DEF vars, objects, control, CountsAgree, Counted
  <2> QED
    BY <2>1, <2>2
<1> QED
  BY <1>1, <1>2, SchedulerInvariant, PTL DEF Spec

=============================================================================
