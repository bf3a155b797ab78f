------------------------ MODULE UThreadsPlaces_proofs ------------------------
(***************************************************************************)
(* OnePlace and NoOvertaking, for every number of threads and with the     *)
(* timer expiring before a jump too, as long as it does not expire in the  *)
(* switch of uthread_terminate and no client terminates a sleeping thread. *)
(***************************************************************************)
EXTENDS UThreads_proofs

-----------------------------------------------------------------------------
(* update_sleepers *)

\* update_sleepers queues nobody twice.
LEMMA InjectiveAscending ==
  ASSUME NEW S, S \subseteq Tid, NEW w \in Ascending(S)
  PROVE  IsInjective(w)
<1>1. Cardinality(S) \in Nat
  BY TidFinite
<1>2. DOMAIN w = 1 .. Cardinality(S) /\ \A i \in DOMAIN w : w[i] \in Int
  <2>1. w \in [1 .. Cardinality(S) -> S]
    BY DEF Ascending
  <2>2. S \subseteq Int
    BY DEF Tid
  <2> QED
    BY <2>1, <2>2
<1>3. \A i, j \in DOMAIN w : i < j => w[i] < w[j]
  BY DEF Ascending
<1>4. SUFFICES ASSUME NEW i \in DOMAIN w, NEW j \in DOMAIN w, w[i] = w[j]
               PROVE  i = j
  BY DEF IsInjective
<1>5. i \in Int /\ j \in Int /\ w[i] \in Int /\ w[j] \in Int
  BY <1>1, <1>2
<1>6. ~ (i < j) /\ ~ (j < i)
  BY <1>3, <1>4, <1>5
<1> QED
  BY <1>5, <1>6

-----------------------------------------------------------------------------
(* The places *)

\* OnePlace, of the statuses and sleepers as a caller of switch_threads leaves
\* them: the outgoing thread is still in no place but possibly asleep.
Placed(st, sl) ==
  /\ IsInjective(ready_tids_)
  /\ Ready = {t \in Tid : st[t] = "READY"}
  /\ \A t \in Tid : sl[t] >= 0 <=> st[t] = "ASLEEP"
  /\ \A t \in Tid : t \in blocked_tids_ /\ ~ (sl[t] >= 0) <=> st[t] = "BLOCKED"
  /\ \A t \in Tid : t \in all_threads_ <=> st[t] # "TERMINATED"
  /\ blocked_tids_ \subseteq all_threads_ \ {0}

\* The queue switch_threads takes the next thread from holds every thread that
\* is READY by then, once.
LEMMA QueueOnce ==
  ASSUME TypeOK,
         NEW to \in {"READY", "BLOCKED", "ASLEEP", "TERMINATED"},
         NEW st \in [Tid -> Status], NEW sl \in [Tid -> -1 .. MAX_SLEEP],
         Placed(st, sl),
         to \in {"READY", "BLOCKED"} => st[running_tid_] \in {"RUNNING", "MAIN"},
         NEW woken \in Ascending(Awake(sl)),
         NEW queue, queue = Enqueued(woken, to),
         NEW out, out = OutgoingStatus(to, WakeStatus(st, sl))
  PROVE  /\ queue \in Seq(Tid) /\ IsInjective(queue)
         /\ \A t \in Tid : out[t] = IF t = running_tid_ /\ to \in {"READY", "BLOCKED"} THEN to
                                   ELSE IF sl[t] # 0 THEN st[t]
                                   ELSE IF t \in blocked_tids_ THEN "BLOCKED" ELSE "READY"
         /\ ToSet(queue) = {t \in Tid : out[t] = "READY"}
<1> DEFINE back == Requeued(to)
           front == ready_tids_ \o woken
<1>1. running_tid_ \in Tid /\ ready_tids_ \in Seq(Tid)
  BY DEF TypeOK
<1>2. woken \in Seq(Tid) /\ ToSet(woken) = Awake(sl) /\ IsInjective(woken)
  BY AscendingType, InjectiveAscending DEF Awake, Due
<1>3. /\ back \in Seq(Tid) /\ IsInjective(back)
      /\ ToSet(back) = IF to = "READY" THEN {running_tid_} ELSE {}
  BY <1>1 DEF Requeued, ToSet, IsInjective
<1>4. \A t \in Tid : WakeStatus(st, sl)[t] = IF sl[t] # 0 THEN st[t]
                           ELSE IF t \in blocked_tids_ THEN "BLOCKED" ELSE "READY"
  BY DEF WakeStatus, Awake, Due
<1>5. \A t \in Tid : out[t] = IF t = running_tid_ /\ to \in {"READY", "BLOCKED"} THEN to
                                ELSE WakeStatus(st, sl)[t]
  <2>1. WakeStatus(st, sl) = [t \in Tid |-> WakeStatus(st, sl)[t]]
    BY DEF WakeStatus
  <2> QED
    BY <2>1 DEF OutgoingStatus
<1>6. \A t \in Awake(sl) : t \in Tid /\ st[t] = "ASLEEP"
  BY DEF Placed, Awake, Due
<1>7. Ready \cap Awake(sl) = {}
  BY <1>6 DEF Placed
<1>8. front \in Seq(Tid) /\ ToSet(front) = Ready \cup Awake(sl) /\ IsInjective(front)
  <2>1. ToSet(ready_tids_) = Ready /\ IsInjective(ready_tids_)
    BY DEF Ready, Placed
  <2> QED
    BY <1>1, <1>2, <1>7, <2>1, ToSetConcat, ConcatProperties, InjectiveConcat
<1>9. queue = front \o back
  BY DEF Enqueued
<1>10. ToSet(front) \cap ToSet(back) = {}
  BY <1>3, <1>6, <1>8 DEF Placed
<1> HIDE DEF front, back
<1>11. queue \in Seq(Tid) /\ IsInjective(queue) /\ ToSet(queue) = ToSet(front) \cup ToSet(back)
  BY <1>3, <1>8, <1>9, <1>10, ToSetConcat, ConcatProperties, InjectiveConcat
<1>12. ASSUME NEW t \in Tid
       PROVE  t \in ToSet(queue) <=> out[t] = "READY"
  <2>1. t \in Ready <=> st[t] = "READY"
    BY DEF Placed
  <2>2. t \in Awake(sl) <=> sl[t] = 0 /\ t \notin blocked_tids_
    BY DEF Awake, Due
  <2>3. sl[t] = 0 => st[t] = "ASLEEP"
    BY DEF Placed
  <2> QED
    BY <1>3, <1>4, <1>5, <1>8, <1>11, <2>1, <2>2, <2>3
<1>13. ToSet(queue) \subseteq Tid
  BY <1>11, ToSetType
<1> QED
  BY <1>4, <1>5, <1>11, <1>12, <1>13

\* The queue switch_threads takes the next thread from holds threads there are,
\* once.
LEMMA QueueOfThreads ==
  ASSUME TypeOK,
         NEW to \in {"READY", "BLOCKED", "ASLEEP", "TERMINATED"},
         NEW st \in [Tid -> Status], NEW sl \in [Tid -> -1 .. MAX_SLEEP],
         Placed(st, sl),
         to \in {"READY", "BLOCKED"} => st[running_tid_] \in {"RUNNING", "MAIN"},
         to # "TERMINATED" => running_tid_ \in all_threads_,
         NEW woken \in Ascending(Awake(sl)),
         NEW queue, queue = Enqueued(woken, to)
  PROVE  /\ queue \in Seq(Tid) /\ IsInjective(queue) /\ ToSet(queue) \subseteq all_threads_
         /\ \A t \in Tid : sl[t] = 0 => t \in all_threads_
<1> DEFINE out == OutgoingStatus(to, WakeStatus(st, sl))
<1>1. out = OutgoingStatus(to, WakeStatus(st, sl))
  OBVIOUS
<1> HIDE DEF out
<1>2. /\ queue \in Seq(Tid) /\ IsInjective(queue)
      /\ \A t \in Tid : out[t] = IF t = running_tid_ /\ to \in {"READY", "BLOCKED"} THEN to
                                ELSE IF sl[t] # 0 THEN st[t]
                                ELSE IF t \in blocked_tids_ THEN "BLOCKED" ELSE "READY"
      /\ ToSet(queue) = {t \in Tid : out[t] = "READY"}
  BY <1>1, QueueOnce
<1>3. \A t \in Tid : st[t] # "TERMINATED" => t \in all_threads_
  BY DEF Placed
<1>4. \A t \in Tid : sl[t] = 0 => t \in all_threads_
  <2>1. \A t \in Tid : sl[t] = 0 => st[t] = "ASLEEP"
    BY DEF Placed
  <2> QED
    BY <1>3, <2>1
<1> QED
  BY <1>2, <1>3, <1>4

\* A switch puts every thread in one place.
LEMMA SwitchPlaces ==
  ASSUME SchedulerInv, ~ Over,
         NEW to \in {"READY", "BLOCKED", "ASLEEP", "TERMINATED"}, NEW ret,
         NEW st \in [Tid -> Status], NEW sl \in [Tid -> -1 .. MAX_SLEEP],
         Placed(st, sl),
         \A t \in Tid \ {running_tid_} : st[t] \notin {"RUNNING", "MAIN"},
         to \in {"ASLEEP", "TERMINATED"} => st[running_tid_] \notin {"RUNNING", "MAIN"},
         to \in {"READY", "BLOCKED"} /\ running_tid_ \in all_threads_
            => st[running_tid_] \in {"RUNNING", "MAIN"},
         to # "READY" => running_tid_ # 0,
         switch_threads(to, ret, st, sl)
  PROVE  OnePlace'
<1>1. PICK woken \in Ascending(Awake(sl)) :
        LET queue == Enqueued(woken, to) IN
        \/ /\ Dereferenced(to, sl, queue) \subseteq all_threads_
           /\ insert_ready_to_running(queue, OutgoingStatus(to, WakeStatus(st, sl)))
           /\ sleepers_' = Countdown(sl)
           /\ blocked_tids_' = blocked_tids_ \cup NewlyBlocked(to)
           /\ at' = "jump"
           /\ UNCHANGED all_threads_
        \/ Crash
  BY DEF switch_threads, objects
<1> DEFINE queue == Enqueued(woken, to)
           out == OutgoingStatus(to, WakeStatus(st, sl))
<1>2. CASE Crash
  BY <1>2 DEF Crash, OnePlace, Over
<1>3. CASE ~ Crash
  <2>1. /\ Dereferenced(to, sl, queue) \subseteq all_threads_
        /\ insert_ready_to_running(queue, out)
        /\ sleepers_' = Countdown(sl)
        /\ blocked_tids_' = blocked_tids_ \cup NewlyBlocked(to)
        /\ at' = "jump"
        /\ UNCHANGED all_threads_
    BY <1>1, <1>3
  <2>2. to \in {"READY", "BLOCKED"} => st[running_tid_] \in {"RUNNING", "MAIN"}
    BY <2>1 DEF Dereferenced
  <2>3. /\ queue \in Seq(Tid) /\ IsInjective(queue)
        /\ \A t \in Tid : out[t] = IF t = running_tid_ /\ to \in {"READY", "BLOCKED"} THEN to
                                  ELSE IF sl[t] # 0 THEN st[t]
                                  ELSE IF t \in blocked_tids_ THEN "BLOCKED" ELSE "READY"
        /\ ToSet(queue) = {t \in Tid : out[t] = "READY"}
    BY <2>2, QueueOnce DEF SchedulerInv
  <2>4. queue # <<>> /\ out \in [Tid -> Status]
    <3>1. \A t \in all_threads_ : st[t] = "READY" => t \in Ready
      BY DEF Placed, SchedulerInv, TypeOK
    <3> QED
      BY <3>1, QueueReady DEF SchedulerInv
  <2>5. running_tid_ \in Tid /\ all_threads_ \subseteq Tid /\ blocked_tids_ \subseteq Tid
    BY DEF SchedulerInv, TypeOK
  <2> HIDE DEF queue, out
  <2>6. /\ Head(queue) \in Tid /\ Tail(queue) \in Seq(Tid)
        /\ ToSet(queue) = {Head(queue)} \cup ToSet(Tail(queue))
        /\ IsInjective(Tail(queue)) /\ Head(queue) \notin ToSet(Tail(queue))
    BY <2>3, <2>4, HeadOrTail, InjectiveTail
  <2>7. /\ ready_tids_' = Tail(queue)
        /\ status_' = [out EXCEPT ![Head(queue)] = "RUNNING"]
    BY <2>1, <2>4 DEF insert_ready_to_running
  <2>8. \A t \in Tid : sleepers_'[t] = IF sl[t] >= 0 THEN sl[t] - 1 ELSE -1
    BY <2>1 DEF Countdown
  <2>9. to \in {"READY", "BLOCKED"} => running_tid_ \in all_threads_
    BY <2>1 DEF Dereferenced
  <2>10. ASSUME NEW t \in Tid
         PROVE  /\ t \in ToSet(Tail(queue)) <=> status_'[t] = "READY"
                /\ sleepers_'[t] >= 0 <=> status_'[t] = "ASLEEP"
                /\ t \in blocked_tids_' /\ ~ (sleepers_'[t] >= 0) <=> status_'[t] = "BLOCKED"
                /\ t \in all_threads_' <=> status_'[t] # "TERMINATED"
    <3>1. status_'[t] = IF t = Head(queue) THEN "RUNNING" ELSE out[t]
      BY <2>4, <2>6, <2>7
    <3>2. out[Head(queue)] = "READY"
      BY <2>3, <2>6
    <3>3. t \in ToSet(Tail(queue)) <=> t # Head(queue) /\ out[t] = "READY"
      BY <2>3, <2>6
    <3>4. /\ sl[t] >= 0 <=> st[t] = "ASLEEP"
          /\ t \in blocked_tids_ /\ ~ (sl[t] >= 0) <=> st[t] = "BLOCKED"
          /\ t \in all_threads_ <=> st[t] # "TERMINATED"
      BY DEF Placed
    <3>5. t \in blocked_tids_' <=> t \in blocked_tids_ \/ (to = "BLOCKED" /\ t = running_tid_)
      BY <2>1 DEF NewlyBlocked
    <3>6. out[t] = IF t = running_tid_ /\ to \in {"READY", "BLOCKED"} THEN to
                   ELSE IF sl[t] # 0 THEN st[t]
                   ELSE IF t \in blocked_tids_ THEN "BLOCKED" ELSE "READY"
      BY <2>3
    <3>7. sl[t] \in Int /\ sl[t] >= -1
      OBVIOUS
    <3>8. sleepers_'[t] >= 0 <=> sl[t] >= 1
      BY <2>8, <3>7
    <3>9. t \in all_threads_' <=> t \in all_threads_
      BY <2>1
    <3>10. CASE t = running_tid_ /\ to \in {"READY", "BLOCKED"}
      BY <2>2, <2>9, <3>1, <3>2, <3>3, <3>4, <3>5, <3>6, <3>7, <3>8, <3>9, <3>10
    <3>11. CASE ~ (t = running_tid_ /\ to \in {"READY", "BLOCKED"})
      <4>1. CASE sl[t] = 0
        BY <3>1, <3>2, <3>3, <3>4, <3>5, <3>6, <3>8, <3>9, <3>11, <4>1
      <4>2. CASE sl[t] # 0
        BY <3>1, <3>2, <3>3, <3>4, <3>5, <3>6, <3>7, <3>8, <3>9, <3>11, <4>2
      <4> QED
        BY <4>1, <4>2
    <3> QED
      BY <3>10, <3>11
  <2>11. Ready' = ToSet(Tail(queue))
    BY <2>7 DEF Ready
  <2>12. ToSet(Tail(queue)) \subseteq Tid
    BY <2>6, ToSetType
  <2>13. blocked_tids_' \subseteq all_threads_' \ {0}
    BY <2>1, <2>9 DEF Placed, NewlyBlocked
  <2>14. all_threads_' \subseteq Tid /\ blocked_tids_' \subseteq Tid
    BY <2>1, <2>5, <2>13
  <2> QED
    BY <2>6, <2>7, <2>10, <2>11, <2>12, <2>13, <2>14 DEF OnePlace, Asleep
<1> QED
  BY <1>2, <1>3

\* In a live process OnePlace is Placed of the current tables.
LEMMA PlacedNow ==
  ASSUME TypeOK, OnePlace, ~ Over
  PROVE  Placed(status_, sleepers_)
BY DEF OnePlace, Placed, Asleep, TypeOK

\* A step that moves one thread t, and only it, between the places.
LEMMA MovePlaces ==
  ASSUME TypeOK, OnePlace, ~ Over, NEW t \in Tid \ {0},
         status_' \in [Tid -> Status],
         \A u \in Tid \ {t} : status_'[u] = status_[u],
         ready_tids_' \in Seq(Tid), IsInjective(ready_tids_'),
         Ready' \ {t} = Ready \ {t}, blocked_tids_' \ {t} = blocked_tids_ \ {t},
         all_threads_' \ {t} = all_threads_ \ {t}, UNCHANGED sleepers_,
         t \in Ready' <=> status_'[t] = "READY",
         sleepers_[t] >= 0 <=> status_'[t] = "ASLEEP",
         t \in blocked_tids_' /\ ~ (sleepers_[t] >= 0) <=> status_'[t] = "BLOCKED",
         t \in all_threads_' <=> status_'[t] # "TERMINATED",
         t \in blocked_tids_' => t \in all_threads_'
  PROVE  OnePlace'
<1>1. Placed(status_, sleepers_)
  BY PlacedNow
<1>2. ASSUME NEW u \in Tid
      PROVE  /\ u \in Ready' <=> status_'[u] = "READY"
             /\ sleepers_'[u] >= 0 <=> status_'[u] = "ASLEEP"
             /\ u \in blocked_tids_' /\ ~ (sleepers_'[u] >= 0) <=> status_'[u] = "BLOCKED"
             /\ u \in all_threads_' <=> status_'[u] # "TERMINATED"
  <2>1. CASE u = t
    BY <2>1
  <2>2. CASE u # t
    BY <1>1, <2>2 DEF Placed
  <2> QED
    BY <2>1, <2>2
<1>3. Ready' \subseteq Tid
  BY ToSetType DEF Ready
<1>4. blocked_tids_' \subseteq all_threads_' \ {0} /\ all_threads_' \subseteq Tid
  BY <1>1 DEF Placed, TypeOK
<1> QED
  BY <1>2, <1>3, <1>4 DEF OnePlace, Asleep

\* Steps that move nobody.
LEMMA FramePlaces ==
  ASSUME OnePlace, ~ Over,
         UNCHANGED <<all_threads_, status_, queues>>
  PROVE  OnePlace'
BY DEF OnePlace, Over, Asleep, Ready, queues

\* What uthread_sleep leaves for switch_threads: the running thread asleep.
LEMMA SleepPlaced ==
  ASSUME SchedulerInv, OnePlace, at = "user", NEW num_quantums \in 0 .. MAX_SLEEP,
         NEW st, st = [status_ EXCEPT ![running_tid_] = "ASLEEP"],
         NEW sl, sl = Emplace(running_tid_, num_quantums)
  PROVE  /\ st \in [Tid -> Status] /\ sl \in [Tid -> -1 .. MAX_SLEEP]
         /\ Placed(st, sl)
         /\ \A t \in Tid : st[t] \notin {"RUNNING", "MAIN"}
<1> USE TypesOf
<1>1. TypeOK /\ ~ Over
  BY DEF SchedulerInv, Over
<1>2. Placed(status_, sleepers_)
  BY <1>1, PlacedNow
<1>3. /\ running_tid_ \in all_threads_
      /\ status_[running_tid_] \in {"RUNNING", "MAIN"}
      /\ \A t \in Tid \ {running_tid_} : status_[t] \notin {"RUNNING", "MAIN"}
  BY <1>1 DEF SchedulerInv, OneRunning
<1>4. sleepers_[running_tid_] = -1 /\ running_tid_ \notin blocked_tids_
  <2>1. ~ (sleepers_[running_tid_] >= 0)
    BY <1>1, <1>2, <1>3 DEF Placed
  <2> QED
    BY <1>1, <1>2, <1>3, <2>1 DEF Placed
<1>5. /\ st \in [Tid -> Status]
      /\ \A t \in Tid : st[t] = IF t = running_tid_ THEN "ASLEEP" ELSE status_[t]
  BY <1>1 DEF Status
<1>6. /\ sl \in [Tid -> -1 .. MAX_SLEEP]
      /\ \A t \in Tid : sl[t] = IF t = running_tid_ THEN num_quantums ELSE sleepers_[t]
  BY <1>1, <1>4 DEF Emplace
<1>7. ASSUME NEW t \in Tid
      PROVE  /\ t \in Ready <=> st[t] = "READY"
             /\ sl[t] >= 0 <=> st[t] = "ASLEEP"
             /\ t \in blocked_tids_ /\ ~ (sl[t] >= 0) <=> st[t] = "BLOCKED"
             /\ t \in all_threads_ <=> st[t] # "TERMINATED"
  BY <1>2, <1>3, <1>4, <1>5, <1>6 DEF Placed
<1>8. /\ IsInjective(ready_tids_) /\ blocked_tids_ \subseteq all_threads_ \ {0}
      /\ Ready \subseteq Tid
  BY <1>2 DEF Placed
<1>9. Placed(st, sl)
  BY <1>7, <1>8 DEF Placed
<1> QED
  BY <1>3, <1>5, <1>6, <1>9

\* The step terminates no thread that is asleep.
SparesSleeping == \A t \in all_threads_ : status_[t] = "ASLEEP" => t \in all_threads_'

\* Every step of the library preserves OnePlace, given the discipline, be it
\* every client's or this step's.
LEMMA NextPlaces ==
  ASSUME KillsSleepers => SparesSleeping, "leave" \notin WindowTicks,
         SchedulerInv, OnePlace, Next
  PROVE  OnePlace'
<1> USE TypesOf
<1>0. TypeOK
  BY DEF SchedulerInv
<1>1. ASSUME startRunning
      PROVE  OnePlace'
  BY <1>1, FramePlaces DEF startRunning, Over
<1>2. ASSUME timer_handler
      PROVE  OnePlace'
  <2>1. /\ at \in {"user", "jump", "counted"}
        /\ \E ret \in Ret : switch_threads("READY", ret, status_, sleepers_)
    BY <1>2 DEF timer_handler, Ret
  <2>2. ~ Over
    BY <2>1 DEF Over
  <2>3. Placed(status_, sleepers_)
    BY <1>0, <2>2, PlacedNow
  <2>4. \A t \in Tid \ {running_tid_} : status_[t] \notin {"RUNNING", "MAIN"}
    BY <2>1 DEF SchedulerInv, OneRunning
  <2>5. running_tid_ \in all_threads_ => status_[running_tid_] \in {"RUNNING", "MAIN"}
    BY <1>0, <2>1 DEF SchedulerInv, OneRunning
  <2> QED
    BY <1>0, <2>1, <2>2, <2>3, <2>4, <2>5, SwitchPlaces
<1>3. ASSUME leave
      PROVE  OnePlace'
  <2>1. ~ Over /\ running_tid_ # 0
    BY <1>3 DEF leave, Over, SchedulerInv, OneRunning, IdsPartition
  <2>2. \A t \in Tid : status_[t] \notin {"RUNNING", "MAIN"}
    BY <1>3 DEF leave, SchedulerInv, OneRunning
  <2>3. Placed(status_, sleepers_)
    BY <1>0, <2>1, PlacedNow
  <2> QED
    BY <1>0, <1>3, <2>1, <2>2, <2>3, SwitchPlaces DEF leave
<1>4. ASSUME NEW entry_point, uthread_spawn(entry_point)
      PROVE  OnePlace'
  <2>1. at = "user" /\ ~ Over
    BY <1>4 DEF uthread_spawn, Over
  <2>2. CASE Refuse
    BY <2>1, <2>2, FramePlaces DEF Refuse, objects
  <2>3. CASE Exit
    BY <2>3 DEF Exit, OnePlace, Over
  <2>4. CASE ~ Refuse /\ ~ Exit
    <3>1. PICK tid \in Tid :
             /\ IsFirstFree(tid)
             /\ all_threads_' = all_threads_ \cup {tid}
             /\ status_' = [status_ EXCEPT ![tid] = "READY"]
             /\ ready_tids_' = Append(ready_tids_, tid)
             /\ UNCHANGED <<sleepers_, blocked_tids_, control>>
      BY <1>4, <2>4 DEF uthread_spawn
    <3>2. tid \in Tid \ {0} /\ tid \notin all_threads_
      BY <3>1 DEF IsFirstFree, SchedulerInv, IdsPartition
    <3>3. Placed(status_, sleepers_)
      BY <1>0, <2>1, PlacedNow
    <3>4. tid \notin Ready /\ tid \notin blocked_tids_ /\ ~ (sleepers_[tid] >= 0)
      BY <3>2, <3>3 DEF Placed
    <3>5. ready_tids_' \in Seq(Tid) /\ Ready' = Ready \cup {tid} /\ IsInjective(ready_tids_')
      BY <1>0, <3>1, <3>3, <3>4, ToSetAppend, InjectiveAppend DEF Ready, Placed
    <3>6. /\ status_' \in [Tid -> Status] /\ status_'[tid] = "READY"
          /\ \A u \in Tid \ {tid} : status_'[u] = status_[u]
      BY <1>0, <3>1 DEF Status
    <3> QED
      BY <1>0, <2>1, <3>1, <3>2, <3>4, <3>5, <3>6, MovePlaces
  <2> QED
    BY <2>2, <2>3, <2>4
<1>5. ASSUME NEW tid \in Tid, uthread_terminate(tid)
      PROVE  OnePlace'
  <2>1. at = "user" /\ ~ Over
    BY <1>5 DEF uthread_terminate, Over
  <2>2. CASE Refuse
    BY <2>1, <2>2, FramePlaces DEF Refuse, objects
  <2>3. CASE Exit
    BY <2>3 DEF Exit, OnePlace, Over
  <2>4. CASE ~ Refuse /\ ~ Exit
    <3>1. /\ tid \in Tid \ {0} /\ tid \in all_threads_
          /\ status_[tid] # "ASLEEP"
          /\ all_threads_' = all_threads_ \ {tid}
          /\ status_' = [status_ EXCEPT ![tid] = "TERMINATED"]
          /\ Unlink(tid)
      BY <1>5, <2>4 DEF uthread_terminate, Exists, Delete, SparesSleeping
    <3>2. Placed(status_, sleepers_)
      BY <1>0, <2>1, PlacedNow
    <3>3. ~ (sleepers_[tid] >= 0) /\ UNCHANGED sleepers_
      BY <3>1, <3>2 DEF Placed, Unlink
    <3>4. tid \notin blocked_tids_' /\ blocked_tids_' \ {tid} = blocked_tids_ \ {tid}
      BY <3>1, <3>2, <3>3 DEF Placed, Unlink
    <3>5. /\ ready_tids_' \in Seq(Tid) /\ IsInjective(ready_tids_')
          /\ Ready' \ {tid} = Ready \ {tid} /\ tid \notin Ready'
      <4>1. CASE status_[tid] = "READY"
        <5>1. tid \in ToSet(ready_tids_) /\ IsInjective(ready_tids_)
          BY <3>2, <4>1 DEF Placed, Ready
        <5>2. ready_tids_' = RemoveFirst(ready_tids_, tid)
          BY <3>1, <4>1 DEF Unlink
        <5> QED
          BY <1>0, <5>1, <5>2, RemoveFirstKeeps, InjectiveRemove DEF Ready
      <4>2. CASE status_[tid] # "READY"
        BY <1>0, <3>1, <3>2, <4>2 DEF Placed, Unlink, Ready
      <4> QED
        BY <4>1, <4>2
    <3>6. /\ status_' \in [Tid -> Status] /\ status_'[tid] = "TERMINATED"
          /\ \A u \in Tid \ {tid} : status_'[u] = status_[u]
      BY <1>0, <3>1 DEF Status
    <3> QED
      BY <1>0, <2>1, <3>1, <3>3, <3>4, <3>5, <3>6, MovePlaces
  <2> QED
    BY <2>2, <2>3, <2>4
<1>6. ASSUME NEW tid \in Tid, uthread_block(tid)
      PROVE  OnePlace'
  <2>1. at = "user" /\ ~ Over
    BY <1>6 DEF uthread_block, Over
  <2>2. Placed(status_, sleepers_)
    BY <1>0, <2>1, PlacedNow
  <2>3. CASE Unblockable(tid)
    BY <1>6, <2>1, <2>3, FramePlaces DEF uthread_block, Refuse, objects
  <2>4. CASE ~ Unblockable(tid) /\ status_[tid] = "RUNNING"
    <3>1. tid = running_tid_ /\ running_tid_ # 0
      BY <2>1, <2>4 DEF SchedulerInv, OneRunning, Unblockable
    <3>2. switch_threads("BLOCKED", "uthread_block", status_, sleepers_)
      BY <1>6, <2>4 DEF uthread_block
    <3>3. \A t \in Tid \ {running_tid_} : status_[t] \notin {"RUNNING", "MAIN"}
      BY <2>1 DEF SchedulerInv, OneRunning
    <3> QED
      BY <1>0, <2>1, <2>2, <2>4, <3>1, <3>2, <3>3, SwitchPlaces
  <2>5. CASE ~ Unblockable(tid) /\ status_[tid] = "READY"
    <3>1. /\ ready_tids_' = RemoveFirst(ready_tids_, tid)
          /\ blocked_tids_' = blocked_tids_ \cup {tid}
          /\ status_' = [status_ EXCEPT ![tid] = "BLOCKED"]
          /\ UNCHANGED <<objects, sleepers_, control>>
      BY <1>6, <2>5 DEF uthread_block
    <3>2. tid \in ToSet(ready_tids_) /\ IsInjective(ready_tids_)
      BY <2>2, <2>5 DEF Placed, Ready
    <3>3. /\ ready_tids_' \in Seq(Tid) /\ IsInjective(ready_tids_')
          /\ Ready' = Ready \ {tid}
      BY <1>0, <3>1, <3>2, RemoveFirstKeeps, InjectiveRemove DEF Ready
    <3>4. tid \in Tid \ {0} /\ tid \in all_threads_ /\ ~ (sleepers_[tid] >= 0)
      BY <2>2, <2>5 DEF Placed, Unblockable, Exists
    <3>5. /\ status_' \in [Tid -> Status] /\ status_'[tid] = "BLOCKED"
          /\ \A u \in Tid \ {tid} : status_'[u] = status_[u]
      BY <1>0, <3>1 DEF Status
    <3> QED
      BY <1>0, <2>1, <3>1, <3>3, <3>4, <3>5, MovePlaces DEF objects
  <2>6. CASE ~ Unblockable(tid) /\ status_[tid] \in {"ASLEEP", "BLOCKED"}
    <3>1. /\ blocked_tids_' = IF status_[tid] = "ASLEEP" THEN blocked_tids_ \cup {tid}
                              ELSE blocked_tids_
          /\ UNCHANGED <<objects, status_, sleepers_, ready_tids_, control>>
      BY <1>6, <2>6 DEF uthread_block
    <3>2. /\ tid \in Tid \ {0} /\ tid \in all_threads_
          /\ status_[tid] = "ASLEEP" <=> sleepers_[tid] >= 0
          /\ status_[tid] = "BLOCKED" <=> tid \in blocked_tids_ /\ ~ (sleepers_[tid] >= 0)
          /\ status_[tid] = "READY" <=> tid \in Ready
          /\ IsInjective(ready_tids_)
      BY <2>2, <2>6 DEF Placed, Unblockable, Exists
    <3>3. Ready' = Ready
      BY <3>1 DEF Ready
    <3> QED
      BY <1>0, <2>1, <2>6, <3>1, <3>2, <3>3, MovePlaces DEF objects
  <2> QED
    BY <1>6, <2>3, <2>4, <2>5, <2>6 DEF uthread_block
<1>7. ASSUME NEW tid \in Tid, uthread_resume(tid)
      PROVE  OnePlace'
  <2>1. at = "user" /\ ~ Over
    BY <1>7 DEF uthread_resume, Over
  <2>2. Placed(status_, sleepers_)
    BY <1>0, <2>1, PlacedNow
  <2>3. CASE ~ Exists(tid)
    BY <1>7, <2>1, <2>3, FramePlaces DEF uthread_resume, Refuse, objects
  <2>4. CASE Exists(tid) /\ status_[tid] \notin {"BLOCKED", "ASLEEP"}
    BY <1>7, <2>1, <2>4, FramePlaces DEF uthread_resume, objects, queues
  <2>5. CASE Exists(tid) /\ status_[tid] \in {"BLOCKED", "ASLEEP"}
    <3>1. /\ tid \in all_threads_
          /\ blocked_tids_' = blocked_tids_ \ {tid}
          /\ IF status_[tid] = "BLOCKED"
             THEN /\ ready_tids_' = Append(ready_tids_, tid)
                  /\ status_' = [status_ EXCEPT ![tid] = "READY"]
             ELSE UNCHANGED <<ready_tids_, status_>>
          /\ UNCHANGED <<objects, sleepers_, control>>
      BY <1>7, <2>5 DEF uthread_resume, Exists
    <3>2. /\ status_[tid] = "ASLEEP" <=> sleepers_[tid] >= 0
          /\ status_[tid] = "BLOCKED" <=> tid \in blocked_tids_ /\ ~ (sleepers_[tid] >= 0)
          /\ status_[tid] = "READY" <=> tid \in Ready
          /\ IsInjective(ready_tids_)
      BY <2>2 DEF Placed
    <3>3. CASE status_[tid] = "BLOCKED"
      <4>1. tid \in Tid \ {0}
        BY <2>2, <3>2, <3>3 DEF Placed
      <4>2. tid \notin Ready
        BY <3>2, <3>3
      <4>3. ready_tids_' \in Seq(Tid) /\ Ready' = Ready \cup {tid} /\ IsInjective(ready_tids_')
        <5>1. ready_tids_' = Append(ready_tids_, tid)
          BY <3>1, <3>3
        <5>2. ready_tids_ \in Seq(Tid) /\ IsInjective(ready_tids_) /\ tid \notin ToSet(ready_tids_)
          BY <1>0, <3>2, <4>2 DEF Ready
        <5>3. Append(ready_tids_, tid) \in Seq(Tid)
          BY <5>2
        <5>4. ToSet(Append(ready_tids_, tid)) = ToSet(ready_tids_) \cup {tid}
          BY <5>2, ToSetAppend
        <5>5. IsInjective(Append(ready_tids_, tid))
          BY <5>2, InjectiveAppend
        <5> QED
          BY <5>1, <5>3, <5>4, <5>5 DEF Ready
      <4>4. /\ status_' \in [Tid -> Status] /\ status_'[tid] = "READY"
            /\ \A u \in Tid \ {tid} : status_'[u] = status_[u]
        BY <1>0, <3>1, <3>3 DEF Status
      <4> QED
        BY <1>0, <2>1, <3>1, <3>2, <3>3, <4>1, <4>3, <4>4, MovePlaces DEF objects
    <3>4. CASE status_[tid] = "ASLEEP"
      <4>1. CASE tid = 0
        <5>1. blocked_tids_' = blocked_tids_
          BY <2>2, <3>1, <4>1 DEF Placed
        <5> QED
          BY <2>1, <3>1, <3>4, <5>1, FramePlaces DEF objects, queues
      <4>2. CASE tid # 0
        <5>1. Ready' = Ready
          BY <3>1, <3>4 DEF Ready
        <5> QED
          BY <1>0, <2>1, <3>1, <3>2, <3>4, <4>2, <5>1, MovePlaces DEF objects
      <4> QED
        BY <4>1, <4>2
    <3> QED
      BY <2>5, <3>3, <3>4
  <2> QED
    BY <2>3, <2>4, <2>5
<1>8. ASSUME NEW tid \in Tid, uthread_get_quantums(tid)
      PROVE  OnePlace'
  BY <1>8, FramePlaces DEF uthread_get_quantums, Over, objects
<1>9. ASSUME NEW num_quantums \in -1 .. MAX_SLEEP, uthread_sleep(num_quantums)
      PROVE  OnePlace'
  <2>1. at = "user" /\ ~ Over
    BY <1>9 DEF uthread_sleep, Over
  <2>2. CASE Refuse
    BY <2>1, <2>2, FramePlaces DEF Refuse, objects
  <2>3. CASE ~ Refuse
    <3> DEFINE st == [status_ EXCEPT ![running_tid_] = "ASLEEP"]
               sl == Emplace(running_tid_, num_quantums)
    <3>1. /\ running_tid_ # 0 /\ num_quantums >= 0
          /\ switch_threads("ASLEEP", "uthread_sleep", st, sl)
      BY <1>9, <2>3 DEF uthread_sleep
    <3>2. num_quantums \in 0 .. MAX_SLEEP
      BY <3>1
    <3>3. /\ st \in [Tid -> Status] /\ sl \in [Tid -> -1 .. MAX_SLEEP]
          /\ Placed(st, sl)
          /\ \A t \in Tid : st[t] \notin {"RUNNING", "MAIN"}
      BY <2>1, <3>2, SleepPlaced
    <3> HIDE DEF st, sl
    <3> QED
      BY <1>0, <2>1, <3>1, <3>3, SwitchPlaces
  <2> QED
    BY <2>2, <2>3
<1>10. ASSUME Done
       PROVE  OnePlace'
  BY <1>10 DEF Done, OnePlace, Over, vars, control
<1> QED
  BY <1>1, <1>2, <1>3, <1>4, <1>5, <1>6, <1>7, <1>8, <1>9, <1>10 DEF Next

\* uthread_init puts main in its place.
LEMMA InitPlaces == Init => OnePlace
<1> SUFFICES ASSUME Init PROVE OnePlace
  OBVIOUS
<1>1. IsInjective(<<>>) /\ ToSet(<<>>) = {}
  BY DEF IsInjective, ToSet
<1>2. 0 \in Tid
  BY ThreadsAssumption DEF Tid
<1> QED
  BY <1>1, <1>2 DEF Init, OnePlace, Ready, Asleep

\* If no client terminates a sleeping thread, every thread is always in exactly
\* one place, whatever else clients do and wherever the timer expires, also before
\* a jump, but for the switch that uthread_terminate makes with the mask open: an
\* expiry between lines 262 and 264 there queues the thread that is to run again.
THEOREM EveryThreadInOnePlace ==
  ASSUME ~ KillsSleepers, "leave" \notin WindowTicks
  PROVE  Spec => []OnePlace
<1>1. Init => OnePlace
  BY InitPlaces
<1>2. SchedulerInv /\ OnePlace /\ [Next]_vars => OnePlace'
  <2>1. SchedulerInv /\ OnePlace /\ Next => OnePlace'
    BY NextPlaces
  <2>2. OnePlace /\ UNCHANGED vars => OnePlace'
    BY DEF OnePlace, Over, Ready, Asleep, vars, queues, control, objects
  <2> QED
    BY <2>1, <2>2
<1> QED
  BY <1>1, <1>2, SchedulerInvariant, PTL DEF Spec

\* Then a thread that is gone is in no control structure any more (uthreads.h:46):
\* apart from an expiry in uthread_terminate's own switch, which may leave a thread
\* queued twice, sleepers are the only ones uthread_terminate forgets.
THEOREM DeletedUnlessAsleep ==
  ASSUME ~ KillsSleepers, "leave" \notin WindowTicks
  PROVE  Spec => []DeletedEverywhere
<1>1. OnePlace => DeletedEverywhere
  BY DEF OnePlace, DeletedEverywhere
<1> QED
  BY <1>1, EveryThreadInOnePlace, PTL

-----------------------------------------------------------------------------
(* The order of the ready queue *)

\* What NoOvertaking says of a step.
InTurn ==
  \A t \in Ready : t \in Ready' =>
    /\ Before(ready_tids_', t) \subseteq Before(ready_tids_, t)
    /\ running_tid_' # running_tid_ => running_tid_' \in Before(ready_tids_, t)

\* A switch lets the front of the queue run, and pushes behind it.
LEMMA SwitchInTurn ==
  ASSUME SchedulerInv, ~ Over,
         NEW to \in {"READY", "BLOCKED", "ASLEEP", "TERMINATED"}, NEW ret,
         NEW st \in [Tid -> Status], NEW sl \in [Tid -> -1 .. MAX_SLEEP],
         Placed(st, sl),
         to \in {"READY", "BLOCKED"} /\ running_tid_ \in all_threads_
            => st[running_tid_] \in {"RUNNING", "MAIN"},
         switch_threads(to, ret, st, sl)
  PROVE  InTurn
<1>1. TypeOK /\ running_tid_ \in Tid /\ ready_tids_ \in Seq(Tid)
  BY DEF SchedulerInv, TypeOK
<1>2. PICK woken \in Ascending(Awake(sl)) :
        \/ /\ Dereferenced(to, sl, Enqueued(woken, to)) \subseteq all_threads_
           /\ insert_ready_to_running(Enqueued(woken, to),
                                      OutgoingStatus(to, WakeStatus(st, sl)))
        \/ Crash
  BY DEF switch_threads
<1>3. CASE Crash
  BY <1>3 DEF Crash, queues, InTurn
<1>4. ASSUME Dereferenced(to, sl, Enqueued(woken, to)) \subseteq all_threads_,
             insert_ready_to_running(Enqueued(woken, to),
                                     OutgoingStatus(to, WakeStatus(st, sl))),
             NEW t \in Ready, t \in Ready'
      PROVE  /\ Before(ready_tids_', t) \subseteq Before(ready_tids_, t)
             /\ running_tid_' \in Before(ready_tids_, t)
  <2> DEFINE queue == Enqueued(woken, to)
             out == OutgoingStatus(to, WakeStatus(st, sl))
  <2>1. queue = Enqueued(woken, to)
    OBVIOUS
  <2>2. insert_ready_to_running(queue, out)
    BY <1>4
  <2> HIDE DEF queue, out
  <2>3. /\ to # "TERMINATED" => running_tid_ \in all_threads_
        /\ to \in {"READY", "BLOCKED"} => st[running_tid_] \in {"RUNNING", "MAIN"}
    BY <1>4 DEF Dereferenced
  <2>4. queue \in Seq(Tid) /\ IsInjective(queue)
    BY <1>1, <2>1, <2>3, QueueOfThreads
  <2>5. queue # <<>>
    <3>1. CASE queue = <<>>
      <4>1. Ready' = {}
        BY <2>2, <3>1 DEF insert_ready_to_running, Ready, ToSet
      <4> QED
        BY <1>4, <4>1
    <3> QED
      BY <3>1
  <2>6. running_tid_' = Head(queue) /\ ready_tids_' = Tail(queue)
    BY <2>2, <2>5 DEF insert_ready_to_running, NextTid
  <2>7. t \in ToSet(Tail(queue))
    BY <1>4, <2>6 DEF Ready
  <2>8. /\ Before(Tail(queue), t) \subseteq Before(queue, t)
        /\ Head(queue) \in Before(queue, t)
    BY ONLY <2>4, <2>5, <2>7, BeforeTail, FrontBefore
  <2>9. st[t] = "READY" /\ sl[t] # 0 /\ t \in Tid
    BY <1>4 DEF Placed
  <2>10. woken \in Seq(Tid) /\ t \notin ToSet(woken)
    <3>1. woken \in Seq(Tid) /\ ToSet(woken) = Awake(sl)
      BY AscendingType DEF Awake, Due
    <3> QED
      BY <2>9, <3>1 DEF Awake, Due
  <2>11. Requeued(to) \in Seq(Tid) /\ t \notin ToSet(Requeued(to))
    <3>1. CASE to = "READY"
      <4>1. Requeued(to) \in Seq(Tid) /\ ToSet(Requeued(to)) = {running_tid_}
        BY <1>1, <3>1 DEF Requeued, ToSet
      <4> QED
        BY <2>3, <2>9, <3>1, <4>1
    <3>2. CASE to # "READY"
      BY <3>2 DEF Requeued, ToSet
    <3> QED
      BY <3>1, <3>2
  <2>12. ready_tids_ \o woken \in Seq(Tid)
    BY <1>1, <2>10, ConcatProperties
  <2>13. Before(ready_tids_ \o woken, t) \subseteq Before(ready_tids_, t)
    BY ONLY <1>1, <2>10, BeforeConcat
  <2>14. Before(queue, t) \subseteq Before(ready_tids_ \o woken, t)
    BY ONLY <2>1, <2>11, <2>12, BeforeConcat DEF Enqueued
  <2> QED
    BY <2>6, <2>8, <2>13, <2>14
<1> QED
  BY <1>2, <1>3, <1>4 DEF InTurn

\* A call that leaves the queue and the running thread alone.
LEMMA FrameInTurn ==
  ASSUME UNCHANGED <<ready_tids_, running_tid_>>
  PROVE  InTurn
BY DEF InTurn

\* A call that pushes a thread which is not in the queue.
LEMMA PushInTurn ==
  ASSUME TypeOK, NEW e \in Tid, e \notin Ready,
         ready_tids_' = Append(ready_tids_, e), UNCHANGED running_tid_
  PROVE  InTurn
<1>1. ready_tids_ \in Seq(Tid) /\ <<e>> \in Seq(Tid)
  BY DEF TypeOK
<1>2. ready_tids_' = ready_tids_ \o <<e>>
  BY <1>1, AppendIsConcat
<1>3. ASSUME NEW t \in Ready
      PROVE  Before(ready_tids_', t) \subseteq Before(ready_tids_, t)
  <2>1. t \notin ToSet(<<e>>)
    BY <1>3 DEF ToSet
  <2> QED
    BY ONLY <1>1, <1>2, <2>1, BeforeConcat
<1> QED
  BY <1>3 DEF InTurn

\* A call that takes a thread out of the queue.
LEMMA EraseInTurn ==
  ASSUME TypeOK, NEW e, ready_tids_' = RemoveFirst(ready_tids_, e), UNCHANGED running_tid_
  PROVE  InTurn
<1>1. ready_tids_ \in Seq(Tid)
  BY DEF TypeOK
<1>2. \A t : Before(ready_tids_', t) \subseteq Before(ready_tids_, t)
  BY <1>1, BeforeRemove
<1> QED
  BY <1>2 DEF InTurn

\* Every step is in turn, if each thread is in one place and uthread_terminate is
\* not interrupted.
LEMMA NextInTurn ==
  ASSUME "leave" \notin WindowTicks, SchedulerInv, OnePlace, [Next]_vars
  PROVE  InTurn
<1>0. TypeOK
  BY DEF SchedulerInv
<1> USE TypesOf, <1>0
<1>1. CASE startRunning
  BY <1>1, FrameInTurn DEF startRunning, queues
<1>2. CASE timer_handler
  <2>1. /\ at \in {"user", "jump", "counted"}
        /\ \E ret \in Ret : switch_threads("READY", ret, status_, sleepers_)
    BY <1>2 DEF timer_handler, Ret
  <2>2. ~ Over
    BY <2>1 DEF Over
  <2>3. Placed(status_, sleepers_)
    BY <2>2, PlacedNow
  <2>4. running_tid_ \in all_threads_ => status_[running_tid_] \in {"RUNNING", "MAIN"}
    BY <2>1 DEF SchedulerInv, OneRunning
  <2> QED
    BY <2>1, <2>2, <2>3, <2>4, SwitchInTurn
<1>3. CASE leave
  <2>1. /\ at = "leave" /\ ~ Over
        /\ switch_threads("TERMINATED", "uthread_terminate", status_, sleepers_)
    BY <1>3 DEF leave, Over
  <2>2. Placed(status_, sleepers_)
    BY <2>1, PlacedNow
  <2> QED
    BY <2>1, <2>2, SwitchInTurn
<1>4. ASSUME at = "user"
      PROVE  /\ ~ Over /\ Placed(status_, sleepers_)
             /\ running_tid_ \in all_threads_
             /\ status_[running_tid_] \in {"RUNNING", "MAIN"}
  <2>1. ~ Over
    BY <1>4 DEF Over
  <2>2. running_tid_ \in all_threads_ /\ status_[running_tid_] \in {"RUNNING", "MAIN"}
    BY <1>4 DEF SchedulerInv, OneRunning
  <2> QED
    BY <2>1, <2>2, PlacedNow
<1>5. ASSUME NEW entry_point, uthread_spawn(entry_point)
      PROVE  InTurn
  <2>1. CASE Refuse \/ Exit
    BY <2>1, FrameInTurn DEF Refuse, Exit, queues, control
  <2>2. CASE ~ Refuse /\ ~ Exit
    <3>1. PICK tid \in Tid :
            /\ IsFirstFree(tid)
            /\ ready_tids_' = Append(ready_tids_, tid)
            /\ UNCHANGED control
      BY <1>5, <2>2 DEF uthread_spawn
    <3>2. tid \notin all_threads_ /\ at = "user"
      BY <1>5, <3>1 DEF IsFirstFree, SchedulerInv, IdsPartition, uthread_spawn
    <3>3. tid \notin Ready
      BY <1>4, <3>2 DEF Placed
    <3> QED
      BY <3>1, <3>3, PushInTurn DEF control
  <2> QED
    BY <2>1, <2>2
<1>6. ASSUME NEW tid \in Tid, uthread_terminate(tid)
      PROVE  InTurn
  <2>1. CASE Refuse \/ Exit
    BY <2>1, FrameInTurn DEF Refuse, Exit, queues, control
  <2>2. CASE ~ Refuse /\ ~ Exit
    <3>1. Unlink(tid) /\ UNCHANGED running_tid_
      BY <1>6, <2>2 DEF uthread_terminate
    <3> QED
      BY <3>1, FrameInTurn, EraseInTurn DEF Unlink
  <2> QED
    BY <2>1, <2>2
<1>7. ASSUME NEW tid \in Tid, uthread_block(tid)
      PROVE  InTurn
  <2>1. at = "user"
    BY <1>7 DEF uthread_block
  <2>2. CASE switch_threads("BLOCKED", "uthread_block", status_, sleepers_)
    BY <1>4, <2>1, <2>2, SwitchInTurn
  <2>3. CASE ready_tids_' = RemoveFirst(ready_tids_, tid) /\ UNCHANGED control
    BY <2>3, EraseInTurn DEF control
  <2>4. CASE UNCHANGED <<ready_tids_, control>>
    BY <2>4, FrameInTurn DEF control
  <2> QED
    BY <1>7, <2>2, <2>3, <2>4 DEF uthread_block, Refuse, queues
<1>8. ASSUME NEW tid \in Tid, uthread_resume(tid)
      PROVE  InTurn
  <2>1. at = "user"
    BY <1>8 DEF uthread_resume
  <2>2. CASE /\ status_[tid] = "BLOCKED" /\ ready_tids_' = Append(ready_tids_, tid)
             /\ UNCHANGED control
    <3>1. tid \notin Ready
      BY <1>4, <2>1, <2>2 DEF Placed
    <3> QED
      BY <2>2, <3>1, PushInTurn DEF control
  <2>3. CASE UNCHANGED <<ready_tids_, control>>
    BY <2>3, FrameInTurn DEF control
  <2> QED
    BY <1>8, <2>2, <2>3 DEF uthread_resume, Refuse, queues
<1>9. ASSUME NEW tid \in Tid, uthread_get_quantums(tid)
      PROVE  InTurn
  BY <1>9, FrameInTurn DEF uthread_get_quantums, queues, control
<1>10. ASSUME NEW num_quantums \in -1 .. MAX_SLEEP, uthread_sleep(num_quantums)
       PROVE  InTurn
  <2>1. at = "user" /\ ~ Over
    BY <1>10 DEF uthread_sleep, Over
  <2>2. CASE Refuse
    BY <2>2, FrameInTurn DEF Refuse, queues, control
  <2>3. CASE ~ Refuse
    <3> DEFINE st == [status_ EXCEPT ![running_tid_] = "ASLEEP"]
               sl == Emplace(running_tid_, num_quantums)
    <3>1. num_quantums >= 0 /\ switch_threads("ASLEEP", "uthread_sleep", st, sl)
      BY <1>10, <2>3 DEF uthread_sleep
    <3>2. num_quantums \in 0 .. MAX_SLEEP
      BY <3>1
    <3>3. /\ st \in [Tid -> Status] /\ sl \in [Tid -> -1 .. MAX_SLEEP]
          /\ Placed(st, sl)
      BY <2>1, <3>2, SleepPlaced
    <3> HIDE DEF st, sl
    <3> QED
      BY <2>1, <3>1, <3>3, SwitchInTurn
  <2> QED
    BY <2>2, <2>3
<1>11. CASE UNCHANGED vars
  BY <1>11, FrameInTurn DEF vars, queues, control
<1> QED
  BY <1>1, <1>2, <1>3, <1>5, <1>6, <1>7, <1>8, <1>9, <1>10, <1>11 DEF Next, Done

\* If no client terminates a sleeping thread, the ready queue is round robin: a
\* waiting thread is overtaken by nobody, and only those in front of it run
\* before it does.  The timer may expire before a jump too, but not in the switch
\* uthread_terminate makes: there it may put the front of the queue at its end.
THEOREM RoundRobin ==
  ASSUME ~ KillsSleepers, "leave" \notin WindowTicks
  PROVE  Spec => NoOvertaking
<1> DEFINE A == \A t \in Ready : t \in Ready' =>
                  /\ Ahead(t)' \subseteq Ahead(t)
                  /\ running_tid_' # running_tid_ => running_tid_' \in Ahead(t)
<1>1. SchedulerInv /\ OnePlace /\ [Next]_vars => [A]_vars
  <2>1. SchedulerInv /\ OnePlace /\ [Next]_vars => InTurn
    BY NextInTurn
  <2>2. InTurn => A
    BY DEF InTurn, Before, Ahead
  <2> QED
    BY <2>1, <2>2
<1>2. NoOvertaking <=> [][A]_vars
  BY DEF NoOvertaking
<1>3. Spec => []OnePlace
  BY EveryThreadInOnePlace
<1> HIDE DEF A
<1> QED
  BY <1>1, <1>2, <1>3, SchedulerInvariant, PTL DEF Spec

=============================================================================
