---------------------- MODULE UThreadsRefinement_proofs ----------------------
(***************************************************************************)
(* uthreads.cpp implements uthreads.h, for every number of threads and     *)
(* every bound on sleeps and counters, as long as the timer does not       *)
(* expire in the windows and no client terminates a sleeping thread.       *)
(***************************************************************************)
EXTENDS UThreadsRefinement, UThreadsContexts_proofs

-----------------------------------------------------------------------------
(* Counting quanta modulo INT_RANGE *)

\* The number of the quantum n quanta after quantum q.
LEMMA After ==
  ASSUME NEW q \in 0 .. INT_RANGE - 1, NEW n \in 0 .. INT_RANGE - 1
  PROVE  (q + n) % INT_RANGE = IF q + n < INT_RANGE THEN q + n ELSE q + n - INT_RANGE
<1>1. INT_RANGE \in Nat \ {0} /\ q + n \in Int
  BY RangeAssumption
<1>2. /\ (q + n) % INT_RANGE \in 0 .. INT_RANGE - 1
      /\ (q + n) \div INT_RANGE \in Int
      /\ q + n = INT_RANGE * ((q + n) \div INT_RANGE) + ((q + n) % INT_RANGE)
  BY <1>1
<1> DEFINE d == (q + n) \div INT_RANGE
           m == (q + n) % INT_RANGE
<1> HIDE DEF d, m
<1>3. d \in Int /\ m \in 0 .. INT_RANGE - 1 /\ q + n = INT_RANGE * d + m
  BY <1>2 DEF d, m
<1>4. CASE q + n < INT_RANGE
  <2>1. d = 0
    BY <1>1, <1>3, <1>4, OneQuotient
  <2> QED
    BY <1>1, <1>3, <1>4, <2>1 DEF m
<1>5. CASE ~ (q + n < INT_RANGE)
  <2>1. q + n - INT_RANGE \in 0 .. INT_RANGE - 1 /\ d - 1 \in Int
    BY <1>1, <1>3, <1>5
  <2>2. q + n - INT_RANGE = INT_RANGE * (d - 1) + m
    BY <1>1, <1>3
  <2>3. d - 1 = 0
    BY <1>3, <2>1, <2>2, OneQuotient
  <2> QED
    BY <1>1, <1>3, <1>5, <2>3 DEF m
<1> QED
  BY <1>4, <1>5

\* In quantum q, a thread with s quanta left to sleep gets up in quantum ...
WakesIn(q, s) == IF s = -1 THEN -1 ELSE (q + s + 1) % INT_RANGE

\* It is the next one if none is left; otherwise the number stays the same
\* while the quanta go on and fewer are left.
LEMMA WakesInTime ==
  ASSUME NEW q \in 0 .. INT_RANGE - 1, NEW s \in -1 .. MAX_SLEEP
  PROVE  /\ WakesIn(q, s) = (q + 1) % INT_RANGE <=> s = 0
         /\ s > 0 => WakesIn((q + 1) % INT_RANGE, s - 1) = WakesIn(q, s)
         /\ WakesIn(q, s) = -1 <=> s = -1
<1>1. INT_RANGE \in Nat /\ MAX_SLEEP \in Nat /\ MAX_SLEEP + 1 < INT_RANGE
  BY RangeAssumption, SleepAssumption, SleepFits
<1>2. (q + 1) % INT_RANGE = IF q + 1 < INT_RANGE THEN q + 1 ELSE q + 1 - INT_RANGE
  <2>1. 1 \in 0 .. INT_RANGE - 1
    BY <1>1
  <2> QED
    BY <2>1, After
<1>3. CASE s = -1
  BY <1>1, <1>2, <1>3 DEF WakesIn
<1>4. CASE s # -1
  <2>1. s + 1 \in 0 .. INT_RANGE - 1 /\ q + s + 1 = q + (s + 1)
    BY <1>1, <1>4
  <2>2. WakesIn(q, s) = IF q + s + 1 < INT_RANGE THEN q + s + 1 ELSE q + s + 1 - INT_RANGE
    <3>1. (q + (s + 1)) % INT_RANGE = IF q + (s + 1) < INT_RANGE THEN q + (s + 1)
                                      ELSE q + (s + 1) - INT_RANGE
      BY ONLY <2>1, After
    <3>2. WakesIn(q, s) = (q + (s + 1)) % INT_RANGE
      BY ONLY <1>4, <2>1 DEF WakesIn
    <3> QED
      BY <1>1, <2>1, <3>1, <3>2
  <2>3. ASSUME s > 0
        PROVE  WakesIn((q + 1) % INT_RANGE, s - 1) = WakesIn(q, s)
    <3>1. PICK r \in 0 .. INT_RANGE - 1 : r = (q + 1) % INT_RANGE
      BY <1>1, <1>2
    <3>2. r = IF q + 1 < INT_RANGE THEN q + 1 ELSE q + 1 - INT_RANGE
      BY <1>2, <3>1
    <3>3. s \in 0 .. INT_RANGE - 1 /\ r + (s - 1) + 1 = r + s /\ s - 1 # -1
      BY <1>1, <2>3
    <3>4. WakesIn(r, s - 1) = IF r + s < INT_RANGE THEN r + s ELSE r + s - INT_RANGE
      <4>1. (r + s) % INT_RANGE = IF r + s < INT_RANGE THEN r + s ELSE r + s - INT_RANGE
        BY ONLY <3>1, <3>3, After
      <4>2. WakesIn(r, s - 1) = (r + s) % INT_RANGE
        BY ONLY <3>3 DEF WakesIn
      <4> QED
        BY <4>1, <4>2
    <3>5. WakesIn(r, s - 1) = WakesIn(q, s)
      BY <1>1, <2>2, <3>2, <3>3, <3>4
    <3> QED
      BY ONLY <3>1, <3>5
  <2> QED
    BY <1>1, <1>2, <1>4, <2>2, <2>3
<1> QED
  BY <1>3, <1>4

-----------------------------------------------------------------------------
(* A switch starts a new quantum *)

\* The interface's library operators are the scheduler's.
LEMMA SameOperators ==
  /\ API!Tid = Tid
  /\ \A S : API!Cardinality(S) = Cardinality(S)
  /\ \A q, e : API!RemoveFirst(q, e) = RemoveFirst(q, e)
<1>1. ASSUME NEW S
      PROVE  API!Cardinality(S) = Cardinality(S)
  BY DEF API!Cardinality, Cardinality
<1>2. ASSUME NEW q, NEW e
      PROVE  API!RemoveFirst(q, e) = RemoveFirst(q, e)
  BY DEF API!RemoveFirst, RemoveFirst, API!SelectInSeq, SelectInSeq,
         API!RemoveAt, RemoveAt, API!Min, Min
<1> QED
  BY <1>1, <1>2 DEF API!Tid, Tid

\* Those who wake up in increasing order, and one more behind them, are in
\* some order.
LEMMA WokenOrder ==
  ASSUME NEW S, S \subseteq Tid, NEW w \in Ascending(S)
  PROVE  /\ w \o <<>> \in API!Orders(S)
         /\ \A r \in Tid \ S : w \o <<r>> \in API!Orders(S \cup {r})
<1>1. IsFiniteSet(S) /\ Cardinality(S) \in Nat
  BY TidFinite
<1>2. w \in Seq(Tid) /\ ToSet(w) = S
  BY AscendingType
<1>3. w \in [1 .. Cardinality(S) -> S] /\ \A t \in S : \E i \in DOMAIN w : w[i] = t
  BY DEF Ascending
<1>4. Len(w) = Cardinality(S) /\ DOMAIN w = 1 .. Cardinality(S)
  BY <1>1, <1>2, <1>3, LenProperties
<1>5. w \o <<>> = w
  BY <1>2, ConcatEmptySeq
<1>6. ASSUME NEW r \in Tid \ S
      PROVE  w \o <<r>> \in API!Orders(S \cup {r})
  <2> DEFINE q == w \o <<r>>
             n == Cardinality(S)
  <2>1. Cardinality(S \cup {r}) = n + 1
    BY <1>1, <1>6, FS_AddElement
  <2>2. <<r>> \in Seq(Tid) /\ Len(<<r>>) = 1 /\ <<r>>[1] = r
    OBVIOUS
  <2>3. /\ q \in Seq(Tid) /\ Len(q) = n + 1
        /\ \A i \in 1 .. n + 1 : q[i] = IF i <= n THEN w[i] ELSE <<r>>[i - n]
    BY <1>2, <1>4, <2>2, ConcatProperties
  <2> HIDE DEF q
  <2>4. DOMAIN q = 1 .. n + 1
    BY <2>3, LenProperties
  <2>5. n \in Nat
    BY <1>1
  <2>6. \A i \in 1 .. n : q[i] = w[i]
    BY <2>3, <2>5
  <2>7. q[n + 1] = r
    BY <2>2, <2>3, <2>5
  <2>8. \A i \in 1 .. n + 1 : q[i] \in S \cup {r}
    BY <1>3, <2>5, <2>6, <2>7
  <2>9. q = [i \in 1 .. n + 1 |-> q[i]]
    BY <2>3, <2>4, SeqDef
  <2>10. q \in [1 .. n + 1 -> S \cup {r}]
    BY <2>8, <2>9
  <2>11. \A t \in S \cup {r} : \E i \in DOMAIN q : q[i] = t
    <3>1. \A t \in S : \E i \in 1 .. n : q[i] = t
      BY <1>3, <1>4, <2>6
    <3>2. n + 1 \in 1 .. n + 1 /\ 1 .. n \subseteq 1 .. n + 1
      BY <2>5
    <3> QED
      BY <2>4, <2>7, <3>1, <3>2
  <2>12. q \in API!Orders(S \cup {r})
    BY <2>1, <2>10, <2>11, SameOperators DEF API!Orders
  <2> QED
    BY <2>12 DEF q
<1> QED
  BY <1>3, <1>5, <1>6, SameOperators DEF API!Orders

\* What switch_threads does is a new quantum of the interface.
LEMMA SwitchIsNewQuantum ==
  ASSUME SchedulerInv, at \in {"user", "leave"}, at' # "crashed",
         NEW to \in {"READY", "BLOCKED", "ASLEEP", "TERMINATED"}, NEW ret,
         NEW st \in [Tid -> Status], NEW sl \in [Tid -> -1 .. MAX_SLEEP],
         Placed(st, sl),
         to \in {"READY", "BLOCKED"} => st[running_tid_] \in {"RUNNING", "MAIN"},
         to # "READY" => running_tid_ # 0,
         switch_threads(to, ret, st, sl),
         NEW back, back = IF to = "READY" THEN {running_tid_} ELSE {},
         NEW bl, bl = blocked_tids_ \cup NewlyBlocked(to),
         NEW wk, wk = [t \in Tid |-> WakesIn(total_quantums, sl[t])]
  PROVE  /\ API!NewQuantum(back, bl, wk)
         /\ at' = "jump" /\ UNCHANGED all_threads_
<1> DEFINE next == (total_quantums + 1) % INT_RANGE
           up == {t \in Tid : wk[t] = next}
<1>1. TypeOK /\ running_tid_ \in Tid /\ ready_tids_ \in Seq(Tid) /\ blocked_tids_ \subseteq Tid
  BY TypesOf DEF SchedulerInv
<1>2. total_quantums \in 0 .. INT_RANGE - 1
  BY <1>1 DEF TypeOK
<1>3. PICK woken \in Ascending(Awake(sl)) :
        /\ insert_ready_to_running(Enqueued(woken, to), OutgoingStatus(to, WakeStatus(st, sl)))
        /\ sleepers_' = Countdown(sl)
        /\ blocked_tids_' = bl
        /\ total_quantums' = next
        /\ at' = "jump"
        /\ UNCHANGED all_threads_
  <2>1. ~ Crash
    BY DEF Crash
  <2>2. Bump(total_quantums) = next
    BY DEF Bump
  <2> QED
    BY ONLY <2>1, <2>2, switch_threads(to, ret, st, sl), bl = blocked_tids_ \cup NewlyBlocked(to)
       DEF switch_threads, objects
<1> DEFINE order == woken \o Requeued(to)
<1>4. Due(sl) \subseteq Tid /\ Awake(sl) \subseteq Tid
  BY DEF Due, Awake
<1>5. woken \in Seq(Tid) /\ Requeued(to) \in Seq(Tid)
  BY <1>1, <1>4, AscendingType DEF Requeued
<1>6. Enqueued(woken, to) = ready_tids_ \o order
  <2>1. \A a, b, c \in Seq(Tid) : (a \o b) \o c = a \o (b \o c)
    BY ConcatAssociative
  <2> QED
    BY <1>1, <1>5, <2>1 DEF Enqueued
<1>7. up = Due(sl)
  <2>1. ASSUME NEW t \in Tid
        PROVE  wk[t] = next <=> sl[t] = 0
    BY <1>2, WakesInTime
  <2> QED
    BY <2>1 DEF Due
<1>8. running_tid_ \notin Due(sl) \/ to \notin {"READY", "BLOCKED"}
  BY <1>1 DEF Due, Placed
<1>9. (up \ bl) \cup back = IF to = "READY" THEN Awake(sl) \cup {running_tid_} ELSE Awake(sl)
  BY <1>7, <1>8 DEF Awake, NewlyBlocked
<1>10. order \in API!Orders((up \ bl) \cup back)
  <2>1. CASE to = "READY"
    <3>1. running_tid_ \in Tid \ Awake(sl)
      BY <1>1, <1>8, <2>1 DEF Awake
    <3> QED
      BY <1>4, <1>9, <2>1, <3>1, WokenOrder DEF Requeued
  <2>2. CASE to # "READY"
    BY <1>4, <1>9, <2>2, WokenOrder DEF Requeued
  <2> QED
    BY <2>1, <2>2
<1>11. ready_tids_ \o order # <<>>
  <2> DEFINE front == ready_tids_ \o woken
  <2>1. front \in Seq(Tid) /\ ToSet(front) = Ready \cup ToSet(woken)
    BY <1>1, <1>5, ToSetConcat, ConcatProperties DEF Ready
  <2>2. Enqueued(woken, to) = front \o Requeued(to)
    BY DEF Enqueued
  <2> HIDE DEF front
  <2>3. ToSet(front \o Requeued(to)) = ToSet(front) \cup ToSet(Requeued(to))
    BY ONLY <1>5, <2>1, ToSetConcat
  <2>4. 0 \in Ready \/ 0 \in ToSet(Requeued(to))
    <3>1. running_tid_ = 0 \/ 0 \in Ready
      BY DEF SchedulerInv, MainAlwaysSchedulable, Over
    <3> QED
      BY <3>1 DEF Requeued, ToSet
  <2>5. 0 \in ToSet(ready_tids_ \o order)
    BY <1>6, <2>1, <2>2, <2>3, <2>4
  <2> QED
    BY <2>5 DEF ToSet
<1>12. running_tid_' = Head(ready_tids_ \o order) /\ ready_tids_' = Tail(ready_tids_ \o order)
  BY <1>3, <1>6, <1>11 DEF insert_ready_to_running, NextTid
<1>13. WakesInQuantum' = [t \in Tid |-> IF t \in up THEN -1 ELSE wk[t]]
  <2>1. ASSUME NEW t \in Tid
        PROVE  WakesIn(next, Countdown(sl)[t]) = IF t \in up THEN -1 ELSE wk[t]
    <3>1. Countdown(sl)[t] = IF sl[t] >= 0 THEN sl[t] - 1 ELSE -1
      BY DEF Countdown
    <3>2. wk[t] = WakesIn(total_quantums, sl[t]) /\ sl[t] \in -1 .. MAX_SLEEP
      OBVIOUS
    <3>3. t \in up <=> sl[t] = 0
      BY <1>7 DEF Due
    <3> HIDE DEF up, next
    <3>4. CASE sl[t] = -1
      BY <3>1, <3>2, <3>3, <3>4 DEF WakesIn
    <3>5. CASE sl[t] = 0
      BY <3>1, <3>3, <3>5 DEF WakesIn
    <3>6. CASE sl[t] > 0
      <4>1. WakesIn(next, sl[t] - 1) = WakesIn(total_quantums, sl[t])
        BY ONLY <1>2, <3>2, <3>6, WakesInTime DEF next
      <4> QED
        BY <3>1, <3>2, <3>3, <3>6, <4>1
    <3> QED
      BY <3>2, <3>4, <3>5, <3>6, SleepAssumption
  <2>2. WakesInQuantum' = [t \in Tid |-> WakesIn(next, Countdown(sl)[t])]
    BY <1>3 DEF WakesInQuantum, WakesIn
  <2> QED
    BY <2>1, <2>2
<1> HIDE DEF order
<1>14. API!Later(1) = next /\ API!Never = -1 /\ API!Tid = Tid
  BY SameOperators DEF API!Later, API!Never
<1>15. (IF at \in {"crashed", "lost"} THEN -1 ELSE running_tid_)' = running_tid_'
  BY <1>3
<1>16. UNCHANGED (at = "exited")
  BY <1>3
<1> QED
  BY <1>3, <1>10, <1>11, <1>12, <1>13, <1>14, <1>15, <1>16 DEF API!NewQuantum

-----------------------------------------------------------------------------
(* Every step is the interface's, or invisible to it *)

\* The main thread's first quantum is quantum 1.
LEMMA InitIsAPIs == Init => API!Init
<1> SUFFICES ASSUME Init PROVE API!Init
  OBVIOUS
<1>1. 1 % INT_RANGE = 1
  <2>1. INT_RANGE \in Nat /\ 1 < INT_RANGE
    BY RangeAssumption, SleepAssumption, SleepFits
  <2> QED
    BY <2>1
<1>2. WakesInQuantum = [t \in Tid |-> -1]
  BY DEF Init, WakesInQuantum
<1> QED
  BY <1>1, <1>2, SameOperators DEF Init, API!Init, API!Never

\* Calls that leave the threads and the queues alone.
LEMMA Invisible ==
  ASSUME at \in {"user", "jump"}, at' \in {"user", "jump"},
         UNCHANGED <<all_threads_, queues, total_quantums, running_tid_>>
  PROVE  UNCHANGED API!vars
<1>1. UNCHANGED WakesInQuantum
  BY DEF WakesInQuantum, queues
<1> QED
  BY <1>1 DEF API!vars, queues

\* exit.
LEMMA ExitIsAPIs ==
  ASSUME at = "user", Exit
  PROVE  API!Next
<1>1. UNCHANGED WakesInQuantum
  BY DEF WakesInQuantum, Exit, queues
<1>2. API!Exit
  BY <1>1 DEF API!Exit, Exit, queues, objects
<1> QED
  BY <1>2 DEF API!Next

\* Taking an id out of the ready queue, whether it is in it or not.
LEMMA WithoutIs ==
  ASSUME TypeOK, NEW tid \in Tid
  PROVE  /\ API!Without(tid) = RemoveFirst(ready_tids_, tid)
         /\ tid \notin Ready => API!Without(tid) = ready_tids_
<1>1. API!Without(tid) = RemoveFirst(ready_tids_, tid)
  BY SameOperators DEF API!Without
<1>2. ASSUME tid \notin Ready
      PROVE  RemoveFirst(ready_tids_, tid) = ready_tids_
  <2>1. ready_tids_ \in Seq(Tid)
    BY DEF TypeOK
  <2>2. \A i \in 1 .. Len(ready_tids_) : ready_tids_[i] # tid
    BY <1>2, <2>1, ToSetType DEF Ready
  <2> QED
    BY <2>2 DEF RemoveFirst
<1> QED
  BY <1>1, <1>2

\* uthread_spawn.
LEMMA SpawnIsAPIs ==
  ASSUME SchedulerInv, NEW entry_point, uthread_spawn(entry_point)
  PROVE  API!Next \/ UNCHANGED API!vars
<1>1. at = "user"
  BY DEF uthread_spawn
<1>2. CASE Refuse
  BY <1>1, <1>2, Invisible DEF Refuse, objects, control
<1>3. CASE Exit
  BY <1>1, <1>3, ExitIsAPIs
<1>4. CASE ~ Refuse /\ ~ Exit
  <2>1. PICK tid \in Tid :
          /\ IsFirstFree(tid)
          /\ all_threads_' = all_threads_ \cup {tid}
          /\ ready_tids_' = Append(ready_tids_, tid)
          /\ UNCHANGED <<sleepers_, blocked_tids_, total_quantums, control>>
    BY <1>4 DEF uthread_spawn
  <2>2. tid \notin all_threads_
    BY <2>1 DEF IsFirstFree, SchedulerInv, IdsPartition
  <2>3. UNCHANGED WakesInQuantum
    BY <2>1 DEF WakesInQuantum
  <2>4. API!Spawn(tid)
    BY <1>1, <2>1, <2>2, <2>3 DEF API!Spawn, control
  <2>5. API!Tid = Tid
    BY SameOperators
  <2> QED
    BY <1>1, <2>4, <2>5 DEF API!Next
<1> QED
  BY <1>2, <1>3, <1>4

\* uthread_terminate: the running thread's leaves it in the interface until
\* another one is chosen, in leave.
LEMMA TerminateIsAPIs ==
  ASSUME KillsSleepers => SparesSleeping,
         SchedulerInv, OnePlace, NEW tid \in Tid, uthread_terminate(tid)
  PROVE  API!Next \/ UNCHANGED API!vars
<1>1. at = "user" /\ TypeOK
  BY DEF uthread_terminate, SchedulerInv
<1>2. CASE Refuse
  BY <1>1, <1>2, Invisible DEF Refuse, objects, control
<1>3. CASE Exit
  BY <1>1, <1>3, ExitIsAPIs
<1>4. CASE ~ Refuse /\ ~ Exit
  <2>1. /\ tid # 0 /\ tid \in all_threads_ /\ status_[tid] # "ASLEEP"
        /\ all_threads_' = all_threads_ \ {tid}
        /\ Unlink(tid)
        /\ at' = IF status_[tid] = "RUNNING" THEN "leave" ELSE at
        /\ UNCHANGED <<total_quantums, running_tid_, sleepers_>>
    BY <1>4 DEF uthread_terminate, Exists, Delete, Unlink, SparesSleeping
  <2>2. Placed(status_, sleepers_)
    BY <1>1, PlacedNow DEF Over
  <2>3. /\ status_[tid] \in {"READY", "RUNNING", "BLOCKED"}
        /\ status_[tid] = "RUNNING" <=> tid = running_tid_
    BY <1>1, <2>1, <2>2 DEF SchedulerInv, OneRunning, Placed, TypeOK, Status
  <2>4. sleepers_[tid] = -1 /\ sleepers_ \in [Tid -> -1 .. MAX_SLEEP]
    <3>1. sleepers_ \in [Tid -> -1 .. MAX_SLEEP] /\ ~ (sleepers_[tid] >= 0)
      BY <1>1, <2>1, <2>2 DEF Placed, TypeOK
    <3> QED
      BY <3>1, SleepAssumption
  <2>5. UNCHANGED WakesInQuantum /\ WakesInQuantum = [WakesInQuantum EXCEPT ![tid] = -1]
    BY <2>1, <2>4 DEF WakesInQuantum
  <2>6. CASE status_[tid] = "RUNNING"
    BY <1>1, <2>1, <2>3, <2>5, <2>6 DEF Unlink, API!vars
  <2>7. CASE status_[tid] # "RUNNING"
    <3>1. status_[tid] \in {"READY", "BLOCKED"}
      BY <2>3, <2>7
    <3>2. ready_tids_' = API!Without(tid)
      <4>1. status_[tid] = "READY" <=> tid \in Ready
        BY <2>2 DEF Placed
      <4> QED
        BY <1>1, <2>1, <4>1, WithoutIs DEF Unlink
    <3>3. blocked_tids_' = blocked_tids_ \ {tid}
      <4>1. status_[tid] = "BLOCKED" <=> tid \in blocked_tids_
        BY <2>2, <2>4 DEF Placed
      <4> QED
        BY <2>1, <4>1 DEF Unlink
    <3>4. tid # running_tid_ /\ at' = "user"
      BY <1>1, <2>1, <2>3, <2>7
    <3>5. API!Terminate(tid)
      BY <1>1, <2>1, <2>5, <3>2, <3>3, <3>4 DEF API!Terminate, API!Never
    <3>6. API!Tid = Tid
      BY SameOperators
    <3> QED
      BY <1>1, <3>5, <3>6 DEF API!Next
  <2> QED
    BY <2>6, <2>7
<1> QED
  BY <1>2, <1>3, <1>4

\* The statuses the running thread and the others can have when it calls.
LEMMA CallerPlaced ==
  ASSUME SchedulerInv, OnePlace, at = "user"
  PROVE  /\ Placed(status_, sleepers_)
         /\ running_tid_ \in all_threads_
         /\ status_[running_tid_] \in {"RUNNING", "MAIN"}
         /\ \A t \in Tid : status_[t] = "RUNNING" => t = running_tid_
         /\ WakesInQuantum = [t \in Tid |-> WakesIn(total_quantums, sleepers_[t])]
<1>1. TypeOK
  BY DEF SchedulerInv
<1>2. Placed(status_, sleepers_)
  BY <1>1, PlacedNow DEF Over
<1>3. /\ running_tid_ \in all_threads_
      /\ status_[running_tid_] \in {"RUNNING", "MAIN"}
      /\ \A t \in Tid : status_[t] = "RUNNING" => t = running_tid_
  BY <1>1, TypesOf DEF SchedulerInv, OneRunning
<1> QED
  BY <1>2, <1>3 DEF WakesInQuantum, WakesIn

\* uthread_block.
LEMMA BlockIsAPIs ==
  ASSUME SchedulerInv, OnePlace, at' # "crashed", NEW tid \in Tid, uthread_block(tid)
  PROVE  API!Next \/ UNCHANGED API!vars
<1>1. at = "user" /\ TypeOK
  BY DEF uthread_block, SchedulerInv
<1>2. /\ Placed(status_, sleepers_)
      /\ running_tid_ \in all_threads_
      /\ status_[running_tid_] \in {"RUNNING", "MAIN"}
      /\ \A t \in Tid : status_[t] = "RUNNING" => t = running_tid_
      /\ WakesInQuantum = [t \in Tid |-> WakesIn(total_quantums, sleepers_[t])]
  BY <1>1, CallerPlaced
<1>3. SUFFICES ASSUME ~ Unblockable(tid), ~ Refuse
               PROVE  API!Next \/ UNCHANGED API!vars
  <2>1. Refuse => UNCHANGED API!vars
    BY <1>1, Invisible DEF Refuse, objects, control
  <2> QED
    BY <1>3, <2>1 DEF uthread_block
<1>4. tid # 0 /\ tid \in all_threads_
  BY <1>3 DEF Unblockable, Exists
<1>5. SUFFICES ASSUME ~ UNCHANGED API!vars
               PROVE  API!Block(tid)
  <2>1. API!Tid = Tid
    BY SameOperators
  <2> QED
    BY <1>1, <1>5, <2>1 DEF API!Next
<1>6. CASE /\ status_[tid] = "RUNNING"
           /\ switch_threads("BLOCKED", "uthread_block", status_, sleepers_)
  <2>1. tid = running_tid_
    BY <1>2, <1>6
  <2>2. /\ API!NewQuantum({}, blocked_tids_ \cup {running_tid_}, WakesInQuantum)
        /\ at' = "jump" /\ UNCHANGED all_threads_
    <3> DEFINE bl == blocked_tids_ \cup NewlyBlocked("BLOCKED")
    <3>1. status_ \in [Tid -> Status] /\ sleepers_ \in [Tid -> -1 .. MAX_SLEEP]
      BY <1>1, TypesOf
    <3>2. /\ API!NewQuantum({}, bl, WakesInQuantum)
          /\ at' = "jump" /\ UNCHANGED all_threads_
      BY <1>1, <1>2, <1>4, <1>6, <2>1, <3>1, SwitchIsNewQuantum
    <3>3. bl = blocked_tids_ \cup {running_tid_}
      BY DEF NewlyBlocked
    <3> QED
      BY <3>2, <3>3
  <2> QED
    BY <1>1, <1>4, <2>1, <2>2 DEF API!Block
<1>7. CASE ~ (/\ status_[tid] = "RUNNING"
              /\ switch_threads("BLOCKED", "uthread_block", status_, sleepers_))
  <2>1. /\ status_[tid] \in {"READY", "ASLEEP", "BLOCKED"}
        /\ ready_tids_' = IF status_[tid] = "READY" THEN RemoveFirst(ready_tids_, tid)
                          ELSE ready_tids_
        /\ blocked_tids_' = IF status_[tid] = "BLOCKED" THEN blocked_tids_
                            ELSE blocked_tids_ \cup {tid}
        /\ UNCHANGED <<all_threads_, sleepers_, total_quantums, running_tid_, at>>
    BY <1>3, <1>7 DEF uthread_block, objects, control
  <2>2. tid # running_tid_
    BY <1>2, <2>1
  <2>3. ready_tids_' = API!Without(tid)
    <3>1. status_[tid] = "READY" <=> tid \in Ready
      BY <1>2 DEF Placed
    <3> QED
      BY <1>1, <2>1, <3>1, WithoutIs
  <2>4. blocked_tids_' = blocked_tids_ \cup {tid}
    <3>1. status_[tid] = "BLOCKED" => tid \in blocked_tids_
      BY <1>2 DEF Placed
    <3> QED
      BY <2>1, <3>1
  <2>5. UNCHANGED WakesInQuantum
    BY <2>1 DEF WakesInQuantum
  <2> QED
    BY <1>1, <1>4, <2>1, <2>2, <2>3, <2>4, <2>5 DEF API!Block
<1> QED
  BY <1>6, <1>7

\* uthread_resume.
LEMMA ResumeIsAPIs ==
  ASSUME SchedulerInv, OnePlace, NEW tid \in Tid, uthread_resume(tid)
  PROVE  API!Next \/ UNCHANGED API!vars
<1>1. at = "user" /\ TypeOK
  BY DEF uthread_resume, SchedulerInv
<1>2. Placed(status_, sleepers_)
  BY <1>1, CallerPlaced
<1>3. CASE ~ Exists(tid)
  <2>1. Refuse
    BY <1>3 DEF uthread_resume
  <2> QED
    BY <1>1, <2>1, Invisible DEF Refuse, objects, control
<1>4. CASE Exists(tid) /\ tid \notin blocked_tids_
  <2>1. status_[tid] # "BLOCKED"
    BY <1>2, <1>4 DEF Placed
  <2>2. UNCHANGED <<all_threads_, queues, total_quantums, running_tid_, at>>
    BY <1>4, <2>1 DEF uthread_resume, objects, queues, control
  <2> QED
    BY <1>1, <2>2, Invisible
<1>5. CASE Exists(tid) /\ tid \in blocked_tids_
  <2>1. /\ sleepers_ \in [Tid -> -1 .. MAX_SLEEP]
        /\ status_[tid] \in {"BLOCKED", "ASLEEP"}
        /\ status_[tid] = "BLOCKED" <=> ~ (sleepers_[tid] >= 0)
    BY <1>1, <1>2, <1>5 DEF Placed, TypeOK
  <2>2. /\ blocked_tids_' = blocked_tids_ \ {tid}
        /\ ready_tids_' = IF status_[tid] = "BLOCKED" THEN Append(ready_tids_, tid)
                          ELSE ready_tids_
        /\ UNCHANGED <<all_threads_, sleepers_, total_quantums, running_tid_, at>>
    BY <1>5, <2>1 DEF uthread_resume, objects, control
  <2>3. WakesInQuantum[tid] = -1 <=> status_[tid] = "BLOCKED"
    <3>1. WakesInQuantum[tid] = WakesIn(total_quantums, sleepers_[tid])
      BY <1>1, CallerPlaced
    <3>2. total_quantums \in 0 .. INT_RANGE - 1 /\ sleepers_[tid] \in -1 .. MAX_SLEEP
      BY <1>1, <2>1 DEF TypeOK
    <3>3. WakesInQuantum[tid] = -1 <=> sleepers_[tid] = -1
      BY <3>1, <3>2, WakesInTime
    <3> QED
      BY <2>1, <3>2, <3>3, SleepAssumption
  <2>4. UNCHANGED WakesInQuantum
    BY <2>2 DEF WakesInQuantum
  <2>5. API!Resume(tid)
    BY <1>1, <1>5, <2>2, <2>3, <2>4 DEF API!Resume, API!Never
  <2>6. API!Tid = Tid
    BY SameOperators
  <2> QED
    BY <1>1, <2>5, <2>6 DEF API!Next
<1> QED
  BY <1>3, <1>4, <1>5

\* uthread_sleep.
LEMMA SleepIsAPIs ==
  ASSUME SchedulerInv, OnePlace, at' # "crashed",
         NEW num_quantums \in -1 .. MAX_SLEEP, uthread_sleep(num_quantums)
  PROVE  API!Next \/ UNCHANGED API!vars
<1>1. at = "user" /\ TypeOK
  BY DEF uthread_sleep, SchedulerInv
<1>2. CASE Refuse
  BY <1>1, <1>2, Invisible DEF Refuse, objects, control
<1>3. CASE ~ Refuse
  <2> DEFINE st == [status_ EXCEPT ![running_tid_] = "ASLEEP"]
             sl == Emplace(running_tid_, num_quantums)
             wk == [t \in Tid |-> WakesIn(total_quantums, sl[t])]
             bl == blocked_tids_ \cup NewlyBlocked("ASLEEP")
  <2>1. /\ running_tid_ # 0 /\ num_quantums >= 0
        /\ switch_threads("ASLEEP", "uthread_sleep", st, sl)
    BY <1>3 DEF uthread_sleep
  <2>2. num_quantums \in 0 .. MAX_SLEEP
    BY <2>1
  <2>3. /\ st \in [Tid -> Status] /\ sl \in [Tid -> -1 .. MAX_SLEEP]
        /\ Placed(st, sl)
    BY <1>1, <2>2, SleepPlaced
  <2>4. /\ running_tid_ \in Tid /\ sleepers_ \in [Tid -> -1 .. MAX_SLEEP]
        /\ sleepers_[running_tid_] = -1
    <3>1. running_tid_ \in Tid /\ sleepers_ \in [Tid -> -1 .. MAX_SLEEP]
      BY <1>1, TypesOf
    <3>2. ~ (sleepers_[running_tid_] >= 0)
      BY <1>1, <3>1, CallerPlaced DEF Placed
    <3> QED
      BY <3>1, <3>2, SleepAssumption
  <2>5. sl = [sleepers_ EXCEPT ![running_tid_] = num_quantums]
    BY <2>4 DEF Emplace
  <2>6. wk = [WakesInQuantum EXCEPT ![running_tid_] = API!Later(num_quantums + 1)]
    <3>1. WakesInQuantum = [t \in Tid |-> WakesIn(total_quantums, sleepers_[t])]
      BY <1>1, CallerPlaced
    <3>2. WakesIn(total_quantums, num_quantums) = API!Later(num_quantums + 1)
      <4>1. total_quantums \in Int /\ num_quantums # -1
        BY <1>1, <2>2 DEF TypeOK
      <4>2. total_quantums + num_quantums + 1 = total_quantums + (num_quantums + 1)
        BY <2>2, <4>1
      <4> QED
        BY <4>1, <4>2 DEF WakesIn, API!Later
    <3> QED
      BY <2>4, <2>5, <3>1, <3>2
  <2>7. wk = [t \in Tid |-> WakesIn(total_quantums, sl[t])]
    OBVIOUS
  <2> HIDE DEF st, sl, wk
  <2>8. /\ API!NewQuantum({}, bl, wk)
        /\ at' = "jump" /\ UNCHANGED all_threads_
    BY <1>1, <2>1, <2>3, <2>7, SwitchIsNewQuantum
  <2>9. bl = blocked_tids_
    BY DEF NewlyBlocked
  <2>10. API!Sleep(num_quantums)
    BY <1>1, <2>1, <2>6, <2>8, <2>9 DEF API!Sleep
  <2> QED
    BY <1>1, <2>2, <2>10 DEF API!Next
<1> QED
  BY <1>2, <1>3

\* The timer, in client code.
LEMMA TimerIsAPIs ==
  ASSUME WindowTicks = {}, SchedulerInv, OnePlace, at' # "crashed", timer_handler
  PROVE  API!Next
<1>1. at = "user" /\ switch_threads("READY", "timer_handler", status_, sleepers_)
  BY DEF timer_handler
<1>2. TypeOK /\ status_ \in [Tid -> Status] /\ sleepers_ \in [Tid -> -1 .. MAX_SLEEP]
  BY TypesOf DEF SchedulerInv
<1>3. /\ Placed(status_, sleepers_)
      /\ status_[running_tid_] \in {"RUNNING", "MAIN"}
      /\ WakesInQuantum = [t \in Tid |-> WakesIn(total_quantums, sleepers_[t])]
  BY <1>1, CallerPlaced
<1> DEFINE bl == blocked_tids_ \cup NewlyBlocked("READY")
<1>4. /\ API!NewQuantum({running_tid_}, bl, WakesInQuantum)
      /\ at' = "jump" /\ UNCHANGED all_threads_
  BY <1>1, <1>2, <1>3, SwitchIsNewQuantum
<1>5. bl = blocked_tids_
  BY DEF NewlyBlocked
<1>6. API!Preempt
  BY <1>1, <1>4, <1>5 DEF API!Preempt
<1> QED
  BY <1>1, <1>6 DEF API!Next

\* A thread that has terminated itself makes way for another one.
LEMMA LeaveIsAPIs ==
  ASSUME WindowTicks = {}, SchedulerInv, OnePlace, at' # "crashed", leave
  PROVE  API!Next
<1>1. /\ at = "leave"
      /\ switch_threads("TERMINATED", "uthread_terminate", status_, sleepers_)
  BY DEF leave
<1>2. /\ TypeOK /\ status_ \in [Tid -> Status] /\ sleepers_ \in [Tid -> -1 .. MAX_SLEEP]
      /\ running_tid_ \in Tid
  BY TypesOf DEF SchedulerInv
<1>3. running_tid_ \notin all_threads_ /\ running_tid_ # 0
  BY <1>1 DEF SchedulerInv, OneRunning, IdsPartition
<1>4. /\ Placed(status_, sleepers_)
      /\ WakesInQuantum = [t \in Tid |-> WakesIn(total_quantums, sleepers_[t])]
  BY <1>1, <1>2, PlacedNow DEF Over, WakesInQuantum, WakesIn
<1> DEFINE bl == blocked_tids_ \cup NewlyBlocked("TERMINATED")
<1>5. /\ API!NewQuantum({}, bl, WakesInQuantum)
      /\ at' = "jump" /\ UNCHANGED all_threads_
  BY <1>1, <1>2, <1>3, <1>4, SwitchIsNewQuantum
<1>6. bl = blocked_tids_
  BY DEF NewlyBlocked
<1>7. API!Terminate(running_tid_)
  BY <1>1, <1>3, <1>5, <1>6 DEF API!Terminate
<1> QED
  BY <1>1, <1>2, <1>7, SameOperators DEF API!Next

\* Every step of the library that deletes nobody who sleeps.
LEMMA NextIsAPIs ==
  ASSUME WindowTicks = {}, KillsSleepers => SparesSleeping, SchedulerInv, OnePlace, ContextInv, ContextInv', Next
  PROVE  API!Next \/ UNCHANGED API!vars
<1>1. at' # "crashed" /\ at' # "lost"
  BY DEF ContextInv, NeverCrashes
<1>2. CASE startRunning
  <2>1. /\ at = "jump" /\ at' = "user"
        /\ UNCHANGED <<all_threads_, queues, total_quantums, running_tid_>>
    BY <1>1, <1>2 DEF startRunning, siglongjmp
  <2> QED
    BY <2>1, Invisible
<1>3. CASE timer_handler
  BY <1>1, <1>3, TimerIsAPIs
<1>4. CASE leave
  BY <1>1, <1>4, LeaveIsAPIs
<1>5. ASSUME NEW entry_point, uthread_spawn(entry_point)
      PROVE  API!Next \/ UNCHANGED API!vars
  BY <1>5, SpawnIsAPIs
<1>6. ASSUME NEW tid \in Tid, uthread_terminate(tid)
      PROVE  API!Next \/ UNCHANGED API!vars
  BY <1>6, TerminateIsAPIs
<1>7. ASSUME NEW tid \in Tid, uthread_block(tid)
      PROVE  API!Next \/ UNCHANGED API!vars
  BY <1>1, <1>7, BlockIsAPIs
<1>8. ASSUME NEW tid \in Tid, uthread_resume(tid)
      PROVE  API!Next \/ UNCHANGED API!vars
  BY <1>8, ResumeIsAPIs
<1>9. ASSUME NEW tid \in Tid, uthread_get_quantums(tid)
      PROVE  API!Next \/ UNCHANGED API!vars
  BY <1>9, Invisible DEF uthread_get_quantums, objects, control
<1>10. ASSUME NEW num_quantums \in -1 .. MAX_SLEEP, uthread_sleep(num_quantums)
       PROVE  API!Next \/ UNCHANGED API!vars
  BY <1>1, <1>10, SleepIsAPIs
<1>11. CASE Done
  <2>1. UNCHANGED WakesInQuantum
    BY <1>11 DEF Done, vars, queues, WakesInQuantum
  <2> QED
    BY <1>11, <2>1 DEF Done, vars, objects, queues, control, API!vars
<1> QED
  BY <1>2, <1>3, <1>4, <1>5, <1>6, <1>7, <1>8, <1>9, <1>10, <1>11 DEF Next

-----------------------------------------------------------------------------
(* Theorem *)

\* As long as the timer does not expire in the windows and no client terminates
\* a sleeping thread, uthreads.cpp does what uthreads.h says: every step of it
\* is a step of the interface, or leaves what the interface speaks of alone.
THEOREM LibraryImplementsHeader ==
  ASSUME WindowTicks = {}, ~ KillsSleepers
  PROVE  Spec => ImplementsAPI
<1>1. Init => API!Init
  BY InitIsAPIs
<1>2. /\ SchedulerInv /\ OnePlace /\ ContextInv /\ ContextInv'
      /\ [Next]_vars
      => [API!Next]_(API!vars)
  <2>1. SchedulerInv /\ OnePlace /\ ContextInv /\ ContextInv' /\ Next
          => API!Next \/ UNCHANGED API!vars
    BY NextIsAPIs
  <2>2. UNCHANGED vars => UNCHANGED API!vars
    <3>1. UNCHANGED vars => UNCHANGED WakesInQuantum
      BY DEF vars, queues, WakesInQuantum
    <3> QED
      BY <3>1 DEF vars, objects, queues, control, API!vars
  <2> QED
    BY <2>1, <2>2
<1>3. Spec => []OnePlace
  BY EveryThreadInOnePlace
<1>4. Spec => []ContextInv
  BY ContextsStay
<1> QED
  BY <1>1, <1>2, <1>3, <1>4, SchedulerInvariant, PTL DEF Spec, ImplementsAPI, API!Spec

=============================================================================
