------------------------ MODULE UThreadsReturns_proofs ------------------------
(***************************************************************************)
(* What may come of the reads that uthread_spawn and uthread_get_quantums  *)
(* do with the mask open, for every number of threads, as long as the      *)
(* timer does not expire in the windows and no client terminates a         *)
(* sleeping thread: the scheduler does not notice them, and they fail only *)
(* if the thread they are about has been terminated meanwhile.             *)
(***************************************************************************)
EXTENDS UThreadsReturns, UThreadsContexts_proofs

\* The object a call has still to read is there, unless it is gone.
LateInv ==
  /\ late \in [Tid -> [call : Calls, tid : Tid, gone : BOOLEAN]]
  /\ \A t \in Tid : ~ late[t].gone => Exists(late[t].tid)

\* Together with what is known of the scheduler it is inductive.
ReturnsInv == SchedulerInv /\ OnePlace /\ OwnContext /\ LateInv

\* A step that is one of UThreads too.
LibraryStep ==
  /\ Next
  /\ UNCHANGED answer
  /\ \/ UNCHANGED <<late, all_threads_>>
     \/ \E entry_point \in {"nullptr", "function"} : spawn(entry_point)
     \/ \E tid \in Tid : get_quantums(tid) \/ terminate(tid)

\* A switch makes no thread and deletes none.
LEMMA SwitchSameThreads ==
  ASSUME NEW to, NEW ret, NEW st, NEW sl, switch_threads(to, ret, st, sl)
  PROVE  UNCHANGED all_threads_
BY DEF switch_threads, Crash, objects

\* Every step is one of those, or a read; all but uthread_spawn and
\* uthread_terminate leave the threads there are.
LEMMA ReturnsCases ==
  ASSUME ReturnsNext
  PROVE  \/ LibraryStep
         \/ ReturnFromSpawn
         \/ ReturnFromGetQuantums
<1>1. CASE (startRunning \/ timer_handler \/ leave \/ Done) /\ UNCHANGED <<late, answer>>
  <2>1. CASE startRunning \/ Done
    BY <1>1, <2>1 DEF LibraryStep, Next, startRunning, Done, vars, objects
  <2>2. CASE timer_handler \/ leave
    <3>1. UNCHANGED all_threads_
      BY <2>2, SwitchSameThreads DEF timer_handler, leave, pickFront, popFront, countTotal,
                                     Crash, objects
    <3> QED
      BY <1>1, <2>2, <3>1 DEF LibraryStep, Next
  <2> QED
    BY <1>1, <2>1, <2>2
<1>2. ASSUME NEW tid \in Tid, uthread_block(tid) \/ uthread_resume(tid), UNCHANGED <<late, answer>>
      PROVE  LibraryStep
  <2>1. UNCHANGED all_threads_
    BY <1>2, SwitchSameThreads DEF uthread_block, uthread_resume, Refuse, objects
  <2> QED
    BY <1>2, <2>1 DEF LibraryStep, Next
<1>3. ASSUME NEW num_quantums \in -1 .. MAX_SLEEP, uthread_sleep(num_quantums),
             UNCHANGED <<late, answer>>
      PROVE  LibraryStep
  <2>1. UNCHANGED all_threads_
    BY <1>3, SwitchSameThreads DEF uthread_sleep, Refuse, objects
  <2> QED
    BY <1>3, <2>1 DEF LibraryStep, Next
<1>4. ASSUME NEW entry_point \in {"nullptr", "function"}, spawn(entry_point)
      PROVE  LibraryStep
  BY <1>4 DEF LibraryStep, Next, spawn
<1>5. ASSUME NEW tid \in Tid, get_quantums(tid) \/ terminate(tid)
      PROVE  LibraryStep
  BY <1>5 DEF LibraryStep, Next, get_quantums, terminate
<1> QED
  BY <1>1, <1>2, <1>3, <1>4, <1>5 DEF ReturnsNext

\* Nothing is late at first.
LEMMA InitReturns == ReturnsInit => ReturnsInv
<1> SUFFICES ASSUME ReturnsInit
             PROVE  ReturnsInv
  OBVIOUS
<1>1. SchedulerInv /\ OnePlace
  BY InitInv, InitPlaces DEF ReturnsInit
<1>2. OwnContext
  BY DEF ReturnsInit, Init, OwnContext
<1>3. 0 \in Tid
  BY ThreadsAssumption DEF Tid
<1>4. LateInv
  BY <1>3 DEF ReturnsInit, Init, LateInv, NothingLate, Late, Calls, Exists
<1> QED
  BY <1>1, <1>2, <1>4 DEF ReturnsInv

\* Only the thread a call is about makes its late read fail: while it is there,
\* so is what is read.
LEMMA LibraryLate ==
  ASSUME SchedulerInv, SchedulerInv', LateInv, LibraryStep
  PROVE  LateInv'
<1>1. /\ late \in [Tid -> [call : Calls, tid : Tid, gone : BOOLEAN]]
      /\ \A t \in Tid : ~ late[t].gone => late[t].tid \in all_threads_
      /\ 0 \in all_threads_ /\ 0 \in all_threads_' /\ 0 \in Tid /\ running_tid_ \in Tid
      /\ all_threads_' \subseteq Tid
  BY DEF LateInv, Exists, SchedulerInv, TypeOK, IdsPartition
<1>2. /\ NothingLate = [call |-> "none", tid |-> 0, gone |-> FALSE]
      /\ \A call \in Calls, t \in Tid :
           Late(call, t) = [call |-> call, tid |-> t, gone |-> FALSE]
      /\ {"none", "uthread_spawn", "uthread_get_quantums"} = Calls
  BY DEF NothingLate, Late, Calls
<1>3. CASE UNCHANGED <<late, all_threads_>>
  BY <1>1, <1>3 DEF LateInv, Exists
<1>4. ASSUME NEW new \in [call : Calls, tid : all_threads_', gone : {FALSE}],
             late' = [late EXCEPT ![running_tid_] = new],
             all_threads_ \subseteq all_threads_'
      PROVE  LateInv'
  <2>1. /\ new \in [call : Calls, tid : Tid, gone : BOOLEAN]
        /\ new.tid \in all_threads_'
    BY <1>1, <1>4
  <2>2. \A t \in Tid : late'[t] = IF t = running_tid_ THEN new ELSE late[t]
    BY <1>1, <1>4
  <2>3. late' \in [Tid -> [call : Calls, tid : Tid, gone : BOOLEAN]]
    BY <1>1, <1>4, <2>1
  <2> QED
    BY <1>1, <1>4, <2>1, <2>2, <2>3 DEF LateInv, Exists
<1>5. ASSUME NEW entry_point, spawn(entry_point)
      PROVE  LateInv'
  <2>1. all_threads_ \subseteq all_threads_'
    BY <1>5 DEF spawn, uthread_spawn, Refuse, Exit, objects
  <2>2. CASE all_threads_' = all_threads_
    <3>1. late' = [late EXCEPT ![running_tid_] = NothingLate]
      BY <1>5, <2>2 DEF spawn
    <3>2. NothingLate \in [call : Calls, tid : all_threads_', gone : {FALSE}]
      BY <1>1, <1>2
    <3> QED
      BY <1>4, <2>1, <3>1, <3>2
  <2>3. CASE all_threads_' # all_threads_
    <3> DEFINE made == CHOOSE t \in all_threads_' : t \notin all_threads_
    <3>1. made \in all_threads_'
      BY <2>1, <2>3
    <3>2. late' = [late EXCEPT ![running_tid_] = Late("uthread_spawn", made)]
      BY <1>5, <2>3 DEF spawn
    <3> HIDE DEF made
    <3>3. Late("uthread_spawn", made) \in [call : Calls, tid : all_threads_', gone : {FALSE}]
      BY <3>1 DEF Late, Calls
    <3> QED
      BY <1>4, <2>1, <3>2, <3>3
  <2> QED
    BY <2>2, <2>3
<1>6. ASSUME NEW tid \in Tid, get_quantums(tid)
      PROVE  LateInv'
  <2>1. UNCHANGED all_threads_
    BY <1>6 DEF get_quantums, uthread_get_quantums, objects
  <2>2. CASE Exists(tid)
    <3>1. late' = [late EXCEPT ![running_tid_] = Late("uthread_get_quantums", tid)]
      BY <1>6, <2>2 DEF get_quantums
    <3>2. Late("uthread_get_quantums", tid) \in [call : Calls, tid : all_threads_', gone : {FALSE}]
      BY <2>1, <2>2 DEF Exists, Late, Calls
    <3> QED
      BY <1>4, <2>1, <3>1, <3>2
  <2>3. CASE ~ Exists(tid)
    <3>1. late' = [late EXCEPT ![running_tid_] = NothingLate]
      BY <1>6, <2>3 DEF get_quantums
    <3>2. NothingLate \in [call : Calls, tid : all_threads_', gone : {FALSE}]
      BY <1>1, <1>2
    <3> QED
      BY <1>4, <2>1, <3>1, <3>2
  <2> QED
    BY <2>2, <2>3
<1>7. ASSUME NEW tid \in Tid, terminate(tid)
      PROVE  LateInv'
  <2>1. CASE all_threads_' = all_threads_
    BY <1>3, <1>7, <2>1 DEF terminate
  <2>2. CASE all_threads_' # all_threads_
    <3>1. all_threads_' = all_threads_ \ {tid}
      BY <1>7, <2>2 DEF terminate, uthread_terminate, Exit, Refuse, Delete, objects
    <3>2. late' = [t \in Tid |-> IF t = tid THEN NothingLate
                                ELSE [late[t] EXCEPT !.gone = @ \/ late[t].tid = tid]]
      BY <1>7, <2>2 DEF terminate
    <3>3. ASSUME NEW t \in Tid
          PROVE  /\ late'[t] \in [call : Calls, tid : Tid, gone : BOOLEAN]
                 /\ ~ late'[t].gone => late'[t].tid \in all_threads_'
      <4>1. CASE t = tid
        BY <1>1, <1>2, <3>2, <4>1
      <4>2. CASE t # tid
        <5>1. /\ late'[t] = [call |-> late[t].call, tid |-> late[t].tid,
                             gone |-> (late[t].gone \/ late[t].tid = tid)]
              /\ late[t] \in [call : Calls, tid : Tid, gone : BOOLEAN]
          BY <1>1, <3>2, <4>2
        <5>2. /\ late[t].call \in Calls /\ late[t].tid \in Tid
              /\ ~ late[t].gone => late[t].tid \in all_threads_
          BY <1>1
        <5>3. (late[t].gone \/ late[t].tid = tid) \in BOOLEAN
          OBVIOUS
        <5>4. late'[t] \in [call : Calls, tid : Tid, gone : BOOLEAN]
          BY ONLY <5>1, <5>2, <5>3
        <5>5. late'[t].tid = late[t].tid /\ late'[t].gone = (late[t].gone \/ late[t].tid = tid)
          BY ONLY <5>1
        <5>6. ~ (late[t].gone \/ late[t].tid = tid) => late[t].tid \in all_threads_ \ {tid}
          BY ONLY <5>2
        <5> QED
          BY ONLY <3>1, <5>4, <5>5, <5>6, Zenon
      <4> QED
        BY <4>1, <4>2
    <3> QED
      BY <3>2, <3>3 DEF LateInv, Exists
  <2> QED
    BY <2>1, <2>2
<1> QED
  BY <1>3, <1>5, <1>6, <1>7 DEF LibraryStep

\* A read is no step of the scheduler, unless it goes through a pointer of a
\* thread that is gone: that is the end of the process.
LEMMA ReadKeeps ==
  ASSUME ReturnsInv, ReturnFromSpawn \/ ReturnFromGetQuantums
  PROVE  ReturnsInv'
<1> DEFINE r == running_tid_
<1>1. /\ SchedulerInv /\ OnePlace /\ OwnContext /\ TypeOK /\ r \in Tid
      /\ late \in [Tid -> [call : Calls, tid : Tid, gone : BOOLEAN]]
      /\ \A t \in Tid : ~ late[t].gone => Exists(late[t].tid)
  BY DEF ReturnsInv, LateInv, SchedulerInv, TypeOK
<1>2. CASE UNCHANGED vars /\ late' = [late EXCEPT ![r] = NothingLate]
  <2>1. SchedulerInv' /\ OnePlace' /\ OwnContext'
    BY <1>1, <1>2 DEF vars, objects, queues, control, SchedulerInv, TypeOK, IdsPartition,
                      MainAlwaysSchedulable, ReadyThreadsAreQueued, OneRunning, OnePlace, OwnContext,
                      Resumable, Ready, Asleep, Over
  <2>2. /\ NothingLate \in [call : Calls, tid : Tid, gone : BOOLEAN]
        /\ Exists(NothingLate.tid)'
    <3>1. 0 \in Tid /\ 0 \in all_threads_ /\ UNCHANGED all_threads_
      BY <1>1, <1>2, ThreadsAssumption DEF Tid, SchedulerInv, IdsPartition, vars, objects
    <3> QED
      BY <3>1 DEF NothingLate, Late, Calls, Exists
  <2>3. UNCHANGED all_threads_
    BY <1>2 DEF vars, objects
  <2>4. LateInv'
    BY <1>1, <1>2, <2>2, <2>3 DEF LateInv, Exists
  <2> QED
    BY <2>1, <2>4 DEF ReturnsInv
<1>3. CASE at = "user" /\ Crash /\ UNCHANGED late
  <2>1. Over' /\ at' = "crashed"
    BY <1>3 DEF Crash, Over
  <2>2. SchedulerInv'
    BY <1>1, <1>3, <2>1 DEF Crash, objects, queues, SchedulerInv, TypeOK, At, IdsPartition,
                            MainAlwaysSchedulable, ReadyThreadsAreQueued, OneRunning, Over
  <2>3. OnePlace' /\ OwnContext'
    BY <2>1 DEF OnePlace, OwnContext
  <2>4. LateInv'
    BY <1>1, <1>3 DEF LateInv, Exists, Crash, objects
  <2> QED
    BY <2>2, <2>3, <2>4 DEF ReturnsInv
<1> QED
  BY <1>2, <1>3 DEF ReturnFromSpawn, ReturnFromGetQuantums

\* And the library's steps keep everything, and crash nowhere.
LEMMA LibraryReturns ==
  ASSUME WindowTicks = {}, ~ KillsSleepers, ReturnsInv, LibraryStep
  PROVE  /\ ReturnsInv'
         /\ at' = "crashed" => at = "crashed"
<1>1. /\ SchedulerInv /\ OnePlace /\ OwnContext /\ LateInv /\ Next
  BY DEF ReturnsInv, LibraryStep
<1>2. SchedulerInv' /\ OnePlace'
  BY <1>1, NextInv, NextPlaces
<1>3. LateInv'
  BY <1>1, <1>2, LibraryLate
<1>4. OwnContext' /\ (at' = "crashed" => at = "crashed")
  <2>1. CASE Over
    <3>1. UNCHANGED vars
      BY <1>1, <2>1 DEF Next, startRunning, timer_handler, leave, uthread_spawn, uthread_terminate,
                        uthread_block, uthread_resume, uthread_get_quantums, uthread_sleep, Done, Over
    <3> QED
      BY <1>1, <3>1 DEF OwnContext, Resumable, vars, objects, control
  <2>2. CASE ~ Over
    <3>1. ContextInv
      BY <1>1, <2>2 DEF ContextInv, NeverCrashes, Over
    <3>2. ContextInv'
      BY <1>1, <3>1, NextContexts
    <3> QED
      BY <3>2 DEF ContextInv, NeverCrashes
  <2> QED
    BY <2>1, <2>2
<1> QED
  BY <1>2, <1>3, <1>4 DEF ReturnsInv

\* Every step keeps the invariant.
LEMMA ReturnsStep ==
  ASSUME WindowTicks = {}, ~ KillsSleepers, ReturnsInv, [ReturnsNext]_returnsVars
  PROVE  ReturnsInv'
<1>1. CASE ReturnsNext
  BY <1>1, ReturnsCases, LibraryReturns, ReadKeeps
<1>2. CASE UNCHANGED returnsVars
  BY <1>2 DEF returnsVars, vars, objects, queues, control, ReturnsInv, LateInv, Exists, SchedulerInv,
              TypeOK, IdsPartition, MainAlwaysSchedulable, ReadyThreadsAreQueued, OneRunning, OnePlace,
              OwnContext, Resumable, Ready, Asleep, Over
<1> QED
  BY <1>1, <1>2

-----------------------------------------------------------------------------
(* Theorems *)

\* The late reads leave the scheduler alone: with them too every thread is in one
\* place and has its own context; and what a call has still to read is there as
\* long as the thread has not been terminated.
THEOREM ReturnsInvariant ==
  ASSUME WindowTicks = {}, ~ KillsSleepers
  PROVE  ReturnsSpec => []ReturnsInv
<1>1. ReturnsInv /\ [ReturnsNext]_returnsVars => ReturnsInv'
  BY ReturnsStep
<1> QED
  BY <1>1, InitReturns, PTL DEF ReturnsSpec

\* uthread_spawn returns another number than the id of the thread it has made,
\* and uthread_get_quantums goes through a null pointer, in one case only: the
\* thread has been terminated, by another thread, while the call was between its
\* two looks.  Nothing else brings the process down.
THEOREM LateReadsOnly ==
  ASSUME WindowTicks = {}, ~ KillsSleepers
  PROVE  ReturnsSpec => OnlyStaleReadsFail
<1> DEFINE A == (answer' = "wrong" /\ answer # "wrong") \/ (at' = "crashed" /\ at # "crashed")
                  => at = "user" /\ late[running_tid_].gone
<1>1. ReturnsInv /\ [ReturnsNext]_returnsVars => [A]_returnsVars
  <2> SUFFICES ASSUME ReturnsInv, ReturnsNext,
                      (answer' = "wrong" /\ answer # "wrong") \/ (at' = "crashed" /\ at # "crashed")
               PROVE  at = "user" /\ late[running_tid_].gone
    OBVIOUS
  <2>1. /\ running_tid_ \in Tid
        /\ late[running_tid_].gone \in BOOLEAN
        /\ ~ late[running_tid_].gone => Exists(late[running_tid_].tid)
    BY DEF ReturnsInv, SchedulerInv, TypeOK, LateInv
  <2>2. ~ LibraryStep
    BY LibraryReturns DEF LibraryStep
  <2>3. CASE ReturnFromSpawn
    BY <2>1, <2>3 DEF ReturnFromSpawn, vars, control
  <2>4. CASE ReturnFromGetQuantums
    BY <2>1, <2>4 DEF ReturnFromGetQuantums, vars, control
  <2> QED
    BY <2>2, <2>3, <2>4, ReturnsCases
<1>2. OnlyStaleReadsFail <=> [][A]_returnsVars
  BY DEF OnlyStaleReadsFail
<1> HIDE DEF A
<1> QED
  BY <1>1, <1>2, ReturnsInvariant, PTL DEF ReturnsSpec

=============================================================================
