----------------------- MODULE UThreadsContexts_proofs -----------------------
(***************************************************************************)
(* NeverCrashes and OwnContext, and with them what tests and uthreads.h    *)
(* say of stacks and of threads that terminate themselves, for every       *)
(* number of threads, as long as the timer does not expire in the windows  *)
(* and no client terminates a sleeping thread.                             *)
(***************************************************************************)
EXTENDS UThreadsPlaces_proofs

\* The control is where the program means it to be.
ContextInv == NeverCrashes /\ OwnContext

\* switch_threads, called by the running thread or by one that has terminated
\* itself, goes through the pointer of no thread that is gone, and leaves every
\* thread a context to continue from.
LEMMA SwitchContexts ==
  ASSUME SchedulerInv, ContextInv, at \in {"user", "leave"},
         NEW to \in {"READY", "BLOCKED", "ASLEEP", "TERMINATED"},
         to = "TERMINATED" <=> at = "leave",
         NEW ret, ret \notin {"UThread", "switch_threads"},
         NEW st \in [Tid -> Status], NEW sl \in [Tid -> -1 .. MAX_SLEEP],
         Placed(st, sl),
         to \in {"READY", "BLOCKED"} => st[running_tid_] \in {"RUNNING", "MAIN"},
         switch_threads(to, ret, st, sl)
  PROVE  ContextInv'
<1>1. TypeOK
  BY DEF SchedulerInv
<1>2. PICK woken \in Ascending(Awake(sl)) :
        \/ /\ at' = "jump" /\ UNCHANGED <<all_threads_, stack>>
           /\ env_' = IF to = "TERMINATED" THEN env_ ELSE saveEnvironment(ret)
        \/ ~ (Dereferenced(to, sl, Enqueued(woken, to)) \subseteq all_threads_)
  BY DEF switch_threads, objects
<1> DEFINE queue == Enqueued(woken, to)
<1>3. to # "TERMINATED" => running_tid_ \in all_threads_
  BY DEF SchedulerInv, OneRunning
<1>4. queue = Enqueued(woken, to)
  OBVIOUS
<1> HIDE DEF queue
<1>5. /\ queue \in Seq(Tid) /\ ToSet(queue) \subseteq all_threads_
      /\ \A t \in Tid : sl[t] = 0 => t \in all_threads_
  BY <1>1, <1>3, <1>4, QueueOfThreads
<1>6. NextTid(queue) \in all_threads_
  <2>1. 0 \in all_threads_
    BY DEF SchedulerInv, IdsPartition
  <2>2. CASE queue = <<>>
    BY <2>1, <2>2 DEF NextTid
  <2>3. CASE queue # <<>>
    <3>1. Head(queue) \in ToSet(queue)
      BY <1>5, <2>3, HeadOrTail
    <3> QED
      BY <1>5, <2>3, <3>1 DEF NextTid
  <2> QED
    BY <2>2, <2>3
<1>7. Dereferenced(to, sl, queue) \subseteq all_threads_
  BY <1>3, <1>5, <1>6 DEF Dereferenced, Due
<1>8. /\ at' = "jump" /\ UNCHANGED <<all_threads_, stack>>
      /\ env_' = IF to = "TERMINATED" THEN env_ ELSE saveEnvironment(ret)
  BY <1>2, <1>4, <1>7
<1>9. stack = running_tid_ /\ (to = "TERMINATED" => running_tid_ \notin all_threads_)
  BY DEF ContextInv, OwnContext, SchedulerInv, OneRunning
<1>10. env_ \in [Tid -> [stack : Tid, ret : Ret]]
  BY <1>1 DEF TypeOK
<1>11. \A t \in all_threads_ \ {running_tid_} : Resumable(t)
  BY DEF ContextInv, OwnContext
<1>12. ASSUME NEW t \in all_threads_
       PROVE  Resumable(t)'
  <2>1. t \in Tid
    BY <1>1, TypesOf
  <2>2. CASE t # running_tid_
    <3>1. env_'[t] = env_[t]
      BY ONLY <1>8, <1>10, <2>1, <2>2 DEF saveEnvironment
    <3>2. Resumable(t)
      BY ONLY <1>11, <2>2
    <3> QED
      BY ONLY <3>1, <3>2 DEF Resumable
  <2>3. CASE t = running_tid_
    <3>1. to # "TERMINATED"
      BY ONLY <1>9, <2>3
    <3>2. env_'[t] = Context(t, ret)
      BY ONLY <1>8, <1>9, <1>10, <2>1, <2>3, <3>1 DEF saveEnvironment
    <3> QED
      BY <3>2 DEF Resumable, Context
  <2> QED
    BY <2>2, <2>3
<1> QED
  BY <1>8, <1>12 DEF ContextInv, NeverCrashes, OwnContext

\* A call that moves neither control nor contexts.
LEMMA FrameContexts ==
  ASSUME ContextInv, UNCHANGED <<all_threads_, env_, running_tid_, at, stack>>
  PROVE  ContextInv'
BY DEF ContextInv, NeverCrashes, OwnContext, Resumable

\* The end of the process.
LEMMA ExitContexts ==
  ASSUME at' = "exited"
  PROVE  ContextInv'
BY DEF ContextInv, NeverCrashes, OwnContext

\* Every step preserves the invariant, given that each thread is in one place.
LEMMA NextContexts ==
  ASSUME WindowTicks = {}, SchedulerInv, OnePlace, ContextInv, Next
  PROVE  ContextInv'
<1>0. TypeOK
  BY DEF SchedulerInv
<1> USE TypesOf
<1>1. ASSUME at = "user"
      PROVE  /\ Placed(status_, sleepers_)
             /\ running_tid_ \in all_threads_
             /\ status_[running_tid_] \in {"RUNNING", "MAIN"}
             /\ stack = running_tid_
             /\ env_ \in [Tid -> [stack : Tid, ret : Ret]]
             /\ \A t \in all_threads_ \ {running_tid_} : Resumable(t)
  <2>1. Placed(status_, sleepers_)
    BY <1>0, <1>1, PlacedNow DEF Over
  <2>2. /\ running_tid_ \in all_threads_
        /\ status_[running_tid_] \in {"RUNNING", "MAIN"}
    BY <1>0, <1>1 DEF SchedulerInv, OneRunning
  <2> QED
    BY <1>0, <1>1, <2>1, <2>2 DEF ContextInv, OwnContext, TypeOK
<1>2. CASE startRunning
  <2>1. Resumable(running_tid_)
    BY <1>2 DEF startRunning, SchedulerInv, OneRunning, ContextInv, OwnContext
  <2>2. /\ at = "jump" /\ at' = "user" /\ stack' = running_tid_
        /\ UNCHANGED <<all_threads_, env_, running_tid_>>
    BY <1>2, <2>1 DEF startRunning, siglongjmp
  <2> QED
    BY <2>2 DEF ContextInv, NeverCrashes, OwnContext, Resumable
<1>3. CASE timer_handler
  <2>1. at = "user" /\ switch_threads("READY", "timer_handler", status_, sleepers_)
    BY <1>3 DEF timer_handler
  <2> QED
    BY <1>0, <1>1, <2>1, SwitchContexts
<1>4. CASE leave
  <2>1. at = "leave" /\ switch_threads("TERMINATED", "uthread_terminate", status_, sleepers_)
    BY <1>4 DEF leave
  <2>2. Placed(status_, sleepers_)
    BY <1>0, <2>1, PlacedNow DEF Over
  <2> QED
    BY <1>0, <2>1, <2>2, SwitchContexts
<1>5. ASSUME NEW entry_point, uthread_spawn(entry_point)
      PROVE  ContextInv'
  <2>1. at = "user"
    BY <1>5 DEF uthread_spawn
  <2>2. CASE Refuse
    BY <2>2, FrameContexts DEF Refuse, objects, control
  <2>3. CASE Exit
    BY <2>3, ExitContexts DEF Exit
  <2>4. CASE ~ Refuse /\ ~ Exit
    <3>1. PICK tid \in Tid :
            /\ IsFirstFree(tid)
            /\ all_threads_' = all_threads_ \cup {tid}
            /\ env_' = [env_ EXCEPT ![tid] = Context(tid, "UThread")]
            /\ UNCHANGED control
      BY <1>5, <2>4 DEF uthread_spawn
    <3>2. tid # 0 /\ tid \notin all_threads_
      BY <3>1 DEF IsFirstFree, SchedulerInv, IdsPartition
    <3>3. env_'[tid] = Context(tid, "UThread") /\ \A t \in Tid : t # tid => env_'[t] = env_[t]
      BY <1>1, <2>1, <3>1
    <3>4. at' = "user" /\ running_tid_' = running_tid_ /\ stack' = running_tid_
      BY <1>1, <2>1, <3>1 DEF control
    <3>5. ASSUME NEW t \in all_threads_' \ {running_tid_}
          PROVE  Resumable(t)'
      <4>1. CASE t = tid
        BY <3>2, <3>3, <4>1 DEF Resumable, Context
      <4>2. CASE t # tid
        <5>1. t \in all_threads_ \ {running_tid_} /\ t \in Tid
          BY <1>0, <3>1, <3>5, <4>2
        <5>2. Resumable(t) /\ env_'[t] = env_[t]
          BY <1>1, <2>1, <3>3, <4>2, <5>1
        <5> QED
          BY <5>2 DEF Resumable
      <4> QED
        BY <4>1, <4>2
    <3> QED
      BY <3>4, <3>5 DEF ContextInv, NeverCrashes, OwnContext
  <2> QED
    BY <2>2, <2>3, <2>4
<1>6. ASSUME NEW tid \in Tid, uthread_terminate(tid)
      PROVE  ContextInv'
  <2>1. at = "user"
    BY <1>6 DEF uthread_terminate
  <2>2. CASE Refuse
    BY <2>2, FrameContexts DEF Refuse, objects, control
  <2>3. CASE Exit
    BY <2>3, ExitContexts DEF Exit
  <2>4. CASE ~ Refuse /\ ~ Exit
    <3>1. /\ tid # 0 /\ tid \in all_threads_
          /\ all_threads_' = all_threads_ \ {tid}
          /\ env_' = [env_ EXCEPT ![tid] = Context(tid, "UThread")]
          /\ at' = IF status_[tid] = "RUNNING" THEN "leave" ELSE at
          /\ UNCHANGED <<running_tid_, stack>>
      BY <1>6, <2>4 DEF uthread_terminate, Exists, Delete
    <3>2. stack' = running_tid_' /\ at' \in {"user", "leave"}
      BY <1>1, <2>1, <3>1
    <3>3. ASSUME NEW t \in all_threads_' \ {running_tid_'}
          PROVE  Resumable(t)'
      <4>1. t \in all_threads_ \ {running_tid_} /\ t # tid /\ t \in Tid
        BY <1>0, <3>1, <3>3
      <4>2. Resumable(t) /\ env_'[t] = env_[t]
        BY <1>1, <2>1, <3>1, <4>1
      <4> QED
        BY <4>2 DEF Resumable
    <3> QED
      BY <3>2, <3>3 DEF ContextInv, NeverCrashes, OwnContext
  <2> QED
    BY <2>2, <2>3, <2>4
<1>7. ASSUME NEW tid \in Tid, uthread_block(tid)
      PROVE  ContextInv'
  <2>1. at = "user"
    BY <1>7 DEF uthread_block
  <2>2. CASE switch_threads("BLOCKED", "uthread_block", status_, sleepers_)
    BY <1>0, <1>1, <2>1, <2>2, SwitchContexts
  <2>3. CASE ~ switch_threads("BLOCKED", "uthread_block", status_, sleepers_)
    BY <1>7, <2>3, FrameContexts DEF uthread_block, Refuse, objects, control
  <2> QED
    BY <2>2, <2>3
<1>8. ASSUME NEW tid \in Tid, uthread_resume(tid)
      PROVE  ContextInv'
  BY <1>8, FrameContexts DEF uthread_resume, Refuse, objects, control
<1>9. ASSUME NEW tid \in Tid, uthread_get_quantums(tid)
      PROVE  ContextInv'
  BY <1>9, FrameContexts DEF uthread_get_quantums, objects, control
<1>10. ASSUME NEW num_quantums \in -1 .. MAX_SLEEP, uthread_sleep(num_quantums)
       PROVE  ContextInv'
  <2>1. at = "user"
    BY <1>10 DEF uthread_sleep
  <2>2. CASE Refuse
    BY <2>2, FrameContexts DEF Refuse, objects, control
  <2>3. CASE ~ Refuse
    <3> DEFINE st == [status_ EXCEPT ![running_tid_] = "ASLEEP"]
               sl == Emplace(running_tid_, num_quantums)
    <3>1. num_quantums >= 0 /\ switch_threads("ASLEEP", "uthread_sleep", st, sl)
      BY <1>10, <2>3 DEF uthread_sleep
    <3>2. num_quantums \in 0 .. MAX_SLEEP
      BY <3>1
    <3>3. /\ st \in [Tid -> Status] /\ sl \in [Tid -> -1 .. MAX_SLEEP]
          /\ Placed(st, sl)
      BY <2>1, <3>2, SleepPlaced
    <3> HIDE DEF st, sl
    <3> QED
      BY <1>0, <2>1, <3>1, <3>3, SwitchContexts
  <2> QED
    BY <2>2, <2>3
<1>11. CASE Done
  BY <1>11, FrameContexts DEF Done, vars, objects, control
<1> QED
  BY <1>2, <1>3, <1>4, <1>5, <1>6, <1>7, <1>8, <1>9, <1>10, <1>11 DEF Next

\* A switch saves the context of the running thread, on its own stack.
LEMMA SwitchStacks ==
  ASSUME SchedulerInv, OwnContext, OwnStack, at \in {"user", "leave"},
         NEW to, NEW ret, NEW st, NEW sl, switch_threads(to, ret, st, sl)
  PROVE  OwnStack'
<1>1. /\ env_ \in [Tid -> [stack : Tid, ret : Ret]] /\ all_threads_ \subseteq Tid
      /\ \A t \in all_threads_ : env_[t].stack = t
      /\ stack = running_tid_
  BY DEF SchedulerInv, TypeOK, OwnContext, OwnStack, Over
<1>2. /\ all_threads_' = all_threads_
      /\ at' = "crashed" \/ env_' \in {env_, [env_ EXCEPT ![running_tid_] = Context(stack, ret)]}
  BY DEF switch_threads, Crash, objects, saveEnvironment
<1>3. CASE at' = "crashed"
  BY <1>3 DEF OwnStack, Over
<1>4. ASSUME at' # "crashed", NEW t \in all_threads_
      PROVE  env_'[t].stack = t
  BY <1>1, <1>2, <1>4 DEF Context
<1> QED
  BY <1>2, <1>3, <1>4 DEF OwnStack

\* No other step saves one.
LEMMA NextStacks ==
  ASSUME WindowTicks = {}, SchedulerInv, OwnContext, OwnStack, Next
  PROVE  OwnStack'
<1>1. /\ env_ \in [Tid -> [stack : Tid, ret : Ret]] /\ all_threads_ \subseteq Tid
  BY DEF SchedulerInv, TypeOK
<1>2. ASSUME ~ Over, UNCHANGED <<env_, all_threads_>>
      PROVE  OwnStack'
  BY <1>2 DEF OwnStack
<1>3. CASE startRunning
  BY <1>2, <1>3 DEF startRunning, Over
<1>4. CASE timer_handler
  BY <1>4, SwitchStacks DEF timer_handler
<1>5. CASE leave
  BY <1>5, SwitchStacks DEF leave
<1>6. ASSUME NEW entry_point, uthread_spawn(entry_point)
      PROVE  OwnStack'
  <2>1. CASE Refuse \/ Exit
    BY <1>2, <1>6, <2>1 DEF uthread_spawn, Refuse, Exit, objects, Over
  <2>2. CASE ~ Refuse /\ ~ Exit
    <3>1. PICK tid \in Tid : /\ all_threads_' = all_threads_ \cup {tid}
                             /\ env_' = [env_ EXCEPT ![tid] = Context(tid, "UThread")]
      BY <1>6, <2>2 DEF uthread_spawn
    <3>2. \A t \in all_threads_ : env_[t].stack = t
      BY <1>6 DEF uthread_spawn, OwnStack, Over
    <3>3. ASSUME NEW t \in all_threads_'
          PROVE  env_'[t].stack = t
      BY <1>1, <3>1, <3>2 DEF Context
    <3> QED
      BY <3>3 DEF OwnStack
  <2> QED
    BY <2>1, <2>2
<1>7. ASSUME NEW tid \in Tid, uthread_terminate(tid)
      PROVE  OwnStack'
  <2>1. CASE Refuse \/ Exit
    BY <1>2, <1>7, <2>1 DEF uthread_terminate, Refuse, Exit, objects, Over
  <2>2. CASE ~ Refuse /\ ~ Exit
    <3>1. /\ all_threads_' = all_threads_ \ {tid}
          /\ env_' = [env_ EXCEPT ![tid] = Context(tid, "UThread")]
      BY <1>7, <2>2 DEF uthread_terminate, Delete
    <3>2. \A t \in all_threads_ : env_[t].stack = t
      BY <1>7 DEF uthread_terminate, OwnStack, Over
    <3>3. ASSUME NEW t \in all_threads_'
          PROVE  env_'[t].stack = t
      BY <1>1, <3>1, <3>2
    <3> QED
      BY <3>3 DEF OwnStack
  <2> QED
    BY <2>1, <2>2
<1>8. ASSUME NEW tid \in Tid, uthread_block(tid)
      PROVE  OwnStack'
  <2>1. at = "user"
    BY <1>8 DEF uthread_block
  <2>2. CASE switch_threads("BLOCKED", "uthread_block", status_, sleepers_)
    BY <2>1, <2>2, SwitchStacks
  <2>3. CASE ~ switch_threads("BLOCKED", "uthread_block", status_, sleepers_)
    BY <1>2, <1>8, <2>1, <2>3 DEF uthread_block, Refuse, objects, Over
  <2> QED
    BY <2>2, <2>3
<1>9. ASSUME NEW tid \in Tid, uthread_resume(tid) \/ uthread_get_quantums(tid)
      PROVE  OwnStack'
  BY <1>2, <1>9 DEF uthread_resume, uthread_get_quantums, Refuse, objects, Over
<1>10. ASSUME NEW num_quantums, uthread_sleep(num_quantums)
       PROVE  OwnStack'
  <2>1. at = "user"
    BY <1>10 DEF uthread_sleep
  <2>2. CASE Refuse
    BY <1>2, <2>1, <2>2 DEF Refuse, objects, Over
  <2>3. CASE ~ Refuse
    BY <1>10, <2>1, <2>3, SwitchStacks DEF uthread_sleep
  <2> QED
    BY <2>2, <2>3
<1>11. CASE Done
  BY <1>11 DEF Done, Over, OwnStack, vars, control
<1> QED
  BY <1>3, <1>4, <1>5, <1>6, <1>7, <1>8, <1>9, <1>10, <1>11 DEF Next

-----------------------------------------------------------------------------
(* Theorems *)

\* If the timer does not expire in the windows and clients leave sleeping
\* threads alone, the library goes through no stale pointer and jumps into no
\* stale frame, and each thread continues where its own code left off.
THEOREM ContextsStay ==
  ASSUME WindowTicks = {}, ~ KillsSleepers
  PROVE  Spec => []ContextInv
<1>1. Init => ContextInv
  BY DEF Init, ContextInv, NeverCrashes, OwnContext
<1>2. SchedulerInv /\ OnePlace /\ ContextInv /\ [Next]_vars => ContextInv'
  <2>1. SchedulerInv /\ OnePlace /\ ContextInv /\ Next => ContextInv'
    BY NextContexts
  <2>2. ContextInv /\ UNCHANGED vars => ContextInv'
    BY FrameContexts DEF vars, objects, control
  <2> QED
    BY <2>1, <2>2
<1>3. Spec => []OnePlace
  BY EveryThreadInOnePlace
<1> QED
  BY <1>1, <1>2, <1>3, SchedulerInvariant, PTL DEF Spec

\* Control never goes through a pointer of a thread that is gone, nor into a
\* frame that is gone or another thread's.
THEOREM NothingCrashes ==
  ASSUME WindowTicks = {}, ~ KillsSleepers
  PROVE  Spec => []NeverCrashes
BY ContextsStay, PTL DEF ContextInv

\* Every thread continues on its own stack, in a frame that exists.
THEOREM EveryContextOwn ==
  ASSUME WindowTicks = {}, ~ KillsSleepers
  PROVE  Spec => []OwnContext
BY ContextsStay, PTL DEF ContextInv

\* "Each thread has its own unique stack" (tests/jona3.cpp:2): only a signal in
\* the window of line 299 can save a thread's context on another one's.
THEOREM StacksAreOwn ==
  ASSUME WindowTicks = {}, ~ KillsSleepers
  PROVE  Spec => []OwnStack
<1>1. Init => OwnStack
  <2>1. 0 \in Tid
    BY ONLY ThreadsAssumption DEF Tid
  <2> QED
    BY <2>1 DEF Init, OwnStack, Context
<1>2. SchedulerInv /\ ContextInv /\ OwnStack /\ [Next]_vars => OwnStack'
  <2>1. SchedulerInv /\ ContextInv /\ OwnStack /\ Next => OwnStack'
    BY NextStacks DEF ContextInv
  <2>2. OwnStack /\ UNCHANGED vars => OwnStack'
    BY DEF OwnStack, Over, vars, objects, control
  <2> QED
    BY <2>1, <2>2
<1> QED
  BY <1>1, <1>2, ContextsStay, SchedulerInvariant, PTL DEF Spec

\* A thread that terminates itself gives the processor to another one (uthreads.h:
\* 49-50): only a signal in the window of line 421 keeps it from that.
THEOREM SelfTerminationWorks ==
  ASSUME WindowTicks = {}, ~ KillsSleepers
  PROVE  Spec => SelfTerminationSwitches
<1>1. ContextInv' => [at = "leave" => at' # "crashed"]_vars
  BY DEF ContextInv, NeverCrashes
<1> QED
  BY <1>1, ContextsStay, PTL DEF SelfTerminationSwitches

=============================================================================
