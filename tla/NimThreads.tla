----------------------------- MODULE NimThreads -----------------------------
(***************************************************************************)
(* The other thread library in the repository, nim/uthreads.cpp: no sleep, *)
(* but a mutex.                                                            *)
(*                                                                         *)
(* Here no call opens the signal mask before it is done: a call that       *)
(* switches opens it in the thread it switches to, when switchThread has   *)
(* returned there.  So every call, and alarmSigHandler, is one step, which *)
(* ends where the next thread is in its own code.  How many quanta the     *)
(* threads have had is left out: nothing else depends on it.               *)
(*                                                                         *)
(* A definition named X_Y is not part of the specification: it is X with   *)
(* the plausible mistake Y, for checking that the properties notice it.    *)
(***************************************************************************)
EXTENDS SequencesExt

CONSTANTS
  MAX_THREAD_NUM,  \* uthreads.h:11
  nullptr

ASSUME NimThreadsAssumption == MAX_THREAD_NUM \in Nat \ {0}
ASSUME NullAssumption == nullptr \notin Nat

Tid == 0 .. MAX_THREAD_NUM - 1
MAIN_THREAD == 0

\* Where a saved context continues: at the thread's entry function, or after
\* the call of switchThread in one of these.
Ret == {"Thread", "alarmSigHandler", "uthread_block", "uthread_mutex_lock"}

VARIABLES
  running,
  ready,
  mutexBlocked,
  blocked,
  allThreads,
  mutex,          \* [blocked, thread_block]
  env,            \* Thread::_env
  masked,         \* is SIGVTALRM in the process's signal mask?
  at,             \* where control is
  inside,         \* history: whose uthread_mutex_lock returned SUCCESS, without
                  \* a uthread_mutex_unlock that did so since
  lockerBlocked   \* history: has a thread been blocked that owned the mutex or
                  \* waited for it?

threads == <<ready, blocked, allThreads>>
lock == <<mutexBlocked, mutex, inside>>
context == <<running, env, at>>
vars == <<threads, lock, context, masked, lockerBlocked>>

Unlocked == [blocked |-> FALSE, thread_block |-> nullptr]

LockedBy_FlagForgotten(t) == [blocked |-> FALSE, thread_block |-> t]

LockedBy(t) == [blocked |-> TRUE, thread_block |-> t]

Owner == mutex.thread_block

Init ==
  /\ running = MAIN_THREAD
  /\ ready = <<>>
  /\ mutexBlocked = {}
  /\ blocked = {}
  /\ allThreads = {MAIN_THREAD}
  /\ mutex = Unlocked
  /\ env = [t \in Tid |-> "Thread"]
  /\ masked = FALSE
  /\ at = "user"
  /\ inside = {}
  /\ lockerBlocked = FALSE

-----------------------------------------------------------------------------
(* switchThread *)

\* ready.front() of an empty deque: whatever comes next is undefined.
Undefined ==
  /\ at' = "undefined"
  /\ UNCHANGED <<running, ready, env, masked>>

\* A thread that continues after waiting for the mutex returns SUCCESS from
\* uthread_mutex_lock without looking at the mutex again.
Returned(t) == IF env'[t] = "uthread_mutex_lock" THEN {t} ELSE {}

\* switchThread, startThread and what the next thread does before it is in its
\* own code again: it opens the mask.  queue is ready after the outgoing
\* thread's push; the outgoing thread, if it lives on, continues in ret.
switchThread(queue, ret) ==
  IF queue = <<>> THEN Undefined
  ELSE /\ running' = Head(queue)
       /\ ready' = Tail(queue)
       /\ env' = [env EXCEPT ![running] = ret]
       /\ masked' = FALSE
       /\ UNCHANGED at

\* Who is inside after a switch to the head of queue; in are those who stay.
InsideAfter(queue, in) == IF queue = <<>> THEN in ELSE in \cup Returned(Head(queue))

\* ready.push_back(goingOut)
Requeued == Append(ready, running)

alarmSigHandler ==
  /\ at = "user"
  /\ ~ masked
  /\ switchThread(Requeued, "alarmSigHandler")
  /\ inside' = InsideAfter(Requeued, inside)
  /\ UNCHANGED <<mutexBlocked, blocked, allThreads, mutex, lockerBlocked>>

-----------------------------------------------------------------------------
(* The calls of the running thread *)

\* A call that returns, SUCCESS or FAIL, after unblock.
Unblock == masked' = FALSE

IsFirstFree(id) ==
  /\ id \in Tid \ allThreads
  /\ \A t \in Tid \ allThreads : id <= t

\* The limit reached: FAIL, with the signal left blocked.  No memory: exit.
uthread_spawn ==
  /\ at = "user"
  /\ \/ /\ Cardinality(allThreads) + 1 > MAX_THREAD_NUM
        /\ masked' = TRUE
        /\ UNCHANGED <<threads, lock, context>>
     \/ /\ Cardinality(allThreads) + 1 =< MAX_THREAD_NUM
        /\ at' = "exited"
        /\ masked' = TRUE
        /\ UNCHANGED <<threads, lock, running, env>>
     \/ /\ Cardinality(allThreads) + 1 =< MAX_THREAD_NUM
        /\ \E id \in Tid :
             /\ IsFirstFree(id)
             /\ allThreads' = allThreads \cup {id}
             /\ ready' = Append(ready, id)
             /\ env' = [env EXCEPT ![id] = "Thread"]
        /\ Unblock
        /\ UNCHANGED <<blocked, lock, running, at>>

\* mutex_unblock_random_thread: mutexBlocked is walked in no order that is
\* known, so any of those who are not blocked may be found first.
FirstChoice_Blocked == mutexBlocked

FirstChoice ==
  IF mutexBlocked \subseteq blocked THEN mutexBlocked ELSE mutexBlocked \ blocked

Woken_NotPushed(toSet) == <<>>

Woken(toSet) == IF toSet \in blocked THEN <<>> ELSE <<toSet>>

\* Its results: the mutex, those who still wait, those to push to ready.
mutex_unblock_random_thread ==
  IF mutexBlocked = {}
  THEN {[mutex |-> Unlocked, waiting |-> {}, woken |-> <<>>]}
  ELSE {[mutex |-> LockedBy(toSet), waiting |-> mutexBlocked \ {toSet},
         woken |-> Woken(toSet)] : toSet \in FirstChoice}

NoHandOver == {[mutex |-> mutex, waiting |-> mutexBlocked, woken |-> <<>>]}

HandOver_NotOnTermination(tid) == NoHandOver

\* Terminating the owner passes the mutex on.
HandOver(tid) == IF mutex.blocked /\ tid = Owner THEN mutex_unblock_random_thread
                 ELSE NoHandOver

uthread_terminate(tid) ==
  /\ at = "user"
  /\ \/ /\ tid \notin allThreads
        /\ Unblock
        /\ UNCHANGED <<threads, lock, context>>
     \/ /\ tid = MAIN_THREAD
        /\ at' = "exited"
        /\ masked' = TRUE
        /\ UNCHANGED <<threads, lock, running, env>>
     \/ /\ tid \in allThreads \ {MAIN_THREAD}
        /\ \E given \in HandOver(tid) :
             /\ mutex' = given.mutex
             /\ mutexBlocked' = given.waiting \ {tid}
             /\ allThreads' = allThreads \ {tid}
             /\ blocked' = blocked \ {tid}
             /\ IF tid = running
                THEN /\ switchThread(ready \o given.woken, "uthread_terminate")
                     /\ inside' = InsideAfter(ready \o given.woken, inside \ {tid})
                ELSE /\ ready' = RemoveFirst(ready \o given.woken, tid)
                     /\ inside' = inside \ {tid}
                     /\ Unblock
                     /\ UNCHANGED context

uthread_block(tid) ==
  /\ at = "user"
  /\ \/ /\ tid \notin allThreads \/ tid = MAIN_THREAD
        /\ Unblock
        /\ UNCHANGED <<threads, lock, context, lockerBlocked>>
     \/ /\ tid \in allThreads \ {MAIN_THREAD}
        /\ blocked' = blocked \cup {tid}
        /\ lockerBlocked' = (lockerBlocked \/ tid = Owner \/ tid \in mutexBlocked)
        /\ IF tid = running
           THEN /\ switchThread(ready, "uthread_block")
                /\ inside' = InsideAfter(ready, inside)
           ELSE /\ ready' = RemoveFirst(ready, tid)
                /\ Unblock
                /\ UNCHANGED <<context, inside>>
        /\ UNCHANGED <<mutexBlocked, allThreads, mutex>>

Resumed_WaitersToo(tid) == IF tid \in blocked THEN Append(ready, tid) ELSE ready

Resumed_First(tid) ==
  IF tid \in blocked \ mutexBlocked THEN <<tid>> \o ready ELSE ready

\* A thread that waits for the mutex does not become ready by being resumed.
Resumed(tid) ==
  IF tid \in blocked \ mutexBlocked THEN Append(ready, tid) ELSE ready

\* Of a thread there is not, nothing is blocked or resumed: FAIL.
uthread_resume(tid) ==
  /\ at = "user"
  /\ ready' = Resumed(tid)
  /\ blocked' = blocked \ {tid}
  /\ Unblock
  /\ UNCHANGED <<allThreads, lock, context>>

uthread_mutex_lock ==
  /\ at = "user"
  /\ \/ /\ mutex.blocked /\ Owner = running
        /\ Unblock
        /\ UNCHANGED <<threads, lock, context>>
     \/ /\ mutex.blocked /\ Owner # running
        /\ mutexBlocked' = mutexBlocked \cup {running}
        /\ switchThread(ready, "uthread_mutex_lock")
        /\ inside' = InsideAfter(ready, inside)
        /\ UNCHANGED <<blocked, allThreads, mutex>>
     \/ /\ ~ mutex.blocked
        /\ mutex' = LockedBy(running)
        /\ inside' = inside \cup {running}
        /\ Unblock
        /\ UNCHANGED <<threads, mutexBlocked, context>>

MayUnlock_Anybody == mutex.blocked

MayUnlock == mutex.blocked /\ running = Owner

uthread_mutex_unlock ==
  /\ at = "user"
  /\ \/ /\ ~ MayUnlock
        /\ UNCHANGED <<threads, lock>>
     \/ /\ MayUnlock
        /\ \E given \in mutex_unblock_random_thread :
             /\ mutex' = given.mutex
             /\ mutexBlocked' = given.waiting
             /\ ready' = ready \o given.woken
        /\ inside' = inside \ {running}
        /\ UNCHANGED <<blocked, allThreads>>
  /\ Unblock
  /\ UNCHANGED context

\* uthread_get_tid, uthread_get_quantums and uthread_get_total_quantums.
Read ==
  /\ at = "user"
  /\ Unblock
  /\ UNCHANGED <<threads, lock, context>>

Over == at \in {"exited", "undefined"}

Done == Over /\ UNCHANGED vars

Next ==
  \/ alarmSigHandler
  \/ \E tid \in Tid : uthread_block(tid)
  \/ /\ \/ uthread_spawn
        \/ \E tid \in Tid : uthread_terminate(tid) \/ uthread_resume(tid)
        \/ uthread_mutex_lock
        \/ uthread_mutex_unlock
        \/ Read
     /\ UNCHANGED lockerBlocked
  \/ Done

Spec == Init /\ [][Next]_vars

-----------------------------------------------------------------------------
(* Properties *)

\* Types; in particular the pointer to the owner is null exactly when the mutex
\* is unlocked (lines 394, 542 and 577 go through it if blocked is set).
TypeOK ==
  /\ running \in Tid
  /\ ready \in Seq(Tid)
  /\ mutexBlocked \subseteq Tid
  /\ blocked \subseteq Tid
  /\ allThreads \subseteq Tid
  /\ mutex \in [blocked : BOOLEAN, thread_block : Tid \cup {nullptr}]
  /\ mutex.blocked <=> Owner # nullptr
  /\ env \in [Tid -> Ret \cup {"uthread_terminate"}]
  /\ masked \in BOOLEAN
  /\ at \in {"user", "exited", "undefined"}
  /\ inside \subseteq Tid
  /\ lockerBlocked \in BOOLEAN

Ready == ToSet(ready)

\* Every thread is in one place: it runs, or it is ready, once, or it is held
\* up, by uthread_block, by the mutex, or by both, and a thread that is gone is
\* nowhere.
OnePlace ==
  ~ Over =>
    /\ IsInjective(ready)
    /\ allThreads = {running} \cup Ready \cup blocked \cup mutexBlocked
    /\ running \notin Ready \cup blocked \cup mutexBlocked
    /\ Ready \cap (blocked \cup mutexBlocked) = {}
    /\ MAIN_THREAD \in allThreads \ blocked

\* Whoever returned from uthread_mutex_lock with SUCCESS has the mutex until he
\* unlocks it; the owner is a thread there is, and does not wait for himself; one
\* who is owner but not yet inside is on his way back from waiting.
MutualExclusion ==
  ~ Over =>
    /\ inside \subseteq {Owner}
    /\ mutexBlocked # {} => mutex.blocked
    /\ mutex.blocked =>
         /\ Owner \in allThreads \ mutexBlocked
         /\ Owner \notin inside => env[Owner] = "uthread_mutex_lock" /\ Owner # running
    /\ \A t \in mutexBlocked : env[t] = "uthread_mutex_lock"

\* Unless somebody has blocked a thread that owned the mutex or waited for it,
\* there is always a thread to switch to, even when main waits for the mutex
\* (ready.front() at line 203 looks at no empty queue).
SomebodyReady == at = "undefined" => lockerBlocked

\* The threads in front of t in the ready queue.
Ahead(t) ==
  {ready[i] : i \in {k \in DOMAIN ready : \E j \in DOMAIN ready : k < j /\ ready[j] = t}}

\* Round robin ("push it to the end of ready queue", nim/uthreads.cpp:338):
\* while a thread is ready nobody gets in front of it, also not who is passed
\* the mutex or was blocked, and only threads that were in front of it run.
NoOvertaking ==
  [][\A t \in Ready : t \in Ready' =>
       /\ Ahead(t)' \subseteq Ahead(t)
       /\ running' # running => running' \in Ahead(t)]_vars

Mutex == INSTANCE NimMutex WITH
  Thread <- Tid, owner <- Owner, waiting <- mutexBlocked

\* The mutex of the library is the one its comments describe.
ImplementsMutex == Mutex!Spec

Fairness == SF_vars(alarmSigHandler)
FairSpec == Spec /\ Fairness

KeepsOpening == []<>(~ masked)

\* A thread that is passed the mutex gets in, unless it is terminated or
\* blocked first.
HeirGetsIn ==
  KeepsOpening =>
    \A t \in Tid :
      Owner = t /\ t \notin inside
        ~> (Over \/ t \in blocked \/ t \in inside \/ t \notin allThreads)

=============================================================================
