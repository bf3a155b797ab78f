------------------------------ MODULE UThreads ------------------------------
(***************************************************************************)
(* The scheduler of the user-level threads library, uthreads.cpp.          *)
(*                                                                         *)
(* One kernel thread runs everything.  The client calls the library, and   *)
(* SIGVTALRM calls timer_handler wherever the signal is not masked.  Every *)
(* library call masks it first, so a call is one step, except where the    *)
(* code opens the mask before it is done.  There control can be at:        *)
(*   "leave"    uthread_terminate has opened the mask (421), and           *)
(*              running_tid_ is still the id of the deleted thread         *)
(*   "front"    it is the front of the queue (262), not yet popped (264)   *)
(*   "picked"   popped, its quantum not yet counted in the total (287)     *)
(*   "jump"     after any switch: before startRunning (299, 300)           *)
(*   "counted"  inside startRunning, after the count (124, 125)            *)
(* An expiry that comes while the signal is masked stays pending and is    *)
(* delivered by the instruction that opens the mask: it is the same as an  *)
(* expiry at that instant, so pending signals need no variable.            *)
(*                                                                         *)
(* A definition named X_Y is not part of the specification: it is X with   *)
(* the plausible mistake Y, for checking that the properties notice it.    *)
(***************************************************************************)
EXTENDS SequencesExt

CONSTANTS
  MAX_THREAD_NUM,  \* uthreads.h:11
  MAX_SLEEP,       \* bound: the longest sleep a client asks for
  INT_RANGE,       \* bound: the quantum counters count modulo INT_RANGE
  WindowTicks,     \* the windows, "jump" and "leave", in which it may expire
  KillsSleepers    \* may a client terminate a thread that is asleep?

ASSUME ThreadsAssumption == MAX_THREAD_NUM \in Nat \ {0}
ASSUME SleepAssumption == MAX_SLEEP \in Nat
ASSUME RangeAssumption == INT_RANGE \in Nat \ {0}

Tid == 0 .. MAX_THREAD_NUM - 1

\* enum status; "TERMINATED" is also the status of an id no thread has
Status == {"MAIN", "READY", "RUNNING", "BLOCKED", "ASLEEP", "TERMINATED"}

\* Where a saved context continues.  "UThread" is the constructor's own
\* sigsetjmp: a spawned thread has it patched to its entry point, main does
\* not.  "switch_threads" is a context saved inside somebody's "jump" window.
Ret == {"UThread", "timer_handler", "uthread_block", "uthread_sleep",
        "switch_threads"}

At == {"user", "leave", "front", "picked", "jump", "counted",
       "exited", "crashed", "lost"}

VARIABLES
  all_threads_,              \* the ids that have a UThread object
  status_,                   \* UThread::status_
  env_,                      \* UThread::env_: on whose stack, and where to
  num_of_quantums_running,   \* UThread::num_of_quantums_running
  sleepers_,                 \* tid -> quanta left, -1 for no entry
  blocked_tids_,
  ready_tids_,
  free_ids_,
  total_quantums,
  running_tid_,
  masked,                    \* is SIGVTALRM in the process's signal mask?
  at,                        \* where control is
  stack,                     \* the thread on whose stack control is
  retired                    \* history: the quanta of threads deleted since

objects == <<all_threads_, free_ids_, num_of_quantums_running, retired>>
queues == <<sleepers_, blocked_tids_, ready_tids_>>
control == <<running_tid_, at, stack>>
vars == <<objects, status_, env_, queues, total_quantums, control, masked>>

Context(where, ret) == [stack |-> where, ret |-> ret]

\* An int counter one higher.
Bump(n) == (n + 1) % INT_RANGE

-----------------------------------------------------------------------------
(* uthread_init: the main thread runs its first quantum. *)

InitialFreeIds_LastIncluded == 1 .. MAX_THREAD_NUM

\* for (int i = 1; i < MAX_THREAD_NUM; ++i) free_ids_.insert(i)
InitialFreeIds == 1 .. MAX_THREAD_NUM - 1

Init ==
  /\ all_threads_ = {0}
  /\ status_ = [t \in Tid |-> IF t = 0 THEN "MAIN" ELSE "TERMINATED"]
  /\ env_ = [t \in Tid |-> Context(t, "UThread")]
  /\ num_of_quantums_running = [t \in Tid |-> IF t = 0 THEN 1 % INT_RANGE ELSE 0]
  /\ sleepers_ = [t \in Tid |-> -1]
  /\ blocked_tids_ = {}
  /\ ready_tids_ = <<>>
  /\ free_ids_ = InitialFreeIds
  /\ total_quantums = 1 % INT_RANGE
  /\ running_tid_ = 0
  /\ masked = FALSE
  /\ at = "user"
  /\ stack = 0
  /\ retired = 0

-----------------------------------------------------------------------------
(* update_sleepers *)

\* The entries whose counter this call takes to -1.
Due(sl) == {t \in Tid : sl[t] = 0}

Awake_BlockedToo(sl) == Due(sl)

\* Those of them that go back to the ready queue.
Awake(sl) == Due(sl) \ blocked_tids_

\* sleepers_ is a std::map: it is walked, and queued from, in increasing order.
Ascending(S) ==
  {w \in [1 .. Cardinality(S) -> S] :
      /\ \A t \in S : \E i \in DOMAIN w : w[i] = t
      /\ \A i, j \in DOMAIN w : i < j => w[i] < w[j]}

Countdown_Never(sl) == sl

Countdown(sl) == [t \in Tid |-> IF sl[t] >= 0 THEN sl[t] - 1 ELSE -1]

WakeStatus_BlockedReady(st, sl) ==
  [t \in Tid |-> IF t \in Due(sl) THEN "READY" ELSE st[t]]

WakeStatus(st, sl) ==
  [t \in Tid |-> CASE t \in Awake(sl) -> "READY"
                   [] t \in Due(sl) \cap blocked_tids_ -> "BLOCKED"
                   [] OTHER -> st[t]]

-----------------------------------------------------------------------------
(* switch_threads *)

\* Where the outgoing thread goes, by the cases of switch_threads.
Requeued(to) == IF to = "READY" THEN <<running_tid_>> ELSE <<>>
NewlyBlocked(to) == IF to = "BLOCKED" THEN {running_tid_} ELSE {}
OutgoingStatus_BlockedForgotten(to, st) ==
  IF to = "READY" THEN [st EXCEPT ![running_tid_] = to] ELSE st

OutgoingStatus(to, st) ==
  IF to \in {"READY", "BLOCKED"} THEN [st EXCEPT ![running_tid_] = to] ELSE st

Enqueued_WokenFirst(woken, to) == woken \o ready_tids_ \o Requeued(to)
Enqueued_OutgoingFirst(woken, to) == Requeued(to) \o ready_tids_ \o woken

\* The order of the pushes: those who wake up, then the outgoing thread.
Enqueued(woken, to) == ready_tids_ \o woken \o Requeued(to)

\* insert_ready_to_running takes the front of the queue, or main if it is empty.
NextTid(queue) == IF queue = <<>> THEN 0 ELSE Head(queue)

insert_ready_to_running(queue, st) ==
  /\ running_tid_' = NextTid(queue)
  /\ ready_tids_' = IF queue = <<>> THEN queue ELSE Tail(queue)
  /\ status_' = IF queue = <<>> THEN st ELSE [st EXCEPT ![Head(queue)] = "RUNNING"]

\* The ids switch_threads looks up in all_threads_ and dereferences.
Dereferenced(to, sl, queue) ==
  Due(sl) \cup {NextTid(queue)} \cup (IF to = "TERMINATED" THEN {} ELSE {running_tid_})

\* all_threads_[tid] of an id that is not there makes a null pointer.
Crash ==
  /\ at' = "crashed"
  /\ UNCHANGED <<objects, status_, env_, queues, total_quantums, running_tid_, stack, masked>>

saveEnvironment_OfNext(ret) == [env_ EXCEPT ![running_tid_'] = Context(stack, ret)]

saveEnvironment(ret) == [env_ EXCEPT ![running_tid_] = Context(stack, ret)]

\* switch_threads(to) up to the window before startRunning.  st and sl are
\* status_ and sleepers_ as the caller leaves them; ret is the caller.
switch_threads(to, ret, st, sl) ==
  \E woken \in Ascending(Awake(sl)) :
    LET queue == Enqueued(woken, to) IN
    \/ /\ Dereferenced(to, sl, queue) \subseteq all_threads_
       /\ insert_ready_to_running(queue, OutgoingStatus(to, WakeStatus(st, sl)))
       /\ sleepers_' = Countdown(sl)
       /\ blocked_tids_' = blocked_tids_ \cup NewlyBlocked(to)
       /\ total_quantums' = Bump(total_quantums)
       /\ env_' = IF to = "TERMINATED" THEN env_ ELSE saveEnvironment(ret)
       /\ at' = "jump"
       /\ masked' = FALSE
       /\ UNCHANGED <<objects, stack>>
    \/ /\ ~ (Dereferenced(to, sl, queue) \subseteq all_threads_)
       /\ Crash

\* A context can be resumed if it is on the thread's own stack and its frame
\* still exists: main's constructor has returned, and a frame inside another
\* "jump" window is left, by the jump that follows it, for good.
Resumable(t) ==
  /\ env_[t].stack = t
  /\ env_[t].ret # "switch_threads"
  /\ t = 0 => env_[t].ret # "UThread"

\* Callers of switch_threads open the mask on their way out; uthread_sleep
\* does not, and it was saved closed.
MaskOnReturn(ret) == ret = "uthread_sleep"

QuantumStarted_FirstUncounted(tid) ==
  IF env_[tid].ret = "UThread" THEN num_of_quantums_running
  ELSE [num_of_quantums_running EXCEPT ![tid] = Bump(@)]

QuantumStarted_Twice(tid) ==
  [num_of_quantums_running EXCEPT ![tid] = Bump(Bump(@))]

\* num_of_quantums_running++
QuantumStarted(tid) ==
  [num_of_quantums_running EXCEPT ![tid] = Bump(@)]

\* siglongjmp, and the return from switch_threads on the other side.
siglongjmp ==
  \/ /\ Resumable(running_tid_)
     /\ at' = "user"
     /\ stack' = running_tid_
     /\ masked' = MaskOnReturn(env_[running_tid_].ret)
  \/ /\ ~ Resumable(running_tid_)
     /\ at' = "lost"
     /\ UNCHANGED <<stack, masked>>

\* One step, or, where the timer may expire in it, two.
startRunning ==
  /\ \/ /\ at = "jump"
        /\ num_of_quantums_running' = QuantumStarted(running_tid_)
        /\ siglongjmp
     \/ /\ "jump" \in WindowTicks
        /\ \/ /\ at = "jump" /\ at' = "counted"
              /\ num_of_quantums_running' = QuantumStarted(running_tid_)
              /\ UNCHANGED <<stack, masked>>
           \/ /\ at = "counted"
              /\ siglongjmp
              /\ UNCHANGED num_of_quantums_running
  /\ UNCHANGED <<all_threads_, free_ids_, retired, status_, env_, queues,
                 total_quantums, running_tid_>>

-----------------------------------------------------------------------------
(* SIGVTALRM *)

timer_handler ==
  \/ /\ at = "user"
     /\ ~ masked
     /\ switch_threads("READY", "timer_handler", status_, sleepers_)
  \/ /\ \/ "jump" \in WindowTicks /\ at \in {"jump", "counted"}
        \/ "leave" \in WindowTicks /\ at \in {"leave", "front", "picked"}
     /\ switch_threads("READY", "switch_threads", status_, sleepers_)

-----------------------------------------------------------------------------
(* The calls of the running thread *)

\* A call that returns FAILURE after block_vtAlarm leaves the signal masked.
Refuse ==
  /\ masked' = TRUE
  /\ UNCHANGED <<objects, status_, env_, queues, total_quantums, control>>

\* cleanup and exit.
Exit ==
  /\ at' = "exited"
  /\ masked' = TRUE
  /\ UNCHANGED <<objects, status_, env_, queues, total_quantums, running_tid_, stack>>

\* *free_ids_.begin()
IsFirstFree(tid) == tid \in free_ids_ /\ \A t \in free_ids_ : tid <= t

\* entry_point may be null, and the allocation may fail.  What the call reads
\* after it has opened the mask (line 379) is in UThreadsReturns.
uthread_spawn(entry_point) ==
  /\ at = "user"
  /\ \/ /\ free_ids_ = {} \/ entry_point = "nullptr"
        /\ Refuse
     \/ /\ free_ids_ # {} /\ entry_point # "nullptr"
        /\ Exit
     \/ /\ entry_point # "nullptr"
        /\ \E tid \in Tid :
             /\ IsFirstFree(tid)
             /\ free_ids_' = free_ids_ \ {tid}
             /\ all_threads_' = all_threads_ \cup {tid}
             /\ status_' = [status_ EXCEPT ![tid] = "READY"]
             /\ env_' = [env_ EXCEPT ![tid] = Context(tid, "UThread")]
             /\ num_of_quantums_running' = [num_of_quantums_running EXCEPT ![tid] = 0]
             /\ ready_tids_' = Append(ready_tids_, tid)
             /\ masked' = FALSE
             /\ UNCHANGED <<sleepers_, blocked_tids_, total_quantums, control, retired>>

Exists(tid) == tid \in all_threads_

Freed_Never(tid) == free_ids_

Freed(tid) == free_ids_ \cup {tid}

\* free_ids_.insert(tid), delete all_threads_[tid], all_threads_.erase(tid)
Delete(tid) ==
  /\ free_ids_' = Freed(tid)
  /\ all_threads_' = all_threads_ \ {tid}
  /\ status_' = [status_ EXCEPT ![tid] = "TERMINATED"]
  /\ env_' = [env_ EXCEPT ![tid] = Context(tid, "UThread")]
  /\ num_of_quantums_running' = [num_of_quantums_running EXCEPT ![tid] = 0]
  /\ retired' = (retired + num_of_quantums_running[tid]) % INT_RANGE

Unlink_BlockedOnly(tid) ==
  /\ blocked_tids_' = IF status_[tid] = "BLOCKED" THEN blocked_tids_ \ {tid}
                      ELSE blocked_tids_
  /\ UNCHANGED <<ready_tids_, sleepers_>>

\* The structures uthread_terminate takes a thread out of, by its status:
\* there is no case for a thread that is asleep.
Unlink(tid) ==
  /\ ready_tids_' = IF status_[tid] = "READY" THEN RemoveFirst(ready_tids_, tid)
                    ELSE ready_tids_
  /\ blocked_tids_' = IF status_[tid] = "BLOCKED" THEN blocked_tids_ \ {tid}
                      ELSE blocked_tids_
  /\ UNCHANGED sleepers_

\* The running thread's own case goes on in leave.
uthread_terminate(tid) ==
  /\ at = "user"
  /\ ~ KillsSleepers => status_[tid] # "ASLEEP"
  /\ \/ tid = 0 /\ Exit
     \/ tid # 0 /\ ~ Exists(tid) /\ Refuse
     \/ /\ tid # 0 /\ Exists(tid)
        /\ Delete(tid)
        /\ Unlink(tid)
        /\ at' = IF status_[tid] = "RUNNING" THEN "leave" ELSE at
        /\ masked' = FALSE
        /\ UNCHANGED <<total_quantums, running_tid_, stack>>

\* update_sleepers, and running_tid_ = ready_tids_.front().  Up to there an expiry
\* finds a deleted thread in running_tid_, as in "leave", and crashes.
pickFront ==
  /\ at = "leave"
  /\ \E woken \in Ascending(Awake(sleepers_)) :
       LET queue == Enqueued(woken, "TERMINATED") IN
       /\ Due(sleepers_) \subseteq all_threads_
       /\ ready_tids_' = queue
       /\ status_' = WakeStatus(status_, sleepers_)
       /\ sleepers_' = Countdown(sleepers_)
       /\ running_tid_' = NextTid(queue)
       /\ at' = IF queue = <<>> THEN "picked" ELSE "front"
       /\ UNCHANGED <<objects, env_, blocked_tids_, total_quantums, stack, masked>>

\* pop_front, and the new status, which an expiry in between would overwrite.
popFront ==
  /\ at = "front"
  /\ \/ /\ running_tid_ \in all_threads_
        /\ ready_tids_' = Tail(ready_tids_)
        /\ status_' = [status_ EXCEPT ![running_tid_] = "RUNNING"]
        /\ at' = "picked"
        /\ UNCHANGED <<objects, env_, sleepers_, blocked_tids_, total_quantums,
                       running_tid_, stack, masked>>
     \/ /\ running_tid_ \notin all_threads_
        /\ Crash

\* total_quantums ++
countTotal ==
  /\ at = "picked"
  /\ total_quantums' = Bump(total_quantums)
  /\ at' = "jump"
  /\ UNCHANGED <<objects, status_, env_, queues, running_tid_, stack, masked>>

\* switch_threads(TERMINATED), which line 422 calls with the mask open: one step,
\* or, where the timer may expire in it, three.
leave ==
  \/ /\ at = "leave"
     /\ switch_threads("TERMINATED", "uthread_terminate", status_, sleepers_)
  \/ "leave" \in WindowTicks /\ (pickFront \/ popFront \/ countTotal)

Unblockable_MainAllowed(tid) == ~ Exists(tid)

Unblockable(tid) == tid = 0 \/ ~ Exists(tid)

uthread_block(tid) ==
  /\ at = "user"
  /\ \/ Unblockable(tid) /\ Refuse
     \/ /\ ~ Unblockable(tid) /\ status_[tid] = "RUNNING"
        /\ switch_threads("BLOCKED", "uthread_block", status_, sleepers_)
     \/ /\ ~ Unblockable(tid) /\ status_[tid] = "READY"
        /\ ready_tids_' = RemoveFirst(ready_tids_, tid)
        /\ blocked_tids_' = blocked_tids_ \cup {tid}
        /\ status_' = [status_ EXCEPT ![tid] = "BLOCKED"]
        /\ masked' = FALSE
        /\ UNCHANGED <<objects, env_, sleepers_, total_quantums, control>>
     \/ /\ ~ Unblockable(tid) /\ status_[tid] \in {"ASLEEP", "BLOCKED"}
        /\ blocked_tids_' = IF status_[tid] = "ASLEEP" THEN blocked_tids_ \cup {tid}
                            ELSE blocked_tids_
        /\ masked' = FALSE
        /\ UNCHANGED <<objects, status_, env_, sleepers_, ready_tids_,
                       total_quantums, control>>

uthread_resume(tid) ==
  /\ at = "user"
  /\ \/ ~ Exists(tid) /\ Refuse
     \/ /\ Exists(tid)
        /\ blocked_tids_' = IF status_[tid] \in {"BLOCKED", "ASLEEP"}
                            THEN blocked_tids_ \ {tid} ELSE blocked_tids_
        /\ IF status_[tid] = "BLOCKED"
           THEN /\ ready_tids_' = Append(ready_tids_, tid)
                /\ status_' = [status_ EXCEPT ![tid] = "READY"]
           ELSE UNCHANGED <<ready_tids_, status_>>
        /\ masked' = FALSE
        /\ UNCHANGED <<objects, env_, sleepers_, total_quantums, control>>

Emplace_OneMore(tid, n) ==
  IF sleepers_[tid] = -1 THEN [sleepers_ EXCEPT ![tid] = n + 1] ELSE sleepers_

\* sleepers_.emplace keeps the entry that is there.
Emplace(tid, n) ==
  IF sleepers_[tid] = -1 THEN [sleepers_ EXCEPT ![tid] = n] ELSE sleepers_

uthread_sleep(num_quantums) ==
  /\ at = "user"
  /\ \/ /\ running_tid_ = 0 \/ num_quantums < 0
        /\ Refuse
     \/ /\ running_tid_ # 0 /\ num_quantums >= 0
        /\ switch_threads("ASLEEP", "uthread_sleep",
                          [status_ EXCEPT ![running_tid_] = "ASLEEP"],
                          Emplace(running_tid_, num_quantums))

uthread_get_quantums_StaysMasked(tid) ==
  /\ at = "user"
  /\ masked' = TRUE
  /\ UNCHANGED <<objects, status_, env_, queues, total_quantums, control>>

\* What it leaves behind is the mask; its read after that (line 559) is in
\* UThreadsReturns.
uthread_get_quantums(tid) ==
  /\ at = "user"
  /\ masked' = ~ Exists(tid)
  /\ UNCHANGED <<objects, status_, env_, queues, total_quantums, control>>

\* The process is over, or nothing more is said of it.
Over == at \in {"exited", "crashed", "lost"}

Done == Over /\ UNCHANGED vars

Next ==
  \/ startRunning
  \/ timer_handler
  \/ leave
  \/ \E entry_point \in {"nullptr", "function"} : uthread_spawn(entry_point)
  \/ \E tid \in Tid :
       \/ uthread_terminate(tid)
       \/ uthread_block(tid)
       \/ uthread_resume(tid)
       \/ uthread_get_quantums(tid)
  \/ \E num_quantums \in -1 .. MAX_SLEEP : uthread_sleep(num_quantums)
  \/ Done

Spec == Init /\ [][Next]_vars

-----------------------------------------------------------------------------
(* Properties *)

TypeOK ==
  /\ all_threads_ \subseteq Tid
  /\ status_ \in [Tid -> Status]
  /\ env_ \in [Tid -> [stack : Tid, ret : Ret]]
  /\ num_of_quantums_running \in [Tid -> 0 .. INT_RANGE - 1]
  /\ sleepers_ \in [Tid -> -1 .. MAX_SLEEP]
  /\ blocked_tids_ \subseteq Tid
  /\ ready_tids_ \in Seq(Tid)
  /\ free_ids_ \subseteq Tid
  /\ total_quantums \in 0 .. INT_RANGE - 1
  /\ running_tid_ \in Tid
  /\ masked \in BOOLEAN
  /\ at \in At
  /\ stack \in Tid
  /\ retired \in 0 .. INT_RANGE - 1

Ready == ToSet(ready_tids_)
Asleep == {t \in Tid : sleepers_[t] >= 0}

\* Every id but main's is free exactly when no thread has it, whatever the
\* clients and the timer do: uthread_spawn can always take the smallest one.
IdsPartition ==
  /\ 0 \in all_threads_
  /\ free_ids_ = Tid \ all_threads_

\* The main thread runs or waits in the ready queue: insert_ready_to_running
\* never sees an empty queue ("what about empty ready qeueue??",
\* uthreads.cpp:255), and a switch always has somewhere to go.
MainAlwaysSchedulable ==
  ~ Over => running_tid_ = 0 \/ 0 \in Ready

\* A thread whose status is READY is in the ready queue, so the std::find of
\* uthread_terminate and uthread_block (425, 463) never returns end().
ReadyThreadsAreQueued ==
  ~ Over => \A t \in all_threads_ : status_[t] = "READY" => t \in Ready

\* The running thread, and no other, has status RUNNING (or MAIN, before the
\* first switch), also between a switch and its jump; only in uthread_terminate's
\* window is there no running thread: running_tid_ is the id of one just deleted,
\* or of the one that is to run and is still at the front of the queue.
OneRunning ==
  /\ at \in {"user", "picked", "jump", "counted"} =>
       /\ running_tid_ \in all_threads_
       /\ \A t \in Tid : status_[t] \in {"RUNNING", "MAIN"} <=> t = running_tid_
  /\ at = "leave" =>
       /\ running_tid_ \notin all_threads_
       /\ \A t \in Tid : status_[t] \notin {"RUNNING", "MAIN"}
  /\ at = "front" =>
       /\ ready_tids_ # <<>> /\ running_tid_ = Head(ready_tids_)
       /\ \A t \in Tid : status_[t] \notin {"RUNNING", "MAIN"}
  /\ \A t \in Tid : status_[t] = "MAIN" => t = 0

\* The five together are inductive.
SchedulerInv ==
  /\ TypeOK
  /\ IdsPartition
  /\ MainAlwaysSchedulable
  /\ ReadyThreadsAreQueued
  /\ OneRunning

\* Every thread is in exactly one place, once: running, in the ready queue,
\* blocked, or asleep (a sleeper may be blocked too, and then stays blocked
\* when its time is over); ids no thread has are in none of them.
OnePlace ==
  ~ Over =>
    /\ IsInjective(ready_tids_)
    /\ Ready = {t \in Tid : status_[t] = "READY"}
    /\ Asleep = {t \in Tid : status_[t] = "ASLEEP"}
    /\ blocked_tids_ \ Asleep = {t \in Tid : status_[t] = "BLOCKED"}
    /\ all_threads_ = {t \in Tid : status_[t] # "TERMINATED"}
    /\ blocked_tids_ \subseteq all_threads_ \ {0}

\* The control never goes through a pointer of a thread that is gone, nor into
\* a frame that is gone or another thread's.
NeverCrashes == at \notin {"crashed", "lost"}

\* Every thread has its own stack (tests/jona3.cpp:2): what runs in its name
\* runs there, and the context it will continue from was saved there, by its
\* own code: of every thread but the one that runs, and of that one too while
\* it is about to be jumped to.
OwnContext ==
  /\ at \in {"user", "leave"} =>
       /\ stack = running_tid_
       /\ \A t \in all_threads_ \ {running_tid_} : Resumable(t)
  /\ at = "jump" => \A t \in all_threads_ : Resumable(t)

\* tests/test4.in.cpp:69-73: the quanta of the threads, with those of the
\* threads deleted since, add up to the total; the one being switched to is
\* counted in the total first and in its thread at the jump.
QuantumSum ==
  LET sum == retired + MapThenSumSet(LAMBDA t : num_of_quantums_running[t], all_threads_)
  IN  /\ at \in {"user", "leave"} => total_quantums = sum % INT_RANGE
      /\ at = "jump" => total_quantums = (sum + 1) % INT_RANGE

\* The threads in front of t in the ready queue.
Ahead(t) ==
  {ready_tids_[i] : i \in {k \in DOMAIN ready_tids_ :
                              \E j \in DOMAIN ready_tids_ : k < j /\ ready_tids_[j] = t}}

\* Round robin ("added to the end of the READY threads list", uthreads.h:35,
\* 85): while a thread waits in the ready queue nobody gets in front of it,
\* and only threads that were in front of it get to run.
NoOvertaking ==
  [][\A t \in Ready : t \in Ready' =>
       /\ Ahead(t)' \subseteq Ahead(t)
       /\ running_tid_' # running_tid_ => running_tid_' \in Ahead(t)]_vars

-----------------------------------------------------------------------------
(* Liveness.  startRunning and leave are instructions in a row.  The virtual *)
(* timer is periodic and its signal stays pending while it is masked, so a   *)
(* tick is delivered if the mask is open again and again, not only forever.  *)

Fairness ==
  /\ WF_vars(startRunning)
  /\ WF_vars(leave)
  /\ SF_vars(timer_handler)

FairSpec == Spec /\ Fairness

\* What the client must do for the timer to work: make a call that opens the
\* mask again after each one that left it closed.
KeepsOpening == []<>(~ masked)

\* A ready thread does not wait forever: it runs, or somebody takes it out of
\* the queue, or the process ends.
ReadyEventuallyRuns ==
  KeepsOpening => \A t \in Tid : t \in Ready ~> (Over \/ t \notin Ready)

\* A sleeping thread wakes up.
SleepersWake ==
  KeepsOpening => \A t \in Tid : t \in Asleep ~> (Over \/ t \notin Asleep)

-----------------------------------------------------------------------------
(* What the documentation and the tests say, and the code does not do *)

\* uthread_terminate "deletes it from all relevant control structures"
\* (uthreads.h:46): the id of a thread that is gone is in none of them.
DeletedEverywhere ==
  ~ Over => \A t \in Tid \ all_threads_ :
               t \notin Ready /\ t \notin blocked_tids_ /\ t \notin Asleep

\* "each thread has its own unique stack" (tests/jona3.cpp:2): the context a
\* thread will continue from is on its own stack.
OwnStack == ~ Over => \A t \in all_threads_ : env_[t].stack = t

\* A thread that terminates itself gives the processor to another one; only
\* terminating the main thread ends the process (uthreads.h:49-50).
SelfTerminationSwitches == [][at = "leave" => at' # "crashed"]_vars

\* The timer works while client code runs: no library call returns with
\* SIGVTALRM still masked: "blocked without unblocking" (main.cpp:29) is what
\* check_block_timer, which a test may call (main.cpp:16-18), reports as a fault.
TimerOpenInUserCode == at = "user" => ~ masked

=============================================================================
