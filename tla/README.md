# A verification of the user-level threads library

The repository is a library of user-level threads for one kernel thread
(`uthreads.h`, `uthreads.cpp`), preempted by `SIGVTALRM` from a
virtual interval timer and switched with `sigsetjmp`/`siglongjmp`. It also holds
a second implementation of nearly the same interface with a mutex (`nim/`),
test clients (`main.cpp`, `tests*.cpp`, `tests/`), three demos, and a vendored
googletest. This directory models the library in TLA+, checks the models with
TLC and proves the library's safety properties with TLAPS.

## The system

| Part | State | Operations | Interacts with |
|---|---|---|---|
| Scheduler, `uthreads.cpp:139-302` | `all_threads_`, `ready_tids_`, `blocked_tids_`, `running_tid_`, `total_quantums` | `switch_threads`, `insert_ready_to_running`, the calls `uthread_spawn`, `terminate`, `block`, `resume` | called by the client and by the timer's handler |
| Sleep list, `uthreads.cpp:236-251, 511-535` | `sleepers_`: quanta left per sleeping thread | `update_sleepers`, `uthread_sleep` | counts down at every switch, feeds the ready queue |
| Thread ids, `uthreads.cpp:337, 365-375, 403-410` | `free_ids_` | allocate the smallest, give back | `uthread_spawn`, `uthread_terminate` |
| Contexts, `UThread`, `uthreads.cpp:95-137` | `env_`, `stack_`, `status_`, `num_of_quantums_running` | constructors, `saveEnvironment`, `startRunning` | the scheduler jumps into them |
| Timer and mask, `uthreads.cpp:179-234, 304-319` | the process's signal mask, the interval timer | `block_vtAlarm`, `unblock_vtAlarm`, `timer_handler`, `start_timer`, `reset_timer` | every call closes the mask first and should open it last |
| `nim/uthreads.cpp`, `nim/Thread.cpp` | `ready`, `blocked`, `mutexBlocked`, `allThreads`, `running`, `mutex` | the same calls without sleep, and `uthread_mutex_lock`, `uthread_mutex_unlock` | as above |
| Clients: `main.cpp`, `tests.cpp`, `tests_to_be_ran_separately.cpp`, `tests/` | globals, loops | every library call, in every thread | the library |
| `demos/` | - | `sigsetjmp`, `setitimer`, `sigaction` by example | nothing |

What is hard here:

* **Interleaving.** The client is interrupted between any two instructions at
  which the mask is open. The calls open it too early in two places
  (`uthreads.cpp:299` and `:421`; after the latter the whole switch to the next
  thread, 269-300, runs with the mask open) and read thread objects after opening
  it in two more (`:379`, `:559`).
* **Redundant state.** Where a thread is, is said by `status_`, by three
  containers, by `running_tid_` and by `free_ids_`. Each is updated by different
  functions.
* **Two ways to wait.** A sleeping thread can be blocked and resumed, and wakes
  up as blocked or ready accordingly.
* **Object lifetime.** A thread may terminate any other, or itself, while its id
  is queued, sleeping, or the one being switched to.
* **A mutex handed over.** In `nim/`, unlocking, or terminating the owner, makes
  a waiting thread the owner before it runs; it may be blocked too, and main may
  be among those who wait, so that the ready queue need not have anybody in it.
* **Counting.** Sleeps are counted in quanta "regardless of the reason", the
  caller's own not counted. Quanta are counted per thread and in total, at
  different moments.
* **Clients that wait for each other.** The tests block, resume, sleep and
  terminate across threads, wait in loops for a thread to have got somewhere or
  for a counter to equal a value, and rely on quanta being long enough, or say
  they do not.

What makes each part correct, and where it is stated:

| Part | Property |
|---|---|
| Thread ids | a free id is nobody's and the others are somebody's (`IdsPartition`) |
| Scheduler | somebody can always be run (`MainAlwaysSchedulable`), one thread runs (`OneRunning`), lookups in the queue succeed (`ReadyThreadsAreQueued`), each thread is in exactly one place, once (`OnePlace`), first in, first out (`NoOvertaking`), no starvation (`ReadyEventuallyRuns`) |
| Sleep list | sleepers wake (`SleepersWake`), in the right quantum (`ImplementsAPI`) |
| Contexts | a thread continues on its own stack in a frame that exists (`OwnContext`, `NeverCrashes`) |
| Late reads | they go wrong only if the thread was terminated meanwhile (`OnlyStaleReadsFail`) |
| Counters | the quanta of the threads add up to the total (`QuantumSum`) |
| The whole | it does what `uthreads.h` says (`ImplementsAPI`) |
| Clients | the tests' expectations hold (`ExpectationsMet`), they end (`TestsEnd`), no quantum waited for is missed (`EndNotPassed`), nobody waits with the timer masked (`NoDeafWait`), they drive the library through nothing stale except by returning from an entry function (`LostByReturning`, `NothingLost`), until then all that happens is what `uthreads.h` describes (`KeepsContract`), their threads keep to their text (`ClientsTypeOK`) |
| `nim`: threads | each thread is in one place (`NimThreads!OnePlace`), first in, first out (`NimThreads!NoOvertaking`), a switch finds somebody (`SomebodyReady`) |
| `nim`: mutex | one thread at a time is between lock and unlock (`MutualExclusion`), the mutex is passed on as described (`ImplementsMutex`), its heir gets in (`HeirGetsIn`) |

## The modules

**`UThreads`** is `uthreads.cpp`. The variables have the names of the globals
and of `UThread`'s members, and there is one action for each library call and
one for `timer_handler`. Four variables are not in the code:

* `at` says where control is. `"user"`: in client code, or at the end of a call
  that has opened the mask. `"exited"`, `"crashed"` (through a null pointer) and
  `"lost"` (jumped into a frame that is gone or another thread's) are ends: what
  happens afterwards is not modelled. The others are inside a call that runs on
  with the mask open:

  | `at` | between | meanwhile |
  |---|---|---|
  | `"leave"` | 421 and 262 | `running_tid_` is the id of the deleted thread |
  | `"front"` | 262 and 264 | it is the front of the queue, not yet popped |
  | `"picked"` | 265 and 287 | the next thread, its quantum not yet in the total |
  | `"jump"` | 299 (287 from `uthread_terminate`) and 124 | the same, counted in the total |
  | `"counted"` | 124 and 125 | the same, counted in the thread too |
* `masked` says whether `SIGVTALRM` is in the process's mask.
* `stack` is the thread on whose stack control is. It differs from
  `running_tid_` between a switch and its jump.
* `retired` is a history variable for `QuantumSum`.

A call is one action where it runs with the signal masked, up to the point where
the code opens the mask before it is done: line 299 in every switch, whose rest is
`startRunning` (124, 125, and the return of `switch_threads` in the next thread,
with the mask the caller there leaves), and line 421 in `uthread_terminate`, whose
rest is `leave`: `switch_threads(TERMINATED)` (269-288), called with the mask open.
These two are one step each where the timer does not expire in them. Where it may,
they are the steps between the control points above (`pickFront`, `popFront`,
`countTotal`, `siglongjmp`), and `timer_handler` is enabled at each. There are no
more control points because an expiry elsewhere has the outcome of one that is
modelled: up to 262 the handler goes through the deleted thread's null pointer
(279), however far `update_sleepers` has got; between 264 and 265 it overwrites the
status that 265 would set; what is left in registers (124, 287) is not used
again, since the context that would use it counts as lost. The operations of the
containers themselves (244, 264) are taken as uninterrupted.

A signal that comes while it is
masked stays pending and is delivered when the mask is opened, before the next
instruction; so it makes no difference whether it came before or then, and there
is no variable for it. `env_` is abstracted to the stack a context is on and the
function it was saved in: that decides whether it can be resumed (`Resumable`)
and whether the mask is open afterwards (`MaskOnReturn`). A thread in
`sleepers_` has the number of quanta left, others -1.

Two constants are switches for the environment, so that one model answers
separate questions: `WindowTicks`, the windows in which the timer may expire
(`"leave"`: the switch of `uthread_terminate`, `at` from `"leave"` to `"picked"`;
`"jump"`: `at` `"jump"` and `"counted"`), and `KillsSleepers` (may clients
terminate sleeping threads?).

**`UThreadsAPI`** is the contract in `uthreads.h`: threads, the READY list,
blocked threads, the number of the quantum in which each sleeper gets up.
It has no masks, contexts, counters or windows.

**`UThreadsRefinement`** maps `UThreads` to `UThreadsAPI`: the number of quanta a
sleeper has left becomes the number of the quantum in which it is back, and a
thread that is in the middle of terminating itself still counts as there. A
crash maps to a state the contract does not have.

**`UThreadsReturns`** extends `UThreads` with the two calls that read a thread
object after they have opened the mask: `uthread_spawn` (379, through a pointer)
and `uthread_get_quantums` (559, by a second lookup). `late` says which read a
thread's call has still to do, and whether the object was deleted meanwhile;
until then the thread makes no other call. `OnlyStaleReadsFail` says when such a
read can fail; no run checks it, since it is a theorem (below).

**`NimThreads`** is `nim/uthreads.cpp` with `nim/Thread.cpp`. There no call opens
the mask before it is done: a switch leaves it closed until `switchThread` has
returned in the next thread, which then opens it. So each call, and
`alarmSigHandler`, is one action that ends with the next thread in its own code.
`env` says in which function a thread continues: a thread that continues in
`uthread_mutex_lock` returns SUCCESS without looking at the mutex again, and so
gets into the history variable `inside`. `mutexBlocked` is an `unordered_map`:
which of the waiting threads it yields first is a nondeterministic choice.
Taking the front of an empty queue leads to the state `"undefined"`. The quantum
counters are left out. The history variable `lockerBlocked` says whether a
thread has been blocked that owned the mutex or waited for it.

**`NimMutex`** is what the comments in that file say of the mutex.

**`ClientPrograms`** holds the tests of `main.cpp`, `tests.cpp` and
`tests_to_be_ran_separately.cpp` as data: a program has a main routine and entry
functions, each a sequence of statements. A statement is a library call with the
result the test expects, or an access to the test's globals; loops that print or
copy memory are left out, since the timer may expire between any two statements
anyway. A flag that a thread sets when it has got somewhere (`flag`, `ran`,
`awake`, `thread_status[i]`, ...) is a mark of that thread. `TestPrograms` gives
each its name.

**`Clients`** composes them with `UThreads`. Each thread has a routine, a program
counter and one local (the end of a `threadQuantumSleep`, or the register of a
`++`). A statement is executed by the running thread, in its own code
(`at = "user"`); a library call takes the action of `UThreads`, with the
arguments the test gives, and compares what the call returns with what the test
expects. A routine that is at its end returns: main's ends the process, an entry
function has nowhere to return to (`"lost"`). The programs are a constant,
`Text`, which the runs set to `TestPrograms`, so that theorems can be about every
program: `TextAssumption` says what a program is (`WellFormed`), and
`SleepersAssumption` that its text either has no `uthread_sleep` or has no thread
terminate others than itself and main (`SparesSleepers`). TLC checks both of the
twenty programs there are. If the constant `Prompt` is TRUE,
the timer expires only while the running thread waits for something that has not
happened: the assumption on the length of a quantum that
`tests_to_be_ran_separately.cpp:142-146` states. If it is FALSE, it may expire
between any two statements.

**`ClientsRefinement`** maps the composition to `UThreadsAPI`, as
`UThreadsRefinement` maps `UThreads` alone: a main that returns is an exit there,
and an entry function that returns is nothing the contract speaks of.

**`MCUThreads`** holds the one state constraint TLC needs.

**`Collections_proofs`** holds lemmas about queues and sums, and
**`UThreads_proofs`**, **`UThreadsPlaces_proofs`**, **`UThreadsContexts_proofs`**,
**`UThreadsRefinement_proofs`**, **`UThreadsReturns_proofs`**,
**`Clients_proofs`** and **`NimThreads_proofs`** the theorems.

A definition of `UThreads`, `Clients` or `NimThreads` named `X_Y`, with a capital `Y`, is
`X` with a plausible mistake `Y` (a dropped case, an off-by-one, a wrong order):
for each property there is one that breaks it. Names in lower case, such as
`test_sleep` or `switch_threads`, are those of the source.

## The runs

| Run | Module | Threads, sleep, counters | `WindowTicks` | `KillsSleepers` | States | Checks |
|---|---|---|---|---|---|---|
| `Anything` | `MCUThreads` | 3, 1, mod 1 | `{"jump", "leave"}` | yes | 291,325 | `TypeOK`, `IdsPartition`, `MainAlwaysSchedulable`, `ReadyThreadsAreQueued`, `OneRunning` |
| `Disciplined` | `UThreads` | 4, 1, mod 1 | `{"jump"}` | no | 180,026 | `OnePlace`, `NoOvertaking` |
| `Quiet` | `UThreadsRefinement` | 3, 1, mod 3 | `{}` | no | 54,291 | `NeverCrashes`, `OwnContext`, `QuantumSum`, `ImplementsAPI`, `ReadyEventuallyRuns`, `SleepersWake` |
| `Nim` | `NimThreads` | 4 | | | 139,371 | `TypeOK`, `OnePlace`, `MutualExclusion`, `SomebodyReady`, `ImplementsMutex`, `NoOvertaking`, `HeirGetsIn` |
| `Tests` | `ClientsRefinement` | 7, 30, mod 64 | `{}` | yes | 2,648 | `ClientsTypeOK`, `ExpectationsMet`, `EndNotPassed`, `KeepsContract`, `TestsEnd` |
| `Preempted` | `Clients` | 7, 30, mod 1 | `{}` | yes | 27,002 | `ExpectationsMet`, `NoDeafWait`, `OnePlace`, `LostByReturning`, `NothingLost`, `TestsEnd` |
| `KilledSleeper` | `UThreads` | 2, 1 | `{}` | yes | | violates `DeletedEverywhere` |
| `SwitchWindow` | `UThreads` | 2, 0 | `{"jump"}` | no | | violates `OwnStack` |
| `TerminateWindow` | `UThreads` | 2, 0 | `{"leave"}` | no | | violates `SelfTerminationSwitches` |
| `TimerMask` | `UThreads` | 2, 0 | `{}` | no | | violates `TimerOpenInUserCode` |
| `LateRead` | `UThreadsReturns` | 2, 0 | `{}` | no | | violates `AnswersRight` |
| `SmallestQuantum` | `Clients` | 3, 0 | `{}` | yes | | violates `SmallestQuantumWorks` |

What they show:

* `Anything`. The invariants that hold whatever happens. In particular the
  question in the code, "what about empty ready qeueue??" (255), has an answer:
  it can be empty only if main is the running thread and stays it.
  They hold with the timer expiring wherever the mask is open, also between the
  lines of the switch that `uthread_terminate` makes.
* `Disciplined`. Blocking, sleeping, resuming and waking up in every order leave
  every thread in one place; `status_` and the containers agree; the queue is
  first in, first out. The timer may expire in client code and before any jump,
  but not in the switch of `uthread_terminate` (`"leave"`). There `OnePlace` and
  `NoOvertaking` are false: an expiry between 262 and 264 pushes the next thread
  while it is still at the front and then runs it, so that it runs and is queued,
  at the end; after a second one before the jump it is queued twice.
* `Quiet`. Without signals where the mask was opened too early, control never goes through a stale
  pointer or context: main's constructor context (whose frame is gone, 108) is
  always replaced before it is used, spawned threads start at their entry point
  on their own stack. No quantum is lost or counted twice. A sleep of n lasts
  exactly n quanta, not counting the caller's, whoever is blocked, resumed,
  spawned or terminated meanwhile. Nobody starves and every sleeper wakes,
  provided the client makes a call that opens the mask after each one that left
  it closed.
* `Nim`. In the other library every thread is in one place and the mutex is one
  thread's at a time, whatever clients do, and a thread that is passed the mutex
  gets in. The four places where a thread gets ready all put it behind the others. `ready.front()` (203) never meets an empty queue, also while main
  waits, unless somebody has blocked a thread that owned the mutex or waited for
  it: if the owner blocks itself, main can wait for it, and then nobody is ready.
  No text of the repository says that this is a mistake, so there is no run for
  it.
* `Tests`. With quanta as long as the tests assume, all twenty tests get every
  result they expect: the order of `Test3`, the ids after terminating and
  spawning in any order (`Test4`, `Test6`), the failures of `InputCheck`. No
  `threadQuantumSleep` passes the quantum it waits for. All of them end, but
  for `TestSleep` one of whose threads may return from its entry function first.
  Until that happens every step is one `uthreads.h` describes, although the
  library would let these programs terminate sleepers.
* `Preempted`. The tests whose quanta are a microsecond or two, and those that
  say nothing about the length, with the timer expiring between any two
  statements: what they expect still holds, and none waits with the timer
  masked. All but three end. A thread of `Jona2` that is preempted before it
  has blocked itself is resumed too early, and blocks itself afterwards for good.
  `Test4` can lose an increment of `ranAtLeastOnce`. `T1` of `TestSleep` may
  return. `LostByReturning` says that this is the one way to get the library to
  use an object or frame that is gone, and only in programs with an entry
  function that does not end by terminating the thread or waiting for ever;
  `NothingLost`, that no test but `TestSleep` gets there: most entry functions end
  properly, and in the others, such as those that terminate themselves by their
  number, or `BlockMyself`, which nobody resumes, the end is not reached.
* The other six are places where the code does not do what its documentation
  or tests say; `PROJECT.json` quotes both sides under "findings".
  `KilledSleeper`: uthread_terminate has no case for ASLEEP (412).
  `SwitchWindow`, `TerminateWindow`: the mask opened too early, at 299 and 421.
  `TimerMask`: calls that return FAILURE, and `uthread_sleep`, leave the signal
  masked. `LateRead`: the reads of lines 379 and 559. `SmallestQuantum`: "even
  the smallest quantum should work" (`tests_to_be_ran_separately.cpp:309`), and
  the increment that is lost.

**Bounds.** `MAX_THREAD_NUM` is 3 or 4 instead of 100: main and two others are
enough for one thread to act on another while the third waits between them; four
for the queue orders. `MAX_SLEEP` 1 distinguishes 0, the entry that expires in
the caller's own switch, from a longer one and lets two sleepers expire together
or apart. Counters are ints that only grow: they are taken modulo
`INT_RANGE`, and modulo 1 (no counters) where no property reads them. The `int`s
themselves would overflow after 2^31 quanta; that is not modelled. A stale
`sleepers_` entry, or an expiry between 262 and 264 in `uthread_terminate`, lets a
thread be queued more than once, so the queue of `Anything` is bounded by `QueueBound`; in the other runs it is bounded by itself.
The proofs need none of these bounds.

The client runs have as many threads as the tests use (`MAX_THREAD_NUM` 7: `main`
and the six of `TerminateAndSpawn`) instead of 100, so the tests that fill all
ids spawn six; `SPAWN_COUNT` of `Test4` is 6 or 4 ("you can lower this", 321),
`ITER_COUNT` of `Test6` 4 or 6 operations of 1000, each on any active thread;
the threads of `Jona2` resume the next one twice instead of 50 times. Sleeps have
the lengths the tests give, up to 30. In `Tests` the counters go up to 63, more than any
quantum a test waits for, compares or records, and more than the longest sleep,
as the mapping to `UThreadsAPI` needs (`SleepFits`); in `Preempted` and `SmallestQuantum` there are no
counters, so a wait for ten quanta may be over at any time. `Preempted` leaves
out the programs whose quanta are long, `Test1` to `Test3`, and
`test_switch_4_threads`: its threads terminate themselves by literal number,
which is right only if none ends before all four are spawned, and what sees to
that is the 100000 prints each makes.

**Fairness.** `startRunning` and `leave` are the next instructions of a running
process: weakly fair. The virtual timer is periodic (`it_interval`, 186), counts
whenever the process runs, and a signal that comes while masked is kept pending
and delivered when the mask opens. So a tick is delivered even if the mask is
open only now and again, provided that happens for ever: strong fairness of
`timer_handler`. That it does happen is up to the client (`KeepsOpening`), as the
run `TimerMask` shows; it is the hypothesis of the liveness properties. The same
holds for `alarmSigHandler` in `NimThreads`, where only a failing `uthread_spawn`
leaves the signal masked. In `Clients` it is no hypothesis, since the tests make
such calls or do not. There each thread's own steps are strongly fair too: a
quantum is a stretch of processor time, so a thread that is given one again and
again executes its next statement.

**Assumptions of the models.** The build is the Makefile's (`g++ -g`, no
optimisation). It matters: `saveEnvironment`, and `Thread::saveEnv`, return before
their context is jumped to, which C++ leaves undefined. In this build the frame
they return through a second time holds the return address of the call made in
its place, that of `startRunning` (`startThread`), so that control comes out
behind that call, where the code means it to. A context that was saved below
frames left since counts as lost. System calls with
the constant arguments the code passes do not fail; allocation in
`uthread_spawn` may. Nothing overwrites the freed stack on which a thread that
terminates itself runs on until the jump (409-423). Stacks do not overflow.
Clients start with `uthread_init` (`uthreads.h:22`); those of `UThreads` and
`NimThreads` do not return from entry functions. Of the tests, each runs in a
process of its own, as the name of `tests_to_be_ran_separately.cpp` asks; there
is enough memory; the windows are closed (`WindowTicks` = {}: what comes of a
signal in them does not depend on the test). `ASSERT_EXIT` calls
`uthread_terminate(0)` in a forked process, which is the one followed.
`KillsSleepers` is TRUE: `Test4` and `Test6` may terminate any thread, though
none of theirs sleeps.

## The proofs

`UThreads_proofs` proves, for every `MAX_THREAD_NUM`, `MAX_SLEEP` and
`INT_RANGE` the assumptions in `UThreads` allow, with sleepers terminated or not and
the timer expiring in any of the windows:

* `SchedulerInvariant`: `Spec => []SchedulerInv`, where `SchedulerInv` is the
  conjunction of `TypeOK`, `IdsPartition`, `MainAlwaysSchedulable`,
  `ReadyThreadsAreQueued` and `OneRunning`. None of the last three is inductive
  alone: that main is schedulable after a switch needs that the head of the
  queue is a thread or main; that a thread leaving the queue is not READY needs
  that only the running thread's status is RUNNING; that the running thread can
  be put in a queue needs that it exists, hence the ids.
* `TypeCorrect`, `IdsArePartitioned`, `MainIsSchedulable`, `ReadyAreQueued`,
  `OneThreadRuns`: the conjuncts.

The step proof treats `switch_threads` once, as a lemma about any caller's
`status_` and `sleepers_`, the parts into which it falls in `uthread_terminate`
one by one (`PickFrontInv`, `PopFrontInv`, `CountTotalInv`), and then each action. Lemmas say what pushing,
popping and `RemoveFirst` do to the set of queued ids.

It also proves `QuantaAddUp`: `WindowTicks = {} /\ Spec => []QuantumSum`.

These results need more than that:

| Theorem | States | If | Without it |
|---|---|---|---|
| `QuantaAddUp` (`UThreads_proofs`) | `QuantumSum` | `WindowTicks = {}` | a quantum counted in the total only |
| `EveryThreadInOnePlace` (`UThreadsPlaces_proofs`) | `OnePlace` | `~ KillsSleepers`, `"leave" \notin WindowTicks` | `KilledSleeper`; an expiry between 262 and 264 |
| `DeletedUnlessAsleep` (`UThreadsPlaces_proofs`) | `DeletedEverywhere` | `~ KillsSleepers`, `"leave" \notin WindowTicks` | `KilledSleeper`; two expiries after 262, and the thread queued twice terminates itself |
| `RoundRobin` (`UThreadsPlaces_proofs`) | `NoOvertaking` | `~ KillsSleepers`, `"leave" \notin WindowTicks` | a thread queued twice; the front of the queue put at its end |
| `NothingCrashes`, `EveryContextOwn` (`UThreadsContexts_proofs`) | `NeverCrashes`, `OwnContext` | `~ KillsSleepers`, `WindowTicks = {}` | `SwitchWindow`, `TerminateWindow` |
| `StacksAreOwn`, `SelfTerminationWorks` (`UThreadsContexts_proofs`) | `OwnStack`, `SelfTerminationSwitches` | `~ KillsSleepers`, `WindowTicks = {}` | `SwitchWindow`, `TerminateWindow` |
| `LibraryImplementsHeader` (`UThreadsRefinement_proofs`) | `ImplementsAPI` | `~ KillsSleepers`, `WindowTicks = {}`, `SleepFits` | the same runs |
| `LateReadsOnly` (`UThreadsReturns_proofs`) | `OnlyStaleReadsFail` | `~ KillsSleepers`, `WindowTicks = {}` | the same runs |
| `EndIsNotPassed` (`Clients_proofs`) | `EndNotPassed` | `Prompt` | a quantum that ends between the two reads |
| `ClientsOnePlace`, `ClientsLostByReturning` (`Clients_proofs`) | `OnePlace`, `LostByReturning` | `WindowTicks = {}`, `SparesSleepers` | the same runs |
| `ClientsRoundRobin` (`Clients_proofs`) | `NoOvertaking` | `WindowTicks = {}`, `SparesSleepers` | a thread queued twice |
| `ClientsKeepContract` (`Clients_proofs`) | `KeepsContract` | `WindowTicks = {}`, `SparesSleepers`, `SleepFits` | the same runs |
| `ProperClientsImplementHeader` (`Clients_proofs`) | `ImplementsAPI` | the same, and every program `EndsProperly` | `TestSleep`, whose `T1` returns |

`DeletedEverywhere`, `OwnStack` and `SelfTerminationSwitches` are what three of
the violating runs refute. The theorems say that there is no other cause: each
holds where the run's switch is off. `OnlyStaleReadsFail` narrows what `LateRead`
refutes in the same way: a wrong answer of `uthread_spawn`, or a crash, comes from
a thread terminated between a call's two looks at it, and from nothing else.

* `QuantumSum` compares the total, modulo `INT_RANGE`, with a sum over a set of
  threads. The sum is a fold, which is defined by recursion on the set's size, and
  the provers cannot use the induction theorems. So `Collections_proofs` says what
  it means that a function on subsets adds a counter up (`AddsUp`), and shows that
  there is such a function for every finite set, that the fold is it, and that
  changing, adding or removing one element changes it by as much; where induction
  is needed, it takes a smallest counterexample of the natural numbers.
  `QuantumSum` is inductive relative to `SchedulerInv`, which says that a new thread
  is not yet among those added up, and that who is jumped to is.
* `OnePlace` is inductive relative to `SchedulerInv`. Its steps go through
  `Placed(st, sl)`, `OnePlace` with `status_` and `sleepers_` as parameters,
  because `uthread_sleep` changes both before it calls `switch_threads`, and
  through `MovePlaces`, which says that moving one thread consistently preserves
  it. The step needs only that it terminates nobody asleep (`SparesSleeping`), so
  that `Clients_proofs` can use it where `KillsSleepers` is TRUE.
* `RoundRobin` follows from `OnePlace`, before and after the step, and from
  lemmas on what pushing, popping and removing do to those in front of a thread.
  It holds with the timer expiring before a jump too, but not in the switch of
  `uthread_terminate`, which only `SchedulerInv` survives. Like that of `OnePlace`, its step needs only `SparesSleeping`.
* `ContextInv` (theorem `ContextsStay`), the conjunction of `NeverCrashes` and `OwnContext`, is inductive
  relative to `SchedulerInv` and `OnePlace`: the ids a switch dereferences are
  those of the queue, of the running thread and of the sleepers that are due, and
  `OnePlace` says that these are threads there are; and a thread's context changes
  only when it is spawned or saves it itself, on its own stack.
* `LibraryImplementsHeader`: the initial state is the contract's, and every step is
  one of its steps or leaves what it speaks of alone. `SwitchIsNewQuantum` treats
  `switch_threads` once: those who wake up and the outgoing thread, in the order
  the code pushes them, are one of the orders the contract allows, and counting
  down what is left of each sleep leaves the number of the quantum in which it
  ends the same. That is where quantum numbers are taken modulo `INT_RANGE`, which
  must be more than the longest sleep (`SleepFits`). Where a step must not
  terminate a sleeper, it is enough that this step does not (`SparesSleeping`).
* `LateReadsOnly`, from `ReturnsInv` (theorem `ReturnsInvariant`): the scheduler's
  invariants, `OnePlace` and `OwnContext` hold with the late reads too, since every
  step is a read, which leaves the library alone, or a step of `UThreads`; and as
  long as a read is not marked as stale, the thread it is about exists
  (`LateInv`), which only `uthread_terminate` could end, and it marks the read.

`NimThreads_proofs` proves, for every number of threads and whatever clients do,
`NimInvariant`, and from it `NimTypeCorrect`, `NimOnePlace`, `NimMutualExclusion`
and `NimSomebodyReady`. The invariant `NimInv` adds two conjuncts to the
properties: of the threads that do not wait, only the owner continues in
`uthread_mutex_lock` (or else a thread could come back from there, inside, while
another one owns the mutex); and nobody who owns the mutex or waits for it is
blocked unless `lockerBlocked` (from which a switch finds a thread: if the queue
is empty, the others are blocked or wait, main is not blocked, so it waits, so the
mutex has an owner, who neither waits nor is blocked, so he is in the queue). A
switch is treated once for all its callers, with the queue and the sets they
leave as parameters. `NimImplementsMutex` proves the refinement to `NimMutex`
from `NimInv`, and `NimRoundRobin` that the queue is first in, first out: whoever
is pushed, being passed the mutex, resumed, spawned or preempted, was not queued
already (`FreshOnes`, from `NimInv`), and a switch takes the front (`SwitchInTurn`).

`Clients_proofs` is about every `Text` the two assumptions allow, not only the
tests. `StatementExecuted` reduces the statements of a program to what the proofs
need to know (`Executed`): the running thread makes a library call, possibly one
that is refused, and gets on to its next statement (`Advances`) or stays at a
loop (`Stays`), or it makes a thread (`Spawns`). On that rest:

* `ClientsTypeCorrect`: `SchedulerInv` and `ClientsTypeOK` are inductive together.
  `SchedulerInv` is not inherited from `UThreads`, since there no thread returns.
* `EndIsNotPassed`, from `EndInv`, which adds to `EndNotPassed` that a thread that
  does not run, or is switched to and not yet counted, is before the quantum it waits
  for: being given the processor counts one more, and then, if it has reached it,
  it leaves the loop before the timer expires again. That a thread enters the loop
  with that true needs the well-formedness of the text: the loop's only
  predecessor is the read of the counter.
* `ClientsOnePlace` and `ClientsLostByReturning`, from `EndsInv`: `OnePlace`,
  `OwnContext`, `LostByReturning`, and that nobody is asleep in a program without
  `uthread_sleep` (`NoneAsleep`) and no thread that ends properly has returned
  (`NoneReturned`). So that clients do not terminate sleepers, which the theorems
  about `UThreads` assume, is here derived from the programs' text.
* `ClientsKeepContract` and `ClientsRoundRobin`, from the same invariant: a library
  call in a statement is a step of `UThreads` that terminates nobody asleep
  (`ExecutedSpares`), so that the step lemmas of `UThreadsRefinement_proofs` and
  `UThreadsPlaces_proofs` apply; what is left are the ends of routines. A main that
  returns is an exit of the contract, and an entry function that returns is what
  `KeepsContract` excludes. If every program ends properly there is none of those
  (`NoneReturned`): `ProperClientsImplementHeader`.

Checked by TLC only: `ExpectationsMet`, `NoDeafWait` and `NothingLost`, which
depend on how each program runs, and hold of these twenty only (which calls
fail, and so leave the timer masked, depends on what other threads have done
before; threads that terminate themselves by number, or that nobody resumes,
do not end properly by their text, so that `ClientsLostByReturning` does not
give `NothingLost` for them); and liveness (`ReadyEventuallyRuns`, `SleepersWake`,
`HeirGetsIn`, `TestsEnd`), which is out of the prover's reach, as is what holds
only under fairness.

## Not modelled

* `demos/`: examples of `sigsetjmp`, `setitimer` and `sigaction` for students,
  without a claim about what they guarantee, and not linked with the library.
* `tests/`: programs for an older interface (`uthread_init` with an array of
  priorities, `uthread_spawn` with a priority), which do not compile with this
  library.
* `InputCheck.uthread_init`: of `uthread_init` only the successful call is
  modelled, as `Init`. A negative quantum is refused before anything is done.
* What clients print or copy: the timer may expire in the middle of it, and
  `timer_handler` allocates memory and jumps to threads that print and allocate,
  none of which is safe in a signal handler; the insides of the C library would
  have to be modelled to say what comes of it.
* What happens in `exit`: the destructors of the library's containers run with
  the timer on if `main` returns.
* A null entry point in `nim/uthreads.cpp`, which does not check for it, and that
  library's quantum counters, which nothing else depends on.
* The contents of stacks and jump buffers, `translate_address`, error messages,
  the length of a quantum (`reset_timer` changes when the next expiry comes, and
  the models allow one at any time), and `int` overflow of the counters, after
  2^31 quanta.
* The build files and the vendored googletest in `cmake-build-debug/`. It is by far
  the largest part of the repository: the library, its second implementation and
  the tests that use them are about 2,600 lines of more than 40,000.
