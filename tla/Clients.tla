------------------------------- MODULE Clients -------------------------------
(***************************************************************************)
(* The scheduler of uthreads.cpp with the repository's client programs on  *)
(* top of it: UThreads, whose calls are made by threads that have code and *)
(* a program counter.                                                      *)
(*                                                                         *)
(* Between two statements the timer may expire, whenever the mask is open. *)
(* Tests with a quantum of a millisecond or more rely on its being long    *)
(* enough for what a thread does between two waits (lines 142-146 of       *)
(* tests_to_be_ran_separately.cpp): if Prompt, it expires only while the   *)
(* running thread waits for something that has not happened.               *)
(*                                                                         *)
(* The windows before a jump and in uthread_terminate are left closed here *)
(* (WindowTicks): what comes of a signal there is known from UThreads.     *)
(***************************************************************************)
EXTENDS ClientPrograms

CONSTANTS
  Text,              \* programs, by name: the routines of each, by name
  Programs,          \* the names of those that are run
  Prompt

VARIABLES
  program,           \* the name of the one that is run
  routine,           \* the routine each thread executes
  pc,                \* and its next statement there
  local,             \* threadQuantumSleep's end; the register of a ++
  marked,            \* the threads that are marked
  ranAtLeastOnce,
  quantumsToTids,    \* total quanta -> thread, -1 for no entry
  tids,              \* activeThreads; threadsToRemove
  failed             \* has an EXPECT failed?

threadVars == <<routine, pc, local>>
testVars == <<marked, ranAtLeastOnce, quantumsToTids, tids, failed>>
clientVars == <<program, threadVars, testVars>>
allVars == <<vars, clientVars>>

ASSUME ProgramsAssumption == Programs \subseteq DOMAIN Text /\ Prompt \in BOOLEAN

\* What makes a text a program: main, and routines that are sequences; entry
\* functions that are there; lengths of time that are numbers, sleeps within
\* MAX_SLEEP; and the loop of a threadQuantumSleep behind its two reads only.
WellFormed(text) ==
  /\ "main" \in DOMAIN text
  /\ \A name \in DOMAIN text :
       /\ DOMAIN text[name] = 1 .. Len(text[name]) /\ Len(text[name]) \in Nat
       /\ \A k \in 1 .. Len(text[name]) :
            LET s == text[name][k] IN
            /\ s.op = "uthread_spawn" => s.arg \in DOMAIN text \ {"main"}
            /\ s.op \in {"spawn lowest", "doOperation"} => "f" \in DOMAIN text
            /\ s.op \in {"start", "start total"} => s.arg \in Nat
            /\ s.op = "uthread_sleep" => s.arg \in -1 .. MAX_SLEEP
            /\ s.op = "while" => s.body.op # "uthread_sleep"
            /\ s.op = "spin" => k > 1 /\ text[name][k - 1].op = "start"

\* No thread of the program terminates one that may be asleep: nobody sleeps,
\* or threads terminate themselves and main only.
NeverSleeps(text) ==
  \A name \in DOMAIN text : \A k \in 1 .. Len(text[name]) :
    text[name][k].op # "uthread_sleep"

TerminatesNoOther(text) ==
  \A name \in DOMAIN text : \A k \in 1 .. Len(text[name]) :
    LET s == text[name][k] IN
    /\ s.op \notin {"terminate one", "doOperation"}
    /\ s.op = "uthread_terminate" => s.arg \in {Self, 0}
    /\ s.op = "while" => s.body.op # "uthread_terminate"

SparesSleepers(text) == NeverSleeps(text) \/ TerminatesNoOther(text)

\* Every entry function ends by terminating the thread, or never.
EndsProperly(text) ==
  \A name \in DOMAIN text \ {"main"} :
    LET last == text[name][Len(text[name])] IN
    /\ Len(text[name]) > 0
    /\ \/ last.op = "uthread_terminate" /\ last.arg = Self
       \/ last.op = "while" /\ -1 \in last.until

ASSUME TextAssumption == \A p \in Programs : WellFormed(Text[p])
ASSUME SleepersAssumption == \A p \in Programs : SparesSleepers(Text[p])

ClientsInit ==
  /\ Init
  /\ program \in Programs
  /\ routine = [t \in Tid |-> "main"]
  /\ pc = [t \in Tid |-> 1]
  /\ local = [t \in Tid |-> 0]
  /\ marked = {}
  /\ ranAtLeastOnce = 0
  /\ quantumsToTids = [q \in 0 .. INT_RANGE - 1 |-> -1]
  /\ tids = {}
  /\ failed = FALSE

Code(t) == Text[program][routine[t]]
Returned(t) == pc[t] > Len(Code(t))
Statement(t) == Code(t)[pc[t]]

\* The statement of the running thread, and the thread a call in it is about.
Current == Statement(running_tid_)
Who(arg) ==
  CASE arg = Self -> running_tid_
    [] arg = NextThread -> (running_tid_ + 1) % NUM_THREADS
    [] OTHER -> arg

Does(op) == at = "user" /\ ~ Returned(running_tid_) /\ Current.op = op

\* On to the next statement; entry of a thread not there before is its first.
Advance == pc' = [pc EXCEPT ![running_tid_] = @ + 1]

\* Steps of a thread that are none of the library's, or change no global.
Inside == UNCHANGED <<vars, program, routine>>
Globals == <<marked, ranAtLeastOnce, quantumsToTids, tids>>

Expect(condition) == failed' = (failed \/ ~ condition)

-----------------------------------------------------------------------------
(* Library calls *)

LowestFree == CHOOSE tid \in free_ids_ : IsFirstFree(tid)

\* What the call returns, when it does.
Result(s) ==
  LET tid == Who(s.arg) IN
  CASE s.op = "uthread_get_tid" -> running_tid_
    [] s.op = "uthread_get_total_quantums" -> total_quantums
    [] s.op = "uthread_get_quantums" ->
         IF Exists(tid) THEN num_of_quantums_running[tid] ELSE -1
    [] s.op = "uthread_block" -> IF Unblockable(tid) THEN -1 ELSE 0
    [] OTHER -> IF Exists(tid) THEN 0 ELSE -1

Library(s) ==
  LET tid == Who(s.arg) IN
  \/ s.op = "uthread_terminate" /\ uthread_terminate(tid)
  \/ s.op = "uthread_block" /\ uthread_block(tid)
  \/ s.op = "uthread_resume" /\ uthread_resume(tid)
  \/ s.op = "uthread_sleep" /\ uthread_sleep(s.arg)
  \/ s.op = "uthread_get_quantums" /\ uthread_get_quantums(tid)
  \/ /\ s.op \in {"uthread_get_tid", "uthread_get_total_quantums", "skip"}
     /\ UNCHANGED vars

Calls == {"uthread_terminate", "uthread_block", "uthread_resume", "uthread_sleep",
          "uthread_get_quantums", "uthread_get_tid", "uthread_get_total_quantums"}

call ==
  /\ \E function \in Calls : Does(function)
  /\ Library(Current)
  /\ Advance
  /\ Expect(Current.returns \in {Unread, Result(Current)})
  /\ UNCHANGED <<program, routine, local, Globals>>

Enter_KeepsRoutine(entry) ==
  /\ UNCHANGED routine
  /\ pc' = [pc EXCEPT ![running_tid_] = @ + 1, ![LowestFree] = 1]

\* A new thread is at the first statement of its entry function.
Enter(entry) ==
  /\ routine' = [routine EXCEPT ![LowestFree] = entry]
  /\ pc' = [pc EXCEPT ![running_tid_] = @ + 1, ![LowestFree] = 1]

\* There is enough memory.  The test accepts one of the results.
SpawnExpecting(entry, results) ==
  /\ uthread_spawn("function")
  /\ at' = "user"
  /\ \/ /\ free_ids_ = {}
        /\ Advance
        /\ Expect(-1 \in results)
        /\ UNCHANGED routine
     \/ /\ free_ids_ # {}
        /\ Enter(entry)
        /\ Expect(LowestFree \in results)
  /\ UNCHANGED <<program, local>>

spawn ==
  /\ Does("uthread_spawn")
  /\ SpawnExpecting(Current.arg, IF Current.returns = Unread THEN {-1} \cup Tid
                                 ELSE {Current.returns})
  /\ UNCHANGED Globals

-----------------------------------------------------------------------------
(* The other statements *)

Holds(s) == s.until \subseteq marked

while ==
  /\ Does("while")
  /\ \/ Holds(Current) /\ Advance /\ UNCHANGED vars
     \/ ~ Holds(Current) /\ Library(Current.body) /\ UNCHANGED pc
  /\ UNCHANGED <<program, routine, local, testVars>>

mark ==
  /\ \/ Does("mark") /\ marked' = marked \cup {running_tid_}
     \/ Does("unmark") /\ marked' = {}
  /\ Advance
  /\ UNCHANGED <<local, ranAtLeastOnce, quantumsToTids, tids, failed>>
  /\ Inside

\* uthread_get_quantums(myId)
ThreadQuantums == num_of_quantums_running[running_tid_]

\* wait_10_quantums is over; without counters (INT_RANGE = 1) at any time.
TotalPassed == total_quantums > local[running_tid_] \/ INT_RANGE = 1

\* curr = uthread_get_total_quantums(), while (curr + 10 >= ...)
totalSleep ==
  /\ \/ /\ Does("start total")
        /\ local' = [local EXCEPT ![running_tid_] = total_quantums + Current.arg]
     \/ /\ Does("spin total")
        /\ TotalPassed
        /\ UNCHANGED local
  /\ Advance
  /\ UNCHANGED testVars
  /\ Inside

\* int end = start + threadQuants, and while (uthread_get_quantums(myId) != end)
quantumSleep ==
  /\ \/ /\ Does("start")
        /\ local' = [local EXCEPT ![running_tid_] = ThreadQuantums + Current.arg]
        /\ Advance
     \/ /\ Does("spin")
        /\ IF ThreadQuantums = local[running_tid_] THEN Advance ELSE UNCHANGED pc
        /\ UNCHANGED local
  /\ uthread_get_quantums(running_tid_)
  /\ UNCHANGED <<program, routine, testVars>>

EXPECT ==
  /\ \/ Does("EXPECT_TRUE") /\ Expect(Current.arg \subseteq marked)
     \/ /\ Does("EXPECT_EQ")
        /\ Expect(\A q \in DOMAIN quantumsToTids :
                    quantumsToTids[q] = IF q \in DOMAIN expectedQuantumsToTids
                                        THEN expectedQuantumsToTids[q] ELSE -1)
  /\ Advance
  /\ UNCHANGED <<local, Globals>>
  /\ Inside

record ==
  /\ Does("record")
  /\ quantumsToTids' = [quantumsToTids EXCEPT ![total_quantums] = running_tid_]
  /\ Advance
  /\ UNCHANGED <<local, marked, ranAtLeastOnce, tids, failed>>
  /\ Inside

\* ++ranAtLeastOnce in f, and main's while (ranAtLeastOnce != SPAWN_COUNT)
count ==
  /\ \/ /\ Does("read counter")
        /\ local' = [local EXCEPT ![running_tid_] = ranAtLeastOnce]
        /\ UNCHANGED ranAtLeastOnce
     \/ /\ Does("write counter")
        /\ ranAtLeastOnce' = local[running_tid_] + 1
        /\ UNCHANGED local
     \/ /\ Does("await counter")
        /\ ranAtLeastOnce = Current.arg
        /\ UNCHANGED <<local, ranAtLeastOnce>>
  /\ Advance
  /\ UNCHANGED <<marked, quantumsToTids, tids, failed>>
  /\ Inside

\* Terminate one of the threads spawned, and spawn as many, lowest id first.
terminateAndSpawn ==
  /\ \/ /\ Does("terminate one")
        /\ \E tid \in (1 .. SPAWN_COUNT) \ tids :
             /\ uthread_terminate(tid)
             /\ Expect(Exists(tid))
             /\ tids' = tids \cup {tid}
        /\ Advance
        /\ UNCHANGED <<program, routine, local>>
     \/ /\ Does("spawn lowest")
        /\ \E expectedTid \in tids :
             /\ \A tid \in tids : expectedTid <= tid
             /\ SpawnExpecting("f", {expectedTid})
             /\ tids' = tids \ {expectedTid}
  /\ UNCHANGED <<marked, ranAtLeastOnce, quantumsToTids>>

\* One of the operations, on an active thread, or none; EXPECT_GT(tid, 0).
doOperation ==
  /\ Does("doOperation")
  /\ \/ /\ Cardinality(tids) < MAX_THREAD_NUM - 1
        /\ SpawnExpecting("f", Tid \ {0})
        /\ tids' = tids \cup (free_ids_ \ free_ids_')
     \/ /\ \E tid \in tids :
             \/ uthread_terminate(tid) /\ Expect(Exists(tid)) /\ tids' = tids \ {tid}
             \/ uthread_block(tid) /\ Expect(~ Unblockable(tid)) /\ UNCHANGED tids
             \/ uthread_resume(tid) /\ Expect(Exists(tid)) /\ UNCHANGED tids
             \/ UNCHANGED <<vars, failed, tids>>
        /\ Advance
        /\ UNCHANGED <<program, routine, local>>
  /\ UNCHANGED <<marked, ranAtLeastOnce, quantumsToTids>>

\* main returns, and the process exits; an entry function has nowhere to
\* return to.
return ==
  /\ at = "user"
  /\ Returned(running_tid_)
  /\ at' = IF running_tid_ = 0 THEN "exited" ELSE "lost"
  /\ UNCHANGED <<objects, status_, env_, queues, total_quantums, running_tid_,
                 stack, masked, clientVars>>

-----------------------------------------------------------------------------

\* The running thread waits for what has not happened.
Waits ==
  /\ ~ Returned(running_tid_)
  /\ \/ Current.op = "while" /\ ~ Holds(Current)
     \/ Current.op = "await counter" /\ ranAtLeastOnce # Current.arg
     \/ Current.op = "spin total" /\ ~ TotalPassed
     \/ Current.op = "spin" /\ ThreadQuantums # local[running_tid_]

Start == startRunning /\ UNCHANGED clientVars
Leave == leave /\ UNCHANGED clientVars
Tick == (Prompt => Waits) /\ timer_handler /\ UNCHANGED clientVars

ClientStep ==
  \/ call \/ spawn
  \/ while \/ mark \/ totalSleep \/ quantumSleep \/ EXPECT \/ record \/ count
  \/ terminateAndSpawn \/ doOperation
  \/ return

ClientsNext == Start \/ Leave \/ Tick \/ ClientStep \/ (Done /\ UNCHANGED clientVars)

StepOf(t) == running_tid_ = t /\ ClientStep

\* As in UThreads; and a quantum is processor time, so a thread that is given
\* one again and again gets on.
ClientsFairness ==
  /\ WF_allVars(Start)
  /\ WF_allVars(Leave)
  /\ SF_allVars(Tick)
  /\ \A t \in Tid : SF_allVars(StepOf(t))

ClientsSpec == ClientsInit /\ [][ClientsNext]_allVars /\ ClientsFairness

-----------------------------------------------------------------------------
(* Properties *)

\* The threads' places in the program and the test's globals keep their types,
\* and main alone executes the main routine.
ClientsTypeOK ==
  /\ program \in Programs
  /\ routine \in [Tid -> DOMAIN Text[program]]
  /\ \A t \in all_threads_ : routine[t] = "main" <=> t = 0
  /\ pc \in [Tid -> Nat \ {0}]
  /\ local \in [Tid -> Nat]
  /\ marked \subseteq Tid
  /\ ranAtLeastOnce \in Nat
  /\ quantumsToTids \in [0 .. INT_RANGE - 1 -> -1 .. MAX_THREAD_NUM - 1]
  /\ tids \subseteq Tid
  /\ failed \in BOOLEAN

\* Every EXPECT the tests make holds: results, ids, counters and the order of
\* threads, wherever between two statements the timer may expire.
ExpectationsMet == ~ failed

\* A test gets the library to go through the object or the frame of a thread
\* that is gone in one way only: a thread returns from its entry function.
LostByReturning ==
  at \in {"crashed", "lost"} =>
    at = "lost" /\ Returned(running_tid_) /\ ~ EndsProperly(Text[program])

\* And only T1 of TestSleep does: what does not end properly in the others is
\* never reached.
NothingLost == at \in {"crashed", "lost"} => program = "TestSleep"

\* No thread waits with the timer masked, which nobody could ever end: the
\* calls that leave it masked (failures, uthread_sleep) are followed by one
\* that opens it before the test waits ("if the timer was blocked without
\* unblocking", main.cpp:29).
NoDeafWait == at = "user" /\ Waits => ~ masked

\* "at some point, uthread_get_quantums(myId) must obtain 'end'"
\* (tests_to_be_ran_separately.cpp:79-81): a thread in threadQuantumSleep has
\* not passed the quantum it waits for.
EndNotPassed ==
  ~ Over => \A t \in all_threads_ :
    ~ Returned(t) /\ Statement(t).op = "spin" => num_of_quantums_running[t] <= local[t]

\* The programs that depend on where threads are preempted: a thread of Jona2
\* that has not blocked itself yet loses its wake-up, and Test4 loses an
\* increment.  TestSleep ends where T1 returns.
Fragile == {"TestSleep"} \cup (IF Prompt THEN {} ELSE {"Jona2", "Test4"})

\* The other programs end, with every thread in its turn.
TestsEnd == program \notin Fragile => <>(at = "exited")

\* "even the smallest quantum should work" (tests_to_be_ran_separately.cpp:309)
SmallestQuantumWorks == <>(at = "exited")

=============================================================================
