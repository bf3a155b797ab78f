--------------------------- MODULE ClientPrograms ---------------------------
(***************************************************************************)
(* The repository's client programs: the tests of main.cpp, tests.cpp and  *)
(* tests_to_be_ran_separately.cpp, as statements for Clients to execute.   *)
(*                                                                         *)
(* A program has a main routine and entry functions; a routine is a        *)
(* sequence of statements.  A statement is a library call with the       *)
(* result the test expects of it, or an access to the test's globals.      *)
(* Loops that only print or copy memory are left out: the timer may expire *)
(* between any two statements.  A global that a thread sets when it has    *)
(* got somewhere (flag, ran, awake, reached_f, thread_status[i]) is a mark *)
(* of that thread.                                                         *)
(***************************************************************************)
EXTENDS UThreads

CONSTANTS
  SPAWN_COUNT,       \* how many threads Test4 spawns; "you can lower this"
  ITER_COUNT         \* bound: how many operations Test6 does, of 1000

ASSUME SpawnAssumption == SPAWN_COUNT \in 1 .. MAX_THREAD_NUM - 1
ASSUME IterAssumption == ITER_COUNT \in Nat

Unread == -9       \* a result the program does not look at
Self == -2         \* uthread_get_tid()
NextThread == -3   \* next_thread(), tests.cpp:37
NUM_THREADS == 4   \* tests.cpp:27

Call(function, arg, returns) == [op |-> function, arg |-> arg, returns |-> returns]

Spawn(entry, id) == Call("uthread_spawn", entry, id)
Terminate(tid, result) == Call("uthread_terminate", tid, result)
Block(tid, result) == Call("uthread_block", tid, result)
Resume(tid, result) == Call("uthread_resume", tid, result)
Sleep(num_quantums) == Call("uthread_sleep", num_quantums, Unread)
Quantums(tid, result) == Call("uthread_get_quantums", tid, result)
Total(result) == Call("uthread_get_total_quantums", 0, result)
GetTid(result) == Call("uthread_get_tid", 0, result)
Exit0 == Terminate(0, 0)

Skip == Call("skip", 0, Unread)
Mark == [op |-> "mark"]
UnmarkAll == [op |-> "unmark"]
ExpectMarked(threads) == [op |-> "EXPECT_TRUE", arg |-> threads]

\* while (not all of these are marked) body
While(threads, body) == [op |-> "while", until |-> threads, body |-> body]
Await(threads) == While(threads, Skip)
Halt == Await({-1})

\* threadQuantumSleep: the two reads before the loop, and the loop.
threadQuantumSleep(threadQuants) ==
  <<[op |-> "start", arg |-> threadQuants], [op |-> "spin"]>>

\* wait_10_quantums, the same with the total.
wait_10_quantums == <<[op |-> "start total", arg |-> 10], [op |-> "spin total"]>>

-----------------------------------------------------------------------------
(* main.cpp *)

\* What threads do when they are done: flag = 1, a read, and uthread_terminate.
Finish == <<Mark, Quantums(1, Unread), Terminate(Self, Unread)>>
Report == <<Quantums(0, Unread), Exit0>>

test_thread_block_itself ==
  [main |-> <<Spawn("f", Unread), Quantums(0, Unread)>> \o Report,
   f |-> <<Block(1, Unread)>> \o Finish]

test_thread_terminate_itself ==
  [main |-> <<Spawn("f", Unread), Quantums(0, Unread)>> \o Report,
   f |-> <<Terminate(1, Unread), Mark>>]

test_sleep_and_block ==
  [main |-> <<Spawn("f", Unread), Quantums(0, Unread), Block(1, Unread), Quantums(0, Unread),
              Resume(1, Unread), Quantums(0, Unread), While({1}, Quantums(0, Unread))>> \o Report,
   f |-> <<Sleep(30)>> \o Finish]

test_block_and_sleep ==
  [main |-> <<Spawn("f", Unread), Block(1, Unread), Resume(1, Unread), Await({1})>> \o Report,
   f |-> <<Sleep(1)>> \o Finish]

test_sleep ==
  [main |-> <<Spawn("f", Unread), Await({1})>> \o Report,
   f |-> <<Sleep(15)>> \o Finish]

test_regular_block_resume ==
  [main |-> <<Spawn("f", Unread), Block(1, Unread), Resume(1, Unread), Await({1})>> \o Report,
   f |-> Finish]

\* Each thread terminates itself by its number: that is right only if none ends
\* before all are there, which their 100000 prints see to (so: if Prompt).
test_switch_4_threads ==
  [main |-> <<Spawn("func1", Unread), Spawn("func2", Unread), Spawn("func3", Unread),
              Spawn("func4", Unread), Await({4})>> \o Report,
   func1 |-> <<Terminate(1, Unread)>>,
   func2 |-> <<Terminate(2, Unread)>>,
   func3 |-> <<Terminate(3, Unread)>>,
   func4 |-> <<Mark, Terminate(4, Unread)>>]

test_switch_thread ==
  [main |-> <<Spawn("f", Unread), Await({1})>> \o Report,
   f |-> Finish]

-----------------------------------------------------------------------------
(* tests.cpp.  The tests return, and so does main. *)

SpawnAll(entry) == [i \in 1 .. MAX_THREAD_NUM - 1 |-> Spawn(entry, i)]

InputCheck_uthread_spawn ==
  [main |-> SpawnAll("f") \o <<Spawn("f", -1)>>, f |-> <<Halt>>]

InputCheck_uthread_terminate ==
  [main |-> <<Spawn("f", 1), Terminate(137, -1), Terminate(1, 0)>>, f |-> <<Halt>>]

InputCheck_uthread_block ==
  [main |-> <<Spawn("f", 1), Spawn("f", 2), Block(0, -1), Block(3, -1), Block(137, -1),
              Block(1, 0), Block(1, 0)>>,
   f |-> <<Halt>>]

InputCheck_uthread_resume ==
  [main |-> <<Spawn("f", 1), Spawn("f", 2), Spawn("f", 3), Terminate(1, 0), Block(2, 0),
              Resume(1, -1), Resume(137, -1), Resume(3, 0), Resume(0, 0), Resume(2, 0)>>,
   f |-> <<Halt>>]

TerminateAndSpawn ==
  LET renew == <<Terminate(5, Unread), Spawn("BlockMyself", 5)>>
  IN  [main |-> <<Spawn("BlockMyself", 1), Spawn("EndlessLoop", 2), Spawn("EndlessLoop", 3),
                  Spawn("BlockMyself", 4), Spawn("EndlessLoop", 5), Spawn("BlockMyself", 6)>>
                \o renew \o wait_10_quantums \o renew
                \o <<Terminate(2, Unread), Spawn("EndlessLoop", 2),
                     Terminate(3, Unread), Terminate(4, Unread),
                     Spawn("EndlessLoop", 3), Spawn("BlockMyself", 4)>>,
       BlockMyself |-> <<Block(Self, Unread)>>,
       EndlessLoop |-> <<Halt>>]

\* Each resumes the next one twice, instead of 50 times.
Jona2 ==
  [main |-> <<Spawn("f", 1), Spawn("f", 2), Spawn("f", 3), UnmarkAll,
              While({1, 2, 3}, Resume(1, Unread))>>,
   f |-> <<Block(Self, Unread), Resume(NextThread, Unread), Resume(NextThread, Unread), Mark, Halt>>]

\* T1 returns from its entry function.
TestSleep ==
  [main |-> <<Spawn("T1", 1), Spawn("T2", 2), Spawn("T3", 3)>> \o wait_10_quantums,
   T1 |-> <<Total(Unread), Sleep(3), Total(Unread), Mark>>,
   T2 |-> <<Halt>>,
   T3 |-> <<Halt>>]

-----------------------------------------------------------------------------
(* tests_to_be_ran_separately.cpp.  ASSERT_EXIT calls uthread_terminate(0) in *)
(* a forked process, which is the one followed here.                         *)

BasicFunctionality ==
  [main |-> <<Block(0, -1), Quantums(0, 1), Spawn("f", 1), Total(1), Quantums(0, 1)>>
            \o threadQuantumSleep(1)
            \o <<ExpectMarked({1}), Quantums(0, 2), Total(3), Quantums(1, -1), Block(1, -1),
                 Resume(1, -1), Terminate(1, -1), Exit0>>,
   f |-> <<GetTid(1), Quantums(1, 1), Quantums(0, 1), Total(2), Mark, Terminate(1, 0)>>]

ThreadSchedulingWithTermination ==
  [main |-> <<Spawn("f", 1), Spawn("g", 2), Block(1, 0)>>
            \o threadQuantumSleep(1) \o <<Mark>> \o threadQuantumSleep(1)
            \o <<ExpectMarked({1}), Total(5), Exit0>>,
   f |-> <<ExpectMarked({0}), Mark, Terminate(1, 0)>>,
   g |-> <<Resume(1, 0), Terminate(2, 0)>>]

\* quantumsToTids[uthread_get_total_quantums()] = tid
Record == [op |-> "record"]

\* The order in which the threads are expected to run (line 277).
expectedQuantumsToTids == <<0, 1, 2, 0, 2, 1, 0, 2, 1, 0, 2, 1, 0>>

ThreadExecutionOrder ==
  LET turn(i) == <<GetTid(0), Resume(2, 0), Resume(1, 0), Quantums(0, i), Record>>
                 \o threadQuantumSleep(1)
      round(i) == <<Quantums(Self, i), Record, Block(Self, 0)>>
  IN  [main |-> <<Spawn("f", 1), Spawn("f", 2)>> \o turn(1) \o turn(2) \o turn(3) \o turn(4)
                \o <<Total(13), Record, [op |-> "EXPECT_EQ"], Exit0>>,
       f |-> round(1) \o round(2) \o round(3) \o round(4) \o <<Terminate(Self, 0)>>]

\* ++ranAtLeastOnce is a read and a write.
StressTestAndThreadCreationOrder ==
  LET third(statement) == [i \in 1 .. SPAWN_COUNT \div 3 |-> [op |-> statement]]
  IN  [main |-> [i \in 1 .. SPAWN_COUNT |-> Spawn("f", i)]
                \o <<[op |-> "await counter", arg |-> SPAWN_COUNT]>>
                \o (IF SPAWN_COUNT = MAX_THREAD_NUM - 1 THEN <<Spawn("f", -1)>> ELSE <<>>)
                \o third("terminate one") \o third("spawn lowest") \o <<Exit0>>,
       f |-> <<[op |-> "read counter"], [op |-> "write counter"], Halt>>]

RandomThreadOperations ==
  [main |-> [i \in 1 .. ITER_COUNT |-> [op |-> "doOperation"]] \o <<Exit0>>,
   f |-> <<Halt>>]

-----------------------------------------------------------------------------
(* The programs by name: what Clients is given as Text. *)

TestPrograms ==
  [block_itself |-> test_thread_block_itself,
   terminate_itself |-> test_thread_terminate_itself,
   sleep_and_block |-> test_sleep_and_block,
   block_and_sleep |-> test_block_and_sleep,
   sleep |-> test_sleep,
   block_resume |-> test_regular_block_resume,
   switch_4 |-> test_switch_4_threads,
   switch |-> test_switch_thread,
   CheckSpawn |-> InputCheck_uthread_spawn,
   CheckTerminate |-> InputCheck_uthread_terminate,
   CheckBlock |-> InputCheck_uthread_block,
   CheckResume |-> InputCheck_uthread_resume,
   TerminateAndSpawn |-> TerminateAndSpawn,
   Jona2 |-> Jona2,
   TestSleep |-> TestSleep,
   Test1 |-> BasicFunctionality,
   Test2 |-> ThreadSchedulingWithTermination,
   Test3 |-> ThreadExecutionOrder,
   Test4 |-> StressTestAndThreadCreationOrder,
   Test6 |-> RandomThreadOperations]

=============================================================================
