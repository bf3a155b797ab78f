---------------------------- MODULE Clients_proofs ----------------------------
(***************************************************************************)
(* Theorems about Clients, for every set of client programs that are well  *)
(* formed, whatever they do otherwise: the scheduler's invariants hold of  *)
(* them, although their threads may return from entry functions; how a     *)
(* program may get lost; and that threadQuantumSleep does not miss its end.*)
(***************************************************************************)
EXTENDS ClientsRefinement, UThreadsRefinement_proofs

USE TextAssumption

-----------------------------------------------------------------------------
(* What a step of a client is to the library *)

\* A library call other than uthread_spawn, or none: which threads it may
\* terminate and whether it may sleep is up to the program.
Called ==
  \/ \E tid \in Tid : /\ TerminatesNoOther(Text[program]) => tid \in {running_tid_, 0}
                      /\ uthread_terminate(tid)
  \/ \E tid \in Tid : uthread_block(tid) \/ uthread_resume(tid) \/ uthread_get_quantums(tid)
  \/ \E num_quantums \in -1 .. MAX_SLEEP :
       ~ NeverSleeps(Text[program]) /\ uthread_sleep(num_quantums)
  \/ UNCHANGED vars

\* A call of uthread_spawn that makes a thread.
Spawned ==
  /\ at = "user" /\ at' = "user"
  /\ free_ids_ # {}
  /\ uthread_spawn("function")

\* The running thread gets on to its next statement.
Advances ==
  /\ Called
  /\ Advance
  /\ UNCHANGED routine
  /\ local' \in [Tid -> Nat]
  /\ \A t \in Tid \ {running_tid_} : local'[t] = local[t]
  /\ Current.op = "start" =>
       at' = "user" /\ local'[running_tid_] = ThreadQuantums + Current.arg
  /\ Current.op = "while" => Holds(Current)
  /\ Current.op = "uthread_terminate" => uthread_terminate(Who(Current.arg))

\* It stays at its statement, which is a loop.
Stays ==
  /\ Called
  /\ UNCHANGED threadVars
  /\ Current.op = "spin" => at' = "user"

\* It gets on to its next statement and makes a thread.
Spawns ==
  /\ Spawned
  /\ Current.op \in {"uthread_spawn", "spawn lowest", "doOperation"}
  /\ \E entry \in DOMAIN Text[program] \ {"main"} : Enter(entry)
  /\ UNCHANGED local

\* A statement is executed: this is all the theorems need to know of it.
Executed ==
  /\ at = "user"
  /\ ~ Returned(running_tid_)
  /\ UNCHANGED program
  /\ Advances \/ Stays \/ Spawns

\* The types of the test's globals.
GlobalsTypeOK ==
  /\ marked \subseteq Tid
  /\ ranAtLeastOnce \in Nat
  /\ quantumsToTids \in [0 .. INT_RANGE - 1 -> -1 .. MAX_THREAD_NUM - 1]
  /\ tids \subseteq Tid
  /\ failed \in BOOLEAN

\* A statement about to be executed is one of the program's.
LEMMA CurrentStatement ==
  ASSUME SchedulerInv, ClientsTypeOK, ~ Returned(running_tid_)
  PROVE  /\ WellFormed(Text[program])
         /\ running_tid_ \in Tid
         /\ routine[running_tid_] \in DOMAIN Text[program]
         /\ pc[running_tid_] \in 1 .. Len(Text[program][routine[running_tid_]])
         /\ Current = Text[program][routine[running_tid_]][pc[running_tid_]]
<1>1. running_tid_ \in Tid
  BY DEF SchedulerInv, TypeOK
<1>2. WellFormed(Text[program])
  BY DEF ClientsTypeOK
<1>3. routine[running_tid_] \in DOMAIN Text[program] /\ pc[running_tid_] \in Nat \ {0}
  BY <1>1 DEF ClientsTypeOK
<1>4. Len(Text[program][routine[running_tid_]]) \in Nat
  BY <1>2, <1>3 DEF WellFormed
<1>5. pc[running_tid_] \in 1 .. Len(Text[program][routine[running_tid_]])
  BY <1>3, <1>4 DEF Returned, Code
<1> QED
  BY <1>1, <1>2, <1>3, <1>5 DEF Current, Statement, Code

\* What is known of it.
LEMMA CurrentFacts ==
  ASSUME SchedulerInv, ClientsTypeOK, ~ Returned(running_tid_)
  PROVE  /\ Current.op = "uthread_spawn" => Current.arg \in DOMAIN Text[program] \ {"main"}
         /\ Current.op \in {"spawn lowest", "doOperation"} => "f" \in DOMAIN Text[program]
         /\ Current.op \in {"start", "start total"} => Current.arg \in Nat
         /\ Current.op = "uthread_sleep" => /\ Current.arg \in -1 .. MAX_SLEEP
                                            /\ ~ NeverSleeps(Text[program])
         /\ Current.op = "while" => Current.body.op # "uthread_sleep"
         /\ TerminatesNoOther(Text[program]) =>
              /\ Current.op \notin {"terminate one", "doOperation"}
              /\ Current.op = "uthread_terminate" => Current.arg \in {Self, 0}
              /\ Current.op = "while" => Current.body.op # "uthread_terminate"
<1> DEFINE text == Text[program]
           name == routine[running_tid_]
           k == pc[running_tid_]
<1>1. /\ WellFormed(text) /\ name \in DOMAIN text
      /\ k \in 1 .. Len(text[name]) /\ Current = text[name][k]
  BY CurrentStatement
<1> HIDE DEF text, name, k
<1>2. /\ Current.op = "uthread_spawn" => Current.arg \in DOMAIN text \ {"main"}
      /\ Current.op \in {"spawn lowest", "doOperation"} => "f" \in DOMAIN text
      /\ Current.op \in {"start", "start total"} => Current.arg \in Nat
      /\ Current.op = "uthread_sleep" => Current.arg \in -1 .. MAX_SLEEP
      /\ Current.op = "while" => Current.body.op # "uthread_sleep"
  BY <1>1 DEF WellFormed
<1>3. NeverSleeps(text) => Current.op # "uthread_sleep"
  BY <1>1 DEF NeverSleeps
<1>4. TerminatesNoOther(text) =>
        /\ Current.op \notin {"terminate one", "doOperation"}
        /\ Current.op = "uthread_terminate" => Current.arg \in {Self, 0}
        /\ Current.op = "while" => Current.body.op # "uthread_terminate"
  BY <1>1 DEF TerminatesNoOther
<1> QED
  BY <1>2, <1>3, <1>4 DEF text

\* A refused call is one of the calls: uthread_block(0) does nothing else.
LEMMA RefusedCall ==
  ASSUME at = "user", Refuse
  PROVE  Called
<1>1. 0 \in Tid
  BY ThreadsAssumption DEF Tid
<1>2. uthread_block(0)
  BY DEF uthread_block, Unblockable
<1> QED
  BY <1>1, <1>2 DEF Called

\* Whom a thread terminates that terminates no other thread than itself and main.
LEMMA WhoTerminates ==
  ASSUME NEW arg \in {Self, 0}
  PROVE  Who(arg) \in {running_tid_, 0}
BY DEF Who, Self, NextThread

\* Calls about ids that are out of range are refused.
LEMMA LibraryCalled ==
  ASSUME SchedulerInv, at = "user", NEW s, Library(s),
         s.op = "uthread_sleep" => /\ s.arg \in -1 .. MAX_SLEEP
                                   /\ ~ NeverSleeps(Text[program]),
         TerminatesNoOther(Text[program]) /\ s.op = "uthread_terminate" => s.arg \in {Self, 0}
  PROVE  Called
<1> DEFINE tid == Who(s.arg)
<1>1. CASE s.op = "uthread_sleep" /\ uthread_sleep(s.arg)
  BY <1>1 DEF Called
<1>2. CASE UNCHANGED vars
  BY <1>2 DEF Called
<1>3. CASE \/ s.op = "uthread_terminate" /\ uthread_terminate(tid)
           \/ uthread_block(tid) \/ uthread_resume(tid) \/ uthread_get_quantums(tid)
  <2>1. CASE tid \notin Tid
    <3>1. tid \notin all_threads_ /\ tid # 0
      <4>1. all_threads_ \subseteq Tid /\ 0 \in Tid
        <5>1. TypeOK
          BY DEF SchedulerInv
        <5> QED
          BY <5>1, TypesOf, ThreadsAssumption DEF Tid
      <4> QED
        BY ONLY <2>1, <4>1
    <3> HIDE DEF tid
    <3>2. Refuse
      BY <1>3, <3>1 DEF uthread_terminate, uthread_block, uthread_resume, uthread_get_quantums,
                        Refuse, Exists, Unblockable
    <3> QED
      BY <3>2, RefusedCall
  <2>2. CASE tid \in Tid /\ s.op = "uthread_terminate" /\ uthread_terminate(tid)
    <3>1. TerminatesNoOther(Text[program]) => tid \in {running_tid_, 0}
      BY <2>2, WhoTerminates
    <3> HIDE DEF tid
    <3> QED
      BY <2>2, <3>1 DEF Called
  <2>3. CASE tid \in Tid /\ (uthread_block(tid) \/ uthread_resume(tid) \/ uthread_get_quantums(tid))
    <3> HIDE DEF tid
    <3> QED
      BY <2>3 DEF Called
  <2> QED
    BY <1>3, <2>1, <2>2, <2>3
<1> QED
  BY <1>1, <1>2, <1>3 DEF Library

\* A call of uthread_spawn makes a thread or is refused.
LEMMA SpawnExecuted ==
  ASSUME SchedulerInv, ClientsTypeOK, ~ Returned(running_tid_),
         Current.op \in {"uthread_spawn", "spawn lowest", "doOperation"},
         NEW entry \in DOMAIN Text[program] \ {"main"}, NEW results,
         SpawnExpecting(entry, results)
  PROVE  /\ Executed
         /\ failed' \in BOOLEAN
<1>1. /\ uthread_spawn("function") /\ at = "user" /\ at' = "user"
      /\ UNCHANGED <<program, local>>
  BY DEF SpawnExpecting, uthread_spawn
<1>2. local \in [Tid -> Nat] /\ failed \in BOOLEAN
  BY DEF ClientsTypeOK
<1>3. failed' \in BOOLEAN
  BY <1>2 DEF SpawnExpecting, Expect
<1>4. CASE free_ids_ = {}
  <2>1. Refuse
    BY <1>1, <1>4 DEF uthread_spawn, IsFirstFree
  <2>2. Called
    BY <1>1, <2>1, RefusedCall
  <2>3. Advance /\ UNCHANGED routine
    BY <1>4 DEF SpawnExpecting
  <2>4. Advances
    BY <1>1, <1>2, <2>2, <2>3 DEF Advances
  <2> QED
    BY <1>1, <1>3, <2>4 DEF Executed
<1>5. CASE free_ids_ # {}
  <2>1. Enter(entry)
    BY <1>5 DEF SpawnExpecting
  <2>2. Spawns
    BY <1>1, <1>5, <2>1 DEF Spawns, Spawned
  <2> QED
    BY <1>1, <1>3, <2>2 DEF Executed
<1> QED
  BY <1>4, <1>5

\* Each statement is one of these, and keeps the globals' types.
LEMMA StatementExecuted ==
  ASSUME SchedulerInv, ClientsTypeOK, ClientStep, ~ return
  PROVE  Executed /\ GlobalsTypeOK'
<1> USE CurrentFacts
<1>1. /\ local \in [Tid -> Nat] /\ GlobalsTypeOK
      /\ running_tid_ \in Tid
      /\ num_of_quantums_running \in [Tid -> Nat] /\ total_quantums \in 0 .. INT_RANGE - 1
      /\ total_quantums \in Nat
  <2>1. local \in [Tid -> Nat] /\ GlobalsTypeOK
    BY ONLY ClientsTypeOK DEF ClientsTypeOK, GlobalsTypeOK
  <2>2. /\ running_tid_ \in Tid /\ total_quantums \in 0 .. INT_RANGE - 1
        /\ num_of_quantums_running \in [Tid -> 0 .. INT_RANGE - 1]
    BY ONLY SchedulerInv DEF SchedulerInv, TypeOK
  <2>3. \A n \in 0 .. INT_RANGE - 1 : n \in Nat
    BY ONLY RangeAssumption
  <2>4. num_of_quantums_running \in [Tid -> Nat]
    BY ONLY <2>2, <2>3
  <2> QED
    BY <2>1, <2>2, <2>3, <2>4
<1>2. ASSUME UNCHANGED <<vars, program, routine>>, Advance,
             at = "user", ~ Returned(running_tid_),
             Current.op \notin {"start", "while", "uthread_terminate"},
             local' \in [Tid -> Nat],
             \A t \in Tid \ {running_tid_} : local'[t] = local[t]
      PROVE  Executed
  BY <1>2 DEF Called, Advances, Executed
<1>3. CASE call
  <2>1. /\ at = "user" /\ ~ Returned(running_tid_) /\ Library(Current) /\ Advance
        /\ Current.op \in Calls
        /\ UNCHANGED <<program, routine, local, Globals>> /\ failed' \in BOOLEAN
    BY <1>1, <1>3 DEF call, Does, Expect, GlobalsTypeOK
  <2>2. Called
    BY <2>1, LibraryCalled
  <2>3. Current.op = "uthread_terminate" => uthread_terminate(Who(Current.arg))
    BY <2>1 DEF Library
  <2>4. Advances
    BY <1>1, <2>1, <2>2, <2>3 DEF Advances, Calls
  <2> QED
    BY <1>1, <2>1, <2>4 DEF Executed, GlobalsTypeOK, Globals
<1>4. CASE spawn
  <2>1. /\ ~ Returned(running_tid_) /\ Current.op = "uthread_spawn"
        /\ SpawnExpecting(Current.arg, IF Current.returns = Unread THEN {-1} \cup Tid
                                       ELSE {Current.returns})
        /\ UNCHANGED Globals
    BY <1>4 DEF spawn, Does
  <2>2. Executed /\ failed' \in BOOLEAN
    BY <2>1, SpawnExecuted
  <2> QED
    BY <1>1, <2>1, <2>2 DEF GlobalsTypeOK, Globals
<1>5. CASE while
  <2>1. /\ at = "user" /\ ~ Returned(running_tid_) /\ Current.op = "while"
        /\ \/ Holds(Current) /\ Advance /\ UNCHANGED vars
           \/ Library(Current.body) /\ UNCHANGED pc
        /\ UNCHANGED <<program, routine, local, testVars>>
    BY <1>5 DEF while, Does
  <2>2. CASE Holds(Current) /\ Advance /\ UNCHANGED vars
    BY <1>1, <2>1, <2>2 DEF Called, Advances, Executed, GlobalsTypeOK, testVars
  <2>3. CASE Library(Current.body) /\ UNCHANGED pc
    <3>1. /\ Current.body.op # "uthread_sleep"
          /\ TerminatesNoOther(Text[program]) => Current.body.op # "uthread_terminate"
      BY <2>1
    <3>2. Called
      BY <2>1, <2>3, <3>1, LibraryCalled
    <3> QED
      BY <1>1, <2>1, <2>3, <3>2 DEF Stays, Executed, threadVars, GlobalsTypeOK, testVars
  <2> QED
    BY <2>1, <2>2, <2>3
<1>6. CASE mark
  <2>1. Executed
    BY <1>1, <1>2, <1>6 DEF mark, Does, Inside
  <2> QED
    BY <1>1, <1>6, <2>1 DEF mark, GlobalsTypeOK
<1>7. CASE totalSleep
  <2>1. /\ at = "user" /\ ~ Returned(running_tid_)
        /\ Current.op \in {"start total", "spin total"}
        /\ \/ /\ Current.op = "start total"
              /\ local' = [local EXCEPT ![running_tid_] = total_quantums + Current.arg]
           \/ UNCHANGED local
        /\ Advance /\ UNCHANGED <<testVars, vars, program, routine>>
    BY <1>7 DEF totalSleep, Does, Inside
  <2>2. /\ local' \in [Tid -> Nat]
        /\ \A t \in Tid \ {running_tid_} : local'[t] = local[t]
    <3>1. Current.op = "start total" => total_quantums + Current.arg \in Nat
      <4> SUFFICES ASSUME Current.op = "start total"
                   PROVE  total_quantums + Current.arg \in Nat
        OBVIOUS
      <4>1. Current.arg \in Nat
        BY <2>1
      <4> QED
        BY ONLY <1>1, <4>1
    <3> QED
      BY ONLY <1>1, <2>1, <3>1
  <2> QED
    BY <1>1, <1>2, <2>1, <2>2 DEF GlobalsTypeOK, testVars
<1>8. CASE quantumSleep
  <2>1. /\ at = "user" /\ ~ Returned(running_tid_)
        /\ \/ /\ Current.op = "start"
              /\ local' = [local EXCEPT ![running_tid_] = ThreadQuantums + Current.arg]
              /\ Advance
           \/ Current.op = "spin" /\ (Advance \/ UNCHANGED pc) /\ UNCHANGED local
        /\ uthread_get_quantums(running_tid_)
        /\ UNCHANGED <<program, routine, testVars>>
    BY <1>8 DEF quantumSleep, Does
  <2>2. Called /\ at' = "user"
    BY <1>1, <2>1 DEF Called, uthread_get_quantums, control
  <2>3. CASE Current.op = "start"
    <3>1. ThreadQuantums + Current.arg \in Nat
      BY <1>1, <2>1, <2>3 DEF ThreadQuantums
    <3>2. /\ local' \in [Tid -> Nat] /\ local'[running_tid_] = ThreadQuantums + Current.arg
          /\ \A t \in Tid \ {running_tid_} : local'[t] = local[t]
      BY <1>1, <2>1, <2>3, <3>1
    <3>3. Advances
      BY <2>1, <2>2, <2>3, <3>2 DEF Advances
    <3> QED
      BY <1>1, <2>1, <3>3 DEF Executed, GlobalsTypeOK, testVars
  <2>4. CASE Current.op = "spin"
    <3>1. Advances \/ Stays
      BY <1>1, <2>1, <2>2, <2>4 DEF Advances, Stays, threadVars
    <3> QED
      BY <1>1, <2>1, <3>1 DEF Executed, GlobalsTypeOK, testVars
  <2> QED
    BY <2>1, <2>3, <2>4
<1>9. CASE EXPECT
  <2>1. Executed
    BY <1>1, <1>2, <1>9 DEF EXPECT, Does, Inside
  <2>2. failed' \in BOOLEAN /\ UNCHANGED Globals
    BY <1>1, <1>9 DEF EXPECT, Expect, GlobalsTypeOK
  <2> QED
    BY <1>1, <2>1, <2>2 DEF GlobalsTypeOK, Globals
<1>10. CASE record
  <2>1. Executed
    BY <1>1, <1>2, <1>10 DEF record, Does, Inside
  <2>2. quantumsToTids' \in [0 .. INT_RANGE - 1 -> -1 .. MAX_THREAD_NUM - 1]
    <3>1. running_tid_ \in -1 .. MAX_THREAD_NUM - 1
      BY ONLY <1>1, ThreadsAssumption DEF Tid
    <3> QED
      BY <1>1, <1>10, <3>1 DEF record, GlobalsTypeOK
  <2> QED
    BY <1>1, <1>10, <2>1, <2>2 DEF record, GlobalsTypeOK
<1>11. CASE count
  <2>1. /\ at = "user" /\ ~ Returned(running_tid_)
        /\ Current.op \in {"read counter", "write counter", "await counter"}
        /\ local' \in {local, [local EXCEPT ![running_tid_] = ranAtLeastOnce]}
        /\ ranAtLeastOnce' \in {ranAtLeastOnce, local[running_tid_] + 1}
        /\ Advance /\ UNCHANGED <<vars, program, routine, marked, quantumsToTids, tids, failed>>
    BY <1>11 DEF count, Does, Inside
  <2>2. /\ local' \in [Tid -> Nat] /\ ranAtLeastOnce' \in Nat
        /\ \A t \in Tid \ {running_tid_} : local'[t] = local[t]
    <3>1. ranAtLeastOnce \in Nat /\ local[running_tid_] + 1 \in Nat
      BY ONLY <1>1 DEF GlobalsTypeOK
    <3>2. ranAtLeastOnce' \in Nat
      BY ONLY <2>1, <3>1
    <3>3. CASE local' = local
      BY ONLY <1>1, <3>2, <3>3
    <3>4. CASE local' = [local EXCEPT ![running_tid_] = ranAtLeastOnce]
      BY ONLY <1>1, <3>1, <3>2, <3>4
    <3> QED
      BY ONLY <2>1, <3>3, <3>4
  <2> QED
    BY <1>1, <1>2, <2>1, <2>2 DEF GlobalsTypeOK
<1>12. CASE terminateAndSpawn
  <2>1. UNCHANGED <<marked, ranAtLeastOnce, quantumsToTids>>
    BY <1>12 DEF terminateAndSpawn
  <2>2. CASE Does("terminate one")
    <3>1. PICK tid \in 1 .. SPAWN_COUNT :
            /\ uthread_terminate(tid) /\ Expect(Exists(tid)) /\ tids' = tids \cup {tid}
      BY <1>12, <2>2 DEF terminateAndSpawn, Does
    <3>2. /\ at = "user" /\ ~ Returned(running_tid_) /\ Current.op = "terminate one"
          /\ Advance /\ UNCHANGED <<program, routine, local>>
      BY <1>12, <2>2 DEF terminateAndSpawn, Does
    <3>3. tid \in Tid
      BY ONLY SpawnAssumption, ThreadsAssumption DEF Tid
    <3>4. Called
      BY <3>1, <3>2, <3>3 DEF Called
    <3>5. Advances
      BY <1>1, <3>2, <3>4 DEF Advances
    <3>6. failed' \in BOOLEAN /\ tids' \subseteq Tid
      BY <1>1, <3>1, <3>3 DEF Expect, GlobalsTypeOK
    <3> QED
      BY <1>1, <2>1, <3>2, <3>5, <3>6 DEF Executed, GlobalsTypeOK
  <2>3. CASE Does("spawn lowest")
    <3>1. PICK id \in tids : SpawnExpecting("f", {id}) /\ tids' = tids \ {id}
      BY <1>12, <2>3 DEF terminateAndSpawn, Does
    <3>2. ~ Returned(running_tid_) /\ Current.op = "spawn lowest"
      BY <2>3 DEF Does
    <3>3. "f" \in DOMAIN Text[program] \ {"main"}
      BY <3>2
    <3>4. Executed /\ failed' \in BOOLEAN
      BY <3>1, <3>2, <3>3, SpawnExecuted
    <3> QED
      BY <1>1, <2>1, <3>1, <3>4 DEF GlobalsTypeOK
  <2> QED
    BY <1>12, <2>2, <2>3 DEF terminateAndSpawn
<1>13. CASE doOperation
  <2>1. /\ at = "user" /\ ~ Returned(running_tid_) /\ Current.op = "doOperation"
        /\ UNCHANGED <<marked, ranAtLeastOnce, quantumsToTids>>
    BY <1>13 DEF doOperation, Does
  <2>2. ASSUME SpawnExpecting("f", Tid \ {0}), tids' = tids \cup (free_ids_ \ free_ids_')
        PROVE  Executed /\ GlobalsTypeOK'
    <3>1. "f" \in DOMAIN Text[program] \ {"main"}
      BY <2>1
    <3>2. Executed /\ failed' \in BOOLEAN
      BY <2>1, <2>2, <3>1, SpawnExecuted
    <3>3. free_ids_ \subseteq Tid
      BY DEF SchedulerInv, TypeOK
    <3> QED
      BY <1>1, <2>1, <2>2, <3>2, <3>3 DEF GlobalsTypeOK
  <2>3. ASSUME NEW tid \in tids, Advance, UNCHANGED <<program, routine, local>>,
               \/ uthread_terminate(tid) /\ Expect(Exists(tid)) /\ tids' = tids \ {tid}
               \/ uthread_block(tid) /\ Expect(~ Unblockable(tid)) /\ UNCHANGED tids
               \/ uthread_resume(tid) /\ Expect(Exists(tid)) /\ UNCHANGED tids
               \/ UNCHANGED <<vars, failed, tids>>
        PROVE  Executed /\ GlobalsTypeOK'
    <3>1. tid \in Tid /\ ~ TerminatesNoOther(Text[program])
      BY <1>1, <2>1 DEF GlobalsTypeOK
    <3>2. Called
      BY <2>3, <3>1 DEF Called
    <3>3. Advances
      BY <1>1, <2>1, <2>3, <3>2 DEF Advances
    <3>4. failed' \in BOOLEAN /\ tids' \subseteq Tid
      BY <1>1, <2>3 DEF Expect, GlobalsTypeOK
    <3> QED
      BY <1>1, <2>1, <2>3, <3>3, <3>4 DEF Executed, GlobalsTypeOK
  <2> QED
    BY <1>13, <2>2, <2>3 DEF doOperation
<1> QED
  BY <1>3, <1>4, <1>5, <1>6, <1>7, <1>8, <1>9, <1>10, <1>11, <1>12, <1>13 DEF ClientStep

-----------------------------------------------------------------------------
(* What it is to the client's threads *)

\* A switch makes and ends no thread, and counts no quantum yet.
LEMMA SwitchFrame ==
  ASSUME NEW to, NEW ret, NEW st, NEW sl, switch_threads(to, ret, st, sl)
  PROVE  /\ UNCHANGED <<all_threads_, num_of_quantums_running>>
         /\ at' \in {"jump", "crashed"}
BY DEF switch_threads, Crash, objects

\* Nor does a call that is not about making or ending one.
LEMMA BlockFrame ==
  ASSUME NEW tid, uthread_block(tid) \/ uthread_resume(tid) \/ uthread_get_quantums(tid)
  PROVE  /\ UNCHANGED <<all_threads_, num_of_quantums_running>>
         /\ at' = "user" => running_tid_' = running_tid_
<1>1. CASE switch_threads("BLOCKED", "uthread_block", status_, sleepers_)
  BY <1>1, SwitchFrame
<1>2. CASE ~ switch_threads("BLOCKED", "uthread_block", status_, sleepers_)
  BY <1>2 DEF uthread_block, uthread_resume, uthread_get_quantums, Refuse, objects, control
<1> QED
  BY <1>1, <1>2

\* Nor does uthread_sleep.
LEMMA SleepFrame ==
  ASSUME NEW num_quantums, uthread_sleep(num_quantums)
  PROVE  /\ UNCHANGED <<all_threads_, num_of_quantums_running>>
         /\ at' = "user" => running_tid_' = running_tid_
<1>1. CASE Refuse
  BY <1>1 DEF Refuse, objects, control
<1>2. CASE ~ Refuse
  <2>1. switch_threads("ASLEEP", "uthread_sleep", [status_ EXCEPT ![running_tid_] = "ASLEEP"],
                       Emplace(running_tid_, num_quantums))
    BY <1>2 DEF uthread_sleep
  <2> QED
    BY <2>1, SwitchFrame
<1> QED
  BY <1>1, <1>2

\* A call makes no thread, counts no quantum, and the caller goes on if it
\* returns to its code.
LEMMA CalledFrame ==
  ASSUME SchedulerInv, at = "user", Called
  PROVE  /\ Next \/ UNCHANGED vars
         /\ all_threads_' \subseteq all_threads_
         /\ \A t \in all_threads_' : num_of_quantums_running'[t] = num_of_quantums_running[t]
         /\ at' = "user" => running_tid_' = running_tid_
<1>1. Next \/ UNCHANGED vars
  BY DEF Called, Next
<1>2. /\ num_of_quantums_running \in [Tid -> 0 .. INT_RANGE - 1]
      /\ all_threads_ \subseteq Tid
  BY DEF SchedulerInv, TypeOK
<1>3. CASE UNCHANGED vars
  BY <1>1, <1>3 DEF vars, objects, control
<1>4. ASSUME NEW tid \in Tid, uthread_terminate(tid)
      PROVE  /\ all_threads_' \subseteq all_threads_
             /\ \A t \in all_threads_' : num_of_quantums_running'[t] = num_of_quantums_running[t]
             /\ running_tid_' = running_tid_
  <2>1. CASE Refuse \/ Exit
    BY <2>1 DEF Refuse, Exit, objects, control
  <2>2. CASE Delete(tid)
    BY <1>2, <1>4, <2>2 DEF uthread_terminate, Delete, Refuse, Exit, control
  <2> QED
    BY <1>4, <2>1, <2>2 DEF uthread_terminate
<1>5. ASSUME NEW tid \in Tid,
             uthread_block(tid) \/ uthread_resume(tid) \/ uthread_get_quantums(tid)
      PROVE  /\ UNCHANGED <<all_threads_, num_of_quantums_running>>
             /\ at' = "user" => running_tid_' = running_tid_
  BY <1>5, BlockFrame
<1>6. ASSUME NEW num_quantums \in -1 .. MAX_SLEEP, uthread_sleep(num_quantums)
      PROVE  /\ UNCHANGED <<all_threads_, num_of_quantums_running>>
             /\ at' = "user" => running_tid_' = running_tid_
  BY <1>6, SleepFrame
<1> QED
  BY <1>1, <1>3, <1>4, <1>5, <1>6 DEF Called

\* uthread_spawn makes a thread with the lowest id that is free.
LEMMA SpawnedFrame ==
  ASSUME SchedulerInv, Spawned
  PROVE  /\ Next
         /\ LowestFree \in Tid \ all_threads_
         /\ all_threads_' = all_threads_ \cup {LowestFree}
         /\ num_of_quantums_running' = [num_of_quantums_running EXCEPT ![LowestFree] = 0]
         /\ status_' = [status_ EXCEPT ![LowestFree] = "READY"]
         /\ UNCHANGED running_tid_
<1>1. PICK tid \in Tid :
        /\ IsFirstFree(tid)
        /\ all_threads_' = all_threads_ \cup {tid}
        /\ num_of_quantums_running' = [num_of_quantums_running EXCEPT ![tid] = 0]
        /\ status_' = [status_ EXCEPT ![tid] = "READY"]
        /\ UNCHANGED running_tid_
  BY DEF Spawned, uthread_spawn, Refuse, Exit, control
<1>2. free_ids_ = Tid \ all_threads_
  BY DEF SchedulerInv, IdsPartition
<1>3. ASSUME NEW other, IsFirstFree(other)
      PROVE  other = tid
  <2>1. other \in Tid /\ other <= tid /\ tid <= other
    BY <1>1, <1>2, <1>3 DEF IsFirstFree
  <2> QED
    BY <2>1 DEF Tid
<1>4. LowestFree \in free_ids_ /\ IsFirstFree(LowestFree)
  BY <1>1 DEF LowestFree, IsFirstFree
<1>5. LowestFree = tid
  BY <1>3, <1>4
<1>6. Next
  BY DEF Spawned, Next
<1> QED
  BY <1>1, <1>2, <1>4, <1>5, <1>6

\* What the system does by itself, or to end the process.
System ==
  /\ startRunning \/ leave \/ ((Prompt => Waits) /\ timer_handler) \/ Done
  /\ UNCHANGED clientVars

\* A step is one of these.
LEMMA StepCases ==
  ASSUME SchedulerInv, ClientsTypeOK, ClientsNext
  PROVE  System \/ return \/ (Executed /\ GlobalsTypeOK')
BY StatementExecuted DEF ClientsNext, Start, Leave, Tick, System

\* The system's steps make and end no thread either; a quantum is counted at
\* the jump.
LEMMA SystemFrame ==
  ASSUME System
  PROVE  /\ Next
         /\ UNCHANGED all_threads_
         /\ startRunning \/ UNCHANGED num_of_quantums_running
<1>1. Next
  BY DEF System, Next
<1>2. CASE startRunning
  BY <1>1, <1>2 DEF startRunning
<1>3. CASE leave
  BY <1>1, <1>3, SwitchFrame DEF leave, pickFront, popFront, countTotal, Crash, objects
<1>4. CASE timer_handler
  BY <1>1, <1>4, SwitchFrame DEF timer_handler
<1>5. CASE Done
  BY <1>1, <1>5 DEF Done, vars, objects
<1> QED
  BY <1>2, <1>3, <1>4, <1>5 DEF System

-----------------------------------------------------------------------------
(* The scheduler's invariant and the clients' types *)

\* main's return, and an entry function's, change where the control is.
LEMMA ReturnFrame ==
  ASSUME SchedulerInv, return
  PROVE  /\ SchedulerInv'
         /\ at' \in {"exited", "lost"}
         /\ UNCHANGED <<all_threads_, clientVars>>
BY DEF return, SchedulerInv, objects, queues, TypeOK, At, IdsPartition,
       MainAlwaysSchedulable, ReadyThreadsAreQueued, OneRunning, Over, Ready

\* What the running thread is about to execute, the next one or a new one.
LEMMA ExecutedTypes ==
  ASSUME SchedulerInv, ClientsTypeOK, Executed, GlobalsTypeOK'
  PROVE  SchedulerInv' /\ ClientsTypeOK'
<1>1. /\ program \in Programs
      /\ routine \in [Tid -> DOMAIN Text[program]]
      /\ \A t \in all_threads_ : routine[t] = "main" <=> t = 0
      /\ pc \in [Tid -> Nat \ {0}]
      /\ local \in [Tid -> Nat]
  BY DEF ClientsTypeOK
<1>2. running_tid_ \in Tid /\ all_threads_ \subseteq Tid /\ 0 \in all_threads_
  BY DEF SchedulerInv, TypeOK, IdsPartition
<1>3. at = "user" /\ program' = program
  BY DEF Executed
<1>4. \A k \in Nat \ {0} : k + 1 \in Nat \ {0}
  OBVIOUS
<1>5. ASSUME Called, UNCHANGED routine, local' \in [Tid -> Nat],
             pc' \in {pc, [pc EXCEPT ![running_tid_] = @ + 1]}
      PROVE  SchedulerInv' /\ ClientsTypeOK'
  <2>1. Next \/ UNCHANGED vars
    BY <1>3, <1>5, CalledFrame
  <2>2. SchedulerInv'
    <3>1. CASE Next
      BY <3>1, NextInv
    <3>2. CASE UNCHANGED vars
      BY <3>2 DEF vars, objects, queues, control, SchedulerInv, TypeOK, IdsPartition,
                  MainAlwaysSchedulable, ReadyThreadsAreQueued, OneRunning, Over, Ready
    <3> QED
      BY <2>1, <3>1, <3>2
  <2>3. pc' \in [Tid -> Nat \ {0}]
    BY ONLY <1>1, <1>2, <1>4, <1>5
  <2>4. all_threads_' \subseteq all_threads_
    BY <1>3, <1>5, CalledFrame
  <2> QED
    BY ONLY <1>1, <1>3, <1>5, <2>2, <2>3, <2>4, GlobalsTypeOK' DEF ClientsTypeOK, GlobalsTypeOK
<1>6. ASSUME Spawned, UNCHANGED local,
             NEW entry \in DOMAIN Text[program] \ {"main"}, Enter(entry)
      PROVE  SchedulerInv' /\ ClientsTypeOK'
  <2>1. /\ Next /\ LowestFree \in Tid \ all_threads_
        /\ all_threads_' = all_threads_ \cup {LowestFree}
    BY <1>6, SpawnedFrame
  <2>2. SchedulerInv'
    BY <2>1, NextInv
  <2> DEFINE new == LowestFree
  <2>3. /\ routine' = [routine EXCEPT ![new] = entry]
        /\ pc' = [pc EXCEPT ![running_tid_] = @ + 1, ![new] = 1]
    BY <1>6 DEF Enter
  <2> HIDE DEF new
  <2>4. new \in Tid /\ new \notin all_threads_ /\ new # 0
    BY <1>2, <2>1 DEF new
  <2>5. all_threads_' = all_threads_ \cup {new}
    BY <2>1 DEF new
  <2>6. /\ routine' \in [Tid -> DOMAIN Text[program]]
        /\ pc' \in [Tid -> Nat \ {0}]
    BY ONLY <1>1, <1>2, <1>4, <1>6, <2>3, <2>4
  <2>7. \A t \in all_threads_' : routine'[t] = "main" <=> t = 0
    BY ONLY <1>1, <1>2, <1>6, <2>3, <2>4, <2>5
  <2> QED
    BY ONLY <1>1, <1>3, <1>6, <2>2, <2>6, <2>7, GlobalsTypeOK' DEF ClientsTypeOK, GlobalsTypeOK
<1>7. CASE Advances
  BY <1>5, <1>7 DEF Advances, Advance
<1>8. CASE Stays
  BY <1>1, <1>5, <1>8 DEF Stays, threadVars
<1>9. CASE Spawns
  BY <1>6, <1>9 DEF Spawns
<1> QED
  BY <1>7, <1>8, <1>9 DEF Executed

\* A step of the system changes nothing of the clients'.
LEMMA ClientsFrame ==
  ASSUME ClientsTypeOK, UNCHANGED clientVars, UNCHANGED all_threads_
  PROVE  ClientsTypeOK'
BY DEF ClientsTypeOK, clientVars, threadVars, testVars

\* The two invariants together are inductive.
LEMMA TypesStep ==
  ASSUME SchedulerInv, ClientsTypeOK, [ClientsNext]_allVars
  PROVE  SchedulerInv' /\ ClientsTypeOK'
<1>1. CASE System
  BY <1>1, SystemFrame, ClientsFrame, NextInv DEF System
<1>2. CASE return
  BY <1>2, ReturnFrame, ClientsFrame
<1>3. CASE Executed /\ GlobalsTypeOK'
  BY <1>3, ExecutedTypes
<1>4. CASE UNCHANGED allVars
  <2>1. ClientsTypeOK'
    BY <1>4, ClientsFrame DEF allVars, vars, objects
  <2> QED
    BY <1>4, <2>1 DEF allVars, vars, objects, queues, control, SchedulerInv, TypeOK, IdsPartition,
                      MainAlwaysSchedulable, ReadyThreadsAreQueued, OneRunning, Over, Ready
<1> QED
  BY <1>1, <1>2, <1>3, <1>4, StepCases

\* The programs start with nothing but main.
LEMMA InitTypes == ClientsInit => SchedulerInv /\ ClientsTypeOK
<1> SUFFICES ASSUME ClientsInit
             PROVE  SchedulerInv /\ ClientsTypeOK
  OBVIOUS
<1>1. SchedulerInv /\ all_threads_ = {0}
  BY InitInv DEF ClientsInit, Init
<1>2. program \in Programs /\ "main" \in DOMAIN Text[program]
  BY DEF ClientsInit, WellFormed
<1>3. -1 \in -1 .. MAX_THREAD_NUM - 1
  BY ONLY ThreadsAssumption
<1>4. /\ routine = [t \in Tid |-> "main"]
      /\ pc = [t \in Tid |-> 1]
      /\ local = [t \in Tid |-> 0]
      /\ marked = {} /\ ranAtLeastOnce = 0 /\ tids = {} /\ failed = FALSE
      /\ quantumsToTids = [q \in 0 .. INT_RANGE - 1 |-> -1]
  BY DEF ClientsInit
<1>5. quantumsToTids \in [0 .. INT_RANGE - 1 -> -1 .. MAX_THREAD_NUM - 1]
  BY ONLY <1>3, <1>4
<1>6. routine \in [Tid -> DOMAIN Text[program]]
  BY ONLY <1>2, <1>4
<1>7. \A t \in all_threads_ : routine[t] = "main" <=> t = 0
  <2>1. 0 \in Tid
    BY ONLY ThreadsAssumption DEF Tid
  <2> QED
    BY ONLY <1>1, <1>4, <2>1
<1>8. pc \in [Tid -> Nat \ {0}] /\ local \in [Tid -> Nat]
  BY ONLY <1>4
<1>9. marked \subseteq Tid /\ ranAtLeastOnce \in Nat /\ tids \subseteq Tid /\ failed \in BOOLEAN
  BY ONLY <1>4
<1> QED
  BY ONLY <1>1, <1>2, <1>5, <1>6, <1>7, <1>8, <1>9 DEF ClientsTypeOK

\* Whatever well-formed program runs, the threads' places in it and its globals
\* keep their types, and main alone executes the main routine; and the
\* scheduler's invariant holds although threads may return.
THEOREM ClientsTypeCorrect == ClientsSpec => [](SchedulerInv /\ ClientsTypeOK)
<1>1. SchedulerInv /\ ClientsTypeOK /\ [ClientsNext]_allVars => (SchedulerInv /\ ClientsTypeOK)'
  BY TypesStep
<1> QED
  BY <1>1, InitTypes, PTL DEF ClientsSpec

-----------------------------------------------------------------------------
(* threadQuantumSleep *)

\* A thread is in threadQuantumSleep's loop.
AtSpin(t) == ~ Returned(t) /\ Statement(t).op = "spin"

\* EndNotPassed, with what makes it inductive: only while a thread runs may it
\* have reached the quantum it waits for, as the next one is counted when it is
\* given the processor.
EndInv ==
  ~ Over => \A t \in all_threads_ : AtSpin(t) =>
    /\ num_of_quantums_running[t] <= local[t]
    /\ t # running_tid_ \/ at \notin {"user", "counted"} =>
         num_of_quantums_running[t] < local[t]

\* A thread gets into the loop from the statement in front of it only.
LEMMA SpinBehindStart ==
  ASSUME ClientsTypeOK, NEW name \in DOMAIN Text[program],
         NEW k \in Nat \ {0}, ~ (k > Len(Text[program][name])),
         Text[program][name][k].op = "spin"
  PROVE  k > 1 /\ Text[program][name][k - 1].op = "start"
<1>1. WellFormed(Text[program])
  BY DEF ClientsTypeOK
<1>2. Len(Text[program][name]) \in Nat
  BY ONLY <1>1, name \in DOMAIN Text[program] DEF WellFormed
<1>3. k \in 1 .. Len(Text[program][name])
  BY ONLY <1>2, k \in Nat \ {0}, ~ (k > Len(Text[program][name]))
<1> QED
  BY <1>1, <1>3 DEF WellFormed

\* A thread that neither runs nor is new stays where it is, and so does what it
\* waits for.
LEMMA OthersWait ==
  ASSUME SchedulerInv, ClientsTypeOK, EndInv, at = "user", UNCHANGED program,
         NEW t \in all_threads_ \ {running_tid_},
         routine'[t] = routine[t], pc'[t] = pc[t], local'[t] = local[t],
         num_of_quantums_running'[t] = num_of_quantums_running[t],
         AtSpin(t)'
  PROVE  num_of_quantums_running'[t] < local'[t]
<1>1. AtSpin(t)
  BY DEF AtSpin, Returned, Statement, Code
<1> QED
  BY <1>1 DEF EndInv, Over

\* The counters the loop compares are numbers.
LEMMA CounterTypes ==
  ASSUME SchedulerInv, ClientsTypeOK, NEW t \in all_threads_
  PROVE  /\ t \in Tid
         /\ num_of_quantums_running[t] \in 0 .. INT_RANGE - 1
         /\ local[t] \in Nat
         /\ routine[t] \in DOMAIN Text[program]
         /\ pc[t] \in Nat \ {0}
<1>1. /\ all_threads_ \subseteq Tid
      /\ num_of_quantums_running \in [Tid -> 0 .. INT_RANGE - 1]
  BY DEF SchedulerInv, TypeOK
<1>2. local \in [Tid -> Nat] /\ routine \in [Tid -> DOMAIN Text[program]] /\ pc \in [Tid -> Nat \ {0}]
  BY DEF ClientsTypeOK
<1> QED
  BY ONLY <1>1, <1>2, t \in all_threads_

\* The system's steps preserve the invariant: the timer does not expire while
\* the running thread has reached its end.
LEMMA SystemEnd ==
  ASSUME Prompt, SchedulerInv, ClientsTypeOK, EndInv, System
  PROVE  EndInv'
<1> SUFFICES ASSUME ~ Over', NEW t \in all_threads_', AtSpin(t)'
             PROVE  /\ num_of_quantums_running'[t] <= local'[t]
                    /\ t # running_tid_' \/ at' \notin {"user", "counted"} =>
                         num_of_quantums_running'[t] < local'[t]
  BY DEF EndInv
<1>1. t \in all_threads_ /\ UNCHANGED clientVars
  BY SystemFrame DEF System
<1>2. AtSpin(t) /\ local'[t] = local[t]
  BY <1>1 DEF AtSpin, Returned, Statement, Code, clientVars, threadVars
<1>3. num_of_quantums_running[t] \in Nat /\ local[t] \in Nat
  BY <1>1, CounterTypes
<1>4. CASE startRunning
  <2>1. /\ num_of_quantums_running[t] <= local[t]
        /\ t # running_tid_ \/ at = "jump" => num_of_quantums_running[t] < local[t]
    BY <1>1, <1>2, <1>4 DEF startRunning, EndInv, Over
  <2>2. \/ num_of_quantums_running' = num_of_quantums_running
        \/ at = "jump" /\ num_of_quantums_running' = QuantumStarted(running_tid_)
    BY <1>4 DEF startRunning
  <2>3. num_of_quantums_running \in [Tid -> 0 .. INT_RANGE - 1] /\ t \in Tid
    BY <1>1, CounterTypes DEF SchedulerInv, TypeOK
  <2>4. \A n \in 0 .. INT_RANGE - 1 : Bump(n) <= n + 1 /\ Bump(n) \in Nat
    BY ONLY RangeAssumption DEF Bump
  <2>5. t # running_tid_ => num_of_quantums_running'[t] = num_of_quantums_running[t]
    BY ONLY <2>2, <2>3 DEF QuantumStarted
  <2>6. t = running_tid_ => num_of_quantums_running'[t] <= local[t]
    <3>1. CASE num_of_quantums_running' = num_of_quantums_running
      BY ONLY <2>1, <3>1
    <3>2. CASE at = "jump" /\ num_of_quantums_running' = QuantumStarted(running_tid_)
      <4>1. t = running_tid_ =>
              num_of_quantums_running'[t] = Bump(num_of_quantums_running[t])
        BY ONLY <2>3, <3>2 DEF QuantumStarted
      <4> QED
        BY ONLY <1>3, <2>1, <2>3, <2>4, <3>2, <4>1
    <3> QED
      BY ONLY <2>2, <3>1, <3>2
  <2>7. running_tid_' = running_tid_ /\ at' \in {"user", "counted"}
    BY <1>4 DEF startRunning, siglongjmp, Over
  <2> QED
    BY ONLY <1>2, <1>3, <2>1, <2>5, <2>6, <2>7
<1>5. CASE ~ startRunning
  <2>1. num_of_quantums_running'[t] = num_of_quantums_running[t]
    BY <1>5, SystemFrame
  <2>2. num_of_quantums_running[t] < local[t]
    <3>1. leave \/ (Waits /\ timer_handler)
      <4>1. ~ Done
        BY DEF Done, Over, vars, control
      <4> QED
        BY <1>5, <4>1 DEF System
    <3>2. ~ Over
      BY <3>1 DEF leave, pickFront, popFront, countTotal, timer_handler, Over
    <3>3. /\ num_of_quantums_running[t] <= local[t]
          /\ t # running_tid_ \/ at \notin {"user", "counted"} => num_of_quantums_running[t] < local[t]
      BY <1>1, <1>2, <3>2 DEF EndInv
    <3>4. CASE leave
      BY <3>3, <3>4 DEF leave, pickFront, popFront, countTotal
    <3>5. CASE Waits /\ t = running_tid_
      <4>1. num_of_quantums_running[t] # local[t]
        BY <1>2, <3>5 DEF AtSpin, Waits, Current, ThreadQuantums
      <4> QED
        BY ONLY <1>3, <3>3, <4>1
    <3> QED
      BY <3>1, <3>3, <3>4, <3>5
  <2> QED
    BY <1>2, <1>3, <2>1, <2>2
<1> QED
  BY <1>4, <1>5

\* A statement of the running thread preserves it.
LEMMA ExecutedEnd ==
  ASSUME SchedulerInv, ClientsTypeOK, EndInv, Executed
  PROVE  EndInv'
<1> SUFFICES ASSUME ~ Over', NEW t \in all_threads_', AtSpin(t)'
             PROVE  /\ num_of_quantums_running'[t] <= local'[t]
                    /\ t # running_tid_' \/ at' \notin {"user", "counted"} =>
                         num_of_quantums_running'[t] < local'[t]
  BY DEF EndInv
<1>1. /\ at = "user" /\ ~ Returned(running_tid_) /\ UNCHANGED program
      /\ running_tid_ \in all_threads_ /\ running_tid_ \in Tid
      /\ routine \in [Tid -> DOMAIN Text[program]] /\ pc \in [Tid -> Nat \ {0}]
      /\ local \in [Tid -> Nat]
      /\ num_of_quantums_running \in [Tid -> 0 .. INT_RANGE - 1]
      /\ all_threads_ \subseteq Tid
  BY DEF Executed, SchedulerInv, OneRunning, TypeOK, ClientsTypeOK
<1>2. ASSUME t \in all_threads_ \ {running_tid_},
             routine'[t] = routine[t], pc'[t] = pc[t], local'[t] = local[t],
             num_of_quantums_running'[t] = num_of_quantums_running[t]
      PROVE  /\ num_of_quantums_running'[t] <= local'[t]
             /\ num_of_quantums_running'[t] < local'[t]
  <2>1. num_of_quantums_running'[t] < local'[t]
    BY <1>1, <1>2, OthersWait
  <2>2. num_of_quantums_running'[t] \in Int /\ local'[t] \in Int
    BY ONLY <1>1, <1>2
  <2> QED
    BY ONLY <2>1, <2>2
<1>3. ASSUME t = running_tid_, routine'[t] = routine[t], pc'[t] = pc[t] + 1
      PROVE  Current.op = "start"
  <2> DEFINE name == routine[t]
             k == pc[t] + 1
  <2>1. name \in DOMAIN Text[program] /\ k \in Nat \ {0} /\ k - 1 = pc[t]
    BY ONLY <1>1, <1>3
  <2>2. ~ (k > Len(Text[program][name])) /\ Text[program][name][k].op = "spin"
    BY <1>1, <1>3 DEF AtSpin, Returned, Statement, Code
  <2>3. Text[program][name][k - 1].op = "start"
    <3> HIDE DEF name, k
    <3> QED
      BY <2>1, <2>2, SpinBehindStart
  <2> QED
    BY <1>3, <2>1, <2>3 DEF Current, Statement, Code
<1>4. ASSUME Called
      PROVE  /\ t \in all_threads_ /\ num_of_quantums_running'[t] = num_of_quantums_running[t]
             /\ at' = "user" => running_tid_' = running_tid_
  BY <1>1, <1>4, CalledFrame
<1>5. CASE Advances
  <2>1. /\ Called /\ pc' = [pc EXCEPT ![running_tid_] = @ + 1] /\ routine' = routine
        /\ \A x \in Tid \ {running_tid_} : local'[x] = local[x]
        /\ Current.op = "start" =>
             at' = "user" /\ local'[running_tid_] = ThreadQuantums + Current.arg
    BY <1>5 DEF Advances, Advance
  <2>2. CASE t # running_tid_
    <3>1. t \in all_threads_ /\ num_of_quantums_running'[t] = num_of_quantums_running[t]
      BY <1>4, <2>1
    <3>2. routine'[t] = routine[t] /\ pc'[t] = pc[t] /\ local'[t] = local[t]
      BY ONLY <1>1, <2>1, <2>2, <3>1
    <3> QED
      BY <1>2, <2>2, <3>1, <3>2
  <2>3. CASE t = running_tid_
    <3>1. Current.op = "start"
      <4>1. routine'[t] = routine[t] /\ pc'[t] = pc[t] + 1
        BY ONLY <1>1, <2>1, <2>3
      <4> QED
        BY <1>3, <2>3, <4>1
    <3>2. Current.arg \in Nat
      BY <1>1, <3>1, CurrentFacts
    <3>3. /\ num_of_quantums_running'[t] = num_of_quantums_running[t]
          /\ at' = "user" /\ running_tid_' = t
          /\ local'[t] = num_of_quantums_running[t] + Current.arg
      BY <1>4, <2>1, <2>3, <3>1 DEF ThreadQuantums
    <3>4. num_of_quantums_running[t] \in Nat
      BY ONLY <1>1, <2>3
    <3> QED
      BY ONLY <3>2, <3>3, <3>4
  <2> QED
    BY <2>2, <2>3
<1>6. CASE Stays
  <2>1. /\ Called /\ UNCHANGED <<routine, pc, local>>
        /\ Current.op = "spin" => at' = "user"
    BY <1>6 DEF Stays, threadVars
  <2>2. t \in all_threads_ /\ num_of_quantums_running'[t] = num_of_quantums_running[t]
    BY <1>4, <2>1
  <2>3. CASE t # running_tid_
    BY <1>2, <2>1, <2>2, <2>3
  <2>4. CASE t = running_tid_
    <3>1. AtSpin(t)
      BY <1>1, <2>1 DEF AtSpin, Returned, Statement, Code
    <3>2. at' = "user" /\ running_tid_' = t
      BY <1>4, <2>1, <2>4, <3>1 DEF AtSpin, Current
    <3>3. num_of_quantums_running[t] <= local[t]
      BY <1>1, <2>2, <3>1 DEF EndInv, Over
    <3> QED
      BY ONLY <2>1, <2>2, <3>2, <3>3
  <2> QED
    BY <2>3, <2>4
<1>7. CASE Spawns
  <2> DEFINE new == LowestFree
  <2>1. PICK entry \in DOMAIN Text[program] \ {"main"} :
          /\ routine' = [routine EXCEPT ![new] = entry]
          /\ pc' = [pc EXCEPT ![running_tid_] = @ + 1, ![new] = 1]
    BY <1>7 DEF Spawns, Enter
  <2>2. Spawned /\ local' = local /\ Current.op # "start"
    BY <1>7 DEF Spawns
  <2>3. /\ new \in Tid \ all_threads_
        /\ all_threads_' = all_threads_ \cup {new}
        /\ num_of_quantums_running' = [num_of_quantums_running EXCEPT ![new] = 0]
    BY <2>2, SpawnedFrame
  <2> HIDE DEF new
  <2>4. CASE t = new
    <3> DEFINE k == 1
    <3>1. pc'[t] = k /\ routine'[t] = entry
      BY ONLY <1>1, <2>1, <2>3, <2>4
    <3>2. ~ (k > Len(Text[program][entry])) /\ Text[program][entry][k].op = "spin"
      BY <1>1, <3>1 DEF AtSpin, Returned, Statement, Code
    <3>3. k \in Nat \ {0} /\ ~ (k > 1)
      OBVIOUS
    <3> HIDE DEF k
    <3> QED
      BY <3>2, <3>3, SpinBehindStart
  <2>5. CASE t = running_tid_
    <3>1. routine'[t] = routine[t] /\ pc'[t] = pc[t] + 1
      BY ONLY <1>1, <2>1, <2>3, <2>5
    <3> QED
      BY <1>3, <2>2, <2>5, <3>1
  <2>6. CASE t # new /\ t # running_tid_
    <3>1. /\ t \in all_threads_ /\ routine'[t] = routine[t] /\ pc'[t] = pc[t]
          /\ local'[t] = local[t] /\ num_of_quantums_running'[t] = num_of_quantums_running[t]
      BY ONLY <1>1, <2>1, <2>2, <2>3, <2>6, t \in all_threads_'
    <3> QED
      BY <1>2, <2>6, <3>1
  <2> QED
    BY <2>4, <2>5, <2>6
<1> QED
  BY <1>5, <1>6, <1>7 DEF Executed

\* If the timer expires only while threads wait, a thread in threadQuantumSleep
\* never passes the quantum it waits for ("at some point,
\* uthread_get_quantums(myId) must obtain 'end'"), whatever the others do, and
\* even when the counters wrap around.
THEOREM EndIsNotPassed ==
  ASSUME Prompt
  PROVE  ClientsSpec => []EndNotPassed
<1>1. ClientsInit => EndInv
  <2> SUFFICES ASSUME ClientsInit, NEW t \in all_threads_, AtSpin(t)
               PROVE  FALSE
    BY DEF EndInv
  <2>1. SchedulerInv /\ ClientsTypeOK
    BY InitTypes
  <2>2. t \in Tid /\ routine[t] \in DOMAIN Text[program]
    BY <2>1, CounterTypes
  <2>3. pc[t] = 1
    BY <2>2 DEF ClientsInit
  <2> DEFINE k == 1
  <2>4. k \in Nat \ {0} /\ ~ (k > 1) /\ pc[t] = k
    BY <2>3
  <2> HIDE DEF k
  <2> QED
    BY <2>1, <2>2, <2>4, SpinBehindStart DEF AtSpin, Returned, Statement, Code
<1>2. SchedulerInv /\ ClientsTypeOK /\ EndInv /\ [ClientsNext]_allVars => EndInv'
  <2> SUFFICES ASSUME SchedulerInv, ClientsTypeOK, EndInv, [ClientsNext]_allVars
               PROVE  EndInv'
    OBVIOUS
  <2>1. CASE System
    BY <2>1, SystemEnd
  <2>2. CASE return
    BY <2>2, ReturnFrame DEF EndInv, Over
  <2>3. CASE Executed
    BY <2>3, ExecutedEnd
  <2>4. CASE UNCHANGED allVars
    BY <2>4 DEF allVars, vars, objects, control, clientVars, threadVars, EndInv, Over, AtSpin,
                Returned, Statement, Code
  <2> QED
    BY <2>1, <2>2, <2>3, <2>4, StepCases
<1>3. EndInv => EndNotPassed
  BY DEF EndInv, EndNotPassed, AtSpin
<1> QED
  BY <1>1, <1>2, <1>3, ClientsTypeCorrect, PTL DEF ClientsSpec

-----------------------------------------------------------------------------
(* The places of threads, and where a program gets lost *)

\* Nobody is asleep in a program that does not call uthread_sleep.
NoneAsleep == NeverSleeps(Text[program]) => \A t \in Tid : status_[t] # "ASLEEP"

\* A thread that ends as it should has not returned.
NoneReturned ==
  EndsProperly(Text[program]) /\ ~ Over => \A t \in all_threads_ \ {0} : ~ Returned(t)

\* A switch puts nobody to sleep: uthread_sleep has done so before.
LEMMA SwitchNoneAsleep ==
  ASSUME NEW to, NEW ret, NEW st \in [Tid -> Status], NEW sl,
         \A t \in Tid : st[t] # "ASLEEP" /\ status_[t] # "ASLEEP",
         switch_threads(to, ret, st, sl)
  PROVE  \A t \in Tid : status_'[t] # "ASLEEP"
<1>1. PICK queue :
        \/ status_' = status_
        \/ LET out == OutgoingStatus(to, WakeStatus(st, sl)) IN
           status_' = IF queue = <<>> THEN out ELSE [out EXCEPT ![Head(queue)] = "RUNNING"]
  BY DEF switch_threads, insert_ready_to_running, Crash
<1> DEFINE woken == WakeStatus(st, sl)
           out == OutgoingStatus(to, woken)
<1>2. woken = [t \in Tid |-> woken[t]] /\ \A t \in Tid : woken[t] \in {"READY", "BLOCKED", st[t]}
  <2>1. ASSUME NEW t \in Tid
        PROVE  woken[t] \in {"READY", "BLOCKED", st[t]}
    <3>1. woken[t] = IF t \in Awake(sl) THEN "READY"
                     ELSE IF t \in Due(sl) THEN "BLOCKED" ELSE st[t]
      BY DEF WakeStatus, Awake
    <3> QED
      BY ONLY <3>1
  <2>2. woken = [t \in Tid |-> woken[t]]
    BY DEF WakeStatus
  <2> QED
    BY <2>1, <2>2
<1>3. \A t \in Tid : woken[t] # "ASLEEP"
  BY <1>2
<1> HIDE DEF woken
<1>4. \/ out = woken
      \/ out = [woken EXCEPT ![running_tid_] = to] /\ to \in {"READY", "BLOCKED"}
  <2>1. CASE to \in {"READY", "BLOCKED"}
    BY ONLY <2>1 DEF OutgoingStatus
  <2>2. CASE to \notin {"READY", "BLOCKED"}
    BY ONLY <2>2 DEF OutgoingStatus
  <2> QED
    BY ONLY <2>1, <2>2
<1>5. out = [t \in Tid |-> out[t]] /\ \A t \in Tid : out[t] # "ASLEEP"
  <2>1. CASE out = woken
    BY ONLY <1>2, <1>3, <2>1
  <2>2. CASE out = [woken EXCEPT ![running_tid_] = to] /\ to \in {"READY", "BLOCKED"}
    BY ONLY <1>2, <1>3, <2>2
  <2> QED
    BY <1>4, <2>1, <2>2
<1>6. status_' \in {status_, out, [out EXCEPT ![Head(queue)] = "RUNNING"]}
  BY <1>1 DEF woken
<1> HIDE DEF out
<1> QED
  BY <1>5, <1>6

\* The statements of a program that does not call uthread_sleep put nobody to
\* sleep.
LEMMA CalledNoneAsleep ==
  ASSUME SchedulerInv, NoneAsleep, UNCHANGED program, Called
  PROVE  NoneAsleep'
<1> SUFFICES ASSUME NeverSleeps(Text[program])
             PROVE  \A t \in Tid : status_'[t] # "ASLEEP"
  BY DEF NoneAsleep
<1>1. status_ \in [Tid -> Status] /\ \A t \in Tid : status_[t] # "ASLEEP"
  BY DEF SchedulerInv, TypeOK, NoneAsleep
<1>2. CASE UNCHANGED status_
  BY <1>1, <1>2
<1>3. ASSUME NEW tid \in Tid, uthread_terminate(tid)
      PROVE  \A t \in Tid : status_'[t] # "ASLEEP"
  BY <1>1, <1>3 DEF uthread_terminate, Delete, Refuse, Exit
<1>4. ASSUME NEW tid \in Tid,
             uthread_block(tid) \/ uthread_resume(tid) \/ uthread_get_quantums(tid)
      PROVE  \A t \in Tid : status_'[t] # "ASLEEP"
  <2>1. CASE switch_threads("BLOCKED", "uthread_block", status_, sleepers_)
    BY <1>1, <2>1, SwitchNoneAsleep
  <2>2. CASE ~ switch_threads("BLOCKED", "uthread_block", status_, sleepers_)
    BY <1>1, <1>4, <2>2 DEF uthread_block, uthread_resume, uthread_get_quantums, Refuse
  <2> QED
    BY <2>1, <2>2
<1> QED
  BY <1>2, <1>3, <1>4 DEF Called, vars

\* A call terminates nobody who sleeps.
LEMMA CalledSpares ==
  ASSUME SchedulerInv, ClientsTypeOK, NoneAsleep, at = "user", Called
  PROVE  SparesSleeping
<1>1. SparesSleepers(Text[program])
  BY SleepersAssumption DEF ClientsTypeOK
<1>2. CASE NeverSleeps(Text[program])
  BY <1>2 DEF NoneAsleep, SparesSleeping, SchedulerInv, TypeOK
<1>3. CASE UNCHANGED all_threads_
  BY <1>3 DEF SparesSleeping
<1>4. ASSUME TerminatesNoOther(Text[program]), NEW tid \in Tid, tid \in {running_tid_, 0},
             uthread_terminate(tid)
      PROVE  SparesSleeping
  <2>1. status_[running_tid_] \in {"RUNNING", "MAIN"}
    BY DEF SchedulerInv, OneRunning, TypeOK
  <2>2. CASE tid = 0
    BY <1>3, <1>4, <2>2 DEF uthread_terminate, Exit, objects
  <2>3. CASE tid = running_tid_ /\ tid # 0
    BY <1>4, <2>1, <2>3 DEF uthread_terminate, Refuse, Delete, objects, SparesSleeping
  <2> QED
    BY <1>4, <2>2, <2>3
<1>5. UNCHANGED all_threads_ \/ \E tid \in Tid : /\ TerminatesNoOther(Text[program]) => tid \in {running_tid_, 0}
                                                /\ uthread_terminate(tid)
  BY BlockFrame, SleepFrame DEF Called, vars, objects
<1> QED
  BY <1>1, <1>2, <1>3, <1>4, <1>5 DEF SparesSleepers

\* The system's steps spare everybody and put nobody to sleep.
LEMMA SystemSpares ==
  ASSUME SchedulerInv, NoneAsleep, System
  PROVE  SparesSleeping /\ NoneAsleep'
<1>1. SparesSleeping
  BY SystemFrame DEF SparesSleeping
<1>2. program' = program
  BY DEF System, clientVars
<1>3. ASSUME NeverSleeps(Text[program])
      PROVE  \A t \in Tid : status_'[t] # "ASLEEP"
  <2>1. status_ \in [Tid -> Status] /\ \A t \in Tid : status_[t] # "ASLEEP"
    BY <1>3 DEF SchedulerInv, TypeOK, NoneAsleep
  <2>2. ASSUME NEW to, NEW ret, switch_threads(to, ret, status_, sleepers_)
        PROVE  \A t \in Tid : status_'[t] # "ASLEEP"
    BY <2>1, <2>2, SwitchNoneAsleep
  <2>3. CASE startRunning \/ Done
    BY <2>1, <2>3 DEF startRunning, Done, vars
  <2>4. CASE timer_handler
    BY <2>2, <2>4 DEF timer_handler
  <2>5. CASE leave
    <3>1. CASE switch_threads("TERMINATED", "uthread_terminate", status_, sleepers_)
      BY <2>2, <3>1
    <3>2. CASE pickFront
      <4>1. status_' = WakeStatus(status_, sleepers_)
        BY <3>2 DEF pickFront
      <4> QED
        BY <2>1, <4>1 DEF WakeStatus
    <3>3. CASE popFront \/ countTotal
      BY <2>1, <3>3 DEF popFront, countTotal, Crash
    <3> QED
      BY <2>5, <3>1, <3>2, <3>3 DEF leave
  <2> QED
    BY <2>3, <2>4, <2>5 DEF System
<1> QED
  BY <1>1, <1>2, <1>3 DEF NoneAsleep

\* A statement is a call of the library, or none of its business; it spares
\* everybody who sleeps.
LEMMA ExecutedSpares ==
  ASSUME SchedulerInv, ClientsTypeOK, NoneAsleep, Executed
  PROVE  /\ at = "user" /\ UNCHANGED program
         /\ Next \/ UNCHANGED vars
         /\ SparesSleeping /\ NoneAsleep'
<1>1. at = "user" /\ UNCHANGED program
  BY DEF Executed
<1>2. Called \/ Spawned
  BY DEF Executed, Advances, Stays, Spawns
<1>3. CASE Called
  BY <1>1, <1>3, CalledFrame, CalledSpares, CalledNoneAsleep
<1>4. CASE Spawned
  <2>1. /\ Next /\ all_threads_' = all_threads_ \cup {LowestFree}
        /\ status_' = [status_ EXCEPT ![LowestFree] = "READY"]
    BY <1>4, SpawnedFrame
  <2>2. status_ \in [Tid -> Status]
    BY DEF SchedulerInv, TypeOK
  <2> QED
    BY <1>1, <2>1, <2>2 DEF SparesSleeping, NoneAsleep
<1> QED
  BY <1>1, <1>2, <1>3, <1>4

\* In its own place each, and each with its own context; and what is said of
\* the ends.
EndsInv == OnePlace /\ OwnContext /\ NoneAsleep /\ NoneReturned /\ LostByReturning

\* What the library does for a client keeps threads in one place, and the
\* control where it should be.
LEMMA LibraryKeeps ==
  ASSUME WindowTicks = {}, SchedulerInv, OnePlace, OwnContext, at \notin {"crashed", "lost"},
         Next \/ UNCHANGED vars, SparesSleeping
  PROVE  OnePlace' /\ OwnContext' /\ at' \notin {"crashed", "lost"}
<1>1. ContextInv
  BY DEF ContextInv, NeverCrashes
<1>2. OnePlace'
  <2>1. CASE Next
    BY <2>1, NextPlaces
  <2>2. CASE UNCHANGED vars
    BY <2>2, FramePlaces DEF vars, objects, queues, control, OnePlace, Over
  <2> QED
    BY <2>1, <2>2
<1>3. ContextInv'
  <2>1. CASE Next
    BY <1>1, <2>1, NextContexts
  <2>2. CASE UNCHANGED vars
    BY <1>1, <2>2, FrameContexts DEF vars, objects, control
  <2> QED
    BY <2>1, <2>2
<1> QED
  BY <1>2, <1>3 DEF ContextInv, NeverCrashes

\* An entry function that ends properly does not return: its last statement
\* ends the thread, or waits for what cannot happen.
LEMMA LastStatement ==
  ASSUME SchedulerInv, ClientsTypeOK, EndsProperly(Text[program]), Executed,
         running_tid_ # 0, pc[running_tid_] + 1 > Len(Code(running_tid_))
  PROVE  (Advances => running_tid_ \notin all_threads_') /\ ~ Spawns
<1> DEFINE r == running_tid_
           name == routine[r]
<1>1. /\ at = "user" /\ ~ Returned(r) /\ r \in all_threads_ /\ r \in Tid /\ marked \subseteq Tid
      /\ WellFormed(Text[program]) /\ name \in DOMAIN Text[program]
      /\ pc[r] \in 1 .. Len(Text[program][name]) /\ Current = Text[program][name][pc[r]]
  BY CurrentStatement DEF Executed, SchedulerInv, OneRunning, ClientsTypeOK
<1>2. Len(Text[program][name]) \in Nat
  BY <1>1 DEF WellFormed
<1>3. pc[r] = Len(Text[program][name])
  <2>1. pc[r] + 1 > Len(Text[program][name])
    BY DEF Code
  <2> QED
    BY ONLY <1>1, <1>2, <2>1
<1>4. name # "main"
  BY <1>1 DEF ClientsTypeOK
<1>5. \/ Current.op = "uthread_terminate" /\ Current.arg = Self
      \/ Current.op = "while" /\ -1 \in Current.until
  BY <1>1, <1>3, <1>4 DEF EndsProperly
<1>6. ~ Spawns
  BY <1>5 DEF Spawns
<1>7. ASSUME Advances
      PROVE  r \notin all_threads_'
  <2>1. CASE Current.op = "uthread_terminate" /\ Current.arg = Self
    <3>1. Who(Self) = r
      BY DEF Who, Self, NextThread
    <3>2. uthread_terminate(r)
      BY <1>7, <2>1, <3>1 DEF Advances
    <3> QED
      BY <1>1, <3>2 DEF uthread_terminate, Exists, Delete
  <2>2. CASE Current.op = "while" /\ -1 \in Current.until
    <3>1. -1 \in marked
      BY <1>7, <2>2 DEF Advances, Holds
    <3>2. -1 \notin Tid
      BY ONLY ThreadsAssumption DEF Tid
    <3> QED
      BY <1>1, <3>1, <3>2
  <2> QED
    BY <1>5, <2>1, <2>2
<1> QED
  BY <1>6, <1>7

\* So none returns.
LEMMA ExecutedReturned ==
  ASSUME SchedulerInv, ClientsTypeOK, NoneReturned, Executed
  PROVE  NoneReturned'
<1> SUFFICES ASSUME EndsProperly(Text[program]), ~ Over', NEW t \in all_threads_' \ {0}, Returned(t)'
             PROVE  FALSE
  BY DEF NoneReturned, Executed
<1>1. /\ at = "user" /\ ~ Returned(running_tid_) /\ UNCHANGED program
      /\ running_tid_ \in all_threads_ /\ running_tid_ \in Tid
      /\ routine \in [Tid -> DOMAIN Text[program]] /\ pc \in [Tid -> Nat \ {0}]
      /\ all_threads_ \subseteq Tid
      /\ WellFormed(Text[program])
  BY DEF Executed, SchedulerInv, OneRunning, TypeOK, ClientsTypeOK
<1>2. \A x \in all_threads_ \ {0} : ~ Returned(x)
  BY <1>1 DEF NoneReturned, Over
<1>3. ASSUME t \in all_threads_, routine'[t] = routine[t], pc'[t] = pc[t]
      PROVE  FALSE
  BY <1>1, <1>2, <1>3 DEF Returned, Code
<1>4. ASSUME t = running_tid_, routine'[t] = routine[t], pc'[t] = pc[t] + 1
      PROVE  pc[running_tid_] + 1 > Len(Code(running_tid_))
  BY <1>1, <1>4 DEF Returned, Code
<1>5. CASE Advances
  <2>1. /\ Called /\ pc' = [pc EXCEPT ![running_tid_] = @ + 1] /\ routine' = routine
    BY <1>5 DEF Advances, Advance
  <2>2. t \in all_threads_
    BY <1>1, <2>1, CalledFrame
  <2>3. CASE t # running_tid_
    BY <1>1, <1>3, <2>1, <2>2, <2>3
  <2>4. CASE t = running_tid_
    <3>1. routine'[t] = routine[t] /\ pc'[t] = pc[t] + 1
      BY ONLY <1>1, <2>1, <2>4
    <3> QED
      BY <1>4, <1>5, <2>4, <3>1, LastStatement
  <2> QED
    BY <2>3, <2>4
<1>6. CASE Stays
  <2>1. t \in all_threads_ /\ UNCHANGED <<routine, pc>>
    BY <1>1, <1>6, CalledFrame DEF Stays, threadVars
  <2> QED
    BY <1>3, <2>1
<1>7. CASE Spawns
  <2> DEFINE new == LowestFree
  <2>1. PICK entry \in DOMAIN Text[program] \ {"main"} :
          /\ routine' = [routine EXCEPT ![new] = entry]
          /\ pc' = [pc EXCEPT ![running_tid_] = @ + 1, ![new] = 1]
    BY <1>7 DEF Spawns, Enter
  <2>2. new \in Tid \ all_threads_ /\ all_threads_' = all_threads_ \cup {new}
    BY <1>7, SpawnedFrame DEF Spawns
  <2> HIDE DEF new
  <2>3. CASE t = new
    <3>1. pc'[t] = 1 /\ routine'[t] = entry
      BY ONLY <1>1, <2>1, <2>2, <2>3
    <3>2. Len(Text[program][entry]) > 0 /\ Len(Text[program][entry]) \in Nat
      BY <1>1 DEF EndsProperly, WellFormed
    <3>3. 1 > Len(Text[program][entry])
      BY <1>1, <3>1 DEF Returned, Code
    <3> QED
      BY ONLY <3>2, <3>3
  <2>4. CASE t = running_tid_
    <3>1. routine'[t] = routine[t] /\ pc'[t] = pc[t] + 1
      BY ONLY <1>1, <2>1, <2>2, <2>4
    <3> QED
      BY <1>4, <1>7, <2>4, <3>1, LastStatement
  <2>5. CASE t # new /\ t # running_tid_
    <3>1. t \in all_threads_ /\ routine'[t] = routine[t] /\ pc'[t] = pc[t]
      BY ONLY <1>1, <2>1, <2>2, <2>5, t \in all_threads_' \ {0}
    <3> QED
      BY <1>3, <3>1
  <2> QED
    BY <2>3, <2>4, <2>5
<1> QED
  BY <1>5, <1>6, <1>7 DEF Executed

\* Every step preserves what is said of places and ends.
LEMMA EndsStep ==
  ASSUME WindowTicks = {}, SchedulerInv, ClientsTypeOK, EndsInv, [ClientsNext]_allVars
  PROVE  EndsInv'
<1> USE DEF EndsInv
<1>1. CASE System
  <2>1. /\ Next /\ UNCHANGED all_threads_ /\ UNCHANGED clientVars
    BY <1>1, SystemFrame DEF System
  <2>2. SparesSleeping /\ NoneAsleep'
    BY <1>1, SystemSpares
  <2>3. CASE Over
    <3>1. Done
      BY <1>1, <2>3 DEF System, startRunning, leave, timer_handler, Over
    <3> QED
      BY <2>1, <2>2, <3>1 DEF Done, Over, vars, objects, control, clientVars, threadVars, OnePlace,
                             OwnContext, NoneReturned, LostByReturning, Returned, Code
  <2>4. CASE ~ Over
    <3>1. OnePlace' /\ OwnContext' /\ at' \notin {"crashed", "lost"}
      BY <2>1, <2>2, <2>4, LibraryKeeps DEF Over
    <3>2. NoneReturned'
      BY <2>1, <2>4 DEF NoneReturned, Returned, Code, clientVars, threadVars
    <3> QED
      BY <2>2, <3>1, <3>2 DEF LostByReturning
  <2> QED
    BY <2>3, <2>4
<1>2. CASE return
  <2>1. /\ at = "user" /\ Returned(running_tid_)
        /\ at' = IF running_tid_ = 0 THEN "exited" ELSE "lost"
        /\ UNCHANGED <<status_, running_tid_, program, routine, pc>>
    BY <1>2 DEF return, clientVars, threadVars
  <2>2. running_tid_ \in all_threads_
    BY <2>1 DEF SchedulerInv, OneRunning
  <2>3. running_tid_ # 0 => ~ EndsProperly(Text[program])
    BY <2>1, <2>2 DEF NoneReturned, Over
  <2> QED
    BY <2>1, <2>3 DEF Over, OnePlace, OwnContext, NoneAsleep, NoneReturned, LostByReturning,
                      Returned, Code
<1>3. CASE Executed
  <2>1. /\ at = "user" /\ UNCHANGED program
        /\ (Next \/ UNCHANGED vars) /\ SparesSleeping /\ NoneAsleep'
    BY <1>3, ExecutedSpares
  <2>2. OnePlace' /\ OwnContext' /\ at' \notin {"crashed", "lost"}
    BY <2>1, LibraryKeeps
  <2> QED
    BY <1>3, <2>1, <2>2, ExecutedReturned DEF LostByReturning
<1>4. CASE UNCHANGED allVars
  BY <1>4 DEF allVars, vars, objects, queues, control, clientVars, threadVars, OnePlace, OwnContext,
              NoneAsleep, NoneReturned, LostByReturning, Over, Ready, Asleep, Resumable, Returned,
              Code
<1> QED
  BY <1>1, <1>2, <1>3, <1>4, StepCases

\* They hold at first.
LEMMA InitEnds == ClientsInit => EndsInv
<1> SUFFICES ASSUME ClientsInit
             PROVE  EndsInv
  OBVIOUS
<1>1. OnePlace
  BY InitPlaces DEF ClientsInit
<1> QED
  BY <1>1 DEF ClientsInit, Init, EndsInv, OwnContext, NoneAsleep, NoneReturned, LostByReturning

\* A client whose threads terminate no others that may be asleep, be it one that
\* does not sleep or one where threads terminate themselves, keeps every thread
\* in one place: what UThreads assumes of clients (KillsSleepers) is a property
\* of their text.
THEOREM ClientsOnePlace ==
  ASSUME WindowTicks = {}
  PROVE  ClientsSpec => []OnePlace
<1>1. SchedulerInv /\ ClientsTypeOK /\ EndsInv /\ [ClientsNext]_allVars => EndsInv'
  BY EndsStep
<1>2. EndsInv => OnePlace
  BY DEF EndsInv
<1> QED
  BY <1>1, <1>2, InitEnds, ClientsTypeCorrect, PTL DEF ClientsSpec

\* Such a client gets the library to go through the object or the frame of a
\* thread that is gone in one way only: by returning from an entry function; and
\* one whose entry functions end as they should, in no way.
THEOREM ClientsLostByReturning ==
  ASSUME WindowTicks = {}
  PROVE  ClientsSpec => []LostByReturning
<1>1. SchedulerInv /\ ClientsTypeOK /\ EndsInv /\ [ClientsNext]_allVars => EndsInv'
  BY EndsStep
<1>2. EndsInv => LostByReturning
  BY DEF EndsInv
<1> QED
  BY <1>1, <1>2, InitEnds, ClientsTypeCorrect, PTL DEF ClientsSpec

-----------------------------------------------------------------------------
(* The contract *)

\* A step of the library under a client is one of the interface.
LEMMA LibraryKeepsContract ==
  ASSUME WindowTicks = {}, SchedulerInv, OnePlace, OwnContext, at \notin {"crashed", "lost"},
         Next \/ UNCHANGED vars, SparesSleeping
  PROVE  API!Next \/ UNCHANGED API!vars
<1>1. ContextInv /\ ContextInv'
  BY LibraryKeeps DEF ContextInv, NeverCrashes
<1>2. CASE Next
  BY <1>1, <1>2, NextIsAPIs
<1>3. CASE UNCHANGED vars
  <2>1. UNCHANGED WakesInQuantum
    BY <1>3 DEF vars, queues, WakesInQuantum
  <2> QED
    BY <1>3, <2>1 DEF vars, objects, queues, control, API!vars
<1> QED
  BY <1>2, <1>3

\* main's return is an exit of the interface.
LEMMA ReturnIsAPIs ==
  ASSUME return, at' # "lost"
  PROVE  API!Next
<1>1. /\ at = "user" /\ at' = "exited"
      /\ UNCHANGED <<objects, queues, total_quantums, running_tid_>>
  BY DEF return
<1>2. UNCHANGED WakesInQuantum
  BY <1>1 DEF WakesInQuantum, queues
<1>3. API!Exit
  BY <1>1, <1>2 DEF API!Exit, objects, queues
<1> QED
  BY <1>1, <1>3 DEF API!Next

\* Every step of a client is one of the interface, or invisible to it.
LEMMA StepKeepsContract ==
  ASSUME WindowTicks = {}, SchedulerInv, ClientsTypeOK, EndsInv, [ClientsNext]_allVars
  PROVE  [at' # "lost" => API!Next]_(API!vars)
<1> USE DEF EndsInv
<1>1. CASE System
  <2>1. Next /\ SparesSleeping
    BY <1>1, SystemFrame, SystemSpares
  <2>2. CASE Over
    <3>1. UNCHANGED vars
      BY <1>1, <2>2 DEF System, startRunning, leave, timer_handler, Over, Done
    <3>2. UNCHANGED WakesInQuantum
      BY <3>1 DEF vars, queues, WakesInQuantum
    <3> QED
      BY <3>1, <3>2 DEF vars, objects, queues, control, API!vars
  <2>3. CASE ~ Over
    BY <2>1, <2>3, LibraryKeepsContract DEF Over
  <2> QED
    BY <2>2, <2>3
<1>2. CASE return
  BY <1>2, ReturnIsAPIs
<1>3. CASE Executed
  <2>1. at = "user" /\ (Next \/ UNCHANGED vars) /\ SparesSleeping
    BY <1>3, ExecutedSpares
  <2> QED
    BY <2>1, LibraryKeepsContract
<1>4. CASE UNCHANGED allVars
  <2>1. UNCHANGED WakesInQuantum
    BY <1>4 DEF allVars, vars, queues, WakesInQuantum
  <2> QED
    BY <1>4, <2>1 DEF allVars, vars, objects, queues, control, API!vars
<1> QED
  BY <1>1, <1>2, <1>3, <1>4, StepCases

\* Every client program gets from the library what uthreads.h promises, and
\* nothing else, until a thread returns from its entry function: the discipline
\* LibraryImplementsHeader assumes of clients, that none terminates a sleeping
\* thread, follows from the programs' text (SleepersAssumption).
THEOREM ClientsKeepContract ==
  ASSUME WindowTicks = {}
  PROVE  ClientsSpec => KeepsContract
<1>1. ClientsInit => API!Init
  BY InitIsAPIs DEF ClientsInit
<1>2. SchedulerInv /\ ClientsTypeOK /\ EndsInv /\ [ClientsNext]_allVars => EndsInv'
  BY EndsStep
<1>3. SchedulerInv /\ ClientsTypeOK /\ EndsInv /\ [ClientsNext]_allVars
        => [at' # "lost" => API!Next]_(API!vars)
  BY StepKeepsContract
<1> QED
  BY <1>1, <1>2, <1>3, InitEnds, ClientsTypeCorrect, PTL DEF ClientsSpec, KeepsContract

\* Programs whose entry functions all end as they should are served by uthreads.h
\* to the letter, returns of main included.
THEOREM ProperClientsImplementHeader ==
  ASSUME WindowTicks = {}, \A p \in Programs : EndsProperly(Text[p])
  PROVE  ClientsSpec => ImplementsAPI
<1>1. ClientsInit => API!Init
  BY InitIsAPIs DEF ClientsInit
<1>2. SchedulerInv /\ ClientsTypeOK /\ EndsInv /\ [ClientsNext]_allVars => EndsInv'
  BY EndsStep
<1>3. SchedulerInv /\ ClientsTypeOK /\ EndsInv /\ [ClientsNext]_allVars /\ ClientsTypeOK' /\ EndsInv'
        => [API!Next]_(API!vars)
  <2> SUFFICES ASSUME SchedulerInv, ClientsTypeOK, EndsInv, [ClientsNext]_allVars,
                      ClientsTypeOK', EndsInv'
               PROVE  [API!Next]_(API!vars)
    OBVIOUS
  <2>1. at' # "lost"
    BY DEF ClientsTypeOK, EndsInv, LostByReturning
  <2>2. [at' # "lost" => API!Next]_(API!vars)
    BY StepKeepsContract
  <2> QED
    BY <2>1, <2>2
<1> QED
  BY <1>1, <1>2, <1>3, InitEnds, ClientsTypeCorrect, PTL DEF ClientsSpec, ImplementsAPI, API!Spec

\* Round robin for clients: whatever a program does, no thread of it is
\* overtaken in the ready queue.
THEOREM ClientsRoundRobin ==
  ASSUME WindowTicks = {}
  PROVE  ClientsSpec => NoOvertaking
<1> DEFINE A == \A t \in Ready : t \in Ready' =>
                  /\ Ahead(t)' \subseteq Ahead(t)
                  /\ running_tid_' # running_tid_ => running_tid_' \in Ahead(t)
<1>1. SchedulerInv /\ ClientsTypeOK /\ EndsInv /\ [ClientsNext]_allVars => EndsInv'
  BY EndsStep
<1>2. SchedulerInv /\ ClientsTypeOK /\ EndsInv /\ [ClientsNext]_allVars => [A]_vars
  <2> SUFFICES ASSUME SchedulerInv, ClientsTypeOK, EndsInv, [ClientsNext]_allVars
               PROVE  [A]_vars
    OBVIOUS
  <2>1. InTurn => A
    BY DEF InTurn, Before, Ahead
  <2>2. OnePlace /\ NoneAsleep
    BY DEF EndsInv
  <2>3. CASE [Next]_vars
    BY <2>1, <2>2, <2>3, NextInTurn
  <2>4. CASE return
    <3>1. UNCHANGED <<ready_tids_, running_tid_>>
      BY <2>4 DEF return, queues
    <3> QED
      BY <2>1, <3>1, FrameInTurn
  <2>5. System \/ Executed \/ UNCHANGED allVars => [Next]_vars
    BY <2>2, SystemFrame, ExecutedSpares DEF allVars
  <2> QED
    BY <2>3, <2>4, <2>5, StepCases
<1>3. NoOvertaking <=> [][A]_vars
  BY DEF NoOvertaking
<1> HIDE DEF A
<1> QED
  BY <1>1, <1>2, <1>3, InitEnds, ClientsTypeCorrect, PTL DEF ClientsSpec

=============================================================================
