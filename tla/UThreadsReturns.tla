-------------------------- MODULE UThreadsReturns --------------------------
(***************************************************************************)
(* The ends of uthread_spawn and uthread_get_quantums.  Both open the      *)
(* signal mask and then read a thread object: line 379 through the pointer *)
(* new_uthread, line 559 by looking tid up in all_threads_ once more.  In  *)
(* between the timer may expire, and other threads may run.                *)
(***************************************************************************)
EXTENDS UThreads

VARIABLES
  late,     \* per thread: the read its call has still to do
  answer    \* the last such read: did it find what the header promises?

Calls == {"none", "uthread_spawn", "uthread_get_quantums"}

\* gone: the object of tid, as it was when the call looked, has been deleted.
Late(call, tid) == [call |-> call, tid |-> tid, gone |-> FALSE]
NothingLate == Late("none", 0)

ReturnsInit ==
  /\ Init
  /\ late = [t \in Tid |-> NothingLate]
  /\ answer = "right"

\* The running thread is not inside a call.
Idle == late[running_tid_] = NothingLate

spawn(entry_point) ==
  /\ Idle
  /\ uthread_spawn(entry_point)
  /\ late' = [late EXCEPT ![running_tid_] =
                IF all_threads_' = all_threads_ THEN NothingLate
                ELSE Late("uthread_spawn", CHOOSE t \in all_threads_' : t \notin all_threads_)]
  /\ UNCHANGED answer

get_quantums(tid) ==
  /\ Idle
  /\ uthread_get_quantums(tid)
  /\ late' = [late EXCEPT ![running_tid_] =
                IF Exists(tid) THEN Late("uthread_get_quantums", tid) ELSE NothingLate]
  /\ UNCHANGED answer

\* A deleted thread reads no more; others may still want to read it.
terminate(tid) ==
  /\ Idle
  /\ uthread_terminate(tid)
  /\ late' = IF all_threads_' = all_threads_ THEN late
             ELSE [t \in Tid |-> IF t = tid THEN NothingLate
                                 ELSE [late[t] EXCEPT !.gone = @ \/ late[t].tid = tid]]
  /\ UNCHANGED answer

\* return new_uthread->tid_: of freed memory it may be anything.
ReturnFromSpawn ==
  /\ at = "user"
  /\ late[running_tid_].call = "uthread_spawn"
  /\ answer' \in IF late[running_tid_].gone THEN {"right", "wrong"} ELSE {"right"}
  /\ late' = [late EXCEPT ![running_tid_] = NothingLate]
  /\ UNCHANGED vars

\* return all_threads_[tid] -> num_of_quantums_running
ReturnFromGetQuantums ==
  /\ at = "user"
  /\ late[running_tid_].call = "uthread_get_quantums"
  /\ \/ /\ Exists(late[running_tid_].tid)
        /\ answer' = "right"
        /\ late' = [late EXCEPT ![running_tid_] = NothingLate]
        /\ UNCHANGED vars
     \/ /\ ~ Exists(late[running_tid_].tid)
        /\ Crash
        /\ UNCHANGED <<late, answer>>

ReturnsNext ==
  \/ /\ startRunning \/ timer_handler \/ leave \/ Done
     /\ UNCHANGED <<late, answer>>
  \/ \E entry_point \in {"nullptr", "function"} : spawn(entry_point)
  \/ \E tid \in Tid : get_quantums(tid) \/ terminate(tid)
  \/ /\ Idle
     /\ \/ \E tid \in Tid : uthread_block(tid) \/ uthread_resume(tid)
        \/ \E num_quantums \in -1 .. MAX_SLEEP : uthread_sleep(num_quantums)
     /\ UNCHANGED <<late, answer>>
  \/ ReturnFromSpawn
  \/ ReturnFromGetQuantums

returnsVars == <<vars, late, answer>>

ReturnsSpec == ReturnsInit /\ [][ReturnsNext]_returnsVars

\* A successful uthread_spawn returns "the ID of the created thread" and a
\* successful uthread_get_quantums the number of the thread's quanta
\* (uthreads.h:40, 121): neither returns anything else nor fails to return,
\* whatever other threads do meanwhile.
AnswersRight == answer = "right" /\ at # "crashed"

\* There is one cause of that: the thread the call is about has been terminated
\* between its two looks.  Until then the object it still has to read is there.
OnlyStaleReadsFail ==
  [][(answer' = "wrong" /\ answer # "wrong") \/ (at' = "crashed" /\ at # "crashed")
       => at = "user" /\ late[running_tid_].gone]_returnsVars

=============================================================================
