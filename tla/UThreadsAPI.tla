---------------------------- MODULE UThreadsAPI ----------------------------
(***************************************************************************)
(* What uthreads.h promises its clients: threads that take turns, one      *)
(* quantum at a time.  There are no signals, masks, contexts or counters   *)
(* of remaining quanta here; a sleeping thread has the number of the       *)
(* quantum at whose start it gets up.                                      *)
(***************************************************************************)
EXTENDS SequencesExt

CONSTANTS
  MAX_THREAD_NUM,
  MAX_SLEEP,       \* bound: the longest sleep a client asks for
  INT_RANGE        \* bound: quanta are numbered modulo INT_RANGE, more
                   \* than a sleep is long

Tid == 0 .. MAX_THREAD_NUM - 1
Quantum == 0 .. INT_RANGE - 1
Never == -1

VARIABLES
  alive,      \* the threads there are
  running,    \* the RUNNING thread
  line,       \* the READY threads list
  blocked,    \* the threads uthread_block has blocked
  wake,       \* the quantum in which a sleeping thread gets up
  quantum,    \* the current one's number
  over        \* exit was called

vars == <<alive, running, line, blocked, wake, quantum, over>>

Init ==
  /\ alive = {0}
  /\ running = 0
  /\ line = <<>>
  /\ blocked = {}
  /\ wake = [t \in Tid |-> Never]
  /\ quantum = 1
  /\ over = FALSE

Without(t) == RemoveFirst(line, t)

\* S in some order; the header does not say in which.
Orders(S) ==
  {q \in [1 .. Cardinality(S) -> S] : \A t \in S : \E i \in DOMAIN q : q[i] = t}

Later(n) == (quantum + n) % INT_RANGE

\* A new quantum starts.  Those whose sleep is over and who are not blocked go
\* to the end of the line, as do the threads in back; the first one runs.
NewQuantum(back, bl, wk) ==
  LET up == {t \in Tid : wk[t] = Later(1)} IN
  \E order \in Orders((up \ bl) \cup back) :
    /\ line \o order # <<>>
    /\ running' = Head(line \o order)
    /\ line' = Tail(line \o order)
    /\ wake' = [t \in Tid |-> IF t \in up THEN Never ELSE wk[t]]
    /\ blocked' = bl
    /\ quantum' = Later(1)
    /\ UNCHANGED over

Preempt ==
  NewQuantum({running}, blocked, wake) /\ UNCHANGED alive

Spawn(t) ==
  /\ t \notin alive
  /\ alive' = alive \cup {t}
  /\ line' = Append(line, t)
  /\ UNCHANGED <<running, blocked, wake, quantum, over>>

\* A thread that terminates is in none of the control structures afterwards.
Terminate(t) ==
  /\ t \in alive \ {0}
  /\ alive' = alive \ {t}
  /\ \/ /\ t = running
        /\ NewQuantum({}, blocked, wake)
     \/ /\ t # running
        /\ line' = Without(t)
        /\ blocked' = blocked \ {t}
        /\ wake' = [wake EXCEPT ![t] = Never]
        /\ UNCHANGED <<running, quantum, over>>

Block(t) ==
  /\ t \in alive \ {0}
  /\ \/ /\ t = running
        /\ NewQuantum({}, blocked \cup {t}, wake)
     \/ /\ t # running
        /\ line' = Without(t)
        /\ blocked' = blocked \cup {t}
        /\ UNCHANGED <<running, wake, quantum, over>>
  /\ UNCHANGED alive

\* A thread that still sleeps does not get up for being resumed.
Resume(t) ==
  /\ t \in blocked
  /\ blocked' = blocked \ {t}
  /\ line' = IF wake[t] = Never THEN Append(line, t) ELSE line
  /\ UNCHANGED <<alive, running, wake, quantum, over>>

\* The caller's own quantum is not counted: it misses the next n quanta.
Sleep(n) ==
  /\ running # 0
  /\ NewQuantum({}, blocked, [wake EXCEPT ![running] = Later(n + 1)])
  /\ UNCHANGED alive

Exit ==
  /\ over' = TRUE
  /\ UNCHANGED <<alive, running, line, blocked, wake, quantum>>

Next ==
  /\ ~ over
  /\ \/ Preempt
     \/ Exit
     \/ \E t \in Tid : Spawn(t) \/ Terminate(t) \/ Block(t) \/ Resume(t)
     \/ \E n \in 0 .. MAX_SLEEP : Sleep(n)

Spec == Init /\ [][Next]_vars

=============================================================================
