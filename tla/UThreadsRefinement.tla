------------------------ MODULE UThreadsRefinement ------------------------
(***************************************************************************)
(* uthreads.cpp implements uthreads.h.  startRunning and the mask are      *)
(* invisible to the interface; a thread that has terminated itself is gone *)
(* when another one has been chosen.  A crash is no state of the interface.*)
(***************************************************************************)
EXTENDS UThreads

\* No sleep is as long as the quantum numbers go round.
ASSUME SleepFits == MAX_SLEEP + 1 < INT_RANGE

WakesInQuantum ==
  [t \in Tid |-> IF sleepers_[t] = -1 THEN -1
                 ELSE (total_quantums + sleepers_[t] + 1) % INT_RANGE]

API == INSTANCE UThreadsAPI WITH
  alive <- IF at = "leave" THEN all_threads_ \cup {running_tid_} ELSE all_threads_,
  running <- IF at \in {"crashed", "lost"} THEN -1 ELSE running_tid_,
  line <- ready_tids_,
  blocked <- blocked_tids_,
  wake <- WakesInQuantum,
  quantum <- total_quantums,
  over <- at = "exited"

\* Every step of the code is a step the header describes, or invisible to the
\* client: who is in the READY list and in what order, who is blocked, and in
\* which quantum a sleeper is back (uthreads.h:32-101).
ImplementsAPI == API!Spec

===========================================================================
