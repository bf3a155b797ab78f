------------------------------ MODULE NimMutex ------------------------------
(***************************************************************************)
(* What the comments in nim/uthreads.cpp (lines 246-249 and 530-564) say   *)
(* of the mutex: a thread that finds it locked waits for its turn, and     *)
(* when it is unlocked it is passed on directly to one of those who wait,  *)
(* a blocked one only if they all are.                                     *)
(***************************************************************************)
CONSTANTS
  Thread,
  nullptr         \* nobody

VARIABLES
  owner,          \* who has the mutex
  waiting,        \* who waits for it
  blocked         \* who is blocked by uthread_block: may change at any time

vars == <<owner, waiting, blocked>>

Init ==
  /\ owner = nullptr
  /\ waiting = {}
  /\ blocked = {}

Lock(t) ==
  /\ owner = nullptr
  /\ owner' = t
  /\ UNCHANGED waiting

Wait(t) ==
  /\ owner \notin {nullptr, t}
  /\ t \notin waiting
  /\ waiting' = waiting \cup {t}
  /\ UNCHANGED owner

\* The owner unlocks the mutex or is terminated.
PassOn(t) ==
  /\ owner # nullptr
  /\ t \in waiting
  /\ t \in blocked => waiting \subseteq blocked
  /\ owner' = t
  /\ waiting' = waiting \ {t}

Free ==
  /\ owner # nullptr
  /\ waiting = {}
  /\ owner' = nullptr
  /\ UNCHANGED waiting

\* A waiting thread is terminated.
GiveUp(t) ==
  /\ t \in waiting
  /\ waiting' = waiting \ {t}
  /\ UNCHANGED owner

\* Steps that are none of the mutex's.
Elsewhere == UNCHANGED <<owner, waiting>>

Next ==
  \/ Free
  \/ Elsewhere
  \/ \E t \in Thread : Lock(t) \/ Wait(t) \/ PassOn(t) \/ GiveUp(t)

Spec == Init /\ [][Next]_vars

=============================================================================
