------------------------- MODULE ClientsRefinement -------------------------
(***************************************************************************)
(* What uthreads.h promises, as the client programs see it: the composition *)
(* of Clients with the interface that UThreadsRefinement maps uthreads.cpp  *)
(* to.  A main that returns is an exit of the interface; an entry function  *)
(* that returns is nothing the interface speaks of.                         *)
(***************************************************************************)
EXTENDS Clients, UThreadsRefinement

\* Every step of a client program and of the library under it is a step
\* uthreads.h describes (uthreads.h:32-101), or invisible to it, until a thread
\* returns from its entry function.
KeepsContract == API!Init /\ [][at' # "lost" => API!Next]_(API!vars)

===========================================================================
