---------------------------- MODULE MCUThreads ----------------------------
(* UThreads for TLC. *)
EXTENDS UThreads

\* A stale sleepers_ entry, or an expiry in uthread_terminate's switch, queues a
\* thread twice, and twice again: the run with both looks at queues up to this
\* length.
QueueBound == Len(ready_tids_) =< MAX_THREAD_NUM + 1

===========================================================================
