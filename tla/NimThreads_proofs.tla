-------------------------- MODULE NimThreads_proofs --------------------------
(***************************************************************************)
(* Theorems about NimThreads, for every number of threads: each thread is  *)
(* in one place, the mutex excludes, a switch finds somebody, and the      *)
(* mutex is the one of NimMutex.                                           *)
(*                                                                         *)
(* A switch is treated once, in SwitchInv, for any caller: the operators   *)
(* below say of the state a caller leaves, with the queue the next thread  *)
(* is taken from, what the invariants say of the state afterwards.         *)
(***************************************************************************)
EXTENDS NimThreads, Collections_proofs

USE NimThreadsAssumption, NullAssumption

-----------------------------------------------------------------------------
(* The invariant *)

\* Everybody is in the queue, blocked or waiting; main is not blocked.
Spread(queue, waits, blk, all) ==
  /\ IsInjective(queue)
  /\ all = ToSet(queue) \cup blk \cup waits
  /\ ToSet(queue) \cap (blk \cup waits) = {}
  /\ MAIN_THREAD \in all \ blk

\* The mutex is that of a thread which is inside or on its way back from
\* waiting; those who wait will come back from there too.
Held(in, m, waits, all, saved) ==
  /\ in \subseteq {m.thread_block}
  /\ waits # {} => m.blocked
  /\ m.blocked =>
       /\ m.thread_block \in all \ waits
       /\ m.thread_block \notin in => saved[m.thread_block] = "uthread_mutex_lock"
  /\ \A t \in waits : saved[t] = "uthread_mutex_lock"

\* Of those who do not wait any more only the owner comes back from waiting.
OwnersTurn(queue, waits, blk, m, saved) ==
  \A t \in (ToSet(queue) \cup blk) \ waits :
    saved[t] = "uthread_mutex_lock" => t = m.thread_block

\* Nobody is blocked who owns the mutex or waits for it.
Spared(waits, blk, m) == blk \cap (waits \cup {m.thread_block}) = {}

\* What makes OnePlace, MutualExclusion and SomebodyReady inductive.
Orderly ==
  /\ OnePlace
  /\ MutualExclusion
  /\ SomebodyReady
  /\ ~ Over => OwnersTurn(ready, mutexBlocked, blocked, mutex, env)
  /\ ~ Over => lockerBlocked \/ Spared(mutexBlocked, blocked, mutex)

NimInv == TypeOK /\ Orderly

-----------------------------------------------------------------------------
(* Lemmas about the queue *)

\* erase(find(...)) of a thread that may or may not be in the queue.
LEMMA Erased ==
  ASSUME NEW q \in Seq(Tid), NEW t \in Tid
  PROVE  /\ RemoveFirst(q, t) \in Seq(Tid)
         /\ IsInjective(q) => /\ IsInjective(RemoveFirst(q, t))
                              /\ ToSet(RemoveFirst(q, t)) = ToSet(q) \ {t}
<1>1. RemoveFirst(q, t) \in Seq(Tid)
  BY RemoveFirstKeeps
<1>2. CASE t \in ToSet(q)
  BY <1>1, <1>2, InjectiveRemove
<1>3. CASE t \notin ToSet(q)
  <2>1. RemoveFirst(q, t) = q
    BY <1>3, ToSetType DEF RemoveFirst
  <2> QED
    BY <1>1, <1>3, <2>1
<1> QED
  BY <1>2, <1>3

\* push_back of a thread that is not in the queue.
LEMMA Pushed ==
  ASSUME NEW q \in Seq(Tid), NEW t \in Tid
  PROVE  /\ Append(q, t) \in Seq(Tid)
         /\ ToSet(Append(q, t)) = ToSet(q) \cup {t}
         /\ Append(q, t) # <<>>
         /\ IsInjective(q) /\ t \notin ToSet(q) => IsInjective(Append(q, t))
<1>1. Append(q, t) \in Seq(Tid) /\ ToSet(Append(q, t)) = ToSet(q) \cup {t}
  BY ToSetAppend
<1>2. Append(q, t) # <<>>
  BY AppendProperties
<1> QED
  BY <1>1, <1>2, InjectiveAppend

\* A woken thread is pushed unless it is blocked.
LEMMA WokenPushed ==
  ASSUME NEW q \in Seq(Tid), NEW t \in Tid
  PROVE  /\ q \o Woken(t) \in Seq(Tid)
         /\ ToSet(q \o Woken(t)) = ToSet(q) \cup ({t} \ blocked)
         /\ IsInjective(q) /\ t \notin ToSet(q) => IsInjective(q \o Woken(t))
<1>1. CASE t \in blocked
  <2>1. q \o Woken(t) = q
    BY <1>1, ConcatEmptySeq DEF Woken
  <2> QED
    BY <1>1, <2>1
<1>2. CASE t \notin blocked
  <2>1. q \o Woken(t) = Append(q, t)
    BY <1>2, AppendIsConcat DEF Woken
  <2> QED
    BY <1>2, <2>1, Pushed
<1> QED
  BY <1>1, <1>2

-----------------------------------------------------------------------------
(* Types *)

\* The conjuncts of TypeOK.
LEMMA Typed ==
  ASSUME TypeOK
  PROVE  /\ running \in Tid /\ ready \in Seq(Tid)
         /\ mutexBlocked \subseteq Tid /\ blocked \subseteq Tid /\ allThreads \subseteq Tid
         /\ mutex.blocked \in BOOLEAN /\ Owner \in Tid \cup {nullptr}
         /\ mutex.blocked <=> Owner # nullptr
         /\ env \in [Tid -> Ret \cup {"uthread_terminate"}]
         /\ MAIN_THREAD \in Tid /\ nullptr \notin Tid
BY DEF TypeOK, Owner, Tid, MAIN_THREAD

\* A switch leaves a running thread, a queue and contexts.
LEMMA SwitchType ==
  ASSUME TypeOK, at = "user",
         NEW q \in Seq(Tid), NEW ret \in Ret \cup {"uthread_terminate"}, switchThread(q, ret),
         NEW in \in SUBSET Tid, inside' = InsideAfter(q, in)
  PROVE  /\ running' \in Tid /\ ready' \in Seq(Tid)
         /\ env' \in [Tid -> Ret \cup {"uthread_terminate"}]
         /\ masked' \in BOOLEAN /\ at' \in {"user", "exited", "undefined"}
         /\ inside' \subseteq Tid
<1>1. CASE q = <<>>
  BY <1>1 DEF TypeOK, switchThread, Undefined, InsideAfter
<1>2. CASE q # <<>>
  <2>1. Head(q) \in Tid /\ Tail(q) \in Seq(Tid)
    BY <1>2, HeadOrTail
  <2>2. Returned(Head(q)) \subseteq Tid
    BY <2>1 DEF Returned
  <2> QED
    BY <1>2, <2>1, <2>2 DEF TypeOK, switchThread, InsideAfter
<1> QED
  BY <1>1, <1>2

\* What mutex_unblock_random_thread leaves: a free mutex, or one of those who
\* waited is the owner.
LEMMA Passed ==
  ASSUME NEW given \in mutex_unblock_random_thread
  PROVE  \/ /\ mutexBlocked = {}
            /\ given.mutex = Unlocked /\ given.waiting = {} /\ given.woken = <<>>
         \/ \E h \in mutexBlocked :
              /\ given.mutex = LockedBy(h)
              /\ given.waiting = mutexBlocked \ {h}
              /\ given.woken = Woken(h)
              /\ h \in blocked => mutexBlocked \subseteq blocked
<1>1. CASE mutexBlocked = {}
  BY <1>1 DEF mutex_unblock_random_thread
<1>2. CASE mutexBlocked # {}
  <2>1. PICK h \in FirstChoice :
          given = [mutex |-> LockedBy(h), waiting |-> mutexBlocked \ {h}, woken |-> Woken(h)]
    BY <1>2 DEF mutex_unblock_random_thread
  <2>2. h \in mutexBlocked /\ (h \in blocked => mutexBlocked \subseteq blocked)
    BY DEF FirstChoice
  <2> QED
    BY <2>1, <2>2
<1> QED
  BY <1>1, <1>2

\* The types of what is left after the mutex was passed on, or not.
LEMMA PassedType ==
  ASSUME TypeOK, NEW given \in mutex_unblock_random_thread \cup NoHandOver
  PROVE  /\ given.mutex \in [blocked : BOOLEAN, thread_block : Tid \cup {nullptr}]
         /\ given.mutex.blocked <=> given.mutex.thread_block # nullptr
         /\ given.waiting \subseteq Tid
         /\ ready \o given.woken \in Seq(Tid)
<1>1. CASE given \in NoHandOver
  <2>1. given.mutex = mutex /\ given.waiting = mutexBlocked /\ given.woken = <<>>
    BY <1>1 DEF NoHandOver
  <2>2. ready \o <<>> = ready
    BY Typed, ConcatEmptySeq
  <2> QED
    BY <2>1, <2>2 DEF TypeOK, Owner
<1>2. CASE given.mutex = Unlocked /\ given.waiting = {} /\ given.woken = <<>>
  <2>1. ready \o <<>> = ready
    BY Typed, ConcatEmptySeq
  <2> QED
    BY <1>2, <2>1, Typed DEF Unlocked
<1>3. ASSUME NEW h \in mutexBlocked,
             given.mutex = LockedBy(h),
             given.waiting = mutexBlocked \ {h},
             given.woken = Woken(h)
      PROVE  /\ given.mutex \in [blocked : BOOLEAN, thread_block : Tid \cup {nullptr}]
             /\ given.mutex.blocked <=> given.mutex.thread_block # nullptr
             /\ given.waiting \subseteq Tid
             /\ ready \o given.woken \in Seq(Tid)
  BY <1>3, Typed, WokenPushed DEF LockedBy
<1> QED
  BY <1>1, <1>2, <1>3, Passed

\* Every call and every tick preserves the types.
LEMMA NextType ==
  ASSUME TypeOK, [Next]_vars
  PROVE  TypeOK'
<1> USE Typed
<1>1. CASE alarmSigHandler
  <2>1. Requeued \in Seq(Tid) /\ inside \in SUBSET Tid /\ at = "user"
    BY <1>1, Pushed DEF Requeued, alarmSigHandler, TypeOK
  <2>2. switchThread(Requeued, "alarmSigHandler") /\ inside' = InsideAfter(Requeued, inside)
    BY <1>1 DEF alarmSigHandler
  <2>3. "alarmSigHandler" \in Ret \cup {"uthread_terminate"}
    BY DEF Ret
  <2> HIDE DEF Requeued
  <2>4. /\ running' \in Tid /\ ready' \in Seq(Tid)
        /\ env' \in [Tid -> Ret \cup {"uthread_terminate"}]
        /\ masked' \in BOOLEAN /\ at' \in {"user", "exited", "undefined"}
        /\ inside' \subseteq Tid
    BY ONLY TypeOK, <2>1, <2>2, <2>3, SwitchType
  <2> QED
    BY <1>1, <2>4 DEF alarmSigHandler, TypeOK, Owner
<1>2. ASSUME NEW tid \in Tid, uthread_block(tid)
      PROVE  TypeOK'
  <2>1. CASE UNCHANGED <<threads, lock, context, lockerBlocked>> /\ Unblock
    BY <2>1 DEF TypeOK, Owner, threads, lock, context, Unblock
  <2>2. CASE /\ blocked' = blocked \cup {tid}
             /\ lockerBlocked' \in BOOLEAN
             /\ UNCHANGED <<mutexBlocked, allThreads, mutex>>
             /\ switchThread(ready, "uthread_block") /\ inside' = InsideAfter(ready, inside)
             /\ at = "user"
    <3>1. ready \in Seq(Tid) /\ inside \in SUBSET Tid
      BY DEF TypeOK
    <3>2. "uthread_block" \in Ret \cup {"uthread_terminate"}
      BY DEF Ret
    <3>3. /\ running' \in Tid /\ ready' \in Seq(Tid)
          /\ env' \in [Tid -> Ret \cup {"uthread_terminate"}]
          /\ masked' \in BOOLEAN /\ at' \in {"user", "exited", "undefined"}
          /\ inside' \subseteq Tid
      BY ONLY TypeOK, <2>2, <3>1, <3>2, SwitchType
    <3> QED
      BY <2>2, <3>3 DEF TypeOK, Owner
  <2>3. CASE /\ blocked' = blocked \cup {tid}
             /\ lockerBlocked' \in BOOLEAN
             /\ UNCHANGED <<mutexBlocked, allThreads, mutex, context, inside>>
             /\ ready' = RemoveFirst(ready, tid)
             /\ Unblock
    BY <2>3, Erased DEF TypeOK, Owner, context, Unblock
  <2>4. (lockerBlocked \/ tid = Owner \/ tid \in mutexBlocked) \in BOOLEAN
    OBVIOUS
  <2> QED
    BY <1>2, <2>1, <2>2, <2>3, <2>4 DEF uthread_block
<1>3. CASE uthread_spawn /\ UNCHANGED lockerBlocked
  <2>1. CASE at' \in {at, "exited"} /\ masked' = TRUE /\ UNCHANGED <<threads, lock, running, env>>
    BY <1>3, <2>1 DEF TypeOK, Owner, threads, lock, context
  <2>2. CASE /\ \E id \in Tid :
                  /\ allThreads' = allThreads \cup {id}
                  /\ ready' = Append(ready, id)
                  /\ env' = [env EXCEPT ![id] = "Thread"]
             /\ Unblock
             /\ UNCHANGED <<blocked, lock, running, at>>
    <3>1. PICK id \in Tid : /\ allThreads' = allThreads \cup {id}
                            /\ ready' = Append(ready, id)
                            /\ env' = [env EXCEPT ![id] = "Thread"]
      BY <2>2
    <3>2. ready' \in Seq(Tid)
      BY <3>1, Pushed
    <3>3. env' \in [Tid -> Ret \cup {"uthread_terminate"}]
      BY <3>1 DEF Ret
    <3> QED
      BY <1>3, <2>2, <3>1, <3>2, <3>3 DEF TypeOK, Owner, Unblock, lock
  <2> QED
    BY <1>3, <2>1, <2>2 DEF uthread_spawn, context
<1>4. ASSUME NEW tid \in Tid, uthread_terminate(tid), UNCHANGED lockerBlocked
      PROVE  TypeOK'
  <2>1. CASE Unblock /\ UNCHANGED <<threads, lock, context>>
    BY <1>4, <2>1 DEF TypeOK, Owner, threads, lock, context, Unblock
  <2>2. CASE at' = "exited" /\ masked' = TRUE /\ UNCHANGED <<threads, lock, running, env>>
    BY <1>4, <2>2 DEF TypeOK, Owner, threads, lock
  <2>3. ASSUME NEW given \in HandOver(tid),
               at = "user",
               mutex' = given.mutex,
               mutexBlocked' = given.waiting \ {tid},
               allThreads' = allThreads \ {tid},
               blocked' = blocked \ {tid},
               IF tid = running
               THEN /\ switchThread(ready \o given.woken, "uthread_terminate")
                    /\ inside' = InsideAfter(ready \o given.woken, inside \ {tid})
               ELSE /\ ready' = RemoveFirst(ready \o given.woken, tid)
                    /\ inside' = inside \ {tid}
                    /\ Unblock
                    /\ UNCHANGED context
        PROVE  TypeOK'
    <3>1. given \in mutex_unblock_random_thread \cup NoHandOver
      BY <2>3 DEF HandOver
    <3> DEFINE q == ready \o given.woken
    <3>2. /\ mutex' \in [blocked : BOOLEAN, thread_block : Tid \cup {nullptr}]
          /\ mutex'.blocked <=> mutex'.thread_block # nullptr
          /\ mutexBlocked' \subseteq Tid
          /\ q \in Seq(Tid)
      BY <2>3, <3>1, PassedType
    <3>3. inside \ {tid} \in SUBSET Tid
      BY DEF TypeOK
    <3> HIDE DEF q
    <3>4. CASE /\ switchThread(q, "uthread_terminate")
               /\ inside' = InsideAfter(q, inside \ {tid})
      <4>1. /\ running' \in Tid /\ ready' \in Seq(Tid)
            /\ env' \in [Tid -> Ret \cup {"uthread_terminate"}]
            /\ masked' \in BOOLEAN /\ at' \in {"user", "exited", "undefined"}
            /\ inside' \subseteq Tid
        BY ONLY TypeOK, <2>3, <3>2, <3>3, <3>4, SwitchType
      <4> QED
        BY <1>4, <2>3, <3>2, <4>1 DEF TypeOK, Owner
    <3>5. CASE /\ ready' = RemoveFirst(q, tid) /\ inside' = inside \ {tid}
               /\ Unblock /\ UNCHANGED context
      <4>1. ready' \in Seq(Tid)
        BY <3>2, <3>5, Erased
      <4> QED
        BY <1>4, <2>3, <3>2, <3>5, <4>1 DEF TypeOK, Owner, Unblock, context
    <3> QED
      BY <2>3, <3>4, <3>5 DEF q
  <2> QED
    BY <1>4, <2>1, <2>2, <2>3 DEF uthread_terminate
<1>5. ASSUME NEW tid \in Tid, uthread_resume(tid), UNCHANGED lockerBlocked
      PROVE  TypeOK'
  <2>1. ready' \in Seq(Tid)
    BY <1>5, Pushed DEF uthread_resume, Resumed
  <2> QED
    BY <1>5, <2>1 DEF uthread_resume, TypeOK, Owner, Unblock, context, lock
<1>6. CASE uthread_mutex_lock /\ UNCHANGED lockerBlocked
  <2>1. CASE Unblock /\ UNCHANGED <<threads, lock, context>>
    BY <1>6, <2>1 DEF TypeOK, Owner, threads, lock, context, Unblock
  <2>2. CASE /\ mutexBlocked' = mutexBlocked \cup {running}
             /\ switchThread(ready, "uthread_mutex_lock") /\ inside' = InsideAfter(ready, inside)
             /\ UNCHANGED <<blocked, allThreads, mutex>>
    <3>1. ready \in Seq(Tid) /\ inside \in SUBSET Tid /\ at = "user"
      BY <1>6 DEF TypeOK, uthread_mutex_lock
    <3>2. "uthread_mutex_lock" \in Ret \cup {"uthread_terminate"}
      BY DEF Ret
    <3>3. /\ running' \in Tid /\ ready' \in Seq(Tid)
          /\ env' \in [Tid -> Ret \cup {"uthread_terminate"}]
          /\ masked' \in BOOLEAN /\ at' \in {"user", "exited", "undefined"}
          /\ inside' \subseteq Tid
      BY ONLY TypeOK, <2>2, <3>1, <3>2, SwitchType
    <3> QED
      BY <1>6, <2>2, <3>3 DEF TypeOK, Owner
  <2>3. CASE /\ mutex' = LockedBy(running) /\ inside' = inside \cup {running}
             /\ Unblock /\ UNCHANGED <<threads, mutexBlocked, context>>
    <3>1. /\ mutex' \in [blocked : BOOLEAN, thread_block : Tid \cup {nullptr}]
          /\ mutex'.blocked <=> mutex'.thread_block # nullptr
      BY <2>3 DEF LockedBy
    <3> QED
      BY <1>6, <2>3, <3>1 DEF TypeOK, Owner, threads, context, Unblock
  <2> QED
    BY <1>6, <2>1, <2>2, <2>3 DEF uthread_mutex_lock
<1>7. CASE uthread_mutex_unlock /\ UNCHANGED lockerBlocked
  <2>1. CASE UNCHANGED <<threads, lock>>
    BY <1>7, <2>1 DEF uthread_mutex_unlock, TypeOK, Owner, threads, lock, context, Unblock
  <2>2. ASSUME NEW given \in mutex_unblock_random_thread,
               mutex' = given.mutex,
               mutexBlocked' = given.waiting,
               ready' = ready \o given.woken,
               inside' = inside \ {running},
               UNCHANGED <<blocked, allThreads>>
        PROVE  TypeOK'
    <3>1. /\ mutex' \in [blocked : BOOLEAN, thread_block : Tid \cup {nullptr}]
          /\ mutex'.blocked <=> mutex'.thread_block # nullptr
          /\ mutexBlocked' \subseteq Tid
          /\ ready' \in Seq(Tid)
      BY <2>2, PassedType
    <3> QED
      BY <1>7, <2>2, <3>1 DEF uthread_mutex_unlock, TypeOK, Owner, context, Unblock
  <2> QED
    BY <1>7, <2>1, <2>2 DEF uthread_mutex_unlock
<1>8. CASE Read /\ UNCHANGED lockerBlocked
  BY <1>8 DEF Read, TypeOK, Owner, Unblock, threads, lock, context
<1>9. CASE UNCHANGED vars
  BY <1>9 DEF TypeOK, Owner, vars, threads, lock, context
<1> QED
  BY <1>1, <1>2, <1>3, <1>4, <1>5, <1>6, <1>7, <1>8, <1>9 DEF Next, Done

-----------------------------------------------------------------------------
(* Order *)

\* Initially main is alone.
LEMMA InitOrderly == Init => NimInv
<1> SUFFICES ASSUME Init
             PROVE  NimInv
  OBVIOUS
<1>1. ToSet(<<>>) = {} /\ IsInjective(<<>>) /\ <<>> \in Seq(Tid)
  BY DEF ToSet, IsInjective
<1>2. TypeOK
  BY <1>1 DEF Init, TypeOK, Unlocked, Owner, Tid, MAIN_THREAD, Ret
<1>3. OnePlace
  BY <1>1 DEF Init, OnePlace, Ready, MAIN_THREAD
<1>4. MutualExclusion /\ SomebodyReady
  BY DEF Init, MutualExclusion, SomebodyReady, Unlocked, Owner
<1>5. OwnersTurn(ready, mutexBlocked, blocked, mutex, env)
  BY <1>1 DEF Init, OwnersTurn
<1>6. Spared(mutexBlocked, blocked, mutex)
  BY DEF Init, Spared
<1> QED
  BY <1>2, <1>3, <1>4, <1>5, <1>6 DEF NimInv, Orderly

\* What the invariant says of a state in which the program runs.
LEMMA Now ==
  ASSUME NimInv, at = "user"
  PROVE  /\ TypeOK /\ ~ Over
         /\ IsInjective(ready)
         /\ allThreads = {running} \cup ToSet(ready) \cup blocked \cup mutexBlocked
         /\ running \notin ToSet(ready) \cup blocked \cup mutexBlocked
         /\ ToSet(ready) \cap (blocked \cup mutexBlocked) = {}
         /\ MAIN_THREAD \in allThreads \ blocked
         /\ Held(inside, mutex, mutexBlocked, allThreads, env)
         /\ mutex.blocked /\ Owner \notin inside => Owner # running
         /\ OwnersTurn(ready, mutexBlocked, blocked, mutex, env)
         /\ lockerBlocked \/ Spared(mutexBlocked, blocked, mutex)
<1>1. TypeOK /\ ~ Over
  BY DEF NimInv, Over
<1> QED
  BY <1>1 DEF NimInv, Orderly, OnePlace, MutualExclusion, SomebodyReady, Ready, Held, Owner

\* A switch: if the caller leaves everybody in a place and the mutex held, then
\* so it is when the next thread is in its own code, and if there is none then
\* because somebody was blocked who had the mutex or waited for it.
LEMMA SwitchOrderly ==
  ASSUME TypeOK, at = "user",
         NEW q \in Seq(Tid), NEW ret, switchThread(q, ret),
         NEW in, inside' = InsideAfter(q, in),
         Spread(q, mutexBlocked', blocked', allThreads'),
         NEW e, e = [env EXCEPT ![running] = ret],
         Held(in, mutex', mutexBlocked', allThreads', e),
         OwnersTurn(q, mutexBlocked', blocked', mutex', e),
         lockerBlocked' \/ Spared(mutexBlocked', blocked', mutex')
  PROVE  Orderly'
<1>1. CASE q = <<>>
  <2>1. at' = "undefined" /\ Over'
    BY <1>1 DEF switchThread, Undefined, Over
  <2>2. ToSet(q) = {}
    BY <1>1 DEF ToSet
  <2>3. MAIN_THREAD \in mutexBlocked' /\ mutex'.blocked /\ mutex'.thread_block \in blocked'
    BY <2>2 DEF Spread, Held
  <2>4. lockerBlocked'
    BY <2>3 DEF Spared
  <2> QED
    BY <2>1, <2>4 DEF Orderly, OnePlace, MutualExclusion, SomebodyReady
<1>2. CASE q # <<>>
  <2> DEFINE h == Head(q)
  <2>1. /\ h \in Tid /\ Tail(q) \in Seq(Tid)
        /\ ToSet(q) = {h} \cup ToSet(Tail(q))
        /\ IsInjective(Tail(q)) /\ h \notin ToSet(Tail(q))
    BY <1>2, HeadOrTail, InjectiveTail DEF Spread
  <2>2. running' = h /\ ready' = Tail(q) /\ env' = e /\ at' = "user"
    BY <1>2 DEF switchThread
  <2>3. inside' = in \cup (IF e[h] = "uthread_mutex_lock" THEN {h} ELSE {})
    BY <1>2, <2>2 DEF InsideAfter, Returned
  <2> HIDE DEF h
  <2>4. OnePlace'
    BY <2>1, <2>2 DEF OnePlace, Ready, Spread
  <2>5. e[h] = "uthread_mutex_lock" => h = mutex'.thread_block
    BY <2>1 DEF OwnersTurn, Spread
  <2>6. MutualExclusion'
    BY <2>2, <2>3, <2>5 DEF MutualExclusion, Owner, Held
  <2>7. OwnersTurn(ready, mutexBlocked, blocked, mutex, env)'
    BY <2>1, <2>2 DEF OwnersTurn
  <2> QED
    BY <2>2, <2>4, <2>6, <2>7 DEF Orderly, SomebodyReady, Spared
<1> QED
  BY <1>1, <1>2

\* A call after which the same thread goes on.
LEMMA StayOrderly ==
  ASSUME at' = "user", running' = running,
         IsInjective(ready)',
         (allThreads = {running} \cup ToSet(ready) \cup blocked \cup mutexBlocked)',
         (running \notin ToSet(ready) \cup blocked \cup mutexBlocked)',
         (ToSet(ready) \cap (blocked \cup mutexBlocked) = {})',
         (MAIN_THREAD \in allThreads \ blocked)',
         Held(inside, mutex, mutexBlocked, allThreads, env)',
         (mutex.blocked /\ Owner \notin inside => Owner # running)',
         OwnersTurn(ready, mutexBlocked, blocked, mutex, env)',
         (lockerBlocked \/ Spared(mutexBlocked, blocked, mutex))'
  PROVE  Orderly'
BY DEF Orderly, OnePlace, MutualExclusion, SomebodyReady, Ready, Held, Owner

\* The queue after mutex_unblock_random_thread.
Queue(given) == ready \o given.woken

\* When the mutex is passed on, because tid unlocks it or is terminated, or
\* stays where it is, because tid does not have it, all but tid are in order.
LEMMA HandedOn ==
  ASSUME NimInv, at = "user", NEW tid \in Tid, NEW given \in HandOver(tid)
  PROVE  /\ Queue(given) \in Seq(Tid) /\ IsInjective(Queue(given))
         /\ allThreads = {running} \cup ToSet(Queue(given)) \cup blocked \cup given.waiting
         /\ running \notin ToSet(Queue(given)) \cup blocked \cup given.waiting
         /\ ToSet(Queue(given)) \cap (blocked \cup given.waiting) = {}
         /\ Held(inside \ {tid}, given.mutex, given.waiting \ {tid}, allThreads \ {tid}, env)
         /\ given.mutex.blocked /\ given.mutex.thread_block \notin inside \ {tid} =>
              given.mutex.thread_block # running
         /\ \A t \in ((ToSet(Queue(given)) \cup blocked) \ given.waiting) \ {tid} :
              env[t] = "uthread_mutex_lock" => t = given.mutex.thread_block
         /\ lockerBlocked \/ Spared(given.waiting, blocked, given.mutex)
<1> USE Now DEF Owner
<1>0. TypeOK /\ nullptr \notin Tid
  BY Typed
<1> DEFINE q == Queue(given)
<1>1. q = ready \o given.woken
  BY DEF Queue
<1> HIDE DEF q
<1>2. CASE /\ given.mutex = mutex /\ given.waiting = mutexBlocked /\ given.woken = <<>>
           /\ ~ (mutex.blocked /\ tid = Owner)
  <2>1. q = ready
    BY <1>0, <1>1, <1>2, Typed, ConcatEmptySeq
  <2>2. Held(inside \ {tid}, mutex, mutexBlocked \ {tid}, allThreads \ {tid}, env)
    BY <1>2 DEF Held
  <2>3. mutex.blocked /\ Owner \notin inside \ {tid} => Owner # running
    BY <1>2
  <2>4. \A t \in (ToSet(q) \cup blocked) \ mutexBlocked :
          env[t] = "uthread_mutex_lock" => t = Owner
    BY <2>1 DEF OwnersTurn
  <2> QED
    BY <1>0, <1>2, <2>1, <2>2, <2>3, <2>4, Typed DEF q
<1>3. CASE /\ mutexBlocked = {}
           /\ given.mutex = Unlocked /\ given.waiting = {} /\ given.woken = <<>>
           /\ mutex.blocked /\ tid = Owner
  <2>1. q = ready
    BY <1>0, <1>1, <1>3, Typed, ConcatEmptySeq
  <2>2. ~ Unlocked.blocked /\ Unlocked.thread_block = nullptr
    BY DEF Unlocked
  <2>3. Held(inside \ {tid}, Unlocked, {}, allThreads \ {tid}, env)
    BY <1>3, <2>2 DEF Held
  <2>4. \A t \in (ToSet(q) \cup blocked) \ {tid} : ~ (env[t] = "uthread_mutex_lock")
    BY <1>3, <2>1 DEF OwnersTurn
  <2>5. Spared({}, blocked, Unlocked)
    BY <1>0, <2>2, Typed DEF Spared
  <2> QED
    BY <1>0, <1>3, <2>1, <2>2, <2>3, <2>4, <2>5, Typed DEF q
<1>4. ASSUME NEW h \in mutexBlocked,
             given.mutex = LockedBy(h),
             given.waiting = mutexBlocked \ {h},
             given.woken = Woken(h),
             mutex.blocked, tid = Owner
      PROVE  /\ q \in Seq(Tid) /\ IsInjective(q)
             /\ allThreads = {running} \cup ToSet(q) \cup blocked \cup given.waiting
             /\ running \notin ToSet(q) \cup blocked \cup given.waiting
             /\ ToSet(q) \cap (blocked \cup given.waiting) = {}
             /\ Held(inside \ {tid}, given.mutex, given.waiting \ {tid}, allThreads \ {tid}, env)
             /\ given.mutex.blocked /\ given.mutex.thread_block \notin inside \ {tid} =>
                  given.mutex.thread_block # running
             /\ \A t \in ((ToSet(q) \cup blocked) \ given.waiting) \ {tid} :
                  env[t] = "uthread_mutex_lock" => t = given.mutex.thread_block
             /\ lockerBlocked \/ Spared(given.waiting, blocked, given.mutex)
  <2>1. h \in Tid /\ h \notin ToSet(ready) /\ h # running
    BY <1>0, <1>4, Typed
  <2>2. q \in Seq(Tid) /\ IsInjective(q) /\ ToSet(q) = ToSet(ready) \cup ({h} \ blocked)
    BY <1>0, <1>1, <1>4, <2>1, Typed, WokenPushed
  <2>3. LockedBy(h).blocked /\ LockedBy(h).thread_block = h
    BY DEF LockedBy
  <2>4. h # tid /\ inside \ {tid} = {} /\ env[h] = "uthread_mutex_lock"
    BY <1>4 DEF Held
  <2>5. Held(inside \ {tid}, LockedBy(h), (mutexBlocked \ {h}) \ {tid}, allThreads \ {tid}, env)
    BY <1>4, <2>3, <2>4 DEF Held
  <2>6. \A t \in ((ToSet(q) \cup blocked) \ given.waiting) \ {tid} :
          env[t] = "uthread_mutex_lock" => t = h
    BY <1>4, <2>2 DEF OwnersTurn
  <2>7. Spared(mutexBlocked, blocked, mutex) => Spared(mutexBlocked \ {h}, blocked, LockedBy(h))
    BY <1>4, <2>3 DEF Spared
  <2> QED
    BY <1>4, <2>1, <2>2, <2>3, <2>4, <2>5, <2>6, <2>7
<1>5. CASE given \in mutex_unblock_random_thread /\ mutex.blocked /\ tid = Owner
  BY <1>3, <1>4, <1>5, Passed DEF q
<1> QED
  BY <1>2, <1>5 DEF HandOver, NoHandOver, q

\* A call that changes nothing, or the end, keeps the order.
LEMMA SameOrderly ==
  ASSUME NimInv, UNCHANGED <<threads, lock, running, env, lockerBlocked>>,
         at' = at \/ at' = "exited"
  PROVE  Orderly'
<1>1. CASE at' = at
  BY <1>1 DEF NimInv, Orderly, OnePlace, MutualExclusion, SomebodyReady, Over, Ready, Owner,
              threads, lock
<1>2. CASE at' = "exited"
  BY <1>2 DEF Orderly, OnePlace, MutualExclusion, SomebodyReady, Over
<1> QED
  BY <1>1, <1>2

\* Every call and every tick keeps the order.
LEMMA NextOrderly ==
  ASSUME NimInv, [Next]_vars
  PROVE  Orderly'
<1> USE Now
<1>0. ASSUME at = "user"
      PROVE  /\ running \in Tid /\ ready \in Seq(Tid) /\ nullptr \notin Tid
             /\ mutexBlocked \subseteq Tid /\ blocked \subseteq Tid /\ allThreads \subseteq Tid
             /\ (mutex.blocked <=> Owner # nullptr)
             /\ env \in [Tid -> Ret \cup {"uthread_terminate"}]
             /\ MAIN_THREAD \in Tid
  BY <1>0, Typed
<1>1. CASE alarmSigHandler
  <2>1. at = "user" /\ UNCHANGED <<mutexBlocked, blocked, allThreads, mutex, lockerBlocked>>
    BY <1>1 DEF alarmSigHandler
  <2> DEFINE q == Append(ready, running)
             e == [env EXCEPT ![running] = "alarmSigHandler"]
  <2>2. /\ q \in Seq(Tid) /\ IsInjective(q)
        /\ ToSet(q) = ToSet(ready) \cup {running}
    BY <1>0, <2>1, Pushed
  <2>3. switchThread(q, "alarmSigHandler") /\ inside' = InsideAfter(q, inside)
    BY <1>1 DEF alarmSigHandler, Requeued
  <2> HIDE DEF q
  <2>4. Spread(q, mutexBlocked', blocked', allThreads')
    BY <2>1, <2>2 DEF Spread
  <2>5. e[running] = "alarmSigHandler" /\ \A t \in Tid : t # running => e[t] = env[t]
    BY <1>0, <2>1
  <2>6. Held(inside, mutex', mutexBlocked', allThreads', e)
    BY <1>0, <2>1, <2>5 DEF Held, Owner
  <2>7. OwnersTurn(q, mutexBlocked', blocked', mutex', e)
    BY <1>0, <2>1, <2>2, <2>5 DEF OwnersTurn
  <2>8. lockerBlocked' \/ Spared(mutexBlocked', blocked', mutex')
    BY <2>1
  <2> HIDE DEF e
  <2> QED
    BY <2>1, <2>2, <2>3, <2>4, <2>6, <2>7, <2>8, SwitchOrderly DEF e
<1>2. ASSUME NEW tid \in Tid, uthread_block(tid)
      PROVE  Orderly'
  <2>1. at = "user"
    BY <1>2 DEF uthread_block
  <2>2. CASE Unblock /\ UNCHANGED <<threads, lock, context, lockerBlocked>>
    BY <2>2, SameOrderly DEF context
  <2>3. CASE /\ tid \in allThreads \ {MAIN_THREAD}
             /\ blocked' = blocked \cup {tid}
             /\ lockerBlocked' = (lockerBlocked \/ tid = Owner \/ tid \in mutexBlocked)
             /\ UNCHANGED <<mutexBlocked, allThreads, mutex>>
    <3>1. lockerBlocked' \/ Spared(mutexBlocked', blocked', mutex')
      BY <2>1, <2>3 DEF Spared, Owner
    <3>2. CASE /\ tid = running
               /\ switchThread(ready, "uthread_block") /\ inside' = InsideAfter(ready, inside)
      <4> DEFINE e == [env EXCEPT ![running] = "uthread_block"]
      <4>1. e[running] = "uthread_block" /\ \A t \in Tid : t # running => e[t] = env[t]
        BY <1>0, <2>1
      <4>2. Spread(ready, mutexBlocked', blocked', allThreads')
        BY <2>1, <2>3, <3>2 DEF Spread
      <4>3. Held(inside, mutex', mutexBlocked', allThreads', e)
        BY <1>0, <2>1, <2>3, <4>1 DEF Held, Owner
      <4>4. OwnersTurn(ready, mutexBlocked', blocked', mutex', e)
        BY <1>0, <2>1, <2>3, <3>2, <4>1 DEF OwnersTurn
      <4> HIDE DEF e
      <4> QED
        BY <1>0, <2>1, <3>1, <3>2, <4>2, <4>3, <4>4, SwitchOrderly DEF e
    <3>3. CASE /\ tid # running
               /\ ready' = RemoveFirst(ready, tid)
               /\ Unblock /\ UNCHANGED <<context, inside>>
      <4>1. IsInjective(ready') /\ ToSet(ready') = ToSet(ready) \ {tid}
        BY <1>0, <2>1, <3>3, Erased
      <4>2. UNCHANGED <<running, env, at>>
        BY <3>3 DEF context
      <4>3. Held(inside, mutex, mutexBlocked, allThreads, env)'
        BY <2>1, <2>3, <3>3, <4>2 DEF Held
      <4>4. OwnersTurn(ready, mutexBlocked, blocked, mutex, env)'
        <5>1. /\ (ToSet(ready') \cup blocked') \ mutexBlocked' \subseteq
                    (ToSet(ready) \cup blocked) \ mutexBlocked
              /\ OwnersTurn(ready, mutexBlocked, blocked, mutex, env)
          BY <2>1, <2>3, <3>3, <4>1
        <5> QED
          BY ONLY <2>3, <4>2, <5>1 DEF OwnersTurn
      <4>5. (mutex.blocked /\ Owner \notin inside => Owner # running)'
        BY <2>1, <2>3, <3>3, <4>2 DEF Owner
      <4> QED
        BY <2>1, <2>3, <3>1, <3>3, <4>1, <4>2, <4>3, <4>4, <4>5, StayOrderly
    <3> QED
      BY <1>2, <2>3, <3>2, <3>3 DEF uthread_block
  <2> QED
    BY <1>2, <2>2, <2>3 DEF uthread_block
<1>3. CASE uthread_spawn /\ UNCHANGED lockerBlocked
  <2>1. at = "user"
    BY <1>3 DEF uthread_spawn
  <2>2. CASE /\ UNCHANGED <<threads, lock, running, env>>
             /\ at' = at \/ at' = "exited"
    BY <1>3, <2>2, SameOrderly
  <2>3. ASSUME NEW id \in Tid,
               IsFirstFree(id),
               allThreads' = allThreads \cup {id},
               ready' = Append(ready, id),
               env' = [env EXCEPT ![id] = "Thread"],
               UNCHANGED <<blocked, lock, running, at>>
        PROVE  Orderly'
    <3>1. id \notin allThreads
      BY <2>3 DEF IsFirstFree
    <3>2. /\ IsInjective(ready') /\ ToSet(ready') = ToSet(ready) \cup {id}
      BY <1>0, <2>1, <2>3, <3>1, Pushed
    <3>3. UNCHANGED <<blocked, mutexBlocked, mutex, inside, running, at, lockerBlocked>>
      BY <1>3, <2>3 DEF lock
    <3>4. env'[id] = "Thread" /\ \A t \in Tid : t # id => env'[t] = env[t]
      BY <1>0, <2>1, <2>3
    <3>5. Held(inside, mutex, mutexBlocked, allThreads, env)'
      BY <1>0, <2>1, <2>3, <3>1, <3>3, <3>4 DEF Held, Owner
    <3>6. OwnersTurn(ready, mutexBlocked, blocked, mutex, env)'
      BY <1>0, <2>1, <3>2, <3>3, <3>4 DEF OwnersTurn
    <3>7. (mutex.blocked /\ Owner \notin inside => Owner # running)'
      BY <2>1, <3>3 DEF Owner
    <3>8. (lockerBlocked \/ Spared(mutexBlocked, blocked, mutex))'
      BY <2>1, <3>3
    <3> QED
      BY <2>1, <2>3, <3>1, <3>2, <3>3, <3>5, <3>6, <3>7, <3>8, StayOrderly
  <2> QED
    BY <1>3, <2>2, <2>3 DEF uthread_spawn, context
<1>4. ASSUME NEW tid \in Tid, uthread_terminate(tid), UNCHANGED lockerBlocked
      PROVE  Orderly'
  <2>1. at = "user"
    BY <1>4 DEF uthread_terminate
  <2>2. CASE /\ UNCHANGED <<threads, lock, running, env>>
             /\ at' = at \/ at' = "exited"
    BY <1>4, <2>2, SameOrderly
  <2>3. ASSUME NEW given \in HandOver(tid),
               tid \in allThreads \ {MAIN_THREAD},
               mutex' = given.mutex,
               mutexBlocked' = given.waiting \ {tid},
               allThreads' = allThreads \ {tid},
               blocked' = blocked \ {tid},
               IF tid = running
               THEN /\ switchThread(ready \o given.woken, "uthread_terminate")
                    /\ inside' = InsideAfter(ready \o given.woken, inside \ {tid})
               ELSE /\ ready' = RemoveFirst(ready \o given.woken, tid)
                    /\ inside' = inside \ {tid}
                    /\ Unblock
                    /\ UNCHANGED context
        PROVE  Orderly'
    <3> DEFINE q == Queue(given)
    <3>1. q = ready \o given.woken
      BY DEF Queue
    <3>2. /\ q \in Seq(Tid) /\ IsInjective(q)
          /\ allThreads = {running} \cup ToSet(q) \cup blocked \cup given.waiting
          /\ running \notin ToSet(q) \cup blocked \cup given.waiting
          /\ ToSet(q) \cap (blocked \cup given.waiting) = {}
          /\ Held(inside \ {tid}, given.mutex, given.waiting \ {tid}, allThreads \ {tid}, env)
          /\ given.mutex.blocked /\ given.mutex.thread_block \notin inside \ {tid} =>
               given.mutex.thread_block # running
          /\ \A t \in ((ToSet(q) \cup blocked) \ given.waiting) \ {tid} :
               env[t] = "uthread_mutex_lock" => t = given.mutex.thread_block
          /\ lockerBlocked \/ Spared(given.waiting, blocked, given.mutex)
      BY ONLY NimInv, <2>1, <2>3, HandedOn
    <3> HIDE DEF q
    <3>3. lockerBlocked' \/ Spared(mutexBlocked', blocked', mutex')
      <4>1. Spared(given.waiting, blocked, given.mutex) =>
              Spared(given.waiting \ {tid}, blocked \ {tid}, given.mutex)
        BY ONLY Zenon DEF Spared
      <4> QED
        BY ONLY <1>4, <2>3, <3>2, <4>1
    <3>4. CASE /\ tid = running
               /\ switchThread(q, "uthread_terminate")
               /\ inside' = InsideAfter(q, inside \ {tid})
      <4> DEFINE e == [env EXCEPT ![running] = "uthread_terminate"]
      <4>1. e[running] = "uthread_terminate" /\ \A t \in Tid : t # running => e[t] = env[t]
        BY <1>0, <2>1
      <4>2. Spread(q, mutexBlocked', blocked', allThreads')
        BY <2>1, <2>3, <3>2, <3>4 DEF Spread
      <4>3. Held(inside \ {tid}, mutex', mutexBlocked', allThreads', e)
        <5>1. given.waiting \subseteq Tid /\ allThreads \subseteq Tid
          BY <1>0, <2>1, <3>2
        <5> QED
          BY <2>3, <3>2, <3>4, <4>1, <5>1 DEF Held
      <4>4. OwnersTurn(q, mutexBlocked', blocked', mutex', e)
        BY <1>0, <2>1, <2>3, <3>2, <3>4, <4>1 DEF OwnersTurn
      <4> HIDE DEF e
      <4> QED
        BY <1>0, <2>1, <3>2, <3>3, <3>4, <4>2, <4>3, <4>4, SwitchOrderly DEF e
    <3>5. CASE /\ tid # running
               /\ ready' = RemoveFirst(q, tid) /\ inside' = inside \ {tid}
               /\ Unblock /\ UNCHANGED context
      <4>1. IsInjective(ready') /\ ToSet(ready') = ToSet(q) \ {tid}
        BY <3>2, <3>5, Erased
      <4>2. UNCHANGED <<running, env, at>>
        BY <3>5 DEF context
      <4>3. Held(inside, mutex, mutexBlocked, allThreads, env)'
        BY <2>3, <3>2, <3>5, <4>2 DEF Held
      <4>4. OwnersTurn(ready, mutexBlocked, blocked, mutex, env)'
        BY <2>3, <3>2, <4>1, <4>2 DEF OwnersTurn
      <4>5. (mutex.blocked /\ Owner \notin inside => Owner # running)'
        BY <2>3, <3>2, <3>5, <4>2 DEF Owner
      <4>6. (allThreads = {running} \cup ToSet(ready) \cup blocked \cup mutexBlocked)'
        BY <2>3, <3>2, <3>5, <4>1, <4>2
      <4> QED
        BY <2>1, <2>3, <3>2, <3>3, <4>1, <4>2, <4>3, <4>4, <4>5, <4>6, StayOrderly
    <3> QED
      BY <2>3, <3>1, <3>4, <3>5
  <2> QED
    BY <1>4, <2>2, <2>3 DEF uthread_terminate, context
<1>5. ASSUME NEW tid \in Tid, uthread_resume(tid), UNCHANGED lockerBlocked
      PROVE  Orderly'
  <2>1. at = "user"
    BY <1>5 DEF uthread_resume
  <2>2. /\ blocked' = blocked \ {tid} /\ ready' = Resumed(tid)
        /\ UNCHANGED <<allThreads, mutexBlocked, mutex, inside, running, env, at, lockerBlocked>>
    BY <1>5 DEF uthread_resume, lock, context
  <2>3. /\ IsInjective(ready')
        /\ ToSet(ready') = ToSet(ready) \cup ({tid} \cap (blocked \ mutexBlocked))
    BY <1>0, <2>1, <2>2, Pushed DEF Resumed
  <2>4. Held(inside, mutex, mutexBlocked, allThreads, env)'
    BY <2>1, <2>2 DEF Held
  <2>5. OwnersTurn(ready, mutexBlocked, blocked, mutex, env)'
    BY <2>1, <2>2, <2>3 DEF OwnersTurn
  <2>6. (mutex.blocked /\ Owner \notin inside => Owner # running)'
    BY <2>1, <2>2 DEF Owner
  <2>7. (lockerBlocked \/ Spared(mutexBlocked, blocked, mutex))'
    BY <2>1, <2>2 DEF Spared
  <2> QED
    BY <2>1, <2>2, <2>3, <2>4, <2>5, <2>6, <2>7, StayOrderly
<1>6. CASE uthread_mutex_lock /\ UNCHANGED lockerBlocked
  <2>1. at = "user"
    BY <1>6 DEF uthread_mutex_lock
  <2>2. CASE Unblock /\ UNCHANGED <<threads, lock, context>>
    BY <1>6, <2>2, SameOrderly DEF context
  <2>3. CASE /\ mutex.blocked /\ Owner # running
             /\ mutexBlocked' = mutexBlocked \cup {running}
             /\ switchThread(ready, "uthread_mutex_lock")
             /\ inside' = InsideAfter(ready, inside)
             /\ UNCHANGED <<blocked, allThreads, mutex>>
    <3> DEFINE e == [env EXCEPT ![running] = "uthread_mutex_lock"]
    <3>1. e[running] = "uthread_mutex_lock" /\ \A t \in Tid : t # running => e[t] = env[t]
      BY <1>0, <2>1
    <3>2. Spread(ready, mutexBlocked', blocked', allThreads')
      BY <2>1, <2>3 DEF Spread
    <3>3. Held(inside, mutex', mutexBlocked', allThreads', e)
      BY <1>0, <2>1, <2>3, <3>1 DEF Held, Owner
    <3>4. OwnersTurn(ready, mutexBlocked', blocked', mutex', e)
      BY <1>0, <2>1, <2>3, <3>1 DEF OwnersTurn
    <3>5. lockerBlocked' \/ Spared(mutexBlocked', blocked', mutex')
      BY <1>6, <2>1, <2>3 DEF Spared
    <3> HIDE DEF e
    <3> QED
      BY <1>0, <2>1, <2>3, <3>2, <3>3, <3>4, <3>5, SwitchOrderly DEF e
  <2>4. CASE /\ ~ mutex.blocked
             /\ mutex' = LockedBy(running)
             /\ inside' = inside \cup {running}
             /\ Unblock /\ UNCHANGED <<threads, mutexBlocked, context>>
    <3>1. mutex'.blocked /\ mutex'.thread_block = running
      BY <2>4 DEF LockedBy
    <3>2. UNCHANGED <<ready, blocked, allThreads, mutexBlocked, running, env, at, lockerBlocked>>
      BY <1>6, <2>4 DEF threads, context
    <3>3. inside = {} /\ mutexBlocked = {} /\ Owner = nullptr
      BY <1>0, <2>1, <2>4 DEF Held, Owner, TypeOK
    <3>4. Held(inside, mutex, mutexBlocked, allThreads, env)'
      BY <2>1, <2>4, <3>1, <3>2, <3>3 DEF Held
    <3>5. OwnersTurn(ready, mutexBlocked, blocked, mutex, env)'
      <4>1. ToSet(ready) \cup blocked \subseteq Tid
        BY <1>0, <2>1
      <4> QED
        BY <1>0, <2>1, <3>2, <3>3, <4>1 DEF OwnersTurn, Owner
    <3>6. (mutex.blocked /\ Owner \notin inside => Owner # running)'
      BY <2>4, <3>1, <3>2 DEF Owner
    <3>7. (lockerBlocked \/ Spared(mutexBlocked, blocked, mutex))'
      BY <2>1, <3>1, <3>2, <3>3 DEF Spared
    <3> QED
      BY <2>1, <3>2, <3>4, <3>5, <3>6, <3>7, StayOrderly
  <2> QED
    BY <1>6, <2>2, <2>3, <2>4 DEF uthread_mutex_lock
<1>7. CASE uthread_mutex_unlock /\ UNCHANGED lockerBlocked
  <2>1. at = "user" /\ UNCHANGED <<running, env, at>>
    BY <1>7 DEF uthread_mutex_unlock, context
  <2>2. CASE UNCHANGED <<threads, lock>>
    BY <1>7, <2>1, <2>2, SameOrderly
  <2>3. ASSUME MayUnlock,
               NEW given \in mutex_unblock_random_thread,
               mutex' = given.mutex,
               mutexBlocked' = given.waiting,
               ready' = ready \o given.woken,
               inside' = inside \ {running},
               UNCHANGED <<blocked, allThreads>>
        PROVE  Orderly'
    <3>1. given \in HandOver(running)
      BY <2>3 DEF MayUnlock, HandOver
    <3>2. /\ IsInjective(ready')
          /\ allThreads = {running} \cup ToSet(ready') \cup blocked \cup given.waiting
          /\ running \notin ToSet(ready') \cup blocked \cup given.waiting
          /\ ToSet(ready') \cap (blocked \cup given.waiting) = {}
          /\ Held(inside \ {running}, given.mutex, given.waiting \ {running},
                  allThreads \ {running}, env)
          /\ given.mutex.blocked /\ given.mutex.thread_block \notin inside \ {running} =>
               given.mutex.thread_block # running
          /\ \A t \in ((ToSet(ready') \cup blocked) \ given.waiting) \ {running} :
               env[t] = "uthread_mutex_lock" => t = given.mutex.thread_block
          /\ lockerBlocked \/ Spared(given.waiting, blocked, given.mutex)
      <4>1. running \in Tid
        BY <1>0, <2>1
      <4>2. ready' = Queue(given)
        BY <2>3 DEF Queue
      <4> QED
        BY ONLY NimInv, <2>1, <3>1, <4>1, <4>2, HandedOn
    <3>3. Held(inside, mutex, mutexBlocked, allThreads, env)'
      <4>1. given.waiting \ {running} = given.waiting
        BY <3>2
      <4> QED
        BY ONLY <2>1, <2>3, <3>2, <4>1 DEF Held
    <3>4. OwnersTurn(ready, mutexBlocked, blocked, mutex, env)'
      BY <2>1, <2>3, <3>2 DEF OwnersTurn
    <3>5. (mutex.blocked /\ Owner \notin inside => Owner # running)'
      BY <2>1, <2>3, <3>2 DEF Owner
    <3>6. (lockerBlocked \/ Spared(mutexBlocked, blocked, mutex))'
      BY <1>7, <2>3, <3>2
    <3> QED
      BY <2>1, <2>3, <3>2, <3>3, <3>4, <3>5, <3>6, StayOrderly
  <2> QED
    BY <1>7, <2>2, <2>3 DEF uthread_mutex_unlock
<1>8. CASE Read /\ UNCHANGED lockerBlocked
  BY <1>8, SameOrderly DEF Read, context
<1>9. CASE UNCHANGED vars
  BY <1>9, SameOrderly DEF vars, context
<1> QED
  BY <1>1, <1>2, <1>3, <1>4, <1>5, <1>6, <1>7, <1>8, <1>9 DEF Next, Done

-----------------------------------------------------------------------------
(* Theorems *)

\* Whatever clients do with nim/uthreads.cpp and whenever its timer expires,
\* the types are right and threads, queue and mutex are in order.
THEOREM NimInvariant == Spec => []NimInv
<1>1. Init => NimInv
  BY InitOrderly
<1>2. NimInv /\ [Next]_vars => NimInv'
  BY NextType, NextOrderly DEF NimInv
<1> QED
  BY <1>1, <1>2, PTL DEF Spec

\* The pointers of the mutex and of the contexts are of their types; that to the
\* owner is null exactly when the mutex is unlocked.
THEOREM NimTypeCorrect == Spec => []TypeOK
BY NimInvariant, PTL DEF NimInv

\* Each thread of nim/uthreads.cpp runs, is ready once, or is held up.
THEOREM NimOnePlace == Spec => []OnePlace
BY NimInvariant, PTL DEF NimInv, Orderly

\* Whoever's uthread_mutex_lock returned SUCCESS has the mutex until he unlocks
\* it, also when he got it by being woken or by the owner's termination.
THEOREM NimMutualExclusion == Spec => []MutualExclusion
BY NimInvariant, PTL DEF NimInv, Orderly

\* switchThread finds a thread, unless one was blocked that owned the mutex or
\* waited for it.
THEOREM NimSomebodyReady == Spec => []SomebodyReady
BY NimInvariant, PTL DEF NimInv, Orderly

-----------------------------------------------------------------------------
(* The mutex *)

\* Passing the mutex on frees it or gives it to one who waits, a blocked one
\* only if they all are.
LEMMA PassesOn ==
  ASSUME NimInv, at = "user", mutex.blocked,
         NEW given \in mutex_unblock_random_thread,
         Owner' = given.mutex.thread_block, mutexBlocked' = given.waiting
  PROVE  Mutex!Next
<1>1. Owner # nullptr /\ mutexBlocked \subseteq Tid
  BY Now, Typed
<1>2. CASE mutexBlocked = {} /\ given.mutex = Unlocked /\ given.waiting = {}
  <2>1. Owner' = nullptr /\ mutexBlocked' = mutexBlocked
    BY <1>2 DEF Unlocked
  <2> QED
    BY <1>1, <1>2, <2>1 DEF Mutex!Next, Mutex!Free
<1>3. ASSUME NEW h \in mutexBlocked,
             given.mutex = LockedBy(h),
             given.waiting = mutexBlocked \ {h},
             h \in blocked => mutexBlocked \subseteq blocked
      PROVE  Mutex!Next
  <2>1. Owner' = h /\ mutexBlocked' = mutexBlocked \ {h} /\ h \in Tid
    BY <1>1, <1>3 DEF LockedBy
  <2> QED
    BY <1>1, <1>3, <2>1 DEF Mutex!Next, Mutex!PassOn
<1> QED
  BY <1>2, <1>3, Passed

\* A step that leaves the mutex alone.
LEMMA ElsewhereStep ==
  ASSUME UNCHANGED <<mutex, mutexBlocked>>
  PROVE  Mutex!Next
BY DEF Mutex!Next, Mutex!Elsewhere, Owner

\* Every call and every tick is a step of NimMutex.
LEMMA NextMutex ==
  ASSUME NimInv, [Next]_vars
  PROVE  [Mutex!Next]_(Mutex!vars)
<1>1. CASE UNCHANGED <<mutex, mutexBlocked>>
  BY <1>1, ElsewhereStep
<1>2. ASSUME NEW tid \in Tid, uthread_terminate(tid)
      PROVE  Mutex!Next
  <2>1. at = "user"
    BY <1>2 DEF uthread_terminate
  <2>2. ASSUME NEW given \in HandOver(tid),
               mutex' = given.mutex, mutexBlocked' = given.waiting \ {tid}
        PROVE  Mutex!Next
    <3>1. CASE mutex.blocked /\ tid = Owner
      <4>1. given \in mutex_unblock_random_thread
        BY <3>1 DEF HandOver
      <4>2. tid \notin given.waiting
        BY <2>1, <2>2, <3>1, <4>1, Now, Passed DEF Held, Owner
      <4>3. Owner' = given.mutex.thread_block /\ mutexBlocked' = given.waiting
        BY <2>2, <4>2 DEF Owner
      <4> QED
        BY <2>1, <3>1, <4>1, <4>3, PassesOn
    <3>2. CASE ~ (mutex.blocked /\ tid = Owner)
      <4>1. Owner' = Owner /\ mutexBlocked' = mutexBlocked \ {tid}
        BY <2>2, <3>2 DEF HandOver, NoHandOver, Owner
      <4>2. CASE tid \in mutexBlocked
        BY <4>1, <4>2 DEF Mutex!Next, Mutex!GiveUp
      <4>3. CASE tid \notin mutexBlocked
        BY <4>1, <4>3 DEF Mutex!Next, Mutex!Elsewhere
      <4> QED
        BY <4>2, <4>3
    <3> QED
      BY <3>1, <3>2
  <2>3. CASE UNCHANGED lock
    BY <2>3, ElsewhereStep DEF lock
  <2> QED
    BY <1>2, <2>2, <2>3 DEF uthread_terminate
<1>3. CASE uthread_mutex_lock
  <2>1. at = "user" /\ running \in Tid /\ running \notin mutexBlocked
    BY <1>3, Now, Typed DEF uthread_mutex_lock
  <2>2. mutex.blocked <=> Owner # nullptr
    BY <2>1, Now, Typed
  <2>3. CASE /\ mutex.blocked /\ Owner # running
             /\ mutexBlocked' = mutexBlocked \cup {running}
             /\ UNCHANGED mutex
    BY <2>1, <2>2, <2>3 DEF Mutex!Next, Mutex!Wait, Owner
  <2>4. CASE ~ mutex.blocked /\ mutex' = LockedBy(running) /\ UNCHANGED mutexBlocked
    <3>1. Owner = nullptr /\ Owner' = running
      BY <2>2, <2>4 DEF LockedBy, Owner
    <3> QED
      BY <2>1, <2>4, <3>1 DEF Mutex!Next, Mutex!Lock
  <2> QED
    BY <1>3, <2>3, <2>4, ElsewhereStep DEF uthread_mutex_lock, lock
<1>4. CASE uthread_mutex_unlock
  <2>1. at = "user"
    BY <1>4 DEF uthread_mutex_unlock
  <2>2. ASSUME MayUnlock, NEW given \in mutex_unblock_random_thread,
               mutex' = given.mutex, mutexBlocked' = given.waiting
        PROVE  Mutex!Next
    <3>1. mutex.blocked /\ Owner' = given.mutex.thread_block
      BY <2>2 DEF MayUnlock, Owner
    <3> QED
      BY <2>1, <2>2, <3>1, PassesOn
  <2> QED
    BY <1>4, <2>2, ElsewhereStep DEF uthread_mutex_unlock, lock
<1> QED
  BY <1>1, <1>2, <1>3, <1>4
     DEF Next, Done, vars, lock, alarmSigHandler, uthread_block, uthread_spawn, uthread_resume, Read

\* The mutex of nim/uthreads.cpp is the one its comments describe: who finds it
\* locked waits, and it is passed on directly to one of those who wait, a
\* blocked one only if they all are.
THEOREM NimImplementsMutex == Spec => ImplementsMutex
<1>1. Init => Mutex!Init
  BY DEF Init, Mutex!Init, Unlocked, Owner
<1>2. NimInv /\ [Next]_vars => [Mutex!Next]_(Mutex!vars)
  BY NextMutex
<1> QED
  BY <1>1, <1>2, NimInvariant, PTL DEF Spec, ImplementsMutex, Mutex!Spec

-----------------------------------------------------------------------------
(* The order of the ready queue *)

\* What NoOvertaking says of a step.
InTurn ==
  \A t \in Ready : t \in Ready' =>
    /\ Before(ready', t) \subseteq Before(ready, t)
    /\ running' # running => running' \in Before(ready, t)

\* None of those in late is ready yet.
Fresh(late) == late \in Seq(Tid) /\ \A t \in Ready : t \notin ToSet(late)

\* Nothing happens to the queue.
LEMMA FrameInTurn ==
  ASSUME UNCHANGED <<ready, running>>
  PROVE  InTurn
BY DEF InTurn

\* Whoever is pushed is behind those who are ready, and taking a thread out puts
\* nobody in front of another.
LEMMA PushInTurn ==
  ASSUME TypeOK, NEW late, Fresh(late), NEW e,
         ready' \in {ready \o late, RemoveFirst(ready \o late, e)}, UNCHANGED running
  PROVE  InTurn
<1>1. ready \in Seq(Tid) /\ late \in Seq(Tid) /\ ready \o late \in Seq(Tid)
  BY Typed, ConcatProperties DEF Fresh
<1>2. ASSUME NEW t \in Ready
      PROVE  Before(ready', t) \subseteq Before(ready, t)
  <2>1. Before(ready \o late, t) \subseteq Before(ready, t)
    BY <1>1, BeforeConcat DEF Fresh
  <2>2. Before(RemoveFirst(ready \o late, e), t) \subseteq Before(ready \o late, t)
    BY ONLY <1>1, BeforeRemove
  <2> QED
    BY <2>1, <2>2
<1> QED
  BY <1>2 DEF InTurn

\* A switch after such a push lets the front of the queue run.
LEMMA SwitchInTurn ==
  ASSUME TypeOK, NEW late, Fresh(late), NEW ret, switchThread(ready \o late, ret)
  PROVE  InTurn
<1> DEFINE q == ready \o late
<1>1. ready \in Seq(Tid) /\ late \in Seq(Tid) /\ q \in Seq(Tid)
  BY Typed, ConcatProperties DEF Fresh
<1>2. \A t \in Ready : Before(q, t) \subseteq Before(ready, t)
  BY <1>1, BeforeConcat DEF Fresh
<1> HIDE DEF q
<1>3. CASE q = <<>>
  BY <1>3, FrameInTurn DEF q, switchThread, Undefined
<1>4. CASE q # <<>>
  <2>1. running' = Head(q) /\ ready' = Tail(q)
    BY <1>4 DEF q, switchThread
  <2>2. ASSUME NEW t \in Ready, t \in Ready'
        PROVE  /\ Before(ready', t) \subseteq Before(ready, t)
               /\ running' \in Before(ready, t)
    <3>1. t \in ToSet(Tail(q))
      BY <2>1, <2>2 DEF Ready
    <3>2. Before(Tail(q), t) \subseteq Before(q, t) /\ Head(q) \in Before(q, t)
      BY ONLY <1>1, <1>4, <3>1, BeforeTail, FrontBefore
    <3> QED
      BY <1>2, <2>1, <3>2
  <2> QED
    BY <2>2 DEF InTurn
<1> QED
  BY <1>3, <1>4

\* Those who are pushed: nobody; a thread that is not ready; and who is passed
\* the mutex, which waited for it.
LEMMA FreshOnes ==
  ASSUME NimInv, at = "user"
  PROVE  /\ Fresh(<<>>)
         /\ \A t \in Tid \ Ready : Fresh(<<t>>)
         /\ \A given \in mutex_unblock_random_thread \cup NoHandOver : Fresh(given.woken)
<1>1. mutexBlocked \subseteq Tid /\ Ready \cap mutexBlocked = {}
  BY Now, Typed DEF Ready
<1>2. Fresh(<<>>)
  BY DEF Fresh, ToSet
<1>3. ASSUME NEW t \in Tid \ Ready
      PROVE  Fresh(<<t>>)
  <2>1. <<t>> \in Seq(Tid) /\ ToSet(<<t>>) = {t}
    BY DEF ToSet
  <2> QED
    BY <2>1 DEF Fresh
<1>4. ASSUME NEW given \in mutex_unblock_random_thread
      PROVE  Fresh(given.woken)
  <2>1. given.woken = <<>> \/ \E h \in mutexBlocked : given.woken = Woken(h)
    BY Passed
  <2>2. \A h \in mutexBlocked : Woken(h) \in {<<>>, <<h>>}
    BY DEF Woken
  <2> QED
    BY <1>1, <1>2, <1>3, <2>1, <2>2
<1> QED
  BY <1>2, <1>3, <1>4 DEF NoHandOver

\* Every call and every tick is in turn.
LEMMA NextInTurn ==
  ASSUME NimInv, [Next]_vars
  PROVE  InTurn
<1>1. ASSUME at = "user"
      PROVE  /\ TypeOK /\ ready \in Seq(Tid) /\ ready \o <<>> = ready
             /\ running \in Tid \ Ready
             /\ Ready \cap blocked = {}
             /\ Fresh(<<>>)
             /\ \A t \in Tid \ Ready : Fresh(<<t>>)
             /\ \A given \in mutex_unblock_random_thread \cup NoHandOver : Fresh(given.woken)
  <2>1. TypeOK /\ running \notin Ready /\ Ready \cap blocked = {}
    BY <1>1, Now DEF Ready
  <2> QED
    BY <1>1, <2>1, FreshOnes, Typed, ConcatEmptySeq
<1>2. CASE alarmSigHandler
  <2>1. at = "user" /\ switchThread(Requeued, "alarmSigHandler")
    BY <1>2 DEF alarmSigHandler
  <2>2. Requeued = ready \o <<running>>
    BY <1>1, <2>1, AppendIsConcat DEF Requeued
  <2> QED
    BY <1>1, <2>1, <2>2, SwitchInTurn
<1>3. ASSUME NEW tid \in Tid, uthread_block(tid)
      PROVE  InTurn
  <2>1. at = "user"
    BY <1>3 DEF uthread_block
  <2>2. CASE UNCHANGED <<threads, context>>
    BY <2>2, FrameInTurn DEF threads, context
  <2>3. CASE switchThread(ready, "uthread_block")
    BY <1>1, <2>1, <2>3, SwitchInTurn
  <2>4. CASE ready' = RemoveFirst(ready, tid) /\ UNCHANGED context
    <3> DEFINE late == <<>>
    <3>1. TypeOK /\ Fresh(late) /\ ready' = RemoveFirst(ready \o late, tid) /\ UNCHANGED running
      BY <1>1, <2>1, <2>4 DEF context
    <3> HIDE DEF late
    <3>2. ready' \in {ready \o late, RemoveFirst(ready \o late, tid)}
      BY <3>1
    <3> QED
      BY ONLY <3>1, <3>2, PushInTurn
  <2> QED
    BY <1>3, <2>2, <2>3, <2>4 DEF uthread_block
<1>4. CASE uthread_spawn
  <2>1. at = "user"
    BY <1>4 DEF uthread_spawn
  <2>2. CASE UNCHANGED <<threads, running>>
    BY <2>2, FrameInTurn DEF threads
  <2>3. ASSUME NEW id \in Tid \ allThreads, ready' = Append(ready, id), UNCHANGED running
        PROVE  InTurn
    <3>1. id \notin Ready
      BY <2>1, <2>3, Now DEF Ready
    <3>2. ready' = ready \o <<id>>
      BY <1>1, <2>1, <2>3, AppendIsConcat
    <3> QED
      BY <1>1, <2>1, <2>3, <3>1, <3>2, PushInTurn
  <2> QED
    BY <1>4, <2>2, <2>3 DEF uthread_spawn, IsFirstFree, context
<1>5. ASSUME NEW tid \in Tid, uthread_terminate(tid)
      PROVE  InTurn
  <2>1. at = "user"
    BY <1>5 DEF uthread_terminate
  <2>2. CASE UNCHANGED <<threads, running>>
    BY <2>2, FrameInTurn DEF threads
  <2>3. ASSUME NEW given \in HandOver(tid),
               \/ switchThread(ready \o given.woken, "uthread_terminate")
               \/ ready' = RemoveFirst(ready \o given.woken, tid) /\ UNCHANGED running
        PROVE  InTurn
    <3>1. TypeOK /\ Fresh(given.woken)
      BY <1>1, <2>1 DEF HandOver
    <3>2. CASE switchThread(ready \o given.woken, "uthread_terminate")
      BY ONLY <3>1, <3>2, SwitchInTurn
    <3>3. CASE ready' = RemoveFirst(ready \o given.woken, tid) /\ UNCHANGED running
      BY ONLY <3>1, <3>3, PushInTurn
    <3> QED
      BY <2>3, <3>2, <3>3
  <2> QED
    BY <1>5, <2>2, <2>3 DEF uthread_terminate, context
<1>6. ASSUME NEW tid \in Tid, uthread_resume(tid)
      PROVE  InTurn
  <2>1. at = "user" /\ ready' = Resumed(tid) /\ UNCHANGED running
    BY <1>6 DEF uthread_resume, context
  <2>2. CASE Resumed(tid) = ready
    BY <2>1, <2>2, FrameInTurn
  <2>3. CASE tid \in blocked /\ Resumed(tid) = Append(ready, tid)
    <3>1. ready' = ready \o <<tid>>
      BY <1>1, <2>1, <2>3, AppendIsConcat
    <3>2. Fresh(<<tid>>)
      BY <1>1, <2>1, <2>3
    <3> QED
      BY <1>1, <2>1, <3>1, <3>2, PushInTurn
  <2> QED
    BY <2>2, <2>3 DEF Resumed
<1>7. CASE uthread_mutex_lock
  <2>1. at = "user"
    BY <1>7 DEF uthread_mutex_lock
  <2>2. CASE UNCHANGED <<threads, context>>
    BY <2>2, FrameInTurn DEF threads, context
  <2>3. CASE switchThread(ready, "uthread_mutex_lock")
    BY <1>1, <2>1, <2>3, SwitchInTurn
  <2> QED
    BY <1>7, <2>2, <2>3 DEF uthread_mutex_lock
<1>8. CASE uthread_mutex_unlock
  <2>1. at = "user" /\ UNCHANGED running
    BY <1>8 DEF uthread_mutex_unlock, context
  <2>2. CASE UNCHANGED threads
    BY <2>1, <2>2, FrameInTurn DEF threads
  <2>3. ASSUME NEW given \in mutex_unblock_random_thread, ready' = ready \o given.woken
        PROVE  InTurn
    <3>1. TypeOK /\ Fresh(given.woken)
      BY <1>1, <2>1
    <3> QED
      BY ONLY <2>1, <2>3, <3>1, PushInTurn
  <2> QED
    BY <1>8, <2>2, <2>3 DEF uthread_mutex_unlock
<1>9. CASE Read \/ UNCHANGED vars
  BY <1>9, FrameInTurn DEF Read, vars, threads, context
<1> QED
  BY <1>2, <1>3, <1>4, <1>5, <1>6, <1>7, <1>8, <1>9 DEF Next, Done

\* The ready queue is round robin, for every number of threads: a thread that is
\* ready is overtaken by nobody, also not by one that is passed the mutex, and
\* only those in front of it run before it does.
THEOREM NimRoundRobin == Spec => NoOvertaking
<1> DEFINE A == \A t \in Ready : t \in Ready' =>
                  /\ Ahead(t)' \subseteq Ahead(t)
                  /\ running' # running => running' \in Ahead(t)
<1>1. NimInv /\ [Next]_vars => [A]_vars
  <2>1. NimInv /\ [Next]_vars => InTurn
    BY NextInTurn
  <2>2. InTurn => A
    BY DEF InTurn, Before, Ahead
  <2> QED
    BY <2>1, <2>2
<1>2. NoOvertaking <=> [][A]_vars
  BY DEF NoOvertaking
<1> HIDE DEF A
<1> QED
  BY <1>1, <1>2, NimInvariant, PTL DEF Spec

=============================================================================
