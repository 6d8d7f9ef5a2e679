------------------------------ MODULE SpinLock ------------------------------
(***************************************************************************)
(* spinlock.h, the lock under the task queue of the spinlock pool, in its  *)
(* builds with atomics: an int exchanged with __sync_lock_test_and_set     *)
(* ("flag"), and an atomic_int that is exchanged and, while it is taken,   *)
(* only looked at ("atomic").  Each access to the word is a step.  With    *)
(* USE_PTHREAD_LOCK the functions are those of a pthread mutex.            *)
(***************************************************************************)
EXTENDS Integers

CONSTANT LockUsers

VARIABLES build,      \* which of the two was compiled
          word,       \* lock->lock
          lockPc      \* lockPc[t]: "out", "lock", "spin", "try", "retry", "in"

lockVars == <<build, word, lockPc>>

LockType == /\ build \in {"flag", "atomic"} /\ word \in {0, 1}
            /\ lockPc \in [LockUsers -> {"out", "lock", "spin", "try", "retry", "in"}]

LockInit == build \in {"flag", "atomic"} /\ word = 0 /\ lockPc = [t \in LockUsers |-> "out"]

Moves(t, a, b) == lockPc[t] = a /\ lockPc' = [lockPc EXCEPT ![t] = b]
Calls(t) == /\ Moves(t, "out", "lock") \/ Moves(t, "out", "try")
            /\ UNCHANGED <<build, word>>

(* spinlock_lock: exchange; if it was taken, go round (flag) or look until *)
(* it is not (atomic).                                                     *)
ExchangeLate(t) ==                                               \* mutant
    /\ build' = build
    /\ \/ word = 0 /\ word' = word /\ Moves(t, "lock", "in")
       \/ word = 1 /\ word' = 1 /\ Moves(t, "lock", IF build = "atomic" THEN "spin" ELSE "lock")
Exchange(t) ==
    /\ word' = 1 /\ build' = build
    /\ \/ word = 0 /\ Moves(t, "lock", "in")
       \/ word = 1 /\ Moves(t, "lock", IF build = "atomic" THEN "spin" ELSE "lock")
Look(t) ==
    /\ Moves(t, "spin", IF word = 0 THEN "lock" ELSE "spin")
    /\ UNCHANGED <<build, word>>

(* spinlock_trylock: the atomic build looks first. *)
TryLook(t) ==
    /\ build = "atomic" /\ Moves(t, "try", IF word = 0 THEN "retry" ELSE "out")
    /\ UNCHANGED <<build, word>>
TryExchange(t) ==
    /\ \/ build = "flag" /\ Moves(t, "try", IF word = 0 THEN "in" ELSE "out")
       \/ build = "atomic" /\ Moves(t, "retry", IF word = 0 THEN "in" ELSE "out")
    /\ word' = 1 /\ build' = build
Unlock(t) == Moves(t, "in", "out") /\ word' = 0 /\ build' = build

LockStep(t) == Calls(t) \/ Exchange(t) \/ Look(t) \/ TryLook(t) \/ TryExchange(t) \/ Unlock(t)
LockNext == \E t \in LockUsers : LockStep(t)
LockSpec == LockInit /\ [][LockNext]_lockVars

-----------------------------------------------------------------------------
(* Two threads are never between lock and unlock at once, and the word is  *)
(* 0 whenever nobody is, so that a lock that was left can be taken again:  *)
(* although a trylock that fails has written the word, and a thread that   *)
(* saw 0 writes it only later.                                             *)
SpinExclusive ==
    /\ \A t, u \in LockUsers : lockPc[t] = "in" /\ lockPc[u] = "in" => t = u
    /\ (word = 1) <=> \E t \in LockUsers : lockPc[t] = "in"
=============================================================================
