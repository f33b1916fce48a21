----------------------------- MODULE PthreadMonitor -----------------------------
(* The mutexes and condition variables of the guest (kernel/pthread.cpp): one mutex *)
(* and one condition variable used together.  Both poll: a sleeping thread looks    *)
(* again after at most SIGNAL_APC_POLL_MICROS, whether it was notified or not, so    *)
(* what wakes a waiter is not the notification but its cond_sequence, that a signal  *)
(* moves on.  The mutex's own m is held for one step at a time; cond->m is held by   *)
(* a waiter from its entry in the list until it sleeps.                              *)
EXTENDS Naturals, Sequences, SequencesExt, GuestThreads

CONSTANTS
    MaxDepth,  \* bound: how often a recursive mutex is locked
    MaxLocks   \* bound: locks and waits of all threads

VARIABLES
    recursive, \* mutex->type == 2
    owner,     \* mutex->owner
    count,     \* mutex->count
    waiters,   \* cond->waiters
    condLock,  \* the waiter that holds cond->m, or None
    thread,    \* what each thread is doing
    locks      \* locks and waits so far

monitorVars == <<recursive, owner, count, waiters, condLock, thread, locks>>
mutex == <<owner, count>>

(* A thread in guest code, in NativeMutexLock, or in a wait: it holds cond->m and is in the  *)
(* list, it sleeps, or it takes the mutex back.  moved is how far cond_sequence has moved     *)
(* since the wait began, again what *recurse has kept.                                        *)
Thread(step, timed, again) == [step |-> step, timed |-> timed, again |-> again, moved |-> 0, ready |-> FALSE]
Running == Thread("Runs", FALSE, 0)
Does(t, step) == thread[t].step = step
Becomes(t, state) == thread' = [thread EXCEPT ![t] = state]
CondFree == condLock = None
LockCounted == locks < MaxLocks /\ locks' = locks + 1

\* Mutant: a thread that gave up stays in the list.
StaysListed(t) == UNCHANGED waiters
\* A thread is in the list only once, as it waits once.
CondRemoveWaiter(t) == waiters' = RemoveFirst(waiters, t)

--------------------------------------------------------------------------------
(* The mutex.                                                                      *)

Take(t, again) == owner' = t /\ count' = again

LockMutex(t) ==
    /\ Does(t, "Runs") /\ LockCounted
    /\ \/ owner = t /\ recursive /\ count < MaxDepth /\ Take(t, count + 1) /\ UNCHANGED thread
       \/ owner = None /\ Take(t, 1) /\ UNCHANGED thread
       \/ /\ owner \notin {t, None}
          /\ \E timed \in BOOLEAN : Becomes(t, Thread("Locks", timed, 1))
          /\ UNCHANGED mutex
    /\ UNCHANGED <<recursive, waiters, condLock>>

LockSucceeds(t) ==
    /\ Does(t, "Locks") \/ Does(t, "Relocks")
    /\ owner = None
    /\ Take(t, thread[t].again)
    /\ Becomes(t, Running)
    /\ UNCHANGED <<recursive, waiters, condLock, locks>>

LockTimesOut(t) ==
    /\ Does(t, "Locks") /\ thread[t].timed /\ owner # None
    /\ Becomes(t, Running)
    /\ UNCHANGED <<recursive, mutex, waiters, condLock, locks>>

UnlockMutex(t) ==
    /\ Does(t, "Runs") /\ owner = t
    /\ IF recursive /\ count > 1 THEN Take(t, count - 1) ELSE Take(None, 0)
    /\ UNCHANGED <<recursive, waiters, condLock, thread, locks>>

--------------------------------------------------------------------------------
(* The condition variable.                                                         *)

CondWait(t) ==
    /\ Does(t, "Runs") /\ owner = t /\ CondFree /\ LockCounted
    /\ condLock' = t
    /\ waiters' = Append(waiters, t)
    /\ \E timed \in BOOLEAN : Becomes(t, Thread("Lists", timed, 0))
    /\ UNCHANGED <<recursive, mutex>>

(* The mutex is given up however often it is held, and then cond->m by the sleep.   *)
CondSleeps(t) ==
    /\ Does(t, "Lists")
    /\ Becomes(t, [thread[t] EXCEPT !.step = "Sleeps", !.again = count])
    /\ Take(None, 0)
    /\ condLock' = None
    /\ UNCHANGED <<recursive, waiters, locks>>

CondReady(t) == thread[t].moved # 0

(* The wait ends when the sequence has moved, or when its time is over: it looks at the *)
(* sequence once more, leaves the list and takes the mutex back.                         *)
CondReturns(t) ==
    /\ Does(t, "Sleeps") /\ CondFree
    /\ CondReady(t) \/ thread[t].timed
    /\ CondRemoveWaiter(t)
    /\ Becomes(t, [thread[t] EXCEPT !.step = "Relocks", !.ready = CondReady(t)])
    /\ UNCHANGED <<recursive, mutex, condLock, locks>>

(* What CondWakeWaiter, and the loop of PthreadCondBroadcast, do to those they let go. *)
CondNotify(S) ==
    thread' = [t \in Threads |-> IF t \in S THEN [thread[t] EXCEPT !.moved = @ + 1] ELSE thread[t]]
CondWakeWaiter(t) == waiters' = RemoveFirst(waiters, t) /\ CondNotify({t})

CondSignal(t) ==
    /\ Does(t, "Runs") /\ CondFree
    /\ waiters # <<>> /\ CondWakeWaiter(Head(waiters))
    /\ UNCHANGED <<recursive, mutex, condLock, locks>>

CondSignalto(t) ==
    /\ Does(t, "Runs") /\ CondFree
    /\ \E u \in ToSet(waiters) : CondWakeWaiter(u)
    /\ UNCHANGED <<recursive, mutex, condLock, locks>>

CondBroadcast(t) ==
    /\ Does(t, "Runs") /\ CondFree
    /\ waiters # <<>> /\ waiters' = <<>> /\ CondNotify(ToSet(waiters))
    /\ UNCHANGED <<recursive, mutex, condLock, locks>>

--------------------------------------------------------------------------------
MonitorInit ==
    /\ recursive \in BOOLEAN
    /\ owner = None /\ count = 0
    /\ waiters = <<>> /\ condLock = None
    /\ thread = [t \in Threads |-> Running]
    /\ locks = 0

MonitorNext ==
    \E t \in Threads :
        \/ LockMutex(t) \/ LockSucceeds(t) \/ LockTimesOut(t) \/ UnlockMutex(t)
        \/ CondWait(t) \/ CondSleeps(t) \/ CondReturns(t)
        \/ CondSignal(t) \/ CondSignalto(t) \/ CondBroadcast(t)

(* Threads inside a call go on, and one that is ready looks again at its next poll; the lock *)
(* may be taken by others in between.  A thread that holds the mutex gives it up some time.  *)
MonitorFinishes(t) == CondReturns(t) \/ LockSucceeds(t)
MonitorGoesOn(t) == CondSleeps(t) \/ UnlockMutex(t)

--------------------------------------------------------------------------------
(* A wait is visible from the moment it has given the mutex up, and over when the sequence    *)
(* has moved or the thread has left the list.  A thread on its way into the wait holds cond->m   *)
(* and is the last of the list.                                                                 *)
Listing(t) == Does(t, "Lists")
PlaceOf(t) ==
    LET at == CASE Does(t, "Runs") \/ Listing(t) -> "Runs"
                [] Does(t, "Locks") -> "Wants"
                [] Does(t, "Sleeps") -> IF CondReady(t) THEN "Signaled" ELSE "Waits"
                [] Does(t, "Relocks") -> IF thread[t].ready THEN "Signaled" ELSE "TimedOut"
    IN [at |-> at, again |-> thread[t].again]

Abstract == INSTANCE Monitor WITH
    holder <- owner, depth <- count,
    line <- IF CondFree THEN waiters ELSE Front(waiters),
    place <- [t \in Threads |-> PlaceOf(t)]

(* The mutex and the condition variable are a monitor: no signal falls between the moment a     *)
(* thread gives the mutex up and the moment it waits, none is spent on a thread that has given   *)
(* up, a wait reports a timeout only if no signal was spent on it, and it comes back holding the *)
(* mutex as often as before.                                                                     *)
MonitorImplements == Abstract!AbsSpec

(* A thread that waits for the mutex, or that a signal has chosen, is to come back.             *)
MonitorComesBack(t) ==
    \/ Does(t, "Locks") \/ Does(t, "Relocks")
    \/ Does(t, "Sleeps") /\ CondReady(t)
================================================================================
