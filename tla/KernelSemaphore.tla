---------------------------- MODULE KernelSemaphore ----------------------------
(***************************************************************************)
(* One counting semaphore of the guest kernel: KernelSemaPrivate of        *)
(* src/src/kernel/semaphore.cpp.                                           *)
(*                                                                         *)
(* Every method runs under m_mutex.  A method is one action, except that   *)
(* the loop of WakeWaiters is one step per iteration: `scan' is the loop   *)
(* position, and scan # 0 says that a Signal holds m_mutex, so nothing     *)
(* interleaves with it.  A Wait that blocks gives m_mutex up inside        *)
(* CondVar::WaitFor and again around the dispatch of pending guest         *)
(* signals; it wakes by notification, by its timeout, or every             *)
(* SIGNAL_APC_POLL_MICROS, and only then looks at its own record.          *)
(*                                                                         *)
(* A guest signal handler that runs during the dispatch may call back into *)
(* the semaphore, so one thread can have several waits in flight.  The     *)
(* unit of the model is therefore a wait call (one WaitingThread record on *)
(* some thread's stack), not a thread.  A call that is refused (EINVAL,    *)
(* EBUSY, EACCES: bad counts, a poll that finds too few units, a deleted   *)
(* semaphore) returns without touching the state and has no action.        *)
(***************************************************************************)
EXTENDS Integers, Sequences, SequencesExt

CONSTANTS
    Calls,         \* the wait calls that can be in flight
    Priority,      \* Calls -> Int: priority of the calling thread, low first
    InitCount,
    MaxCount,
    NeedCounts,    \* bound: the counts guests ask for, legal and illegal
    SignalCounts,  \* bound: the counts guests signal, negative ones too
    CancelCounts,  \* bound: the counts guests cancel with (< 0 resets)
    MinCount       \* bound: INT_MIN, below which a sum of counts overflows

\* KernelCreateSema refuses everything else with EINVAL.
ValidCreate(init, max) == init >= 0 /\ max > 0 /\ init <= max

ASSUME CreateAssumption ==
    /\ InitCount \in Int /\ MaxCount \in Int /\ MinCount \in Int
    /\ MinCount <= 0
    /\ ValidCreate(InitCount, MaxCount)

ASSUME GuestAssumption ==
    /\ Priority \in [Calls -> Int]
    /\ NeedCounts \subseteq Int
    /\ SignalCounts \subseteq Int
    /\ CancelCounts \subseteq Int

VARIABLES
    fifo,      \* m_fifo_order: attribute 0x01 of KernelCreateSema, never changes
    count,     \* m_count
    status,    \* m_status, and "Freed" once the destructor has returned
    waiters,   \* m_waiting_threads
    record,    \* the WaitingThread of each blocked call, and whether it is timed
    scan,      \* position of the loop of WakeWaiters, 0 outside of Signal
    arrivals   \* history: the blocked calls in the order they arrived

vars == <<fifo, count, status, waiters, record, scan, arrivals>>

--------------------------------------------------------------------------------
WaitingThread ==
    [need : Int, timed : BOOLEAN,
     result : {"TimedOut", "Ok", "Canceled", "Deleted"}, ready : BOOLEAN]

NewRecord(need, timed) ==
    [need |-> need, timed |-> timed, result |-> "TimedOut", ready |-> FALSE]

Gone == NewRecord(0, FALSE)     \* a call that is not blocked has no record

Waiting(c) == \E i \in 1..Len(waiters) : waiters[i] = c
Unlocked == scan = 0

--------------------------------------------------------------------------------
\* At the back, or before the first call of strictly lower priority.
GoesAt(c, p) ==
    IF fifo THEN p = Len(waiters) + 1
    ELSE /\ \A i \in 1..(p - 1) : Priority[waiters[i]] <= Priority[c]
         /\ p <= Len(waiters) => Priority[waiters[p]] > Priority[c]

AddWaiter(c) ==
    /\ \E p \in 1..(Len(waiters) + 1) :
          GoesAt(c, p) /\ waiters' = InsertAt(waiters, p, c)
    /\ arrivals' = Append(arrivals, c)

RemoveWaiter(c) ==
    /\ \E p \in 1..Len(waiters) :
          waiters[p] = c /\ waiters' = RemoveAt(waiters, p)
    /\ \E p \in 1..Len(arrivals) :
          arrivals[p] = c /\ arrivals' = RemoveAt(arrivals, p)

--------------------------------------------------------------------------------
Init ==
    /\ fifo \in BOOLEAN
    /\ count = InitCount
    /\ status = "Set"
    /\ waiters = <<>>
    /\ record = [c \in Calls |-> Gone]
    /\ scan = 0
    /\ arrivals = <<>>

\* Wait takes the units at once ...
WaitAtOnce(need) ==
    /\ Unlocked /\ status = "Set"
    /\ need \in 1..MaxCount
    /\ count >= need
    /\ count' = count - need
    /\ UNCHANGED <<fifo, status, waiters, record, scan, arrivals>>

\* ... or queues itself and goes to sleep.
WaitBlocks(c, need, timed) ==
    /\ Unlocked /\ status = "Set" /\ ~Waiting(c)
    /\ need \in 1..MaxCount
    /\ count < need
    /\ record' = [record EXCEPT ![c] = NewRecord(need, timed)]
    /\ AddWaiter(c)
    /\ UNCHANGED <<fifo, count, status, scan>>

\* A blocked call wakes and finds its record ready: it returns the result.
WaitReturns(c) ==
    /\ Unlocked /\ Waiting(c)
    /\ record[c].ready
    /\ RemoveWaiter(c)
    /\ record' = [record EXCEPT ![c] = Gone]
    /\ UNCHANGED <<fifo, count, status, scan>>

\* elapsed >= micros and not infinitely: a timeout may have elapsed at any time.
Elapsed(c) == record[c].timed

\* A blocked call wakes, its record is not ready, and its time is over.
WaitTimesOut(c) ==
    /\ Unlocked /\ Waiting(c)
    /\ ~record[c].ready
    /\ Elapsed(c)
    /\ RemoveWaiter(c)
    /\ record' = [record EXCEPT ![c] = Gone]
    /\ UNCHANGED <<fifo, count, status, scan>>

\* Signal checks the sum against the maximum, and not the sign of the count.
Fits(n) == count + n \in MinCount..MaxCount

\* Signal takes m_mutex, adds the units and enters WakeWaiters ...
Signal(n) ==
    /\ Unlocked /\ status = "Set"
    /\ Fits(n)
    /\ count' = count + n
    /\ scan' = 1
    /\ UNCHANGED <<fifo, status, waiters, record, arrivals>>

\* Mutant: off by one, the last unit is never given.
ServesBelowCount(c) == ~record[c].ready /\ record[c].need < count

\* ... whose loop looks at each waiter once, in list order, and serves it if
\* the units left allow it (a later, smaller waiter may still be served) ...
Serves(c) == ~record[c].ready /\ record[c].need <= count

WakeWaiter ==
    /\ scan \in 1..Len(waiters)
    /\ LET c == waiters[scan] IN
         IF Serves(c)
         THEN /\ count' = count - record[c].need
              /\ record' = [record EXCEPT ![c].result = "Ok", ![c].ready = TRUE]
         ELSE UNCHANGED <<count, record>>
    /\ scan' = scan + 1
    /\ UNCHANGED <<fifo, status, waiters, arrivals>>

\* ... and then notifies all and releases m_mutex.
SignalReturns ==
    /\ scan > Len(waiters)
    /\ scan' = 0
    /\ UNCHANGED <<fifo, count, status, waiters, record, arrivals>>

\* Mutant: results that are already there are overwritten.
ReleaseEvenReady(result) ==
    record' = [c \in Calls |->
                IF Waiting(c)
                THEN [record[c] EXCEPT !.result = result, !.ready = TRUE]
                ELSE record[c]]

\* Mutant: only the head of the list is released.
ReleaseHead(result) ==
    record' = [c \in Calls |->
                IF Waiting(c) /\ ~record[c].ready /\ c = waiters[1]
                THEN [record[c] EXCEPT !.result = result, !.ready = TRUE]
                ELSE record[c]]

\* The loops of Cancel and of the destructor: every call that is not ready yet
\* becomes ready with `result'.
ReleaseAll(result) ==
    record' = [c \in Calls |->
                IF Waiting(c) /\ ~record[c].ready
                THEN [record[c] EXCEPT !.result = result, !.ready = TRUE]
                ELSE record[c]]

Cancel(k) ==
    /\ Unlocked /\ status = "Set"
    /\ k <= MaxCount
    /\ count' = IF k < 0 THEN InitCount ELSE k
    /\ ReleaseAll("Canceled")
    /\ UNCHANGED <<fifo, status, waiters, scan, arrivals>>

\* The destructor: it marks and wakes everyone, then polls for an empty list.
DeleteStarts ==
    /\ Unlocked /\ status = "Set"
    /\ status' = "Deleted"
    /\ ReleaseAll("Deleted")
    /\ UNCHANGED <<fifo, count, waiters, scan, arrivals>>

DeleteReturns ==
    /\ Unlocked /\ status = "Deleted"
    /\ waiters = <<>>
    /\ status' = "Freed"
    /\ UNCHANGED <<fifo, count, waiters, record, scan, arrivals>>

--------------------------------------------------------------------------------
Next ==
    \/ \E need \in NeedCounts : WaitAtOnce(need)
    \/ \E c \in Calls, need \in NeedCounts, timed \in BOOLEAN : WaitBlocks(c, need, timed)
    \/ \E c \in Calls : WaitReturns(c) \/ WaitTimesOut(c)
    \/ \E n \in SignalCounts : Signal(n)
    \/ WakeWaiter
    \/ SignalReturns
    \/ \E k \in CancelCounts : Cancel(k)
    \/ DeleteStarts
    \/ DeleteReturns

Spec == Init /\ [][Next]_vars

\* A thread that holds m_mutex goes on.  A ready call wakes, because Signal,
\* Cancel and the destructor notify all, or at the latest at its next poll; the
\* destructor polls again.  Those two need m_mutex, which Signals take in
\* between, so they get strong fairness.
Fairness ==
    /\ WF_vars(WakeWaiter) /\ WF_vars(SignalReturns)
    /\ \A c \in Calls : SF_vars(WaitReturns(c))
    /\ SF_vars(DeleteReturns)

FairSpec == Spec /\ Fairness

--------------------------------------------------------------------------------
\* Type invariant: the count never exceeds the maximum (a guest that signals a
\* negative count takes it below zero), and the list holds blocked calls.
TypeOK ==
    /\ fifo \in BOOLEAN
    /\ count \in MinCount..MaxCount
    /\ status \in {"Set", "Deleted", "Freed"}
    /\ waiters \in Seq(Calls)
    /\ record \in [Calls -> WaitingThread]
    /\ scan \in 0..(Len(waiters) + 1)
    /\ arrivals \in Seq(Calls)

\* No lost wakeup: outside of a Signal, and during one for the waiters its loop
\* has passed, no unserved waiter could run with the units that are there.
\* Wait's fast path, Cancel, timeouts and partial Signals all have to keep it,
\* because only Signal ever serves a waiter.  A negative Signal only takes units
\* away, so that more calls sleep and none of them in vain.
NoSleeperCouldRun ==
    \A i \in 1..Len(waiters) :
        /\ ~record[waiters[i]].ready
        /\ scan = 0 \/ i < scan
        => record[waiters[i]].need > count

\* The two together: no wakeup is lost whatever list and count the calls have made.
SemaphoreConsistent == TypeOK /\ NoSleeperCouldRun

\* How the list and the records look to a caller.
Request == [c \in Calls |-> [need |-> record[c].need, timed |-> record[c].timed]]

Fate == [c \in Calls |-> IF ~Waiting(c) THEN "out"
                         ELSE IF record[c].ready THEN record[c].result ELSE "asking"]

Counting == INSTANCE CountingSemaphore WITH
    units <- count, line <- arrivals, request <- Request, fate <- Fate

\* The semaphore implements CountingSemaphore: a ready record is a fate that no
\* later Cancel, delete, Signal or timeout changes, units are handed out exactly
\* once, and a Signal serves nobody ahead of a call that precedes it and could run.
Implements == Counting!AbsSpec

\* The object is not freed under a caller: no blocked call outlives it, and no
\* call that is still blocked in a deleted semaphore waits for units.
FreedOnlyWhenIdle ==
    /\ status = "Freed" => \A c \in Calls : record[c] = Gone
    /\ status # "Set" => \A c \in Calls : Waiting(c) => record[c].ready

\* The destructor, which waits for every blocked call to leave, finishes.
DeleteFinishes == status = "Deleted" ~> status = "Freed"
================================================================================
