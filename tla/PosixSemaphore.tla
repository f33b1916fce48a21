----------------------------- MODULE PosixSemaphore -----------------------------
(***************************************************************************)
(* The POSIX semaphores of the guest (second half of kernel/semaphore.cpp):*)
(* one sem_t in guest memory and the object that g_posix_sems has for it.  *)
(* A step is what a call does from taking m_mutex to giving it up.  A call *)
(* without a timeout sleeps for SIGNAL_APC_POLL_MICROS at a time; one with *)
(* a timeout sleeps for all that is left of it, and depends on Post.  The  *)
(* guest makes and destroys the semaphore when no call is in it.           *)
(***************************************************************************)
EXTENDS Integers, FiniteSets

CONSTANTS
    SemThreads,   \* guest threads
    MaxValue,  \* POSIX_SEM_VALUE_MAX, bounded
    MaxPosts   \* bound: calls of Post in the life of one object

ASSUME SemAssumption == IsFiniteSet(SemThreads) /\ MaxValue \in Nat

VARIABLES
    object,    \* the object: m_count and m_waiters, and whether there is one
    guest,     \* what the guest finds in its sem_t
    posix,     \* the call of each thread
    posts      \* calls of Post so far

posixVars == <<object, guest, posix, posts>>

NoObject == [alive |-> FALSE, count |-> 0, waiters |-> 0]
\* A call is out, it sleeps, or it dispatches signals; has Signal chosen it; is its time over?
SemCall(step, timed, late) == [step |-> step, timed |-> timed, late |-> late, notified |-> FALSE]
NotWaiting == SemCall("Out", FALSE, FALSE)
SemAt(t, step) == posix[t].step = step
InWait == {t \in SemThreads : ~ SemAt(t, "Out")}

\* What SyncGuest writes: magic, count and has_waiters.
SyncGuest(sem) == [magic |-> sem.alive, count |-> sem.count, has_waiters |-> sem.waiters > 0]
SemBecomes(sem) == object' = sem /\ guest' = SyncGuest(sem)

\* Mutant: the timeout is looked at before the count.
HasUnitInTime(sem, call) == sem.count > 0 /\ ~ call.late
HasUnit(sem, call) == sem.count > 0

(***************************************************************************)
(* The loop of Wait from its condition to the sleep or the return, for a   *)
(* call that is not counted in sem.waiters.                                *)
(***************************************************************************)
SemLooks(t, sem, call) ==
    LET sleeps == ~ HasUnit(sem, call) /\ ~ call.late
    IN  /\ SemBecomes(IF HasUnit(sem, call) THEN [sem EXCEPT !.count = @ - 1]
                   ELSE IF sleeps THEN [sem EXCEPT !.waiters = @ + 1] ELSE sem)
        /\ posix' = [posix EXCEPT ![t] =
              IF sleeps THEN [call EXCEPT !.step = "Sleeps", !.notified = FALSE] ELSE NotWaiting]

\* sem_wait, sem_timedwait and sem_reltimedwait_np; a timeout of zero is over at once.
SemWait(t) ==
    /\ object.alive /\ SemAt(t, "Out")
    /\ \E timed, late \in BOOLEAN : (late => timed) /\ SemLooks(t, object, SemCall("Out", timed, late))
    /\ UNCHANGED posts

SemDeadlinePasses(t) ==
    /\ posix[t].timed /\ ~ posix[t].late
    /\ posix' = [posix EXCEPT ![t].late = TRUE]
    /\ UNCHANGED <<object, guest, posts>>

\* WaitFor ends, and the mutex is given up for the signals.
SleepEnds(t) ==
    /\ SemAt(t, "Sleeps")
    /\ posix[t].notified \/ posix[t].late \/ ~ posix[t].timed
    /\ posix' = [posix EXCEPT ![t].step = "Polls"]
    /\ UNCHANGED <<object, guest, posts>>

SemLooksAgain(t) ==
    /\ SemAt(t, "Polls")
    /\ SemLooks(t, [object EXCEPT !.waiters = @ - 1], posix[t])
    /\ UNCHANGED posts

\* sem_trywait; an EAGAIN changes nothing.
TryWait(t) ==
    /\ SemAt(t, "Out") /\ object.count > 0
    /\ SemBecomes([object EXCEPT !.count = @ - 1])
    /\ UNCHANGED <<posix, posts>>

\* notify_one: one of those that sleep, if there is any; an EOVERFLOW changes nothing.
Unnotified == {t \in SemThreads : SemAt(t, "Sleeps") /\ ~ posix[t].notified}
Post(t) ==
    /\ object.alive /\ SemAt(t, "Out") /\ posts < MaxPosts
    /\ object.count # MaxValue
    /\ SemBecomes([object EXCEPT !.count = @ + 1])
    /\ IF Unnotified = {} THEN UNCHANGED posix
       ELSE \E u \in Unnotified : posix' = [posix EXCEPT ![u].notified = TRUE]
    /\ posts' = posts + 1

\* An object that is there already is replaced.
SemInit ==
    /\ InWait = {}
    /\ \E value \in 0 .. MaxValue : SemBecomes([alive |-> TRUE, count |-> value, waiters |-> 0])
    /\ posts' = 0
    /\ UNCHANGED posix

SemDestroy ==
    /\ object.alive /\ InWait = {}
    /\ SemBecomes(NoObject)
    /\ UNCHANGED <<posix, posts>>

PosixInit ==
    /\ object = NoObject /\ guest = SyncGuest(NoObject)
    /\ posix = [t \in SemThreads |-> NotWaiting]
    /\ posts = 0

WaitGoesOn(t) == SleepEnds(t) \/ SemLooksAgain(t)

PosixNext ==
    \/ \E t \in SemThreads : SemWait(t) \/ TryWait(t) \/ Post(t) \/ WaitGoesOn(t) \/ SemDeadlinePasses(t)
    \/ SemInit \/ SemDestroy

PosixSpec == PosixInit /\ [][PosixNext]_posixVars

-----------------------------------------------------------------------------
PosixTypeOK ==
    /\ object \in [alive : BOOLEAN, count : Nat, waiters : Nat]
    /\ posix \in [SemThreads -> [step : {"Out", "Sleeps", "Polls"}, timed : BOOLEAN,
                              late : BOOLEAN, notified : BOOLEAN]]
    /\ posts \in Nat

\* The guest reads the object's state in its sem_t whenever the mutex is free.
GuestSeesObject ==
    /\ guest = SyncGuest(object)
    /\ object.waiters = Cardinality(InWait)

(***************************************************************************)
(* No unit lies beside a sleeper that nobody tells of it: while a call is  *)
(* asleep without a notification, as many others are awake as there are    *)
(* units.  Post tells one call only, whose timeout may be over, which may  *)
(* dispatch signals first, and whose unit a TryWait may take meanwhile.    *)
(***************************************************************************)
UnitsFindWaiters ==
    Unnotified # {} => object.count <= Cardinality(InWait \ Unnotified)

PosixSemConsistent == PosixTypeOK /\ GuestSeesObject /\ UnitsFindWaiters

\* A call with a deadline, or with a unit that nobody takes, is to come back.
WaitComesBack(t) == ~ SemAt(t, "Out") /\ (posix[t].timed \/ object.count > 0)
================================================================================
