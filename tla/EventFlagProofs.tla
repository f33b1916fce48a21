---------------------------- MODULE EventFlagProofs ----------------------------
(***************************************************************************)
(* Theorems about the event flag, for every finite set of calls, any bits  *)
(* and either attribute; then the pthread mutex and condition variable     *)
(* implement Monitor.                                                      *)
(***************************************************************************)
EXTENDS EventFlag, PthreadMonitor, SequenceLemmas, FiniteSetTheorems, TLAPS

\* The safety properties are inductive together: Cancel and the destructor are
\* right because the count is, and the count is right because calls are counted
\* exactly while they are inside.
IInv ==
    /\ TypeOK
    /\ CountsWaiters
    /\ NoSatisfiedSleeper
    /\ CanceledAllLeave
    /\ FreedOnlyWhenIdle

--------------------------------------------------------------------------------
LEMMA InsideFinite ==
    /\ IsFiniteSet(Inside) /\ Cardinality(Inside) \in Nat
    /\ Cardinality(Inside) = 0 <=> Inside = {}
<1>1. Inside \subseteq Calls
  BY DEF Inside
<1>2. IsFiniteSet(Inside)
  BY <1>1, EventFlagAssumption, FS_Subset
<1>. QED  BY <1>2, FS_CardinalityType, FS_EmptySet

\* Whoever is notified stays inside.
LEMMA NotifyAllEffect ==
    ASSUME TypeOK, NotifyAll
    PROVE  /\ phase' \in [Calls -> {"out", "asleep", "woken"}]
           /\ Inside' = Inside
           /\ \A c \in Calls : phase'[c] # "asleep"
<1>1. \A c \in Calls : phase'[c] = IF phase[c] = "asleep" THEN "woken" ELSE phase[c]
  BY DEF NotifyAll
<1>2. phase' \in [Calls -> {"out", "asleep", "woken"}]
  BY DEF NotifyAll, TypeOK
<1>. QED  BY <1>1, <1>2 DEF Inside

\* Taking bits away satisfies nobody.
LEMMA ConsumeEffect ==
    ASSUME NEW w \in WaitShape, TypeOK, Consume(w)
    PROVE  bits' \subseteq bits
<1>1. w.clear \in {"None", "All", "Bits"}
  BY DEF WaitShape
<1>. QED  BY <1>1 DEF Consume

LEMMA FewerBitsSatisfyLess ==
    ASSUME bits' \subseteq bits, NEW w \in WaitShape, ~Satisfied(w)
    PROVE  ~(\/ w.mode = "And" /\ w.bits \subseteq bits'
             \/ w.mode = "Or" /\ w.bits \cap bits' # {})
  BY DEF Satisfied

--------------------------------------------------------------------------------
LEMMA InitIInv == Init => IInv
<1> SUFFICES ASSUME Init PROVE IInv
  OBVIOUS
<1>1. Inside = {}
  BY DEF Init, Inside
<1>2. Cardinality(Inside) = 0
  BY <1>1, FS_EmptySet
<1>3. Nothing \in WaitShape
  BY DEF Nothing, WaitShape
<1>4. TypeOK
  BY <1>1, <1>3, EventFlagAssumption DEF Init, TypeOK
<1>. QED  BY <1>1, <1>2, <1>4
          DEF Init, IInv, CountsWaiters, NoSatisfiedSleeper, CanceledAllLeave, FreedOnlyWhenIdle

\* A call that sleeps again changes nothing that others see.
LEMMA SleepAgainKeepsIInv ==
    ASSUME NEW c \in Calls, IInv, phase[c] = "woken", ~Satisfied(wants[c]),
           phase' = [phase EXCEPT ![c] = "asleep"],
           UNCHANGED <<single, bits, status, waiting, wants, hit>>
    PROVE  IInv'
<1> USE DEF IInv
<1>1. /\ phase' \in [Calls -> {"out", "asleep", "woken"}] /\ phase'[c] = "asleep"
      /\ \A d \in Calls \ {c} : phase'[d] = phase[d]
  BY DEF TypeOK
<1>2. Inside' = Inside
  BY <1>1 DEF Inside
<1>3. TypeOK' /\ CountsWaiters' /\ CanceledAllLeave' /\ FreedOnlyWhenIdle'
  BY <1>1, <1>2 DEF TypeOK, CountsWaiters, CanceledAllLeave, FreedOnlyWhenIdle
<1>4. NoSatisfiedSleeper'
  BY <1>1 DEF NoSatisfiedSleeper, Satisfied
<1>. QED  BY <1>3, <1>4

\* A call that is inside leaves, with fewer bits or the same left behind.
LEMMA LeaveKeepsIInv ==
    ASSUME NEW c \in Calls, IInv, phase[c] = "woken", Leave(c),
           bits' \subseteq bits, UNCHANGED <<single, status>>
    PROVE  IInv'
<1> USE DEF IInv
<1>1. /\ phase' \in [Calls -> {"out", "asleep", "woken"}] /\ phase'[c] = "out"
      /\ \A d \in Calls \ {c} : phase'[d] = phase[d]
  BY DEF TypeOK, Leave
<1>2. Inside' = Inside \ {c} /\ c \in Inside
  BY <1>1 DEF Inside
<1>3. Nothing \in WaitShape
  BY DEF Nothing, WaitShape
<1>4. /\ wants' \in [Calls -> WaitShape]
      /\ \A d \in Calls \ {c} : wants'[d] = wants[d]
  BY <1>3 DEF TypeOK, Leave
<1>5. /\ Cardinality(Inside') = Cardinality(Inside) - 1
      /\ Cardinality(Inside') \in Nat
  BY <1>2, InsideFinite, FS_RemoveElement, FS_CardinalityType
<1>6. CountsWaiters' /\ waiting' \in Nat
  BY <1>5, InsideFinite DEF CountsWaiters, Leave
<1>7. TypeOK'
  BY <1>1, <1>2, <1>4, <1>6 DEF TypeOK, Leave
<1>8. NoSatisfiedSleeper'
  <2> SUFFICES ASSUME NEW d \in Calls, phase'[d] = "asleep"
               PROVE  ~Satisfied(wants[d])'
    BY DEF NoSatisfiedSleeper
  <2>1. d # c /\ phase[d] = "asleep" /\ wants'[d] = wants[d] /\ wants[d] \in WaitShape
    BY <1>1, <1>4 DEF TypeOK
  <2>2. ~Satisfied(wants[d])
    BY <2>1 DEF NoSatisfiedSleeper
  <2>. QED  BY <2>1, <2>2, FewerBitsSatisfyLess DEF Satisfied
<1>9. CanceledAllLeave' /\ FreedOnlyWhenIdle'
  BY <1>2 DEF CanceledAllLeave, FreedOnlyWhenIdle, Leave
<1>. QED  BY <1>6, <1>7, <1>8, <1>9

\* Every step preserves the inductive invariant.
LEMMA NextKeepsIInv == IInv /\ [Next]_vars => IInv'
<1> SUFFICES ASSUME IInv, [Next]_vars PROVE IInv'
  OBVIOUS
<1> USE EventFlagAssumption DEF IInv
<1>w. Waits \subseteq WaitShape /\ \A c \in Calls : wants[c] \in WaitShape
  BY DEF LegalWaits, TypeOK
<1>1. ASSUME NEW w \in Waits, WaitAtOnce(w) PROVE IInv'
  <2>1. bits' \subseteq bits /\ UNCHANGED <<single, status, waiting, phase, wants, hit>>
    BY <1>1, <1>w, ConsumeEffect DEF WaitAtOnce
  <2>2. Inside' = Inside
    BY <2>1 DEF Inside
  <2>3. TypeOK' /\ CountsWaiters' /\ CanceledAllLeave' /\ FreedOnlyWhenIdle'
    BY <2>1, <2>2 DEF TypeOK, CountsWaiters, CanceledAllLeave, FreedOnlyWhenIdle
  <2>4. NoSatisfiedSleeper'
    BY <1>w, <2>1, FewerBitsSatisfyLess DEF NoSatisfiedSleeper, Satisfied
  <2>. QED  BY <2>3, <2>4
<1>2. ASSUME NEW c \in Calls, NEW w \in Waits, WaitSleeps(c, w) PROVE IInv'
  <2>1. /\ phase' \in [Calls -> {"out", "asleep", "woken"}] /\ phase'[c] = "asleep"
        /\ \A d \in Calls \ {c} : phase'[d] = phase[d]
    BY <1>2 DEF WaitSleeps, TypeOK
  <2>2. /\ wants' \in [Calls -> WaitShape] /\ wants'[c] = w
        /\ \A d \in Calls \ {c} : wants'[d] = wants[d]
    BY <1>2, <1>w DEF WaitSleeps, TypeOK
  <2>3. Inside' = Inside \cup {c} /\ c \notin Inside
    BY <1>2, <2>1 DEF WaitSleeps, Inside
  <2>4. /\ Cardinality(Inside') = Cardinality(Inside) + 1
        /\ Cardinality(Inside) \in Nat
    BY <2>3, InsideFinite, FS_AddElement
  <2>5. CountsWaiters' /\ waiting' \in Nat
    BY <1>2, <2>4 DEF WaitSleeps, SlotFree, CountsWaiters
  <2>6. TypeOK' /\ CanceledAllLeave' /\ FreedOnlyWhenIdle'
    BY <1>2, <2>1, <2>2, <2>3, <2>5
    DEF WaitSleeps, TypeOK, CanceledAllLeave, FreedOnlyWhenIdle
  <2>7. NoSatisfiedSleeper'
    BY <1>2, <2>1, <2>2 DEF WaitSleeps, NoSatisfiedSleeper, Satisfied
  <2>. QED  BY <2>5, <2>6, <2>7
<1>3. ASSUME NEW c \in Calls, WakesAlone(c) PROVE IInv'
  <2>1. /\ phase' \in [Calls -> {"out", "asleep", "woken"}] /\ phase'[c] = "woken"
        /\ \A d \in Calls \ {c} : phase'[d] = phase[d]
        /\ UNCHANGED <<single, bits, status, waiting, wants, hit>>
    BY <1>3 DEF WakesAlone, TypeOK
  <2>2. Inside' = Inside
    BY <1>3, <2>1 DEF WakesAlone, Inside
  <2>. QED  BY <2>1, <2>2 DEF TypeOK, CountsWaiters, CanceledAllLeave, FreedOnlyWhenIdle,
                              NoSatisfiedSleeper, Satisfied
<1>4. ASSUME NEW c \in Calls, ResumeReleased(c) PROVE IInv'
  BY <1>4, LeaveKeepsIInv DEF ResumeReleased
<1>5. ASSUME NEW c \in Calls, ResumeOk(c) PROVE IInv'
  BY <1>5, <1>w, ConsumeEffect, LeaveKeepsIInv DEF ResumeOk
<1>6. ASSUME NEW c \in Calls, ResumeTimedOut(c) PROVE IInv'
  BY <1>6, LeaveKeepsIInv DEF ResumeTimedOut
<1>7. ASSUME NEW c \in Calls, ResumeSleeps(c) PROVE IInv'
  BY <1>7, SleepAgainKeepsIInv DEF ResumeSleeps
<1>8. ASSUME NEW b \in SetPatterns, Set(b) PROVE IInv'
  BY <1>8, NotifyAllEffect
  DEF Set, TypeOK, CountsWaiters, CanceledAllLeave, FreedOnlyWhenIdle, NoSatisfiedSleeper
<1>9. ASSUME NEW b \in ClearPatterns, Clear(b) PROVE IInv'
  <2>1. bits' \subseteq bits /\ UNCHANGED <<single, status, waiting, phase, wants, hit>>
    BY <1>9 DEF Clear
  <2>2. Inside' = Inside
    BY <2>1 DEF Inside
  <2>3. TypeOK' /\ CountsWaiters' /\ CanceledAllLeave' /\ FreedOnlyWhenIdle'
    BY <2>1, <2>2 DEF TypeOK, CountsWaiters, CanceledAllLeave, FreedOnlyWhenIdle
  <2>4. NoSatisfiedSleeper'
    BY <1>w, <2>1, FewerBitsSatisfyLess DEF NoSatisfiedSleeper, Satisfied
  <2>. QED  BY <2>3, <2>4
<1>10. ASSUME NEW b \in CancelPatterns, CancelStarts(b) PROVE IInv'
  BY <1>10, NotifyAllEffect
  DEF CancelStarts, TypeOK, CountsWaiters, CanceledAllLeave, FreedOnlyWhenIdle, NoSatisfiedSleeper
<1>11. ASSUME Drained, UNCHANGED <<single, bits, waiting, phase, wants, hit>>,
              status' \in {"Set", "Freed"}
       PROVE  IInv'
  <2>1. Inside = {} /\ Inside' = Inside /\ hit = {}
    BY <1>11, InsideFinite DEF Drained, CountsWaiters, Inside, TypeOK
  <2>. QED  BY <1>11, <2>1 DEF TypeOK, CountsWaiters, CanceledAllLeave, FreedOnlyWhenIdle,
                                NoSatisfiedSleeper, Satisfied
<1>12. CASE DeleteStarts
  BY <1>12, NotifyAllEffect
  DEF DeleteStarts, TypeOK, CountsWaiters, CanceledAllLeave, FreedOnlyWhenIdle, NoSatisfiedSleeper
<1>13. CASE UNCHANGED vars
  BY <1>13 DEF vars, TypeOK, CountsWaiters, CanceledAllLeave, FreedOnlyWhenIdle,
               NoSatisfiedSleeper, Satisfied, Inside
<1>. QED
  BY <1>1, <1>2, <1>3, <1>4, <1>5, <1>6, <1>7, <1>8, <1>9, <1>10, <1>11, <1>12, <1>13
  DEF Next, Arrives, Resumes, CancelReturns, DeleteReturns

--------------------------------------------------------------------------------
\* The inductive invariant holds in every reachable state.
THEOREM Invariance == Spec => []IInv
<1>. QED  BY InitIInv, NextKeepsIInv, PTL DEF Spec

\* m_waiting_threads counts the calls inside, and the single-waiter gate of Wait
\* admits one, however many calls compete.
THEOREM CountIsExact == Spec => []FlagConsistent
<1>1. IInv => FlagConsistent
  BY DEF IInv, FlagConsistent
<1>. QED  BY <1>1, Invariance, PTL

\* Set, Clear, Cancel and clearing waiters never leave a call asleep whose bits
\* are set.
THEOREM NoLostWakeup == Spec => []NoSatisfiedSleeper
<1>1. IInv => NoSatisfiedSleeper
  BY DEF IInv
<1>. QED  BY <1>1, Invariance, PTL

\* Cancel ends only when every call it canceled has left as canceled, and the
\* flag is freed only when nobody is inside.
THEOREM CancelAndDeleteComplete == Spec => [](CanceledAllLeave /\ FreedOnlyWhenIdle)
<1>1. IInv => CanceledAllLeave /\ FreedOnlyWhenIdle
  BY DEF IInv
<1>. QED  BY <1>1, Invariance, PTL

--------------------------------------------------------------------------------
(***************************************************************************)
(* The mutex and the condition variable.  A thread that has entered the    *)
(* list holds cond->m until it has given the mutex up, so that whoever can *)
(* look at the list sees both done: it is the last of a list that, without *)
(* it, is the line of Monitor.                                             *)
(***************************************************************************)
ThreadSteps == {"Runs", "Locks", "Lists", "Sleeps", "Relocks"}
ThreadStates ==
    [step : ThreadSteps, timed : BOOLEAN, again : Nat, moved : Nat, ready : BOOLEAN]

\* What the variables hold (PthreadMutexPrivate, PthreadCondPrivate, PthreadPrivate).
MonitorTypes ==
    /\ recursive \in BOOLEAN
    /\ owner \in Threads \cup {None} /\ count \in Nat
    /\ waiters \in Seq(Threads) /\ condLock \in Threads \cup {None}
    /\ thread \in [Threads -> ThreadStates]

NoneIsNoThread == None \notin Threads

\* How often the mutex is, or will be, held.
Legal(times) == times >= 1 /\ (~ recursive => times = 1)
HeldAsCounted ==
    /\ owner = None => count = 0
    /\ owner # None => Legal(count)
    /\ \A t \in Threads :
         /\ Does(t, "Runs") => thread[t] = Running
         /\ Does(t, "Lists") => thread[t].again = 0 /\ thread[t].moved = 0
         /\ thread[t].step \in {"Locks", "Sleeps", "Relocks"} => Legal(thread[t].again)

\* Who is in the list: the waits that no signal has ended.
ListHoldsWaits ==
    /\ Distinct(waiters)
    /\ \A t \in Threads : t \in ToSet(waiters) <=>
            Does(t, "Lists") \/ (Does(t, "Sleeps") /\ thread[t].moved = 0)

\* A thread on its way into its wait has cond->m and the mutex, and is the last of the list.
ListingIsLast ==
    /\ \A t \in Threads : Does(t, "Lists") <=> condLock = t
    /\ ~ CondFree => owner = condLock /\ waiters # <<>> /\ Last(waiters) = condLock

\* The inductive invariant.
MonitorInv == MonitorTypes /\ HeldAsCounted /\ ListHoldsWaits /\ ListingIsLast

-----------------------------------------------------------------------------
\* A thread that waits for nothing.
LEMMA RunningIs ==
    /\ Running \in ThreadStates /\ Running.step = "Runs" /\ Running.again = 0 /\ Running.moved = 0
    /\ Running.ready = FALSE
  BY DEF Running, Thread, ThreadStates, ThreadSteps

\* A thread in a step of its call.
LEMMA ThreadIs ==
    ASSUME NEW step \in ThreadSteps, NEW timed \in BOOLEAN, NEW again \in Nat
    PROVE  /\ Thread(step, timed, again) \in ThreadStates
           /\ Thread(step, timed, again).step = step
           /\ Thread(step, timed, again).timed = timed
           /\ Thread(step, timed, again).again = again
           /\ Thread(step, timed, again).moved = 0
           /\ Thread(step, timed, again).ready = FALSE
  BY DEF Thread, ThreadStates

\* At first nobody holds or waits for anything.
LEMMA MonitorInitInv ==
    ASSUME NoneIsNoThread, MonitorInit
    PROVE  MonitorInv
<1>1. /\ thread \in [Threads -> ThreadStates]
      /\ \A t \in Threads : thread[t] = Running /\ thread[t].step = "Runs"
  BY RunningIs DEF MonitorInit
<1>2. MonitorTypes
  BY <1>1 DEF MonitorInit, MonitorTypes
<1>3. HeldAsCounted
  BY <1>1 DEF MonitorInit, HeldAsCounted, Does
<1>4. ToSet(waiters) = {} /\ Distinct(waiters)
  BY DEF MonitorInit, ToSet, Distinct
<1>5. ListHoldsWaits
  BY <1>1, <1>4 DEF ListHoldsWaits, Does
<1>6. ListingIsLast
  BY <1>1 DEF ListingIsLast, Does, MonitorInit, CondFree, NoneIsNoThread
<1>. QED  BY <1>2, <1>3, <1>5, <1>6 DEF MonitorInv

\* A step of a thread that leaves the list and cond->m alone.
LEMMA StepBesideList ==
    ASSUME NoneIsNoThread, MonitorInv, NEW t \in Threads, NEW s \in ThreadStates,
           Becomes(t, s), UNCHANGED <<recursive, waiters, condLock>>,
           owner' \in Threads \cup {None}, count' \in Nat,
           owner' = None => count' = 0, owner' # None => Legal(count'),
           s.step \in {"Runs", "Locks", "Relocks"}, s.step = "Runs" => s = Running,
           s.step \in {"Locks", "Relocks"} => Legal(s.again),
           Does(t, "Runs") \/ Does(t, "Locks") \/ Does(t, "Relocks"),
           CondFree \/ UNCHANGED owner
    PROVE  MonitorInv'
<1>1. thread \in [Threads -> ThreadStates] /\ condLock \in Threads \cup {None}
  BY DEF MonitorInv, MonitorTypes
<1>2. thread'[t] = s /\ \A u \in Threads : u # t => thread'[u] = thread[u]
  BY <1>1 DEF Becomes
<1>3. MonitorTypes'
  BY <1>1 DEF MonitorInv, MonitorTypes, Becomes
<1>4. \A u \in Threads : Does(u, "Lists")' <=> Does(u, "Lists")
  BY <1>2 DEF Does
<1>5. \A u \in Threads : Does(u, "Sleeps")' <=> Does(u, "Sleeps")
  BY <1>2 DEF Does
<1>6. \A u \in Threads : Does(u, "Sleeps") => thread'[u] = thread[u]
  BY <1>2 DEF Does
<1>7. ListHoldsWaits'
  BY <1>4, <1>5, <1>6 DEF ListHoldsWaits, MonitorInv
<1>8. ListingIsLast'
  BY <1>4 DEF ListingIsLast, MonitorInv, CondFree
<1>9. HeldAsCounted'
  <2>1. recursive' = recursive
    OBVIOUS
  <2>2. (owner' = None => count' = 0) /\ (owner' # None => Legal(count)')
    BY <2>1 DEF Legal
  <2>3. ASSUME NEW u \in Threads, u # t
        PROVE  /\ Does(u, "Runs")' => thread'[u] = Running
               /\ Does(u, "Lists")' => thread'[u].again = 0 /\ thread'[u].moved = 0
               /\ thread'[u].step \in {"Locks", "Sleeps", "Relocks"} => Legal(thread[u].again)'
    <3>1. thread'[u] = thread[u]
      BY <1>2, <2>3
    <3>. QED  BY <2>1, <3>1 DEF Does, Legal, MonitorInv, HeldAsCounted
  <2>4. /\ Does(t, "Runs")' => thread'[t] = Running
        /\ Does(t, "Lists")' => thread'[t].again = 0 /\ thread'[t].moved = 0
        /\ thread'[t].step \in {"Locks", "Sleeps", "Relocks"} => Legal(thread[t].again)'
    BY <1>2, <2>1 DEF Does, Legal
  <2>. QED  BY <2>2, <2>3, <2>4 DEF HeldAsCounted
<1>. QED  BY <1>3, <1>7, <1>8, <1>9 DEF MonitorInv

-----------------------------------------------------------------------------
(* The state of Monitor that a state of PthreadMonitor stands for.         *)
Line == IF CondFree THEN waiters ELSE Front(waiters)
Places == [t \in Threads |-> PlaceOf(t)]

\* Where a state of a thread is.
PlaceIn(s) ==
    [at |-> IF s.step \in {"Runs", "Lists"} THEN "Runs"
            ELSE IF s.step = "Locks" THEN "Wants"
            ELSE IF s.step = "Sleeps" THEN (IF s.moved # 0 THEN "Signaled" ELSE "Waits")
            ELSE IF s.ready THEN "Signaled" ELSE "TimedOut",
     again |-> s.again]

\* Where a thread is follows from its state alone, before a step ...
LEMMA PlacesAre ==
    ASSUME MonitorTypes
    PROVE  Places = [t \in Threads |-> PlaceIn(thread[t])]
<1>1. ASSUME NEW t \in Threads  PROVE PlaceOf(t) = PlaceIn(thread[t])
  <2>1. thread[t] \in ThreadStates
    BY DEF MonitorTypes
  <2>2. thread[t].step \in ThreadSteps
    BY <2>1 DEF ThreadStates
  <2>. QED  BY <2>2 DEF PlaceOf, PlaceIn, Does, Listing, CondReady, ThreadSteps
<1>. QED  BY <1>1 DEF Places

\* ... and after it.
LEMMA PlacesAreNext ==
    ASSUME MonitorTypes'
    PROVE  Places' = [t \in Threads |-> PlaceIn(thread'[t])]
<1>1. ASSUME NEW t \in Threads  PROVE PlaceOf(t)' = PlaceIn(thread'[t])
  <2>1. thread'[t] \in ThreadStates
    BY DEF MonitorTypes
  <2>2. thread'[t].step \in ThreadSteps
    BY <2>1 DEF ThreadStates
  <2>. QED  BY <2>2 DEF PlaceOf, PlaceIn, Does, Listing, CondReady, ThreadSteps
<1>. QED  BY <1>1 DEF Places

\* A step of one thread moves only its place.
LEMMA OnePlace ==
    ASSUME MonitorTypes, MonitorTypes', NEW t \in Threads, NEW s, Becomes(t, s)
    PROVE  Places' = [Places EXCEPT ![t] = PlaceIn(s)]
  BY PlacesAre, PlacesAreNext DEF Becomes, MonitorTypes

\* A step that no thread takes moves nobody.
LEMMA NoPlace ==
    ASSUME UNCHANGED thread
    PROVE  Places' = Places
  BY DEF Places, PlaceOf, Does, Listing, CondReady

\* The place of one thread.
LEMMA PlaceAt ==
    ASSUME MonitorTypes, NEW t \in Threads
    PROVE  Places[t] = PlaceIn(thread[t])
  BY PlacesAre

\* The line is the list of waiters as long as cond->m is given to the same thread.
LEMMA LineIs ==
    ASSUME UNCHANGED <<waiters, condLock>>
    PROVE  Line' = Line
  BY DEF Line, CondFree

-----------------------------------------------------------------------------
\* The steps of Monitor, on the state that is mapped.
LEMMA AcquireAgain ==
    ASSUME NEW t \in Threads, Places[t].at = "Runs", owner # None, owner = t, owner' = t,
           count' = count + 1, Places' = Places, Line' = Line
    PROVE  Abstract!Acquire(t)
  BY DEF Abstract!Acquire, Abstract!Runs, Places, Line
\* The mutex is free,
LEMMA AcquireFree ==
    ASSUME NEW t \in Threads, Places[t].at = "Runs", owner = None, t # None, owner' = t, count' = 1,
           Places' = Places, Line' = Line
    PROVE  Abstract!Acquire(t)
  BY DEF Abstract!Acquire, Abstract!Runs, Places, Line
\* or another has it.
LEMMA AcquireLater ==
    ASSUME NEW t \in Threads, Places[t].at = "Runs", owner \notin {t, None},
           UNCHANGED <<owner, count>>,
           Places' = [Places EXCEPT ![t] = [at |-> "Wants", again |-> 1]], Line' = Line
    PROVE  Abstract!Acquire(t)
  BY DEF Abstract!Acquire, Abstract!Runs, Abstract!Place, Places, Line

\* Who came for the mutex gets it, as often as it is to have it,
LEMMA AcquiredAfter ==
    ASSUME NEW t \in Threads, Places[t].at \in {"Wants", "Signaled", "TimedOut"}, owner = None,
           owner' = t, count' = Places[t].again,
           Places' = [Places EXCEPT ![t] = [at |-> "Runs", again |-> 0]], Line' = Line
    PROVE  Abstract!Acquired(t)
  BY DEF Abstract!Acquired, Abstract!Running, Abstract!Place, Places, Line
\* or has waited for it long enough.
LEMMA GivesUp ==
    ASSUME NEW t \in Threads, Places[t].at = "Wants", UNCHANGED <<owner, count>>,
           Places' = [Places EXCEPT ![t] = [at |-> "Runs", again |-> 0]], Line' = Line
    PROVE  Abstract!GiveUp(t)
  BY DEF Abstract!GiveUp, Abstract!Running, Abstract!Place, Places, Line
\* The mutex is given up once.
LEMMA Releases ==
    ASSUME NEW t \in Threads, Places[t].at = "Runs", owner = t, count' = count - 1,
           owner' = IF count = 1 THEN None ELSE t, Places' = Places, Line' = Line
    PROVE  Abstract!Release(t)
  BY DEF Abstract!Release, Abstract!Runs, Places, Line
\* It is given up altogether, and the thread joins the line.
LEMMA Awaits ==
    ASSUME NEW t \in Threads, Places[t].at = "Runs", owner = t, owner' = None, count' = 0,
           Places' = [Places EXCEPT ![t] = [at |-> "Waits", again |-> count]],
           Line' = Append(Line, t)
    PROVE  Abstract!Wait(t)
  BY DEF Abstract!Wait, Abstract!Runs, Abstract!Place, Places, Line
\* The operators that Monitor takes from SequencesExt are those of this module.
LEMMA SameOperators ==
    ASSUME NEW s, NEW e
    PROVE  /\ Abstract!RemoveFirst(s, e) = RemoveFirst(s, e)
           /\ Abstract!ToSet(s) = ToSet(s)
<1>1. Abstract!ToSet(s) = ToSet(s)
  BY DEF ToSet, Abstract!ToSet
<1>2. ASSUME NEW i  PROVE Abstract!RemoveAt(s, i) = RemoveAt(s, i)
  BY DEF RemoveAt, Abstract!RemoveAt
<1>3. Abstract!SelectInSeq(s, LAMBDA v : v = e) = SelectInSeq(s, LAMBDA v : v = e)
  BY DEF SelectInSeq, Abstract!SelectInSeq, Min, Abstract!Min
<1>4. Abstract!RemoveFirst(s, e) = RemoveFirst(s, e)
  BY <1>2, <1>3 DEF RemoveFirst, Abstract!RemoveFirst
<1>. QED  BY <1>1, <1>4

\* A wait that ends by itself leaves the line.
LEMMA TimesOut ==
    ASSUME NEW t \in Threads, Places[t].at = "Waits", UNCHANGED <<owner, count>>,
           Places' = [Places EXCEPT ![t] = [at |-> "TimedOut", again |-> Places[t].again]],
           Line' = RemoveFirst(Line, t)
    PROVE  Abstract!TimeOut(t)
  BY SameOperators DEF Abstract!TimeOut, Abstract!Place, Places, Line
\* Those that are signaled may go.
LEMMA LetsGo ==
    ASSUME NEW S, UNCHANGED <<owner, count>>,
           Places' = [t \in Threads |->
                        IF t \in S THEN [at |-> "Signaled", again |-> Places[t].again]
                        ELSE Places[t]]
    PROVE  Abstract!LetGo(S)
  BY DEF Abstract!LetGo, Abstract!Place, Places

\* Locking takes the mutex, takes it once more, or begins to poll for it.
LEMMA LockMutexSteps ==
    ASSUME NoneIsNoThread, MonitorInv, NEW t \in Threads, LockMutex(t)
    PROVE  MonitorInv' /\ Abstract!Acquire(t)
<1>1. /\ MonitorTypes /\ thread[t] = Running /\ Does(t, "Runs")
      /\ UNCHANGED <<recursive, waiters, condLock>>
      /\ count \in Nat /\ (owner # None => Legal(count))
      /\ (CondFree \/ (owner # t /\ owner # None)) /\ t # None
  BY DEF MonitorInv, HeldAsCounted, LockMutex, MonitorTypes, ListingIsLast, Does, CondFree,
         NoneIsNoThread
<1>2. Places[t] = [at |-> "Runs", again |-> 0]
  <2>1. Places[t] = PlaceIn(thread[t])
    BY <1>1, PlaceAt
  <2>. QED  BY <1>1, <2>1, RunningIs DEF PlaceIn
<1>3. Line' = Line
  BY <1>1, LineIs
<1>4. CASE owner = t
  <2>1. owner' = t /\ count' = count + 1 /\ recursive /\ UNCHANGED thread
    BY <1>4 DEF LockMutex, Take, NoneIsNoThread
  <2>2. Becomes(t, Running)
    BY <1>1, <2>1 DEF Becomes, MonitorTypes
  <2>3. Legal(count')
    BY <1>1, <1>4, <2>1 DEF Legal, NoneIsNoThread
  <2>4. MonitorInv'
    BY <1>1, <1>4, <2>1, <2>2, <2>3, StepBesideList, RunningIs DEF NoneIsNoThread
  <2>5. Places' = Places
    BY <2>1, NoPlace
  <2>6. Abstract!Acquire(t)
    BY <1>1, <1>2, <1>3, <1>4, <2>1, <2>5, AcquireAgain
  <2>. QED  BY <2>4, <2>6
<1>5. CASE owner = None
  <2>1. owner' = t /\ count' = 1 /\ UNCHANGED thread
    BY <1>5 DEF LockMutex, Take, NoneIsNoThread
  <2>2. Becomes(t, Running)
    BY <1>1, <2>1 DEF Becomes, MonitorTypes
  <2>3. Legal(count')
    BY <2>1 DEF Legal
  <2>4. MonitorInv'
    BY <1>1, <1>5, <2>1, <2>2, <2>3, StepBesideList, RunningIs DEF NoneIsNoThread
  <2>5. Places' = Places
    BY <2>1, NoPlace
  <2>6. Abstract!Acquire(t)
    BY <1>1, <1>2, <1>3, <1>5, <2>1, <2>5, AcquireFree
  <2>. QED  BY <2>4, <2>6
<1>6. CASE owner \notin {t, None}
  <2>1. PICK timed \in BOOLEAN : Becomes(t, Thread("Locks", timed, 1))
    BY <1>6 DEF LockMutex
  <2>2. UNCHANGED <<owner, count>>
    BY <1>6 DEF LockMutex, mutex
  <2> DEFINE s == Thread("Locks", timed, 1)
  <2>3. /\ s \in ThreadStates /\ s.step = "Locks" /\ s.again = 1
    BY DEF s, Thread, ThreadStates, ThreadSteps
  <2> HIDE DEF s
  <2>4. MonitorInv'
    <3>1. owner' \in Threads \cup {None} /\ count' \in Nat /\ owner' # None /\ Legal(count')
      BY <1>1, <1>6, <2>2 DEF MonitorTypes
    <3>2. Becomes(t, s) /\ Legal(s.again)
      BY <2>1, <2>3 DEF s, Legal
    <3>. QED  BY <1>1, <2>2, <2>3, <3>1, <3>2, StepBesideList
  <2>5. Places' = [Places EXCEPT ![t] = PlaceIn(s)]
    BY <1>1, <2>1, <2>4, OnePlace DEF MonitorInv, s
  <2>6. PlaceIn(s) = [at |-> "Wants", again |-> 1]
    BY <2>3 DEF PlaceIn
  <2>7. Places' = [Places EXCEPT ![t] = [at |-> "Wants", again |-> 1]] /\ Places[t].at = "Runs"
    BY <1>2, <2>5, <2>6
  <2>8. Abstract!Acquire(t)
    BY <1>3, <1>6, <2>2, <2>7, AcquireLater
  <2>. QED  BY <2>4, <2>8
<1>. QED  BY <1>4, <1>5, <1>6

\* A poll that finds the mutex free takes it, also for a wait that comes back.
LEMMA LockSucceedsSteps ==
    ASSUME NoneIsNoThread, MonitorInv, NEW t \in Threads, LockSucceeds(t)
    PROVE  MonitorInv' /\ Abstract!Acquired(t)
<1>1. /\ MonitorTypes /\ UNCHANGED <<recursive, waiters, condLock>> /\ Becomes(t, Running)
      /\ thread[t].step \in {"Locks", "Relocks"} /\ Legal(thread[t].again)
      /\ owner = None /\ owner' = t /\ count' = thread[t].again
      /\ thread[t] \in ThreadStates /\ CondFree
  BY DEF MonitorInv, HeldAsCounted, LockSucceeds, MonitorTypes, ListingIsLast, Does, CondFree, Take
<1>2. Places[t].at \in {"Wants", "Signaled", "TimedOut"} /\ Places[t].again = thread[t].again
  <2>1. Places[t] = PlaceIn(thread[t])
    BY <1>1, PlaceAt
  <2>. QED  BY <1>1, <2>1 DEF PlaceIn
<1>3. Line' = Line
  BY <1>1, LineIs
<1>4. owner' # None /\ owner' \in Threads /\ count' \in Nat /\ Legal(count')
  BY <1>1 DEF ThreadStates, NoneIsNoThread
<1>5. Does(t, "Locks") \/ Does(t, "Relocks")
  BY <1>1 DEF Does
<1>6. MonitorInv'
  BY <1>1, <1>4, <1>5, RunningIs, StepBesideList
<1>7. PlaceIn(Running) = [at |-> "Runs", again |-> 0]
  BY RunningIs DEF PlaceIn
<1>8. Places' = [Places EXCEPT ![t] = PlaceIn(Running)]
  BY <1>1, <1>6, OnePlace DEF MonitorInv
<1>9. Places' = [Places EXCEPT ![t] = [at |-> "Runs", again |-> 0]]
  BY <1>7, <1>8
<1>10. Abstract!Acquired(t)
  BY <1>1, <1>2, <1>3, <1>9, AcquiredAfter
<1>. QED  BY <1>6, <1>10

\* A timed lock that comes to its end gives up.
LEMMA LockTimesOutSteps ==
    ASSUME NoneIsNoThread, MonitorInv, NEW t \in Threads, LockTimesOut(t)
    PROVE  MonitorInv' /\ Abstract!GiveUp(t)
<1>1. /\ MonitorTypes /\ Becomes(t, Running)
      /\ UNCHANGED <<recursive, owner, count, waiters, condLock>>
      /\ thread[t].step = "Locks" /\ Does(t, "Locks")
      /\ owner # None /\ Legal(count) /\ owner \in Threads \cup {None} /\ count \in Nat
  BY DEF MonitorInv, HeldAsCounted, LockTimesOut, MonitorTypes, Does, mutex
<1>2. Places[t].at = "Wants"
  <2>1. Places[t] = PlaceIn(thread[t])
    BY <1>1, PlaceAt
  <2>. QED  BY <1>1, <2>1 DEF PlaceIn
<1>3. Line' = Line
  BY <1>1, LineIs
<1>4. MonitorInv'
  BY <1>1, RunningIs, StepBesideList
<1>5. PlaceIn(Running) = [at |-> "Runs", again |-> 0]
  BY RunningIs DEF PlaceIn
<1>6. Places' = [Places EXCEPT ![t] = PlaceIn(Running)]
  BY <1>1, <1>4, OnePlace DEF MonitorInv
<1>7. Places' = [Places EXCEPT ![t] = [at |-> "Runs", again |-> 0]]
  BY <1>5, <1>6
<1>8. Abstract!GiveUp(t)
  BY <1>1, <1>2, <1>3, <1>7, GivesUp
<1>. QED  BY <1>4, <1>8

\* The owner unlocks once; nobody is on its way into the list then.
LEMMA UnlockMutexSteps ==
    ASSUME NoneIsNoThread, MonitorInv, NEW t \in Threads, UnlockMutex(t)
    PROVE  MonitorInv' /\ Abstract!Release(t)
<1>1. /\ MonitorTypes /\ UNCHANGED <<recursive, waiters, condLock, thread>>
      /\ thread[t] = Running /\ Does(t, "Runs") /\ thread[t].step = "Runs"
      /\ owner = t /\ count \in Nat /\ Legal(count) /\ t # None
  BY DEF MonitorInv, HeldAsCounted, UnlockMutex, MonitorTypes, Does, NoneIsNoThread
<1>2. CondFree
  BY <1>1 DEF MonitorInv, ListingIsLast, Does, CondFree, MonitorTypes
<1>3. /\ owner' = IF count = 1 THEN None ELSE t
      /\ count' = count - 1
  BY <1>1 DEF UnlockMutex, Take, Legal
<1>4. count = 1 \/ (count - 1 >= 1 /\ recursive)
  BY <1>1 DEF Legal
<1>5. /\ owner' \in Threads \cup {None} /\ count' \in Nat
      /\ owner' = None => count' = 0
      /\ owner' # None => Legal(count')
  BY <1>1, <1>3, <1>4 DEF Legal
<1>6. Becomes(t, Running)
  BY <1>1 DEF Becomes, MonitorTypes
<1>7. MonitorInv'
  BY <1>1, <1>2, <1>5, <1>6, RunningIs, StepBesideList
<1>8. Places[t].at = "Runs"
  <2>1. Places[t] = PlaceIn(thread[t])
    BY <1>1, PlaceAt
  <2>. QED  BY <1>1, <2>1 DEF PlaceIn
<1>9. Line' = Line /\ Places' = Places
  BY <1>1, LineIs, NoPlace
<1>10. Abstract!Release(t)
  BY <1>1, <1>3, <1>8, <1>9, Releases
<1>. QED  BY <1>7, <1>10

-----------------------------------------------------------------------------
\* What was there before the last was appended.
LEMMA FrontOfAppend ==
    ASSUME NEW S, NEW q \in Seq(S), NEW e \in S
    PROVE  Front(Append(q, e)) = q
  BY DEF Front
\* A sequence is its front and its last element.
LEMMA AppendToFront ==
    ASSUME NEW S, NEW q \in Seq(S), q # <<>>
    PROVE  q = Append(Front(q), Last(q))
<1>1. Len(q) \in Nat \ {0}
  OBVIOUS
<1>2. /\ Front(q) \in Seq(S) /\ Len(Front(q)) = Len(q) - 1
      /\ \A i \in 1 .. Len(q) - 1 : Front(q)[i] = q[i]
  <2>1. PICK n \in Nat : n = Len(q) - 1
    BY <1>1
  <2>2. \A i \in 1 .. n : q[i] \in S
    BY <1>1, <2>1
  <2> DEFINE f == SubSeq(q, 1, n)
  <2>3. /\ f \in Seq(S)
        /\ Len(f) = IF 1 <= n THEN n - 1 + 1 ELSE 0
        /\ \A i \in 1 .. (n - 1 + 1) : f[i] = q[1 + i - 1]
    BY <2>1, <2>2, SubSeqProperties
  <2> HIDE DEF f
  <2>4. f \in Seq(S) /\ Len(f) = n /\ \A i \in 1 .. n : f[i] = q[i]
    BY <2>1, <2>3
  <2>5. Front(q) = f
    BY <2>1 DEF Front, f
  <2>. QED  BY <2>1, <2>4, <2>5
<1>3. Last(q) \in S /\ Last(q) = q[Len(q)]
  BY <1>1 DEF Last
<1>. QED  BY <1>1, <1>2, <1>3

\* The first element is removed by its place.
LEMMA RemoveFirstPlace ==
    ASSUME NEW S, NEW q \in Seq(S), q # <<>>
    PROVE  RemoveAt(q, 1) = Tail(q)
<1>1. Len(q) \in Nat \ {0} /\ 1 \in 1 .. Len(q)
  OBVIOUS
<1>2. /\ RemoveAt(q, 1) \in Seq(S) /\ Len(RemoveAt(q, 1)) = Len(q) - 1
      /\ \A i \in 1 .. Len(q) - 1 : RemoveAt(q, 1)[i] = IF i < 1 THEN q[i] ELSE q[i + 1]
  BY <1>1, RemoveAtProperties
<1>3. /\ Tail(q) \in Seq(S) /\ Len(Tail(q)) = Len(q) - 1
      /\ \A i \in 1 .. Len(q) - 1 : Tail(q)[i] = q[i + 1]
  BY WithoutFirst
<1>. QED  BY <1>1, <1>2, <1>3, SeqEqual
\* So is it by its name.
LEMMA RemoveHead ==
    ASSUME NEW S, NEW q \in Seq(S), q # <<>>, Distinct(q)
    PROVE  RemoveFirst(q, Head(q)) = Tail(q)
<1>1. Head(q) = q[1] /\ 1 \in 1 .. Len(q)
  OBVIOUS
<1>2. RemoveFirst(q, q[1]) = RemoveAt(q, 1)
  BY <1>1, RemoveFirstAt
<1>. QED  BY <1>1, <1>2, RemoveFirstPlace

\* The thread takes its place in the list, and nothing of it is to be seen.
LEMMA CondWaitSteps ==
    ASSUME NoneIsNoThread, MonitorInv, NEW t \in Threads, CondWait(t)
    PROVE  MonitorInv' /\ UNCHANGED <<owner, count, Line, Places>>
<1>1. /\ MonitorTypes /\ HeldAsCounted /\ ListHoldsWaits /\ ListingIsLast
      /\ UNCHANGED <<recursive, owner, count>> /\ condLock' = t /\ waiters' = Append(waiters, t)
      /\ thread[t] = Running /\ thread[t].step = "Runs" /\ owner = t /\ CondFree /\ t # None
      /\ waiters \in Seq(Threads) /\ condLock = None /\ thread \in [Threads -> ThreadStates]
  BY DEF MonitorInv, HeldAsCounted, CondWait, MonitorTypes, Does, mutex, NoneIsNoThread, CondFree
<1>2. PICK timed \in BOOLEAN : Becomes(t, Thread("Lists", timed, 0))
  BY DEF CondWait
<1> DEFINE s == Thread("Lists", timed, 0)
<1>3. s \in ThreadStates /\ s.step = "Lists" /\ s.again = 0 /\ s.moved = 0
  BY DEF s, Thread, ThreadStates, ThreadSteps
<1> HIDE DEF s
<1>4. thread' = [thread EXCEPT ![t] = s]
  BY <1>2 DEF Becomes, s
<1>5. thread'[t] = s /\ \A u \in Threads : u # t => thread'[u] = thread[u]
  BY <1>1, <1>4
<1>6. /\ waiters' \in Seq(Threads) /\ Len(waiters') = Len(waiters) + 1
      /\ \A k \in 1 .. Len(waiters) : waiters'[k] = waiters[k]
      /\ waiters'[Len(waiters) + 1] = t
  BY <1>1, OneBehind
<1>7. Len(waiters) \in Nat
  BY <1>1, LenProperties
<1>8. waiters' # <<>> /\ Last(waiters') = t
  BY <1>6, <1>7 DEF Last
<1>9. MonitorTypes'
  BY <1>1, <1>3, <1>4, <1>6 DEF MonitorTypes
<1>10. HeldAsCounted'
  <2>1. ASSUME NEW u \in Threads
        PROVE  /\ Does(u, "Runs")' => thread'[u] = Running
               /\ Does(u, "Lists")' => thread'[u].again = 0 /\ thread'[u].moved = 0
               /\ thread'[u].step \in {"Locks", "Sleeps", "Relocks"} => Legal(thread[u].again)'
    <3>1. CASE u = t
      BY <1>3, <1>5, <3>1 DEF Does
    <3>2. CASE u # t
      BY <1>1, <1>5, <3>2 DEF Does, HeldAsCounted, Legal
    <3>. QED  BY <3>1, <3>2
  <2>2. Legal(count)' /\ owner' # None
    BY <1>1 DEF HeldAsCounted, Legal
  <2>. QED  BY <2>1, <2>2 DEF HeldAsCounted
<1>11. t \notin ToSet(waiters)
  BY <1>1 DEF ListHoldsWaits, Does
<1>12. ListHoldsWaits'
  <2>1. ToSet(waiters') = ToSet(waiters) \cup {t}
    BY <1>1, OneBehindElements
  <2>2. Distinct(waiters')
    BY <1>1, <1>11, OneBehindElements DEF ListHoldsWaits
  <2>. QED  BY <1>1, <1>3, <1>5, <2>1, <2>2 DEF ListHoldsWaits, Does
<1>13. ListingIsLast'
  <2>1. \A u \in Threads : ~ Does(u, "Lists")
    BY <1>1 DEF ListingIsLast, NoneIsNoThread
  <2>2. \A u \in Threads : Does(u, "Lists")' <=> u = t
    BY <1>3, <1>5, <2>1 DEF Does
  <2>. QED  BY <1>1, <1>8, <2>2 DEF ListingIsLast, CondFree
<1>14. Line' = Line
  <2>1. Line = waiters /\ Line' = Front(waiters')
    BY <1>1 DEF Line, CondFree
  <2>2. Front(waiters') = waiters
    BY <1>1, FrontOfAppend
  <2>. QED  BY <2>1, <2>2
<1>15. Places' = Places
  <2>1. Places' = [Places EXCEPT ![t] = PlaceIn(s)]
    BY <1>1, <1>2, <1>9, OnePlace DEF s
  <2>2. PlaceIn(s) = [at |-> "Runs", again |-> 0]
    BY <1>3 DEF PlaceIn
  <2>3. Places[t] = PlaceIn(thread[t])
    BY <1>1, PlaceAt
  <2>4. Places[t] = [at |-> "Runs", again |-> 0]
    BY <1>1, <2>3, RunningIs DEF PlaceIn
  <2>5. Places' = [Places EXCEPT ![t] = Places[t]]
    BY <2>1, <2>2, <2>4
  <2>6. DOMAIN Places = Threads /\ Places = [u \in Threads |-> Places[u]]
    BY DEF Places
  <2>. QED  BY <2>5, <2>6
<1>. QED  BY <1>1, <1>9, <1>10, <1>12, <1>13, <1>14, <1>15 DEF MonitorInv

\* It gives the mutex up, and is in the line.
LEMMA CondSleepsSteps ==
    ASSUME NoneIsNoThread, MonitorInv, NEW t \in Threads, CondSleeps(t)
    PROVE  MonitorInv' /\ Abstract!Wait(t)
<1> DEFINE s == [thread[t] EXCEPT !.step = "Sleeps", !.again = count]
<1>1. /\ MonitorTypes /\ HeldAsCounted /\ ListHoldsWaits /\ ListingIsLast
      /\ UNCHANGED <<recursive, waiters>> /\ condLock' = None /\ owner' = None /\ count' = 0
      /\ thread[t].step = "Lists" /\ thread[t].again = 0 /\ thread[t].moved = 0 /\ t # None
      /\ waiters \in Seq(Threads) /\ thread \in [Threads -> ThreadStates] /\ count \in Nat
      /\ Becomes(t, s)
  BY DEF MonitorInv, HeldAsCounted, CondSleeps, MonitorTypes, Does, NoneIsNoThread, Take
<1>2. condLock = t /\ ~ CondFree /\ owner = t /\ Last(waiters) = t /\ waiters # <<>>
  BY <1>1 DEF ListingIsLast, Does, CondFree
<1>3. s \in ThreadStates /\ s.step = "Sleeps" /\ s.again = count /\ s.moved = 0
  <2>1. thread[t] \in ThreadStates
    BY <1>1
  <2>. QED  BY <1>1, <2>1 DEF ThreadStates, ThreadSteps
<1> HIDE DEF s
<1>4. thread' = [thread EXCEPT ![t] = s]
  BY <1>1 DEF Becomes
<1>5. thread'[t] = s /\ \A u \in Threads : u # t => thread'[u] = thread[u]
  BY <1>1, <1>4
<1>6. MonitorTypes'
  BY <1>1, <1>3, <1>4 DEF MonitorTypes
<1>7. Legal(count)
  BY <1>1, <1>2 DEF HeldAsCounted
<1>8. HeldAsCounted'
  <2>1. ASSUME NEW u \in Threads
        PROVE  /\ Does(u, "Runs")' => thread'[u] = Running
               /\ Does(u, "Lists")' => thread'[u].again = 0 /\ thread'[u].moved = 0
               /\ thread'[u].step \in {"Locks", "Sleeps", "Relocks"} => Legal(thread[u].again)'
    <3>1. CASE u = t
      BY <1>1, <1>3, <1>5, <1>7, <3>1 DEF Does, Legal
    <3>2. CASE u # t
      BY <1>1, <1>5, <3>2 DEF Does, HeldAsCounted, Legal
    <3>. QED  BY <3>1, <3>2
  <2>. QED  BY <1>1, <2>1 DEF HeldAsCounted
<1>9. ListHoldsWaits'
  BY <1>1, <1>3, <1>5 DEF ListHoldsWaits, Does
<1>10. ListingIsLast'
  <2>1. \A u \in Threads : Does(u, "Lists") => u = t
    BY <1>1, <1>2 DEF ListingIsLast
  <2>2. \A u \in Threads : ~ Does(u, "Lists")'
    BY <1>3, <1>5, <2>1 DEF Does
  <2>. QED  BY <1>1, <2>2 DEF ListingIsLast, CondFree, NoneIsNoThread
<1>11. Line' = Append(Line, t)
  <2>1. Line = Front(waiters) /\ Line' = waiters
    BY <1>1, <1>2 DEF Line, CondFree
  <2>2. waiters = Append(Front(waiters), Last(waiters))
    BY <1>1, <1>2, AppendToFront
  <2>. QED  BY <1>2, <2>1, <2>2
<1>12. Places' = [Places EXCEPT ![t] = PlaceIn(s)]
  BY <1>1, <1>6, OnePlace
<1>13. PlaceIn(s) = [at |-> "Waits", again |-> count]
  BY <1>3 DEF PlaceIn
<1>14. Places[t] = PlaceIn(thread[t])
  BY <1>1, PlaceAt
<1>15. Places[t].at = "Runs" /\ Places' = [Places EXCEPT ![t] = [at |-> "Waits", again |-> count]]
  <2>1. PlaceIn(thread[t]).at = "Runs"
    BY <1>1 DEF PlaceIn
  <2>. QED  BY <1>12, <1>13, <1>14, <2>1
<1>16. Abstract!Wait(t)
  BY <1>1, <1>2, <1>11, <1>15, Awaits
<1>. QED  BY <1>1, <1>6, <1>8, <1>9, <1>10, <1>16 DEF MonitorInv

-----------------------------------------------------------------------------
\* A call whose sequence a signal has moved comes back as it is; another leaves the line.
LEMMA CondReturnsSteps ==
    ASSUME NoneIsNoThread, MonitorInv, NEW t \in Threads, CondReturns(t)
    PROVE  MonitorInv' /\ (Abstract!TimeOut(t) \/ UNCHANGED <<owner, count, Line, Places>>)
<1> DEFINE s == [thread[t] EXCEPT !.step = "Relocks", !.ready = CondReady(t)]
<1>1. /\ MonitorTypes /\ HeldAsCounted /\ ListHoldsWaits /\ ListingIsLast
      /\ UNCHANGED <<recursive, owner, count, condLock>> /\ waiters' = RemoveFirst(waiters, t)
      /\ thread[t].step = "Sleeps" /\ Legal(thread[t].again) /\ CondFree /\ condLock = None
      /\ waiters \in Seq(Threads) /\ thread \in [Threads -> ThreadStates]
      /\ Becomes(t, s)
  BY DEF MonitorInv, HeldAsCounted, CondReturns, CondRemoveWaiter, MonitorTypes, Does, CondFree, mutex
<1>2. thread[t] \in ThreadStates
  BY <1>1
<1>3. /\ s \in ThreadStates /\ s.step = "Relocks" /\ s.again = thread[t].again
      /\ s.moved = thread[t].moved /\ s.ready = (thread[t].moved # 0)
  BY <1>2 DEF ThreadStates, ThreadSteps, CondReady
<1> HIDE DEF s
<1>4. thread' = [thread EXCEPT ![t] = s]
  BY <1>1 DEF Becomes
<1>5. thread'[t] = s /\ \A u \in Threads : u # t => thread'[u] = thread[u]
  BY <1>1, <1>4
<1>6. /\ waiters' \in Seq(Threads) /\ Distinct(waiters') /\ ToSet(waiters') = ToSet(waiters) \ {t}
      /\ (\A p \in 1 .. Len(waiters) : waiters[p] # t) => waiters' = waiters
  <2>1. Distinct(waiters)
    BY <1>1 DEF ListHoldsWaits
  <2>2. /\ RemoveFirst(waiters, t) \in Seq(Threads) /\ Distinct(RemoveFirst(waiters, t))
        /\ ToSet(RemoveFirst(waiters, t)) = ToSet(waiters) \ {t}
        /\ (\A p \in 1 .. Len(waiters) : waiters[p] # t) => RemoveFirst(waiters, t) = waiters
    <3>1. waiters \in Seq(Threads) /\ t \in Threads
      BY <1>1
    <3>. QED  BY <2>1, <3>1, RemoveFirstProperties
  <2>. QED  BY <1>1, <2>2
<1>7. MonitorTypes'
  BY <1>1, <1>3, <1>4, <1>6 DEF MonitorTypes
<1>8. HeldAsCounted'
  <2>1. ASSUME NEW u \in Threads
        PROVE  /\ Does(u, "Runs")' => thread'[u] = Running
               /\ Does(u, "Lists")' => thread'[u].again = 0 /\ thread'[u].moved = 0
               /\ thread'[u].step \in {"Locks", "Sleeps", "Relocks"} => Legal(thread[u].again)'
    <3>1. CASE u = t
      BY <1>1, <1>3, <1>5, <3>1 DEF Does, Legal
    <3>2. CASE u # t
      BY <1>1, <1>5, <3>2 DEF Does, HeldAsCounted, Legal
    <3>. QED  BY <3>1, <3>2
  <2>. QED  BY <1>1, <2>1 DEF HeldAsCounted, Legal
<1>9. ListHoldsWaits'
  <2>1. ASSUME NEW u \in Threads
        PROVE  u \in ToSet(waiters') <=>
                 Does(u, "Lists")' \/ (Does(u, "Sleeps")' /\ thread'[u].moved = 0)
    <3>1. CASE u = t
      BY <1>3, <1>5, <1>6, <3>1 DEF Does
    <3>2. CASE u # t
      BY <1>1, <1>5, <1>6, <3>2 DEF Does, ListHoldsWaits
    <3>. QED  BY <3>1, <3>2
  <2>. QED  BY <1>6, <2>1 DEF ListHoldsWaits
<1>10. ListingIsLast'
  <2>1. \A u \in Threads : Does(u, "Lists")' <=> Does(u, "Lists")
    BY <1>1, <1>3, <1>5 DEF Does
  <2>. QED  BY <1>1, <2>1 DEF ListingIsLast, CondFree
<1>11. MonitorInv'
  BY <1>7, <1>8, <1>9, <1>10 DEF MonitorInv
<1>12. Line = waiters /\ Line' = waiters'
  BY <1>1 DEF Line, CondFree
<1>13. Places' = [Places EXCEPT ![t] = PlaceIn(s)]
  BY <1>1, <1>7, OnePlace
<1>14. Places[t] = PlaceIn(thread[t])
  BY <1>1, PlaceAt
<1>15. CASE thread[t].moved = 0
  <2>1. PlaceIn(thread[t]).at = "Waits" /\ PlaceIn(thread[t]).again = thread[t].again
    BY <1>1, <1>15 DEF PlaceIn
  <2>2. PlaceIn(s) = [at |-> "TimedOut", again |-> thread[t].again]
    BY <1>3, <1>15 DEF PlaceIn
  <2>3. /\ Places[t].at = "Waits"
        /\ Places' = [Places EXCEPT ![t] = [at |-> "TimedOut", again |-> Places[t].again]]
    BY <1>13, <1>14, <2>1, <2>2
  <2>4. Abstract!TimeOut(t)
    BY <1>1, <1>12, <2>3, TimesOut
  <2>. QED  BY <1>11, <2>4
<1>16. CASE thread[t].moved # 0
  <2>1. t \notin ToSet(waiters)
    BY <1>1, <1>16 DEF ListHoldsWaits, Does
  <2>2. \A p \in 1 .. Len(waiters) : waiters[p] # t
    BY <1>1, <2>1, LenProperties DEF ToSet
  <2>3. waiters' = waiters
    BY <1>6, <2>2
  <2>4. PlaceIn(s) = PlaceIn(thread[t])
    <3>1. PlaceIn(s) = [at |-> "Signaled", again |-> thread[t].again]
      BY <1>3, <1>16 DEF PlaceIn
    <3>2. PlaceIn(thread[t]) = [at |-> "Signaled", again |-> thread[t].again]
      BY <1>1, <1>16 DEF PlaceIn
    <3>. QED  BY <3>1, <3>2
  <2>5. Places' = [Places EXCEPT ![t] = Places[t]]
    BY <1>13, <1>14, <2>4
  <2>6. DOMAIN Places = Threads /\ Places = [u \in Threads |-> Places[u]]
    BY DEF Places
  <2>7. Places' = Places
    BY <2>5, <2>6
  <2>. QED  BY <1>1, <1>11, <1>12, <2>3, <2>7
<1>. QED  BY <1>15, <1>16

\* Every signal lets those go that it takes off the list.
LEMMA WakeSteps ==
    ASSUME NoneIsNoThread, MonitorInv, CondFree, NEW S \in SUBSET ToSet(waiters), CondNotify(S),
           UNCHANGED <<recursive, owner, count, condLock>>,
           waiters' \in Seq(Threads), Distinct(waiters'), ToSet(waiters') = ToSet(waiters) \ S
    PROVE  MonitorInv' /\ Line = waiters /\ Line' = waiters' /\ Abstract!LetGo(S)
<1>1. /\ MonitorTypes /\ HeldAsCounted /\ ListHoldsWaits /\ ListingIsLast /\ condLock = None
      /\ waiters \in Seq(Threads) /\ thread \in [Threads -> ThreadStates]
  BY DEF MonitorInv, MonitorTypes, CondFree
<1>2. ASSUME NEW u \in Threads, u \in S  PROVE thread[u].step = "Sleeps" /\ thread[u].moved = 0
  BY <1>1, <1>2 DEF ListHoldsWaits, ListingIsLast, Does, NoneIsNoThread
<1>3. thread' = [u \in Threads |->
                   IF u \in S THEN [thread[u] EXCEPT !.moved = @ + 1] ELSE thread[u]]
  BY DEF CondNotify
<1>4. ASSUME NEW u \in Threads, u \in S
      PROVE  /\ thread'[u] \in ThreadStates /\ thread'[u].step = "Sleeps" /\ thread'[u].moved = 1
             /\ thread'[u].again = thread[u].again
  <2>1. thread[u] \in ThreadStates /\ thread'[u] = [thread[u] EXCEPT !.moved = @ + 1]
    BY <1>1, <1>3, <1>4
  <2>. QED  BY <1>2, <1>4, <2>1 DEF ThreadStates
<1>5. ASSUME NEW u \in Threads, u \notin S  PROVE thread'[u] = thread[u]
  BY <1>3, <1>5
<1>6. MonitorTypes'
  <2>1. \A u \in Threads : thread'[u] \in ThreadStates
    BY <1>1, <1>4, <1>5
  <2>2. thread' \in [Threads -> ThreadStates]
    BY <1>3, <2>1
  <2>. QED  BY <1>1, <2>2 DEF MonitorTypes
<1>7. HeldAsCounted'
  <2>1. ASSUME NEW u \in Threads
        PROVE  /\ Does(u, "Runs")' => thread'[u] = Running
               /\ Does(u, "Lists")' => thread'[u].again = 0 /\ thread'[u].moved = 0
               /\ thread'[u].step \in {"Locks", "Sleeps", "Relocks"} => Legal(thread[u].again)'
    <3>1. CASE u \in S
      BY <1>1, <1>2, <1>4, <3>1 DEF Does, HeldAsCounted, Legal
    <3>2. CASE u \notin S
      BY <1>1, <1>5, <3>2 DEF Does, HeldAsCounted, Legal
    <3>. QED  BY <3>1, <3>2
  <2>. QED  BY <1>1, <2>1 DEF HeldAsCounted, Legal
<1>8. ListHoldsWaits'
  <2>1. ASSUME NEW u \in Threads
        PROVE  u \in ToSet(waiters') <=>
                 Does(u, "Lists")' \/ (Does(u, "Sleeps")' /\ thread'[u].moved = 0)
    <3>1. CASE u \in S
      BY <1>4, <3>1 DEF Does
    <3>2. CASE u \notin S
      BY <1>1, <1>5, <3>2 DEF Does, ListHoldsWaits
    <3>. QED  BY <3>1, <3>2
  <2>. QED  BY <2>1 DEF ListHoldsWaits
<1>9. ListingIsLast'
  <2>1. \A u \in Threads : Does(u, "Lists")' <=> Does(u, "Lists")
    BY <1>2, <1>4, <1>5 DEF Does
  <2>. QED  BY <1>1, <2>1 DEF ListingIsLast, CondFree
<1>10. Line = waiters /\ Line' = waiters'
  BY <1>1 DEF Line, CondFree
<1>11. Places' = [u \in Threads |-> IF u \in S THEN [at |-> "Signaled", again |-> Places[u].again]
                                    ELSE Places[u]]
  <2>1. Places = [u \in Threads |-> PlaceIn(thread[u])]
    BY <1>1, PlacesAre
  <2>2. Places' = [u \in Threads |-> PlaceIn(thread'[u])]
    BY <1>6, PlacesAreNext
  <2>3. ASSUME NEW u \in Threads, u \in S
        PROVE  PlaceIn(thread'[u]) = [at |-> "Signaled", again |-> Places[u].again]
    <3>1. PlaceIn(thread'[u]) = [at |-> "Signaled", again |-> thread[u].again]
      BY <1>4, <2>3 DEF PlaceIn
    <3>2. PlaceIn(thread[u]).again = thread[u].again
      BY DEF PlaceIn
    <3>. QED  BY <2>1, <3>1, <3>2
  <2>4. \A u \in Threads : u \notin S => PlaceIn(thread'[u]) = Places[u]
    BY <1>5, <2>1
  <2>. QED  BY <2>2, <2>3, <2>4
<1>12. Abstract!LetGo(S)
  BY <1>11, LetsGo
<1>. QED  BY <1>6, <1>7, <1>8, <1>9, <1>10, <1>12 DEF MonitorInv

\* A waiter that is taken off the list is let go.
LEMMA CondWakeWaiterSteps ==
    ASSUME NoneIsNoThread, MonitorInv, CondFree, NEW u \in ToSet(waiters), CondWakeWaiter(u),
           UNCHANGED <<recursive, owner, count, condLock>>
    PROVE  /\ MonitorInv' /\ Line = waiters /\ Line' = RemoveFirst(waiters, u)
           /\ Abstract!LetGo({u})
<1>1. waiters \in Seq(Threads) /\ Distinct(waiters)
  BY DEF MonitorInv, MonitorTypes, ListHoldsWaits
<1>2. u \in Threads
  BY <1>1, LenProperties DEF ToSet
<1>3. waiters' = RemoveFirst(waiters, u) /\ CondNotify({u})
  BY DEF CondWakeWaiter
<1>4. waiters' \in Seq(Threads) /\ Distinct(waiters') /\ ToSet(waiters') = ToSet(waiters) \ {u}
  BY <1>1, <1>2, <1>3, RemoveFirstProperties
<1>5. {u} \in SUBSET ToSet(waiters)
  OBVIOUS
<1>. QED  BY <1>3, <1>4, <1>5, WakeSteps

\* CondSignal lets the first of the list go,
LEMMA CondSignalSteps ==
    ASSUME NoneIsNoThread, MonitorInv, NEW t \in Threads, CondSignal(t)
    PROVE  MonitorInv' /\ Abstract!Signal
<1>1. /\ CondFree /\ waiters # <<>> /\ CondWakeWaiter(Head(waiters))
      /\ UNCHANGED <<recursive, owner, count, condLock>>
      /\ waiters \in Seq(Threads) /\ Distinct(waiters)
  BY DEF CondSignal, mutex, MonitorInv, MonitorTypes, ListHoldsWaits
<1>2. Head(waiters) = waiters[1] /\ 1 \in 1 .. Len(waiters) /\ Head(waiters) \in Threads
  BY <1>1
<1>3. Head(waiters) \in ToSet(waiters)
  BY <1>1, <1>2, LenProperties DEF ToSet
<1>4. /\ MonitorInv' /\ Line = waiters /\ Line' = RemoveFirst(waiters, Head(waiters))
      /\ Abstract!LetGo({Head(waiters)})
  BY <1>1, <1>3, CondWakeWaiterSteps
<1>5. RemoveFirst(waiters, Head(waiters)) = Tail(waiters)
  BY <1>1, RemoveHead
<1>6. Abstract!Signal
  BY <1>1, <1>4, <1>5 DEF Abstract!Signal, Line
<1>. QED  BY <1>4, <1>6

\* CondSignalto any one that is in it,
LEMMA CondSignaltoSteps ==
    ASSUME NoneIsNoThread, MonitorInv, NEW t \in Threads, CondSignalto(t)
    PROVE  MonitorInv' /\ \E u \in Threads : Abstract!SignalTo(u)
<1>1. /\ CondFree /\ UNCHANGED <<recursive, owner, count, condLock>> /\ waiters \in Seq(Threads)
  BY DEF CondSignalto, mutex, MonitorInv, MonitorTypes
<1>2. PICK u \in ToSet(waiters) : CondWakeWaiter(u)
  BY DEF CondSignalto
<1>3. u \in Threads
  BY <1>1, LenProperties DEF ToSet
<1>4. /\ MonitorInv' /\ Line = waiters /\ Line' = RemoveFirst(waiters, u)
      /\ Abstract!LetGo({u})
  BY <1>1, <1>2, CondWakeWaiterSteps
<1>5. /\ u \in Abstract!ToSet(Line) /\ Line' = Abstract!RemoveFirst(Line, u)
  BY <1>2, <1>4, SameOperators
<1>6. Abstract!SignalTo(u)
  BY <1>4, <1>5 DEF Abstract!SignalTo, Line
<1>. QED  BY <1>3, <1>4, <1>6

\* and CondBroadcast all of them.
LEMMA CondBroadcastSteps ==
    ASSUME NoneIsNoThread, MonitorInv, NEW t \in Threads, CondBroadcast(t)
    PROVE  MonitorInv' /\ Abstract!Broadcast
<1>1. /\ CondFree /\ UNCHANGED <<recursive, owner, count, condLock>> /\ CondNotify(ToSet(waiters))
      /\ waiters' = <<>>
  BY DEF CondBroadcast, mutex
<1>2. waiters' \in Seq(Threads) /\ Distinct(waiters') /\ ToSet(waiters') = {}
  BY <1>1 DEF Distinct, ToSet
<1>3. ToSet(waiters') = ToSet(waiters) \ ToSet(waiters) /\ ToSet(waiters) \in SUBSET ToSet(waiters)
  BY <1>2
<1>4. MonitorInv' /\ Line = waiters /\ Line' = waiters' /\ Abstract!LetGo(ToSet(waiters))
  BY <1>1, <1>2, <1>3, WakeSteps
<1>5. Abstract!ToSet(Line) = ToSet(waiters) /\ Line' = <<>>
  BY <1>1, <1>4, SameOperators
<1>6. Abstract!Broadcast
  BY <1>4, <1>5 DEF Abstract!Broadcast, Line
<1>. QED  BY <1>4, <1>6

-----------------------------------------------------------------------------
\* Every step keeps the invariant, and is a step of Monitor or is not seen there.
LEMMA MonitorStep ==
    ASSUME NoneIsNoThread, MonitorInv, [MonitorNext]_monitorVars
    PROVE  MonitorInv' /\ [Abstract!AbsNext]_(Abstract!absVars)
<1>1. CASE UNCHANGED monitorVars
  <2>1. MonitorInv'
    BY <1>1 DEF monitorVars, MonitorInv, MonitorTypes, HeldAsCounted, ListHoldsWaits, ListingIsLast,
                Does, Legal, CondFree
  <2>2. UNCHANGED Abstract!absVars
    BY <1>1 DEF monitorVars, Abstract!absVars, CondFree, PlaceOf, Does, Listing, CondReady
  <2>. QED  BY <2>1, <2>2
<1>2. ASSUME UNCHANGED <<owner, count, Line, Places>>  PROVE UNCHANGED Abstract!absVars
  BY <1>2 DEF Abstract!absVars, Line, Places
<1>3. CASE MonitorNext
  <2>1. PICK t \in Threads :
            \/ LockMutex(t) \/ LockSucceeds(t) \/ LockTimesOut(t) \/ UnlockMutex(t)
            \/ CondWait(t) \/ CondSleeps(t) \/ CondReturns(t)
            \/ CondSignal(t) \/ CondSignalto(t) \/ CondBroadcast(t)
    BY <1>3 DEF MonitorNext
  <2>2. CASE LockMutex(t)
    BY <2>2, LockMutexSteps DEF Abstract!AbsNext
  <2>3. CASE LockSucceeds(t)
    BY <2>3, LockSucceedsSteps DEF Abstract!AbsNext
  <2>4. CASE LockTimesOut(t)
    BY <2>4, LockTimesOutSteps DEF Abstract!AbsNext
  <2>5. CASE UnlockMutex(t)
    BY <2>5, UnlockMutexSteps DEF Abstract!AbsNext
  <2>6. CASE CondWait(t)
    BY <1>2, <2>6, CondWaitSteps
  <2>7. CASE CondSleeps(t)
    BY <2>7, CondSleepsSteps DEF Abstract!AbsNext
  <2>8. CASE CondReturns(t)
    BY <1>2, <2>8, CondReturnsSteps DEF Abstract!AbsNext
  <2>9. CASE CondSignal(t)
    BY <2>9, CondSignalSteps DEF Abstract!AbsNext
  <2>10. CASE CondSignalto(t)
    BY <2>10, CondSignaltoSteps DEF Abstract!AbsNext
  <2>11. CASE CondBroadcast(t)
    BY <2>11, CondBroadcastSteps DEF Abstract!AbsNext
  <2>. QED  BY <2>1, <2>2, <2>3, <2>4, <2>5, <2>6, <2>7, <2>8, <2>9, <2>10, <2>11
<1>. QED  BY <1>1, <1>3

\* The mutex and the condition variable implement Monitor, for every set of threads and either
\* kind of mutex: what happens between entering the list and giving the mutex up is not seen.
THEOREM PthreadImplementsMonitor ==
    MonitorInit /\ [][MonitorNext]_monitorVars => MonitorImplements
<1>. NoneIsNoThread
  BY ThreadsAssumption DEF ThreadsAssumption, NoneIsNoThread
<1>1. MonitorInit => MonitorInv
  BY MonitorInitInv
<1>2. MonitorInit => Abstract!AbsInit
  <2>1. SUFFICES ASSUME MonitorInit  PROVE Abstract!AbsInit
    OBVIOUS
  <2>2. MonitorInv /\ Line = <<>>
    BY <2>1, MonitorInitInv DEF MonitorInit, Line, CondFree
  <2>3. Places = [t \in Threads |-> PlaceIn(Running)]
    BY <2>1, <2>2, PlacesAre DEF MonitorInv, MonitorInit
  <2>4. PlaceIn(Running) = [at |-> "Runs", again |-> 0]
    BY RunningIs DEF PlaceIn
  <2>. QED  BY <2>1, <2>2, <2>3, <2>4
            DEF Abstract!AbsInit, Abstract!Running, Abstract!Place, MonitorInit, Line, Places
<1>3. MonitorInv /\ [MonitorNext]_monitorVars => MonitorInv' /\ [Abstract!AbsNext]_(Abstract!absVars)
  BY MonitorStep
<1>. QED  BY <1>1, <1>2, <1>3, PTL DEF MonitorImplements, Abstract!AbsSpec
================================================================================
