------------------------------- MODULE EventQueue -------------------------------
(***************************************************************************)
(* One event queue of the guest kernel: KernelEqueuePrivate of             *)
(* src/src/kernel/eventQueue.cpp, with the filters that its clients give   *)
(* their events.                                                           *)
(*                                                                         *)
(* Every method holds m_mutex, and is one step; WaitForEvents sleeps on    *)
(* the condition variable and looks again after every sleep.  A call pins  *)
(* the queue (a shared pointer) before it locks it, so that it may reach a *)
(* queue that has been closed in the meantime: the only guard of a method  *)
(* is m_closed.  Calls that are refused change nothing and have no action. *)
(*                                                                         *)
(* Each event carries the tokens of the notifications it holds: the first  *)
(* is event.event, the others are pending_events, and the event is         *)
(* "triggered" when there is one.  The token of a trigger is its number,   *)
(* the token of a periodic timer is the count it reports.                  *)
(***************************************************************************)
EXTENDS Integers, Sequences, FiniteSets, SequencesExt

CONSTANTS
    Level,        \* user events, which stay triggered
    Edge,         \* user events with EV_CLEAR
    Queued,       \* AMPR, graphics and video-out events
    Periodic,     \* timers
    OneShot,      \* high-resolution timers
    Waiters,      \* the threads that wait
    Nums,         \* bound: how many events a wait asks for
    Delays,       \* bound: delays of timers
    Timeouts,     \* bound: micros of WaitForEvents, 0 is for ever
    MaxNow,       \* bound of the clock
    MaxSent       \* bound: triggers of one event

User == Level \cup Edge
Timers == Periodic \cup OneShot
Keys == User \cup Queued \cup Timers

\* An event has one filter.
ValidConstants ==
    /\ IsFiniteSet(Keys) /\ IsFiniteSet(Waiters)
    /\ Level \cap Edge = {} /\ User \cap Queued = {}
    /\ Periodic \cap OneShot = {} /\ (User \cup Queued) \cap Timers = {}
    /\ Nums \subseteq Nat \ {0}
    /\ Delays \subseteq Nat /\ Timeouts \subseteq Nat
    /\ MaxNow \in Nat \ {0} /\ MaxSent \in Nat

VARIABLES
    order,     \* m_events, as the order of the keys in the list
    ev,        \* of each key: tokens, deadline_ns (0: none) and interval_ns
    closed,    \* m_closed
    waiter,     \* of each waiter: "out", "asleep", or "woken" and waiting for m_mutex
    asked,     \* of each waiter: num, and the time its wait times out (0: never)
    alarm,     \* the time at which WaitFor comes back, 0 in CondVar::Wait
    now,       \* the monotonic clock
    sent,      \* history: triggers of each event; the periods a timer held when last armed
    got,       \* history: the last token delivered; the periods reported since,
               \* if the timer has an interval
    first      \* history: the first deadline of that arming

history == <<sent, got, first>>
queueVars == <<order, ev, closed, waiter, asked, alarm, now, history>>

--------------------------------------------------------------------------------
Blank == [items |-> <<>>, deadline |-> 0, interval |-> 0]

NoWait == [num |-> 1, until |-> 0]

Listed(e) == e \in Range(order)

\* How many deadlines have passed of a timer whose next one is d.
Due(d, interval) == IF d > now THEN 0 ELSE 1 + (now - d) \div interval

Reports(items) == IF items = <<>> THEN 0 ELSE items[1]

Occurrences(r) ==
    IF r.interval # 0 THEN Due(r.deadline, r.interval)
    ELSE IF r.items = <<>> THEN 1 ELSE 0

TriggerExpiredTimers ==
    [e \in Keys |->
        LET r == ev[e] IN
        IF r.deadline = 0 \/ r.deadline > now THEN r
        ELSE IF e \in Periodic
        THEN [r EXCEPT !.items = <<Reports(@) + Occurrences(r)>>,
                       !.deadline = @ + Occurrences(r) * r.interval]
        ELSE [r EXCEPT !.items = IF @ = <<>> THEN <<0>> ELSE @]]

\* Mutant: the reset drops what is pending with what is delivered.
ForgetsPending(e, items, k) == IF e \in Level THEN items ELSE <<>>

\* reset_func (or EV_CLEAR), and the refill from pending_events.
AfterDelivery(e, items, k) ==
    IF e \in Level THEN items ELSE SubSeq(items, k + 1, Len(items))

\* One event of the loop of GetTriggeredEvents.
Deliver(batch, e) ==
    LET items == batch.ev[e].items
        k == IF Len(items) <= batch.room THEN Len(items) ELSE batch.room
    IN  IF k = 0 THEN batch
        ELSE IF e \in OneShot
        THEN [room |-> batch.room - 1, order |-> RemoveFirst(batch.order, e),
              ev |-> [batch.ev EXCEPT ![e] = Blank], got |-> batch.got]
        ELSE [room |-> batch.room - k, order |-> batch.order,
              ev |-> [batch.ev EXCEPT ![e].items = AfterDelivery(e, items, k)],
              got |-> [batch.got EXCEPT ![e] =
                            IF e \notin Periodic THEN items[k]
                            ELSE IF batch.ev[e].interval = 0 THEN @ ELSE @ + items[1]]]

\* The loop: the batch after each event of the list.
Start(num) == [room |-> num, order |-> order, ev |-> TriggerExpiredTimers, got |-> got]
GetTriggeredEvents(num) ==
    LET after[i \in 0 .. Len(order)] ==
            IF i = 0 THEN Start(num) ELSE Deliver(after[i - 1], order[i])
    IN  after[Len(order)]

\* What the caller gets, and how it leaves the list behind.
Takes(batch) ==
    /\ order' = batch.order
    /\ ev' = batch.ev
    /\ got' = batch.got
    /\ UNCHANGED <<closed, now, sent, first>>

\* m_cond_var.Signal: one sleeper is woken, whichever it is.
Signal ==
    LET asleep == {w \in Waiters : waiter[w] = "asleep"} IN
    IF asleep = {} THEN UNCHANGED waiter
    ELSE \E w \in asleep : waiter' = [waiter EXCEPT ![w] = "woken"]

--------------------------------------------------------------------------------
QueueInit ==
    /\ order = <<>>
    /\ ev = [e \in Keys |-> Blank]
    /\ closed = FALSE
    /\ waiter = [w \in Waiters |-> "out"]
    /\ asked = [w \in Waiters |-> NoWait]
    /\ alarm = [w \in Waiters |-> 0]
    /\ now = 1
    /\ sent = [e \in Keys |-> 0]
    /\ got = [e \in Keys |-> 0]
    /\ first = [e \in Keys |-> 0]

\* The periods that a timer must have reported once it is read now.
PeriodsSoFar(e) ==
    IF ev[e].interval = 0 THEN got[e] + Reports(TriggerExpiredTimers[e].items)
    ELSE sent[e] + Due(first[e], ev[e].interval)

\* AddEvent of a new event.  Video-out adds its output-mode event triggered.
AddNew(e, deadline, interval, triggered) ==
    /\ ~closed /\ ~Listed(e)
    /\ order' = Append(order, e)
    /\ ev' = [ev EXCEPT ![e] = [items |-> IF triggered THEN <<1>> ELSE <<>>,
                                deadline |-> deadline, interval |-> interval]]
    /\ sent' = [sent EXCEPT ![e] = IF triggered THEN 1 ELSE 0]
    /\ got' = [got EXCEPT ![e] = 0]
    /\ first' = [first EXCEPT ![e] = deadline]
    /\ Signal
    /\ UNCHANGED <<closed, asked, alarm, now>>

\* The history starts again with what the timer holds.
Rearmed(e, deadline) ==
    IF e \in Timers
    THEN /\ sent' = [sent EXCEPT ![e] = PeriodsSoFar(e) - got[e]]
         /\ got' = [got EXCEPT ![e] = 0]
         /\ first' = [first EXCEPT ![e] = deadline]
    ELSE UNCHANGED history

\* Mutant: the periods that nobody has read are lost with the old deadline.
AddAgainUnread(e, deadline, interval) ==
    /\ ~closed /\ Listed(e)
    /\ ev' = [ev EXCEPT ![e] = [items |-> @.items, deadline |-> deadline, interval |-> interval]]
    /\ Rearmed(e, deadline)
    /\ Signal
    /\ UNCHANGED <<order, closed, asked, alarm, now>>

\* AddEvent of an event that is there: tokens stay, the deadline is replaced.
AddAgain(e, deadline, interval) ==
    /\ ~closed /\ Listed(e)
    /\ ev' = [TriggerExpiredTimers EXCEPT
                ![e] = [items |-> @.items, deadline |-> deadline, interval |-> interval]]
    /\ Rearmed(e, deadline)
    /\ Signal
    /\ UNCHANGED <<order, closed, asked, alarm, now>>

AddEvent(e, deadline, interval, triggered) ==
    \/ AddNew(e, deadline, interval, triggered)
    \/ AddAgain(e, deadline, interval)

AddUserEvent(e) == e \in User /\ AddEvent(e, 0, 0, FALSE)

AddQueuedEvent(e, triggered) == e \in Queued /\ AddEvent(e, 0, 0, triggered)

AddTimerEvent(e, delay) ==
    /\ e \in Timers
    /\ now + delay <= MaxNow
    /\ AddEvent(e, now + delay, IF e \in Periodic THEN delay ELSE 0, FALSE)

\* Mutant: an event that is triggered already is nothing new to a sleeper.
SignalsOnEdge(e) == IF ev[e].items = <<>> THEN Signal ELSE UNCHANGED waiter

\* Mutant: only user events tell a sleeper.
SignalsUserEvents(e) == IF e \in User THEN Signal ELSE UNCHANGED waiter

\* The end of TriggerEvent.
Tells(e) == Signal

\* TriggerEvent, with UserEventTriggerFunc or one of the functions that queue.
TriggerEvent(e) ==
    /\ e \in User \cup Queued
    /\ ~closed /\ Listed(e)
    /\ sent[e] < MaxSent
    /\ sent' = [sent EXCEPT ![e] = @ + 1]
    /\ ev' = [ev EXCEPT ![e].items =
                IF e \in User THEN <<sent'[e]>> ELSE Append(@, sent'[e])]
    /\ Tells(e)
    /\ UNCHANGED <<order, closed, asked, alarm, now, got, first>>

DeleteEvent(e) ==
    /\ ~closed /\ Listed(e)
    /\ order' = RemoveFirst(order, e)
    /\ ev' = [ev EXCEPT ![e] = Blank]
    /\ sent' = [sent EXCEPT ![e] = 0]
    /\ got' = [got EXCEPT ![e] = 0]
    /\ first' = [first EXCEPT ![e] = 0]
    /\ UNCHANGED <<closed, waiter, asked, alarm, now>>

\* KernelDeleteEqueue, after the queue has left g_equeues.
Close ==
    /\ ~closed
    /\ closed' = TRUE
    /\ order' = <<>>
    /\ ev' = [e \in Keys |-> Blank]
    /\ sent' = [e \in Keys |-> 0]
    /\ got' = [e \in Keys |-> 0]
    /\ first' = [e \in Keys |-> 0]
    /\ waiter' = [w \in Waiters |-> IF waiter[w] = "asleep" THEN "woken" ELSE waiter[w]]
    /\ UNCHANGED <<asked, alarm, now>>

--------------------------------------------------------------------------------
\* KernelWaitEqueue with timeout 0, or a wait that finds events at once.
Poll(num) ==
    /\ ~closed
    /\ Takes(GetTriggeredEvents(num))
    /\ UNCHANGED <<waiter, asked, alarm>>

\* GetNextTimerWaitMicros, and the choice between Wait and WaitFor.
NextAlarm(batch, until) ==
    LET times == ({batch.ev[e].deadline : e \in Range(batch.order)} \cup {until}) \ {0}
    IN  IF times = {} THEN 0 ELSE CHOOSE t \in times : \A u \in times : t <= u

Sleep(w, until) ==
    LET batch == GetTriggeredEvents(1) IN
    /\ Takes(batch)
    /\ waiter' = [waiter EXCEPT ![w] = "asleep"]
    /\ alarm' = [alarm EXCEPT ![w] = NextAlarm(batch, until)]

\* WaitForEvents finds nothing.
WaitForEvents(w, num, micros) ==
    LET until == IF micros = 0 THEN 0 ELSE now + micros IN
    /\ waiter[w] = "out" /\ ~closed
    /\ until <= MaxNow
    /\ GetTriggeredEvents(num).room = num
    /\ asked' = [asked EXCEPT ![w] = [num |-> num, until |-> until]]
    /\ Sleep(w, until)

\* WaitFor has run out, or 10 ms have passed in CondVar::Wait.
AlarmRings(w) == alarm[w] = 0 \/ alarm[w] <= now

\* A sleeper may also wake for no reason.
SleeperWakes(w) ==
    /\ waiter[w] = "asleep"
    /\ waiter' = [waiter EXCEPT ![w] = "woken"]
    /\ UNCHANGED <<order, ev, closed, asked, alarm, now, history>>

Leaves(w) ==
    /\ waiter' = [waiter EXCEPT ![w] = "out"]
    /\ alarm' = [alarm EXCEPT ![w] = 0]
    /\ asked' = [asked EXCEPT ![w] = NoWait]

ResumeClosed(w) ==
    /\ waiter[w] = "woken" /\ closed
    /\ Leaves(w)
    /\ UNCHANGED <<order, ev, closed, now, history>>

ResumeWithEvents(w) ==
    LET batch == GetTriggeredEvents(asked[w].num) IN
    /\ waiter[w] = "woken" /\ ~closed
    /\ batch.room < asked[w].num
    /\ Takes(batch)
    /\ Leaves(w)

FindsNothing(w) ==
    /\ waiter[w] = "woken" /\ ~closed
    /\ GetTriggeredEvents(asked[w].num).room = asked[w].num

TimeIsUp(w) == asked[w].until # 0 /\ asked[w].until <= now

ResumeLate(w) ==
    /\ FindsNothing(w)
    /\ TimeIsUp(w)
    /\ Takes(GetTriggeredEvents(1))
    /\ Leaves(w)

ResumeAgain(w) ==
    /\ FindsNothing(w)
    /\ ~TimeIsUp(w)
    /\ Sleep(w, asked[w].until)
    /\ UNCHANGED asked

Resume(w) ==
    \/ ResumeClosed(w) \/ ResumeWithEvents(w)
    \/ ResumeLate(w) \/ ResumeAgain(w)

Tick ==
    /\ now < MaxNow
    /\ now' = now + 1
    /\ UNCHANGED <<order, ev, closed, waiter, asked, alarm, history>>

QueueNext ==
    \/ \E e \in Keys :
        \/ AddUserEvent(e)
        \/ \E triggered \in BOOLEAN : AddQueuedEvent(e, triggered)
        \/ \E delay \in Delays : AddTimerEvent(e, delay)
        \/ TriggerEvent(e)
        \/ DeleteEvent(e)
    \/ Close
    \/ \E num \in Nums : Poll(num)
    \/ \E w \in Waiters :
        \/ \E num \in Nums, micros \in Timeouts : WaitForEvents(w, num, micros)
        \/ SleeperWakes(w)
        \/ Resume(w)
    \/ Tick

QueueSpec == QueueInit /\ [][QueueNext]_queueVars

\* What Resume(w) does to the waiter, whichever way it goes.
MovesOn(w) ==
    /\ waiter[w] = "woken"
    /\ \E p \in {"out", "asleep"} : waiter' = [waiter EXCEPT ![w] = p]

\* Time passes, a sleep ends when it must, and a woken thread gets m_mutex.
QueueFairness ==
    /\ WF_now(Tick)
    /\ \A w \in Waiters :
        /\ WF_waiter(AlarmRings(w) /\ SleeperWakes(w))
        /\ WF_waiter(MovesOn(w))

QueueLiveSpec == QueueSpec /\ QueueFairness

--------------------------------------------------------------------------------
\* The list names each of its events once, and an event that is not in it holds nothing.
QueueTypeOK ==
    /\ order \in Seq(Keys) /\ IsInjective(order)
    /\ ev \in [Keys -> [items : Seq(Nat), deadline : Nat, interval : Nat]]
    /\ \A e \in Keys : ~Listed(e) => ev[e] = Blank
    /\ closed \in BOOLEAN /\ (closed => order = <<>>)
    /\ waiter \in [Waiters -> {"out", "asleep", "woken"}]
    /\ asked \in [Waiters -> [num : Nums \cup {1}, until : 0 .. MaxNow]]
    /\ alarm \in [Waiters -> Nat]
    /\ now \in 1 .. MaxNow
    /\ sent \in [Keys -> Nat] /\ got \in [Keys -> Nat] /\ first \in [Keys -> Nat]

\* Between the triggers of AMPR, the GPU or the display and the waits of the
\* guest nothing is lost, repeated or reordered: a queued event holds exactly the
\* tokens that follow the last one delivered, whatever was added again meanwhile.
\* A user event holds its latest token unless that was delivered.
TriggersArriveInOrder ==
    /\ QueueTypeOK
    /\ \A e \in Queued :
        ev[e].items = [i \in 1 .. sent[e] - got[e] |-> got[e] + i]
    /\ \A e \in User :
        IF ev[e].items = <<>> THEN got[e] = sent[e] ELSE ev[e].items = <<sent[e]>>

\* A periodic timer reports every period once, however late it is read and
\* however often it is armed again: what was reported, what it holds and what
\* the next look will add is the number of periods that have passed.
TimersReportEveryPeriod ==
    \A e \in Periodic :
        ev[e].interval # 0 =>
            got[e] + Reports(ev[e].items) + Due(ev[e].deadline, ev[e].interval)
                = PeriodsSoFar(e)

\* The notifications that events hold.
Pending == Cardinality(UNION {{e} \X (1 .. Len(ev[e].items)) : e \in Keys})

TimerRings(w) == alarm[w] # 0 /\ alarm[w] <= now

\* Where notify_one is enough (a single waiter, or events that clear when they
\* are delivered and no timers): nobody sleeps on while there are more
\* notifications than threads on their way to fetch them, nor in a queue that
\* has been deleted.  The 10 ms poll of CondVar::Wait is not counted on.
NoSleeperMissesEvent ==
    /\ (\E w \in Waiters : waiter[w] = "asleep" /\ ~TimerRings(w))
        => Pending <= Cardinality({w \in Waiters : waiter[w] = "woken"})
    /\ closed => \A w \in Waiters : waiter[w] # "asleep"

\* A single sleeper has set its alarm for the next deadline of a timer, one that
\* was added or moved while it slept included.
AlarmCoversDeadlines ==
    \A w \in Waiters, e \in Keys :
        waiter[w] = "asleep" /\ Listed(e) /\ ev[e].deadline # 0
            => alarm[w] # 0 /\ alarm[w] <= ev[e].deadline

\* The two together: timers are late for nobody and lose no period.
TimersKeepTime == TimersReportEveryPeriod /\ AlarmCoversDeadlines

\* A wait with a timeout ends, though others may take every event it is woken for.
TimedWaitEnds ==
    \A w \in Waiters :
        waiter[w] # "out" /\ asked[w].until # 0 ~> waiter[w] = "out"

================================================================================
