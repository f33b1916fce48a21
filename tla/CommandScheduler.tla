---------------------------- MODULE CommandScheduler ----------------------------
(***************************************************************************)
(* The host GPU's timeline: CommandScheduler with its CommandPool and the  *)
(* MasterSemaphore, of src/src/graphics/host_gpu/renderer.                 *)
(*                                                                         *)
(* The owner (the GPU thread; when that has been joined, the main thread)  *)
(* records one command buffer at a time and submits it with the next tick. *)
(* The GPU counts the ticks that it has finished.  Operations wait for the *)
(* tick of their submission: normal ones until the owner pops them, those  *)
(* with priority until the runner, a thread of the scheduler, takes them.  *)
(* Other threads may defer operations and call Shutdown a second time.     *)
(* Whoever defers outside of an operation while a Shutdown is under way    *)
(* waits until it is over: the owner too, if a rejected submission of its  *)
(* own Shutdown makes it collect garbage.                                  *)
(*                                                                         *)
(* m_operation_available is one condition variable for all of them: asleep.*)
(* m_operation_mutex is held within one action, but for one place: between *)
(* its look at m_priority_operations and its sleep the runner holds it,    *)
(* and request_stop does not need it.                                      *)
(***************************************************************************)
EXTENDS Integers, Sequences, FiniteSets, SequencesExt

CONSTANTS
    Others,     \* threads that are neither the owner nor the runner
    GrowStep,   \* CommandPool::GrowStep
    MaxTick,    \* bound: submissions
    MaxOps      \* bound: operations deferred

ASSUME CommandSchedulerAssumption ==
    /\ IsFiniteSet(Others) /\ {"owner", "runner"} \cap Others = {}
    /\ GrowStep \in Nat \ {0} /\ MaxTick \in Nat /\ MaxOps \in Nat

VARIABLES
    current,   \* m_current_tick
    known,     \* m_gpu_tick
    sent,      \* the last tick whose submission has reached the queue
    counter,   \* the timeline semaphore: the ticks that the GPU has finished
    pool,      \* m_ticks, m_hint, the buffer being recorded (0: none), the buffer of each tick
    ops,       \* the operations, by the order in which they are deferred
    pending,   \* m_pending_operations
    priority,  \* m_priority_operations
    state,     \* m_operation_state
    stop,      \* whether m_priority_thread is requested to stop
    runner,    \* the runner: what it is at, with which operation (m_priority_active)
    todo,      \* the owner: the steps that are left of its call
    late,      \* who waits for the end of a Shutdown: with an operation, or 0 to shut down
    asleep     \* the threads asleep on m_operation_available

vars == <<current, known, sent, counter, pool, ops, pending, priority, state, stop, runner,
          todo, late, asleep>>

Ids == 1 .. MaxOps
Nobody == -1
Latecomers == Others \cup {"owner"}
NoOp == [kind |-> "none", tick |-> 0, state |-> "unused"]

\* A step of the owner, for a tick or an operation.
Do(what, n) == [do |-> what, n |-> n]
At(what) == todo # <<>> /\ Head(todo).do = what
N == Head(todo).n

Unlocked == runner.at # "holds"

--------------------------------------------------------------------------------
(* MasterSemaphore                                                         *)

\* The compare-and-swap of Refresh never lowers m_gpu_tick: as if read and stored at once.
Refreshed == IF known < counter THEN counter ELSE known

\* MasterSemaphore::Wait is over.
Waited(tick) == known >= tick \/ counter >= tick
KnownAfterWait(tick) == IF known >= tick THEN known ELSE Refreshed

GpuFinishes ==
    /\ counter < sent
    /\ counter' = counter + 1
    /\ UNCHANGED <<current, known, sent, pool, ops, pending, priority, state, stop, runner,
                   todo, late, asleep>>

--------------------------------------------------------------------------------
(* CommandPool                                                             *)

FreeIn(slots, tick) == {i \in slots : pool.ticks[i] <= tick}

Least(slots) == CHOOSE i \in slots : \A j \in slots : i <= j

\* The slots from m_hint on, by the known tick and then by a fresh one; those
\* before it, by the fresh one.
Reusable ==
    LET from == {i \in DOMAIN pool.ticks : i >= pool.hint}
        before == DOMAIN pool.ticks \ from
    IN  CASE FreeIn(from, known) # {} -> Least(FreeIn(from, known))
          [] FreeIn(from, known) = {} /\ FreeIn(from, Refreshed) # {} ->
                Least(FreeIn(from, Refreshed))
          [] FreeIn(from, Refreshed) = {} /\ FreeIn(before, Refreshed) # {} ->
                Least(FreeIn(before, Refreshed))
          [] OTHER -> 0

Looks == FreeIn({i \in DOMAIN pool.ticks : i >= pool.hint}, known) = {}

\* Mutant: a slot gets the tick of the submission before.
StampedEarly(slot, ticks) == [ticks EXCEPT ![slot] = current - 1]

Stamped(slot, ticks) == [ticks EXCEPT ![slot] = current]

Grown == pool.ticks \o [i \in 1 .. GrowStep |-> 0]

\* BeginCommand: CommandPool::Commit.
Begins ==
    LET ticks == IF Reusable # 0 THEN pool.ticks ELSE Grown
        slot == IF Reusable # 0 THEN Reusable ELSE Len(pool.ticks) + 1
    IN
    /\ At("begin") /\ pool.command = 0
    /\ pool' = [pool EXCEPT !.ticks = Stamped(slot, ticks), !.hint = (slot % Len(ticks)) + 1,
                            !.command = slot]
    /\ known' = IF Looks THEN Refreshed ELSE known
    /\ todo' = Tail(todo)
    /\ UNCHANGED <<current, sent, counter, ops, pending, priority, state, stop, runner,
                   late, asleep>>

--------------------------------------------------------------------------------
(* Operations                                                              *)

\* notify_one, notify_all.
NotifyOne == IF asleep = {} THEN asleep' = {} ELSE \E t \in asleep : asleep' = asleep \ {t}
NotifyAll == asleep' = {}

Fresh(i) == i \in Ids /\ ops[i].state = "unused" /\ \A j \in Ids : j < i => ops[j].state # "unused"

\* Mutant: operations are still queued while the scheduler is drained.
QueuesUnlessClosed == state # "Closed"

Queues == state = "Open"

\* QueueOperation, but for the notification and for the wait of latecomers: what
\* cannot be queued, because the scheduler is closed or because an operation defers
\* it while the scheduler is drained, is run on the spot.
Defer(i, kind) ==
    /\ Unlocked
    /\ Fresh(i)
    /\ ops' = [ops EXCEPT ![i] = [kind |-> kind, tick |-> current,
                                  state |-> IF Queues THEN "queued" ELSE "done"]]
    /\ pending' = IF Queues /\ kind = "normal" THEN Append(pending, i) ELSE pending
    /\ priority' = IF Queues /\ kind = "priority" THEN Append(priority, i) ELSE priority

\* Mutant: the runner is not told.
OwnerDefersSilently(i, kind) ==
    /\ Defer(i, kind)
    /\ UNCHANGED <<current, known, sent, counter, pool, state, stop, runner, todo, late, asleep>>

OwnerDefers(i, kind) ==
    /\ Defer(i, kind)
    /\ todo' = IF Queues /\ kind = "priority" THEN <<Do("notify", 0)>> \o todo ELSE todo
    /\ UNCHANGED <<current, known, sent, counter, pool, state, stop, runner, late, asleep>>

RunnerDefers(i) ==
    /\ runner.at = "runs"
    /\ Defer(i, "normal")
    /\ UNCHANGED <<current, known, sent, counter, pool, state, stop, runner, todo, late, asleep>>

\* DeferOperation of another thread ...
OtherDefers(t, i) ==
    /\ late[t] = Nobody
    /\ state # "Draining"
    /\ Defer(i, "normal")
    /\ UNCHANGED <<current, known, sent, counter, pool, state, stop, runner, todo, late, asleep>>

\* The garbage collector runs when all before the rejected submission are over.
Collects == At("retry") /\ late["owner"] = Nobody /\ Waited(N - 1)

\* ... or of any that no operation runs in, which waits until the scheduler is
\* closed if it is too late.  The owner is the one to close it.
WaitsToDefer(t, i) ==
    /\ late[t] = Nobody
    /\ t = "owner" => Collects
    /\ state = "Draining" /\ Unlocked /\ Fresh(i)
    /\ ops' = [ops EXCEPT ![i] = [kind |-> "normal", tick |-> 0, state |-> "held"]]
    /\ late' = [late EXCEPT ![t] = i]
    /\ asleep' = asleep \cup {t}
    /\ UNCHANGED <<current, known, sent, counter, pool, pending, priority, state, stop, runner, todo>>

\* Shutdown, when another thread is at it.
OtherShutsDown(t) ==
    /\ late[t] = Nobody
    /\ state = "Draining" /\ Unlocked
    /\ late' = [late EXCEPT ![t] = 0]
    /\ asleep' = asleep \cup {t}
    /\ UNCHANGED <<current, known, sent, counter, pool, ops, pending, priority, state, stop,
                   runner, todo>>

Resumes(t) ==
    /\ late[t] # Nobody /\ t \notin asleep /\ Unlocked
    /\ IF state = "Closed"
       THEN /\ late' = [late EXCEPT ![t] = Nobody]
            /\ ops' = [i \in Ids |-> IF i = late[t] THEN [ops[i] EXCEPT !.state = "done"] ELSE ops[i]]
            /\ UNCHANGED asleep
       ELSE asleep' = asleep \cup {t} /\ UNCHANGED <<late, ops>>
    /\ UNCHANGED <<current, known, sent, counter, pool, pending, priority, state, stop, runner, todo>>

--------------------------------------------------------------------------------
(* The runner                                                              *)

Active == runner.op # 0

\* The look at the queue.  A sleeper that is notified looks again.
RunnerLooks ==
    /\ runner.at = "loop" /\ "runner" \notin asleep
    /\ IF stop
       THEN runner' = [runner EXCEPT !.at = "exited"] /\ UNCHANGED <<ops, priority>>
       ELSE IF priority # <<>>
       THEN /\ runner' = [at |-> "waits", op |-> Head(priority)]
            /\ priority' = Tail(priority)
            /\ ops' = [ops EXCEPT ![Head(priority)].state = "taken"]
       ELSE runner' = [runner EXCEPT !.at = "holds"] /\ UNCHANGED <<ops, priority>>
    /\ UNCHANGED <<current, known, sent, counter, pool, pending, state, stop, todo, late, asleep>>

RunnerSleeps ==
    /\ runner.at = "holds"
    /\ runner' = [runner EXCEPT !.at = "loop"]
    /\ asleep' = asleep \cup {"runner"}
    /\ UNCHANGED <<current, known, sent, counter, pool, ops, pending, priority, state, stop,
                   todo, late>>

\* Mutant: the runner waits for what is submitted before.
OverTooEarly == Waited(ops[runner.op].tick - 1)

Over == Waited(ops[runner.op].tick)

\* A runner that is requested to stop drops what it has.
RunnerWaits ==
    /\ runner.at = "waits" /\ Over
    /\ known' = KnownAfterWait(ops[runner.op].tick)
    /\ IF stop
       THEN runner' = [runner EXCEPT !.at = "clears"] /\ UNCHANGED ops
       ELSE /\ runner' = [runner EXCEPT !.at = "runs"]
            /\ ops' = [ops EXCEPT ![runner.op].state = "running"]
    /\ UNCHANGED <<current, sent, counter, pool, pending, priority, state, stop, todo, late, asleep>>

RunnerFinishes ==
    /\ runner.at = "runs"
    /\ runner' = [runner EXCEPT !.at = "clears"]
    /\ ops' = [ops EXCEPT ![runner.op].state = "done"]
    /\ UNCHANGED <<current, known, sent, counter, pool, pending, priority, state, stop, todo,
                   late, asleep>>

RunnerClears ==
    /\ runner.at = "clears"
    /\ runner' = [at |-> "notifies", op |-> 0]
    /\ UNCHANGED <<current, known, sent, counter, pool, ops, pending, priority, state, stop,
                   todo, late, asleep>>

\* Mutant: one of the sleepers is notified.
RunnerNotifiesOne ==
    /\ runner.at = "notifies"
    /\ runner' = [runner EXCEPT !.at = "loop"]
    /\ NotifyOne
    /\ UNCHANGED <<current, known, sent, counter, pool, ops, pending, priority, state, stop,
                   todo, late>>

RunnerNotifies ==
    /\ runner.at = "notifies"
    /\ runner' = [runner EXCEPT !.at = "loop"]
    /\ NotifyAll
    /\ UNCHANGED <<current, known, sent, counter, pool, ops, pending, priority, state, stop,
                   todo, late>>

--------------------------------------------------------------------------------
(* The owner: its calls                                                    *)

Calls(steps) ==
    /\ todo = <<>> /\ state = "Open"
    /\ todo' = steps
    /\ UNCHANGED <<current, known, sent, counter, pool, ops, pending, priority, state, stop,
                   runner, late, asleep>>

Submission == <<Do("submit", 0)>>
SubmissionAndWait == Submission \o <<Do("wait", current)>>
Pops == <<Do("refresh", 0), Do("pop", 0)>>

Flush == Calls(Submission \o <<Do("begin", 0)>>)

Finish == Calls(SubmissionAndWait \o <<Do("begin", 0)>> \o Pops)

\* Wait, and FlushAndWait, which is the wait for the current tick.
Wait(tick) ==
    Calls(IF tick = current THEN SubmissionAndWait \o <<Do("begin", 0)>> ELSE <<Do("wait", tick)>>)

PopPendingOperations == Calls(Pops)

\* Callers have waited for the tick before.
WaitPriorityOperations(tick) == Calls(<<Do("settle", tick)>>)

\* DrainPriorityOperations follows upon a Finish: an operation of the current
\* tick would be waited for in vain.
FinishAndDrain ==
    Calls(SubmissionAndWait \o <<Do("begin", 0)>> \o Pops \o <<Do("drain", 0)>>)

Shutdown ==
    /\ todo = <<>> /\ state = "Open" /\ Unlocked
    /\ state' = "Draining"
    /\ todo' = SubmissionAndWait \o Pops \o
               <<Do("drain", 0), Do("stop", 0), Do("notify all", 0), Do("join", 0),
                 Do("close", 0), Do("notify all", 0)>>
    /\ UNCHANGED <<current, known, sent, counter, pool, ops, pending, priority, stop, runner,
                   late, asleep>>

--------------------------------------------------------------------------------
(* The owner: its steps                                                    *)

\* queue.submit succeeds, or is rejected for want of memory.
Submits(accepted) ==
    /\ At("submit") /\ current <= MaxTick
    /\ current' = current + 1
    /\ IF accepted
       THEN /\ sent' = current
            /\ pool' = [pool EXCEPT !.command = 0, !.used = Append(@, pool.command)]
            /\ todo' = Tail(todo)
       ELSE /\ todo' = <<Do("retry", current)>> \o Tail(todo)
            /\ UNCHANGED <<sent, pool>>
    /\ UNCHANGED <<known, counter, ops, pending, priority, state, stop, runner, late, asleep>>

\* The submission that was rejected is tried again when all before it are over.
Resubmits ==
    /\ Collects
    /\ known' = KnownAfterWait(N - 1)
    /\ sent' = N
    /\ pool' = [pool EXCEPT !.command = 0, !.used = Append(@, pool.command)]
    /\ todo' = Tail(todo)
    /\ UNCHANGED <<current, counter, ops, pending, priority, state, stop, runner, late, asleep>>

Waits ==
    /\ At("wait") /\ Waited(N)
    /\ known' = KnownAfterWait(N)
    /\ todo' = Tail(todo)
    /\ UNCHANGED <<current, sent, counter, pool, ops, pending, priority, state, stop, runner,
                   late, asleep>>

Refreshes ==
    /\ At("refresh")
    /\ known' = Refreshed
    /\ todo' = Tail(todo)
    /\ UNCHANGED <<current, sent, counter, pool, ops, pending, priority, state, stop, runner,
                   late, asleep>>

\* The first operation, if the GPU is done with its tick, is taken and run when
\* those with priority are over.
PopsOne ==
    /\ At("pop") /\ Unlocked
    /\ IF pending # <<>> /\ known >= ops[Head(pending)].tick
       THEN /\ todo' = <<Do("settle", ops[Head(pending)].tick), Do("start", Head(pending))>> \o todo
            /\ ops' = [ops EXCEPT ![Head(pending)].state = "taken"]
            /\ pending' = Tail(pending)
       ELSE todo' = Tail(todo) /\ UNCHANGED <<ops, pending>>
    /\ UNCHANGED <<current, known, sent, counter, pool, priority, state, stop, runner, late, asleep>>

\* Mutant: the operation that the runner is at is not waited for.
SettledInQueue(tick) == ~(priority # <<>> /\ ops[Head(priority)].tick <= tick)

Settled(tick) ==
    /\ ~(Active /\ ops[runner.op].tick <= tick)
    /\ ~(priority # <<>> /\ ops[Head(priority)].tick <= tick)

Drained == priority = <<>> /\ ~Active

Settles ==
    /\ At("settle") \/ At("drain")
    /\ "owner" \notin asleep /\ Unlocked
    /\ IF (At("settle") /\ Settled(N)) \/ (At("drain") /\ Drained)
       THEN todo' = Tail(todo) /\ UNCHANGED asleep
       ELSE asleep' = asleep \cup {"owner"} /\ UNCHANGED todo
    /\ UNCHANGED <<current, known, sent, counter, pool, ops, pending, priority, state, stop,
                   runner, late>>

Starts ==
    /\ At("start")
    /\ ops' = [ops EXCEPT ![N].state = "running"]
    /\ todo' = <<Do("run", N)>> \o Tail(todo)
    /\ UNCHANGED <<current, known, sent, counter, pool, pending, priority, state, stop, runner,
                   late, asleep>>

Runs ==
    /\ At("run")
    /\ ops' = [ops EXCEPT ![N].state = "done"]
    /\ todo' = Tail(todo)
    /\ UNCHANGED <<current, known, sent, counter, pool, pending, priority, state, stop, runner,
                   late, asleep>>

Notifies ==
    /\ At("notify") \/ At("notify all")
    /\ IF At("notify") THEN NotifyOne ELSE NotifyAll
    /\ todo' = Tail(todo)
    /\ UNCHANGED <<current, known, sent, counter, pool, ops, pending, priority, state, stop,
                   runner, late>>

\* request_stop does not take m_operation_mutex.
RequestsStop ==
    /\ At("stop")
    /\ stop' = TRUE
    /\ todo' = Tail(todo)
    /\ UNCHANGED <<current, known, sent, counter, pool, ops, pending, priority, state, runner,
                   late, asleep>>

Joins ==
    /\ At("join") /\ runner.at = "exited"
    /\ todo' = Tail(todo)
    /\ UNCHANGED <<current, known, sent, counter, pool, ops, pending, priority, state, stop,
                   runner, late, asleep>>

Closes ==
    /\ At("close")
    /\ state' = "Closed"
    /\ todo' = Tail(todo)
    /\ UNCHANGED <<current, known, sent, counter, pool, ops, pending, priority, stop, runner,
                   late, asleep>>

--------------------------------------------------------------------------------
Init ==
    /\ current = 1 /\ known = 0 /\ sent = 0 /\ counter = 0
    /\ pool = [ticks |-> <<>>, hint |-> 1, command |-> 0, used |-> <<>>]
    /\ ops = [i \in Ids |-> NoOp]
    /\ pending = <<>> /\ priority = <<>>
    /\ state = "Open" /\ stop = FALSE
    /\ runner = [at |-> "loop", op |-> 0]
    /\ todo = <<Do("begin", 0)>>
    /\ late = [t \in Latecomers |-> Nobody]
    /\ asleep = {}

\* Operations retire resources, by normal operations, and so does the garbage
\* collector that runs before a submission is tried again: if that is one of a
\* Shutdown, it is a latecomer.
MayDefer(kind) ==
    \/ todo = <<>> /\ state = "Open"
    \/ kind = "normal" /\ (At("run") \/ (Collects /\ state = "Open"))

Call ==
    \/ current < MaxTick /\ (Flush \/ Finish \/ FinishAndDrain \/ Wait(current))
    \/ \E tick \in 1 .. current - 1 : Wait(tick) \/ WaitPriorityOperations(tick)
    \/ PopPendingOperations \/ Shutdown

Step ==
    \/ Begins \/ Submits(TRUE) \/ Resubmits
    \/ Waits \/ Refreshes \/ PopsOne \/ Settles \/ Starts \/ Runs
    \/ Notifies \/ RequestsStop \/ Joins \/ Closes

Runner ==
    RunnerLooks \/ RunnerSleeps \/ RunnerWaits \/ RunnerFinishes \/ RunnerClears \/ RunnerNotifies

Other(t) == OtherShutsDown(t) \/ \E i \in Ids : OtherDefers(t, i)

Late(t) == Resumes(t) \/ \E i \in Ids : WaitsToDefer(t, i)

Next ==
    \/ Call \/ Step \/ Submits(FALSE)
    \/ \E i \in Ids, kind \in {"normal", "priority"} : MayDefer(kind) /\ OwnerDefers(i, kind)
    \/ Runner \/ \E i \in Ids : RunnerDefers(i)
    \/ \E t \in Others : Other(t)
    \/ \E t \in Latecomers : Late(t)
    \/ GpuFinishes

Spec == Init /\ [][Next]_vars

\* Threads run, and the GPU finishes what has been submitted.  A condition
\* variable is not assumed to wake anyone unasked.
Fairness ==
    /\ WF_vars(Step) /\ WF_vars(Runner) /\ WF_vars(GpuFinishes)
    /\ \A t \in Latecomers : WF_vars(Resumes(t))

LiveSpec == Spec /\ Fairness

--------------------------------------------------------------------------------
OpState == {"unused", "queued", "taken", "running", "done", "held"}

TypeOK ==
    /\ current \in 1 .. MaxTick + 1 /\ sent \in {current - 1, current - 2}
    /\ 0 <= known /\ known <= counter /\ counter <= sent
    /\ pool.ticks \in Seq(0 .. current) /\ Len(pool.ticks) % GrowStep = 0
    /\ pool.hint \in 1 .. Len(pool.ticks) + 1 /\ pool.command \in 0 .. Len(pool.ticks)
    /\ pool.used \in [1 .. sent -> 1 .. Len(pool.ticks)]
    /\ ops \in [Ids -> [kind : {"none", "normal", "priority"}, tick : 0 .. current,
                        state : OpState]]
    /\ pending \in Seq(Ids) /\ priority \in Seq(Ids)
    /\ state \in {"Open", "Draining", "Closed"} /\ stop \in BOOLEAN
    /\ runner \in [at : {"loop", "holds", "waits", "runs", "clears", "notifies", "exited"},
                   op : 0 .. MaxOps]
    /\ late \in [Latecomers -> Nobody .. MaxOps]
    /\ asleep \subseteq Others \cup {"owner", "runner"}

\* No operation runs before the GPU has finished the submission that it belongs
\* to: it frees or publishes what that submission uses.
RunsAfterGpu == \A i \in Ids : ops[i].state = "running" => ops[i].tick <= counter

\* A normal operation, which may free what a guest-memory completion of the same
\* submission or of one before reads, runs when all of those have run.
PriorityFirst ==
    At("run") =>
        ~\E j \in Ids : /\ ops[j].kind = "priority" /\ ops[j].tick <= ops[N].tick
                       /\ ops[j].state \in {"queued", "taken", "running"}

\* The command buffer that is being recorded is none that the GPU may still read.
NotInFlight ==
    /\ TypeOK
    /\ pool.command # 0 => \A tick \in counter + 1 .. sent : pool.used[tick] # pool.command

\* Shutdown leaves nothing behind, as its last EXIT_IF demands, whatever callbacks
\* and other threads defer meanwhile; what they defer too late is run by themselves.
NothingLeft ==
    /\ At("close") => pending = <<>> /\ priority = <<>> /\ ~Active
    /\ At("close") \/ state = "Closed" =>
        \A i \in Ids : ops[i].state \in {"unused", "done", "held"}

\* An operation with priority whose submission has reached the queue is run,
\* though the owner may never come back to the scheduler.
PriorityRuns ==
    \A i \in Ids :
        ops[i].kind = "priority" /\ ops[i].state = "queued" /\ ops[i].tick <= sent
            ~> ops[i].state = "done"

\* No call of the owner hangs, but for two places of Shutdown: the join of the
\* runner, and the garbage collector of a submission that was rejected, whose
\* DeferOperation waits for Closed, which only the owner would set.
CallsEnd == todo # <<>> ~> todo = <<>> \/ At("join") \/ late["owner"] # Nobody

\* "The owning thread will finish shutdown after this callback returns."
ShutdownFinishes == state = "Draining" ~> state = "Closed"

================================================================================
