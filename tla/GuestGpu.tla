-------------------------------- MODULE GuestGpu --------------------------------
(***************************************************************************)
(* The guest GPU: one thread that runs the command lists of the guest's    *)
(* queues and the commands of the emulator (GuestGpu of                    *)
(* src/src/graphics/guest_gpu/graphicsRun.cpp).                            *)
(*                                                                         *)
(* What runs under m_queue_mutex is one step.  The GPU thread gives the    *)
(* mutex up while it runs a command or a list; a list runs packet by       *)
(* packet, and a packet that has to wait ends the slice: the submission    *)
(* goes back to the front of its queue, marked blocked, until something    *)
(* else completes or nothing else can run.                                 *)
(*                                                                         *)
(* A list is the sequence of those packets that wait, let others go on or  *)
(* advance the counters of the constant and draw engines; the rest of      *)
(* their work, and the flips that FlipQueue models, leave no trace here.   *)
(* m_pending_commands is the length of m_commands, and m_accepting is      *)
(* ~m_stopping: they change together.  EXIT_IF ends the program: aborted.  *)
(***************************************************************************)
EXTENDS Integers, Sequences, FiniteSets

CONSTANTS
    Threads,        \* threads of the guest and of the emulator
    Labels,         \* memory that packets wait for and write
    ComputeQueues,  \* ComputeQueueCount
    Lists,          \* bound: the command lists guests submit
    MaxRequests     \* bound: submissions and commands

Graphics == 0
QueueCount == 1 + ComputeQueues
Queues == 0 .. QueueCount - 1
Ids == 1 .. MaxRequests

\* Wait is WAIT_REG_MEM and its like, Write WRITE_DATA and its like; the others
\* synchronise the constant engine (Ce) with the draw engine (De).
Packet ==
    [op : {"Wait", "Write"}, arg : Labels] \cup
    [op : {"WaitCe", "IncrementCe", "IncrementDe"}, arg : {0}] \cup
    [op : {"WaitDeDiff"}, arg : Nat]

\* Only graphics lists come with constant commands.
List == [queue : Queues, commands : Seq(Packet), constants : Seq(Packet)]

ASSUME GuestGpuAssumption ==
    /\ ComputeQueues \in Nat /\ MaxRequests \in Nat
    /\ Lists \subseteq List
    /\ \A l \in Lists : l.queue # Graphics => l.constants = <<>>

VARIABLES
    queues,            \* m_queues
    commands,          \* m_commands: the ids of those that wait
    next_queue,        \* m_next_queue
    submission_count,  \* m_submission_count
    processing,        \* m_processing
    stopping,          \* m_stopping
    gpu,               \* the GPU thread: where it is and what it holds
    engines,           \* m_ce_count, m_de_count, m_ce_complete of m_gfx_cp
    label,             \* the memory behind each label: written or not
    call,              \* what each thread waits for, see CallState
    credit,            \* m_suspend_point_ready
    releases,          \* its releases that wait for the native GPU
    next,              \* history: the id of the next request
    ran,               \* history: the requests that have run to their end
    aborted            \* history: the kind of call that ended the program, or ""

guarded == <<queues, commands, next_queue, submission_count, processing, stopping>>
device == <<engines, label, releases>>
history == <<next, ran, aborted>>
vars == <<guarded, gpu, device, call, credit, history>>

--------------------------------------------------------------------------------
Submission ==
    [id : Ids, type : {"List", "FlipPreparation", "SuspendPoint"}, queue : Queues,
     commands : Seq(Packet), constants : Seq(Packet), started : BOOLEAN, blocked : BOOLEAN]

NewSubmission(type, queue, cmds, consts) ==
    [id |-> next, type |-> type, queue |-> queue, commands |-> cmds, constants |-> consts,
     started |-> FALSE, blocked |-> FALSE]

Nothing == [id |-> 0]

CallState ==
    {"none", "idle", "woken",       \* WaitForIdle, asleep or notified
     "sync",                        \* SendCommandSync
     "credit", "suspend",           \* SuspendPoint
     "unmap",                       \* RenderContext::UnmapMemory, IsStopping was false
     "join"}                        \* Shutdown

Running == aborted = ""
At(place) == Running /\ gpu.at = place
In(t, state) == Running /\ call[t].at = state
CallOf(t, state, id) == call' = [call EXCEPT ![t] = [at |-> state, id |-> id]]
Ends(t) == CallOf(t, "none", 0)

\* Mutant: what the GPU thread holds is forgotten.
NothingQueued == commands = <<>> /\ submission_count = 0
Idle == ~processing /\ commands = <<>> /\ submission_count = 0

\* m_idle.Signal and SignalAll, as they change `call'.
Sleepers == {t \in Threads : call[t].at = "idle"}

WakeOne ==
    IF Sleepers = {} THEN UNCHANGED call
    ELSE \E t \in Sleepers : CallOf(t, "woken", 0)

WakeAll ==
    call' = [t \in Threads |-> IF t \in Sleepers THEN [at |-> "woken", id |-> 0] ELSE call[t]]

\* m_work_available.Signal: only the GPU thread sleeps on it.
TellGpu == gpu' = IF At("asleep") THEN [gpu EXCEPT !.at = "look"] ELSE gpu

\* EXIT_IF(!m_accepting).
Exit(kind) ==
    /\ stopping
    /\ aborted' = kind
    /\ UNCHANGED <<guarded, gpu, device, call, credit, next, ran>>

Enqueue(submission) ==
    /\ ~stopping
    /\ queues' = [queues EXCEPT ![submission.queue] = Append(@, submission)]
    /\ submission_count' = submission_count + 1
    /\ next' = next + 1
    /\ TellGpu
    /\ UNCHANGED <<commands, next_queue, processing, stopping, device, ran, aborted>>

--------------------------------------------------------------------------------
\* Calls of the guest.  A call that will make a request keeps room for it.
Underway == {t \in Threads : call[t].at \in {"credit", "suspend", "unmap"}}
MayAsk == Running /\ next + Cardinality(Underway) <= MaxRequests
Free(t) == In(t, "none")

\* Submit and SubmitCompute.
Submit(list) ==
    /\ MayAsk
    /\ \/ /\ Enqueue(NewSubmission("List", list.queue, list.commands, list.constants))
          /\ UNCHANGED <<call, credit>>
       \/ Exit("Submit")

SubmitFlipPreparation ==
    /\ MayAsk
    /\ \/ /\ Enqueue(NewSubmission("FlipPreparation", Graphics, <<>>, <<>>))
          /\ UNCHANGED <<call, credit>>
       \/ Exit("Submit")

CallsSuspendPoint(t) ==
    /\ Free(t) /\ MayAsk
    /\ CallOf(t, "credit", 0)
    /\ UNCHANGED <<guarded, gpu, device, credit, history>>

AcquiresCredit(t) ==
    /\ In(t, "credit")
    /\ credit > 0
    /\ credit' = credit - 1
    /\ CallOf(t, "suspend", 0)
    /\ UNCHANGED <<guarded, gpu, device, history>>

SuspendPoint(t) ==
    /\ In(t, "suspend")
    /\ \/ /\ Enqueue(NewSubmission("SuspendPoint", Graphics, <<>>, <<>>))
          /\ Ends(t)
          /\ UNCHANGED credit
       \/ Exit("SuspendPoint")

\* SendCommandSync, from a thread other than the GPU's.
SendsCommand(t) ==
    /\ ~stopping
    /\ commands' = Append(commands, next)
    /\ next' = next + 1
    /\ CallOf(t, "sync", next)
    /\ TellGpu
    /\ UNCHANGED <<queues, next_queue, submission_count, processing, stopping, device, credit,
                   ran, aborted>>

SendCommandSync(t) == Free(t) /\ MayAsk /\ (SendsCommand(t) \/ Exit("SendCommandSync"))

CommandDone(t) ==
    /\ In(t, "sync") /\ call[t].id \in ran
    /\ Ends(t)
    /\ UNCHANGED <<guarded, gpu, device, credit, history>>

\* UnmapMemory looks whether the GPU is being shut down, which needs the mutex,
\* and if not sends a command.  Otherwise it does the work itself.
LooksForShutdown(t) ==
    /\ Free(t) /\ MayAsk
    /\ ~stopping
    /\ CallOf(t, "unmap", 0)
    /\ UNCHANGED <<guarded, gpu, device, credit, history>>

Unmaps(t) == In(t, "unmap") /\ (SendsCommand(t) \/ Exit("UnmapMemory"))

\* A call that finds the GPU idle returns without a trace.
WaitForIdle(t) ==
    /\ Free(t)
    /\ ~Idle
    /\ CallOf(t, "idle", 0)
    /\ UNCHANGED <<guarded, gpu, device, credit, history>>

LooksAgain(t) ==
    /\ In(t, "woken")
    /\ IF Idle THEN Ends(t) ELSE CallOf(t, "idle", 0)
    /\ UNCHANGED <<guarded, gpu, device, credit, history>>

\* m_shutdown_mutex keeps a second caller out, which then has nothing to do.
Shutdown(t) ==
    /\ Free(t) /\ ~stopping
    /\ stopping' = TRUE
    /\ CallOf(t, "join", 0)
    /\ TellGpu
    /\ UNCHANGED <<queues, commands, next_queue, submission_count, processing, device, credit,
                   history>>

Joins(t) ==
    /\ In(t, "join") /\ At("exited")
    /\ Ends(t)
    /\ UNCHANGED <<guarded, gpu, device, credit, history>>

\* The CPU of the guest writes what a packet waits for.
GuestWrites(l) ==
    /\ Running /\ ~label[l]
    /\ label' = [label EXCEPT ![l] = TRUE]
    /\ UNCHANGED <<guarded, gpu, engines, releases, call, credit, history>>

\* The native GPU has come to a suspend point: its operation releases the credit.
ReleasesCredit ==
    /\ Running /\ releases > 0
    /\ releases' = releases - 1
    /\ credit' = credit + 1
    /\ UNCHANGED <<guarded, gpu, engines, label, call, history>>

--------------------------------------------------------------------------------
\* The GPU thread, from the top of the loop of ThreadRun.

GpuSleeps ==
    /\ At("look")
    /\ commands = <<>> /\ submission_count = 0 /\ ~stopping
    /\ processing' = FALSE
    /\ WakeOne
    /\ gpu' = [gpu EXCEPT !.at = "asleep"]
    /\ UNCHANGED <<queues, commands, next_queue, submission_count, stopping, device, credit,
                   history>>

\* CondVar::Wait comes back every 10 ms, for the GPU thread and in WaitForIdle.
WakesAlone ==
    /\ \/ At("asleep") /\ TellGpu /\ UNCHANGED call
       \/ Running /\ Sleepers # {} /\ WakeOne /\ UNCHANGED gpu
    /\ UNCHANGED <<guarded, device, credit, history>>

GpuStops ==
    /\ At("look")
    /\ commands = <<>> /\ submission_count = 0 /\ stopping
    /\ processing' = FALSE
    /\ WakeAll
    /\ gpu' = [gpu EXCEPT !.at = "stops"]
    /\ UNCHANGED <<queues, commands, next_queue, submission_count, stopping, device, credit,
                   history>>

\* BufferWait: what has been recorded is submitted and the native GPU waited for.
GpuExits ==
    /\ At("stops")
    /\ gpu' = [gpu EXCEPT !.at = "exited"]
    /\ UNCHANGED <<guarded, device, call, credit, history>>

GpuTakesCommand ==
    /\ At("look")
    /\ commands # <<>>
    /\ gpu' = [gpu EXCEPT !.at = "command", !.command = Head(commands)]
    /\ commands' = Tail(commands)
    /\ processing' = TRUE
    /\ UNCHANGED <<queues, next_queue, submission_count, stopping, device, call, credit, history>>

RunsCommand ==
    /\ At("command")
    /\ ran' = ran \cup {gpu.command}
    /\ gpu' = [gpu EXCEPT !.at = "over", !.command = 0]
    /\ UNCHANGED <<guarded, device, call, credit, next, aborted>>

CanRun(q) == queues[q] # <<>> /\ ~queues[q][1].blocked
Distance(q) == (q - next_queue) % QueueCount
Selected(q) == CanRun(q) /\ \A r \in Queues : CanRun(r) => Distance(q) <= Distance(r)

After(q) == (q + 1) % QueueCount

\* The first slice of a submission resets the counters of its processor.
GpuTakesSubmission ==
    /\ At("look")
    /\ commands = <<>>
    /\ \E q \in Queues :
        /\ Selected(q)
        /\ LET submission == Head(queues[q]) IN
            /\ gpu' = [gpu EXCEPT !.at = "constants", !.moved = FALSE,
                                  !.submission = [submission EXCEPT !.started = TRUE]]
            /\ engines' = IF q = Graphics /\ ~submission.started
                          THEN [ce |-> 0, de |-> 0, ce_complete |-> FALSE] ELSE engines
        /\ queues' = [queues EXCEPT ![q] = Tail(@)]
        /\ next_queue' = After(q)
    /\ submission_count' = submission_count - 1
    /\ processing' = TRUE
    /\ UNCHANGED <<commands, stopping, label, releases, call, credit, history>>

\* Everything that is queued is blocked: WaitFor, 100 us ...
GpuDozes ==
    /\ At("look")
    /\ commands = <<>> /\ submission_count # 0
    /\ \A q \in Queues : ~CanRun(q)
    /\ processing' = FALSE
    /\ gpu' = [gpu EXCEPT !.at = "dozes"]
    /\ UNCHANGED <<queues, commands, next_queue, submission_count, stopping, device, call, credit,
                   history>>

\* Mutant: nobody gets one.
StillBlocked == queues
Unblocked ==
    [q \in Queues |-> IF queues[q] = <<>> THEN <<>> ELSE [queues[q] EXCEPT ![1].blocked = FALSE]]

\* ... then everyone gets another chance.
GpuTriesAgain ==
    /\ At("dozes")
    /\ queues' = Unblocked
    /\ gpu' = [gpu EXCEPT !.at = "look"]
    /\ UNCHANGED <<commands, next_queue, submission_count, processing, stopping, device, call,
                   credit, history>>

--------------------------------------------------------------------------------
\* Process and ProcessPm4: the slice of a submission.

IsList == gpu.submission.type = "List"

\* ProcessCommands, before each packet.  A command that comes after the look is
\* as good as one that comes after the packet.
ServesCommand ==
    /\ (At("constants") \/ At("commands")) /\ IsList
    /\ commands # <<>>
    /\ commands' = Tail(commands)
    /\ ran' = ran \cup {Head(commands)}
    /\ UNCHANGED <<queues, next_queue, submission_count, processing, stopping, gpu, device, call,
                   credit, next, aborted>>

\* SuspendPm4: WaitRegMem, WaitCe, WaitDeDiff.
Suspends(p) ==
    \/ p.op = "Wait" /\ ~label[p.arg]
    \/ p.op = "WaitCe" /\ engines.ce <= engines.de /\ ~engines.ce_complete
    \/ p.op = "WaitDeDiff" /\ engines.ce - engines.de >= p.arg

Executes(p) ==
    /\ label' = IF p.op = "Write" THEN [label EXCEPT ![p.arg] = TRUE] ELSE label
    /\ engines' = CASE p.op = "IncrementCe" -> [engines EXCEPT !.ce = @ + 1]
                     [] p.op = "IncrementDe" -> [engines EXCEPT !.de = @ + 1]
                     [] OTHER -> engines

Stops(stream) == stream # <<>> => commands = <<>> /\ Suspends(Head(stream))
Goes(stream) == stream # <<>> /\ commands = <<>> /\ ~Suspends(Head(stream))

RunsConstant ==
    /\ At("constants") /\ IsList
    /\ LET stream == gpu.submission.constants IN
        /\ Goes(stream)
        /\ Executes(Head(stream))
        /\ gpu' = [gpu EXCEPT !.submission.constants = Tail(@), !.moved = TRUE]
    /\ UNCHANGED <<guarded, releases, call, credit, history>>

ConstantsStop ==
    /\ At("constants") /\ IsList
    /\ Stops(gpu.submission.constants)
    /\ gpu' = [gpu EXCEPT !.at = "commands"]
    /\ engines' = IF gpu.submission.queue = Graphics
                  THEN [engines EXCEPT !.ce_complete = gpu.submission.constants = <<>>]
                  ELSE engines
    /\ UNCHANGED <<guarded, label, releases, call, credit, history>>

RunsPacket ==
    /\ At("commands")
    /\ LET stream == gpu.submission.commands IN
        /\ Goes(stream)
        /\ Executes(Head(stream))
        /\ gpu' = [gpu EXCEPT !.submission.commands = Tail(@), !.moved = TRUE]
    /\ UNCHANGED <<guarded, releases, call, credit, history>>

Complete == gpu.submission.commands = <<>> /\ gpu.submission.constants = <<>>

\* Graphics starts another round if one of the engines has moved.
CommandsStop ==
    /\ At("commands")
    /\ Stops(gpu.submission.commands)
    /\ gpu' = IF ~Complete /\ gpu.moved /\ gpu.submission.queue = Graphics
              THEN [gpu EXCEPT !.at = "constants", !.moved = FALSE]
              ELSE [gpu EXCEPT !.at = "over"]
    /\ ran' = IF Complete THEN ran \cup {gpu.submission.id} ELSE ran
    /\ UNCHANGED <<guarded, device, call, credit, next, aborted>>

\* Mutant: every marker releases the credit.
EveryMarker == releases + 1
Deferred == IF gpu.submission.type = "SuspendPoint" THEN releases + 1 ELSE releases

\* PrepareCpuFlip, or the suspend point.
RunsMarker ==
    /\ At("constants") /\ ~IsList
    /\ releases' = Deferred
    /\ gpu' = [gpu EXCEPT !.at = "over"]
    /\ ran' = ran \cup {gpu.submission.id}
    /\ UNCHANGED <<guarded, engines, label, call, credit, next, aborted>>

\* Mutant: it goes to the back.
ToTheBack(queue) == Append(queue, [gpu.submission EXCEPT !.blocked = TRUE])
PutBack(queue) == <<[gpu.submission EXCEPT !.blocked = TRUE]>> \o queue

\* The end of ThreadRun's loop: a submission that is not complete goes back to
\* the front, one that is may have unblocked the others.
GpuLooksAgain ==
    /\ At("over")
    /\ IF gpu.submission.id = 0
       THEN UNCHANGED <<queues, submission_count>>
       ELSE IF Complete
            THEN queues' = Unblocked /\ UNCHANGED submission_count
            ELSE /\ queues' = [queues EXCEPT ![gpu.submission.queue] = PutBack(@)]
                 /\ submission_count' = submission_count + 1
    /\ processing' = FALSE
    /\ IF commands = <<>> /\ submission_count' = 0 THEN WakeAll ELSE UNCHANGED call
    /\ gpu' = [gpu EXCEPT !.at = "look", !.submission = Nothing]
    /\ UNCHANGED <<commands, next_queue, stopping, device, credit, history>>

--------------------------------------------------------------------------------
Init ==
    /\ queues = [q \in Queues |-> <<>>] /\ commands = <<>>
    /\ next_queue = 0 /\ submission_count = 0
    /\ processing = FALSE /\ stopping = FALSE
    /\ gpu = [at |-> "look", command |-> 0, submission |-> Nothing, moved |-> FALSE]
    /\ engines = [ce |-> 0, de |-> 0, ce_complete |-> FALSE]
    /\ label = [l \in Labels |-> FALSE]
    /\ call = [t \in Threads |-> [at |-> "none", id |-> 0]]
    /\ credit = 1 /\ releases = 0
    /\ next = 1 /\ ran = {} /\ aborted = ""

Asks(t) ==
    \/ CallsSuspendPoint(t) \/ SendCommandSync(t) \/ LooksForShutdown(t)
    \/ WaitForIdle(t) \/ Shutdown(t)

Continues(t) ==
    \/ AcquiresCredit(t) \/ SuspendPoint(t) \/ CommandDone(t) \/ Unmaps(t)
    \/ LooksAgain(t) \/ Joins(t)

Gpu ==
    \/ GpuSleeps \/ GpuStops \/ GpuExits \/ GpuTakesCommand \/ RunsCommand
    \/ GpuTakesSubmission \/ GpuDozes \/ GpuTriesAgain
    \/ ServesCommand \/ RunsConstant \/ ConstantsStop \/ RunsPacket \/ CommandsStop
    \/ RunsMarker \/ GpuLooksAgain

Next ==
    \/ \E list \in Lists : Submit(list)
    \/ SubmitFlipPreparation
    \/ \E t \in Threads : Asks(t) \/ Continues(t)
    \/ \E l \in Labels : GuestWrites(l)
    \/ ReleasesCredit
    \/ Gpu \/ WakesAlone

Spec == Init /\ [][Next]_vars

\* Threads run, the 100 us of a doze pass, and the native GPU comes to every
\* suspend point.  The guest need not write anything, and the 10 ms poll of
\* CondVar::Wait is not counted on.
Fairness ==
    /\ WF_vars(Gpu) /\ WF_vars(ReleasesCredit)
    /\ \A t \in Threads : WF_vars(Continues(t))

LiveSpec == Spec /\ Fairness

--------------------------------------------------------------------------------
\* What the GPU thread holds of a queue, before what is in it.
Pipeline(q) ==
    (IF gpu.submission.id # 0 /\ gpu.submission.queue = q THEN <<gpu.submission>> ELSE <<>>)
    \o queues[q]

\* The places of m_queues that are taken.
Waiting == UNION {{q} \X DOMAIN queues[q] : q \in Queues}

\* The state is well formed and the counter of m_queues counts them.
TypeOK ==
    /\ \A q \in Queues : \A i \in 1 .. Len(Pipeline(q)) : Pipeline(q)[i] \in Submission
    /\ commands \in Seq(Ids)
    /\ next_queue \in Queues
    /\ submission_count = Cardinality(Waiting)
    /\ processing \in BOOLEAN /\ stopping \in BOOLEAN
    /\ gpu.at \in {"look", "asleep", "dozes", "command", "constants", "commands", "over",
                   "stops", "exited"}
    /\ gpu.command \in 0 .. MaxRequests /\ gpu.moved \in BOOLEAN
    /\ engines \in [ce : Nat, de : Nat, ce_complete : BOOLEAN]
    /\ label \in [Labels -> BOOLEAN]
    /\ call \in [Threads -> [at : CallState, id : 0 .. MaxRequests]]
    /\ credit \in 0 .. 1 /\ releases \in 0 .. 1
    /\ next \in 1 .. MaxRequests + 1 /\ ran \subseteq Ids
    /\ aborted \in {"", "Submit", "SuspendPoint", "SendCommandSync", "UnmapMemory"}

\* The submissions of a queue run in the order of the calls, also when one of
\* them stalls in the middle, goes back to its queue and lets other queues run:
\* only the first may have begun, for its packets wait for counters of the one
\* processor that the next to begin would reset.
InOrder ==
    /\ TypeOK
    /\ \A q \in Queues : LET line == Pipeline(q) IN
        /\ \A i, j \in 1 .. Len(line) : i < j => line[i].id < line[j].id
        /\ \A i \in 2 .. Len(line) : ~line[i].started
        /\ \A i \in 1 .. Len(line) : line[i].id \in ran => gpu.at = "over" /\ i = 1

\* WaitForIdle returns only when all that was asked before has run to its end:
\* neither the slice between two looks at the queues nor a stalled submission
\* that waits for its next one is taken for idleness.  Nor does the thread exit
\* and leave anything behind.
IdleMeansDone ==
    [][(gpu'.at = "stops" \/ \E t \in Threads : call[t].at = "woken" /\ call'[t].at = "none")
       => ran = 1 .. next - 1]_vars

\* A guest is let through its suspend point one frame ahead of the native GPU
\* and no more; and its permission is never lost, however the frames end.
SuspendPoints ==
    Cardinality({t \in Threads : call[t].at = "suspend"})
    + Cardinality({place \in Queues \X Ids : LET line == Pipeline(place[1]) IN
        /\ place[2] <= Len(line)
        /\ line[place[2]].type = "SuspendPoint" /\ line[place[2]].id \notin ran})

OneSuspendPoint == credit + releases + SuspendPoints = 1

\* A command is served although every queue may be stalled for good, and if all
\* that packets wait for is written at last, every call comes to an end.  Only
\* a call that comes too late ends the program.
CallsEnd ==
    \A t \in Threads :
        /\ (call[t].at = "sync") ~> (call[t].at # "sync" \/ aborted # "")
        /\ (\A l \in Labels : <>label[l]) =>
              ((call[t].at # "none") ~> (call[t].at = "none" \/ aborted # ""))

\* "Shutdown still owns the GPU while queued rendering drains, but its command
\* lane no longer accepts external work.  Use the guest GPU's state for the
\* teardown route" (renderContext.cpp:118): unmapping memory is possible at any
\* time.  The state may change after IsStopping has looked at it.
UnmapSurvivesShutdown == aborted # "UnmapMemory"
================================================================================
