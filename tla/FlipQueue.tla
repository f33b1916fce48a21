------------------------------- MODULE FlipQueue -------------------------------
(***************************************************************************)
(* The flips of the display ports: FlipQueue and the part of               *)
(* VideoOutDriver::Impl that opens, closes and groups ports, of            *)
(* src/src/graphics/presentation/videoOut.cpp.                             *)
(*                                                                         *)
(* Guest threads submit flips (CPU), open, close and group ports.  The GPU *)
(* thread submits flips of its own (end of pipe), prepares the frames of   *)
(* all of them, and can wait for a free slot or for the flips of a port.   *)
(* A priority operation completes a request when the GPU has drawn it.     *)
(* The present thread takes the first group of the queue at each Vblank.   *)
(*                                                                         *)
(* Three locks matter.  A step under FlipQueue::m_mutex is one action.     *)
(* The port mutexes are held by the present thread from Show to Finish,    *)
(* and otherwise within one action: Locked.  Impl::m_mutex is held by a    *)
(* Close through all of its steps, and by the Vblank: closer.              *)
(*                                                                         *)
(* Each port has one buffer, and a request stays in the model when it is   *)
(* over, so that the history of its frame can be checked.                  *)
(***************************************************************************)
EXTENDS Integers, Sequences, FiniteSets, SequencesExt

CONSTANTS
    Ports,
    Pairs,         \* bound: the <<slave, master>> pairs guests try to make
    Sources,       \* subset of {"Cpu", "GpuEop"}
    Capacity,      \* VIDEO_OUT_FLIP_QUEUE_CAPACITY
    MaxRequests,   \* bound: flips submitted
    MaxGeneration, \* bound: each port is opened and closed so many times
    None

ASSUME FlipQueueAssumption ==
    /\ IsFiniteSet(Ports) /\ None \notin Ports
    /\ Pairs \subseteq Ports \X Ports
    /\ Sources \subseteq {"Cpu", "GpuEop"}
    /\ Capacity \in Nat \ {0} /\ MaxRequests \in Nat /\ MaxGeneration \in Nat

VARIABLES
    port,      \* VideoOutConfig of each port: opened, generation, master, slaves, pending, gc
    req,       \* the requests, by their id
    next,      \* m_next_request_id
    queue,     \* m_requests: the order of the ids in it
    present,   \* the present thread: what it is at, the group it has picked, whether it was due
    gpu,       \* the GPU thread: what it is at, with which request or port
    closer     \* the Close under way: its port, the master it had, its next step

vars == <<port, req, next, queue, present, gpu, closer>>

Ids == 1 .. MaxRequests

--------------------------------------------------------------------------------
\* In m_requests or m_cpu_requests.
Listed == {i \in Ids : req[i].where \in {"queue", "cpu"}}
ListedOf(p) == {i \in Listed : req[i].port = p}
Members(g) == {i \in Listed : req[i].group = g}
Current(i) == port[req[i].port].opened /\ port[req[i].port].generation = req[i].generation

Picked == {i \in Ids : req[i].state = "Presenting"}
Locked(p) == present.at = "locked" /\ \E i \in Picked : req[i].port = p

\* Mutant: only the waits for a slot are notified.
WokenForSlot(kinds) ==
    IF gpu.at = "asleep" /\ gpu.for \in kinds \ {"done"} THEN [gpu EXCEPT !.at = "awake"] ELSE gpu

\* SignalAll on m_done_cond_var, or on that and m_submit_slot_cond_var.
Woken(kinds) ==
    IF gpu.at = "asleep" /\ gpu.for \in kinds THEN [gpu EXCEPT !.at = "awake"] ELSE gpu

Request(p, source, group) ==
    [port |-> p, master |-> port[p].master, generation |-> port[p].generation,
     group |-> group, source |-> source, state |-> "Reserved", frame |-> "none",
     where |-> IF source = "GpuEop" THEN "queue" ELSE "cpu"]

NoRequest ==
    [port |-> None, master |-> None, generation |-> 0, group |-> 0, source |-> "None",
     state |-> "None", frame |-> "none", where |-> "unused"]

\* Mutant: what the GPU may still draw is forgotten too.
DroppedForGood(r) ==
    [r EXCEPT !.where = "gone", !.state = "None",
              !.frame = IF @ = "drawn" THEN "discarded" ELSE @]

\* How a request leaves the two lists early: what the GPU may still draw is kept aside.
Dropped(r) ==
    IF r.state = "Ready" THEN [r EXCEPT !.where = "gone", !.state = "None", !.frame = "discarded"]
    ELSE [r EXCEPT !.where = "cancelled"]

\* The queue without some ids: the others keep their order.
Without(ids) ==
    LET kept == {n \in DOMAIN queue : queue[n] \notin ids}
        rank(n) == Cardinality({m \in kept : m <= n})
    IN [k \in 1 .. Cardinality(kept) |-> queue[CHOOSE n \in kept : rank(n) = k]]

Idle == [at |-> "idle", id |-> 0, port |-> None, for |-> "none"]
NoCloser == [port |-> None, master |-> None, at |-> "none"]

Init ==
    /\ port = [p \in Ports |-> [opened |-> FALSE, generation |-> 0, master |-> None,
                                slaves |-> 0, pending |-> 0, gc |-> 0]]
    /\ req = [i \in Ids |-> NoRequest]
    /\ next = 1
    /\ queue = <<>>
    /\ present = [at |-> "vblank", group |-> 0, due |-> FALSE]
    /\ gpu = Idle
    /\ closer = NoCloser

--------------------------------------------------------------------------------
(* Guest threads: ports                                                    *)

Open(p) ==
    /\ closer = NoCloser
    /\ ~port[p].opened /\ port[p].generation < MaxGeneration
    /\ port' = [port EXCEPT ![p].opened = TRUE, ![p].generation = @ + 1,
                            ![p].pending = 0, ![p].gc = 0]
    /\ UNCHANGED <<req, next, queue, present, gpu, closer>>

SetFlipMaster(slave, master) ==
    /\ closer = NoCloser
    /\ slave # master
    /\ port[slave].opened /\ port[master].opened
    /\ ~Locked(slave) /\ ~Locked(master)
    /\ port[slave].master = None /\ port[slave].slaves = 0 /\ port[master].master = None
    /\ port[slave].pending = 0 /\ port[master].pending = 0
    /\ port' = [port EXCEPT ![slave].master = master, ![master].slaves = @ + 1]
    /\ UNCHANGED <<req, next, queue, present, gpu, closer>>

\* Close, up to the point where the port mutex is released.  A master that
\* still has slaves must not be closed: the program would exit.
CloseStarts(p) ==
    /\ closer = NoCloser
    /\ port[p].opened /\ port[p].slaves = 0
    /\ ~Locked(p)
    /\ port' = [port EXCEPT ![p].opened = FALSE, ![p].generation = @ + 1, ![p].master = None]
    /\ closer' = [port |-> p, master |-> port[p].master, at |-> "master"]
    /\ UNCHANGED <<req, next, queue, present, gpu>>

CloseLeavesMaster ==
    /\ closer.at = "master"
    /\ IF closer.master = None THEN UNCHANGED port
       ELSE ~Locked(closer.master) /\ port' = [port EXCEPT ![closer.master].slaves = @ - 1]
    /\ closer' = [closer EXCEPT !.at = "cancel"]
    /\ UNCHANGED <<req, next, queue, present, gpu>>

\* Mutant: Cancel does not wait for the present thread.
NeverBusy(p) == TRUE

NotPresenting(p) == ~\E i \in Picked : req[i].port = p

Cancel ==
    LET p == closer.port IN
    /\ closer.at = "cancel"
    /\ NotPresenting(p)
    /\ req' = [i \in Ids |-> IF i \in ListedOf(p) THEN Dropped(req[i]) ELSE req[i]]
    /\ queue' = Without(ListedOf(p))
    /\ gpu' = Woken({"done", "slot"})
    /\ closer' = [closer EXCEPT !.at = "reset"]
    /\ UNCHANGED <<port, next, present>>

CancelResets ==
    /\ closer.at = "reset"
    /\ ~Locked(closer.port)
    /\ port' = [port EXCEPT ![closer.port].pending = 0, ![closer.port].gc = 0]
    /\ closer' = NoCloser
    /\ UNCHANGED <<req, next, queue, present, gpu>>

--------------------------------------------------------------------------------
(* Submission                                                              *)

\* Mutant: the request that the GPU thread has yet to prepare is overlooked.
ReplacedInQueue(p) ==
    IF port[p].master = None THEN {}
    ELSE {i \in ListedOf(p) : req[i].group = 0 /\ req[i].where = "queue"}

\* A newer request of a slave replaces the one that no master flip has captured.
Replaced(p) ==
    IF port[p].master = None THEN {} ELSE {i \in ListedOf(p) : req[i].group = 0}

FromGpu(ids) == Cardinality({i \in ids : req[i].source = "GpuEop"})

\* Mutant: what is replaced stays pending.
KeepsReplaced(p) == port[p].pending

StillPending(p) == port[p].pending - Cardinality(Replaced(p))

\* The requests of slaves that a flip of p captures.
Captured(p) ==
    IF port[p].slaves = 0 THEN {}
    ELSE {i \in Listed : req[i].master = p /\ req[i].group = 0}

\* FlipQueue::Reserve, when it does not return false.  A full queue has nothing to replace.
Reserve(p, source) ==
    LET group == IF port[p].master = None THEN next ELSE 0
        new == Request(p, source, group)
    IN
    /\ next \in Ids
    /\ port[p].opened /\ ~Locked(p)
    /\ StillPending(p) < Capacity
    /\ req' = [i \in Ids |->
                 IF i = next THEN new
                 ELSE IF i \in Replaced(p) THEN Dropped(req[i])
                 ELSE IF i \in Captured(p) THEN [req[i] EXCEPT !.group = next]
                 ELSE req[i]]
    /\ queue' = IF source = "GpuEop" THEN Append(Without(Replaced(p)), next)
                ELSE Without(Replaced(p))
    /\ port' = [port EXCEPT
                 ![p].pending = StillPending(p) + 1,
                 ![p].gc = @ - FromGpu(Replaced(p)) + (IF source = "GpuEop" THEN 1 ELSE 0)]
    /\ next' = next + 1
    /\ UNCHANGED <<present, closer>>

\* VideoOutSubmitFlip.  The GPU thread will find the request to prepare.
SubmitFlip(p) ==
    /\ "Cpu" \in Sources
    /\ Reserve(p, "Cpu")
    /\ gpu' = IF port[p].master # None THEN Woken({"done"}) ELSE gpu

\* PrepareVideoOutFlip: SubmitFlipFromGpu, or WaitForSubmitSlot when the queue is full.
SubmitFlipFromGpu(p) ==
    /\ "GpuEop" \in Sources
    /\ gpu.at = "idle"
    /\ Reserve(p, "GpuEop")
    /\ gpu' = [Idle EXCEPT !.at = "prepare", !.id = next]

GpuMustWait(p, for) ==
    CASE for = "slot" -> Cardinality(ListedOf(p)) >= Capacity
      [] for = "done" -> ListedOf(p) # {}

GpuWaits(p, for) ==
    /\ gpu.at = "idle" /\ port[p].opened
    /\ for = "slot" => "GpuEop" \in Sources /\ ~Locked(p) /\ StillPending(p) >= Capacity
    /\ GpuMustWait(p, for)
    /\ for = "slot" => queue # <<>>
    /\ gpu' = [Idle EXCEPT !.at = "asleep", !.port = p, !.for = for]
    /\ UNCHANGED <<port, req, next, queue, present, closer>>

\* CondVar::Wait comes back every 10 ms.
GpuWakesAlone ==
    /\ gpu.at = "asleep"
    /\ gpu' = [gpu EXCEPT !.at = "awake"]
    /\ UNCHANGED <<port, req, next, queue, present, closer>>

\* If only CPU flips are left to wait for a slot, the program exits.
GpuResumes ==
    /\ gpu.at = "awake"
    /\ IF GpuMustWait(gpu.port, gpu.for)
       THEN /\ gpu.for = "slot" => queue # <<>>
            /\ gpu' = [gpu EXCEPT !.at = "asleep"]
       ELSE gpu' = Idle
    /\ UNCHANGED <<port, req, next, queue, present, closer>>

--------------------------------------------------------------------------------
(* The GPU thread draws                                                    *)

\* PrepareCpuFlip.
TakesCpuFlip(i) ==
    /\ gpu.at = "idle"
    /\ req[i].source = "Cpu" /\ req[i].state = "Reserved"
    /\ gpu' = [Idle EXCEPT !.at = "prepare", !.id = i]
    /\ UNCHANGED <<port, req, next, queue, present, closer>>

\* The first part of Prepare.  A request that was cancelled is not drawn.
PrepareStarts ==
    LET i == gpu.id IN
    /\ gpu.at = "prepare"
    /\ req' = [req EXCEPT ![i].state = "Recording",
                          ![i].where = IF @ = "cpu" THEN "queue" ELSE @]
    /\ queue' = IF req[i].where = "cpu" THEN Append(queue, i) ELSE queue
    /\ gpu' = IF req[i].where = "cancelled" THEN Idle ELSE [gpu EXCEPT !.at = "look"]
    /\ UNCHANGED <<port, next, present, closer>>

PrepareLooks ==
    /\ gpu.at = "look"
    /\ ~Locked(req[gpu.id].port)
    /\ gpu' = [gpu EXCEPT !.at = IF Current(gpu.id) THEN "draw" ELSE "stale"]
    /\ UNCHANGED <<port, req, next, queue, present, closer>>

PrepareCancels ==
    LET i == gpu.id IN
    /\ gpu.at = "stale"
    /\ req' = [req EXCEPT ![i].where = IF @ = "queue" THEN "cancelled" ELSE @]
    /\ queue' = Without({i})
    /\ gpu' = Idle
    /\ UNCHANGED <<port, next, present, closer>>

\* PrepareFrame, and the last part of Prepare.
PrepareDraws ==
    /\ gpu.at = "draw"
    /\ req' = [req EXCEPT ![gpu.id].frame = "drawn"]
    /\ gpu' = Idle
    /\ UNCHANGED <<port, next, queue, present, closer>>

\* Mutant: the frame of a request that was cancelled while it was drawn is lost.
ForgetsFrame(r) == [r EXCEPT !.where = "gone", !.state = "None"]

\* Mutant: the request stays among the cancelled ones.
KeepsCancelled(r) == [r EXCEPT !.frame = IF @ = "drawn" THEN "discarded" ELSE @]

\* The end of a request that was cancelled.
Discards(r) ==
    [r EXCEPT !.where = "gone", !.state = "None",
              !.frame = IF @ = "drawn" THEN "discarded" ELSE @]

\* Complete, when the GPU has drawn the frame.
Complete(i) ==
    /\ req[i].state = "Recording" /\ gpu.id # i
    /\ IF req[i].where = "queue"
       THEN req' = [req EXCEPT ![i].state = "Ready"] /\ UNCHANGED gpu
       ELSE req' = [req EXCEPT ![i] = Discards(@)] /\ gpu' = Woken({"done"})
    /\ UNCHANGED <<port, next, queue, present, closer>>

--------------------------------------------------------------------------------
(* The present thread                                                      *)

Owners == {n \in DOMAIN queue : req[queue[n]].group = queue[n]}
Owner == queue[CHOOSE n \in Owners : \A m \in Owners : n <= m]

GroupReady(g) == \A i \in Members(g) : req[i].where = "queue" /\ req[i].state = "Ready"

\* The first group of the queue, if all of it is ready: nothing overtakes it.
Pick ==
    /\ present.at = "flip"
    /\ IF Owners # {} /\ GroupReady(Owner)
       THEN /\ present' = [at |-> "picked", group |-> Owner, due |-> FALSE]
            /\ req' = [i \in Ids |-> IF i \in Members(Owner) /\ req[i].where = "queue"
                                     THEN [req[i] EXCEPT !.state = "Presenting"] ELSE req[i]]
       ELSE /\ present' = [at |-> "vblank", group |-> 0, due |-> FALSE]
            /\ UNCHANGED req
    /\ UNCHANGED <<port, next, queue, gpu, closer>>

\* The ports are locked in bus order, and the layers presented together if
\* every port is the one the request was made for and the rate of the owner allows.
Show(rate_allows) ==
    LET due == rate_allows /\ \A i \in Picked : Current(i) IN
    /\ present.at = "picked"
    /\ present' = [present EXCEPT !.at = "locked", !.due = due]
    /\ req' = [i \in Ids |-> IF due /\ i \in Picked
                             THEN [req[i] EXCEPT !.frame = "shown"] ELSE req[i]]
    /\ UNCHANGED <<port, next, queue, gpu, closer>>

Finish ==
    LET done == IF present.due THEN {i \in Listed : req[i].group = present.group} ELSE {}
        of(p) == {i \in done : req[i].port = p}
    IN
    /\ present.at = "locked"
    /\ req' = [i \in Ids |->
                 IF i \in done THEN [req[i] EXCEPT !.where = "gone", !.state = "None"]
                 ELSE IF i \in Picked THEN [req[i] EXCEPT !.state = "Ready"] ELSE req[i]]
    /\ queue' = Without(done)
    /\ port' = [p \in Ports |-> [port[p] EXCEPT !.pending = @ - Cardinality(of(p)),
                                                !.gc = @ - FromGpu(of(p))]]
    /\ present' = [at |-> "vblank", group |-> 0, due |-> FALSE]
    /\ gpu' = Woken({"done", "slot"})
    /\ UNCHANGED <<next, closer>>

\* Mutant: the Vblank does not need Impl::m_mutex.
VblankAnyTime ==
    /\ present.at = "vblank"
    /\ present' = [present EXCEPT !.at = "flip"]
    /\ UNCHANGED <<port, req, next, queue, gpu, closer>>

\* VblankEnd, the sleep of the present thread, and VblankBegin.
Vblank ==
    /\ present.at = "vblank"
    /\ closer = NoCloser
    /\ present' = [present EXCEPT !.at = "flip"]
    /\ UNCHANGED <<port, req, next, queue, gpu, closer>>

--------------------------------------------------------------------------------
Close == CloseLeavesMaster \/ Cancel \/ CancelResets

Prepare == PrepareStarts \/ PrepareLooks \/ PrepareCancels \/ PrepareDraws

Present == Pick \/ (\E rate_allows \in BOOLEAN : Show(rate_allows)) \/ Finish

Next ==
    \/ \E p \in Ports : Open(p) \/ CloseStarts(p)
    \/ \E pair \in Pairs : SetFlipMaster(pair[1], pair[2])
    \/ Close
    \/ \E p \in Ports : SubmitFlip(p) \/ SubmitFlipFromGpu(p)
    \/ \E p \in Ports, for \in {"slot", "done"} : GpuWaits(p, for)
    \/ GpuWakesAlone \/ GpuResumes
    \/ \E i \in Ids : TakesCpuFlip(i) \/ Complete(i)
    \/ Prepare
    \/ Present \/ Vblank

Spec == Init /\ [][Next]_vars

\* Threads run and mutexes are granted; the rate of a port allows a flip every
\* few Vblanks.  Nothing is assumed of the guest, and no 10 ms poll.
Fairness ==
    /\ WF_vars(CloseLeavesMaster) /\ WF_vars(Cancel) /\ WF_vars(CancelResets)
    /\ WF_vars(GpuResumes) /\ WF_vars(Prepare)
    /\ \A i \in Ids : WF_vars(TakesCpuFlip(i)) /\ WF_vars(Complete(i))
    /\ WF_vars(Present) /\ WF_vars(Vblank)
    /\ SF_vars(Show(TRUE))

LiveSpec == Spec /\ Fairness

--------------------------------------------------------------------------------
RequestState == {"None", "Reserved", "Recording", "Ready", "Presenting"}

TypeOK ==
    /\ port \in [Ports -> [opened : BOOLEAN, generation : 0 .. MaxGeneration + 1,
                           master : Ports \cup {None}, slaves : Nat,
                           pending : 0 .. Capacity, gc : 0 .. Capacity]]
    /\ req \in [Ids -> [port : Ports \cup {None}, master : Ports \cup {None}, generation : Nat,
                        group : 0 .. MaxRequests, source : Sources \cup {"None"},
                        state : RequestState,
                        frame : {"none", "drawn", "shown", "discarded"},
                        where : {"unused", "queue", "cpu", "cancelled", "gone"}]]
    /\ next \in 1 .. MaxRequests + 1
    /\ queue \in Seq(Ids) /\ IsInjective(queue)
    /\ Range(queue) = {i \in Ids : req[i].where = "queue"}
    /\ present \in [at : {"vblank", "flip", "picked", "locked"}, group : 0 .. MaxRequests,
                    due : BOOLEAN]
    /\ gpu.at \in {"idle", "prepare", "look", "draw", "stale", "asleep", "awake"}
    /\ closer.at \in {"none", "master", "cancel", "reset"}

\* The counters of the flip status of an open port, which the guest reads and
\* which bound the queue, are the requests that are really listed for it.
PendingIsExact ==
    /\ TypeOK
    /\ \A p \in Ports : port[p].opened =>
        /\ port[p].pending = Cardinality(ListedOf(p))
        /\ port[p].gc = FromGpu(ListedOf(p))

\* What the present thread has picked stays in the queue, unchanged, until it
\* is finished: neither Cancel nor a newer request of a slave takes it away,
\* and no request joins the group.  The frames that are being shown are alive.
PickedStayListed ==
    /\ present.at \in {"picked", "locked"} =>
        /\ Picked = Members(present.group)
        /\ present.group \in Picked
        /\ \A i \in Picked : req[i].where = "queue" /\ req[i].frame \in {"drawn", "shown"}
    /\ Picked # {} => present.at \in {"picked", "locked"}

\* A frame is shown or discarded once its request is over, and only then: none
\* leaks, and none is discarded that is yet to be shown.
FramesAreSettled ==
    \A i \in Ids :
        /\ req[i].where = "gone" => req[i].frame # "drawn"
        /\ req[i].frame = "discarded" => req[i].where = "gone"
        /\ req[i].frame = "shown" =>
            req[i].where = "gone" \/ (present.at = "locked" /\ present.due /\ i \in Picked)

\* A group is a flip of a master with at most one flip of each of its slaves,
\* as the array of layers needs, and never outlives the flip of the master: a
\* slave would be stuck in the queue for good.
GroupsAreWhole ==
    \A i \in Listed :
        LET g == req[i].group IN
        /\ g # 0 /\ g # i => g \in Listed /\ req[g].group = g /\ req[g].port = req[i].master
        /\ req[i].master = None => g = i
        /\ \A j \in Listed \ {i} : req[j].port = req[i].port /\ req[j].group = g => FALSE

\* The EXITs that Prepare and Complete guard themselves with are never reached,
\* whatever happens to a request between the steps of its drawing.
NoRequestGoesMissing ==
    /\ gpu.at = "prepare" =>
        req[gpu.id].where \in {"queue", "cpu", "cancelled"} /\ req[gpu.id].state = "Reserved"
    /\ gpu.at = "draw" =>
        /\ req[gpu.id].where \in {"queue", "cancelled"}
        /\ req[gpu.id].state = "Recording" /\ req[gpu.id].frame = "none"
    /\ \A i \in Ids : req[i].state = "Recording" /\ gpu.id # i =>
        \/ req[i].where = "queue" /\ req[i].frame = "drawn"
        \/ req[i].where = "cancelled"

\* A Close ends, although the present thread may pick a flip of the port again
\* and again: it cannot start the next Vblank before.
CloseFinishes == closer.at # "none" ~> closer.at = "none"

\* A flip of a port without master ends, behind whatever stands before it in the queue.
FlipsEnd ==
    \A i \in Ids : req[i].state # "None" /\ req[i].group = i ~> req[i].where = "gone"

\* With flips of the GPU alone and no slaves, its waits end.
GpuWaitsEnd == gpu.at \in {"asleep", "awake"} ~> gpu.at = "idle"

================================================================================
