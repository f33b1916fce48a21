# Verification of KytyPlus

KytyPlus is an emulator of a game console.  Guest code runs natively on host threads; the kernel
objects it calls, its GPU and its displays are emulated by a handful of threads that hand work to
each other.  This directory holds TLA+ models of those hand-overs, the instances on which TLC checks
them, and proofs for the parts that are proved for every instance.

    tlc -workers 2 -config KernelSemaphore.cfg MCKernelSemaphore     # a run of PROJECT.json
    tlapm KernelSemaphoreProofs.tla                                  # a proof module (section 5)

`PROJECT.json` maps every definition to the source lines it stands for, and lists the runs, the
mutants (a plausible bug for every property, which TLC must find), the hazards and the theorems.
Paths below are relative to `src/src/`.

## 1. The system

### Threads and what they share

    guest threads ──Submit, SuspendPoint, commands──▶ GPU thread ──Flush, Defer──▶ CommandScheduler ──▶ host GPU
        │  ▲                                             │  ▲                          │
        │  │ KernelSemaphore, EventFlag, EventQueue      │  │ Prepare                  │ priority operations
        │  └──────────────── triggers ───────────────────┘  │                          ▼ (runner thread)
        └──SubmitFlip, Open, Close──▶ FlipQueue ◀───────────┴── Complete ◀─────────────┘
                                        │
                                        └── present thread (every Vblank)

    guest threads ──load, store──▶ protected pages ──fault──▶ MemoryTracker ◀──upload, download── GPU thread
    guest threads ──map, unmap, protect──▶ kernel/memory ──▶ host views, GPU ranges

Everything else is called by one of these threads and keeps its state to itself or under one mutex.

### Components

| Component | State | Operations | Hard part | What makes it correct |
|---|---|---|---|---|
| Counting semaphore (`kernel/semaphore.cpp`) | count, list of waiters, a record on each caller's stack | wait, poll, signal, cancel, delete | a timeout races with the signal that served it; a negative signal takes the count below zero; deletion frees under callers | it is a counter with one line of callers: units handed out once and in order, results final; no sleeper that could run |
| Event flag (`kernel/eventFlag.cpp`) | bits, status, number of waiters | wait, poll, set, clear, cancel, delete | Set, Clear and Cancel poll for each other without the mutex; a late waiter misses the notification | the number is exact, no satisfied sleeper, Cancel takes everyone along |
| Event queue (`kernel/eventQueue.cpp`) | list of events with pending notifications, timers | add, delete, trigger, wait, close | notify-one with several waiters, timers armed again while unread | nothing lost, repeated or reordered; nobody sleeps on an event |
| Flip queue and ports (`graphics/presentation/videoOut.cpp`) | requests in two lists and a limbo, counters, ports with generations, groups | reserve, prepare, complete, flip, wait, cancel; open, close, group | three locks, three threads, steps that release and retake them | counters match the lists, what is picked stays, every frame is given back once |
| Guest GPU (`graphics/guest_gpu/graphicsRun.cpp`) | queues of submissions, commands, the slice in hand, a credit | submit, send a command, suspend point, wait for idle, shut down | submissions that stall and go back; idleness spread over three variables | order within a queue, idle means done, one frame ahead, calls end |
| Host GPU timeline (`graphics/host_gpu/renderer/commandScheduler.cpp`, `masterSemaphore.cpp`) | ticks, command buffers, two queues of operations, the runner | flush, finish, wait, defer, pop, shut down | callbacks that call back, one condition variable for all, shutdown against everyone | operations after their GPU work and in order, no buffer reused in flight, nothing left |
| Address waits (`kernel/syncOnAddress.cpp`) | futexes of the host, or a registry of lists of waiters | wait, wake | slices between which a waiter is in no futex; entries erased while others come; 64 bit words on a 32 bit futex | a wake releases who waits; no wake is spent on a timeout; waits with a reason to end do |
| Pthread mutexes, condition variables, read-write locks (`kernel/pthread.cpp`) | owner and depth; list of waiters, each with a sequence number; writer, list of readers, waiting writers | lock, try, timed lock, unlock; wait, signal, broadcast | everyone polls; a timeout races with the signal that took the waiter off the list; the mutex is given up only after the waiter is listed | a mutex and a line of waiters, entered in one instant with giving the mutex up; a writer is alone; every call that can end does |
| POSIX semaphores (`kernel/semaphore.cpp`) | registry from guest address to object; count, number of waiters, a copy of both in the guest's `sem_t` | init, destroy, wait, timed wait, try, post | a post tells one sleeper, who may not take the unit | no unit beside a sleeper that was not told; the guest sees the state |
| Interrupt and display event registrations (`renderContext.cpp`, `videoOut.cpp`) | lists of queue and event | add, delete, trigger | a registration removed for a stale answer | an interrupt reaches who is registered |
| Memory tracking and buffer cache (`graphics/host_gpu/memoryTracker.h`, `regionManager.h`, `pageManager.cpp`, `renderer/cache/bufferCache.cpp`) | dirty bits of both sides, watchers and protection of pages, buffers, pages to synchronise for shaders that use device addresses (BDA) | fault, invalidate, flush, upload, fill, download, collect, synchronise, map, unmap | the guest stores between the copy and the change of a bit; a fault waits for the GPU thread | one memory: every load sees the last store of either side, and the GPU reads nothing older than its work |
| Guest memory (`kernel/memory.cpp`, `kernel/memoryAddressSpace.inc`) | virtual ranges; direct blocks and mappings; flexible mappings and free list; pool expansions, commits and free list; views of the host; ranges of the GPU | reserve, map, unmap, protect, name, allocate, release; pool expand, reserve, commit, decommit | a call cuts what others made into pieces; the host refuses a step in the middle | the tables say the same at every page; no backing page is lost, given twice or kept by two; a call does all or nothing |
| Resource transactions (`cache/resourceMutex.cpp`) | owners | lock, fault | re-entry from a fault | matched entries and exits |
| Texture, pipeline and sampler caches | host resources by guest address | find, create, merge, collect | reuse while the GPU reads | retired through the timeline |
| Linker, files, system calls, libraries, audio, pads, network | sequential or host I/O | | | |
| Shader recompiler, tiling, instruction patching | none | translation | data | equivalence of code, not a protocol |
| Launcher, updater, package reader, JIT | none shared | | | |

`PROJECT.json` has a row for each, with the reason where it is not modelled.

### Hazards

They are listed at their lines in `PROJECT.json`.  Most are of four kinds: a thread looks under a
mutex and acts after giving it up (UnmapMemory, Prepare, Close, TriggerInterrupt, the upload of a page
that the guest may store to); a condition variable that several kinds of sleepers share (scheduler,
flip queue, event queue); the end of an object's or the program's life against calls that are still in
it; and the same fact kept in several tables that must change together (guest memory, dirty bits).
Two the project does not reach: after a forced exit a command list may wait for memory that nobody
will write, and `Shutdown` of the guest GPU joins a thread that goes round for ever; and
`ResourceMutex` must see matched entries and exits when page faults of several threads nest.

## 2. Modules

Common to all: a section under a mutex is one action; a wait on a condition variable is a place where
a call sleeps, from where a notification, a timeout or the poll of `CondVar::Wait`
(`common/threads.cpp:289`, which returns every 10 ms so that guest signals are dispatched) moves it to
a place where it competes for the mutex.  A call that is refused changes nothing and has no action.
Names are those of the code.  Operators marked "Mutant" are the bugs that show that a property can
fail; no specification uses them.

**KernelSemaphore** – `KernelSemaPrivate`.  A guest signal handler that runs during a wait may call
the semaphore again, so the unit is the wait call, not the thread: `record[c]` is the `WaitingThread`
of the code.  `WakeWaiters` is a step per iteration (`scan`), the rest of a method one action:
`WaitAtOnce/WaitBlocks`, `WaitReturns/WaitTimesOut`, `Signal/WakeWaiter/SignalReturns`, `Cancel`,
`DeleteStarts/DeleteReturns`.  `Signal` looks at the sum and not at the sign of its count, so a negative
one takes the count below zero; `MinCount` stands for `INT_MIN`.  `arrivals`, the order in which the calls came, is history.
**CountingSemaphore** is what it implements: units, a line, and one fate for each call, with `Put`,
`Take`, `Ask`, `Grant`, `Leave`, `Cancel` and the end; no list, loop or records.  The mapping
(`Counting`, `Implements` in KernelSemaphore) reads the fate of a call off its record.

**EventFlag** – `KernelEventFlagPrivate`.  `phase` says who sleeps or has been woken; what a woken call
sees decides (`ResumeOk`, `ResumeReleased`, `ResumeTimedOut`, `ResumeSleeps`).  Cancel and the
destructor have two actions, before and after they poll for an empty flag.

**EventQueue** – `KernelEqueuePrivate` with the filters of its clients.  Each event holds the tokens of
the notifications it carries, so that losing, repeating and reordering can be told apart: user events
(level and edge), queued events (AMPR, graphics, video out) and timers (periodic and one-shot) with a
clock of few ticks.  `waiter` says who sleeps or has been woken (`ResumeClosed`, `ResumeWithEvents`,
`ResumeLate`, `ResumeAgain`), and `alarm` when the `WaitFor` of a sleeper comes back.

**FlipQueue** – `FlipQueue` and the ports of `VideoOutDriver::Impl`.  A request moves between `queue`
(m_requests), `cpu` (m_cpu_requests), `cancelled` and `gone`.  The GPU thread's `Prepare` is several
steps because it gives the mutex up twice; `Flip` is `Pick`, `Show`, `Finish`; `Close` is three
steps under `Impl::m_mutex`, which the Vblank needs.  A priority operation calls `Complete`.

**CommandScheduler** – `CommandScheduler`, `CommandPool` and `MasterSemaphore`.  A call of the owner is
the list `todo` of the steps that are left, so that callbacks nest as in the code; the runner is
`PriorityOperationsThread`, which holds `m_operation_mutex` between its look and its sleep ("holds").
The driver may reject a submission, which the code then repeats (`Resubmits`) after the garbage
collector has run (`Collects`).  `late` has those that wait for the end of a Shutdown: who defers an
operation while the scheduler is drained and is in no operation itself (`WaitsToDefer`), which may be
the owner, and who calls Shutdown a second time.

**GuestGpu** – the thread of `GuestGpu::ThreadRun` with what feeds it.  `gpu.at` is where it is: at the
top of the loop ("look"), asleep, in the 100 µs doze when all that is queued is blocked, running a
command, in the constant or the draw stream of a submission, or putting it back ("over").  A list is
the sequence of its packets that wait, write what others wait for, or advance the counters of the
constant and draw engines.  Commands are also served between packets (`ServesCommand`).  `Exit` is an
`EXIT_IF(!m_accepting)`: the program ends.  `UnmapMemory` of the render context is included, because
it looks at the state of this component.

**GpuMemory** – `MemoryTracker`, `RegionManager` and `BufferCache` as the memory of the guest sees them.
A page has a content in the backing of the mapping and one in the buffer that covers it; the dirty
bits say which is newer and whether a guest access faults.  A fault, an upload, a download are as many
steps as there are places where the region's lock is released (`Copies`, `Owns`, `Draws`, `Unmarks`,
`Marks`, `Queues`, `Walks`), and the guest runs in between.  **SharedMemory** is what it implements: one
memory, one content for each page.  **PageWatchers** is the counting of the watchers of a page and the
walk of `PageManager` that protects them in as few ranges as possible, as a function; MCGpuMemory checks
it for every state of four pages (`HostFollowsWatchers`, an assumption that TLC evaluates).

**PthreadMonitor** – a mutex (recursive or not) and a condition variable.  A wait is several steps: it
enters the list under `cond->m`, gives the guest's mutex up, sleeps, and takes the mutex back as often
as it held it.  What lets it go is `cond_sequence`, which a signal moves on, so a waiter that was woken
by its poll sees it too.  **Monitor** is what it implements, where entering the line and giving the
mutex up are one instant.  **PthreadRwlock** – the read-write lock; each look of a poll is a step.

**VirtualRanges**, **GuestMemory** – VirtualRanges has tables of intervals as operators: cutting,
removing, merging, replacing, chunks of a free list.  GuestMemory has the state of `kernel/memory.cpp`
and one action per call, since each call holds `g_memory_operation_mutex` throughout; a call that the
host refuses halfway is an action of its own, which leaves what the roll-back leaves (`RollsBack`,
`MapFlexibleFails`, `MapDirectFails`, `RestoresInPlace`).  `view` is what the host shows at a page: a
page of backing memory, private memory, or nothing.  **MemoryMap** is what it implements: a call changes
the pages it was given, all in the same way, or nothing the guest can see.

How they compose: FlipQueue's GPU steps are `FlipPreparation` submissions and packets of GuestGpu, its
`Complete` is a priority operation of CommandScheduler, and GuestGpu's `ReleasesCredit` is another.
GpuMemory's GPU thread is GuestGpu's while it runs a draw, and a fault that must download is a command
of GuestGpu; GuestMemory's changes of the GPU's ranges are GpuMemory's `MapMemory` and `UnmapMemory`.
Each module assumes of its neighbour what the neighbour's liveness property says: priority operations
run (`PriorityRuns`), the GPU thread takes what is queued (`CallsEnd`).

**SyncOnAddress** – the waits for a word of memory, in both builds (`portable`).  On Linux a call is in the
futex only in the step "Sleeps"; each slice ends in "Polls", where it dispatches signals, and starts again
in "Begins".  In the portable build a call stays in the list of its entry throughout and keeps the wake it
was given (`requested`); what can go wrong is the entry, which the last to leave takes out of the registry
in a step of its own (`UnregisterPortableWaiter`).

**PosixSemaphore** – the `sem_t` of the guest.  A step is what a call does from taking `m_mutex` to giving
it up (`SemLooks` is the body of the loop in `PosixSemPrivate::Wait`); between two of them it sleeps or
dispatches signals.  A call without a timeout polls, one with a timeout depends on `Post`.

MCKernelObjects extends the modules of the objects that guest threads wait for and explores them in one
run.  They share no state (the pthread objects have their threads from **GuestThreads**): `subject` says
which of them a behaviour is about, and never changes.  `Many` and `Lasting` are two further instances of
EventQueue.

The theorems are in modules of their own: **KernelSemaphoreProofs** (also the address waits),
**EventFlagProofs** (also the monitor), **PthreadProofs** (read-write lock, POSIX semaphore, event queue), **CommandSchedulerProofs**,
**FlipQueueProofs**, **GpuMemoryProofs** and **GuestGpuProofs**.  **SequenceLemmas** has what they need of
`InsertAt`, `RemoveAt`, `Append` and of orders along a sequence.

## 3. Runs

| Run | Instance | Shows |
|---|---|---|
| sema | 3 calls, 2 of one priority, max 2, signals from -1, both orders | implements CountingSemaphore; no lost wakeup; deletion finishes |
| kernel_objects | a flag: 3 calls, 2 bits, a wait of every mode, both gates | exact number of waiters, no lost wakeup, Cancel complete; Cancel and delete finish |
| | a queue: 1 waiter and polls, events of three kinds (queued, periodic, one-shot), 2 triggers each, delays 0 and 1, clock to 3 | order of triggers, nobody sleeps on, each period reported once, alarms cover deadlines, timed waits end |
| | a queue (`Many`): 2 waiters and polls, an edge and a queued event, 2 triggers each, waits for one or two | the same of triggers, and notify-one is enough (`OtherQueuesTell`) |
| | a queue (`Lasting`): 1 waiter and polls, an event that stays triggered beside timers | the same, and the timers keep time |
| | 3 threads on a read-write lock, or on a mutex and a condition variable; 6 calls, depth 2 | writers alone and counted; implements Monitor; calls end |
| | 3 threads on a POSIX semaphore, values to 2, 3 posts | no unit beside a sleeper that was not told; calls end |
| | 2 threads that wait for a word of memory, in both builds | the portable build keeps every wake; calls with a reason to end do |
| flip_queue_groups | 2 ports that may group, 3 flips of both kinds, capacity 2, 2 generations | counters, picked groups, frames, groups, the EXITs of Prepare and Complete |
| flip_queue_live | 2 ports, GPU flips, capacity 1 | Close, flips and the GPU thread's waits end |
| scheduler | 1 other thread, 3 submissions, 3 operations, pool grows by 2 | order of operations, reuse of buffers, shutdown leaves nothing, calls end but for two places of Shutdown |
| scheduler_shutdown | no operation | **violated**: Shutdown may never return from joining the runner |
| guest_gpu | 2 threads, 3 requests, 2 queues, 3 lists | order, idleness, credit; commands served while all is stalled, calls end |
| guest_gpu_shutdown | 2 threads | **violated**: UnmapMemory may end the program |
| gpu_memory | 2 guest threads and the GPU thread, 2 pages, 2 contents | implements SharedMemory; one owner of a page, no stale read of the GPU, no page lost to BDA |
| guest_memory | 3 pages, 2 direct and 2 flexible pages, 2 protections | implements MemoryMap; all tables in step, no backing page lost or given twice |
| guest_memory_alias | the same with 1 protection and a host that refuses nothing | **violated**: naming part of a mapping makes a later release end the program |
| address_wake | 2 threads | **violated**: a Wake on Linux may find nobody although a call waits |

**Why the bounds are enough.**  The components treat their users alike, so that two parties show a
race and a third the one notified in its place.  Three calls with two priorities hold equal and
unequal neighbours in the list; counts to `max + 1` reach every comparison; -1 is the reset of
Cancel, and the signal that takes a count of zero below it.  Two bits tell And from Or and All from Bits.  Two triggers per event make one arrive while
the other is unread.  With a delay of one tick a clock of three passes two periods.  Three requests let one be picked, one replaced
and one wait for a slot when the capacity is two; a second generation shows what is left of the first.
Three submissions with a pool that grows by two make a buffer come back while another is in flight.
One stalled list, one list that needs it and one that advances the engines' counters fill both queues
of GuestGpu.  Two pages let a buffer be joined with its neighbour and a page be dirty beside one that
is not; two contents tell a stale read from a current one, as no property compares more than two.  Two
threads fault on one page while the GPU works on it.  Three threads are a holder, a waiter and one that
signals; depth two tells a lock given back once from one given back whole.  Three pages of guest memory
are a piece with a neighbour on each side; two direct pages make aliases and partial releases; two
flexible pages make a mapping of two chunks.  What the guest-memory run cannot show is a roll-back of
more than two pieces whose owners all differ.  The bounds on requests, submissions, triggers and locks
only cut behaviours: no property is about a number of them.

**Deadlock** is checked where the component never stops (the flip queue, the GPU's memory,
the guest's memory).  The other
runs say `CHECK_DEADLOCK FALSE`, because a freed semaphore or flag, a deleted queue, a scheduler that is
closed, a GPU thread that has exited, and threads that wait for a signal nobody sends are the end; what
must not hang is stated as liveness instead.

**Symmetry** is used in gpu_memory only, over threads and contents, which the specification does not
tell apart; nothing there is about liveness.  CallsEnd of kernel_objects is stated of one thread,
since the threads are interchangeable.

**Fairness.**  Weak fairness of a thread's steps stands for a host scheduler that runs every thread.
Strong fairness appears where a thread competes for a mutex that others keep taking
(`WaitReturns`, `DeleteReturns` of the semaphore; a timed call of the flag, whose clock runs out
between two wakes) and for the rate limit of a port, which lets a flip pass every few Vblanks
(`Show(TRUE)`).  The native GPU finishes what is submitted and time passes; a queue's waiter that has
been woken moves on (`MovesOn`).  The guest is never
assumed to call anything: where a call can only end through another's action, the property says so
(CallsEnd of GuestGpu assumes the labels written; CancelAndDeleteFinish of EventFlag, a part of CallsEnd
of MCKernelObjects, that calls stop arriving).  One
exception: a guest thread that holds a mutex or a lock gives it up again (`GoesOn` of MCKernelObjects), without
which no lock ends for anyone.
The 10 ms poll of `CondVar::Wait` would end many lost wakeups after a delay; no liveness property
counts on it, with two exceptions.  A call that enters an event flag while Cancel polls has missed the
notification, and the code relies on the poll there.  Pthread objects are built on polling
(`SIGNAL_APC_POLL_MICROS`): a look is always possible, so weak fairness of `Finishes` is what the poll
gives; locks of all threads are bounded there, so that no thread is overtaken for ever.  A behaviour in
which others take a mutex without end and one thread always looks at the wrong moment is possible in
the code and outside of CallsEnd.

## 4. What the violated runs show

- `scheduler_shutdown`: `Shutdown` calls `request_stop` and `notify_all` without `m_operation_mutex`.
  A runner between its look and its sleep misses both, and `join` waits for ever
  (commandScheduler.cpp:132).  The run has no operations, so that nothing else can stop the owner.
  Another way to hang has no run of its own.  `Shutdown` marks the scheduler as draining and submits what
  is recorded.  If the driver is out of memory, `Submit` runs the garbage collector, which retires images
  and buffers by `DeferOperation`; outside of an operation that waits for the scheduler to be closed
  (commandScheduler.cpp:250), and its owner is the one who waits.  The model has this wait (`late`), and
  CallsEnd of CommandScheduler excepts it by name.
- `guest_gpu_shutdown`: `UnmapMemory` asks `IsStopping`, which takes and gives up the mutex, and then
  sends a command.  A shutdown in between makes `SendCommand` exit the program
  (renderContext.cpp:120).  An emergency shutdown runs while guest threads do.
- `guest_memory_alias`: allocate direct memory, map it over two pages, name one of the two, release the
  memory.  `KernelSetVirtualRangeName` splits the virtual range (`EditUnlocked`); direct ranges never
  merge again, and the mapping in `PhysicalMemory` stays whole; the release finds a mapping longer than
  the range at its start and exits the program with "direct-memory alias escaped guest address-space
  ownership" (memory.cpp:2922).  The run's host refuses nothing (`HostRefuses`).  `InStep` holds throughout: at every page the tables agree, and it is
  their boundaries that do not.
- `address_wake`: on Linux a waiter leaves the futex every 10 ms to dispatch signals
  (syncOnAddress.cpp:118).  A `Wake` in between wakes nobody and leaves no trace; if the word has not
  changed, the waiter goes back to sleep, and without a deadline it stays there.  Guests that always
  change the word first are safe, since the next look sees it.  The portable build keeps the wake
  (`WakesAreKept`).

## 5. Proofs

Each theorem holds for every value of the constants that the module's assumptions admit: any set of
threads or calls (finite where they are counted), ports, priorities, pages, contents and any bound.

| Module | Theorem | States |
|---|---|---|
| KernelSemaphoreProofs | `TypeCorrect`, `CountIsNatural` | the count never above the maximum, and below zero only after a negative signal |
| | `NoLostWakeup`, `NoUseAfterDelete` | no sleeper that could run, nobody inside after deletion |
| | `Refinement` | it implements CountingSemaphore |
| | `AddressKeepsWakes` | SyncOnAddress, portable build: a wake finds who waits, none is spent on a timeout |
| EventFlagProofs | `CountIsExact`, `NoLostWakeup` | the number of waiters, no satisfied sleeper |
| | `CancelAndDeleteComplete` | all leave on Cancel and on deletion |
| | `PthreadImplementsMonitor` | PthreadMonitor implements Monitor |
| PthreadProofs | `Consistent` | writers alone, readers and waiting writers counted exactly |
| | `PosixConsistent` | no unit beside a sleeper that was not told, the guest's copy |
| | `QueueKeepsTriggers`, `QueueCountsPeriods` | EventQueue: nothing lost, repeated or reordered, every period reported once |
| | `QueueWakesItsWaiters`, `QueueKeepsTime` | nobody sleeps on an event or past a deadline, where notify-one is enough |
| CommandSchedulerProofs | `RunsAfterGpuAlways`, `PriorityFirstAlways` | no operation before its tick, none before those with priority |
| | `NotInFlightAlways`, `NothingLeftAlways` | no buffer recorded while it is read, nothing left by Shutdown |
| FlipQueueProofs | `PendingIsExactAlways`, `PickedStayListedAlways` | the flip status, the group in the present thread's hands |
| | `FramesAreSettledAlways`, `GroupsAreWholeAlways` | every frame given back once, slaves go with their masters |
| | `NoRequestGoesMissingAlways` | the EXITs of Prepare and Complete are not reached |
| GpuMemoryProofs | `OneOwnerAlways`, `DrawsReadCurrentAlways`, `BdaCoveredAlways` | one owner of a page, no stale read, no page lost to BDA |
| | `MemoryIsShared` | it implements SharedMemory |
| GuestGpuProofs | `InOrderAlways`, `OneSuspendPointAlways` | the order of each queue, the one permission of the suspend point |
| | `IdleMeansDoneAlways` | WaitForIdle and the thread's end leave nothing behind |

The assumptions are those of KernelCreateSema and KernelWaitEventFlag (valid counts, no empty
pattern), that the threads of
the pthread objects are finitely many, none of which is the null pointer (`ThreadsAssumption`), that the kinds
of events exclude each other and a wait asks for at least one (`ValidConstants` of EventQueue), that a display port is not the null
pointer and there are finitely many (`FlipQueueAssumption`), that there is at least one page of shared
memory, and that lists for compute queues come without constant commands (`GuestGpuAssumption`; SubmitCompute
takes none).  Each invariant was first checked by TLC on the instance of its run.

*Semaphore.*  NoSleeperCouldRun speaks of positions that the loop of a Signal has passed; it is
inductive only together with RecordsMatch (the list and the records agree, and no call is listed
twice, or serving one would change another) and SignalSeesSet (a Signal runs only on a live
semaphore, or deletion would release waiters behind its back).  Adding keeps it because a call blocks
only if it needs more than the count; a timeout because it changes no count; the loop because the
count only falls while it passes waiters.  The effects of adding and removing a waiter are lemmas on
`InsertAt` and `RemoveAt`.

*Refinement of the semaphore.*  The invariant above does not say in which order the list is, so it is
strengthened by ArrivalsMatch (the history has exactly the calls that wait) and InOrder (the list is
ordered by arrival, or by priority and then arrival).  InOrder needs its own induction: inserting
before the first waiter of a higher value keeps it because the new call is the last to arrive, and
removing keeps it because the others do not change places.  The one step with substance is the loop's:
whoever it serves is the first, in the promised order, of those that the units there suffice for; all
that come before it in the list were passed, and passed waiters need more than there is
(NoSleeperCouldRun).  Every other step maps to one abstract step or to none.

*Flag.*  The invariant is the conjunction of what the run checks.  NoSatisfiedSleeper holds since
Set alone can satisfy anyone and notifies all, and every other step leaves fewer bits
(ConsumeEffect, FewerBitsSatisfyLess); CountsWaiters is what lets Cancel and the destructor conclude
from a zero that nobody is inside, which CanceledAllLeave and FreedOnlyWhenIdle need.

*Read-write lock.*  RwlockConsistent is inductive as it stands.  `reader_count` is a number and the list
of readers a table, and a writer enters by looking at the number alone; CountsReaders says that the
number is the size of the table, counted as a set of pairs, so that zero means nobody reads
(the lemmas on one reader more and one less).  CountsWriters does the same for `waiting_writers`, which
a writer that times out must leave.

*POSIX semaphore.*  PosixSemConsistent is inductive as it stands.  Its bound is on numbers: while somebody
sleeps untold, there are at most as many units as calls that are awake.  A call goes to sleep only at a
count of zero, a post adds a unit and an awake call, and an awake call that leaves takes a unit along;
each is one element more or less of a finite set (`LooksAgainKeeps`, `PostKeeps`).

*Address waits.*  `AddressInv` says that a list holds exactly the calls that wait at its entry, each once, and
that all of them wait at the one entry that the registry has.  The second holds across
`UnregisterPortableWaiter` because it looks once more whether the list is empty, and across
`RegisterPortableWaiter` because a call makes an entry only when there is none; so it is why a Wake that
finds an entry finds everyone.

*Monitor.*  `MonitorInv` says who is in the list (`ListHoldsWaits`: on its way into a wait, or asleep and not
signaled), how often each thread is to hold the mutex when it has it (`HeldAsCounted`), and that a thread
on its way in holds `cond->m` and the mutex and is the last of the list (`ListingIsLast`).  The line of Monitor is
the list without such a thread, so that joining it is not seen, and giving the mutex up is `Wait`.  A
wait whose time is over looks at its sequence number and at the list under one lock: if it has been
signaled it is not in the list and nothing is seen, otherwise it leaves the line.

*Event queue.*  `QueueInv` has the type, and for each event what it has sent, holds and delivered (`EventSound`).
Of a timer it says that its deadline is the first one and a whole number of periods (`PeriodsMoved`), the
one before having passed, from which follows what the next look will add.  A wait delivers in a loop over
the list, and what the loop returns is the last value of a recursive function: `LoopExists` shows that there
is one, and `BatchInduction` that it has what each iteration keeps, by the least iteration that would not
have it (a proof by contradiction in Nat, since an induction theorem cannot be instantiated here).
`BatchSound` is that every event stays sound; `BatchProgress` that what is left in the queue is left because the
caller's array is full.  The last two theorems need to know whom `notify_one` wakes, and are stated where it
suffices (`NotifyOneIsEnough`, which is what the comment of `NoSleeperMissesEvent` says and what the three
instances of the run are): with one waiter, who has looked at everything before it sleeps (`AloneInv`), or
without timers and events that stay triggered, where every notification that is sent wakes one thread more and
every thread on its way takes at least one (`ClearingInv`).  With two waiters and a timer the property is false:
the wake may go to the one that is leaving.

*Scheduler.*  What a call of the owner has left to do is the list `todo`, and callbacks put new steps in
front, so the invariant says which step may be left behind which (`Ordered`) and which are left in each
state of the scheduler (`Phased`): from it follow where `sent` stands (`Timed`) and that between two calls
a buffer is being recorded.  `Recorded` relates the slots of the pool to all submissions: a slot keeps
the tick of its last one, so that a slot whose tick is known to be over is that of none under way.
`RunsAfterGpu` needs to know which thread has an operation that has left its queue (`Listed`, `RunnerHas`,
`OwnerHas`) and that it looked at the counter before; `PriorityFirst` in addition that what the owner is
about to run was chosen after all operations with priority of its tick were done, although new ones come
meanwhile (`Following`: they come with the current tick, which is later).  `NothingLeft` is the end of a
chain that follows Shutdown's steps (`Draining`, `Stopping`).

*Flip queue.*  What the five properties say is not inductive since a request is in the hands of three
threads.  `Life` ties how far it is drawn to the list it is in; `Preparing` says that only the request in
the GPU thread's hands is queued without a frame, which is why Prepare never misses its own request.
`Owned` says whom a listed request is for: its port is open in the life the request was made in and has
still its master, or is just being closed.  So no port that Close has reset has requests left, and the count
of a reopened port starts at zero (`Counted`).  `Grouped` counts the slaves of a master, with the one that
a Close has yet to take away; a port that closes is nobody's master (`Closes`), so that no request of a
slave is left in the group of a flip that Cancel drops (`NobodyFollows`).  `DueIsCurrent`: while the present
thread shows a group it holds the mutexes of the group's ports, so that what it finishes is what they
asked for.  `Without`, the erasure of several requests at once, is defined by ranks, and `WithoutKeeps`
proves that it keeps the others and loses none.

*GPU memory.*  The GPU thread gives the region's lock up between its steps, so the invariant says what holds
at each of them (`Stepwise`): nobody makes a page dirty that it is about to write, the tracker's bit and
the byte ranges differ only between publishing a page and unmarking it.  `Copied` says where backing
and buffer agree: on a clean page whose copy is not still to be made.  `Sees` extends DrawsReadCurrent to the
time before the work is recorded: the source of the copy that is still to be made, or the buffer,
shows what the page has held since the work began.  For `MemoryIsShared` the memory of the guest is
the buffer where the GPU owns the page and the backing elsewhere; every step but the loads' and stores'
leaves it alone, which is `Copied` again.

*Guest GPU.*  A request changes hands often: it waits in its queue, is taken, stalls, goes back in front, and
is let go of one step after it has run.  The invariant says where it is.  `Has` is being in a queue or in
the GPU thread's hands, `Commanded` the same for a command.  `Apart`: a request is in one place only, and in
none once it has run, but for the instant in which the thread still holds it (`Settled`).  `Accounted`: one
that has not run is somewhere.  `Lines` puts what the thread holds before all that is in its queue, and
what is there in the order of the calls, which is `InOrder`; PutBack keeps it because nothing was put in
front meanwhile.  When nobody holds anything and the counter is zero the queues are empty (`Counted`), so
by `Accounted` everything has run, which is `IdleMeansDone`; `InHand` is why `processing` tells whether the thread
holds something.  For `OneSuspendPoint` the markers that have not run are counted by their requests (`Marked`),
which do not change as the lines move, and only at the end by their places (`OneMarkerPlace`: ids ascend
along a line, so no place is beyond their number).  `Room` says that a call which has kept room for its request
finds it; without it the bound on requests would cut behaviours short.

Only model-checked:

- all liveness, which is beyond the prover, as is `ENABLED`;
- `InStep` and the refinement of MemoryMap by GuestMemory: the tables of VirtualRanges are cut and merged
  by folds, choices and operators that take operators, and what a fold computes for every input is an
  induction over data, which no installed prover can do.

Where a proof needed it, an operator was written in a form that can be reasoned about: the loop of
EventQueue is a recursive function instead of a fold, and lists are changed by `RemoveFirst` instead of
`SelectSeq`, which the provers do not open.  Proving found one error of the model: the type invariant of
EventQueue was so parenthesised that the part after `closed` said nothing; it says it now, and holds.

## 6. Left out

Within the modelled parts: the contents of frames, buffers and packets; buffer registration, display
events and output modes of the ports; packets other than those that synchronise, indirect buffers and
predication; what the garbage collector records between a rejected submission and its
repetition (what it retires is modelled, see section 4); the overflow of a semaphore's count by a signal
near 2^31 or -2^31 (`MinCount`).  A CPU flip that the GPU thread waits for with
WaitFlipDone can stop it for good; FlipQueue contains the behaviour, and GpuWaitsEnd is stated
without CPU flips.

*GpuMemory* has one tracking region, so that no operation takes two regions' locks; a page stands for
the bytes of it that an access is about; images, read-only and private mappings and file reads into
guest memory are absent.  A page that a thread has made dirty and not yet queued for BDA
(memoryTracker.h:60) counts as covered: what the work submitted in between reads is not stated.

*PthreadMonitor, PthreadRwlock*: destruction, the first use of static objects, attributes, and waits in
the signal handlers that every poll dispatches.

*PosixSemaphore*: `sem_init` and `sem_destroy` while a call is inside, which POSIX leaves undefined: the
code looks the object up under the registry's lock and uses the pointer after it.

*SyncOnAddress*: several addresses, addresses that are refused, and errors of the host's futex other than
a timeout and an interruption.

*GuestMemory*: `MapAutomaticMemory` and the batch calls are sequences of the calls that are modelled;
the search for free addresses, memory types, `disallow_merge`, names of mappings, PRT apertures (which
give the GPU addresses without a virtual range, so that `PagesInStep` holds without them only),
callbacks, host protection modes and the placeholders of Windows are left out, and so are refusals
during a roll-back, which end the program.  Two things that the model contains and no property forbids:
a refused replacement in place leaves the owner's mapping split and the virtual range whole, after which
unmapping the whole range is refused (memory.cpp:3078); and `KernelMemoryPoolReserve` beside a reserved
range is merged with it, answers EBUSY and leaves the addresses reserved.

Outside of them: the rows marked `not_modelled` in `PROJECT.json`.  Most are data (shader recompiler,
tiling, packets, formats), host I/O (files, audio, network, window) or driven by a single thread.

## 7. Plan

1. Done: the semaphore with its refinement, the flag and the read-write lock with proofs; the event
   queue, the flip queue, the timeline and the guest GPU; the memory shared with the GPU, the monitor
   and the guest's memory with their abstract specifications; the address waits and the POSIX semaphores.
2. `ResourceMutex`.
3. `EventRegistrations`: interrupts and display events composed with `EventQueue` by `INSTANCE`; an
   abstract `Notifications` (a set of subscribers, each told once per event), which it is shown to
   implement except for the race at renderContext.cpp:189.
4. Abstract specifications of what exists: an ordered log of work per queue for `GuestGpu`; "after its
   tick, once" for the operations of `CommandScheduler`.
5. `StreamBuffer`, and `RangeSet` and `LruCache` against sets and sequences, as functions that TLC
   compares with their definitions on bounded inputs.
6. Proofs: done for all components but the guest's memory.  It needs VirtualRanges as functions from pages to
   pieces with their boundaries, for which cutting and merging are pointwise, and a run that compares
   them with the folds.
