-------------------------------- MODULE GpuMemory --------------------------------
(* The guest memory that the GPU shares (host_gpu/memoryTracker, regionManager,   *)
(* pageManager and the buffer cache).  A page is kept in two places: the backing  *)
(* of the guest mapping, and the Vulkan buffer that covers it.  The tracker knows  *)
(* which of them is current, and protects the guest's mapping so that a thread     *)
(* that needs the other one faults:                                                *)
(*   CPU dirty   the backing is newer: the guest may load and store;               *)
(*   clean       both agree: the guest may load, and a store faults;               *)
(*   GPU dirty   the buffer is newer: the guest may do neither.                    *)
(* Guest threads fault, invalidate and flush; the GPU thread uploads, draws,       *)
(* downloads, collects buffers and synchronises the pages that shaders reach by    *)
(* their device addresses (BDA).  All pages lie in one tracking region, which has  *)
(* one lock; a page stands for the bytes of it that an access is about.            *)
EXTENDS Integers, FiniteSets

CONSTANTS
    Threads,   \* guest threads
    LastPage,  \* pages are numbered from 1
    Values,    \* contents of a page
    Junk       \* contents of a buffer nobody has written

ASSUME GpuMemoryAssumption == LastPage \in Nat \ {0} /\ Junk \notin Values

Pages == 1 .. LastPage

VARIABLES
    cpuDirty,  \* m_cpu_dirty
    gpuDirty,  \* m_gpu_dirty
    dirtyRanges, \* m_gpu_modified_ranges, to the page
    bdaSync,   \* m_bda_sync
    mapped,    \* m_mapped_ranges
    buffers,   \* m_buffers: each the interval of pages it covers
    backing,   \* contents of the guest's mapping
    device,    \* contents of the buffer that covers the page
    thread,    \* what each guest thread is doing
    gpu,       \* what the GPU thread is doing
    failed     \* the program has ended with EXIT

vars == <<cpuDirty, gpuDirty, dirtyRanges, bdaSync, mapped, buffers, backing, device, thread, gpu, failed>>
tracker == <<cpuDirty, gpuDirty, failed>>
contents == <<backing, device>>

Contents == Values \cup {Junk}
Covered == UNION buffers

--------------------------------------------------------------------------------
(* Guest threads.                                                                *)

(* A thread that rests, that is about to load or store, that has faulted, that waits for    *)
(* the GPU thread to flush the page, that is about to queue it for BDA, or that unmaps it.   *)
(* kind is the access it wants, value what it has loaded.                                     *)
Thread(step, kind, page, value) == [step |-> step, kind |-> kind, page |-> page, value |-> value]
Resting == Thread("Rests", "None", 0, Junk)
At(t, step) == thread[t].step = step
Goes(t, step) == thread' = [thread EXCEPT ![t].step = step]

(* The protection of a page: no access while it is GPU dirty, and no store while it is not CPU dirty. *)
Readable(p) == p \notin gpuDirty
Writable(p) == p \in cpuDirty /\ Readable(p)

(* The GPU thread keeps the region's lock while it uploads what it is going to write.       *)
\* Mutant: the lock is given up before the upload.
Never == FALSE
Locked == gpu.step = "Uploads" /\ gpu.written

(* ChangeState<Cpu, true>: a page must not become dirty on both sides.                        *)
MarkCpu(T) ==
    /\ cpuDirty' = cpuDirty \cup T
    /\ failed' = (failed \/ T \cap gpuDirty # {})
    /\ UNCHANGED gpuDirty

(* The guest uses memory that is mapped and that no other thread is about to unmap.           *)
InUse(p) == \E t \in Threads : thread[t].page = p
Leaving(p) == \E t \in Threads : At(t, "Unmaps") /\ thread[t].page = p

Asks(t) ==
    /\ At(t, "Rests")
    /\ \E p \in mapped :
        /\ ~ Leaving(p)
        /\ \/ \E kind \in {"Load", "Store"} : thread' = [thread EXCEPT ![t] = Thread("Accesses", kind, p, Junk)]
           \/ /\ ~ InUse(p)
              /\ thread' = [thread EXCEPT ![t] = Thread("Unmaps", "Unmap", p, Junk)]
    /\ UNCHANGED <<tracker, dirtyRanges, bdaSync, mapped, buffers, contents, gpu>>

Loads(t) ==
    /\ At(t, "Accesses") /\ thread[t].kind = "Load"
    /\ Readable(thread[t].page)
    /\ thread' = [thread EXCEPT ![t] = Thread("Rests", "Load", 0, backing[thread[t].page])]
    /\ UNCHANGED <<tracker, dirtyRanges, bdaSync, mapped, buffers, contents, gpu>>

(* gpu.seen keeps what a page has held since the GPU thread began to look at it.               *)
Stores(t) ==
    LET p == thread[t].page IN
    /\ At(t, "Accesses") /\ thread[t].kind = "Store"
    /\ Writable(p)
    /\ \E v \in Values :
        /\ backing' = [backing EXCEPT ![p] = v]
        /\ gpu' = IF p \in DOMAIN gpu.seen THEN [gpu EXCEPT !.seen[p] = @ \cup {v}] ELSE gpu
    /\ thread' = [thread EXCEPT ![t] = Resting]
    /\ UNCHANGED <<tracker, dirtyRanges, bdaSync, mapped, buffers, device>>

Faults(t) ==
    /\ At(t, "Accesses")
    /\ \/ thread[t].kind = "Load" /\ ~ Readable(thread[t].page) /\ Goes(t, "Flushes")
       \/ thread[t].kind = "Store" /\ ~ Writable(thread[t].page) /\ Goes(t, "Invalidates")
    /\ UNCHANGED <<tracker, dirtyRanges, bdaSync, mapped, buffers, contents, gpu>>

(* InvalidateRegion looks and changes under one lock; the flush is asked for after it.         *)
Invalidates(t) ==
    LET p == thread[t].page IN
    /\ At(t, "Invalidates") /\ ~ Locked
    /\ IF p \in gpuDirty
       THEN Goes(t, "Flushes") /\ UNCHANGED tracker
       ELSE MarkCpu({p}) /\ Goes(t, "Queues")
    /\ UNCHANGED <<dirtyRanges, bdaSync, mapped, buffers, contents, gpu>>

(* After the fault has been handled the thread repeats its access.                            *)
QueuesBdaSync(t) ==
    /\ At(t, "Queues")
    /\ bdaSync' = bdaSync \cup {thread[t].page}
    /\ Goes(t, "Accesses")
    /\ UNCHANGED <<tracker, dirtyRanges, mapped, buffers, contents, gpu>>

(* A new mapping shows what the kernel put there; PrepareBda holds the lock it takes.          *)
MapMemory(t) ==
    /\ At(t, "Rests") /\ gpu.step # "Walks"
    /\ \E p \in Pages \ mapped, v \in Values :
        /\ mapped' = mapped \cup {p}
        /\ bdaSync' = bdaSync \cup {p}
        /\ backing' = [backing EXCEPT ![p] = v]
    /\ UNCHANGED <<tracker, dirtyRanges, buffers, device, thread, gpu>>

--------------------------------------------------------------------------------
(* The GPU thread.                                                                *)

(* What it does, on which pages and for which thread; the pages it has still to copy.          *)
Work(step, pages) ==
    [step |-> step, pages |-> pages, todo |-> {}, written |-> FALSE, for |-> {},
     seen |-> <<>>, streamed |-> <<>>]
Idle == Work("Idle", {})
Free == gpu = Idle
Memory(p) == IF p \in gpuDirty THEN device[p] ELSE backing[p]
Looks(T) == [p \in T |-> {Memory(p)}]

(* A buffer that contains T, or a new one: an interval that joins the buffers it meets, with    *)
(* room to grow, whose other pages hold nothing yet.  Registering it queues all of it for BDA.  *)
Interval(B) == \A p, q \in B : p .. q \subseteq B
\* Mutant: what the joined buffers held is not copied.
CreateEmpty(T) ==
    \E B \in SUBSET Pages :
        /\ T \subseteq B /\ Interval(B)
        /\ \A b \in buffers : b \cap B # {} => b \subseteq B
        /\ buffers' = {b \in buffers : b \cap B = {}} \cup {B}
        /\ bdaSync' = bdaSync \cup B
        /\ device' = [p \in Pages |-> IF p \in B THEN Junk ELSE device[p]]
CreateBuffer(T) ==
    \E B \in SUBSET Pages :
        /\ T \subseteq B /\ Interval(B)
        /\ \A b \in buffers : b \cap B # {} => b \subseteq B
        /\ buffers' = {b \in buffers : b \cap B = {}} \cup {B}
        /\ bdaSync' = bdaSync \cup B
        /\ UNCHANGED device
FindBuffer(T) ==
    IF \E b \in buffers : T \subseteq b
    THEN UNCHANGED <<buffers, bdaSync, device>>
    ELSE CreateBuffer(T)

(* ObtainBuffer: a range that only the CPU has changed may be read through the stream buffer.    *)
Streams ==
    \E T \in SUBSET mapped :
        /\ Free /\ T # {} /\ Interval(T)
        /\ T \cap gpuDirty = {} /\ T \cap cpuDirty # {}
        /\ gpu' = [Work("Draws", T) EXCEPT !.seen = Looks(T), !.streamed = [p \in T |-> backing[p]]]
        /\ UNCHANGED <<tracker, dirtyRanges, bdaSync, mapped, buffers, contents, thread>>

(* Otherwise the pages the CPU has changed become clean and protected under the lock, and        *)
(* are copied after it is given up, or under it when the GPU is going to write.                  *)
Obtains ==
    \E T \in SUBSET mapped, written \in BOOLEAN :
        /\ Free /\ T # {} /\ Interval(T)
        /\ FindBuffer(T)
        /\ cpuDirty' = cpuDirty \ T
        /\ gpu' = [Work("Uploads", T) EXCEPT !.written = written, !.todo = T \cap cpuDirty, !.seen = Looks(T)]
        /\ UNCHANGED <<gpuDirty, failed, dirtyRanges, mapped, backing, thread>>

Copies ==
    /\ gpu.step \in {"Uploads", "Walks"}
    /\ \E p \in gpu.todo :
        /\ device' = [device EXCEPT ![p] = backing[p]]
        /\ gpu' = [gpu EXCEPT !.todo = @ \ {p}]
    /\ UNCHANGED <<tracker, dirtyRanges, bdaSync, mapped, buffers, backing, thread>>

(* ChangeState<Gpu, true> ends the locked part; then the bytes become GPU modified.              *)
Owns ==
    /\ gpu.step = "Uploads" /\ gpu.todo = {}
    /\ IF gpu.written
       THEN /\ gpuDirty' = gpuDirty \cup gpu.pages
            /\ failed' = (failed \/ gpu.pages \cap cpuDirty # {})
            /\ dirtyRanges' = dirtyRanges \cup gpu.pages
            /\ UNCHANGED cpuDirty
       ELSE UNCHANGED <<tracker, dirtyRanges>>
    /\ gpu' = [gpu EXCEPT !.step = "Draws"]
    /\ UNCHANGED <<bdaSync, mapped, buffers, contents, thread>>

(* The work is recorded: it reads the pages, and writes some of those it has obtained for it.    *)
Draws ==
    /\ gpu.step = "Draws"
    /\ IF gpu.written
       THEN \E T \in SUBSET gpu.pages, v \in Values :
            device' = [p \in Pages |-> IF p \in T THEN v ELSE device[p]]
       ELSE UNCHANGED device
    /\ gpu' = Idle
    /\ UNCHANGED <<tracker, dirtyRanges, bdaSync, mapped, buffers, backing, thread>>

(* FillBuffer stores through the guest's mapping, and handles the fault that makes inline.       *)
Fills ==
    /\ Free
    /\ \E p \in mapped \ gpuDirty, v \in Values :
        /\ MarkCpu({p})
        /\ bdaSync' = IF Writable(p) THEN bdaSync ELSE bdaSync \cup {p}
        /\ backing' = [backing EXCEPT ![p] = v]
    /\ UNCHANGED <<dirtyRanges, mapped, buffers, device, thread, gpu>>

(* DownloadBufferMemory: the modified pages are copied, waited for and published to the backing. *)
\* Mutant: the copies are not published.
DownloadLost(T) ==
    /\ dirtyRanges' = dirtyRanges \ T
    /\ UNCHANGED backing
Download(T) ==
    /\ dirtyRanges' = dirtyRanges \ T
    /\ backing' = [p \in Pages |-> IF p \in T \cap gpuDirty \cap dirtyRanges THEN device[p] ELSE backing[p]]

(* The command of ReadMemory: a thread that loads needs the page readable, one that stores also   *)
(* writable, unless the buffer is gone.                                                          *)
Replies(t) == Goes(t, IF thread[t].kind = "Load" THEN "Accesses" ELSE "Queues")

ReadMemory(t) ==
    LET p == thread[t].page
        store == thread[t].kind = "Store" IN
    /\ Free /\ At(t, "Flushes")
    /\ IF store /\ p \notin Covered
       THEN Replies(t) /\ UNCHANGED <<tracker, dirtyRanges, bdaSync, buffers, contents, gpu>>
       ELSE /\ FindBuffer({p})
            /\ Download({p})
            /\ CASE p \in gpuDirty ->
                    gpu' = [Work("Unmarks", {p}) EXCEPT !.for = {t}] /\ UNCHANGED thread
                 [] p \notin gpuDirty /\ store ->
                    gpu' = [Work("Marks", {p}) EXCEPT !.for = {t}] /\ UNCHANGED thread
                 [] p \notin gpuDirty /\ ~ store -> Replies(t) /\ UNCHANGED gpu
            /\ UNCHANGED tracker
    /\ UNCHANGED mapped

(* The command of UnmapMemory invalidates the page first, whose flush runs inline.                *)
UnmapMemory(t) ==
    LET p == thread[t].page IN
    /\ Free /\ At(t, "Unmaps")
    /\ IF p \in gpuDirty
       THEN /\ Download({p})
            /\ gpu' = [Work("Unmarks", {p}) EXCEPT !.for = {t}]
            /\ UNCHANGED tracker
       ELSE /\ MarkCpu({p})
            /\ gpu' = [Work("Queues", {p}) EXCEPT !.for = {t}]
            /\ UNCHANGED <<dirtyRanges, backing>>
    /\ UNCHANGED <<bdaSync, mapped, buffers, device, thread>>

(* UnmarkRegionAsGpuModified; a thread that loads needs no more.                                  *)
Unmarks ==
    /\ gpu.step = "Unmarks"
    /\ gpuDirty' = gpuDirty \ gpu.pages
    /\ IF \E t \in gpu.for : thread[t].kind = "Load"
       THEN gpu' = Idle /\ \E t \in gpu.for : Replies(t)
       ELSE gpu' = [gpu EXCEPT !.step = "Marks"] /\ UNCHANGED thread
    /\ UNCHANGED <<cpuDirty, failed, dirtyRanges, bdaSync, mapped, buffers, contents>>

(* MarkRegionAsCpuModified, and UntrackMemory of a buffer that is collected.                      *)
Marks ==
    /\ gpu.step = "Marks"
    /\ MarkCpu(gpu.pages)
    /\ gpu' = [gpu EXCEPT !.step = "Queues"]
    /\ UNCHANGED <<dirtyRanges, bdaSync, mapped, buffers, contents, thread>>

Queues ==
    /\ gpu.step = "Queues"
    /\ bdaSync' = bdaSync \cup gpu.pages
    /\ gpu' = Idle
    /\ IF gpu.for = {}
       THEN /\ buffers' = buffers \ {gpu.pages}
            /\ device' = [p \in Pages |-> IF p \in gpu.pages THEN Junk ELSE device[p]]
            /\ UNCHANGED <<mapped, thread>>
       ELSE /\ \E t \in gpu.for :
                IF At(t, "Unmaps")
                THEN mapped' = mapped \ gpu.pages /\ thread' = [thread EXCEPT ![t] = Resting]
                ELSE Replies(t) /\ UNCHANGED mapped
            /\ UNCHANGED <<buffers, device>>
    /\ UNCHANGED <<tracker, dirtyRanges, backing>>

(* RunGarbageCollector retires a buffer; one with GPU dirty pages is downloaded first.            *)
CollectsClean ==
    /\ Free
    /\ \E b \in buffers :
        /\ b \cap gpuDirty = {}
        /\ MarkCpu(b)
        /\ gpu' = Work("Queues", b)
    /\ UNCHANGED <<dirtyRanges, bdaSync, mapped, buffers, contents, thread>>

CollectsDirty ==
    /\ Free
    /\ \E b \in buffers :
        /\ b \cap gpuDirty # {}
        /\ Download(b)
        /\ gpu' = Work("Unmarks", b)
    /\ UNCHANGED <<tracker, bdaSync, mapped, buffers, device, thread>>

(* SynchronizeBda takes the pages that are queued before it walks over them.                      *)
PrepareBda ==
    /\ Free
    /\ gpu' = Work("Walks", bdaSync \cap mapped \cap Covered)
    /\ bdaSync' = {}
    /\ UNCHANGED <<tracker, dirtyRanges, mapped, buffers, contents, thread>>

\* Mutant: the queue is taken once more after the walk.
TakesAfterWalk ==
    /\ gpu.step = "Walks" /\ gpu.todo = {}
    /\ IF gpu.pages = {}
       THEN gpu' = Idle /\ bdaSync' = {} /\ UNCHANGED cpuDirty
       ELSE \E p \in gpu.pages :
            /\ cpuDirty' = cpuDirty \ {p}
            /\ gpu' = [gpu EXCEPT !.pages = @ \ {p}, !.todo = {p} \cap cpuDirty]
            /\ UNCHANGED bdaSync
    /\ UNCHANGED <<gpuDirty, failed, dirtyRanges, mapped, buffers, contents, thread>>
Walks ==
    /\ gpu.step = "Walks" /\ gpu.todo = {}
    /\ IF gpu.pages = {}
       THEN gpu' = Idle /\ UNCHANGED cpuDirty
       ELSE \E p \in gpu.pages :
            /\ cpuDirty' = cpuDirty \ {p}
            /\ gpu' = [gpu EXCEPT !.pages = @ \ {p}, !.todo = {p} \cap cpuDirty]
    /\ UNCHANGED <<gpuDirty, failed, dirtyRanges, bdaSync, mapped, buffers, contents, thread>>

--------------------------------------------------------------------------------
Init ==
    /\ cpuDirty = Pages
    /\ gpuDirty = {}
    /\ dirtyRanges = {}
    /\ bdaSync = Pages
    /\ mapped = Pages
    /\ buffers = {}
    /\ backing \in [Pages -> Values]
    /\ device = [p \in Pages |-> Junk]
    /\ thread = [t \in Threads |-> Resting]
    /\ gpu = Idle
    /\ failed = FALSE

Guest(t) ==
    \/ Asks(t) \/ Loads(t) \/ Stores(t) \/ Faults(t)
    \/ Invalidates(t) \/ QueuesBdaSync(t) \/ MapMemory(t)

StartsWork ==
    \/ Streams \/ Obtains \/ Fills
    \/ CollectsClean \/ CollectsDirty \/ PrepareBda
    \/ \E t \in Threads : ReadMemory(t) \/ UnmapMemory(t)

ContinuesWork == Copies \/ Owns \/ Draws \/ Unmarks \/ Marks \/ Queues \/ Walks

Next ==
    \/ \E t \in Threads : Guest(t)
    \/ StartsWork
    \/ ContinuesWork

Spec == Init /\ [][Next]_vars
--------------------------------------------------------------------------------
(* Properties.                                                                    *)

ThreadShape ==
    [step : {"Rests", "Accesses", "Flushes", "Invalidates", "Queues", "Unmaps"},
     kind : {"None", "Load", "Store", "Unmap"}, page : 0 .. LastPage, value : Contents]

TypeOK ==
    /\ cpuDirty \subseteq Pages /\ gpuDirty \subseteq Pages /\ dirtyRanges \subseteq Pages
    /\ bdaSync \subseteq Pages /\ mapped \subseteq Pages
    /\ buffers \subseteq (SUBSET Pages) \ {{}}
    /\ backing \in [Pages -> Values] /\ device \in [Pages -> Contents]
    /\ thread \in [Threads -> ThreadShape]
    /\ gpu.step \in {"Idle", "Uploads", "Draws", "Unmarks", "Marks", "Queues", "Walks"}
    /\ gpu.pages \subseteq Pages /\ gpu.todo \subseteq Pages

(* A page is never dirty on both sides, none of the EXITs of ChangeState is reached, what the    *)
(* GPU owns is covered by exactly one buffer, and between two pieces of work the tracker and the *)
(* bytes agree about what it owns (ValidateGpuDirtyOwnership).                                   *)
OneOwner ==
    /\ TypeOK
    /\ ~ failed
    /\ cpuDirty \cap gpuDirty = {}
    /\ Pages \ cpuDirty \subseteq Covered
    /\ \A b, c \in buffers : b = c \/ b \cap c = {}
    /\ gpu.step = "Idle" => dirtyRanges = gpuDirty

(* What the GPU reads, through a buffer or through the stream buffer, is what the page held at    *)
(* some moment since the work began: no upload is missed, none comes too early, and a store that  *)
(* returned before the work began is seen by it.                                                  *)
Read(p) == IF p \in DOMAIN gpu.streamed THEN gpu.streamed[p] ELSE device[p]
DrawsReadCurrent ==
    gpu.step = "Draws" => \A p \in gpu.pages : Read(p) \in gpu.seen[p]

(* Every page of a buffer whose backing is newer waits to be synchronised before the next work     *)
(* that reaches memory by device addresses, or somebody is between making it dirty and queueing    *)
(* it: "Queue after changing ownership" (memoryTracker.h:34) loses no page.                        *)
Queueing(p) ==
    \/ \E t \in Threads : At(t, "Queues") /\ thread[t].page = p
    \/ gpu.step \in {"Queues", "Walks"} /\ p \in gpu.pages
BdaCovered == cpuDirty \cap Covered \cap mapped \subseteq {p \in Pages : p \in bdaSync \/ Queueing(p)}

(* Guest threads and the GPU see one memory.                                                       *)
Request(t) ==
    CASE At(t, "Rests") /\ thread[t].kind = "Load" -> [state |-> "Loaded", value |-> thread[t].value]
      [] At(t, "Rests") /\ thread[t].kind # "Load" -> [state |-> "Resting"]
      [] ~ At(t, "Rests") /\ thread[t].kind = "Load" -> [state |-> "Loads", page |-> thread[t].page]
      [] thread[t].kind = "Store" -> [state |-> "Stores", page |-> thread[t].page]
      [] thread[t].kind = "Unmap" -> [state |-> "Unmaps", page |-> thread[t].page]

Shared == INSTANCE SharedMemory
    WITH memory <- [p \in Pages |-> Memory(p)], present <- mapped, call <- [t \in Threads |-> Request(t)]
Implements == Shared!AbsSpec
================================================================================
