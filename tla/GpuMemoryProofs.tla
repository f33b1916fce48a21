----------------------------- MODULE GpuMemoryProofs -----------------------------
(* Guest threads and the GPU see one memory, for every number of threads, pages and *)
(* contents: the invariants of GpuMemory, and that it implements SharedMemory.  The *)
(* invariants are not inductive as they stand.  What they need says, for each kind  *)
(* of work of the GPU thread, what holds while it is under way (Stepwise), where    *)
(* the backing and the buffer of a page agree (Copied), and what a thread that asks *)
(* for something is waiting for (Asking).                                           *)
EXTENDS GpuMemory, TLAPS

(* The GPU thread's work as a record, so that its updates have a type.  What it keeps of   *)
(* the pages it looks at has an entry for each of them, while it obtains or draws.          *)
Looked == UNION {[T -> SUBSET Contents] : T \in SUBSET Pages}
Taken == UNION {[T -> Contents] : T \in SUBSET Pages}
Steps == {"Idle", "Uploads", "Draws", "Unmarks", "Marks", "Queues", "Walks"}
Works == [step : Steps, pages : SUBSET Pages, todo : SUBSET Pages, written : BOOLEAN,
          for : SUBSET Threads, seen : Looked, streamed : Taken]
Working ==
    /\ gpu \in Works
    /\ gpu.step \in {"Uploads", "Draws"} => DOMAIN gpu.seen = gpu.pages
    /\ gpu.step \notin {"Uploads", "Draws"} => DOMAIN gpu.seen = {}
    /\ gpu.step # "Draws" => DOMAIN gpu.streamed = {}

(* A thread that does not rest has asked for something about a page; the thread the GPU      *)
(* thread works for waits for it, and the work is about its page alone.                      *)
Asking ==
    \A t \in Threads :
        /\ At(t, "Rests") => thread[t].kind \in {"None", "Load"}
        /\ ~ At(t, "Rests") => thread[t].page \in Pages /\ thread[t].kind # "None"
        /\ ~ At(t, "Rests") => (At(t, "Unmaps") <=> thread[t].kind = "Unmap")
        /\ t \in gpu.for => /\ gpu.for = {t} /\ gpu.pages = {thread[t].page}
                            /\ gpu.step \in {"Unmarks", "Marks", "Queues"}
                            /\ At(t, "Flushes") \/ At(t, "Unmaps")

(* OneOwner without the types.                                                               *)
Owned ==
    /\ ~ failed
    /\ cpuDirty \cap gpuDirty = {}
    /\ Pages \ cpuDirty \subseteq Covered
    /\ \A b, c \in buffers : b = c \/ b \cap c = {}

(* A clean page whose upload is not pending is the same on both sides, a buffer that the GPU  *)
(* owns holds contents, and only an upload or a walk leaves something to copy.                *)
Copied ==
    /\ \A p \in Pages \ (cpuDirty \cup gpuDirty \cup gpu.todo) : device[p] = backing[p]
    /\ \A p \in gpuDirty : device[p] \in Values
    /\ gpu.todo \cap gpuDirty = {}
    /\ gpu.todo # {} => gpu.step \in {"Uploads", "Walks"}
    /\ gpu.step = "Uploads" => gpu.todo \subseteq gpu.pages

(* What holds between the steps of each kind of work: nobody makes a page dirty that the GPU   *)
(* is about to write; a page that is going to be unmarked has been published; what the tracker *)
(* and the bytes say differs only between publishing and unmarking; an unmapped page is CPU     *)
(* dirty, so that no buffer speaks for it.                                                      *)
Stepwise ==
    /\ gpu.step \in {"Uploads", "Draws", "Walks"} => gpu.pages \subseteq mapped
    /\ gpu.step = "Walks" => gpu.pages \subseteq Covered
    /\ gpu.step = "Uploads" /\ gpu.written => gpu.pages \cap cpuDirty = {}
    /\ gpu.step = "Draws" /\ gpu.written => gpu.pages \subseteq gpuDirty
    /\ gpu.step # "Unmarks" => dirtyRanges = gpuDirty
    /\ gpu.step = "Unmarks" =>
            /\ dirtyRanges = gpuDirty \ gpu.pages
            /\ \A p \in gpu.pages \cap gpuDirty : device[p] = backing[p]
    /\ gpu.step = "Marks" => gpu.pages \cap gpuDirty = {}
    /\ gpu.step = "Queues" => gpu.pages \subseteq cpuDirty
    /\ Pages \ mapped \subseteq cpuDirty

(* DrawsReadCurrent, and what it needs before the work is recorded: the copy that is still to   *)
(* be made, or else the buffer, shows what the page has held since the work began.              *)
Sees ==
    /\ gpu.step = "Uploads" =>
        \A p \in gpu.pages : (IF p \in gpu.todo THEN backing[p] ELSE device[p]) \in gpu.seen[p]
    /\ DrawsReadCurrent

(* BdaCovered, page by page.                                                                    *)
Queued == \A p \in cpuDirty \cap Covered \cap mapped : p \in bdaSync \/ Queueing(p)

Inv == TypeOK /\ Working /\ Asking /\ Owned /\ Copied /\ Stepwise /\ Sees /\ Queued

--------------------------------------------------------------------------------
(* The records.                                                                  *)

LEMMA EmptyLooks == <<>> \in Looked /\ <<>> \in Taken /\ DOMAIN <<>> = {}
<1>1. <<>> = [p \in {} |-> {}] /\ <<>> = [p \in {} |-> Junk] /\ DOMAIN <<>> = {}
  OBVIOUS
<1>2. [p \in {} |-> {}] \in [{} -> SUBSET Contents] /\ [p \in {} |-> Junk] \in [{} -> Contents]
  OBVIOUS
<1>3. QED
  BY <1>1, <1>2 DEF Looked, Taken

(* The work after an assignment to one or two of its fields.                     *)
Keeps(fields) == \A f \in {"step", "pages", "todo", "written", "for", "seen", "streamed"} \ fields :
    gpu'[f] = gpu[f]

LEMMA IdleWork ==
    /\ Idle \in Works /\ Idle.step = "Idle" /\ Idle.pages = {}
    /\ Idle.todo = {} /\ Idle.written = FALSE /\ Idle.for = {}
    /\ DOMAIN Idle.seen = {} /\ DOMAIN Idle.streamed = {}
  BY EmptyLooks DEF Works, Steps, Idle, Work

LEMMA NewWork ==
    ASSUME NEW s \in Steps, NEW STATE T, T \in SUBSET Pages, gpu' = Work(s, T)
    PROVE  /\ gpu' \in Works /\ gpu'.step = s /\ gpu'.pages = T
           /\ gpu'.todo = {} /\ gpu'.written = FALSE /\ gpu'.for = {}
           /\ DOMAIN gpu'.seen = {} /\ DOMAIN gpu'.streamed = {}
  BY EmptyLooks DEF Works, Work

LEMMA NewWorkFor ==
    ASSUME NEW s \in Steps, NEW STATE T, T \in SUBSET Pages, NEW t \in Threads,
           gpu' = [Work(s, T) EXCEPT !.for = {t}]
    PROVE  /\ gpu' \in Works /\ gpu'.step = s /\ gpu'.pages = T
           /\ gpu'.todo = {} /\ gpu'.written = FALSE /\ gpu'.for = {t}
           /\ DOMAIN gpu'.seen = {} /\ DOMAIN gpu'.streamed = {}
  BY EmptyLooks DEF Works, Work

LEMMA NewUpload ==
    ASSUME NEW STATE T, T \in SUBSET Pages, NEW STATE d, d \in SUBSET Pages, NEW w \in BOOLEAN,
           NEW STATE l, l \in Looked,
           gpu' = [Work("Uploads", T) EXCEPT !.written = w, !.todo = d, !.seen = l]
    PROVE  /\ gpu' \in Works /\ gpu'.step = "Uploads" /\ gpu'.pages = T
           /\ gpu'.todo = d /\ gpu'.written = w /\ gpu'.for = {}
           /\ gpu'.seen = l /\ DOMAIN gpu'.streamed = {}
  BY EmptyLooks DEF Works, Work, Steps

LEMMA NewStream ==
    ASSUME NEW STATE T, T \in SUBSET Pages, NEW STATE l, l \in Looked, NEW STATE m, m \in Taken,
           gpu' = [Work("Draws", T) EXCEPT !.seen = l, !.streamed = m]
    PROVE  /\ gpu' \in Works /\ gpu'.step = "Draws" /\ gpu'.pages = T
           /\ gpu'.todo = {} /\ gpu'.written = FALSE /\ gpu'.for = {}
           /\ gpu'.seen = l /\ gpu'.streamed = m
  BY EmptyLooks DEF Works, Work, Steps

LEMMA WorkSteps ==
    ASSUME gpu \in Works, NEW s \in Steps, gpu' = [gpu EXCEPT !.step = s]
    PROVE  gpu' \in Works /\ gpu'.step = s /\ Keeps({"step"})
  BY DEF Works, Keeps

LEMMA WorkCopies ==
    ASSUME gpu \in Works, NEW STATE d, d \in SUBSET Pages, gpu' = [gpu EXCEPT !.todo = d]
    PROVE  gpu' \in Works /\ gpu'.todo = d /\ Keeps({"todo"})
  BY DEF Works, Keeps

LEMMA WorkWalks ==
    ASSUME gpu \in Works, NEW STATE T, T \in SUBSET Pages, NEW STATE d, d \in SUBSET Pages,
           gpu' = [gpu EXCEPT !.pages = T, !.todo = d]
    PROVE  gpu' \in Works /\ gpu'.pages = T /\ gpu'.todo = d /\ Keeps({"pages", "todo"})
  BY DEF Works, Keeps

LEMMA WorkSees ==
    ASSUME gpu \in Works, NEW STATE p, p \in DOMAIN gpu.seen, NEW v \in Contents,
           gpu' = [gpu EXCEPT !.seen[p] = @ \cup {v}]
    PROVE  /\ gpu' \in Works /\ Keeps({"seen"})
           /\ DOMAIN gpu'.seen = DOMAIN gpu.seen
           /\ \A q \in DOMAIN gpu.seen : gpu.seen[q] \subseteq gpu'.seen[q]
           /\ v \in gpu'.seen[p]
<1> DEFINE l == [gpu.seen EXCEPT ![p] = @ \cup {v}]
<1>1. PICK T \in SUBSET Pages : gpu.seen \in [T -> SUBSET Contents]
  BY DEF Works, Looked
<1>2. l \in Looked
  <2>1. l \in [T -> SUBSET Contents]
    BY <1>1
  <2>2. QED
    BY <2>1 DEF Looked
<1>3. DOMAIN l = DOMAIN gpu.seen /\ v \in l[p] /\ \A q \in DOMAIN gpu.seen : gpu.seen[q] \subseteq l[q]
  BY <1>1
<1>4. gpu' = [gpu EXCEPT !.seen = l]
  OBVIOUS
<1> HIDE DEF l
<1>5. QED
  BY <1>2, <1>3, <1>4 DEF Works, Keeps

(* What a guest thread is doing after a step of it.                              *)
ThreadSteps == {"Rests", "Accesses", "Flushes", "Invalidates", "Queues", "Unmaps"}

LEMMA ThreadGoes ==
    ASSUME thread \in [Threads -> ThreadShape], NEW t \in Threads, NEW s \in ThreadSteps, Goes(t, s)
    PROVE  /\ thread' \in [Threads -> ThreadShape]
           /\ thread'[t].step = s /\ thread'[t].kind = thread[t].kind
           /\ thread'[t].page = thread[t].page /\ thread'[t].value = thread[t].value
           /\ \A u \in Threads \ {t} : thread'[u] = thread[u]
  BY DEF Goes, ThreadShape, ThreadSteps

LEMMA ThreadReplies ==
    ASSUME thread \in [Threads -> ThreadShape], NEW t \in Threads, Replies(t)
    PROVE  /\ thread' \in [Threads -> ThreadShape]
           /\ thread'[t].step = IF thread[t].kind = "Load" THEN "Accesses" ELSE "Queues"
           /\ thread'[t].kind = thread[t].kind
           /\ thread'[t].page = thread[t].page /\ thread'[t].value = thread[t].value
           /\ \A u \in Threads \ {t} : thread'[u] = thread[u]
  BY ThreadGoes DEF Replies, ThreadSteps

LEMMA ThreadBecomes ==
    ASSUME thread \in [Threads -> ThreadShape], NEW t \in Threads, NEW STATE new, new \in ThreadShape,
           thread' = [thread EXCEPT ![t] = new]
    PROVE  /\ thread' \in [Threads -> ThreadShape] /\ thread'[t] = new
           /\ \A u \in Threads \ {t} : thread'[u] = thread[u]
  OBVIOUS

--------------------------------------------------------------------------------
(* FindBuffer leaves buffers apart from each other, covers what it was asked for, *)
(* and queues for BDA every page that was not covered before.                     *)
LEMMA Found ==
    ASSUME TypeOK, Owned, NEW T \in SUBSET Pages, T # {}, FindBuffer(T)
    PROVE  /\ buffers' \subseteq (SUBSET Pages) \ {{}}
           /\ \A b, c \in buffers' : b = c \/ b \cap c = {}
           /\ Covered \cup T \subseteq Covered'
           /\ Covered' \ Covered \subseteq bdaSync'
           /\ bdaSync \subseteq bdaSync' /\ bdaSync' \subseteq Pages
           /\ device' = device
<1>1. CASE \E b \in buffers : T \subseteq b
  BY <1>1 DEF FindBuffer, Owned, TypeOK, Covered
<1>2. CASE ~ \E b \in buffers : T \subseteq b
  <2>1. PICK B \in SUBSET Pages :
           /\ T \subseteq B
           /\ \A b \in buffers : b \cap B # {} => b \subseteq B
           /\ buffers' = {b \in buffers : b \cap B = {}} \cup {B}
           /\ bdaSync' = bdaSync \cup B
           /\ device' = device
    BY <1>2 DEF FindBuffer, CreateBuffer
  <2>2. buffers' \subseteq (SUBSET Pages) \ {{}} /\ \A b, c \in buffers' : b = c \/ b \cap c = {}
    BY <2>1 DEF Owned, TypeOK
  <2>3. ASSUME NEW p \in Covered PROVE p \in Covered'
    <3>1. PICK b \in buffers : p \in b
      BY DEF Covered
    <3>2. CASE b \cap B = {}
      BY <2>1, <3>1, <3>2 DEF Covered
    <3>3. CASE b \cap B # {}
      BY <2>1, <3>1, <3>3 DEF Covered
    <3>4. QED
      BY <3>2, <3>3
  <2>4. Covered' \ Covered \subseteq B /\ T \subseteq Covered'
    BY <2>1 DEF Covered
  <2>5. QED
    BY <2>1, <2>2, <2>3, <2>4 DEF TypeOK
<1>3. QED
  BY <1>1, <1>2

(* A page that the GPU does not own may be made CPU dirty.                       *)
LEMMA MarksSafely ==
    ASSUME NEW STATE T, T \cap gpuDirty = {}, ~ failed, MarkCpu(T)
    PROVE  ~ failed'
  BY DEF MarkCpu

--------------------------------------------------------------------------------
(* Every step keeps the invariant.                                               *)

(* A step that changes only what one thread is doing, and does not take it from its queueing,  *)
(* needs to care for that thread alone.                                                         *)
LEMMA ThreadMoves ==
    ASSUME Inv, NEW t \in Threads, ~ At(t, "Queues"),
           thread' \in [Threads -> ThreadShape], \A u \in Threads \ {t} : thread'[u] = thread[u],
           UNCHANGED <<cpuDirty, gpuDirty, dirtyRanges, bdaSync, mapped, buffers, backing, device, gpu, failed>>,
           thread'[t].step # "Rests" => /\ thread'[t].page \in Pages /\ thread'[t].kind # "None"
                                        /\ thread'[t].step = "Unmaps" <=> thread'[t].kind = "Unmap",
           thread'[t].step = "Rests" => thread'[t].kind = "Load",
           t \notin gpu.for
    PROVE  Inv'
<1>1. TypeOK' /\ Working' /\ Owned'
  BY DEF Inv, TypeOK, Working, Owned, Covered
<1>2. Asking'
  BY DEF Inv, Asking, At
<1>3. Copied' /\ Stepwise' /\ Sees'
  BY DEF Inv, Copied, Stepwise, Sees, Covered, DrawsReadCurrent, Read
<1>4. Queued'
  BY DEF Inv, Queued, Queueing, At, Covered
<1>5. QED
  BY <1>1, <1>2, <1>3, <1>4 DEF Inv

LEMMA GuestSteps ==
    ASSUME Inv, NEW t \in Threads, Guest(t)
    PROVE  Inv'
<1> USE DEF Inv
<1>1. ASSUME Asks(t) PROVE Inv'
  <2>1. PICK new \in ThreadShape :
          /\ thread' = [thread EXCEPT ![t] = new]
          /\ new.page \in Pages /\ new.kind # "None"
          /\ new.step \in {"Accesses", "Unmaps"} /\ (new.step = "Unmaps" <=> new.kind = "Unmap")
    <3>1. PICK p \in Pages :
            \/ \E kind \in {"Load", "Store"} : thread' = [thread EXCEPT ![t] = Thread("Accesses", kind, p, Junk)]
            \/ thread' = [thread EXCEPT ![t] = Thread("Unmaps", "Unmap", p, Junk)]
      BY <1>1 DEF Asks, TypeOK
    <3>2. /\ \A kind \in {"Load", "Store"} : Thread("Accesses", kind, p, Junk) \in ThreadShape
          /\ Thread("Unmaps", "Unmap", p, Junk) \in ThreadShape
      BY GpuMemoryAssumption DEF Thread, ThreadShape, Contents, Pages
    <3>3. QED
      BY <3>1, <3>2 DEF Thread
  <2>2. /\ thread' \in [Threads -> ThreadShape] /\ thread'[t] = new
        /\ \A u \in Threads \ {t} : thread'[u] = thread[u]
    BY <2>1, ThreadBecomes DEF TypeOK
  <2>3. QED
    BY <1>1, <2>1, <2>2, ThreadMoves DEF Asks, At, Asking, tracker, contents
<1>2. ASSUME Loads(t) PROVE Inv'
  <2> DEFINE new == Thread("Rests", "Load", 0, backing[thread[t].page])
  <2>1. new \in ThreadShape /\ new.step = "Rests" /\ new.kind = "Load" /\ thread' = [thread EXCEPT ![t] = new]
    <3>1. backing[thread[t].page] \in Contents
      BY <1>2 DEF Loads, Contents, TypeOK, At, Asking
    <3>2. QED
      BY <1>2, <3>1, GpuMemoryAssumption DEF Loads, Thread, ThreadShape
  <2> HIDE DEF new
  <2>2. /\ thread' \in [Threads -> ThreadShape] /\ thread'[t] = new
        /\ \A u \in Threads \ {t} : thread'[u] = thread[u]
    BY <2>1, ThreadBecomes DEF TypeOK
  <2>3. QED
    BY <1>2, <2>1, <2>2, ThreadMoves DEF Loads, At, Asking, tracker, contents
<1>3. ASSUME Stores(t) PROVE Inv'
  <2> DEFINE p == thread[t].page
  <2>1. /\ p \in Pages /\ p \in cpuDirty /\ p \notin gpuDirty /\ t \notin gpu.for
        /\ At(t, "Accesses")
    BY <1>3 DEF Stores, Writable, Readable, Asking, At
  <2>2. PICK v \in Values :
          /\ backing' = [backing EXCEPT ![p] = v]
          /\ gpu' = IF p \in DOMAIN gpu.seen THEN [gpu EXCEPT !.seen[p] = @ \cup {v}] ELSE gpu
    BY <1>3 DEF Stores
  <2>3. Resting \in ThreadShape /\ Resting.step = "Rests" /\ Resting.kind = "None"
    BY GpuMemoryAssumption DEF Resting, Thread, ThreadShape, Contents
  <2>4. /\ thread' \in [Threads -> ThreadShape] /\ thread'[t] = Resting
        /\ \A u \in Threads \ {t} : thread'[u] = thread[u]
    BY <1>3, <2>3, ThreadBecomes DEF Stores, TypeOK
  <2>5. UNCHANGED <<cpuDirty, gpuDirty, failed, dirtyRanges, bdaSync, mapped, buffers, device>>
    BY <1>3 DEF Stores, tracker
  <2>6. /\ gpu' \in Works /\ gpu'.step = gpu.step /\ gpu'.pages = gpu.pages /\ gpu'.todo = gpu.todo
        /\ gpu'.written = gpu.written /\ gpu'.for = gpu.for /\ gpu'.streamed = gpu.streamed
        /\ DOMAIN gpu'.seen = DOMAIN gpu.seen
        /\ \A q \in DOMAIN gpu.seen : gpu.seen[q] \subseteq gpu'.seen[q]
        /\ p \in DOMAIN gpu.seen => v \in gpu'.seen[p]
    <3>1. CASE p \in DOMAIN gpu.seen
      BY <2>2, <3>1, WorkSees DEF Working, Contents, Keeps
    <3>2. CASE p \notin DOMAIN gpu.seen
      BY <2>2, <3>2 DEF Working
    <3>3. QED
      BY <3>1, <3>2
  <2> HIDE DEF p
  <2>7. TypeOK' /\ Working' /\ Owned'
    BY <2>1, <2>2, <2>4, <2>5, <2>6 DEF TypeOK, Working, Owned, Covered
  <2>8. Asking'
    BY <2>1, <2>3, <2>4, <2>5, <2>6 DEF Asking, At
  <2>9. Copied' /\ Stepwise'
    BY <2>1, <2>2, <2>5, <2>6 DEF Copied, Stepwise, TypeOK, Covered
  <2>10. Sees'
    BY <2>1, <2>2, <2>5, <2>6 DEF Sees, DrawsReadCurrent, Read, Working, TypeOK
  <2>11. Queued'
    BY <2>1, <2>4, <2>5, <2>6 DEF Queued, Queueing, At, Covered
  <2>12. QED
    BY <2>7, <2>8, <2>9, <2>10, <2>11
<1>4. ASSUME Faults(t) PROVE Inv'
  <2>1. PICK s \in {"Flushes", "Invalidates"} : Goes(t, s)
    BY <1>4 DEF Faults
  <2>2. QED
    BY <1>4, <2>1, ThreadGoes, ThreadMoves DEF Faults, At, Asking, TypeOK, ThreadSteps, tracker, contents
<1>5. ASSUME Invalidates(t) PROVE Inv'
  <2> DEFINE p == thread[t].page
  <2>1. p \in Pages /\ t \notin gpu.for /\ At(t, "Invalidates") /\ ~ Locked
    BY <1>5 DEF Invalidates, Asking, At
  <2>2. CASE p \in gpuDirty
    BY <1>5, <2>1, <2>2, ThreadGoes, ThreadMoves
      DEF Invalidates, At, Asking, TypeOK, ThreadSteps, tracker, contents
  <2>3. CASE p \notin gpuDirty
    <3>1. /\ cpuDirty' = cpuDirty \cup {p} /\ ~ failed' /\ Goes(t, "Queues")
          /\ UNCHANGED <<gpuDirty, dirtyRanges, bdaSync, mapped, buffers, backing, device, gpu>>
      <4>1. MarkCpu({p}) /\ Goes(t, "Queues")
        BY <1>5, <2>3 DEF Invalidates
      <4>2. ~ failed'
        BY <2>3, <4>1, MarksSafely DEF Owned
      <4>3. QED
        BY <1>5, <4>1, <4>2 DEF Invalidates, MarkCpu, contents
    <3>2. /\ thread' \in [Threads -> ThreadShape] /\ thread'[t].step = "Queues"
          /\ thread'[t].kind = thread[t].kind /\ thread'[t].page = p
          /\ \A u \in Threads \ {t} : thread'[u] = thread[u]
      BY <3>1, ThreadGoes DEF TypeOK, ThreadSteps
    <3> HIDE DEF p
    <3>3. TypeOK' /\ Working' /\ Owned' /\ Copied'
      BY <2>1, <2>3, <3>1, <3>2 DEF TypeOK, Working, Owned, Covered, Copied
    <3>4. Asking'
      BY <2>1, <3>1, <3>2 DEF Asking, At, p
    <3>5. Stepwise' /\ Sees'
      BY <2>1, <3>1 DEF Stepwise, Sees, DrawsReadCurrent, Read, Covered, Locked, TypeOK
    <3>6. Queued'
      BY <2>1, <3>1, <3>2 DEF Queued, Queueing, At, Covered, TypeOK
    <3>7. QED
      BY <3>3, <3>4, <3>5, <3>6
  <2>4. QED
    BY <2>2, <2>3
<1>6. ASSUME QueuesBdaSync(t) PROVE Inv'
  <2>1. /\ bdaSync' = bdaSync \cup {thread[t].page} /\ Goes(t, "Accesses")
        /\ UNCHANGED <<cpuDirty, gpuDirty, failed, dirtyRanges, mapped, buffers, backing, device, gpu>>
        /\ thread[t].page \in Pages /\ At(t, "Queues") /\ t \notin gpu.for
    BY <1>6 DEF QueuesBdaSync, tracker, contents, Asking, At
  <2>2. /\ thread' \in [Threads -> ThreadShape] /\ thread'[t].step = "Accesses"
        /\ thread'[t].kind = thread[t].kind /\ thread'[t].page = thread[t].page
        /\ \A u \in Threads \ {t} : thread'[u] = thread[u]
    BY <2>1, ThreadGoes DEF TypeOK, ThreadSteps
  <2>3. TypeOK' /\ Working' /\ Owned' /\ Copied'
    BY <2>1, <2>2 DEF TypeOK, Working, Owned, Covered, Copied
  <2>4. Asking'
    BY <2>1, <2>2 DEF Asking, At
  <2>5. Stepwise' /\ Sees'
    BY <2>1 DEF Stepwise, Sees, DrawsReadCurrent, Read, Covered
  <2>6. Queued'
    BY <2>1, <2>2 DEF Queued, Queueing, At, Covered
  <2>7. QED
    BY <2>3, <2>4, <2>5, <2>6
<1>7. ASSUME MapMemory(t) PROVE Inv'
  <2>1. PICK p \in Pages \ mapped, v \in Values :
          /\ mapped' = mapped \cup {p} /\ bdaSync' = bdaSync \cup {p}
          /\ backing' = [backing EXCEPT ![p] = v]
    BY <1>7 DEF MapMemory
  <2>2. /\ UNCHANGED <<cpuDirty, gpuDirty, failed, dirtyRanges, buffers, device, thread, gpu>>
        /\ p \in cpuDirty /\ p \notin gpuDirty
    BY <1>7, <2>1 DEF MapMemory, tracker, Stepwise, Owned
  <2>3. TypeOK' /\ Working' /\ Asking' /\ Owned'
    BY <2>1, <2>2 DEF TypeOK, Working, Asking, At, Owned, Covered
  <2>4. Copied' /\ Stepwise'
    BY <2>1, <2>2 DEF Copied, Stepwise, TypeOK, Covered
  <2>5. Sees' /\ Queued'
    BY <2>1, <2>2 DEF Sees, DrawsReadCurrent, Read, Stepwise, TypeOK, Queued, Queueing, At, Covered
  <2>6. QED
    BY <2>3, <2>4, <2>5
<1>8. QED
  BY <1>1, <1>2, <1>3, <1>4, <1>5, <1>6, <1>7 DEF Guest

(* Work begins when the GPU thread is free: nothing is left to copy, and the tracker and the     *)
(* bytes agree.                                                                                  *)
LEMMA WhenFree ==
    ASSUME Inv, Free
    PROVE  /\ gpu.step = "Idle" /\ gpu.todo = {} /\ gpu.for = {} /\ dirtyRanges = gpuDirty
           /\ \A p \in Pages : Memory(p) = device[p] \/ Memory(p) = backing[p]
           /\ \A p \in Pages \ cpuDirty : Memory(p) = device[p]
           /\ \A p \in Pages \ gpuDirty : Memory(p) = backing[p]
           /\ \A p \in Pages : Memory(p) \in Values
           /\ \A p \in cpuDirty \cap Covered \cap mapped :
                p \in bdaSync \/ \E t \in Threads : At(t, "Queues") /\ thread[t].page = p
<1>1. /\ gpu.step = "Idle" /\ gpu.todo = {} /\ gpu.for = {}
  BY IdleWork DEF Free
<1>2. QED
  BY <1>1 DEF Inv, Stepwise, Copied, Owned, TypeOK, Memory, Queued, Queueing

(* Download publishes what the GPU owns of the pages, and nothing else.                            *)
LEMMA Downloaded ==
    ASSUME Inv, Free, NEW T \in SUBSET Pages, Download(T)
    PROVE  /\ dirtyRanges' = gpuDirty \ T /\ backing' \in [Pages -> Values]
           /\ \A p \in Pages : backing'[p] = IF p \in T \cap gpuDirty THEN device[p] ELSE backing[p]
<1>1. dirtyRanges = gpuDirty /\ gpuDirty \subseteq Pages
  BY WhenFree DEF Inv, TypeOK
<1>2. backing' = [p \in Pages |-> IF p \in T \cap gpuDirty THEN device[p] ELSE backing[p]]
  BY <1>1 DEF Download
<1>3. QED
  BY <1>1, <1>2 DEF Download, Inv, TypeOK, Copied

LEMMA StartSteps ==
    ASSUME Inv, StartsWork
    PROVE  Inv'
<1> USE DEF Inv
<1>1. ASSUME Streams PROVE Inv'
  <2>1. PICK T \in SUBSET mapped :
          /\ Free /\ T \cap gpuDirty = {}
          /\ gpu' = [Work("Draws", T) EXCEPT !.seen = Looks(T), !.streamed = [p \in T |-> backing[p]]]
    BY <1>1 DEF Streams
  <2>2. /\ T \in SUBSET Pages
        /\ UNCHANGED <<cpuDirty, gpuDirty, failed, dirtyRanges, bdaSync, mapped, buffers, backing, device, thread>>
    BY <1>1, <2>1 DEF Streams, TypeOK, tracker, contents
  <2>3. Looks(T) \in Looked /\ [p \in T |-> backing[p]] \in Taken
    <3>1. Looks(T) \in [T -> SUBSET Contents] /\ [p \in T |-> backing[p]] \in [T -> Contents]
      BY <2>1, <2>2, WhenFree DEF Looks, TypeOK, Contents
    <3>2. QED
      BY <2>2, <3>1 DEF Looked, Taken
  <2>4. /\ gpu' \in Works /\ gpu'.step = "Draws" /\ gpu'.pages = T
        /\ gpu'.todo = {} /\ gpu'.written = FALSE /\ gpu'.for = {}
        /\ gpu'.seen = Looks(T) /\ gpu'.streamed = [p \in T |-> backing[p]]
    BY <2>1, <2>2, <2>3, NewStream
  <2>5. TypeOK' /\ Working' /\ Asking' /\ Owned'
    BY <2>2, <2>4 DEF TypeOK, Working, Asking, At, Owned, Covered, Looks
  <2>6. Copied' /\ Stepwise' /\ Queued'
    BY <2>1, <2>2, <2>4, WhenFree DEF Copied, Stepwise, Queued, Queueing, At, Covered
  <2>7. Sees'
    BY <2>1, <2>2, <2>4, WhenFree DEF Sees, DrawsReadCurrent, Read, Looks, TypeOK
  <2>8. QED
    BY <2>5, <2>6, <2>7
<1>2. ASSUME Obtains PROVE Inv'
  <2>1. PICK T \in SUBSET mapped, written \in BOOLEAN :
          /\ Free /\ T # {} /\ FindBuffer(T)
          /\ cpuDirty' = cpuDirty \ T
          /\ gpu' = [Work("Uploads", T) EXCEPT
                        !.written = written, !.todo = T \cap cpuDirty, !.seen = Looks(T)]
    BY <1>2 DEF Obtains
  <2>2. /\ T \in SUBSET Pages /\ T \cap cpuDirty \in SUBSET Pages
        /\ UNCHANGED <<gpuDirty, failed, dirtyRanges, mapped, backing, thread>>
    BY <1>2, <2>1 DEF Obtains, TypeOK
  <2>3. /\ buffers' \subseteq (SUBSET Pages) \ {{}}
        /\ \A b, c \in buffers' : b = c \/ b \cap c = {}
        /\ Covered \cup T \subseteq Covered' /\ Covered' \ Covered \subseteq bdaSync'
        /\ bdaSync \subseteq bdaSync' /\ bdaSync' \subseteq Pages
        /\ device' = device
    BY <2>1, <2>2, Found
  <2>4. Looks(T) \in Looked
    <3>1. Looks(T) \in [T -> SUBSET Contents]
      BY <2>1, <2>2, WhenFree DEF Looks, Contents
    <3>2. QED
      BY <2>2, <3>1 DEF Looked
  <2>5. /\ gpu' \in Works /\ gpu'.step = "Uploads" /\ gpu'.pages = T
        /\ gpu'.todo = T \cap cpuDirty /\ gpu'.written = written /\ gpu'.for = {}
        /\ gpu'.seen = Looks(T) /\ DOMAIN gpu'.streamed = {}
    BY <2>1, <2>2, <2>4, NewUpload
  <2>6. TypeOK' /\ Working' /\ Asking'
    BY <2>1, <2>2, <2>3, <2>5 DEF TypeOK, Working, Asking, At, Looks
  <2>7. Owned'
    BY <2>1, <2>2, <2>3 DEF Owned
  <2>8. Copied'
    BY <2>1, <2>2, <2>3, <2>5, WhenFree DEF Copied, Owned
  <2>9. Stepwise'
    BY <2>1, <2>2, <2>3, <2>5, WhenFree DEF Stepwise
  <2>10. Sees'
    BY <2>1, <2>2, <2>3, <2>5, WhenFree DEF Sees, DrawsReadCurrent, Looks, Copied, Owned
  <2>11. Queued'
    BY <2>1, <2>2, <2>3, <2>5, WhenFree DEF Queued, Queueing, At
  <2>12. QED
    BY <2>6, <2>7, <2>8, <2>9, <2>10, <2>11
<1>3. ASSUME Fills PROVE Inv'
  <2>1. PICK p \in mapped \ gpuDirty, v \in Values :
          /\ Free /\ MarkCpu({p})
          /\ bdaSync' = IF Writable(p) THEN bdaSync ELSE bdaSync \cup {p}
          /\ backing' = [backing EXCEPT ![p] = v]
    BY <1>3 DEF Fills
  <2>2. /\ p \in Pages /\ cpuDirty' = cpuDirty \cup {p} /\ ~ failed'
        /\ UNCHANGED <<gpuDirty, dirtyRanges, mapped, buffers, device, thread, gpu>>
    BY <1>3, <2>1, MarksSafely DEF Fills, MarkCpu, TypeOK, Owned
  <2>3. TypeOK' /\ Working' /\ Asking' /\ Owned'
    BY <2>1, <2>2 DEF TypeOK, Working, Asking, At, Owned, Covered
  <2>4. Copied' /\ Stepwise'
    BY <2>1, <2>2, WhenFree DEF Copied, Stepwise, TypeOK
  <2>5. Sees'
    BY <2>1, <2>2, WhenFree DEF Sees, DrawsReadCurrent
  <2>6. Queued'
    BY <2>1, <2>2, WhenFree DEF Queued, Queueing, At, Writable, Covered
  <2>7. QED
    BY <2>3, <2>4, <2>5, <2>6
<1>4. ASSUME CollectsClean PROVE Inv'
  <2>1. PICK b \in buffers : Free /\ b \cap gpuDirty = {} /\ MarkCpu(b) /\ gpu' = Work("Queues", b)
    BY <1>4 DEF CollectsClean
  <2>2. /\ b \in SUBSET Pages /\ cpuDirty' = cpuDirty \cup b /\ ~ failed'
        /\ UNCHANGED <<gpuDirty, dirtyRanges, bdaSync, mapped, buffers, backing, device, thread>>
    BY <1>4, <2>1, MarksSafely DEF CollectsClean, MarkCpu, TypeOK, Owned, contents
  <2>3. /\ gpu' \in Works /\ gpu'.step = "Queues" /\ gpu'.pages = b /\ gpu'.todo = {}
        /\ gpu'.written = FALSE /\ gpu'.for = {} /\ DOMAIN gpu'.seen = {} /\ DOMAIN gpu'.streamed = {}
    BY <2>1, <2>2, NewWork DEF Steps
  <2>4. TypeOK' /\ Working' /\ Asking' /\ Owned'
    BY <2>1, <2>2, <2>3 DEF TypeOK, Working, Asking, At, Owned, Covered
  <2>5. Copied' /\ Stepwise' /\ Sees' /\ Queued'
    BY <2>1, <2>2, <2>3, WhenFree
      DEF Copied, Stepwise, Sees, DrawsReadCurrent, Queued, Queueing, At, Covered
  <2>6. QED
    BY <2>4, <2>5
<1>5. ASSUME CollectsDirty PROVE Inv'
  <2>1. PICK b \in buffers : Free /\ Download(b) /\ gpu' = Work("Unmarks", b)
    BY <1>5 DEF CollectsDirty
  <2>2. /\ b \in SUBSET Pages
        /\ UNCHANGED <<cpuDirty, gpuDirty, failed, bdaSync, mapped, buffers, device, thread>>
    BY <1>5, <2>1 DEF CollectsDirty, TypeOK, tracker
  <2>3. /\ gpu' \in Works /\ gpu'.step = "Unmarks" /\ gpu'.pages = b /\ gpu'.todo = {}
        /\ gpu'.written = FALSE /\ gpu'.for = {} /\ DOMAIN gpu'.seen = {} /\ DOMAIN gpu'.streamed = {}
    BY <2>1, <2>2, NewWork DEF Steps
  <2>4. /\ dirtyRanges' = gpuDirty \ b /\ backing' \in [Pages -> Values]
        /\ \A p \in Pages : backing'[p] = IF p \in b \cap gpuDirty THEN device[p] ELSE backing[p]
    BY <2>1, <2>2, Downloaded
  <2>5. TypeOK' /\ Working' /\ Asking' /\ Owned'
    BY <2>2, <2>3, <2>4 DEF TypeOK, Working, Asking, At, Owned, Covered
  <2>6. Copied' /\ Stepwise' /\ Sees' /\ Queued'
    BY <2>1, <2>2, <2>3, <2>4, WhenFree
      DEF Copied, Stepwise, Sees, DrawsReadCurrent, Queued, Queueing, At, Covered, TypeOK
  <2>7. QED
    BY <2>5, <2>6
<1>6. ASSUME PrepareBda PROVE Inv'
  <2>1. /\ Free /\ gpu' = Work("Walks", bdaSync \cap mapped \cap Covered) /\ bdaSync' = {}
        /\ UNCHANGED <<cpuDirty, gpuDirty, failed, dirtyRanges, mapped, buffers, backing, device, thread>>
        /\ bdaSync \cap mapped \cap Covered \in SUBSET Pages
    BY <1>6 DEF PrepareBda, tracker, contents, TypeOK
  <2>2. /\ gpu' \in Works /\ gpu'.step = "Walks" /\ gpu'.pages = bdaSync \cap mapped \cap Covered
        /\ gpu'.todo = {} /\ gpu'.written = FALSE /\ gpu'.for = {}
        /\ DOMAIN gpu'.seen = {} /\ DOMAIN gpu'.streamed = {}
    BY <2>1, NewWork DEF Steps
  <2>3. TypeOK' /\ Working' /\ Asking' /\ Owned'
    BY <2>1, <2>2 DEF TypeOK, Working, Asking, At, Owned, Covered
  <2>4. Copied' /\ Stepwise' /\ Sees' /\ Queued'
    BY <2>1, <2>2, WhenFree
      DEF Copied, Stepwise, Sees, DrawsReadCurrent, Queued, Queueing, At, Covered
  <2>5. QED
    BY <2>3, <2>4
<1>7. ASSUME NEW t \in Threads, ReadMemory(t) PROVE Inv'
  <2> DEFINE p == thread[t].page
  <2>1. /\ Free /\ At(t, "Flushes") /\ mapped' = mapped
        /\ p \in Pages /\ thread[t].kind \notin {"None", "Unmap"}
    BY <1>7 DEF ReadMemory, Asking, At
  <2>2. CASE thread[t].kind = "Store" /\ p \notin Covered
    <3>1. /\ Replies(t)
          /\ UNCHANGED <<cpuDirty, gpuDirty, failed, dirtyRanges, bdaSync, buffers, backing, device, gpu>>
      BY <1>7, <2>2 DEF ReadMemory, tracker, contents
    <3>2. QED
      BY <2>1, <2>2, <3>1, ThreadReplies, ThreadMoves, WhenFree DEF At, TypeOK
  <2>3. CASE ~ (thread[t].kind = "Store" /\ p \notin Covered)
    <3>1. /\ FindBuffer({p}) /\ Download({p})
          /\ UNCHANGED <<cpuDirty, gpuDirty, failed>>
          /\ \/ /\ p \in gpuDirty /\ UNCHANGED thread
                /\ gpu' = [Work("Unmarks", {p}) EXCEPT !.for = {t}]
             \/ /\ p \notin gpuDirty /\ UNCHANGED thread
                /\ gpu' = [Work("Marks", {p}) EXCEPT !.for = {t}]
             \/ p \notin gpuDirty /\ Replies(t) /\ UNCHANGED gpu
      BY <1>7, <2>3 DEF ReadMemory, tracker
    <3>2. /\ dirtyRanges' = gpuDirty \ {p} /\ backing' \in [Pages -> Values]
          /\ \A q \in Pages : backing'[q] = IF q \in {p} \cap gpuDirty THEN device[q] ELSE backing[q]
      BY <2>1, <3>1, Downloaded
    <3>3. /\ buffers' \subseteq (SUBSET Pages) \ {{}}
          /\ \A b, c \in buffers' : b = c \/ b \cap c = {}
          /\ Covered \cup {p} \subseteq Covered' /\ Covered' \ Covered \subseteq bdaSync'
          /\ bdaSync \subseteq bdaSync' /\ bdaSync' \subseteq Pages
          /\ device' = device
      BY <2>1, <3>1, Found
    <3>4. CASE UNCHANGED thread /\ \E s \in {"Unmarks", "Marks"} :
                /\ gpu' = [Work(s, {p}) EXCEPT !.for = {t}]
                /\ s = "Unmarks" <=> p \in gpuDirty
      <4>1. PICK s \in {"Unmarks", "Marks"} :
              /\ gpu' \in Works /\ gpu'.step = s /\ gpu'.pages = {p} /\ gpu'.todo = {}
              /\ gpu'.written = FALSE /\ gpu'.for = {t}
              /\ DOMAIN gpu'.seen = {} /\ DOMAIN gpu'.streamed = {}
              /\ s = "Unmarks" <=> p \in gpuDirty
        BY <2>1, <3>4, NewWorkFor DEF Steps
      <4>2. TypeOK' /\ Working'
        BY <2>1, <3>1, <3>2, <3>3, <3>4, <4>1 DEF TypeOK, Working
      <4>3. Asking' /\ Owned'
        BY <2>1, <3>1, <3>3, <3>4, <4>1 DEF Asking, At, Owned
      <4>4. Copied' /\ Stepwise'
        BY <2>1, <3>1, <3>2, <3>3, <4>1, WhenFree DEF Copied, Stepwise, TypeOK
      <4>5. Sees' /\ Queued'
        BY <2>1, <3>1, <3>3, <3>4, <4>1, WhenFree DEF Sees, DrawsReadCurrent, Queued, Queueing, At
      <4>6. QED
        BY <4>2, <4>3, <4>4, <4>5
    <3>5. CASE p \notin gpuDirty /\ Replies(t) /\ UNCHANGED gpu
      <4>1. /\ thread' \in [Threads -> ThreadShape] /\ thread'[t].step \in {"Accesses", "Queues"}
            /\ thread'[t].kind = thread[t].kind /\ thread'[t].page = p
            /\ \A u \in Threads \ {t} : thread'[u] = thread[u]
        BY <3>5, ThreadReplies DEF TypeOK
      <4>2. dirtyRanges' = gpuDirty /\ \A q \in Pages : backing'[q] = backing[q]
        BY <3>2, <3>5
      <4>3. TypeOK' /\ Working'
        BY <2>1, <3>1, <3>2, <3>3, <3>5, <4>1 DEF TypeOK, Working
      <4>4. Asking' /\ Owned'
        BY <2>1, <3>1, <3>3, <3>5, <4>1, WhenFree DEF Asking, At, Owned
      <4>5. Copied' /\ Stepwise'
        BY <2>1, <3>1, <3>3, <3>5, <4>2, WhenFree DEF Copied, Stepwise, TypeOK
      <4>6. Sees' /\ Queued'
        BY <2>1, <3>1, <3>3, <3>5, <4>1, WhenFree DEF Sees, DrawsReadCurrent, Queued, Queueing, At
      <4>7. QED
        BY <4>3, <4>4, <4>5, <4>6
    <3>6. QED
      BY <3>1, <3>4, <3>5
  <2>4. QED
    BY <2>2, <2>3
<1>8. ASSUME NEW t \in Threads, UnmapMemory(t) PROVE Inv'
  <2> DEFINE p == thread[t].page
  <2>1. /\ Free /\ At(t, "Unmaps") /\ p \in Pages
        /\ UNCHANGED <<bdaSync, mapped, buffers, device, thread>>
    BY <1>8 DEF UnmapMemory, Asking, At
  <2>2. CASE p \in gpuDirty
    <3>1. /\ Download({p}) /\ gpu' = [Work("Unmarks", {p}) EXCEPT !.for = {t}]
          /\ UNCHANGED <<cpuDirty, gpuDirty, failed>>
      BY <1>8, <2>2 DEF UnmapMemory, tracker
    <3>2. /\ dirtyRanges' = gpuDirty \ {p} /\ backing' \in [Pages -> Values]
          /\ \A q \in Pages : backing'[q] = IF q \in {p} \cap gpuDirty THEN device[q] ELSE backing[q]
      BY <2>1, <3>1, Downloaded
    <3>3. /\ gpu' \in Works /\ gpu'.step = "Unmarks" /\ gpu'.pages = {p} /\ gpu'.todo = {}
          /\ gpu'.written = FALSE /\ gpu'.for = {t} /\ DOMAIN gpu'.seen = {} /\ DOMAIN gpu'.streamed = {}
      BY <2>1, <3>1, NewWorkFor DEF Steps
    <3>4. TypeOK' /\ Working' /\ Asking' /\ Owned'
      BY <2>1, <3>1, <3>2, <3>3 DEF TypeOK, Working, Asking, At, Owned, Covered
    <3>5. Copied' /\ Stepwise'
      BY <2>1, <3>1, <3>2, <3>3, WhenFree DEF Copied, Stepwise, Covered, TypeOK
    <3>6. Sees' /\ Queued'
      BY <2>1, <3>1, <3>3, WhenFree DEF Sees, DrawsReadCurrent, Queued, Queueing, At, Covered
    <3>7. QED
      BY <3>4, <3>5, <3>6
  <2>3. CASE p \notin gpuDirty
    <3>1. /\ MarkCpu({p}) /\ gpu' = [Work("Queues", {p}) EXCEPT !.for = {t}]
          /\ UNCHANGED <<dirtyRanges, backing>>
      BY <1>8, <2>3 DEF UnmapMemory
    <3>2. cpuDirty' = cpuDirty \cup {p} /\ gpuDirty' = gpuDirty /\ ~ failed'
      BY <2>3, <3>1, MarksSafely DEF MarkCpu, Owned
    <3>3. /\ gpu' \in Works /\ gpu'.step = "Queues" /\ gpu'.pages = {p} /\ gpu'.todo = {}
          /\ gpu'.written = FALSE /\ gpu'.for = {t} /\ DOMAIN gpu'.seen = {} /\ DOMAIN gpu'.streamed = {}
      BY <2>1, <3>1, NewWorkFor DEF Steps
    <3>4. TypeOK' /\ Working' /\ Asking'
      BY <2>1, <3>1, <3>2, <3>3 DEF TypeOK, Working, Asking, At
    <3>5. Owned'
      BY <2>1, <2>3, <3>2 DEF Owned, Covered
    <3>6. Copied' /\ Stepwise'
      BY <2>1, <3>1, <3>2, <3>3, WhenFree DEF Copied, Stepwise, Covered
    <3>7. Sees' /\ Queued'
      BY <2>1, <3>2, <3>3, WhenFree DEF Sees, DrawsReadCurrent, Queued, Queueing, At, Covered
    <3>8. QED
      BY <3>4, <3>5, <3>6, <3>7
  <2>4. QED
    BY <2>2, <2>3
<1>9. QED
  BY <1>1, <1>2, <1>3, <1>4, <1>5, <1>6, <1>7, <1>8 DEF StartsWork

LEMMA ContinueSteps ==
    ASSUME Inv, ContinuesWork
    PROVE  Inv'
<1> USE DEF Inv
<1>1. ASSUME Copies PROVE Inv'
  <2>1. PICK p \in gpu.todo : device' = [device EXCEPT ![p] = backing[p]] /\ gpu' = [gpu EXCEPT !.todo = @ \ {p}]
    BY <1>1 DEF Copies
  <2>2. /\ gpu.step \in {"Uploads", "Walks"} /\ p \in Pages /\ p \notin gpuDirty
        /\ gpu.todo \ {p} \in SUBSET Pages /\ gpu' = [gpu EXCEPT !.todo = gpu.todo \ {p}]
        /\ UNCHANGED <<cpuDirty, gpuDirty, failed, dirtyRanges, bdaSync, mapped, buffers, backing, thread>>
    BY <1>1, <2>1 DEF Copies, TypeOK, Copied, tracker
  <2>3. /\ gpu' \in Works /\ gpu'.step = gpu.step /\ gpu'.pages = gpu.pages /\ gpu'.todo = gpu.todo \ {p}
        /\ gpu'.written = gpu.written /\ gpu'.for = gpu.for /\ gpu'.seen = gpu.seen
        /\ gpu'.streamed = gpu.streamed
    BY <2>2, WorkCopies DEF Working, Keeps
  <2>4. TypeOK' /\ Working' /\ Asking' /\ Owned'
    BY <2>1, <2>2, <2>3 DEF TypeOK, Working, Asking, At, Owned, Covered, Contents
  <2>5. Copied' /\ Stepwise'
    BY <2>1, <2>2, <2>3 DEF Copied, Stepwise, Covered, TypeOK
  <2>6. Sees' /\ Queued'
    BY <2>1, <2>2, <2>3 DEF Sees, DrawsReadCurrent, Queued, Queueing, At, Covered, TypeOK
  <2>7. QED
    BY <2>4, <2>5, <2>6
<1>2. ASSUME Owns PROVE Inv'
  <2>1. /\ gpu.step = "Uploads" /\ gpu.todo = {} /\ gpu' = [gpu EXCEPT !.step = "Draws"]
        /\ UNCHANGED <<cpuDirty, bdaSync, mapped, buffers, backing, device, thread>>
        /\ dirtyRanges = gpuDirty
    BY <1>2 DEF Owns, tracker, contents, Stepwise
  <2>2. /\ gpu' \in Works /\ gpu'.step = "Draws" /\ gpu'.pages = gpu.pages /\ gpu'.todo = {}
        /\ gpu'.written = gpu.written /\ gpu'.for = gpu.for /\ gpu'.seen = gpu.seen
        /\ gpu'.streamed = gpu.streamed
    BY <2>1, WorkSteps DEF Working, Keeps, Steps
  <2>3. /\ ~ failed' /\ cpuDirty \cap gpuDirty' = {}
        /\ dirtyRanges' = gpuDirty' /\ gpuDirty' \subseteq gpuDirty \cup gpu.pages
        /\ gpuDirty \subseteq gpuDirty'
        /\ gpu.written => gpu.pages \subseteq gpuDirty'
    <3>1. CASE gpu.written
      <4>1. /\ gpuDirty' = gpuDirty \cup gpu.pages /\ dirtyRanges' = dirtyRanges \cup gpu.pages
            /\ failed' = (failed \/ gpu.pages \cap cpuDirty # {})
            /\ gpu.pages \cap cpuDirty = {}
        BY <1>2, <2>1, <3>1 DEF Owns, Stepwise
      <4>2. ~ failed'
        BY <4>1 DEF Owned
      <4>3. QED
        BY <2>1, <4>1, <4>2 DEF Owned
    <3>2. CASE ~ gpu.written
      BY <1>2, <2>1, <3>2 DEF Owns, tracker, Owned
    <3>3. QED
      BY <3>1, <3>2
  <2>4. TypeOK' /\ Working' /\ Asking' /\ Owned'
    BY <2>1, <2>2, <2>3 DEF TypeOK, Working, Asking, At, Owned, Covered
  <2>5. \A p \in gpu.pages : p \notin cpuDirty /\ p \notin gpuDirty => device[p] = backing[p]
    BY <2>1 DEF Copied, TypeOK
  <2>6. \A p \in gpuDirty' : device[p] \in Values
    BY <2>1, <2>3, <2>5 DEF Copied, TypeOK
  <2>7. Copied' /\ Stepwise'
    BY <2>1, <2>2, <2>3, <2>6 DEF Copied, Stepwise
  <2>8. Sees' /\ Queued'
    BY <2>1, <2>2 DEF Sees, DrawsReadCurrent, Read, Working, Queued, Queueing, At, Covered
  <2>9. QED
    BY <2>4, <2>7, <2>8
<1>3. ASSUME Draws PROVE Inv'
  <2>1. /\ gpu.step = "Draws" /\ gpu' = Idle
        /\ UNCHANGED <<cpuDirty, gpuDirty, failed, dirtyRanges, bdaSync, mapped, buffers, backing, thread>>
        /\ dirtyRanges = gpuDirty /\ gpu.todo = {}
    BY <1>3 DEF Draws, tracker, Stepwise, Copied
  <2>2. /\ gpu' \in Works /\ gpu'.step = "Idle" /\ gpu'.todo = {} /\ gpu'.for = {} /\ gpu'.pages = {}
        /\ DOMAIN gpu'.seen = {} /\ DOMAIN gpu'.streamed = {} /\ gpu'.written = FALSE
    BY <2>1, IdleWork
  <2>3. /\ device' \in [Pages -> Contents]
        /\ \A p \in Pages : device'[p] = device[p] \/ (device'[p] \in Values /\ p \in gpuDirty)
    <3>1. CASE gpu.written
      <4>1. PICK T \in SUBSET gpu.pages, v \in Values :
                device' = [p \in Pages |-> IF p \in T THEN v ELSE device[p]]
        BY <1>3, <3>1 DEF Draws
      <4>2. T \subseteq gpuDirty
        BY <2>1, <3>1 DEF Stepwise
      <4>3. QED
        BY <4>1, <4>2 DEF TypeOK, Contents
    <3>2. CASE ~ gpu.written
      BY <1>3, <3>2 DEF Draws, TypeOK
    <3>3. QED
      BY <3>1, <3>2
  <2>4. TypeOK' /\ Working' /\ Asking' /\ Owned'
    BY <2>1, <2>2, <2>3 DEF TypeOK, Working, Asking, At, Owned, Covered
  <2>5. Copied' /\ Stepwise'
    BY <2>1, <2>2, <2>3 DEF Copied, Stepwise, TypeOK
  <2>6. Sees' /\ Queued'
    BY <2>1, <2>2 DEF Sees, DrawsReadCurrent, Queued, Queueing, At, Covered
  <2>7. QED
    BY <2>4, <2>5, <2>6
<1>4. ASSUME Unmarks PROVE Inv'
  <2>1. /\ gpu.step = "Unmarks" /\ gpuDirty' = gpuDirty \ gpu.pages /\ gpu.todo = {}
        /\ UNCHANGED <<cpuDirty, failed, dirtyRanges, bdaSync, mapped, buffers, backing, device>>
        /\ dirtyRanges = gpuDirty \ gpu.pages
        /\ \A p \in gpu.pages \cap gpuDirty : device[p] = backing[p]
    BY <1>4 DEF Unmarks, contents, Stepwise, Copied
  <2>2. /\ gpu' \in Works /\ gpu'.step \in {"Idle", "Marks"} /\ gpu'.pages \subseteq gpu.pages
        /\ gpu'.todo = {} /\ gpu'.for \subseteq gpu.for
        /\ gpu'.for # {} => gpu'.pages = gpu.pages /\ gpu'.step = "Marks"
        /\ DOMAIN gpu'.seen = {} /\ DOMAIN gpu'.streamed = {}
    <3>1. CASE gpu' = Idle
      BY <3>1, IdleWork
    <3>2. CASE gpu' = [gpu EXCEPT !.step = "Marks"]
      BY <2>1, <3>2, WorkSteps DEF Working, Keeps, Steps
    <3>3. QED
      BY <1>4, <3>1, <3>2 DEF Unmarks
  <2>3. /\ thread' \in [Threads -> ThreadShape]
        /\ \A u \in Threads :
            \/ thread'[u] = thread[u]
            \/ /\ gpu'.for = {} /\ u \in gpu.for
               /\ thread'[u].step \in {"Accesses", "Queues"}
               /\ thread'[u].kind = thread[u].kind /\ thread'[u].page = thread[u].page
               /\ thread'[u].kind # "Unmap"
    <3>1. CASE \E t \in gpu.for : thread[t].kind = "Load"
      <4>1. PICK t \in gpu.for : Replies(t)
        BY <1>4, <3>1 DEF Unmarks
      <4>2. t \in Threads /\ gpu.for = {t} /\ thread[t].kind = "Load"
        BY <3>1, <4>1 DEF Asking, Working, Works
      <4>3. gpu'.for = {}
        BY <1>4, <3>1, IdleWork DEF Unmarks
      <4>4. QED
        BY <4>1, <4>2, <4>3, ThreadReplies DEF TypeOK
    <3>2. CASE ~ \E t \in gpu.for : thread[t].kind = "Load"
      BY <1>4, <3>2 DEF Unmarks, TypeOK
    <3>3. QED
      BY <3>1, <3>2
  <2>4. TypeOK' /\ Working'
    BY <2>1, <2>2, <2>3 DEF TypeOK, Working, Works
  <2>5. Asking'
    BY <2>2, <2>3 DEF Asking, At, Working, Works
  <2>6. Owned' /\ Copied' /\ Stepwise'
    BY <2>1, <2>2 DEF Owned, Covered, Copied, Stepwise
  <2>7. Sees'
    BY <2>2 DEF Sees, DrawsReadCurrent
  <2>8. Queued'
    BY <2>1, <2>2, <2>3 DEF Queued, Queueing, At, Covered, Asking
  <2>9. QED
    BY <2>4, <2>5, <2>6, <2>7, <2>8
<1>5. ASSUME Marks PROVE Inv'
  <2>1. /\ gpu.step = "Marks" /\ MarkCpu(gpu.pages) /\ gpu' = [gpu EXCEPT !.step = "Queues"]
        /\ UNCHANGED <<dirtyRanges, bdaSync, mapped, buffers, backing, device, thread>>
        /\ gpu.pages \cap gpuDirty = {} /\ gpu.todo = {} /\ dirtyRanges = gpuDirty
    BY <1>5 DEF Marks, contents, Stepwise, Copied
  <2>2. cpuDirty' = cpuDirty \cup gpu.pages /\ gpuDirty' = gpuDirty /\ ~ failed'
    BY <2>1, MarksSafely DEF MarkCpu, Owned
  <2>3. /\ gpu' \in Works /\ gpu'.step = "Queues" /\ gpu'.pages = gpu.pages /\ gpu'.todo = {}
        /\ gpu'.for = gpu.for /\ DOMAIN gpu'.seen = {} /\ DOMAIN gpu'.streamed = {}
    BY <2>1, WorkSteps DEF Working, Keeps, Steps
  <2>4. TypeOK' /\ Working' /\ Asking' /\ Owned'
    BY <2>1, <2>2, <2>3 DEF TypeOK, Working, Asking, At, Owned, Covered
  <2>5. Copied' /\ Stepwise'
    BY <2>1, <2>2, <2>3 DEF Copied, Stepwise
  <2>6. Sees' /\ Queued'
    BY <2>1, <2>2, <2>3 DEF Sees, DrawsReadCurrent, Queued, Queueing, At, Covered
  <2>7. QED
    BY <2>4, <2>5, <2>6
<1>6. ASSUME Queues PROVE Inv'
  <2>1. /\ gpu.step = "Queues" /\ bdaSync' = bdaSync \cup gpu.pages /\ gpu' = Idle
        /\ UNCHANGED <<cpuDirty, gpuDirty, failed, dirtyRanges, backing>>
        /\ gpu.todo = {} /\ gpu.pages \subseteq cpuDirty /\ dirtyRanges = gpuDirty
        /\ gpu.pages \cap gpuDirty = {} /\ gpu.pages \subseteq Pages
    BY <1>6 DEF Queues, tracker, Stepwise, Copied, Owned, TypeOK
  <2>2. /\ gpu' \in Works /\ gpu'.step = "Idle" /\ gpu'.todo = {} /\ gpu'.for = {} /\ gpu'.pages = {}
        /\ DOMAIN gpu'.seen = {} /\ DOMAIN gpu'.streamed = {}
    BY <2>1, IdleWork
  <2>3. CASE gpu.for = {}
    <3>1. /\ buffers' = buffers \ {gpu.pages} /\ UNCHANGED <<mapped, thread>>
          /\ device' = [p \in Pages |-> IF p \in gpu.pages THEN Junk ELSE device[p]]
      BY <1>6, <2>3 DEF Queues
    <3>2. Covered' \subseteq Covered /\ Covered \ gpu.pages \subseteq Covered'
      BY <3>1 DEF Covered
    <3>3. TypeOK' /\ Working' /\ Asking' /\ Owned'
      BY <2>1, <2>2, <3>1, <3>2 DEF TypeOK, Working, Asking, At, Owned, Contents
    <3>4. Copied' /\ Stepwise'
      BY <2>1, <2>2, <3>1 DEF Copied, Stepwise, TypeOK
    <3>5. Sees' /\ Queued'
      BY <2>1, <2>2, <3>1, <3>2 DEF Sees, DrawsReadCurrent, Queued, Queueing, At
    <3>6. QED
      BY <3>3, <3>4, <3>5
  <2>4. CASE gpu.for # {}
    <3>1. PICK t \in gpu.for :
            IF At(t, "Unmaps")
            THEN mapped' = mapped \ gpu.pages /\ thread' = [thread EXCEPT ![t] = Resting]
            ELSE Replies(t) /\ UNCHANGED mapped
      BY <1>6, <2>4 DEF Queues
    <3>2. /\ UNCHANGED <<buffers, device>> /\ t \in Threads
          /\ gpu.for = {t} /\ (At(t, "Flushes") \/ At(t, "Unmaps"))
      BY <1>6, <2>4, <3>1 DEF Queues, Asking, Working, Works
    <3>3. Resting \in ThreadShape /\ Resting.step = "Rests" /\ Resting.kind = "None"
      BY GpuMemoryAssumption DEF Resting, Thread, ThreadShape, Contents
    <3>4. /\ thread' \in [Threads -> ThreadShape]
          /\ mapped \ gpu.pages \subseteq mapped' /\ mapped' \subseteq mapped
          /\ \A u \in Threads :
              \/ thread'[u] = thread[u]
              \/ thread'[u].step = "Rests" /\ thread'[u].kind = "None" /\ u = t
              \/ /\ u = t
                 /\ thread'[u].step \in {"Accesses", "Queues"}
                 /\ thread'[u].kind = thread[u].kind /\ thread'[u].page = thread[u].page
                 /\ ~ At(u, "Unmaps")
      BY <3>1, <3>2, <3>3, ThreadBecomes, ThreadReplies DEF TypeOK
    <3>5. TypeOK' /\ Working' /\ Owned'
      BY <2>1, <2>2, <3>2, <3>4 DEF TypeOK, Working, Owned, Covered
    <3>6. Asking'
      BY <2>2, <3>2, <3>4 DEF Asking, At
    <3>7. Copied' /\ Stepwise'
      BY <2>1, <2>2, <3>2, <3>4 DEF Copied, Stepwise
    <3>8. Sees' /\ Queued'
      BY <2>1, <2>2, <3>2, <3>4 DEF Sees, DrawsReadCurrent, Queued, Queueing, At, Covered
    <3>9. QED
      BY <3>5, <3>6, <3>7, <3>8
  <2>5. QED
    BY <2>3, <2>4
<1>7. ASSUME Walks PROVE Inv'
  <2>1. /\ gpu.step = "Walks" /\ gpu.todo = {} /\ dirtyRanges = gpuDirty
        /\ UNCHANGED <<gpuDirty, failed, dirtyRanges, bdaSync, mapped, buffers, backing, device, thread>>
        /\ gpu.pages \subseteq Covered /\ gpu.pages \subseteq mapped /\ gpu.pages \subseteq Pages
    BY <1>7 DEF Walks, contents, Stepwise, TypeOK
  <2>2. CASE gpu.pages = {}
    <3>1. gpu' = Idle /\ UNCHANGED cpuDirty
      BY <1>7, <2>2 DEF Walks
    <3>2. /\ gpu' \in Works /\ gpu'.step = "Idle" /\ gpu'.todo = {} /\ gpu'.for = {} /\ gpu'.pages = {}
          /\ DOMAIN gpu'.seen = {} /\ DOMAIN gpu'.streamed = {}
      BY <3>1, IdleWork
    <3>3. TypeOK' /\ Working' /\ Asking' /\ Owned'
      BY <2>1, <3>1, <3>2 DEF TypeOK, Working, Asking, At, Owned, Covered
    <3>4. Copied' /\ Stepwise' /\ Sees' /\ Queued'
      BY <2>1, <2>2, <3>1, <3>2
        DEF Copied, Stepwise, Sees, DrawsReadCurrent, Queued, Queueing, At, Covered
    <3>5. QED
      BY <3>3, <3>4
  <2>3. CASE gpu.pages # {}
    <3>1. PICK p \in gpu.pages :
            /\ cpuDirty' = cpuDirty \ {p}
            /\ gpu' = [gpu EXCEPT !.pages = @ \ {p}, !.todo = {p} \cap cpuDirty]
      BY <1>7, <2>3 DEF Walks
    <3>2. gpu.pages \ {p} \in SUBSET Pages /\ {p} \cap cpuDirty \in SUBSET Pages
      BY <2>1
    <3>3. /\ gpu' \in Works /\ gpu'.step = "Walks" /\ gpu'.pages = gpu.pages \ {p}
          /\ gpu'.todo = {p} \cap cpuDirty /\ gpu'.for = gpu.for
          /\ DOMAIN gpu'.seen = {} /\ DOMAIN gpu'.streamed = {}
      BY <2>1, <3>1, <3>2, WorkWalks DEF Working, Keeps
    <3>4. TypeOK' /\ Working'
      BY <2>1, <3>1, <3>2, <3>3 DEF TypeOK, Working
    <3>5. Asking' /\ Owned'
      BY <2>1, <3>1, <3>3 DEF Asking, At, Owned, Covered
    <3>6. Copied' /\ Stepwise'
      BY <2>1, <3>1, <3>3 DEF Copied, Stepwise, Covered, Owned
    <3>7. Sees' /\ Queued'
      BY <2>1, <3>1, <3>3 DEF Sees, DrawsReadCurrent, Queued, Queueing, At, Covered
    <3>8. QED
      BY <3>4, <3>5, <3>6, <3>7
  <2>4. QED
    BY <2>2, <2>3
<1>8. QED
  BY <1>1, <1>2, <1>3, <1>4, <1>5, <1>6, <1>7 DEF ContinuesWork

(* Initially the backing is newer everywhere and nobody does anything.                             *)
LEMMA InitInv == Init => Inv
<1> SUFFICES ASSUME Init PROVE Inv
  OBVIOUS
<1>1. Resting \in ThreadShape /\ Resting.step = "Rests" /\ Resting.kind = "None"
  BY GpuMemoryAssumption DEF Resting, Thread, ThreadShape, Contents
<1>2. gpu \in Works /\ gpu.step = "Idle" /\ gpu.todo = {} /\ gpu.for = {} /\ gpu.pages = {}
      /\ DOMAIN gpu.seen = {} /\ DOMAIN gpu.streamed = {}
  BY IdleWork DEF Init
<1>3. TypeOK /\ Working /\ Asking /\ Owned
  BY <1>1, <1>2 DEF Init, TypeOK, Working, Asking, At, Owned, Contents
<1>4. Copied /\ Stepwise /\ Sees /\ Queued
  BY <1>2 DEF Init, Copied, Stepwise, Sees, DrawsReadCurrent, Queued
<1>5. QED
  BY <1>3, <1>4 DEF Inv

LEMMA StepInv == Inv /\ [Next]_vars => Inv'
<1> SUFFICES ASSUME Inv, [Next]_vars PROVE Inv'
  OBVIOUS
<1>1. CASE UNCHANGED vars
  <2>1. TypeOK' /\ Working' /\ Asking' /\ Owned'
    BY <1>1 DEF Inv, vars, TypeOK, Working, Asking, At, Owned, Covered
  <2>2. Copied' /\ Stepwise' /\ Sees' /\ Queued'
    BY <1>1 DEF Inv, vars, Copied, Stepwise, Sees, DrawsReadCurrent, Read, Queued, Queueing, At, Covered
  <2>3. QED
    BY <2>1, <2>2 DEF Inv
<1>2. QED
  BY <1>1, GuestSteps, StartSteps, ContinueSteps DEF Next

LEMMA Invariance == Spec => []Inv
  BY InitInv, StepInv, PTL DEF Spec

(* A page is never dirty on both sides, no EXIT of ChangeState is reached, what the GPU owns lies   *)
(* in exactly one buffer, and whenever the GPU thread is free the tracker and the bytes agree       *)
(* (regionManager.h, ChangeState and ValidateGpuDirtyOwnership).                                    *)
THEOREM OneOwnerAlways == Spec => []OneOwner
<1>1. Inv => OneOwner
  BY DEF Inv, OneOwner, Owned, Stepwise
<1>2. QED
  BY <1>1, Invariance, PTL

(* What a recorded work reads is what the page held at some moment since the work began             *)
(* (BufferCache::ObtainBuffer, SynchronizeBuffer).                                                  *)
THEOREM DrawsReadCurrentAlways == Spec => []DrawsReadCurrent
<1>1. Inv => DrawsReadCurrent
  BY DEF Inv, Sees
<1>2. QED
  BY <1>1, Invariance, PTL

(* No page whose backing is newer is lost for the work that reaches memory by device addresses      *)
(* (memoryTracker.h, "Queue after changing ownership").                                             *)
THEOREM BdaCoveredAlways == Spec => []BdaCovered
<1>1. Inv => BdaCovered
  BY DEF Inv, Queued, BdaCovered, TypeOK
<1>2. QED
  BY <1>1, Invariance, PTL

--------------------------------------------------------------------------------
(* Guest threads and the GPU see one memory: what a page holds is what its newer  *)
(* side holds, and each step is one of SharedMemory's or changes nothing of it.   *)
memory == [p \in Pages |-> Memory(p)]
call == [t \in Threads |-> Request(t)]

(* The memory is the same when each page keeps its newer side or has both alike.  *)
LEMMA SameMemory ==
    ASSUME \A p \in Pages : Memory(p)' = Memory(p)
    PROVE  memory' = memory
  BY DEF memory

(* A store to the backing of a page that the GPU does not own.                    *)
LEMMA StoreBehind ==
    ASSUME Inv, NEW STATE p, p \in Pages \ gpuDirty, NEW v, UNCHANGED <<gpuDirty, device>>,
           backing' = [backing EXCEPT ![p] = v]
    PROVE  memory' = [memory EXCEPT ![p] = v]
<1>1. ASSUME NEW q \in Pages PROVE Memory(q)' = IF q = p THEN v ELSE Memory(q)
  BY DEF Memory, Inv, TypeOK
<1>2. QED
  BY <1>1 DEF memory

(* A request is the same until the thread rests, whatever is done for it.         *)
LEMMA SameCalls ==
    ASSUME Inv,
           \A u \in Threads :
            \/ thread'[u] = thread[u]
            \/ /\ ~ At(u, "Rests") /\ thread'[u].step # "Rests"
               /\ thread'[u].kind = thread[u].kind /\ thread'[u].page = thread[u].page
    PROVE  call' = call
<1>1. ASSUME NEW u \in Threads PROVE Request(u)' = Request(u)
  <2>1. CASE thread'[u] = thread[u]
    BY <2>1 DEF Request, At
  <2>2. CASE /\ ~ At(u, "Rests") /\ thread'[u].step # "Rests"
             /\ thread'[u].kind = thread[u].kind /\ thread'[u].page = thread[u].page
    <3>1. thread[u].kind \in {"Load", "Store", "Unmap"}
      BY <2>2 DEF Inv, Asking, TypeOK, ThreadShape
    <3>2. QED
      BY <2>2, <3>1 DEF Request, At
  <2>3. QED
    BY <2>1, <2>2
<1>2. QED
  BY <1>1 DEF call

(* What a thread that does not rest asks for.                                     *)
LEMMA Requests ==
    ASSUME Inv, NEW t \in Threads
    PROVE  /\ ~ At(t, "Rests") /\ thread[t].kind = "Load" => call[t] = Shared!Loads(thread[t].page)
           /\ ~ At(t, "Rests") /\ thread[t].kind = "Store" => call[t] = Shared!Stores(thread[t].page)
           /\ At(t, "Unmaps") => call[t] = Shared!Unmaps(thread[t].page)
           /\ At(t, "Rests") => call[t].state \in {"Resting", "Loaded"}
<1>1. call[t] = Request(t)
  BY DEF call
<1>2. CASE At(t, "Rests")
  <2>1. CASE thread[t].kind = "Load"
    <3>1. Request(t) = [state |-> "Loaded", value |-> thread[t].value]
      BY <1>2, <2>1 DEF Request
    <3>2. QED
      BY <1>1, <1>2, <2>1, <3>1 DEF At
  <2>2. CASE thread[t].kind # "Load"
    <3>1. Request(t) = [state |-> "Resting"]
      BY <1>2, <2>2 DEF Request, Inv, Asking
    <3>2. QED
      BY <1>1, <1>2, <2>2, <3>1 DEF At, Shared!Resting
  <2>3. QED
    BY <2>1, <2>2
<1>3. CASE ~ At(t, "Rests")
  <2>1. thread[t].kind \in {"Load", "Store", "Unmap"} /\ (At(t, "Unmaps") <=> thread[t].kind = "Unmap")
    BY <1>3 DEF Inv, Asking, TypeOK, ThreadShape
  <2>2. QED
    BY <1>1, <1>3, <2>1 DEF Request, Shared!Loads, Shared!Stores, Shared!Unmaps
<1>4. QED
  BY <1>2, <1>3 DEF At

(* One thread's request changes, as SharedMemory says it with EXCEPT.             *)
LEMMA OneCall ==
    ASSUME NEW t \in Threads, \A u \in Threads \ {t} : thread'[u] = thread[u]
    PROVE  call' = [call EXCEPT ![t] = Request(t)']
<1>1. ASSUME NEW u \in Threads \ {t} PROVE Request(u)' = Request(u)
  BY DEF Request, At
<1>2. QED
  BY <1>1 DEF call
LEMMA GuestImplements ==
    ASSUME Inv, Inv', NEW t \in Threads, Guest(t)
    PROVE  [Shared!AbsNext]_(Shared!absVars)
<1> USE DEF Inv
<1>1. ASSUME Asks(t) PROVE Shared!Ask(t)
  <2>1. PICK p \in mapped, kind \in {"Load", "Store", "Unmap"}, s \in {"Accesses", "Unmaps"} :
          thread' = [thread EXCEPT ![t] = Thread(s, kind, p, Junk)]
    BY <1>1 DEF Asks
  <2>2. /\ thread'[t].kind = kind /\ thread'[t].page = p /\ thread'[t].step = s
        /\ \A u \in Threads \ {t} : thread'[u] = thread[u]
    BY <2>1 DEF Thread, TypeOK
  <2>3. At(t, "Rests") /\ mapped' = mapped /\ \A q \in Pages : Memory(q)' = Memory(q)
    BY <1>1 DEF Asks, tracker, contents, Memory
  <2>4. Request(t)' \in {Shared!Loads(p), Shared!Stores(p), Shared!Unmaps(p)}
    BY <2>2 DEF Request, At, Shared!Loads, Shared!Stores, Shared!Unmaps
  <2>5. QED
    BY <2>2, <2>3, <2>4, OneCall, SameMemory, Requests DEF Shared!Ask, Shared!Ready, memory, call
<1>2. ASSUME Loads(t) PROVE Shared!Load(t)
  <2>1. /\ ~ At(t, "Rests") /\ thread[t].kind = "Load" /\ thread[t].page \in Pages
        /\ thread' = [thread EXCEPT ![t] = Thread("Rests", "Load", 0, backing[thread[t].page])]
        /\ thread[t].page \notin gpuDirty
        /\ UNCHANGED mapped /\ \A q \in Pages : Memory(q)' = Memory(q)
    BY <1>2 DEF Loads, At, Asking, Readable, tracker, contents, Memory
  <2>2. /\ thread'[t] = Thread("Rests", "Load", 0, backing[thread[t].page])
        /\ \A u \in Threads \ {t} : thread'[u] = thread[u]
    BY <2>1 DEF TypeOK
  <2>3. call[t] = Shared!Loads(thread[t].page) /\ memory[thread[t].page] = backing[thread[t].page]
    BY <2>1, Requests DEF memory, Memory
  <2>4. Request(t)' = Shared!Loaded(backing[thread[t].page])
    BY <2>2 DEF Request, At, Thread, Shared!Loaded
  <2>5. QED
    BY <2>1, <2>2, <2>3, <2>4, OneCall, SameMemory DEF Shared!Load, Shared!Loads, memory, call
<1>3. ASSUME Stores(t) PROVE Shared!Store(t)
  <2> DEFINE p == thread[t].page
  <2>1. /\ ~ At(t, "Rests") /\ thread[t].kind = "Store" /\ p \in Pages /\ p \notin gpuDirty
        /\ thread' = [thread EXCEPT ![t] = Resting]
        /\ UNCHANGED <<gpuDirty, mapped, device>>
    BY <1>3 DEF Stores, At, Asking, Writable, Readable, tracker
  <2>2. PICK v \in Values : backing' = [backing EXCEPT ![p] = v]
    BY <1>3 DEF Stores
  <2>3. thread'[t] = Resting /\ \A u \in Threads \ {t} : thread'[u] = thread[u]
    BY <2>1 DEF TypeOK
  <2>4. call[t] = Shared!Stores(p)
    BY <2>1, Requests
  <2>5. Request(t)' = Shared!Resting
    BY <2>3 DEF Request, At, Resting, Thread, Shared!Resting
  <2>6. memory' = [memory EXCEPT ![p] = v]
    BY <2>1, <2>2, StoreBehind
  <2>7. call' = [call EXCEPT ![t] = Shared!Resting]
    BY <2>3, <2>5, OneCall
  <2> HIDE DEF p
  <2>8. call[t].state = "Stores" /\ call[t].page = p
    BY <2>4 DEF Shared!Stores
  <2>9. mapped' = mapped /\ memory' = [memory EXCEPT ![call[t].page] = v]
    BY <2>1, <2>6, <2>8
  <2>10. QED
    BY <2>7, <2>8, <2>9 DEF Shared!Store, memory, call
<1>4. ASSUME Faults(t) \/ Invalidates(t) \/ QueuesBdaSync(t) PROVE UNCHANGED Shared!absVars
  <2>1. /\ UNCHANGED mapped /\ \A q \in Pages : Memory(q)' = Memory(q)
        /\ ~ At(t, "Rests") /\ \E s \in ThreadSteps \ {"Rests"} : Goes(t, s)
    BY <1>4 DEF Faults, Invalidates, QueuesBdaSync, MarkCpu, tracker, contents, Memory, At, ThreadSteps
  <2>2. call' = call
    BY <2>1, ThreadGoes, SameCalls DEF TypeOK
  <2>3. QED
    BY <2>1, <2>2, SameMemory DEF Shared!absVars, memory, call
<1>5. ASSUME MapMemory(t) PROVE Shared!Map(t)
  <2>1. PICK p \in Pages \ mapped, v \in Values :
          mapped' = mapped \cup {p} /\ backing' = [backing EXCEPT ![p] = v]
    BY <1>5 DEF MapMemory
  <2>2. UNCHANGED <<gpuDirty, device, thread>> /\ At(t, "Rests") /\ p \notin gpuDirty
    BY <1>5 DEF MapMemory, tracker, Stepwise, Owned
  <2>3. memory' = [memory EXCEPT ![p] = v]
    BY <2>1, <2>2, StoreBehind
  <2>4. call' = call
    BY <2>2, SameCalls
  <2>5. QED
    BY <2>1, <2>2, <2>3, <2>4, Requests DEF Shared!Map, Shared!Ready, memory, call
<1>6. QED
  BY <1>1, <1>2, <1>3, <1>4, <1>5 DEF Guest, Shared!AbsNext

LEMMA StartImplements ==
    ASSUME Inv, Inv', StartsWork
    PROVE  [Shared!AbsNext]_(Shared!absVars)
<1> USE DEF Inv
<1>1. ASSUME Streams \/ Obtains \/ CollectsClean \/ PrepareBda PROVE UNCHANGED Shared!absVars
  <2>1. device' = device
    <3>1. CASE Obtains
      <4>1. PICK T \in SUBSET Pages : T # {} /\ FindBuffer(T)
        BY <3>1 DEF Obtains, TypeOK
      <4>2. QED
        BY <4>1, Found
    <3>2. QED
      BY <1>1, <3>1 DEF Streams, CollectsClean, PrepareBda, contents
  <2>2. UNCHANGED <<gpuDirty, mapped, backing, thread>>
    BY <1>1 DEF Streams, Obtains, CollectsClean, PrepareBda, MarkCpu, tracker, contents
  <2>3. QED
    BY <2>1, <2>2, SameMemory, SameCalls DEF Memory, Shared!absVars, memory, call
<1>2. ASSUME Fills PROVE Shared!GpuStores
  <2>1. PICK p \in mapped \ gpuDirty, v \in Values :
          MarkCpu({p}) /\ backing' = [backing EXCEPT ![p] = v]
    BY <1>2 DEF Fills
  <2>2. UNCHANGED <<gpuDirty, mapped, device, thread>> /\ p \in Pages
    BY <1>2, <2>1 DEF Fills, MarkCpu, TypeOK
  <2>3. memory' = [q \in Pages |-> IF q \in {p} THEN v ELSE memory[q]]
    BY <2>1, <2>2 DEF memory, Memory, TypeOK
  <2>4. QED
    BY <2>1, <2>2, <2>3, SameCalls DEF Shared!GpuStores, memory, call
<1>3. ASSUME CollectsDirty PROVE UNCHANGED Shared!absVars
  <2>1. PICK b \in SUBSET Pages : Free /\ Download(b)
    BY <1>3 DEF CollectsDirty, TypeOK
  <2>2. UNCHANGED <<gpuDirty, mapped, device, thread>>
    BY <1>3 DEF CollectsDirty, tracker
  <2>3. \A p \in Pages : p \notin gpuDirty => backing'[p] = backing[p]
    BY <2>1, Downloaded
  <2>4. QED
    BY <2>2, <2>3, SameMemory, SameCalls DEF Memory, Shared!absVars, memory, call
<1>4. ASSUME NEW t \in Threads, ReadMemory(t) PROVE UNCHANGED Shared!absVars
  <2> DEFINE p == thread[t].page
  <2>1. /\ Free /\ At(t, "Flushes") /\ mapped' = mapped /\ p \in Pages
        /\ gpuDirty' = gpuDirty /\ (UNCHANGED thread \/ Replies(t))
    BY <1>4 DEF ReadMemory, Asking, At, tracker
  <2>2. /\ device' = device
        /\ \A q \in Pages : q \notin gpuDirty => backing'[q] = backing[q]
    <3>1. CASE thread[t].kind = "Store" /\ p \notin Covered
      BY <1>4, <3>1 DEF ReadMemory, contents
    <3>2. CASE FindBuffer({p}) /\ Download({p})
      BY <2>1, <3>2, Found, Downloaded
    <3>3. QED
      BY <1>4, <3>1, <3>2 DEF ReadMemory
  <2>3. call' = call
    BY <2>1, ThreadReplies, SameCalls DEF At, TypeOK
  <2>4. QED
    BY <2>1, <2>2, <2>3, SameMemory DEF Memory, Shared!absVars, memory, call
<1>5. ASSUME NEW t \in Threads, UnmapMemory(t) PROVE UNCHANGED Shared!absVars
  <2>1. /\ Free /\ thread[t].page \in Pages /\ UNCHANGED <<gpuDirty, mapped, device, thread>>
        /\ Download({thread[t].page}) \/ UNCHANGED backing
    BY <1>5 DEF UnmapMemory, Asking, At, MarkCpu, tracker
  <2>2. \A q \in Pages : q \notin gpuDirty => backing'[q] = backing[q]
    BY <2>1, Downloaded
  <2>3. QED
    BY <2>1, <2>2, SameMemory, SameCalls DEF Memory, Shared!absVars, memory, call
<1>6. QED
  BY <1>1, <1>2, <1>3, <1>4, <1>5 DEF StartsWork, Shared!AbsNext

LEMMA ContinueImplements ==
    ASSUME Inv, Inv', ContinuesWork
    PROVE  [Shared!AbsNext]_(Shared!absVars)
<1> USE DEF Inv
<1>1. ASSUME Copies \/ Marks \/ Walks PROVE UNCHANGED Shared!absVars
  <2>1. UNCHANGED <<gpuDirty, mapped, backing, thread>>
    BY <1>1 DEF Copies, Marks, Walks, MarkCpu, tracker, contents
  <2>2. \A p \in gpuDirty : device'[p] = device[p]
    <3>1. CASE Copies
      BY <3>1 DEF Copies, Copied, TypeOK
    <3>2. CASE Marks \/ Walks
      BY <3>2 DEF Marks, Walks, contents
    <3>3. QED
      BY <1>1, <3>1, <3>2
  <2>3. QED
    BY <2>1, <2>2, SameMemory, SameCalls DEF Memory, Shared!absVars, memory, call
<1>2. ASSUME Owns PROVE UNCHANGED Shared!absVars
  <2>1. UNCHANGED <<mapped, backing, device, thread>> /\ gpu.step = "Uploads" /\ gpu.todo = {}
    BY <1>2 DEF Owns, contents
  <2>2. gpuDirty' = gpuDirty \/ (gpuDirty' = gpuDirty \cup gpu.pages /\ gpu.pages \cap cpuDirty = {})
    BY <1>2 DEF Owns, tracker, Stepwise
  <2>3. \A p \in Pages : Memory(p)' = Memory(p)
    BY <2>1, <2>2 DEF Memory, Copied
  <2>4. QED
    BY <2>1, <2>3, SameMemory, SameCalls DEF Shared!absVars, memory, call
<1>3. ASSUME Draws PROVE Shared!GpuStores \/ UNCHANGED Shared!absVars
  <2>1. UNCHANGED <<gpuDirty, mapped, backing, thread>> /\ gpu.step = "Draws"
    BY <1>3 DEF Draws, tracker
  <2>2. CASE gpu.written
    <3>1. PICK T \in SUBSET gpu.pages, v \in Values :
            device' = [p \in Pages |-> IF p \in T THEN v ELSE device[p]]
      BY <1>3, <2>2 DEF Draws
    <3>2. T \subseteq gpuDirty /\ T \subseteq mapped
      BY <2>1, <2>2 DEF Stepwise
    <3>3. memory' = [p \in Pages |-> IF p \in T THEN v ELSE memory[p]]
      BY <2>1, <3>1, <3>2 DEF memory, Memory
    <3>4. QED
      BY <2>1, <3>2, <3>3, SameCalls DEF Shared!GpuStores, memory, call
  <2>3. CASE ~ gpu.written
    BY <1>3, <2>1, <2>3, SameMemory, SameCalls DEF Draws, Memory, Shared!absVars, memory, call
  <2>4. QED
    BY <2>2, <2>3
<1>4. ASSUME Unmarks PROVE UNCHANGED Shared!absVars
  <2>1. /\ UNCHANGED <<mapped, backing, device>> /\ gpuDirty' = gpuDirty \ gpu.pages
        /\ \A p \in gpu.pages \cap gpuDirty : device[p] = backing[p]
        /\ (UNCHANGED thread \/ \E t \in gpu.for : Replies(t))
    BY <1>4 DEF Unmarks, contents, Stepwise
  <2>2. \A p \in Pages : Memory(p)' = Memory(p)
    BY <2>1 DEF Memory
  <2>3. call' = call
    <3>1. CASE UNCHANGED thread
      BY <3>1, SameCalls
    <3>2. CASE \E t \in gpu.for : Replies(t)
      <4>1. PICK t \in gpu.for : Replies(t)
        BY <3>2
      <4>2. t \in Threads /\ ~ At(t, "Rests")
        BY <4>1 DEF Asking, At, Working, Works
      <4>3. QED
        BY <4>1, <4>2, ThreadReplies, SameCalls DEF TypeOK
    <3>3. QED
      BY <2>1, <3>1, <3>2
  <2>4. QED
    BY <2>1, <2>2, <2>3, SameMemory DEF Shared!absVars, memory, call
<1>5. ASSUME Queues PROVE UNCHANGED Shared!absVars \/ \E t \in Threads : Shared!Unmap(t)
  <2>1. UNCHANGED <<gpuDirty, backing>> /\ gpu.pages \cap gpuDirty = {}
    BY <1>5 DEF Queues, tracker, Stepwise, Owned
  <2>2. \A p \in Pages : Memory(p)' = Memory(p)
    BY <1>5, <2>1 DEF Queues, Memory, TypeOK
  <2>3. CASE gpu.for = {}
    BY <1>5, <2>2, <2>3, SameMemory, SameCalls DEF Queues, Shared!absVars, memory, call
  <2>4. CASE gpu.for # {}
    <3>1. PICK t \in gpu.for :
            IF At(t, "Unmaps")
            THEN mapped' = mapped \ gpu.pages /\ thread' = [thread EXCEPT ![t] = Resting]
            ELSE Replies(t) /\ UNCHANGED mapped
      BY <1>5, <2>4 DEF Queues
    <3>2. t \in Threads /\ gpu.pages = {thread[t].page} /\ ~ At(t, "Rests")
      BY <3>1 DEF Asking, At, Working, Works
    <3>3. CASE At(t, "Unmaps")
      <4>1. thread'[t] = Resting /\ \A u \in Threads \ {t} : thread'[u] = thread[u]
        BY <3>1, <3>2, <3>3 DEF TypeOK
      <4>2. call[t] = Shared!Unmaps(thread[t].page)
        BY <3>2, <3>3, Requests
      <4>3. Request(t)' = Shared!Resting
        BY <4>1 DEF Request, At, Resting, Thread, Shared!Resting
      <4>4. call' = [call EXCEPT ![t] = Shared!Resting]
        BY <3>2, <4>1, <4>3, OneCall
      <4>5. Shared!Unmap(t)
        BY <2>2, <3>1, <3>2, <3>3, <4>2, <4>4, SameMemory DEF Shared!Unmap, Shared!Unmaps, memory, call
      <4>6. QED
        BY <3>2, <4>5
    <3>4. CASE ~ At(t, "Unmaps")
      <4>1. call' = call
        BY <3>1, <3>2, <3>4, ThreadReplies, SameCalls DEF TypeOK
      <4>2. QED
        BY <2>2, <3>1, <3>4, <4>1, SameMemory DEF Shared!absVars, memory, call
    <3>5. QED
      BY <3>3, <3>4
  <2>5. QED
    BY <2>3, <2>4
<1>6. QED
  BY <1>1, <1>2, <1>3, <1>4, <1>5 DEF ContinuesWork, Shared!AbsNext

(* Guest threads and the GPU see one memory: a load returns what the page holds, and only stores of *)
(* the guest, stores of the GPU and new mappings change what a page holds (SharedMemory).           *)
THEOREM MemoryIsShared == Spec => Implements
<1>1. Init => Shared!AbsInit
  <2>1. ASSUME Init PROVE call = [t \in Threads |-> Shared!Resting]
    BY <2>1 DEF Init, call, Request, At, Resting, Thread, Shared!Resting
  <2>2. ASSUME Init PROVE memory \in [Pages -> Values] /\ mapped = Pages
    BY <2>2 DEF Init, memory, Memory
  <2>3. QED
    BY <2>1, <2>2 DEF Shared!AbsInit, memory, call
<1>2. Inv /\ Inv' /\ [Next]_vars => [Shared!AbsNext]_(Shared!absVars)
  <2> SUFFICES ASSUME Inv, Inv', [Next]_vars PROVE [Shared!AbsNext]_(Shared!absVars)
    OBVIOUS
  <2>1. CASE UNCHANGED vars
    <3>1. memory' = memory /\ call' = call /\ mapped' = mapped
      BY <2>1, SameMemory, SameCalls DEF vars, Memory
    <3>2. QED
      BY <3>1 DEF Shared!absVars, memory, call
  <2>2. QED
    BY <2>1, GuestImplements, StartImplements, ContinueImplements DEF Next
<1>3. QED
  BY <1>1, <1>2, Invariance, PTL DEF Spec, Implements, Shared!AbsSpec
================================================================================
