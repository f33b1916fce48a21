------------------------------ MODULE PthreadProofs -----------------------------
(* Theorems about the read-write lock and the POSIX semaphore, for every finite set  *)
(* of threads.  The invariant of each is inductive as it stands.  Then the event     *)
(* queue, whose waiters are such threads.                                            *)
EXTENDS PthreadRwlock, PosixSemaphore, EventQueue, SequenceLemmas, FiniteSetTheorems,
        WellFoundedInduction, TLAPS

--------------------------------------------------------------------------------
(* The read-write lock: that a writer is alone rests on reader_count being the       *)
(* number of reads, for a writer looks at nothing else.                              *)

Counts == [Threads -> Nat]

(* A pair is in Reads if its number is at most the reads of its thread.             *)
LEMMA ReadsMember ==
    ASSUME NEW counts \in Counts, NEW p
    PROVE  p \in Reads(counts) <=>
               \E t \in Threads, i \in Nat : p = <<t, i>> /\ 1 <= i /\ i <= counts[t]
<1>1. ASSUME p \in Reads(counts)
      PROVE  \E t \in Threads, i \in Nat : p = <<t, i>> /\ 1 <= i /\ i <= counts[t]
    <2>1. PICK t \in Threads : p \in {t} \X (1 .. counts[t])
        BY <1>1 DEF Reads
    <2>2. counts[t] \in Nat
        BY DEF Counts
    <2> QED
        BY <2>1, <2>2
<1>2. ASSUME NEW t \in Threads, NEW i \in Nat, p = <<t, i>>, 1 <= i, i <= counts[t]
      PROVE  p \in Reads(counts)
    <2>1. counts[t] \in Nat
        BY DEF Counts
    <2>2. p \in {t} \X (1 .. counts[t])
        BY <1>2, <2>1
    <2> QED
        BY <2>2 DEF Reads
<1> QED
    BY <1>1, <1>2

(* One read more is the next number of its thread, and one read less the last one.  *)
LEMMA OneReadMore ==
    ASSUME NEW counts \in Counts, NEW t \in Threads,
           NEW more, more = [counts EXCEPT ![t] = @ + 1]
    PROVE  /\ more \in Counts
           /\ <<t, counts[t] + 1>> \notin Reads(counts)
           /\ Reads(more) = Reads(counts) \cup {<<t, counts[t] + 1>>}
<1> DEFINE new == <<t, counts[t] + 1>>
<1>1. counts[t] \in Nat /\ more \in Counts
    BY DEF Counts
<1>2. new \notin Reads(counts)
    BY <1>1, ReadsMember
<1>3. ASSUME NEW p PROVE p \in Reads(more) <=> p \in Reads(counts) \cup {new}
    <2>1. ASSUME NEW u \in Threads, NEW i \in Nat
          PROVE  1 <= i /\ i <= more[u] <=> (1 <= i /\ i <= counts[u]) \/ <<u, i>> = new
        <3>1. CASE u = t
            BY <3>1, <1>1 DEF Counts
        <3>2. CASE u # t
            BY <3>2, <1>1 DEF Counts
        <3> QED
            BY <3>1, <3>2
    <2>2. p \in Reads(more) <=> \E u \in Threads, i \in Nat : p = <<u, i>> /\ 1 <= i /\ i <= more[u]
        BY <1>1, ReadsMember
    <2>3. p \in Reads(counts) <=> \E u \in Threads, i \in Nat : p = <<u, i>> /\ 1 <= i /\ i <= counts[u]
        BY ReadsMember
    <2>4. new = <<t, counts[t] + 1>> /\ counts[t] + 1 \in Nat
        BY <1>1
    <2> QED
        BY <2>1, <2>2, <2>3, <2>4
<1>4. Reads(more) = Reads(counts) \cup {new}
    BY <1>3
<1> QED
    BY <1>1, <1>2, <1>4

LEMMA OneReadLess ==
    ASSUME NEW counts \in Counts, NEW t \in Threads, counts[t] # 0,
           NEW less, less = [counts EXCEPT ![t] = @ - 1]
    PROVE  /\ less \in Counts
           /\ <<t, counts[t]>> \in Reads(counts)
           /\ Reads(less) = Reads(counts) \ {<<t, counts[t]>>}
<1>1. counts[t] \in Nat /\ less \in Counts /\ less[t] = counts[t] - 1
    BY DEF Counts
<1>2. counts = [less EXCEPT ![t] = @ + 1]
    <2> DEFINE again == [less EXCEPT ![t] = @ + 1]
    <2>1. ASSUME NEW u \in Threads PROVE again[u] = counts[u]
        <3>1. CASE u = t
            BY <3>1, <1>1 DEF Counts
        <3>2. CASE u # t
            BY <3>2, <1>1 DEF Counts
        <3> QED
            BY <3>1, <3>2
    <2>2. again = [u \in Threads |-> again[u]] /\ counts = [u \in Threads |-> counts[u]]
        BY <1>1 DEF Counts
    <2> QED
        BY <2>1, <2>2
<1>3. /\ <<t, less[t] + 1>> \notin Reads(less)
      /\ Reads(counts) = Reads(less) \cup {<<t, less[t] + 1>>}
    BY <1>1, <1>2, OneReadMore
<1>4. less[t] + 1 = counts[t]
    BY <1>1
<1> QED
    BY <1>1, <1>3, <1>4

(* Without a read nobody reads, and a thread that reads makes one read at least.    *)
LEMMA NoReads ==
    ASSUME RwlockTypeOK, CountsReaders, reader_count = 0
    PROVE  \A t \in Threads : ~ FindReader(t)
<1>1. Reads(readers) = {}
    BY FS_EmptySet DEF CountsReaders
<1>2. ASSUME NEW t \in Threads, readers[t] # 0 PROVE FALSE
    <2>1. readers[t] \in Nat /\ readers \in Counts
        BY DEF RwlockTypeOK, Counts
    <2>2. <<t, 1>> \in Reads(readers)
        BY <1>2, <2>1, ReadsMember
    <2> QED
        BY <1>1, <2>2
<1> QED
    BY <1>2 DEF FindReader

(* What AddReader does to the count, and what the end of a read does.               *)
LEMMA AddReaderCounts ==
    ASSUME RwlockTypeOK, CountsReaders, NEW t \in Threads, AddReader(t)
    PROVE  CountsReaders'
<1> DEFINE new == <<t, readers[t] + 1>>
<1>1. new \notin Reads(readers) /\ Reads(readers') = Reads(readers) \cup {new}
    BY OneReadMore DEF RwlockTypeOK, Counts, AddReader
<1>2. IsFiniteSet(Reads(readers')) /\ Cardinality(Reads(readers')) = Cardinality(Reads(readers)) + 1
    BY <1>1, FS_AddElement DEF CountsReaders
<1> QED
    BY <1>2 DEF CountsReaders, AddReader

LEMMA EndsReadCounts ==
    ASSUME RwlockTypeOK, CountsReaders, NEW t \in Threads, FindReader(t),
           readers' = [readers EXCEPT ![t] = @ - 1], reader_count' = reader_count - 1
    PROVE  CountsReaders' /\ reader_count' \in Nat
<1> DEFINE old == <<t, readers[t]>>
<1>1. old \in Reads(readers) /\ Reads(readers') = Reads(readers) \ {old}
    BY OneReadLess DEF RwlockTypeOK, Counts, FindReader
<1>2. IsFiniteSet(Reads(readers')) /\ Cardinality(Reads(readers')) = Cardinality(Reads(readers)) - 1
    BY <1>1, FS_RemoveElement DEF CountsReaders
<1>3. Cardinality(Reads(readers')) \in Nat
    BY <1>2, FS_CardinalityType
<1> QED
    BY <1>2, <1>3 DEF CountsReaders

(* A writer that begins to wait is one more that waits, and one that leaves one less. *)
LEMMA WritersAreFinite ==
    IsFiniteSet(WaitingWriters)
BY ThreadsAssumption, FS_Subset DEF ThreadsAssumption, WaitingWriters

LEMMA WriterComes ==
    ASSUME RwlockTypeOK, CountsWriters, NEW t \in Threads, Idle(t), NEW timed \in BOOLEAN,
           call' = [call EXCEPT ![t] = Asks("Write", timed)], waiting_writers' = waiting_writers + 1
    PROVE  CountsWriters'
<1>1. t \notin WaitingWriters /\ WaitingWriters' = WaitingWriters \cup {t}
    BY DEF RwlockTypeOK, WaitingWriters, Awaits, Idle, NoCall, Asks
<1> QED
    BY <1>1, WritersAreFinite, FS_AddElement DEF CountsWriters

LEMMA WriterLeaves ==
    ASSUME RwlockTypeOK, CountsWriters, NEW t \in Threads, Awaits(t, "Write"),
           call' = [call EXCEPT ![t] = NoCall], waiting_writers' = waiting_writers - 1
    PROVE  CountsWriters' /\ waiting_writers' \in Nat
<1>1. t \in WaitingWriters /\ WaitingWriters' = WaitingWriters \ {t}
    BY DEF RwlockTypeOK, WaitingWriters, Awaits, NoCall, Asks
<1>2. IsFiniteSet(WaitingWriters')  /\ Cardinality(WaitingWriters') = Cardinality(WaitingWriters) - 1
    BY <1>1, WritersAreFinite, FS_RemoveElement
<1>3. Cardinality(WaitingWriters') \in Nat
    BY <1>2, FS_CardinalityType
<1> QED
    BY <1>2, <1>3 DEF CountsWriters

(* The calls of the other kinds leave the writers that wait as they are.             *)
LEMMA WritersStay ==
    ASSUME RwlockTypeOK, CountsWriters, NEW t \in Threads, ~ Awaits(t, "Write"), NEW new, new.kind # "Write",
           call' = [call EXCEPT ![t] = new], UNCHANGED waiting_writers
    PROVE  CountsWriters'
<1>1. WaitingWriters' = WaitingWriters
    BY DEF RwlockTypeOK, WaitingWriters, Awaits
<1> QED
    BY <1>1 DEF CountsWriters
--------------------------------------------------------------------------------
(* The first look of a lock at an empty read-write lock.                             *)
LEMMA InitConsistent == RwlockInit => RwlockConsistent
<1> SUFFICES ASSUME RwlockInit PROVE RwlockConsistent
    OBVIOUS
<1>1. RwlockTypeOK
    BY DEF RwlockInit, RwlockTypeOK, NoCall, Asks
<1>2. WritesAlone
    BY DEF RwlockInit, WritesAlone
<1>3. CountsReaders
    <2>1. readers \in Counts
        BY DEF RwlockInit, Counts
    <2>2. ASSUME NEW p PROVE p \notin Reads(readers)
        BY <2>1, ReadsMember DEF RwlockInit
    <2>3. Reads(readers) = {}
        BY <2>2
    <2> QED
        BY <2>3, FS_EmptySet DEF RwlockInit, CountsReaders
<1>4. CountsWriters
    <2>1. WaitingWriters = {}
        BY DEF RwlockInit, WaitingWriters, Awaits, NoCall, Asks
    <2> QED
        BY <2>1, FS_EmptySet DEF RwlockInit, CountsWriters
<1> QED
    BY <1>1, <1>2, <1>3, <1>4 DEF RwlockConsistent

(* No look at the lock breaks it: the one that lets a writer in has seen that nobody reads,  *)
(* and the one that lets a reader in that nobody else writes.                                 *)
LEMMA StepConsistent ==
    RwlockConsistent /\ [RwlockNext]_rwlockVars => RwlockConsistent'
<1> SUFFICES ASSUME RwlockConsistent, [RwlockNext]_rwlockVars PROVE RwlockConsistent'
    OBVIOUS
<1> USE DEF RwlockConsistent
<1> DEFINE Reading(t) == AddReader(t) /\ CanRead(t) /\ UNCHANGED writer
<1>1. ASSUME NEW t \in Threads, Reading(t), RwlockTypeOK'
      PROVE  WritesAlone' /\ CountsReaders'
    <2>1. WritesAlone'
        <3>1. \A u \in Threads : u # t => readers'[u] = readers[u]
            BY <1>1 DEF AddReader, RwlockTypeOK
        <3>2. writer = None \/ writer = t
            BY <1>1 DEF CanRead
        <3> QED
            BY <3>1, <3>2, <1>1 DEF WritesAlone, FindReader
    <2> QED
        BY <2>1, <1>1, AddReaderCounts
<1>2. ASSUME NEW t \in Threads, CanWrite(t), writer' = t, UNCHANGED <<readers, reader_count>>
      PROVE  WritesAlone' /\ CountsReaders'
    BY <1>2, NoReads DEF CanWrite, WritesAlone, CountsReaders, FindReader
<1>3. ASSUME UNCHANGED <<writer, readers, reader_count>>
      PROVE  WritesAlone' /\ CountsReaders'
    BY <1>3 DEF WritesAlone, CountsReaders, FindReader
<1>4. ASSUME UNCHANGED <<waiting_writers, call>>
      PROVE  CountsWriters'
    BY <1>4 DEF CountsWriters, WaitingWriters, Awaits
<1>5. ASSUME NEW t \in Threads, Rdlock(t) PROVE RwlockConsistent'
    <2>1. CASE CanRead(t)
        <3>1. Reading(t) /\ UNCHANGED <<waiting_writers, call>> /\ calls' = calls + 1
            BY <1>5, <2>1 DEF Rdlock, Counted
        <3>2. RwlockTypeOK'
            BY <3>1 DEF RwlockTypeOK, AddReader
        <3> QED
            BY <3>1, <3>2, <1>1, <1>4
    <2>2. CASE ~ CanRead(t)
        <3>1. /\ UNCHANGED <<writer, readers, reader_count, waiting_writers>> /\ Idle(t) /\ calls' = calls + 1
              /\ \E timed \in BOOLEAN : call' = [call EXCEPT ![t] = Asks("Read", timed)]
            BY <1>5, <2>2 DEF Rdlock, Counted
        <3>2. PICK timed \in BOOLEAN : call' = [call EXCEPT ![t] = Asks("Read", timed)]
            BY <3>1
        <3>3. RwlockTypeOK'
            BY <3>1, <3>2 DEF RwlockTypeOK, Asks
        <3>4. ~ Awaits(t, "Write") /\ Asks("Read", timed).kind # "Write"
            BY <3>1 DEF Idle, NoCall, Asks, Awaits
        <3>5. CountsWriters'
            BY <3>1, <3>2, <3>4, WritersStay
        <3> QED
            BY <3>1, <3>3, <3>5, <1>3
    <2> QED
        BY <2>1, <2>2
<1>6. ASSUME NEW t \in Threads, RdlockEnters(t) PROVE RwlockConsistent'
    <2>1. /\ Reading(t) /\ UNCHANGED <<waiting_writers, calls>>
          /\ Awaits(t, "Read") /\ call' = [call EXCEPT ![t] = NoCall]
        BY <1>6 DEF RdlockEnters
    <2>2. RwlockTypeOK'
        BY <2>1 DEF RwlockTypeOK, AddReader, NoCall, Asks
    <2>3. CountsWriters'
        BY <2>1, WritersStay DEF Awaits, NoCall, Asks
    <2> QED
        BY <2>1, <2>2, <2>3, <1>1
<1>7. ASSUME NEW t \in Threads, RdlockTimesOut(t) PROVE RwlockConsistent'
    <2>1. RwlockTypeOK'
        BY <1>7 DEF RdlockTimesOut, RwlockTypeOK, NoCall, Asks
    <2>2. CountsWriters'
        BY <1>7, WritersStay DEF RdlockTimesOut, Awaits, NoCall, Asks
    <2> QED
        BY <2>1, <2>2, <1>7, <1>3 DEF RdlockTimesOut
<1>8. ASSUME NEW t \in Threads, Tryrdlock(t) PROVE RwlockConsistent'
    <2>1. Reading(t) /\ UNCHANGED <<waiting_writers, call>> /\ calls' = calls + 1
        BY <1>8 DEF Tryrdlock, Counted
    <2>2. RwlockTypeOK'
        BY <2>1 DEF RwlockTypeOK, AddReader
    <2> QED
        BY <2>1, <2>2, <1>1, <1>4
<1>9. ASSUME NEW t \in Threads, Wrlock(t) PROVE RwlockConsistent'
    <2>1. CASE CanWrite(t)
        <3>1. /\ writer' = t /\ calls' = calls + 1
              /\ UNCHANGED <<waiting_writers, call, readers, reader_count>>
            BY <1>9, <2>1 DEF Wrlock, Counted
        <3>2. RwlockTypeOK'
            BY <3>1 DEF RwlockTypeOK
        <3> QED
            BY <2>1, <3>1, <3>2, <1>2, <1>4
    <2>2. CASE ~ CanWrite(t)
        <3>1. /\ UNCHANGED <<writer, readers, reader_count>> /\ Idle(t) /\ calls' = calls + 1
              /\ waiting_writers' = waiting_writers + 1
              /\ \E timed \in BOOLEAN : call' = [call EXCEPT ![t] = Asks("Write", timed)]
            BY <1>9, <2>2 DEF Wrlock, Counted
        <3>2. RwlockTypeOK'
            BY <3>1 DEF RwlockTypeOK, Asks
        <3>3. CountsWriters'
            BY <3>1, WriterComes
        <3> QED
            BY <3>1, <3>2, <3>3, <1>3
    <2> QED
        BY <2>1, <2>2
<1>10. ASSUME NEW t \in Threads, WrlockEnters(t) PROVE RwlockConsistent'
    <2>1. /\ Awaits(t, "Write") /\ CanWrite(t) /\ writer' = t
          /\ waiting_writers' = waiting_writers - 1
          /\ call' = [call EXCEPT ![t] = NoCall]
          /\ UNCHANGED <<reader_count, readers, calls>>
        BY <1>10 DEF WrlockEnters
    <2>2. CountsWriters' /\ waiting_writers' \in Nat
        BY <2>1, WriterLeaves
    <2>3. RwlockTypeOK'
        BY <2>1, <2>2 DEF RwlockTypeOK, NoCall, Asks
    <2> QED
        BY <2>1, <2>2, <2>3, <1>2
<1>11. ASSUME NEW t \in Threads, WrlockTimesOut(t) PROVE RwlockConsistent'
    <2>1. /\ Awaits(t, "Write") /\ waiting_writers' = waiting_writers - 1
          /\ call' = [call EXCEPT ![t] = NoCall]
          /\ UNCHANGED <<writer, reader_count, readers, calls>>
        BY <1>11 DEF WrlockTimesOut, UnregisterWriterWait
    <2>2. CountsWriters' /\ waiting_writers' \in Nat
        BY <2>1, WriterLeaves
    <2>3. RwlockTypeOK'
        BY <2>1, <2>2 DEF RwlockTypeOK, NoCall, Asks
    <2> QED
        BY <2>1, <2>2, <2>3, <1>3
<1>12. ASSUME NEW t \in Threads, Trywrlock(t) PROVE RwlockConsistent'
    <2>1. /\ CanWrite(t) /\ writer' = t /\ calls' = calls + 1
          /\ UNCHANGED <<waiting_writers, call, readers, reader_count>>
        BY <1>12 DEF Trywrlock, Counted
    <2>2. RwlockTypeOK'
        BY <2>1 DEF RwlockTypeOK
    <2> QED
        BY <2>1, <2>2, <1>2, <1>4
<1>13. ASSUME NEW t \in Threads, Unlock(t) PROVE RwlockConsistent'
    <2>1. CASE FindReader(t)
        <3>1. /\ readers' = [readers EXCEPT ![t] = @ - 1] /\ reader_count' = reader_count - 1
              /\ UNCHANGED <<writer, waiting_writers, call, calls>>
            BY <1>13, <2>1 DEF Unlock
        <3>2. CountsReaders' /\ reader_count' \in Nat
            BY <2>1, <3>1, EndsReadCounts
        <3>3. readers' \in [Threads -> Nat] /\ \A u \in Threads : u # t => readers'[u] = readers[u]
            BY <2>1, <3>1 DEF RwlockTypeOK, FindReader
        <3>4. RwlockTypeOK'
            BY <3>1, <3>2, <3>3 DEF RwlockTypeOK
        <3>5. WritesAlone'
            BY <2>1, <3>1, <3>3 DEF WritesAlone, FindReader
        <3> QED
            BY <3>1, <3>2, <3>4, <3>5, <1>4
    <2>2. CASE ~ FindReader(t)
        <3>1. writer' = None /\ UNCHANGED <<reader_count, readers, waiting_writers, call, calls>>
            BY <1>13, <2>2 DEF Unlock
        <3>2. RwlockTypeOK' /\ WritesAlone' /\ CountsReaders'
            BY <3>1 DEF RwlockTypeOK, WritesAlone, CountsReaders
        <3> QED
            BY <3>1, <3>2, <1>4
    <2> QED
        BY <2>1, <2>2
<1>14. CASE UNCHANGED rwlockVars
    BY <1>14, <1>3, <1>4 DEF rwlockVars, RwlockTypeOK
<1> QED
    BY <1>5, <1>6, <1>7, <1>8, <1>9, <1>10, <1>11, <1>12, <1>13, <1>14 DEF RwlockNext

(* For any number of threads, of locks and of reads: who writes is alone, the lock counts its    *)
(* readers and its waiting writers exactly, in every order of locks, unlocks and timeouts.        *)
THEOREM Consistent == RwlockSpec => []RwlockConsistent
BY InitConsistent, StepConsistent, PTL DEF RwlockSpec

--------------------------------------------------------------------------------
(* The POSIX semaphore: a call goes to sleep only when there is no unit, and whatever *)
(* adds a unit, or takes one, adds or takes one of those that are awake as well, if   *)
(* anybody is left who sleeps and was not told.                                       *)

Awake == InWait \ Unnotified

(* The sets of calls are finite, and their sizes are numbers.                        *)
LEMMA Finite ==
    /\ IsFiniteSet(InWait) /\ Cardinality(InWait) \in Nat
    /\ IsFiniteSet(Awake) /\ Cardinality(Awake) \in Nat
<1>1. InWait \in SUBSET SemThreads /\ Awake \in SUBSET SemThreads
    BY DEF InWait, Awake
<1> QED
    BY <1>1, SemAssumption, FS_Subset, FS_CardinalityType

(* A step that leaves the calls as they are, or only their deadlines, and no more    *)
(* units than there were.                                                            *)
LEMMA SameCalls ==
    ASSUME PosixSemConsistent, PosixTypeOK', guest' = SyncGuest(object'),
           InWait' = InWait, Unnotified' = Unnotified,
           object'.count <= object.count \/ Unnotified = {}, object'.waiters = object.waiters
    PROVE  PosixSemConsistent'
<1>1. object.count \in Nat /\ object'.count \in Nat
    BY DEF PosixSemConsistent, PosixTypeOK
<1>2. GuestSeesObject'
    BY DEF PosixSemConsistent, GuestSeesObject
<1>3. UnitsFindWaiters'
    BY <1>1, Finite DEF PosixSemConsistent, UnitsFindWaiters, Awake
<1> QED
    BY <1>2, <1>3 DEF PosixSemConsistent

(* What the loop of Wait does to a call that was not counted: it is counted only if   *)
(* it goes to sleep, and then there is no unit.                                       *)
LEMMA LooksEffect ==
    ASSUME PosixTypeOK, NEW t \in SemThreads, NEW STATE sem, NEW STATE own,
           sem \in [alive : BOOLEAN, count : Nat, waiters : Nat],
           own \in [step : {"Out", "Sleeps", "Polls"}, timed : BOOLEAN,
                     late : BOOLEAN, notified : BOOLEAN],
           SemLooks(t, sem, own), posts' \in Nat
    PROVE  /\ PosixTypeOK' /\ guest' = SyncGuest(object')
           /\ \/ /\ InWait' = InWait \cup {t} /\ Unnotified' = Unnotified \cup {t}
                 /\ object'.count = 0 /\ object'.waiters = sem.waiters + 1
              \/ /\ InWait' = InWait \ {t} /\ Unnotified' = Unnotified \ {t}
                 /\ object'.waiters = sem.waiters
                 /\ \/ object'.count = sem.count - 1 /\ sem.count > 0
                    \/ object'.count = sem.count /\ sem.count = 0
<1> DEFINE asleep == [own EXCEPT !.step = "Sleeps", !.notified = FALSE]
<1>1. guest' = SyncGuest(object')
    BY DEF SemLooks, SemBecomes
<1>2. CASE sem.count > 0
    <2>1. object' = [sem EXCEPT !.count = @ - 1] /\ posix' = [posix EXCEPT ![t] = NotWaiting]
        BY <1>2 DEF SemLooks, HasUnit, SemBecomes
    <2>2. InWait' = InWait \ {t} /\ Unnotified' = Unnotified \ {t}
        BY <2>1 DEF PosixTypeOK, InWait, Unnotified, SemAt, NotWaiting, SemCall
    <2>3. PosixTypeOK'
        BY <1>2, <2>1 DEF PosixTypeOK, NotWaiting, SemCall
    <2> QED
        BY <1>1, <1>2, <2>1, <2>2, <2>3
<1>3. CASE ~ (sem.count > 0) /\ own.late
    <2>1. object' = sem /\ posix' = [posix EXCEPT ![t] = NotWaiting]
        BY <1>3 DEF SemLooks, HasUnit, SemBecomes
    <2>2. InWait' = InWait \ {t} /\ Unnotified' = Unnotified \ {t}
        BY <2>1 DEF PosixTypeOK, InWait, Unnotified, SemAt, NotWaiting, SemCall
    <2>3. PosixTypeOK'
        BY <2>1 DEF PosixTypeOK, NotWaiting, SemCall
    <2>4. sem.count = 0
        BY <1>3
    <2> QED
        BY <1>1, <2>1, <2>2, <2>3, <2>4
<1>4. CASE ~ (sem.count > 0) /\ ~ own.late
    <2>1. object' = [sem EXCEPT !.waiters = @ + 1] /\ posix' = [posix EXCEPT ![t] = asleep]
        BY <1>4 DEF SemLooks, HasUnit, SemBecomes
    <2>2. asleep.step = "Sleeps" /\ asleep.notified = FALSE
        OBVIOUS
    <2>3. InWait' = InWait \cup {t} /\ Unnotified' = Unnotified \cup {t}
        BY <2>1, <2>2 DEF PosixTypeOK, InWait, Unnotified, SemAt
    <2>4. PosixTypeOK'
        <3>1. asleep \in [step : {"Out", "Sleeps", "Polls"}, timed : BOOLEAN,
                          late : BOOLEAN, notified : BOOLEAN]
            OBVIOUS
        <3>2. object' \in [alive : BOOLEAN, count : Nat, waiters : Nat]
            BY <2>1
        <3> HIDE DEF asleep
        <3> QED
            BY <2>1, <3>1, <3>2 DEF PosixTypeOK
    <2>5. sem.count = 0
        BY <1>4
    <2> QED
        BY <1>1, <2>1, <2>3, <2>4, <2>5
<1> QED
    BY <1>2, <1>3, <1>4

(* Going to sleep, or leaving, changes who is inside by one.                          *)
LEMMA WaitKeeps ==
    ASSUME PosixSemConsistent, NEW t \in SemThreads, SemWait(t)
    PROVE  PosixSemConsistent'
<1> DEFINE Calls == [step : {"Out", "Sleeps", "Polls"}, timed : BOOLEAN,
                     late : BOOLEAN, notified : BOOLEAN]
<1>1. PICK timed \in BOOLEAN, late \in BOOLEAN : SemLooks(t, object, SemCall("Out", timed, late))
    BY DEF SemWait
<1>2. PosixTypeOK /\ object \in [alive : BOOLEAN, count : Nat, waiters : Nat] /\ posts' \in Nat
    BY DEF PosixSemConsistent, PosixTypeOK, SemWait
<1>3. SemCall("Out", timed, late) \in Calls
    BY DEF SemCall
<1>4. t \notin InWait /\ t \notin Unnotified
    BY DEF SemWait, InWait, Unnotified, SemAt
<1>5. /\ PosixTypeOK' /\ guest' = SyncGuest(object')
      /\ \/ /\ InWait' = InWait \cup {t} /\ Unnotified' = Unnotified \cup {t}
            /\ object'.count = 0 /\ object'.waiters = object.waiters + 1
         \/ /\ InWait' = InWait \ {t} /\ Unnotified' = Unnotified \ {t}
            /\ object'.waiters = object.waiters
            /\ \/ object'.count = object.count - 1 /\ object.count > 0
               \/ object'.count = object.count /\ object.count = 0
    BY <1>1, <1>2, <1>3, LooksEffect
<1>6. CASE InWait' = InWait \cup {t} /\ object'.count = 0 /\ object'.waiters = object.waiters + 1
    <2>1. Cardinality(InWait') = Cardinality(InWait) + 1
        BY <1>4, <1>6, Finite, FS_AddElement
    <2>2. GuestSeesObject'
        BY <1>5, <1>6, <2>1 DEF PosixSemConsistent, GuestSeesObject
    <2>3. Cardinality(InWait \ Unnotified)' \in Nat
        <3>1. (InWait \ Unnotified)' \in SUBSET SemThreads
            BY DEF InWait
        <3> QED
            BY <3>1, SemAssumption, FS_Subset, FS_CardinalityType
    <2>4. UnitsFindWaiters'
        BY <1>6, <2>3 DEF UnitsFindWaiters
    <2> QED
        BY <1>5, <2>2, <2>4 DEF PosixSemConsistent
<1>7. CASE /\ InWait' = InWait \ {t} /\ Unnotified' = Unnotified \ {t}
           /\ object'.waiters = object.waiters
           /\ \/ object'.count = object.count - 1 /\ object.count > 0
              \/ object'.count = object.count /\ object.count = 0
    <2>1. InWait' = InWait /\ Unnotified' = Unnotified
        BY <1>4, <1>7
    <2>2. object'.count <= object.count
        BY <1>2, <1>7
    <2> QED
        BY <1>5, <1>7, <2>1, <2>2, SameCalls
<1> QED
    BY <1>5, <1>6, <1>7

LEMMA LooksAgainKeeps ==
    ASSUME PosixSemConsistent, NEW t \in SemThreads, SemLooksAgain(t)
    PROVE  PosixSemConsistent'
<1> DEFINE sem == [object EXCEPT !.waiters = @ - 1]
<1>1. t \in InWait /\ t \notin Unnotified /\ t \in Awake
    BY DEF SemLooksAgain, InWait, Unnotified, SemAt, Awake
<1>2. PosixTypeOK /\ object.waiters = Cardinality(InWait) /\ object.waiters \in Nat /\ object.count \in Nat
    BY DEF PosixSemConsistent, GuestSeesObject, PosixTypeOK
<1>3. object.waiters # 0
    BY <1>1, <1>2, Finite, FS_EmptySet
<1>4. /\ sem \in [alive : BOOLEAN, count : Nat, waiters : Nat]
      /\ sem.waiters = object.waiters - 1 /\ sem.count = object.count
    BY <1>2, <1>3 DEF PosixTypeOK
<1>5. posix[t] \in [step : {"Out", "Sleeps", "Polls"}, timed : BOOLEAN, late : BOOLEAN, notified : BOOLEAN]
    BY <1>2 DEF PosixTypeOK
<1>6. SemLooks(t, sem, posix[t]) /\ posts' \in Nat
    BY <1>2 DEF SemLooksAgain, PosixTypeOK
<1> HIDE DEF sem
<1>7. /\ PosixTypeOK' /\ guest' = SyncGuest(object')
      /\ \/ /\ InWait' = InWait \cup {t} /\ Unnotified' = Unnotified \cup {t}
            /\ object'.count = 0 /\ object'.waiters = sem.waiters + 1
         \/ /\ InWait' = InWait \ {t} /\ Unnotified' = Unnotified \ {t}
            /\ object'.waiters = sem.waiters
            /\ \/ object'.count = sem.count - 1 /\ sem.count > 0
               \/ object'.count = sem.count /\ sem.count = 0
    BY <1>2, <1>4, <1>5, <1>6, LooksEffect
<1>8. Cardinality((InWait \ Unnotified)') \in Nat
    <2>1. (InWait \ Unnotified)' \in SUBSET SemThreads
        BY DEF InWait
    <2> QED
        BY <2>1, SemAssumption, FS_Subset, FS_CardinalityType
<1>9. CASE InWait' = InWait \cup {t} /\ object'.count = 0 /\ object'.waiters = sem.waiters + 1
    <2>1. InWait' = InWait /\ object'.waiters = object.waiters
        BY <1>1, <1>2, <1>4, <1>9
    <2>2. GuestSeesObject'
        BY <1>2, <1>7, <2>1 DEF GuestSeesObject
    <2>3. UnitsFindWaiters'
        BY <1>8, <1>9 DEF UnitsFindWaiters
    <2> QED
        BY <1>7, <2>2, <2>3 DEF PosixSemConsistent
<1>10. CASE /\ InWait' = InWait \ {t} /\ Unnotified' = Unnotified \ {t}
            /\ object'.waiters = sem.waiters
            /\ \/ object'.count = sem.count - 1 /\ sem.count > 0
               \/ object'.count = sem.count /\ sem.count = 0
    <2>1. Cardinality(InWait') = Cardinality(InWait) - 1
        BY <1>1, <1>10, Finite, FS_RemoveElement
    <2>2. GuestSeesObject'
        BY <1>2, <1>4, <1>7, <1>10, <2>1 DEF GuestSeesObject
    <2>3. Unnotified' = Unnotified /\ (InWait \ Unnotified)' = Awake \ {t}
        BY <1>1, <1>10 DEF Awake
    <2>4. Cardinality((InWait \ Unnotified)') = Cardinality(Awake) - 1
        BY <1>1, <2>3, Finite, FS_RemoveElement
    <2>5. Unnotified # {} => object.count <= Cardinality(Awake)
        BY DEF PosixSemConsistent, UnitsFindWaiters, Awake
    <2>6. object'.count <= object.count - 1 \/ object'.count = 0
        BY <1>2, <1>4, <1>10
    <2>7. UnitsFindWaiters'
        <3>1. object'.count \in Nat
            BY <1>7 DEF PosixTypeOK
        <3>2. Unnotified # {} => object'.count <= Cardinality(Awake) - 1
            BY <1>1, <1>2, <1>8, <2>4, <2>5, <2>6, <3>1, Finite
        <3> QED
            BY <2>3, <2>4, <3>2 DEF UnitsFindWaiters
    <2> QED
        BY <1>7, <2>2, <2>7 DEF PosixSemConsistent
<1> QED
    BY <1>7, <1>9, <1>10

(* Who is told is awake from then on, and so is who wakes by itself.                  *)
LEMMA PostKeeps ==
    ASSUME PosixSemConsistent, NEW t \in SemThreads, Post(t)
    PROVE  PosixSemConsistent'
<1>1. PosixTypeOK
    BY DEF PosixSemConsistent
<1>2. /\ object' = [object EXCEPT !.count = @ + 1] /\ guest' = SyncGuest(object')
      /\ object'.count = object.count + 1 /\ object'.waiters = object.waiters
      /\ object.count \in Nat /\ posts' \in Nat
    BY <1>1 DEF Post, SemBecomes, PosixTypeOK
<1>3. object' \in [alive : BOOLEAN, count : Nat, waiters : Nat]
    BY <1>1, <1>2 DEF PosixTypeOK
<1>4. CASE Unnotified = {}
    <2>1. posix' = posix
        BY <1>4 DEF Post
    <2>2. PosixTypeOK' /\ InWait' = InWait /\ Unnotified' = Unnotified
        BY <1>1, <1>2, <1>3, <2>1 DEF PosixTypeOK, InWait, Unnotified, SemAt
    <2> QED
        BY <1>2, <1>4, <2>2, SameCalls
<1>5. CASE Unnotified # {}
    <2>1. PICK u \in Unnotified : posix' = [posix EXCEPT ![u].notified = TRUE]
        BY <1>5 DEF Post
    <2>2. u \in SemThreads /\ u \in InWait
        BY DEF Unnotified, InWait, SemAt
    <2>3. PosixTypeOK'
        BY <1>1, <1>2, <1>3, <2>1, <2>2 DEF PosixTypeOK
    <2>4. InWait' = InWait /\ Unnotified' = Unnotified \ {u}
        BY <1>1, <2>1, <2>2 DEF PosixTypeOK, InWait, Unnotified, SemAt
    <2>5. (InWait \ Unnotified)' = Awake \cup {u} /\ u \notin Awake
        BY <2>2, <2>4 DEF Awake
    <2>6. Cardinality((InWait \ Unnotified)') = Cardinality(Awake) + 1
        BY <2>5, Finite, FS_AddElement
    <2>7. object.count <= Cardinality(Awake)
        BY <1>5 DEF PosixSemConsistent, UnitsFindWaiters, Awake
    <2>8. UnitsFindWaiters'
        BY <1>2, <2>6, <2>7, Finite DEF UnitsFindWaiters
    <2>9. GuestSeesObject'
        BY <1>2, <2>4 DEF PosixSemConsistent, GuestSeesObject
    <2> QED
        BY <2>3, <2>8, <2>9 DEF PosixSemConsistent
<1> QED
    BY <1>4, <1>5

LEMMA SleepEndsKeeps ==
    ASSUME PosixSemConsistent, NEW t \in SemThreads, SleepEnds(t)
    PROVE  PosixSemConsistent'
<1>1. PosixTypeOK /\ object' = object /\ guest' = guest /\ posts' = posts
      /\ posix' = [posix EXCEPT ![t].step = "Polls"]
    BY DEF PosixSemConsistent, SleepEnds
<1>2. PosixTypeOK'
    BY <1>1 DEF PosixTypeOK
<1>3. InWait' = InWait /\ Unnotified' = Unnotified \ {t} /\ t \in InWait
    BY <1>1 DEF PosixTypeOK, InWait, Unnotified, SemAt, SleepEnds
<1>4. GuestSeesObject'
    BY <1>1, <1>3 DEF PosixSemConsistent, GuestSeesObject
<1>5. (InWait \ Unnotified)' = Awake \cup {t}
    BY <1>3 DEF Awake
<1>6. Cardinality(Awake) <= Cardinality((InWait \ Unnotified)') /\ Cardinality((InWait \ Unnotified)') \in Nat
    <2>1. Cardinality(Awake \cup {t}) =
              IF t \in Awake THEN Cardinality(Awake) ELSE Cardinality(Awake) + 1
        BY Finite, FS_AddElement
    <2> QED
        BY <1>5, <2>1, Finite
<1>7. Unnotified' # {} => object.count <= Cardinality(Awake)
    BY <1>3 DEF PosixSemConsistent, UnitsFindWaiters, Awake
<1>8. UnitsFindWaiters'
    BY <1>1, <1>6, <1>7, Finite DEF UnitsFindWaiters, PosixTypeOK
<1> QED
    BY <1>2, <1>4, <1>8 DEF PosixSemConsistent

--------------------------------------------------------------------------------
(* What the guest reads in its sem_t is the object's state, and no unit lies beside  *)
(* a call that sleeps and was not told, for any number of threads and of units.      *)
THEOREM PosixConsistent ==
    PosixSpec => []PosixSemConsistent
<1>1. PosixInit => PosixSemConsistent
    <2> SUFFICES ASSUME PosixInit PROVE PosixSemConsistent
        OBVIOUS
    <2>1. PosixTypeOK
        BY DEF PosixInit, NoObject, NotWaiting, SemCall, PosixTypeOK
    <2>2. InWait = {} /\ Unnotified = {}
        BY DEF PosixInit, NotWaiting, SemCall, InWait, Unnotified, SemAt
    <2> QED
        BY <2>1, <2>2, FS_EmptySet
        DEF PosixInit, NoObject, PosixSemConsistent, GuestSeesObject, UnitsFindWaiters
<1>2. PosixSemConsistent /\ [PosixNext]_posixVars => PosixSemConsistent'
    <2> SUFFICES ASSUME PosixSemConsistent, [PosixNext]_posixVars
                 PROVE  PosixSemConsistent'
        OBVIOUS
    <2>1. PosixTypeOK /\ guest = SyncGuest(object)
        BY DEF PosixSemConsistent, GuestSeesObject
    <2>2. ASSUME NEW t \in SemThreads, SemWait(t) PROVE PosixSemConsistent'
        BY <2>2, WaitKeeps
    <2>3. ASSUME NEW t \in SemThreads, TryWait(t) PROVE PosixSemConsistent'
        <3>1. /\ object' = [object EXCEPT !.count = @ - 1] /\ guest' = SyncGuest(object')
              /\ object'.count <= object.count /\ object'.waiters = object.waiters
            BY <2>1, <2>3 DEF TryWait, SemBecomes, PosixTypeOK
        <3>2. PosixTypeOK' /\ InWait' = InWait /\ Unnotified' = Unnotified
            BY <2>1, <2>3, <3>1 DEF TryWait, PosixTypeOK, InWait, Unnotified, SemAt
        <3> QED
            BY <3>1, <3>2, SameCalls
    <2>4. ASSUME NEW t \in SemThreads, Post(t) PROVE PosixSemConsistent'
        BY <2>4, PostKeeps
    <2>5. ASSUME NEW t \in SemThreads, WaitGoesOn(t) PROVE PosixSemConsistent'
        BY <2>5, SleepEndsKeeps, LooksAgainKeeps DEF WaitGoesOn
    <2>6. ASSUME NEW t \in SemThreads, SemDeadlinePasses(t) PROVE PosixSemConsistent'
        <3>1. object' = object /\ guest' = guest /\ posts' = posts
              /\ posix' = [posix EXCEPT ![t].late = TRUE]
            BY <2>6 DEF SemDeadlinePasses
        <3>2. PosixTypeOK' /\ InWait' = InWait /\ Unnotified' = Unnotified
            BY <2>1, <3>1 DEF PosixTypeOK, InWait, Unnotified, SemAt
        <3>3. object'.count <= object.count
            BY <2>1, <3>1 DEF PosixTypeOK
        <3> QED
            BY <2>1, <3>1, <3>2, <3>3, SameCalls
    <2>7. ASSUME InWait = {}, posix' = posix, posts' \in Nat, guest' = SyncGuest(object'),
                 object' \in [alive : BOOLEAN, count : Nat, waiters : Nat], object'.waiters = 0
          PROVE  PosixSemConsistent'
        <3>1. PosixTypeOK' /\ InWait' = {} /\ Unnotified' = {}
            BY <2>1, <2>7 DEF PosixTypeOK, InWait, Unnotified, SemAt
        <3> QED
            BY <2>7, <3>1, FS_EmptySet DEF PosixSemConsistent, GuestSeesObject, UnitsFindWaiters
    <2>8. CASE SemInit
        BY <2>7, <2>8, SemAssumption DEF SemInit, SemBecomes
    <2>9. CASE SemDestroy
        BY <2>1, <2>7, <2>9 DEF SemDestroy, SemBecomes, NoObject, PosixTypeOK
    <2>10. CASE UNCHANGED posixVars
        <3>1. object' = object /\ guest' = guest /\ posts' = posts /\ posix' = posix
            BY <2>10 DEF posixVars
        <3> QED
            BY <3>1 DEF PosixSemConsistent, PosixTypeOK, GuestSeesObject, UnitsFindWaiters,
                        InWait, Unnotified, SemAt
    <2> QED
        BY <2>2, <2>3, <2>4, <2>5, <2>6, <2>8, <2>9, <2>10 DEF PosixNext
<1> QED
    BY <1>1, <1>2, PTL DEF PosixSpec

--------------------------------------------------------------------------------
(***************************************************************************)
(* The event queue.  Every event holds, after what it has delivered, the   *)
(* notifications that were sent, in order, and a timer has moved by whole  *)
(* periods; a wait takes the events in a loop, whose result is what each   *)
(* iteration keeps.                                                        *)
(***************************************************************************)
\* What the list and the queue of one event hold.
Records == [items : Seq(Nat), deadline : Nat, interval : Nat]
Batches == [room : Nat, order : Seq(Keys), ev : [Keys -> Records], got : [Keys -> Nat]]

\* m periods of length k have passed of a timer armed for f, and its next one is d.
PeriodsMoved(d, f, k, t) ==
    {m \in Nat : d = f + m * k /\ (m = 0 \/ d - k <= t)}

\* What one event has sent, holds and has delivered, at time t.
EventSound(e, r, g, s, f, t) ==
    /\ e \in Queued =>
        /\ r.deadline = 0 /\ r.interval = 0
        /\ g <= s /\ r.items = [i \in 1 .. s - g |-> g + i]
    /\ e \in User =>
        /\ r.deadline = 0 /\ r.interval = 0
        /\ IF r.items = <<>> THEN g = s ELSE r.items = <<s>>
    /\ e \in OneShot => r.interval = 0
    /\ e \in Periodic =>
        /\ Len(r.items) <= 1
        /\ r.interval # 0 =>
            /\ 1 <= f
            /\ \E m \in PeriodsMoved(r.deadline, f, r.interval, t) :
                g + Reports(r.items) = s + m

QueueInv ==
    /\ QueueTypeOK
    /\ \A e \in Keys : EventSound(e, ev[e], got[e], sent[e], first[e], now)

\* The first k items of a list, and what SubSeq leaves of it.
LEMMA ItemsLeft ==
    ASSUME NEW s \in Seq(Nat), NEW k \in 0 .. Len(s)
    PROVE  /\ SubSeq(s, k + 1, Len(s)) \in Seq(Nat)
           /\ Len(SubSeq(s, k + 1, Len(s))) = Len(s) - k
           /\ SubSeq(s, k + 1, Len(s)) = [i \in 1 .. Len(s) - k |-> s[i + k]]
<1>1. /\ Len(s) \in Nat /\ DOMAIN s = 1 .. Len(s)
      /\ \A i \in 1 .. Len(s) : s[i] \in Nat
  BY LenProperties
<1> DEFINE t == SubSeq(s, k + 1, Len(s))
<1>2. \A i \in k + 1 .. Len(s) : s[i] \in Nat
  BY <1>1
<1>3. /\ t \in Seq(Nat)
      /\ Len(t) = IF k + 1 <= Len(s) THEN Len(s) - (k + 1) + 1 ELSE 0
      /\ \A i \in 1 .. Len(s) - (k + 1) + 1 : t[i] = s[k + 1 + i - 1]
  <2>1. k + 1 \in Int /\ Len(s) \in Int
    BY <1>1
  <2>. QED  BY <1>2, <2>1, SubSeqProperties
<1> HIDE DEF t
<1>4. k \in Nat /\ k <= Len(s) /\ Len(t) = Len(s) - k
  <2>1. k \in Nat /\ k <= Len(s)
    BY <1>1
  <2>2. Len(t) = IF k + 1 <= Len(s) THEN Len(s) - (k + 1) + 1 ELSE 0
    BY <1>3
  <2>3. Len(s) \in Nat
    BY <1>1
  <2>4. CASE k + 1 <= Len(s)
    BY <2>1, <2>2, <2>3, <2>4
  <2>5. CASE k = Len(s)
    BY <2>1, <2>2, <2>3, <2>5
  <2>. QED  BY <2>1, <2>3, <2>4, <2>5
<1>5. DOMAIN t = 1 .. Len(s) - k /\ t = [i \in DOMAIN t |-> t[i]]
  BY <1>3, <1>4, LenProperties
<1>6. ASSUME NEW i \in 1 .. Len(s) - k  PROVE  t[i] = s[i + k]
  <2>1. i \in 1 .. Len(s) - (k + 1) + 1 /\ k + 1 + i - 1 = i + k
    BY <1>1, <1>4
  <2>. QED  BY <1>3, <2>1
<1>7. t = [i \in 1 .. Len(s) - k |-> s[i + k]]
  BY <1>5, <1>6
<1>. QED  BY <1>3, <1>4, <1>7 DEF t

\* What an event keeps of its items after k of them have been delivered.
LEMMA AfterDeliveryIs ==
    ASSUME NEW e, NEW s \in Seq(Nat), NEW k \in 1 .. Len(s)
    PROVE  /\ AfterDelivery(e, s, k) \in Seq(Nat)
           /\ Len(AfterDelivery(e, s, k)) <= Len(s)
           /\ e \notin Level => Len(AfterDelivery(e, s, k)) < Len(s)
<1>1. Len(s) \in Nat /\ k \in 0 .. Len(s)
  BY LenProperties
<1>2. CASE e \in Level
  BY <1>1, <1>2 DEF AfterDelivery
<1>3. CASE e \notin Level
  <2>1. AfterDelivery(e, s, k) = SubSeq(s, k + 1, Len(s))
    BY <1>3 DEF AfterDelivery
  <2>2. /\ SubSeq(s, k + 1, Len(s)) \in Seq(Nat)
        /\ Len(SubSeq(s, k + 1, Len(s))) = Len(s) - k
    BY <1>1, ItemsLeft
  <2>. QED  BY <1>1, <2>1, <2>2
<1>. QED  BY <1>2, <1>3

\* How many items of e fit into a batch.
Fits(b, e) == IF Len(b.ev[e].items) <= b.room THEN Len(b.ev[e].items) ELSE b.room

\* The record that e leaves behind, and the count of what was delivered of it.
RecordLeft(b, e) ==
    [items |-> AfterDelivery(e, b.ev[e].items, Fits(b, e)),
     deadline |-> b.ev[e].deadline, interval |-> b.ev[e].interval]
GotOf(b, e) ==
    IF e \notin Periodic THEN b.ev[e].items[Fits(b, e)]
    ELSE IF b.ev[e].interval = 0 THEN b.got[e] ELSE b.got[e] + b.ev[e].items[1]

\* How many of an event's notifications are delivered: as many as there is room for.
LEMMA FitsIs ==
    ASSUME NEW b \in Batches, NEW e \in Keys
    PROVE  /\ b.room \in Nat /\ b.order \in Seq(Keys)
           /\ b.ev \in [Keys -> Records] /\ b.ev[e] \in Records
           /\ b.got \in [Keys -> Nat]
           /\ b.ev[e].items \in Seq(Nat) /\ Len(b.ev[e].items) \in Nat
           /\ Fits(b, e) \in 0 .. Len(b.ev[e].items) /\ Fits(b, e) <= b.room
           /\ Fits(b, e) = 0 <=> b.room = 0 \/ b.ev[e].items = <<>>
<1>1. /\ b.room \in Nat /\ b.order \in Seq(Keys)
      /\ b.ev \in [Keys -> Records] /\ b.got \in [Keys -> Nat]
  BY DEF Batches
<1>2. b.ev[e] \in Records
  BY <1>1
<1>3. b.ev[e].items \in Seq(Nat)
  BY <1>2 DEF Records
<1>4. Len(b.ev[e].items) \in Nat /\ (Len(b.ev[e].items) = 0 <=> b.ev[e].items = <<>>)
  BY <1>3, LenProperties, EmptySeq
<1> HIDE DEF Batches
<1>. QED  BY <1>1, <1>2, <1>3, <1>4 DEF Fits

\* The loop of GetTriggeredEvents, once: nothing, a timer that goes, or what there is room for.
LEMMA DeliverIs ==
    ASSUME NEW b \in Batches, NEW e \in Keys
    PROVE  /\ Fits(b, e) = 0 => Deliver(b, e) = b
           /\ Fits(b, e) # 0 /\ e \in OneShot =>
                Deliver(b, e) = [room |-> b.room - 1, order |-> RemoveFirst(b.order, e),
                                 ev |-> [b.ev EXCEPT ![e] = Blank], got |-> b.got]
           /\ Fits(b, e) # 0 /\ e \notin OneShot =>
                Deliver(b, e) = [room |-> b.room - Fits(b, e), order |-> b.order,
                                 ev |-> [b.ev EXCEPT ![e] = RecordLeft(b, e)],
                                 got |-> [b.got EXCEPT ![e] = GotOf(b, e)]]
<1> DEFINE k == IF Len(b.ev[e].items) <= b.room THEN Len(b.ev[e].items) ELSE b.room
<1>k. k = Fits(b, e)
  BY DEF Fits
<1>1. b = [room |-> b.room, order |-> b.order, ev |-> b.ev, got |-> b.got]
  BY DEF Batches
<1>2. /\ b.ev \in [Keys -> Records] /\ b.ev[e] \in Records /\ b.got \in [Keys -> Nat]
  BY FitsIs
<1>3. b.ev[e] = [items |-> b.ev[e].items, deadline |-> b.ev[e].deadline,
                 interval |-> b.ev[e].interval]
  BY <1>2 DEF Records
<1>4. CASE Fits(b, e) = 0
  BY <1>4, <1>k DEF Deliver
<1>5. CASE Fits(b, e) # 0 /\ e \in OneShot
  BY <1>5, <1>k DEF Deliver
<1>6. CASE Fits(b, e) # 0 /\ e \notin OneShot
  <2> DEFINE i == AfterDelivery(e, b.ev[e].items, k)
             g == IF e \notin Periodic THEN b.ev[e].items[k]
                  ELSE IF b.ev[e].interval = 0 THEN b.got[e] ELSE b.got[e] + b.ev[e].items[1]
  <2>1. Deliver(b, e) = [room |-> b.room - k, order |-> b.order,
                         ev |-> [b.ev EXCEPT ![e].items = i], got |-> [b.got EXCEPT ![e] = g]]
    BY <1>6, <1>k DEF Deliver
  <2>3. i = AfterDelivery(e, b.ev[e].items, Fits(b, e)) /\ g = GotOf(b, e)
    BY <1>k DEF GotOf
  <2> HIDE DEF k, i, g
  <2>4. [b.ev[e] EXCEPT !.items = i] = RecordLeft(b, e)
    BY <1>3, <2>3 DEF RecordLeft
  <2>5. [b.ev EXCEPT ![e].items = i] = [b.ev EXCEPT ![e] = RecordLeft(b, e)]
    BY <2>4
  <2>. QED  BY <1>6, <1>k, <2>1, <2>3, <2>5
<1>. QED  BY <1>4, <1>5, <1>6

\* Division by k.
LEMMA DivIs ==
    ASSUME NEW a \in Nat, NEW k \in Nat \ {0}
    PROVE  /\ a \div k \in Nat
           /\ (a \div k) * k <= a
           /\ a < (a \div k) * k + k
  OBVIOUS

\* Multiples of k are k apart.
LEMMA LessTimes ==
    ASSUME NEW p \in Nat, NEW q \in Nat, NEW k \in Nat \ {0}, p < q
    PROVE  p * k + k <= q * k
<1>1. PICK d \in Nat : q = p + 1 + d
  OBVIOUS
<1>2. q * k = p * k + k + d * k
  BY <1>1
<1>3. d * k \in Nat
  OBVIOUS
<1>. QED  BY <1>2, <1>3

\* The only multiple of k within k below a number.
LEMMA DivUnique ==
    ASSUME NEW a \in Nat, NEW k \in Nat \ {0}, NEW q \in Nat, q * k <= a, a < q * k + k
    PROVE  a \div k = q
<1>1. PICK p \in Nat : p = a \div k /\ p * k <= a /\ a < p * k + k
  BY DivIs
<1>2. ~ (p < q)
  <2>1. SUFFICES ASSUME p < q PROVE FALSE
   OBVIOUS
  <2>2. p * k + k <= q * k
    BY <2>1, LessTimes
  <2>. QED  BY <1>1, <2>2
<1>3. ~ (q < p)
  <2>1. SUFFICES ASSUME q < p PROVE FALSE
   OBVIOUS
  <2>2. q * k + k <= p * k
    BY <2>1, LessTimes
  <2>. QED  BY <1>1, <2>2
<1>. QED  BY <1>1, <1>2, <1>3

\* The periods that have passed are those that the deadline has moved over and those
\* that the next look will find.
LEMMA DueMoves ==
    ASSUME now \in Nat, NEW f \in Nat, NEW d \in Nat, NEW k \in Nat \ {0},
           NEW m \in PeriodsMoved(d, f, k, now)
    PROVE  Due(f, k) = Due(d, k) + m
<1>1. m \in Nat /\ d = f + m * k /\ (m = 0 \/ d - k <= now)
  BY DEF PeriodsMoved
<1>2. CASE m = 0
  <2>1. d = f
    BY <1>1, <1>2
  <2>2. Due(d, k) \in Int
    <3>1. CASE d > now
      BY <3>1 DEF Due
    <3>2. CASE d <= now
      <4>1. now - d \in Nat
        BY <3>2
      <4>2. (now - d) \div k \in Nat
        BY <4>1, DivIs
      <4>. QED  BY <3>2, <4>2 DEF Due
    <3>. QED  BY <3>1, <3>2
  <2>. QED  BY <1>2, <2>1, <2>2
<1>3. CASE m # 0
  <2>1. PICK p \in Nat : m = p + 1
    <3>1. m - 1 \in Nat /\ m = (m - 1) + 1
      BY <1>1, <1>3
    <3>. QED  BY <3>1
  <2>2. m * k = p * k + k /\ p * k \in Nat
    BY <2>1
  <2>3. d = f + p * k + k /\ f + p * k <= now
    BY <1>1, <1>3, <2>2
  <2>4. f <= now /\ now - f \in Nat /\ p * k <= now - f
    BY <2>2, <2>3
  <2>5. CASE d > now
    <3>1. now - f < p * k + k
      BY <2>2, <2>3, <2>5
    <3>2. (now - f) \div k = p
      BY <2>4, <3>1, DivUnique
    <3>. QED  BY <2>1, <2>4, <2>5, <3>2 DEF Due
  <2>6. CASE d <= now
    <3>1. now - d \in Nat
      BY <2>6
    <3>2. PICK q \in Nat : q = (now - d) \div k /\ q * k <= now - d /\ now - d < q * k + k
      BY <3>1, DivIs
    <3>3. (q + m) * k = q * k + m * k /\ q * k \in Nat
      BY <1>1
    <3>4. (q + m) * k <= now - f /\ now - f < (q + m) * k + k
      BY <1>1, <2>2, <2>3, <3>2, <3>3
    <3>5. (now - f) \div k = q + m
      <4>1. q + m \in Nat
        BY <1>1
      <4>. QED  BY <2>4, <3>4, <4>1, DivUnique
    <3>. QED  BY <1>1, <2>4, <2>6, <3>2, <3>5 DEF Due
  <2>. QED  BY <2>5, <2>6
<1>. QED  BY <1>2, <1>3

\* A timer that is looked at after its deadline moves it past the clock.
LEMMA DeadlineMoves ==
    ASSUME now \in Nat, NEW f \in Nat, NEW d \in Nat, NEW k \in Nat \ {0}, d <= now,
           NEW m \in PeriodsMoved(d, f, k, now)
    PROVE  /\ Due(d, k) \in Nat
           /\ d + Due(d, k) * k \in Nat
           /\ d <= d + Due(d, k) * k /\ now < d + Due(d, k) * k
           /\ m + Due(d, k) \in PeriodsMoved(d + Due(d, k) * k, f, k, now)
<1>1. m \in Nat /\ d = f + m * k
  BY DEF PeriodsMoved
<1>2. now - d \in Nat
  OBVIOUS
<1>3. PICK q \in Nat : q = (now - d) \div k /\ q * k <= now - d /\ now - d < q * k + k
  BY <1>2, DivIs
<1>4. Due(d, k) = 1 + q
  BY <1>3 DEF Due
<1>5. (1 + q) * k = q * k + k /\ q * k \in Nat
  OBVIOUS
<1>6. (m + (1 + q)) * k = m * k + (1 + q) * k
  BY <1>1
<1>7. d + (1 + q) * k = f + (m + (1 + q)) * k
  BY <1>1, <1>6
<1>8. d + (1 + q) * k - k <= now
  BY <1>3, <1>5
<1>9. m + (1 + q) \in Nat
  BY <1>1
<1>10. m + (1 + q) \in PeriodsMoved(d + (1 + q) * k, f, k, now)
  BY <1>7, <1>8, <1>9 DEF PeriodsMoved
<1>11. now < d + (1 + q) * k
  BY <1>2, <1>3, <1>5
<1>. QED  BY <1>4, <1>5, <1>10, <1>11

\* The records of one key, taken apart and put together.
LEMMA RecordIs ==
    ASSUME NEW r \in Records
    PROVE  /\ r.items \in Seq(Nat) /\ r.deadline \in Nat /\ r.interval \in Nat
           /\ r = [items |-> r.items, deadline |-> r.deadline, interval |-> r.interval]
           /\ Reports(r.items) \in Nat
           /\ Len(r.items) \in Nat /\ (Len(r.items) = 0 <=> r.items = <<>>)
<1>1. /\ r.items \in Seq(Nat) /\ r.deadline \in Nat /\ r.interval \in Nat
      /\ r = [items |-> r.items, deadline |-> r.deadline, interval |-> r.interval]
  BY DEF Records
<1>2. Len(r.items) \in Nat /\ (Len(r.items) = 0 <=> r.items = <<>>)
  BY <1>1, LenProperties, EmptySeq
<1>3. Reports(r.items) \in Nat
  <2>1. CASE r.items = <<>>
    BY <2>1 DEF Reports
  <2>2. CASE r.items # <<>>
    <3>1. 1 \in 1 .. Len(r.items)
      BY <1>2, <2>2
    <3>2. r.items[1] \in Nat
      BY <1>1, <3>1, ElementOfSeq
    <3>. QED  BY <2>2, <3>2 DEF Reports
  <2>. QED  BY <2>1, <2>2
<1>. QED  BY <1>1, <1>2, <1>3
\* The record of an event that is not in the list.
LEMMA BlankIs ==
    /\ Blank \in Records
    /\ Blank.items = <<>> /\ Blank.deadline = 0 /\ Blank.interval = 0
<1>1. <<>> \in Seq(Nat)
  BY EmptySeq
<1>. QED  BY <1>1 DEF Blank, Records

\* TriggerExpiredTimers moves the deadlines of timers, and nothing else.
LEMMA TimersMoved ==
    ASSUME ValidConstants, now \in Nat, ev \in [Keys -> Records], NEW e \in Keys,
           NEW g \in Nat, NEW s \in Nat, NEW f \in Nat,
           EventSound(e, ev[e], g, s, f, now)
    PROVE  LET r == TriggerExpiredTimers[e] IN
           /\ r \in Records
           /\ EventSound(e, r, g, s, f, now)
           /\ r.interval = ev[e].interval
           /\ ev[e].deadline <= r.deadline /\ (r.deadline = 0 <=> ev[e].deadline = 0)
           /\ r.items = ev[e].items \/ (ev[e].deadline # 0 /\ ev[e].deadline <= now)
           /\ e \notin Timers => r = ev[e]
           /\ e \in Periodic /\ r.interval # 0 => now < r.deadline
           /\ ev[e] = Blank => r = Blank
<1> DEFINE o == ev[e]
           r == TriggerExpiredTimers[e]
           n == Occurrences(o)
<1>1. /\ o \in Records /\ o.items \in Seq(Nat) /\ o.deadline \in Nat /\ o.interval \in Nat
      /\ o = [items |-> o.items, deadline |-> o.deadline, interval |-> o.interval]
      /\ Reports(o.items) \in Nat
  BY RecordIs
<1>2. r = IF o.deadline = 0 \/ o.deadline > now THEN o
          ELSE IF e \in Periodic
          THEN [o EXCEPT !.items = <<Reports(@) + n>>, !.deadline = @ + n * o.interval]
          ELSE [o EXCEPT !.items = IF @ = <<>> THEN <<0>> ELSE @]
  BY DEF TriggerExpiredTimers
<1>3. EventSound(e, o, g, s, f, now)
  OBVIOUS
<1>4. /\ e \in OneShot => e \notin Periodic /\ e \notin User \cup Queued
      /\ e \in Periodic => e \notin User \cup Queued
      /\ e \in User => e \notin Queued
  BY DEF ValidConstants, Timers
<1>5. e \notin Timers => o.deadline = 0
  BY <1>3 DEF EventSound, Keys
<1>b. Blank.deadline = 0
  BY BlankIs
<1> HIDE DEF o, r, n
<1> DEFINE Looked ==
        /\ r \in Records
        /\ EventSound(e, r, g, s, f, now)
        /\ r.interval = o.interval
        /\ o.deadline <= r.deadline /\ (r.deadline = 0 <=> o.deadline = 0)
        /\ r.items = o.items \/ (o.deadline # 0 /\ o.deadline <= now)
        /\ e \notin Timers => r = o
        /\ e \in Periodic /\ r.interval # 0 => now < r.deadline
        /\ o = Blank => r = Blank
<1>6. ASSUME o.deadline = 0 \/ o.deadline > now  PROVE Looked
  <2>1. r = o
    BY <1>2, <1>6
  <2>2. e \in Periodic /\ o.interval # 0 => now < o.deadline
    <3>1. SUFFICES ASSUME e \in Periodic, o.interval # 0  PROVE o.deadline # 0
      BY <1>1, <1>6
    <3>2. PICK m \in PeriodsMoved(o.deadline, f, o.interval, now) : 1 <= f
      BY <1>3, <3>1 DEF EventSound
    <3>3. m \in Nat /\ o.deadline = f + m * o.interval /\ m * o.interval \in Nat
      BY <1>1, <3>2 DEF PeriodsMoved
    <3>. QED  BY <3>2, <3>3
  <2>3. /\ r \in Records
        /\ EventSound(e, r, g, s, f, now)
        /\ r.interval = o.interval
        /\ o.deadline <= r.deadline /\ (r.deadline = 0 <=> o.deadline = 0)
    BY <1>1, <1>3, <2>1
  <2>. QED  BY <2>1, <2>2, <2>3
<1>7. ASSUME o.deadline # 0, o.deadline <= now, e \in Periodic  PROVE Looked
  <2> DEFINE x == <<Reports(o.items) + n>>
             d == o.deadline + n * o.interval
  <2>1. r = [items |-> x, deadline |-> d, interval |-> o.interval]
    <3>1. r = [o EXCEPT !.items = x, !.deadline = d]
      BY <1>1, <1>2, <1>7
    <3> HIDE DEF x, d
    <3>. QED  BY <1>1, <3>1
  <2>2. /\ n \in Nat /\ d \in Nat /\ o.deadline <= d
        /\ o.interval # 0 =>
            /\ n = Due(o.deadline, o.interval) /\ now < d
            /\ 1 <= f
            /\ \E m \in PeriodsMoved(d, f, o.interval, now) :
                    g + Reports(o.items) + n = s + m
    <3>1. CASE o.interval = 0
      <4>1. n \in Nat
        BY <3>1 DEF n, Occurrences
      <4>2. n * o.interval = 0
        BY <3>1, <4>1
      <4>. QED  BY <1>1, <3>1, <4>1, <4>2
    <3>2. CASE o.interval # 0
      <4>1. o.interval \in Nat \ {0}
        BY <1>1, <3>2
      <4>2. n = Due(o.deadline, o.interval)
        BY <3>2 DEF n, Occurrences
      <4>3. 1 <= f /\ \E m \in PeriodsMoved(o.deadline, f, o.interval, now) :
                        g + Reports(o.items) = s + m
        BY <1>3, <1>7, <3>2 DEF EventSound
      <4>4. PICK m \in PeriodsMoved(o.deadline, f, o.interval, now) :
                        g + Reports(o.items) = s + m
        BY <4>3
      <4>5. /\ Due(o.deadline, o.interval) \in Nat
            /\ o.deadline + Due(o.deadline, o.interval) * o.interval \in Nat
            /\ o.deadline <= o.deadline + Due(o.deadline, o.interval) * o.interval
            /\ now < o.deadline + Due(o.deadline, o.interval) * o.interval
            /\ m + Due(o.deadline, o.interval)
                 \in PeriodsMoved(o.deadline + Due(o.deadline, o.interval) * o.interval, f,
                                  o.interval, now)
        <5>1. o.deadline \in Nat /\ o.deadline <= now
          BY <1>1, <1>7
        <5>. QED  BY <4>1, <5>1, DeadlineMoves
      <4>6. m \in Nat
        BY DEF PeriodsMoved
      <4>7. g + Reports(o.items) + n = s + (m + n)
        BY <1>1, <4>2, <4>4, <4>5, <4>6
      <4>. QED  BY <4>2, <4>3, <4>5, <4>7
    <3>. QED  BY <3>1, <3>2
  <2>3. x \in Seq(Nat) /\ Reports(x) = Reports(o.items) + n /\ Len(x) = 1 /\ x # <<>>
    <3>1. Reports(o.items) + n \in Nat
      <4>1. Reports(o.items) \in Nat /\ n \in Nat
        BY <1>1, <2>2
      <4> HIDE DEF x, d
      <4>. QED  BY <4>1
    <3> DEFINE c == Reports(o.items) + n
    <3>2. x = <<c>>
      OBVIOUS
    <3> HIDE DEF n, c
    <3>3. <<c>> \in Seq(Nat) /\ Len(<<c>>) = 1 /\ <<c>> # <<>> /\ <<c>>[1] = c
      BY <3>1 DEF c
    <3> HIDE DEF x
    <3>. QED  BY <3>2, <3>3 DEF Reports, c
  <2> HIDE DEF x, d
  <2>4. r \in Records
    BY <1>1, <2>1, <2>2, <2>3 DEF Records
  <2>5. /\ r.items = x /\ r.deadline = d /\ r.interval = o.interval
    BY <2>1
  <2>6. EventSound(e, r, g, s, f, now)
    <3>1. o.interval # 0 => \E m \in PeriodsMoved(d, f, o.interval, now) :
                                g + Reports(x) = s + m
      BY <1>1, <2>2, <2>3
    <3>2. Len(x) <= 1
      BY <2>3
    <3>3. e \notin Queued /\ e \notin User /\ e \notin OneShot
      BY <1>4, <1>7
    <3>. QED  BY <2>2, <2>5, <3>1, <3>2, <3>3 DEF EventSound
  <2>7. d # 0
    BY <1>1, <1>7, <2>2
  <2>8. e \in Timers
    BY <1>7 DEF Timers
  <2>. QED  BY <1>7, <1>b, <2>2, <2>4, <2>5, <2>6, <2>7, <2>8
<1>8. ASSUME o.deadline # 0, o.deadline <= now, e \notin Periodic  PROVE Looked
  <2> DEFINE x == IF o.items = <<>> THEN <<0>> ELSE o.items
  <2>1. r = [items |-> x, deadline |-> o.deadline, interval |-> o.interval]
    <3>1. r = [o EXCEPT !.items = x]
      BY <1>1, <1>2, <1>8
    <3> HIDE DEF x
    <3>. QED  BY <1>1, <3>1
  <2>2. x \in Seq(Nat)
    BY <1>1
  <2> HIDE DEF x
  <2>3. r \in Records
    BY <1>1, <2>1, <2>2 DEF Records
  <2>4. r.items = x /\ r.deadline = o.deadline /\ r.interval = o.interval
    BY <2>1
  <2>5. e \in OneShot /\ e \in Timers
    BY <1>5, <1>8 DEF Timers
  <2>6. EventSound(e, r, g, s, f, now)
    BY <1>3, <1>4, <1>8, <2>4, <2>5 DEF EventSound
  <2>7. o # Blank
    BY <1>8, <1>b
  <2>8. o.deadline <= r.deadline
    BY <1>1, <2>4
  <2>. QED  BY <1>8, <2>3, <2>4, <2>5, <2>6, <2>7, <2>8
<1>9. o.deadline > now \/ o.deadline <= now
  BY <1>1
<1>10. Looked
  BY <1>6, <1>7, <1>8, <1>9
<1>. QED  BY <1>10 DEF o, r

\* The domain of a sequence tells its length.
LEMMA IntervalEnd ==
    ASSUME NEW n \in Nat, NEW m \in Nat, 1 .. n = 1 .. m
    PROVE  n = m
<1>1. CASE n < m
  <2>1. m \in 1 .. m /\ m \notin 1 .. n
    BY <1>1
  <2>. QED  BY <2>1
<1>2. CASE m < n
  <2>1. n \in 1 .. n /\ n \notin 1 .. m
    BY <1>2
  <2>. QED  BY <2>1
<1>. QED  BY <1>1, <1>2

\* An event is as sound after the delivery of k of its items as it was before.
LEMMA DeliveryOfEvent ==
    ASSUME ValidConstants, NEW e \in Keys, e \notin OneShot, NEW r \in Records,
           NEW g \in Nat, NEW s \in Nat, NEW f \in Nat, NEW t \in Nat,
           EventSound(e, r, g, s, f, t), NEW k \in 1 .. Len(r.items), NEW h,
           h = IF e \notin Periodic THEN r.items[k]
               ELSE IF r.interval = 0 THEN g ELSE g + r.items[1]
    PROVE  LET q == [items |-> AfterDelivery(e, r.items, k),
                     deadline |-> r.deadline, interval |-> r.interval]
           IN  q \in Records /\ h \in Nat /\ EventSound(e, q, h, s, f, t)
<1> DEFINE left == AfterDelivery(e, r.items, k)
           q == [items |-> left, deadline |-> r.deadline, interval |-> r.interval]
<1>1. /\ r.items \in Seq(Nat) /\ r.deadline \in Nat /\ r.interval \in Nat
      /\ Len(r.items) \in Nat /\ (Len(r.items) = 0 <=> r.items = <<>>)
  BY RecordIs
<1>2. k \in Nat /\ 1 <= k /\ k <= Len(r.items)
  BY <1>1
<1>3. left \in Seq(Nat)
  BY <1>1, AfterDeliveryIs
<1>4. q \in Records
  BY <1>1, <1>3 DEF Records
<1>5. r.items[k] \in Nat /\ r.items[1] \in Nat
  <2>1. 1 \in 1 .. Len(r.items) /\ k \in 1 .. Len(r.items)
    BY <1>1, <1>2
  <2>. QED  BY <1>1, <2>1, ElementOfSeq
<1>6. h \in Nat
  BY <1>5
<1>7. e \notin Level => /\ left = [i \in 1 .. Len(r.items) - k |-> r.items[i + k]]
                        /\ Len(left) = Len(r.items) - k
  <2>1. ASSUME e \notin Level
        PROVE  left = SubSeq(r.items, k + 1, Len(r.items))
    BY <2>1 DEF AfterDelivery
  <2>2. k \in 0 .. Len(r.items)
    BY <1>1, <1>2
  <2>3. /\ Len(SubSeq(r.items, k + 1, Len(r.items))) = Len(r.items) - k
        /\ SubSeq(r.items, k + 1, Len(r.items))
                = [i \in 1 .. Len(r.items) - k |-> r.items[i + k]]
    BY <1>1, <2>2, ItemsLeft
  <2> HIDE DEF left
  <2>. QED  BY <2>1, <2>3
<1>8. q.items = left /\ q.deadline = r.deadline /\ q.interval = r.interval
  OBVIOUS
<1>9. /\ e \in Periodic => e \notin User /\ e \notin Queued
      /\ e \in User => e \notin Queued /\ e \notin Periodic
      /\ e \in Level => e \in User
      /\ e \in Queued \cup User \cup Periodic
  BY DEF ValidConstants, Timers, User, Keys
<1> HIDE DEF left, q
<1>10. CASE e \in Queued
  <2>1. /\ r.deadline = 0 /\ r.interval = 0
        /\ g <= s /\ r.items = [i \in 1 .. s - g |-> g + i]
    BY <1>10 DEF EventSound
  <2>2. Len(r.items) = s - g
    <3>1. s - g \in Nat
      BY <2>1
    <3>2. DOMAIN r.items = 1 .. s - g
      BY <2>1
    <3>3. DOMAIN r.items = 1 .. Len(r.items)
      BY <1>1, LenProperties
    <3>4. 1 .. Len(r.items) = 1 .. s - g
      BY <3>2, <3>3
    <3>. QED  BY <1>1, <3>1, <3>4, IntervalEnd
  <2>3. h = g + k
    <3>1. k \in 1 .. s - g
      BY <1>2, <2>2
    <3>2. r.items[k] = g + k
      BY <2>1, <3>1
    <3>. QED  BY <1>9, <1>10, <3>2
  <2>4. h <= s
    BY <1>2, <2>1, <2>2, <2>3
  <2>5. left = [i \in 1 .. s - h |-> h + i]
    <3>1. left = [i \in 1 .. (s - g) - k |-> r.items[i + k]]
      BY <1>7, <1>9, <1>10, <2>2
    <3>2. (s - g) - k = s - h
      BY <1>2, <2>3
    <3>3. ASSUME NEW i \in 1 .. s - h  PROVE r.items[i + k] = h + i
      <4>1. i + k \in 1 .. s - g
        BY <1>2, <2>3, <2>4
      <4>2. r.items[i + k] = g + (i + k)
        BY <2>1, <4>1
      <4>. QED  BY <1>2, <2>3, <4>2
    <3>. QED  BY <3>1, <3>2, <3>3
  <2>. QED  BY <1>4, <1>6, <1>8, <1>9, <1>10, <2>1, <2>4, <2>5 DEF EventSound, q, left
<1>11. CASE e \in User
  <2>1. r.deadline = 0 /\ r.interval = 0 /\ r.items = <<s>>
    <3>1. r.items # <<>>
      <4>1. Len(r.items) # 0
        BY <1>1, <1>2
      <4>. QED  BY <1>1, <4>1, EmptySeq
    <3>. QED  BY <1>11, <3>1 DEF EventSound
  <2>2. Len(r.items) = 1 /\ r.items[1] = s /\ k = 1
    BY <1>2, <2>1
  <2>3. h = s
    BY <1>9, <1>11, <2>2
  <2>4. left = <<s>> \/ left = <<>>
    <3>1. CASE e \in Level
      BY <2>1, <3>1 DEF left, AfterDelivery
    <3>2. CASE e \notin Level
      <4>1. Len(left) = 0
        BY <1>7, <2>2, <3>2
      <4>. QED  BY <1>3, <4>1, EmptySeq
    <3>. QED  BY <3>1, <3>2
  <2>. QED  BY <1>4, <1>6, <1>8, <1>9, <1>11, <2>1, <2>3, <2>4 DEF EventSound, q, left
<1>12. CASE e \in Periodic
  <2>1. Len(r.items) <= 1
    BY <1>12 DEF EventSound
  <2>2. Len(r.items) = 1 /\ k = 1
    <3> DEFINE n == Len(r.items)
    <3>1. n \in Nat /\ k \in Nat /\ 1 <= k /\ k <= n /\ n <= 1
      BY <1>1, <1>2, <2>1
    <3> HIDE DEF n
    <3>2. n = 1 /\ k = 1
      BY <3>1
    <3>. QED  BY <3>2 DEF n
  <2>3. left = <<>> /\ Len(left) = 0
    <3>1. Len(left) = 0
      BY <1>7, <1>9, <1>12, <2>2
    <3>. QED  BY <1>3, <3>1, EmptySeq
  <2>4. Reports(left) = 0
    BY <2>3 DEF Reports
  <2>5. Reports(r.items) = r.items[1]
    <3>1. r.items # <<>>
      <4>1. Len(r.items) # 0
        BY <2>2
      <4>. QED  BY <1>1, <4>1
    <3>. QED  BY <3>1 DEF Reports
  <2>6. ASSUME r.interval # 0
        PROVE  /\ 1 <= f
               /\ \E m \in PeriodsMoved(r.deadline, f, r.interval, t) :
                        h + Reports(left) = s + m
    <3>1. 1 <= f /\ \E m \in PeriodsMoved(r.deadline, f, r.interval, t) :
                        g + Reports(r.items) = s + m
      BY <1>12, <2>6 DEF EventSound
    <3>2. h + Reports(left) = g + Reports(r.items)
      <4>1. h = g + r.items[1]
        BY <1>12, <2>6
      <4>. QED  BY <1>5, <1>6, <2>4, <2>5, <4>1
    <3>. QED  BY <3>1, <3>2
  <2>. QED  BY <1>4, <1>6, <1>8, <1>9, <1>12, <2>3, <2>6 DEF EventSound, q, left
<1>. QED  BY <1>9, <1>10, <1>11, <1>12

\* What the loop of GetTriggeredEvents keeps true of the list and of every event.
BatchSound(b) ==
    /\ b \in Batches /\ Distinct(b.order) /\ ToSet(b.order) \subseteq ToSet(order)
    /\ \A e \in Keys :
        /\ e \notin ToSet(b.order) => b.ev[e] = Blank
        /\ EventSound(e, b.ev[e], b.got[e], sent[e], first[e], now)

\* Delivering keeps every event sound.
LEMMA DeliverSound ==
    ASSUME ValidConstants, now \in Nat, sent \in [Keys -> Nat], first \in [Keys -> Nat],
           NEW b, BatchSound(b), NEW e \in Keys
    PROVE  BatchSound(Deliver(b, e))
<1> DEFINE d == Deliver(b, e)
           k == Fits(b, e)
<1>1. /\ b \in Batches /\ Distinct(b.order) /\ ToSet(b.order) \subseteq ToSet(order)
      /\ \A x \in Keys :
            /\ x \notin ToSet(b.order) => b.ev[x] = Blank
            /\ EventSound(x, b.ev[x], b.got[x], sent[x], first[x], now)
  BY DEF BatchSound
<1>2. /\ b.room \in Nat /\ b.order \in Seq(Keys)
      /\ b.ev \in [Keys -> Records] /\ b.ev[e] \in Records
      /\ b.got \in [Keys -> Nat]
      /\ b.ev[e].items \in Seq(Nat) /\ Len(b.ev[e].items) \in Nat
      /\ k \in 0 .. Len(b.ev[e].items) /\ k <= b.room
      /\ k = 0 <=> b.room = 0 \/ b.ev[e].items = <<>>
  BY <1>1, FitsIs
<1>3. /\ k = 0 => d = b
      /\ k # 0 /\ e \in OneShot =>
            d = [room |-> b.room - 1, order |-> RemoveFirst(b.order, e),
                 ev |-> [b.ev EXCEPT ![e] = Blank], got |-> b.got]
      /\ k # 0 /\ e \notin OneShot =>
            d = [room |-> b.room - k, order |-> b.order,
                 ev |-> [b.ev EXCEPT ![e] = RecordLeft(b, e)],
                 got |-> [b.got EXCEPT ![e] = GotOf(b, e)]]
  BY <1>1, DeliverIs
<1>4. k \in Nat
  BY <1>2
<1> HIDE DEF d, k
<1>5. CASE k = 0
  BY <1>3, <1>5 DEF d
<1>6. CASE k # 0 /\ e \in OneShot
  <2>1. /\ RemoveFirst(b.order, e) \in Seq(Keys) /\ Distinct(RemoveFirst(b.order, e))
        /\ ToSet(RemoveFirst(b.order, e)) = ToSet(b.order) \ {e}
    BY <1>1, <1>2, RemoveFirstProperties
  <2> DEFINE o == RemoveFirst(b.order, e)
             v == [b.ev EXCEPT ![e] = Blank]
  <2>2. b.room - 1 \in Nat
    BY <1>2, <1>4, <1>6
  <2>3. v \in [Keys -> Records] /\ v[e] = Blank /\ \A x \in Keys : x # e => v[x] = b.ev[x]
    BY <1>2, BlankIs
  <2> HIDE DEF o, v
  <2>4. d.room = b.room - 1 /\ d.order = o /\ d.ev = v /\ d.got = b.got /\ d \in Batches
    <3>1. d = [room |-> b.room - 1, order |-> o, ev |-> v, got |-> b.got]
      BY <1>3, <1>6 DEF o, v
    <3>2. o \in Seq(Keys)
      BY <2>1 DEF o
    <3>. QED  BY <1>2, <2>2, <2>3, <3>1, <3>2 DEF Batches
  <2>5. ASSUME NEW x \in Keys
        PROVE  /\ x \notin ToSet(o) => v[x] = Blank
               /\ EventSound(x, v[x], b.got[x], sent[x], first[x], now)
    <3>1. CASE x = e
      <4>1. e \notin Queued /\ e \notin User /\ e \notin Periodic
        BY <1>6 DEF ValidConstants, Timers
      <4>. QED  BY <2>3, <3>1, <4>1, BlankIs DEF EventSound
    <3>2. CASE x # e
      <4>1. v[x] = b.ev[x]
        BY <2>3, <3>2
      <4>2. x \notin ToSet(o) => x \notin ToSet(b.order)
        BY <2>1, <3>2 DEF o
      <4>. QED  BY <1>1, <4>1, <4>2
    <3>. QED  BY <3>1, <3>2
  <2>6. Distinct(o) /\ ToSet(o) \subseteq ToSet(order)
    BY <1>1, <2>1 DEF o
  <2>7. BatchSound(d)
    BY <2>4, <2>5, <2>6 DEF BatchSound
  <2>. QED  BY <2>7 DEF d
<1>7. CASE k # 0 /\ e \notin OneShot
  <2> DEFINE q == RecordLeft(b, e)
             h == GotOf(b, e)
             v == [b.ev EXCEPT ![e] = q]
             g == [b.got EXCEPT ![e] = h]
  <2>1. q \in Records /\ h \in Nat /\ EventSound(e, q, h, sent[e], first[e], now)
    <3>1. k \in 1 .. Len(b.ev[e].items)
      BY <1>2, <1>4, <1>7
    <3>2. EventSound(e, b.ev[e], b.got[e], sent[e], first[e], now)
      BY <1>1
    <3>3. b.got[e] \in Nat /\ sent[e] \in Nat /\ first[e] \in Nat
      BY <1>2
    <3>4. h = IF e \notin Periodic THEN b.ev[e].items[k]
              ELSE IF b.ev[e].interval = 0 THEN b.got[e] ELSE b.got[e] + b.ev[e].items[1]
      BY DEF GotOf, k
    <3>5. q = [items |-> AfterDelivery(e, b.ev[e].items, k),
               deadline |-> b.ev[e].deadline, interval |-> b.ev[e].interval]
      BY DEF RecordLeft, k
    <3> HIDE DEF q, h
    <3>6. LET z == [items |-> AfterDelivery(e, b.ev[e].items, k),
                    deadline |-> b.ev[e].deadline, interval |-> b.ev[e].interval]
          IN  z \in Records /\ h \in Nat /\ EventSound(e, z, h, sent[e], first[e], now)
      BY <1>2, <1>7, <3>1, <3>2, <3>3, <3>4, DeliveryOfEvent
    <3>. QED  BY <3>5, <3>6
  <2>2. b.room - k \in Nat
    BY <1>2, <1>4
  <2> HIDE DEF q, h
  <2>3. /\ v \in [Keys -> Records] /\ v[e] = q /\ \A x \in Keys : x # e => v[x] = b.ev[x]
        /\ g \in [Keys -> Nat] /\ g[e] = h /\ \A x \in Keys : x # e => g[x] = b.got[x]
    BY <1>2, <2>1
  <2>v. /\ v = [b.ev EXCEPT ![e] = RecordLeft(b, e)]
        /\ g = [b.got EXCEPT ![e] = GotOf(b, e)]
    BY DEF q, h
  <2> HIDE DEF v, g
  <2>4. d.room = b.room - k /\ d.order = b.order /\ d.ev = v /\ d.got = g /\ d \in Batches
    <3>1. d = [room |-> b.room - k, order |-> b.order, ev |-> v, got |-> g]
      BY <1>3, <1>7, <2>v
    <3>. QED  BY <1>2, <2>2, <2>3, <3>1 DEF Batches
  <2>5. ASSUME NEW x \in Keys
        PROVE  /\ x \notin ToSet(b.order) => v[x] = Blank
               /\ EventSound(x, v[x], g[x], sent[x], first[x], now)
    <3>1. CASE x = e
      <4>1. e \in ToSet(b.order)
        <5>1. b.ev[e].items # <<>>
          BY <1>2, <1>7
        <5>. QED  BY <1>1, <5>1, BlankIs
      <4>. QED  BY <2>1, <2>3, <3>1, <4>1
    <3>2. CASE x # e
      <4>1. v[x] = b.ev[x] /\ g[x] = b.got[x]
        BY <2>3, <3>2
      <4>. QED  BY <1>1, <4>1
    <3>. QED  BY <3>1, <3>2
  <2>6. BatchSound(d)
    BY <1>1, <2>4, <2>5 DEF BatchSound
  <2>. QED  BY <2>6 DEF d
<1>. QED  BY <1>5, <1>6, <1>7

Hand(b, e) == Len(b.ev[e].items)
Held(e) == Len(TriggerExpiredTimers[e].items)

\* How far the loop has come after i events of the list: it has only taken items, and
\* where it has found room for none it has found none.
BatchProgress(i, b, num) ==
    /\ b.room <= num
    /\ \A e \in Keys : Hand(b, e) <= Held(e)
    /\ \A e \in ToSet(b.order) : b.ev[e].deadline = TriggerExpiredTimers[e].deadline
    /\ b.room = num =>
        /\ b.ev = TriggerExpiredTimers
        /\ \A j \in 1 .. i : TriggerExpiredTimers[order[j]].items = <<>>
    /\ b.room # num /\ Level = {} => \E e \in Keys : Hand(b, e) < Held(e)

\* What is delivered first fills the room: an event keeps items only when there is none left.
LEMMA DeliverProgress ==
    ASSUME NEW num \in Nat \ {0}, TriggerExpiredTimers \in [Keys -> Records],
           order \in Seq(Keys), NEW i \in 1 .. Len(order), NEW b \in Batches,
           Distinct(b.order), BatchProgress(i - 1, b, num)
    PROVE  BatchProgress(i, Deliver(b, order[i]), num)
<1> DEFINE e == order[i]
           d == Deliver(b, e)
           k == Fits(b, e)
           T == TriggerExpiredTimers
<1>1. e \in Keys /\ i \in Nat /\ i # 0
  <2>1. Len(order) \in Nat
    BY LenProperties
  <2>. QED  BY <2>1, ElementOfSeq
<1>h. \A x \in Keys : Held(x) \in Nat
  BY RecordIs DEF Held
<1>2. /\ b.room \in Nat /\ b.order \in Seq(Keys)
      /\ b.ev \in [Keys -> Records] /\ b.ev[e] \in Records
      /\ b.got \in [Keys -> Nat]
      /\ b.ev[e].items \in Seq(Nat) /\ Len(b.ev[e].items) \in Nat
      /\ k \in 0 .. Len(b.ev[e].items) /\ k <= b.room
      /\ k = 0 <=> b.room = 0 \/ b.ev[e].items = <<>>
  BY <1>1, FitsIs
<1>3. /\ k = 0 => d = b
      /\ k # 0 /\ e \in OneShot =>
            d = [room |-> b.room - 1, order |-> RemoveFirst(b.order, e),
                 ev |-> [b.ev EXCEPT ![e] = Blank], got |-> b.got]
      /\ k # 0 /\ e \notin OneShot =>
            d = [room |-> b.room - k, order |-> b.order,
                 ev |-> [b.ev EXCEPT ![e] = RecordLeft(b, e)],
                 got |-> [b.got EXCEPT ![e] = GotOf(b, e)]]
  BY <1>1, DeliverIs
<1>4. k \in Nat
  BY <1>2
<1>5. /\ b.room <= num
      /\ \A x \in Keys : Hand(b, x) <= Held(x)
      /\ \A x \in ToSet(b.order) : b.ev[x].deadline = T[x].deadline
      /\ b.room = num =>
            /\ b.ev = T
            /\ \A j \in 1 .. i - 1 : T[order[j]].items = <<>>
      /\ b.room # num /\ Level = {} => \E x \in Keys : Hand(b, x) < Held(x)
  BY DEF BatchProgress
<1>b. Len(Blank.items) = 0
  BY BlankIs, EmptySeq
<1>m. \A x \in Keys : Hand(b, x) \in Nat
  BY <1>2, RecordIs DEF Hand
<1> HIDE DEF d, k, T
<1>6. CASE k = 0
  <2>1. d = b
    BY <1>3, <1>6
  <2>2. ASSUME b.room = num, NEW j \in 1 .. i  PROVE T[order[j]].items = <<>>
    <3>1. CASE j = i
      <4>1. b.ev[e].items = <<>>
        BY <1>2, <1>6, <2>2
      <4>. QED  BY <1>5, <2>2, <3>1, <4>1
    <3>2. CASE j # i
      <4>1. j \in 1 .. i - 1
        BY <1>1, <3>2
      <4>. QED  BY <1>5, <2>2, <4>1
    <3>. QED  BY <3>1, <3>2
  <2>3. BatchProgress(i, d, num)
    BY <1>5, <2>1, <2>2 DEF BatchProgress, T
  <2>. QED  BY <2>3 DEF d
<1>7. CASE k # 0
  <2>1. d.ev \in [Keys -> Records] /\ \A x \in Keys : x # e => d.ev[x] = b.ev[x]
    <3>1. CASE e \in OneShot
      <4>1. d.ev = [b.ev EXCEPT ![e] = Blank]
        BY <1>3, <1>7, <3>1
      <4>. QED  BY <1>2, <4>1, BlankIs
    <3>2. CASE e \notin OneShot
      <4>1. d.ev = [b.ev EXCEPT ![e] = RecordLeft(b, e)]
        BY <1>3, <1>7, <3>2
      <4>2. k \in 1 .. Len(b.ev[e].items)
        BY <1>2, <1>4, <1>7
      <4>3. AfterDelivery(e, b.ev[e].items, k) \in Seq(Nat)
        BY <1>2, <4>2, AfterDeliveryIs
      <4>4. RecordLeft(b, e) \in Records
        BY <1>2, <4>3, RecordIs DEF RecordLeft, Records, k
      <4>. QED  BY <1>2, <4>1, <4>4
    <3>. QED  BY <3>1, <3>2
  <2>2. /\ Len(d.ev[e].items) <= Len(b.ev[e].items)
        /\ Level = {} => Len(d.ev[e].items) < Len(b.ev[e].items)
    <3>0. k <= Len(b.ev[e].items)
      BY <1>2
    <3>1. CASE e \in OneShot
      <4>1. d.ev[e] = Blank
        BY <1>1, <1>2, <1>3, <1>7, <3>1
      <4>. QED  BY <1>2, <1>4, <1>7, <1>b, <3>0, <4>1
    <3>2. CASE e \notin OneShot
      <4>1. d.ev[e] = RecordLeft(b, e)
        BY <1>1, <1>2, <1>3, <1>7, <3>2
      <4>2. k \in 1 .. Len(b.ev[e].items)
        BY <1>2, <1>4, <1>7
      <4>3. /\ Len(AfterDelivery(e, b.ev[e].items, k)) <= Len(b.ev[e].items)
            /\ e \notin Level => Len(AfterDelivery(e, b.ev[e].items, k)) < Len(b.ev[e].items)
        BY <1>2, <4>2, AfterDeliveryIs
      <4>4. d.ev[e].items = AfterDelivery(e, b.ev[e].items, k)
        BY <4>1 DEF RecordLeft, k
      <4>. QED  BY <4>3, <4>4
    <3>. QED  BY <3>1, <3>2
  <2>3. d.room < b.room
    <3>1. CASE e \in OneShot
      BY <1>2, <1>3, <1>7, <3>1
    <3>2. CASE e \notin OneShot
      BY <1>2, <1>3, <1>4, <1>7, <3>2
    <3>. QED  BY <3>1, <3>2
  <2>r. d.room \in Int
    BY <1>2, <1>3, <1>4, <1>7
  <2>4. d.room <= num /\ d.room # num
    BY <1>2, <1>5, <2>3, <2>r
  <2>5. \A x \in Keys : Hand(d, x) \in Nat
    BY <2>1, RecordIs DEF Hand
  <2>6. ASSUME NEW x \in Keys  PROVE Hand(d, x) <= Held(x)
    <3>1. Hand(d, x) <= Hand(b, x)
      BY <1>m, <2>1, <2>2 DEF Hand
    <3>2. Hand(b, x) <= Held(x) /\ Hand(b, x) \in Nat /\ Held(x) \in Nat /\ Hand(d, x) \in Nat
      BY <1>5, <1>h, <1>m, <2>5
    <3>. QED  BY <3>1, <3>2
  <2>7. ASSUME Level = {}  PROVE Hand(d, e) < Held(e)
    <3>1. Hand(d, e) < Hand(b, e)
      BY <2>2, <2>7 DEF Hand
    <3>2. /\ Hand(b, e) <= Held(e)
          /\ Hand(b, e) \in Nat /\ Held(e) \in Nat /\ Hand(d, e) \in Nat
      BY <1>1, <1>5, <1>h, <1>m, <2>5
    <3>. QED  BY <3>1, <3>2
  <2>8. ASSUME NEW x \in ToSet(d.order)  PROVE d.ev[x].deadline = T[x].deadline
    <3>1. CASE e \in OneShot
      <4>1. d.order = RemoveFirst(b.order, e) /\ d.ev = [b.ev EXCEPT ![e] = Blank]
        BY <1>3, <1>7, <3>1
      <4>2. ToSet(d.order) = ToSet(b.order) \ {e}
        <5>1. b.order \in Seq(Keys) /\ Distinct(b.order)
          BY <1>2
        <5>2. ToSet(RemoveFirst(b.order, e)) = ToSet(b.order) \ {e}
          BY <1>1, <5>1, RemoveFirstProperties
        <5>. QED  BY <4>1, <5>2
      <4>3. d.ev[x] = b.ev[x]
        BY <1>2, <4>1, <4>2
      <4>. QED  BY <1>5, <4>2, <4>3
    <3>2. CASE e \notin OneShot
      <4>1. d.order = b.order /\ d.ev = [b.ev EXCEPT ![e] = RecordLeft(b, e)]
        BY <1>3, <1>7, <3>2
      <4>2. d.ev[x].deadline = b.ev[x].deadline
        <5>1. x = e => d.ev[x] = RecordLeft(b, e)
          BY <1>1, <1>2, <4>1
        <5>2. x # e => d.ev[x] = b.ev[x]
          BY <1>2, <4>1
        <5>. QED  BY <5>1, <5>2 DEF RecordLeft
      <4>. QED  BY <1>5, <4>1, <4>2
    <3>. QED  BY <3>1, <3>2
  <2>9. BatchProgress(i, d, num)
    BY <1>1, <2>4, <2>6, <2>7, <2>8 DEF BatchProgress, T
  <2>. QED  BY <2>9 DEF d
<1>. QED  BY <1>6, <1>7

\* The loop of GetTriggeredEvents has a batch after every event of the list.
LEMMA LoopExists ==
    ASSUME NEW n \in Nat, NEW start, NEW list
    PROVE  \E f : f = [i \in 0 .. n |-> IF i = 0 THEN start ELSE Deliver(f[i - 1], list[i])]
<1> DEFINE Loop(m, f) == f = [i \in 0 .. m |-> IF i = 0 THEN start ELSE Deliver(f[i - 1], list[i])]
           without == {m \in Nat : ~ \E f : Loop(m, f)}
<1>1. SUFFICES ASSUME without # {}  PROVE FALSE
  OBVIOUS
<1>2. IsWellFoundedOn(OpToRel(<, Nat), Nat)
  BY NatLessThanWellFounded
<1>3. PICK m \in without : \A k \in without : ~ (<<k, m>> \in OpToRel(<, Nat))
  <2>1. without \subseteq Nat
    OBVIOUS
  <2> HIDE DEF without
  <2>. QED  BY <1>1, <1>2, <2>1, WFMin
<1>4. m \in Nat /\ ~ \E f : Loop(m, f)
  OBVIOUS
<1>5. CASE m = 0
  <2> DEFINE g == [i \in 0 .. 0 |-> start]
  <2>1. Loop(0, g)
    OBVIOUS
  <2>. QED  BY <1>4, <1>5, <2>1
<1>6. CASE m # 0
  <2>1. m - 1 \in Nat /\ m - 1 < m
    BY <1>4, <1>6
  <2>2. m - 1 \notin without
    BY <1>3, <1>4, <2>1 DEF OpToRel
  <2>3. PICK f : Loop(m - 1, f)
    BY <2>1, <2>2
  <2> DEFINE g == [i \in 0 .. m |-> IF i = m THEN Deliver(f[m - 1], list[m]) ELSE f[i]]
  <2>4. ASSUME NEW i \in 0 .. m
        PROVE  g[i] = IF i = 0 THEN start ELSE Deliver(g[i - 1], list[i])
    <3>1. CASE i = m
      <4>1. g[i - 1] = f[m - 1]
        BY <1>4, <1>6, <3>1
      <4>. QED  BY <1>6, <3>1, <4>1
    <3>2. CASE i # m
      <4>1. i \in 0 .. m - 1 /\ g[i] = f[i]
        BY <1>4, <3>2
      <4>2. f[i] = IF i = 0 THEN start ELSE Deliver(f[i - 1], list[i])
        BY <2>3, <4>1
      <4>3. i # 0 => g[i - 1] = f[i - 1]
        BY <1>4, <4>1
      <4>. QED  BY <4>1, <4>2, <4>3
    <3>. QED  BY <3>1, <3>2
  <2>5. g = [i \in 0 .. m |-> g[i]]
    OBVIOUS
  <2>6. Loop(m, g)
    <3> HIDE DEF g
    <3>. QED  BY <2>4, <2>5
  <2>. QED  BY <1>4, <2>6
<1>. QED  BY <1>5, <1>6

\* What holds before the loop and is kept by each iteration holds of what the loop returns.
LEMMA BatchInduction ==
    ASSUME NEW num, NEW Good, order \in Seq(Keys), <<0, Start(num)>> \in Good,
           \A i \in 1 .. Len(order) : \A b :
                <<i - 1, b>> \in Good => <<i, Deliver(b, order[i])>> \in Good
    PROVE  <<Len(order), GetTriggeredEvents(num)>> \in Good
<1> DEFINE after == CHOOSE f : f = [i \in 0 .. Len(order) |->
                        IF i = 0 THEN Start(num) ELSE Deliver(f[i - 1], order[i])]
<1>1. Len(order) \in Nat
  BY LenProperties
<1>2. after = [i \in 0 .. Len(order) |->
                        IF i = 0 THEN Start(num) ELSE Deliver(after[i - 1], order[i])]
  BY <1>1, LoopExists
<1>3. GetTriggeredEvents(num) = after[Len(order)]
  BY DEF GetTriggeredEvents
<1> HIDE DEF after
<1>4. after[0] = Start(num) /\ \A i \in 1 .. Len(order) : after[i] = Deliver(after[i - 1], order[i])
  BY <1>1, <1>2
<1> DEFINE bad == {i \in Nat : i \in 0 .. Len(order) /\ <<i, after[i]>> \notin Good}
<1>5. bad = {}
  <2>1. SUFFICES ASSUME bad # {}  PROVE FALSE
    OBVIOUS
  <2>2. IsWellFoundedOn(OpToRel(<, Nat), Nat)
    BY NatLessThanWellFounded
  <2>3. PICK i \in bad : \A k \in bad : ~ (<<k, i>> \in OpToRel(<, Nat))
    <3>1. bad \subseteq Nat
      OBVIOUS
    <3> HIDE DEF bad
    <3>. QED  BY <2>1, <2>2, <3>1, WFMin
  <2>4. i \in Nat /\ i \in 0 .. Len(order) /\ <<i, after[i]>> \notin Good
    OBVIOUS
  <2>5. i # 0
    BY <1>4, <2>4
  <2>6. i - 1 \in Nat /\ i - 1 < i /\ i \in 1 .. Len(order) /\ i - 1 \in 0 .. Len(order)
    BY <1>1, <2>4, <2>5
  <2>7. i - 1 \notin bad
    BY <2>3, <2>4, <2>6 DEF OpToRel
  <2>8. <<i - 1, after[i - 1]>> \in Good
    BY <2>6, <2>7
  <2>9. after[i] = Deliver(after[i - 1], order[i])
    BY <1>4, <2>6
  <2>. QED  BY <2>4, <2>6, <2>8, <2>9
<1>. QED  BY <1>1, <1>3, <1>5

\* QueueTypeOK, with the operators of the lemmas about lists.
LEMMA QueueTypes ==
    ASSUME ValidConstants, QueueInv
    PROVE  /\ now \in Nat /\ sent \in [Keys -> Nat] /\ first \in [Keys -> Nat]
           /\ got \in [Keys -> Nat] /\ ev \in [Keys -> Records]
           /\ order \in Seq(Keys) /\ Distinct(order) /\ Len(order) \in Nat
           /\ \A e \in Keys :
                /\ e \notin ToSet(order) => ev[e] = Blank
                /\ EventSound(e, ev[e], got[e], sent[e], first[e], now)
<1>1. order \in Seq(Keys) /\ IsInjective(order)
  BY DEF QueueInv, QueueTypeOK
<1>2. Len(order) \in Nat /\ DOMAIN order = 1 .. Len(order)
  BY <1>1, LenProperties
<1>3. Distinct(order)
  BY <1>1, <1>2 DEF IsInjective, Distinct
<1>4. now \in Nat
  BY DEF QueueInv, QueueTypeOK, ValidConstants
<1>5. ToSet(order) = Range(order)
  BY DEF ToSet, Range
<1>. QED  BY <1>1, <1>2, <1>3, <1>4, <1>5 DEF QueueInv, QueueTypeOK, Listed, Records

\* The batch of a look at the queue: as sound as the queue was, and with nothing added.
LEMMA BatchOf ==
    ASSUME ValidConstants, QueueInv, NEW num \in Nat \ {0}
    PROVE  /\ TriggerExpiredTimers \in [Keys -> Records]
           /\ BatchSound(GetTriggeredEvents(num))
           /\ BatchProgress(Len(order), GetTriggeredEvents(num), num)
<1>1. /\ now \in Nat /\ sent \in [Keys -> Nat] /\ first \in [Keys -> Nat]
      /\ got \in [Keys -> Nat] /\ ev \in [Keys -> Records]
      /\ order \in Seq(Keys) /\ Distinct(order) /\ Len(order) \in Nat
      /\ \A e \in Keys :
            /\ e \notin ToSet(order) => ev[e] = Blank
            /\ EventSound(e, ev[e], got[e], sent[e], first[e], now)
  BY QueueTypes
<1>2. ASSUME NEW e \in Keys
      PROVE  /\ TriggerExpiredTimers[e] \in Records
             /\ EventSound(e, TriggerExpiredTimers[e], got[e], sent[e], first[e], now)
             /\ ev[e] = Blank => TriggerExpiredTimers[e] = Blank
  <2>1. EventSound(e, ev[e], got[e], sent[e], first[e], now)
    BY <1>1
  <2>2. got[e] \in Nat /\ sent[e] \in Nat /\ first[e] \in Nat
    BY <1>1
  <2>. QED  BY <1>1, <2>1, <2>2, TimersMoved
<1>3. TriggerExpiredTimers \in [Keys -> Records]
  <2>1. TriggerExpiredTimers = [e \in Keys |-> TriggerExpiredTimers[e]]
    BY DEF TriggerExpiredTimers
  <2>. QED  BY <1>2, <2>1
<1> DEFINE start == Start(num)
<1>4. /\ start \in Batches /\ start.room = num /\ start.order = order
      /\ start.ev = TriggerExpiredTimers /\ start.got = got
  BY <1>1, <1>3 DEF Start, Batches
<1> HIDE DEF start
<1>5. BatchSound(start)
  BY <1>1, <1>2, <1>4 DEF BatchSound
<1>6. BatchProgress(0, start, num)
  <2>1. \A e \in Keys : Held(e) \in Nat /\ Hand(start, e) = Held(e)
    BY <1>3, <1>4, RecordIs DEF Held, Hand
  <2>. QED  BY <1>4, <2>1 DEF BatchProgress
<1> DEFINE Good == {p \in (0 .. Len(order)) \X Batches :
                        BatchSound(p[2]) /\ BatchProgress(p[1], p[2], num)}
<1>7. <<0, Start(num)>> \in Good
  BY <1>1, <1>4, <1>5, <1>6 DEF start
<1>8. ASSUME NEW i \in 1 .. Len(order), NEW b, <<i - 1, b>> \in Good
      PROVE  <<i, Deliver(b, order[i])>> \in Good
  <2>1. b \in Batches /\ BatchSound(b) /\ BatchProgress(i - 1, b, num) /\ Distinct(b.order)
    BY <1>8 DEF BatchSound
  <2>2. order[i] \in Keys
    BY <1>1, ElementOfSeq
  <2>3. BatchSound(Deliver(b, order[i]))
    BY <1>1, <2>1, <2>2, DeliverSound
  <2>4. BatchProgress(i, Deliver(b, order[i]), num)
    BY <1>1, <1>3, <2>1, DeliverProgress
  <2>5. Deliver(b, order[i]) \in Batches /\ i \in 0 .. Len(order)
    BY <1>1, <2>3 DEF BatchSound
  <2>. QED  BY <2>3, <2>4, <2>5
<1> HIDE DEF Good
<1>9. <<Len(order), GetTriggeredEvents(num)>> \in Good
  BY <1>1, <1>7, <1>8, BatchInduction
<1>. QED  BY <1>3, <1>9 DEF Good

\* The two halves of QueueInv: the list with its events, and the waiting threads.
DataOK ==
    /\ order \in Seq(Keys) /\ IsInjective(order)
    /\ ev \in [Keys -> Records]
    /\ closed \in BOOLEAN /\ (closed => order = <<>>)
    /\ now \in 1 .. MaxNow
    /\ sent \in [Keys -> Nat] /\ got \in [Keys -> Nat] /\ first \in [Keys -> Nat]
    /\ \A e \in Keys :
        /\ e \notin ToSet(order) => ev[e] = Blank
        /\ EventSound(e, ev[e], got[e], sent[e], first[e], now)

ThreadsOK ==
    /\ waiter \in [Waiters -> {"out", "asleep", "woken"}]
    /\ asked \in [Waiters -> [num : Nums \cup {1}, until : 0 .. MaxNow]]
    /\ alarm \in [Waiters -> Nat]

\* The invariant is one part about the events and one about the threads.
LEMMA QueueInvIs == QueueInv <=> DataOK /\ ThreadsOK
<1>1. ToSet(order) = Range(order)
  BY DEF ToSet, Range
<1>2. QueueTypeOK <=>
         /\ order \in Seq(Keys) /\ IsInjective(order)
         /\ ev \in [Keys -> Records]
         /\ \A e \in Keys : e \notin ToSet(order) => ev[e] = Blank
         /\ closed \in BOOLEAN /\ (closed => order = <<>>)
         /\ ThreadsOK
         /\ now \in 1 .. MaxNow
         /\ sent \in [Keys -> Nat] /\ got \in [Keys -> Nat] /\ first \in [Keys -> Nat]
  BY <1>1 DEF QueueTypeOK, ThreadsOK, Listed, Records
<1>. QED  BY <1>2 DEF QueueInv, DataOK

\* An event that is not in the list has sent and delivered nothing.
LEMMA BlankSound ==
    ASSUME NEW e, NEW t \in Nat
    PROVE  EventSound(e, Blank, 0, 0, 0, t)
<1>1. Blank.items = <<>> /\ Blank.deadline = 0 /\ Blank.interval = 0
  BY BlankIs
<1>2. <<>> = [i \in 1 .. 0 - 0 |-> 0 + i]
  OBVIOUS
<1>3. Len(<<>>) = 0
  OBVIOUS
<1>. QED  BY <1>1, <1>2, <1>3 DEF EventSound

\* What is true of an event stays true when time passes.
LEMMA SoundLater ==
    ASSUME NEW e \in Keys, NEW r \in Records, NEW g \in Nat, NEW s \in Nat, NEW f \in Nat,
           NEW t \in Nat, NEW u \in Nat, t <= u, EventSound(e, r, g, s, f, t)
    PROVE  EventSound(e, r, g, s, f, u)
<1>1. r.deadline \in Nat /\ r.interval \in Nat
  BY RecordIs
<1>2. ASSUME NEW m \in PeriodsMoved(r.deadline, f, r.interval, t)
      PROVE  m \in PeriodsMoved(r.deadline, f, r.interval, u)
  BY <1>1 DEF PeriodsMoved
<1>. QED  BY <1>2 DEF EventSound

\* A step that changes one event, after a look at the timers (V) or without.
LEMMA OneEvent ==
    ASSUME ValidConstants, DataOK, NEW e \in Keys, NEW V \in [Keys -> Records],
           \A x \in Keys :
                /\ x \notin ToSet(order) => V[x] = Blank
                /\ EventSound(x, V[x], got[x], sent[x], first[x], now),
           NEW r \in Records, NEW s \in Nat, NEW g \in Nat, NEW f \in Nat,
           EventSound(e, r, g, s, f, now),
           ev' = [V EXCEPT ![e] = r], sent' = [sent EXCEPT ![e] = s],
           got' = [got EXCEPT ![e] = g], first' = [first EXCEPT ![e] = f],
           order' \in Seq(Keys), IsInjective(order'),
           ToSet(order) \subseteq ToSet(order') \cup {e},
           e \notin ToSet(order') => r = Blank,
           closed' = closed, ~ closed, now' = now
    PROVE  DataOK'
<1>1. /\ ev \in [Keys -> Records] /\ now \in 1 .. MaxNow
      /\ sent \in [Keys -> Nat] /\ got \in [Keys -> Nat] /\ first \in [Keys -> Nat]
      /\ closed \in BOOLEAN
  BY DEF DataOK
<1>2. /\ ev' \in [Keys -> Records]
      /\ sent' \in [Keys -> Nat] /\ got' \in [Keys -> Nat] /\ first' \in [Keys -> Nat]
  BY <1>1
<1>3. ASSUME NEW x \in Keys
      PROVE  /\ x \notin ToSet(order') => ev'[x] = Blank
             /\ EventSound(x, ev'[x], got'[x], sent'[x], first'[x], now')
  <2>1. CASE x = e
    <3>1. ev'[x] = r /\ got'[x] = g /\ sent'[x] = s /\ first'[x] = f
      BY <1>1, <2>1
    <3>. QED  BY <2>1, <3>1
  <2>2. CASE x # e
    <3>1. ev'[x] = V[x] /\ got'[x] = got[x] /\ sent'[x] = sent[x] /\ first'[x] = first[x]
      BY <1>1, <2>2
    <3>2. x \notin ToSet(order') => x \notin ToSet(order)
      BY <2>2
    <3>. QED  BY <3>1, <3>2
  <2>. QED  BY <2>1, <2>2
<1>. QED  BY <1>1, <1>2, <1>3 DEF DataOK

\* What DataOK says of an unchanged and of a looked-at queue.
LEMMA LooksData ==
    ASSUME ValidConstants, DataOK
    PROVE  /\ TriggerExpiredTimers \in [Keys -> Records]
           /\ \A x \in Keys :
                /\ x \notin ToSet(order) => TriggerExpiredTimers[x] = Blank
                /\ EventSound(x, TriggerExpiredTimers[x], got[x], sent[x], first[x], now)
<1>1. /\ ev \in [Keys -> Records] /\ now \in Nat
      /\ sent \in [Keys -> Nat] /\ got \in [Keys -> Nat] /\ first \in [Keys -> Nat]
  BY DEF DataOK, ValidConstants
<1>2. ASSUME NEW e \in Keys
      PROVE  /\ TriggerExpiredTimers[e] \in Records
             /\ EventSound(e, TriggerExpiredTimers[e], got[e], sent[e], first[e], now)
             /\ e \notin ToSet(order) => TriggerExpiredTimers[e] = Blank
  <2>1. /\ EventSound(e, ev[e], got[e], sent[e], first[e], now)
        /\ e \notin ToSet(order) => ev[e] = Blank
    BY DEF DataOK
  <2>2. got[e] \in Nat /\ sent[e] \in Nat /\ first[e] \in Nat
    BY <1>1
  <2>3. /\ TriggerExpiredTimers[e] \in Records
        /\ EventSound(e, TriggerExpiredTimers[e], got[e], sent[e], first[e], now)
        /\ ev[e] = Blank => TriggerExpiredTimers[e] = Blank
    BY <1>1, <2>1, <2>2, TimersMoved
  <2>. QED  BY <2>1, <2>3
<1>3. TriggerExpiredTimers \in [Keys -> Records]
  <2>1. TriggerExpiredTimers = [e \in Keys |-> TriggerExpiredTimers[e]]
    BY DEF TriggerExpiredTimers
  <2>. QED  BY <1>2, <2>1
<1>. QED  BY <1>2, <1>3

\* The list, with one event more or less.
LEMMA OrderWith ==
    ASSUME DataOK, NEW e \in Keys
    PROVE  /\ e \notin ToSet(order) => /\ Append(order, e) \in Seq(Keys)
                                       /\ IsInjective(Append(order, e))
                                       /\ ToSet(Append(order, e)) = ToSet(order) \cup {e}
           /\ RemoveFirst(order, e) \in Seq(Keys)
           /\ IsInjective(RemoveFirst(order, e))
           /\ ToSet(RemoveFirst(order, e)) = ToSet(order) \ {e}
<1>1. order \in Seq(Keys) /\ IsInjective(order)
  BY DEF DataOK
<1>2. ASSUME NEW q \in Seq(Keys)  PROVE Distinct(q) <=> IsInjective(q)
  <2>1. DOMAIN q = 1 .. Len(q)
    BY LenProperties
  <2>. QED  BY <2>1 DEF Distinct, IsInjective
<1>3. Distinct(order)
  BY <1>1, <1>2
<1>4. Append(order, e) \in Seq(Keys)
  BY <1>1, OneBehind
<1>5. /\ ToSet(Append(order, e)) = ToSet(order) \cup {e}
      /\ e \notin ToSet(order) => Distinct(Append(order, e))
  BY <1>1, <1>3, OneBehindElements
<1>6. /\ RemoveFirst(order, e) \in Seq(Keys)
      /\ Distinct(RemoveFirst(order, e))
      /\ ToSet(RemoveFirst(order, e)) = ToSet(order) \ {e}
  BY <1>1, <1>3, RemoveFirstProperties
<1>. QED  BY <1>2, <1>4, <1>5, <1>6

\* The events that AddEvent is called with.
Addable(e, deadline, interval, triggered) ==
    /\ deadline \in Nat /\ interval \in Nat
    /\ e \notin Timers => deadline = 0 /\ interval = 0
    /\ e \in Timers => 1 <= deadline
    /\ e \in OneShot => interval = 0
    /\ e \notin Queued => triggered = FALSE

\* An event that is added for the first time has sent at most one notification.
LEMMA AddNewData ==
    ASSUME ValidConstants, DataOK, NEW e \in Keys, NEW deadline, NEW interval,
           NEW triggered \in BOOLEAN, Addable(e, deadline, interval, triggered),
           AddNew(e, deadline, interval, triggered)
    PROVE  DataOK'
<1> DEFINE r == [items |-> IF triggered THEN <<1>> ELSE <<>>,
                 deadline |-> deadline, interval |-> interval]
           s == IF triggered THEN 1 ELSE 0
<1>1. /\ ~ closed /\ ~ Listed(e) /\ order' = Append(order, e)
      /\ ev' = [ev EXCEPT ![e] = r] /\ sent' = [sent EXCEPT ![e] = s]
      /\ got' = [got EXCEPT ![e] = 0] /\ first' = [first EXCEPT ![e] = deadline]
      /\ closed' = closed /\ now' = now
  BY DEF AddNew
<1>2. e \notin ToSet(order)
  BY <1>1 DEF Listed, Range, ToSet
<1>3. /\ order' \in Seq(Keys) /\ IsInjective(order')
      /\ ToSet(order') = ToSet(order) \cup {e}
  BY <1>1, <1>2, OrderWith
<1>4. deadline \in Nat /\ interval \in Nat
  BY DEF Addable
<1>5. r.items \in Seq(Nat) /\ s \in Nat /\ Len(r.items) <= 1
  BY EmptySeq
<1>6. r.deadline = deadline /\ r.interval = interval
  OBVIOUS
<1>7. r.items = [i \in 1 .. s - 0 |-> 0 + i]
  <2>1. CASE triggered
    <3>1. r.items = <<1>> /\ s - 0 = 1
      BY <2>1
    <3>2. <<1>> = [i \in 1 .. 1 |-> 0 + i]
      OBVIOUS
    <3> HIDE DEF r, s
    <3>. QED  BY <3>1, <3>2
  <2>2. CASE ~ triggered
    <3>1. r.items = <<>> /\ s - 0 = 0
      BY <2>2
    <3>2. <<>> = [i \in 1 .. 0 |-> 0 + i]
      OBVIOUS
    <3> HIDE DEF r, s
    <3>. QED  BY <3>1, <3>2
  <2>. QED  BY <2>1, <2>2
<1>8. ~ triggered => r.items = <<>> /\ s = 0
  OBVIOUS
<1>9. r \in Records
  BY <1>4, <1>5 DEF Records
<1> HIDE DEF r, s
<1>10. EventSound(e, r, 0, s, deadline, now)
  <2>0. e \notin Timers => deadline = 0 /\ interval = 0
    BY DEF Addable
  <2>1. e \in Queued => /\ r.deadline = 0 /\ r.interval = 0
                        /\ 0 <= s /\ r.items = [i \in 1 .. s - 0 |-> 0 + i]
    BY <1>5, <1>6, <1>7, <2>0 DEF ValidConstants
  <2>2. e \in User => /\ r.deadline = 0 /\ r.interval = 0 /\ r.items = <<>> /\ s = 0
    BY <1>6, <1>8, <2>0 DEF Addable, ValidConstants
  <2>3. e \in OneShot => r.interval = 0
    BY <1>6 DEF Addable
  <2>4. ASSUME e \in Periodic, r.interval # 0
        PROVE  /\ 1 <= deadline
               /\ \E m \in PeriodsMoved(r.deadline, deadline, r.interval, now) :
                    0 + Reports(r.items) = s + m
    <3>1. 1 <= deadline /\ s = 0 /\ r.items = <<>>
      BY <1>8, <2>4 DEF Addable, Timers, ValidConstants
    <3>2. 0 * r.interval = 0
      BY <1>4, <1>6
    <3>3. 0 \in PeriodsMoved(r.deadline, deadline, r.interval, now)
      BY <1>4, <1>6, <3>2 DEF PeriodsMoved
    <3>4. 0 + Reports(r.items) = s + 0
      BY <3>1 DEF Reports
    <3>. QED  BY <3>1, <3>3, <3>4
  <2>. QED  BY <1>5, <2>1, <2>2, <2>3, <2>4 DEF EventSound
<1>11. /\ ev \in [Keys -> Records]
       /\ \A x \in Keys :
                /\ x \notin ToSet(order) => ev[x] = Blank
                /\ EventSound(x, ev[x], got[x], sent[x], first[x], now)
  BY DEF DataOK
<1>12. /\ ToSet(order) \subseteq ToSet(order') \cup {e}
       /\ e \notin ToSet(order') => r = Blank
  BY <1>3
<1>. QED  BY <1>1, <1>3, <1>4, <1>5, <1>9, <1>10, <1>11, <1>12, OneEvent

\* What a timer holds when it is looked at is what it has not reported of its periods.
LEMMA UnreadIs ==
    ASSUME ValidConstants, DataOK, NEW e \in Timers
    PROVE  PeriodsSoFar(e) - got[e] = Reports(TriggerExpiredTimers[e].items)
<1> DEFINE r == TriggerExpiredTimers[e]
           k == ev[e].interval
<1>1. /\ now \in Nat /\ ev \in [Keys -> Records] /\ e \in Keys
      /\ got[e] \in Nat /\ sent[e] \in Nat /\ first[e] \in Nat
      /\ EventSound(e, ev[e], got[e], sent[e], first[e], now)
  BY DEF DataOK, ValidConstants, Keys
<1>2. /\ r \in Records /\ EventSound(e, r, got[e], sent[e], first[e], now)
      /\ r.interval = ev[e].interval
      /\ e \in Periodic /\ r.interval # 0 => now < r.deadline
  BY <1>1, TimersMoved
<1>3. Reports(r.items) \in Nat /\ r.deadline \in Nat /\ r.interval \in Nat
  BY <1>2, RecordIs
<1>4. e \in OneShot => r.interval = 0
  BY <1>2 DEF EventSound
<1>5. PeriodsSoFar(e) = IF k = 0 THEN got[e] + Reports(r.items) ELSE sent[e] + Due(first[e], k)
  BY DEF PeriodsSoFar
<1> HIDE DEF r, k
<1>6. r.interval = k
  BY <1>2 DEF k
<1>7. CASE k = 0
  <2>1. PeriodsSoFar(e) - got[e] = Reports(r.items)
    BY <1>1, <1>3, <1>5, <1>7
  <2>. QED  BY <2>1 DEF r
<1>8. CASE k # 0
  <2>1. e \in Periodic
    BY <1>4, <1>6, <1>8 DEF Timers
  <2>2. \E m \in PeriodsMoved(r.deadline, first[e], r.interval, now) :
            got[e] + Reports(r.items) = sent[e] + m
    BY <1>2, <1>6, <1>8, <2>1 DEF EventSound
  <2>3. PICK m \in PeriodsMoved(r.deadline, first[e], k, now) :
            got[e] + Reports(r.items) = sent[e] + m
    BY <1>6, <2>2
  <2>4. m \in Nat
    BY DEF PeriodsMoved
  <2>5. Due(first[e], k) = Due(r.deadline, k) + m
    <3>1. k \in Nat \ {0}
      BY <1>3, <1>6, <1>8
    <3>. QED  BY <1>1, <1>3, <3>1, DueMoves
  <2>6. Due(r.deadline, k) = 0
    <3>1. r.deadline > now
      BY <1>1, <1>2, <1>3, <1>6, <1>8, <2>1
    <3>. QED  BY <3>1 DEF Due
  <2>7. PeriodsSoFar(e) = sent[e] + m
    BY <1>5, <1>8, <2>4, <2>5, <2>6
  <2>8. PeriodsSoFar(e) - got[e] = Reports(r.items)
    BY <1>1, <1>3, <2>3, <2>4, <2>7
  <2>. QED  BY <2>8 DEF r
<1>. QED  BY <1>7, <1>8

\* An event that is added again keeps what it holds unread; a timer counts from zero again.
LEMMA AddAgainData ==
    ASSUME ValidConstants, DataOK, NEW e \in Keys, NEW deadline, NEW interval,
           NEW triggered, Addable(e, deadline, interval, triggered),
           AddAgain(e, deadline, interval)
    PROVE  DataOK'
<1> DEFINE T == TriggerExpiredTimers
           r == [items |-> T[e].items, deadline |-> deadline, interval |-> interval]
           s == IF e \in Timers THEN PeriodsSoFar(e) - got[e] ELSE sent[e]
           g == IF e \in Timers THEN 0 ELSE got[e]
           f == IF e \in Timers THEN deadline ELSE first[e]
<1>1. /\ T \in [Keys -> Records]
      /\ \A x \in Keys :
            /\ x \notin ToSet(order) => T[x] = Blank
            /\ EventSound(x, T[x], got[x], sent[x], first[x], now)
  BY LooksData
<1>2. /\ order \in Seq(Keys) /\ IsInjective(order) /\ now \in Nat
      /\ sent \in [Keys -> Nat] /\ got \in [Keys -> Nat] /\ first \in [Keys -> Nat]
  BY DEF DataOK, ValidConstants
<1>3. deadline \in Nat /\ interval \in Nat
  BY DEF Addable
<1>4. /\ T[e].items \in Seq(Nat) /\ Reports(T[e].items) \in Nat
  BY <1>1, RecordIs
<1>5. r \in Records /\ r.items = T[e].items /\ r.deadline = deadline /\ r.interval = interval
  BY <1>3, <1>4 DEF Records
<1>6. e \in Timers => s = Reports(r.items)
  <2>1. SUFFICES ASSUME e \in Timers PROVE PeriodsSoFar(e) - got[e] = Reports(T[e].items)
    BY <1>5
  <2>. QED  BY <2>1, UnreadIs
<1>7. s \in Nat /\ g \in Nat /\ f \in Nat
  BY <1>2, <1>3, <1>4, <1>5, <1>6
<1>8. /\ ~ closed /\ Listed(e) /\ closed' = closed /\ now' = now /\ order' = order
      /\ ev' = [T EXCEPT ![e] = [items |-> @.items, deadline |-> deadline, interval |-> interval]]
      /\ Rearmed(e, deadline)
  BY DEF AddAgain
<1>9. ev' = [T EXCEPT ![e] = r]
  BY <1>8
<1>10. /\ sent' = [sent EXCEPT ![e] = s] /\ got' = [got EXCEPT ![e] = g]
       /\ first' = [first EXCEPT ![e] = f]
  <2>1. CASE e \in Timers
    BY <1>8, <2>1 DEF Rearmed
  <2>2. CASE e \notin Timers
    BY <1>2, <1>8, <2>2 DEF Rearmed, history
  <2>. QED  BY <2>1, <2>2
<1>11. e \in ToSet(order)
  BY <1>8 DEF Listed, Range, ToSet
<1>t. EventSound(e, T[e], got[e], sent[e], first[e], now)
  BY <1>1
<1>d. /\ e \in Timers => e \notin Queued /\ e \notin User
      /\ e \in Queued => e \notin Timers
      /\ e \in User => e \notin Timers
      /\ e \in Periodic => e \in Timers
      /\ e \in OneShot => e \in Timers
  BY DEF ValidConstants, Timers
<1>v. /\ e \notin Timers => g = got[e] /\ s = sent[e] /\ deadline = 0 /\ interval = 0
      /\ e \in Timers => g = 0 /\ f = deadline /\ 1 <= deadline
      /\ e \in OneShot => interval = 0
  BY DEF Addable
<1> HIDE DEF T, r, s, g, f
<1>12. EventSound(e, r, g, s, f, now)
  <2>1. CASE e \in Timers
    <3>1. e \in Periodic => Len(r.items) <= 1
      BY <1>5, <1>t DEF EventSound
    <3>2. ASSUME e \in Periodic, r.interval # 0
          PROVE  /\ 1 <= f
                 /\ \E m \in PeriodsMoved(r.deadline, f, r.interval, now) :
                        g + Reports(r.items) = s + m
      <4>1. 0 * r.interval = 0
        BY <1>3, <1>5
      <4>2. 0 \in PeriodsMoved(r.deadline, f, r.interval, now)
        BY <1>3, <1>5, <1>v, <2>1, <4>1 DEF PeriodsMoved
      <4>3. g + Reports(r.items) = s + 0
        BY <1>4, <1>5, <1>6, <1>7, <1>v, <2>1
      <4>. QED  BY <1>v, <2>1, <4>2, <4>3
    <3>. QED  BY <1>5, <1>d, <1>v, <2>1, <3>1, <3>2 DEF EventSound
  <2>2. CASE e \notin Timers
    BY <1>5, <1>d, <1>t, <1>v, <2>2 DEF EventSound
  <2>. QED  BY <2>1, <2>2
<1>13. /\ order' \in Seq(Keys) /\ IsInjective(order')
       /\ ToSet(order) \subseteq ToSet(order') \cup {e}
       /\ e \notin ToSet(order') => r = Blank
  BY <1>2, <1>8, <1>11
<1>14. ~ closed /\ closed' = closed /\ now' = now /\ r \in Records
  BY <1>5, <1>8
<1>. QED  BY <1>1, <1>7, <1>9, <1>10, <1>12, <1>13, <1>14, OneEvent

\* A notification joins a queued event and replaces that of a user event.
LEMMA TriggerData ==
    ASSUME ValidConstants, DataOK, NEW e \in Keys, TriggerEvent(e)
    PROVE  DataOK'
<1> DEFINE s == sent[e] + 1
           x == IF e \in User THEN <<s>> ELSE Append(ev[e].items, s)
           r == [items |-> x, deadline |-> ev[e].deadline, interval |-> ev[e].interval]
<1>1. /\ order \in Seq(Keys) /\ IsInjective(order) /\ now \in Nat
      /\ ev \in [Keys -> Records]
      /\ sent \in [Keys -> Nat] /\ got \in [Keys -> Nat] /\ first \in [Keys -> Nat]
      /\ \A y \in Keys :
            /\ y \notin ToSet(order) => ev[y] = Blank
            /\ EventSound(y, ev[y], got[y], sent[y], first[y], now)
  BY DEF DataOK, ValidConstants
<1>2. /\ ev[e].items \in Seq(Nat) /\ ev[e].deadline \in Nat /\ ev[e].interval \in Nat
      /\ ev[e] = [items |-> ev[e].items, deadline |-> ev[e].deadline,
                  interval |-> ev[e].interval]
      /\ Len(ev[e].items) \in Nat
  BY <1>1, RecordIs
<1>3. /\ ~ closed /\ Listed(e) /\ closed' = closed /\ now' = now /\ order' = order
      /\ e \in User \cup Queued
      /\ got' = got /\ first' = first /\ sent' = [sent EXCEPT ![e] = @ + 1]
      /\ ev' = [ev EXCEPT ![e].items = IF e \in User THEN <<sent'[e]>> ELSE Append(@, sent'[e])]
  BY DEF TriggerEvent
<1>4. s \in Nat /\ sent' = [sent EXCEPT ![e] = s] /\ sent'[e] = s
  BY <1>1, <1>3
<1>5. got' = [got EXCEPT ![e] = got[e]] /\ first' = [first EXCEPT ![e] = first[e]]
  BY <1>1, <1>3
<1> HIDE DEF s
<1>6. x \in Seq(Nat) /\ x # <<>>
  <2>1. CASE e \in User
    BY <1>4, <2>1
  <2>2. CASE e \notin User
    <3>1. /\ Append(ev[e].items, s) \in Seq(Nat)
          /\ Len(Append(ev[e].items, s)) = Len(ev[e].items) + 1
      BY <1>2, <1>4, OneBehind
    <3>2. Append(ev[e].items, s) # <<>>
      BY <1>2, <3>1, EmptySeq
    <3>. QED  BY <2>2, <3>1, <3>2
  <2>. QED  BY <2>1, <2>2
<1>7. ev' = [ev EXCEPT ![e] = [ev[e] EXCEPT !.items = x]]
  BY <1>1, <1>3, <1>4
<1>8. ev' = [ev EXCEPT ![e] = r]
  <2> HIDE DEF x
  <2>1. [ev[e] EXCEPT !.items = x] = r
    BY <1>2
  <2>. QED  BY <1>7, <2>1
<1>9. r \in Records /\ r.items = x /\ r.deadline = ev[e].deadline /\ r.interval = ev[e].interval
  BY <1>2, <1>6 DEF Records
<1>10. e \in ToSet(order)
  BY <1>3 DEF Listed, Range, ToSet
<1>11. /\ e \notin Periodic /\ e \notin OneShot
       /\ e \in User => e \notin Queued
  BY <1>3 DEF ValidConstants, Timers
<1>12. EventSound(e, r, got[e], s, first[e], now)
  <2>1. EventSound(e, ev[e], got[e], sent[e], first[e], now)
    BY <1>1
  <2>2. CASE e \in User
    <3>1. x = <<s>> /\ <<s>> # <<>>
      BY <2>2
    <3>2. ev[e].deadline = 0 /\ ev[e].interval = 0
      BY <2>1, <2>2 DEF EventSound
    <3> HIDE DEF x, r
    <3>. QED  BY <1>9, <1>11, <2>2, <3>1, <3>2 DEF EventSound
  <2>3. CASE e \notin User
    <3>1. /\ e \in Queued /\ ev[e].deadline = 0 /\ ev[e].interval = 0
          /\ got[e] <= sent[e]
          /\ ev[e].items = [i \in 1 .. sent[e] - got[e] |-> got[e] + i]
      BY <1>3, <2>1, <2>3 DEF EventSound
    <3>2. x = [i \in 1 .. s - got[e] |-> got[e] + i]
      <4> DEFINE old == ev[e].items
                 n == sent[e] - got[e]
      <4>1. n \in Nat /\ sent[e] \in Nat /\ got[e] \in Nat
        BY <1>1, <3>1
      <4>2. Len(old) = n
        <5>1. DOMAIN old = 1 .. n /\ DOMAIN old = 1 .. Len(old)
          BY <1>2, <3>1, LenProperties
        <5>2. 1 .. Len(old) = 1 .. n
          BY <5>1
        <5> HIDE DEF old, n
        <5>3. Len(old) \in Nat
          BY <1>2 DEF old
        <5>. QED  BY <4>1, <5>2, <5>3, IntervalEnd
      <4>3. /\ Append(old, s) \in Seq(Nat) /\ Len(Append(old, s)) = n + 1
            /\ \A i \in 1 .. n : Append(old, s)[i] = old[i]
            /\ Append(old, s)[n + 1] = s
        BY <1>2, <1>4, <4>2, OneBehind
      <4>4. \A i \in 1 .. n : old[i] = got[e] + i
        BY <3>1
      <4>5. x = Append(old, s)
        BY <2>3
      <4> DEFINE y == Append(old, s)
      <4>6. y = [i \in 1 .. n + 1 |-> y[i]]
        <5>1. y \in Seq(Nat) /\ Len(y) = n + 1
          BY <4>3
        <5> HIDE DEF y
        <5>. QED  BY <5>1, LenProperties
      <4>7. n + 1 = s - got[e]
        BY <4>1 DEF s
      <4>8. ASSUME NEW i \in 1 .. n + 1  PROVE y[i] = got[e] + i
        <5>1. CASE i = n + 1
          <6>1. y[i] = s
            BY <4>3, <5>1
          <6>2. got[e] + (n + 1) = s
            BY <4>1 DEF s
          <6>. QED  BY <5>1, <6>1, <6>2
        <5>2. CASE i # n + 1
          <6>1. i \in 1 .. n
            BY <4>1, <5>2
          <6>. QED  BY <4>3, <4>4, <6>1
        <5>. QED  BY <5>1, <5>2
      <4> HIDE DEF y, n, old
      <4>9. y = [i \in 1 .. n + 1 |-> got[e] + i]
        BY <4>6, <4>8
      <4>. QED  BY <4>5, <4>7, <4>9 DEF y
    <3>3. got[e] <= s
      BY <1>1, <3>1 DEF s
    <3> HIDE DEF x, r
    <3>. QED  BY <1>9, <1>11, <2>3, <3>1, <3>2, <3>3 DEF EventSound
  <2>. QED  BY <2>2, <2>3
<1>13. /\ ToSet(order) \subseteq ToSet(order') \cup {e}
       /\ e \notin ToSet(order') => r = Blank
       /\ order' \in Seq(Keys) /\ IsInjective(order')
       /\ got[e] \in Nat /\ first[e] \in Nat
  BY <1>1, <1>3, <1>10
<1>14. /\ ~ closed /\ closed' = closed /\ now' = now /\ r \in Records
       /\ sent' = [sent EXCEPT ![e] = s] /\ s \in Nat
       /\ ev \in [Keys -> Records]
       /\ \A y \in Keys :
            /\ y \notin ToSet(order) => ev[y] = Blank
            /\ EventSound(y, ev[y], got[y], sent[y], first[y], now)
  BY <1>1, <1>3, <1>4, <1>9
<1> HIDE DEF x, r
<1>. QED  BY <1>5, <1>8, <1>12, <1>13, <1>14, OneEvent

\* An event that is deleted loses what it holds.
LEMMA DeleteData ==
    ASSUME ValidConstants, DataOK, NEW e \in Keys, DeleteEvent(e)
    PROVE  DataOK'
<1>1. /\ ~ closed /\ closed' = closed /\ now' = now /\ order' = RemoveFirst(order, e)
      /\ ev' = [ev EXCEPT ![e] = Blank] /\ sent' = [sent EXCEPT ![e] = 0]
      /\ got' = [got EXCEPT ![e] = 0] /\ first' = [first EXCEPT ![e] = 0]
  BY DEF DeleteEvent
<1>2. /\ order' \in Seq(Keys) /\ IsInjective(order')
      /\ ToSet(order) \subseteq ToSet(order') \cup {e}
  BY <1>1, OrderWith
<1>3. /\ ev \in [Keys -> Records] /\ now \in Nat
      /\ \A y \in Keys :
            /\ y \notin ToSet(order) => ev[y] = Blank
            /\ EventSound(y, ev[y], got[y], sent[y], first[y], now)
  BY DEF DataOK, ValidConstants
<1>4. EventSound(e, Blank, 0, 0, 0, now) /\ Blank \in Records
  BY <1>3, BlankSound, BlankIs
<1>. QED  BY <1>1, <1>2, <1>3, <1>4, OneEvent

\* So do all of them with the queue.
LEMMA CloseData ==
    ASSUME ValidConstants, DataOK, Close
    PROVE  DataOK'
<1>1. /\ closed' = TRUE /\ order' = <<>> /\ ev' = [e \in Keys |-> Blank] /\ now' = now
      /\ sent' = [e \in Keys |-> 0] /\ got' = [e \in Keys |-> 0]
      /\ first' = [e \in Keys |-> 0]
  BY DEF Close
<1>2. now \in Nat /\ now \in 1 .. MaxNow
  BY DEF DataOK, ValidConstants
<1>3. order' \in Seq(Keys) /\ IsInjective(order')
  <2>1. <<>> \in Seq(Keys) /\ IsInjective(<<>>)
    BY EmptySeq DEF IsInjective
  <2>. QED  BY <1>1, <2>1
<1>4. ASSUME NEW e \in Keys
      PROVE  /\ ev'[e] = Blank
             /\ EventSound(e, ev'[e], got'[e], sent'[e], first'[e], now')
  <2>1. ev'[e] = Blank /\ got'[e] = 0 /\ sent'[e] = 0 /\ first'[e] = 0 /\ now' = now
    BY <1>1
  <2>. QED  BY <1>2, <2>1, BlankSound
<1>5. /\ ev' \in [Keys -> Records] /\ sent' \in [Keys -> Nat] /\ got' \in [Keys -> Nat]
      /\ first' \in [Keys -> Nat]
  BY <1>1, BlankIs
<1>. QED  BY <1>1, <1>2, <1>3, <1>4, <1>5 DEF DataOK

\* What a wait takes out of the queue leaves it sound.
LEMMA TakesData ==
    ASSUME ValidConstants, QueueInv, NEW num \in Nat \ {0}, ~ closed,
           Takes(GetTriggeredEvents(num))
    PROVE  DataOK'
<1> DEFINE b == GetTriggeredEvents(num)
<1>1. BatchSound(b)
  BY BatchOf
<1>2. /\ order' = b.order /\ ev' = b.ev /\ got' = b.got
      /\ closed' = closed /\ now' = now /\ sent' = sent /\ first' = first
  BY DEF Takes
<1> HIDE DEF b
<1>3. /\ b.order \in Seq(Keys) /\ b.ev \in [Keys -> Records] /\ b.got \in [Keys -> Nat]
      /\ Distinct(b.order)
      /\ \A e \in Keys :
            /\ e \notin ToSet(b.order) => b.ev[e] = Blank
            /\ EventSound(e, b.ev[e], b.got[e], sent[e], first[e], now)
  BY <1>1 DEF BatchSound, Batches
<1>4. IsInjective(b.order)
  <2>1. DOMAIN b.order = 1 .. Len(b.order)
    BY <1>3, LenProperties
  <2>. QED  BY <1>3, <2>1 DEF Distinct, IsInjective
<1>5. /\ now \in 1 .. MaxNow /\ sent \in [Keys -> Nat] /\ first \in [Keys -> Nat]
      /\ closed \in BOOLEAN
  BY QueueInvIs DEF DataOK
<1>. QED  BY <1>2, <1>3, <1>4, <1>5 DEF DataOK

\* Periods only pass.
LEMMA TickData ==
    ASSUME ValidConstants, DataOK, Tick
    PROVE  DataOK'
<1>1. /\ now < MaxNow /\ now' = now + 1 /\ order' = order /\ ev' = ev /\ closed' = closed
      /\ sent' = sent /\ got' = got /\ first' = first
  BY DEF Tick, history
<1>2. /\ order \in Seq(Keys) /\ IsInjective(order)
      /\ ev \in [Keys -> Records]
      /\ closed \in BOOLEAN /\ (closed => order = <<>>)
      /\ now \in 1 .. MaxNow /\ now \in Nat /\ MaxNow \in Nat
      /\ sent \in [Keys -> Nat] /\ got \in [Keys -> Nat] /\ first \in [Keys -> Nat]
  BY DEF DataOK, ValidConstants
<1>3. ASSUME NEW e \in Keys
      PROVE  /\ e \notin ToSet(order) => ev[e] = Blank
             /\ EventSound(e, ev[e], got[e], sent[e], first[e], now + 1)
  <2>1. /\ e \notin ToSet(order) => ev[e] = Blank
        /\ EventSound(e, ev[e], got[e], sent[e], first[e], now)
    BY DEF DataOK
  <2>2. /\ ev[e] \in Records /\ got[e] \in Nat /\ sent[e] \in Nat /\ first[e] \in Nat
        /\ now + 1 \in Nat /\ now <= now + 1
    BY <1>2
  <2>3. EventSound(e, ev[e], got[e], sent[e], first[e], now + 1)
    BY <1>2, <2>1, <2>2, SoundLater
  <2>. QED  BY <2>1, <2>3
<1>4. now' \in 1 .. MaxNow
  BY <1>1, <1>2
<1>. QED  BY <1>1, <1>2, <1>3, <1>4 DEF DataOK

\* The cases of QueueNext, with what the calls of AddEvent have in common.
LEMMA NextIs ==
    ASSUME ValidConstants, QueueInv, QueueNext
    PROVE  \/ \E e \in Keys, triggered \in BOOLEAN : \E deadline, interval :
                Addable(e, deadline, interval, triggered)
                /\ AddEvent(e, deadline, interval, triggered)
           \/ \E e \in Keys : TriggerEvent(e) \/ DeleteEvent(e)
           \/ Close \/ Tick
           \/ \E num \in Nat \ {0} : Poll(num)
           \/ \E w \in Waiters :
                \/ SleeperWakes(w) \/ Resume(w)
                \/ \E num \in Nums, micros \in Timeouts : WaitForEvents(w, num, micros)
<1> USE DEF QueueNext
<1>1. ASSUME NEW e \in Keys, AddUserEvent(e)
      PROVE  Addable(e, 0, 0, FALSE) /\ AddEvent(e, 0, 0, FALSE)
  BY <1>1 DEF AddUserEvent, Addable, ValidConstants, Timers
<1>2. ASSUME NEW e \in Keys, NEW triggered \in BOOLEAN, AddQueuedEvent(e, triggered)
      PROVE  Addable(e, 0, 0, triggered) /\ AddEvent(e, 0, 0, triggered)
  BY <1>2 DEF AddQueuedEvent, Addable, ValidConstants, Timers
<1>3. ASSUME NEW e \in Keys, NEW delay \in Delays, AddTimerEvent(e, delay)
      PROVE  \E deadline, interval :
                Addable(e, deadline, interval, FALSE) /\ AddEvent(e, deadline, interval, FALSE)
  <2> DEFINE k == IF e \in Periodic THEN delay ELSE 0
  <2>1. e \in Timers /\ AddEvent(e, now + delay, k, FALSE)
    BY <1>3 DEF AddTimerEvent
  <2>2. delay \in Nat /\ now \in 1 .. MaxNow /\ MaxNow \in Nat
    BY QueueInvIs DEF DataOK, ValidConstants
  <2>3. now + delay \in Nat /\ 1 <= now + delay /\ k \in Nat
    BY <2>2
  <2>4. e \in OneShot => k = 0
    BY DEF ValidConstants
  <2>5. Addable(e, now + delay, k, FALSE)
    BY <2>1, <2>3, <2>4 DEF Addable
  <2>. QED  BY <2>1, <2>5
<1>4. \A num \in Nums : num \in Nat \ {0}
  BY DEF ValidConstants
<1>. QED  BY <1>1, <1>2, <1>3, <1>4

\* Signal wakes one sleeper, if there is one.
LEMMA SignalIs ==
    ASSUME waiter \in [Waiters -> {"out", "asleep", "woken"}], Signal
    PROVE  /\ waiter' \in [Waiters -> {"out", "asleep", "woken"}]
           /\ \/ waiter' = waiter /\ \A w \in Waiters : waiter[w] # "asleep"
              \/ \E w \in Waiters : /\ waiter[w] = "asleep"
                                    /\ waiter' = [waiter EXCEPT ![w] = "woken"]
<1> DEFINE asleep == {w \in Waiters : waiter[w] = "asleep"}
<1>1. CASE asleep = {}
  BY <1>1 DEF Signal
<1>2. CASE asleep # {}
  <2>1. PICK w \in asleep : waiter' = [waiter EXCEPT ![w] = "woken"]
    BY <1>2 DEF Signal
  <2>. QED  BY <2>1
<1>. QED  BY <1>1, <1>2

\* The alarm of a sleeper is the earliest of the times it has to look again.
LEMMA LeastOf ==
    ASSUME NEW S \in SUBSET Nat, S # {}
    PROVE  LET m == CHOOSE t \in S : \A u \in S : t <= u
           IN  m \in S /\ \A u \in S : m <= u
<1>1. IsWellFoundedOn(OpToRel(<, Nat), Nat)
  BY NatLessThanWellFounded
<1>2. PICK m \in S : \A k \in S : ~ (<<k, m>> \in OpToRel(<, Nat))
  <2>1. S \subseteq Nat
    OBVIOUS
  <2>. QED  BY <1>1, <2>1, WFMin
<1>3. \A k \in S : k \in Nat /\ m \in Nat /\ ~ (k < m)
  BY <1>2 DEF OpToRel
<1>4. \A k \in S : m <= k
  BY <1>3
<1>. QED  BY <1>4

\* A wait comes back at the next deadline of the list, or sooner.
LEMMA NextAlarmIs ==
    ASSUME NEW b \in Batches, NEW until \in Nat
    PROVE  /\ NextAlarm(b, until) \in Nat
           /\ \A e \in ToSet(b.order) : b.ev[e].deadline # 0 =>
                /\ NextAlarm(b, until) # 0
                /\ NextAlarm(b, until) <= b.ev[e].deadline
<1> DEFINE times == ({b.ev[e].deadline : e \in Range(b.order)} \cup {until}) \ {0}
<1>1. /\ b.order \in Seq(Keys) /\ b.ev \in [Keys -> Records]
      /\ Range(b.order) = ToSet(b.order)
  BY DEF Batches, Range, ToSet
<1>2. ToSet(b.order) \subseteq Keys
  BY <1>1, LenProperties DEF ToSet
<1>3. \A e \in Keys : b.ev[e].deadline \in Nat
  BY <1>1, RecordIs
<1>4. times \in SUBSET Nat
  BY <1>1, <1>2, <1>3
<1>5. \A e \in ToSet(b.order) : b.ev[e].deadline # 0 => b.ev[e].deadline \in times
  BY <1>1
<1>6. 0 \notin times
  OBVIOUS
<1>7. NextAlarm(b, until)
        = IF times = {} THEN 0 ELSE CHOOSE t \in times : \A u \in times : t <= u
  BY DEF NextAlarm
<1> HIDE DEF times
<1>8. CASE times = {}
  BY <1>5, <1>7, <1>8
<1>9. CASE times # {}
  <2>1. /\ NextAlarm(b, until) \in times
        /\ \A u \in times : NextAlarm(b, until) <= u
    BY <1>4, <1>7, <1>9, LeastOf
  <2>. QED  BY <1>4, <1>5, <1>6, <2>1
<1>. QED  BY <1>8, <1>9

\* A thread that sleeps has a time to wake at.
LEMMA SleepThreads ==
    ASSUME ValidConstants, QueueInv, NEW w \in Waiters, NEW until \in Nat, Sleep(w, until)
    PROVE  /\ waiter' \in [Waiters -> {"out", "asleep", "woken"}]
           /\ alarm' \in [Waiters -> Nat]
<1>1. /\ waiter \in [Waiters -> {"out", "asleep", "woken"}]
      /\ alarm \in [Waiters -> Nat]
  BY QueueInvIs DEF ThreadsOK
<1>2. GetTriggeredEvents(1) \in Batches
  BY BatchOf DEF BatchSound
<1>3. NextAlarm(GetTriggeredEvents(1), until) \in Nat
  BY <1>2, NextAlarmIs
<1>4. /\ waiter' = [waiter EXCEPT ![w] = "asleep"]
      /\ alarm' = [alarm EXCEPT ![w] = NextAlarm(GetTriggeredEvents(1), until)]
  BY DEF Sleep
<1>. QED  BY <1>1, <1>3, <1>4

\* A call that is over asks for nothing.
LEMMA LeavesThreads ==
    ASSUME ValidConstants, ThreadsOK, NEW w \in Waiters, Leaves(w)
    PROVE  ThreadsOK'
<1>1. NoWait \in [num : Nums \cup {1}, until : 0 .. MaxNow]
  BY DEF NoWait, ValidConstants
<1>. QED  BY <1>1 DEF ThreadsOK, Leaves

\* A new queue has no events.
LEMMA QueueInitInv ==
    ASSUME ValidConstants, QueueInit
    PROVE  QueueInv
<1>1. /\ order = <<>> /\ ev = [e \in Keys |-> Blank] /\ closed = FALSE
      /\ waiter = [w \in Waiters |-> "out"] /\ asked = [w \in Waiters |-> NoWait]
      /\ alarm = [w \in Waiters |-> 0] /\ now = 1
      /\ sent = [e \in Keys |-> 0] /\ got = [e \in Keys |-> 0] /\ first = [e \in Keys |-> 0]
  BY DEF QueueInit
<1>2. NoWait \in [num : Nums \cup {1}, until : 0 .. MaxNow]
  BY DEF NoWait, ValidConstants
<1>3. ThreadsOK
  BY <1>1, <1>2 DEF ThreadsOK
<1>4. order \in Seq(Keys) /\ IsInjective(order)
  <2>1. <<>> \in Seq(Keys) /\ IsInjective(<<>>)
    BY EmptySeq DEF IsInjective
  <2>. QED  BY <1>1, <2>1
<1>5. ASSUME NEW e \in Keys
      PROVE  /\ ev[e] = Blank
             /\ EventSound(e, ev[e], got[e], sent[e], first[e], now)
  <2>1. ev[e] = Blank /\ got[e] = 0 /\ sent[e] = 0 /\ first[e] = 0 /\ now \in Nat
    BY <1>1
  <2>. QED  BY <2>1, BlankSound
<1>6. now \in 1 .. MaxNow
  BY <1>1 DEF ValidConstants
<1>7. /\ ev \in [Keys -> Records] /\ sent \in [Keys -> Nat] /\ got \in [Keys -> Nat]
      /\ first \in [Keys -> Nat]
  BY <1>1, BlankIs
<1>8. DataOK
  BY <1>1, <1>4, <1>5, <1>6, <1>7 DEF DataOK
<1>. QED  BY <1>3, <1>8, QueueInvIs

\* Every step keeps the invariant.
LEMMA QueueStep ==
    ASSUME ValidConstants, QueueInv, [QueueNext]_queueVars
    PROVE  QueueInv'
<1>1. DataOK /\ ThreadsOK
  BY QueueInvIs
<1>2. /\ waiter \in [Waiters -> {"out", "asleep", "woken"}]
      /\ asked \in [Waiters -> [num : Nums \cup {1}, until : 0 .. MaxNow]]
      /\ alarm \in [Waiters -> Nat]
      /\ now \in 1 .. MaxNow /\ MaxNow \in Nat
  BY <1>1 DEF ThreadsOK, DataOK, ValidConstants
<1>3. SUFFICES DataOK' /\ ThreadsOK'
  BY QueueInvIs, PTL
<1>4. ASSUME NEW e \in Keys, NEW triggered \in BOOLEAN, NEW deadline, NEW interval,
             Addable(e, deadline, interval, triggered),
             AddEvent(e, deadline, interval, triggered)
      PROVE  DataOK' /\ ThreadsOK'
  <2>1. DataOK'
    BY <1>1, <1>4, AddNewData, AddAgainData DEF AddEvent
  <2>2. Signal /\ asked' = asked /\ alarm' = alarm
    BY <1>4 DEF AddEvent, AddNew, AddAgain
  <2>3. waiter' \in [Waiters -> {"out", "asleep", "woken"}]
    BY <1>2, <2>2, SignalIs
  <2>. QED  BY <1>2, <2>1, <2>2, <2>3 DEF ThreadsOK
<1>5. ASSUME NEW e \in Keys, TriggerEvent(e)  PROVE DataOK' /\ ThreadsOK'
  <2>1. DataOK'
    BY <1>1, <1>5, TriggerData
  <2>2. Signal /\ asked' = asked /\ alarm' = alarm
    BY <1>5 DEF TriggerEvent, Tells
  <2>3. waiter' \in [Waiters -> {"out", "asleep", "woken"}]
    BY <1>2, <2>2, SignalIs
  <2>. QED  BY <1>2, <2>1, <2>2, <2>3 DEF ThreadsOK
<1>6. ASSUME NEW e \in Keys, DeleteEvent(e)  PROVE DataOK' /\ ThreadsOK'
  <2>1. DataOK'
    BY <1>1, <1>6, DeleteData
  <2>. QED  BY <1>2, <1>6, <2>1 DEF ThreadsOK, DeleteEvent
<1>7. CASE Close
  <2>1. DataOK'
    BY <1>1, <1>7, CloseData
  <2>2. /\ waiter' = [w \in Waiters |-> IF waiter[w] = "asleep" THEN "woken" ELSE waiter[w]]
        /\ asked' = asked /\ alarm' = alarm
    BY <1>7 DEF Close
  <2>. QED  BY <1>2, <2>1, <2>2 DEF ThreadsOK
<1>8. CASE Tick
  <2>1. DataOK'
    BY <1>1, <1>8, TickData
  <2>. QED  BY <1>2, <1>8, <2>1 DEF ThreadsOK, Tick
<1>9. ASSUME NEW num \in Nat \ {0}, Poll(num)  PROVE DataOK' /\ ThreadsOK'
  <2>1. DataOK'
    BY <1>9, TakesData DEF Poll
  <2>. QED  BY <1>2, <1>9, <2>1 DEF ThreadsOK, Poll
<1>10. ASSUME NEW w \in Waiters, NEW num \in Nums, NEW micros \in Timeouts,
              WaitForEvents(w, num, micros)
       PROVE  DataOK' /\ ThreadsOK'
  <2> DEFINE until == IF micros = 0 THEN 0 ELSE now + micros
  <2>1. /\ ~ closed /\ until <= MaxNow /\ Sleep(w, until)
        /\ asked' = [asked EXCEPT ![w] = [num |-> num, until |-> until]]
    BY <1>10 DEF WaitForEvents
  <2>2. micros \in Nat
    BY DEF ValidConstants
  <2>3. until \in Nat /\ until \in 0 .. MaxNow
    BY <1>2, <2>1, <2>2
  <2> HIDE DEF until
  <2>4. DataOK'
    <3>1. Takes(GetTriggeredEvents(1))
      BY <2>1 DEF Sleep
    <3>. QED  BY <2>1, <3>1, TakesData
  <2>5. /\ waiter' \in [Waiters -> {"out", "asleep", "woken"}]
        /\ alarm' \in [Waiters -> Nat]
    BY <2>1, <2>3, SleepThreads
  <2>6. asked' \in [Waiters -> [num : Nums \cup {1}, until : 0 .. MaxNow]]
    BY <1>2, <2>1, <2>3
  <2>. QED  BY <2>4, <2>5, <2>6 DEF ThreadsOK
<1>11. ASSUME NEW w \in Waiters, SleeperWakes(w)  PROVE DataOK' /\ ThreadsOK'
  <2>1. /\ order' = order /\ ev' = ev /\ closed' = closed /\ now' = now
        /\ sent' = sent /\ got' = got /\ first' = first
        /\ waiter' = [waiter EXCEPT ![w] = "woken"] /\ asked' = asked /\ alarm' = alarm
    BY <1>11 DEF SleeperWakes, history
  <2>2. DataOK'
    BY <1>1, <2>1 DEF DataOK
  <2>. QED  BY <1>2, <2>1, <2>2 DEF ThreadsOK
<1>12. ASSUME NEW w \in Waiters, Resume(w)  PROVE DataOK' /\ ThreadsOK'
  <2>0. asked[w].num \in Nat \ {0} /\ asked[w].until \in Nat
    <3>1. asked[w] \in [num : Nums \cup {1}, until : 0 .. MaxNow]
      BY <1>2
    <3>2. asked[w].num \in Nums \cup {1} /\ asked[w].until \in 0 .. MaxNow
      BY <3>1
    <3>3. Nums \cup {1} \subseteq Nat \ {0}
      BY DEF ValidConstants
    <3>. QED  BY <1>2, <3>2, <3>3
  <2>1. CASE ResumeClosed(w)
    <3>1. /\ order' = order /\ ev' = ev /\ closed' = closed /\ now' = now
          /\ sent' = sent /\ got' = got /\ first' = first
      BY <2>1 DEF ResumeClosed, history
    <3>2. DataOK'
      BY <1>1, <3>1 DEF DataOK
    <3>3. ThreadsOK'
      BY <1>1, <2>1, LeavesThreads DEF ResumeClosed
    <3>. QED  BY <3>2, <3>3
  <2>2. CASE ResumeWithEvents(w)
    <3>1. ~ closed /\ Takes(GetTriggeredEvents(asked[w].num)) /\ Leaves(w)
      BY <2>2 DEF ResumeWithEvents
    <3>. QED  BY <1>1, <2>0, <3>1, TakesData, LeavesThreads
  <2>3. CASE ResumeLate(w)
    <3>1. ~ closed /\ Takes(GetTriggeredEvents(1)) /\ Leaves(w)
      BY <2>3 DEF ResumeLate, FindsNothing
    <3>. QED  BY <1>1, <3>1, TakesData, LeavesThreads
  <2>4. CASE ResumeAgain(w)
    <3>1. ~ closed /\ Sleep(w, asked[w].until) /\ asked' = asked
      BY <2>4 DEF ResumeAgain, FindsNothing
    <3>2. DataOK'
      <4>1. Takes(GetTriggeredEvents(1))
        BY <3>1 DEF Sleep
      <4>. QED  BY <3>1, <4>1, TakesData
    <3>3. /\ waiter' \in [Waiters -> {"out", "asleep", "woken"}]
          /\ alarm' \in [Waiters -> Nat]
      BY <2>0, <3>1, SleepThreads
    <3>. QED  BY <1>2, <3>1, <3>2, <3>3 DEF ThreadsOK
  <2>. QED  BY <1>12, <2>1, <2>2, <2>3, <2>4 DEF Resume
<1>13. CASE UNCHANGED queueVars
  <2>1. /\ order' = order /\ ev' = ev /\ closed' = closed /\ now' = now
        /\ sent' = sent /\ got' = got /\ first' = first
        /\ waiter' = waiter /\ asked' = asked /\ alarm' = alarm
    BY <1>13 DEF queueVars, history
  <2>. QED  BY <1>1, <2>1 DEF DataOK, ThreadsOK
<1>14. CASE QueueNext
  <2>1. \/ \E e \in Keys, triggered \in BOOLEAN : \E deadline, interval :
                Addable(e, deadline, interval, triggered)
                /\ AddEvent(e, deadline, interval, triggered)
        \/ \E e \in Keys : TriggerEvent(e) \/ DeleteEvent(e)
        \/ Close \/ Tick
        \/ \E num \in Nat \ {0} : Poll(num)
        \/ \E w \in Waiters :
             \/ SleeperWakes(w) \/ Resume(w)
             \/ \E num \in Nums, micros \in Timeouts : WaitForEvents(w, num, micros)
    BY <1>14, NextIs
  <2>. QED  BY <1>4, <1>5, <1>6, <1>7, <1>8, <1>9, <1>10, <1>11, <1>12, <2>1
<1>. QED  BY <1>13, <1>14

\* In every state that the queue can be in, for every number of events, of
\* threads and of triggers: queued events hold exactly the tokens behind the
\* last one delivered, and a user event its latest.
THEOREM QueueKeepsTriggers ==
    ASSUME ValidConstants
    PROVE  QueueSpec => []TriggersArriveInOrder
<1>1. QueueInit => QueueInv
  BY QueueInitInv
<1>2. QueueInv /\ [QueueNext]_queueVars => QueueInv'
  BY QueueStep
<1>3. QueueInv => TriggersArriveInOrder
  <2>1. SUFFICES ASSUME QueueInv  PROVE TriggersArriveInOrder
    OBVIOUS
  <2>2. QueueTypeOK /\ \A e \in Keys : EventSound(e, ev[e], got[e], sent[e], first[e], now)
    BY <2>1 DEF QueueInv
  <2>. QED  BY <2>2 DEF TriggersArriveInOrder, EventSound, Keys
<1>. QED  BY <1>1, <1>2, <1>3, PTL DEF QueueSpec

\* A periodic timer loses no period and reports none twice, however late it is
\* read and however often it is armed again.
THEOREM QueueCountsPeriods ==
    ASSUME ValidConstants
    PROVE  QueueSpec => []TimersReportEveryPeriod
<1>1. QueueInit => QueueInv
  BY QueueInitInv
<1>2. QueueInv /\ [QueueNext]_queueVars => QueueInv'
  BY QueueStep
<1>3. QueueInv => TimersReportEveryPeriod
  <2>1. SUFFICES ASSUME QueueInv, NEW e \in Periodic, ev[e].interval # 0
                 PROVE  got[e] + Reports(ev[e].items) + Due(ev[e].deadline, ev[e].interval)
                            = PeriodsSoFar(e)
    BY DEF TimersReportEveryPeriod
  <2>2. /\ e \in Keys /\ now \in Nat /\ ev[e] \in Records
        /\ sent[e] \in Nat /\ first[e] \in Nat /\ got[e] \in Nat
        /\ EventSound(e, ev[e], got[e], sent[e], first[e], now)
    BY <2>1, QueueTypes DEF Keys, Timers
  <2>3. PICK m \in PeriodsMoved(ev[e].deadline, first[e], ev[e].interval, now) :
            got[e] + Reports(ev[e].items) = sent[e] + m
    BY <2>1, <2>2 DEF EventSound
  <2>4. ev[e].deadline \in Nat /\ ev[e].interval \in Nat /\ Reports(ev[e].items) \in Nat
    BY <2>2, RecordIs
  <2>5. m \in Nat
    BY DEF PeriodsMoved
  <2>6. Due(first[e], ev[e].interval) = Due(ev[e].deadline, ev[e].interval) + m
    BY <2>1, <2>2, <2>4, DueMoves
  <2>7. PeriodsSoFar(e) = sent[e] + Due(first[e], ev[e].interval)
    BY <2>1 DEF PeriodsSoFar
  <2>8. Due(ev[e].deadline, ev[e].interval) \in Int
    <3>1. CASE ev[e].deadline > now
      BY <3>1 DEF Due
    <3>2. CASE ev[e].deadline <= now
      <4>1. now - ev[e].deadline \in Nat
        BY <2>2, <2>4, <3>2
      <4>2. (now - ev[e].deadline) \div ev[e].interval \in Nat
        BY <2>1, <2>4, <4>1, DivIs
      <4>. QED  BY <2>2, <2>4, <3>2, <4>2 DEF Due
    <3>. QED  BY <2>2, <2>4, <3>1, <3>2
  <2>. QED  BY <2>2, <2>3, <2>4, <2>5, <2>6, <2>7, <2>8
<1>. QED  BY <1>1, <1>2, <1>3, PTL DEF QueueSpec

\* The notifications that events with the records v hold.
HeldBy(v, S) == UNION {{e} \X (1 .. Len(v[e].items)) : e \in S}

\* An event holds a finite number of notifications, and there are finitely many events.
LEMMA HeldFinite ==
    ASSUME IsFiniteSet(Keys), NEW v \in [Keys -> Records]
    PROVE  IsFiniteSet(HeldBy(v, Keys))
<1> DEFINE bad == {S \in SUBSET Keys : ~ IsFiniteSet(HeldBy(v, S))}
<1>1. SUFFICES ASSUME bad # {}  PROVE FALSE
  OBVIOUS
<1>2. IsWellFoundedOn(StrictSubsetOrdering(Keys), SUBSET Keys)
  BY FS_StrictSubsetOrderingWellFounded, FS_FiniteSubsetsOfFinite
<1>3. PICK S \in bad : \A T \in bad : ~ (<<T, S>> \in StrictSubsetOrdering(Keys))
  <2>1. bad \subseteq SUBSET Keys
    OBVIOUS
  <2> HIDE DEF bad
  <2>. QED  BY <1>1, <1>2, <2>1, WFMin
<1>4. S \in SUBSET Keys /\ ~ IsFiniteSet(HeldBy(v, S))
  OBVIOUS
<1>5. S # {}
  <2>1. HeldBy(v, {}) = {}
    BY DEF HeldBy
  <2>2. IsFiniteSet({})
    BY FS_EmptySet
  <2>. QED  BY <1>4, <2>1, <2>2
<1>6. PICK x \in S : TRUE
  BY <1>5
<1> DEFINE T == S \ {x}
           one == {x} \X (1 .. Len(v[x].items))
<1>7. IsFiniteSet(HeldBy(v, T))
  <2>1. T \in SUBSET Keys /\ T \subseteq S /\ T # S
    BY <1>4, <1>6
  <2>2. <<T, S>> \in StrictSubsetOrdering(Keys)
    BY <1>4, <2>1 DEF StrictSubsetOrdering
  <2>. QED  BY <1>3, <2>1, <2>2
<1>8. IsFiniteSet(one)
  <2>1. v[x] \in Records
    BY <1>4, <1>6
  <2>2. Len(v[x].items) \in Nat
    BY <2>1, RecordIs
  <2>3. IsFiniteSet(1 .. Len(v[x].items))
    BY <2>2, FS_Interval
  <2>4. IsFiniteSet({x})
    BY FS_Singleton
  <2>. QED  BY <2>3, <2>4, FS_Product
<1>9. HeldBy(v, S) = HeldBy(v, T) \cup one
  BY <1>6 DEF HeldBy
<1>10. IsFiniteSet(HeldBy(v, T) \cup one)
  <2> HIDE DEF T, one
  <2>. QED  BY <1>7, <1>8, FS_Union
<1>. QED  BY <1>4, <1>9, <1>10

\* The notifications that the events hold, one by one.
LEMMA HeldIs ==
    ASSUME NEW v, NEW p
    PROVE  p \in HeldBy(v, Keys) <=>
             \E e \in Keys : \E i \in 1 .. Len(v[e].items) : p = <<e, i>>
BY DEF HeldBy

\* Events that hold less hold less together.
LEMMA HeldLess ==
    ASSUME IsFiniteSet(Keys), NEW v \in [Keys -> Records], NEW u \in [Keys -> Records],
           \A e \in Keys : Len(u[e].items) <= Len(v[e].items)
    PROVE  /\ Cardinality(HeldBy(u, Keys)) \in Nat
           /\ Cardinality(HeldBy(v, Keys)) \in Nat
           /\ Cardinality(HeldBy(u, Keys)) <= Cardinality(HeldBy(v, Keys))
           /\ (\E e \in Keys : Len(u[e].items) < Len(v[e].items))
                => Cardinality(HeldBy(u, Keys)) < Cardinality(HeldBy(v, Keys))
<1> DEFINE U == HeldBy(u, Keys)
           V == HeldBy(v, Keys)
<1>0. \A e \in Keys : Len(u[e].items) \in Nat /\ Len(v[e].items) \in Nat
  BY RecordIs
<1>1. IsFiniteSet(U) /\ IsFiniteSet(V)
  BY HeldFinite
<1>2. U \subseteq V
  <2>1. SUFFICES ASSUME NEW p \in U  PROVE p \in V
    OBVIOUS
  <2>2. PICK e \in Keys : \E i \in 1 .. Len(u[e].items) : p = <<e, i>>
    BY HeldIs
  <2>3. PICK i \in 1 .. Len(u[e].items) : p = <<e, i>>
    BY <2>2
  <2>4. i \in 1 .. Len(v[e].items)
    BY <1>0
  <2>. QED  BY <2>3, <2>4, HeldIs
<1>3. ASSUME NEW e \in Keys, Len(u[e].items) < Len(v[e].items)
      PROVE  U # V
  <2> DEFINE n == Len(v[e].items)
  <2>1. n \in 1 .. Len(v[e].items) /\ n \notin 1 .. Len(u[e].items)
    BY <1>0, <1>3
  <2>2. <<e, n>> \in V
    BY <2>1, HeldIs
  <2>3. <<e, n>> \notin U
    <3>1. SUFFICES ASSUME <<e, n>> \in U  PROVE FALSE
      OBVIOUS
    <3>2. \E y \in Keys : \E i \in 1 .. Len(u[y].items) : <<e, n>> = <<y, i>>
      BY <3>1, HeldIs
    <3>. QED  BY <2>1, <3>2
  <2>. QED  BY <2>2, <2>3
<1> HIDE DEF U, V
<1>4. /\ Cardinality(U) <= Cardinality(V)
      /\ Cardinality(V) = Cardinality(U) => V = U
  BY <1>1, <1>2, FS_Subset
<1>5. Cardinality(U) \in Nat /\ Cardinality(V) \in Nat
  BY <1>1, FS_CardinalityType
<1>6. (\E e \in Keys : Len(u[e].items) < Len(v[e].items)) => Cardinality(U) < Cardinality(V)
  BY <1>3, <1>4, <1>5
<1>. QED  BY <1>4, <1>5, <1>6 DEF U, V

\* A notification more.
LEMMA HeldOneMore ==
    ASSUME IsFiniteSet(Keys), NEW v \in [Keys -> Records], NEW u \in [Keys -> Records],
           NEW x \in Keys, \A e \in Keys : e # x => Len(u[e].items) <= Len(v[e].items),
           Len(u[x].items) <= Len(v[x].items) + 1
    PROVE  /\ Cardinality(HeldBy(u, Keys)) \in Nat
           /\ Cardinality(HeldBy(v, Keys)) \in Nat
           /\ Cardinality(HeldBy(u, Keys)) <= Cardinality(HeldBy(v, Keys)) + 1
<1> DEFINE U == HeldBy(u, Keys)
           V == HeldBy(v, Keys)
           p == <<x, Len(v[x].items) + 1>>
<1>0. \A e \in Keys : Len(u[e].items) \in Nat /\ Len(v[e].items) \in Nat
  BY RecordIs
<1>1. IsFiniteSet(U) /\ IsFiniteSet(V)
  BY HeldFinite
<1>2. U \subseteq V \cup {p}
  <2>1. SUFFICES ASSUME NEW q \in U  PROVE q \in V \cup {p}
    OBVIOUS
  <2>2. PICK e \in Keys : \E i \in 1 .. Len(u[e].items) : q = <<e, i>>
    BY HeldIs
  <2>3. PICK i \in 1 .. Len(u[e].items) : q = <<e, i>>
    BY <2>2
  <2>4. CASE i \in 1 .. Len(v[e].items)
    BY <2>3, <2>4, HeldIs
  <2>5. CASE i \notin 1 .. Len(v[e].items)
    <3>1. Len(v[e].items) < Len(u[e].items)
      BY <1>0, <2>5
    <3>2. e = x
      BY <1>0, <3>1
    <3>3. i = Len(v[e].items) + 1
      BY <1>0, <2>5, <3>2
    <3>. QED  BY <2>3, <3>2, <3>3
  <2>. QED  BY <2>4, <2>5
<1> HIDE DEF U, V, p
<1>3. IsFiniteSet(V \cup {p}) /\ Cardinality(V \cup {p}) <= Cardinality(V) + 1
  <2>1. Cardinality(V) \in Nat
    BY <1>1, FS_CardinalityType
  <2>2. /\ IsFiniteSet(V \cup {p})
        /\ Cardinality(V \cup {p}) = IF p \in V THEN Cardinality(V) ELSE Cardinality(V) + 1
    BY <1>1, FS_AddElement
  <2>. QED  BY <2>1, <2>2
<1>4. Cardinality(U) <= Cardinality(V \cup {p})
  BY <1>2, <1>3, FS_Subset
<1>5. Cardinality(U) \in Nat /\ Cardinality(V) \in Nat /\ Cardinality(V \cup {p}) \in Nat
  BY <1>1, <1>3, FS_CardinalityType
<1>6. Cardinality(U) <= Cardinality(V) + 1
  BY <1>3, <1>4, <1>5
<1>. QED  BY <1>5, <1>6 DEF U, V

\* Events that hold nothing hold nothing together.
LEMMA HeldNone ==
    ASSUME NEW v \in [Keys -> Records], \A e \in Keys : v[e].items = <<>>
    PROVE  Cardinality(HeldBy(v, Keys)) = 0
<1>1. \A e \in Keys : Len(v[e].items) = 0
  BY EmptySeq
<1>2. HeldBy(v, Keys) = {}
  BY <1>1 DEF HeldBy
<1>. QED  BY <1>2, FS_EmptySet

\* What a look at the queue does to the events of the list.
LEMMA TakesIs ==
    ASSUME ValidConstants, QueueInv, NEW num \in Nat \ {0}, Takes(GetTriggeredEvents(num)),
           NEW e \in Keys
    PROVE  /\ ev'[e].deadline # 0 => ev[e].deadline # 0 /\ ev[e].deadline <= ev'[e].deadline
           /\ ev[e].items = <<>> /\ ~ (ev[e].deadline # 0 /\ ev[e].deadline <= now)
                => ev'[e].items = <<>>
           /\ Len(ev'[e].items) <= Held(e)
           /\ TriggerExpiredTimers[e].items = <<>> => ev'[e].items = <<>>
<1> DEFINE b == GetTriggeredEvents(num)
           T == TriggerExpiredTimers
<1>1. /\ T \in [Keys -> Records] /\ BatchSound(b) /\ BatchProgress(Len(order), b, num)
  BY BatchOf
<1>2. /\ ev' = b.ev
  BY DEF Takes
<1>3. /\ now \in Nat /\ ev \in [Keys -> Records]
      /\ got[e] \in Nat /\ sent[e] \in Nat /\ first[e] \in Nat
      /\ EventSound(e, ev[e], got[e], sent[e], first[e], now)
  BY QueueTypes
<1>4. /\ ev[e].deadline <= T[e].deadline /\ (T[e].deadline = 0 <=> ev[e].deadline = 0)
      /\ T[e].items = ev[e].items \/ (ev[e].deadline # 0 /\ ev[e].deadline <= now)
  BY <1>3, TimersMoved
<1> HIDE DEF b, T
<1>5. b.ev[e] \in Records /\ T[e] \in Records
  BY <1>1 DEF BatchSound, Batches
<1>6. Len(b.ev[e].items) <= Held(e) /\ Held(e) = Len(T[e].items)
  BY <1>1 DEF BatchProgress, Hand, Held, T
<1>7. T[e].items = <<>> => b.ev[e].items = <<>>
  <2>1. SUFFICES ASSUME T[e].items = <<>>  PROVE b.ev[e].items = <<>>
    OBVIOUS
  <2>2. Len(T[e].items) = 0
    BY <2>1, EmptySeq
  <2>3. Len(b.ev[e].items) \in Nat /\ (Len(b.ev[e].items) = 0 <=> b.ev[e].items = <<>>)
    BY <1>5, RecordIs
  <2>. QED  BY <1>6, <2>2, <2>3
<1>8. b.ev[e].deadline # 0 => b.ev[e].deadline = T[e].deadline
  <2>1. e \in ToSet(b.order) => b.ev[e].deadline = T[e].deadline
    BY <1>1 DEF BatchProgress, T
  <2>2. e \notin ToSet(b.order) => b.ev[e] = Blank
    BY <1>1 DEF BatchSound
  <2>. QED  BY <2>1, <2>2, BlankIs
<1>. QED  BY <1>2, <1>4, <1>6, <1>7, <1>8 DEF T

\* A wait that finds no event has seen every event without one.
LEMMA NothingFound ==
    ASSUME ValidConstants, QueueInv, NEW num \in Nat \ {0},
           GetTriggeredEvents(num).room = num, NEW e \in Keys
    PROVE  TriggerExpiredTimers[e].items = <<>>
<1> DEFINE b == GetTriggeredEvents(num)
           T == TriggerExpiredTimers
<1>1. BatchProgress(Len(order), b, num)
  BY BatchOf
<1>2. \A j \in 1 .. Len(order) : T[order[j]].items = <<>>
  BY <1>1 DEF BatchProgress
<1>3. CASE e \in ToSet(order)
  <2>1. order \in Seq(Keys)
    BY QueueTypes
  <2>2. PICK j \in 1 .. Len(order) : e = order[j]
    BY <1>3, <2>1, LenProperties DEF ToSet
  <2>. QED  BY <1>2, <2>2
<1>4. CASE e \notin ToSet(order)
  <2>1. T[e] = Blank
    BY <1>4, LooksData, QueueInvIs
  <2>. QED  BY <2>1, BlankIs
<1>. QED  BY <1>3, <1>4

\* A thread that goes to sleep leaves no item behind, and sets its alarm.
LEMMA SleepIs ==
    ASSUME ValidConstants, QueueInv, NEW w \in Waiters, NEW until \in Nat,
           NEW num \in Nat \ {0}, GetTriggeredEvents(num).room = num, Sleep(w, until)
    PROVE  /\ waiter' = [waiter EXCEPT ![w] = "asleep"]
           /\ closed' = closed
           /\ \A e \in Keys :
                /\ ev'[e].items = <<>>
                /\ ev'[e].deadline # 0 => alarm'[w] # 0 /\ alarm'[w] <= ev'[e].deadline
<1> DEFINE b == GetTriggeredEvents(1)
<1>1. /\ Takes(b) /\ waiter' = [waiter EXCEPT ![w] = "asleep"]
      /\ alarm' = [alarm EXCEPT ![w] = NextAlarm(b, until)]
      /\ ev' = b.ev /\ closed' = closed
  BY DEF Sleep, Takes
<1>2. alarm'[w] = NextAlarm(b, until)
  <2>1. alarm \in [Waiters -> Nat]
    BY QueueInvIs DEF ThreadsOK
  <2>. QED  BY <1>1, <2>1
<1>3. BatchSound(b)
  BY BatchOf
<1>4. ASSUME NEW e \in Keys
      PROVE  /\ ev'[e].items = <<>>
             /\ ev'[e].deadline # 0 => alarm'[w] # 0 /\ alarm'[w] <= ev'[e].deadline
  <2>1. TriggerExpiredTimers[e].items = <<>>
    BY NothingFound
  <2>2. ev'[e].items = <<>>
    BY <1>1, <2>1, TakesIs
  <2> HIDE DEF b
  <2>3. ASSUME ev'[e].deadline # 0
        PROVE  alarm'[w] # 0 /\ alarm'[w] <= ev'[e].deadline
    <3>1. b.ev[e].deadline # 0
      BY <1>1, <2>3
    <3>2. e \in ToSet(b.order)
      BY <1>3, <3>1, BlankIs DEF BatchSound
    <3>3. b \in Batches
      BY <1>3 DEF BatchSound
    <3>4. NextAlarm(b, until) # 0 /\ NextAlarm(b, until) <= b.ev[e].deadline
      BY <3>1, <3>2, <3>3, NextAlarmIs
    <3>. QED  BY <1>1, <1>2, <3>4
  <2>. QED  BY <2>2, <2>3
<1>. QED  BY <1>1, <1>4

\* The only waiter of a queue sleeps on nothing, and has its alarm set.
AloneInv(w) ==
    /\ waiter[w] = "asleep" /\ ~ TimerRings(w) => \A e \in Keys : ev[e].items = <<>>
    /\ waiter[w] = "asleep" => \A e \in Keys :
            ev[e].deadline # 0 => alarm[w] # 0 /\ alarm[w] <= ev[e].deadline
    /\ closed => waiter[w] # "asleep"

\* Every step keeps what is known of a thread that waits alone.
LEMMA AloneStep ==
    ASSUME ValidConstants, QueueInv, NEW w \in Waiters, Waiters = {w}, AloneInv(w),
           [QueueNext]_queueVars
    PROVE  AloneInv(w)'
<1>1. /\ waiter \in [Waiters -> {"out", "asleep", "woken"}]
      /\ alarm \in [Waiters -> Nat] /\ now \in Nat /\ ev \in [Keys -> Records]
      /\ asked \in [Waiters -> [num : Nums \cup {1}, until : 0 .. MaxNow]]
  BY QueueInvIs, QueueTypes DEF ThreadsOK
<1>q. QueueInv'
  BY QueueStep
<1>2. ASSUME waiter'[w] # "asleep"  PROVE AloneInv(w)'
  BY <1>2 DEF AloneInv
<1>3. ASSUME Signal  PROVE AloneInv(w)'
  <2>1. \/ waiter' = waiter /\ waiter[w] # "asleep"
        \/ waiter' = [waiter EXCEPT ![w] = "woken"]
    BY <1>1, <1>3, SignalIs
  <2>2. waiter'[w] # "asleep"
    BY <1>1, <2>1
  <2>. QED  BY <1>2, <2>2
<1>4. ASSUME UNCHANGED <<waiter, alarm, closed, ev, now>>  PROVE AloneInv(w)'
  BY <1>4 DEF AloneInv, TimerRings
<1>5. ASSUME NEW e \in Keys, DeleteEvent(e)  PROVE AloneInv(w)'
  <2>1. /\ waiter' = waiter /\ alarm' = alarm /\ now' = now /\ closed' = closed
        /\ ev' = [ev EXCEPT ![e] = Blank]
    BY <1>5 DEF DeleteEvent
  <2>2. ASSUME NEW x \in Keys
        PROVE  ev'[x] = ev[x] \/ (ev'[x].items = <<>> /\ ev'[x].deadline = 0)
    <3>1. CASE x = e
      <4>1. ev'[x] = Blank
        BY <1>1, <2>1, <3>1
      <4>. QED  BY <4>1, BlankIs
    <3>2. CASE x # e
      BY <1>1, <2>1, <3>2
    <3>. QED  BY <3>1, <3>2
  <2>. QED  BY <2>1, <2>2 DEF AloneInv, TimerRings
<1>6. CASE Tick
  <2>1. /\ waiter' = waiter /\ alarm' = alarm /\ now' = now + 1 /\ closed' = closed /\ ev' = ev
    BY <1>6 DEF Tick
  <2>2. alarm[w] \in Nat
    BY <1>1
  <2>3. TimerRings(w) => TimerRings(w)'
    BY <1>1, <2>1, <2>2 DEF TimerRings
  <2>. QED  BY <2>1, <2>3 DEF AloneInv
<1>7. ASSUME NEW num \in Nat \ {0}, Poll(num)  PROVE AloneInv(w)'
  <2>1. /\ waiter' = waiter /\ alarm' = alarm /\ ~ closed
        /\ Takes(GetTriggeredEvents(num)) /\ now' = now /\ closed' = closed
    BY <1>7 DEF Poll, Takes
  <2>2. SUFFICES ASSUME waiter[w] = "asleep"
                 PROVE  /\ ~ TimerRings(w) => \A e \in Keys : ev'[e].items = <<>>
                        /\ \A e \in Keys : ev'[e].deadline # 0 =>
                                alarm[w] # 0 /\ alarm[w] <= ev'[e].deadline
    BY <2>1 DEF AloneInv, TimerRings
  <2>3. ASSUME NEW e \in Keys
        PROVE  /\ ~ TimerRings(w) => ev'[e].items = <<>>
               /\ ev'[e].deadline # 0 => alarm[w] # 0 /\ alarm[w] <= ev'[e].deadline
    <3>1. /\ ev'[e].deadline # 0 => ev[e].deadline # 0 /\ ev[e].deadline <= ev'[e].deadline
          /\ ev[e].items = <<>> /\ ~ (ev[e].deadline # 0 /\ ev[e].deadline <= now)
                => ev'[e].items = <<>>
      BY <2>1, TakesIs
    <3>2. /\ ~ TimerRings(w) => ev[e].items = <<>>
          /\ ev[e].deadline # 0 => alarm[w] # 0 /\ alarm[w] <= ev[e].deadline
      BY <2>2 DEF AloneInv
    <3>3. ev[e].deadline \in Nat /\ alarm[w] \in Nat
      BY <1>1, RecordIs
    <3>4. ev'[e].deadline \in Nat
      <4>1. ev' \in [Keys -> Records]
        BY <1>q DEF QueueInv, QueueTypeOK, Records
      <4>2. ev'[e] \in Records
        BY <4>1
      <4>. QED  BY <4>2, RecordIs
    <3>5. ASSUME ~ TimerRings(w)  PROVE ev'[e].items = <<>>
      <4>1. ~ (ev[e].deadline # 0 /\ ev[e].deadline <= now)
        BY <1>1, <3>2, <3>3, <3>5 DEF TimerRings
      <4>. QED  BY <3>1, <3>2, <3>5, <4>1
    <3>6. ASSUME ev'[e].deadline # 0
          PROVE  alarm[w] # 0 /\ alarm[w] <= ev'[e].deadline
      BY <3>1, <3>2, <3>3, <3>4, <3>6
    <3>. QED  BY <3>5, <3>6
  <2>. QED  BY <2>3
<1>8. ASSUME NEW until \in Nat, NEW num \in Nat \ {0}, ~ closed,
             GetTriggeredEvents(num).room = num, Sleep(w, until)
      PROVE  AloneInv(w)'
  <2>1. /\ closed' = closed
        /\ \A e \in Keys :
                /\ ev'[e].items = <<>>
                /\ ev'[e].deadline # 0 => alarm'[w] # 0 /\ alarm'[w] <= ev'[e].deadline
    BY <1>8, SleepIs
  <2>. QED  BY <1>8, <2>1 DEF AloneInv
<1>9. ASSUME NEW num \in Nums, NEW micros \in Timeouts, WaitForEvents(w, num, micros)
      PROVE  AloneInv(w)'
  <2> DEFINE until == IF micros = 0 THEN 0 ELSE now + micros
  <2>1. /\ ~ closed /\ Sleep(w, until) /\ GetTriggeredEvents(num).room = num
    BY <1>9 DEF WaitForEvents
  <2>2. num \in Nat \ {0} /\ until \in Nat
    BY <1>1 DEF ValidConstants
  <2> HIDE DEF until
  <2>. QED  BY <1>8, <2>1, <2>2
<1>10. ASSUME SleeperWakes(w)  PROVE AloneInv(w)'
  <2>1. waiter'[w] # "asleep"
    BY <1>1, <1>10 DEF SleeperWakes
  <2>. QED  BY <1>2, <2>1
<1>11. ASSUME Leaves(w)  PROVE AloneInv(w)'
  <2>1. waiter'[w] # "asleep"
    BY <1>1, <1>11 DEF Leaves
  <2>. QED  BY <1>2, <2>1
<1>12. ASSUME ResumeAgain(w)  PROVE AloneInv(w)'
  <2>1. /\ ~ closed /\ Sleep(w, asked[w].until)
        /\ GetTriggeredEvents(asked[w].num).room = asked[w].num
    BY <1>12 DEF ResumeAgain, FindsNothing
  <2>2. asked[w].num \in Nat \ {0} /\ asked[w].until \in Nat
    <3>1. asked[w] \in [num : Nums \cup {1}, until : 0 .. MaxNow]
      BY <1>1
    <3>2. asked[w].num \in Nums \cup {1} /\ asked[w].until \in 0 .. MaxNow
      BY <3>1
    <3>3. Nums \cup {1} \subseteq Nat \ {0} /\ MaxNow \in Nat
      BY DEF ValidConstants
    <3>. QED  BY <3>2, <3>3
  <2>. QED  BY <1>8, <2>1, <2>2
<1>13. CASE Close
  <2>1. waiter'[w] # "asleep"
    BY <1>1, <1>13 DEF Close
  <2>. QED  BY <1>2, <2>1
<1>14. CASE QueueNext
  <2>1. \/ \E e \in Keys, triggered \in BOOLEAN : \E deadline, interval :
                Addable(e, deadline, interval, triggered)
                /\ AddEvent(e, deadline, interval, triggered)
        \/ \E e \in Keys : TriggerEvent(e) \/ DeleteEvent(e)
        \/ Close \/ Tick
        \/ \E num \in Nat \ {0} : Poll(num)
        \/ \E x \in Waiters :
             \/ SleeperWakes(x) \/ Resume(x)
             \/ \E num \in Nums, micros \in Timeouts : WaitForEvents(x, num, micros)
    BY <1>14, NextIs
  <2>2. ASSUME NEW e \in Keys, NEW triggered, NEW deadline, NEW interval,
               AddEvent(e, deadline, interval, triggered)
        PROVE  AloneInv(w)'
    <3>1. Signal
      BY <2>2 DEF AddEvent, AddNew, AddAgain
    <3>. QED  BY <1>3, <3>1
  <2>3. ASSUME NEW e \in Keys, TriggerEvent(e)  PROVE AloneInv(w)'
    <3>1. Signal
      BY <2>3 DEF TriggerEvent, Tells
    <3>. QED  BY <1>3, <3>1
  <2>4. ASSUME Resume(w)  PROVE AloneInv(w)'
    BY <1>11, <1>12, <2>4
       DEF Resume, ResumeClosed, ResumeWithEvents, ResumeLate
  <2>. QED  BY <1>5, <1>6, <1>7, <1>9, <1>10, <1>13, <2>1, <2>2, <2>3, <2>4
<1>15. CASE UNCHANGED queueVars
  BY <1>4, <1>15 DEF queueVars
<1>. QED  BY <1>14, <1>15

\* Events that clear when they are delivered, and no timers: nobody sleeps on while there are
\* more notifications than threads on their way to fetch them.
Woken == {w \in Waiters : waiter[w] = "woken"}
ClearingInv ==
    /\ (\E w \in Waiters : waiter[w] = "asleep") => Pending <= Cardinality(Woken)
    /\ closed => \A w \in Waiters : waiter[w] # "asleep"

\* Pending counts the notifications that are held.
LEMMA PendingIs ==
    /\ Pending = Cardinality(HeldBy(ev, Keys))
    /\ Pending' = Cardinality(HeldBy(ev', Keys))
  BY DEF Pending, HeldBy

\* The threads on their way, after one more of them or one less.
LEMMA WokenIs ==
    ASSUME ValidConstants, waiter \in [Waiters -> {"out", "asleep", "woken"}], NEW w \in Waiters
    PROVE  /\ Cardinality(Woken) \in Nat
           /\ waiter[w] # "woken" /\ waiter' = [waiter EXCEPT ![w] = "woken"]
                => Cardinality(Woken') = Cardinality(Woken) + 1
           /\ waiter[w] = "woken" /\ waiter' = [waiter EXCEPT ![w] = "out"]
                => Cardinality(Woken') = Cardinality(Woken) - 1
<1>1. IsFiniteSet(Woken)
  <2>1. IsFiniteSet(Waiters) /\ Woken \subseteq Waiters
    BY DEF ValidConstants, Woken
  <2>. QED  BY <2>1, FS_Subset
<1>2. Cardinality(Woken) \in Nat
  BY <1>1, FS_CardinalityType
<1>3. ASSUME waiter[w] # "woken", waiter' = [waiter EXCEPT ![w] = "woken"]
      PROVE  Cardinality(Woken') = Cardinality(Woken) + 1
  <2>1. Woken' = Woken \cup {w} /\ w \notin Woken
    BY <1>3 DEF Woken
  <2>2. Cardinality(Woken \cup {w}) = Cardinality(Woken) + 1
    BY <1>1, <2>1, FS_AddElement
  <2>. QED  BY <2>1, <2>2
<1>4. ASSUME waiter[w] = "woken", waiter' = [waiter EXCEPT ![w] = "out"]
      PROVE  Cardinality(Woken') = Cardinality(Woken) - 1
  <2>1. Woken' = Woken \ {w} /\ w \in Woken
    BY <1>4 DEF Woken
  <2>2. Cardinality(Woken \ {w}) = Cardinality(Woken) - 1
    BY <1>1, <2>1, FS_RemoveElement
  <2>. QED  BY <2>1, <2>2
<1>. QED  BY <1>2, <1>3, <1>4

\* Without timers no time passes for an event.
LEMMA NoTimers ==
    ASSUME ValidConstants, QueueInv, Timers = {}, NEW e \in Keys
    PROVE  TriggerExpiredTimers[e] = ev[e] /\ ev[e].deadline = 0
<1>1. /\ now \in Nat /\ ev \in [Keys -> Records]
      /\ got[e] \in Nat /\ sent[e] \in Nat /\ first[e] \in Nat
      /\ EventSound(e, ev[e], got[e], sent[e], first[e], now)
  BY QueueTypes
<1>2. TriggerExpiredTimers[e] = ev[e]
  BY <1>1, TimersMoved
<1>3. e \in User \cup Queued
  BY DEF Keys
<1>. QED  BY <1>1, <1>2, <1>3 DEF EventSound

\* Every step keeps the balance of notifications and threads on their way.
LEMMA ClearingStep ==
    ASSUME ValidConstants, QueueInv, Level = {}, Timers = {}, ClearingInv, [QueueNext]_queueVars
    PROVE  ClearingInv'
<1>1. /\ waiter \in [Waiters -> {"out", "asleep", "woken"}]
      /\ ev \in [Keys -> Records]
      /\ asked \in [Waiters -> [num : Nums \cup {1}, until : 0 .. MaxNow]]
      /\ IsFiniteSet(Keys) /\ IsFiniteSet(Waiters)
  BY QueueInvIs, QueueTypes DEF ThreadsOK, ValidConstants
<1>2. ev' \in [Keys -> Records]
  <2>1. QueueInv'
    BY QueueStep
  <2>. QED  BY <2>1 DEF QueueInv, QueueTypeOK, Records
<1>3. \A e \in Keys : Len(ev[e].items) \in Nat /\ Len(ev'[e].items) \in Nat
  BY <1>1, <1>2, RecordIs
<1>4. ASSUME \A e \in Keys : Len(ev'[e].items) <= Len(ev[e].items)
      PROVE  /\ Pending' \in Nat /\ Pending \in Nat /\ Pending' <= Pending
             /\ (\E e \in Keys : Len(ev'[e].items) < Len(ev[e].items)) => Pending' < Pending
  BY <1>1, <1>2, <1>4, HeldLess, PendingIs
<1>5. ASSUME NEW num \in Nat \ {0}, Takes(GetTriggeredEvents(num))
      PROVE  /\ \A e \in Keys : Len(ev'[e].items) <= Len(ev[e].items)
             /\ GetTriggeredEvents(num).room # num =>
                    \E e \in Keys : Len(ev'[e].items) < Len(ev[e].items)
  <2>1. \A e \in Keys : Len(ev'[e].items) <= Held(e)
    BY <1>5, TakesIs
  <2>2. \A e \in Keys : Held(e) = Len(ev[e].items)
    BY NoTimers DEF Held
  <2>3. ev' = GetTriggeredEvents(num).ev
    BY <1>5 DEF Takes
  <2>4. BatchProgress(Len(order), GetTriggeredEvents(num), num)
    BY BatchOf
  <2>5. GetTriggeredEvents(num).room # num =>
            \E e \in Keys : Hand(GetTriggeredEvents(num), e) < Held(e)
    BY <2>4 DEF BatchProgress
  <2>. QED  BY <2>1, <2>2, <2>3, <2>5 DEF Hand
<1>6. ASSUME Signal, closed' = closed, Pending' \in Nat, Pending \in Nat, Pending' <= Pending + 1
      PROVE  ClearingInv'
  <2>1. CASE waiter' = waiter /\ \A w \in Waiters : waiter[w] # "asleep"
    BY <1>6, <2>1 DEF ClearingInv
  <2>2. ASSUME NEW w \in Waiters, waiter[w] = "asleep", waiter' = [waiter EXCEPT ![w] = "woken"]
        PROVE  ClearingInv'
    <3>1. Pending <= Cardinality(Woken) /\ ~ closed
      BY <2>2 DEF ClearingInv
    <3>2. Cardinality(Woken') = Cardinality(Woken) + 1 /\ Cardinality(Woken) \in Nat
      BY <1>1, <2>2, WokenIs
    <3>3. Pending' <= Cardinality(Woken')
      BY <1>6, <3>1, <3>2
    <3>. QED  BY <1>6, <3>1, <3>3 DEF ClearingInv
  <2>. QED  BY <1>1, <1>6, <2>1, <2>2, SignalIs
<1>7. ASSUME waiter' = waiter, closed' = closed,
             \A e \in Keys : Len(ev'[e].items) <= Len(ev[e].items)
      PROVE  ClearingInv'
  <2>1. Pending' <= Pending /\ Pending' \in Nat /\ Pending \in Nat
    BY <1>4, <1>7
  <2>2. Woken' = Woken
    BY <1>7 DEF Woken
  <2>3. IsFiniteSet(Woken)
    <3>1. Woken \subseteq Waiters
      BY DEF Woken
    <3>. QED  BY <1>1, <3>1, FS_Subset
  <2>4. Cardinality(Woken) \in Nat
    BY <2>3, FS_CardinalityType
  <2>5. Pending <= Cardinality(Woken) => Pending' <= Cardinality(Woken')
    BY <2>1, <2>2, <2>4
  <2>. QED  BY <1>7, <2>5 DEF ClearingInv
<1>8. ASSUME NEW e \in Keys, NEW triggered \in BOOLEAN, NEW deadline, NEW interval,
             AddNew(e, deadline, interval, triggered)
      PROVE  ClearingInv'
  <2> DEFINE x == IF triggered THEN <<1>> ELSE <<>>
  <2>1. /\ Signal /\ closed' = closed
        /\ ev' = [ev EXCEPT ![e] = [items |-> x, deadline |-> deadline, interval |-> interval]]
    BY <1>8 DEF AddNew
  <2>2. Len(x) <= 1
    OBVIOUS
  <2> HIDE DEF x
  <2>3. ev'[e].items = x /\ \A y \in Keys : y # e => ev'[y] = ev[y]
    BY <1>1, <2>1
  <2>4. Len(ev'[e].items) <= Len(ev[e].items) + 1
    BY <1>3, <2>2, <2>3
  <2>5. \A y \in Keys : y # e => Len(ev'[y].items) <= Len(ev[y].items)
    BY <1>3, <2>3
  <2>6. Pending' \in Nat /\ Pending \in Nat /\ Pending' <= Pending + 1
    BY <1>1, <1>2, <2>4, <2>5, HeldOneMore, PendingIs
  <2>. QED  BY <1>6, <2>1, <2>6
<1>9. ASSUME NEW e \in Keys, NEW deadline, NEW interval, AddAgain(e, deadline, interval)
      PROVE  ClearingInv'
  <2> DEFINE r == [items |-> TriggerExpiredTimers[e].items,
                   deadline |-> deadline, interval |-> interval]
  <2>1. /\ Signal /\ closed' = closed
        /\ ev' = [TriggerExpiredTimers EXCEPT ![e] = r]
    BY <1>9 DEF AddAgain
  <2>2. TriggerExpiredTimers \in [Keys -> Records]
    BY LooksData, QueueInvIs
  <2>3. \A y \in Keys : TriggerExpiredTimers[y] = ev[y]
    BY NoTimers
  <2>4. \A y \in Keys : ev'[y].items = ev[y].items
    BY <2>1, <2>2, <2>3
  <2>5. \A y \in Keys : Len(ev'[y].items) <= Len(ev[y].items)
    BY <1>3, <2>4
  <2>6. Pending' <= Pending /\ Pending' \in Nat /\ Pending \in Nat
    BY <1>4, <2>5
  <2>7. Pending' <= Pending + 1
    BY <2>6
  <2>. QED  BY <1>6, <2>1, <2>6, <2>7
<1>10. ASSUME NEW e \in Keys, TriggerEvent(e)  PROVE ClearingInv'
  <2>1. /\ Signal /\ closed' = closed /\ e \in User \cup Queued
        /\ ev' = [ev EXCEPT ![e].items =
                    IF e \in User THEN <<sent'[e]>> ELSE Append(@, sent'[e])]
        /\ sent' = [sent EXCEPT ![e] = @ + 1]
    BY <1>10 DEF TriggerEvent, Tells
  <2>2. /\ ev'[e].items = IF e \in User THEN <<sent'[e]>> ELSE Append(ev[e].items, sent'[e])
        /\ \A y \in Keys : y # e => ev'[y] = ev[y]
    BY <1>1, <2>1
  <2>3. Len(ev'[e].items) <= Len(ev[e].items) + 1
    <3>1. CASE e \in User
      <4>1. Len(ev'[e].items) = 1
        BY <2>2, <3>1
      <4>. QED  BY <1>3, <4>1
    <3>2. CASE e \notin User
      <4>1. ev[e].items \in Seq(Nat)
        BY <1>1, RecordIs
      <4>2. sent'[e] \in Nat
        BY <2>1, QueueTypes
      <4>3. Len(Append(ev[e].items, sent'[e])) = Len(ev[e].items) + 1
        BY <4>1, <4>2, OneBehind
      <4>. QED  BY <1>3, <2>2, <3>2, <4>3
    <3>. QED  BY <3>1, <3>2
  <2>4. \A y \in Keys : y # e => Len(ev'[y].items) <= Len(ev[y].items)
    BY <1>3, <2>2
  <2>5. Pending' \in Nat /\ Pending \in Nat /\ Pending' <= Pending + 1
    BY <1>1, <1>2, <2>3, <2>4, HeldOneMore, PendingIs
  <2>. QED  BY <1>6, <2>1, <2>5
<1>11. ASSUME NEW e \in Keys, DeleteEvent(e)  PROVE ClearingInv'
  <2>1. waiter' = waiter /\ closed' = closed /\ ev' = [ev EXCEPT ![e] = Blank]
    BY <1>11 DEF DeleteEvent
  <2>2. ASSUME NEW y \in Keys  PROVE Len(ev'[y].items) <= Len(ev[y].items)
    <3>1. CASE y = e
      <4>1. ev'[y] = Blank
        BY <1>1, <2>1, <3>1
      <4>2. Len(Blank.items) = 0
        BY BlankIs, EmptySeq
      <4>. QED  BY <1>3, <4>1, <4>2
    <3>2. CASE y # e
      <4>1. ev'[y] = ev[y]
        BY <1>1, <2>1, <3>2
      <4>. QED  BY <1>3, <4>1
    <3>. QED  BY <3>1, <3>2
  <2>. QED  BY <1>7, <2>1, <2>2
<1>12. ASSUME Tick \/ UNCHANGED queueVars  PROVE ClearingInv'
  <2>1. waiter' = waiter /\ closed' = closed /\ ev' = ev
    BY <1>12 DEF Tick, queueVars
  <2>2. \A e \in Keys : Len(ev'[e].items) <= Len(ev[e].items)
    BY <1>3, <2>1
  <2>. QED  BY <1>7, <2>1, <2>2
<1>13. ASSUME Close  PROVE ClearingInv'
  <2>1. waiter' = [w \in Waiters |-> IF waiter[w] = "asleep" THEN "woken" ELSE waiter[w]]
    BY <1>13 DEF Close
  <2>2. \A w \in Waiters : waiter'[w] # "asleep"
    BY <1>1, <2>1
  <2>. QED  BY <2>2 DEF ClearingInv
<1>14. ASSUME NEW num \in Nat \ {0}, Poll(num)  PROVE ClearingInv'
  <2>1. waiter' = waiter /\ closed' = closed /\ Takes(GetTriggeredEvents(num))
    BY <1>14 DEF Poll, Takes
  <2>. QED  BY <1>5, <1>7, <2>1
<1>15. ASSUME NEW w \in Waiters, NEW until \in Nat, NEW num \in Nat \ {0}, ~ closed,
              GetTriggeredEvents(num).room = num, Sleep(w, until)
       PROVE  ClearingInv'
  <2>1. closed' = closed /\ \A e \in Keys : ev'[e].items = <<>>
    BY <1>15, SleepIs
  <2>2. Pending' = 0
    BY <1>2, <2>1, HeldNone, PendingIs
  <2>3. IsFiniteSet(Woken')
    <3>1. Woken' \subseteq Waiters
      BY DEF Woken
    <3>. QED  BY <1>1, <3>1, FS_Subset
  <2>4. Cardinality(Woken') \in Nat
    BY <2>3, FS_CardinalityType
  <2>. QED  BY <1>15, <2>1, <2>2, <2>4 DEF ClearingInv
<1>16. ASSUME NEW w \in Waiters, NEW num \in Nums, NEW micros \in Timeouts,
              WaitForEvents(w, num, micros)
       PROVE  ClearingInv'
  <2> DEFINE until == IF micros = 0 THEN 0 ELSE now + micros
  <2>1. /\ ~ closed /\ Sleep(w, until) /\ GetTriggeredEvents(num).room = num
    BY <1>16 DEF WaitForEvents
  <2>2. num \in Nat \ {0} /\ until \in Nat
    BY QueueTypes DEF ValidConstants
  <2> HIDE DEF until
  <2>. QED  BY <1>15, <2>1, <2>2
<1>17. ASSUME NEW w \in Waiters, SleeperWakes(w)  PROVE ClearingInv'
  <2>1. /\ waiter[w] = "asleep" /\ waiter' = [waiter EXCEPT ![w] = "woken"]
        /\ ev' = ev /\ closed' = closed
    BY <1>17 DEF SleeperWakes
  <2>2. Cardinality(Woken') = Cardinality(Woken) + 1 /\ Cardinality(Woken) \in Nat
    BY <1>1, <2>1, WokenIs
  <2>3. \A e \in Keys : Len(ev'[e].items) <= Len(ev[e].items)
    BY <1>3, <2>1
  <2>4. Pending' \in Nat /\ Pending \in Nat /\ Pending' <= Pending
    BY <1>4, <2>3
  <2>5. Pending <= Cardinality(Woken) /\ ~ closed
    BY <2>1 DEF ClearingInv
  <2>6. Pending' <= Cardinality(Woken')
    BY <2>2, <2>4, <2>5
  <2>. QED  BY <2>1, <2>5, <2>6 DEF ClearingInv
<1>18. ASSUME NEW w \in Waiters, Resume(w)  PROVE ClearingInv'
  <2>0. asked[w].num \in Nat \ {0} /\ asked[w].until \in Nat
    <3>1. asked[w] \in [num : Nums \cup {1}, until : 0 .. MaxNow]
      BY <1>1
    <3>2. asked[w].num \in Nums \cup {1} /\ asked[w].until \in 0 .. MaxNow
      BY <3>1
    <3>3. Nums \cup {1} \subseteq Nat \ {0} /\ MaxNow \in Nat
      BY DEF ValidConstants
    <3>. QED  BY <3>2, <3>3
  <2>1. CASE ResumeClosed(w)
    <3>1. closed /\ closed' = closed /\ waiter' = [waiter EXCEPT ![w] = "out"]
      BY <2>1 DEF ResumeClosed, Leaves
    <3>2. \A x \in Waiters : waiter[x] # "asleep"
      BY <3>1 DEF ClearingInv
    <3>3. \A x \in Waiters : waiter'[x] # "asleep"
      BY <1>1, <3>1, <3>2
    <3>. QED  BY <3>3 DEF ClearingInv
  <2>2. CASE ResumeWithEvents(w)
    <3>1. /\ waiter[w] = "woken" /\ ~ closed /\ closed' = closed
          /\ Takes(GetTriggeredEvents(asked[w].num))
          /\ GetTriggeredEvents(asked[w].num).room < asked[w].num
          /\ waiter' = [waiter EXCEPT ![w] = "out"]
      BY <2>2 DEF ResumeWithEvents, Leaves, Takes
    <3>2. Pending' < Pending /\ Pending' \in Nat /\ Pending \in Nat
      <4>1. GetTriggeredEvents(asked[w].num).room # asked[w].num
        BY <2>0, <3>1
      <4>2. /\ \A e \in Keys : Len(ev'[e].items) <= Len(ev[e].items)
            /\ \E e \in Keys : Len(ev'[e].items) < Len(ev[e].items)
        BY <1>5, <2>0, <3>1, <4>1
      <4>. QED  BY <1>4, <4>2
    <3>3. Cardinality(Woken') = Cardinality(Woken) - 1 /\ Cardinality(Woken) \in Nat
      BY <1>1, <3>1, WokenIs
    <3>4. ASSUME NEW x \in Waiters, waiter'[x] = "asleep"
          PROVE  Pending' <= Cardinality(Woken')
      <4>1. waiter[x] = "asleep"
        BY <1>1, <3>1, <3>4
      <4>2. Pending <= Cardinality(Woken)
        BY <4>1 DEF ClearingInv
      <4>. QED  BY <3>2, <3>3, <4>2
    <3>. QED  BY <3>1, <3>4 DEF ClearingInv
  <2>3. CASE ResumeLate(w)
    <3>1. /\ ~ closed /\ closed' = closed /\ waiter' = [waiter EXCEPT ![w] = "out"]
          /\ Takes(GetTriggeredEvents(1))
          /\ GetTriggeredEvents(asked[w].num).room = asked[w].num
      BY <2>3 DEF ResumeLate, FindsNothing, Leaves, Takes
    <3>2. \A e \in Keys : TriggerExpiredTimers[e].items = <<>>
      BY <2>0, <3>1, NothingFound
    <3>3. \A e \in Keys : ev'[e].items = <<>>
      BY <3>1, <3>2, TakesIs
    <3>4. Pending' = 0
      BY <1>2, <3>3, HeldNone, PendingIs
    <3>5. Cardinality(Woken') \in Nat
      <4>1. Woken' \subseteq Waiters
        BY DEF Woken
      <4>2. IsFiniteSet(Woken')
        BY <1>1, <4>1, FS_Subset
      <4>. QED  BY <4>2, FS_CardinalityType
    <3>. QED  BY <3>1, <3>4, <3>5 DEF ClearingInv
  <2>4. CASE ResumeAgain(w)
    <3>1. /\ ~ closed /\ Sleep(w, asked[w].until)
          /\ GetTriggeredEvents(asked[w].num).room = asked[w].num
      BY <2>4 DEF ResumeAgain, FindsNothing
    <3>. QED  BY <1>15, <2>0, <3>1
  <2>. QED  BY <1>18, <2>1, <2>2, <2>3, <2>4 DEF Resume
<1>19. CASE QueueNext
  <2>1. \/ \E e \in Keys, triggered \in BOOLEAN : \E deadline, interval :
                Addable(e, deadline, interval, triggered)
                /\ AddEvent(e, deadline, interval, triggered)
        \/ \E e \in Keys : TriggerEvent(e) \/ DeleteEvent(e)
        \/ Close \/ Tick
        \/ \E num \in Nat \ {0} : Poll(num)
        \/ \E x \in Waiters :
             \/ SleeperWakes(x) \/ Resume(x)
             \/ \E num \in Nums, micros \in Timeouts : WaitForEvents(x, num, micros)
    BY <1>19, NextIs
  <2>2. ASSUME NEW e \in Keys, NEW triggered \in BOOLEAN, NEW deadline, NEW interval,
               AddEvent(e, deadline, interval, triggered)
        PROVE  ClearingInv'
    BY <1>8, <1>9, <2>2 DEF AddEvent
  <2>. QED  BY <1>10, <1>11, <1>12, <1>13, <1>14, <1>16, <1>17, <1>18, <2>1, <2>2
<1>. QED  BY <1>12, <1>19

\* Where notify_one is enough: a single waiter, or events that clear when they are delivered
\* and no timers.
NotifyOneIsEnough == (Level = {} /\ Timers = {}) \/ \E w : Waiters = {w}

\* Nobody sleeps on while there are more notifications than threads on their way to fetch
\* them, nor in a queue that has been deleted, wherever notify_one is enough.
THEOREM QueueWakesItsWaiters ==
    ASSUME ValidConstants, NotifyOneIsEnough
    PROVE  QueueSpec => []NoSleeperMissesEvent
<1>1. QueueInit => QueueInv
  BY QueueInitInv
<1>2. QueueInv /\ [QueueNext]_queueVars => QueueInv'
  BY QueueStep
<1>3. ASSUME Level = {}, Timers = {}
      PROVE  QueueSpec => []NoSleeperMissesEvent
  <2>1. QueueInit => ClearingInv
    BY DEF QueueInit, ClearingInv
  <2>2. QueueInv /\ ClearingInv /\ [QueueNext]_queueVars => ClearingInv'
    BY <1>3, ClearingStep
  <2>3. ClearingInv => NoSleeperMissesEvent
    BY DEF ClearingInv, NoSleeperMissesEvent, Woken
  <2>. QED  BY <1>1, <1>2, <2>1, <2>2, <2>3, PTL DEF QueueSpec
<1>4. ASSUME NEW w, Waiters = {w}
      PROVE  QueueSpec => []NoSleeperMissesEvent
  <2>1. QueueInit => AloneInv(w)
    BY <1>4 DEF QueueInit, AloneInv
  <2>2. QueueInv /\ AloneInv(w) /\ [QueueNext]_queueVars => AloneInv(w)'
    BY <1>4, AloneStep
  <2>3. QueueInv /\ AloneInv(w) => NoSleeperMissesEvent
    <3>1. SUFFICES ASSUME QueueInv, AloneInv(w)  PROVE NoSleeperMissesEvent
      OBVIOUS
    <3>2. ASSUME waiter[w] = "asleep", ~ TimerRings(w)
          PROVE  Pending <= Cardinality({x \in Waiters : waiter[x] = "woken"})
      <4>1. \A e \in Keys : ev[e].items = <<>>
        BY <3>1, <3>2 DEF AloneInv
      <4>2. ev \in [Keys -> Records]
        BY <3>1, QueueTypes
      <4>3. Pending = 0
        BY <4>1, <4>2, HeldNone, PendingIs
      <4>4. {x \in Waiters : waiter[x] = "woken"} = {}
        BY <1>4, <3>2
      <4>. QED  BY <4>3, <4>4, FS_EmptySet
    <3>. QED  BY <1>4, <3>1, <3>2 DEF NoSleeperMissesEvent, AloneInv
  <2>. QED  BY <1>1, <1>2, <2>1, <2>2, <2>3, PTL DEF QueueSpec
<1>. QED  BY <1>3, <1>4 DEF NotifyOneIsEnough

\* Timers lose no period, and a single sleeper has set its alarm for the next deadline of a
\* timer, one that was added or moved while it slept included.
THEOREM QueueKeepsTime ==
    ASSUME ValidConstants, NotifyOneIsEnough
    PROVE  QueueSpec => []TimersKeepTime
<1>1. QueueInit => QueueInv
  BY QueueInitInv
<1>2. QueueInv /\ [QueueNext]_queueVars => QueueInv'
  BY QueueStep
<1>3. QueueSpec => []TimersReportEveryPeriod
  BY QueueCountsPeriods
<1>4. ASSUME Timers = {}
      PROVE  QueueSpec => []AlarmCoversDeadlines
  <2>1. QueueInv => AlarmCoversDeadlines
    BY <1>4, NoTimers DEF AlarmCoversDeadlines
  <2>. QED  BY <1>1, <1>2, <2>1, PTL DEF QueueSpec
<1>5. ASSUME NEW w, Waiters = {w}
      PROVE  QueueSpec => []AlarmCoversDeadlines
  <2>1. QueueInit => AloneInv(w)
    BY <1>5 DEF QueueInit, AloneInv
  <2>2. QueueInv /\ AloneInv(w) /\ [QueueNext]_queueVars => AloneInv(w)'
    BY <1>5, AloneStep
  <2>3. AloneInv(w) => AlarmCoversDeadlines
    BY <1>5 DEF AloneInv, AlarmCoversDeadlines
  <2>. QED  BY <1>1, <1>2, <2>1, <2>2, <2>3, PTL DEF QueueSpec
<1>6. QueueSpec => []AlarmCoversDeadlines
  BY <1>4, <1>5 DEF NotifyOneIsEnough
<1>. QED  BY <1>3, <1>6, PTL DEF TimersKeepTime
================================================================================
