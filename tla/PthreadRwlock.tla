------------------------------ MODULE PthreadRwlock ------------------------------
(* The read-write locks of the guest (kernel/pthread.cpp).  A lock that cannot be    *)
(* taken is looked at again after at most SIGNAL_APC_POLL_MICROS, or after a          *)
(* notification; each look is one step under rwlock->m.  A writer that waits is        *)
(* counted, and keeps new readers out; a thread that reads already may read again,     *)
(* and so may the writer.                                                              *)
EXTENDS Integers, FiniteSets, GuestThreads

CONSTANTS
    MaxReads,  \* bound: how often one thread reads at a time
    MaxCalls   \* bound: locks of all threads

VARIABLES
    writer,           \* the thread that writes, or None
    reader_count,     \* how often the lock is read
    waiting_writers,  \* how many writers wait
    readers,          \* the list of readers: how often each thread reads
    call,             \* the lock a thread waits for
    calls             \* locks so far

rwlockVars == <<writer, reader_count, waiting_writers, readers, call, calls>>

Asks(kind, timed) == [kind |-> kind, timed |-> timed]
NoCall == Asks("None", FALSE)
Idle(t) == call[t] = NoCall
Awaits(t, kind) == call[t].kind = kind
FindReader(t) == readers[t] # 0
Counted == calls < MaxCalls /\ calls' = calls + 1

(* What lets a thread in.  The lock a writer asks for while it reads or writes is EDEADLK.   *)
CanRead(t) == (writer = None /\ (waiting_writers = 0 \/ FindReader(t))) \/ writer = t
\* Mutant: a writer that arrives does not look for readers.
CanWriteAmongReaders(t) == writer = None
CanWrite(t) == writer = None /\ reader_count = 0
Deadlocks(t) == writer = t \/ FindReader(t)

AddReader(t) ==
    /\ readers' = [readers EXCEPT ![t] = @ + 1]
    /\ reader_count' = reader_count + 1

(* RwlockLockCooperative for a reader: the first look, and the later ones.                    *)
Rdlock(t) ==
    /\ Idle(t) /\ Counted
    /\ IF CanRead(t)
       THEN /\ readers[t] < MaxReads
            /\ AddReader(t) /\ UNCHANGED call
       ELSE /\ \E timed \in BOOLEAN : call' = [call EXCEPT ![t] = Asks("Read", timed)]
            /\ UNCHANGED <<reader_count, readers>>
    /\ UNCHANGED <<writer, waiting_writers>>

RdlockEnters(t) ==
    /\ Awaits(t, "Read") /\ CanRead(t)
    /\ AddReader(t)
    /\ call' = [call EXCEPT ![t] = NoCall]
    /\ UNCHANGED <<writer, waiting_writers, calls>>

RdlockTimesOut(t) ==
    /\ Awaits(t, "Read") /\ call[t].timed /\ ~ CanRead(t)
    /\ call' = [call EXCEPT ![t] = NoCall]
    /\ UNCHANGED <<writer, reader_count, waiting_writers, readers, calls>>

(* ... and for a writer, who is counted from the first look to the last.                       *)
Wrlock(t) ==
    /\ Idle(t) /\ ~ Deadlocks(t) /\ Counted
    /\ IF CanWrite(t)
       THEN writer' = t /\ UNCHANGED <<waiting_writers, call>>
       ELSE /\ waiting_writers' = waiting_writers + 1
            /\ \E timed \in BOOLEAN : call' = [call EXCEPT ![t] = Asks("Write", timed)]
            /\ UNCHANGED writer
    /\ UNCHANGED <<reader_count, readers>>

\* Mutant: who gives up stays counted.
StaysCounted == UNCHANGED waiting_writers
UnregisterWriterWait == waiting_writers' = waiting_writers - 1

WrlockEnters(t) ==
    /\ Awaits(t, "Write") /\ CanWrite(t)
    /\ waiting_writers' = waiting_writers - 1
    /\ writer' = t
    /\ call' = [call EXCEPT ![t] = NoCall]
    /\ UNCHANGED <<reader_count, readers, calls>>

WrlockTimesOut(t) ==
    /\ Awaits(t, "Write") /\ call[t].timed /\ ~ CanWrite(t)
    /\ UnregisterWriterWait
    /\ call' = [call EXCEPT ![t] = NoCall]
    /\ UNCHANGED <<writer, reader_count, readers, calls>>

(* Tryrdlock and Trywrlock look once; the writer does not look for writers that wait.          *)
Tryrdlock(t) ==
    /\ Idle(t) /\ Counted /\ CanRead(t) /\ readers[t] < MaxReads
    /\ AddReader(t)
    /\ UNCHANGED <<writer, waiting_writers, call>>

Trywrlock(t) ==
    /\ Idle(t) /\ Counted /\ ~ Deadlocks(t) /\ CanWrite(t)
    /\ writer' = t
    /\ UNCHANGED <<reader_count, waiting_writers, readers, call>>

(* A thread that reads stops reading first, also when it writes.                               *)
Unlock(t) ==
    /\ Idle(t)
    /\ \/ /\ FindReader(t)
          /\ readers' = [readers EXCEPT ![t] = @ - 1]
          /\ reader_count' = reader_count - 1
          /\ UNCHANGED writer
       \/ /\ ~ FindReader(t) /\ writer = t
          /\ writer' = None
          /\ UNCHANGED <<reader_count, readers>>
    /\ UNCHANGED <<waiting_writers, call, calls>>

--------------------------------------------------------------------------------
RwlockInit ==
    /\ writer = None
    /\ reader_count = 0 /\ waiting_writers = 0
    /\ readers = [t \in Threads |-> 0]
    /\ call = [t \in Threads |-> NoCall]
    /\ calls = 0

RwlockNext ==
    \E t \in Threads :
        \/ Rdlock(t) \/ RdlockEnters(t) \/ RdlockTimesOut(t) \/ Tryrdlock(t)
        \/ Wrlock(t) \/ WrlockEnters(t) \/ WrlockTimesOut(t) \/ Trywrlock(t)
        \/ Unlock(t)

RwlockSpec == RwlockInit /\ [][RwlockNext]_rwlockVars

(* A thread that waits looks again, and may find the lock taken by another each time; a thread *)
(* that has the lock gives it up some time.                                                     *)
Enters(t) == RdlockEnters(t) \/ WrlockEnters(t)

--------------------------------------------------------------------------------
RwlockTypeOK ==
    /\ writer \in Threads \cup {None}
    /\ reader_count \in Nat /\ waiting_writers \in Nat
    /\ readers \in [Threads -> Nat]
    /\ call \in [Threads -> [kind : {"None", "Read", "Write"}, timed : BOOLEAN]]
    /\ calls \in Nat

(* A writer is alone: nobody else reads while it writes, though it may itself, also after it      *)
(* has waited, timed out and come again.                                                          *)
WritesAlone == writer # None => \A t \in Threads : FindReader(t) => t = writer

(* The count of reads, which is what a writer looks at, is the sum over the list of readers.        *)
Reads(counts) == UNION {{t} \X (1 .. counts[t]) : t \in Threads}
CountsReaders == IsFiniteSet(Reads(readers)) /\ reader_count = Cardinality(Reads(readers))

(* The writers that are counted are those that wait, so that none keeps the readers out for ever   *)
(* after it has gone (rwlock->waiting_writers).                                                    *)
WaitingWriters == {t \in Threads : Awaits(t, "Write")}
CountsWriters == waiting_writers = Cardinality(WaitingWriters)
RwlockConsistent == RwlockTypeOK /\ WritesAlone /\ CountsReaders /\ CountsWriters

================================================================================
