------------------------ MODULE KernelSemaphoreProofs -------------------------
(***************************************************************************)
(* Theorems about the kernel semaphore, for every set of calls, every      *)
(* maximum and either queueing order: what its list and its count keep to, *)
(* and that it implements CountingSemaphore.  Then one about the address   *)
(* waits, whose lists are of the same kind.                                *)
(***************************************************************************)
EXTENDS KernelSemaphore, SyncOnAddress, SequenceLemmas

\* A call has a record exactly while it is in the list, and what it needs is legal.
RecordsMatch ==
    \A c \in Calls : IF Waiting(c) THEN record[c].need \in 1..MaxCount
                     ELSE record[c] = Gone

\* A Signal that runs its loop keeps m_mutex, so the semaphore is not deleted.
SignalSeesSet == scan # 0 => status = "Set"

\* The inductive invariant.  NoSleeperCouldRun needs the list free of
\* repetitions (serving one position must not change another), positive needs
\* and the position of the loop; FreedOnlyWhenIdle needs RecordsMatch.
IInv ==
    /\ TypeOK
    /\ Distinct(waiters)
    /\ RecordsMatch
    /\ SignalSeesSet
    /\ NoSleeperCouldRun
    /\ FreedOnlyWhenIdle

--------------------------------------------------------------------------------
\* AddWaiter adds one call to the list and nothing else.
LEMMA AddWaiterEffect ==
    ASSUME NEW c \in Calls, TypeOK, Distinct(waiters), ~Waiting(c), AddWaiter(c)
    PROVE  /\ waiters' \in Seq(Calls)
           /\ arrivals' \in Seq(Calls)
           /\ Distinct(waiters')
           /\ \A d \in Calls : Waiting(d)' <=> (d = c \/ Waiting(d))
<1>1. waiters \in Seq(Calls) /\ arrivals \in Seq(Calls) /\ Len(waiters) \in Nat
  BY LenProperties DEF TypeOK
<1>2. PICK p \in 1..(Len(waiters) + 1) : waiters' = InsertAt(waiters, p, c)
  BY DEF AddWaiter
<1>3. /\ waiters' \in Seq(Calls)
      /\ Len(waiters') = Len(waiters) + 1
      /\ \A i \in 1..(Len(waiters) + 1) : waiters'[i] =
            IF i < p THEN waiters[i] ELSE IF i = p THEN c ELSE waiters[i - 1]
  <2>1. /\ InsertAt(waiters, p, c) \in Seq(Calls)
        /\ Len(InsertAt(waiters, p, c)) = Len(waiters) + 1
        /\ \A i \in 1..(Len(waiters) + 1) : InsertAt(waiters, p, c)[i] =
              IF i < p THEN waiters[i] ELSE IF i = p THEN c ELSE waiters[i - 1]
    BY <1>1, InsertAtProperties
  <2>. QED  BY <1>2, <2>1
<1>4. arrivals' \in Seq(Calls)
  BY <1>1 DEF AddWaiter
<1>5. Distinct(waiters')
  <2>1. \A i \in 1..Len(waiters) : waiters[i] # c
    BY DEF Waiting
  <2>. QED  BY <1>1, <1>2, <2>1, InsertAtDistinct
<1>6. ASSUME NEW d \in Calls
      PROVE  Waiting(d)' <=> (d = c \/ Waiting(d))
  <2>1. ASSUME Waiting(d)'  PROVE d = c \/ Waiting(d)
    <3>1. PICK i \in 1..Len(waiters') : waiters'[i] = d
      BY <2>1 DEF Waiting
    <3>2. CASE i < p
      <4>1. i \in 1..Len(waiters) /\ waiters[i] = d
        BY <1>1, <1>3, <3>1, <3>2
      <4>. QED  BY <4>1 DEF Waiting
    <3>3. CASE i = p
      BY <1>3, <3>1, <3>3
    <3>4. CASE i > p
      <4>1. i - 1 \in 1..Len(waiters) /\ waiters[i - 1] = d
        BY <1>1, <1>3, <3>1, <3>4
      <4>. QED  BY <4>1 DEF Waiting
    <3>. QED  BY <1>1, <1>3, <3>2, <3>3, <3>4
  <2>2. ASSUME d = c  PROVE Waiting(d)'
    <3>1. p \in 1..Len(waiters') /\ waiters'[p] = c
      BY <1>1, <1>2, <1>3
    <3>. QED  BY <2>2, <3>1 DEF Waiting
  <2>3. ASSUME Waiting(d)  PROVE Waiting(d)'
    <3>1. PICK i \in 1..Len(waiters) : waiters[i] = d
      BY <2>3 DEF Waiting
    <3>2. CASE i < p
      BY <1>1, <1>2, <1>3, <3>1, <3>2 DEF Waiting
    <3>3. CASE ~(i < p)
      <4>1. /\ i + 1 \in 1..(Len(waiters) + 1)
            /\ ~(i + 1 < p) /\ i + 1 # p /\ i + 1 - 1 = i
        BY <1>1, <3>3
      <4>2. waiters'[i + 1] = d
        BY <1>3, <3>1, <4>1
      <4>. QED  BY <1>3, <4>1, <4>2 DEF Waiting
    <3>. QED  BY <3>2, <3>3
  <2>. QED  BY <2>1, <2>2, <2>3
<1>. QED  BY <1>3, <1>4, <1>5, <1>6

\* RemoveWaiter removes one call from the list and nothing else.
LEMMA RemoveWaiterEffect ==
    ASSUME NEW c \in Calls, TypeOK, Distinct(waiters), RemoveWaiter(c)
    PROVE  /\ waiters' \in Seq(Calls)
           /\ arrivals' \in Seq(Calls)
           /\ Distinct(waiters')
           /\ \A d \in Calls : Waiting(d)' <=> (d # c /\ Waiting(d))
<1>1. waiters \in Seq(Calls) /\ arrivals \in Seq(Calls) /\ Len(waiters) \in Nat
  BY LenProperties DEF TypeOK
<1>2. PICK p \in 1..Len(waiters) : waiters[p] = c /\ waiters' = RemoveAt(waiters, p)
  BY DEF RemoveWaiter
<1>3. PICK q \in 1..Len(arrivals) : arrivals' = RemoveAt(arrivals, q)
  BY DEF RemoveWaiter
<1>4. /\ waiters' \in Seq(Calls)
      /\ Len(waiters') = Len(waiters) - 1
      /\ \A i \in 1..(Len(waiters) - 1) :
            waiters'[i] = IF i < p THEN waiters[i] ELSE waiters[i + 1]
  BY <1>1, <1>2, RemoveAtProperties
<1>5. arrivals' \in Seq(Calls)
  BY <1>1, <1>3, RemoveAtProperties
<1>6. /\ Distinct(waiters')
      /\ \A i \in 1..(Len(waiters) - 1) : waiters'[i] # c
      /\ \A i \in 1..Len(waiters) : i # p =>
            \E j \in 1..(Len(waiters) - 1) : waiters'[j] = waiters[i]
  <2>1. /\ Distinct(RemoveAt(waiters, p))
        /\ \A i \in 1..(Len(waiters) - 1) : RemoveAt(waiters, p)[i] # waiters[p]
        /\ \A i \in 1..Len(waiters) : i # p =>
              \E j \in 1..(Len(waiters) - 1) : RemoveAt(waiters, p)[j] = waiters[i]
    BY <1>1, RemoveAtDistinct
  <2>. QED  BY <1>2, <2>1
<1>7. ASSUME NEW d \in Calls
      PROVE  Waiting(d)' <=> (d # c /\ Waiting(d))
  <2>1. ASSUME Waiting(d)'  PROVE d # c /\ Waiting(d)
    <3>1. PICK i \in 1..Len(waiters') : waiters'[i] = d
      BY <2>1 DEF Waiting
    <3>2. i \in 1..(Len(waiters) - 1) /\ i \in 1..Len(waiters) /\ i + 1 \in 1..Len(waiters)
      BY <1>1, <1>4, <3>1
    <3>. QED  BY <1>4, <1>6, <3>1, <3>2 DEF Waiting
  <2>2. ASSUME d # c, Waiting(d)  PROVE Waiting(d)'
    <3>1. PICK i \in 1..Len(waiters) : waiters[i] = d
      BY <2>2 DEF Waiting
    <3>. QED  BY <1>2, <1>4, <1>6, <2>2, <3>1 DEF Waiting
  <2>. QED  BY <2>1, <2>2
<1>. QED  BY <1>4, <1>5, <1>6, <1>7

--------------------------------------------------------------------------------
\* While no Signal runs, NoSleeperCouldRun speaks of calls, not of positions.
LEMMA SleepersOutsideSignal ==
    ASSUME TypeOK, scan = 0
    PROVE  NoSleeperCouldRun <=>
              \A c \in Calls : Waiting(c) /\ ~record[c].ready => record[c].need > count
<1>1. \A i \in 1..Len(waiters) : waiters[i] \in Calls
  BY ElementOfSeq DEF TypeOK
<1>. QED  BY <1>1 DEF NoSleeperCouldRun, Waiting

LEMMA InitIInv == Init => IInv
<1> SUFFICES ASSUME Init PROVE IInv
  OBVIOUS
<1>1. waiters = <<>> /\ Len(waiters) = 0 /\ \A c \in Calls : ~Waiting(c)
  BY DEF Init, Waiting
<1>2. Gone \in WaitingThread
  BY DEF Gone, NewRecord, WaitingThread
<1>3. TypeOK
  BY <1>1, <1>2, CreateAssumption DEF Init, TypeOK, ValidCreate
<1>4. RecordsMatch /\ SignalSeesSet /\ NoSleeperCouldRun /\ FreedOnlyWhenIdle
  BY <1>1 DEF Init, RecordsMatch, SignalSeesSet, NoSleeperCouldRun, FreedOnlyWhenIdle
<1>. QED  BY <1>1, <1>3, <1>4 DEF IInv, Distinct

\* A call leaves the list, by its result or by its timeout.
LEMMA LeavingKeepsIInv ==
    ASSUME NEW c \in Calls, IInv, Unlocked, RemoveWaiter(c),
           record' = [record EXCEPT ![c] = Gone],
           UNCHANGED <<fifo, count, status, scan>>
    PROVE  IInv'
<1> USE DEF IInv
<1>1. /\ waiters' \in Seq(Calls) /\ arrivals' \in Seq(Calls)
      /\ Distinct(waiters')
      /\ \A d \in Calls : Waiting(d)' <=> (d # c /\ Waiting(d))
  BY RemoveWaiterEffect
<1>2. Gone \in WaitingThread
  BY DEF Gone, NewRecord, WaitingThread
<1>3. record' \in [Calls -> WaitingThread] /\ record'[c] = Gone
      /\ \A d \in Calls \ {c} : record'[d] = record[d]
  BY <1>2 DEF TypeOK
<1>4. Len(waiters') \in Nat /\ \A i \in 1..Len(waiters') : waiters'[i] \in Calls
  BY <1>1, LenProperties, ElementOfSeq
<1>5. TypeOK'
  BY <1>1, <1>3, <1>4 DEF TypeOK, Unlocked
<1>6. RecordsMatch'
  BY <1>1, <1>3 DEF RecordsMatch
<1>7. NoSleeperCouldRun'
  <2>1. \A d \in Calls : Waiting(d) /\ ~record[d].ready => record[d].need > count
    BY SleepersOutsideSignal DEF Unlocked
  <2>. QED  BY <1>1, <1>3, <1>4, <2>1 DEF NoSleeperCouldRun, Waiting
<1>8. FreedOnlyWhenIdle'
  BY <1>1, <1>3 DEF FreedOnlyWhenIdle
<1>. QED  BY <1>1, <1>5, <1>6, <1>7, <1>8 DEF SignalSeesSet

\* Cancel and the destructor make every blocked call ready.
LEMMA ReleaseAllEffect ==
    ASSUME NEW result \in {"Canceled", "Deleted"}, TypeOK, RecordsMatch,
           ReleaseAll(result), UNCHANGED waiters
    PROVE  /\ record' \in [Calls -> WaitingThread]
           /\ RecordsMatch'
           /\ \A c \in Calls : Waiting(c) => record'[c].ready
           /\ \A c \in Calls : ~Waiting(c) => record'[c] = record[c]
<1>1. \A c \in Calls :
         record'[c] = IF Waiting(c) /\ ~record[c].ready
                      THEN [record[c] EXCEPT !.result = result, !.ready = TRUE]
                      ELSE record[c]
  BY DEF ReleaseAll
<1>2. ASSUME NEW c \in Calls
      PROVE  /\ record'[c] \in WaitingThread
             /\ record'[c].need = record[c].need
             /\ Waiting(c) => record'[c].ready
             /\ ~Waiting(c) => record'[c] = record[c]
  <2>1. record[c] \in WaitingThread
    BY DEF TypeOK
  <2>2. CASE Waiting(c) /\ ~record[c].ready
    <3>1. record'[c] = [record[c] EXCEPT !.result = result, !.ready = TRUE]
      BY <1>1, <2>2
    <3>. QED  BY <2>1, <2>2, <3>1 DEF WaitingThread
  <2>3. CASE ~(Waiting(c) /\ ~record[c].ready)
    BY <1>1, <2>1, <2>3
  <2>. QED  BY <2>2, <2>3
<1>3. record' \in [Calls -> WaitingThread]
  <2>1. DOMAIN record' = Calls /\ record' = [c \in Calls |-> record'[c]]
    BY DEF ReleaseAll
  <2>. QED  BY <1>2, <2>1
<1>4. RecordsMatch'
  <2>1. \A c \in Calls : Waiting(c)' <=> Waiting(c)
    BY DEF Waiting
  <2>. QED  BY <1>2, <2>1 DEF RecordsMatch
<1>. QED  BY <1>2, <1>3, <1>4

\* Serving the waiter at the position of the loop keeps the waiters the loop has
\* passed unable to run, because the count only falls.
LEMMA WakeWaiterKeepsIInv == IInv /\ WakeWaiter => IInv'
<1> SUFFICES ASSUME IInv, WakeWaiter PROVE IInv'
  OBVIOUS
<1> USE DEF IInv
<1> DEFINE c == waiters[scan]
<1>1. /\ waiters' = waiters /\ arrivals' = arrivals
      /\ fifo' = fifo /\ status' = status
      /\ scan' = scan + 1 /\ scan \in 1..Len(waiters)
  BY DEF WakeWaiter
<1>2. /\ waiters \in Seq(Calls) /\ Len(waiters) \in Nat
      /\ \A i \in 1..Len(waiters) : waiters[i] \in Calls
      /\ c \in Calls
  BY <1>1, LenProperties, ElementOfSeq DEF TypeOK
<1>3. Waiting(c) /\ \A d \in Calls : Waiting(d)' <=> Waiting(d)
  BY <1>1 DEF Waiting
<1>4. record[c] \in WaitingThread /\ record[c].need \in 1..MaxCount
  BY <1>2, <1>3 DEF TypeOK, RecordsMatch
<1>5. status = "Set"
  BY <1>1 DEF SignalSeesSet
<1>a. count \in MinCount..MaxCount /\ MaxCount \in Int /\ MinCount \in Int /\ MinCount <= 0
  BY CreateAssumption DEF TypeOK
<1>6. CASE Serves(c)
  <2>1. /\ count' = count - record[c].need
        /\ record' = [record EXCEPT ![c].result = "Ok", ![c].ready = TRUE]
    BY <1>6 DEF WakeWaiter
  <2>2. count' \in MinCount..MaxCount /\ count' <= count
    BY <1>4, <1>6, <1>a, <2>1 DEF Serves
  <2>3. /\ record' \in [Calls -> WaitingThread]
        /\ record'[c].ready /\ record'[c].need = record[c].need
        /\ \A d \in Calls \ {c} : record'[d] = record[d]
    BY <1>2, <1>4, <2>1 DEF TypeOK, WaitingThread
  <2> HIDE DEF c
  <2>4. TypeOK'
    BY <1>1, <1>2, <2>2, <2>3 DEF TypeOK
  <2>5. RecordsMatch'
    BY <1>3, <1>4, <2>3 DEF RecordsMatch
  <2>6. NoSleeperCouldRun'
    <3> SUFFICES ASSUME NEW i \in 1..Len(waiters), ~record'[waiters[i]].ready,
                        scan + 1 = 0 \/ i < scan + 1
                 PROVE  record'[waiters[i]].need > count'
      BY <1>1 DEF NoSleeperCouldRun
    <3>1. waiters[i] # c /\ i # scan
      BY <2>3 DEF c
    <3>2. i < scan
      BY <1>1, <1>2, <3>1
    <3>3. record[waiters[i]].need > count
      BY <1>2, <2>3, <3>1, <3>2 DEF NoSleeperCouldRun
    <3>4. record[waiters[i]].need \in Int
      BY <1>2 DEF TypeOK, WaitingThread
    <3>. QED  BY <1>2, <1>a, <2>2, <2>3, <3>1, <3>3, <3>4
  <2>. QED  BY <1>1, <1>5, <2>4, <2>5, <2>6 DEF SignalSeesSet, FreedOnlyWhenIdle
<1>7. CASE ~Serves(c)
  <2>1. UNCHANGED <<count, record>>
    BY <1>7 DEF WakeWaiter
  <2>2. TypeOK'
    BY <1>1, <1>2, <2>1 DEF TypeOK
  <2>3. RecordsMatch'
    BY <1>3, <2>1 DEF RecordsMatch
  <2>4. NoSleeperCouldRun'
    <3>1. ~record[c].ready => record[c].need > count
      BY <1>4, <1>7, <1>a DEF Serves
    <3> SUFFICES ASSUME NEW i \in 1..Len(waiters), ~record[waiters[i]].ready,
                        i <= scan
                 PROVE  record[waiters[i]].need > count
      BY <1>1, <1>2, <2>1 DEF NoSleeperCouldRun
    <3>2. CASE i = scan
      BY <3>1, <3>2
    <3>3. CASE i < scan
      BY <1>1, <3>3 DEF NoSleeperCouldRun
    <3>. QED  BY <1>1, <1>2, <3>2, <3>3
  <2>. QED  BY <1>1, <1>5, <2>1, <2>2, <2>3, <2>4 DEF SignalSeesSet, FreedOnlyWhenIdle
<1>. QED  BY <1>6, <1>7

\* Every step preserves the inductive invariant.
LEMMA NextKeepsIInv == IInv /\ [Next]_vars => IInv'
<1> SUFFICES ASSUME IInv, [Next]_vars PROVE IInv'
  OBVIOUS
<1> USE CreateAssumption, GuestAssumption DEF IInv, ValidCreate
<1>1. /\ waiters \in Seq(Calls) /\ Len(waiters) \in Nat
      /\ \A i \in 1..Len(waiters) : waiters[i] \in Calls
  BY LenProperties, ElementOfSeq DEF TypeOK
<1>2. ASSUME NEW need \in NeedCounts, WaitAtOnce(need) PROVE IInv'
  <2>1. /\ scan = 0 /\ count' \in MinCount..MaxCount /\ count' <= count
        /\ UNCHANGED <<fifo, status, waiters, record, scan, arrivals>>
    BY <1>2 DEF WaitAtOnce, TypeOK, Unlocked
  <2>2. \A d \in Calls : Waiting(d)' <=> Waiting(d)
    BY <2>1 DEF Waiting
  <2>3. TypeOK' /\ RecordsMatch' /\ SignalSeesSet' /\ FreedOnlyWhenIdle'
    BY <2>1, <2>2 DEF TypeOK, RecordsMatch, SignalSeesSet, FreedOnlyWhenIdle
  <2>4. NoSleeperCouldRun'
    <3>1. \A i \in 1..Len(waiters) : record[waiters[i]].need \in Int
      BY <1>1 DEF TypeOK, WaitingThread
    <3>2. count \in Int /\ count' \in Int
      BY <2>1 DEF TypeOK
    <3>. QED  BY <2>1, <3>1, <3>2 DEF NoSleeperCouldRun
  <2>. QED  BY <2>1, <2>3, <2>4
<1>3. ASSUME NEW c \in Calls, NEW need \in NeedCounts, NEW timed \in BOOLEAN,
             WaitBlocks(c, need, timed)
      PROVE  IInv'
  <2>1. /\ scan = 0 /\ status = "Set" /\ need \in 1..MaxCount /\ need > count
        /\ record' = [record EXCEPT ![c] = NewRecord(need, timed)]
        /\ UNCHANGED <<fifo, count, status, scan>>
    BY <1>3 DEF WaitBlocks, Unlocked, TypeOK
  <2>2. /\ waiters' \in Seq(Calls) /\ arrivals' \in Seq(Calls)
        /\ Distinct(waiters')
        /\ \A d \in Calls : Waiting(d)' <=> (d = c \/ Waiting(d))
    BY <1>3, AddWaiterEffect DEF WaitBlocks
  <2>3. NewRecord(need, timed) \in WaitingThread /\ NewRecord(need, timed).need = need
    BY <2>1 DEF NewRecord, WaitingThread
  <2>4. /\ record' \in [Calls -> WaitingThread] /\ record'[c].need = need
        /\ \A d \in Calls \ {c} : record'[d] = record[d]
    BY <2>1, <2>3 DEF TypeOK
  <2>5. Len(waiters') \in Nat /\ \A i \in 1..Len(waiters') : waiters'[i] \in Calls
    BY <2>2, LenProperties, ElementOfSeq
  <2>6. TypeOK' /\ RecordsMatch' /\ SignalSeesSet' /\ FreedOnlyWhenIdle'
    BY <2>1, <2>2, <2>4, <2>5
    DEF TypeOK, RecordsMatch, SignalSeesSet, FreedOnlyWhenIdle
  <2>7. NoSleeperCouldRun'
    <3>1. \A d \in Calls : Waiting(d) /\ ~record[d].ready => record[d].need > count
      BY <2>1, SleepersOutsideSignal
    <3>. QED  BY <2>1, <2>2, <2>4, <2>5, <3>1 DEF NoSleeperCouldRun, Waiting
  <2>. QED  BY <2>2, <2>6, <2>7
<1>4. ASSUME NEW c \in Calls, WaitReturns(c) PROVE IInv'
  BY <1>4, LeavingKeepsIInv DEF WaitReturns
<1>5. ASSUME NEW c \in Calls, WaitTimesOut(c) PROVE IInv'
  BY <1>5, LeavingKeepsIInv DEF WaitTimesOut
<1>6. ASSUME NEW n \in SignalCounts, Signal(n) PROVE IInv'
  <2>1. /\ status = "Set" /\ scan' = 1 /\ count' \in MinCount..MaxCount
        /\ UNCHANGED <<fifo, status, waiters, record, arrivals>>
    BY <1>6 DEF Signal, Fits, TypeOK
  <2>2. \A d \in Calls : Waiting(d)' <=> Waiting(d)
    BY <2>1 DEF Waiting
  <2>3. TypeOK' /\ RecordsMatch' /\ SignalSeesSet' /\ FreedOnlyWhenIdle'
    BY <1>1, <2>1, <2>2 DEF TypeOK, RecordsMatch, SignalSeesSet, FreedOnlyWhenIdle
  <2>4. NoSleeperCouldRun'
    BY <1>1, <2>1 DEF NoSleeperCouldRun
  <2>. QED  BY <2>1, <2>3, <2>4
<1>7. CASE WakeWaiter
  BY <1>7, WakeWaiterKeepsIInv
<1>8. CASE SignalReturns
  <2>1. /\ scan > Len(waiters) /\ scan' = 0
        /\ UNCHANGED <<fifo, count, status, waiters, record, arrivals>>
    BY <1>8 DEF SignalReturns
  <2>2. \A d \in Calls : Waiting(d)' <=> Waiting(d)
    BY <2>1 DEF Waiting
  <2>3. TypeOK' /\ RecordsMatch' /\ SignalSeesSet' /\ FreedOnlyWhenIdle'
    BY <1>1, <2>1, <2>2 DEF TypeOK, RecordsMatch, SignalSeesSet, FreedOnlyWhenIdle
  <2>4. NoSleeperCouldRun'
    <3>1. scan \in Nat /\ \A i \in 1..Len(waiters) : i < scan
      BY <1>1, <2>1 DEF TypeOK
    <3>. QED  BY <2>1, <3>1 DEF NoSleeperCouldRun
  <2>. QED  BY <2>1, <2>3, <2>4
<1>9. ASSUME NEW k \in CancelCounts, Cancel(k) PROVE IInv'
  <2>1. /\ scan = 0 /\ status = "Set" /\ count' \in MinCount..MaxCount
        /\ ReleaseAll("Canceled") /\ UNCHANGED <<fifo, status, waiters, scan, arrivals>>
    BY <1>9 DEF Cancel, Unlocked, TypeOK
  <2>. QED  BY <1>1, <2>1, ReleaseAllEffect
       DEF TypeOK, SignalSeesSet, FreedOnlyWhenIdle, NoSleeperCouldRun, Waiting
<1>10. CASE DeleteStarts
  <2>1. /\ scan = 0 /\ status = "Set" /\ status' = "Deleted"
        /\ ReleaseAll("Deleted") /\ UNCHANGED <<fifo, count, waiters, scan, arrivals>>
    BY <1>10 DEF DeleteStarts, Unlocked
  <2>. QED  BY <1>1, <2>1, ReleaseAllEffect
       DEF TypeOK, SignalSeesSet, FreedOnlyWhenIdle, NoSleeperCouldRun, Waiting
<1>11. CASE DeleteReturns
  <2>1. /\ scan = 0 /\ status = "Deleted" /\ status' = "Freed" /\ waiters = <<>>
        /\ UNCHANGED <<fifo, count, waiters, record, scan, arrivals>>
    BY <1>11 DEF DeleteReturns, Unlocked
  <2>2. \A d \in Calls : ~Waiting(d) /\ ~Waiting(d)'
    BY <2>1 DEF Waiting
  <2>. QED  BY <1>1, <2>1, <2>2
       DEF TypeOK, RecordsMatch, SignalSeesSet, FreedOnlyWhenIdle, NoSleeperCouldRun
<1>12. CASE UNCHANGED vars
  BY <1>12 DEF vars, TypeOK, RecordsMatch, SignalSeesSet, NoSleeperCouldRun,
               FreedOnlyWhenIdle, Waiting
<1>. QED  BY <1>2, <1>3, <1>4, <1>5, <1>6, <1>7, <1>8, <1>9, <1>10, <1>11, <1>12 DEF Next

--------------------------------------------------------------------------------
\* The inductive invariant holds in every reachable state of every semaphore.
THEOREM Invariance == Spec => []IInv
<1>. QED  BY InitIInv, NextKeepsIInv, PTL DEF Spec

\* The count of a semaphore never exceeds m_max_count, and its list and records are
\* well formed, however many calls there are and whatever they signal.
THEOREM TypeCorrect == Spec => []TypeOK
<1>1. IInv => TypeOK
  BY DEF IInv
<1>. QED  BY <1>1, Invariance, PTL

NoDebt == count >= 0
NaturalSignals == SignalCounts \subseteq Nat

\* Only a negative Signal takes the count below zero: Wait and WakeWaiters take no
\* more units than there are, and Cancel sets none that is negative.
THEOREM CountIsNatural == Spec /\ NaturalSignals => []NoDebt
<1>1. Init => NoDebt
  BY CreateAssumption DEF Init, ValidCreate, NoDebt
<1>2. NaturalSignals => NaturalSignals'
  BY DEF NaturalSignals
<1>3. NaturalSignals /\ IInv /\ NoDebt /\ [Next]_vars => NoDebt'
  <2> SUFFICES ASSUME NaturalSignals, IInv, NoDebt, [Next]_vars PROVE count' >= 0
    BY DEF NoDebt
  <2>0. /\ count \in Int /\ count >= 0 /\ SignalCounts \subseteq Nat
        /\ InitCount >= 0 /\ InitCount \in Int /\ MaxCount \in Int
        /\ NeedCounts \subseteq Int /\ CancelCounts \subseteq Int
    BY CreateAssumption, GuestAssumption DEF IInv, TypeOK, ValidCreate, NoDebt, NaturalSignals
  <2>1. ASSUME NEW need \in NeedCounts, WaitAtOnce(need) PROVE count' >= 0
    BY <2>0, <2>1 DEF WaitAtOnce
  <2>2. CASE WakeWaiter
    <3>1. record[waiters[scan]].need \in Int
      <4>1. waiters[scan] \in Calls
        BY <2>2, ElementOfSeq DEF WakeWaiter, IInv, TypeOK
      <4>. QED  BY <4>1 DEF IInv, TypeOK, WaitingThread
    <3>. QED  BY <2>0, <2>2, <3>1 DEF WakeWaiter, Serves
  <2>3. ASSUME NEW n \in SignalCounts, Signal(n) PROVE count' >= 0
    BY <2>0, <2>3 DEF Signal
  <2>4. ASSUME NEW k \in CancelCounts, Cancel(k) PROVE count' >= 0
    BY <2>0, <2>4 DEF Cancel
  <2>5. ASSUME UNCHANGED count PROVE count' >= 0
    BY <2>0, <2>5
  <2>. QED  BY <2>1, <2>2, <2>3, <2>4, <2>5 DEF Next, vars, WaitBlocks, WaitReturns, WaitTimesOut,
               SignalReturns, DeleteStarts, DeleteReturns
<1>. QED  BY <1>1, <1>2, <1>3, Invariance, PTL DEF Spec

\* KernelSemaPrivate never loses a wakeup: a call that sleeps outside of a Signal
\* needs more units than there are.
THEOREM NoLostWakeup == Spec => []SemaphoreConsistent
<1>1. IInv => SemaphoreConsistent
  BY DEF IInv, SemaphoreConsistent
<1>. QED  BY <1>1, Invariance, PTL

\* KernelDeleteSema frees the object only when no call is blocked in it any more.
THEOREM NoUseAfterDelete == Spec => []FreedOnlyWhenIdle
<1>1. IInv => FreedOnlyWhenIdle
  BY DEF IInv
<1>. QED  BY <1>1, Invariance, PTL

--------------------------------------------------------------------------------
(* The refinement of CountingSemaphore                                     *)

\* The history holds the blocked calls, once each.
ArrivalsMatch ==
    /\ Distinct(arrivals)
    /\ \A c \in Calls : Waiting(c) <=> \E i \in 1..Len(arrivals) : arrivals[i] = c

\* The order of service, with the history as a parameter.
Ahead(s, c, d) == \E i, j \in 1..Len(s) : i < j /\ s[i] = c /\ s[j] = d

Order(f, s, c, d) ==
    IF f \/ Priority[c] = Priority[d] THEN Ahead(s, c, d) ELSE Priority[c] < Priority[d]

\* The list is in that order.
InOrder ==
    \A i, j \in 1..Len(waiters) :
        i < j => Order(fifo, arrivals, waiters[i], waiters[j])

RInv == IInv /\ ArrivalsMatch /\ InOrder

--------------------------------------------------------------------------------
\* Arrivals of calls that stay keep their order when one call leaves.
LEMMA RemoveAtKeepsOrder ==
    ASSUME NEW S, NEW s \in Seq(S), NEW p \in 1..Len(s),
           NEW i \in 1..Len(s), NEW j \in 1..Len(s), i < j, i # p, j # p
    PROVE  \E k, l \in 1..Len(RemoveAt(s, p)) :
              k < l /\ RemoveAt(s, p)[k] = s[i] /\ RemoveAt(s, p)[l] = s[j]
<1> DEFINE t == RemoveAt(s, p)
           k == IF i < p THEN i ELSE i - 1
           l == IF j < p THEN j ELSE j - 1
<1>1. /\ Len(s) \in Nat /\ Len(t) = Len(s) - 1
      /\ \A n \in 1..(Len(s) - 1) : t[n] = IF n < p THEN s[n] ELSE s[n + 1]
  BY LenProperties, RemoveAtProperties
<1> HIDE DEF t
<1>2. k \in 1..(Len(s) - 1) /\ l \in 1..(Len(s) - 1) /\ k < l
  BY <1>1
<1>3. t[k] = s[i] /\ t[l] = s[j]
  <2>1. t[k] = s[i]
    <3>1. CASE i < p
      BY <1>1, <1>2, <3>1
    <3>2. CASE ~(i < p)
      <4>1. k = i - 1 /\ ~(i - 1 < p) /\ i - 1 + 1 = i
        BY <3>2
      <4>. QED  BY <1>1, <1>2, <4>1
    <3>. QED  BY <3>1, <3>2
  <2>2. t[l] = s[j]
    <3>1. CASE j < p
      BY <1>1, <1>2, <3>1
    <3>2. CASE ~(j < p)
      <4>1. l = j - 1 /\ ~(j - 1 < p) /\ j - 1 + 1 = j
        BY <3>2
      <4>. QED  BY <1>1, <1>2, <4>1
    <3>. QED  BY <3>1, <3>2
  <2>. QED  BY <2>1, <2>2
<1>4. \E m, n \in 1..Len(t) : m < n /\ t[m] = s[i] /\ t[n] = s[j]
  BY <1>1, <1>2, <1>3
<1>. QED  BY <1>4 DEF t

\* An element of the list is a call, and it is in the history.
LEMMA ElementsAreCalls ==
    ASSUME RInv
    PROVE  /\ waiters \in Seq(Calls) /\ arrivals \in Seq(Calls)
           /\ Len(waiters) \in Nat /\ Len(arrivals) \in Nat
           /\ \A i \in 1..Len(waiters) : waiters[i] \in Calls /\ Waiting(waiters[i])
           /\ \A i \in 1..Len(arrivals) : arrivals[i] \in Calls
BY LenProperties, ElementOfSeq DEF RInv, IInv, TypeOK, Waiting

\* Two calls never precede each other.
LEMMA OrderAsymmetric ==
    ASSUME RInv, NEW c \in Calls, NEW d \in Calls,
           Order(fifo, arrivals, c, d), Order(fifo, arrivals, d, c)
    PROVE  FALSE
<1>1. Len(arrivals) \in Nat /\ \A i, j \in 1..Len(arrivals) : arrivals[i] = arrivals[j] => i = j
  BY ElementsAreCalls DEF RInv, ArrivalsMatch, Distinct
<1>2. Priority[c] \in Int /\ Priority[d] \in Int
  BY GuestAssumption
<1>3. CASE fifo \/ Priority[c] = Priority[d]
  <2>1. Ahead(arrivals, c, d) /\ Ahead(arrivals, d, c)
    BY <1>3 DEF Order
  <2>2. PICK i, j \in 1..Len(arrivals) : i < j /\ arrivals[i] = c /\ arrivals[j] = d
    BY <2>1 DEF Ahead
  <2>3. PICK k, l \in 1..Len(arrivals) : k < l /\ arrivals[k] = d /\ arrivals[l] = c
    BY <2>1 DEF Ahead
  <2>4. i = l /\ j = k
    BY <1>1, <2>2, <2>3
  <2>. QED  BY <1>1, <2>2, <2>3, <2>4
<1>4. CASE ~(fifo \/ Priority[c] = Priority[d])
  BY <1>2, <1>4 DEF Order
<1>. QED  BY <1>3, <1>4

--------------------------------------------------------------------------------
\* A new call goes to its place in the order of service.
LEMMA ArrivingKeepsOrder ==
    ASSUME RInv, NEW c \in Calls, ~Waiting(c), AddWaiter(c), fifo' = fifo
    PROVE  ArrivalsMatch' /\ InOrder'
<1> USE ElementsAreCalls
<1>1. PICK p \in 1..(Len(waiters) + 1) : GoesAt(c, p) /\ waiters' = InsertAt(waiters, p, c)
  BY DEF AddWaiter
<1>2. /\ Len(waiters') = Len(waiters) + 1
      /\ \A i \in 1..(Len(waiters) + 1) : waiters'[i] =
            IF i < p THEN waiters[i] ELSE IF i = p THEN c ELSE waiters[i - 1]
  BY <1>1, InsertAtProperties
<1>3. /\ Len(arrivals') = Len(arrivals) + 1
      /\ \A i \in 1..Len(arrivals) : arrivals'[i] = arrivals[i]
      /\ arrivals'[Len(arrivals) + 1] = c
  BY DEF AddWaiter
<1>4. \A d \in Calls : Waiting(d)' <=> (d = c \/ Waiting(d))
  BY AddWaiterEffect DEF RInv, IInv
<1>5. \A i \in 1..Len(arrivals) : arrivals[i] # c
  BY DEF RInv, ArrivalsMatch
<1>6. ArrivalsMatch'
  <2>1. Distinct(arrivals')
    <3>1. \A i, j \in 1..Len(arrivals) : arrivals[i] = arrivals[j] => i = j
      BY DEF RInv, ArrivalsMatch, Distinct
    <3>2. ASSUME NEW i \in 1..Len(arrivals'), NEW j \in 1..Len(arrivals'),
                 arrivals'[i] = arrivals'[j]
          PROVE  i = j
      <4>1. Len(arrivals) \in Nat
        BY LenProperties DEF RInv, IInv, TypeOK
      <4>2. \A k \in 1..Len(arrivals') : k = Len(arrivals) + 1 \/ k \in 1..Len(arrivals)
        BY <1>3, <4>1
      <4>. QED  BY <1>3, <1>5, <3>1, <3>2, <4>2
    <3>. QED  BY <3>2 DEF Distinct
  <2>2. ASSUME NEW d \in Calls
        PROVE  Waiting(d)' <=> \E i \in 1..Len(arrivals') : arrivals'[i] = d
    <3>1. Waiting(d) <=> \E i \in 1..Len(arrivals) : arrivals[i] = d
      BY DEF RInv, ArrivalsMatch
    <3>2. (\E i \in 1..Len(arrivals') : arrivals'[i] = d)
             <=> (d = c \/ \E i \in 1..Len(arrivals) : arrivals[i] = d)
      BY <1>3
    <3>. QED  BY <1>4, <3>1, <3>2
  <2>. QED  BY <2>1, <2>2 DEF ArrivalsMatch
<1>7. ASSUME NEW a, NEW b, Order(fifo, arrivals, a, b)
      PROVE  Order(fifo', arrivals', a, b)
  <2>1. Ahead(arrivals, a, b) => Ahead(arrivals', a, b)
    BY <1>3 DEF Ahead
  <2>. QED  BY <1>7, <2>1 DEF Order
<1>8. Priority[c] \in Int /\ \A d \in Calls : Priority[d] \in Int
  BY GuestAssumption
<1>9. ASSUME NEW i \in 1..Len(waiters'), NEW j \in 1..Len(waiters'), i < j
      PROVE  Order(fifo', arrivals', waiters'[i], waiters'[j])
  <2>1. CASE j = p
    <3>1. i \in 1..Len(waiters) /\ waiters'[i] = waiters[i] /\ waiters'[j] = c /\ i < p
      BY <1>2, <1>9, <2>1
    <3>2. Ahead(arrivals', waiters[i], c)
      <4>1. PICK k \in 1..Len(arrivals) : arrivals[k] = waiters[i]
        BY <3>1 DEF RInv, ArrivalsMatch
      <4>2. /\ k \in 1..Len(arrivals') /\ Len(arrivals) + 1 \in 1..Len(arrivals')
            /\ k < Len(arrivals) + 1
            /\ arrivals'[k] = waiters[i] /\ arrivals'[Len(arrivals) + 1] = c
        BY <1>3, <4>1
      <4>. QED  BY <4>2 DEF Ahead
    <3>3. ~fifo => Priority[waiters[i]] <= Priority[c]
      <4>1. i \in 1..(p - 1)
        BY <3>1
      <4>. QED  BY <1>1, <4>1 DEF GoesAt
    <3>. QED  BY <1>8, <3>1, <3>2, <3>3 DEF Order
  <2>2. CASE i = p
    <3>1. j - 1 \in 1..Len(waiters) /\ waiters'[i] = c /\ waiters'[j] = waiters[j - 1] /\ p <= j - 1
      BY <1>2, <1>9, <2>2
    <3>2. ~fifo /\ Priority[waiters[p]] > Priority[c]
      BY <1>1, <3>1 DEF GoesAt
    <3>3. Priority[waiters[p]] <= Priority[waiters[j - 1]]
      <4>1. CASE p = j - 1
        BY <1>8, <3>1, <4>1
      <4>2. CASE p < j - 1
        <5>1. Order(fifo, arrivals, waiters[p], waiters[j - 1])
          BY <3>1, <4>2 DEF RInv, InOrder
        <5>. QED  BY <1>8, <3>1, <3>2, <4>2, <5>1 DEF Order
      <4>. QED  BY <3>1, <4>1, <4>2
    <3>4. Priority[c] < Priority[waiters[j - 1]]
      BY <1>8, <3>1, <3>2, <3>3
    <3>. QED  BY <1>8, <3>1, <3>2, <3>4 DEF Order
  <2>3. CASE i # p /\ j # p
    <3>1. PICK k, l \in 1..Len(waiters) :
             k < l /\ waiters'[i] = waiters[k] /\ waiters'[j] = waiters[l]
      <4> DEFINE k == IF i < p THEN i ELSE i - 1
                 l == IF j < p THEN j ELSE j - 1
      <4>1. k \in 1..Len(waiters) /\ l \in 1..Len(waiters) /\ k < l
        BY <1>2, <1>9, <2>3
      <4>2. waiters'[i] = waiters[k] /\ waiters'[j] = waiters[l]
        BY <1>2, <2>3
      <4>. QED  BY <4>1, <4>2
    <3>2. Order(fifo, arrivals, waiters[k], waiters[l])
      BY <3>1 DEF RInv, InOrder
    <3>. QED  BY <1>7, <3>1, <3>2
  <2>. QED  BY <2>1, <2>2, <2>3
<1>. QED  BY <1>6, <1>9 DEF InOrder

\* The calls that stay keep their places.
LEMMA LeavingKeepsOrder ==
    ASSUME RInv, NEW c \in Calls, RemoveWaiter(c), fifo' = fifo
    PROVE  ArrivalsMatch' /\ InOrder'
<1> USE ElementsAreCalls
<1>1. PICK p \in 1..Len(waiters) : waiters[p] = c /\ waiters' = RemoveAt(waiters, p)
  BY DEF RemoveWaiter
<1>2. PICK q \in 1..Len(arrivals) : arrivals[q] = c /\ arrivals' = RemoveAt(arrivals, q)
  BY DEF RemoveWaiter
<1>3. /\ waiters' \in Seq(Calls) /\ Distinct(waiters')
      /\ \A d \in Calls : Waiting(d)' <=> (d # c /\ Waiting(d))
  BY RemoveWaiterEffect DEF RInv, IInv
<1>4. /\ Distinct(RemoveAt(arrivals, q))
      /\ \A i \in 1..(Len(arrivals) - 1) : RemoveAt(arrivals, q)[i] # arrivals[q]
      /\ \A i \in 1..Len(arrivals) : i # q =>
            \E j \in 1..(Len(arrivals) - 1) : RemoveAt(arrivals, q)[j] = arrivals[i]
  BY RemoveAtDistinct DEF RInv, ArrivalsMatch
<1>5. /\ Len(RemoveAt(arrivals, q)) = Len(arrivals) - 1
      /\ \A i \in 1..(Len(arrivals) - 1) : RemoveAt(arrivals, q)[i] =
            IF i < q THEN arrivals[i] ELSE arrivals[i + 1]
  BY RemoveAtProperties
<1>6. ArrivalsMatch'
  <2>1. ASSUME NEW d \in Calls
        PROVE  Waiting(d)' <=> \E i \in 1..Len(arrivals') : arrivals'[i] = d
    <3>1. Waiting(d) <=> \E i \in 1..Len(arrivals) : arrivals[i] = d
      BY DEF RInv, ArrivalsMatch
    <3>2. ASSUME Waiting(d)'  PROVE \E i \in 1..Len(arrivals') : arrivals'[i] = d
      <4>1. PICK i \in 1..Len(arrivals) : arrivals[i] = d
        BY <1>3, <3>1, <3>2
      <4>2. i # q
        BY <1>2, <1>3, <3>2, <4>1
      <4>. QED  BY <1>2, <1>4, <1>5, <4>1, <4>2
    <3>3. ASSUME NEW i \in 1..Len(arrivals'), arrivals'[i] = d  PROVE Waiting(d)'
      <4>1. d # c
        BY <1>2, <1>4, <1>5, <3>3
      <4>2. /\ i \in 1..(Len(arrivals) - 1) /\ i \in 1..Len(arrivals)
            /\ i + 1 \in 1..Len(arrivals)
        BY <1>2, <1>5
      <4>3. \E k \in 1..Len(arrivals) : arrivals[k] = d
        BY <1>2, <1>5, <3>3, <4>2
      <4>. QED  BY <1>3, <3>1, <4>1, <4>3
    <3>. QED  BY <3>2, <3>3
  <2>. QED  BY <1>2, <1>4, <2>1 DEF ArrivalsMatch
<1>7. ASSUME NEW a, NEW b, a # c, b # c, Order(fifo, arrivals, a, b)
      PROVE  Order(fifo', arrivals', a, b)
  <2>1. ASSUME Ahead(arrivals, a, b)  PROVE Ahead(arrivals', a, b)
    <3>1. PICK i, j \in 1..Len(arrivals) : i < j /\ arrivals[i] = a /\ arrivals[j] = b
      BY <2>1 DEF Ahead
    <3>2. i # q /\ j # q
      BY <1>2, <1>7, <3>1
    <3>3. \E k, l \in 1..Len(RemoveAt(arrivals, q)) : k < l
             /\ RemoveAt(arrivals, q)[k] = arrivals[i] /\ RemoveAt(arrivals, q)[l] = arrivals[j]
      BY <3>1, <3>2, RemoveAtKeepsOrder
    <3>. QED  BY <1>2, <3>1, <3>3 DEF Ahead
  <2>. QED  BY <1>7, <2>1 DEF Order
<1>8. /\ Len(waiters') = Len(waiters) - 1
      /\ \A i \in 1..(Len(waiters) - 1) :
            waiters'[i] = IF i < p THEN waiters[i] ELSE waiters[i + 1]
  BY <1>1, RemoveAtProperties
<1>9. \A i, j \in 1..Len(waiters) : waiters[i] = waiters[j] => i = j
  BY DEF RInv, IInv, Distinct
<1>10. ASSUME NEW i \in 1..Len(waiters'), NEW j \in 1..Len(waiters'), i < j
       PROVE  Order(fifo', arrivals', waiters'[i], waiters'[j])
  <2> DEFINE k == IF i < p THEN i ELSE i + 1
             l == IF j < p THEN j ELSE j + 1
  <2>1. k \in 1..Len(waiters) /\ l \in 1..Len(waiters) /\ k < l /\ k # p /\ l # p
    BY <1>8, <1>10
  <2>2. waiters'[i] = waiters[k] /\ waiters'[j] = waiters[l]
    BY <1>8
  <2>3. waiters[k] # c /\ waiters[l] # c
    BY <1>1, <1>9, <2>1
  <2>4. Order(fifo, arrivals, waiters[k], waiters[l])
    BY <2>1 DEF RInv, InOrder
  <2>. QED  BY <1>7, <2>2, <2>3, <2>4
<1>. QED  BY <1>6, <1>10 DEF InOrder

\* A step that moves no call in or out keeps the order.
LEMMA StayingKeepsOrder ==
    ASSUME RInv, UNCHANGED <<fifo, waiters, arrivals>>
    PROVE  ArrivalsMatch' /\ InOrder'
BY DEF RInv, ArrivalsMatch, InOrder, Waiting, Distinct

LEMMA InitRInv == Init => RInv
<1> SUFFICES ASSUME Init PROVE RInv
  OBVIOUS
<1>1. Len(waiters) = 0 /\ Len(arrivals) = 0
  BY DEF Init
<1>. QED  BY <1>1, InitIInv DEF RInv, ArrivalsMatch, InOrder, Waiting, Distinct

LEMMA NextKeepsRInv == RInv /\ [Next]_vars => RInv'
<1> SUFFICES ASSUME RInv, [Next]_vars PROVE ArrivalsMatch' /\ InOrder'
  BY NextKeepsIInv DEF RInv
<1>1. ASSUME NEW need \in NeedCounts, WaitAtOnce(need) PROVE ArrivalsMatch' /\ InOrder'
  BY <1>1, StayingKeepsOrder DEF WaitAtOnce
<1>2. ASSUME NEW c \in Calls, NEW need \in NeedCounts, NEW timed \in BOOLEAN,
             WaitBlocks(c, need, timed)
      PROVE  ArrivalsMatch' /\ InOrder'
  BY <1>2, ArrivingKeepsOrder DEF WaitBlocks
<1>3. ASSUME NEW c \in Calls, WaitReturns(c) \/ WaitTimesOut(c)
      PROVE  ArrivalsMatch' /\ InOrder'
  BY <1>3, LeavingKeepsOrder DEF WaitReturns, WaitTimesOut
<1>4. ASSUME NEW n \in SignalCounts, Signal(n) PROVE ArrivalsMatch' /\ InOrder'
  BY <1>4, StayingKeepsOrder DEF Signal
<1>5. CASE WakeWaiter
  BY <1>5, StayingKeepsOrder DEF WakeWaiter
<1>6. CASE SignalReturns
  BY <1>6, StayingKeepsOrder DEF SignalReturns
<1>7. ASSUME NEW k \in CancelCounts, Cancel(k) PROVE ArrivalsMatch' /\ InOrder'
  BY <1>7, StayingKeepsOrder DEF Cancel
<1>8. CASE DeleteStarts \/ DeleteReturns
  BY <1>8, StayingKeepsOrder DEF DeleteStarts, DeleteReturns
<1>9. CASE UNCHANGED vars
  BY <1>9, StayingKeepsOrder DEF vars
<1>. QED  BY <1>1, <1>2, <1>3, <1>4, <1>5, <1>6, <1>7, <1>8, <1>9 DEF Next

--------------------------------------------------------------------------------
\* What a caller sees depends on the list and the records only.
LEMMA SameView ==
    ASSUME UNCHANGED <<waiters, record>>
    PROVE  Request' = Request /\ Fate' = Fate
BY DEF Request, Fate, Waiting

LEMMA FateIsFunction ==
    Fate = [c \in Calls |-> Fate[c]] /\ Fate' = [c \in Calls |-> Fate'[c]]
BY DEF Fate

\* A new call asks.
LEMMA ArrivingIsAsking ==
    ASSUME RInv, NEW c \in Calls, NEW need \in Int, NEW timed \in BOOLEAN,
           ~Waiting(c), AddWaiter(c),
           record' = [record EXCEPT ![c] = NewRecord(need, timed)]
    PROVE  /\ Fate[c] = "out"
           /\ Request' = [Request EXCEPT ![c] = [need |-> need, timed |-> timed]]
           /\ Fate' = [Fate EXCEPT ![c] = "asking"]
<1>1. \A d \in Calls : Waiting(d)' <=> (d = c \/ Waiting(d))
  BY AddWaiterEffect DEF RInv, IInv
<1>2. /\ record'[c] = NewRecord(need, timed)
      /\ \A d \in Calls \ {c} : record'[d] = record[d]
  BY DEF RInv, IInv, TypeOK
<1>3. NewRecord(need, timed).need = need /\ NewRecord(need, timed).timed = timed
      /\ ~NewRecord(need, timed).ready
  BY DEF NewRecord
<1>4. Fate[c] = "out" /\ Fate'[c] = "asking" /\ \A d \in Calls \ {c} : Fate'[d] = Fate[d]
  BY <1>1, <1>2, <1>3 DEF Fate
<1>5. Fate' = [Fate EXCEPT ![c] = "asking"]
  BY <1>4, FateIsFunction
<1>6. Request' = [Request EXCEPT ![c] = [need |-> need, timed |-> timed]]
  BY <1>2, <1>3 DEF Request
<1>. QED  BY <1>4, <1>5, <1>6

\* A call that has left is out.
LEMMA LeavingIsLeaving ==
    ASSUME RInv, NEW c \in Calls, Waiting(c), RemoveWaiter(c),
           record[c].ready \/ record[c].timed,
           record' = [record EXCEPT ![c] = Gone], UNCHANGED <<fifo, count, status>>
    PROVE  Counting!Leave(c)
<1>1. \A d \in Calls : Waiting(d)' <=> (d # c /\ Waiting(d))
  BY RemoveWaiterEffect DEF RInv, IInv
<1>2. record'[c] = Gone /\ \A d \in Calls \ {c} : record'[d] = record[d]
  BY DEF RInv, IInv, TypeOK
<1>3. Gone.need = 0 /\ Gone.timed = FALSE
  BY DEF Gone, NewRecord
<1>4. record[c].result # "out" /\ record[c].result # "asking"
  BY DEF RInv, IInv, TypeOK, WaitingThread
<1>5. Fate[c] # "out" /\ (Fate[c] = "asking" => Request[c].timed)
  BY <1>4 DEF Fate, Request
<1>6. Request' = [Request EXCEPT ![c] = Counting!Nothing]
  BY <1>2, <1>3 DEF Request, Counting!Nothing
<1>7. Fate' = [Fate EXCEPT ![c] = "out"]
  <2>1. Fate'[c] = "out" /\ \A d \in Calls \ {c} : Fate'[d] = Fate[d]
    BY <1>1, <1>2 DEF Fate
  <2>. QED  BY <2>1, FateIsFunction
<1>8. PICK q \in 1..Len(arrivals) : arrivals[q] = c /\ arrivals' = RemoveAt(arrivals, q)
  BY DEF RemoveWaiter
<1>9. arrivals' = Counting!RemoveAt(arrivals, q)
  BY <1>8 DEF RemoveAt, Counting!RemoveAt
<1>. QED  BY <1>5, <1>6, <1>7, <1>8, <1>9 DEF Counting!Leave

\* The loops of Cancel and of the destructor settle those that ask.
LEMMA ReleasingIsSettling ==
    ASSUME RInv, NEW result \in {"Canceled", "Deleted"}, ReleaseAll(result), UNCHANGED waiters
    PROVE  Request' = Request /\ Counting!Settle(result)
<1>1. ASSUME NEW c \in Calls
      PROVE  /\ Waiting(c)' <=> Waiting(c)
             /\ record'[c].need = record[c].need /\ record'[c].timed = record[c].timed
             /\ Waiting(c) /\ ~record[c].ready => record'[c].ready /\ record'[c].result = result
             /\ ~(Waiting(c) /\ ~record[c].ready) => record'[c] = record[c]
             /\ record[c].result # "asking"
  <2>1. record[c] \in WaitingThread
    BY DEF RInv, IInv, TypeOK
  <2>2. record'[c] = IF Waiting(c) /\ ~record[c].ready
                     THEN [record[c] EXCEPT !.result = result, !.ready = TRUE]
                     ELSE record[c]
    BY DEF ReleaseAll
  <2>. QED  BY <2>1, <2>2 DEF WaitingThread, Waiting
<1>2. Request' = Request
  BY <1>1 DEF Request
<1>3. \A c \in Calls : Fate'[c] = IF Fate[c] = "asking" THEN result ELSE Fate[c]
  BY <1>1 DEF Fate
<1>4. Fate' = [c \in Calls |-> Fate'[c]]
  BY DEF Fate
<1>. QED  BY <1>2, <1>3, <1>4 DEF Counting!Settle

\* The loop grants to the call at its position: those before it in the list have
\* been passed because they need more than there is, and those after it do not
\* precede it.
LEMMA ServingIsGranting ==
    ASSUME RInv, WakeWaiter, Serves(waiters[scan])
    PROVE  Counting!Grant(waiters[scan])
<1> DEFINE c == waiters[scan]
<1>1. /\ scan \in 1..Len(waiters)
      /\ count' = count - record[c].need
      /\ record' = [record EXCEPT ![c].result = "Ok", ![c].ready = TRUE]
      /\ UNCHANGED <<fifo, status, waiters, arrivals>>
  BY DEF WakeWaiter
<1>2. c \in Calls /\ Waiting(c)
  BY <1>1, ElementsAreCalls
<1>3. record \in [Calls -> WaitingThread] /\ record[c] \in WaitingThread
  BY <1>2 DEF RInv, IInv, TypeOK
<1>4. ~record[c].ready /\ record[c].need <= count
  BY DEF Serves
<1>5. status = "Set"
  BY <1>1 DEF RInv, IInv, SignalSeesSet
<1>6. Fate[c] = "asking" /\ Request[c].need = record[c].need
  BY <1>2, <1>4 DEF Fate, Request
<1>7. Request' = Request /\ Fate' = [Fate EXCEPT ![c] = "Ok"]
  <2>1. /\ record'[c].ready /\ record'[c].result = "Ok"
        /\ record'[c].need = record[c].need /\ record'[c].timed = record[c].timed
        /\ \A d \in Calls \ {c} : record'[d] = record[d]
    BY <1>1, <1>2, <1>3 DEF WaitingThread
  <2>2. \A d \in Calls : Waiting(d)' <=> Waiting(d)
    BY <1>1 DEF Waiting
  <2> HIDE DEF c
  <2>3. Request' = Request
    BY <1>2, <2>1 DEF Request
  <2>4. Fate' = [Fate EXCEPT ![c] = "Ok"]
    BY <1>2, <2>1, <2>2 DEF Fate
  <2>. QED  BY <2>3, <2>4
<1>8. ASSUME NEW d \in Calls, Fate[d] = "asking", Counting!Precedes(d, c)
      PROVE  Request[d].need > count
  <2>1. Order(fifo, arrivals, d, c)
    BY <1>8 DEF Counting!Precedes, Counting!CameBefore, Order, Ahead
  <2>2. Waiting(d) /\ ~record[d].ready
    BY <1>8 DEF Fate, RInv, IInv, TypeOK, WaitingThread
  <2>3. PICK j \in 1..Len(waiters) : waiters[j] = d
    BY <2>2 DEF Waiting
  <2>4. j < scan
    <3>1. CASE j = scan
      BY <1>2, <2>1, <2>3, <3>1, OrderAsymmetric
    <3>2. CASE j > scan
      <4>1. Order(fifo, arrivals, c, d)
        BY <1>1, <2>3, <3>2 DEF RInv, InOrder
      <4>. QED  BY <1>2, <2>1, <4>1, OrderAsymmetric
    <3>. QED  BY <1>1, <3>1, <3>2
  <2>5. record[d].need > count
    BY <1>1, <2>2, <2>3, <2>4 DEF RInv, IInv, NoSleeperCouldRun
  <2>. QED  BY <2>5 DEF Request
<1> HIDE DEF c
<1>9. Counting!Grant(c)
  BY <1>1, <1>4, <1>5, <1>6, <1>7, <1>8 DEF Counting!Grant
<1>. QED  BY <1>9 DEF c

LEMMA InitSimulates == Init => Counting!AbsInit
<1> SUFFICES ASSUME Init PROVE Counting!AbsInit
  OBVIOUS
<1>1. \A c \in Calls : ~Waiting(c)
  BY DEF Init, Waiting
<1>2. Fate = [c \in Calls |-> "out"]
  BY <1>1 DEF Fate
<1>3. Request = [c \in Calls |-> Counting!Nothing]
  BY DEF Init, Request, Gone, NewRecord, Counting!Nothing
<1>. QED  BY <1>2, <1>3 DEF Init, Counting!AbsInit

\* Every step of the code is a step of the counting semaphore, or none of it.
LEMMA NextSimulates == RInv /\ [Next]_vars => [Counting!AbsNext]_(Counting!absVars)
<1> SUFFICES ASSUME RInv, [Next]_vars
             PROVE  Counting!AbsNext \/ UNCHANGED Counting!absVars
  OBVIOUS
<1> USE CreateAssumption, GuestAssumption DEF ValidCreate
<1>0. count \in MinCount..MaxCount /\ MaxCount \in Nat
  BY DEF RInv, IInv, TypeOK
<1>1. ASSUME NEW need \in NeedCounts, WaitAtOnce(need) PROVE Counting!AbsNext
  <2>1. need \in 1..MaxCount /\ Request' = Request /\ Fate' = Fate
    BY <1>1, SameView DEF WaitAtOnce
  <2>2. Counting!Take(need)
    BY <1>0, <1>1, <2>1 DEF WaitAtOnce, Counting!Take
  <2>. QED  BY <2>1, <2>2 DEF Counting!AbsNext
<1>2. ASSUME NEW c \in Calls, NEW need \in NeedCounts, NEW timed \in BOOLEAN,
             WaitBlocks(c, need, timed)
      PROVE  Counting!AbsNext
  <2>1. need \in 1..MaxCount /\ need > count /\ status = "Set"
    BY <1>0, <1>2 DEF WaitBlocks
  <2>2. /\ Fate[c] = "out"
        /\ Request' = [Request EXCEPT ![c] = [need |-> need, timed |-> timed]]
        /\ Fate' = [Fate EXCEPT ![c] = "asking"]
    BY <1>2, <2>1, ArrivingIsAsking DEF WaitBlocks
  <2>3. arrivals' = Append(arrivals, c) /\ UNCHANGED <<fifo, count, status>>
    BY <1>2 DEF WaitBlocks, AddWaiter
  <2>4. Counting!Ask(c, need, timed)
    BY <2>1, <2>2, <2>3 DEF Counting!Ask
  <2>. QED  BY <2>1, <2>4 DEF Counting!AbsNext
<1>3. ASSUME NEW c \in Calls, WaitReturns(c) \/ WaitTimesOut(c)
      PROVE  Counting!AbsNext
  <2>1. Counting!Leave(c)
    BY <1>3, LeavingIsLeaving DEF WaitReturns, WaitTimesOut, Elapsed
  <2>. QED  BY <2>1 DEF Counting!AbsNext
<1>4. ASSUME NEW n \in SignalCounts, Signal(n) PROVE Counting!AbsNext
  <2>1. Request' = Request /\ Fate' = Fate
    BY <1>4, SameView DEF Signal
  <2>2. Counting!Put(n)
    BY <1>4, <2>1 DEF Signal, Fits, Counting!Put
  <2>. QED  BY <2>2 DEF Counting!AbsNext
<1>5. CASE WakeWaiter
  <2>1. CASE Serves(waiters[scan])
    <3>1. waiters[scan] \in Calls
      BY <1>5, ElementsAreCalls DEF WakeWaiter
    <3>. QED  BY <1>5, <2>1, <3>1, ServingIsGranting DEF Counting!AbsNext
  <2>2. CASE ~Serves(waiters[scan])
    BY <1>5, <2>2, SameView DEF WakeWaiter, Counting!absVars
  <2>. QED  BY <2>1, <2>2
<1>6. CASE SignalReturns
  BY <1>6, SameView DEF SignalReturns, Counting!absVars
<1>7. ASSUME NEW k \in CancelCounts, Cancel(k) PROVE Counting!AbsNext
  <2>1. Request' = Request /\ Counting!Settle("Canceled")
    BY <1>7, ReleasingIsSettling DEF Cancel
  <2>2. k \in Int /\ k <= MaxCount /\ status = "Set" /\ UNCHANGED <<fifo, status, arrivals>>
        /\ count' = IF k < 0 THEN InitCount ELSE k
    BY <1>7 DEF Cancel
  <2>3. PICK n \in -1..MaxCount : count' = IF n < 0 THEN InitCount ELSE n
    <3>1. CASE k < 0
      <4>1. -1 \in -1..MaxCount /\ -1 < 0
        BY <1>0
      <4>. QED  BY <2>2, <3>1, <4>1
    <3>2. CASE ~(k < 0)
      BY <2>2, <3>2
    <3>. QED  BY <3>1, <3>2
  <2>4. Counting!Cancel(n)
    BY <2>1, <2>2, <2>3 DEF Counting!Cancel
  <2>. QED  BY <2>4 DEF Counting!AbsNext
<1>8. CASE DeleteStarts
  <2>1. Request' = Request /\ Counting!Settle("Deleted")
    BY <1>8, ReleasingIsSettling DEF DeleteStarts
  <2>2. Counting!Delete
    BY <1>8, <2>1 DEF DeleteStarts, Counting!Delete
  <2>. QED  BY <2>2 DEF Counting!AbsNext
<1>9. CASE DeleteReturns
  <2>1. Request' = Request /\ Fate' = Fate
    BY <1>9, SameView DEF DeleteReturns
  <2>2. \A c \in Calls : Fate[c] = "out"
    BY <1>9 DEF DeleteReturns, Fate, Waiting
  <2>3. Counting!Free
    BY <1>9, <2>1, <2>2 DEF DeleteReturns, Counting!Free
  <2>. QED  BY <2>3 DEF Counting!AbsNext
<1>10. CASE UNCHANGED vars
  BY <1>10, SameView DEF vars, Counting!absVars
<1>. QED  BY <1>1, <1>2, <1>3, <1>4, <1>5, <1>6, <1>7, <1>8, <1>9, <1>10 DEF Next

--------------------------------------------------------------------------------
\* KernelSemaPrivate implements the counting semaphore: units are handed out once
\* and in the order the attribute asks for, and every result is final.
THEOREM Refinement == Spec => Implements
<1>. QED  BY InitRInv, NextKeepsRInv, InitSimulates, NextSimulates, PTL
          DEF Spec, Implements, Counting!AbsSpec

--------------------------------------------------------------------------------
(***************************************************************************)
(* The address waits.  A wake finds who waits because all waits are at one *)
(* entry, that of the registry: who leaves an entry empty looks once more   *)
(* before it takes it out, and who comes finds it or makes a new one.       *)
(***************************************************************************)
Steps == {"Out", "Begins", "Parks", "Sleeps", "Polls", "Erases", "Back"}
Results == {"None", "Ok", "TimedOut"}
Widths == {c.wide : c \in WaitCalls} \cup {FALSE}
Limits == {c.timed : c \in WaitCalls} \cup {FALSE}
CallStates ==
    [step : Steps, wide : Widths, timed : Limits, late : BOOLEAN, first : BOOLEAN,
     requested : BOOLEAN, entry : Entries \cup {0}, result : Results]

\* What the variables hold (PortableWaiter, PortableAddressEntry and its registry).
AddressTypes ==
    /\ portable \in BOOLEAN /\ word \subseteq Halves
    /\ registry \in Entries \cup {0}
    /\ entries \in [Entries -> Seq(AddressThreads)]
    /\ wait \in [AddressThreads -> CallStates]

\* The calls that wait in the portable build: they are in a list.
Waits(t) == wait[t].step \in {"Sleeps", "Polls"}

ListsHoldWaiters ==
    \A e \in Entries :
        /\ Distinct(entries[e])
        /\ \A t \in AddressThreads : t \in ToSet(entries[e]) <=> Waits(t) /\ wait[t].entry = e

WaitersAreRegistered ==
    \A t \in AddressThreads : Waits(t) =>
        wait[t].entry = registry /\ registry # 0 /\ wait[t].result = "None"

CallsAreInOrder ==
    \A t \in AddressThreads :
        /\ wait[t].step # "Parks" /\ (wait[t].step = "Begins" => wait[t].first)
        /\ wait[t].step \in {"Out", "Begins"} => ~ wait[t].requested
        /\ wait[t].requested => wait[t].result # "TimedOut"
        /\ wait[t].step = "Erases" => wait[t].entry # 0

PortableInv == ListsHoldWaiters /\ WaitersAreRegistered /\ CallsAreInOrder
\* The inductive invariant: the lists are exact, every wait is at the entry of the registry, and
\* what a call still holds fits where it is.
AddressInv == AddressTypes /\ (portable => PortableInv)

\* A call that waits is in the list of the entry that the registry has, where Wake looks.
LEMMA InvWakes == ASSUME AddressInv PROVE WakesAreKept
<1>1. SUFFICES ASSUME portable, NEW t \in AddressThreads
               PROVE  /\ CanBeWoken(t) => InReach(t)
                      /\ wait[t].requested => wait[t].result # "TimedOut"
  BY DEF WakesAreKept
<1>2. ListsHoldWaiters /\ WaitersAreRegistered /\ CallsAreInOrder
  BY <1>1 DEF AddressInv, PortableInv
<1>3. ASSUME CanBeWoken(t)  PROVE InReach(t)
  <2>1. Waits(t)
    BY <1>2, <1>3 DEF CanBeWoken, CallsAreInOrder, Waits, At
  <2>2. registry # 0 /\ wait[t].entry = registry /\ registry \in Entries
    BY <1>2, <2>1 DEF WaitersAreRegistered, AddressInv, AddressTypes
  <2>3. t \in ToSet(entries[registry])
    BY <1>2, <2>1, <2>2 DEF ListsHoldWaiters
  <2>. QED  BY <1>1, <2>2, <2>3 DEF InReach
<1>. QED  BY <1>2, <1>3 DEF CallsAreInOrder

\* At first nobody waits and every list is empty.
LEMMA AddressInitInv == AddressInit => AddressInv
<1> SUFFICES ASSUME AddressInit PROVE AddressInv
  OBVIOUS
<1>1. OutOfWait = [step |-> "Out", wide |-> FALSE, timed |-> FALSE, late |-> FALSE, first |-> TRUE,
                requested |-> FALSE, entry |-> 0, result |-> "None"]
  BY DEF OutOfWait, Call
<1>2. OutOfWait \in CallStates
  BY <1>1 DEF CallStates, Steps, Results, Widths, Limits
<1>3. AddressTypes
  BY <1>2 DEF AddressInit, AddressTypes
<1>4. \A e \in Entries : Distinct(entries[e]) /\ ToSet(entries[e]) = {}
  BY DEF AddressInit, Distinct, ToSet
<1>5. \A t \in AddressThreads : wait[t] = OutOfWait
  BY DEF AddressInit
<1>6. ListsHoldWaiters
  BY <1>1, <1>4, <1>5 DEF ListsHoldWaiters, Waits
<1>7. WaitersAreRegistered /\ CallsAreInOrder
  BY <1>1, <1>5 DEF WaitersAreRegistered, CallsAreInOrder, Waits
<1>. QED  BY <1>3, <1>6, <1>7 DEF AddressInv, PortableInv

\* A step of one call that keeps it in, or out of, the list.
LEMMA StepOutsideLists ==
    ASSUME AddressInv, NEW t \in AddressThreads, NEW c \in CallStates,
           wait' = [wait EXCEPT ![t] = c], UNCHANGED <<portable, entries>>, word' \subseteq Halves,
           registry' \in Entries \cup {0},
           portable => /\ registry' # registry => \A u \in AddressThreads : ~ Waits(u)
                       /\ c.step \in {"Sleeps", "Polls"} <=> Waits(t)
                       /\ Waits(t) => c.entry = wait[t].entry /\ c.result = "None"
                       /\ c.step # "Parks" /\ (c.step = "Begins" => c.first)
                       /\ c.step \in {"Out", "Begins"} => ~ c.requested
                       /\ c.requested => c.result # "TimedOut"
                       /\ c.step = "Erases" => c.entry # 0
    PROVE  AddressInv'
<1>1. AddressTypes'
  BY DEF AddressInv, AddressTypes
<1>2. \A u \in AddressThreads : wait'[u] = IF u = t THEN c ELSE wait[u]
  BY DEF AddressInv, AddressTypes
<1>3. ASSUME portable  PROVE PortableInv'
  <2>1. ListsHoldWaiters /\ WaitersAreRegistered /\ CallsAreInOrder
    BY <1>3 DEF AddressInv, PortableInv
  <2>2. \A u \in AddressThreads : Waits(u)' <=> Waits(u)
    BY <1>2, <1>3 DEF Waits
  <2>3. \A u \in AddressThreads : Waits(u) => wait'[u].entry = wait[u].entry
    BY <1>2, <1>3
  <2>4. ListsHoldWaiters'
    BY <2>1, <2>2, <2>3 DEF ListsHoldWaiters
  <2>5. \A u \in AddressThreads : Waits(u) => wait'[u].result = "None"
    BY <1>2, <1>3, <2>1 DEF WaitersAreRegistered
  <2>6. WaitersAreRegistered'
    BY <1>3, <2>1, <2>2, <2>3, <2>5 DEF WaitersAreRegistered
  <2>7. CallsAreInOrder'
    BY <1>2, <1>3, <2>1 DEF CallsAreInOrder
  <2>. QED  BY <2>4, <2>6, <2>7 DEF PortableInv
<1>. QED  BY <1>1, <1>3 DEF AddressInv

\* A step in the Linux build, whose lists are not used.
LEMMA StepOnLinux ==
    ASSUME AddressInv, ~ portable, UNCHANGED <<portable, registry, entries>>,
           word' \subseteq Halves, wait' \in [AddressThreads -> CallStates]
    PROVE  AddressInv'
  BY DEF AddressInv, AddressTypes

\* A call begins outside of every list.
LEMMA WaitKeeps ==
    ASSUME AddressInv, NEW t \in AddressThreads, Wait(t)
    PROVE  AddressInv'
<1>1. PICK d \in WaitCalls, late \in BOOLEAN :
        wait' = [wait EXCEPT ![t] = [Call("Begins", d.wide, d.timed) EXCEPT !.late = late]]
  BY DEF Wait
<1> DEFINE b == Call("Begins", d.wide, d.timed)
           c == [b EXCEPT !.late = late]
<1>2. d.wide \in Widths /\ d.timed \in Limits
  BY DEF Widths, Limits
<1>3. /\ b \in CallStates /\ b.step = "Begins" /\ b.first = TRUE
      /\ b.requested = FALSE /\ b.entry = 0 /\ b.result = "None"
  BY <1>2 DEF Call, CallStates, Steps, Results
<1> HIDE DEF b
<1>4. /\ c \in CallStates /\ c.step = "Begins" /\ c.first = TRUE
      /\ c.requested = FALSE /\ c.entry = 0 /\ c.result = "None"
  BY <1>3 DEF CallStates
<1>5. /\ ~ Waits(t) /\ word' \subseteq Halves /\ registry' \in Entries \cup {0}
      /\ wait' = [wait EXCEPT ![t] = c]
  BY <1>1 DEF b, Wait, At, Waits, AddressInv, AddressTypes
<1> HIDE DEF c
<1>. QED  BY <1>4, <1>5, StepOutsideLists DEF Wait

\* A call that is over was in no list any more.
LEMMA ReturnsKeeps ==
    ASSUME AddressInv, NEW t \in AddressThreads, Returns(t)
    PROVE  AddressInv'
<1>1. OutOfWait = [step |-> "Out", wide |-> FALSE, timed |-> FALSE, late |-> FALSE, first |-> TRUE,
                requested |-> FALSE, entry |-> 0, result |-> "None"]
  BY DEF OutOfWait, Call
<1>2. OutOfWait \in CallStates
  BY <1>1 DEF CallStates, Steps, Results, Widths, Limits
<1>3. /\ ~ Waits(t) /\ word' \subseteq Halves /\ registry' \in Entries \cup {0}
      /\ wait' = [wait EXCEPT ![t] = OutOfWait] /\ UNCHANGED <<portable, entries, registry>>
  BY DEF Returns, At, Waits, AddressInv, AddressTypes
<1>. QED  BY <1>1, <1>2, <1>3, StepOutsideLists

\* That its deadline is over moves no call.
LEMMA DeadlinePassesKeeps ==
    ASSUME AddressInv, NEW t \in AddressThreads, DeadlinePasses(t)
    PROVE  AddressInv'
<1> DEFINE c == [wait[t] EXCEPT !.late = TRUE]
<1>1. wait \in [AddressThreads -> CallStates]
  BY DEF AddressInv, AddressTypes
<1>2. /\ c \in CallStates /\ c.step = wait[t].step /\ c.first = wait[t].first
      /\ c.requested = wait[t].requested /\ c.entry = wait[t].entry /\ c.result = wait[t].result
  BY <1>1 DEF CallStates
<1>3. /\ word' \subseteq Halves /\ registry' \in Entries \cup {0}
      /\ wait' = [wait EXCEPT ![t] = c] /\ UNCHANGED <<portable, entries, registry>>
  BY DEF DeadlinePasses, AddressInv, AddressTypes
<1>4. portable => /\ Waits(t) => wait[t].result = "None"
                  /\ wait[t].step # "Parks" /\ (wait[t].step = "Begins" => wait[t].first)
                  /\ wait[t].step \in {"Out", "Begins"} => ~ wait[t].requested
                  /\ wait[t].requested => wait[t].result # "TimedOut"
                  /\ wait[t].step = "Erases" => wait[t].entry # 0
  BY DEF AddressInv, PortableInv, WaitersAreRegistered, CallsAreInOrder
<1> HIDE DEF c
<1>. QED  BY <1>2, <1>3, <1>4, StepOutsideLists DEF Waits

\* A call dispatches signals from its place in the list.
LEMMA SliceEndsKeeps ==
    ASSUME AddressInv, NEW t \in AddressThreads, SliceEnds(t)
    PROVE  AddressInv'
<1> DEFINE c == [wait[t] EXCEPT !.step = "Polls"]
<1>1. wait \in [AddressThreads -> CallStates]
  BY DEF AddressInv, AddressTypes
<1>2. /\ c \in CallStates /\ c.step = "Polls" /\ c.first = wait[t].first
      /\ c.requested = wait[t].requested /\ c.entry = wait[t].entry /\ c.result = wait[t].result
  BY <1>1 DEF CallStates, Steps
<1>3. /\ word' \subseteq Halves /\ registry' \in Entries \cup {0} /\ Waits(t)
      /\ wait' = [wait EXCEPT ![t] = c] /\ UNCHANGED <<portable, entries, registry>>
  BY DEF SliceEnds, Goes, At, Waits, AddressInv, AddressTypes
<1>4. portable => /\ Waits(t) => wait[t].result = "None"
                  /\ wait[t].requested => wait[t].result # "TimedOut"
  BY DEF AddressInv, PortableInv, WaitersAreRegistered, CallsAreInOrder
<1> HIDE DEF c
<1>. QED  BY <1>2, <1>3, <1>4, StepOutsideLists DEF Waits

\* A call that comes back with a result.
LEMMA BackIs ==
    ASSUME NEW c \in CallStates, NEW result \in Results
    PROVE  [c EXCEPT !.step = "Back", !.result = result] \in CallStates
<1>1. [c EXCEPT !.step = "Back"] \in CallStates
  BY DEF CallStates, Steps
<1>. QED  BY <1>1 DEF CallStates

\* WaitLinux uses no list.
LEMMA LinuxStepsKeep ==
    ASSUME AddressInv, NEW t \in AddressThreads, Looks(t) \/ Polled(t) \/ (~ portable /\ Parks(t))
    PROVE  AddressInv'
<1>1. wait \in [AddressThreads -> CallStates]
  BY DEF AddressInv, AddressTypes
<1>2. ASSUME NEW step \in Steps, Goes(t, step)  PROVE wait' \in [AddressThreads -> CallStates]
  BY <1>1, <1>2 DEF Goes, CallStates
<1>3. ASSUME NEW result \in Results, Comes(t, result)  PROVE wait' \in [AddressThreads -> CallStates]
  <2>1. wait' = [wait EXCEPT ![t] = [wait[t] EXCEPT !.step = "Back", !.result = result]]
    BY <1>1, <1>3 DEF Comes
  <2>. QED  BY <1>1, <2>1, BackIs
<1>4. /\ ~ portable /\ UNCHANGED <<portable, registry, entries>> /\ word' \subseteq Halves
  BY DEF Looks, Polled, Parks, AddressInv, AddressTypes
<1>5. wait' \in [AddressThreads -> CallStates]
  <2>1. CASE Looks(t)
    BY <1>2, <1>3, <2>1 DEF Looks, Steps, Results
  <2>2. CASE Parks(t)
    BY <1>2, <1>3, <2>2 DEF Parks, Steps, Results
  <2>3. CASE Polled(t)
    <3>1. CASE wait[t].late
      BY <1>3, <2>3, <3>1 DEF Polled, Results
    <3>2. CASE ~ wait[t].late
      BY <1>1, <2>3, <3>2 DEF Polled, CallStates, Steps
    <3>. QED  BY <3>1, <3>2
  <2>. QED  BY <2>1, <2>2, <2>3
<1>. QED  BY <1>4, <1>5, StepOnLinux

\* Only WaitLinux reaches the system call.
LEMMA ParksKeeps ==
    ASSUME AddressInv, NEW t \in AddressThreads, Parks(t)
    PROVE  AddressInv'
<1>1. ~ portable
  BY DEF Parks, At, AddressInv, PortableInv, CallsAreInOrder
<1>. QED  BY <1>1, LinuxStepsKeep

\* The wake of the host uses no list.
LEMMA WakeLinuxKeeps ==
    ASSUME AddressInv, NEW n, WakeLinux(n)
    PROVE  AddressInv'
<1>1. wait \in [AddressThreads -> CallStates]
  BY DEF AddressInv, AddressTypes
<1>2. ~ portable /\ UNCHANGED <<portable, registry, entries>> /\ word' \subseteq Halves
  BY DEF WakeLinux, AddressInv, AddressTypes
<1>3. PICK S \in SUBSET Sleepers :
         wait' = [t \in AddressThreads |->
                    IF t \in S THEN [wait[t] EXCEPT !.step = "Back", !.result = "Ok"] ELSE wait[t]]
  BY DEF WakeLinux
<1>4. wait' \in [AddressThreads -> CallStates]
  <2>1. ASSUME NEW t \in AddressThreads
        PROVE  [wait[t] EXCEPT !.step = "Back", !.result = "Ok"] \in CallStates
    BY <1>1, BackIs DEF Results
  <2>. QED  BY <1>1, <1>3, <2>1
<1>. QED  BY <1>2, <1>4, StepOnLinux

\* A Wake changes nothing of those that are not in the list.
LEMMA WakePortableKeeps ==
    ASSUME AddressInv, NEW n, WakePortable(n)
    PROVE  AddressInv'
<1>1. /\ portable /\ registry \in Entries /\ UNCHANGED <<portable, word, registry, entries>>
      /\ wait \in [AddressThreads -> CallStates] /\ entries \in [Entries -> Seq(AddressThreads)]
      /\ word \subseteq Halves
      /\ ListsHoldWaiters /\ WaitersAreRegistered /\ CallsAreInOrder
  BY DEF WakePortable, AddressInv, AddressTypes, PortableInv
<1> DEFINE list == entries[registry]
           Fresh == {i \in 1 .. Len(list) : ~ wait[list[i]].requested}
           places == {j \in Fresh : Cardinality({k \in Fresh : k <= j}) <= n}
<1>2. PICK woken :
        /\ woken = {list[i] : i \in places}
        /\ wait' = [t \in AddressThreads |->
                      IF t \in woken THEN [wait[t] EXCEPT !.requested = TRUE] ELSE wait[t]]
  BY DEF WakePortable
<1>3. places \subseteq 1 .. Len(list) /\ list \in Seq(AddressThreads)
  BY <1>1
<1>4. DOMAIN list = 1 .. Len(list)
  BY <1>3, LenProperties
<1>5. woken \subseteq ToSet(list)
  <2> HIDE DEF places, list
  <2>. QED  BY <1>2, <1>3, <1>4 DEF ToSet
<1>6. \A t \in AddressThreads : t \in woken => Waits(t) /\ wait[t].result = "None"
  BY <1>1, <1>5 DEF ListsHoldWaiters, WaitersAreRegistered
<1> HIDE DEF list, Fresh, places
<1>7. wait' \in [AddressThreads -> CallStates]
  <2>1. ASSUME NEW c \in CallStates  PROVE [c EXCEPT !.requested = TRUE] \in CallStates
    BY DEF CallStates
  <2>. QED  BY <1>1, <1>2, <2>1
<1>8. \A t \in AddressThreads :
        /\ wait'[t].step = wait[t].step /\ wait'[t].entry = wait[t].entry
        /\ wait'[t].first = wait[t].first /\ wait'[t].result = wait[t].result
        /\ wait'[t].requested = (wait[t].requested \/ t \in woken)
  <2>1. ASSUME NEW t \in AddressThreads, t \in woken
        PROVE  wait'[t] = [wait[t] EXCEPT !.requested = TRUE]
    BY <1>2, <2>1
  <2>2. ASSUME NEW t \in AddressThreads, t \notin woken
        PROVE  wait'[t] = wait[t]
    BY <1>2, <2>2
  <2>3. \A t \in AddressThreads : wait[t] \in CallStates
    BY <1>1
  <2>. QED  BY <2>1, <2>2, <2>3 DEF CallStates
<1>9. AddressTypes'
  BY <1>1, <1>7 DEF AddressTypes
<1>10. \A t \in AddressThreads : Waits(t)' <=> Waits(t)
  BY <1>8 DEF Waits
<1>11. ListsHoldWaiters' /\ WaitersAreRegistered'
  BY <1>1, <1>8, <1>10 DEF ListsHoldWaiters, WaitersAreRegistered
<1>12. CallsAreInOrder'
  <2>1. \A t \in AddressThreads : t \in woken => wait[t].step \notin {"Out", "Begins"}
    BY <1>6 DEF Waits
  <2>2. \A t \in AddressThreads :
          /\ wait'[t].step = wait[t].step /\ wait'[t].entry = wait[t].entry
          /\ wait'[t].first = wait[t].first /\ wait'[t].result = wait[t].result
          /\ wait'[t].requested => wait[t].requested \/ t \in woken
    BY <1>8
  <2>3. ASSUME NEW t \in AddressThreads, wait'[t].requested
        PROVE  /\ wait'[t].step \notin {"Out", "Begins"}
               /\ wait'[t].result # "TimedOut"
    <3>1. CASE wait[t].requested
      BY <1>1, <2>2, <3>1 DEF CallsAreInOrder
    <3>2. CASE t \in woken
      BY <1>6, <2>1, <2>2, <3>2
    <3>. QED  BY <2>2, <2>3, <3>1, <3>2
  <2>. QED  BY <1>1, <2>2, <2>3 DEF CallsAreInOrder
<1>. QED  BY <1>1, <1>9, <1>11, <1>12 DEF AddressInv, PortableInv

\* The entry that is erased is empty, so no call waits.
LEMMA UnregisterKeeps ==
    ASSUME AddressInv, NEW t \in AddressThreads, UnregisterPortableWaiter(t)
    PROVE  AddressInv'
<1> DEFINE c == [wait[t] EXCEPT !.step = "Back"]
<1>1. wait \in [AddressThreads -> CallStates] /\ registry \in Entries \cup {0} /\ word \subseteq Halves
  BY DEF AddressInv, AddressTypes
<1>2. /\ c \in CallStates /\ c.step = "Back"
      /\ c.requested = wait[t].requested /\ c.entry = wait[t].entry /\ c.result = wait[t].result
  BY <1>1 DEF CallStates, Steps
<1>3. /\ word' \subseteq Halves /\ registry' \in Entries \cup {0} /\ ~ Waits(t)
      /\ wait' = [wait EXCEPT ![t] = c] /\ UNCHANGED <<portable, entries>>
      /\ registry' = IF StillEmpty(t) THEN 0 ELSE registry
  BY <1>1 DEF UnregisterPortableWaiter, Goes, At, Waits
<1>4. portable => (wait[t].requested => wait[t].result # "TimedOut")
  BY DEF AddressInv, PortableInv, CallsAreInOrder
<1>5. ASSUME portable, registry' # registry, NEW u \in AddressThreads, Waits(u)  PROVE FALSE
  <2>1. StillEmpty(t)
    BY <1>3, <1>5
  <2>2. wait[u].entry = registry /\ registry \in Entries
    BY <1>1, <1>5 DEF AddressInv, PortableInv, WaitersAreRegistered
  <2>3. u \in ToSet(entries[registry])
    BY <1>5, <2>2 DEF AddressInv, PortableInv, ListsHoldWaiters
  <2>4. entries[registry] = <<>>
    BY <2>1 DEF StillEmpty
  <2>. QED  BY <2>3, <2>4 DEF ToSet
<1> HIDE DEF c
<1>. QED  BY <1>2, <1>3, <1>4, <1>5, StepOutsideLists

\* The head of the loop in the portable build: list is the list of e with t in it.
LEMMA RestsKeeps ==
    ASSUME AddressInv, portable, NEW t \in AddressThreads, NEW e \in Entries, NEW list \in Seq(AddressThreads),
           Distinct(list), Rests(t, e, list), UNCHANGED <<portable, word>>, registry' = e,
           \A u \in AddressThreads : u \in ToSet(list) <=> u = t \/ (Waits(u) /\ wait[u].entry = e),
           \A u \in AddressThreads : Waits(u) => wait[u].entry = e,
           Waits(t) \/ wait[t].step = "Begins"
    PROVE  AddressInv'
<1> DEFINE left == RemoveFirst(list, t)
           result == Decided(t)
           step == IF result = "None" THEN "Sleeps" ELSE IF left = <<>> THEN "Erases" ELSE "Back"
<1>1. /\ wait \in [AddressThreads -> CallStates] /\ entries \in [Entries -> Seq(AddressThreads)]
      /\ word \subseteq Halves
      /\ ListsHoldWaiters /\ WaitersAreRegistered /\ CallsAreInOrder
  BY DEF AddressInv, AddressTypes, PortableInv
<1>2. result \in Results /\ (wait[t].requested => result = "Ok")
  BY DEF Decided, Results
<1>3. left \in Seq(AddressThreads) /\ Distinct(left) /\ ToSet(left) = ToSet(list) \ {t}
  BY RemoveFirstProperties
<1>4. /\ entries' = [entries EXCEPT ![e] = IF result = "None" THEN list ELSE left]
      /\ wait' = [wait EXCEPT ![t].step = step, ![t].entry = e, ![t].result = result]
  BY DEF Rests
<1>5. step \in {"Sleeps", "Erases", "Back"} /\ (step = "Sleeps" <=> result = "None")
  OBVIOUS
<1> HIDE DEF left, result, step
<1>6. /\ wait' \in [AddressThreads -> CallStates]
      /\ wait'[t].step = step /\ wait'[t].entry = e /\ wait'[t].result = result
      /\ wait'[t].requested = wait[t].requested
  <2> DEFINE c == [wait[t] EXCEPT !.step = step, !.entry = e, !.result = result]
  <2>1. wait[t] \in CallStates
    BY <1>1
  <2>2. /\ c \in CallStates /\ c.step = step /\ c.entry = e /\ c.result = result
        /\ c.requested = wait[t].requested
    BY <1>2, <1>5, <2>1 DEF CallStates, Steps
  <2>3. wait' = [wait EXCEPT ![t] = c]
    BY <1>1, <1>4
  <2> HIDE DEF c
  <2>. QED  BY <1>1, <2>2, <2>3
<1>7. \A u \in AddressThreads : u # t => wait'[u] = wait[u]
  BY <1>1, <1>4
<1>8. AddressTypes'
  BY <1>1, <1>3, <1>4, <1>6 DEF AddressTypes, AddressInv
<1>9. Waits(t)' <=> result = "None"
  BY <1>5, <1>6 DEF Waits
<1>10. \A u \in AddressThreads : u # t => (Waits(u)' <=> Waits(u)) /\ wait'[u].entry = wait[u].entry
  BY <1>7 DEF Waits
<1>11. ASSUME NEW f \in Entries
       PROVE  /\ Distinct(entries'[f])
              /\ \A u \in AddressThreads : u \in ToSet(entries'[f]) <=> Waits(u)' /\ wait'[u].entry = f
  <2>1. CASE f = e
    <3>1. CASE result = "None"
      <4>1. entries'[f] = list
        BY <1>1, <1>4, <2>1, <3>1
      <4>. QED  BY <1>6, <1>9, <1>10, <2>1, <3>1, <4>1
    <3>2. CASE result # "None"
      <4>1. entries'[f] = left
        BY <1>1, <1>4, <2>1, <3>2
      <4>. QED  BY <1>3, <1>6, <1>9, <1>10, <2>1, <3>2, <4>1
    <3>. QED  BY <3>1, <3>2
  <2>2. CASE f # e
    <3>1. entries'[f] = entries[f]
      BY <1>1, <1>4, <2>2
    <3>2. \A u \in AddressThreads : u \notin ToSet(entries[f])
      BY <1>1, <2>2 DEF ListsHoldWaiters
    <3>3. \A u \in AddressThreads : Waits(u)' => wait'[u].entry = e
      BY <1>6, <1>10
    <3>. QED  BY <1>1, <2>2, <3>1, <3>2, <3>3 DEF ListsHoldWaiters
  <2>. QED  BY <2>1, <2>2
<1>12. ListsHoldWaiters'
  BY <1>11 DEF ListsHoldWaiters
<1>13. WaitersAreRegistered'
  <2>1. e # 0
    BY DEF Entries
  <2>. QED  BY <1>1, <1>6, <1>7, <1>9, <1>10, <2>1 DEF WaitersAreRegistered
<1>14. CallsAreInOrder'
  <2>1. e # 0
    BY DEF Entries
  <2>. QED  BY <1>1, <1>2, <1>5, <1>6, <1>7, <2>1 DEF CallsAreInOrder
<1>. QED  BY <1>8, <1>12, <1>13, <1>14 DEF AddressInv, PortableInv

\* A call registers at the entry that is there, or at one that nobody refers to: it is the
\* last of a list in which it was not.
LEMMA RegisterKeeps ==
    ASSUME AddressInv, NEW t \in AddressThreads, RegisterPortableWaiter(t)
    PROVE  AddressInv'
<1>1. /\ entries \in [Entries -> Seq(AddressThreads)] /\ portable /\ UNCHANGED <<portable, word>>
      /\ wait[t].step = "Begins"
      /\ ListsHoldWaiters /\ WaitersAreRegistered
  BY DEF AddressInv, AddressTypes, PortableInv, RegisterPortableWaiter, At
<1>2. PICK e \in Entries : /\ registry = 0 \/ e = registry
                           /\ registry' = e
                           /\ Rests(t, e, Append(entries[e], t))
  BY DEF RegisterPortableWaiter
<1>3. \A u \in AddressThreads : Waits(u) => wait[u].entry = e
  BY <1>1, <1>2 DEF WaitersAreRegistered
<1>4. Distinct(entries[e]) /\ entries[e] \in Seq(AddressThreads)
  BY <1>1 DEF ListsHoldWaiters
<1>5. \A u \in AddressThreads : u \in ToSet(entries[e]) <=> Waits(u) /\ wait[u].entry = e
  BY <1>1 DEF ListsHoldWaiters
<1>6. ~ Waits(t)
  BY <1>1 DEF Waits
<1>7. /\ ToSet(Append(entries[e], t)) = ToSet(entries[e]) \cup {t}
      /\ Distinct(Append(entries[e], t)) /\ Append(entries[e], t) \in Seq(AddressThreads)
  BY <1>4, <1>5, <1>6, OneBehindElements, OneBehind
<1>8. \A u \in AddressThreads :
        u \in ToSet(Append(entries[e], t)) <=> u = t \/ (Waits(u) /\ wait[u].entry = e)
  BY <1>5, <1>7
<1>. QED  BY <1>1, <1>2, <1>3, <1>7, <1>8, RestsKeeps

\* A call that looks again is in the list of its entry already.
LEMMA LooksAgainKeeps ==
    ASSUME AddressInv, NEW t \in AddressThreads, LooksAgain(t)
    PROVE  AddressInv'
<1> DEFINE e == wait[t].entry
<1>1. /\ entries \in [Entries -> Seq(AddressThreads)] /\ portable /\ UNCHANGED <<portable, word, registry>>
      /\ wait[t].step = "Polls" /\ Rests(t, e, entries[e]) /\ registry \in Entries \cup {0}
      /\ ListsHoldWaiters /\ WaitersAreRegistered
  BY DEF AddressInv, AddressTypes, PortableInv, LooksAgain, At
<1>2. Waits(t)
  BY <1>1 DEF Waits
<1>3. e \in Entries /\ registry' = e
  BY <1>1, <1>2 DEF WaitersAreRegistered
<1>4. \A u \in AddressThreads : Waits(u) => wait[u].entry = e
  BY <1>1, <1>2 DEF WaitersAreRegistered
<1>5. Distinct(entries[e]) /\ entries[e] \in Seq(AddressThreads)
  BY <1>1, <1>3 DEF ListsHoldWaiters
<1>6. \A u \in AddressThreads : u \in ToSet(entries[e]) <=> Waits(u) /\ wait[u].entry = e
  BY <1>1, <1>3 DEF ListsHoldWaiters
<1>7. \A u \in AddressThreads : u \in ToSet(entries[e]) <=> u = t \/ (Waits(u) /\ wait[u].entry = e)
  BY <1>2, <1>6
<1> HIDE DEF e
<1>. QED  BY <1>1, <1>2, <1>3, <1>4, <1>5, <1>7, RestsKeeps

\* Every step keeps the invariant.
LEMMA AddressNextKeeps == AddressInv /\ [AddressNext]_addressVars => AddressInv'
<1> SUFFICES ASSUME AddressInv, [AddressNext]_addressVars PROVE AddressInv'
  OBVIOUS
<1>1. CASE \E t \in AddressThreads : Wait(t) \/ AddressGoesOn(t) \/ DeadlinePasses(t)
  <2>1. PICK t \in AddressThreads : Wait(t) \/ AddressGoesOn(t) \/ DeadlinePasses(t)
    BY <1>1
  <2>. QED  BY <2>1, WaitKeeps, ReturnsKeeps, SliceEndsKeeps, LinuxStepsKeep, ParksKeeps,
               RegisterKeeps, LooksAgainKeeps, UnregisterKeeps, DeadlinePassesKeeps DEF AddressGoesOn
<1>2. CASE Wake
  BY <1>2, WakeLinuxKeeps, WakePortableKeeps DEF Wake
<1>3. CASE Store \/ UNCHANGED addressVars
  <2>1. UNCHANGED <<portable, registry, entries, wait>> /\ word' \subseteq Halves
    BY <1>3 DEF Store, addressVars, AddressInv, AddressTypes
  <2>2. AddressTypes'
    BY <2>1 DEF AddressInv, AddressTypes
  <2>3. PortableInv => PortableInv'
    BY <2>1 DEF PortableInv, ListsHoldWaiters, WaitersAreRegistered, CallsAreInOrder, Waits
  <2>. QED  BY <2>1, <2>2, <2>3 DEF AddressInv
<1>. QED  BY <1>1, <1>2, <1>3 DEF AddressNext

\* In the portable build a Wake finds every call that waits, and none is spent on a call that
\* reports a timeout: for any number of threads, entries and kinds of waits.
THEOREM AddressKeepsWakes == AddressSpec => []WakesAreKept
<1>1. AddressInit => AddressInv
  BY AddressInitInv
<1>2. AddressInv /\ [AddressNext]_addressVars => AddressInv'
  BY AddressNextKeeps
<1>3. AddressInv => WakesAreKept
  BY InvWakes
<1>. QED  BY <1>1, <1>2, <1>3, PTL DEF AddressSpec
================================================================================
