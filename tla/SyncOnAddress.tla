------------------------------ MODULE SyncOnAddress ------------------------------
(***************************************************************************)
(* Waiting for a word of guest memory (kernel/syncOnAddress.cpp), in both  *)
(* of its builds: on Linux a call sleeps in the futex of the host, on      *)
(* other hosts in a list of waiters that a registry finds by address.      *)
(* Either way it sleeps for slices of SIGNAL_POLL_MICROS, between which it *)
(* dispatches guest signals and looks again.  One address; calls wait as   *)
(* long as the word is zero, in both halves or in the lower alone.         *)
(***************************************************************************)
EXTENDS Integers, Sequences, FiniteSets, SequencesExt

CONSTANTS
    AddressThreads,    \* threads that wait
    WaitCalls   \* bound: the calls they make: Wait32 or Wait64, with a timeout or without

VARIABLES
    portable,   \* the build
    word,       \* the halves of the word that are not zero
    registry,   \* registry.entries at the address: an entry, or 0 for none
    entries,    \* the list of waiters of each entry
    wait        \* the call of each thread

addressVars == <<portable, word, registry, entries, wait>>

Entries == 1 .. Cardinality(AddressThreads) + 1
Halves == {"low", "high"}
\* "The legacy FUTEX_WAKE path may wake one waiter when count is zero": nothing is done.
Counts == {1, Cardinality(AddressThreads)}

(***************************************************************************)
(* A call: where it is, how wide the word is, whether it has a deadline    *)
(* and the deadline is over, first_wait, wake_requested, its entry, and    *)
(* the result that it will return.                                         *)
(***************************************************************************)
Call(step, wide, timed) ==
    [step |-> step, wide |-> wide, timed |-> timed, late |-> FALSE, first |-> TRUE,
     requested |-> FALSE, entry |-> 0, result |-> "None"]
OutOfWait == Call("Out", FALSE, FALSE)
At(t, step) == wait[t].step = step

\* ReadWord # expected, and what the futex compares.
Differs(t) == "low" \in word \/ (wait[t].wide /\ word # {})
FutexDiffers == "low" \in word

Goes(t, step) == wait' = [wait EXCEPT ![t].step = step]
Comes(t, result) == wait' = [wait EXCEPT ![t].step = "Back", ![t].result = result]

Wait(t) ==
    /\ At(t, "Out")
    /\ \E c \in WaitCalls, late \in BOOLEAN :
        /\ late => c.timed
        /\ wait' = [wait EXCEPT ![t] = [Call("Begins", c.wide, c.timed) EXCEPT !.late = late]]
    /\ UNCHANGED <<portable, word, registry, entries>>

\* The end of WaitImpl, after its last poll of signals.
Returns(t) ==
    /\ At(t, "Back")
    /\ wait' = [wait EXCEPT ![t] = OutOfWait]
    /\ UNCHANGED <<portable, word, registry, entries>>

\* Time runs: a deadline is over, or a slice, or a signal interrupts it.
DeadlinePasses(t) ==
    /\ wait[t].timed /\ ~ wait[t].late
    /\ wait' = [wait EXCEPT ![t].late = TRUE]
    /\ UNCHANGED <<portable, word, registry, entries>>
SliceEnds(t) ==
    /\ At(t, "Sleeps")
    /\ Goes(t, "Polls")
    /\ UNCHANGED <<portable, word, registry, entries>>

-----------------------------------------------------------------------------
(* WaitLinux *)

Looks(t) ==
    /\ ~ portable /\ At(t, "Begins")
    /\ IF Differs(t) THEN Comes(t, "Ok")
       ELSE IF wait[t].late /\ ~ wait[t].first THEN Comes(t, "TimedOut")
       ELSE Goes(t, "Parks")
    /\ UNCHANGED <<portable, word, registry, entries>>

\* The system call compares again; a slice of no length ends at once.
Parks(t) ==
    /\ At(t, "Parks")
    /\ IF FutexDiffers THEN Comes(t, "Ok") ELSE Goes(t, "Sleeps")
    /\ UNCHANGED <<portable, word, registry, entries>>

Polled(t) ==
    /\ ~ portable /\ At(t, "Polls")
    /\ IF wait[t].late THEN Comes(t, IF Differs(t) THEN "Ok" ELSE "TimedOut")
       ELSE wait' = [wait EXCEPT ![t].step = "Begins", ![t].first = FALSE]
    /\ UNCHANGED <<portable, word, registry, entries>>

\* The host wakes as many of those that sleep as there are, up to count.
Sleepers == {t \in AddressThreads : At(t, "Sleeps")}
WakeLinux(count) ==
    /\ ~ portable
    /\ \E S \in SUBSET Sleepers :
        /\ S # {}
        /\ Cardinality(S) = count \/ (S = Sleepers /\ Cardinality(S) < count)
        /\ wait' = [t \in AddressThreads |->
                      IF t \in S THEN [wait[t] EXCEPT !.step = "Back", !.result = "Ok"] ELSE wait[t]]
    /\ UNCHANGED <<portable, word, registry, entries>>

-----------------------------------------------------------------------------
(* WaitPortable *)

Decided(t) ==
    IF Differs(t) \/ wait[t].requested THEN "Ok"
    ELSE IF wait[t].late THEN "TimedOut" ELSE "None"

(***************************************************************************)
(* The head of the loop, under the mutex of the entry: sleep, or leave the *)
(* list, in which a call is only once, and come back to erase the entry if *)
(* nobody is left in it.                                                   *)
(***************************************************************************)
Rests(t, e, list) ==
    LET result == Decided(t)
        left == RemoveFirst(list, t)
        step == IF result = "None" THEN "Sleeps" ELSE IF left = <<>> THEN "Erases" ELSE "Back"
    IN  /\ entries' = [entries EXCEPT ![e] = IF result = "None" THEN list ELSE left]
        /\ wait' = [wait EXCEPT ![t].step = step, ![t].entry = e, ![t].result = result]

\* An entry lives as long as the registry or a call refers to it.
Unused(e) == e # registry /\ \A u \in AddressThreads : wait[u].entry # e
RegisterPortableWaiter(t) ==
    /\ portable /\ At(t, "Begins")
    /\ \E e \in Entries :
        /\ IF registry = 0 THEN Unused(e) /\ \A f \in Entries : Unused(f) => e <= f
           ELSE e = registry
        /\ registry' = e
        /\ Rests(t, e, Append(entries[e], t))
    /\ UNCHANGED <<portable, word>>

LooksAgain(t) ==
    /\ portable /\ At(t, "Polls")
    /\ Rests(t, wait[t].entry, entries[wait[t].entry])
    /\ UNCHANGED <<portable, word, registry>>

\* Mutant: without a second look at the list, now under both mutexes.
ErasesFilled(t) == registry = wait[t].entry
StillEmpty(t) == registry = wait[t].entry /\ entries[wait[t].entry] = <<>>
UnregisterPortableWaiter(t) ==
    /\ At(t, "Erases")
    /\ registry' = IF StillEmpty(t) THEN 0 ELSE registry
    /\ Goes(t, "Back")
    /\ UNCHANGED <<portable, word, entries>>

\* The first of the list that no Wake has requested yet, up to count.
WakePortable(count) ==
    /\ portable /\ registry # 0
    /\ LET list == entries[registry]
           Fresh == {i \in 1 .. Len(list) : ~ wait[list[i]].requested}
           woken == {list[i] : i \in {j \in Fresh : Cardinality({k \in Fresh : k <= j}) <= count}}
       IN  /\ woken # {}
           /\ wait' = [t \in AddressThreads |-> IF t \in woken THEN [wait[t] EXCEPT !.requested = TRUE] ELSE wait[t]]
    /\ UNCHANGED <<portable, word, registry, entries>>

-----------------------------------------------------------------------------
Wake == \E count \in Counts : WakeLinux(count) \/ WakePortable(count)

\* The guest stores to the word.
Store ==
    /\ word' \in SUBSET Halves \ {word}
    /\ UNCHANGED <<portable, registry, entries, wait>>

AddressInit ==
    /\ portable \in BOOLEAN
    /\ word = {}
    /\ registry = 0 /\ entries = [e \in Entries |-> <<>>]
    /\ wait = [t \in AddressThreads |-> OutOfWait]

AddressGoesOn(t) ==
    \/ Returns(t) \/ SliceEnds(t)
    \/ Looks(t) \/ Parks(t) \/ Polled(t)
    \/ RegisterPortableWaiter(t) \/ LooksAgain(t) \/ UnregisterPortableWaiter(t)

AddressNext ==
    \/ \E t \in AddressThreads : Wait(t) \/ AddressGoesOn(t) \/ DeadlinePasses(t)
    \/ Wake
    \/ Store

AddressSpec == AddressInit /\ [][AddressNext]_addressVars

-----------------------------------------------------------------------------
\* A call that has slept, has nothing to return for yet, and that a Wake could release.
CanBeWoken(t) ==
    /\ wait[t].step \in {"Begins", "Parks", "Sleeps", "Polls"} /\ wait[t].result = "None"
    /\ ~ wait[t].first \/ (At(t, "Sleeps") \/ At(t, "Polls"))
    /\ ~ Differs(t) /\ ~ wait[t].requested /\ ~ wait[t].late
InReach(t) ==
    IF portable THEN registry # 0 /\ t \in ToSet(entries[registry]) ELSE At(t, "Sleeps")

(***************************************************************************)
(* In the portable build a Wake finds every call that waits, also while it *)
(* dispatches signals and while others leave, erase the entry and make a   *)
(* new one; and none is spent on a call that reports a timeout.            *)
(***************************************************************************)
WakesAreKept ==
    portable => \A t \in AddressThreads :
        /\ CanBeWoken(t) => InReach(t)
        /\ wait[t].requested => wait[t].result # "TimedOut"

(***************************************************************************)
(* A Wake releases a call if one waits ("wake-one releases exactly one     *)
(* waiter", tests/SyncOnAddressTests.cpp:173).                             *)
(***************************************************************************)
WakeReleasesOne == (\E t \in AddressThreads : CanBeWoken(t)) => \E t \in AddressThreads : InReach(t)

\* A call whose word has changed, that has been woken, or that has a deadline, returns.
AddressComesBack(t) ==
    /\ ~ At(t, "Out")
    /\ wait[t].timed \/ wait[t].requested \/ wait[t].result # "None" \/ Differs(t)
================================================================================
