------------------------------ MODULE SharedMemory ------------------------------
(* What the emulator promises the guest about the memory it shares with the    *)
(* GPU: one memory, in which a store of a guest thread or of the GPU is seen by *)
(* every later load of a guest thread, no matter on which side the contents of  *)
(* a page are kept.  GpuMemory implements it.                                   *)
EXTENDS Naturals

CONSTANTS
    Threads,   \* guest threads
    Pages,     \* pages of guest memory
    Values     \* contents of a page

VARIABLES
    memory,    \* contents of each page
    present,   \* the pages that are mapped
    call       \* what each guest thread does with the memory

absVars == <<memory, present, call>>

(* A thread that has nothing to do, that has asked for an access or an unmapping, or whose *)
(* load has returned a value.                                                              *)
Resting == [state |-> "Resting"]
Loads(p) == [state |-> "Loads", page |-> p]
Stores(p) == [state |-> "Stores", page |-> p]
Unmaps(p) == [state |-> "Unmaps", page |-> p]
Loaded(v) == [state |-> "Loaded", value |-> v]

AbsInit ==
    /\ memory \in [Pages -> Values]
    /\ present = Pages
    /\ call = [t \in Threads |-> Resting]

Ready(t) == call[t].state \in {"Resting", "Loaded"}

Ask(t) ==
    /\ Ready(t)
    /\ \E p \in present :
        \E request \in {Loads(p), Stores(p), Unmaps(p)} :
            call' = [call EXCEPT ![t] = request]
    /\ UNCHANGED <<memory, present>>

Load(t) ==
    /\ call[t].state = "Loads"
    /\ call' = [call EXCEPT ![t] = Loaded(memory[call[t].page])]
    /\ UNCHANGED <<memory, present>>

Store(t) ==
    /\ call[t].state = "Stores"
    /\ \E v \in Values : memory' = [memory EXCEPT ![call[t].page] = v]
    /\ call' = [call EXCEPT ![t] = Resting]
    /\ UNCHANGED present

Unmap(t) ==
    /\ call[t].state = "Unmaps"
    /\ present' = present \ {call[t].page}
    /\ call' = [call EXCEPT ![t] = Resting]
    /\ UNCHANGED memory

(* A new mapping shows what the kernel put there.                              *)
Map(t) ==
    /\ Ready(t)
    /\ \E p \in Pages \ present, v \in Values :
        /\ present' = present \cup {p}
        /\ memory' = [memory EXCEPT ![p] = v]
    /\ UNCHANGED call

(* The GPU stores to some of the pages that are mapped.                        *)
GpuStores ==
    /\ \E v \in Values, T \in SUBSET present :
        memory' = [p \in Pages |-> IF p \in T THEN v ELSE memory[p]]
    /\ UNCHANGED <<present, call>>

AbsNext ==
    \/ \E t \in Threads : Ask(t) \/ Load(t) \/ Store(t) \/ Unmap(t) \/ Map(t)
    \/ GpuStores

AbsSpec == AbsInit /\ [][AbsNext]_absVars
================================================================================
