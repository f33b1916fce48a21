--------------------------------- MODULE Monitor ---------------------------------
(* What a guest mutex and a condition variable promise together: a mutex that may  *)
(* be held several times over, and a line of waiting threads, in which a thread     *)
(* takes its place in the same instant in which it gives the mutex up.  A signal    *)
(* lets the first of the line go, and a thread whose time is over leaves the line   *)
(* only as long as nobody has let it go.  PthreadMonitor implements it.             *)
EXTENDS Naturals, Sequences, SequencesExt

CONSTANTS Threads, None

VARIABLES
    holder,  \* the thread that holds the mutex, or None
    depth,   \* how many times
    line,    \* the threads that wait, in the order in which they came
    place    \* where each thread is, and how often it will hold the mutex when it has it back

absVars == <<holder, depth, line, place>>

Place(at, again) == [at |-> at, again |-> again]
Running == Place("Runs", 0)

AbsInit ==
    /\ holder = None /\ depth = 0
    /\ line = <<>>
    /\ place = [t \in Threads |-> Running]

Runs(t) == place[t].at = "Runs"

(* A lock that is taken at once, or again, or asked for.                             *)
Acquire(t) ==
    /\ Runs(t)
    /\ CASE holder = None -> holder' = t /\ depth' = 1 /\ UNCHANGED place
         [] holder = t -> depth' = depth + 1 /\ UNCHANGED <<holder, place>>
         [] holder \notin {None, t} -> place' = [place EXCEPT ![t] = Place("Wants", 1)] /\ UNCHANGED <<holder, depth>>
    /\ UNCHANGED line

Acquired(t) ==
    /\ place[t].at \in {"Wants", "Signaled", "TimedOut"} /\ holder = None
    /\ holder' = t /\ depth' = place[t].again
    /\ place' = [place EXCEPT ![t] = Running]
    /\ UNCHANGED line

GiveUp(t) ==
    /\ place[t].at = "Wants"
    /\ place' = [place EXCEPT ![t] = Running]
    /\ UNCHANGED <<holder, depth, line>>

Release(t) ==
    /\ Runs(t) /\ holder = t
    /\ depth' = depth - 1
    /\ holder' = IF depth = 1 THEN None ELSE t
    /\ UNCHANGED <<line, place>>

Wait(t) ==
    /\ Runs(t) /\ holder = t
    /\ holder' = None /\ depth' = 0
    /\ line' = Append(line, t)
    /\ place' = [place EXCEPT ![t] = Place("Waits", depth)]

LetGo(S) ==
    /\ place' = [t \in Threads |-> IF t \in S THEN Place("Signaled", place[t].again) ELSE place[t]]
    /\ UNCHANGED <<holder, depth>>

Signal == line # <<>> /\ line' = Tail(line) /\ LetGo({Head(line)})
SignalTo(t) == t \in ToSet(line) /\ line' = RemoveFirst(line, t) /\ LetGo({t})
Broadcast == line' = <<>> /\ LetGo(ToSet(line))

TimeOut(t) ==
    /\ place[t].at = "Waits"
    /\ line' = RemoveFirst(line, t)
    /\ place' = [place EXCEPT ![t] = Place("TimedOut", @.again)]
    /\ UNCHANGED <<holder, depth>>

AbsNext ==
    \/ \E t \in Threads :
        \/ Acquire(t) \/ Acquired(t) \/ GiveUp(t) \/ Release(t)
        \/ Wait(t) \/ TimeOut(t) \/ SignalTo(t)
    \/ Signal \/ Broadcast

AbsSpec == AbsInit /\ [][AbsNext]_absVars
================================================================================
