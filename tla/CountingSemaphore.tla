--------------------------- MODULE CountingSemaphore ---------------------------
(***************************************************************************)
(* What a counting semaphore promises its callers, with no list, no loop   *)
(* and no records: units are put in and taken out, a call that cannot have *)
(* its units stands in line, and each call in line meets one fate that     *)
(* nothing changes afterwards.  Units never appear or vanish: Put and      *)
(* Cancel change their number by what a caller says, a negative number     *)
(* that is put takes units away (and may leave fewer than none), and Take  *)
(* and Grant hand each unit to one call.                                   *)
(***************************************************************************)
EXTENDS Integers, Sequences, SequencesExt

CONSTANTS
    Calls,       \* the calls that may ask
    Priority,    \* Calls -> Int, low first
    InitCount,
    MaxCount,
    SignalCounts \* what callers put

VARIABLES
    fifo,        \* served by arrival, or by priority and then by arrival
    units,
    status,      \* "Set", "Deleted", "Freed"
    line,        \* the calls inside, in the order they came
    request,     \* what each of them wants, and whether it may give up
    fate         \* "out" of the semaphore, "asking", or the result it will return

absVars == <<fifo, units, status, line, request, fate>>

Nothing == [need |-> 0, timed |-> FALSE]

\* c came before d and both are still inside.
CameBefore(c, d) ==
    \E i, j \in 1..Len(line) : i < j /\ line[i] = c /\ line[j] = d

Precedes(c, d) ==
    IF fifo \/ Priority[c] = Priority[d] THEN CameBefore(c, d)
    ELSE Priority[c] < Priority[d]

AbsInit ==
    /\ fifo \in BOOLEAN
    /\ units = InitCount
    /\ status = "Set"
    /\ line = <<>>
    /\ request = [c \in Calls |-> Nothing]
    /\ fate = [c \in Calls |-> "out"]

\* Units that are there are taken at once.
Take(need) ==
    /\ status = "Set" /\ need <= units
    /\ units' = units - need
    /\ UNCHANGED <<fifo, status, line, request, fate>>

\* A call asks for more than there is and stands in line.
Ask(c, need, timed) ==
    /\ status = "Set" /\ need > units /\ fate[c] = "out"
    /\ line' = Append(line, c)
    /\ request' = [request EXCEPT ![c] = [need |-> need, timed |-> timed]]
    /\ fate' = [fate EXCEPT ![c] = "asking"]
    /\ UNCHANGED <<fifo, units, status>>

\* A call gets its units when no asking call that precedes it could have its own.
Grant(c) ==
    /\ status = "Set"
    /\ fate[c] = "asking" /\ request[c].need <= units
    /\ \A d \in Calls : fate[d] = "asking" /\ Precedes(d, c) => request[d].need > units
    /\ units' = units - request[c].need
    /\ fate' = [fate EXCEPT ![c] = "Ok"]
    /\ UNCHANGED <<fifo, status, line, request>>

\* A call leaves: with its fate, or empty-handed when it may give up.
Leave(c) ==
    /\ fate[c] # "out"
    /\ fate[c] = "asking" => request[c].timed
    /\ \E i \in 1..Len(line) : line[i] = c /\ line' = RemoveAt(line, i)
    /\ request' = [request EXCEPT ![c] = Nothing]
    /\ fate' = [fate EXCEPT ![c] = "out"]
    /\ UNCHANGED <<fifo, units, status>>

Put(n) ==
    /\ status = "Set" /\ units + n <= MaxCount
    /\ units' = units + n
    /\ UNCHANGED <<fifo, status, line, request, fate>>

\* Cancelling or deleting settles those that ask, and no one else.
Settle(result) ==
    fate' = [c \in Calls |-> IF fate[c] = "asking" THEN result ELSE fate[c]]

Cancel(n) ==
    /\ status = "Set" /\ n <= MaxCount
    /\ units' = IF n < 0 THEN InitCount ELSE n
    /\ Settle("Canceled")
    /\ UNCHANGED <<fifo, status, line, request>>

Delete ==
    /\ status = "Set" /\ status' = "Deleted"
    /\ Settle("Deleted")
    /\ UNCHANGED <<fifo, units, line, request>>

Free ==
    /\ status = "Deleted" /\ status' = "Freed"
    /\ \A c \in Calls : fate[c] = "out"
    /\ UNCHANGED <<fifo, units, line, request, fate>>

AbsNext ==
    \/ \E need \in 1..MaxCount : Take(need)
    \/ \E c \in Calls, need \in 1..MaxCount, timed \in BOOLEAN : Ask(c, need, timed)
    \/ \E c \in Calls : Grant(c) \/ Leave(c)
    \/ \E n \in SignalCounts : Put(n)
    \/ \E n \in -1..MaxCount : Cancel(n)
    \/ Delete
    \/ Free

AbsSpec == AbsInit /\ [][AbsNext]_absVars
================================================================================
