------------------------------- MODULE EventFlag -------------------------------
(***************************************************************************)
(* One event flag of the guest kernel: KernelEventFlagPrivate of           *)
(* src/src/kernel/eventFlag.cpp.                                           *)
(*                                                                         *)
(* A method runs under m_mutex, except where it sleeps on the condition    *)
(* variable or polls for a status.  Wait re-enters m_mutex after every     *)
(* sleep, and what it then sees decides: one step, Resume.  Cancel, and    *)
(* the destructor, mark the status, notify all and poll until nobody is    *)
(* counted as waiting; Set, Clear and Cancel poll until the status is Set, *)
(* which is a guard here.                                                  *)
(*                                                                         *)
(* A sleeping call wakes by notification, by its own timeout, or because   *)
(* Common::CondVar::Wait comes back every 10 ms to dispatch guest signals. *)
(* A call that arrives while a Cancel or the destructor polls has missed   *)
(* the notification: only the latter two can wake it.                      *)
(*                                                                         *)
(* A wait that is refused (single-waiter flag, EPERM) or that polls in     *)
(* vain (EBUSY) changes nothing and has no action.                         *)
(***************************************************************************)
EXTENDS Integers, FiniteSets

CONSTANTS
    Calls,        \* the wait calls that can be in flight
    Bits,         \* the bit positions of the flag
    InitBits,
    Waits,        \* bound: the waits guests do, see WaitShape
    SetPatterns,
    ClearPatterns,
    CancelPatterns

\* What a wait asks for, as DecodeEventFlagWaitMode reads it.
WaitShape ==
    [bits : SUBSET Bits, mode : {"And", "Or"},
     clear : {"None", "All", "Bits"}, timed : BOOLEAN]

\* KernelWaitEventFlag refuses an empty pattern.
LegalWaits == {w \in WaitShape : w.bits # {}}

ASSUME EventFlagAssumption ==
    /\ IsFiniteSet(Calls)
    /\ InitBits \subseteq Bits
    /\ Waits \subseteq LegalWaits
    /\ SetPatterns \subseteq SUBSET Bits
    /\ ClearPatterns \subseteq SUBSET Bits
    /\ CancelPatterns \subseteq SUBSET Bits

VARIABLES
    single,    \* m_single_thread: attribute 0x10, never changes
    bits,      \* m_bits
    status,    \* m_status, and "Freed" once the destructor has returned
    waiting,   \* m_waiting_threads
    phase,     \* of each call: "out", "asleep", or "woken" and waiting for m_mutex
    wants,     \* the WaitShape of each call that is in
    hit        \* history: the calls that were in when the current Cancel came

vars == <<single, bits, status, waiting, phase, wants, hit>>

--------------------------------------------------------------------------------
Nothing == [bits |-> {}, mode |-> "Or", clear |-> "None", timed |-> FALSE]

Inside == {c \in Calls : phase[c] # "out"}

\* The condition of the loop of Wait, and the switch on clear_mode after it.
Satisfied(w) ==
    \/ w.mode = "And" /\ w.bits \subseteq bits
    \/ w.mode = "Or" /\ w.bits \cap bits # {}

Consume(w) ==
    bits' = CASE w.clear = "None" -> bits
              [] w.clear = "All"  -> {}
              [] w.clear = "Bits" -> bits \ w.bits

\* SignalAll.
NotifyAll == phase' = [c \in Calls |-> IF phase[c] = "asleep" THEN "woken" ELSE phase[c]]

--------------------------------------------------------------------------------
Init ==
    /\ single \in BOOLEAN
    /\ bits = InitBits
    /\ status = "Set"
    /\ waiting = 0
    /\ phase = [c \in Calls |-> "out"]
    /\ wants = [c \in Calls |-> Nothing]
    /\ hit = {}

\* Mutant: the check alone, the slot is claimed only when the call sleeps.
SlotCheckedEarly == status # "Freed"

\* The single-waiter gate.
SlotFree == single => waiting = 0

\* Wait finds its bits at once.  The status does not matter to it.
WaitAtOnce(w) ==
    /\ status # "Freed"
    /\ SlotFree
    /\ Satisfied(w)
    /\ Consume(w)
    /\ UNCHANGED <<single, status, waiting, phase, wants, hit>>

\* Wait counts itself and goes to sleep.
WaitSleeps(c, w) ==
    /\ status # "Freed" /\ phase[c] = "out"
    /\ SlotFree
    /\ ~Satisfied(w)
    /\ waiting' = IF single THEN 1 ELSE waiting + 1
    /\ phase' = [phase EXCEPT ![c] = "asleep"]
    /\ wants' = [wants EXCEPT ![c] = w]
    /\ UNCHANGED <<single, bits, status, hit>>

\* Mutant: an untimed sleep is not interrupted.
WakesByTimeout(c) ==
    /\ phase[c] = "asleep" /\ wants[c].timed
    /\ phase' = [phase EXCEPT ![c] = "woken"]
    /\ UNCHANGED <<single, bits, status, waiting, wants, hit>>

\* The timeout of WaitFor, or the 10 ms poll of CondVar::Wait.
WakesAlone(c) ==
    /\ phase[c] = "asleep"
    /\ phase' = [phase EXCEPT ![c] = "woken"]
    /\ UNCHANGED <<single, bits, status, waiting, wants, hit>>

Leave(c) ==
    /\ waiting' = IF single THEN 0 ELSE waiting - 1
    /\ phase' = [phase EXCEPT ![c] = "out"]
    /\ wants' = [wants EXCEPT ![c] = Nothing]
    /\ hit' = hit \ {c}

\* Canceled or Deleted, whatever the bits and the clock say.
ResumeReleased(c) ==
    /\ phase[c] = "woken"
    /\ status \in {"Canceled", "Deleted"}
    /\ Leave(c)
    /\ UNCHANGED <<single, bits, status>>

ResumeOk(c) ==
    /\ phase[c] = "woken"
    /\ status = "Set"
    /\ Satisfied(wants[c])
    /\ Consume(wants[c])
    /\ Leave(c)
    /\ UNCHANGED <<single, status>>

\* elapsed >= micros; how much has elapsed is open.
ResumeTimedOut(c) ==
    /\ phase[c] = "woken"
    /\ status = "Set"
    /\ ~Satisfied(wants[c])
    /\ wants[c].timed
    /\ Leave(c)
    /\ UNCHANGED <<single, bits, status>>

\* m_waiting_threads goes down and up again: to others, it does not change.
ResumeSleeps(c) ==
    /\ phase[c] = "woken"
    /\ status = "Set"
    /\ ~Satisfied(wants[c])
    /\ phase' = [phase EXCEPT ![c] = "asleep"]
    /\ UNCHANGED <<single, bits, status, waiting, wants, hit>>

\* Mutant: one notification, as if only one waiter could be interested.
SetNotifiesOne(b) ==
    /\ status = "Set"
    /\ bits' = bits \cup b
    /\ phase' \in {[phase EXCEPT ![c] = IF @ = "asleep" THEN "woken" ELSE @] : c \in Calls}
    /\ UNCHANGED <<single, status, waiting, wants, hit>>

Set(b) ==
    /\ status = "Set"
    /\ bits' = bits \cup b
    /\ NotifyAll
    /\ UNCHANGED <<single, status, waiting, wants, hit>>

\* sceKernelClearEventFlag keeps the bits of its pattern.
Clear(b) ==
    /\ status = "Set"
    /\ bits' = bits \cap b
    /\ UNCHANGED <<single, status, waiting, phase, wants, hit>>

CancelStarts(b) ==
    /\ status = "Set"
    /\ status' = "Canceled"
    /\ bits' = b
    /\ NotifyAll
    /\ hit' = Inside
    /\ UNCHANGED <<single, waiting, wants>>

\* Mutant: the caller does not wait for the canceled calls to leave.
NobodyAsleep == \A c \in Calls : phase[c] # "asleep"

Drained == waiting = 0

CancelReturns ==
    /\ status = "Canceled"
    /\ Drained
    /\ status' = "Set"
    /\ UNCHANGED <<single, bits, waiting, phase, wants, hit>>

DeleteStarts ==
    /\ status = "Set"
    /\ status' = "Deleted"
    /\ NotifyAll
    /\ UNCHANGED <<single, bits, waiting, wants, hit>>

DeleteReturns ==
    /\ status = "Deleted"
    /\ Drained
    /\ status' = "Freed"
    /\ UNCHANGED <<single, bits, waiting, phase, wants, hit>>

--------------------------------------------------------------------------------
Arrives == \E c \in Calls, w \in Waits : WaitSleeps(c, w)

Resumes(c) == ResumeReleased(c) \/ ResumeOk(c) \/ ResumeTimedOut(c)

Next ==
    \/ \E w \in Waits : WaitAtOnce(w)
    \/ Arrives
    \/ \E c \in Calls : WakesAlone(c) \/ Resumes(c) \/ ResumeSleeps(c)
    \/ \E b \in SetPatterns : Set(b)
    \/ \E b \in ClearPatterns : Clear(b)
    \/ \E b \in CancelPatterns : CancelStarts(b)
    \/ CancelReturns
    \/ DeleteStarts
    \/ DeleteReturns

Spec == Init /\ [][Next]_vars

\* Sleeps end, because of the timeouts and the polls; a woken call gets m_mutex
\* and goes on; the clock of a timed call runs out; Cancel and the destructor
\* poll on.
Fairness ==
    /\ \A c \in Calls : /\ WF_phase(WakesAlone(c))
                        /\ WF_phase(Resumes(c) \/ ResumeSleeps(c))
                        /\ SF_phase(wants[c].timed /\ Resumes(c))
    /\ WF_status(CancelReturns) /\ WF_status(DeleteReturns)

FairSpec == Spec /\ Fairness

--------------------------------------------------------------------------------
\* Type invariant.
TypeOK ==
    /\ single \in BOOLEAN
    /\ bits \subseteq Bits
    /\ status \in {"Set", "Canceled", "Deleted", "Freed"}
    /\ waiting \in Nat
    /\ phase \in [Calls -> {"out", "asleep", "woken"}]
    /\ wants \in [Calls -> WaitShape]
    /\ hit \subseteq Inside

\* m_waiting_threads, on which Cancel and the destructor rely, is the number of
\* calls inside; and a single-waiter flag never has two, which is what the
\* comment on the gate in Wait claims.
CountsWaiters ==
    /\ waiting = Cardinality(Inside)
    /\ single => Cardinality(Inside) <= 1

\* The two together: the number is of the calls inside, of whatever kind.
FlagConsistent == TypeOK /\ CountsWaiters

\* No lost wakeup: a call that nobody has notified sleeps only while its
\* condition is false, whatever Set, Clear, Cancel and the clear modes of other
\* waiters did since it looked.
NoSatisfiedSleeper ==
    \A c \in Calls : phase[c] = "asleep" => ~Satisfied(wants[c])

\* Cancel is complete: it puts the status back only when every call that was
\* inside when it came has left, and those can leave only as canceled.
CanceledAllLeave == hit # {} => status = "Canceled"

\* No call is inside a flag that has been freed.
FreedOnlyWhenIdle == status = "Freed" => Inside = {}

\* If calls stop arriving, Cancel and KernelDeleteEventFlag come back, although a
\* call that arrived meanwhile has missed their notification.  (While calls keep
\* arriving they may not: each poll can find another one inside.)
CancelAndDeleteFinish ==
    <>[][~Arrives]_vars =>
        \A s \in {"Canceled", "Deleted"} : status = s ~> status # s

================================================================================
