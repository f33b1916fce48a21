----------------------------- MODULE MCKernelObjects -----------------------------
(* Instances for TLC of the objects that guest threads wait for: EventFlag, with two     *)
(* bits, three calls and a wait of every mode; EventQueue, with one waiter, timers and   *)
(* queued events, with two waiters, and with events that stay triggered; PthreadRwlock,  *)
(* PthreadMonitor, SyncOnAddress and PosixSemaphore.  They share no state, and one run   *)
(* explores one after the other: subject says which.                                     *)
EXTENDS EventFlag, EventQueue, PthreadRwlock, PthreadMonitor, SyncOnAddress, PosixSemaphore

CONSTANTS a, b, user, ampr, w1, w2, Watched

MCBits == {a, b}
MCAllPatterns == SUBSET MCBits
Shape(bs, mode, clear, timed) == [bits |-> bs, mode |-> mode, clear |-> clear, timed |-> timed]
MCSomeWaits ==
    {Shape({a}, "Or", "None", FALSE), Shape({a}, "Or", "Bits", FALSE),
     Shape({a, b}, "Or", "All", FALSE), Shape({b}, "And", "All", TRUE),
     Shape({a, b}, "And", "Bits", TRUE)}
MCWaitCalls == {[wide |-> TRUE, timed |-> FALSE], [wide |-> FALSE, timed |-> TRUE]}

ASSUME ValidConstants

VARIABLES subject,
          otherOrder, otherEv, otherClosed, otherWaiter, otherAsked, otherAlarm, otherNow,
          otherSent, otherGot, otherFirst
otherVars == <<otherOrder, otherEv, otherClosed, otherWaiter, otherAsked, otherAlarm, otherNow,
              otherSent, otherGot, otherFirst>>

(* Waiters that compete, with each other and with polls, for events which clear when they *)
(* are delivered.                                                                         *)
Many == INSTANCE EventQueue WITH
    Level <- {}, Edge <- {user}, Queued <- {ampr}, Periodic <- {}, OneShot <- {},
    Waiters <- {w1, w2}, Nums <- {1, 2}, Delays <- {}, Timeouts <- {0, 1},
    MaxNow <- 2, MaxSent <- 2,
    order <- otherOrder, ev <- otherEv, closed <- otherClosed, waiter <- otherWaiter,
    asked <- otherAsked, alarm <- otherAlarm, now <- otherNow,
    sent <- otherSent, got <- otherGot, first <- otherFirst

(* A waiter of events that stay triggered, beside timers.                                 *)
Lasting == INSTANCE EventQueue WITH
    Level <- {user}, Edge <- {}, Queued <- {}, Periodic <- Periodic, OneShot <- OneShot,
    Waiters <- {w1}, Nums <- {1}, Delays <- {0, 1}, Timeouts <- {1},
    MaxNow <- 3, MaxSent <- 1,
    order <- otherOrder, ev <- otherEv, closed <- otherClosed, waiter <- otherWaiter,
    asked <- otherAsked, alarm <- otherAlarm, now <- otherNow,
    sent <- otherSent, got <- otherGot, first <- otherFirst

ASSUME Many!ValidConstants /\ Lasting!ValidConstants

AllInit ==
    /\ subject \in {"flag", "queue", "many", "lasting", "rwlock", "monitor", "address", "posix"}
    /\ Init /\ QueueInit
    /\ IF subject = "lasting" THEN Lasting!QueueInit ELSE Many!QueueInit
    /\ RwlockInit /\ MonitorInit /\ AddressInit /\ PosixInit
    /\ subject # "flag" => single
    /\ subject # "monitor" => ~ recursive
    /\ subject # "address" => ~ portable

flagVars == vars
OnFlag(A) == A /\ UNCHANGED <<subject, queueVars, otherVars, rwlockVars, monitorVars, addressVars, posixVars>>
OnQueue(A) == A /\ UNCHANGED <<subject, flagVars, otherVars, rwlockVars, monitorVars, addressVars, posixVars>>
OnOther(A) == A /\ UNCHANGED <<subject, flagVars, queueVars, rwlockVars, monitorVars, addressVars, posixVars>>
OnRwlock(A) == A /\ UNCHANGED <<subject, flagVars, queueVars, otherVars, monitorVars, addressVars, posixVars>>
OnMonitor(A) == A /\ UNCHANGED <<subject, flagVars, queueVars, otherVars, rwlockVars, addressVars, posixVars>>
OnAddress(A) == A /\ UNCHANGED <<subject, flagVars, queueVars, otherVars, rwlockVars, monitorVars, posixVars>>
OnPosix(A) == A /\ UNCHANGED <<subject, flagVars, queueVars, otherVars, rwlockVars, monitorVars, addressVars>>

AllNext ==
    \/ subject = "flag" /\ OnFlag(Next)
    \/ subject = "queue" /\ OnQueue(QueueNext)
    \/ subject = "many" /\ OnOther(Many!QueueNext)
    \/ subject = "lasting" /\ OnOther(Lasting!QueueNext)
    \/ subject = "rwlock" /\ OnRwlock(RwlockNext)
    \/ subject = "monitor" /\ OnMonitor(MonitorNext)
    \/ subject = "address" /\ OnAddress(AddressNext)
    \/ subject = "posix" /\ OnPosix(PosixNext)

(* The fairness of EventFlag; that of EventQueue, whose clock runs where its steps are     *)
(* taken; and one for the threads of the other objects, whose steps exclude each other.    *)
threadVars == <<subject, rwlockVars, monitorVars, addressVars, posixVars>>
Finishes(t) ==
    \/ subject = "rwlock" /\ OnRwlock(Enters(t))
    \/ subject = "monitor" /\ OnMonitor(MonitorFinishes(t))
    \/ subject = "address" /\ t \in AddressThreads /\ OnAddress(AddressGoesOn(t))
    \/ subject = "posix" /\ t \in SemThreads /\ OnPosix(WaitGoesOn(t))
GoesOn(t) ==
    \/ subject = "rwlock" /\ OnRwlock(Unlock(t))
    \/ subject = "monitor" /\ OnMonitor(MonitorGoesOn(t))
    \/ subject = "address" /\ t \in AddressThreads /\ OnAddress(DeadlinePasses(t))
    \/ subject = "posix" /\ t \in SemThreads /\ OnPosix(SemDeadlinePasses(t))

AllSpec ==
    /\ AllInit
    /\ [][AllNext]_<<subject, flagVars, queueVars, otherVars, rwlockVars, monitorVars, addressVars, posixVars>>
    /\ Fairness
    /\ WF_now(subject = "queue" /\ Tick)
    /\ \A w \in Waiters : WF_waiter(AlarmRings(w) /\ SleeperWakes(w)) /\ WF_waiter(MovesOn(w))
    /\ \A t \in Threads : WF_threadVars(GoesOn(t)) /\ WF_threadVars(Finishes(t))

(* The other two queues: one notification for each event is enough with several waiters as *)
(* well, and with one also if the event stays triggered after it was delivered.            *)
OtherQueuesTell ==
    /\ subject = "many" => Many!TriggersArriveInOrder /\ Many!NoSleeperMissesEvent
    /\ subject = "lasting" =>
        Lasting!TriggersArriveInOrder /\ Lasting!NoSleeperMissesEvent /\ Lasting!TimersKeepTime

(* A thread that waits for a lock, whose wait a signal has ended, that has a reason to come     *)
(* back from a word, or a unit or a deadline, comes back from its call; so does a timed wait     *)
(* for events; and who cancels or deletes a flag comes back if calls stop arriving.  The threads  *)
(* are interchangeable, and it is stated of one of them.                                        *)
InCall(t) ==
    \/ ~ Idle(t) \/ MonitorComesBack(t)
    \/ t \in AddressThreads /\ AddressComesBack(t)
    \/ t \in SemThreads /\ WaitComesBack(t)
CallsEnd ==
    /\ InCall(Watched) ~> ~ InCall(Watched)
    /\ TimedWaitEnds
    /\ CancelAndDeleteFinish
================================================================================
