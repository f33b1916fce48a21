--------------------------- MODULE MCKernelSemaphore ---------------------------
(* KernelSemaphore with three wait calls, two of them of one priority. *)
EXTENDS KernelSemaphore

CONSTANTS first, second, urgent

MCCalls == {first, second, urgent}
MCPriority == [c \in Calls |-> IF c = urgent THEN 256 ELSE 700]
MCNeedCounts == 0..(MaxCount + 1)
MCSignalCounts == -1..2
MCCancelCounts == {-1, 0, 1, MaxCount + 1}
MCMinCount == -1
================================================================================
