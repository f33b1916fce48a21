------------------------------- MODULE MCGuestGpu -------------------------------
(* Instances of GuestGpu for TLC.                                          *)
EXTENDS GuestGpu

CONSTANTS a

P(op, arg) == [op |-> op, arg |-> arg]
Draw(cmds, consts) == [queue |-> Graphics, commands |-> cmds, constants |-> consts]
Dispatch(cmds) == [queue |-> 1, commands |-> cmds, constants |-> <<>>]

Engines ==
    Draw(<<P("WaitCe", 0), P("IncrementDe", 0), P("WaitCe", 0), P("Wait", a)>>,
         <<P("IncrementCe", 0), P("WaitDeDiff", 1), P("IncrementCe", 0)>>)
Writes == Dispatch(<<P("Write", a)>>)
Stalls == Dispatch(<<P("Wait", a)>>)

ThreeLists == {Engines, Writes, Stalls}
================================================================================
