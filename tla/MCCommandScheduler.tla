--------------------------- MODULE MCCommandScheduler ---------------------------
(* Instances of CommandScheduler for TLC.                                   *)
EXTENDS CommandScheduler, TLC

CONSTANT t1

MCOthers == {t1}
================================================================================
