----------------------------- MODULE MCSyncOnAddress -----------------------------
(* Instances of SyncOnAddress for TLC: calls of either kind.                           *)
EXTENDS SyncOnAddress

MCWaitCalls == {[wide |-> TRUE, timed |-> FALSE], [wide |-> FALSE, timed |-> TRUE]}
================================================================================
