------------------------------ MODULE GuestThreads ------------------------------
(* The threads of the guest, and what stands for none of them, for the objects of      *)
(* kernel/pthread.cpp that threads own.                                                 *)
EXTENDS FiniteSets

CONSTANTS
    Threads,  \* guest threads
    None      \* no thread

ASSUME ThreadsAssumption == IsFiniteSet(Threads) /\ None \notin Threads
================================================================================
