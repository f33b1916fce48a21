------------------------------ MODULE MCGpuMemory ------------------------------
(* Instances of GpuMemory and of PageWatchers for TLC.                         *)
EXTENDS GpuMemory, TLC

Watchers == INSTANCE PageWatchers WITH RegionPages <- 4, MaxWatchers <- 2
ASSUME HostFollowsWatchers == Watchers!HostFollowsWatchers

Symmetry == Permutations(Threads) \cup Permutations(Values)
================================================================================
