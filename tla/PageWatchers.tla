------------------------------ MODULE PageWatchers ------------------------------
(* The watchers of a page and the protection they call for (host_gpu/pageManager). *)
(* A caller counts watchers up or down on some pages of a region, and the pages     *)
(* whose protection changes are protected in as few ranges as possible: a range     *)
(* may run over pages in between that have the same protection already.             *)
EXTENDS Integers, FiniteSets, Sequences, SequencesExt

CONSTANTS
    RegionPages,  \* pages of a region
    MaxWatchers   \* write watchers of a page that the inputs reach

PageIndices == 1 .. RegionPages
Modes == {"NoAccess", "Read", "ReadWrite"}
PageState == [write : 0 .. MaxWatchers, access : 0 .. 1]

Perms(page) ==
    CASE page.access # 0 -> "NoAccess"
      [] page.access = 0 /\ page.write # 0 -> "Read"
      [] page.access = 0 /\ page.write = 0 -> "ReadWrite"

(* The calls whose counters neither overflow nor underflow: both are Fatal.          *)
Count(page, isRead) == IF isRead THEN page.access ELSE page.write
Legal(page, track, isRead) ==
    IF track THEN Count(page, isRead) < (IF isRead THEN 1 ELSE MaxWatchers)
    ELSE Count(page, isRead) > 0
AddDelta(page, track, isRead) ==
    LET delta == IF track THEN 1 ELSE -1 IN
    IF isRead THEN [page EXCEPT !.access = @ + delta] ELSE [page EXCEPT !.write = @ + delta]

(* The walk over the pages from the first to the last of the mask: the pages, the host's protection, *)
(* and the range that waits to be protected.                                                          *)
Protect(walk, length) ==
    [i \in PageIndices |-> IF i \in walk.begin .. walk.begin + length - 1 THEN walk.perms ELSE walk.host[i]]
\* Mutant: the range that waits is given up when the protection changes.
ForgetPending(walk) == [walk EXCEPT !.bytes = 0, !.potential = 0]
ReleasePending(walk) ==
    IF walk.bytes = 0 THEN walk
    ELSE [walk EXCEPT !.host = Protect(walk, walk.bytes), !.bytes = 0, !.potential = 0]

Visit(walk, i, mask, track, isRead) ==
    LET page == walk.pages[i]
        changed == IF i \in mask THEN AddDelta(page, track, isRead) ELSE page
        met == IF Perms(changed) # walk.perms
               THEN [ReleasePending(walk) EXCEPT !.perms = Perms(changed)]
               ELSE [walk EXCEPT !.potential = IF walk.bytes # 0 THEN @ + 1 ELSE @]
        edge == Count(changed, isRead) = (IF track THEN 1 ELSE 0)
        counted == [met EXCEPT !.pages[i] = changed] IN
    IF i \in mask /\ edge /\ Perms(page) # Perms(changed)
    THEN IF met.bytes = 0
         THEN [counted EXCEPT !.begin = i, !.potential = 1, !.bytes = 1]
         ELSE [counted EXCEPT !.bytes = met.potential]
    ELSE counted

UpdateRegionWatchers(pages, mask, track, isRead) ==
    LET first == CHOOSE i \in mask : \A j \in mask : i <= j
        last == CHOOSE i \in mask : \A j \in mask : j <= i
        start == [pages |-> pages, host |-> [i \in PageIndices |-> Perms(pages[i])],
                  perms |-> Perms(pages[first]), begin |-> 0, bytes |-> 0, potential |-> 0]
        walked == FoldLeft(LAMBDA walk, i : Visit(walk, i, mask, track, isRead), start,
                           [n \in 1 .. last - first + 1 |-> first + n - 1]) IN
    ReleasePending(walked)

(* Whatever the watchers were and whichever pages change, afterwards the host protects every page    *)
(* as its watchers call for, so that no fault is missed and none repeats for ever.                    *)
HostFollowsWatchers ==
    \A pages \in [PageIndices -> PageState], mask \in SUBSET PageIndices \ {{}}, track, isRead \in BOOLEAN :
        (\A i \in mask : Legal(pages[i], track, isRead)) =>
            LET after == UpdateRegionWatchers(pages, mask, track, isRead) IN
            \A i \in PageIndices :
                /\ after.pages[i] = IF i \in mask THEN AddDelta(pages[i], track, isRead) ELSE pages[i]
                /\ after.host[i] = Perms(after.pages[i])
================================================================================
