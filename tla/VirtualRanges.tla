---------------------------- MODULE VirtualRanges ----------------------------
(***************************************************************************)
(* Tables of address intervals, as kernel/memory.cpp keeps them.  An entry *)
(* has the set of the pages it covers, which is an interval, and what      *)
(* these pages are: VirtualRanges::Range, or a mapping of one of the       *)
(* owners (PhysicalMemory, FlexibleMemory, PooledMemory), whose offset is  *)
(* the page of backing memory that its first page shows.                   *)
(***************************************************************************)
EXTENDS Integers, FiniteSets, FiniteSetsExt

Committed(type) == type \notin {"Reserved", "PoolReserved"}
Private(type) == type \in {"Stack", "Code", "Runtime"}

Touching(table, S) == {r \in table : r.pages \cap S # {}}
PagesOf(table) == UNION {r.pages : r \in table}
Covers(table, S) == S \subseteq PagesOf(table)

(***************************************************************************)
(* A piece of an entry.  The offset moves with the start; of the virtual   *)
(* ranges only the direct ones have an offset.                             *)
(***************************************************************************)
Piece(r, S) == [r EXCEPT !.pages = S, !.offset = @ + Min(S) - Min(r.pages)]
RangePiece(r, S) ==
    IF r.type = "Direct" THEN Piece(r, S) ELSE [r EXCEPT !.pages = S]

(***************************************************************************)
(* The entries of the table, each cut where S begins and where it ends.    *)
(***************************************************************************)
Cut(table, S, Part(_, _)) ==
    LET lo == Min(S)
        hi == Max(S)
        parts(r) == {{p \in r.pages : p < lo}, r.pages \cap S, {p \in r.pages : p > hi}} \ {{}}
        torn == {r \in table : r.pages \cap S \notin {{}, r.pages}}
    IN  (table \ torn) \cup UNION {{Part(r, Q) : Q \in parts(r)} : r \in torn}

Split(table, S) == Cut(table, S, Piece)
Without(table, S) == {r \in Split(table, S) : r.pages \cap S = {}}
Within(table, S) == Touching(Split(table, S), S)
\* The same for each of several intervals.
SplitAll(table, Ss) == FoldSet(LAMBDA S, t : Split(t, S), table, Ss)
WithoutAll(table, Ss) == FoldSet(LAMBDA S, t : Without(t, S), table, Ss)

\* The backing page that p shows, and all that an entry shows.
At(r, p) == r.offset + p - Min(r.pages)
Shows(table) == UNION {{At(r, p) : p \in r.pages} : r \in table}

-----------------------------------------------------------------------------
(* The virtual ranges *)

SplitRanges(ranges, S) == Cut(ranges, S, RangePiece)
\* QuerySpan: the parts of the ranges that lie in S.
Parts(ranges, S) == Touching(SplitRanges(ranges, S), S)
Remove(ranges, S) == {r \in SplitRanges(ranges, S) : r.pages \cap S = {}}
\* S is covered by ranges of one type and nothing else.
AllOf(ranges, S, type) ==
    Covers(ranges, S) /\ \A r \in Touching(ranges, S) : r.type = type

SameMergeKey(r, s) ==
    /\ "Direct" \notin {r.type, s.type}
    /\ r.type = s.type /\ r.protection = s.protection /\ r.name = s.name

(***************************************************************************)
(* The ranges that merging joins with r: those with its key that it        *)
(* reaches over ranges with its key.                                       *)
(***************************************************************************)
Run(ranges, r) ==
    LET alike == {q \in ranges : q = r \/ SameMergeKey(r, q)}
        covered == PagesOf(alike)
    IN  {q \in alike : Min(r.pages \cup q.pages)..Max(r.pages \cup q.pages) \subseteq covered}

Joined(run) ==
    [(CHOOSE r \in run : TRUE) EXCEPT !.pages = PagesOf(run)]

\* MergeAround: around one entry; MergeSpan: in S and with both neighbours.
MergeAround(ranges, r) ==
    LET run == Run(ranges, r) IN (ranges \ run) \cup {Joined(run)}
MergeSpan(ranges, S) ==
    LET near == Touching(ranges, Min(S) - 1 .. Max(S) + 1)
    IN  (ranges \ near) \cup {Joined(Run(near, r)) : r \in near}

Add(ranges, r) == MergeAround(ranges \cup {r}, r)
AddAll(ranges, new) == FoldSet(LAMBDA r, t : Add(t, r), ranges, new)
ReplaceSpan(ranges, r) == Add(Remove(ranges, r.pages), r)

(***************************************************************************)
(* EditUnlocked: split at both ends, change what lies between, merge.  A   *)
(* Rename of exactly one range merges around it, which is the same.        *)
(***************************************************************************)
Edit(ranges, S, changed) == MergeSpan(Remove(ranges, S) \cup changed, S)
Rename(ranges, S, name) ==
    Edit(ranges, S, {[r EXCEPT !.name = name] : r \in Parts(ranges, S)})
Protect(ranges, S, protection) ==
    Edit(ranges, S, {[r EXCEPT !.protection = protection] : r \in Parts(ranges, S)})

(***************************************************************************)
(* Nonempty, without overlap, and no two neighbours that should be one     *)
(* (the comment at the map of the class).                                  *)
(***************************************************************************)
Coalesced(ranges) ==
    /\ \A r \in ranges : r.pages # {} /\ r.pages = Min(r.pages)..Max(r.pages)
    /\ \A r, s \in ranges :
        r # s => /\ r.pages \cap s.pages = {}
                 /\ ~ (Max(r.pages) + 1 = Min(s.pages) /\ SameMergeKey(r, s))

-----------------------------------------------------------------------------
(* Lists of free pages, which are kept coalesced *)

\* The n lowest pages of a free list: what a first fit in pieces takes.
Lowest(free, n) == {p \in free : Cardinality({q \in free : q <= p}) <= n}

(***************************************************************************)
(* The pieces in which the interval S shows the pages taken, in order: one *)
(* for each run of consecutive backing pages.                              *)
(***************************************************************************)
Chunks(S, taken) ==
    LET behind(p) == CHOOSE b \in taken :
                        Cardinality({c \in taken : c <= b}) = p - Min(S) + 1
        shift == {behind(p) - p : p \in S}
        pages(d) == {p \in S : behind(p) - p = d}
    IN  {[pages |-> pages(d), offset |-> d + Min(pages(d))] : d \in shift}
=============================================================================
