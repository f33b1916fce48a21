----------------------------- MODULE GuestMemory -----------------------------
(***************************************************************************)
(* The memory of the guest: kernel/memory.cpp over the address space of    *)
(* kernel/memoryAddressSpace.inc (the Linux build).  What is mapped where  *)
(* is kept several times: the virtual ranges that the guest can query, the *)
(* tables of the three owners of backing memory, the views of the host,    *)
(* and the ranges the GPU may use.  Every call holds                       *)
(* g_memory_operation_mutex from its first look to its last change, so     *)
(* that a call is one action; what can go wrong are the steps that the     *)
(* host refuses, which the call undoes, and calls on pieces of what others *)
(* made.  Calls that are refused before they change anything have no       *)
(* action, and neither have those that end the program because the guest   *)
(* may not make them.                                                      *)
(***************************************************************************)
EXTENDS VirtualRanges

CONSTANTS Pages,            \* guest pages, an interval of positive numbers
          DirectPages,      \* pages of direct memory
          FlexiblePages,    \* pages of flexible memory, behind the direct ones
          PrivateTypes,     \* Stack, Code, Runtime
          Protections, Names,
          HostRefuses       \* bound: whether the host refuses what it may refuse

VARIABLES ranges,           \* g_virtual_ranges
          view,             \* m_free, m_mapped, m_maps: what the host shows at a page
          gpu,              \* m_mapped_ranges of the render context
          blocks, free, automaticFree, mappings,    \* g_physical_memory
          flexible, flexibleFree,                   \* g_flexible_memory
          expansions, poolFree, pooled              \* g_pooled_memory

physicalVars == <<blocks, free>>
poolVars == <<expansions, poolFree, pooled>>
vars == <<ranges, view, gpu, blocks, free, automaticFree, mappings, flexible,
          flexibleFree, expansions, poolFree, pooled>>

\* What the host shows where it shows no backing memory.
FreePage == -1
PrivatePage == -2

Intervals(S) == {i \in {{p \in S : a <= p /\ p <= b} : a, b \in S} : i # {}}

Init ==
    /\ ranges = {} /\ mappings = {} /\ flexible = {} /\ pooled = {}
    /\ view = [p \in Pages |-> FreePage]
    /\ gpu = {}
    /\ blocks = {} /\ free = DirectPages /\ automaticFree = {}
    /\ flexibleFree = FlexiblePages
    /\ expansions = {} /\ poolFree = {}

-----------------------------------------------------------------------------
(* Tables that a call changes together *)

NewRange(S, type, offset, protection, name) ==
    [pages |-> S, type |-> type, offset |-> offset, protection |-> protection, name |-> name]
Reserved(S) == NewRange(S, "Reserved", 0, "none", "anon")

Protected(chunks, protection) ==
    {[pages |-> c.pages, offset |-> c.offset, protection |-> protection] : c \in chunks}

\* What the host shows when the chunks are mapped, and when S is not any more.
Showing(chunks) ==
    [p \in Pages |-> IF p \in PagesOf(chunks)
                     THEN At(CHOOSE c \in chunks : p \in c.pages, p) ELSE view[p]]
Hidden(S) == [p \in Pages |-> IF p \in S THEN FreePage ELSE view[p]]

PagesOfKind(kind) == PagesOf({b \in blocks : b.kind = kind})

\* Mutant: without a look at the other mappings of the page.
ReclaimedAtOnce(S) == Shows(Within(mappings, S)) \cap PagesOfKind("Automatic")
\* ReclaimAutomatic: what S showed of automatic blocks and nothing else shows.
Reclaimed(S) ==
    (Shows(Within(mappings, S)) \cap PagesOfKind("Automatic")) \ Shows(Without(mappings, S))

FlexibleDrops(S) ==
    /\ flexible' = Without(flexible, S)
    /\ flexibleFree' = flexibleFree \cup Shows(Within(flexible, S))

Vacant(S) == Touching(ranges, S) = {} /\ \A p \in S : view[p] = FreePage

(***************************************************************************)
(* PhysicalMemory::Unmap finds one mapping with all of S or none.          *)
(***************************************************************************)
OneMapping(S) == \E m \in mappings : S \subseteq m.pages
Droppable(r) == r.type = "Direct" => OneMapping(r.pages)
\* Owners whose views the host may refuse to take away.
MayRefuse(r) == HostRefuses /\ r.type \in {"Direct", "Flexible", "Pooled"}
Below(S, r) == {p \in S : p < Min(r.pages)}

(***************************************************************************)
(* ReplaceFixedRangeWithReserved(S), which ends the program for pooled     *)
(* memory: what S holds is unmapped part by part and S is one range.       *)
(***************************************************************************)
Replaceable(S) ==
    \A r \in Parts(ranges, S) : r.type # "Pooled" /\ Droppable(r)

ReplacedBy(S, newRanges) ==
    /\ ranges' = newRanges
    /\ mappings' = Without(mappings, S)
    /\ automaticFree' = automaticFree \cup Reclaimed(S)
    /\ FlexibleDrops(S)
    /\ view' = Hidden(S)
    /\ gpu' = gpu \ S
    /\ UNCHANGED <<physicalVars, poolVars>>

ReplaceFixed(S) == Replaceable(S) /\ ReplacedBy(S, ReplaceSpan(ranges, Reserved(S)))

(***************************************************************************)
(* The part r is refused: the parts before it are mapped again, each on    *)
(* its own, the ranges are added again, and the GPU gets back what it had. *)
(***************************************************************************)
RollsBack(S) ==
    LET parts == Parts(ranges, S)
    IN  /\ \A r \in parts : r.type # "Pooled"
        /\ \E r \in parts :
            LET done == {q \in parts : q.pages \subseteq Below(S, r)}
                of(type) == {q.pages : q \in {x \in done : x.type = type}}
            IN  /\ MayRefuse(r)
                /\ \A q \in done : Droppable(q)
                /\ mappings' = SplitAll(mappings, of("Direct"))
                /\ flexible' = SplitAll(flexible, of("Flexible"))
        /\ ranges' = AddAll(Remove(ranges, S), parts)
        /\ gpu' = (gpu \ S) \cup PagesOf({r \in parts : Committed(r.type)})
        /\ UNCHANGED <<view, physicalVars, automaticFree, flexibleFree, poolVars>>

-----------------------------------------------------------------------------
(* Reserving and mapping *)

KernelReserveVirtualRange(S) == ReplaceFixed(S) \/ RollsBack(S)

(***************************************************************************)
(* A mapping that finds no reserved target makes one; if the host then     *)
(* refuses the view, S stays reserved.                                     *)
(***************************************************************************)
TargetLost(S) ==
    /\ ~ AllOf(ranges, S, "Reserved")
    /\ ReplaceFixed(S) \/ RollsBack(S)

MapFlexibleMemory(S, protection, name) ==
    LET unused == flexibleFree \cup Shows(Within(flexible, S))
        chunks == Chunks(S, Lowest(unused, Cardinality(S)))
    IN  /\ Cardinality(S) <= Cardinality(flexibleFree)
        /\ Replaceable(S)
        /\ ranges' = ReplaceSpan(ranges, NewRange(S, "Flexible", 0, protection, name))
        /\ mappings' = Without(mappings, S)
        /\ automaticFree' = automaticFree \cup Reclaimed(S)
        /\ flexible' = Without(flexible, S) \cup Protected(chunks, protection)
        /\ flexibleFree' = unused \ Shows(chunks)
        /\ view' = Showing(chunks)
        /\ gpu' = gpu \cup S
        /\ UNCHANGED <<physicalVars, poolVars>>

MapFlexibleFails(S) ==
    HostRefuses /\ Cardinality(S) <= Cardinality(flexibleFree) /\ TargetLost(S)

CanMapDirect(T) == T \subseteq PagesOfKind("Direct") \cup PagesOfKind("Automatic")

(***************************************************************************)
(* Direct memory replaces direct memory in place, without a reservation in *)
(* between, and then it does not matter how the old mappings lie.          *)
(***************************************************************************)
TakesPlace(S) ==
    IF AllOf(ranges, S, "Direct") THEN Covers(mappings, S) ELSE Replaceable(S)

MapDirectMemory(S, T, protection, name) ==
    LET chunk == [pages |-> S, offset |-> Min(T)]
    IN  /\ Cardinality(S) = Cardinality(T)
        /\ CanMapDirect(T)
        /\ TakesPlace(S)
        /\ ranges' = ReplaceSpan(ranges, NewRange(S, "Direct", Min(T), protection, name))
        /\ mappings' = Without(mappings, S) \cup Protected({chunk}, protection)
        /\ automaticFree' = (automaticFree \cup Reclaimed(S)) \ T
        /\ FlexibleDrops(S)
        /\ view' = Showing({chunk})
        /\ gpu' = gpu \cup S
        /\ UNCHANGED <<physicalVars, poolVars>>

(***************************************************************************)
(* restore_mappings maps the pieces of the old mappings again that lay in  *)
(* S, and leaves the virtual range as it was.                              *)
(***************************************************************************)
RestoresInPlace(S) ==
    /\ Covers(mappings, S)
    /\ mappings' = Split(mappings, S)
    /\ gpu' = gpu \cup S
    /\ UNCHANGED <<ranges, view, physicalVars, automaticFree, flexible, flexibleFree, poolVars>>

MapDirectFails(S) ==
    /\ HostRefuses
    /\ \E T \in Intervals(DirectPages) : Cardinality(T) = Cardinality(S) /\ CanMapDirect(T)
    /\ IF AllOf(ranges, S, "Direct") THEN RestoresInPlace(S) ELSE TargetLost(S)

\* AllocateGuestRuntimeMemory; a Commit that the host refuses changes nothing.
AllocateGuestRuntimeMemory(S, type, protection, name) ==
    /\ Vacant(S)
    /\ ranges' = Add(ranges, NewRange(S, type, 0, protection, name))
    /\ view' = [p \in Pages |-> IF p \in S THEN PrivatePage ELSE view[p]]
    /\ gpu' = gpu \cup S
    /\ UNCHANGED <<physicalVars, automaticFree, mappings, flexible, flexibleFree, poolVars>>

-----------------------------------------------------------------------------
(* Unmapping, names and protection *)

Unmapped(S) ==
    /\ ranges' = Remove(ranges, S)
    /\ mappings' = Without(mappings, S)
    /\ automaticFree' = automaticFree \cup Reclaimed(S)
    /\ FlexibleDrops(S)
    /\ pooled' = Without(pooled, S)
    /\ poolFree' = poolFree \cup Shows(Within(pooled, S))
    /\ view' = Hidden(S)
    /\ gpu' = gpu \ S
    /\ UNCHANGED <<physicalVars, expansions>>

(***************************************************************************)
(* The parts of S in order, up to the first that is refused.               *)
(***************************************************************************)
UnmapParts(S) ==
    LET parts == Parts(ranges, S)
    IN  \/ (\A r \in parts : Droppable(r)) /\ Unmapped(S)
        \/ \E r \in parts :
            /\ MayRefuse(r)
            /\ Below(S, r) # {}
            /\ \A q \in parts : q.pages \subseteq Below(S, r) => Droppable(q)
            /\ Unmapped(Below(S, r))

KernelMunmap(S) == Covers(ranges, S) /\ UnmapParts(S)
UnmapAmmMemory(S) == Touching(ranges, S) # {} /\ UnmapParts(S)
FreeGuestMemory(S) ==
    /\ Covers(ranges, S)
    /\ \A r \in Touching(ranges, S) : r.type \in {"Code", "Runtime"}
    /\ Unmapped(S)

KernelSetVirtualRangeName(S, name) ==
    /\ ranges' = Rename(ranges, S, name)
    /\ UNCHANGED <<view, gpu, physicalVars, automaticFree, mappings, flexible, flexibleFree,
                   poolVars>>

ProtectMemory(S, protection) ==
    LET of(type) == {r.pages : r \in {x \in Parts(ranges, S) : x.type = type}}
        changed(table, Ss) ==
            {IF m.pages \subseteq UNION Ss THEN [m EXCEPT !.protection = protection] ELSE m :
                m \in SplitAll(table, Ss)}
    IN  /\ Covers(ranges, S)
        /\ \A r \in Touching(ranges, S) : Committed(r.type)
        /\ mappings' = changed(mappings, of("Direct"))
        /\ flexible' = changed(flexible, of("Flexible"))
        /\ ranges' = Protect(ranges, S, protection)
        /\ UNCHANGED <<view, gpu, physicalVars, automaticFree, flexibleFree, poolVars>>

-----------------------------------------------------------------------------
(* Direct memory *)

AllocateDirectMemory(T, kind) ==
    /\ T \subseteq free
    /\ free' = free \ T
    /\ blocks' = blocks \cup {[pages |-> T, kind |-> kind]}
    /\ automaticFree' = IF kind = "Automatic" THEN automaticFree \cup T ELSE automaticFree
    /\ UNCHANGED <<ranges, view, gpu, mappings, flexible, flexibleFree, poolVars>>

\* Mutant: the mappings that begin in T instead of those that overlap it.
AliasesByStart(T) ==
    {{p \in m.pages : At(m, p) \in T} : m \in {x \in mappings : x.offset \in T}}
(***************************************************************************)
(* FindMappings: where a part of T is mapped, as pieces of the mappings;   *)
(* each should lie in one direct range.                                    *)
(***************************************************************************)
Aliases(T) ==
    {{p \in m.pages : At(m, p) \in T} : m \in {x \in mappings : Shows({x}) \cap T # {}}}
Escapes(S) ==
    ~ \E r \in ranges : r.type = "Direct" /\ S \subseteq r.pages

Freed(T) ==
    UNION {{[b EXCEPT !.pages = Q] :
                Q \in {{p \in b.pages : p < Min(T)}, {p \in b.pages : p > Max(T)}} \ {{}}} :
           b \in blocks}

ReleaseDirectMemory(T) ==
    LET aliases == Aliases(T)
    IN  /\ CanMapDirect(T)
        /\ \A S \in aliases : ~ Escapes(S)
        /\ mappings' = WithoutAll(mappings, aliases)
        /\ ranges' = FoldSet(LAMBDA S, t : Remove(t, S), ranges, aliases)
        /\ view' = Hidden(UNION aliases)
        /\ gpu' = gpu \ UNION aliases
        /\ blocks' = Freed(T)
        /\ free' = free \cup T
        /\ automaticFree' = automaticFree \ T
        /\ UNCHANGED <<flexible, flexibleFree, poolVars>>

-----------------------------------------------------------------------------
(* The memory pool *)

KernelMemoryPoolExpand(T) ==
    /\ T \subseteq free
    /\ free' = free \ T
    /\ blocks' = blocks \cup {[pages |-> T, kind |-> "Pooled"]}
    /\ expansions' = expansions \cup {T}
    /\ poolFree' = poolFree \cup T
    /\ UNCHANGED <<ranges, view, gpu, automaticFree, mappings, flexible, flexibleFree, pooled>>

ReleaseExpansion(T) ==
    /\ T \in expansions
    /\ T \cap Shows(pooled) = {}
    /\ T \subseteq poolFree
    /\ expansions' = expansions \ {T}
    /\ poolFree' = poolFree \ T
    /\ blocks' = {b \in blocks : b.pages # T}
    /\ free' = free \cup T
    /\ UNCHANGED <<ranges, view, gpu, automaticFree, mappings, flexible, flexibleFree, pooled>>

(***************************************************************************)
(* The reserved range becomes one of the pool only if it was not merged    *)
(* with a reserved neighbour; otherwise the call fails and S is reserved.  *)
(***************************************************************************)
KernelMemoryPoolReserve(S) ==
    LET reserved == ReplaceSpan(ranges, Reserved(S))
    IN  \/ /\ Replaceable(S)
           /\ ReplacedBy(S, IF \E r \in reserved : r.pages = S
                            THEN ReplaceSpan(reserved, [Reserved(S) EXCEPT !.type = "PoolReserved"])
                            ELSE reserved)
        \/ RollsBack(S)

KernelMemoryPoolCommit(S, protection) ==
    LET chunks == Chunks(S, Lowest(poolFree, Cardinality(S)))
    IN  /\ Cardinality(S) <= Cardinality(poolFree)
        /\ \E r \in ranges :
            /\ r.type = "PoolReserved" /\ S \subseteq r.pages
            /\ ranges' = ReplaceSpan(ranges, NewRange(S, "Pooled", 0, protection, r.name))
        /\ pooled' = pooled \cup chunks
        /\ poolFree' = poolFree \ Shows(chunks)
        /\ view' = Showing(chunks)
        /\ gpu' = gpu \cup S
        /\ UNCHANGED <<physicalVars, automaticFree, mappings, flexible, flexibleFree, expansions>>

KernelMemoryPoolDecommit(S) ==
    LET committed == {r \in Parts(ranges, S) : r.type = "Pooled"}
    IN  /\ Covers(ranges, S)
        /\ \A r \in Touching(ranges, S) : r.type \in {"Pooled", "PoolReserved"}
        /\ committed # {}
        /\ ranges' = FoldSet(LAMBDA r, t : ReplaceSpan(t, NewRange(r.pages, "PoolReserved", 0, "none",
                                                               r.name)), ranges, committed)
        /\ pooled' = Without(pooled, S)
        /\ poolFree' = poolFree \cup Shows(Within(pooled, S))
        /\ view' = Hidden(S)
        /\ gpu' = gpu \ S
        /\ UNCHANGED <<physicalVars, automaticFree, mappings, flexible, flexibleFree, expansions>>

-----------------------------------------------------------------------------
Maps ==
    \E S \in Intervals(Pages) :
        \/ KernelReserveVirtualRange(S)
        \/ MapFlexibleFails(S)
        \/ MapDirectFails(S)
        \/ \E protection \in Protections, name \in Names :
            \/ MapFlexibleMemory(S, protection, name)
            \/ \E T \in Intervals(DirectPages) : MapDirectMemory(S, T, protection, name)
            \/ \E type \in PrivateTypes : AllocateGuestRuntimeMemory(S, type, protection, name)

Edits ==
    \E S \in Intervals(Pages) :
        \/ KernelMunmap(S)
        \/ UnmapAmmMemory(S)
        \/ FreeGuestMemory(S)
        \/ \E name \in Names : KernelSetVirtualRangeName(S, name)
        \/ \E protection \in Protections : ProtectMemory(S, protection)

Backs ==
    \E T \in Intervals(DirectPages) :
        \/ \E kind \in {"Direct", "Automatic"} : AllocateDirectMemory(T, kind)
        \/ ReleaseDirectMemory(T)

Pools ==
    \/ \E T \in Intervals(DirectPages) : KernelMemoryPoolExpand(T) \/ ReleaseExpansion(T)
    \/ \E S \in Intervals(Pages) :
        \/ KernelMemoryPoolReserve(S)
        \/ \E protection \in Protections : KernelMemoryPoolCommit(S, protection)
        \/ KernelMemoryPoolDecommit(S)

Next == Maps \/ Edits \/ Backs \/ Pools

Spec == Init /\ [][Next]_vars

-----------------------------------------------------------------------------
(* Properties *)

PieceAt(table, p) == {m \in table : p \in m.pages}
\* Exactly one entry of the table has the page, and it shows and allows what the range says.
OwnedBy(table, p, r) ==
    \E m \in PieceAt(table, p) :
        /\ PieceAt(table, p) = {m}
        /\ At(m, p) = view[p]
        /\ m.protection = r.protection

(***************************************************************************)
(* "Keep host mappings, physical blocks, placeholders, and virtual ranges  *)
(* in step" (the comment at g_memory_operation_mutex): at every page the   *)
(* range, the table of its owner, the view of the host and the ranges of   *)
(* the GPU say the same, whatever was split, refused or undone before.     *)
(* (Without PRT apertures, which give the GPU addresses that no virtual    *)
(* range holds: KernelSetPrtAperture is not modelled.)                     *)
(***************************************************************************)
PagesInStep ==
    \A p \in Pages :
        LET at == PieceAt(ranges, p)
            type == IF at = {} THEN "None" ELSE (CHOOSE r \in at : TRUE).type
            owned == type \in {"Direct", "Flexible", "Pooled"}
        IN  /\ p \in gpu <=> (at # {} /\ Committed(type))
            /\ view[p] = FreePage <=> type \in {"None", "Reserved", "PoolReserved"}
            /\ view[p] = PrivatePage <=> Private(type)
            /\ \A r \in at :
                /\ type = "Direct" => OwnedBy(mappings, p, r) /\ At(r, p) = view[p]
                /\ type = "Flexible" => OwnedBy(flexible, p, r)
                /\ type = "Pooled" =>
                       \E m \in PieceAt(pooled, p) : PieceAt(pooled, p) = {m} /\ At(m, p) = view[p]
            /\ type # "Direct" => PieceAt(mappings, p) = {}
            /\ type # "Flexible" => PieceAt(flexible, p) = {}
            /\ type # "Pooled" => PieceAt(pooled, p) = {}

(***************************************************************************)
(* No page of backing memory is lost, given out twice or kept by two: what *)
(* is free is what nobody has, automatic memory is free as long as nothing *)
(* shows it, and flexible and pooled pages are shown once.                 *)
(***************************************************************************)
ShownOnce(table) ==
    Cardinality(Shows(table)) = Cardinality(PagesOf(table))

BackingAccounted ==
    /\ free = DirectPages \ PagesOf(blocks)
    /\ \A b, c \in blocks : b # c => b.pages \cap c.pages = {}
    /\ CanMapDirect(Shows(mappings))
    /\ automaticFree = PagesOfKind("Automatic") \ Shows(mappings)
    /\ flexibleFree = FlexiblePages \ Shows(flexible) /\ ShownOnce(flexible)
    /\ expansions = {b.pages : b \in {c \in blocks : c.kind = "Pooled"}}
    /\ poolFree = PagesOfKind("Pooled") \ Shows(pooled) /\ ShownOnce(pooled)

InStep == Coalesced(ranges) /\ PagesInStep /\ BackingAccounted

(***************************************************************************)
(* "direct-memory alias escaped guest address-space ownership", with which *)
(* ReleaseDirectMemory ends the program, never happens: of memory that the *)
(* guest may release, every mapping lies in one direct range.              *)
(***************************************************************************)
AliasesStayOwned ==
    \A T \in Intervals(DirectPages) :
        CanMapDirect(T) => \A S \in Aliases(T) : ~ Escapes(S)

\* What the guest can see of this: the abstract state of MemoryMap.
Content ==
    [p \in Pages |->
        LET at == PieceAt(ranges, p)
            r == CHOOSE x \in at : TRUE
        IN  IF at = {} THEN [type |-> "None", shows |-> view[p], protection |-> "none"]
            ELSE [type |-> r.type, shows |-> view[p], protection |-> r.protection]]
Owner ==
    [d \in DirectPages |->
        LET of == PieceAt(blocks, d) IN IF of = {} THEN "Nobody" ELSE (CHOOSE b \in of : TRUE).kind]

Promise == INSTANCE MemoryMap WITH content <- Content, owner <- Owner

(***************************************************************************)
(* Every call, with all that it does when the host refuses a step, is a    *)
(* step of MemoryMap or changes nothing that the guest can see.            *)
(***************************************************************************)
Implements == Promise!Spec
=============================================================================
