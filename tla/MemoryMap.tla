------------------------------ MODULE MemoryMap ------------------------------
(***************************************************************************)
(* What the calls on guest memory promise, page by page: a call changes    *)
(* what is at the pages it was given, all of them in the same way, or      *)
(* nothing at all; a fixed mapping that fails may have emptied its target, *)
(* and an unmapping may stop after some of its pages.  Releasing direct    *)
(* memory takes every mapping of it away.                                  *)
(***************************************************************************)
EXTENDS Integers, FiniteSets

CONSTANTS Pages, DirectPages

VARIABLES content,          \* what is at a page: its type, what it shows, its protection
          owner             \* of a direct page: Nobody or the kind of allocation

Nothing == [type |-> "None", shows |-> -1, protection |-> "none"]
Empty(type) == [type |-> type, shows |-> -1, protection |-> "none"]

IsInterval(S) ==
    S # {} /\ \A p, q \in S : p..q \subseteq S

Init ==
    /\ content = [p \in Pages |-> Nothing]
    /\ owner = [d \in DirectPages |-> "Nobody"]

Type(S) == {content[p].type : p \in S}
Becomes(S, new(_)) ==
    /\ content' = [p \in Pages |-> IF p \in S THEN new(p) ELSE content[p]]
    /\ UNCHANGED owner

(***************************************************************************)
(* What a mapping at S may show: a run of direct pages that somebody has;  *)
(* pages of flexible or pooled memory that nobody else shows; or memory of *)
(* its own.                                                                *)
(***************************************************************************)
Shows(S, type, shown) ==
    CASE type = "Direct" ->
            /\ \A p \in S : shown[p] \in DirectPages /\ owner[shown[p]] \in {"Direct", "Automatic"}
            /\ \A p, q \in S : shown[q] - shown[p] = q - p
      [] type \in {"Flexible", "Pooled"} ->
            /\ \A p, q \in S : p # q => shown[p] # shown[q]
            /\ \A p \in S, q \in Pages \ S : shown[p] # content[q].shows
            /\ type = "Pooled" => \A p \in S : owner[shown[p]] = "Pooled"
      [] OTHER -> \A p \in S : shown[p] = -2

Map(S) ==
    LET new == content'
        shown == [p \in S |-> new[p].shows]
    IN  \E p \in S :
            /\ new[p].type \notin {"None", "Reserved", "PoolReserved"}
            /\ new[p].type = "Pooled" => Type(S) = {"PoolReserved"}
            /\ "Pooled" \notin Type(S)
            /\ Shows(S, new[p].type, shown)
            /\ Becomes(S, LAMBDA q : [new[p] EXCEPT !.shows = shown[q]])

Reserve(S) ==
    /\ "Pooled" \notin Type(S)
    /\ \E type \in {"Reserved", "PoolReserved"} : Becomes(S, LAMBDA p : Empty(type))

Unmap(S) == Becomes(S, LAMBDA p : Nothing)

Protect(S) ==
    /\ Type(S) \cap {"None", "Reserved", "PoolReserved"} = {}
    /\ \E p \in S :
        Becomes(S, LAMBDA q : [content[q] EXCEPT !.protection = content'[p].protection])

Decommit(S) ==
    /\ Type(S) \subseteq {"Pooled", "PoolReserved"}
    /\ Becomes(S, LAMBDA p : Empty("PoolReserved"))

Allocate(T) ==
    /\ \A d \in T : owner[d] = "Nobody"
    /\ \E d \in T :
        /\ owner'[d] # "Nobody"
        /\ owner' = [e \in DirectPages |-> IF e \in T THEN owner'[d] ELSE owner[e]]
    /\ UNCHANGED content

Release(T) ==
    /\ \A d \in T : owner[d] # "Nobody"
    /\ (\E d \in T : owner[d] = "Pooled") =>
           \A p \in Pages : ~ (content[p].type = "Pooled" /\ content[p].shows \in T)
    /\ owner' = [d \in DirectPages |-> IF d \in T THEN "Nobody" ELSE owner[d]]
    /\ content' = [p \in Pages |-> IF content[p].type = "Direct" /\ content[p].shows \in T
                                   THEN Nothing ELSE content[p]]

Next ==
    \/ \E S \in SUBSET Pages :
        /\ IsInterval(S)
        /\ Map(S) \/ Reserve(S) \/ Unmap(S) \/ Protect(S) \/ Decommit(S)
    \/ \E T \in SUBSET DirectPages : IsInterval(T) /\ (Allocate(T) \/ Release(T))

Spec == Init /\ [][Next]_<<content, owner>>
=============================================================================
