---------------------------- MODULE FlipQueueProofs ----------------------------
(***************************************************************************)
(* Theorems about the flip queue, for any ports, capacity and numbers of   *)
(* requests: what the flip status counts, what the present thread holds,   *)
(* what becomes of the frames, and how slaves go with their masters.  All  *)
(* of them rest on one invariant, which says in addition how far a request *)
(* is drawn in each of the lists, and which ports listed requests are for. *)
(***************************************************************************)
EXTENDS FlipQueue, SequenceLemmas, FiniteSetTheorems, WellFoundedInduction

PortRecord ==
    [opened : BOOLEAN, generation : 0 .. MaxGeneration + 1, master : Ports \cup {None},
     slaves : Nat, pending : 0 .. Capacity, gc : 0 .. Capacity]

RequestRecord ==
    [port : Ports \cup {None}, master : Ports \cup {None}, generation : Nat,
     group : 0 .. MaxRequests, source : Sources \cup {"None"}, state : RequestState,
     frame : {"none", "drawn", "shown", "discarded"},
     where : {"unused", "queue", "cpu", "cancelled", "gone"}]

GpuRecord ==
    [at : {"idle", "prepare", "look", "draw", "stale", "asleep", "awake"},
     id : 0 .. MaxRequests, port : Ports \cup {None}, for : {"none", "slot", "done"}]

CloserRecord ==
    [port : Ports \cup {None}, master : Ports \cup {None},
     at : {"none", "master", "cancel", "reset"}]

\* The queue is what the requests say of themselves.
QueueMatches ==
    /\ queue \in Seq(Ids) /\ IsInjective(queue)
    /\ Range(queue) = {i \in Ids : req[i].where = "queue"}

Types ==
    /\ port \in [Ports -> PortRecord] /\ req \in [Ids -> RequestRecord]
    /\ next \in 1 .. MaxRequests + 1
    /\ present \in [at : {"vblank", "flip", "picked", "locked"}, group : 0 .. MaxRequests,
                    due : BOOLEAN]
    /\ gpu \in GpuRecord /\ closer \in CloserRecord

\* How far a request is drawn and shown goes with the list that it is in.
Life(r) ==
    /\ r.where \in {"unused", "gone"} <=> r.state = "None"
    /\ r.where = "cpu" => r.state = "Reserved"
    /\ r.where = "cancelled" => r.state \in {"Reserved", "Recording"}
    /\ r.state = "Reserved" => r.frame = "none"
    /\ r.state = "Recording" => r.frame \in {"none", "drawn"}
    /\ r.state = "Ready" => r.frame = "drawn"
    /\ r.state = "Presenting" => r.frame \in {"drawn", "shown"}

Lives ==
    \A i \in Ids :
        /\ Life(req[i])
        /\ req[i].where = "unused" <=> i >= next
        /\ req[i].where # "unused" => req[i].port \in Ports /\ req[i].group < next

\* What the GPU thread has in its hands at each of the steps of Prepare: the one
\* request of the queue that has no frame yet.
Preparing ==
    /\ gpu.at \in {"idle", "asleep", "awake"} => gpu.id = 0
    /\ gpu.at \in {"prepare", "look", "draw", "stale"} => gpu.id \in Ids
    /\ gpu.at = "prepare" => req[gpu.id].state = "Reserved"
    /\ gpu.at \in {"look", "draw", "stale"} =>
        req[gpu.id].state = "Recording" /\ req[gpu.id].frame = "none"
    /\ gpu.at = "stale" => req[gpu.id].generation < port[req[gpu.id].port].generation
    /\ \A i \in Ids : req[i].where = "queue" /\ req[i].frame = "none" => gpu.id = i

\* A request is of the life of its port that it was made in, or of an earlier one.
Generations ==
    /\ \A p \in Ports : port[p].opened => port[p].generation <= MaxGeneration
    /\ \A i \in Ids : req[i].where # "unused" =>
        /\ req[i].generation <= port[req[i].port].generation
        /\ req[i].generation = port[req[i].port].generation => port[req[i].port].opened

Closing(p) == closer.port = p /\ closer.at \in {"master", "cancel"}

\* A request is listed while its port stays open and keeps its master, and
\* beyond that only until the Close of the port comes to cancel it.
Owned ==
    \A i \in Listed :
        \/ Current(i) /\ req[i].master = port[req[i].port].master
        \/ Closing(req[i].port) /\ req[i].master = closer.master

\* The slaves of a master, the one included that a Close has yet to take away.
Leaving(q, m) == closer.at = "master" /\ closer.port = q /\ closer.master = m
Slaves(m) == {q \in Ports : port[q].master = m \/ Leaving(q, m)}

Grouped ==
    \A p \in Ports :
        /\ port[p].slaves = Cardinality(Slaves(p))
        /\ port[p].master # None => port[p].slaves = 0 /\ port[p].opened /\ port[p].master # p

Closes ==
    /\ closer.at = "none" <=> closer = NoCloser
    /\ closer.at # "none" =>
        /\ closer.port \in Ports /\ ~port[closer.port].opened
        /\ closer.master # closer.port
        /\ \A q \in Ports : port[q].master # closer.port

\* A group that is due is on the screen, and its ports, which are locked, are the
\* ones that its flips were made for.
DueIsCurrent ==
    present.at = "locked" /\ present.due =>
        \A i \in Picked : Current(i) /\ req[i].frame = "shown"

Counted ==
    \A p \in Ports : port[p].opened =>
        /\ port[p].pending = Cardinality(ListedOf(p))
        /\ port[p].gc = FromGpu(ListedOf(p))

FlipInvariant ==
    /\ Types /\ QueueMatches /\ Lives /\ Preparing
    /\ Generations /\ Owned /\ Grouped /\ Closes /\ DueIsCurrent /\ Counted
    /\ PickedStayListed /\ FramesAreSettled /\ GroupsAreWhole

--------------------------------------------------------------------------------
(* What Without does                                                       *)

\* Of a set of n numbers, each of 1 .. n is the rank of one.
LEMMA Ranked ==
    ASSUME NEW L \in Nat, NEW S \in SUBSET (1 .. L), NEW k \in 1 .. Cardinality(S)
    PROVE  \E n \in S : Cardinality({m \in S : m <= n}) = k
<1> DEFINE upto(n) == {m \in S : m <= n}
<1>0. \A n \in S : n \in Int /\ 1 <= n /\ n <= L
  OBVIOUS
<1>1. IsFiniteSet(S) /\ Cardinality(S) \in Nat
  <2>1. IsFiniteSet(1 .. L)
    BY FS_Interval
  <2>. QED  BY <2>1, FS_Subset, FS_CardinalityType
<1>u. \A n, m : m \in upto(n) <=> m \in S /\ m <= n
  BY Zenon
<1> DEFINE size(n) == Cardinality(upto(n))
           enough == {n \in Nat : k <= size(n)}
<1> HIDE DEF upto
<1>2. \A n : IsFiniteSet(upto(n)) /\ size(n) \in Nat
  <2>1. \A n : upto(n) \in SUBSET S
    BY <1>u
  <2>. QED  BY <1>1, <2>1, FS_Subset, FS_CardinalityType
<1>3. enough # {}
  <2>1. upto(L) = S
    BY <1>0, <1>u
  <2>2. k <= size(L)
    BY <1>1, <2>1
  <2>. QED  BY <2>2
<1>4. PICK n \in enough : \A m \in enough : ~ (m < n)
  <2>1. IsWellFoundedOn(OpToRel(<, Nat), Nat)
    BY NatLessThanWellFounded
  <2>2. PICK n \in enough : \A m \in enough : ~ (<<m, n>> \in OpToRel(<, Nat))
    BY <1>3, <2>1, WFMin
  <2>. QED  BY <2>2 DEF OpToRel
<1>5. n \in Nat /\ k <= size(n) /\ k \in Nat /\ k >= 1
  BY <1>1
<1>6. n # 0
  <2>1. \A m \in S : ~ (m <= 0)
    BY <1>0
  <2>2. upto(0) = {}
    BY <1>u, <2>1, Zenon
  <2>. QED  BY <1>5, <2>2, FS_EmptySet
<1>7. n - 1 \in Nat /\ n - 1 < n
  BY <1>5, <1>6
<1>8. ~ (k <= size(n - 1))
  BY <1>4, <1>7
<1>9. \A m \in S : m <= n <=> m <= n - 1 \/ m = n
  BY <1>0, <1>5
<1>10. CASE n \in S
  <2>0. ~ (n <= n - 1)
    BY <1>5
  <2>1. upto(n) = upto(n - 1) \cup {n} /\ n \notin upto(n - 1)
    BY <1>9, <1>10, <1>u, <2>0, Zenon
  <2>2. size(n) = size(n - 1) + 1
    BY <1>2, <2>1, FS_AddElement
  <2>3. size(n) = k
    BY <1>2, <1>5, <1>8, <2>2
  <2>. QED  BY <1>10, <2>3 DEF upto
<1>11. CASE n \notin S
  <2>1. upto(n) = upto(n - 1)
    BY <1>9, <1>11, <1>u, Zenon
  <2>. QED  BY <1>5, <1>8, <2>1
<1>. QED  BY <1>10, <1>11

\* Two numbers of a set have different ranks.
LEMMA RanksDiffer ==
    ASSUME NEW L \in Nat, NEW S \in SUBSET (1 .. L), NEW m \in S, NEW n \in S,
           Cardinality({k \in S : k <= m}) = Cardinality({k \in S : k <= n})
    PROVE  m = n
<1> DEFINE upto(x) == {k \in S : k <= x}
<1>0. \A k \in S : k \in Int
  OBVIOUS
<1>1. \A x : IsFiniteSet(upto(x))
  <2>1. IsFiniteSet(1 .. L)
    BY FS_Interval
  <2>2. \A x : upto(x) \in SUBSET S
    BY Zenon
  <2>3. IsFiniteSet(S)
    BY <2>1, FS_Subset
  <2>. QED  BY <2>2, <2>3, FS_Subset
<1>u. \A x, k : k \in upto(x) <=> k \in S /\ k <= x
  BY Zenon
<1>s. Cardinality(upto(m)) = Cardinality(upto(n))
  BY Zenon
<1> HIDE DEF upto
<1>2. ASSUME NEW x \in S, NEW y \in S, x < y
      PROVE  Cardinality(upto(x)) # Cardinality(upto(y))
  <2>1. \A k \in S : k <= x => k <= y
    BY <1>0, <1>2
  <2>2. y <= y /\ ~ (y <= x)
    BY <1>0, <1>2
  <2>3. upto(x) \in SUBSET upto(y) /\ y \in upto(y) /\ y \notin upto(x)
    BY <1>u, <2>1, <2>2, Zenon
  <2>. QED  BY <1>1, <2>3, FS_Subset
<1>3. m < n \/ n < m \/ m = n
  BY <1>0
<1>. QED  BY <1>2, <1>3, <1>s

\* The queue keeps what it is not told to leave out, each once.
LEMMA WithoutKeeps ==
    ASSUME queue \in Seq(Ids), IsInjective(queue), NEW ids
    PROVE  /\ Without(ids) \in Seq(Ids) /\ IsInjective(Without(ids))
           /\ Range(Without(ids)) = Range(queue) \ ids
<1> DEFINE kept == {n \in DOMAIN queue : queue[n] \notin ids}
           rank(n) == Cardinality({m \in kept : m <= n})
           at(k) == CHOOSE n \in kept : rank(n) = k
           size == Cardinality(kept)
<1>1. Len(queue) \in Nat /\ DOMAIN queue = 1 .. Len(queue) /\ kept \in SUBSET (1 .. Len(queue))
  OBVIOUS
<1>2. /\ IsFiniteSet(kept) /\ size \in Nat
      /\ \A n \in kept : rank(n) \in 1 .. size
  <2>1. IsFiniteSet(1 .. Len(queue))
    BY <1>1, FS_Interval
  <2>2. IsFiniteSet(kept) /\ size \in Nat
    BY <1>1, <2>1, FS_Subset, FS_CardinalityType
  <2>3. ASSUME NEW n \in kept
        PROVE  rank(n) \in 1 .. size
    <3>1. n \in {m \in kept : m <= n} /\ {m \in kept : m <= n} \in SUBSET kept
      BY <1>1
    <3>2. IsFiniteSet({m \in kept : m <= n}) /\ rank(n) <= size /\ rank(n) \in Nat
      BY <2>2, <3>1, FS_Subset, FS_CardinalityType
    <3>3. rank(n) # 0
      BY <3>1, <3>2, FS_EmptySet
    <3>. QED  BY <2>2, <3>2, <3>3
  <2>. QED  BY <2>2, <2>3
<1>3. \A k \in 1 .. size : at(k) \in kept /\ rank(at(k)) = k
  <2>1. ASSUME NEW k \in 1 .. size
        PROVE  \E n \in kept : rank(n) = k
    BY <1>1, Ranked
  <2>. QED  BY <2>1
<1>4. \A n \in kept : at(rank(n)) = n
  <2>1. ASSUME NEW n \in kept
        PROVE  at(rank(n)) = n
    <3>1. at(rank(n)) \in kept /\ rank(at(rank(n))) = rank(n)
      BY <1>2, <1>3
    <3>. QED  BY <1>1, <3>1, RanksDiffer
  <2>. QED  BY <2>1
<1>5. Without(ids) = [k \in 1 .. size |-> queue[at(k)]]
  BY DEF Without
<1> DEFINE s == Without(ids)
<1> HIDE DEF at, rank, size, s
<1>6. /\ DOMAIN s = 1 .. size /\ \A k \in 1 .. size : s[k] = queue[at(k)]
      /\ s \in [1 .. size -> Ids]
  <2>1. \A k \in 1 .. size : queue[at(k)] \in Ids
    BY <1>3
  <2>. QED  BY <1>5, <2>1 DEF s
<1>7. s \in Seq(Ids)
  BY <1>2, <1>6, SeqDef
<1>8. IsInjective(s)
  <2>1. \A x, y \in DOMAIN queue : queue[x] = queue[y] => x = y
    BY DEF IsInjective
  <2>2. \A j, k \in 1 .. size : s[j] = s[k] => j = k
    BY <1>3, <1>6, <2>1
  <2>. QED  BY <1>6, <2>2 DEF IsInjective
<1>9. Range(s) = Range(queue) \ ids
  <2>1. \A k \in 1 .. size : s[k] \in Range(queue) \ ids
    BY <1>3, <1>6 DEF Range
  <2>2. \A i \in Range(queue) \ ids : \E n \in kept : queue[n] = i
    BY DEF Range
  <2>3. \A n \in kept : rank(n) \in 1 .. size /\ s[rank(n)] = queue[n]
    BY <1>2, <1>4, <1>6
  <2>. QED  BY <1>6, <2>1, <2>2, <2>3 DEF Range
<1>. QED  BY <1>7, <1>8, <1>9 DEF s

\* A request that enters the queue does so at its end.
LEMMA AppendKeeps ==
    ASSUME NEW s \in Seq(Ids), IsInjective(s), NEW i \in Ids, i \notin Range(s)
    PROVE  /\ Append(s, i) \in Seq(Ids) /\ IsInjective(Append(s, i))
           /\ Range(Append(s, i)) = Range(s) \cup {i}
<1> DEFINE t == Append(s, i)
<1>1. /\ t \in Seq(Ids) /\ Len(t) = Len(s) + 1 /\ Len(s) \in Nat
      /\ DOMAIN t = 1 .. Len(s) + 1 /\ DOMAIN s = 1 .. Len(s)
      /\ \A k \in 1 .. Len(s) : t[k] = s[k]
      /\ t[Len(s) + 1] = i
  BY OneBehind
<1> HIDE DEF t
<1>2. \A k \in DOMAIN t : (k \in DOMAIN s /\ t[k] = s[k]) \/ (k = Len(s) + 1 /\ t[k] = i)
  BY <1>1
<1>3. \A k \in DOMAIN s : k \in DOMAIN t /\ t[k] = s[k] /\ s[k] # i
  BY <1>1 DEF Range
<1>4. IsInjective(t)
  BY <1>2, <1>3 DEF IsInjective
<1>5. Range(t) = Range(s) \cup {i}
  BY <1>1, <1>2, <1>3 DEF Range
<1>. QED  BY <1>1, <1>4, <1>5 DEF t

--------------------------------------------------------------------------------
(* The steps of the ports: Open, SetFlipMaster and Close                   *)

\* Ids, and every set of ids or ports, are finite.
LEMMA Sizes ==
    /\ MaxRequests \in Nat /\ MaxGeneration \in Nat /\ Capacity \in Nat \ {0} /\ None \notin Ports
    /\ \A S \in SUBSET Ids : IsFiniteSet(S) /\ Cardinality(S) \in Nat
    /\ \A S \in SUBSET Ports : IsFiniteSet(S) /\ Cardinality(S) \in Nat
<1>1. /\ MaxRequests \in Nat /\ MaxGeneration \in Nat /\ Capacity \in Nat \ {0} /\ None \notin Ports
      /\ IsFiniteSet(Ports)
  BY FlipQueueAssumption
<1>2. IsFiniteSet(Ids)
  BY <1>1, FS_Interval DEF Ids
<1>. QED  BY <1>1, <1>2, FS_Subset, FS_CardinalityType

LEMMA IdsAreNumbers ==
    ASSUME NEW i \in Ids
    PROVE  i \in Int /\ 1 <= i /\ i <= MaxRequests
BY Sizes DEF Ids

\* What the ports do not touch, when the requests and the other threads stand still.
LEMMA PortStep ==
    ASSUME FlipInvariant, UNCHANGED <<req, next, queue, present, gpu>>,
           port' \in [Ports -> PortRecord], closer' \in CloserRecord,
           \A p \in Ports : port[p].generation <= port'[p].generation
    PROVE  /\ Types' /\ QueueMatches' /\ Lives' /\ Preparing'
           /\ PickedStayListed' /\ FramesAreSettled' /\ GroupsAreWhole'
           /\ Listed' = Listed /\ Picked' = Picked
           /\ \A p : ListedOf(p)' = ListedOf(p)
           /\ \A S : FromGpu(S)' = FromGpu(S)
<1>1. Types' /\ QueueMatches' /\ Lives'
  BY DEF FlipInvariant, Types, QueueMatches, Lives, Life
<1>2. Listed' = Listed /\ Picked' = Picked
  BY DEF Listed, Picked
<1>3. \A p : ListedOf(p)' = ListedOf(p)
  BY <1>2 DEF ListedOf
<1>4. \A S : FromGpu(S)' = FromGpu(S)
  BY DEF FromGpu
<1>5. PickedStayListed' /\ FramesAreSettled' /\ GroupsAreWhole'
  BY <1>2 DEF FlipInvariant, PickedStayListed, Members, FramesAreSettled, GroupsAreWhole
<1>6. Preparing'
  <2>1. CASE gpu.at # "stale"
    BY <2>1 DEF FlipInvariant, Preparing
  <2>2. CASE gpu.at = "stale"
    <3>1. /\ gpu.id \in Ids /\ req[gpu.id].state = "Recording"
          /\ req[gpu.id].generation < port[req[gpu.id].port].generation
      BY <2>2 DEF FlipInvariant, Preparing
    <3>2. req[gpu.id].port \in Ports
      BY <3>1 DEF FlipInvariant, Lives, Life
    <3>3. req[gpu.id].generation \in Int
      BY <3>1 DEF FlipInvariant, Types, RequestRecord
    <3>4. /\ port[req[gpu.id].port].generation \in Int
          /\ port'[req[gpu.id].port].generation \in Int
      BY <3>2, Sizes DEF FlipInvariant, Types, PortRecord
    <3>5. req[gpu.id].generation < port'[req[gpu.id].port].generation
      BY <3>1, <3>2, <3>3, <3>4
    <3>. QED  BY <3>5 DEF FlipInvariant, Preparing
  <2>. QED  BY <2>1, <2>2
<1>. QED  BY <1>1, <1>2, <1>3, <1>4, <1>5, <1>6

\* A port that is not open, and not being closed, has nothing in the lists.
LEMMA NothingListed ==
    ASSUME FlipInvariant, NEW p \in Ports, ~port[p].opened, ~Closing(p)
    PROVE  ListedOf(p) = {}
BY DEF FlipInvariant, Owned, ListedOf, Current

\* The fields of a port.
LEMMA PortFields ==
    ASSUME Types, NEW p \in Ports
    PROVE  /\ port[p] \in PortRecord
           /\ port[p].opened \in BOOLEAN /\ port[p].generation \in 0 .. MaxGeneration + 1
           /\ port[p].master \in Ports \cup {None} /\ port[p].slaves \in Nat
           /\ port[p].pending \in 0 .. Capacity /\ port[p].gc \in 0 .. Capacity
BY DEF Types, PortRecord

\* The fields of a request.
LEMMA RequestFields ==
    ASSUME Types, NEW i \in Ids
    PROVE  /\ req[i] \in RequestRecord
           /\ req[i].port \in Ports \cup {None} /\ req[i].master \in Ports \cup {None}
           /\ req[i].generation \in Nat /\ req[i].group \in 0 .. MaxRequests
           /\ req[i].source \in Sources \cup {"None"} /\ req[i].state \in RequestState
           /\ req[i].frame \in {"none", "drawn", "shown", "discarded"}
           /\ req[i].where \in {"unused", "queue", "cpu", "cancelled", "gone"}
BY DEF Types, RequestRecord

\* A listed request is in use, and its port is one.
LEMMA ListedIsUsed ==
    ASSUME FlipInvariant, NEW i \in Listed
    PROVE  /\ i \in Ids /\ req[i].where \in {"queue", "cpu"} /\ req[i].where # "unused"
           /\ req[i].port \in Ports /\ req[i].group < next
BY DEF FlipInvariant, Lives, Listed

\* Nothing is left of an earlier life of the port that opens.
LEMMA OpenKeeps ==
    ASSUME FlipInvariant, NEW p \in Ports, Open(p)
    PROVE  FlipInvariant'
<1>1. /\ closer = NoCloser /\ closer.at = "none" /\ ~port[p].opened
      /\ port[p].generation < MaxGeneration
      /\ port' = [port EXCEPT ![p].opened = TRUE, ![p].generation = @ + 1,
                              ![p].pending = 0, ![p].gc = 0]
      /\ UNCHANGED <<req, next, queue, present, gpu, closer>>
  BY DEF Open, NoCloser
<1>2. Types
  BY DEF FlipInvariant
<1>3. /\ port'[p].opened /\ port'[p].generation = port[p].generation + 1
      /\ port'[p].master = port[p].master /\ port'[p].slaves = port[p].slaves
      /\ port'[p].pending = 0 /\ port'[p].gc = 0
      /\ \A q \in Ports \ {p} : port'[q] = port[q]
  BY <1>1, <1>2 DEF Types, PortRecord
<1>4. port' \in [Ports -> PortRecord]
  BY <1>1, <1>2, Sizes DEF Types, PortRecord
<1>5. \A q \in Ports : port[q].generation \in Int /\ port[q].generation <= port'[q].generation
  BY <1>2, <1>3, PortFields
<1>6. /\ Types' /\ QueueMatches' /\ Lives' /\ Preparing'
      /\ PickedStayListed' /\ FramesAreSettled' /\ GroupsAreWhole'
      /\ Listed' = Listed /\ Picked' = Picked
      /\ \A q : ListedOf(q)' = ListedOf(q)
      /\ \A S : FromGpu(S)' = FromGpu(S)
  BY <1>1, <1>2, <1>4, <1>5, PortStep DEF Types
<1>7. Generations'
  <2>1. \A q \in Ports : port'[q].opened => port'[q].generation <= MaxGeneration
    <3>1. MaxGeneration \in Int
      BY Sizes
    <3>2. port'[p].generation <= MaxGeneration
      BY <1>1, <1>3, <1>5, <3>1
    <3>3. \A q \in Ports \ {p} : port'[q].opened => port'[q].generation <= MaxGeneration
      BY <1>3 DEF FlipInvariant, Generations
    <3>. QED  BY <3>2, <3>3
  <2>2. ASSUME NEW i \in Ids, req[i].where # "unused"
        PROVE  /\ req[i].generation <= port'[req[i].port].generation
               /\ req[i].generation = port'[req[i].port].generation => port'[req[i].port].opened
    <3>1. /\ req[i].port \in Ports /\ req[i].generation <= port[req[i].port].generation
          /\ req[i].generation = port[req[i].port].generation => port[req[i].port].opened
      BY <2>2 DEF FlipInvariant, Lives, Generations
    <3>2. req[i].generation \in Int
      BY <1>2, RequestFields
    <3>. QED  BY <1>3, <1>5, <3>1, <3>2
  <2>. QED  BY <1>1, <2>1, <2>2 DEF Generations
<1>8. \A i \in Listed : Current(i) /\ req[i].master = port[req[i].port].master
  BY <1>1 DEF FlipInvariant, Owned, Closing
<1>9. \A i \in Ids : Current(i) /\ req[i].port \in Ports => req[i].port # p /\ Current(i)'
  BY <1>1, <1>3 DEF Current
<1>10. Owned'
  <2>1. ASSUME NEW i \in Listed
        PROVE  Current(i)' /\ req'[i].master = port'[req'[i].port].master
    <3>1. i \in Ids /\ req[i].port \in Ports /\ req[i].port # p /\ Current(i)'
      BY <1>8, <1>9, ListedIsUsed
    <3>2. req' = req /\ port'[req[i].port] = port[req[i].port]
      BY <1>1, <1>3, <3>1
    <3>. QED  BY <1>8, <3>1, <3>2
  <2>. QED  BY <1>6, <2>1 DEF Owned
<1>11. Grouped'
  <2>1. \A q \in Ports : /\ port'[q].master = port[q].master /\ port'[q].slaves = port[q].slaves
                         /\ port[q].opened => port'[q].opened
    BY <1>1, <1>3
  <2>2. \A m : Slaves(m)' = Slaves(m)
    BY <1>1, <2>1 DEF Slaves, Leaving
  <2>. QED  BY <2>1, <2>2 DEF FlipInvariant, Grouped
<1>12. Closes'
  BY <1>1 DEF Closes
<1>13. DueIsCurrent'
  <2>1. \A i \in Picked : i \in Ids /\ req[i].port \in Ports
    BY DEF Picked, FlipInvariant, Lives, Life
  <2>. QED  BY <1>1, <1>6, <1>9, <2>1 DEF FlipInvariant, DueIsCurrent
<1>14. Counted'
  <2>1. ListedOf(p) = {}
    BY <1>1, NothingListed DEF Closing
  <2>2. Cardinality(ListedOf(p)) = 0 /\ FromGpu(ListedOf(p)) = 0
    <3>1. {i \in ListedOf(p) : req[i].source = "GpuEop"} = {}
      BY <2>1
    <3>. QED  BY <2>1, <3>1, FS_EmptySet DEF FromGpu
  <2>. QED  BY <1>3, <1>6, <2>2 DEF FlipInvariant, Counted
<1>. QED  BY <1>6, <1>7, <1>10, <1>11, <1>12, <1>13, <1>14 DEF FlipInvariant

\* A port becomes a slave while nothing is pending for it, so that no request of
\* it is left that has no master.
LEMMA SetFlipMasterKeeps ==
    ASSUME FlipInvariant, NEW s \in Ports, NEW m \in Ports, SetFlipMaster(s, m)
    PROVE  FlipInvariant'
<1>1. /\ closer = NoCloser /\ closer.at = "none" /\ s # m /\ port[s].opened
      /\ port[s].master = None /\ port[s].slaves = 0 /\ port[m].master = None
      /\ port[s].pending = 0
      /\ port' = [port EXCEPT ![s].master = m, ![m].slaves = @ + 1]
      /\ UNCHANGED <<req, next, queue, present, gpu, closer>>
  BY DEF SetFlipMaster, NoCloser
<1>2. Types
  BY DEF FlipInvariant
<1>3. /\ port'[s].master = m /\ port'[s].slaves = 0
      /\ port'[m].master = None /\ port'[m].slaves = port[m].slaves + 1
      /\ \A q \in Ports \ {s, m} : port'[q] = port[q]
      /\ \A q \in Ports : /\ port'[q].opened = port[q].opened
                          /\ port'[q].generation = port[q].generation
                          /\ port'[q].pending = port[q].pending /\ port'[q].gc = port[q].gc
  BY <1>1, <1>2 DEF Types, PortRecord
<1>4. port' \in [Ports -> PortRecord]
  BY <1>1, <1>2 DEF Types, PortRecord
<1>5. \A q \in Ports : port[q].generation <= port'[q].generation
  BY <1>2, <1>3, PortFields
<1>6. /\ Types' /\ QueueMatches' /\ Lives' /\ Preparing'
      /\ PickedStayListed' /\ FramesAreSettled' /\ GroupsAreWhole'
      /\ Listed' = Listed /\ Picked' = Picked
      /\ \A q : ListedOf(q)' = ListedOf(q)
      /\ \A S : FromGpu(S)' = FromGpu(S)
  BY <1>1, <1>2, <1>4, <1>5, PortStep DEF Types
<1>7. req' = req
  BY <1>1
<1>8. Generations'
  <2>1. ASSUME NEW i \in Ids, req[i].where # "unused"
        PROVE  req[i].port \in Ports
    BY <2>1 DEF FlipInvariant, Lives
  <2>. QED  BY <1>3, <1>7, <2>1 DEF FlipInvariant, Generations
<1>9. \A i \in Ids : req[i].port \in Ports => (Current(i) <=> Current(i)')
  BY <1>3, <1>7 DEF Current
<1>10. Owned'
  <2>1. ListedOf(s) = {}
    <3>1. Cardinality(ListedOf(s)) = 0
      BY <1>1 DEF FlipInvariant, Counted
    <3>2. ListedOf(s) \in SUBSET Ids
      BY DEF ListedOf, Listed
    <3>. QED  BY <3>1, <3>2, Sizes, FS_EmptySet
  <2>2. ASSUME NEW i \in Listed
        PROVE  Current(i)' /\ req'[i].master = port'[req'[i].port].master
    <3>1. Current(i) /\ req[i].master = port[req[i].port].master
      BY <1>1 DEF FlipInvariant, Owned, Closing
    <3>2. i \in Ids /\ req[i].port \in Ports
      BY ListedIsUsed
    <3>3. req[i].port # s
      BY <2>1, <3>2 DEF ListedOf
    <3>4. port'[req[i].port].master = port[req[i].port].master
      <4>1. \A q \in Ports \ {s} : port'[q].master = port[q].master
        BY <1>1, <1>3
      <4>. QED  BY <3>2, <3>3, <4>1
    <3>. QED  BY <1>7, <1>9, <3>1, <3>2, <3>4
  <2>. QED  BY <1>6, <2>2 DEF Owned
<1>11. Grouped'
  <2>0. s # m /\ port[m].master = None
    BY <1>1
  <2>1. \A q \in Ports : port'[q].master = IF q = s THEN m ELSE port[q].master
    BY <1>3, <2>0
  <2>2. \A q, n : ~Leaving(q, n) /\ ~Leaving(q, n)'
    BY <1>1 DEF Leaving
  <2>3. Slaves(m)' = Slaves(m) \cup {s} /\ s \notin Slaves(m)
    <3>1. m # None /\ port[s].master # m
      BY <1>1, Sizes
    <3>2. \A q \in Ports : port'[q].master = m <=> port[q].master = m \/ q = s
      BY <2>1
    <3>. QED  BY <2>2, <3>1, <3>2 DEF Slaves
  <2>4. \A n \in Ports \ {m} : Slaves(n)' = Slaves(n)
    <3>1. \A n \in Ports \ {m}, q \in Ports : port'[q].master = n <=> port[q].master = n
      BY <1>1, <2>1, Sizes
    <3>2. ASSUME NEW n \in Ports \ {m}
          PROVE  Slaves(n)' = Slaves(n)
      BY <2>2, <3>1 DEF Slaves
    <3>. QED  BY <3>2
  <2>5. Cardinality(Slaves(m)') = Cardinality(Slaves(m)) + 1
    <3>1. IsFiniteSet(Slaves(m))
      BY Sizes DEF Slaves
    <3>. QED  BY <2>3, <3>1, FS_AddElement
  <2>6. ASSUME NEW q \in Ports
        PROVE  /\ port'[q].slaves = Cardinality(Slaves(q)')
               /\ port'[q].master # None =>
                    port'[q].slaves = 0 /\ port'[q].opened /\ port'[q].master # q
    <3>1. /\ port[q].slaves = Cardinality(Slaves(q))
          /\ port[q].master # None => port[q].slaves = 0 /\ port[q].opened /\ port[q].master # q
      BY DEF FlipInvariant, Grouped
    <3>2. CASE q = m
      BY <1>3, <2>5, <3>1, <3>2
    <3>3. CASE q = s
      <4>1. Slaves(q)' = Slaves(q) /\ port[q].slaves = 0 /\ port[q].opened
        BY <1>1, <2>4, <3>3
      <4>2. port'[q].slaves = 0 /\ port'[q].opened /\ port'[q].master = m /\ m # q
        BY <1>1, <1>3, <3>3
      <4>. QED  BY <3>1, <4>1, <4>2
    <3>4. CASE q \notin {s, m}
      BY <1>3, <2>4, <3>1, <3>4
    <3>. QED  BY <3>2, <3>3, <3>4
  <2>. QED  BY <2>6 DEF Grouped
<1>12. Closes'
  BY <1>1 DEF Closes
<1>13. DueIsCurrent'
  <2>1. \A i \in Picked : i \in Ids /\ req[i].port \in Ports
    BY DEF Picked, FlipInvariant, Lives, Life
  <2>. QED  BY <1>1, <1>6, <1>9, <2>1 DEF FlipInvariant, DueIsCurrent
<1>14. Counted'
  BY <1>3, <1>6 DEF FlipInvariant, Counted
<1>. QED  BY <1>6, <1>8, <1>10, <1>11, <1>12, <1>13, <1>14 DEF FlipInvariant

\* A port without slaves has no request of theirs in the lists either, and none of
\* what is on the screen is of a port that is not locked.
LEMMA CloseStartsKeeps ==
    ASSUME FlipInvariant, NEW p \in Ports, CloseStarts(p)
    PROVE  FlipInvariant'
<1>1. /\ closer = NoCloser /\ closer.at = "none" /\ port[p].opened /\ port[p].slaves = 0
      /\ ~Locked(p)
      /\ port' = [port EXCEPT ![p].opened = FALSE, ![p].generation = @ + 1, ![p].master = None]
      /\ closer' = [port |-> p, master |-> port[p].master, at |-> "master"]
      /\ UNCHANGED <<req, next, queue, present, gpu>>
  BY DEF CloseStarts, NoCloser
<1>2. Types
  BY DEF FlipInvariant
<1>3. /\ ~port'[p].opened /\ port'[p].generation = port[p].generation + 1
      /\ port'[p].master = None /\ port'[p].slaves = port[p].slaves
      /\ \A q \in Ports \ {p} : port'[q] = port[q]
      /\ closer'.port = p /\ closer'.master = port[p].master /\ closer'.at = "master"
  BY <1>1, <1>2 DEF Types, PortRecord
<1>4. port' \in [Ports -> PortRecord] /\ closer' \in CloserRecord
  <2>1. port[p].generation <= MaxGeneration
    BY <1>1 DEF FlipInvariant, Generations
  <2>2. port[p].generation + 1 \in 0 .. MaxGeneration + 1
    BY <1>2, <2>1, PortFields, Sizes
  <2>3. [port[p] EXCEPT !.opened = FALSE, !.generation = @ + 1, !.master = None] \in PortRecord
    BY <1>2, <2>2, PortFields DEF PortRecord
  <2>4. port' = [port EXCEPT ![p] = [port[p] EXCEPT !.opened = FALSE, !.generation = @ + 1,
                                                    !.master = None]]
    BY <1>1
  <2>5. port' \in [Ports -> PortRecord]
    BY <1>2, <2>3, <2>4 DEF Types
  <2>. QED  BY <1>1, <1>2, <2>5, PortFields DEF CloserRecord
<1>5. \A q \in Ports : port[q].generation \in Int /\ port[q].generation <= port'[q].generation
  BY <1>2, <1>3, PortFields
<1>6. /\ Types' /\ QueueMatches' /\ Lives' /\ Preparing'
      /\ PickedStayListed' /\ FramesAreSettled' /\ GroupsAreWhole'
      /\ Listed' = Listed /\ Picked' = Picked
      /\ \A q : ListedOf(q)' = ListedOf(q)
      /\ \A S : FromGpu(S)' = FromGpu(S)
  BY <1>1, <1>4, <1>5, PortStep
<1>7. req' = req
  BY <1>1
<1>8. Generations'
  <2>1. \A q \in Ports : port'[q].opened => port'[q].generation <= MaxGeneration
    BY <1>3 DEF FlipInvariant, Generations
  <2>2. ASSUME NEW i \in Ids, req[i].where # "unused"
        PROVE  /\ req[i].generation <= port'[req[i].port].generation
               /\ req[i].generation = port'[req[i].port].generation => port'[req[i].port].opened
    <3>1. /\ req[i].port \in Ports /\ req[i].generation <= port[req[i].port].generation
          /\ req[i].generation = port[req[i].port].generation => port[req[i].port].opened
      BY <2>2 DEF FlipInvariant, Lives, Generations
    <3>2. req[i].generation \in Int
      BY <1>2, RequestFields
    <3>. QED  BY <1>3, <1>5, <3>1, <3>2
  <2>. QED  BY <1>7, <2>1, <2>2 DEF Generations
<1>9. \A i \in Ids : req[i].port \in Ports \ {p} => (Current(i) <=> Current(i)')
  BY <1>3, <1>7 DEF Current
<1>10. Owned'
  <2>1. ASSUME NEW i \in Listed
        PROVE  (\/ Current(i) /\ req[i].master = port[req[i].port].master
                \/ Closing(req[i].port) /\ req[i].master = closer.master)'
    <3>1. Current(i) /\ req[i].master = port[req[i].port].master
      BY <1>1 DEF FlipInvariant, Owned, Closing
    <3>2. i \in Ids /\ req[i].port \in Ports
      BY ListedIsUsed
    <3>3. CASE req[i].port = p
      BY <1>3, <1>7, <3>1, <3>3 DEF Closing
    <3>4. CASE req[i].port # p
      BY <1>3, <1>7, <1>9, <3>1, <3>2, <3>4
    <3>. QED  BY <3>3, <3>4
  <2>. QED  BY <1>6, <2>1 DEF Owned
<1>11. Grouped'
  <2>1. \A q \in Ports : port'[q].master = IF q = p THEN None ELSE port[q].master
    BY <1>3
  <2>2. \A q, n : ~Leaving(q, n) /\ (Leaving(q, n)' <=> q = p /\ n = port[p].master)
    BY <1>1, <1>3 DEF Leaving
  <2>3. \A n \in Ports : Slaves(n)' = Slaves(n)
    <3>1. None \notin Ports
      BY Sizes
    <3>. QED  BY <2>1, <2>2, <3>1 DEF Slaves
  <2>4. ASSUME NEW q \in Ports
        PROVE  /\ port'[q].slaves = Cardinality(Slaves(q)')
               /\ port'[q].master # None =>
                    port'[q].slaves = 0 /\ port'[q].opened /\ port'[q].master # q
    BY <1>3, <2>1, <2>3 DEF FlipInvariant, Grouped
  <2>. QED  BY <2>4 DEF Grouped
<1>12. Closes'
  <2>1. Slaves(p) = {}
    <3>1. Cardinality(Slaves(p)) = 0
      BY <1>1 DEF FlipInvariant, Grouped
    <3>. QED  BY <3>1, Sizes, FS_EmptySet DEF Slaves
  <2>2. \A q \in Ports : port'[q].master # p
    <3>1. p # None
      BY Sizes
    <3>. QED  BY <1>3, <2>1, <3>1 DEF Slaves
  <2>3. port[p].master # p
    BY Sizes DEF FlipInvariant, Grouped
  <2>4. closer' # NoCloser
    BY <1>3 DEF NoCloser
  <2>. QED  BY <1>3, <2>2, <2>3, <2>4 DEF Closes
<1>13. DueIsCurrent'
  <2>1. \A i \in Picked : i \in Ids /\ req[i].port \in Ports
    BY DEF Picked, FlipInvariant, Lives, Life
  <2>2. present.at = "locked" => \A i \in Picked : req[i].port # p
    BY <1>1 DEF Locked
  <2>. QED  BY <1>1, <1>6, <1>9, <2>1, <2>2 DEF FlipInvariant, DueIsCurrent
<1>14. Counted'
  BY <1>3, <1>6 DEF FlipInvariant, Counted
<1>. QED  BY <1>6, <1>8, <1>10, <1>11, <1>12, <1>13, <1>14 DEF FlipInvariant

\* The slave that a Close takes away is one that its master counts.
LEMMA CloseLeavesMasterKeeps ==
    ASSUME FlipInvariant, CloseLeavesMaster
    PROVE  FlipInvariant'
<1> DEFINE p == closer.port
           m == closer.master
<1>1. /\ closer.at = "master" /\ closer' = [closer EXCEPT !.at = "cancel"]
      /\ IF m = None THEN port' = port ELSE port' = [port EXCEPT ![m].slaves = @ - 1]
      /\ UNCHANGED <<req, next, queue, present, gpu>>
  BY DEF CloseLeavesMaster
<1>2. Types
  BY DEF FlipInvariant
<1>3. /\ closer \in CloserRecord /\ closer' \in CloserRecord
      /\ closer'.port = p /\ closer'.master = m /\ closer'.at = "cancel"
      /\ m \in Ports \cup {None}
  BY <1>1, <1>2 DEF Types, CloserRecord
<1>4. /\ p \in Ports /\ ~port[p].opened /\ m # p /\ \A q \in Ports : port[q].master # p
      /\ port[p].master = None
  BY <1>1 DEF FlipInvariant, Closes, Grouped
<1>5. m # None => port[m].slaves \in Nat \ {0} /\ port[m].master = None
  <2>1. ASSUME m # None
        PROVE  port[m].slaves # 0
    <3>1. m \in Ports /\ p \in Slaves(m)
      BY <1>1, <1>3, <1>4, <2>1 DEF Slaves, Leaving
    <3>2. IsFiniteSet(Slaves(m)) /\ Cardinality(Slaves(m)) # 0
      BY <3>1, Sizes, FS_EmptySet DEF Slaves
    <3>. QED  BY <3>1, <3>2 DEF FlipInvariant, Grouped
  <2>. QED  BY <1>2, <1>3, <2>1, PortFields DEF FlipInvariant, Grouped
<1>6. /\ \A q \in Ports : /\ port'[q].opened = port[q].opened
                          /\ port'[q].generation = port[q].generation
                          /\ port'[q].master = port[q].master
                          /\ port'[q].pending = port[q].pending /\ port'[q].gc = port[q].gc
                          /\ port'[q].slaves = IF q = m THEN port[q].slaves - 1
                                               ELSE port[q].slaves
      /\ port' \in [Ports -> PortRecord]
  <2>1. CASE m = None
    BY <1>1, <1>2, <2>1, Sizes DEF Types
  <2>2. CASE m # None
    <3>1. port[m].slaves - 1 \in Nat /\ m \in Ports
      BY <1>3, <1>5, <2>2
    <3>2. port' = [port EXCEPT ![m].slaves = @ - 1]
      BY <1>1, <2>2
    <3> HIDE DEF m
    <3>. QED  BY <1>2, <3>1, <3>2 DEF Types, PortRecord
  <2>. QED  BY <2>1, <2>2
<1>7. \A q \in Ports : port[q].generation <= port'[q].generation
  BY <1>2, <1>6, PortFields
<1>8. /\ Types' /\ QueueMatches' /\ Lives' /\ Preparing'
      /\ PickedStayListed' /\ FramesAreSettled' /\ GroupsAreWhole'
      /\ Listed' = Listed /\ Picked' = Picked
      /\ \A q : ListedOf(q)' = ListedOf(q)
      /\ \A S : FromGpu(S)' = FromGpu(S)
  BY <1>1, <1>3, <1>6, <1>7, PortStep
<1>9. req' = req
  BY <1>1
<1>10. Generations'
  <2>1. ASSUME NEW i \in Ids, req[i].where # "unused"
        PROVE  req[i].port \in Ports
    BY <2>1 DEF FlipInvariant, Lives
  <2>. QED  BY <1>6, <1>9, <2>1 DEF FlipInvariant, Generations
<1>11. \A i \in Ids : req[i].port \in Ports => (Current(i) <=> Current(i)')
  BY <1>6, <1>9 DEF Current
<1>12. Owned'
  <2>1. ASSUME NEW i \in Listed
        PROVE  (\/ Current(i) /\ req[i].master = port[req[i].port].master
                \/ Closing(req[i].port) /\ req[i].master = closer.master)'
    <3>1. i \in Ids /\ req[i].port \in Ports
      BY ListedIsUsed
    <3>2. \/ Current(i)' /\ req[i].master = port[req[i].port].master
          \/ req[i].port = p /\ req[i].master = m
      BY <1>11, <3>1 DEF FlipInvariant, Owned, Closing
    <3>. QED  BY <1>3, <1>6, <1>9, <3>1, <3>2 DEF Closing
  <2>. QED  BY <1>8, <2>1 DEF Owned
<1>13. Grouped'
  <2>1. \A q, n : (Leaving(q, n) <=> q = p /\ n = m) /\ ~Leaving(q, n)'
    BY <1>1, <1>3 DEF Leaving
  <2>2. \A n \in Ports \ {m} : Slaves(n)' = Slaves(n)
    <3>1. ASSUME NEW n \in Ports \ {m}
          PROVE  Slaves(n)' = Slaves(n)
      BY <1>6, <2>1 DEF Slaves
    <3>. QED  BY <3>1
  <2>3. ASSUME NEW n \in Ports, n = m
        PROVE  port'[n].slaves = Cardinality(Slaves(n)')
    <3>1. p # n /\ n # None
      BY <1>4, <2>3, Sizes
    <3>2. \A q \in Ports : port[q].master = n \/ q = p <=> q \in Slaves(n)
      BY <2>1, <2>3 DEF Slaves
    <3>3. \A q \in Ports : port[q].master = n <=> q \in Slaves(n)'
      BY <1>6, <2>1, <2>3 DEF Slaves
    <3>4. p \in Slaves(n) /\ Slaves(n)' = Slaves(n) \ {p}
      <4>1. Slaves(n) \subseteq Ports /\ Slaves(n)' \subseteq Ports
        BY DEF Slaves
      <4>2. port[p].master # n
        BY <1>4, <3>1
      <4>. QED  BY <1>4, <3>2, <3>3, <4>1, <4>2
    <3>5. IsFiniteSet(Slaves(n)) /\ Cardinality(Slaves(n)) \in Nat
      BY Sizes DEF Slaves
    <3>6. Cardinality(Slaves(n)') = Cardinality(Slaves(n)) - 1
      BY <3>4, <3>5, FS_RemoveElement
    <3>7. port[n].slaves = Cardinality(Slaves(n))
      BY DEF FlipInvariant, Grouped
    <3>. QED  BY <1>6, <2>3, <3>6, <3>7
  <2>4. ASSUME NEW q \in Ports
        PROVE  /\ port'[q].slaves = Cardinality(Slaves(q)')
               /\ port'[q].master # None =>
                    port'[q].slaves = 0 /\ port'[q].opened /\ port'[q].master # q
    <3>1. /\ port[q].slaves = Cardinality(Slaves(q))
          /\ port[q].master # None => port[q].slaves = 0 /\ port[q].opened /\ port[q].master # q
      BY DEF FlipInvariant, Grouped
    <3>2. CASE q = m
      <4>1. port[q].master = None
        BY <1>5, <3>2, Sizes
      <4>2. port'[q].slaves = Cardinality(Slaves(q)')
        BY <2>3, <3>2
      <4>. QED  BY <1>6, <4>1, <4>2
    <3>3. CASE q # m
      <4>1. Slaves(q)' = Slaves(q)
        BY <2>2, <3>3
      <4>. QED  BY <1>6, <3>1, <3>3, <4>1
    <3>. QED  BY <3>2, <3>3
  <2>. QED  BY <2>4 DEF Grouped
<1>14. Closes'
  <2>1. closer' # NoCloser
    BY <1>3 DEF NoCloser
  <2>. QED  BY <1>3, <1>4, <1>6, <2>1 DEF Closes
<1>15. DueIsCurrent'
  <2>1. \A i \in Picked : i \in Ids /\ req[i].port \in Ports
    BY DEF Picked, FlipInvariant, Lives, Life
  <2>. QED  BY <1>1, <1>8, <1>11, <2>1 DEF FlipInvariant, DueIsCurrent
<1>16. Counted'
  BY <1>6, <1>8 DEF FlipInvariant, Counted
<1>. QED  BY <1>8, <1>10, <1>12, <1>13, <1>14, <1>15, <1>16 DEF FlipInvariant

\* When a Close resets the counters of its port, everything of the port is cancelled.
LEMMA CancelResetsKeeps ==
    ASSUME FlipInvariant, CancelResets
    PROVE  FlipInvariant'
<1> DEFINE p == closer.port
<1>1. /\ closer.at = "reset" /\ closer' = NoCloser
      /\ port' = [port EXCEPT ![p].pending = 0, ![p].gc = 0]
      /\ UNCHANGED <<req, next, queue, present, gpu>>
  BY DEF CancelResets
<1>2. Types
  BY DEF FlipInvariant
<1>3. closer' \in CloserRecord /\ closer'.at = "none"
  BY <1>1 DEF NoCloser, CloserRecord
<1>4. p \in Ports /\ ~port[p].opened
  BY <1>1 DEF FlipInvariant, Closes
<1>5. /\ \A q \in Ports : /\ port'[q].opened = port[q].opened
                          /\ port'[q].generation = port[q].generation
                          /\ port'[q].master = port[q].master
                          /\ port'[q].slaves = port[q].slaves
                          /\ q # p => port'[q] = port[q]
      /\ port' \in [Ports -> PortRecord]
  <2>1. 0 \in 0 .. Capacity
    BY Sizes
  <2> HIDE DEF p
  <2>2. port \in [Ports -> PortRecord] /\ p \in Ports
    BY <1>2, <1>4 DEF Types
  <2>3. port' = [port EXCEPT ![p] = [port[p] EXCEPT !.pending = 0, !.gc = 0]]
    BY <1>1
  <2>4. [port[p] EXCEPT !.pending = 0, !.gc = 0] \in PortRecord
    BY <2>1, <2>2 DEF PortRecord
  <2>5. \A q \in Ports \ {p} : port'[q] = port[q]
    BY <2>2, <2>3
  <2>6. port'[p] = [port[p] EXCEPT !.pending = 0, !.gc = 0]
    BY <2>2, <2>3
  <2>7. /\ port'[p].opened = port[p].opened /\ port'[p].generation = port[p].generation
        /\ port'[p].master = port[p].master /\ port'[p].slaves = port[p].slaves
    BY <2>2, <2>6 DEF PortRecord
  <2>8. port' \in [Ports -> PortRecord]
    BY <2>2, <2>3, <2>4
  <2>. QED  BY <2>5, <2>7, <2>8
<1>6. \A q \in Ports : port[q].generation <= port'[q].generation
  BY <1>2, <1>5, PortFields
<1>7. /\ Types' /\ QueueMatches' /\ Lives' /\ Preparing'
      /\ PickedStayListed' /\ FramesAreSettled' /\ GroupsAreWhole'
      /\ Listed' = Listed /\ Picked' = Picked
      /\ \A q : ListedOf(q)' = ListedOf(q)
      /\ \A S : FromGpu(S)' = FromGpu(S)
  BY <1>1, <1>3, <1>5, <1>6, PortStep
<1>8. req' = req
  BY <1>1
<1>9. Generations'
  <2>1. ASSUME NEW i \in Ids, req[i].where # "unused"
        PROVE  req[i].port \in Ports
    BY <2>1 DEF FlipInvariant, Lives
  <2>. QED  BY <1>5, <1>8, <2>1 DEF FlipInvariant, Generations
<1>10. \A i \in Ids : req[i].port \in Ports => (Current(i) <=> Current(i)')
  BY <1>5, <1>8 DEF Current
<1>11. Owned'
  <2>1. ASSUME NEW i \in Listed
        PROVE  Current(i)' /\ req'[i].master = port'[req'[i].port].master
    <3>1. i \in Ids /\ req[i].port \in Ports
      BY ListedIsUsed
    <3>2. Current(i)' /\ req[i].master = port[req[i].port].master
      BY <1>1, <1>10, <3>1 DEF FlipInvariant, Owned, Closing
    <3>. QED  BY <1>5, <1>8, <3>1, <3>2
  <2>. QED  BY <1>7, <2>1 DEF Owned
<1>12. Grouped'
  <2>1. \A q, n : ~Leaving(q, n) /\ ~Leaving(q, n)'
    BY <1>1, <1>3 DEF Leaving
  <2>2. ASSUME NEW n \in Ports
        PROVE  Slaves(n)' = Slaves(n)
    BY <1>5, <2>1 DEF Slaves
  <2>. QED  BY <1>5, <2>2 DEF FlipInvariant, Grouped
<1>13. Closes'
  BY <1>1, <1>3 DEF Closes
<1>14. DueIsCurrent'
  <2>1. \A i \in Picked : i \in Ids /\ req[i].port \in Ports
    BY DEF Picked, FlipInvariant, Lives, Life
  <2>. QED  BY <1>1, <1>7, <1>10, <2>1 DEF FlipInvariant, DueIsCurrent
<1>15. Counted'
  BY <1>4, <1>5, <1>7 DEF FlipInvariant, Counted
<1>. QED  BY <1>7, <1>9, <1>11, <1>12, <1>13, <1>14, <1>15 DEF FlipInvariant

--------------------------------------------------------------------------------
(* The steps of the GPU thread that change nothing but where it is         *)

\* What the GPU thread does not touch.
LEMMA GpuStep ==
    ASSUME FlipInvariant, UNCHANGED <<port, req, next, queue, present, closer>>,
           gpu' \in GpuRecord
    PROVE  /\ Types' /\ QueueMatches' /\ Lives'
           /\ Generations' /\ Owned' /\ Grouped' /\ Closes' /\ DueIsCurrent' /\ Counted'
           /\ PickedStayListed' /\ FramesAreSettled' /\ GroupsAreWhole'
<1>1. Types' /\ QueueMatches' /\ Lives' /\ Generations'
  BY DEF FlipInvariant, Types, QueueMatches, Lives, Life, Generations
<1>2. Listed' = Listed /\ Picked' = Picked
  BY DEF Listed, Picked
<1>3. \A p : ListedOf(p)' = ListedOf(p)
  BY <1>2 DEF ListedOf
<1>4. PickedStayListed' /\ FramesAreSettled' /\ GroupsAreWhole'
  BY <1>2 DEF FlipInvariant, PickedStayListed, Members, FramesAreSettled, GroupsAreWhole
<1>5. Owned' /\ DueIsCurrent' /\ Counted'
  BY <1>2, <1>3 DEF FlipInvariant, Owned, Current, Closing, DueIsCurrent, Counted, FromGpu
<1>6. Grouped' /\ Closes'
  BY DEF FlipInvariant, Grouped, Slaves, Leaving, Closes
<1>. QED  BY <1>1, <1>4, <1>5, <1>6

\* A GPU thread that works on no request is anywhere it waits, or goes round.
LEMMA GpuRests ==
    ASSUME FlipInvariant, UNCHANGED <<port, req, next, queue, present, closer>>,
           gpu' \in GpuRecord, gpu.id = 0, gpu'.id = 0, gpu'.at \in {"idle", "asleep", "awake"}
    PROVE  FlipInvariant'
<1>1. Preparing'
  BY DEF FlipInvariant, Preparing
<1>. QED  BY <1>1, GpuStep DEF FlipInvariant

\* A notification wakes the GPU thread, or does nothing to it.
LEMMA WokenIs ==
    ASSUME Types, NEW kinds
    PROVE  /\ Woken(kinds) \in GpuRecord /\ Woken(kinds).id = gpu.id
           /\ \/ Woken(kinds).at = gpu.at
              \/ gpu.at = "asleep" /\ Woken(kinds).at = "awake"
BY DEF Types, GpuRecord, Woken

LEMMA GpuWaitsKeeps ==
    ASSUME FlipInvariant,
           \/ \E p \in Ports, for \in {"slot", "done"} : GpuWaits(p, for)
           \/ GpuWakesAlone \/ GpuResumes
    PROVE  FlipInvariant'
<1>1. gpu \in GpuRecord
  BY DEF FlipInvariant, Types
<1>2. /\ gpu' \in GpuRecord /\ gpu.at \in {"idle", "asleep", "awake"}
      /\ gpu'.at \in {"idle", "asleep", "awake"}
      /\ gpu.id = 0 => gpu'.id = 0
      /\ UNCHANGED <<port, req, next, queue, present, closer>>
  <2>1. ASSUME NEW p \in Ports, NEW for \in {"slot", "done"}, GpuWaits(p, for)
        PROVE  <1>2!:
    <3>1. 0 \in 0 .. MaxRequests
      BY Sizes
    <3>2. /\ gpu.at = "idle" /\ gpu' = [Idle EXCEPT !.at = "asleep", !.port = p, !.for = for]
          /\ UNCHANGED <<port, req, next, queue, present, closer>>
      BY <2>1 DEF GpuWaits
    <3>. QED  BY <3>1, <3>2 DEF Idle, GpuRecord
  <2>2. CASE GpuWakesAlone
    BY <1>1, <2>2 DEF GpuWakesAlone, GpuRecord
  <2>3. CASE GpuResumes
    BY <1>1, <2>3, Sizes DEF GpuResumes, Idle, GpuRecord
  <2>. QED  BY <2>1, <2>2, <2>3
<1>3. gpu.id = 0
  BY <1>2 DEF FlipInvariant, Preparing
<1>. QED  BY <1>2, <1>3, GpuRests

\* A request of the CPU that the GPU thread takes has not been drawn.
LEMMA TakesCpuFlipKeeps ==
    ASSUME FlipInvariant, NEW i \in Ids, TakesCpuFlip(i)
    PROVE  FlipInvariant'
<1>1. /\ gpu.at = "idle" /\ req[i].state = "Reserved"
      /\ gpu' = [Idle EXCEPT !.at = "prepare", !.id = i]
      /\ UNCHANGED <<port, req, next, queue, present, closer>>
  BY DEF TakesCpuFlip
<1>2. gpu' \in GpuRecord /\ gpu'.at = "prepare" /\ gpu'.id = i
  <2>1. i \in 0 .. MaxRequests
    BY IdsAreNumbers, Sizes
  <2>. QED  BY <1>1, <2>1 DEF Idle, GpuRecord
<1>3. Preparing'
  <2>1. gpu.id = 0
    BY <1>1 DEF FlipInvariant, Preparing
  <2>2. \A j \in Ids : req[j].where = "queue" /\ req[j].frame = "none" => FALSE
    BY <2>1, IdsAreNumbers DEF FlipInvariant, Preparing
  <2>. QED  BY <1>1, <1>2, <2>2 DEF Preparing
<1>. QED  BY <1>1, <1>2, <1>3, GpuStep DEF FlipInvariant

\* What is found stale is of an earlier life of its port, and stays so.
LEMMA PrepareLooksKeeps ==
    ASSUME FlipInvariant, PrepareLooks
    PROVE  FlipInvariant'
<1>1. /\ gpu.at = "look"
      /\ gpu' = [gpu EXCEPT !.at = IF Current(gpu.id) THEN "draw" ELSE "stale"]
      /\ UNCHANGED <<port, req, next, queue, present, closer>>
  BY DEF PrepareLooks
<1>2. /\ gpu' \in GpuRecord /\ gpu'.id = gpu.id
      /\ gpu'.at = IF Current(gpu.id) THEN "draw" ELSE "stale"
  BY <1>1 DEF FlipInvariant, Types, GpuRecord
<1>3. gpu.id \in Ids /\ req[gpu.id].state = "Recording" /\ req[gpu.id].frame = "none"
  BY <1>1 DEF FlipInvariant, Preparing
<1>4. ~Current(gpu.id) => req[gpu.id].generation < port[req[gpu.id].port].generation
  <2>1. req[gpu.id].where # "unused" /\ req[gpu.id].port \in Ports
    BY <1>3 DEF FlipInvariant, Lives, Life
  <2>2. /\ req[gpu.id].generation <= port[req[gpu.id].port].generation
        /\ req[gpu.id].generation = port[req[gpu.id].port].generation =>
              port[req[gpu.id].port].opened
    BY <1>3, <2>1 DEF FlipInvariant, Generations
  <2>3. req[gpu.id].generation \in Int /\ port[req[gpu.id].port].generation \in Int
    BY <1>3, <2>1, RequestFields, PortFields DEF FlipInvariant
  <2>. QED  BY <2>2, <2>3 DEF Current
<1>5. Preparing'
  BY <1>1, <1>2, <1>3, <1>4 DEF FlipInvariant, Preparing
<1>. QED  BY <1>1, <1>2, <1>5, GpuStep DEF FlipInvariant

--------------------------------------------------------------------------------
(* The steps that draw a frame                                             *)

\* A request that stays the same flip, of the same port.
SameFlip(i) ==
    /\ req'[i].port = req[i].port /\ req'[i].master = req[i].master
    /\ req'[i].generation = req[i].generation /\ req'[i].source = req[i].source
    /\ req'[i].where = "unused" <=> req[i].where = "unused"

\* What does not look at how far requests are, while they stay in the lists.
LEMMA SameLists ==
    ASSUME FlipInvariant, UNCHANGED <<port, next, closer>>, Listed' = Listed,
           \A i \in Ids : SameFlip(i) /\ req'[i].group = req[i].group
    PROVE  /\ Generations' /\ Owned' /\ Grouped' /\ Closes' /\ Counted' /\ GroupsAreWhole'
           /\ \A i \in Ids : Current(i)' <=> Current(i)
           /\ \A g : Members(g)' = Members(g)
<1>1. Generations'
  BY DEF FlipInvariant, Generations, SameFlip
<1>2. \A i \in Ids : Current(i)' <=> Current(i)
  BY DEF Current, SameFlip
<1>3. Owned'
  <2>1. \A i \in Listed : i \in Ids
    BY DEF Listed
  <2>. QED  BY <1>2, <2>1 DEF FlipInvariant, Owned, Closing, SameFlip
<1>4. Grouped' /\ Closes'
  BY DEF FlipInvariant, Grouped, Slaves, Leaving, Closes
<1>5. ASSUME NEW p
      PROVE  ListedOf(p)' = ListedOf(p) /\ FromGpu(ListedOf(p))' = FromGpu(ListedOf(p))
  <2>1. Listed \subseteq Ids
    BY DEF Listed
  <2>2. ListedOf(p)' = ListedOf(p) /\ ListedOf(p) \subseteq Ids
    BY <2>1 DEF ListedOf, SameFlip
  <2>3. {i \in ListedOf(p) : req'[i].source = "GpuEop"} = {i \in ListedOf(p) : req[i].source = "GpuEop"}
    BY <2>2 DEF SameFlip
  <2>. QED  BY <2>2, <2>3 DEF FromGpu
<1>6. Counted'
  BY <1>5 DEF FlipInvariant, Counted
<1>7. \A g : Members(g)' = Members(g)
  <2>1. Listed \subseteq Ids
    BY DEF Listed
  <2>. QED  BY <2>1 DEF Members
<1>8. GroupsAreWhole'
  <2>1. \A i \in Listed : i \in Ids
    BY DEF Listed
  <2>. QED  BY <2>1 DEF FlipInvariant, GroupsAreWhole, SameFlip
<1>. QED  BY <1>1, <1>2, <1>3, <1>4, <1>6, <1>7, <1>8

\* One request that the present thread has not picked goes on, in the lists or outside.
LEMMA OneGoesOn ==
    ASSUME FlipInvariant, NEW i \in Ids, NEW STATE new, new \in RequestRecord,
           req' = [req EXCEPT ![i] = new], UNCHANGED <<port, next, closer, present>>,
           gpu' \in GpuRecord,
           /\ new.port = req[i].port /\ new.master = req[i].master
           /\ new.generation = req[i].generation /\ new.source = req[i].source
           /\ new.group = req[i].group,
           new.where \in {"queue", "cpu"} <=> req[i].where \in {"queue", "cpu"},
           req[i].where # "unused", new.where # "unused", Life(new),
           req[i].state # "Presenting", new.state # "Presenting",
           new.where = "gone" => new.frame # "drawn", new.frame = "discarded" => new.where = "gone",
           new.frame # "shown",
           QueueMatches', Preparing'
    PROVE  FlipInvariant'
<1>1. Types /\ req \in [Ids -> RequestRecord]
  BY DEF FlipInvariant, Types
<1>2. /\ req' \in [Ids -> RequestRecord] /\ req'[i] = new
      /\ \A j \in Ids \ {i} : req'[j] = req[j]
  BY <1>1
<1>3. Types'
  BY <1>1, <1>2 DEF Types
<1>4. \A j \in Ids : SameFlip(j) /\ req'[j].group = req[j].group
  BY <1>2 DEF SameFlip
<1>5. \A j \in Ids : req'[j].where \in {"queue", "cpu"} <=> req[j].where \in {"queue", "cpu"}
  BY <1>2
<1>6. Listed' = Listed
  BY <1>5 DEF Listed
<1>7. /\ Generations' /\ Owned' /\ Grouped' /\ Closes' /\ Counted' /\ GroupsAreWhole'
      /\ \A j \in Ids : Current(j)' <=> Current(j)
      /\ \A g : Members(g)' = Members(g)
  BY <1>4, <1>6, SameLists
<1>8. Lives'
  <2>1. ASSUME NEW j \in Ids
        PROVE  /\ Life(req'[j])
               /\ req'[j].where = "unused" <=> j >= next
               /\ req'[j].where # "unused" => req'[j].port \in Ports /\ req'[j].group < next
    <3>1. /\ Life(req[j])
          /\ req[j].where = "unused" <=> j >= next
          /\ req[j].where # "unused" => req[j].port \in Ports /\ req[j].group < next
      BY DEF FlipInvariant, Lives
    <3>2. CASE j = i
      BY <1>2, <3>1, <3>2
    <3>3. CASE j # i
      BY <1>2, <3>1, <3>3
    <3>. QED  BY <3>2, <3>3
  <2>. QED  BY <2>1 DEF Lives, Life
<1>9. Picked' = Picked /\ \A j \in Picked : j \in Ids /\ j # i /\ req'[j] = req[j]
  BY <1>2 DEF Picked
<1>10. DueIsCurrent'
  BY <1>7, <1>9 DEF FlipInvariant, DueIsCurrent
<1>11. PickedStayListed'
  BY <1>7, <1>9 DEF FlipInvariant, PickedStayListed
<1>12. FramesAreSettled'
  <2>1. ASSUME NEW j \in Ids
        PROVE  /\ req'[j].where = "gone" => req'[j].frame # "drawn"
               /\ req'[j].frame = "discarded" => req'[j].where = "gone"
               /\ req'[j].frame = "shown" =>
                   req'[j].where = "gone" \/ (present.at = "locked" /\ present.due /\ j \in Picked)
    <3>1. CASE j = i
      BY <1>2, <3>1
    <3>2. CASE j # i
      BY <1>2, <3>2 DEF FlipInvariant, FramesAreSettled
    <3>. QED  BY <3>1, <3>2
  <2>. QED  BY <1>9, <2>1 DEF FramesAreSettled
<1>. QED  BY <1>3, <1>7, <1>8, <1>10, <1>11, <1>12 DEF FlipInvariant

\* A request of the CPU enters the queue when the GPU thread begins to record it.
LEMMA PrepareStartsKeeps ==
    ASSUME FlipInvariant, PrepareStarts
    PROVE  FlipInvariant'
<1> DEFINE i == gpu.id
           new == [req[i] EXCEPT !.state = "Recording",
                                 !.where = IF @ = "cpu" THEN "queue" ELSE @]
<1>1. /\ gpu.at = "prepare"
      /\ req' = [req EXCEPT ![i] = new]
      /\ queue' = IF req[i].where = "cpu" THEN Append(queue, i) ELSE queue
      /\ gpu' = IF req[i].where = "cancelled" THEN Idle ELSE [gpu EXCEPT !.at = "look"]
      /\ UNCHANGED <<port, next, present, closer>>
  BY DEF PrepareStarts
<1>2. i \in Ids /\ req[i].state = "Reserved" /\ Life(req[i]) /\ Types
  BY <1>1 DEF FlipInvariant, Preparing, Lives
<1>3. req[i].where \in {"queue", "cpu", "cancelled"} /\ req[i].frame = "none"
  BY <1>2, RequestFields DEF Life
<1>4. /\ new \in RequestRecord /\ new.state = "Recording" /\ new.frame = "none"
      /\ new.where = IF req[i].where = "cpu" THEN "queue" ELSE req[i].where
      /\ new.port = req[i].port /\ new.master = req[i].master
      /\ new.generation = req[i].generation /\ new.source = req[i].source
      /\ new.group = req[i].group
  <2>1. req[i] \in RequestRecord
    BY <1>2, RequestFields
  <2>. QED  BY <1>3, <2>1 DEF RequestRecord, RequestState
<1> HIDE DEF new
<1>5. Life(new)
  BY <1>3, <1>4 DEF Life
<1>6. gpu' \in GpuRecord
  <2>1. Idle \in GpuRecord
    <3>1. 0 \in 0 .. MaxRequests
      BY Sizes
    <3>. QED  BY <3>1 DEF Idle, GpuRecord
  <2>2. [gpu EXCEPT !.at = "look"] \in GpuRecord
    BY <1>2 DEF Types, GpuRecord
  <2>. QED  BY <1>1, <2>1, <2>2
<1>7. \A j \in Ids : j # i => req'[j] = req[j]
  BY <1>1, <1>2 DEF Types
<1>8. req'[i] = new
  BY <1>1, <1>2 DEF Types
<1> HIDE DEF i
<1>9. QueueMatches'
  <2>1. /\ queue \in Seq(Ids) /\ IsInjective(queue)
        /\ Range(queue) = {j \in Ids : req[j].where = "queue"}
    BY DEF FlipInvariant, QueueMatches
  <2>2. CASE req[i].where = "cpu"
    <3>1. i \notin Range(queue)
      BY <2>1, <2>2
    <3>2. queue' \in Seq(Ids) /\ IsInjective(queue') /\ Range(queue') = Range(queue) \cup {i}
      BY <1>1, <1>2, <2>1, <2>2, <3>1, AppendKeeps
    <3>3. \A j \in Ids : req'[j].where = "queue" <=> req[j].where = "queue" \/ j = i
      BY <1>4, <1>7, <1>8, <2>2
    <3>4. {j \in Ids : req'[j].where = "queue"} = {j \in Ids : req[j].where = "queue"} \cup {i}
      BY <1>2, <3>3
    <3>. QED  BY <2>1, <3>2, <3>4 DEF QueueMatches
  <2>3. CASE req[i].where # "cpu"
    <3>1. \A j \in Ids : req'[j].where = req[j].where
      BY <1>4, <1>7, <1>8, <2>3
    <3>2. queue' = queue
      BY <1>1, <2>3
    <3>. QED  BY <2>1, <3>1, <3>2 DEF QueueMatches
  <2>. QED  BY <2>2, <2>3
<1>10. Preparing'
  <2>1. \A j \in Ids : req[j].where = "queue" /\ req[j].frame = "none" => j = i
    BY DEF FlipInvariant, Preparing, i
  <2>2. CASE req[i].where = "cancelled"
    <3>1. gpu'.at = "idle" /\ gpu'.id = 0
      BY <1>1, <2>2 DEF Idle
    <3>2. \A j \in Ids : ~(req'[j].where = "queue" /\ req'[j].frame = "none")
      BY <1>4, <1>7, <1>8, <2>1, <2>2
    <3>. QED  BY <3>1, <3>2 DEF Preparing
  <2>3. CASE req[i].where # "cancelled"
    <3>1. gpu'.at = "look" /\ gpu'.id = i
      BY <1>1, <1>2, <2>3 DEF i, Types, GpuRecord
    <3>2. \A j \in Ids : req'[j].where = "queue" /\ req'[j].frame = "none" => j = i
      BY <1>7, <2>1
    <3>. QED  BY <1>2, <1>4, <1>8, <3>1, <3>2 DEF Preparing
  <2>. QED  BY <2>2, <2>3
<1>. QED  BY <1>1, <1>2, <1>3, <1>4, <1>5, <1>6, <1>9, <1>10, OneGoesOn

\* The frame is drawn into what may have been cancelled in the meantime.
LEMMA PrepareDrawsKeeps ==
    ASSUME FlipInvariant, PrepareDraws
    PROVE  FlipInvariant'
<1> DEFINE i == gpu.id
           new == [req[i] EXCEPT !.frame = "drawn"]
<1>1. /\ gpu.at = "draw" /\ req' = [req EXCEPT ![i] = new] /\ gpu' = Idle
      /\ UNCHANGED <<port, next, queue, present, closer>>
  BY DEF PrepareDraws
<1>2. /\ i \in Ids /\ req[i].state = "Recording" /\ req[i].frame = "none" /\ Life(req[i]) /\ Types
  BY <1>1 DEF FlipInvariant, Preparing, Lives
<1>3. req[i].where \in {"queue", "cancelled"}
  BY <1>2, RequestFields DEF Life
<1>4. /\ new \in RequestRecord /\ new.state = "Recording" /\ new.frame = "drawn"
      /\ new.where = req[i].where
      /\ new.port = req[i].port /\ new.master = req[i].master
      /\ new.generation = req[i].generation /\ new.source = req[i].source
      /\ new.group = req[i].group
  <2>1. req[i] \in RequestRecord
    BY <1>2, RequestFields
  <2>. QED  BY <1>2, <2>1 DEF RequestRecord
<1> HIDE DEF new
<1>5. Life(new)
  BY <1>3, <1>4 DEF Life
<1>6. gpu' \in GpuRecord /\ gpu'.at = "idle" /\ gpu'.id = 0
  <2>1. 0 \in 0 .. MaxRequests
    BY Sizes
  <2>. QED  BY <1>1, <2>1 DEF Idle, GpuRecord
<1>7. req'[i] = new /\ \A j \in Ids : j # i => req'[j] = req[j]
  BY <1>1, <1>2 DEF Types
<1> HIDE DEF i
<1>8. QueueMatches'
  <2>1. \A j \in Ids : req'[j].where = req[j].where
    BY <1>4, <1>7
  <2>. QED  BY <1>1, <2>1 DEF FlipInvariant, QueueMatches
<1>9. Preparing'
  <2>1. \A j \in Ids : req[j].where = "queue" /\ req[j].frame = "none" => j = i
    BY DEF FlipInvariant, Preparing, i
  <2>2. \A j \in Ids : ~(req'[j].where = "queue" /\ req'[j].frame = "none")
    BY <1>4, <1>7, <2>1
  <2>. QED  BY <1>6, <2>2 DEF Preparing
<1>. QED  BY <1>1, <1>2, <1>3, <1>4, <1>5, <1>6, <1>8, <1>9, OneGoesOn

\* The GPU has drawn the frame: it can be shown, or is discarded with its request.
LEMMA CompleteKeeps ==
    ASSUME FlipInvariant, NEW i \in Ids, Complete(i)
    PROVE  FlipInvariant'
<1> DEFINE ready == [req[i] EXCEPT !.state = "Ready"]
           new == IF req[i].where = "queue" THEN ready ELSE Discards(req[i])
<1>1. /\ req[i].state = "Recording" /\ gpu.id # i
      /\ req' = [req EXCEPT ![i] = new]
      /\ gpu' = gpu \/ gpu' = Woken({"done"})
      /\ UNCHANGED <<port, next, queue, present, closer>>
  BY DEF Complete
<1>2. Life(req[i]) /\ Types
  BY DEF FlipInvariant, Lives
<1>3. /\ req[i].where \in {"queue", "cancelled"} /\ req[i].frame \in {"none", "drawn"}
      /\ req[i].where = "queue" => req[i].frame = "drawn"
  <2>1. req[i].where = "queue" /\ req[i].frame = "none" => FALSE
    BY <1>1 DEF FlipInvariant, Preparing
  <2>. QED  BY <1>1, <1>2, <2>1, RequestFields DEF Life
<1>4. req[i] \in RequestRecord
  BY <1>2, RequestFields
<1>5. /\ new \in RequestRecord
      /\ new.port = req[i].port /\ new.master = req[i].master
      /\ new.generation = req[i].generation /\ new.source = req[i].source
      /\ new.group = req[i].group
      /\ \/ req[i].where = "queue" /\ new.where = "queue" /\ new.state = "Ready" /\ new.frame = "drawn"
         \/ req[i].where = "cancelled" /\ new.where = "gone" /\ new.state = "None"
            /\ new.frame \in {"none", "discarded"}
  <2>1. CASE req[i].where = "queue"
    BY <1>3, <1>4, <2>1 DEF RequestRecord, RequestState
  <2>2. CASE req[i].where = "cancelled"
    BY <1>3, <1>4, <2>2 DEF Discards, RequestRecord, RequestState
  <2>. QED  BY <1>3, <2>1, <2>2
<1> HIDE DEF new
<1>6. Life(new)
  BY <1>5 DEF Life
<1>7. /\ gpu' \in GpuRecord /\ gpu'.id = gpu.id
      /\ \/ gpu'.at = gpu.at
         \/ gpu.at = "asleep" /\ gpu'.at = "awake"
  <2>1. gpu \in GpuRecord
    BY <1>2 DEF Types
  <2>. QED  BY <1>1, <1>2, <2>1, WokenIs
<1>8. req'[i] = new /\ \A j \in Ids : j # i => req'[j] = req[j]
  BY <1>1, <1>2 DEF Types
<1>9. QueueMatches'
  <2>1. \A j \in Ids : req'[j].where = "queue" <=> req[j].where = "queue"
    BY <1>5, <1>8
  <2>. QED  BY <1>1, <2>1 DEF FlipInvariant, QueueMatches
<1>10. Preparing'
  <2>1. \A j \in Ids : req'[j].where = "queue" /\ req'[j].frame = "none" => gpu.id = j
    BY <1>5, <1>8 DEF FlipInvariant, Preparing
  <2>2. gpu.id \in Ids => req'[gpu.id] = req[gpu.id]
    BY <1>1, <1>8
  <2>. QED  BY <1>1, <1>7, <2>1, <2>2 DEF FlipInvariant, Preparing
<1>. QED  BY <1>1, <1>3, <1>5, <1>6, <1>7, <1>9, <1>10, OneGoesOn


--------------------------------------------------------------------------------
(* The steps that take requests out of the lists                           *)

\* What does not look at the lists, while the lives of the ports stay what they are.
LEMMA SamePorts ==
    ASSUME FlipInvariant, next' = next,
           \A p \in Ports : /\ port'[p].opened = port[p].opened
                            /\ port'[p].generation = port[p].generation
                            /\ port'[p].master = port[p].master
                            /\ port'[p].slaves = port[p].slaves,
           \A q, m : Leaving(q, m)' <=> Leaving(q, m),
           \A i \in Ids : SameFlip(i) /\ req'[i].group = req[i].group /\ Life(req'[i])
    PROVE  /\ Lives' /\ Generations' /\ Grouped'
           /\ \A i \in Ids : req[i].port \in Ports => (Current(i)' <=> Current(i))
<1>1. \A i \in Ids : req[i].where # "unused" => req[i].port \in Ports
  BY DEF FlipInvariant, Lives
<1>2. Lives'
  BY DEF FlipInvariant, Lives, SameFlip, Life
<1>3. Generations'
  BY <1>1 DEF FlipInvariant, Generations, SameFlip
<1>4. ASSUME NEW m
      PROVE  Slaves(m)' = Slaves(m)
  BY DEF Slaves
<1>5. Grouped'
  BY <1>4 DEF FlipInvariant, Grouped
<1>6. \A i \in Ids : req[i].port \in Ports => (Current(i)' <=> Current(i))
  BY DEF Current, SameFlip
<1>. QED  BY <1>2, <1>3, <1>5, <1>6

\* A group whose leader stays in the lists stays one.
LEMMA GroupsShrink ==
    ASSUME FlipInvariant, NEW out, Listed' = Listed \ out,
           \A i \in Ids : SameFlip(i) /\ req'[i].group = req[i].group,
           \A i \in Listed \ out : req[i].group \notin out
    PROVE  GroupsAreWhole'
<1>1. \A i \in Listed : i \in Ids
  BY DEF Listed
<1>2. ASSUME NEW i \in Listed \ out
      PROVE  LET g == req'[i].group IN
             /\ g # 0 /\ g # i =>
                  g \in Listed \ out /\ req'[g].group = g /\ req'[g].port = req'[i].master
             /\ req'[i].master = None => g = i
             /\ \A j \in (Listed \ out) \ {i} : ~(req'[j].port = req'[i].port /\ req'[j].group = g)
  <2>1. i \in Ids /\ i \in Listed /\ req[i].group \notin out
    BY <1>1, <1>2
  <2> DEFINE g == req[i].group
  <2>2. /\ g # 0 /\ g # i => g \in Listed /\ req[g].group = g /\ req[g].port = req[i].master
        /\ req[i].master = None => g = i
        /\ \A j \in Listed \ {i} : ~(req[j].port = req[i].port /\ req[j].group = g)
    BY <2>1 DEF FlipInvariant, GroupsAreWhole
  <2>3. req'[i].group = g /\ req'[i].master = req[i].master /\ req'[i].port = req[i].port
    BY <2>1 DEF SameFlip
  <2>4. \A j \in Listed : req'[j].port = req[j].port /\ req'[j].group = req[j].group
    BY <1>1 DEF SameFlip
  <2> HIDE DEF g
  <2>5. g \notin out
    BY <2>1 DEF g
  <2>. QED  BY <2>2, <2>3, <2>4, <2>5
<1>. QED  BY <1>2 DEF GroupsAreWhole

\* The queue without what leaves it.
LEMMA QueueShrinks ==
    ASSUME FlipInvariant, NEW ids, queue' = Without(ids),
           \A i \in Ids : req'[i].where = "queue" <=> req[i].where = "queue" /\ i \notin ids
    PROVE  QueueMatches'
<1>1. /\ queue \in Seq(Ids) /\ IsInjective(queue)
      /\ Range(queue) = {i \in Ids : req[i].where = "queue"}
  BY DEF FlipInvariant, QueueMatches
<1>2. /\ queue' \in Seq(Ids) /\ IsInjective(queue') /\ Range(queue') = Range(queue) \ ids
  BY <1>1, WithoutKeeps
<1>3. Range(queue') = {i \in Ids : req'[i].where = "queue"}
  BY <1>1, <1>2
<1>. QED  BY <1>2, <1>3 DEF QueueMatches

\* What the present thread has picked stays when other requests leave.
LEMMA PickedStay ==
    ASSUME FlipInvariant, NEW out, Listed' = Listed \ out, present' = present,
           \A i \in Ids : req'[i].group = req[i].group,
           \A i \in Ids : i \in Picked => i \notin out /\ req'[i] = req[i],
           Picked' = Picked
    PROVE  PickedStayListed'
<1>1. Picked \subseteq Ids /\ Listed \subseteq Ids
  BY DEF Picked, Listed
<1>2. Members(present.group)' = Members(present.group) \ out
  BY <1>1 DEF Members
<1>3. present.at \in {"picked", "locked"} => Picked' = Members(present.group)'
  BY <1>1, <1>2 DEF FlipInvariant, PickedStayListed
<1>. QED  BY <1>1, <1>3 DEF FlipInvariant, PickedStayListed

\* Only the requests of ports that are open are counted.
LEMMA ClosedAreNotCounted ==
    ASSUME FlipInvariant, port' = port, NEW out, Listed' = Listed \ out,
           \A i \in Ids : SameFlip(i),
           \A i \in out : i \in Listed => ~port[req[i].port].opened
    PROVE  Counted'
<1>1. ASSUME NEW q \in Ports, port[q].opened
      PROVE  ListedOf(q)' = ListedOf(q) /\ FromGpu(ListedOf(q))' = FromGpu(ListedOf(q))
  <2>1. \A i \in Ids : req'[i].port = req[i].port /\ req'[i].source = req[i].source
    BY DEF SameFlip
  <2>2. Listed \subseteq Ids /\ \A i \in ListedOf(q) : i \notin out
    BY <1>1 DEF Listed, ListedOf
  <2>3. ListedOf(q)' = ListedOf(q) /\ ListedOf(q) \subseteq Ids
    BY <2>1, <2>2 DEF ListedOf
  <2>4. {i \in ListedOf(q) : req'[i].source = "GpuEop"} = {i \in ListedOf(q) : req[i].source = "GpuEop"}
    BY <2>1, <2>3
  <2>. QED  BY <2>3, <2>4 DEF FromGpu
<1>. QED  BY <1>1 DEF FlipInvariant, Counted

\* Nothing waits for a flip of a port that is being closed: the port has no slaves,
\* and no request of an earlier slave is left.
LEMMA NobodyFollows ==
    ASSUME FlipInvariant, NEW p \in Ports, Closing(p),
           NEW i \in Listed, req[i].port = p, NEW j \in Listed, req[j].group = i
    PROVE  j = i
<1>1. closer.master # p /\ \A q \in Ports : port[q].master # p
  BY DEF Closing, FlipInvariant, Closes
<1>2. ASSUME j # i
      PROVE  FALSE
  <2>1. i # 0
    BY ListedIsUsed, IdsAreNumbers
  <2>2. req[j].master = p
    BY <1>2, <2>1 DEF FlipInvariant, GroupsAreWhole
  <2>3. req[j].port \in Ports
    BY ListedIsUsed
  <2>. QED  BY <1>1, <2>2, <2>3 DEF FlipInvariant, Owned
<1>. QED  BY <1>2

\* What was found stale is of a port that is being closed, and is not counted any more.
LEMMA PrepareCancelsKeeps ==
    ASSUME FlipInvariant, PrepareCancels
    PROVE  FlipInvariant'
<1> DEFINE i == gpu.id
           p == req[i].port
           new == [req[i] EXCEPT !.where = IF @ = "queue" THEN "cancelled" ELSE @]
<1>1. /\ gpu.at = "stale" /\ req' = [req EXCEPT ![i] = new] /\ queue' = Without({i})
      /\ gpu' = Idle /\ UNCHANGED <<port, next, present, closer>>
  BY DEF PrepareCancels
<1>2. /\ i \in Ids /\ req[i].state = "Recording" /\ req[i].frame = "none"
      /\ req[i].generation < port[p].generation /\ Life(req[i]) /\ Types
  BY <1>1 DEF FlipInvariant, Preparing, Lives
<1>3. req[i].where \in {"queue", "cancelled"} /\ p \in Ports
  BY <1>2, RequestFields DEF Life, FlipInvariant, Lives
<1>4. /\ new \in RequestRecord /\ new.state = "Recording" /\ new.frame = "none"
      /\ new.where = "cancelled"
      /\ new.port = req[i].port /\ new.master = req[i].master
      /\ new.generation = req[i].generation /\ new.source = req[i].source
      /\ new.group = req[i].group
  <2>1. req[i] \in RequestRecord
    BY <1>2, RequestFields
  <2>. QED  BY <1>2, <1>3, <2>1 DEF RequestRecord
<1>5. req'[i] = new /\ \A j \in Ids : j # i => req'[j] = req[j]
  BY <1>1, <1>2 DEF Types
<1>6. req' \in [Ids -> RequestRecord]
  BY <1>1, <1>2, <1>4 DEF Types
<1> HIDE DEF new
<1>7. \A j \in Ids : SameFlip(j) /\ req'[j].group = req[j].group /\ Life(req'[j])
  <2>1. SameFlip(i) /\ req'[i].group = req[i].group /\ Life(req'[i])
    BY <1>3, <1>4, <1>5 DEF SameFlip, Life
  <2>2. \A j \in Ids : j # i => SameFlip(j) /\ req'[j].group = req[j].group /\ Life(req'[j])
    BY <1>5 DEF SameFlip, FlipInvariant, Lives
  <2>. QED  BY <2>1, <2>2
<1>8. \A q, m : Leaving(q, m)' <=> Leaving(q, m)
  BY <1>1 DEF Leaving
<1>9. /\ Lives' /\ Generations' /\ Grouped'
      /\ \A j \in Ids : req[j].port \in Ports => (Current(j)' <=> Current(j))
  BY <1>1, <1>7, <1>8, SamePorts
<1>10. gpu' \in GpuRecord /\ gpu'.at = "idle" /\ gpu'.id = 0
  <2>1. 0 \in 0 .. MaxRequests
    BY Sizes
  <2>. QED  BY <1>1, <2>1 DEF Idle, GpuRecord
<1>11. Types'
  BY <1>1, <1>2, <1>6, <1>10 DEF Types
<1>12. i \in Listed => Closing(p)
  <2>1. ~Current(i)
    <3>1. req[i].generation \in Int /\ port[p].generation \in Int
      BY <1>2, <1>3, RequestFields, PortFields
    <3>. QED  BY <1>2, <3>1 DEF Current
  <2>. QED  BY <2>1 DEF FlipInvariant, Owned
<1>13. i \in Listed => ~port[p].opened
  BY <1>12 DEF Closing, FlipInvariant, Closes
<1> HIDE DEF p, i
<1>14. Listed' = Listed \ {i}
  <2>1. \A j \in Ids : req'[j].where \in {"queue", "cpu"} <=> req[j].where \in {"queue", "cpu"} /\ j # i
    BY <1>4, <1>5
  <2>. QED  BY <2>1 DEF Listed
<1>15. GroupsAreWhole'
  <2>1. ASSUME NEW j \in Listed \ {i}
        PROVE  req[j].group # i
    <3>1. CASE i \in Listed
      BY <1>3, <1>12, <2>1, <3>1, NobodyFollows DEF p
    <3>2. CASE i \notin Listed
      <4>1. i # 0 /\ i # j
        BY <1>2, <2>1, IdsAreNumbers
      <4>. QED  BY <3>2, <4>1 DEF FlipInvariant, GroupsAreWhole
    <3>. QED  BY <3>1, <3>2
  <2>. QED  BY <1>7, <1>14, <2>1, GroupsShrink
<1>16. QueueMatches'
  <2>1. \A j \in Ids : req'[j].where = "queue" <=> req[j].where = "queue" /\ j \notin {i}
    BY <1>4, <1>5
  <2>. QED  BY <1>1, <2>1, QueueShrinks
<1>17. Preparing'
  <2>1. \A j \in Ids : req[j].where = "queue" /\ req[j].frame = "none" => j = i
    BY DEF FlipInvariant, Preparing, i
  <2>2. \A j \in Ids : ~(req'[j].where = "queue" /\ req'[j].frame = "none")
    BY <1>4, <1>5, <2>1
  <2>. QED  BY <1>10, <2>2 DEF Preparing
<1>18. Picked' = Picked /\ \A j \in Ids : j \in Picked => j # i /\ req'[j] = req[j]
  <2>1. \A j \in Ids : req'[j].state = req[j].state
    BY <1>2, <1>4, <1>5
  <2>. QED  BY <1>2, <1>5, <2>1 DEF Picked
<1>19. PickedStayListed'
  BY <1>1, <1>7, <1>14, <1>18, PickedStay
<1>20. Owned'
  <2>1. ASSUME NEW j \in Listed
        PROVE  (\/ Current(j) /\ req[j].master = port[req[j].port].master
                \/ Closing(req[j].port) /\ req[j].master = closer.master)'
    <3>1. j \in Ids /\ req[j].port \in Ports
      BY ListedIsUsed
    <3>2. req'[j].port = req[j].port /\ req'[j].master = req[j].master
      BY <1>7, <3>1 DEF SameFlip
    <3>. QED  BY <1>1, <1>9, <3>1, <3>2 DEF FlipInvariant, Owned, Closing
  <2>. QED  BY <1>14, <2>1 DEF Owned
<1>21. Closes'
  BY <1>1 DEF FlipInvariant, Closes
<1>22. DueIsCurrent'
  <2>1. \A j \in Picked : j \in Ids /\ req[j].port \in Ports
    BY DEF Picked, FlipInvariant, Lives, Life
  <2>. QED  BY <1>1, <1>9, <1>18, <2>1 DEF FlipInvariant, DueIsCurrent
<1>23. Counted'
  BY <1>1, <1>7, <1>13, <1>14, ClosedAreNotCounted DEF p
<1>24. FramesAreSettled'
  <2>1. \A j \in Ids : j # i => req'[j] = req[j]
    BY <1>5
  <2>. QED  BY <1>1, <1>4, <1>5, <1>18, <2>1 DEF FlipInvariant, FramesAreSettled
<1>. QED  BY <1>9, <1>11, <1>15, <1>16, <1>17, <1>19, <1>20, <1>21, <1>22, <1>23, <1>24 DEF FlipInvariant

\* A request that is dropped leaves the lists; the GPU thread may still be drawing it.
LEMMA DroppedIs ==
    ASSUME NEW r \in RequestRecord, Life(r), r.where \in {"queue", "cpu"},
           r.state # "Presenting"
    PROVE  /\ Dropped(r) \in RequestRecord /\ Life(Dropped(r))
           /\ Dropped(r).port = r.port /\ Dropped(r).master = r.master
           /\ Dropped(r).generation = r.generation /\ Dropped(r).source = r.source
           /\ Dropped(r).group = r.group
           /\ Dropped(r).where \in {"gone", "cancelled"} /\ Dropped(r).state # "Presenting"
           /\ Dropped(r).where = "gone" => Dropped(r).frame = "discarded"
           /\ Dropped(r).where = "cancelled" => Dropped(r).frame \in {"none", "drawn"}
           /\ r.state \in {"Reserved", "Recording"} =>
                Dropped(r).state = r.state /\ Dropped(r).frame = r.frame
<1>1. r.state \in {"Reserved", "Recording", "Ready"}
  BY DEF Life, RequestRecord, RequestState
<1>2. CASE r.state = "Ready"
  BY <1>2 DEF Dropped, Life, RequestRecord, RequestState
<1>3. CASE r.state \in {"Reserved", "Recording"}
  <2>1. Dropped(r) = [r EXCEPT !.where = "cancelled"]
    BY <1>3 DEF Dropped
  <2>2. r.frame \in {"none", "drawn"}
    BY <1>3 DEF Life
  <2>. QED  BY <1>3, <2>1, <2>2 DEF Life, RequestRecord
<1>. QED  BY <1>1, <1>2, <1>3

\* What the GPU thread works on, while others do what does not concern it.
LEMMA GpuUndisturbed ==
    ASSUME FlipInvariant, gpu'.id = gpu.id,
           \/ gpu'.at = gpu.at
           \/ gpu.at = "asleep" /\ gpu'.at = "awake",
           \A p \in Ports : port'[p].generation = port[p].generation,
           \A i \in Ids : req[i].state \in {"Reserved", "Recording"} =>
               /\ req'[i].state = req[i].state /\ req'[i].frame = req[i].frame
               /\ req'[i].generation = req[i].generation /\ req'[i].port = req[i].port,
           \A i \in Ids : req'[i].where = "queue" /\ req'[i].frame = "none" =>
               req[i].where = "queue" /\ req[i].frame = "none"
    PROVE  Preparing'
<1>1. \A i \in Ids : req[i].state \in {"Reserved", "Recording"} => req[i].port \in Ports
  BY DEF FlipInvariant, Lives, Life
<1>2. gpu.at \in {"prepare", "look", "draw", "stale"} => gpu'.at = gpu.at
  OBVIOUS
<1>3. gpu'.at \in {"prepare", "look", "draw", "stale"} => gpu'.at = gpu.at
  OBVIOUS
<1>4. gpu'.at \in {"prepare", "look", "draw", "stale"} =>
        /\ gpu.id \in Ids
        /\ gpu'.at = "prepare" => req'[gpu.id].state = "Reserved"
        /\ gpu'.at \in {"look", "draw", "stale"} =>
            req'[gpu.id].state = "Recording" /\ req'[gpu.id].frame = "none"
  BY <1>3 DEF FlipInvariant, Preparing
<1>5. gpu'.at = "stale" => req'[gpu.id].generation < port'[req'[gpu.id].port].generation
  BY <1>1, <1>3 DEF FlipInvariant, Preparing
<1>6. gpu'.at \in {"idle", "asleep", "awake"} => gpu.id = 0
  BY DEF FlipInvariant, Preparing
<1>7. \A i \in Ids : req'[i].where = "queue" /\ req'[i].frame = "none" => gpu.id = i
  BY DEF FlipInvariant, Preparing
<1>. QED  BY <1>4, <1>5, <1>6, <1>7 DEF Preparing

\* A Close takes every request of its port out of the lists, none of which the
\* present thread has, and none of which another request follows.
LEMMA CancelKeeps ==
    ASSUME FlipInvariant, Cancel
    PROVE  FlipInvariant'
<1> DEFINE p == closer.port
           out == ListedOf(p)
<1>1. /\ closer.at = "cancel" /\ NotPresenting(p)
      /\ req' = [i \in Ids |-> IF i \in out THEN Dropped(req[i]) ELSE req[i]]
      /\ queue' = Without(out) /\ gpu' = Woken({"done", "slot"})
      /\ closer' = [closer EXCEPT !.at = "reset"]
      /\ UNCHANGED <<port, next, present>>
  BY DEF Cancel
<1>2. p \in Ports /\ ~port[p].opened /\ Closing(p)
  BY <1>1 DEF FlipInvariant, Closes, Closing
<1>3. Types
  BY DEF FlipInvariant
<1>4. /\ closer' \in CloserRecord /\ closer'.at = "reset"
      /\ closer'.port = p /\ closer'.master = closer.master
  BY <1>1, <1>3 DEF Types, CloserRecord
<1>5. \A i \in Ids : i \in out <=> i \in Listed /\ req[i].port = p
  BY DEF ListedOf
<1>6. out \subseteq Listed /\ Listed \subseteq Ids
  BY DEF ListedOf, Listed
<1> HIDE DEF out
<1>7. \A i \in Ids : i \notin out => req'[i] = req[i]
  BY <1>1
<1>8. \A i \in Ids : req[i] \in RequestRecord /\ Life(req[i])
  BY <1>3, RequestFields DEF FlipInvariant, Lives
<1>9. ASSUME NEW i \in out
      PROVE  /\ i \in Ids /\ i \in Listed /\ req[i].port = p /\ i \notin Picked
             /\ req'[i] \in RequestRecord /\ Life(req'[i])
             /\ SameFlip(i) /\ req'[i].group = req[i].group
             /\ req'[i].where \in {"gone", "cancelled"} /\ req'[i].state # "Presenting"
             /\ req'[i].where = "gone" => req'[i].frame = "discarded"
             /\ req'[i].where = "cancelled" => req'[i].frame \in {"none", "drawn"}
             /\ req[i].state \in {"Reserved", "Recording"} =>
                  req'[i].state = req[i].state /\ req'[i].frame = req[i].frame
  <2>1. i \in Ids /\ i \in Listed /\ req[i].port = p
    BY <1>5, <1>6
  <2>2. req[i].where \in {"queue", "cpu"}
    BY <2>1 DEF Listed
  <2>3. req[i].state # "Presenting" /\ i \notin Picked
    BY <1>1, <2>1 DEF NotPresenting, Picked
  <2>4. req'[i] = Dropped(req[i])
    BY <1>1, <2>1
  <2>5. req[i] \in RequestRecord /\ Life(req[i])
    BY <1>8, <2>1
  <2>. QED  BY <2>1, <2>2, <2>3, <2>4, <2>5, DroppedIs DEF SameFlip
<1>10. req' \in [Ids -> RequestRecord]
  <2>1. \A i \in Ids : req'[i] \in RequestRecord
    BY <1>7, <1>8, <1>9
  <2>. QED  BY <1>1, <2>1
<1>11. \A i \in Ids : SameFlip(i) /\ req'[i].group = req[i].group /\ Life(req'[i])
  <2>1. \A i \in Ids : i \notin out => SameFlip(i) /\ req'[i].group = req[i].group /\ Life(req'[i])
    BY <1>7, <1>8 DEF SameFlip
  <2>. QED  BY <1>9, <2>1
<1>12. Listed' = Listed \ out
  <2>1. \A i \in Ids : req'[i].where \in {"queue", "cpu"} <=> req[i].where \in {"queue", "cpu"} /\ i \notin out
    BY <1>7, <1>9
  <2>. QED  BY <2>1 DEF Listed
<1>13. \A q, m : Leaving(q, m)' <=> Leaving(q, m)
  BY <1>1, <1>4 DEF Leaving
<1>14. /\ Lives' /\ Generations' /\ Grouped'
       /\ \A i \in Ids : req[i].port \in Ports => (Current(i)' <=> Current(i))
  BY <1>1, <1>11, <1>13, SamePorts
<1>15. /\ gpu' \in GpuRecord /\ gpu'.id = gpu.id
       /\ \/ gpu'.at = gpu.at
          \/ gpu.at = "asleep" /\ gpu'.at = "awake"
  BY <1>1, <1>3, WokenIs
<1>16. Types'
  BY <1>1, <1>3, <1>4, <1>10, <1>15 DEF Types
<1>17. QueueMatches'
  <2>1. \A i \in Ids : req'[i].where = "queue" <=> req[i].where = "queue" /\ i \notin out
    BY <1>7, <1>9
  <2>. QED  BY <1>1, <2>1, QueueShrinks
<1>18. Preparing'
  <2>1. \A i \in Ids : req[i].state \in {"Reserved", "Recording"} =>
            /\ req'[i].state = req[i].state /\ req'[i].frame = req[i].frame
            /\ req'[i].generation = req[i].generation /\ req'[i].port = req[i].port
    BY <1>7, <1>9, <1>11 DEF SameFlip
  <2>2. \A i \in Ids : req'[i].where = "queue" /\ req'[i].frame = "none" =>
            req[i].where = "queue" /\ req[i].frame = "none"
    BY <1>7, <1>9
  <2>. QED  BY <1>1, <1>15, <2>1, <2>2, GpuUndisturbed
<1>19. GroupsAreWhole'
  <2>1. ASSUME NEW j \in Listed \ out, req[j].group \in out
        PROVE  FALSE
    BY <1>2, <1>9, <2>1, NobodyFollows
  <2>. QED  BY <1>11, <1>12, <2>1, GroupsShrink
<1>20. Picked' = Picked /\ \A i \in Ids : i \in Picked => i \notin out /\ req'[i] = req[i]
  <2>1. \A i \in Ids : req'[i].state = "Presenting" <=> req[i].state = "Presenting"
    BY <1>7, <1>9 DEF Picked
  <2>. QED  BY <1>7, <1>9, <2>1 DEF Picked
<1>21. PickedStayListed'
  BY <1>1, <1>11, <1>12, <1>20, PickedStay
<1>22. Owned'
  <2>1. ASSUME NEW j \in Listed \ out
        PROVE  Current(j)' /\ req'[j].master = port'[req'[j].port].master
    <3>1. j \in Ids /\ req[j].port \in Ports /\ req[j].port # p
      BY <1>5, <2>1, ListedIsUsed
    <3>2. Current(j) /\ req[j].master = port[req[j].port].master
      BY <3>1 DEF FlipInvariant, Owned, Closing
    <3>. QED  BY <1>1, <1>7, <1>14, <2>1, <3>1, <3>2
  <2>. QED  BY <1>12, <2>1 DEF Owned
<1>23. Closes'
  <2>1. closer' # NoCloser
    BY <1>4 DEF NoCloser
  <2>. QED  BY <1>1, <1>4, <2>1 DEF FlipInvariant, Closes
<1>24. DueIsCurrent'
  <2>1. \A j \in Picked : j \in Ids /\ req[j].port \in Ports
    BY DEF Picked, FlipInvariant, Lives, Life
  <2>. QED  BY <1>1, <1>14, <1>20, <2>1 DEF FlipInvariant, DueIsCurrent
<1>25. Counted'
  BY <1>1, <1>2, <1>9, <1>11, <1>12, ClosedAreNotCounted
<1>26. FramesAreSettled'
  <2>1. ASSUME NEW i \in Ids
        PROVE  /\ req'[i].where = "gone" => req'[i].frame # "drawn"
               /\ req'[i].frame = "discarded" => req'[i].where = "gone"
               /\ req'[i].frame = "shown" =>
                   req'[i].where = "gone" \/ (present.at = "locked" /\ present.due /\ i \in Picked)
    <3>1. CASE i \in out
      BY <1>9, <3>1
    <3>2. CASE i \notin out
      BY <1>7, <3>2 DEF FlipInvariant, FramesAreSettled
    <3>. QED  BY <3>1, <3>2
  <2>. QED  BY <1>1, <1>20, <2>1 DEF FramesAreSettled
<1>. QED  BY <1>14, <1>16, <1>17, <1>18, <1>19, <1>21, <1>22, <1>23, <1>24, <1>25, <1>26
          DEF FlipInvariant

\* Counting what is left of some requests when some of them leave.
LEMMA CountRest ==
    ASSUME NEW S \in SUBSET Ids, NEW T \in SUBSET S
    PROVE  /\ Cardinality(S \ T) = Cardinality(S) - Cardinality(T)
           /\ FromGpu(S \ T) = FromGpu(S) - FromGpu(T)
           /\ Cardinality(S) \in Nat /\ Cardinality(T) \in Nat /\ Cardinality(S \ T) \in Nat
           /\ FromGpu(S) \in Nat /\ FromGpu(T) \in Nat /\ FromGpu(S \ T) \in Nat
           /\ FromGpu(S) <= Cardinality(S)
<1> DEFINE gpus(U) == {i \in U : req[i].source = "GpuEop"}
<1>1. /\ gpus(S \ T) = gpus(S) \ gpus(T) /\ gpus(T) \subseteq gpus(S)
      /\ gpus(S) \in SUBSET S
  OBVIOUS
<1>2. \A U : FromGpu(U) = Cardinality(gpus(U))
  BY DEF FromGpu
<1> HIDE DEF gpus
<1>3. /\ IsFiniteSet(S) /\ IsFiniteSet(gpus(S)) /\ IsFiniteSet(gpus(T))
      /\ T \in SUBSET Ids /\ S \ T \in SUBSET Ids
      /\ gpus(S) \in SUBSET Ids /\ gpus(T) \in SUBSET Ids /\ gpus(S \ T) \in SUBSET Ids
  <2>1. /\ T \in SUBSET Ids /\ S \ T \in SUBSET Ids
        /\ gpus(S) \in SUBSET Ids /\ gpus(T) \in SUBSET Ids /\ gpus(S \ T) \in SUBSET Ids
    BY <1>1
  <2>. QED  BY <2>1, Sizes
<1>4. S \cap T = T /\ gpus(S) \cap gpus(T) = gpus(T)
  BY <1>1
<1>5. Cardinality(S \ T) = Cardinality(S) - Cardinality(T)
  <2>1. Cardinality(S \ T) = Cardinality(S) - Cardinality(S \cap T)
    BY <1>3, FS_Difference
  <2>. QED  BY <1>4, <2>1
<1>6. FromGpu(S \ T) = FromGpu(S) - FromGpu(T)
  <2>1. Cardinality(gpus(S) \ gpus(T)) = Cardinality(gpus(S)) - Cardinality(gpus(S) \cap gpus(T))
    BY <1>3, FS_Difference
  <2>. QED  BY <1>1, <1>2, <1>4, <2>1
<1>7. FromGpu(S) <= Cardinality(S)
  BY <1>1, <1>2, <1>3, FS_Subset
<1>. QED  BY <1>2, <1>3, <1>5, <1>6, <1>7, Sizes

\* The group that was shown leaves as a whole; one that was not due stays as it was.
LEMMA FinishKeeps ==
    ASSUME FlipInvariant, Finish
    PROVE  FlipInvariant'
<1> DEFINE done == IF present.due THEN {i \in Listed : req[i].group = present.group} ELSE {}
           of(p) == {i \in done : req[i].port = p}
<1>1. /\ present.at = "locked"
      /\ req' = [i \in Ids |->
                   IF i \in done THEN [req[i] EXCEPT !.where = "gone", !.state = "None"]
                   ELSE IF i \in Picked THEN [req[i] EXCEPT !.state = "Ready"] ELSE req[i]]
      /\ queue' = Without(done)
      /\ port' = [p \in Ports |-> [port[p] EXCEPT !.pending = @ - Cardinality(of(p)),
                                                  !.gc = @ - FromGpu(of(p))]]
      /\ present' = [at |-> "vblank", group |-> 0, due |-> FALSE]
      /\ gpu' = Woken({"done", "slot"})
      /\ UNCHANGED <<next, closer>>
  BY DEF Finish
<1>2. Types /\ Picked \subseteq Ids /\ Listed \subseteq Ids
  BY DEF FlipInvariant, Picked, Listed
<1>3. /\ Picked = Members(present.group)
      /\ \A i \in Picked : req[i].where = "queue" /\ req[i].frame \in {"drawn", "shown"}
  BY <1>1 DEF FlipInvariant, PickedStayListed
<1>4. /\ present.due => done = Picked
      /\ ~present.due => done = {}
      /\ done \subseteq Picked /\ done \subseteq Listed
  BY <1>3 DEF Members
<1>5. \A i \in done : Current(i) /\ req[i].frame = "shown"
  BY <1>1, <1>4 DEF FlipInvariant, DueIsCurrent
<1>6. \A i \in Picked : i \notin done => req[i].frame = "drawn"
  <2>1. ASSUME NEW i \in Picked, i \notin done
        PROVE  req[i].frame = "drawn"
    <3>1. ~present.due
      BY <1>4, <2>1
    <3>2. req[i].frame # "shown"
      BY <1>2, <1>3, <3>1 DEF FlipInvariant, FramesAreSettled
    <3>. QED  BY <1>3, <3>2
  <2>. QED  BY <2>1
<1>7. \A p, i : i \in of(p) <=> i \in done /\ req[i].port = p
  BY Zenon
<1> HIDE DEF done, of
<1>8. \A i \in Ids : req[i] \in RequestRecord /\ Life(req[i])
  BY <1>2, RequestFields DEF FlipInvariant, Lives
<1>9. ASSUME NEW i \in Ids, i \in done
      PROVE  /\ req'[i] \in RequestRecord /\ Life(req'[i])
             /\ SameFlip(i) /\ req'[i].group = req[i].group
             /\ req'[i].where = "gone" /\ req'[i].state = "None" /\ req'[i].frame = "shown"
  <2>1. req'[i] = [req[i] EXCEPT !.where = "gone", !.state = "None"]
    BY <1>1, <1>9
  <2>2. req[i] \in RequestRecord /\ req[i].frame = "shown" /\ req[i].where = "queue"
    BY <1>3, <1>4, <1>5, <1>8, <1>9
  <2>. QED  BY <2>1, <2>2 DEF SameFlip, RequestRecord, RequestState, Life
<1>10. ASSUME NEW i \in Ids, i \in Picked, i \notin done
       PROVE  /\ req'[i] \in RequestRecord /\ Life(req'[i])
              /\ SameFlip(i) /\ req'[i].group = req[i].group
              /\ req'[i].where = "queue" /\ req'[i].state = "Ready" /\ req'[i].frame = "drawn"
  <2>1. req'[i] = [req[i] EXCEPT !.state = "Ready"]
    BY <1>1, <1>10
  <2>2. req[i] \in RequestRecord /\ req[i].frame = "drawn" /\ req[i].where = "queue"
    BY <1>3, <1>6, <1>8, <1>10
  <2>. QED  BY <2>1, <2>2 DEF SameFlip, RequestRecord, RequestState, Life
<1>11. \A i \in Ids : i \notin Picked => req'[i] = req[i] /\ i \notin done
  BY <1>1, <1>4
<1>12. req' \in [Ids -> RequestRecord]
  <2>1. \A i \in Ids : req'[i] \in RequestRecord
    BY <1>8, <1>9, <1>10, <1>11
  <2>. QED  BY <1>1, <2>1
<1>13. \A i \in Ids : SameFlip(i) /\ req'[i].group = req[i].group /\ Life(req'[i])
  <2>1. \A i \in Ids : i \notin Picked => SameFlip(i) /\ req'[i].group = req[i].group /\ Life(req'[i])
    BY <1>8, <1>11 DEF SameFlip
  <2>. QED  BY <1>9, <1>10, <2>1
<1>14. Listed' = Listed \ done
  <2>1. \A i \in Ids : req'[i].where \in {"queue", "cpu"} <=> req[i].where \in {"queue", "cpu"} /\ i \notin done
    BY <1>3, <1>9, <1>10, <1>11
  <2>. QED  BY <2>1 DEF Listed
<1>15. Picked' = {}
  <2>1. \A i \in Ids : req'[i].state # "Presenting"
    BY <1>9, <1>10, <1>11 DEF Picked
  <2>. QED  BY <2>1 DEF Picked
<1>16. ASSUME NEW p \in Ports
       PROVE  /\ of(p) \in SUBSET ListedOf(p) /\ ListedOf(p) \in SUBSET Ids
              /\ ListedOf(p)' = ListedOf(p) \ of(p)
              /\ FromGpu(ListedOf(p))' = FromGpu(ListedOf(p) \ of(p))
              /\ Cardinality(of(p)) \in Nat /\ FromGpu(of(p)) \in Nat
  <2>1. of(p) \in SUBSET ListedOf(p) /\ ListedOf(p) \in SUBSET Ids
    BY <1>2, <1>4, <1>7 DEF ListedOf
  <2>2. \A i \in Ids : req'[i].port = req[i].port /\ req'[i].source = req[i].source
    BY <1>13 DEF SameFlip
  <2>3. ListedOf(p)' = ListedOf(p) \ of(p)
    BY <1>2, <1>7, <1>14, <2>2 DEF ListedOf
  <2>4. {i \in ListedOf(p) \ of(p) : req'[i].source = "GpuEop"}
            = {i \in ListedOf(p) \ of(p) : req[i].source = "GpuEop"}
    BY <2>1, <2>2
  <2>5. FromGpu(ListedOf(p))' = FromGpu(ListedOf(p) \ of(p))
    BY <2>3, <2>4 DEF FromGpu
  <2>. QED  BY <2>1, <2>3, <2>5, CountRest
<1>17. ASSUME NEW p \in Ports
       PROVE  /\ port'[p] \in PortRecord
              /\ port'[p].opened = port[p].opened /\ port'[p].generation = port[p].generation
              /\ port'[p].master = port[p].master /\ port'[p].slaves = port[p].slaves
              /\ port'[p].pending = port[p].pending - Cardinality(of(p))
              /\ port'[p].gc = port[p].gc - FromGpu(of(p))
  <2>1. port'[p] = [port[p] EXCEPT !.pending = @ - Cardinality(of(p)), !.gc = @ - FromGpu(of(p))]
    BY <1>1
  <2>2. port[p] \in PortRecord /\ port[p].pending \in 0 .. Capacity /\ port[p].gc \in 0 .. Capacity
    BY <1>2, PortFields
  <2>3. Cardinality(of(p)) <= port[p].pending /\ FromGpu(of(p)) <= port[p].gc
    <3>1. CASE of(p) = {}
      <4>1. {i \in of(p) : req[i].source = "GpuEop"} = {}
        BY <3>1
      <4>2. Cardinality(of(p)) = 0 /\ FromGpu(of(p)) = 0
        BY <3>1, <4>1, FS_EmptySet DEF FromGpu
      <4>. QED  BY <2>2, <4>2
    <3>2. CASE of(p) # {}
      <4>1. port[p].opened
        BY <1>5, <1>7, <3>2 DEF Current
      <4>2. port[p].pending = Cardinality(ListedOf(p)) /\ port[p].gc = FromGpu(ListedOf(p))
        BY <4>1 DEF FlipInvariant, Counted
      <4>3. /\ Cardinality(ListedOf(p) \ of(p)) = Cardinality(ListedOf(p)) - Cardinality(of(p))
            /\ FromGpu(ListedOf(p) \ of(p)) = FromGpu(ListedOf(p)) - FromGpu(of(p))
            /\ Cardinality(ListedOf(p) \ of(p)) \in Nat /\ FromGpu(ListedOf(p) \ of(p)) \in Nat
        BY <1>16, CountRest
      <4>. QED  BY <1>16, <2>2, <4>2, <4>3
    <3>. QED  BY <3>1, <3>2
  <2>4. /\ port[p].pending - Cardinality(of(p)) \in 0 .. Capacity
        /\ port[p].gc - FromGpu(of(p)) \in 0 .. Capacity
    <3>1. Capacity \in Nat
      BY Sizes
    <3>2. Cardinality(of(p)) \in Nat /\ FromGpu(of(p)) \in Nat
      BY <1>16
    <3>. QED  BY <2>2, <2>3, <3>1, <3>2
  <2>. QED  BY <2>1, <2>2, <2>4 DEF PortRecord
<1>18. port' \in [Ports -> PortRecord]
  BY <1>1, <1>17
<1>19. \A q, m : Leaving(q, m)' <=> Leaving(q, m)
  BY <1>1 DEF Leaving
<1>20. /\ Lives' /\ Generations' /\ Grouped'
       /\ \A i \in Ids : req[i].port \in Ports => (Current(i)' <=> Current(i))
  BY <1>1, <1>13, <1>17, <1>19, SamePorts
<1>21. /\ gpu' \in GpuRecord /\ gpu'.id = gpu.id
       /\ \/ gpu'.at = gpu.at
          \/ gpu.at = "asleep" /\ gpu'.at = "awake"
  BY <1>1, <1>2, WokenIs
<1>22. Types'
  <2>1. present' \in [at : {"vblank", "flip", "picked", "locked"}, group : 0 .. MaxRequests,
                      due : BOOLEAN]
    <3>1. 0 \in 0 .. MaxRequests
      BY Sizes
    <3>. QED  BY <1>1, <3>1
  <2>. QED  BY <1>1, <1>2, <1>12, <1>18, <1>21, <2>1 DEF Types
<1>23. QueueMatches'
  <2>1. \A i \in Ids : req'[i].where = "queue" <=> req[i].where = "queue" /\ i \notin done
    BY <1>3, <1>9, <1>10, <1>11
  <2>. QED  BY <1>1, <2>1, QueueShrinks
<1>24. Preparing'
  <2>1. \A i \in Ids : req[i].state \in {"Reserved", "Recording"} => req'[i] = req[i]
    BY <1>11 DEF Picked
  <2>2. \A i \in Ids : req'[i].where = "queue" /\ req'[i].frame = "none" =>
            req[i].where = "queue" /\ req[i].frame = "none"
    BY <1>9, <1>10, <1>11
  <2>. QED  BY <1>17, <1>21, <2>1, <2>2, GpuUndisturbed
<1>25. GroupsAreWhole'
  <2>1. ASSUME NEW j \in Listed \ done, req[j].group \in done
        PROVE  FALSE
    <3> DEFINE g == req[j].group
    <3>1. g \in Picked /\ g \in Ids /\ done = Picked
      BY <1>2, <1>4, <2>1
    <3>2. g # 0 /\ g # j
      BY <2>1, <3>1, IdsAreNumbers
    <3>3. req[g].group = g
      BY <2>1, <3>2 DEF FlipInvariant, GroupsAreWhole
    <3>4. req[g].group = present.group
      BY <1>3, <3>1 DEF Members
    <3>5. j \in Picked
      BY <1>3, <2>1, <3>3, <3>4 DEF Members
    <3>. QED  BY <2>1, <3>1, <3>5
  <2>. QED  BY <1>13, <1>14, <2>1, GroupsShrink
<1>26. PickedStayListed' /\ DueIsCurrent'
  BY <1>1, <1>15 DEF PickedStayListed, DueIsCurrent
<1>27. Owned'
  <2>1. ASSUME NEW j \in Listed
        PROVE  (\/ Current(j) /\ req[j].master = port[req[j].port].master
                \/ Closing(req[j].port) /\ req[j].master = closer.master)'
    <3>1. j \in Ids /\ req[j].port \in Ports
      BY ListedIsUsed
    <3>2. req'[j].port = req[j].port /\ req'[j].master = req[j].master
      BY <1>13, <3>1 DEF SameFlip
    <3>3. /\ Current(j)' <=> Current(j)
          /\ port'[req[j].port].master = port[req[j].port].master
      BY <1>17, <1>20, <3>1
    <3>4. \/ Current(j) /\ req[j].master = port[req[j].port].master
          \/ Closing(req[j].port) /\ req[j].master = closer.master
      BY DEF FlipInvariant, Owned
    <3>. QED  BY <1>1, <3>2, <3>3, <3>4 DEF Closing
  <2>. QED  BY <1>14, <2>1 DEF Owned
<1>28. Closes'
  BY <1>1, <1>17 DEF FlipInvariant, Closes
<1>29. Counted'
  <2>1. ASSUME NEW p \in Ports, port'[p].opened
        PROVE  /\ port'[p].pending = Cardinality(ListedOf(p)')
               /\ port'[p].gc = FromGpu(ListedOf(p))'
    <3>1. port[p].pending = Cardinality(ListedOf(p)) /\ port[p].gc = FromGpu(ListedOf(p))
      BY <1>17, <2>1 DEF FlipInvariant, Counted
    <3>. QED  BY <1>16, <1>17, <3>1, CountRest
  <2>. QED  BY <2>1 DEF Counted
<1>30. FramesAreSettled'
  <2>1. ASSUME NEW i \in Ids
        PROVE  /\ req'[i].where = "gone" => req'[i].frame # "drawn"
               /\ req'[i].frame = "discarded" => req'[i].where = "gone"
               /\ req'[i].frame = "shown" => req'[i].where = "gone"
    <3>1. CASE i \in Picked
      BY <1>9, <1>10, <3>1
    <3>2. CASE i \notin Picked
      BY <1>11, <3>2 DEF FlipInvariant, FramesAreSettled
    <3>. QED  BY <3>1, <3>2
  <2>. QED  BY <2>1 DEF FramesAreSettled
<1>. QED  BY <1>20, <1>22, <1>23, <1>24, <1>25, <1>26, <1>27, <1>28, <1>29, <1>30
          DEF FlipInvariant

--------------------------------------------------------------------------------
(* The other steps of the present thread                                   *)

PresentRecord ==
    [at : {"vblank", "flip", "picked", "locked"}, group : 0 .. MaxRequests, due : BOOLEAN]

\* Between two groups the present thread holds nothing.
LEMMA PresentRests ==
    ASSUME FlipInvariant, UNCHANGED <<port, req, next, queue, gpu, closer>>,
           present' \in PresentRecord,
           present.at \in {"vblank", "flip"}, present'.at \in {"vblank", "flip"}
    PROVE  FlipInvariant'
<1>1. Picked = {} /\ Picked' = {}
  BY DEF FlipInvariant, PickedStayListed, Picked
<1>2. Types' /\ QueueMatches' /\ Lives' /\ Generations' /\ Preparing'
  BY DEF FlipInvariant, Types, PresentRecord, QueueMatches, Lives, Life, Generations, Preparing
<1>3. Listed' = Listed
  BY DEF Listed
<1>4. \A p : ListedOf(p)' = ListedOf(p)
  BY <1>3 DEF ListedOf
<1>5. Owned' /\ Counted' /\ GroupsAreWhole'
  BY <1>3, <1>4 DEF FlipInvariant, Owned, Current, Closing, Counted, FromGpu, GroupsAreWhole
<1>6. Grouped' /\ Closes'
  BY DEF FlipInvariant, Grouped, Slaves, Leaving, Closes
<1>7. PickedStayListed' /\ DueIsCurrent'
  BY <1>1 DEF PickedStayListed, DueIsCurrent
<1>8. FramesAreSettled'
  BY DEF FlipInvariant, FramesAreSettled
<1>. QED  BY <1>2, <1>5, <1>6, <1>7, <1>8 DEF FlipInvariant

LEMMA VblankKeeps ==
    ASSUME FlipInvariant, Vblank
    PROVE  FlipInvariant'
<1>1. present \in PresentRecord
  BY DEF FlipInvariant, Types, PresentRecord
<1>2. /\ present.at = "vblank" /\ present' = [present EXCEPT !.at = "flip"]
      /\ UNCHANGED <<port, req, next, queue, gpu, closer>>
  BY DEF Vblank
<1>3. present' \in PresentRecord /\ present'.at = "flip"
  BY <1>1, <1>2 DEF PresentRecord
<1>. QED  BY <1>2, <1>3, PresentRests

\* What only the present thread does to the requests of the lists.
LEMMA OnlyShown ==
    ASSUME FlipInvariant, UNCHANGED <<port, next, queue, gpu, closer>>,
           req' \in [Ids -> RequestRecord], present' \in PresentRecord,
           \A i \in Ids :
               /\ SameFlip(i) /\ req'[i].group = req[i].group
               /\ req'[i].where = req[i].where /\ Life(req'[i])
               /\ req[i].state \in {"Reserved", "Recording"} => req'[i] = req[i]
               /\ req'[i].where = "queue" /\ req'[i].frame = "none" => req[i].frame = "none"
    PROVE  /\ Types' /\ QueueMatches' /\ Lives' /\ Preparing'
           /\ Generations' /\ Owned' /\ Grouped' /\ Closes' /\ Counted' /\ GroupsAreWhole'
           /\ \A i \in Ids : Current(i)' <=> Current(i)
           /\ \A g : Members(g)' = Members(g)
<1>1. Listed' = Listed
  BY DEF Listed
<1>2. /\ Generations' /\ Owned' /\ Grouped' /\ Closes' /\ Counted' /\ GroupsAreWhole'
      /\ \A i \in Ids : Current(i)' <=> Current(i)
      /\ \A g : Members(g)' = Members(g)
  BY <1>1, SameLists
<1>3. Types'
  BY DEF FlipInvariant, Types, PresentRecord
<1>4. QueueMatches'
  BY DEF FlipInvariant, QueueMatches
<1>5. Lives'
  BY DEF FlipInvariant, Lives, SameFlip, Life
<1>6. Preparing'
  BY GpuUndisturbed
<1>. QED  BY <1>2, <1>3, <1>4, <1>5, <1>6

\* A group is shown when each of its ports is still the one its flip was made for.
LEMMA ShowKeeps ==
    ASSUME FlipInvariant, NEW rate_allows \in BOOLEAN, Show(rate_allows)
    PROVE  FlipInvariant'
<1> DEFINE due == rate_allows /\ \A i \in Picked : Current(i)
<1>1. /\ present.at = "picked" /\ present' = [present EXCEPT !.at = "locked", !.due = due]
      /\ req' = [i \in Ids |-> IF due /\ i \in Picked
                               THEN [req[i] EXCEPT !.frame = "shown"] ELSE req[i]]
      /\ UNCHANGED <<port, next, queue, gpu, closer>>
  BY DEF Show
<1>2. Types /\ Picked \subseteq Ids
  BY DEF FlipInvariant, Picked
<1>3. /\ Picked = Members(present.group) /\ present.group \in Picked
      /\ \A i \in Picked : req[i].where = "queue" /\ req[i].frame \in {"drawn", "shown"}
  BY <1>1 DEF FlipInvariant, PickedStayListed
<1>4. due => \A i \in Picked : Current(i)
  OBVIOUS
<1>5. due \in BOOLEAN
  OBVIOUS
<1> HIDE DEF due
<1>6. /\ present' \in PresentRecord /\ present'.at = "locked" /\ present'.due = due
      /\ present'.group = present.group
  BY <1>1, <1>2, <1>5 DEF Types, PresentRecord
<1>7. \A i \in Ids : req[i] \in RequestRecord /\ Life(req[i])
  BY <1>2, RequestFields DEF FlipInvariant, Lives
<1>8. ASSUME NEW i \in Ids, i \in Picked, due
      PROVE  /\ req'[i] \in RequestRecord /\ Life(req'[i])
             /\ SameFlip(i) /\ req'[i].group = req[i].group /\ req'[i].where = "queue"
             /\ req'[i].state = "Presenting" /\ req'[i].frame = "shown"
  <2>1. req'[i] = [req[i] EXCEPT !.frame = "shown"]
    BY <1>1, <1>8
  <2>2. req[i] \in RequestRecord /\ req[i].where = "queue" /\ req[i].state = "Presenting"
    BY <1>3, <1>7, <1>8 DEF Picked
  <2>. QED  BY <2>1, <2>2 DEF SameFlip, RequestRecord, Life
<1>9. \A i \in Ids : ~(i \in Picked /\ due) => req'[i] = req[i]
  BY <1>1
<1>10. req' \in [Ids -> RequestRecord]
  <2>1. \A i \in Ids : req'[i] \in RequestRecord
    BY <1>7, <1>8, <1>9
  <2>. QED  BY <1>1, <2>1
<1>11. ASSUME NEW i \in Ids
       PROVE  /\ SameFlip(i) /\ req'[i].group = req[i].group
              /\ req'[i].where = req[i].where /\ Life(req'[i])
              /\ req'[i].state = req[i].state
              /\ req[i].state \in {"Reserved", "Recording"} => req'[i] = req[i]
              /\ req'[i].where = "queue" /\ req'[i].frame = "none" => req[i].frame = "none"
  <2>1. CASE i \in Picked /\ due
    BY <1>3, <1>8, <2>1 DEF Picked
  <2>2. CASE ~(i \in Picked /\ due)
    <3>1. req'[i] = req[i]
      BY <1>9, <2>2
    <3>. QED  BY <1>7, <3>1 DEF SameFlip
  <2>. QED  BY <2>1, <2>2
<1>12. /\ Types' /\ QueueMatches' /\ Lives' /\ Preparing'
       /\ Generations' /\ Owned' /\ Grouped' /\ Closes' /\ Counted' /\ GroupsAreWhole'
       /\ \A i \in Ids : Current(i)' <=> Current(i)
       /\ \A g : Members(g)' = Members(g)
  BY <1>1, <1>6, <1>10, <1>11, OnlyShown
<1>13. Picked' = Picked
  BY <1>11 DEF Picked
<1>14. PickedStayListed'
  <2>1. \A i \in Picked : req'[i].where = "queue" /\ req'[i].frame \in {"drawn", "shown"}
    BY <1>2, <1>3, <1>8, <1>9
  <2>. QED  BY <1>3, <1>6, <1>12, <1>13, <2>1 DEF PickedStayListed
<1>15. DueIsCurrent'
  BY <1>2, <1>4, <1>6, <1>8, <1>12, <1>13 DEF DueIsCurrent
<1>16. FramesAreSettled'
  <2>1. ASSUME NEW i \in Ids
        PROVE  /\ req'[i].where = "gone" => req'[i].frame # "drawn"
               /\ req'[i].frame = "discarded" => req'[i].where = "gone"
               /\ req'[i].frame = "shown" => req'[i].where = "gone" \/ (due /\ i \in Picked)
    <3>1. CASE i \in Picked /\ due
      BY <1>8, <3>1
    <3>2. CASE ~(i \in Picked /\ due)
      BY <1>1, <1>9, <3>2 DEF FlipInvariant, FramesAreSettled
    <3>. QED  BY <3>1, <3>2
  <2>. QED  BY <1>6, <1>13, <2>1 DEF FramesAreSettled
<1>. QED  BY <1>12, <1>14, <1>15, <1>16 DEF FlipInvariant

\* The first owner of the queue leads its group.
LEMMA OwnerIs ==
    ASSUME FlipInvariant, Owners # {}
    PROVE  Owner \in Ids /\ Owner \in Members(Owner)
<1> DEFINE first(n) == \A m \in Owners : n <= m
<1>1. /\ queue \in Seq(Ids) /\ Range(queue) = {i \in Ids : req[i].where = "queue"}
  BY DEF FlipInvariant, QueueMatches
<1>2. Owners \in SUBSET Nat /\ Owners \subseteq DOMAIN queue
  BY <1>1 DEF Owners
<1>3. PICK n \in Owners : \A m \in Owners : ~ (m < n)
  <2>1. IsWellFoundedOn(OpToRel(<, Nat), Nat)
    BY NatLessThanWellFounded
  <2>2. PICK n \in Owners : \A m \in Owners : ~ (<<m, n>> \in OpToRel(<, Nat))
    BY <1>2, <2>1, WFMin
  <2>. QED  BY <1>2, <2>2 DEF OpToRel
<1>4. first(n)
  BY <1>2, <1>3
<1> HIDE DEF first
<1>5. PICK o \in Owners : Owner = queue[o]
  BY <1>4 DEF Owner, first
<1>6. req[queue[o]].group = queue[o] /\ queue[o] \in Range(queue)
  BY <1>2, <1>5 DEF Owners, Range
<1>. QED  BY <1>1, <1>5, <1>6 DEF Members, Listed

\* All of a group is taken at once, and the group is whole from then on.
LEMMA PickKeeps ==
    ASSUME FlipInvariant, Pick
    PROVE  FlipInvariant'
<1>1. present.at = "flip" /\ UNCHANGED <<port, next, queue, gpu, closer>>
  BY DEF Pick
<1>2. CASE ~(Owners # {} /\ GroupReady(Owner))
  <2>1. present' = [at |-> "vblank", group |-> 0, due |-> FALSE] /\ req' = req
    BY <1>2 DEF Pick
  <2>2. 0 \in 0 .. MaxRequests
    BY Sizes
  <2>3. present' \in PresentRecord /\ present'.at = "vblank"
    BY <2>1, <2>2 DEF PresentRecord
  <2>. QED  BY <1>1, <2>1, <2>3, PresentRests
<1>3. CASE Owners # {} /\ GroupReady(Owner)
  <2> DEFINE g == Owner
             all == Members(g)
  <2>1. /\ present' = [at |-> "picked", group |-> g, due |-> FALSE]
        /\ req' = [i \in Ids |-> IF i \in all /\ req[i].where = "queue"
                                 THEN [req[i] EXCEPT !.state = "Presenting"] ELSE req[i]]
    BY <1>3 DEF Pick
  <2>2. g \in Ids /\ g \in all /\ all \subseteq Ids
    BY <1>3, OwnerIs DEF Members, Listed
  <2>3. \A i \in all : req[i].where = "queue" /\ req[i].state = "Ready"
    BY <1>3 DEF GroupReady
  <2>4. present' \in PresentRecord /\ present'.at = "picked" /\ present'.group = g
    <3>1. g \in 0 .. MaxRequests
      BY <2>2, IdsAreNumbers, Sizes
    <3>. QED  BY <2>1, <3>1 DEF PresentRecord
  <2>5. \A i \in Ids : req[i] \in RequestRecord /\ Life(req[i])
    BY RequestFields DEF FlipInvariant, Lives
  <2>6. \A i \in Ids : req[i].state # "Presenting"
    BY <1>1 DEF FlipInvariant, PickedStayListed, Picked
  <2> HIDE DEF g, all
  <2>7. ASSUME NEW i \in Ids, i \in all
        PROVE  /\ req'[i] \in RequestRecord /\ Life(req'[i])
               /\ SameFlip(i) /\ req'[i].group = req[i].group /\ req'[i].where = "queue"
               /\ req'[i].state = "Presenting"
               /\ req'[i].frame = "drawn" /\ req[i].frame = "drawn"
    <3>1. req'[i] = [req[i] EXCEPT !.state = "Presenting"]
      BY <2>1, <2>3, <2>7
    <3>2. req[i] \in RequestRecord /\ req[i].where = "queue" /\ req[i].frame = "drawn"
      BY <2>3, <2>5, <2>7 DEF Life
    <3>. QED  BY <3>1, <3>2 DEF SameFlip, RequestRecord, RequestState, Life
  <2>8. \A i \in Ids : i \notin all => req'[i] = req[i]
    BY <2>1
  <2>9. req' \in [Ids -> RequestRecord]
    <3>1. \A i \in Ids : req'[i] \in RequestRecord
      BY <2>5, <2>7, <2>8
    <3>. QED  BY <2>1, <3>1
  <2>10. ASSUME NEW i \in Ids
         PROVE  /\ SameFlip(i) /\ req'[i].group = req[i].group
                /\ req'[i].where = req[i].where /\ Life(req'[i])
                /\ req'[i].frame = req[i].frame
                /\ req'[i].state = "Presenting" <=> i \in all
                /\ req[i].state \in {"Reserved", "Recording"} => req'[i] = req[i]
    <3>1. CASE i \in all
      BY <2>3, <2>7, <3>1
    <3>2. CASE i \notin all
      <4>1. req'[i] = req[i]
        BY <2>8, <3>2
      <4>. QED  BY <2>5, <2>6, <3>2, <4>1 DEF SameFlip
    <3>. QED  BY <3>1, <3>2
  <2>11. /\ Types' /\ QueueMatches' /\ Lives' /\ Preparing'
         /\ Generations' /\ Owned' /\ Grouped' /\ Closes' /\ Counted' /\ GroupsAreWhole'
         /\ \A m : Members(m)' = Members(m)
    BY <1>1, <2>4, <2>9, <2>10, OnlyShown
  <2>12. Picked' = all
    BY <2>2, <2>10 DEF Picked
  <2>13. PickedStayListed'
    <3>1. Picked' = {i \in Listed' : req'[i].group = g}
      BY <2>11, <2>12 DEF all, Members
    <3>2. \A i \in all : req'[i].where = "queue" /\ req'[i].frame \in {"drawn", "shown"}
      BY <2>2, <2>7
    <3>. QED  BY <2>2, <2>4, <2>12, <3>1, <3>2 DEF PickedStayListed, Members
  <2>14. DueIsCurrent'
    BY <2>4 DEF DueIsCurrent
  <2>15. FramesAreSettled'
    BY <1>1, <2>10 DEF FlipInvariant, FramesAreSettled
  <2>. QED  BY <2>11, <2>13, <2>14, <2>15 DEF FlipInvariant
<1>. QED  BY <1>2, <1>3

--------------------------------------------------------------------------------
(* Submission                                                              *)

\* What is picked is in a group.
LEMMA PickedAreGrouped ==
    ASSUME FlipInvariant, NEW i \in Ids, i \in Picked
    PROVE  /\ Picked = Members(present.group) /\ present.group \in Picked
           /\ req[i].group = present.group /\ present.group \in Ids
           /\ present.group # 0 /\ present.group < next
<1>1. Picked = Members(present.group) /\ present.group \in Picked
  BY DEF FlipInvariant, PickedStayListed
<1>2. present.group \in Ids /\ req[present.group].where = "queue"
  BY <1>1 DEF FlipInvariant, PickedStayListed, Picked
<1>3. ~(present.group >= next)
  BY <1>2 DEF FlipInvariant, Lives
<1>4. next \in Int /\ present.group \in Int
  BY <1>2, IdsAreNumbers DEF FlipInvariant, Types
<1>. QED  BY <1>1, <1>2, <1>3, <1>4, IdsAreNumbers DEF Members

\* A flip of a port that is open is of the life it has now, with the master it has.
LEMMA ListedOfOpen ==
    ASSUME FlipInvariant, NEW p \in Ports, port[p].opened, NEW i \in ListedOf(p)
    PROVE  /\ i \in Ids /\ i \in Listed /\ req[i].port = p
           /\ Current(i) /\ req[i].master = port[p].master
<1>1. i \in Ids /\ i \in Listed /\ req[i].port = p
  BY DEF ListedOf, Listed
<1>2. ~Closing(p)
  BY DEF Closing, FlipInvariant, Closes
<1>. QED  BY <1>1, <1>2 DEF FlipInvariant, Owned

\* Which requests a new one replaces, and which it captures: never both, none of a
\* group, and none that is picked.
LEMMA ReserveFinds ==
    ASSUME FlipInvariant, NEW p \in Ports, port[p].opened, next \in Ids
    PROVE  /\ next \notin Listed /\ next \notin Picked /\ req[next].where = "unused"
           /\ Replaced(p) \in SUBSET ListedOf(p) /\ Captured(p) \in SUBSET Listed
           /\ Replaced(p) # {} => port[p].master # None
           /\ Captured(p) # {} => port[p].master = None
           /\ \A i \in Replaced(p) : req[i].group = 0 /\ i \notin Picked /\ i \notin Captured(p)
           /\ \A i \in Captured(p) : req[i].group = 0 /\ i \notin Picked
                                     /\ req[i].master = p /\ req[i].port # p
           /\ port[p].master # None =>
                \A i \in ListedOf(p) : req[i].group = 0 => i \in Replaced(p)
<1>1. req[next].where = "unused" /\ Life(req[next])
  BY IdsAreNumbers DEF FlipInvariant, Lives
<1>2. next \notin Listed /\ next \notin Picked
  BY <1>1 DEF Listed, Picked, Life
<1>3. /\ Replaced(p) \in SUBSET ListedOf(p) /\ Captured(p) \in SUBSET Listed
      /\ Replaced(p) # {} => port[p].master # None
      /\ \A i \in Replaced(p) : req[i].group = 0
      /\ \A i \in Captured(p) : req[i].group = 0 /\ req[i].master = p
      /\ port[p].master # None => \A i \in ListedOf(p) : req[i].group = 0 => i \in Replaced(p)
  BY DEF Replaced, Captured
<1>4. Captured(p) # {} => port[p].slaves # 0
  BY DEF Captured
<1>5. Captured(p) # {} => port[p].master = None
  BY <1>4 DEF FlipInvariant, Grouped
<1>6. \A i \in Ids : i \in Picked => req[i].group # 0
  BY PickedAreGrouped
<1>7. ASSUME NEW i \in Captured(p)
      PROVE  req[i].port # p
  <2>1. ASSUME req[i].port = p
        PROVE  FALSE
    <3>1. i \in ListedOf(p)
      BY <1>3, <1>7, <2>1 DEF ListedOf
    <3>2. port[p].master = p
      BY <1>3, <1>7, <3>1, ListedOfOpen
    <3>. QED  BY <3>2, Sizes DEF FlipInvariant, Grouped
  <2>. QED  BY <2>1
<1>8. Listed \subseteq Ids /\ ListedOf(p) \subseteq Ids
  BY DEF Listed, ListedOf
<1>. QED  BY <1>1, <1>2, <1>3, <1>5, <1>6, <1>7, <1>8

\* What becomes of each request when a flip is submitted.
LEMMA ReserveIs ==
    ASSUME FlipInvariant, NEW p \in Ports, NEW source \in Sources, Reserve(p, source)
    PROVE  /\ next \in Ids /\ port[p].opened
           /\ req' \in [Ids -> RequestRecord]
           /\ req'[next].port = p /\ req'[next].master = port[p].master
           /\ req'[next].generation = port[p].generation /\ req'[next].source = source
           /\ req'[next].group = IF port[p].master = None THEN next ELSE 0
           /\ req'[next].state = "Reserved" /\ req'[next].frame = "none"
           /\ req'[next].where = IF source = "GpuEop" THEN "queue" ELSE "cpu"
           /\ Life(req'[next])
           /\ \A i \in Replaced(p) :
                /\ SameFlip(i) /\ Life(req'[i]) /\ req'[i].group = 0
                /\ req'[i].where \in {"gone", "cancelled"} /\ req'[i].state # "Presenting"
                /\ req'[i].where = "gone" => req'[i].frame = "discarded"
                /\ req'[i].where = "cancelled" => req'[i].frame \in {"none", "drawn"}
                /\ req[i].state \in {"Reserved", "Recording"} =>
                     req'[i].state = req[i].state /\ req'[i].frame = req[i].frame
           /\ \A i \in Captured(p) :
                /\ SameFlip(i) /\ Life(req'[i]) /\ req'[i].group = next
                /\ req'[i].where = req[i].where /\ req'[i].state = req[i].state
                /\ req'[i].frame = req[i].frame
           /\ \A i \in Ids \ {next} :
                i \notin Replaced(p) /\ i \notin Captured(p) => req'[i] = req[i]
           /\ Listed' = (Listed \ Replaced(p)) \cup {next}
<1> DEFINE n == next
           rep == Replaced(p)
           cap == Captured(p)
           new == Request(p, source, IF port[p].master = None THEN n ELSE 0)
<1>1. /\ n \in Ids /\ port[p].opened
      /\ req' = [i \in Ids |->
                   IF i = n THEN new
                   ELSE IF i \in rep THEN Dropped(req[i])
                   ELSE IF i \in cap THEN [req[i] EXCEPT !.group = n]
                   ELSE req[i]]
  BY DEF Reserve
<1>2. Types /\ Listed \subseteq Ids /\ ListedOf(p) \subseteq Ids /\ ListedOf(p) \subseteq Listed
  BY DEF FlipInvariant, Listed, ListedOf
<1>3. /\ n \notin Listed /\ n \notin Picked
      /\ rep \in SUBSET ListedOf(p) /\ cap \in SUBSET Listed
      /\ \A i \in rep : req[i].group = 0 /\ i \notin Picked /\ i \notin cap
  BY <1>1, ReserveFinds
<1>4. \A i \in Ids : req[i] \in RequestRecord /\ Life(req[i])
  BY <1>2, RequestFields DEF FlipInvariant, Lives
<1>5. n \in 0 .. MaxRequests /\ 0 \in 0 .. MaxRequests
  BY <1>1, IdsAreNumbers, Sizes
<1>6. /\ new \in RequestRecord
      /\ new.port = p /\ new.master = port[p].master /\ new.generation = port[p].generation
      /\ new.source = source /\ new.group = IF port[p].master = None THEN n ELSE 0
      /\ new.state = "Reserved" /\ new.frame = "none"
      /\ new.where = IF source = "GpuEop" THEN "queue" ELSE "cpu"
  <2>1. port[p].master \in Ports \cup {None} /\ port[p].generation \in Nat
    BY <1>2, PortFields
  <2>. QED  BY <1>5, <2>1 DEF Request, RequestRecord, RequestState
<1> HIDE DEF new, rep, cap
<1>7. Life(new)
  BY <1>6 DEF Life
<1>8. req'[n] = new
  BY <1>1
<1>9. ASSUME NEW i \in rep
      PROVE  /\ i \in Ids /\ i # n
             /\ req'[i] \in RequestRecord
             /\ SameFlip(i) /\ Life(req'[i]) /\ req'[i].group = 0
             /\ req'[i].where \in {"gone", "cancelled"} /\ req'[i].state # "Presenting"
             /\ req'[i].where = "gone" => req'[i].frame = "discarded"
             /\ req'[i].where = "cancelled" => req'[i].frame \in {"none", "drawn"}
             /\ req[i].state \in {"Reserved", "Recording"} =>
                  req'[i].state = req[i].state /\ req'[i].frame = req[i].frame
  <2>1. i \in Ids /\ i \in Listed /\ i # n /\ i \notin Picked /\ req[i].group = 0
    BY <1>2, <1>3
  <2>2. req[i].where \in {"queue", "cpu"} /\ req[i].state # "Presenting"
    BY <2>1 DEF Listed, Picked
  <2>3. req'[i] = Dropped(req[i])
    BY <1>1, <1>9, <2>1
  <2>. QED  BY <1>4, <2>1, <2>2, <2>3, DroppedIs DEF SameFlip
<1>10. ASSUME NEW i \in cap
       PROVE  /\ i \in Ids /\ i # n /\ i \notin rep
              /\ req'[i] \in RequestRecord
              /\ SameFlip(i) /\ Life(req'[i]) /\ req'[i].group = n
              /\ req'[i].where = req[i].where /\ req'[i].state = req[i].state
              /\ req'[i].frame = req[i].frame
  <2>1. i \in Ids /\ i # n /\ i \notin rep
    BY <1>2, <1>3
  <2>2. req'[i] = [req[i] EXCEPT !.group = n]
    BY <1>1, <1>10, <2>1
  <2>3. req[i] \in RequestRecord /\ Life(req[i])
    BY <1>4, <2>1
  <2>. QED  BY <1>5, <2>1, <2>2, <2>3 DEF SameFlip, RequestRecord, Life
<1>11. \A i \in Ids \ {n} : i \notin rep /\ i \notin cap => req'[i] = req[i]
  BY <1>1
<1>12. req' \in [Ids -> RequestRecord]
  <2>1. \A i \in Ids : req'[i] \in RequestRecord
    BY <1>4, <1>6, <1>8, <1>9, <1>10, <1>11
  <2>. QED  BY <1>1, <2>1
<1>13. Listed' = (Listed \ rep) \cup {n}
  <2>1. ASSUME NEW i \in Ids
        PROVE  req'[i].where \in {"queue", "cpu"} <=>
                   i = n \/ (req[i].where \in {"queue", "cpu"} /\ i \notin rep)
    <3>1. CASE i = n
      BY <1>6, <1>8, <3>1
    <3>2. CASE i \in rep
      BY <1>9, <3>2
    <3>3. CASE i \in cap
      BY <1>10, <3>3
    <3>4. CASE i # n /\ i \notin rep /\ i \notin cap
      BY <1>11, <3>4
    <3>. QED  BY <3>1, <3>2, <3>3, <3>4
  <2>. QED  BY <1>1, <2>1 DEF Listed
<1>14. Life(req'[n])
  BY <1>7, <1>8
<1>. QED  BY <1>1, <1>6, <1>8, <1>9, <1>10, <1>11, <1>12, <1>13, <1>14 DEF rep, cap

\* The counters of the port go with its lists, and stay within the capacity.
LEMMA ReserveCounts ==
    ASSUME FlipInvariant, NEW p \in Ports, NEW source \in Sources, Reserve(p, source)
    PROVE  /\ port' \in [Ports -> PortRecord] /\ Counted'
           /\ \A q \in Ports : /\ port'[q].opened = port[q].opened
                               /\ port'[q].generation = port[q].generation
                               /\ port'[q].master = port[q].master
                               /\ port'[q].slaves = port[q].slaves
<1> DEFINE n == next
           rep == Replaced(p)
           more == IF source = "GpuEop" THEN 1 ELSE 0
<1>1. /\ n \in Ids /\ port[p].opened /\ StillPending(p) < Capacity
      /\ port' = [port EXCEPT ![p].pending = StillPending(p) + 1,
                              ![p].gc = @ - FromGpu(rep) + more]
  BY DEF Reserve
<1>2. /\ req'[n].port = p /\ req'[n].source = source
      /\ Listed' = (Listed \ rep) \cup {n}
      /\ \A i \in rep : SameFlip(i)
      /\ \A i \in Captured(p) : SameFlip(i)
      /\ \A i \in Ids \ {n} : i \notin rep /\ i \notin Captured(p) => req'[i] = req[i]
  BY ReserveIs
<1>3. \A i \in Ids \ {n} : req'[i].port = req[i].port /\ req'[i].source = req[i].source
  BY <1>2 DEF SameFlip
<1>4. n \notin Listed /\ rep \in SUBSET ListedOf(p)
  BY <1>1, ReserveFinds
<1>5. Types /\ Listed \subseteq Ids
  BY DEF FlipInvariant, Listed
<1>6. /\ port[p].pending = Cardinality(ListedOf(p)) /\ port[p].gc = FromGpu(ListedOf(p))
      /\ ListedOf(p) \in SUBSET Ids /\ n \notin ListedOf(p)
  BY <1>1, <1>4, <1>5 DEF FlipInvariant, Counted, ListedOf
<1> DEFINE rest == ListedOf(p) \ rep
<1> HIDE DEF rep, more
<1>7. /\ Cardinality(rest) = port[p].pending - Cardinality(rep)
      /\ FromGpu(rest) = port[p].gc - FromGpu(rep)
      /\ rest \in SUBSET Ids /\ n \notin rest
  BY <1>4, <1>6, CountRest
<1>8. /\ Cardinality(rest) \in Nat /\ FromGpu(rest) \in Nat /\ FromGpu(rest) <= Cardinality(rest)
      /\ IsFiniteSet(rest)
  BY <1>7, CountRest, Sizes
<1>9. StillPending(p) = Cardinality(rest)
  BY <1>7 DEF StillPending, rep
<1>10. more \in {0, 1}
  BY DEF more
<1>11. Cardinality(rest) + 1 \in 0 .. Capacity /\ FromGpu(rest) + more \in 0 .. Capacity
  <2>1. Capacity \in Nat
    BY Sizes
  <2> HIDE DEF rest
  <2>. QED  BY <1>1, <1>8, <1>9, <1>10, <2>1
<1>12. /\ port'[p] = [port[p] EXCEPT !.pending = Cardinality(rest) + 1, !.gc = FromGpu(rest) + more]
       /\ \A q \in Ports \ {p} : port'[q] = port[q]
  BY <1>1, <1>5, <1>7, <1>9 DEF Types
<1> HIDE DEF rest
<1>13. /\ port'[p] \in PortRecord
       /\ port'[p].pending = Cardinality(rest) + 1 /\ port'[p].gc = FromGpu(rest) + more
       /\ port'[p].opened = port[p].opened /\ port'[p].generation = port[p].generation
       /\ port'[p].master = port[p].master /\ port'[p].slaves = port[p].slaves
  <2>1. port[p] \in PortRecord
    BY <1>5, PortFields
  <2>. QED  BY <1>11, <1>12, <2>1 DEF PortRecord
<1>14. port' \in [Ports -> PortRecord]
  BY <1>1, <1>5, <1>12, <1>13 DEF Types
<1>15. ListedOf(p)' = rest \cup {n}
  BY <1>1, <1>2, <1>3, <1>4, <1>5 DEF ListedOf, rest
<1>16. Cardinality(ListedOf(p)') = Cardinality(rest) + 1
  BY <1>7, <1>8, <1>15, FS_AddElement
<1>17. FromGpu(ListedOf(p))' = FromGpu(rest) + more
  <2> DEFINE gpus == {i \in rest : req[i].source = "GpuEop"}
  <2>1. FromGpu(ListedOf(p))' = Cardinality({i \in rest \cup {n} : req'[i].source = "GpuEop"})
    BY <1>15 DEF FromGpu
  <2>2. \A i \in rest : req'[i].source = "GpuEop" <=> req[i].source = "GpuEop"
    BY <1>3, <1>7
  <2>3. FromGpu(rest) = Cardinality(gpus) /\ IsFiniteSet(gpus) /\ n \notin gpus
    BY <1>7, <1>8, FS_Subset DEF FromGpu
  <2>4. CASE source = "GpuEop"
    <3>1. {i \in rest \cup {n} : req'[i].source = "GpuEop"} = gpus \cup {n}
      BY <1>2, <2>2, <2>4
    <3>. QED  BY <2>1, <2>3, <2>4, <3>1, FS_AddElement DEF more
  <2>5. CASE source # "GpuEop"
    <3>1. {i \in rest \cup {n} : req'[i].source = "GpuEop"} = gpus
      BY <1>2, <2>2, <2>5
    <3>2. more = 0
      BY <2>5 DEF more
    <3>3. FromGpu(ListedOf(p))' = FromGpu(rest)
      BY <2>1, <2>3, <3>1
    <3>4. FromGpu(rest) \in Nat
      BY <1>8
    <3>. QED  BY <3>2, <3>3, <3>4
  <2>. QED  BY <2>4, <2>5
<1>18. ASSUME NEW q \in Ports, q # p
       PROVE  ListedOf(q)' = ListedOf(q) /\ FromGpu(ListedOf(q))' = FromGpu(ListedOf(q))
  <2>1. \A i \in rep : req[i].port = p
    BY <1>4 DEF ListedOf
  <2>2. ListedOf(q)' = ListedOf(q)
    BY <1>2, <1>3, <1>4, <1>5, <1>18, <2>1 DEF ListedOf
  <2>3. ListedOf(q) \subseteq Ids \ {n}
    BY <1>4, <1>5 DEF ListedOf
  <2>4. {i \in ListedOf(q) : req'[i].source = "GpuEop"} = {i \in ListedOf(q) : req[i].source = "GpuEop"}
    BY <1>3, <2>3
  <2>. QED  BY <2>2, <2>4 DEF FromGpu
<1>19. Counted'
  <2>1. ASSUME NEW q \in Ports, port'[q].opened
        PROVE  /\ port'[q].pending = Cardinality(ListedOf(q)')
               /\ port'[q].gc = FromGpu(ListedOf(q))'
    <3>1. CASE q = p
      BY <1>13, <1>16, <1>17, <3>1
    <3>2. CASE q # p
      BY <1>12, <1>18, <2>1, <3>2 DEF FlipInvariant, Counted
    <3>. QED  BY <3>1, <3>2
  <2>. QED  BY <2>1 DEF Counted
<1>. QED  BY <1>12, <1>13, <1>14, <1>19

\* A flip of a master becomes the leader of what its slaves have waiting.
LEMMA ReserveGroups ==
    ASSUME FlipInvariant, NEW p \in Ports, NEW source \in Sources, Reserve(p, source)
    PROVE  GroupsAreWhole'
<1> DEFINE n == next
           rep == Replaced(p)
           cap == Captured(p)
<1>1. /\ n \in Ids /\ port[p].opened
      /\ req'[n].port = p /\ req'[n].master = port[p].master
      /\ req'[n].group = IF port[p].master = None THEN n ELSE 0
      /\ Listed' = (Listed \ rep) \cup {n}
      /\ \A i \in cap : SameFlip(i) /\ req'[i].group = n
      /\ \A i \in Ids \ {n} : i \notin rep /\ i \notin cap => req'[i] = req[i]
  BY ReserveIs
<1>2. /\ n \notin Listed /\ rep \in SUBSET ListedOf(p) /\ cap \in SUBSET Listed
      /\ cap # {} => port[p].master = None
      /\ \A i \in rep : req[i].group = 0 /\ i \notin cap
      /\ \A i \in cap : req[i].group = 0 /\ req[i].master = p /\ req[i].port # p
      /\ port[p].master # None => \A i \in ListedOf(p) : req[i].group = 0 => i \in rep
  BY <1>1, ReserveFinds
<1>3. n # 0 /\ p # None /\ Listed \subseteq Ids
  BY <1>1, IdsAreNumbers, Sizes DEF Listed
<1>4. \A i \in Listed : req[i].group # n /\ i # n
  <2>1. ASSUME NEW i \in Listed
        PROVE  req[i].group # n
    <3>1. req[i].group < n /\ n \in Int
      BY <1>1, IdsAreNumbers, ListedIsUsed
    <3>. QED  BY <3>1
  <2>. QED  BY <1>2, <2>1
<1> HIDE DEF n, rep, cap
<1>5. \A i \in cap : req'[i].port = req[i].port /\ req'[i].master = p /\ req'[i].group = n
  BY <1>1, <1>2 DEF SameFlip
<1>6. \A i \in Listed : i \notin rep /\ i \notin cap => req'[i] = req[i]
  BY <1>1, <1>3, <1>4
<1>7. ASSUME NEW i \in Listed
      PROVE  /\ req[i].group # 0 /\ req[i].group # i =>
                  /\ req[i].group \in Listed /\ req[req[i].group].group = req[i].group
                  /\ req[req[i].group].port = req[i].master
             /\ req[i].master = None => req[i].group = i
             /\ \A j \in Listed \ {i} : ~(req[j].port = req[i].port /\ req[j].group = req[i].group)
  BY DEF FlipInvariant, GroupsAreWhole
<1>8. ASSUME NEW i \in Listed'
      PROVE  /\ req'[i].group # 0 /\ req'[i].group # i =>
                  /\ req'[i].group \in Listed' /\ req'[req'[i].group].group = req'[i].group
                  /\ req'[req'[i].group].port = req'[i].master
             /\ req'[i].master = None => req'[i].group = i
             /\ \A j \in Listed' \ {i} : ~(req'[j].port = req'[i].port /\ req'[j].group = req'[i].group)
  <2>1. CASE i = n
    <3>1. ASSUME NEW j \in Listed' \ {n}, req'[j].port = p, req'[j].group = req'[n].group
          PROVE  FALSE
      <4>1. j \in Listed /\ j \notin rep /\ j \notin cap
        BY <1>1, <1>2, <1>5, <3>1
      <4>2. req[j].port = p /\ req[j].group = req'[n].group /\ req[j].group # n
        BY <1>4, <1>6, <3>1, <4>1
      <4>3. port[p].master # None /\ req[j].group = 0
        BY <1>1, <4>2
      <4>. QED  BY <1>2, <4>1, <4>2, <4>3 DEF ListedOf
    <3>. QED  BY <1>1, <2>1, <3>1
  <2>2. CASE i \in cap
    <3>1. port[p].master = None /\ req'[n].group = n /\ i # n /\ n \in Listed'
      BY <1>1, <1>2, <1>4, <2>2
    <3>2. req'[i].group = n /\ req'[i].master = p /\ req'[i].port = req[i].port /\ req[i].port # p
      BY <1>2, <1>5, <2>2
    <3>3. ASSUME NEW j \in Listed' \ {i}, req'[j].port = req[i].port, req'[j].group = n
          PROVE  FALSE
      <4>1. j \in Listed /\ j \notin rep
        BY <1>1, <3>2, <3>3
      <4>2. j \in cap
        BY <1>4, <1>6, <3>3, <4>1
      <4>. QED  BY <1>2, <1>5, <1>7, <2>2, <3>3, <4>1, <4>2
    <3>. QED  BY <1>1, <1>3, <3>1, <3>2, <3>3
  <2>3. CASE i # n /\ i \notin cap
    <3>1. i \in Listed /\ i \notin rep /\ req'[i] = req[i]
      BY <1>1, <1>6, <2>3
    <3> DEFINE g == req[i].group
    <3>2. g # 0 /\ g # i => g \in Listed /\ g \notin rep /\ g \notin cap
      BY <1>2, <1>7, <3>1
    <3>3. g # 0 /\ g # i => g \in Listed' /\ req'[g].group = g /\ req'[g].port = req[i].master
      BY <1>1, <1>6, <1>7, <3>1, <3>2
    <3>4. ASSUME NEW j \in Listed' \ {i}, req'[j].port = req[i].port, req'[j].group = g
          PROVE  FALSE
      <4>1. g # n
        BY <1>4, <3>1
      <4>2. j \notin cap
        BY <1>5, <3>4, <4>1
      <4>3. CASE j = n
        <5>1. port[p].master # None /\ g = 0 /\ req[i].port = p
          BY <1>1, <3>4, <4>1, <4>3
        <5>. QED  BY <1>2, <3>1, <5>1 DEF ListedOf
      <4>4. CASE j # n
        BY <1>1, <1>6, <1>7, <3>1, <3>4, <4>2, <4>4
      <4>. QED  BY <4>3, <4>4
    <3>. QED  BY <1>7, <3>1, <3>3, <3>4
  <2>. QED  BY <2>1, <2>2, <2>3
<1>. QED  BY <1>8 DEF GroupsAreWhole

\* Everything of a submission but what the GPU thread does about it.
LEMMA ReserveLists ==
    ASSUME FlipInvariant, NEW p \in Ports, NEW source \in Sources, Reserve(p, source),
           gpu' \in GpuRecord
    PROVE  /\ Types' /\ QueueMatches' /\ Lives'
           /\ Generations' /\ Owned' /\ Grouped' /\ Closes' /\ DueIsCurrent' /\ Counted'
           /\ PickedStayListed' /\ FramesAreSettled' /\ GroupsAreWhole'
<1> DEFINE n == next
           rep == Replaced(p)
           cap == Captured(p)
<1>1. /\ queue' = IF source = "GpuEop" THEN Append(Without(rep), n) ELSE Without(rep)
      /\ next' = n + 1
      /\ UNCHANGED <<present, closer>>
  BY DEF Reserve
<1>2. /\ n \in Ids /\ port[p].opened /\ req' \in [Ids -> RequestRecord]
      /\ req'[n].port = p /\ req'[n].master = port[p].master
      /\ req'[n].generation = port[p].generation
      /\ req'[n].group = IF port[p].master = None THEN n ELSE 0
      /\ req'[n].state = "Reserved" /\ req'[n].frame = "none"
      /\ req'[n].where = IF source = "GpuEop" THEN "queue" ELSE "cpu"
      /\ Life(req'[n])
      /\ \A i \in rep :
           /\ SameFlip(i) /\ Life(req'[i]) /\ req'[i].group = 0
           /\ req'[i].where \in {"gone", "cancelled"} /\ req'[i].state # "Presenting"
           /\ req'[i].where = "gone" => req'[i].frame = "discarded"
           /\ req'[i].where = "cancelled" => req'[i].frame \in {"none", "drawn"}
      /\ \A i \in cap :
           /\ SameFlip(i) /\ Life(req'[i]) /\ req'[i].group = n
           /\ req'[i].where = req[i].where /\ req'[i].state = req[i].state
           /\ req'[i].frame = req[i].frame
      /\ \A i \in Ids \ {n} : i \notin rep /\ i \notin cap => req'[i] = req[i]
      /\ Listed' = (Listed \ rep) \cup {n}
  BY ReserveIs
<1>3. /\ n \notin Listed /\ n \notin Picked /\ req[n].where = "unused"
      /\ rep \in SUBSET ListedOf(p) /\ cap \in SUBSET Listed
      /\ \A i \in rep : req[i].group = 0 /\ i \notin Picked /\ i \notin cap
      /\ \A i \in cap : req[i].group = 0 /\ i \notin Picked
  BY <1>2, ReserveFinds
<1>4. /\ port' \in [Ports -> PortRecord] /\ Counted'
      /\ \A q \in Ports : /\ port'[q].opened = port[q].opened
                          /\ port'[q].generation = port[q].generation
                          /\ port'[q].master = port[q].master
                          /\ port'[q].slaves = port[q].slaves
  BY ReserveCounts
<1>5. GroupsAreWhole'
  BY ReserveGroups
<1>6. Types /\ Listed \subseteq Ids
  BY DEF FlipInvariant, Listed
<1>7. n \in Int /\ 1 <= n /\ n <= MaxRequests /\ \A i \in Ids : i \in Int
  BY <1>2, IdsAreNumbers
<1> HIDE DEF n, rep, cap
<1>8. Types'
  <2>1. n + 1 \in 1 .. MaxRequests + 1
    BY <1>7, Sizes
  <2>. QED  BY <1>1, <1>2, <1>4, <1>6, <2>1 DEF Types
<1>9. \A i \in Ids \ {n} :
        /\ SameFlip(i) /\ Life(req'[i])
        /\ req'[i].group = req[i].group \/ req'[i].group = n
  <2>1. \A i \in rep : req'[i].group = req[i].group
    BY <1>2, <1>3
  <2>2. \A i \in Ids \ {n} : i \notin rep /\ i \notin cap =>
            SameFlip(i) /\ Life(req'[i]) /\ req'[i].group = req[i].group
    BY <1>2 DEF SameFlip, FlipInvariant, Lives
  <2>. QED  BY <1>2, <2>1, <2>2
<1>10. Lives'
  <2>1. ASSUME NEW i \in Ids
        PROVE  /\ Life(req'[i])
               /\ req'[i].where = "unused" <=> i >= n + 1
               /\ req'[i].where # "unused" => req'[i].port \in Ports /\ req'[i].group < n + 1
    <3>1. CASE i = n
      <4>1. req'[n].group \in {0, n} /\ req'[n].where # "unused"
        BY <1>2
      <4>. QED  BY <1>2, <1>7, <3>1, <4>1
    <3>2. CASE i # n
      <4>1. /\ req[i].where = "unused" <=> i >= n
            /\ req[i].where # "unused" => req[i].port \in Ports /\ req[i].group < n
        BY DEF FlipInvariant, Lives, n
      <4>2. i >= n <=> i >= n + 1
        BY <1>7, <3>2
      <4>3. req[i].group \in Int
        BY <1>6, RequestFields
      <4>4. SameFlip(i) /\ Life(req'[i]) /\ (req'[i].group = req[i].group \/ req'[i].group = n)
        BY <1>9, <3>2
      <4>5. req[i].group < n => req'[i].group < n + 1
        BY <1>7, <4>3, <4>4
      <4>. QED  BY <4>1, <4>2, <4>4, <4>5 DEF SameFlip
    <3>. QED  BY <3>1, <3>2
  <2>. QED  BY <1>1, <2>1 DEF Lives, Life
<1>11. Generations'
  <2>1. ASSUME NEW i \in Ids, req'[i].where # "unused"
        PROVE  /\ req'[i].generation <= port'[req'[i].port].generation
               /\ req'[i].generation = port'[req'[i].port].generation => port'[req'[i].port].opened
    <3>1. CASE i = n
      <4>1. port[p].generation \in Int
        BY <1>6, PortFields
      <4>. QED  BY <1>2, <1>4, <3>1, <4>1
    <3>2. CASE i # n
      <4>1. /\ req[i].where # "unused"
            /\ req'[i].port = req[i].port /\ req'[i].generation = req[i].generation
        BY <1>9, <2>1, <3>2 DEF SameFlip
      <4>2. req[i].port \in Ports
        BY <4>1 DEF FlipInvariant, Lives
      <4>. QED  BY <1>4, <4>1, <4>2 DEF FlipInvariant, Generations
    <3>. QED  BY <3>1, <3>2
  <2>2. \A q \in Ports : port'[q].opened => port'[q].generation <= MaxGeneration
    BY <1>4 DEF FlipInvariant, Generations
  <2>. QED  BY <2>1, <2>2 DEF Generations
<1>12. \A i \in Ids \ {n} : req[i].port \in Ports => (Current(i)' <=> Current(i))
  BY <1>4, <1>9 DEF Current, SameFlip
<1>13. Owned'
  <2>1. ASSUME NEW j \in Listed'
        PROVE  (\/ Current(j) /\ req[j].master = port[req[j].port].master
                \/ Closing(req[j].port) /\ req[j].master = closer.master)'
    <3>1. CASE j = n
      BY <1>2, <1>4, <3>1 DEF Current
    <3>2. CASE j # n
      <4>1. j \in Listed /\ j \in Ids /\ req[j].port \in Ports
        BY <1>2, <1>6, <2>1, <3>2, ListedIsUsed
      <4>2. req'[j].port = req[j].port /\ req'[j].master = req[j].master
        BY <1>9, <3>2, <4>1 DEF SameFlip
      <4>. QED  BY <1>1, <1>4, <1>12, <3>2, <4>1, <4>2 DEF FlipInvariant, Owned, Closing
    <3>. QED  BY <3>1, <3>2
  <2>. QED  BY <2>1 DEF Owned
<1>14. Grouped'
  <2>1. ASSUME NEW m
        PROVE  Slaves(m)' = Slaves(m)
    BY <1>1, <1>4 DEF Slaves, Leaving
  <2>. QED  BY <1>4, <2>1 DEF FlipInvariant, Grouped
<1>15. Closes'
  BY <1>1, <1>4 DEF FlipInvariant, Closes
<1>16. \A i \in Ids : i \in Picked => i # n /\ req'[i] = req[i]
  BY <1>2, <1>3
<1>17. Picked' = Picked
  <2>1. \A i \in Ids : req'[i].state = "Presenting" => req[i].state = "Presenting"
    BY <1>2
  <2>. QED  BY <1>16, <2>1 DEF Picked
<1>18. DueIsCurrent'
  <2>1. \A i \in Picked : i \in Ids /\ req[i].port \in Ports
    BY DEF Picked, FlipInvariant, Lives, Life
  <2>. QED  BY <1>1, <1>12, <1>16, <1>17, <2>1 DEF FlipInvariant, DueIsCurrent
<1>19. PickedStayListed'
  <2>1. CASE Picked = {}
    BY <1>1, <1>17, <2>1 DEF FlipInvariant, PickedStayListed
  <2>2. CASE Picked # {}
    <3> DEFINE g == present.group
    <3>1. g # 0 /\ g < n /\ g \in Picked /\ Picked = Members(g)
      BY <2>2, PickedAreGrouped DEF Picked, n
    <3>2. g # n
      BY <1>3, <3>1
    <3> HIDE DEF g
    <3>3. \A i \in Ids : i \in Listed' /\ req'[i].group = g <=> i \in Listed /\ req[i].group = g
      <4>1. ASSUME NEW i \in Ids
            PROVE  i \in Listed' /\ req'[i].group = g <=> i \in Listed /\ req[i].group = g
        <5>1. CASE i = n
          BY <1>2, <1>3, <3>1, <3>2, <5>1
        <5>2. CASE i \in rep
          BY <1>2, <1>3, <3>1, <5>2
        <5>3. CASE i \in cap
          BY <1>2, <1>3, <3>1, <3>2, <5>3
        <5>4. CASE i # n /\ i \notin rep /\ i \notin cap
          BY <1>2, <5>4
        <5>. QED  BY <5>1, <5>2, <5>3, <5>4
      <4>. QED  BY <4>1
    <3>4. Listed' \subseteq Ids
      BY <1>2, <1>6
    <3>5. Members(present.group)' = Members(present.group)
      BY <1>1, <1>6, <3>3, <3>4 DEF Members, g
    <3>. QED  BY <1>1, <1>6, <1>16, <1>17, <3>5 DEF FlipInvariant, PickedStayListed, Picked
  <2>. QED  BY <2>1, <2>2
<1>20. FramesAreSettled'
  <2>1. ASSUME NEW i \in Ids
        PROVE  /\ req'[i].where = "gone" => req'[i].frame # "drawn"
               /\ req'[i].frame = "discarded" => req'[i].where = "gone"
               /\ req'[i].frame = "shown" =>
                   req'[i].where = "gone" \/ (present.at = "locked" /\ present.due /\ i \in Picked)
    <3>1. CASE i = n
      BY <1>2, <3>1
    <3>2. CASE i \in rep
      BY <1>2, <1>8, <3>2, RequestFields DEF Types, RequestRecord
    <3>3. CASE i \in cap
      BY <1>2, <3>3 DEF FlipInvariant, FramesAreSettled
    <3>4. CASE i # n /\ i \notin rep /\ i \notin cap
      BY <1>2, <3>4 DEF FlipInvariant, FramesAreSettled
    <3>. QED  BY <3>1, <3>2, <3>3, <3>4
  <2>. QED  BY <1>1, <1>17, <2>1 DEF FramesAreSettled
<1>21. QueueMatches'
  <2>1. /\ queue \in Seq(Ids) /\ IsInjective(queue)
        /\ Range(queue) = {i \in Ids : req[i].where = "queue"}
    BY DEF FlipInvariant, QueueMatches
  <2>2. /\ Without(rep) \in Seq(Ids) /\ IsInjective(Without(rep))
        /\ Range(Without(rep)) = Range(queue) \ rep
    BY <2>1, WithoutKeeps
  <2>3. ASSUME NEW i \in Ids, i # n
        PROVE  req'[i].where = "queue" <=> i \in Range(queue) \ rep
    <3>1. CASE i \in rep
      BY <1>2, <3>1
    <3>2. CASE i \in cap
      BY <1>2, <1>3, <2>1, <3>2
    <3>3. CASE i \notin rep /\ i \notin cap
      BY <1>2, <2>1, <2>3, <3>3
    <3>. QED  BY <3>1, <3>2, <3>3
  <2>4. n \notin Range(queue)
    BY <1>3, <2>1
  <2>5. CASE source = "GpuEop"
    <3>1. /\ queue' \in Seq(Ids) /\ IsInjective(queue')
          /\ Range(queue') = Range(Without(rep)) \cup {n}
      BY <1>1, <1>2, <2>2, <2>4, <2>5, AppendKeeps
    <3>2. Range(queue') = {i \in Ids : req'[i].where = "queue"}
      BY <1>2, <2>1, <2>2, <2>3, <2>5, <3>1
    <3>. QED  BY <3>1, <3>2 DEF QueueMatches
  <2>6. CASE source # "GpuEop"
    <3>1. Range(queue') = {i \in Ids : req'[i].where = "queue"}
      BY <1>1, <1>2, <2>1, <2>2, <2>3, <2>4, <2>6
    <3>. QED  BY <1>1, <2>2, <2>6, <3>1 DEF QueueMatches
  <2>. QED  BY <2>5, <2>6
<1>. QED  BY <1>4, <1>5, <1>8, <1>10, <1>11, <1>13, <1>14, <1>15, <1>18, <1>19, <1>20, <1>21

\* What the GPU thread draws may be replaced, but it is not forgotten.
LEMMA ReserveDraws ==
    ASSUME FlipInvariant, NEW p \in Ports, NEW source \in Sources, Reserve(p, source)
    PROVE  /\ \A i \in Ids : req[i].state \in {"Reserved", "Recording"} =>
                /\ req'[i].state = req[i].state /\ req'[i].frame = req[i].frame
                /\ req'[i].generation = req[i].generation /\ req'[i].port = req[i].port
           /\ \A i \in Ids \ {next} : req'[i].where = "queue" /\ req'[i].frame = "none" =>
                req[i].where = "queue" /\ req[i].frame = "none"
<1>1. /\ next \in Ids
      /\ \A i \in Replaced(p) :
           /\ SameFlip(i) /\ req'[i].where \in {"gone", "cancelled"}
           /\ req[i].state \in {"Reserved", "Recording"} =>
                req'[i].state = req[i].state /\ req'[i].frame = req[i].frame
      /\ \A i \in Captured(p) :
           /\ SameFlip(i) /\ req'[i].where = req[i].where
           /\ req'[i].state = req[i].state /\ req'[i].frame = req[i].frame
      /\ \A i \in Ids \ {next} : i \notin Replaced(p) /\ i \notin Captured(p) => req'[i] = req[i]
      /\ port[p].opened
  BY ReserveIs
<1>2. req[next].state = "None"
  BY <1>1, ReserveFinds DEF FlipInvariant, Lives, Life
<1>3. ASSUME NEW i \in Ids, req[i].state \in {"Reserved", "Recording"}
      PROVE  /\ req'[i].state = req[i].state /\ req'[i].frame = req[i].frame
             /\ req'[i].generation = req[i].generation /\ req'[i].port = req[i].port
  BY <1>1, <1>2, <1>3 DEF SameFlip
<1>4. ASSUME NEW i \in Ids \ {next}, req'[i].where = "queue", req'[i].frame = "none"
      PROVE  req[i].where = "queue" /\ req[i].frame = "none"
  BY <1>1, <1>4
<1>. QED  BY <1>3, <1>4

LEMMA SubmitFlipKeeps ==
    ASSUME FlipInvariant, NEW p \in Ports, SubmitFlip(p)
    PROVE  FlipInvariant'
<1>1. "Cpu" \in Sources /\ Reserve(p, "Cpu") /\ (gpu' = gpu \/ gpu' = Woken({"done"}))
  BY DEF SubmitFlip
<1>2. Types /\ gpu \in GpuRecord
  BY DEF FlipInvariant, Types
<1>3. /\ gpu' \in GpuRecord /\ gpu'.id = gpu.id
      /\ \/ gpu'.at = gpu.at
         \/ gpu.at = "asleep" /\ gpu'.at = "awake"
  BY <1>1, <1>2, WokenIs
<1>4. /\ Types' /\ QueueMatches' /\ Lives'
      /\ Generations' /\ Owned' /\ Grouped' /\ Closes' /\ DueIsCurrent' /\ Counted'
      /\ PickedStayListed' /\ FramesAreSettled' /\ GroupsAreWhole'
  BY <1>1, <1>3, ReserveLists
<1>5. Preparing'
  <2>1. req'[next].where = "cpu" /\ next \in Ids
    BY <1>1, ReserveIs
  <2>2. \A i \in Ids : req[i].state \in {"Reserved", "Recording"} =>
            /\ req'[i].state = req[i].state /\ req'[i].frame = req[i].frame
            /\ req'[i].generation = req[i].generation /\ req'[i].port = req[i].port
    BY <1>1, ReserveDraws
  <2>3. \A i \in Ids : req'[i].where = "queue" /\ req'[i].frame = "none" =>
            req[i].where = "queue" /\ req[i].frame = "none"
    BY <1>1, <2>1, ReserveDraws
  <2>4. \A q \in Ports : port'[q].generation = port[q].generation
    BY <1>1, ReserveCounts
  <2>. QED  BY <1>3, <2>2, <2>3, <2>4, GpuUndisturbed
<1>. QED  BY <1>4, <1>5 DEF FlipInvariant

\* A flip of the GPU is prepared by the thread that submits it.
LEMMA SubmitFlipFromGpuKeeps ==
    ASSUME FlipInvariant, NEW p \in Ports, SubmitFlipFromGpu(p)
    PROVE  FlipInvariant'
<1>1. /\ "GpuEop" \in Sources /\ gpu.at = "idle" /\ Reserve(p, "GpuEop")
      /\ gpu' = [Idle EXCEPT !.at = "prepare", !.id = next]
  BY DEF SubmitFlipFromGpu
<1>2. next \in Ids /\ req'[next].state = "Reserved"
  BY <1>1, ReserveIs
<1>3. gpu' \in GpuRecord /\ gpu'.at = "prepare" /\ gpu'.id = next
  <2>1. next \in 0 .. MaxRequests
    BY <1>2, IdsAreNumbers, Sizes
  <2>. QED  BY <1>1, <2>1 DEF Idle, GpuRecord
<1>4. /\ Types' /\ QueueMatches' /\ Lives'
      /\ Generations' /\ Owned' /\ Grouped' /\ Closes' /\ DueIsCurrent' /\ Counted'
      /\ PickedStayListed' /\ FramesAreSettled' /\ GroupsAreWhole'
  BY <1>1, <1>3, ReserveLists
<1>5. Preparing'
  <2>1. gpu.id = 0
    BY <1>1 DEF FlipInvariant, Preparing
  <2>2. \A i \in Ids : ~(req[i].where = "queue" /\ req[i].frame = "none")
    BY <2>1, IdsAreNumbers DEF FlipInvariant, Preparing
  <2>3. \A i \in Ids \ {next} : ~(req'[i].where = "queue" /\ req'[i].frame = "none")
    BY <1>1, <2>2, ReserveDraws
  <2>. QED  BY <1>2, <1>3, <2>3 DEF Preparing
<1>. QED  BY <1>4, <1>5 DEF FlipInvariant

--------------------------------------------------------------------------------
(* The theorems                                                            *)

\* At first there are no requests, and no port is open.
LEMMA InitHolds == Init => FlipInvariant
<1> SUFFICES ASSUME Init
             PROVE  FlipInvariant
  OBVIOUS
<1>1. /\ port = [p \in Ports |-> [opened |-> FALSE, generation |-> 0, master |-> None,
                                  slaves |-> 0, pending |-> 0, gc |-> 0]]
      /\ req = [i \in Ids |-> NoRequest] /\ next = 1 /\ queue = <<>>
      /\ present = [at |-> "vblank", group |-> 0, due |-> FALSE]
      /\ gpu = Idle /\ closer = NoCloser
  BY DEF Init
<1>2. /\ MaxRequests \in Nat /\ MaxGeneration \in Nat /\ Capacity \in Nat \ {0}
      /\ None \notin Ports
  BY Sizes
<1>3. \A p \in Ports : /\ ~port[p].opened /\ port[p].generation = 0 /\ port[p].master = None
                       /\ port[p].slaves = 0
  BY <1>1
<1>4. \A i \in Ids : /\ req[i].port = None /\ req[i].where = "unused" /\ req[i].state = "None"
                     /\ req[i].frame = "none" /\ req[i].group = 0
  BY <1>1 DEF NoRequest
<1>5. Types
  <2>1. 0 \in 0 .. MaxRequests /\ 0 \in 0 .. MaxGeneration + 1 /\ 0 \in 0 .. Capacity
    BY <1>2
  <2>2. port \in [Ports -> PortRecord]
    BY <1>1, <2>1 DEF PortRecord
  <2>3. NoRequest \in RequestRecord
    BY <2>1 DEF NoRequest, RequestRecord, RequestState
  <2>4. req \in [Ids -> RequestRecord]
    BY <1>1, <2>3
  <2>5. gpu \in GpuRecord /\ closer \in CloserRecord
    BY <1>1, <2>1 DEF Idle, GpuRecord, NoCloser, CloserRecord
  <2>6. next \in 1 .. MaxRequests + 1
    BY <1>1, <1>2
  <2>. QED  BY <1>1, <2>1, <2>2, <2>4, <2>5, <2>6 DEF Types
<1>6. Listed = {} /\ Picked = {}
  BY <1>4 DEF Listed, Picked
<1>7. QueueMatches
  <2>1. queue \in Seq(Ids) /\ DOMAIN queue = {}
    BY <1>1
  <2>. QED  BY <1>4, <2>1 DEF QueueMatches, IsInjective, Range
<1>8. Lives
  <2>1. \A i \in Ids : i >= next
    BY <1>1, IdsAreNumbers
  <2>. QED  BY <1>4, <2>1 DEF Lives, Life
<1>9. Preparing
  BY <1>1, <1>4 DEF Preparing, Idle
<1>10. Generations
  BY <1>3, <1>4 DEF Generations
<1>11. Owned /\ GroupsAreWhole /\ DueIsCurrent /\ PickedStayListed
  BY <1>1, <1>6 DEF Owned, GroupsAreWhole, DueIsCurrent, PickedStayListed
<1>12. Grouped
  <2>1. \A p \in Ports : Slaves(p) = {}
    BY <1>1, <1>2, <1>3 DEF Slaves, Leaving, NoCloser
  <2>. QED  BY <1>3, <2>1, FS_EmptySet DEF Grouped
<1>13. Closes
  BY <1>1 DEF Closes, NoCloser
<1>14. Counted
  BY <1>3 DEF Counted
<1>15. FramesAreSettled
  BY <1>4 DEF FramesAreSettled
<1>. QED  BY <1>5, <1>7, <1>8, <1>9, <1>10, <1>11, <1>12, <1>13, <1>14, <1>15 DEF FlipInvariant

\* Every step of every thread keeps the invariant.
LEMMA NextKeeps == FlipInvariant /\ [Next]_vars => FlipInvariant'
<1> SUFFICES ASSUME FlipInvariant, [Next]_vars
             PROVE  FlipInvariant'
  OBVIOUS
<1>1. ASSUME NEW p \in Ports, Open(p) \/ CloseStarts(p)
      PROVE  FlipInvariant'
  BY <1>1, OpenKeeps, CloseStartsKeeps
<1>2. ASSUME NEW pair \in Pairs, SetFlipMaster(pair[1], pair[2])
      PROVE  FlipInvariant'
  <2>1. pair[1] \in Ports /\ pair[2] \in Ports
    BY FlipQueueAssumption
  <2>. QED  BY <1>2, <2>1, SetFlipMasterKeeps
<1>3. CASE Close
  BY <1>3, CloseLeavesMasterKeeps, CancelKeeps, CancelResetsKeeps DEF Close
<1>4. ASSUME NEW p \in Ports, SubmitFlip(p) \/ SubmitFlipFromGpu(p)
      PROVE  FlipInvariant'
  BY <1>4, SubmitFlipKeeps, SubmitFlipFromGpuKeeps
<1>5. CASE \/ \E p \in Ports, for \in {"slot", "done"} : GpuWaits(p, for)
           \/ GpuWakesAlone \/ GpuResumes
  BY <1>5, GpuWaitsKeeps
<1>6. ASSUME NEW i \in Ids, TakesCpuFlip(i) \/ Complete(i)
      PROVE  FlipInvariant'
  BY <1>6, TakesCpuFlipKeeps, CompleteKeeps
<1>7. CASE Prepare
  BY <1>7, PrepareStartsKeeps, PrepareLooksKeeps, PrepareCancelsKeeps, PrepareDrawsKeeps
     DEF Prepare
<1>8. CASE Present \/ Vblank
  BY <1>8, PickKeeps, ShowKeeps, FinishKeeps, VblankKeeps DEF Present
<1>9. CASE UNCHANGED vars
  <2>1. UNCHANGED <<port, req, next, queue, present, gpu, closer>>
    BY <1>9 DEF vars
  <2>2. gpu' \in GpuRecord /\ Preparing'
    BY <2>1 DEF FlipInvariant, Types, Preparing
  <2>. QED  BY <2>1, <2>2, GpuStep DEF FlipInvariant
<1>. QED  BY <1>1, <1>2, <1>3, <1>4, <1>5, <1>6, <1>7, <1>8, <1>9 DEF Next

THEOREM Invariance == Spec => []FlipInvariant
<1>. QED  BY InitHolds, NextKeeps, PTL DEF Spec

\* The flip status counts the requests that are listed for its port, and never more
\* than the queue has room for: what VideoOutGetFlipStatus reports is what is there.
THEOREM PendingIsExactAlways == Spec => []PendingIsExact
<1>1. FlipInvariant => PendingIsExact
  <2>1. FlipInvariant => TypeOK
    BY DEF FlipInvariant, Types, QueueMatches, TypeOK, PortRecord, RequestRecord, GpuRecord,
           CloserRecord
  <2>. QED  BY <2>1 DEF FlipInvariant, Counted, PendingIsExact
<1>. QED  BY <1>1, Invariance, PTL

\* A group that the present thread has picked stays the group that it was, in the
\* queue and alive, without any lock that says so, until Finish.
THEOREM PickedStayListedAlways == Spec => []PickedStayListed
<1>1. FlipInvariant => PickedStayListed
  BY DEF FlipInvariant
<1>. QED  BY <1>1, Invariance, PTL

\* No frame leaks, and none is discarded that is on the screen or yet to be shown,
\* however cancellation, replacement and drawing fall in time.
THEOREM FramesAreSettledAlways == Spec => []FramesAreSettled
<1>1. FlipInvariant => FramesAreSettled
  BY DEF FlipInvariant
<1>. QED  BY <1>1, Invariance, PTL

\* The flips of slaves go with the flip of their master, at most one for each
\* slave, and no cancellation takes the master's away from them.
THEOREM GroupsAreWholeAlways == Spec => []GroupsAreWhole
<1>1. FlipInvariant => GroupsAreWhole
  BY DEF FlipInvariant
<1>. QED  BY <1>1, Invariance, PTL

\* Prepare and Complete always find the request that they are to work on where
\* they can deal with it, so that the emulator does not exit.
THEOREM NoRequestGoesMissingAlways == Spec => []NoRequestGoesMissing
<1>1. FlipInvariant => NoRequestGoesMissing
  <2> SUFFICES ASSUME FlipInvariant
               PROVE  NoRequestGoesMissing
    OBVIOUS
  <2>1. \A i \in Ids :
          /\ Life(req[i])
          /\ req[i].where \in {"unused", "queue", "cpu", "cancelled", "gone"}
    BY RequestFields DEF FlipInvariant, Lives
  <2>2. \A i \in Ids : req[i].state = "Reserved" => req[i].where \in {"queue", "cpu", "cancelled"}
    BY <2>1 DEF Life
  <2>3. \A i \in Ids : req[i].state = "Recording" =>
          req[i].where \in {"queue", "cancelled"} /\ req[i].frame \in {"none", "drawn"}
    BY <2>1 DEF Life
  <2>4. \A i \in Ids : req[i].state = "Recording" /\ gpu.id # i =>
          \/ req[i].where = "queue" /\ req[i].frame = "drawn"
          \/ req[i].where = "cancelled"
    BY <2>3 DEF FlipInvariant, Preparing
  <2>5. gpu.at = "prepare" => gpu.id \in Ids /\ req[gpu.id].state = "Reserved"
    BY DEF FlipInvariant, Preparing
  <2>6. gpu.at = "draw" =>
          gpu.id \in Ids /\ req[gpu.id].state = "Recording" /\ req[gpu.id].frame = "none"
    BY DEF FlipInvariant, Preparing
  <2>. QED  BY <2>2, <2>3, <2>4, <2>5, <2>6 DEF NoRequestGoesMissing
<1>. QED  BY <1>1, Invariance, PTL
================================================================================
