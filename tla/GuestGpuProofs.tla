---------------------------- MODULE GuestGpuProofs ----------------------------
(***************************************************************************)
(* Theorems about the guest GPU, for any threads, queues, lists and number *)
(* of requests: what is submitted to a queue runs in order, a guest is one *)
(* frame ahead at most, and what is idle has done all it was asked to.     *)
(* The invariant that they rest on says where a request is at every moment *)
(* between the call that makes it and its end: with the GPU thread, in one *)
(* place of one queue, among the commands, or among what has run.          *)
(***************************************************************************)
EXTENDS GuestGpu, SequenceLemmas, FiniteSetTheorems, WellFoundedInduction

Places == {"look", "asleep", "dozes", "command", "constants", "commands", "over", "stops", "exited"}

Types ==
    /\ MaxRequests \in Nat
    /\ queues \in [Queues -> Seq(Submission)] /\ commands \in Seq(Ids)
    /\ next_queue \in Queues /\ submission_count \in Nat
    /\ processing \in BOOLEAN /\ stopping \in BOOLEAN
    /\ gpu \in [at : Places, command : 0 .. MaxRequests,
                submission : Submission \cup {Nothing}, moved : BOOLEAN]
    /\ next \in 1 .. MaxRequests + 1 /\ ran \subseteq 1 .. next - 1

Outside ==
    /\ engines \in [ce : Nat, de : Nat, ce_complete : BOOLEAN] /\ label \in [Labels -> BOOLEAN]
    /\ call \in [Threads -> [at : CallState, id : 0 .. MaxRequests]]
    /\ credit \in Nat /\ releases \in Nat
    /\ aborted \in {"", "Submit", "SuspendPoint", "SendCommandSync", "UnmapMemory"}

Holds == gpu.submission.id # 0
HoldsOf(q) == Holds /\ gpu.submission.queue = q
PlacesOf(q) == 1 .. Len(queues[q])

\* What the GPU thread has in its hands at each place of its loop.
InHand ==
    /\ gpu.command # 0 <=> gpu.at = "command"
    /\ gpu.at \in {"constants", "commands"} => Holds
    /\ Holds => gpu.at \in {"constants", "commands", "over"}
    /\ gpu.at = "commands" => IsList
    /\ gpu.at \in {"command", "constants", "commands", "over"} => processing
    /\ gpu.at \in {"stops", "exited"} => stopping /\ commands = <<>> /\ submission_count = 0

\* Each queue is in the order of the calls, behind what the GPU thread holds of it,
\* and nothing has begun but the first.
Lines ==
    \A q \in Queues : \A i \in PlacesOf(q) :
        /\ queues[q][i].queue = q
        /\ \A j \in PlacesOf(q) : i < j => queues[q][i].id < queues[q][j].id
        /\ i > 1 \/ HoldsOf(q) => ~queues[q][i].started
        /\ HoldsOf(q) => gpu.submission.id < queues[q][i].id

\* A marker has no packets.
Plain(s) == s.type # "List" => s.commands = <<>> /\ s.constants = <<>>
Markers ==
    /\ Holds => Plain(gpu.submission)
    /\ \A q \in Queues : \A i \in PlacesOf(q) : Plain(queues[q][i])

Counted == IsFiniteSet(Waiting) /\ submission_count = Cardinality(Waiting)

\* Request n is a submission to queue q that has not been completed and let go.
Has(q, n, type) ==
    \/ HoldsOf(q) /\ gpu.submission.id = n /\ gpu.submission.type = type
    \/ \E i \in PlacesOf(q) : queues[q][i].id = n /\ queues[q][i].type = type

\* Request n is a command that has not run.
Commanded(n) == gpu.command = n \/ \E k \in 1 .. Len(commands) : commands[k] = n

Kinds == {"List", "FlipPreparation", "SuspendPoint"}

\* A request is in one place, and in none once it has run, except that the GPU thread
\* still holds what it has just completed.
Apart ==
    \A q \in Queues, n \in Ids, type \in Kinds : Has(q, n, type) =>
        /\ n < next /\ ~Commanded(n)
        /\ \A r \in Queues, other \in Kinds : Has(r, n, other) => r = q /\ other = type
        /\ n \in ran => gpu.at = "over" /\ gpu.submission.id = n

Settled == gpu.at = "over" /\ Holds => (gpu.submission.id \in ran <=> Complete)

\* No request is lost.
Accounted ==
    /\ \A n \in 1 .. next - 1 :
        n \in ran \/ Commanded(n) \/ \E q \in Queues, type \in Kinds : Has(q, n, type)
    /\ \A k \in 1 .. Len(commands) : commands[k] < next
    /\ gpu.command < next

\* The calls that have kept room for a request will find it.
Room == IsFiniteSet(Underway) /\ next + Cardinality(Underway) <= MaxRequests + 1

\* The one permission is with the semaphore, a call, a marker or the native GPU.
Permitted == {t \in Threads : call[t].at = "suspend"}
Marked == {n \in Ids \ ran : \E q \in Queues : Has(q, n, "SuspendPoint")}
OnePermission ==
    /\ IsFiniteSet(Permitted) /\ IsFiniteSet(Marked)
    /\ credit + releases + Cardinality(Permitted) + Cardinality(Marked) = 1

Inside == Types /\ InHand /\ Lines /\ Markers /\ Counted /\ Apart /\ Settled /\ Accounted
GpuInvariant == Inside /\ Outside /\ Room /\ OnePermission

--------------------------------------------------------------------------------
(* What the parts of the invariant say of single fields                    *)

\* There is a graphics queue, and after each queue another.
LEMMA QueuesAre ==
    /\ QueueCount \in Nat \ {0} /\ Graphics \in Queues
    /\ \A q \in Queues : After(q) \in Queues
<1>1. QueueCount \in Nat \ {0}
  BY GuestGpuAssumption DEF QueueCount
<1>2. Graphics \in Queues
  BY <1>1 DEF Graphics, Queues
<1>3. ASSUME NEW q \in Queues
      PROVE  After(q) \in Queues
  <2>1. q + 1 \in Nat
    BY <1>1 DEF Queues
  <2>2. (q + 1) % QueueCount \in 0 .. QueueCount - 1
    BY <1>1, <2>1
  <2>. QED  BY <2>2 DEF After, Queues
<1>. QED  BY <1>1, <1>2, <1>3

\* What a submission is, in a queue and with the GPU thread.
LEMMA Fields ==
    ASSUME Types
    PROVE  /\ \A q \in Queues : queues[q] \in Seq(Submission) /\ Len(queues[q]) \in Nat
           /\ \A q \in Queues : \A i \in PlacesOf(q) :
                queues[q][i] \in Submission /\ queues[q][i].id \in Ids /\ queues[q][i].type \in Kinds
           /\ Holds => /\ gpu.submission \in Submission /\ gpu.submission.id \in Ids
                       /\ gpu.submission.type \in Kinds /\ gpu.submission.queue \in Queues
           /\ ~ Holds => gpu.submission = Nothing
           /\ gpu.at \in Places /\ gpu.command \in 0 .. MaxRequests /\ gpu.moved \in BOOLEAN
           /\ commands \in Seq(Ids) /\ Len(commands) \in Nat
           /\ \A k \in 1 .. Len(commands) : commands[k] \in Ids
           /\ next \in Int /\ \A n \in Ids : n \in Int /\ n # 0
           /\ Nothing.id = 0
<1>1. \A q \in Queues : queues[q] \in Seq(Submission) /\ Len(queues[q]) \in Nat
  BY DEF Types
<1>2. \A s \in Submission : s.id \in Ids /\ s.type \in Kinds /\ s.queue \in Queues /\ s.id # 0
  BY DEF Submission, Kinds, Ids
<1>3. \A q \in Queues : \A i \in PlacesOf(q) : queues[q][i] \in Submission
  BY <1>1 DEF PlacesOf
<1>4. Nothing.id = 0
  BY DEF Nothing
<1>5. gpu.submission \in Submission \cup {Nothing}
  BY DEF Types
<1>6. gpu.at \in Places /\ gpu.command \in 0 .. MaxRequests /\ gpu.moved \in BOOLEAN
  BY DEF Types
<1>7. commands \in Seq(Ids) /\ Len(commands) \in Nat /\ \A k \in 1 .. Len(commands) : commands[k] \in Ids
  BY DEF Types
<1>8. next \in Int /\ \A n \in Ids : n \in Int /\ n # 0
  BY DEF Types, Ids
<1>. QED  BY <1>1, <1>2, <1>3, <1>4, <1>5, <1>6, <1>7, <1>8 DEF Holds

\* Nothing that the GPU thread holds is lost from sight when it only goes on to another
\* place with it.
SameInHand ==
    /\ gpu'.submission.id = gpu.submission.id
    /\ Holds => /\ gpu'.submission.queue = gpu.submission.queue
                /\ gpu'.submission.type = gpu.submission.type

\* Where the queues and what the GPU thread holds of them are left alone.
LEMMA SameLines ==
    ASSUME Inside, queues' = queues, submission_count' = submission_count, SameInHand
    PROVE  /\ Holds' <=> Holds
           /\ Lines' /\ Counted' /\ (Holds' => Plain(gpu.submission))
           /\ \A q \in Queues : \A i \in PlacesOf(q)' : Plain(queues'[q][i])
           /\ \A q, n, type : Has(q, n, type)' <=> Has(q, n, type)
<1>1. /\ Holds' <=> Holds
      /\ \A q : HoldsOf(q)' <=> HoldsOf(q)
      /\ \A q : PlacesOf(q)' = PlacesOf(q)
  BY DEF SameInHand, Holds, HoldsOf, PlacesOf
<1>2. Lines'
  BY <1>1 DEF Inside, Lines, SameInHand
<1>3. Counted'
  BY DEF Inside, Counted, Waiting
<1>4. \A q, n, type : Has(q, n, type)' <=> Has(q, n, type)
  BY <1>1 DEF Has, SameInHand, HoldsOf
<1>. QED  BY <1>1, <1>2, <1>3, <1>4 DEF Inside, Markers

\* Who has the permission does not change with the requests that are the same.
LEMMA SameMarked ==
    ASSUME ran' = ran, \A q \in Queues, n \in Ids, type \in Kinds : Has(q, n, type)' <=> Has(q, n, type)
    PROVE  Marked' = Marked
  BY DEF Marked, Kinds

\* The GPU thread goes to another place, or is told to, and leaves the requests alone.
Stays ==
    /\ queues' = queues /\ commands' = commands /\ next_queue' = next_queue
    /\ submission_count' = submission_count /\ next' = next /\ ran' = ran
    /\ processing' \in BOOLEAN /\ stopping' \in BOOLEAN
    /\ gpu' \in [at : Places, command : {gpu.command}, submission : {gpu.submission}, moved : BOOLEAN]

\* So each request stays where it was.
LEMMA StaysInside ==
    ASSUME Inside, Stays, InHand', gpu.at = "over" /\ Holds => gpu'.at = "over",
           gpu'.at = "over" => gpu.at = "over"
    PROVE  Inside' /\ Marked' = Marked
<1>0. Types
  BY DEF Inside
<1>1. gpu'.submission = gpu.submission /\ gpu'.command = gpu.command
  BY DEF Stays
<1>2. SameInHand
  BY <1>1 DEF SameInHand
<1>3. /\ Holds' <=> Holds
      /\ Lines' /\ Counted' /\ (Holds' => Plain(gpu.submission))
      /\ \A q \in Queues : \A i \in PlacesOf(q)' : Plain(queues'[q][i])
      /\ \A q, n, type : Has(q, n, type)' <=> Has(q, n, type)
  BY <1>2, SameLines DEF Stays
<1>4. Types'
  BY <1>0 DEF Types, Stays
<1>5. Markers'
  BY <1>1, <1>3 DEF Markers
<1>6. \A n : Commanded(n)' <=> Commanded(n)
  BY <1>1 DEF Commanded, Stays
<1>7. Apart'
  BY <1>0, <1>1, <1>3, <1>6, Fields DEF Inside, Apart, Stays, Holds
<1>8. Settled'
  BY <1>1, <1>3 DEF Inside, Settled, Stays, Complete
<1>9. Accounted'
  BY <1>1, <1>3, <1>6 DEF Inside, Accounted, Stays
<1>10. Marked' = Marked
  BY <1>3, SameMarked DEF Stays
<1>. QED  BY <1>3, <1>4, <1>5, <1>7, <1>8, <1>9, <1>10 DEF Inside

--------------------------------------------------------------------------------
(* Steps that make no request and end none                                 *)

Elsewhere == [at : Places, command : {gpu.command}, submission : {gpu.submission}, moved : BOOLEAN]

\* The GPU thread is told of work.
LEMMA Told ==
    ASSUME Types, TellGpu
    PROVE  /\ gpu' \in Elsewhere
           /\ gpu'.at = gpu.at \/ (gpu.at = "asleep" /\ gpu'.at = "look")
<1>1. CASE gpu' = gpu
  BY <1>1 DEF Types, Elsewhere
<1>2. CASE gpu.at = "asleep" /\ gpu' = [gpu EXCEPT !.at = "look"]
  BY <1>2 DEF Types, Elsewhere, Places
<1>. QED  BY <1>1, <1>2 DEF TellGpu, At

\* The GPU thread goes to a place with what it has in its hands.
LEMMA GoesTo ==
    ASSUME Types, NEW at \in Places, gpu' = [gpu EXCEPT !.at = at]
    PROVE  gpu' \in Elsewhere /\ gpu'.at = at
  BY DEF Types, Elsewhere

\* A step that touches neither the queues nor the GPU thread.
LEMMA UnchangedInside ==
    ASSUME Inside, UNCHANGED <<guarded, gpu, next, ran>>
    PROVE  Inside' /\ Marked' = Marked
<1>1. Stays /\ InHand'
  BY DEF Inside, Types, InHand, Stays, guarded, Holds, IsList
<1>. QED  BY <1>1, StaysInside

\* Shutdown tells the GPU thread to stop, and leaves it all it has to do.
LEMMA ShutdownInside ==
    ASSUME Inside, NEW t \in Threads, Shutdown(t)
    PROVE  Inside' /\ Marked' = Marked
<1>0. Types /\ InHand /\ TellGpu
  BY DEF Inside, Shutdown
<1>1. /\ gpu' \in Elsewhere
      /\ gpu'.at = gpu.at \/ (gpu.at = "asleep" /\ gpu'.at = "look")
  BY <1>0, Told
<1>2. stopping' = TRUE /\ ~ stopping /\ processing' = processing /\ submission_count' = submission_count
      /\ commands' = commands
  BY DEF Shutdown
<1>3. Stays
  BY <1>0, <1>1, <1>2 DEF Stays, Types, Shutdown, history, Elsewhere
<1>4. gpu'.submission = gpu.submission /\ gpu'.command = gpu.command
  BY <1>1 DEF Elsewhere
<1>5. InHand'
  BY <1>0, <1>1, <1>2, <1>4 DEF InHand, Holds, IsList
<1>. QED  BY <1>1, <1>3, <1>5, StaysInside

\* The guest GPU looks at its queues, finds nothing to do, and stops for good or sleeps.
LEMMA RestsInside ==
    ASSUME Inside, GpuSleeps \/ GpuStops \/ GpuExits \/ GpuDozes
    PROVE  Inside' /\ Marked' = Marked
<1>0. Types /\ InHand
  BY DEF Inside
<1>1. PICK at \in {"asleep", "stops", "exited", "dozes"} :
        /\ gpu' = [gpu EXCEPT !.at = at] /\ gpu.at \in {"look", "stops"}
        /\ at \in {"stops", "exited"} => stopping /\ commands = <<>> /\ submission_count = 0
  BY <1>0 DEF GpuSleeps, GpuStops, GpuExits, GpuDozes, At, InHand
<1>2. gpu' \in Elsewhere /\ gpu'.at = at
  BY <1>0, <1>1, GoesTo DEF Places
<1>3. /\ queues' = queues /\ commands' = commands /\ next_queue' = next_queue
      /\ submission_count' = submission_count /\ next' = next /\ ran' = ran
      /\ processing' \in BOOLEAN /\ stopping' = stopping
  BY <1>0 DEF Types, GpuSleeps, GpuStops, GpuExits, GpuDozes, guarded, history
<1>4. Stays
  BY <1>0, <1>2, <1>3 DEF Stays, Types, Elsewhere
<1>5. gpu'.submission = gpu.submission /\ gpu'.command = gpu.command
  BY <1>2 DEF Elsewhere
<1>6. InHand'
  BY <1>0, <1>1, <1>2, <1>3, <1>5 DEF InHand, Holds, IsList
<1>7. ~ (gpu.at = "over") /\ ~ (gpu'.at = "over")
  BY <1>1, <1>2
<1>. QED  BY <1>4, <1>6, <1>7, StaysInside

\* The poll of the condition variables makes no request and ends none.
LEMMA WakesInside ==
    ASSUME Inside, WakesAlone
    PROVE  Inside' /\ Marked' = Marked
<1>0. Types /\ InHand /\ UNCHANGED <<guarded, history>>
  BY DEF Inside, WakesAlone
<1>1. CASE TellGpu
  <2>1. /\ gpu' \in Elsewhere
        /\ gpu'.at = gpu.at \/ (gpu.at = "asleep" /\ gpu'.at = "look")
    BY <1>0, <1>1, Told
  <2>2. /\ Stays /\ stopping' = stopping /\ processing' = processing
    BY <1>0, <2>1 DEF Stays, Types, guarded, history, Elsewhere
  <2>3. gpu'.submission = gpu.submission /\ gpu'.command = gpu.command
    BY <2>1 DEF Elsewhere
  <2>4. InHand'
    BY <1>0, <2>1, <2>2, <2>3 DEF InHand, Holds, IsList, Stays
  <2>. QED  BY <2>1, <2>2, <2>4, StaysInside
<1>2. CASE UNCHANGED gpu
  BY <1>0, <1>2, UnchangedInside DEF history
<1>. QED  BY <1>1, <1>2 DEF WakesAlone

--------------------------------------------------------------------------------
(* Commands                                                                *)

\* What the parts of the invariant that are about the queues need, where the requests
\* in them are the same.
LEMMA SameQueues ==
    ASSUME Inside, queues' = queues, submission_count' = submission_count,
           gpu'.submission = gpu.submission
    PROVE  /\ Lines' /\ Counted' /\ Markers' /\ (Holds' <=> Holds)
           /\ \A q, n, type : Has(q, n, type)' <=> Has(q, n, type)
<1>1. SameInHand
  BY DEF SameInHand
<1>2. /\ Holds' <=> Holds
      /\ Lines' /\ Counted' /\ (Holds' => Plain(gpu.submission))
      /\ \A q \in Queues : \A i \in PlacesOf(q)' : Plain(queues'[q][i])
      /\ \A q, n, type : Has(q, n, type)' <=> Has(q, n, type)
  BY <1>1, SameLines
<1>3. Markers'
  BY <1>2 DEF Markers
<1>. QED  BY <1>2, <1>3

\* A command takes the next id and goes behind those that wait.
LEMMA SendsInside ==
    ASSUME Inside, NEW t \in Threads, SendsCommand(t), next <= MaxRequests
    PROVE  Inside' /\ Marked' = Marked
<1>0. Types /\ InHand /\ Apart /\ Settled /\ Accounted
  BY DEF Inside
<1>1. /\ commands' = Append(commands, next) /\ next' = next + 1 /\ queues' = queues
      /\ next_queue' = next_queue /\ submission_count' = submission_count
      /\ processing' = processing /\ stopping' = stopping /\ ran' = ran /\ ~ stopping /\ TellGpu
  BY DEF SendsCommand
<1>2. /\ gpu' \in Elsewhere
      /\ gpu'.at = gpu.at \/ (gpu.at = "asleep" /\ gpu'.at = "look")
  BY <1>0, <1>1, Told
<1>3. gpu'.submission = gpu.submission /\ gpu'.command = gpu.command
  BY <1>2 DEF Elsewhere
<1>4. /\ Lines' /\ Counted' /\ Markers' /\ (Holds' <=> Holds)
      /\ \A q, n, type : Has(q, n, type)' <=> Has(q, n, type)
  BY <1>1, <1>3, SameQueues
<1>5. next \in Ids
  BY <1>0 DEF Types, Ids
<1>6. /\ commands' \in Seq(Ids) /\ Len(commands') = Len(commands) + 1
      /\ \A k \in 1 .. Len(commands) : commands'[k] = commands[k]
      /\ commands'[Len(commands) + 1] = next
  BY <1>0, <1>1, <1>5, Fields, OneBehind
<1>7. Len(commands) \in Nat
  BY <1>0, Fields
<1>8. \A n : Commanded(n)' <=> Commanded(n) \/ n = next
  <2>1. \A k : k \in 1 .. Len(commands') <=> k \in 1 .. Len(commands) \/ k = Len(commands) + 1
    BY <1>6, <1>7
  <2>. QED  BY <1>3, <1>6, <2>1, Zenon DEF Commanded
<1>9. Types'
  <2>1. ran \subseteq 1 .. next' - 1 /\ next' \in 1 .. MaxRequests + 1
    BY <1>0, <1>1, <1>5 DEF Types, Ids
  <2>. QED  BY <1>0, <1>1, <1>2, <1>6, <2>1 DEF Types, Elsewhere
<1>10. InHand'
  BY <1>0, <1>1, <1>2, <1>3, <1>4 DEF InHand, Holds, IsList
<1>11. next \in Int /\ \A n \in Ids : n \in Int
  BY <1>0, Fields
<1>12. gpu'.at = "over" <=> gpu.at = "over"
  BY <1>2
<1>13. Apart'
  <2>1. ASSUME NEW q \in Queues, NEW n \in Ids, NEW type \in Kinds, Has(q, n, type)
        PROVE  /\ n < next + 1 /\ ~Commanded(n) /\ n # next
               /\ \A r \in Queues, other \in Kinds : Has(r, n, other) => r = q /\ other = type
               /\ n \in ran => gpu.at = "over" /\ gpu.submission.id = n
    BY <1>0, <1>11, <2>1 DEF Apart
  <2>. QED  BY <1>1, <1>3, <1>4, <1>8, <1>12, <2>1 DEF Apart
<1>14. Settled'
  BY <1>0, <1>1, <1>3, <1>4, <1>12 DEF Settled, Complete
<1>15. Accounted'
  <2>1. \A n : n \in 1 .. next' - 1 <=> n \in 1 .. next - 1 \/ n = next
    BY <1>0, <1>1 DEF Types
  <2>2. \A k \in 1 .. Len(commands') : commands'[k] < next'
    BY <1>0, <1>1, <1>6, <1>7, <1>11, Fields DEF Accounted
  <2>3. gpu'.command < next'
    BY <1>0, <1>1, <1>3, <1>11, Fields DEF Accounted
  <2>. QED  BY <1>0, <1>1, <1>4, <1>8, <2>1, <2>2, <2>3 DEF Accounted
<1>16. Marked' = Marked
  BY <1>1, <1>4, SameMarked
<1>. QED  BY <1>4, <1>9, <1>10, <1>13, <1>14, <1>15, <1>16 DEF Inside

\* The GPU thread takes the first command.
LEMMA TakesInside ==
    ASSUME Inside, GpuTakesCommand
    PROVE  Inside' /\ Marked' = Marked
<1>0. Types /\ InHand /\ Apart /\ Settled /\ Accounted
  BY DEF Inside
<1>1. /\ gpu.at = "look" /\ commands # <<>> /\ commands' = Tail(commands) /\ processing' = TRUE
      /\ gpu' = [gpu EXCEPT !.at = "command", !.command = Head(commands)]
      /\ queues' = queues /\ next_queue' = next_queue /\ submission_count' = submission_count
      /\ stopping' = stopping /\ next' = next /\ ran' = ran
  BY DEF GpuTakesCommand, At, history
<1>2. /\ Len(commands) \in Nat \ {0} /\ Head(commands) = commands[1] /\ commands[1] \in Ids
      /\ commands' \in Seq(Ids) /\ Len(commands') = Len(commands) - 1
      /\ \A k \in 1 .. Len(commands) - 1 : commands'[k] = commands[k + 1]
  BY <1>0, <1>1, Fields, WithoutFirst
<1>3. /\ gpu'.at = "command" /\ gpu'.command = commands[1] /\ gpu'.submission = gpu.submission
      /\ gpu'.moved = gpu.moved
  BY <1>0, <1>1, <1>2 DEF Types
<1>4. commands[1] \in 0 .. MaxRequests /\ commands[1] # 0
  BY <1>2 DEF Ids
<1>5. /\ Lines' /\ Counted' /\ Markers' /\ (Holds' <=> Holds)
      /\ \A q, n, type : Has(q, n, type)' <=> Has(q, n, type)
  BY <1>1, <1>3, SameQueues
<1>6. ~ Holds /\ gpu.command = 0
  BY <1>0, <1>1 DEF InHand
<1>7. \A n : n # 0 => (Commanded(n)' <=> Commanded(n))
  <2>1. \A k \in 1 .. Len(commands) :
            k = 1 \/ ((k - 1) \in 1 .. Len(commands') /\ commands'[k - 1] = commands[k])
    BY <1>2
  <2>2. \A k \in 1 .. Len(commands') : commands'[k] = commands[k + 1] /\ k + 1 \in 1 .. Len(commands)
    BY <1>2
  <2>3. 1 \in 1 .. Len(commands)
    BY <1>2
  <2>4. \A k \in 1 .. Len(commands) :
            commands[k] = commands[1] \/ \E l \in 1 .. Len(commands') : commands'[l] = commands[k]
    BY <2>1
  <2>5. \A l \in 1 .. Len(commands') : \E k \in 1 .. Len(commands) : commands[k] = commands'[l]
    BY <2>2
  <2>6. ASSUME NEW n, n # 0
        PROVE  Commanded(n)' <=> Commanded(n)
    <3>1. Commanded(n) <=> \E k \in 1 .. Len(commands) : commands[k] = n
      BY <1>6, <2>6 DEF Commanded
    <3>2. Commanded(n)' <=> commands[1] = n \/ \E l \in 1 .. Len(commands') : commands'[l] = n
      BY <1>3 DEF Commanded
    <3>. QED  BY <2>3, <2>4, <2>5, <3>1, <3>2, Zenon
  <2>. QED  BY <2>6
<1>8. Types'
  BY <1>0, <1>1, <1>2, <1>3, <1>4 DEF Types, Places
<1>9. InHand'
  BY <1>1, <1>3, <1>4, <1>5, <1>6 DEF InHand
<1>10. Apart'
  <2>1. ASSUME NEW q \in Queues, NEW n \in Ids, NEW type \in Kinds, Has(q, n, type)
        PROVE  /\ n < next /\ ~Commanded(n) /\ n # 0 /\ n \notin ran
               /\ \A r \in Queues, other \in Kinds : Has(r, n, other) => r = q /\ other = type
    BY <1>0, <1>1, <2>1, Fields DEF Apart
  <2>. QED  BY <1>1, <1>5, <1>7, <2>1 DEF Apart
<1>11. Settled'
  BY <1>3 DEF Settled
<1>12. Accounted'
  <2>1. \A n \in 1 .. next - 1 : n # 0
    OBVIOUS
  <2>2. \A k \in 1 .. Len(commands') : commands'[k] < next
    BY <1>0, <1>2 DEF Accounted
  <2>3. commands[1] < next
    BY <1>0, <1>2 DEF Accounted
  <2>. QED  BY <1>0, <1>1, <1>3, <1>5, <1>7, <2>1, <2>2, <2>3 DEF Accounted
<1>13. Marked' = Marked
  BY <1>1, <1>5, SameMarked
<1>. QED  BY <1>5, <1>8, <1>9, <1>10, <1>11, <1>12, <1>13 DEF Inside

\* A command that has been taken has run, between two submissions or between two packets.
LEMMA CommandRan ==
    ASSUME Types, Accounted, NEW c \in Ids, Commanded(c)
    PROVE  c < next /\ ran \cup {c} \subseteq 1 .. next - 1
<1>1. c < next
  BY DEF Accounted, Commanded
<1>. QED  BY <1>1 DEF Types, Ids

\* The GPU thread runs the command it has taken.
LEMMA RunsCommandInside ==
    ASSUME Inside, RunsCommand
    PROVE  Inside' /\ Marked' = Marked
<1>0. Types /\ InHand /\ Apart /\ Settled /\ Accounted
  BY DEF Inside
<1>1. /\ gpu.at = "command" /\ ran' = ran \cup {gpu.command}
      /\ gpu' = [gpu EXCEPT !.at = "over", !.command = 0]
      /\ queues' = queues /\ commands' = commands /\ next_queue' = next_queue
      /\ submission_count' = submission_count /\ processing' = processing
      /\ stopping' = stopping /\ next' = next
  BY DEF RunsCommand, At, guarded
<1>2. /\ gpu'.at = "over" /\ gpu'.command = 0 /\ gpu'.submission = gpu.submission
      /\ gpu'.moved = gpu.moved
  BY <1>0, <1>1 DEF Types
<1>3. /\ Lines' /\ Counted' /\ Markers' /\ (Holds' <=> Holds)
      /\ \A q, n, type : Has(q, n, type)' <=> Has(q, n, type)
  BY <1>1, <1>2, SameQueues
<1>4. ~ Holds /\ gpu.command # 0 /\ processing /\ gpu.command \in Ids
  BY <1>0, <1>1 DEF InHand, Types, Ids
<1>5. \A n \in Ids : n = gpu.command \/ (Commanded(n)' <=> Commanded(n))
  BY <1>1, <1>2, Fields, <1>0 DEF Commanded
<1>6. Commanded(gpu.command)
  BY DEF Commanded
<1>7. gpu.command < next /\ ran' \subseteq 1 .. next - 1
  BY <1>0, <1>1, <1>4, <1>6, CommandRan
<1>8. Types'
  <2>1. 0 \in 0 .. MaxRequests /\ "over" \in Places
    BY <1>0 DEF Types, Places
  <2>2. gpu' \in [at : Places, command : 0 .. MaxRequests,
                 submission : Submission \cup {Nothing}, moved : BOOLEAN]
    BY <1>0, <1>1, <2>1 DEF Types
  <2>. QED  BY <1>0, <1>1, <1>7, <2>2 DEF Types
<1>9. InHand'
  BY <1>0, <1>1, <1>2, <1>3, <1>4 DEF InHand
<1>10. Apart'
  <2>1. ASSUME NEW q \in Queues, NEW n \in Ids, NEW type \in Kinds, Has(q, n, type)
        PROVE  /\ n < next /\ ~Commanded(n) /\ n # gpu.command /\ n \notin ran
               /\ \A r \in Queues, other \in Kinds : Has(r, n, other) => r = q /\ other = type
    BY <1>0, <1>1, <1>6, <2>1 DEF Apart
  <2>. QED  BY <1>1, <1>3, <1>5, <2>1 DEF Apart
<1>11. Settled'
  BY <1>3, <1>4 DEF Settled
<1>12. Accounted'
  <2>1. \A n \in 1 .. next - 1 : n \in Ids
    BY <1>0 DEF Types, Ids
  <2>2. 0 < next
    BY <1>0 DEF Types
  <2>. QED  BY <1>0, <1>1, <1>2, <1>3, <1>5, <2>1, <2>2 DEF Accounted
<1>13. Marked' = Marked
  <2>1. \A n \in Ids, q \in Queues : Has(q, n, "SuspendPoint") => n # gpu.command
    BY <1>0, <1>6 DEF Apart, Kinds
  <2>. QED  BY <1>1, <1>3, <2>1 DEF Marked
<1>. QED  BY <1>3, <1>8, <1>9, <1>10, <1>11, <1>12, <1>13 DEF Inside

\* It runs a command between two packets.
LEMMA ServesInside ==
    ASSUME Inside, ServesCommand
    PROVE  Inside' /\ Marked' = Marked
<1>0. Types /\ InHand /\ Apart /\ Settled /\ Accounted
  BY DEF Inside
<1> DEFINE c == Head(commands)
<1>1. /\ gpu.at \in {"constants", "commands"} /\ commands # <<>> /\ commands' = Tail(commands)
      /\ ran' = ran \cup {c} /\ gpu' = gpu
      /\ queues' = queues /\ next_queue' = next_queue /\ submission_count' = submission_count
      /\ processing' = processing /\ stopping' = stopping /\ next' = next
  BY DEF ServesCommand, At
<1>2. /\ Len(commands) \in Nat \ {0} /\ c = commands[1] /\ c \in Ids
      /\ commands' \in Seq(Ids) /\ Len(commands') = Len(commands) - 1
      /\ \A k \in 1 .. Len(commands) - 1 : commands'[k] = commands[k + 1]
  BY <1>0, <1>1, Fields, WithoutFirst
<1> HIDE DEF c
<1>3. /\ Lines' /\ Counted' /\ Markers' /\ (Holds' <=> Holds)
      /\ \A q, n, type : Has(q, n, type)' <=> Has(q, n, type)
  BY <1>1, SameQueues
<1>4. \A k \in 1 .. Len(commands) :
        commands[k] = c \/ \E l \in 1 .. Len(commands') : commands'[l] = commands[k]
  <2>1. \A k \in 1 .. Len(commands) :
          k = 1 \/ (k - 1 \in 1 .. Len(commands') /\ commands'[k - 1] = commands[k])
    BY <1>2
  <2>. QED  BY <1>2, <2>1
<1>5. \A l \in 1 .. Len(commands') : \E k \in 1 .. Len(commands) : commands[k] = commands'[l]
  <2>1. \A k \in 1 .. Len(commands') : commands'[k] = commands[k + 1] /\ k + 1 \in 1 .. Len(commands)
    BY <1>2
  <2>. QED  BY <2>1
<1>6. \A n : /\ Commanded(n)' => Commanded(n)
             /\ Commanded(n) => n = c \/ Commanded(n)'
  <2>1. \A n : Commanded(n)' => Commanded(n)
    BY <1>1, <1>5 DEF Commanded
  <2>2. \A n : Commanded(n) => n = c \/ Commanded(n)'
    BY <1>1, <1>4 DEF Commanded
  <2>. QED  BY <2>1, <2>2
<1>7. Commanded(c)
  <2>1. 1 \in 1 .. Len(commands)
    BY <1>2
  <2>. QED  BY <1>2, <2>1 DEF Commanded
<1>8. c < next /\ ran' \subseteq 1 .. next - 1
  BY <1>0, <1>1, <1>2, <1>7, CommandRan
<1>9. Types'
  BY <1>0, <1>1, <1>2, <1>8 DEF Types
<1>10. InHand'
  BY <1>0, <1>1 DEF InHand, Holds, IsList
<1>11. \A q \in Queues, n \in Ids, type \in Kinds : Has(q, n, type) => n # c
  BY <1>0, <1>7 DEF Apart
<1>12. Apart'
  <2>1. ASSUME NEW q \in Queues, NEW n \in Ids, NEW type \in Kinds, Has(q, n, type)
        PROVE  /\ n < next /\ ~Commanded(n) /\ n # c /\ n \notin ran
               /\ \A r \in Queues, other \in Kinds : Has(r, n, other) => r = q /\ other = type
    BY <1>0, <1>1, <1>11, <2>1 DEF Apart
  <2>. QED  BY <1>1, <1>3, <1>6, <2>1 DEF Apart
<1>13. Settled'
  BY <1>1 DEF Settled
<1>14. Accounted'
  <2>1. \A k \in 1 .. Len(commands') : commands'[k] < next
    BY <1>0, <1>5 DEF Accounted
  <2>. QED  BY <1>0, <1>1, <1>3, <1>6, <2>1 DEF Accounted
<1>15. Marked' = Marked
  <2>1. \A n \in Ids, q \in Queues : Has(q, n, "SuspendPoint") => n # c
    BY <1>11 DEF Kinds
  <2>. QED  BY <1>1, <1>3, <2>1 DEF Marked
<1>. QED  BY <1>3, <1>9, <1>10, <1>12, <1>13, <1>14, <1>15 DEF Inside

--------------------------------------------------------------------------------
(* The slice of a submission                                               *)

\* The GPU thread goes on with the packets of the submission it holds, or is over with
\* it, in which case the submission has run if none of them is left.
Slice ==
    /\ queues' = queues /\ commands' = commands /\ next_queue' = next_queue
    /\ submission_count' = submission_count /\ processing' = processing /\ stopping' = stopping
    /\ next' = next
    /\ gpu.at \in {"constants", "commands"}
    /\ gpu' \in [at : {"constants", "commands", "over"}, command : {gpu.command},
                 submission : Submission, moved : BOOLEAN]
    /\ gpu'.submission.id = gpu.submission.id /\ gpu'.submission.queue = gpu.submission.queue
    /\ gpu'.submission.type = gpu.submission.type /\ Plain(gpu'.submission)
    /\ gpu'.at = "commands" => IsList
    /\ IF gpu'.at = "over" /\ Complete' THEN ran' = ran \cup {gpu.submission.id} ELSE ran' = ran

\* Packets leave the submission that the GPU thread holds, and its last slice ends it.
LEMMA SliceInside ==
    ASSUME Inside, Slice
    PROVE  /\ Inside' /\ Marked' = Marked \ ran'
           /\ \A n \in Marked : n # gpu.submission.id => n \in Marked'
           /\ gpu.submission.id \in Marked <=> gpu.submission.type = "SuspendPoint"
<1>0. Types /\ InHand /\ Apart /\ Settled /\ Accounted
  BY DEF Inside
<1>1. /\ gpu.at \in {"constants", "commands"} /\ gpu'.at \in {"constants", "commands", "over"}
      /\ gpu'.command = gpu.command /\ gpu'.submission \in Submission /\ gpu'.moved \in BOOLEAN
      /\ gpu'.submission.id = gpu.submission.id /\ gpu'.submission.queue = gpu.submission.queue
      /\ gpu'.submission.type = gpu.submission.type /\ Plain(gpu'.submission)
      /\ gpu'.at = "commands" => IsList
      /\ IF gpu'.at = "over" /\ Complete' THEN ran' = ran \cup {gpu.submission.id} ELSE ran' = ran
  BY DEF Slice
<1>2. /\ queues' = queues /\ commands' = commands /\ next_queue' = next_queue
      /\ submission_count' = submission_count /\ processing' = processing /\ stopping' = stopping
      /\ next' = next
  BY DEF Slice
<1> DEFINE id == gpu.submission.id
<1>3. Holds /\ gpu.submission \in Submission /\ id \in Ids /\ gpu.submission.queue \in Queues
      /\ gpu.submission.type \in Kinds
  BY <1>0, <1>1, Fields DEF InHand
<1>4. SameInHand
  BY <1>1 DEF SameInHand
<1>5. /\ Holds' /\ Lines' /\ Counted'
      /\ \A q \in Queues : \A i \in PlacesOf(q)' : Plain(queues'[q][i])
      /\ \A q, n, type : Has(q, n, type)' <=> Has(q, n, type)
  BY <1>2, <1>3, <1>4, SameLines
<1>6. Markers'
  BY <1>1, <1>5 DEF Markers
<1>7. Has(gpu.submission.queue, id, gpu.submission.type)
  BY <1>3 DEF Has, HoldsOf
<1>8. id < next /\ id \notin ran /\ ~ Commanded(id)
  BY <1>0, <1>1, <1>3, <1>7 DEF Apart
<1>9. \A q \in Queues, type \in Kinds : Has(q, id, type) => type = gpu.submission.type
  BY <1>0, <1>3, <1>7 DEF Apart
<1>10. ran' \subseteq ran \cup {id} /\ ran \subseteq ran' /\ ran' \subseteq 1 .. next - 1
  <2>1. id \in 1 .. next - 1
    BY <1>0, <1>3, <1>8 DEF Types, Ids
  <2>. QED  BY <1>0, <1>1, <2>1 DEF Types
<1>11. Types'
  <2>1. gpu' \in [at : Places, command : 0 .. MaxRequests,
                  submission : Submission \cup {Nothing}, moved : BOOLEAN]
    BY <1>0 DEF Types, Slice, Places
  <2>. QED  BY <1>0, <1>2, <1>10, <2>1 DEF Types
<1>12. InHand'
  BY <1>0, <1>1, <1>2, <1>5 DEF InHand, IsList
<1>13. \A n : Commanded(n)' <=> Commanded(n)
  BY <1>1, <1>2 DEF Commanded
<1>14. id \in ran' => gpu'.at = "over" /\ Complete'
  BY <1>1, <1>8
<1>15. Apart'
  <2>1. ASSUME NEW q \in Queues, NEW n \in Ids, NEW type \in Kinds, Has(q, n, type)
        PROVE  /\ n < next /\ ~Commanded(n) /\ (n = id \/ n \notin ran)
               /\ \A r \in Queues, other \in Kinds : Has(r, n, other) => r = q /\ other = type
    BY <1>0, <1>1, <2>1 DEF Apart
  <2>. QED  BY <1>1, <1>2, <1>5, <1>10, <1>13, <1>14, <2>1 DEF Apart
<1>16. Settled'
  BY <1>1, <1>8, <1>14 DEF Settled
<1>17. Accounted'
  BY <1>0, <1>1, <1>2, <1>5, <1>10, <1>13 DEF Accounted
<1>18. Marked' = Marked \ ran'
  BY <1>5, <1>10 DEF Marked
<1>19. \A n \in Marked : n # id => n \in Marked'
  BY <1>10, <1>18 DEF Marked
<1>20. id \in Marked <=> gpu.submission.type = "SuspendPoint"
  BY <1>3, <1>7, <1>8, <1>9 DEF Marked, Kinds
<1>. QED  BY <1>5, <1>6, <1>11, <1>12, <1>15, <1>16, <1>17, <1>18, <1>19, <1>20 DEF Inside

\* The steps of a slice are such steps.
LEMMA PacketsInside ==
    ASSUME Inside, RunsConstant \/ ConstantsStop \/ RunsPacket \/ CommandsStop
    PROVE  Inside' /\ Marked' = Marked
<1>0. Types /\ InHand /\ Markers
  BY DEF Inside
<1>1. /\ gpu.at \in {"constants", "commands"} /\ IsList
      /\ UNCHANGED <<guarded, next>>
  BY <1>0 DEF InHand, RunsConstant, ConstantsStop, RunsPacket, CommandsStop, At, history
<1>2. /\ Holds /\ gpu.submission \in Submission /\ gpu.submission.type = "List"
      /\ gpu.command \in 0 .. MaxRequests /\ gpu.at \in Places /\ gpu.moved \in BOOLEAN
  BY <1>0, <1>1, Fields DEF InHand, IsList
<1>3. /\ gpu.submission.commands \in Seq(Packet) /\ gpu.submission.constants \in Seq(Packet)
      /\ gpu \in [at : Places, command : {gpu.command}, submission : Submission, moved : BOOLEAN]
  BY <1>0, <1>2 DEF Submission, Types
<1>4. CASE RunsConstant
  <2>1. /\ gpu' = [gpu EXCEPT !.submission.constants = Tail(@), !.moved = TRUE] /\ ran' = ran
        /\ gpu.submission.constants # <<>> /\ gpu.at = "constants"
    BY <1>4 DEF RunsConstant, Goes, history, At
  <2>2. Tail(gpu.submission.constants) \in Seq(Packet)
    BY <1>3, <2>1, WithoutFirst
  <2>3. /\ gpu'.at = "constants" /\ gpu'.command = gpu.command /\ gpu'.moved = TRUE
        /\ gpu'.submission = [gpu.submission EXCEPT !.constants = Tail(gpu.submission.constants)]
        /\ gpu' = [at |-> "constants", command |-> gpu.command, moved |-> TRUE,
                   submission |-> [gpu.submission EXCEPT !.constants = Tail(gpu.submission.constants)]]
    BY <1>3, <2>1
  <2>4. /\ gpu'.submission \in Submission /\ gpu'.submission.id = gpu.submission.id
        /\ gpu'.submission.queue = gpu.submission.queue /\ gpu'.submission.type = "List"
    BY <1>2, <2>2, <2>3 DEF Submission
  <2>5. Slice
    BY <1>1, <1>2, <2>1, <2>3, <2>4 DEF Slice, guarded, Plain
  <2>6. gpu'.at # "over"
    BY <2>3
  <2>7. Marked' = Marked
    BY <2>1, <2>5, SliceInside DEF Marked
  <2>. QED  BY <2>5, <2>7, SliceInside
<1>5. CASE RunsPacket
  <2>1. /\ gpu' = [gpu EXCEPT !.submission.commands = Tail(@), !.moved = TRUE] /\ ran' = ran
        /\ gpu.submission.commands # <<>> /\ gpu.at = "commands"
    BY <1>5 DEF RunsPacket, Goes, history, At
  <2>2. Tail(gpu.submission.commands) \in Seq(Packet)
    BY <1>3, <2>1, WithoutFirst
  <2>3. /\ gpu'.at = "commands" /\ gpu'.command = gpu.command /\ gpu'.moved = TRUE
        /\ gpu'.submission = [gpu.submission EXCEPT !.commands = Tail(gpu.submission.commands)]
        /\ gpu' = [at |-> "commands", command |-> gpu.command, moved |-> TRUE,
                   submission |-> [gpu.submission EXCEPT !.commands = Tail(gpu.submission.commands)]]
    BY <1>3, <2>1
  <2>4. /\ gpu'.submission \in Submission /\ gpu'.submission.id = gpu.submission.id
        /\ gpu'.submission.queue = gpu.submission.queue /\ gpu'.submission.type = "List"
    BY <1>2, <2>2, <2>3 DEF Submission
  <2>5. Slice
    BY <1>1, <1>2, <2>1, <2>3, <2>4 DEF Slice, guarded, Plain
  <2>6. Marked' = Marked
    BY <2>1, <2>5, SliceInside DEF Marked
  <2>. QED  BY <2>5, <2>6, SliceInside
<1>6. CASE ConstantsStop \/ CommandsStop
  <2>1. PICK at \in {"constants", "commands", "over"}, moved \in BOOLEAN :
            /\ gpu' = [gpu EXCEPT !.at = at, !.moved = moved]
            /\ IF at = "over" /\ Complete THEN ran' = ran \cup {gpu.submission.id} ELSE ran' = ran
    <3>1. CASE ConstantsStop
      <4>1. gpu' = [gpu EXCEPT !.at = "commands", !.moved = gpu.moved] /\ ran' = ran
        BY <1>3, <3>1 DEF ConstantsStop, history
      <4>. QED  BY <1>2, <4>1
    <3>2. CASE CommandsStop
      <4>1. CASE ~Complete /\ gpu.moved /\ gpu.submission.queue = Graphics
        <5>1. gpu' = [gpu EXCEPT !.at = "constants", !.moved = FALSE] /\ ran' = ran
          BY <3>2, <4>1 DEF CommandsStop
        <5>. QED  BY <5>1
      <4>2. CASE ~ (~Complete /\ gpu.moved /\ gpu.submission.queue = Graphics)
        <5>1. /\ gpu' = [gpu EXCEPT !.at = "over", !.moved = gpu.moved]
              /\ ran' = IF Complete THEN ran \cup {gpu.submission.id} ELSE ran
          BY <1>3, <3>2, <4>2 DEF CommandsStop
        <5>. QED  BY <1>2, <5>1
      <4>. QED  BY <4>1, <4>2
    <3>. QED  BY <1>6, <3>1, <3>2
  <2>2. /\ gpu' = [at |-> at, command |-> gpu.command, submission |-> gpu.submission, moved |-> moved]
        /\ gpu'.submission = gpu.submission /\ gpu'.at = at
    BY <1>3, <2>1
  <2>3. Complete' <=> Complete
    BY <2>2 DEF Complete
  <2>4. Slice
    BY <1>1, <1>2, <2>1, <2>2, <2>3 DEF Slice, guarded, Plain
  <2>5. gpu.submission.id \notin Marked /\ \A n \in Marked : n \notin ran
    BY <1>2, <2>4, SliceInside DEF Marked
  <2>6. Marked' = Marked
    BY <2>1, <2>4, <2>5, SliceInside
  <2>. QED  BY <2>4, <2>6, SliceInside
<1>. QED  BY <1>4, <1>5, <1>6

\* A marker has run, and a suspend point passes its permission on to the native GPU.
LEMMA MarkerInside ==
    ASSUME Inside, RunsMarker
    PROVE  /\ Inside'
           /\ \/ gpu.submission.type = "SuspendPoint" /\ releases' = releases + 1
                 /\ gpu.submission.id \in Marked /\ Marked' = Marked \ {gpu.submission.id}
              \/ releases' = releases /\ Marked' = Marked
<1>0. Types /\ InHand /\ Markers
  BY DEF Inside
<1>1. /\ gpu.at = "constants" /\ ~ IsList /\ gpu' = [gpu EXCEPT !.at = "over"]
      /\ ran' = ran \cup {gpu.submission.id} /\ UNCHANGED <<guarded, next>>
  BY DEF RunsMarker, At
<1>2. /\ Holds /\ gpu.submission \in Submission
      /\ gpu.command \in 0 .. MaxRequests /\ gpu.moved \in BOOLEAN
  BY <1>0, <1>1, Fields DEF InHand
<1>3. /\ gpu' = [at |-> "over", command |-> gpu.command, submission |-> gpu.submission,
                moved |-> gpu.moved]
      /\ gpu'.submission = gpu.submission /\ gpu'.at = "over"
  BY <1>0, <1>1 DEF Types
<1>4. Plain(gpu.submission) /\ Complete'
  BY <1>0, <1>1, <1>2, <1>3 DEF Markers, Plain, IsList, Complete
<1>5. Slice
  BY <1>1, <1>2, <1>3, <1>4 DEF Slice, guarded
<1>6. Inside' /\ Marked' = Marked \ ran'
      /\ (gpu.submission.id \in Marked <=> gpu.submission.type = "SuspendPoint")
  BY <1>5, SliceInside
<1>7. Marked' = Marked \ {gpu.submission.id}
  BY <1>1, <1>6 DEF Marked
<1>. QED  BY <1>6, <1>7 DEF RunsMarker, Deferred

--------------------------------------------------------------------------------
(* The queues                                                              *)

\* The places that are taken are counted one by one.
LEMMA WaitingIs ==
    ASSUME queues \in [Queues -> Seq(Submission)]
    PROVE  \A x : x \in Waiting <=> \E q \in Queues : \E i \in PlacesOf(q) : x = <<q, i>>
<1>1. \A q \in Queues : DOMAIN queues[q] = PlacesOf(q)
  BY DEF PlacesOf
<1>. QED  BY <1>1 DEF Waiting

\* A queue is longer by one, and the counter too.
LEMMA OneMoreWaits ==
    ASSUME Types, Counted, NEW p \in Queues, queues' \in [Queues -> Seq(Submission)],
           Len(queues'[p]) = Len(queues[p]) + 1,
           \A q \in Queues : q # p => queues'[q] = queues[q],
           submission_count' = submission_count + 1
    PROVE  Counted' /\ submission_count' \in Nat
<1>1. Len(queues[p]) \in Nat /\ queues \in [Queues -> Seq(Submission)]
  BY DEF Types
<1> DEFINE new == <<p, Len(queues[p]) + 1>>
<1>2. \A i : i \in PlacesOf(p)' <=> i \in PlacesOf(p) \/ i = Len(queues[p]) + 1
  BY <1>1 DEF PlacesOf
<1>3. \A q \in Queues : q # p => PlacesOf(q)' = PlacesOf(q)
  BY DEF PlacesOf
<1>4. \A x : x \in Waiting <=> \E q \in Queues : \E i \in PlacesOf(q) : x = <<q, i>>
  BY <1>1, WaitingIs
<1>5. \A x : x \in Waiting' <=> \E q \in Queues : \E i \in PlacesOf(q)' : x = <<q, i>>
  <2>1. \A q \in Queues : DOMAIN queues'[q] = PlacesOf(q)'
    BY DEF PlacesOf
  <2>. QED  BY <2>1 DEF Waiting
<1>6. \A x : x \in Waiting' <=> x \in Waiting \/ x = new
  BY <1>2, <1>3, <1>4, <1>5
<1>7. new \notin Waiting
  <2>1. ~ (Len(queues[p]) + 1 \in PlacesOf(p))
    BY <1>1 DEF PlacesOf
  <2>. QED  BY <1>4, <2>1
<1>8. Waiting' = Waiting \cup {new}
  BY <1>6
<1>9. IsFiniteSet(Waiting') /\ Cardinality(Waiting') = Cardinality(Waiting) + 1
  BY <1>7, <1>8, FS_AddElement DEF Counted
<1>. QED  BY <1>9 DEF Counted, Types

\* A queue is shorter by one, and the counter too.
LEMMA OneLessWaits ==
    ASSUME Types, Counted, NEW p \in Queues, queues' \in [Queues -> Seq(Submission)],
           queues[p] # <<>>, Len(queues'[p]) = Len(queues[p]) - 1,
           \A q \in Queues : q # p => queues'[q] = queues[q],
           submission_count' = submission_count - 1
    PROVE  Counted' /\ submission_count' \in Nat
<1>1. Len(queues[p]) \in Nat \ {0} /\ queues \in [Queues -> Seq(Submission)]
  BY DEF Types
<1> DEFINE old == <<p, Len(queues[p])>>
<1>2. \A i : i \in PlacesOf(p)' <=> i \in PlacesOf(p) /\ i # Len(queues[p])
  BY <1>1 DEF PlacesOf
<1>3. \A q \in Queues : q # p => PlacesOf(q)' = PlacesOf(q)
  BY DEF PlacesOf
<1>4. \A x : x \in Waiting <=> \E q \in Queues : \E i \in PlacesOf(q) : x = <<q, i>>
  BY <1>1, WaitingIs
<1>5. \A x : x \in Waiting' <=> \E q \in Queues : \E i \in PlacesOf(q)' : x = <<q, i>>
  <2>1. \A q \in Queues : DOMAIN queues'[q] = PlacesOf(q)'
    BY DEF PlacesOf
  <2>. QED  BY <2>1 DEF Waiting
<1>6. \A x : x \in Waiting' <=> x \in Waiting /\ x # old
  BY <1>2, <1>3, <1>4, <1>5
<1>7. old \in Waiting
  <2>1. Len(queues[p]) \in PlacesOf(p)
    BY <1>1 DEF PlacesOf
  <2>. QED  BY <1>4, <2>1
<1>8. Waiting' = Waiting \ {old}
  BY <1>6
<1>9. IsFiniteSet(Waiting') /\ Cardinality(Waiting') = Cardinality(Waiting) - 1
  BY <1>7, <1>8, FS_RemoveElement DEF Counted
<1>10. Cardinality(Waiting') \in Nat
  BY <1>9, FS_CardinalityType
<1>. QED  BY <1>9, <1>10 DEF Counted

\* Nothing waits if the counter says so.
LEMMA ZeroIsEmpty ==
    ASSUME Types, Counted, submission_count = 0
    PROVE  \A q \in Queues : PlacesOf(q) = {}
<1>1. Waiting = {}
  BY FS_EmptySet DEF Counted
<1>2. \A x : x \in Waiting <=> \E q \in Queues : \E i \in PlacesOf(q) : x = <<q, i>>
  BY WaitingIs DEF Types
<1>. QED  BY <1>1, <1>2

\* Another chance for the first of each queue leaves all of it as it was but for blocked.
Alike(s, t) ==
    /\ s.id = t.id /\ s.type = t.type /\ s.queue = t.queue /\ s.started = t.started
    /\ s.commands = t.commands /\ s.constants = t.constants

\* Unblocked makes such queues.
LEMMA UnblockedIs ==
    ASSUME Types
    PROVE  /\ Unblocked \in [Queues -> Seq(Submission)]
           /\ \A q \in Queues :
                /\ Len(Unblocked[q]) = Len(queues[q])
                /\ \A i \in PlacesOf(q) : Alike(Unblocked[q][i], queues[q][i])
<1>1. ASSUME NEW q \in Queues
      PROVE  /\ Unblocked[q] \in Seq(Submission) /\ Len(Unblocked[q]) = Len(queues[q])
             /\ \A i \in PlacesOf(q) : Alike(Unblocked[q][i], queues[q][i])
  <2>1. CASE queues[q] = <<>>
    BY <2>1 DEF Unblocked, PlacesOf
  <2>2. CASE queues[q] # <<>>
    <3>1. Unblocked[q] = [queues[q] EXCEPT ![1].blocked = FALSE]
      BY <2>2 DEF Unblocked
    <3>2. queues[q] \in Seq(Submission) /\ Len(queues[q]) \in Nat \ {0}
      BY <2>2 DEF Types
    <3>3. \A s \in Submission : /\ [s EXCEPT !.blocked = FALSE] \in Submission
                                /\ Alike([s EXCEPT !.blocked = FALSE], s)
      BY DEF Submission, Alike
    <3>4. /\ DOMAIN Unblocked[q] = 1 .. Len(queues[q])
          /\ \A i \in 1 .. Len(queues[q]) : queues[q][i] \in Submission
          /\ \A i \in 1 .. Len(queues[q]) : Unblocked[q][i] =
                IF i = 1 THEN [queues[q][1] EXCEPT !.blocked = FALSE] ELSE queues[q][i]
      BY <3>1, <3>2
    <3>5. \A i \in 1 .. Len(queues[q]) :
            Unblocked[q][i] \in Submission /\ Alike(Unblocked[q][i], queues[q][i])
      <4>1. \A s : Alike(s, s)
        BY DEF Alike
      <4>2. ASSUME NEW i \in 1 .. Len(queues[q])
            PROVE  Unblocked[q][i] \in Submission /\ Alike(Unblocked[q][i], queues[q][i])
        <5>1. CASE i = 1
          BY <3>3, <3>4, <5>1
        <5>2. CASE i # 1
          BY <3>4, <4>1, <5>2
        <5>. QED  BY <5>1, <5>2
      <4>. QED  BY <4>2
    <3>6. Unblocked[q] \in [1 .. Len(queues[q]) -> Submission]
      BY <3>1, <3>4, <3>5
    <3>. QED  BY <3>2, <3>5, <3>6 DEF PlacesOf
  <2>. QED  BY <2>1, <2>2
<1>. QED  BY <1>1 DEF Unblocked

\* The parts that are about the queues when the first of each gets another chance.
LEMMA UnblockedLines ==
    ASSUME Inside, queues' = Unblocked, submission_count' = submission_count,
           \A q : HoldsOf(q)' => HoldsOf(q) /\ gpu'.submission.id = gpu.submission.id
    PROVE  /\ queues' \in [Queues -> Seq(Submission)] /\ Lines' /\ Counted'
           /\ \A q \in Queues : \A i \in PlacesOf(q)' : Plain(queues'[q][i])
           /\ \A q \in Queues : /\ PlacesOf(q)' = PlacesOf(q)
                                /\ \A i \in PlacesOf(q) : Alike(queues'[q][i], queues[q][i])
<1>0. Types /\ Lines /\ Markers /\ Counted
  BY DEF Inside
<1>1. /\ queues' \in [Queues -> Seq(Submission)]
      /\ \A q \in Queues : Len(queues'[q]) = Len(queues[q])
      /\ \A q \in Queues : \A i \in PlacesOf(q) : Alike(queues'[q][i], queues[q][i])
  BY <1>0, UnblockedIs
<1>2. \A q \in Queues : PlacesOf(q)' = PlacesOf(q)
  BY <1>1 DEF PlacesOf
<1>3. Lines'
  BY <1>0, <1>1, <1>2 DEF Lines, Alike
<1>4. \A q \in Queues : \A i \in PlacesOf(q)' : Plain(queues'[q][i])
  BY <1>0, <1>1, <1>2 DEF Markers, Plain, Alike
<1>5. Counted'
  <2>1. \A q \in Queues : DOMAIN queues'[q] = DOMAIN queues[q]
    BY <1>0, <1>1 DEF Types
  <2>2. Waiting' = Waiting
    BY <2>1 DEF Waiting
  <2>. QED  BY <1>0, <2>2 DEF Counted
<1>. QED  BY <1>1, <1>2, <1>3, <1>4, <1>5

\* The GPU thread gives all that is blocked another chance.
LEMMA TriesAgainInside ==
    ASSUME Inside, GpuTriesAgain
    PROVE  Inside' /\ Marked' = Marked
<1>0. Types /\ InHand /\ Apart /\ Accounted
  BY DEF Inside
<1>1. /\ gpu.at = "dozes" /\ queues' = Unblocked /\ gpu' = [gpu EXCEPT !.at = "look"]
      /\ commands' = commands /\ next_queue' = next_queue /\ submission_count' = submission_count
      /\ processing' = processing /\ stopping' = stopping /\ next' = next /\ ran' = ran
  BY DEF GpuTriesAgain, At, history
<1>2. gpu' \in Elsewhere /\ gpu'.at = "look"
  BY <1>0, <1>1, GoesTo DEF Places
<1>3. gpu'.submission = gpu.submission /\ gpu'.command = gpu.command /\ ~ Holds
  BY <1>0, <1>1, <1>2 DEF Elsewhere, InHand
<1>4. ~ Holds' /\ \A q : ~ HoldsOf(q) /\ ~ HoldsOf(q)'
  BY <1>3 DEF Holds, HoldsOf
<1>5. /\ queues' \in [Queues -> Seq(Submission)] /\ Lines' /\ Counted'
      /\ \A q \in Queues : /\ PlacesOf(q)' = PlacesOf(q)
                           /\ \A i \in PlacesOf(q) : Alike(queues'[q][i], queues[q][i])
      /\ \A q \in Queues : \A i \in PlacesOf(q)' : Plain(queues'[q][i])
  BY <1>1, <1>4, UnblockedLines
<1>6. \A q \in Queues : \A n, type : Has(q, n, type)' <=> Has(q, n, type)
  BY <1>4, <1>5 DEF Has, Alike
<1>7. Markers'
  BY <1>4, <1>5 DEF Markers
<1>8. Types'
  BY <1>0, <1>1, <1>2, <1>5 DEF Types, Elsewhere
<1>9. InHand'
  BY <1>0, <1>1, <1>2, <1>3, <1>4 DEF InHand
<1>10. \A n : Commanded(n)' <=> Commanded(n)
  BY <1>1, <1>3 DEF Commanded
<1>11. Apart'
  <2>1. ASSUME NEW q \in Queues, NEW n \in Ids, NEW type \in Kinds, Has(q, n, type)
        PROVE  /\ n < next /\ ~Commanded(n) /\ n \notin ran
               /\ \A r \in Queues, other \in Kinds : Has(r, n, other) => r = q /\ other = type
    BY <1>0, <1>1, <2>1 DEF Apart
  <2>. QED  BY <1>1, <1>6, <1>10, <2>1 DEF Apart
<1>12. Settled'
  BY <1>4 DEF Settled
<1>13. Accounted'
  BY <1>0, <1>1, <1>3, <1>6, <1>10 DEF Accounted
<1>14. Marked' = Marked
  BY <1>1, <1>6, SameMarked
<1>. QED  BY <1>5, <1>7, <1>8, <1>9, <1>11, <1>12, <1>13, <1>14 DEF Inside

\* The first submission of a queue comes into the hands of the GPU thread.
LEMMA TakesSubmissionInside ==
    ASSUME Inside, GpuTakesSubmission
    PROVE  Inside' /\ Marked' = Marked
<1>0. Types /\ InHand /\ Lines /\ Markers /\ Counted /\ Apart /\ Accounted
  BY DEF Inside
<1>1. PICK p \in Queues :
        /\ queues[p] # <<>> /\ next_queue' = After(p)
        /\ gpu' = [gpu EXCEPT !.at = "constants", !.moved = FALSE,
                              !.submission = [Head(queues[p]) EXCEPT !.started = TRUE]]
        /\ queues' = [queues EXCEPT ![p] = Tail(@)]
  BY DEF GpuTakesSubmission, Selected, CanRun
<1>2. /\ gpu.at = "look" /\ submission_count' = submission_count - 1 /\ processing' = TRUE
      /\ commands' = commands /\ stopping' = stopping /\ next' = next /\ ran' = ran
  BY DEF GpuTakesSubmission, At, history
<1> DEFINE first == queues[p][1]
           taken == [Head(queues[p]) EXCEPT !.started = TRUE]
<1>3. /\ Len(queues[p]) \in Nat \ {0} /\ Head(queues[p]) = first /\ first \in Submission
      /\ Tail(queues[p]) \in Seq(Submission) /\ Len(Tail(queues[p])) = Len(queues[p]) - 1
      /\ \A k \in 1 .. Len(queues[p]) - 1 : Tail(queues[p])[k] = queues[p][k + 1]
  BY <1>0, <1>1, Fields, WithoutFirst
<1>4. taken \in Submission /\ taken.id = first.id /\ taken.queue = first.queue
      /\ taken.type = first.type /\ taken.commands = first.commands /\ taken.constants = first.constants
  BY <1>3 DEF Submission
<1> HIDE DEF taken
<1>5. /\ gpu'.at = "constants" /\ gpu'.moved = FALSE /\ gpu'.command = gpu.command
      /\ gpu'.submission = taken
      /\ gpu' \in [at : Places, command : 0 .. MaxRequests,
                   submission : Submission \cup {Nothing}, moved : BOOLEAN]
  BY <1>0, <1>1, <1>4 DEF Types, Places, taken
<1>6. /\ queues' \in [Queues -> Seq(Submission)] /\ queues'[p] = Tail(queues[p])
      /\ \A q \in Queues : q # p => queues'[q] = queues[q]
  BY <1>0, <1>1, <1>3 DEF Types
<1>7. 1 \in PlacesOf(p) /\ first.queue = p /\ first.id \in Ids /\ first.id # 0 /\ Plain(first)
      /\ first.type \in Kinds
  <2>1. 1 \in PlacesOf(p)
    BY <1>3 DEF PlacesOf
  <2>. QED  BY <1>0, <2>1, Fields DEF Lines, Markers
<1> HIDE DEF first
<1>8. ~ Holds /\ Holds' /\ \A q : ~ HoldsOf(q) /\ (HoldsOf(q)' <=> q = p)
  BY <1>0, <1>2, <1>4, <1>5, <1>7 DEF InHand, Holds, HoldsOf
<1>9. /\ \A i \in PlacesOf(p)' :
            i \in Nat /\ i >= 1 /\ i + 1 \in PlacesOf(p) /\ queues'[p][i] = queues[p][i + 1]
      /\ \A i \in PlacesOf(p) : i = 1 \/ (i - 1 \in PlacesOf(p)' /\ queues'[p][i - 1] = queues[p][i])
      /\ \A q \in Queues : q # p => PlacesOf(q)' = PlacesOf(q)
  BY <1>3, <1>6 DEF PlacesOf
<1>10. Lines'
  <2>1. ASSUME NEW q \in Queues, NEW i \in PlacesOf(q)', q # p
        PROVE  /\ queues'[q][i].queue = q
               /\ \A j \in PlacesOf(q)' : i < j => queues'[q][i].id < queues'[q][j].id
               /\ i > 1 \/ HoldsOf(q)' => ~queues'[q][i].started
               /\ HoldsOf(q)' => gpu'.submission.id < queues'[q][i].id
    BY <1>0, <1>6, <1>8, <1>9, <2>1 DEF Lines
  <2>2. ASSUME NEW i \in PlacesOf(p)'
        PROVE  /\ queues'[p][i].queue = p
               /\ \A j \in PlacesOf(p)' : i < j => queues'[p][i].id < queues'[p][j].id
               /\ i > 1 \/ HoldsOf(p)' => ~queues'[p][i].started
               /\ HoldsOf(p)' => gpu'.submission.id < queues'[p][i].id
    <3>1. /\ i + 1 \in PlacesOf(p) /\ queues'[p][i] = queues[p][i + 1] /\ i \in Nat
          /\ 1 < i + 1
      BY <1>9
    <3>2. \A j \in PlacesOf(p)' : j + 1 \in PlacesOf(p) /\ queues'[p][j] = queues[p][j + 1]
                                  /\ (i < j => i + 1 < j + 1)
      BY <1>9, <3>1
    <3>3. queues[p][i + 1].queue = p /\ ~ queues[p][i + 1].started /\ first.id < queues[p][i + 1].id
      BY <1>0, <1>7, <3>1 DEF Lines, first
    <3>4. \A j \in PlacesOf(p)' : i < j => queues'[p][i].id < queues'[p][j].id
      BY <1>0, <3>1, <3>2 DEF Lines
    <3>. QED  BY <1>4, <1>5, <3>1, <3>3, <3>4
  <2>. QED  BY <2>1, <2>2 DEF Lines
<1>11. Markers'
  <2>1. Plain(gpu'.submission)
    BY <1>4, <1>5, <1>7 DEF Plain
  <2>2. ASSUME NEW q \in Queues, NEW i \in PlacesOf(q)'
        PROVE  Plain(queues'[q][i])
    <3>1. CASE q # p
      BY <1>0, <1>6, <1>9, <3>1 DEF Markers
    <3>2. CASE q = p
      <4>1. i + 1 \in PlacesOf(p) /\ queues'[p][i] = queues[p][i + 1]
        BY <1>9, <3>2
      <4>. QED  BY <1>0, <3>2, <4>1 DEF Markers
    <3>. QED  BY <3>1, <3>2
  <2>. QED  BY <2>1, <2>2 DEF Markers
<1>12. \A q \in Queues : \A n, type : Has(q, n, type)' <=> Has(q, n, type)
  <2>1. ASSUME NEW q \in Queues, NEW n, NEW type
        PROVE  Has(q, n, type)' <=> Has(q, n, type)
    <3>1. CASE q # p
      BY <1>6, <1>8, <1>9, <3>1 DEF Has
    <3>2. CASE q = p
      <4>1. Has(p, n, type) <=> \E i \in PlacesOf(p) : queues[p][i].id = n /\ queues[p][i].type = type
        BY <1>8 DEF Has
      <4>2. Has(p, n, type)' <=> \/ first.id = n /\ first.type = type
                                 \/ \E i \in PlacesOf(p)' : queues'[p][i].id = n /\ queues'[p][i].type = type
        BY <1>4, <1>5, <1>8 DEF Has
      <4>3. (\E i \in PlacesOf(p)' : queues'[p][i].id = n /\ queues'[p][i].type = type)
            => \E i \in PlacesOf(p) : queues[p][i].id = n /\ queues[p][i].type = type
        BY <1>9
      <4>4. (\E i \in PlacesOf(p) : queues[p][i].id = n /\ queues[p][i].type = type)
            => \/ first.id = n /\ first.type = type
               \/ \E i \in PlacesOf(p)' : queues'[p][i].id = n /\ queues'[p][i].type = type
        BY <1>9 DEF first
      <4>5. first.id = n /\ first.type = type
            => \E i \in PlacesOf(p) : queues[p][i].id = n /\ queues[p][i].type = type
        BY <1>7 DEF first
      <4>. QED  BY <3>2, <4>1, <4>2, <4>3, <4>4, <4>5
    <3>. QED  BY <3>1, <3>2
  <2>. QED  BY <2>1
<1>13. Counted' /\ submission_count' \in Nat
  BY <1>0, <1>1, <1>2, <1>3, <1>6, OneLessWaits
<1>14. Types'
  <2>1. next_queue' \in Queues
    BY <1>1, QueuesAre
  <2>. QED  BY <1>0, <1>2, <1>5, <1>6, <1>13, <2>1 DEF Types
<1>15. InHand'
  BY <1>0, <1>2, <1>5, <1>8 DEF InHand
<1>16. \A n : Commanded(n)' <=> Commanded(n)
  BY <1>2, <1>5 DEF Commanded
<1>17. Apart'
  <2>1. ASSUME NEW q \in Queues, NEW n \in Ids, NEW type \in Kinds, Has(q, n, type)
        PROVE  /\ n < next /\ ~Commanded(n) /\ n \notin ran
               /\ \A r \in Queues, other \in Kinds : Has(r, n, other) => r = q /\ other = type
    BY <1>0, <1>2, <2>1 DEF Apart
  <2>. QED  BY <1>2, <1>12, <1>16, <2>1 DEF Apart
<1>18. Settled'
  BY <1>5 DEF Settled
<1>19. Accounted'
  BY <1>0, <1>2, <1>5, <1>12, <1>16 DEF Accounted
<1>20. Marked' = Marked
  BY <1>2, <1>12, SameMarked
<1>. QED  BY <1>10, <1>11, <1>13, <1>14, <1>15, <1>17, <1>18, <1>19, <1>20 DEF Inside

\* A submission that has stalled goes back to the front of its queue.
LEMMA PutBackInside ==
    ASSUME Inside, GpuLooksAgain, Holds, ~ Complete
    PROVE  Inside' /\ Marked' = Marked
<1>0. Types /\ InHand /\ Lines /\ Markers /\ Counted /\ Apart /\ Settled /\ Accounted
  BY DEF Inside
<1> DEFINE held == gpu.submission
           back == [held EXCEPT !.blocked = TRUE]
<1>p. PICK p \in Queues : p = held.queue
  BY <1>0, Fields
<1>1. /\ gpu.at = "over" /\ queues' = [queues EXCEPT ![p] = <<back>> \o @]
      /\ submission_count' = submission_count + 1 /\ processing' = FALSE
      /\ gpu' = [gpu EXCEPT !.at = "look", !.submission = Nothing]
      /\ commands' = commands /\ next_queue' = next_queue /\ stopping' = stopping
      /\ next' = next /\ ran' = ran
  BY <1>p DEF GpuLooksAgain, At, history, Holds, PutBack
<1>2. held \in Submission /\ p \in Queues /\ held.id \in Ids /\ held.type \in Kinds
  BY <1>0, <1>p, Fields
<1>3. /\ back \in Submission /\ back.id = held.id /\ back.queue = p /\ back.type = held.type
      /\ back.commands = held.commands /\ back.constants = held.constants
  BY <1>2, <1>p DEF Submission
<1> HIDE DEF back
<1>4. /\ <<back>> \o queues[p] \in Seq(Submission)
      /\ Len(<<back>> \o queues[p]) = Len(queues[p]) + 1
      /\ (<<back>> \o queues[p])[1] = back
      /\ \A k \in 1 .. Len(queues[p]) : (<<back>> \o queues[p])[k + 1] = queues[p][k]
  BY <1>0, <1>2, <1>3, Fields, OneBefore
<1>5. /\ queues' \in [Queues -> Seq(Submission)] /\ queues'[p] = <<back>> \o queues[p]
      /\ \A q \in Queues : q # p => queues'[q] = queues[q]
  BY <1>0, <1>1, <1>2, <1>4 DEF Types
<1>6. /\ gpu'.at = "look" /\ gpu'.submission = Nothing /\ gpu'.command = gpu.command
      /\ gpu' \in [at : Places, command : 0 .. MaxRequests,
                   submission : Submission \cup {Nothing}, moved : BOOLEAN]
  BY <1>0, <1>1 DEF Types, Places
<1>7. ~ Holds' /\ \A q : ~ HoldsOf(q)' /\ (HoldsOf(q) <=> q = p)
  BY <1>6, <1>p DEF Holds, HoldsOf, Nothing
<1>8. /\ 1 \in PlacesOf(p)' /\ queues'[p][1] = back
      /\ \A i \in PlacesOf(p)' :
            \/ i = 1
            \/ i - 1 \in PlacesOf(p) /\ queues'[p][i] = queues[p][i - 1] /\ i > 1 /\ i \in Nat
      /\ \A i \in PlacesOf(p) : i + 1 \in PlacesOf(p)' /\ queues'[p][i + 1] = queues[p][i]
      /\ \A q \in Queues : q # p => PlacesOf(q)' = PlacesOf(q)
  <2>1. Len(queues[p]) \in Nat
    BY <1>0, <1>2, Fields
  <2>2. PlacesOf(p)' = 1 .. Len(queues[p]) + 1
    BY <1>4, <1>5 DEF PlacesOf
  <2>3. \A i \in 1 .. Len(queues[p]) + 1 :
          \/ i = 1
          \/ i - 1 \in 1 .. Len(queues[p]) /\ (i - 1) + 1 = i /\ i > 1 /\ i \in Nat
    BY <2>1
  <2>4. \A i \in PlacesOf(p)' :
          \/ i = 1
          \/ i - 1 \in PlacesOf(p) /\ queues'[p][i] = queues[p][i - 1] /\ i > 1 /\ i \in Nat
    BY <1>4, <1>5, <2>2, <2>3 DEF PlacesOf
  <2>. QED  BY <1>4, <1>5, <2>1, <2>2, <2>4 DEF PlacesOf
<1> HIDE DEF held
<1>9. Lines'
  <2>1. ASSUME NEW q \in Queues, NEW i \in PlacesOf(q)', q # p
        PROVE  /\ queues'[q][i].queue = q
               /\ \A j \in PlacesOf(q)' : i < j => queues'[q][i].id < queues'[q][j].id
               /\ i > 1 => ~queues'[q][i].started
    BY <1>0, <1>5, <1>8, <2>1 DEF Lines
  <2>2. ASSUME NEW i \in PlacesOf(p)'
        PROVE  /\ queues'[p][i].queue = p
               /\ \A j \in PlacesOf(p)' : i < j => queues'[p][i].id < queues'[p][j].id
               /\ i > 1 => ~queues'[p][i].started
    <3>1. CASE i = 1
      <4>1. ASSUME NEW j \in PlacesOf(p)', 1 < j
            PROVE  back.id < queues'[p][j].id
        <5>1. j - 1 \in PlacesOf(p) /\ queues'[p][j] = queues[p][j - 1]
          BY <1>8, <4>1
        <5>2. held.id < queues[p][j - 1].id
          BY <1>0, <1>2, <1>7, <5>1 DEF Lines, held
        <5>. QED  BY <1>3, <5>1, <5>2
      <4>. QED  BY <1>3, <1>8, <3>1, <4>1
    <3>2. CASE i # 1
      <4>1. i - 1 \in PlacesOf(p) /\ queues'[p][i] = queues[p][i - 1] /\ i > 1 /\ i \in Nat
        BY <1>8, <3>2
      <4>2. ASSUME NEW j \in PlacesOf(p)', i < j
            PROVE  queues'[p][i].id < queues'[p][j].id
        <5>1. j # 1
          BY <4>1, <4>2
        <5>2. j - 1 \in PlacesOf(p) /\ queues'[p][j] = queues[p][j - 1] /\ j \in Nat
          BY <1>8, <5>1
        <5>3. i - 1 < j - 1
          BY <4>1, <4>2, <5>2
        <5>. QED  BY <1>0, <1>2, <4>1, <5>2, <5>3 DEF Lines
      <4>3. queues[p][i - 1].queue = p /\ ~ queues[p][i - 1].started
        BY <1>0, <1>2, <1>7, <4>1 DEF Lines
      <4>. QED  BY <4>1, <4>2, <4>3
    <3>. QED  BY <3>1, <3>2
  <2>. QED  BY <1>7, <2>1, <2>2 DEF Lines
<1>10. Markers'
  <2>1. Plain(back)
    BY <1>0, <1>3 DEF Plain, Markers, held
  <2>2. ASSUME NEW q \in Queues, NEW i \in PlacesOf(q)'
        PROVE  Plain(queues'[q][i])
    <3>1. CASE q # p
      BY <1>0, <1>5, <1>8, <3>1 DEF Markers
    <3>2. CASE q = p /\ i = 1
      BY <1>8, <2>1, <3>2
    <3>3. CASE q = p /\ i # 1
      <4>1. i - 1 \in PlacesOf(p) /\ queues'[p][i] = queues[p][i - 1]
        BY <1>8, <3>3
      <4>. QED  BY <1>0, <3>3, <4>1 DEF Markers
    <3>. QED  BY <3>1, <3>2, <3>3
  <2>. QED  BY <1>7, <2>2 DEF Markers
<1>11. \A q \in Queues : \A n, type : Has(q, n, type)' <=> Has(q, n, type)
  <2>1. ASSUME NEW q \in Queues, NEW n, NEW type
        PROVE  Has(q, n, type)' <=> Has(q, n, type)
    <3>1. CASE q # p
      BY <1>5, <1>7, <1>8, <3>1 DEF Has
    <3>2. CASE q = p
      <4>1. Has(p, n, type)' <=>
              \E i \in PlacesOf(p)' : queues'[p][i].id = n /\ queues'[p][i].type = type
        BY <1>7 DEF Has
      <4>2. Has(p, n, type) <=> \/ back.id = n /\ back.type = type
                                \/ \E i \in PlacesOf(p) : queues[p][i].id = n /\ queues[p][i].type = type
        BY <1>3, <1>7 DEF Has, held
      <4>3. (\E i \in PlacesOf(p) : queues[p][i].id = n /\ queues[p][i].type = type)
            => \E i \in PlacesOf(p)' : queues'[p][i].id = n /\ queues'[p][i].type = type
        BY <1>8
      <4>4. (\E i \in PlacesOf(p)' : queues'[p][i].id = n /\ queues'[p][i].type = type)
            => \/ back.id = n /\ back.type = type
               \/ \E i \in PlacesOf(p) : queues[p][i].id = n /\ queues[p][i].type = type
        BY <1>8
      <4>5. back.id = n /\ back.type = type
            => \E i \in PlacesOf(p)' : queues'[p][i].id = n /\ queues'[p][i].type = type
        BY <1>8
      <4>. QED  BY <3>2, <4>1, <4>2, <4>3, <4>4, <4>5
    <3>. QED  BY <3>1, <3>2
  <2>. QED  BY <2>1
<1>12. Counted' /\ submission_count' \in Nat
  BY <1>0, <1>1, <1>2, <1>4, <1>5, OneMoreWaits
<1>13. Types'
  BY <1>0, <1>1, <1>5, <1>6, <1>12 DEF Types
<1>14. InHand'
  BY <1>0, <1>1, <1>6, <1>7 DEF InHand
<1>15. \A n : Commanded(n)' <=> Commanded(n)
  BY <1>1, <1>6 DEF Commanded
<1>16. held.id \notin ran
  BY <1>0, <1>1 DEF Settled, held
<1>17. Apart'
  <2>1. ASSUME NEW q \in Queues, NEW n \in Ids, NEW type \in Kinds, Has(q, n, type)
        PROVE  /\ n < next /\ ~Commanded(n) /\ n \notin ran
               /\ \A r \in Queues, other \in Kinds : Has(r, n, other) => r = q /\ other = type
    BY <1>0, <1>16, <2>1 DEF Apart, held
  <2>. QED  BY <1>1, <1>11, <1>15, <2>1 DEF Apart
<1>18. Settled'
  BY <1>7 DEF Settled
<1>19. Accounted'
  BY <1>0, <1>1, <1>6, <1>11, <1>15 DEF Accounted
<1>20. Marked' = Marked
  BY <1>1, <1>11, SameMarked
<1>. QED  BY <1>9, <1>10, <1>12, <1>13, <1>14, <1>17, <1>18, <1>19, <1>20 DEF Inside

\* A submission that is complete is let go, and all that stalls gets another chance.
LEMMA LetGoInside ==
    ASSUME Inside, GpuLooksAgain, Holds, Complete
    PROVE  Inside' /\ Marked' = Marked
<1>0. Types /\ InHand /\ Lines /\ Markers /\ Counted /\ Apart /\ Settled /\ Accounted
  BY DEF Inside
<1> DEFINE id == gpu.submission.id
<1>1. /\ gpu.at = "over" /\ queues' = Unblocked
      /\ submission_count' = submission_count /\ processing' = FALSE
      /\ gpu' = [gpu EXCEPT !.at = "look", !.submission = Nothing]
      /\ commands' = commands /\ next_queue' = next_queue /\ stopping' = stopping
      /\ next' = next /\ ran' = ran
  BY DEF GpuLooksAgain, At, history, Holds
<1>2. PICK p \in Queues : p = gpu.submission.queue
  BY <1>0, Fields
<1>3. /\ gpu'.at = "look" /\ gpu'.submission = Nothing /\ gpu'.command = gpu.command
      /\ gpu' \in [at : Places, command : 0 .. MaxRequests,
                   submission : Submission \cup {Nothing}, moved : BOOLEAN]
  BY <1>0, <1>1 DEF Types, Places
<1>4. ~ Holds' /\ \A q : ~ HoldsOf(q)' /\ (HoldsOf(q) <=> q = p)
  BY <1>2, <1>3 DEF Holds, HoldsOf, Nothing
<1>5. /\ queues' \in [Queues -> Seq(Submission)] /\ Lines' /\ Counted'
      /\ \A q \in Queues : \A i \in PlacesOf(q)' : Plain(queues'[q][i])
      /\ \A q \in Queues : /\ PlacesOf(q)' = PlacesOf(q)
                           /\ \A i \in PlacesOf(q) : Alike(queues'[q][i], queues[q][i])
  BY <1>1, <1>4, UnblockedLines
<1>6. id \in Ids /\ gpu.submission.type \in Kinds /\ id \in ran
  BY <1>0, <1>1, Fields DEF Settled
<1>7. Has(p, id, gpu.submission.type)
  BY <1>4 DEF Has
<1>8. \A q \in Queues, n \in Ids, type \in Kinds : Has(q, n, type) /\ n = id => q = p
  BY <1>0, <1>6, <1>7 DEF Apart
<1>9. \A q \in Queues, n \in Ids, type \in Kinds : Has(q, n, type)' <=> Has(q, n, type) /\ n # id
  <2>1. ASSUME NEW q \in Queues, NEW n \in Ids, NEW type \in Kinds
        PROVE  Has(q, n, type)' <=> Has(q, n, type) /\ n # id
    <3>1. Has(q, n, type)' <=> \E i \in PlacesOf(q) : queues[q][i].id = n /\ queues[q][i].type = type
      BY <1>4, <1>5 DEF Has, Alike
    <3>2. Has(q, n, type) <=> \/ q = p /\ id = n /\ gpu.submission.type = type
                              \/ \E i \in PlacesOf(q) : queues[q][i].id = n /\ queues[q][i].type = type
      BY <1>4 DEF Has
    <3>3. \A i \in PlacesOf(q) : queues[q][i].id # id
      <4>1. ASSUME NEW i \in PlacesOf(q), queues[q][i].id = id
            PROVE  FALSE
        <5>1. queues[q][i].type \in Kinds
          BY <1>0, Fields
        <5>2. Has(q, id, queues[q][i].type)
          BY <4>1 DEF Has
        <5>3. q = p
          BY <1>6, <1>8, <5>1, <5>2
        <5>4. id < queues[q][i].id
          BY <1>0, <1>4, <5>3 DEF Lines
        <5>5. id \in Int
          BY <1>0, <1>6, Fields
        <5>. QED  BY <4>1, <5>4, <5>5
      <4>. QED  BY <4>1
    <3>. QED  BY <3>1, <3>2, <3>3
  <2>. QED  BY <2>1
<1>10. Markers'
  BY <1>4, <1>5 DEF Markers
<1>11. Types'
  BY <1>0, <1>1, <1>3, <1>5 DEF Types
<1>12. InHand'
  BY <1>0, <1>1, <1>3, <1>4 DEF InHand
<1>13. \A n : Commanded(n)' <=> Commanded(n)
  BY <1>1, <1>3 DEF Commanded
<1>14. Apart'
  <2>1. ASSUME NEW q \in Queues, NEW n \in Ids, NEW type \in Kinds, Has(q, n, type), n # id
        PROVE  /\ n < next /\ ~Commanded(n) /\ n \notin ran
               /\ \A r \in Queues, other \in Kinds : Has(r, n, other) => r = q /\ other = type
    BY <1>0, <2>1 DEF Apart
  <2>. QED  BY <1>1, <1>9, <1>13, <2>1 DEF Apart
<1>15. Settled'
  BY <1>4 DEF Settled
<1>16. Accounted'
  <2>1. \A n \in 1 .. next - 1 : n \in Ids
    BY <1>0 DEF Types, Ids
  <2>2. \A n \in 1 .. next - 1 : n = id \/ n \in ran \/ Commanded(n)
            \/ \E q \in Queues, type \in Kinds : Has(q, n, type)'
    BY <1>0, <1>9, <2>1 DEF Accounted
  <2>. QED  BY <1>0, <1>1, <1>3, <1>6, <1>13, <2>2 DEF Accounted
<1>17. Marked' = Marked
  <2>1. \A n \in Ids \ ran : n # id
    BY <1>6
  <2>2. \A q \in Queues : \A n \in Ids \ ran : Has(q, n, "SuspendPoint")' <=> Has(q, n, "SuspendPoint")
    BY <1>9, <2>1 DEF Kinds
  <2>. QED  BY <1>1, <2>2 DEF Marked
<1>. QED  BY <1>5, <1>10, <1>11, <1>12, <1>14, <1>15, <1>16, <1>17 DEF Inside

\* The end of the loop puts back what is not complete and lets go of what is.
LEMMA LooksAgainInside ==
    ASSUME Inside, GpuLooksAgain
    PROVE  Inside' /\ Marked' = Marked
<1>0. Types /\ InHand
  BY DEF Inside
<1>1. CASE ~ Holds
  <2>1. /\ gpu.at = "over" /\ queues' = queues
        /\ submission_count' = submission_count /\ processing' = FALSE
        /\ gpu' = [gpu EXCEPT !.at = "look", !.submission = Nothing]
        /\ commands' = commands /\ next_queue' = next_queue /\ stopping' = stopping
        /\ next' = next /\ ran' = ran
    BY <1>1 DEF GpuLooksAgain, At, history, Holds
  <2>2. gpu.submission = Nothing
    BY <1>0, <1>1, Fields
  <2>3. /\ gpu'.at = "look" /\ gpu'.submission = gpu.submission /\ gpu'.command = gpu.command
        /\ gpu' \in Elsewhere
    BY <1>0, <2>1, <2>2 DEF Types, Places, Elsewhere
  <2>4. Stays
    BY <1>0, <2>1, <2>3 DEF Stays, Types, Elsewhere
  <2>5. InHand'
    BY <1>0, <1>1, <2>1, <2>3 DEF InHand, Holds
  <2>. QED  BY <1>1, <2>3, <2>4, <2>5, StaysInside
<1>2. CASE Holds /\ Complete
  BY <1>2, LetGoInside
<1>3. CASE Holds /\ ~ Complete
  BY <1>3, PutBackInside
<1>. QED  BY <1>1, <1>2, <1>3

\* A new submission goes to the end of its queue.
LEMMA EnqueueInside ==
    ASSUME Inside, NEW type \in Kinds, NEW p \in Queues, NEW cmds, NEW consts,
           next <= MaxRequests, cmds \in Seq(Packet), consts \in Seq(Packet),
           type # "List" => cmds = <<>> /\ consts = <<>>,
           Enqueue(NewSubmission(type, p, cmds, consts))
    PROVE  /\ Inside' /\ next' = next + 1
           /\ type = "SuspendPoint" => Marked' = Marked \cup {next} /\ next \notin Marked
           /\ type # "SuspendPoint" => Marked' = Marked
<1>0. Types /\ InHand /\ Lines /\ Markers /\ Counted /\ Apart /\ Settled /\ Accounted
  BY DEF Inside
<1> DEFINE new == NewSubmission(type, p, cmds, consts)
<1>1. next \in Ids /\ next \in Int
  BY <1>0 DEF Types, Ids
<1>2. /\ new \in Submission /\ new.id = next /\ new.queue = p /\ new.type = type
      /\ ~ new.started /\ Plain(new)
  BY <1>1 DEF NewSubmission, Submission, Kinds, Plain
<1>3. /\ queues' = [queues EXCEPT ![p] = Append(@, new)]
      /\ submission_count' = submission_count + 1 /\ next' = next + 1 /\ TellGpu
      /\ commands' = commands /\ next_queue' = next_queue /\ processing' = processing
      /\ stopping' = stopping /\ ~ stopping /\ ran' = ran
  BY <1>2 DEF Enqueue
<1> HIDE DEF new
<1>4. /\ gpu' \in Elsewhere
      /\ gpu'.at = gpu.at \/ (gpu.at = "asleep" /\ gpu'.at = "look")
  BY <1>0, <1>3, Told
<1>5. gpu'.submission = gpu.submission /\ gpu'.command = gpu.command
  BY <1>4 DEF Elsewhere
<1>6. (Holds' <=> Holds) /\ \A q : HoldsOf(q)' <=> HoldsOf(q)
  BY <1>5 DEF Holds, HoldsOf
<1>7. /\ Append(queues[p], new) \in Seq(Submission)
      /\ Len(Append(queues[p], new)) = Len(queues[p]) + 1
      /\ \A k \in 1 .. Len(queues[p]) : Append(queues[p], new)[k] = queues[p][k]
      /\ Append(queues[p], new)[Len(queues[p]) + 1] = new
      /\ Len(queues[p]) \in Nat
  BY <1>0, <1>2, Fields, OneBehind
<1>8. /\ queues' \in [Queues -> Seq(Submission)] /\ queues'[p] = Append(queues[p], new)
      /\ \A q \in Queues : q # p => queues'[q] = queues[q]
  BY <1>0, <1>3, <1>7 DEF Types
<1> DEFINE last == Len(queues[p]) + 1
<1>9. /\ last \in PlacesOf(p)' /\ queues'[p][last] = new /\ last \in Nat
      /\ \A i \in PlacesOf(p)' : i = last \/ i \in PlacesOf(p)
      /\ \A i \in PlacesOf(p) : i \in PlacesOf(p)' /\ queues'[p][i] = queues[p][i] /\ i < last
                                /\ i \in Nat
      /\ \A q \in Queues : q # p => PlacesOf(q)' = PlacesOf(q)
  BY <1>7, <1>8 DEF PlacesOf
<1> HIDE DEF last
<1>10. \A q \in Queues : \A i \in PlacesOf(q) : queues[q][i].id < next
  <2>1. ASSUME NEW q \in Queues, NEW i \in PlacesOf(q)
        PROVE  queues[q][i].id < next
    <3>1. queues[q][i].id \in Ids /\ queues[q][i].type \in Kinds
      BY <1>0, Fields
    <3>2. Has(q, queues[q][i].id, queues[q][i].type)
      BY DEF Has
    <3>. QED  BY <1>0, <3>1, <3>2 DEF Apart
  <2>. QED  BY <2>1
<1>11. Holds => gpu.submission.id < next
  <2>1. ASSUME Holds
        PROVE  gpu.submission.id < next
    <3>1. /\ gpu.submission.id \in Ids /\ gpu.submission.type \in Kinds
          /\ gpu.submission.queue \in Queues
      BY <1>0, <2>1, Fields
    <3>2. Has(gpu.submission.queue, gpu.submission.id, gpu.submission.type)
      BY <2>1 DEF Has, HoldsOf
    <3>. QED  BY <1>0, <3>1, <3>2 DEF Apart
  <2>. QED  BY <2>1
<1>12. Lines'
  <2>1. ASSUME NEW q \in Queues, NEW i \in PlacesOf(q)', q # p
        PROVE  /\ queues'[q][i].queue = q
               /\ \A j \in PlacesOf(q)' : i < j => queues'[q][i].id < queues'[q][j].id
               /\ i > 1 \/ HoldsOf(q)' => ~queues'[q][i].started
               /\ HoldsOf(q)' => gpu'.submission.id < queues'[q][i].id
    BY <1>0, <1>5, <1>6, <1>8, <1>9, <2>1 DEF Lines
  <2>2. ASSUME NEW i \in PlacesOf(p)'
        PROVE  /\ queues'[p][i].queue = p
               /\ \A j \in PlacesOf(p)' : i < j => queues'[p][i].id < queues'[p][j].id
               /\ i > 1 \/ HoldsOf(p)' => ~queues'[p][i].started
               /\ HoldsOf(p)' => gpu'.submission.id < queues'[p][i].id
    <3>1. CASE i = last
      <4>1. \A j \in PlacesOf(p)' : ~ (i < j)
        BY <1>9, <3>1
      <4>2. HoldsOf(p)' => gpu'.submission.id < next
        BY <1>5, <1>6, <1>11 DEF HoldsOf
      <4>. QED  BY <1>2, <1>9, <3>1, <4>1, <4>2
    <3>2. CASE i # last
      <4>1. i \in PlacesOf(p) /\ queues'[p][i] = queues[p][i]
        BY <1>9, <3>2
      <4>2. ASSUME NEW j \in PlacesOf(p)', i < j
            PROVE  queues'[p][i].id < queues'[p][j].id
        <5>1. CASE j = last
          BY <1>2, <1>9, <1>10, <4>1, <5>1
        <5>2. CASE j # last
          <6>1. j \in PlacesOf(p) /\ queues'[p][j] = queues[p][j]
            BY <1>9, <5>2
          <6>. QED  BY <1>0, <4>1, <4>2, <6>1 DEF Lines
        <5>. QED  BY <5>1, <5>2
      <4>3. /\ queues[p][i].queue = p
            /\ i > 1 \/ HoldsOf(p) => ~queues[p][i].started
            /\ HoldsOf(p) => gpu.submission.id < queues[p][i].id
        BY <1>0, <4>1 DEF Lines
      <4>. QED  BY <1>5, <1>6, <4>1, <4>2, <4>3
    <3>. QED  BY <3>1, <3>2
  <2>. QED  BY <2>1, <2>2 DEF Lines
<1>13. Markers'
  <2>1. ASSUME NEW q \in Queues, NEW i \in PlacesOf(q)'
        PROVE  Plain(queues'[q][i])
    <3>1. CASE q # p
      BY <1>0, <1>8, <1>9, <3>1 DEF Markers
    <3>2. CASE q = p /\ i = last
      BY <1>2, <1>9, <3>2
    <3>3. CASE q = p /\ i # last
      <4>1. i \in PlacesOf(p) /\ queues'[p][i] = queues[p][i]
        BY <1>9, <3>3
      <4>. QED  BY <1>0, <3>3, <4>1 DEF Markers
    <3>. QED  BY <3>1, <3>2, <3>3
  <2>. QED  BY <1>0, <1>5, <1>6, <2>1 DEF Markers
<1>14. \A q \in Queues : \A n, kind :
            Has(q, n, kind)' <=> Has(q, n, kind) \/ (q = p /\ n = next /\ kind = type)
  <2>1. ASSUME NEW q \in Queues, NEW n, NEW kind
        PROVE  Has(q, n, kind)' <=> Has(q, n, kind) \/ (q = p /\ n = next /\ kind = type)
    <3>0. /\ HoldsOf(q)' <=> HoldsOf(q)
          /\ gpu'.submission.id = gpu.submission.id /\ gpu'.submission.type = gpu.submission.type
      BY <1>5, <1>6
    <3>1. CASE q # p
      BY <1>8, <1>9, <3>0, <3>1 DEF Has
    <3>2. CASE q = p
      <4>1. (\E i \in PlacesOf(p)' : queues'[p][i].id = n /\ queues'[p][i].type = kind)
            <=> \/ n = next /\ kind = type
                \/ \E i \in PlacesOf(p) : queues[p][i].id = n /\ queues[p][i].type = kind
        <5>1. (\E i \in PlacesOf(p)' : queues'[p][i].id = n /\ queues'[p][i].type = kind)
            => \/ n = next /\ kind = type
               \/ \E i \in PlacesOf(p) : queues[p][i].id = n /\ queues[p][i].type = kind
          BY <1>2, <1>9
        <5>2. (\E i \in PlacesOf(p) : queues[p][i].id = n /\ queues[p][i].type = kind)
            => \E i \in PlacesOf(p)' : queues'[p][i].id = n /\ queues'[p][i].type = kind
          BY <1>9
        <5>3. n = next /\ kind = type
            => \E i \in PlacesOf(p)' : queues'[p][i].id = n /\ queues'[p][i].type = kind
          BY <1>2, <1>9
        <5>. QED  BY <5>1, <5>2, <5>3
      <4>. QED  BY <3>0, <3>2, <4>1 DEF Has
    <3>. QED  BY <3>1, <3>2
  <2>. QED  BY <2>1
<1>15. Counted' /\ submission_count' \in Nat
  BY <1>0, <1>3, <1>7, <1>8, OneMoreWaits
<1>16. Types'
  <2>1. ran \subseteq 1 .. next' - 1 /\ next' \in 1 .. MaxRequests + 1
    BY <1>0, <1>1, <1>3 DEF Types, Ids
  <2>. QED  BY <1>0, <1>3, <1>4, <1>8, <1>15, <2>1 DEF Types, Elsewhere
<1>17. InHand'
  BY <1>0, <1>3, <1>4, <1>5, <1>6 DEF InHand, IsList
<1>18. \A n : Commanded(n)' <=> Commanded(n)
  BY <1>3, <1>5 DEF Commanded
<1>19. ~ Commanded(next) /\ next \notin ran
  BY <1>0, <1>1 DEF Accounted, Commanded, Types
<1>20. \A q \in Queues, kind \in Kinds : ~ Has(q, next, kind)
  BY <1>0, <1>1 DEF Apart
<1>21. gpu'.at = "over" <=> gpu.at = "over"
  BY <1>4
<1>22. Apart'
  <2>1. ASSUME NEW q \in Queues, NEW n \in Ids, NEW kind \in Kinds, Has(q, n, kind)'
        PROVE  /\ n < next + 1 /\ ~Commanded(n)
               /\ \A r \in Queues, other \in Kinds : Has(r, n, other)' => r = q /\ other = kind
               /\ n \in ran => gpu.at = "over" /\ gpu.submission.id = n
    <3>1. CASE Has(q, n, kind)
      <4>1. /\ n < next /\ ~Commanded(n)
            /\ \A r \in Queues, other \in Kinds : Has(r, n, other) => r = q /\ other = kind
            /\ n \in ran => gpu.at = "over" /\ gpu.submission.id = n
        BY <1>0, <3>1 DEF Apart
      <4>2. n # next /\ n < next + 1
        BY <1>1, <1>20, <3>1, <4>1, <1>0, Fields
      <4>. QED  BY <1>14, <4>1, <4>2
    <3>2. CASE ~ Has(q, n, kind)
      <4>1. q = p /\ n = next /\ kind = type
        BY <1>14, <2>1, <3>2
      <4>2. n < next + 1
        BY <1>1, <4>1
      <4>. QED  BY <1>14, <1>19, <1>20, <4>1, <4>2
    <3>. QED  BY <3>1, <3>2
  <2>. QED  BY <1>3, <1>5, <1>18, <1>21, <2>1 DEF Apart
<1>23. Settled'
  BY <1>0, <1>3, <1>5, <1>6, <1>21 DEF Settled, Complete
<1>24. Accounted'
  <2>1. \A n : n \in 1 .. next' - 1 <=> n \in 1 .. next - 1 \/ n = next
    BY <1>0, <1>3 DEF Types
  <2>2. \A n : n = next => Has(p, n, type)'
    BY <1>14
  <2>3. \A k \in 1 .. Len(commands) : commands[k] < next + 1
    <3>1. \A k \in 1 .. Len(commands) : commands[k] < next /\ commands[k] \in Int
      BY <1>0, Fields DEF Accounted
    <3>. QED  BY <1>1, <3>1
  <2>4. gpu.command < next + 1
    <3>1. gpu.command < next /\ gpu.command \in Int
      BY <1>0, Fields DEF Accounted
    <3>. QED  BY <1>1, <3>1
  <2>5. \A n \in 1 .. next - 1 :
            n \in ran \/ Commanded(n) \/ \E q \in Queues, kind \in Kinds : Has(q, n, kind)'
    BY <1>0, <1>14 DEF Accounted
  <2>. QED  BY <1>3, <1>5, <1>18, <2>1, <2>2, <2>3, <2>4, <2>5 DEF Accounted
<1>25. next \notin Marked
  BY <1>20 DEF Marked, Kinds
<1>26. CASE type = "SuspendPoint"
  <2>1. Marked' = Marked \cup {next}
    BY <1>1, <1>3, <1>14, <1>19, <1>26 DEF Marked
  <2>. QED  BY <1>3, <1>12, <1>13, <1>15, <1>16, <1>17, <1>22, <1>23, <1>24, <1>25, <1>26, <2>1
            DEF Inside
<1>27. CASE type # "SuspendPoint"
  <2>1. Marked' = Marked
    BY <1>3, <1>14, <1>27 DEF Marked
  <2>. QED  BY <1>3, <1>12, <1>13, <1>15, <1>16, <1>17, <1>22, <1>23, <1>24, <1>27, <2>1 DEF Inside
<1>. QED  BY <1>26, <1>27

--------------------------------------------------------------------------------
(* The calls, the room for their requests and the permission               *)

\* One call goes on.
LEMMA CallIs ==
    ASSUME Types, Outside, NEW t \in Threads, NEW at \in CallState,
           NEW id, id \in 0 .. MaxRequests, CallOf(t, at, id)
    PROVE  /\ call' \in [Threads -> [at : CallState, id : 0 .. MaxRequests]]
           /\ at \in {"credit", "suspend", "unmap"} => Underway' = Underway \cup {t}
           /\ at \notin {"credit", "suspend", "unmap"} => Underway' = Underway \ {t}
           /\ at = "suspend" => Permitted' = Permitted \cup {t}
           /\ at # "suspend" => Permitted' = Permitted \ {t}
<1>1. call' = [call EXCEPT ![t] = [at |-> at, id |-> id]]
  BY DEF CallOf
<1>2. call \in [Threads -> [at : CallState, id : 0 .. MaxRequests]]
  BY DEF Outside
<1>3. /\ call'[t].at = at
      /\ \A u \in Threads : u # t => call'[u] = call[u]
  BY <1>1, <1>2
<1>4. call' \in [Threads -> [at : CallState, id : 0 .. MaxRequests]]
  BY <1>1, <1>2
<1>5. \A u : u \in Underway' <=> u \in Threads /\ call'[u].at \in {"credit", "suspend", "unmap"}
  BY DEF Underway
<1>6. \A u : u \in Underway <=> u \in Threads /\ call[u].at \in {"credit", "suspend", "unmap"}
  BY DEF Underway
<1>7. \A u : u \in Permitted' <=> u \in Threads /\ call'[u].at = "suspend"
  BY DEF Permitted
<1>8. \A u : u \in Permitted <=> u \in Threads /\ call[u].at = "suspend"
  BY DEF Permitted
<1>. QED  BY <1>3, <1>4, <1>5, <1>6, <1>7, <1>8

\* A wake of those that wait for idleness, or of nobody.
LEMMA WokenCalls ==
    ASSUME Types, Outside, WakeOne \/ WakeAll \/ call' = call
    PROVE  /\ call' \in [Threads -> [at : CallState, id : 0 .. MaxRequests]]
           /\ Underway' = Underway /\ Permitted' = Permitted
           /\ \A t \in Threads : call'[t] = call[t] \/ call'[t].at = "woken"
<1>1. /\ call \in [Threads -> [at : CallState, id : 0 .. MaxRequests]]
      /\ "woken" \in CallState /\ 0 \in 0 .. MaxRequests
  <2>1. MaxRequests \in Nat
    BY GuestGpuAssumption
  <2>2. call \in [Threads -> [at : CallState, id : 0 .. MaxRequests]]
    BY DEF Outside
  <2>. QED  BY <2>1, <2>2 DEF CallState
<1>2. CASE call' = call
  BY <1>1, <1>2 DEF Underway, Permitted
<1>3. ASSUME NEW t \in Threads, call[t].at = "idle", CallOf(t, "woken", 0)
      PROVE  /\ call' \in [Threads -> [at : CallState, id : 0 .. MaxRequests]]
             /\ Underway' = Underway /\ Permitted' = Permitted
             /\ \A u \in Threads : call'[u] = call[u] \/ call'[u].at = "woken"
  <2>1. t \notin Underway /\ t \notin Permitted
    BY <1>3 DEF Underway, Permitted
  <2>2. \A u \in Threads : call'[u] = call[u] \/ call'[u].at = "woken"
    BY <1>1, <1>3 DEF CallOf
  <2>3. /\ call' \in [Threads -> [at : CallState, id : 0 .. MaxRequests]]
        /\ Underway' = Underway \ {t} /\ Permitted' = Permitted \ {t}
    BY <1>1, <1>3, CallIs
  <2>. QED  BY <2>1, <2>2, <2>3
<1>4. CASE WakeAll
  <2>1. call' = [t \in Threads |-> IF t \in Sleepers THEN [at |-> "woken", id |-> 0] ELSE call[t]]
    BY <1>4 DEF WakeAll
  <2>2. \A t \in Threads : \/ call'[t] = call[t]
                           \/ call[t].at = "idle" /\ call'[t] = [at |-> "woken", id |-> 0]
    BY <2>1 DEF Sleepers
  <2>3. call' \in [Threads -> [at : CallState, id : 0 .. MaxRequests]]
    BY <1>1, <2>1
  <2>4. Underway' = Underway /\ Permitted' = Permitted
    BY <2>2 DEF Underway, Permitted
  <2>. QED  BY <2>2, <2>3, <2>4
<1>. QED  BY <1>2, <1>3, <1>4 DEF WakeOne, Sleepers

\* Fewer calls under way leave more room.
LEMMA RoomStays ==
    ASSUME Types, Room, next' = next, Underway' \subseteq Underway
    PROVE  Room'
<1>1. /\ IsFiniteSet(Underway') /\ Cardinality(Underway') <= Cardinality(Underway)
      /\ Cardinality(Underway') \in Nat /\ Cardinality(Underway) \in Nat
  BY FS_Subset, FS_CardinalityType DEF Room
<1>2. next \in Int /\ MaxRequests \in Nat
  BY Fields, GuestGpuAssumption
<1>3. next + Cardinality(Underway) <= MaxRequests + 1
  BY DEF Room
<1>4. next + Cardinality(Underway') <= MaxRequests + 1
  BY <1>1, <1>2, <1>3
<1>. QED  BY <1>1, <1>4 DEF Room

\* What is outside of the guest GPU stays in order where no request is made and no
\* permission passed on.
LEMMA RestStays ==
    ASSUME GpuInvariant, Marked' = Marked, next' = next, credit' = credit, releases' = releases,
           call' \in [Threads -> [at : CallState, id : 0 .. MaxRequests]],
           Underway' \subseteq Underway, Permitted' = Permitted,
           engines' \in [ce : Nat, de : Nat, ce_complete : BOOLEAN],
           label' \in [Labels -> BOOLEAN],
           aborted' \in {"", "Submit", "SuspendPoint", "SendCommandSync", "UnmapMemory"}
    PROVE  Outside' /\ Room' /\ OnePermission'
<1>1. Types /\ Outside /\ Room /\ OnePermission
  BY DEF GpuInvariant, Inside
<1>2. Room'
  BY <1>1, RoomStays
<1>3. Outside'
  BY <1>1 DEF Outside
<1>4. OnePermission'
  BY <1>1 DEF OnePermission
<1>. QED  BY <1>2, <1>3, <1>4

\* A call goes on by itself.
LEMMA CallsKeep ==
    ASSUME GpuInvariant, NEW t \in Threads,
           \/ CommandDone(t) \/ WaitForIdle(t) \/ LooksAgain(t) \/ Joins(t) \/ Shutdown(t)
    PROVE  GpuInvariant'
<1>1. Inside /\ Types /\ Outside
  BY DEF GpuInvariant, Inside
<1>2. Inside' /\ Marked' = Marked
  <2>1. CASE Shutdown(t)
    BY <1>1, <2>1, ShutdownInside
  <2>2. CASE ~ Shutdown(t)
    <3>1. UNCHANGED <<guarded, gpu, next, ran>>
      BY <2>2 DEF CommandDone, WaitForIdle, LooksAgain, Joins, history
    <3>. QED  BY <1>1, <3>1, UnchangedInside
  <2>. QED  BY <2>1, <2>2
<1>3. PICK at \in {"none", "idle", "join"} :
        CallOf(t, at, 0) /\ call[t].at \in {"sync", "none", "woken", "join"}
  BY DEF CommandDone, WaitForIdle, LooksAgain, Joins, Shutdown, In, Free, Ends
<1>4. t \notin Underway /\ t \notin Permitted
  BY <1>3 DEF Underway, Permitted
<1>5. /\ call' \in [Threads -> [at : CallState, id : 0 .. MaxRequests]]
      /\ Underway' = Underway /\ Permitted' = Permitted
  <2>1. at \in CallState /\ 0 \in 0 .. MaxRequests
    BY GuestGpuAssumption DEF CallState
  <2>2. /\ call' \in [Threads -> [at : CallState, id : 0 .. MaxRequests]]
        /\ Underway' = Underway \ {t} /\ Permitted' = Permitted \ {t}
    BY <1>1, <1>3, <2>1, CallIs
  <2>. QED  BY <1>4, <2>2
<1>6. /\ next' = next /\ credit' = credit /\ releases' = releases /\ aborted' = aborted
      /\ engines' = engines /\ label' = label
  BY DEF CommandDone, WaitForIdle, LooksAgain, Joins, Shutdown, history, device
<1>7. Outside' /\ Room' /\ OnePermission'
  BY <1>1, <1>2, <1>5, <1>6, RestStays DEF Outside
<1>. QED  BY <1>2, <1>7 DEF GpuInvariant

\* A call keeps room for the request that it will make.
LEMMA RoomIsKept ==
    ASSUME GpuInvariant, NEW t \in Threads, CallsSuspendPoint(t) \/ LooksForShutdown(t)
    PROVE  GpuInvariant'
<1>1. Inside /\ Types /\ Outside /\ Room /\ OnePermission
  BY DEF GpuInvariant, Inside
<1>2. Inside' /\ Marked' = Marked
  <2>1. UNCHANGED <<guarded, gpu, next, ran>>
    BY DEF CallsSuspendPoint, LooksForShutdown, history
  <2>. QED  BY <1>1, <2>1, UnchangedInside
<1>3. PICK at \in {"credit", "unmap"} : CallOf(t, at, 0) /\ call[t].at = "none" /\ MayAsk
  BY DEF CallsSuspendPoint, LooksForShutdown, In, Free
<1>4. t \notin Underway /\ t \notin Permitted
  BY <1>3 DEF Underway, Permitted
<1>5. /\ call' \in [Threads -> [at : CallState, id : 0 .. MaxRequests]]
      /\ Underway' = Underway \cup {t} /\ Permitted' = Permitted
  <2>1. at \in CallState /\ 0 \in 0 .. MaxRequests
    BY GuestGpuAssumption DEF CallState
  <2>2. /\ call' \in [Threads -> [at : CallState, id : 0 .. MaxRequests]]
        /\ Underway' = Underway \cup {t} /\ Permitted' = Permitted \ {t}
    BY <1>1, <1>3, <2>1, CallIs
  <2>. QED  BY <1>4, <2>2
<1>6. /\ next' = next /\ credit' = credit /\ releases' = releases /\ aborted' = aborted
      /\ engines' = engines /\ label' = label
  BY DEF CallsSuspendPoint, LooksForShutdown, history, device
<1>7. Room'
  <2>1. IsFiniteSet(Underway') /\ Cardinality(Underway') = Cardinality(Underway) + 1
    BY <1>1, <1>4, <1>5, FS_AddElement DEF Room
  <2>2. Cardinality(Underway) \in Nat /\ next \in Int /\ MaxRequests \in Nat
    BY <1>1, FS_CardinalityType DEF Room, Types
  <2>. QED  BY <1>3, <1>6, <2>1, <2>2 DEF Room, MayAsk
<1>8. Outside'
  BY <1>1, <1>5, <1>6 DEF Outside
<1>9. OnePermission'
  BY <1>1, <1>2, <1>5, <1>6 DEF OnePermission
<1>. QED  BY <1>2, <1>7, <1>8, <1>9 DEF GpuInvariant

\* The permission goes from the semaphore to a call.
LEMMA AcquiresCreditKeeps ==
    ASSUME GpuInvariant, NEW t \in Threads, AcquiresCredit(t)
    PROVE  GpuInvariant'
<1>1. Inside /\ Types /\ Outside /\ Room /\ OnePermission
  BY DEF GpuInvariant, Inside
<1>2. Inside' /\ Marked' = Marked
  <2>1. UNCHANGED <<guarded, gpu, next, ran>>
    BY DEF AcquiresCredit, history
  <2>. QED  BY <1>1, <2>1, UnchangedInside
<1>3. CallOf(t, "suspend", 0) /\ call[t].at = "credit" /\ credit > 0 /\ credit' = credit - 1
  BY DEF AcquiresCredit, In
<1>4. t \in Underway /\ t \notin Permitted
  BY <1>3 DEF Underway, Permitted
<1>5. /\ call' \in [Threads -> [at : CallState, id : 0 .. MaxRequests]]
      /\ Underway' = Underway /\ Permitted' = Permitted \cup {t}
  <2>1. "suspend" \in CallState /\ 0 \in 0 .. MaxRequests
    BY <1>1 DEF CallState, Types
  <2>. QED  BY <1>1, <1>3, <1>4, <2>1, CallIs
<1>6. /\ next' = next /\ releases' = releases /\ aborted' = aborted
      /\ engines' = engines /\ label' = label
  BY DEF AcquiresCredit, history, device
<1>7. Room'
  BY <1>1, <1>5, <1>6 DEF Room
<1>8. credit \in Nat /\ credit' \in Nat /\ releases \in Nat
  <2>1. credit \in Nat /\ releases \in Nat
    BY <1>1 DEF Outside
  <2>. QED  BY <1>3, <2>1
<1>9. Outside'
  BY <1>1, <1>5, <1>6, <1>8 DEF Outside
<1>10. OnePermission'
  <2>1. IsFiniteSet(Permitted') /\ Cardinality(Permitted') = Cardinality(Permitted) + 1
    BY <1>1, <1>4, <1>5, FS_AddElement DEF OnePermission
  <2>2. Cardinality(Permitted) \in Nat /\ Cardinality(Marked) \in Nat
    BY <1>1, FS_CardinalityType DEF OnePermission
  <2>. QED  BY <1>1, <1>2, <1>3, <1>6, <1>8, <2>1, <2>2 DEF OnePermission
<1>. QED  BY <1>2, <1>7, <1>9, <1>10 DEF GpuInvariant

\* It comes back from the native GPU.
LEMMA ReleasesCreditKeeps ==
    ASSUME GpuInvariant, ReleasesCredit
    PROVE  GpuInvariant'
<1>1. Inside /\ Types /\ Outside /\ Room /\ OnePermission
  BY DEF GpuInvariant, Inside
<1>2. Inside' /\ Marked' = Marked
  <2>1. UNCHANGED <<guarded, gpu, next, ran>>
    BY DEF ReleasesCredit, history
  <2>. QED  BY <1>1, <2>1, UnchangedInside
<1>3. /\ releases > 0 /\ releases' = releases - 1 /\ credit' = credit + 1 /\ call' = call
      /\ next' = next /\ engines' = engines /\ label' = label /\ aborted' = aborted
  BY DEF ReleasesCredit, history
<1>4. credit \in Nat /\ releases \in Nat /\ credit' \in Nat /\ releases' \in Nat
  <2>1. credit \in Nat /\ releases \in Nat
    BY <1>1 DEF Outside
  <2>. QED  BY <1>3, <2>1
<1>5. Permitted' = Permitted /\ Underway' = Underway
  BY <1>3 DEF Permitted, Underway
<1>6. Outside'
  BY <1>1, <1>3, <1>4 DEF Outside
<1>7. Room'
  BY <1>1, <1>3, <1>5 DEF Room
<1>8. OnePermission'
  <2>1. Cardinality(Permitted) \in Nat /\ Cardinality(Marked) \in Nat
    BY <1>1, FS_CardinalityType DEF OnePermission
  <2>. QED  BY <1>1, <1>2, <1>3, <1>4, <1>5, <2>1 DEF OnePermission
<1>. QED  BY <1>2, <1>6, <1>7, <1>8 DEF GpuInvariant

\* The end of the program changes nothing but that it has come.
LEMMA ExitKeeps ==
    ASSUME GpuInvariant, NEW kind \in {"Submit", "SuspendPoint", "SendCommandSync", "UnmapMemory"},
           Exit(kind)
    PROVE  GpuInvariant'
<1>1. Inside /\ Types /\ Outside
  BY DEF GpuInvariant, Inside
<1>2. Inside' /\ Marked' = Marked
  <2>1. UNCHANGED <<guarded, gpu, next, ran>>
    BY DEF Exit
  <2>. QED  BY <1>1, <2>1, UnchangedInside
<1>3. /\ aborted' = kind /\ call' = call /\ next' = next /\ credit' = credit
      /\ releases' = releases /\ engines' = engines /\ label' = label
  BY DEF Exit, device
<1>4. Underway' \subseteq Underway /\ Permitted' = Permitted
  BY <1>3 DEF Underway, Permitted
<1>5. Outside' /\ Room' /\ OnePermission'
  BY <1>1, <1>2, <1>3, <1>4, RestStays DEF Outside
<1>. QED  BY <1>2, <1>5 DEF GpuInvariant

\* A guest submits a list, or a flip for the GPU thread to prepare.
LEMMA SubmitKeeps ==
    ASSUME GpuInvariant, SubmitFlipPreparation \/ \E list \in Lists : Submit(list)
    PROVE  GpuInvariant'
<1>1. Inside /\ Types /\ Outside /\ Room /\ OnePermission
  BY DEF GpuInvariant, Inside
<1>2. CASE Exit("Submit")
  BY <1>2, ExitKeeps
<1>3. ASSUME NEW type \in {"List", "FlipPreparation"}, NEW p \in Queues,
             NEW cmds \in Seq(Packet), NEW consts \in Seq(Packet),
             type # "List" => cmds = <<>> /\ consts = <<>>,
             MayAsk, Enqueue(NewSubmission(type, p, cmds, consts)), UNCHANGED <<call, credit>>
      PROVE  GpuInvariant'
  <2>1. Cardinality(Underway) \in Nat /\ next \in Int /\ MaxRequests \in Nat
    BY <1>1, FS_CardinalityType, Fields, GuestGpuAssumption DEF Room
  <2>2. next + Cardinality(Underway) <= MaxRequests
    BY <1>3 DEF MayAsk
  <2>3. next <= MaxRequests
    BY <2>1, <2>2
  <2>4. Inside' /\ next' = next + 1 /\ Marked' = Marked
    BY <1>1, <1>3, <2>3, EnqueueInside DEF Kinds
  <2>5. /\ call' = call /\ credit' = credit /\ releases' = releases /\ engines' = engines
        /\ label' = label /\ aborted' = aborted
    BY <1>3 DEF Enqueue, device
  <2>6. Underway' = Underway /\ Permitted' = Permitted
    BY <2>5 DEF Underway, Permitted
  <2>7. Room'
    <3>1. next' + Cardinality(Underway) <= MaxRequests + 1
      BY <2>1, <2>2, <2>4
    <3>. QED  BY <1>1, <2>6, <3>1 DEF Room
  <2>8. Outside'
    BY <1>1, <2>5 DEF Outside
  <2>9. OnePermission'
    BY <1>1, <2>4, <2>5, <2>6 DEF OnePermission
  <2>. QED  BY <2>4, <2>7, <2>8, <2>9 DEF GpuInvariant
<1>4. CASE SubmitFlipPreparation /\ ~ Exit("Submit")
  <2>1. /\ Enqueue(NewSubmission("FlipPreparation", Graphics, <<>>, <<>>)) /\ MayAsk
        /\ UNCHANGED <<call, credit>>
    BY <1>4 DEF SubmitFlipPreparation
  <2>2. <<>> \in Seq(Packet) /\ Graphics \in Queues
    BY QueuesAre
  <2>. QED  BY <1>3, <2>1, <2>2
<1>5. ASSUME NEW list \in Lists, Submit(list), ~ Exit("Submit")
      PROVE  GpuInvariant'
  <2>1. /\ Enqueue(NewSubmission("List", list.queue, list.commands, list.constants)) /\ MayAsk
        /\ UNCHANGED <<call, credit>>
    BY <1>5 DEF Submit
  <2>2. list.queue \in Queues /\ list.commands \in Seq(Packet) /\ list.constants \in Seq(Packet)
    BY GuestGpuAssumption DEF List
  <2>. QED  BY <1>3, <2>1, <2>2
<1>. QED  BY <1>2, <1>4, <1>5

\* A call makes the request that it has kept room for.
LEMMA RoomIsUsed ==
    ASSUME Types, Room, NEW t \in Underway
    PROVE  /\ next <= MaxRequests
           /\ next' = next + 1 /\ Underway' = Underway \ {t} => Room'
<1>1. /\ IsFiniteSet(Underway \ {t}) /\ Cardinality(Underway \ {t}) = Cardinality(Underway) - 1
      /\ Cardinality(Underway \ {t}) \in Nat /\ Cardinality(Underway) \in Nat
  <2>1. /\ IsFiniteSet(Underway \ {t}) /\ Cardinality(Underway \ {t}) = Cardinality(Underway) - 1
    BY FS_RemoveElement DEF Room
  <2>. QED  BY <2>1, FS_CardinalityType DEF Room
<1>2. next \in Int /\ MaxRequests \in Nat
  BY Fields, GuestGpuAssumption
<1>3. next + Cardinality(Underway) <= MaxRequests + 1
  BY DEF Room
<1>4. next <= MaxRequests /\ (next + 1) + Cardinality(Underway \ {t}) <= MaxRequests + 1
  BY <1>1, <1>2, <1>3
<1>. QED  BY <1>1, <1>4 DEF Room

\* It goes from the call to the marker, for which there is room.
LEMMA SuspendPointKeeps ==
    ASSUME GpuInvariant, NEW t \in Threads, SuspendPoint(t)
    PROVE  GpuInvariant'
<1>1. Inside /\ Types /\ Outside /\ Room /\ OnePermission
  BY DEF GpuInvariant, Inside
<1>2. CASE Exit("SuspendPoint")
  BY <1>2, ExitKeeps
<1>3. CASE ~ Exit("SuspendPoint")
  <2>1. /\ Enqueue(NewSubmission("SuspendPoint", Graphics, <<>>, <<>>)) /\ CallOf(t, "none", 0)
        /\ credit' = credit /\ call[t].at = "suspend"
    BY <1>3 DEF SuspendPoint, Ends, In
  <2>2. t \in Underway /\ t \in Permitted
    BY <2>1 DEF Underway, Permitted
  <2>3. next <= MaxRequests /\ (next' = next + 1 /\ Underway' = Underway \ {t} => Room')
    BY <1>1, <2>2, RoomIsUsed
  <2>4. <<>> \in Seq(Packet) /\ Graphics \in Queues /\ "SuspendPoint" \in Kinds
    BY QueuesAre DEF Kinds
  <2>5. Inside' /\ next' = next + 1 /\ Marked' = Marked \cup {next} /\ next \notin Marked
    BY <1>1, <2>1, <2>3, <2>4, EnqueueInside
  <2>6. /\ call' \in [Threads -> [at : CallState, id : 0 .. MaxRequests]]
        /\ Underway' = Underway \ {t} /\ Permitted' = Permitted \ {t}
    <3>1. "none" \in CallState /\ 0 \in 0 .. MaxRequests
      BY GuestGpuAssumption DEF CallState
    <3>. QED  BY <1>1, <2>1, <3>1, CallIs
  <2>7. /\ releases' = releases /\ engines' = engines /\ label' = label /\ aborted' = aborted
    BY <2>1 DEF Enqueue, device
  <2>8. Room'
    BY <2>3, <2>5, <2>6
  <2>9. Outside'
    BY <1>1, <2>1, <2>6, <2>7 DEF Outside
  <2>10. OnePermission'
    <3>1. IsFiniteSet(Permitted') /\ Cardinality(Permitted') = Cardinality(Permitted) - 1
      BY <1>1, <2>2, <2>6, FS_RemoveElement DEF OnePermission
    <3>2. IsFiniteSet(Marked') /\ Cardinality(Marked') = Cardinality(Marked) + 1
      BY <1>1, <2>5, FS_AddElement DEF OnePermission
    <3>3. Cardinality(Permitted) \in Nat /\ Cardinality(Marked) \in Nat
      BY <1>1, FS_CardinalityType DEF OnePermission
    <3>4. credit \in Nat /\ releases \in Nat
      BY <1>1 DEF Outside
    <3>5. credit + releases + Cardinality(Permitted) + Cardinality(Marked) = 1
      BY <1>1 DEF OnePermission
    <3>6. credit' + releases' + Cardinality(Permitted') + Cardinality(Marked') = 1
      BY <2>1, <2>7, <3>1, <3>2, <3>3, <3>4, <3>5
    <3>. QED  BY <3>1, <3>2, <3>6 DEF OnePermission
  <2>. QED  BY <2>5, <2>8, <2>9, <2>10 DEF GpuInvariant
<1>. QED  BY <1>2, <1>3

\* A call sends a command.
LEMMA CommandKeeps ==
    ASSUME GpuInvariant, NEW t \in Threads, SendCommandSync(t) \/ Unmaps(t)
    PROVE  GpuInvariant'
<1>1. Inside /\ Types /\ Outside /\ Room /\ OnePermission
  BY DEF GpuInvariant, Inside
<1>2. CASE Exit("SendCommandSync") \/ Exit("UnmapMemory")
  BY <1>2, ExitKeeps
<1>3. CASE ~ (Exit("SendCommandSync") \/ Exit("UnmapMemory"))
  <2>1. SendsCommand(t) /\ t \notin Permitted
    BY <1>3 DEF SendCommandSync, Unmaps, Free, In, Permitted
  <2>2. /\ CallOf(t, "sync", next) /\ next' = next + 1 /\ releases' = releases
        /\ engines' = engines /\ label' = label /\ credit' = credit /\ aborted' = aborted
    BY <2>1 DEF SendsCommand, device
  <2>3. Cardinality(Underway) \in Nat /\ next \in Int /\ MaxRequests \in Nat
    BY <1>1, FS_CardinalityType, Fields, GuestGpuAssumption DEF Room
  <2>4. next <= MaxRequests /\ (Underway' = Underway \ {t} => Room')
    <3>1. CASE t \in Underway
      BY <1>1, <2>2, <3>1, RoomIsUsed
    <3>2. CASE t \notin Underway
      <4>1. MayAsk
        BY <1>3, <3>2 DEF SendCommandSync, Unmaps, In, Underway
      <4>2. next + Cardinality(Underway) <= MaxRequests
        BY <4>1 DEF MayAsk
      <4>3. next <= MaxRequests /\ next' + Cardinality(Underway) <= MaxRequests + 1
        BY <2>2, <2>3, <4>2
      <4>4. Underway' = Underway \ {t} => Underway' = Underway
        BY <3>2
      <4>. QED  BY <1>1, <4>3, <4>4 DEF Room
    <3>. QED  BY <3>1, <3>2
  <2>5. Inside' /\ Marked' = Marked
    BY <1>1, <2>1, <2>4, SendsInside
  <2>6. /\ call' \in [Threads -> [at : CallState, id : 0 .. MaxRequests]]
        /\ Underway' = Underway \ {t} /\ Permitted' = Permitted \ {t}
    <3>1. "sync" \in CallState /\ next \in 0 .. MaxRequests
      BY <1>1, <2>4, <2>3 DEF CallState, Types
    <3>. QED  BY <1>1, <2>2, <3>1, CallIs
  <2>7. Permitted' = Permitted
    BY <2>1, <2>6
  <2>8. Outside'
    BY <1>1, <2>2, <2>6 DEF Outside
  <2>9. OnePermission'
    BY <1>1, <2>2, <2>5, <2>7 DEF OnePermission
  <2>. QED  BY <2>4, <2>5, <2>6, <2>8, <2>9 DEF GpuInvariant
<1>. QED  BY <1>2, <1>3

\* The guest writes memory, which is no request.
LEMMA GuestWritesKeeps ==
    ASSUME GpuInvariant, NEW l \in Labels, GuestWrites(l)
    PROVE  GpuInvariant'
<1>1. Inside /\ Types /\ Outside
  BY DEF GpuInvariant, Inside
<1>2. Inside' /\ Marked' = Marked
  <2>1. UNCHANGED <<guarded, gpu, next, ran>>
    BY DEF GuestWrites, history
  <2>. QED  BY <1>1, <2>1, UnchangedInside
<1>3. /\ label' = [label EXCEPT ![l] = TRUE] /\ call' = call /\ next' = next /\ credit' = credit
      /\ releases' = releases /\ engines' = engines /\ aborted' = aborted
  BY DEF GuestWrites, history
<1>4. Underway' \subseteq Underway /\ Permitted' = Permitted
  BY <1>3 DEF Underway, Permitted
<1>5. label' \in [Labels -> BOOLEAN]
  BY <1>1, <1>3 DEF Outside
<1>6. Outside' /\ Room' /\ OnePermission'
  BY <1>1, <1>2, <1>3, <1>4, <1>5, RestStays DEF Outside
<1>. QED  BY <1>2, <1>6 DEF GpuInvariant

--------------------------------------------------------------------------------
(* The GPU thread                                                          *)

\* The memory and the counters that packets change.
LEMMA ExecutesTypes ==
    ASSUME Outside, NEW p, Executes(p)
    PROVE  /\ engines' \in [ce : Nat, de : Nat, ce_complete : BOOLEAN]
           /\ label' \in [Labels -> BOOLEAN]
<1>1. engines \in [ce : Nat, de : Nat, ce_complete : BOOLEAN] /\ label \in [Labels -> BOOLEAN]
  BY DEF Outside
<1>2. label' \in [Labels -> BOOLEAN]
  BY <1>1 DEF Executes
<1>3. CASE p.op = "IncrementCe"
  BY <1>1, <1>2, <1>3 DEF Executes
<1>4. CASE p.op # "IncrementCe" /\ p.op = "IncrementDe"
  BY <1>1, <1>2, <1>4 DEF Executes
<1>5. CASE p.op # "IncrementCe" /\ p.op # "IncrementDe"
  BY <1>1, <1>2, <1>5 DEF Executes
<1>. QED  BY <1>3, <1>4, <1>5

\* A step of the GPU thread; a marker hands the permission to the native GPU.
LEMMA GpuKeeps ==
    ASSUME GpuInvariant, Gpu \/ WakesAlone
    PROVE  GpuInvariant'
<1>1. Inside /\ Types /\ Outside /\ Room /\ OnePermission
  BY DEF GpuInvariant, Inside
<1> DEFINE EngineType == [ce : Nat, de : Nat, ce_complete : BOOLEAN]
<1>2. engines \in EngineType /\ label \in [Labels -> BOOLEAN]
      /\ aborted \in {"", "Submit", "SuspendPoint", "SendCommandSync", "UnmapMemory"}
  BY <1>1 DEF Outside
<1>3. ASSUME Inside', Marked' = Marked, releases' = releases, next' = next, credit' = credit,
             aborted' = aborted, engines' \in EngineType, label' \in [Labels -> BOOLEAN],
             WakeOne \/ WakeAll \/ call' = call
      PROVE  GpuInvariant'
  <2>1. /\ call' \in [Threads -> [at : CallState, id : 0 .. MaxRequests]]
        /\ Underway' = Underway /\ Permitted' = Permitted
    BY <1>1, <1>3, WokenCalls
  <2>2. Underway' \subseteq Underway
    BY <2>1
  <2>3. Outside' /\ Room' /\ OnePermission'
    BY <1>2, <1>3, <2>1, <2>2, RestStays
  <2>. QED  BY <1>3, <2>3 DEF GpuInvariant
<1>4. CASE GpuSleeps \/ GpuStops \/ GpuExits \/ GpuDozes
  <2>1. Inside' /\ Marked' = Marked
    BY <1>1, <1>4, RestsInside
  <2>2. /\ releases' = releases /\ next' = next /\ credit' = credit /\ aborted' = aborted
        /\ engines' = engines /\ label' = label /\ (WakeOne \/ WakeAll \/ call' = call)
    BY <1>4 DEF GpuSleeps, GpuStops, GpuExits, GpuDozes, device, history
  <2>. QED  BY <1>2, <1>3, <2>1, <2>2
<1>5. CASE WakesAlone
  <2>1. Inside' /\ Marked' = Marked
    BY <1>1, <1>5, WakesInside
  <2>2. /\ releases' = releases /\ next' = next /\ credit' = credit /\ aborted' = aborted
        /\ engines' = engines /\ label' = label /\ (WakeOne \/ WakeAll \/ call' = call)
    BY <1>5 DEF WakesAlone, device, history
  <2>. QED  BY <1>2, <1>3, <2>1, <2>2
<1>6. CASE GpuTakesCommand \/ RunsCommand \/ ServesCommand
  <2>1. Inside' /\ Marked' = Marked
    BY <1>1, <1>6, TakesInside, RunsCommandInside, ServesInside
  <2>2. /\ releases' = releases /\ next' = next /\ credit' = credit /\ aborted' = aborted
        /\ engines' = engines /\ label' = label /\ call' = call
    BY <1>6 DEF GpuTakesCommand, RunsCommand, ServesCommand, device, history
  <2>. QED  BY <1>2, <1>3, <2>1, <2>2
<1>7. CASE GpuTakesSubmission
  <2>1. Inside' /\ Marked' = Marked
    BY <1>1, <1>7, TakesSubmissionInside
  <2>2. /\ releases' = releases /\ next' = next /\ credit' = credit /\ aborted' = aborted
        /\ label' = label /\ call' = call
    BY <1>7 DEF GpuTakesSubmission, history
  <2>3. engines' = engines \/ engines' = [ce |-> 0, de |-> 0, ce_complete |-> FALSE]
    BY <1>7 DEF GpuTakesSubmission
  <2>4. engines' \in EngineType
    <3>1. [ce |-> 0, de |-> 0, ce_complete |-> FALSE] \in EngineType
      OBVIOUS
    <3>. QED  BY <1>2, <2>3, <3>1
  <2>. QED  BY <1>2, <1>3, <2>1, <2>2, <2>4
<1>8. CASE GpuTriesAgain
  <2>1. Inside' /\ Marked' = Marked
    BY <1>1, <1>8, TriesAgainInside
  <2>2. /\ releases' = releases /\ next' = next /\ credit' = credit /\ aborted' = aborted
        /\ engines' = engines /\ label' = label /\ call' = call
    BY <1>8 DEF GpuTriesAgain, device, history
  <2>. QED  BY <1>2, <1>3, <2>1, <2>2
<1>9. CASE RunsConstant \/ ConstantsStop \/ RunsPacket \/ CommandsStop
  <2>1. Inside' /\ Marked' = Marked
    BY <1>1, <1>9, PacketsInside
  <2>2. /\ releases' = releases /\ next' = next /\ credit' = credit /\ aborted' = aborted
        /\ call' = call
    BY <1>9 DEF RunsConstant, ConstantsStop, RunsPacket, CommandsStop, device, history
  <2>3. engines' \in EngineType /\ label' \in [Labels -> BOOLEAN]
    <3>1. CASE RunsConstant \/ RunsPacket
      BY <1>1, <3>1, ExecutesTypes DEF RunsConstant, RunsPacket
    <3>2. CASE ConstantsStop
      <4>1. /\ label' = label
            /\ \/ engines' = engines
               \/ \E b \in BOOLEAN : engines' = [engines EXCEPT !.ce_complete = b]
        BY <3>2 DEF ConstantsStop
      <4>. QED  BY <1>2, <4>1
    <3>3. CASE CommandsStop
      BY <1>2, <3>3 DEF CommandsStop, device
    <3>. QED  BY <1>9, <3>1, <3>2, <3>3
  <2>. QED  BY <1>3, <2>1, <2>2, <2>3
<1>10. CASE GpuLooksAgain
  <2>1. Inside' /\ Marked' = Marked
    BY <1>1, <1>10, LooksAgainInside
  <2>2. /\ releases' = releases /\ next' = next /\ credit' = credit /\ aborted' = aborted
        /\ engines' = engines /\ label' = label /\ (WakeAll \/ call' = call)
    BY <1>10 DEF GpuLooksAgain, device, history
  <2>. QED  BY <1>2, <1>3, <2>1, <2>2
<1>11. CASE RunsMarker
  <2>1. Inside'
        /\ \/ gpu.submission.type = "SuspendPoint" /\ releases' = releases + 1
              /\ gpu.submission.id \in Marked /\ Marked' = Marked \ {gpu.submission.id}
           \/ releases' = releases /\ Marked' = Marked
    BY <1>1, <1>11, MarkerInside
  <2>2. /\ next' = next /\ credit' = credit /\ aborted' = aborted
        /\ engines' = engines /\ label' = label /\ call' = call
    BY <1>11 DEF RunsMarker
  <2>3. CASE releases' = releases /\ Marked' = Marked
    BY <1>2, <1>3, <2>1, <2>2, <2>3
  <2>4. CASE /\ releases' = releases + 1
             /\ gpu.submission.id \in Marked /\ Marked' = Marked \ {gpu.submission.id}
    <3>1. credit \in Nat /\ releases \in Nat
      BY <1>1 DEF Outside
    <3>2. Underway' = Underway /\ Permitted' = Permitted
      BY <2>2 DEF Underway, Permitted
    <3>3. Room'
      BY <1>1, <2>2, <3>2 DEF Room
    <3>4. Outside'
      <4>1. releases' \in Nat
        BY <2>4, <3>1
      <4>. QED  BY <1>1, <2>2, <4>1 DEF Outside
    <3>5. OnePermission'
      <4>1. IsFiniteSet(Marked') /\ Cardinality(Marked') = Cardinality(Marked) - 1
        BY <1>1, <2>4, FS_RemoveElement DEF OnePermission
      <4>2. Cardinality(Permitted) \in Nat /\ Cardinality(Marked) \in Nat
        BY <1>1, FS_CardinalityType DEF OnePermission
      <4>. QED  BY <1>1, <2>2, <2>4, <3>1, <3>2, <4>1, <4>2 DEF OnePermission
    <3>. QED  BY <2>1, <3>3, <3>4, <3>5 DEF GpuInvariant
  <2>. QED  BY <2>1, <2>3, <2>4
<1>. QED  BY <1>4, <1>5, <1>6, <1>7, <1>8, <1>9, <1>10, <1>11 DEF Gpu


--------------------------------------------------------------------------------
(* The invariant of the guest GPU                                          *)

\* At first there are no requests, and the permission is with the semaphore.
LEMMA InitHolds == Init => GpuInvariant
<1> SUFFICES ASSUME Init PROVE GpuInvariant
  OBVIOUS
<1>1. /\ MaxRequests \in Nat /\ Graphics \in Queues /\ 0 \in 0 .. MaxRequests
      /\ 1 \in 1 .. MaxRequests + 1
  BY GuestGpuAssumption, QueuesAre
<1>2. /\ queues = [q \in Queues |-> <<>>] /\ commands = <<>> /\ Len(commands) = 0
      /\ next_queue = 0 /\ submission_count = 0 /\ processing = FALSE /\ stopping = FALSE
      /\ gpu = [at |-> "look", command |-> 0, submission |-> Nothing, moved |-> FALSE]
      /\ next = 1 /\ ran = {} /\ credit = 1 /\ releases = 0
  BY DEF Init
<1>3. /\ gpu.at = "look" /\ gpu.command = 0 /\ gpu.submission = Nothing /\ ~ Holds
      /\ \A q \in Queues : PlacesOf(q) = {}
  BY <1>2 DEF Holds, Nothing, PlacesOf
<1>4. \A q \in Queues : \A n, type : ~ Has(q, n, type)
  BY <1>3 DEF Has, HoldsOf
<1>5. Types
  <2>1. /\ next_queue \in Queues /\ commands \in Seq(Ids) /\ queues \in [Queues -> Seq(Submission)]
    BY <1>1, <1>2 DEF Graphics
  <2>2. gpu \in [at : Places, command : 0 .. MaxRequests,
                 submission : Submission \cup {Nothing}, moved : BOOLEAN]
    BY <1>1, <1>2 DEF Places
  <2>. QED  BY <1>1, <1>2, <2>1, <2>2 DEF Types
<1>6. InHand /\ Lines /\ Markers /\ Settled
  BY <1>2, <1>3 DEF InHand, Lines, Markers, Settled
<1>7. Counted
  <2>1. \A x : x \in Waiting <=> \E q \in Queues : \E i \in PlacesOf(q) : x = <<q, i>>
    BY <1>5, WaitingIs DEF Types
  <2>2. Waiting = {}
    BY <1>3, <2>1
  <2>. QED  BY <1>2, <2>2, FS_EmptySet DEF Counted
<1>8. Apart
  BY <1>4 DEF Apart
<1>9. Accounted
  BY <1>2, <1>3 DEF Accounted
<1>10. call \in [Threads -> {[at |-> "none", id |-> 0]}]
  BY DEF Init
<1>11. Outside
  <2>1. call \in [Threads -> [at : CallState, id : 0 .. MaxRequests]]
    BY <1>1, <1>10 DEF CallState
  <2>2. engines = [ce |-> 0, de |-> 0, ce_complete |-> FALSE] /\ label = [l \in Labels |-> FALSE]
        /\ aborted = ""
    BY DEF Init
  <2>. QED  BY <1>2, <2>1, <2>2 DEF Outside
<1>12. Underway = {} /\ Permitted = {}
  BY <1>10 DEF Underway, Permitted
<1>13. Marked = {}
  BY <1>4 DEF Marked
<1>14. Room
  BY <1>1, <1>2, <1>12, FS_EmptySet DEF Room
<1>15. OnePermission
  BY <1>2, <1>12, <1>13, FS_EmptySet DEF OnePermission
<1>. QED  BY <1>5, <1>6, <1>7, <1>8, <1>9, <1>11, <1>14, <1>15 DEF GpuInvariant, Inside

\* Every step keeps the invariant.
LEMMA NextKeeps == GpuInvariant /\ [Next]_vars => GpuInvariant'
<1> SUFFICES ASSUME GpuInvariant, [Next]_vars PROVE GpuInvariant'
  OBVIOUS
<1>1. CASE SubmitFlipPreparation \/ \E list \in Lists : Submit(list)
  BY <1>1, SubmitKeeps
<1>2. ASSUME NEW t \in Threads, Asks(t) \/ Continues(t)
      PROVE  GpuInvariant'
  <2>1. CASE CallsSuspendPoint(t) \/ LooksForShutdown(t)
    BY <2>1, RoomIsKept
  <2>2. CASE SendCommandSync(t) \/ Unmaps(t)
    BY <2>2, CommandKeeps
  <2>3. CASE CommandDone(t) \/ WaitForIdle(t) \/ LooksAgain(t) \/ Joins(t) \/ Shutdown(t)
    BY <2>3, CallsKeep
  <2>4. CASE AcquiresCredit(t)
    BY <2>4, AcquiresCreditKeeps
  <2>5. CASE SuspendPoint(t)
    BY <2>5, SuspendPointKeeps
  <2>. QED  BY <1>2, <2>1, <2>2, <2>3, <2>4, <2>5 DEF Asks, Continues
<1>3. CASE \E l \in Labels : GuestWrites(l)
  BY <1>3, GuestWritesKeeps
<1>4. CASE ReleasesCredit
  BY <1>4, ReleasesCreditKeeps
<1>5. CASE Gpu \/ WakesAlone
  BY <1>5, GpuKeeps
<1>6. CASE UNCHANGED vars
  <2>1. /\ UNCHANGED <<guarded, gpu, next, ran>>
        /\ credit' = credit /\ releases' = releases /\ call' = call
        /\ engines' = engines /\ label' = label /\ aborted' = aborted /\ next' = next
    BY <1>6 DEF vars, device, history
  <2>2. Inside /\ Types /\ Outside
    BY DEF GpuInvariant, Inside
  <2>3. Inside' /\ Marked' = Marked
    BY <2>1, <2>2, UnchangedInside
  <2>4. Underway' \subseteq Underway /\ Permitted' = Permitted
    BY <2>1 DEF Underway, Permitted
  <2>5. Outside' /\ Room' /\ OnePermission'
    BY <2>1, <2>2, <2>3, <2>4, RestStays DEF Outside
  <2>. QED  BY <2>3, <2>5 DEF GpuInvariant
<1>. QED  BY <1>1, <1>2, <1>3, <1>4, <1>5, <1>6 DEF Next

\* In every state of the guest GPU each request is in its one place.
THEOREM Invariance == Spec => []GpuInvariant
<1>. QED  BY InitHolds, NextKeeps, PTL DEF Spec

--------------------------------------------------------------------------------
(* The order of a queue                                                    *)

\* The line of a queue is what is in it, behind what the GPU thread holds of it.
LEMMA PipelineIs ==
    ASSUME Types, NEW q \in Queues
    PROVE  /\ Pipeline(q) \in Seq(Submission) /\ Len(Pipeline(q)) \in Nat
           /\ ~ HoldsOf(q) => Pipeline(q) = queues[q]
           /\ HoldsOf(q) => /\ Len(Pipeline(q)) = Len(queues[q]) + 1
                            /\ Pipeline(q)[1] = gpu.submission
                            /\ \A k \in PlacesOf(q) : Pipeline(q)[k + 1] = queues[q][k]
<1>1. queues[q] \in Seq(Submission) /\ (Holds => gpu.submission \in Submission)
  BY Fields
<1>2. CASE HoldsOf(q)
  <2>1. Pipeline(q) = <<gpu.submission>> \o queues[q]
    BY <1>2 DEF Pipeline, HoldsOf, Holds
  <2>2. gpu.submission \in Submission
    BY <1>1, <1>2 DEF HoldsOf
  <2>. QED  BY <1>1, <1>2, <2>1, <2>2, OneBefore DEF PlacesOf
<1>3. CASE ~ HoldsOf(q)
  <2>1. Pipeline(q) = <<>> \o queues[q]
    BY <1>3 DEF Pipeline, HoldsOf, Holds
  <2>. QED  BY <1>1, <1>3, <2>1
<1>. QED  BY <1>2, <1>3

\* The requests of a line are those that the queue has, in order, and only the first
\* may have begun.
LEMMA LineIs ==
    ASSUME Inside, NEW q \in Queues
    PROVE  LET line == Pipeline(q) IN
           /\ \A i, j \in 1 .. Len(line) : i < j => line[i].id < line[j].id
           /\ \A i \in 2 .. Len(line) : ~ line[i].started
           /\ \A i \in 1 .. Len(line) :
                /\ line[i] \in Submission /\ line[i].id \in Ids /\ line[i].type \in Kinds
                /\ Has(q, line[i].id, line[i].type)
           /\ \A n, type : Has(q, n, type) =>
                \E i \in 1 .. Len(line) : line[i].id = n /\ line[i].type = type
<1> DEFINE line == Pipeline(q)
<1>0. Types /\ Lines
  BY DEF Inside
<1>1. /\ line \in Seq(Submission) /\ Len(line) \in Nat
      /\ ~ HoldsOf(q) => line = queues[q]
      /\ HoldsOf(q) => /\ Len(line) = Len(queues[q]) + 1 /\ line[1] = gpu.submission
                       /\ \A k \in PlacesOf(q) : line[k + 1] = queues[q][k]
  BY <1>0, PipelineIs
<1>2. /\ Len(queues[q]) \in Nat
      /\ \A i \in PlacesOf(q) :
            queues[q][i] \in Submission /\ queues[q][i].id \in Ids /\ queues[q][i].type \in Kinds
      /\ Holds => gpu.submission \in Submission /\ gpu.submission.id \in Ids
                  /\ gpu.submission.type \in Kinds
  BY <1>0, Fields
<1>3. \A i \in PlacesOf(q) :
        /\ \A j \in PlacesOf(q) : i < j => queues[q][i].id < queues[q][j].id
        /\ i > 1 \/ HoldsOf(q) => ~ queues[q][i].started
        /\ HoldsOf(q) => gpu.submission.id < queues[q][i].id
  BY <1>0 DEF Lines
<1> HIDE DEF line
<1>4. CASE ~ HoldsOf(q)
  <2>1. line = queues[q] /\ PlacesOf(q) = 1 .. Len(line)
    BY <1>1, <1>4 DEF PlacesOf
  <2>2. \A i \in 2 .. Len(line) : i \in PlacesOf(q) /\ i > 1
    BY <1>1, <2>1
  <2>. QED  BY <1>2, <1>3, <1>4, <2>1, <2>2 DEF Has, line
<1>5. CASE HoldsOf(q)
  <2>1. \A i \in 1 .. Len(line) :
          \/ i = 1 /\ line[i] = gpu.submission
          \/ i > 1 /\ i - 1 \in PlacesOf(q) /\ line[i] = queues[q][i - 1]
    <3>1. ASSUME NEW i \in 1 .. Len(line), i # 1
          PROVE  i > 1 /\ i - 1 \in PlacesOf(q) /\ line[i] = queues[q][i - 1]
      <4>1. i > 1 /\ i - 1 \in PlacesOf(q) /\ (i - 1) + 1 = i
        BY <1>1, <1>2, <1>5, <3>1 DEF PlacesOf
      <4>2. line[(i - 1) + 1] = queues[q][i - 1]
        BY <1>1, <1>5, <4>1
      <4>. QED  BY <4>1, <4>2
    <3>2. \A i \in 1 .. Len(line) : i = 1 => line[i] = gpu.submission
      BY <1>1, <1>5
    <3>. QED  BY <3>1, <3>2
  <2>2. /\ 1 \in 1 .. Len(line)
        /\ \A k \in PlacesOf(q) : k + 1 \in 1 .. Len(line) /\ line[k + 1] = queues[q][k]
    BY <1>1, <1>2, <1>5 DEF PlacesOf
  <2>3. \A i, j \in 1 .. Len(line) : i < j => line[i].id < line[j].id
    <3> SUFFICES ASSUME NEW i \in 1 .. Len(line), NEW j \in 1 .. Len(line), i < j
                 PROVE  line[i].id < line[j].id
      OBVIOUS
    <3>1. j > 1 /\ j - 1 \in PlacesOf(q) /\ line[j] = queues[q][j - 1]
      BY <2>1
    <3>2. CASE i = 1
      BY <1>3, <1>5, <2>1, <3>1, <3>2
    <3>3. CASE i > 1
      <4>1. i - 1 \in PlacesOf(q) /\ line[i] = queues[q][i - 1] /\ i - 1 < j - 1
        BY <2>1, <3>3
      <4>. QED  BY <1>3, <3>1, <4>1
    <3>. QED  BY <3>2, <3>3
  <2>4. \A i \in 2 .. Len(line) : ~ line[i].started
    <3>1. \A i \in 2 .. Len(line) : i \in 1 .. Len(line) /\ i # 1
      BY <1>1
    <3>. QED  BY <1>3, <1>5, <2>1, <3>1
  <2>5. Holds
    BY <1>5 DEF HoldsOf
  <2>6. \A i \in 1 .. Len(line) :
          /\ line[i] \in Submission /\ line[i].id \in Ids /\ line[i].type \in Kinds
          /\ Has(q, line[i].id, line[i].type)
    BY <1>2, <1>5, <2>1, <2>5 DEF Has
  <2>7. \A n, type : Has(q, n, type) =>
          \E i \in 1 .. Len(line) : line[i].id = n /\ line[i].type = type
    <3>1. line[1] = gpu.submission
      BY <1>1, <1>5
    <3>. QED  BY <2>2, <3>1 DEF Has
  <2>. QED  BY <2>3, <2>4, <2>6, <2>7 DEF line
<1>. QED  BY <1>4, <1>5

\* What the invariant says of the types and the counter of the queues.
LEMMA TypesFollow == GpuInvariant => TypeOK
<1> SUFFICES ASSUME GpuInvariant PROVE TypeOK
  OBVIOUS
<1>1. Inside /\ Types /\ Outside /\ OnePermission
  BY DEF GpuInvariant, Inside
<1>2. \A q \in Queues : \A i \in 1 .. Len(Pipeline(q)) : Pipeline(q)[i] \in Submission
  BY <1>1, LineIs
<1>3. credit \in 0 .. 1 /\ releases \in 0 .. 1
  <2>1. Cardinality(Permitted) \in Nat /\ Cardinality(Marked) \in Nat
    BY <1>1, FS_CardinalityType DEF OnePermission
  <2>2. credit \in Nat /\ releases \in Nat
    BY <1>1 DEF Outside
  <2>3. credit + releases + Cardinality(Permitted) + Cardinality(Marked) = 1
    BY <1>1 DEF OnePermission
  <2>. QED  BY <2>1, <2>2, <2>3
<1>4. gpu.at \in Places /\ gpu.command \in 0 .. MaxRequests /\ gpu.moved \in BOOLEAN
  BY <1>1, Fields
<1>5. ran \subseteq Ids
  BY <1>1 DEF Types, Ids
<1>6. submission_count = Cardinality(Waiting)
  BY <1>1 DEF Inside, Counted
<1>7. /\ commands \in Seq(Ids) /\ next_queue \in Queues /\ processing \in BOOLEAN
      /\ stopping \in BOOLEAN /\ next \in 1 .. MaxRequests + 1
  BY <1>1 DEF Types
<1>8. /\ engines \in [ce : Nat, de : Nat, ce_complete : BOOLEAN] /\ label \in [Labels -> BOOLEAN]
      /\ call \in [Threads -> [at : CallState, id : 0 .. MaxRequests]]
      /\ aborted \in {"", "Submit", "SuspendPoint", "SendCommandSync", "UnmapMemory"}
  BY <1>1 DEF Outside
<1>. QED  BY <1>2, <1>3, <1>4, <1>5, <1>6, <1>7, <1>8 DEF TypeOK, Places

\* The submissions of a queue run in the order of the calls that made them; one that
\* stalls and goes back to its queue is not overtaken, and none that follows has begun
\* or is thought to have run.
THEOREM InOrderAlways == Spec => []InOrder
<1>1. GpuInvariant => InOrder
  <2> SUFFICES ASSUME GpuInvariant PROVE InOrder
    OBVIOUS
  <2>1. TypeOK /\ Inside /\ Types
    BY TypesFollow DEF GpuInvariant, Inside
  <2>2. ASSUME NEW q \in Queues
        PROVE  LET line == Pipeline(q) IN
               /\ \A i, j \in 1 .. Len(line) : i < j => line[i].id < line[j].id
               /\ \A i \in 2 .. Len(line) : ~ line[i].started
               /\ \A i \in 1 .. Len(line) : line[i].id \in ran => gpu.at = "over" /\ i = 1
    <3> DEFINE line == Pipeline(q)
    <3>1. /\ \A i, j \in 1 .. Len(line) : i < j => line[i].id < line[j].id
          /\ \A i \in 2 .. Len(line) : ~ line[i].started
          /\ \A i \in 1 .. Len(line) :
               /\ line[i].id \in Ids /\ line[i].type \in Kinds
               /\ Has(q, line[i].id, line[i].type)
      BY <2>1, LineIs
    <3>2. HoldsOf(q) => line[1] = gpu.submission
      BY <2>1, PipelineIs
    <3>3. ASSUME NEW i \in 1 .. Len(line), line[i].id \in ran
          PROVE  gpu.at = "over" /\ i = 1
      <4>1. gpu.at = "over" /\ gpu.submission.id = line[i].id
        BY <2>1, <3>1, <3>3 DEF Inside, Apart
      <4>2. Holds /\ gpu.submission.id \in Ids /\ gpu.submission.type \in Kinds
            /\ gpu.submission.queue \in Queues
        BY <2>1, <3>1, <4>1, Fields DEF Holds
      <4>3. Has(gpu.submission.queue, line[i].id, gpu.submission.type)
        BY <4>1, <4>2 DEF Has, HoldsOf
      <4>4. HoldsOf(q)
        BY <2>1, <3>1, <4>2, <4>3 DEF Inside, Apart, HoldsOf
      <4>5. line[1].id = line[i].id
        BY <3>2, <4>1, <4>4
      <4>6. line[i].id \in Int /\ 1 \in 1 .. Len(line) /\ (i = 1 \/ 1 < i)
        BY <2>1, <3>1, Fields
      <4>7. ~ (line[1].id < line[i].id)
        BY <4>5, <4>6
      <4>. QED  BY <3>1, <4>1, <4>6, <4>7
    <3>. QED  BY <3>1, <3>3
  <2>. QED  BY <2>1, <2>2 DEF InOrder
<1>. QED  BY <1>1, Invariance, PTL

--------------------------------------------------------------------------------
(* The suspend points                                                      *)

\* Numbers that ascend are not below their places.
LEMMA AscendingIsAhead ==
    ASSUME NEW len \in Nat, NEW id, \A i \in 1 .. len : id[i] \in Nat /\ id[i] >= 1,
           \A i, j \in 1 .. len : i < j => id[i] < id[j]
    PROVE  \A i \in 1 .. len : i <= id[i]
<1> DEFINE behind == {i \in Nat : i \in 1 .. len /\ ~ (i <= id[i])}
<1> SUFFICES ASSUME behind # {} PROVE FALSE
  OBVIOUS
<1>1. IsWellFoundedOn(OpToRel(<, Nat), Nat)
  BY NatLessThanWellFounded
<1>2. behind \subseteq Nat
  OBVIOUS
<1>3. PICK i \in behind : \A j \in behind : ~ (<<j, i>> \in OpToRel(<, Nat))
  BY <1>1, <1>2, WFMin
<1>4. \A j \in behind : ~ (j < i)
  BY <1>2, <1>3 DEF OpToRel
<1>5. i \in 1 .. len /\ id[i] < i /\ id[i] \in Nat /\ id[i] >= 1
  OBVIOUS
<1>6. i - 1 \in 1 .. len /\ i - 1 \in Nat /\ i - 1 < i
  BY <1>5
<1>7. i - 1 \notin behind
  BY <1>4, <1>6
<1>8. i - 1 <= id[i - 1] /\ id[i - 1] < id[i] /\ id[i - 1] \in Nat
  BY <1>5, <1>6, <1>7
<1>. QED  BY <1>5, <1>6, <1>8

\* The markers that have not run, by their places in the lines.
MarkerPlaces ==
    {place \in Queues \X Ids : LET line == Pipeline(place[1]) IN
        /\ place[2] <= Len(line)
        /\ line[place[2]].type = "SuspendPoint" /\ line[place[2]].id \notin ran}

\* Each is at the place of a marked request, and each marked request has a place.
LEMMA MarkerPlacesAre ==
    ASSUME Inside
    PROVE  /\ \A q \in Queues, i \in Ids : <<q, i>> \in MarkerPlaces =>
                /\ i \in 1 .. Len(Pipeline(q))
                /\ Pipeline(q)[i].id \in Marked /\ Has(q, Pipeline(q)[i].id, "SuspendPoint")
           /\ \A n \in Marked : \E q \in Queues, i \in Ids :
                <<q, i>> \in MarkerPlaces /\ Pipeline(q)[i].id = n
<1>0. Types
  BY DEF Inside
<1>1. ASSUME NEW q \in Queues, NEW i \in Ids
      PROVE  <<q, i>> \in MarkerPlaces <=>
                /\ i <= Len(Pipeline(q))
                /\ Pipeline(q)[i].type = "SuspendPoint" /\ Pipeline(q)[i].id \notin ran
  BY DEF MarkerPlaces
<1>2. ASSUME NEW q \in Queues, NEW i \in Ids, <<q, i>> \in MarkerPlaces
      PROVE  /\ i \in 1 .. Len(Pipeline(q))
             /\ Pipeline(q)[i].id \in Marked /\ Has(q, Pipeline(q)[i].id, "SuspendPoint")
  <2>1. Len(Pipeline(q)) \in Nat /\ i \in Nat /\ i >= 1
    BY <1>0, PipelineIs DEF Ids
  <2>2. i \in 1 .. Len(Pipeline(q))
    BY <1>1, <1>2, <2>1
  <2>3. /\ Pipeline(q)[i].id \in Ids
        /\ Has(q, Pipeline(q)[i].id, Pipeline(q)[i].type)
    BY <2>2, LineIs
  <2>. QED  BY <1>1, <1>2, <2>2, <2>3 DEF Marked
<1>3. ASSUME NEW n \in Marked
      PROVE  \E q \in Queues, i \in Ids : <<q, i>> \in MarkerPlaces /\ Pipeline(q)[i].id = n
  <2>1. PICK q \in Queues : Has(q, n, "SuspendPoint")
    BY DEF Marked
  <2>2. PICK i \in 1 .. Len(Pipeline(q)) :
          Pipeline(q)[i].id = n /\ Pipeline(q)[i].type = "SuspendPoint"
    BY <2>1, LineIs
  <2>3. Len(Pipeline(q)) \in Nat /\ MaxRequests \in Nat
    BY <1>0, PipelineIs, GuestGpuAssumption
  <2>4. i \in Ids
    <3> DEFINE len == Len(Pipeline(q))
               id == [k \in 1 .. len |-> Pipeline(q)[k].id]
    <3>1. \A k \in 1 .. len : Pipeline(q)[k].id \in Ids
      BY LineIs
    <3>2. \A k \in 1 .. len : id[k] = Pipeline(q)[k].id
      OBVIOUS
    <3>3. \A k, m \in 1 .. len : k < m => id[k] < id[m]
      BY <3>2, LineIs
    <3>4. \A k \in 1 .. len : id[k] \in Nat /\ id[k] >= 1 /\ id[k] <= MaxRequests
      BY <2>3, <3>1, <3>2 DEF Ids
    <3> HIDE DEF id, len
    <3>5. len \in Nat /\ i \in 1 .. len
      BY <2>3 DEF len
    <3>6. i <= id[i]
      BY <3>3, <3>4, <3>5, AscendingIsAhead
    <3>. QED  BY <2>3, <3>4, <3>5, <3>6 DEF Ids
  <2>5. n \notin ran /\ i <= Len(Pipeline(q))
    BY <2>3 DEF Marked
  <2>. QED  BY <1>1, <2>2, <2>4, <2>5
<1>. QED  BY <1>2, <1>3

\* There are as many as there are markers that have not run.
LEMMA OneMarkerPlace ==
    ASSUME GpuInvariant
    PROVE  Cardinality(MarkerPlaces) = Cardinality(Marked)
<1>1. Inside /\ Types /\ OnePermission /\ Apart
  BY DEF GpuInvariant, Inside
<1>2. IsFiniteSet(Marked) /\ Cardinality(Marked) \in 0 .. 1
  <2>1. Cardinality(Permitted) \in Nat /\ Cardinality(Marked) \in Nat /\ IsFiniteSet(Marked)
    BY <1>1, FS_CardinalityType DEF OnePermission
  <2>2. credit \in Nat /\ releases \in Nat
    BY DEF GpuInvariant, Outside
  <2>3. credit + releases + Cardinality(Permitted) + Cardinality(Marked) = 1
    BY <1>1 DEF OnePermission
  <2>. QED  BY <2>1, <2>2, <2>3
<1>3. \A q \in Queues, i \in Ids : <<q, i>> \in MarkerPlaces =>
        /\ i \in 1 .. Len(Pipeline(q))
        /\ Pipeline(q)[i].id \in Marked /\ Has(q, Pipeline(q)[i].id, "SuspendPoint")
  BY <1>1, MarkerPlacesAre
<1>4. \A x \in MarkerPlaces : \E q \in Queues, i \in Ids : x = <<q, i>>
  BY DEF MarkerPlaces
<1>5. CASE Marked = {}
  <2>1. MarkerPlaces = {}
    BY <1>3, <1>4, <1>5
  <2>. QED  BY <1>5, <2>1
<1>6. CASE Marked # {}
  <2>1. Cardinality(Marked) = 1
    <3>1. Cardinality(Marked) # 0
      BY <1>2, <1>6, FS_EmptySet
    <3>. QED  BY <1>2, <3>1
  <2>2. PICK n : Marked = {n}
    BY <1>2, <2>1, FS_Singleton
  <2>3. PICK q \in Queues, i \in Ids : <<q, i>> \in MarkerPlaces /\ Pipeline(q)[i].id = n
    BY <1>1, <2>2, MarkerPlacesAre
  <2>4. ASSUME NEW r \in Queues, NEW j \in Ids, <<r, j>> \in MarkerPlaces
        PROVE  <<r, j>> = <<q, i>>
    <3>1. /\ j \in 1 .. Len(Pipeline(r)) /\ Pipeline(r)[j].id = n /\ Has(r, n, "SuspendPoint")
          /\ i \in 1 .. Len(Pipeline(q)) /\ Pipeline(q)[i].id = n /\ Has(q, n, "SuspendPoint")
      BY <1>3, <2>2, <2>3, <2>4
    <3>2. n \in Ids /\ "SuspendPoint" \in Kinds
      BY <2>2 DEF Marked, Kinds
    <3>3. r = q
      BY <1>1, <3>1, <3>2 DEF Apart
    <3>4. ~ (i < j) /\ ~ (j < i)
      <4>1. \A k, m \in 1 .. Len(Pipeline(q)) :
              k < m => Pipeline(q)[k].id < Pipeline(q)[m].id
        BY <1>1, LineIs
      <4>2. n \in Int /\ ~ (n < n)
        BY <3>2 DEF Ids
      <4>. QED  BY <3>1, <3>3, <4>1, <4>2
    <3>5. i = j
      BY <3>4 DEF Ids
    <3>. QED  BY <3>3, <3>5
  <2>5. MarkerPlaces = {<<q, i>>}
    BY <1>4, <2>3, <2>4
  <2>. QED  BY <2>1, <2>5, FS_Singleton
<1>. QED  BY <1>5, <1>6

\* The guest is let through its suspend point one frame ahead of the native GPU and no
\* more, and the permission for it is never lost.
THEOREM OneSuspendPointAlways == Spec => []OneSuspendPoint
<1>1. GpuInvariant => OneSuspendPoint
  <2> SUFFICES ASSUME GpuInvariant PROVE OneSuspendPoint
    OBVIOUS
  <2>1. SuspendPoints = Cardinality(Permitted) + Cardinality(MarkerPlaces)
    BY DEF SuspendPoints, Permitted, MarkerPlaces
  <2>2. Cardinality(MarkerPlaces) = Cardinality(Marked)
    BY OneMarkerPlace
  <2>3. IsFiniteSet(Permitted) /\ IsFiniteSet(Marked) /\ credit \in Nat /\ releases \in Nat
        /\ credit + releases + Cardinality(Permitted) + Cardinality(Marked) = 1
    BY DEF GpuInvariant, OnePermission, Outside
  <2>4. Cardinality(Permitted) \in Nat /\ Cardinality(Marked) \in Nat
    BY <2>3, FS_CardinalityType
  <2>. QED  BY <2>1, <2>2, <2>3, <2>4 DEF OneSuspendPoint
<1>. QED  BY <1>1, Invariance, PTL

--------------------------------------------------------------------------------
(* Idleness                                                                *)

\* What has nothing in its hands, no commands and no submissions has done all it was
\* asked to.
LEMMA Done ==
    ASSUME Inside, Idle \/ (gpu.at \in {"look", "stops"} /\ NothingQueued)
    PROVE  ran = 1 .. next - 1
<1>1. Types /\ InHand /\ Counted /\ Accounted
  BY DEF Inside
<1>2. commands = <<>> /\ submission_count = 0
  BY DEF Idle, NothingQueued
<1>3. gpu.at \notin {"command", "constants", "commands", "over"}
  BY <1>1 DEF Idle, InHand
<1>4. ~ Holds /\ gpu.command = 0
  BY <1>1, <1>3 DEF InHand
<1>5. \A q \in Queues : PlacesOf(q) = {}
  BY <1>1, <1>2, ZeroIsEmpty
<1>6. \A q \in Queues : \A n, type : ~ Has(q, n, type)
  BY <1>4, <1>5 DEF Has, HoldsOf
<1>7. \A n \in 1 .. next - 1 : ~ Commanded(n)
  <2>1. Len(commands) = 0
    BY <1>2
  <2>2. \A n \in 1 .. next - 1 : n # 0
    BY <1>1 DEF Types
  <2>. QED  BY <1>4, <2>1, <2>2 DEF Commanded
<1>8. \A n \in 1 .. next - 1 : n \in ran
  BY <1>1, <1>6, <1>7 DEF Accounted
<1>. QED  BY <1>1, <1>8 DEF Types

\* A call leaves "woken" for good only as it finds the guest GPU idle.
LEMMA ReturnsIdle ==
    ASSUME GpuInvariant, Next, NEW t \in Threads, call[t].at = "woken", call'[t].at = "none"
    PROVE  Idle
<1>1. Types /\ Outside /\ call \in [Threads -> [at : CallState, id : 0 .. MaxRequests]]
  BY DEF GpuInvariant, Inside, Outside
<1>2. call'[t] # call[t] /\ call'[t].at # "woken"
  OBVIOUS
<1>3. ~ (WakeOne \/ WakeAll \/ call' = call)
  BY <1>1, <1>2, WokenCalls
<1>4. ~ (Gpu \/ WakesAlone)
  BY <1>3 DEF Gpu, WakesAlone, GpuSleeps, GpuStops, GpuExits, GpuTakesCommand, RunsCommand,
      GpuTakesSubmission, GpuDozes, GpuTriesAgain, ServesCommand, RunsConstant, ConstantsStop,
      RunsPacket, CommandsStop, RunsMarker, GpuLooksAgain
<1>5. ~ \E kind : Exit(kind)
  BY <1>3 DEF Exit
<1>6. ~ (SubmitFlipPreparation \/ \E list \in Lists : Submit(list))
  BY <1>3, <1>5 DEF SubmitFlipPreparation, Submit
<1>7. ~ (ReleasesCredit \/ \E l \in Labels : GuestWrites(l))
  BY <1>3 DEF ReleasesCredit, GuestWrites
<1>8. PICK u \in Threads : Asks(u) \/ Continues(u)
  BY <1>4, <1>6, <1>7 DEF Next
<1>9. \E at, id : CallOf(u, at, id)
  BY <1>5, <1>8 DEF Asks, Continues, CallsSuspendPoint, SendCommandSync, LooksForShutdown,
      WaitForIdle, Shutdown, AcquiresCredit, SuspendPoint, CommandDone, Unmaps, LooksAgain,
      Joins, SendsCommand, Ends
<1>10. u = t
  BY <1>1, <1>2, <1>9 DEF CallOf
<1>11. LooksAgain(t)
  BY <1>8, <1>10 DEF Asks, Continues, CallsSuspendPoint, SendCommandSync, LooksForShutdown,
      WaitForIdle, Shutdown, AcquiresCredit, SuspendPoint, CommandDone, Unmaps, Joins, Free, In
<1>12. CASE ~ Idle
  <2>1. call' = [call EXCEPT ![t] = [at |-> "idle", id |-> 0]]
    BY <1>11, <1>12 DEF LooksAgain, CallOf
  <2>2. call'[t].at = "idle"
    BY <1>1, <2>1
  <2>. QED  BY <2>2
<1>. QED  BY <1>12

\* The thread comes to its end only where nothing is queued.
LEMMA StopsIdle ==
    ASSUME GpuInvariant, Next, gpu'.at = "stops", gpu.at # "stops"
    PROVE  GpuStops
<1>1. /\ Types
      /\ gpu \in [at : Places, command : 0 .. MaxRequests,
                  submission : Submission \cup {Nothing}, moved : BOOLEAN]
  BY DEF GpuInvariant, Inside, Types
<1>2. ~ TellGpu /\ gpu' # gpu
  BY <1>1, Told
<1>3. \A place \in Places : gpu' = [gpu EXCEPT !.at = place] => place = "stops"
  BY <1>1
<1>4. ~ (\E kind : Exit(kind)) /\ ~ (\E submission : Enqueue(submission))
  BY <1>2 DEF Exit, Enqueue
<1>5. ~ (SubmitFlipPreparation \/ \E list \in Lists : Submit(list))
  BY <1>4 DEF SubmitFlipPreparation, Submit
<1>6. ~ (ReleasesCredit \/ WakesAlone \/ \E l \in Labels : GuestWrites(l))
  BY <1>2 DEF ReleasesCredit, WakesAlone, GuestWrites
<1>7. ~ \E t \in Threads : Asks(t) \/ Continues(t)
  BY <1>2, <1>4 DEF Asks, Continues, CallsSuspendPoint, SendCommandSync, LooksForShutdown,
      WaitForIdle, Shutdown, AcquiresCredit, SuspendPoint, CommandDone, Unmaps, LooksAgain,
      Joins, SendsCommand
<1>8. Gpu
  BY <1>5, <1>6, <1>7 DEF Next
<1>9. ~ (GpuSleeps \/ GpuExits \/ GpuDozes \/ GpuTriesAgain \/ ConstantsStop)
  BY <1>3 DEF GpuSleeps, GpuExits, GpuDozes, GpuTriesAgain, ConstantsStop, Places
<1>10. ~ RunsMarker
  BY <1>3 DEF RunsMarker, Places
<1>11. ~ (GpuTakesCommand \/ RunsCommand \/ ServesCommand \/ GpuLooksAgain)
  BY <1>1, <1>2 DEF GpuTakesCommand, RunsCommand, ServesCommand, GpuLooksAgain
<1>12. ~ GpuTakesSubmission
  BY <1>1 DEF GpuTakesSubmission
<1>13. ~ (RunsConstant \/ RunsPacket)
  BY <1>1 DEF RunsConstant, RunsPacket, At
<1>14. ~ CommandsStop
  BY <1>1 DEF CommandsStop
<1>. QED  BY <1>8, <1>9, <1>10, <1>11, <1>12, <1>13, <1>14 DEF Gpu

\* A call returns from WaitForIdle, and the GPU thread comes to its end, only when all
\* that was asked before has run: a slice between two looks at the queues and a stalled
\* submission are not taken for idleness.
THEOREM IdleMeansDoneAlways == Spec => IdleMeansDone
<1>1. ASSUME GpuInvariant, [Next]_vars
      PROVE  [(gpu'.at = "stops" \/ \E t \in Threads : call[t].at = "woken" /\ call'[t].at = "none")
              => ran = 1 .. next - 1]_vars
  <2>0. Inside /\ InHand
    BY <1>1 DEF GpuInvariant, Inside
  <2>1. CASE UNCHANGED vars
    BY <2>1
  <2>2. ASSUME Next, NEW t \in Threads, call[t].at = "woken", call'[t].at = "none"
        PROVE  ran = 1 .. next - 1
    BY <1>1, <2>0, <2>2, ReturnsIdle, Done
  <2>3. ASSUME Next, gpu'.at = "stops"
        PROVE  ran = 1 .. next - 1
    <3>1. CASE gpu.at = "stops"
      <4>1. NothingQueued
        BY <2>0, <3>1 DEF InHand, NothingQueued
      <4>. QED  BY <2>0, <3>1, <4>1, Done
    <3>2. CASE gpu.at # "stops"
      <4>1. GpuStops
        BY <1>1, <2>3, <3>2, StopsIdle
      <4>2. gpu.at = "look" /\ NothingQueued
        BY <4>1 DEF GpuStops, At, NothingQueued
      <4>. QED  BY <2>0, <4>2, Done
    <3>. QED  BY <3>1, <3>2
  <2>. QED  BY <1>1, <2>1, <2>2, <2>3
<1>. QED  BY <1>1, Invariance, PTL DEF IdleMeansDone, Spec
================================================================================
