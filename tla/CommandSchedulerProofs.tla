------------------------- MODULE CommandSchedulerProofs -------------------------
(* No operation runs before the GPU is done with its submission, none that      *)
(* frees memory before the guest-memory completions it may free under, no       *)
(* command buffer is recorded while the GPU reads it, and Shutdown leaves       *)
(* nothing behind: for every number of threads, submissions and operations and  *)
(* every GrowStep.  The invariants are not inductive as they stand.  What they  *)
(* need says in which order a call of the owner takes its steps (Ordered,       *)
(* Phased), which queue holds which operation (Listed) and which thread has     *)
(* taken it (RunnerHas, OwnerHas), what the pool knows of each buffer           *)
(* (Recorded) and how far Shutdown has come (Draining, Stopping).               *)
EXTENDS CommandScheduler, SequenceLemmas, WellFoundedInduction

(* The types of the clock, the pool, the operations and the threads, by the variables that *)
(* their actions change.                                                                    *)
Clock ==
    /\ MaxTick \in Nat /\ current \in 1 .. MaxTick + 1 /\ sent \in Nat
    /\ known \in Nat /\ counter \in Nat /\ known <= counter /\ counter <= sent
Slots ==
    /\ pool \in [ticks : Seq(Nat), hint : Nat, command : Nat, used : Seq(Nat)]
    /\ \A i \in 1 .. Len(pool.ticks) : pool.ticks[i] <= current
    /\ Len(pool.ticks) % GrowStep = 0 /\ GrowStep \in Nat \ {0}
    /\ pool.hint \in 1 .. Len(pool.ticks) + 1 /\ pool.command <= Len(pool.ticks)
    /\ Len(pool.used) = sent
    /\ \A tick \in 1 .. sent : pool.used[tick] \in 1 .. Len(pool.ticks)
Kinds == {"none", "normal", "priority"}
Queue ==
    /\ MaxOps \in Nat
    /\ ops \in [Ids -> [kind : Kinds, tick : 0 .. current, state : OpState]]
    /\ pending \in Seq(Ids) /\ priority \in Seq(Ids)
Threads ==
    /\ state \in {"Open", "Draining", "Closed"} /\ stop \in BOOLEAN
    /\ runner \in [at : {"loop", "holds", "waits", "runs", "clears", "notifies", "exited"},
                   op : 0 .. MaxOps]
    /\ late \in [Latecomers -> Nobody .. MaxOps]
    /\ asleep \subseteq Others \cup {"owner", "runner"}

(* The steps of the owner's calls, and which of them may be left behind which in a call.     *)
Steps == {"submit", "retry", "wait", "begin", "refresh", "settle", "start", "run", "pop", "drain",
          "notify", "stop", "notify all", "join", "close"}
Follows(b, a) ==
    /\ b \notin {"submit", "retry"}
    /\ b = "wait" => a \in {"submit", "retry"}
    /\ b = "begin" => a \in {"submit", "retry", "wait"}
    /\ b = "refresh" => a \in {"submit", "retry", "wait", "begin"}
    /\ b = "settle" => a \in {"submit", "retry", "wait", "begin", "refresh"}
    /\ b \in {"start", "run"} => a \in {"submit", "retry", "wait", "begin", "refresh", "settle"}
    /\ b = "pop" => a \in {"submit", "retry", "wait", "begin", "refresh", "settle", "start", "run"}
    /\ b = "drain" => a \notin {"drain", "notify", "stop", "notify all", "join", "close"}
    /\ b \in {"notify", "stop"} => a \notin {"notify", "stop", "notify all", "join", "close"}
    /\ b = "join" => a \notin {"join", "close"}
    /\ a = "close" => b = "notify all"
Plan == 1 .. Len(todo)
Has(steps) == \E k \in Plan : todo[k].do \in steps

Ordered ==
    /\ todo \in Seq([do : Steps, n : Nat])
    /\ \A k, l \in Plan : k < l => Follows(todo[l].do, todo[k].do)
    /\ \A k \in Plan :
            /\ todo[k].do \in {"retry", "run"} => k = 1
            /\ todo[k].do = "start" => k = 1 \/ (k = 2 /\ todo[1].do = "settle")

(* Which steps are left by the state of the scheduler.                                       *)
Phased ==
    /\ state = "Open" => ~ Has({"stop", "notify all", "join", "close"})
    /\ state = "Open" /\ Has({"submit", "retry"}) => Has({"begin"})
    /\ state = "Draining" => Has({"close"})
    /\ state = "Closed" => ~ Has(Steps \ {"notify all"})

(* Every tick but the current one has reached the queue, if none is being repeated.          *)
Timed ==
    /\ sent = IF Has({"retry"}) THEN current - 2 ELSE current - 1
    /\ \A k \in Plan : todo[k].do = "retry" => todo[k].n = current - 1

(* The slot of a submission keeps its tick or a later one, so that a slot that is free is    *)
(* that of no submission under way; the buffer being recorded has the tick to come.           *)
Recorded ==
    /\ \A tick \in 1 .. sent : pool.ticks[pool.used[tick]] >= tick
    /\ pool.command # 0 =>
        /\ pool.ticks[pool.command] = sent + 1
        /\ \A tick \in counter + 1 .. sent : pool.used[tick] # pool.command
    /\ Has({"submit", "retry"}) => pool.command # 0
    /\ state = "Open" /\ ~ Has({"begin"}) => pool.command # 0

Is(i, kind, states) == i \in Ids /\ ops[i].kind = kind /\ ops[i].state \in states

(* A queued operation is listed, once, in the queue of its kind, which for those with        *)
(* priority is sorted by tick.                                                                *)
Listed ==
    /\ \A k \in 1 .. Len(pending) : Is(pending[k], "normal", {"queued"})
    /\ \A k \in 1 .. Len(priority) : Is(priority[k], "priority", {"queued"})
    /\ \A k, l \in 1 .. Len(pending) : k # l => pending[k] # pending[l]
    /\ \A k, l \in 1 .. Len(priority) :
          k < l => priority[k] # priority[l] /\ ops[priority[k]].tick <= ops[priority[l]].tick
    /\ \A i \in Ids : Is(i, "normal", {"queued"}) => \E k \in 1 .. Len(pending) : pending[k] = i
    /\ \A i \in Ids : Is(i, "priority", {"queued"}) => \E k \in 1 .. Len(priority) : priority[k] = i
    /\ \A i \in Ids : ops[i].kind = "none" => ops[i].state = "unused"

(* An operation with priority that has left the queue is the runner's, a normal one the      *)
(* owner's; neither runs before the GPU is known to be done with its tick.                    *)
RunnerHas ==
    /\ \A i \in Ids : Is(i, "priority", {"taken", "running"}) => runner.op = i
    /\ Active => runner.at \in {"waits", "runs", "clears"}
    /\ runner.at = "waits" => Is(runner.op, "priority", {"taken"})
    /\ runner.at = "runs" => Is(runner.op, "priority", {"running"}) /\ ops[runner.op].tick <= known
    /\ runner.at = "clears" => Is(runner.op, "priority", {"done"})
OwnerHas ==
    /\ \A i \in Ids : Is(i, "normal", {"taken", "running"}) =>
            \E k \in Plan : todo[k].do \in {"start", "run"} /\ todo[k].n = i
    /\ \A k \in Plan :
            /\ todo[k].do = "start" => Is(todo[k].n, "normal", {"taken"})
            /\ todo[k].do = "run" => Is(todo[k].n, "normal", {"running"})
            /\ todo[k].do \in {"start", "run"} => ops[todo[k].n].tick <= known

(* What the owner is about to run follows upon all operations with priority of its tick.     *)
NoneBefore(tick) ==
    \A j \in Ids : Is(j, "priority", {"queued", "taken", "running"}) => ops[j].tick > tick
Following ==
    /\ \A k \in Plan : todo[k].do \in {"start", "run"} /\ k = 1 => NoneBefore(ops[todo[k].n].tick)
    /\ \A k \in Plan : todo[k].do = "start" /\ k = 2 => ops[todo[k].n].tick = todo[1].n

(* An operation that waits for the scheduler to be closed belongs to one thread.             *)
Held ==
    /\ \A t \in Latecomers : late[t] > 0 => ops[late[t]].state = "held"
    /\ \A t, u \in Latecomers : t # u /\ late[t] > 0 => late[t] # late[u]

(* Shutdown waits for the tick of everything that is queued, pops it and drains the runner.  *)
Draining ==
    state # "Open" =>
        /\ \A k \in Plan : todo[k].do = "wait" =>
                \A i \in Ids : ops[i].state = "queued" => ops[i].tick <= todo[k].n
        /\ ~ Has({"wait"}) => \A i \in Ids : ops[i].state = "queued" => ops[i].tick <= known
        /\ ~ Has({"pop"}) => pending = <<>>
        /\ ~ Has({"drain"}) => Drained
Stopping == stop => state # "Open" /\ ~ Has({"drain"})

Inv ==
    /\ Clock /\ Slots /\ Queue /\ Threads
    /\ Ordered /\ Phased /\ Timed /\ Recorded /\ Listed /\ RunnerHas /\ OwnerHas
    /\ Following /\ Held /\ Draining /\ Stopping

--------------------------------------------------------------------------------
(* The steps of a call                                                     *)

\* The owner is at the first of the steps that are left.
LEMMA Heads ==
    ASSUME Ordered
    PROVE  /\ Len(todo) \in Nat
           /\ \A k \in Plan : todo[k].do \in Steps /\ todo[k].n \in Nat
           /\ todo = <<>> <=> Len(todo) = 0
           /\ todo # <<>> => 1 \in Plan /\ N = todo[1].n
           /\ \A what : At(what) <=> (todo # <<>> /\ todo[1].do = what)
<1>1. todo \in Seq([do : Steps, n : Nat])
  BY DEF Ordered
<1>2. Len(todo) \in Nat /\ (todo = <<>> <=> Len(todo) = 0)
  BY <1>1
<1>3. \A k \in Plan : todo[k] \in [do : Steps, n : Nat]
  BY <1>1, ElementOfSeq DEF Plan
<1>4. todo # <<>> => Head(todo) = todo[1]
  BY <1>1, WithoutFirst
<1>. QED  BY <1>2, <1>3, <1>4 DEF Plan, N, At

\* What is known of the GPU only grows.
Learns == known \in Nat /\ known' \in Nat /\ known <= known'

LEMMA Learned ==
    ASSUME Clock, known' = known \/ known' = Refreshed
    PROVE  Learns /\ known' <= counter
  BY DEF Clock, Refreshed, Learns

\* What is true of variables that a step leaves alone stays true.
LEMMA Kept ==
    /\ Clock /\ UNCHANGED <<current, known, sent, counter>> => Clock'
    /\ Slots /\ UNCHANGED <<current, sent, pool>> => Slots'
    /\ Queue /\ UNCHANGED <<current, ops, pending, priority>> => Queue'
    /\ Threads /\ UNCHANGED <<state, stop, runner, late, asleep>> => Threads'
    /\ Ordered /\ UNCHANGED todo => Ordered'
    /\ Phased /\ UNCHANGED <<state, todo>> => Phased'
    /\ Timed /\ UNCHANGED <<current, sent, todo>> => Timed'
    /\ Recorded /\ UNCHANGED <<sent, counter, pool, state, todo>> => Recorded'
    /\ Listed /\ UNCHANGED <<ops, pending, priority>> => Listed'
    /\ RunnerHas /\ Queue /\ Learns /\ UNCHANGED <<ops, runner>> => RunnerHas'
    /\ OwnerHas /\ Queue /\ Learns /\ UNCHANGED <<ops, todo>> => OwnerHas'
    /\ Following /\ UNCHANGED <<ops, todo>> => Following'
    /\ Held /\ UNCHANGED <<ops, late>> => Held'
    /\ Draining /\ Queue /\ Learns
         /\ UNCHANGED <<ops, pending, priority, runner, state, todo>> => Draining'
    /\ Stopping /\ UNCHANGED <<stop, state, todo>> => Stopping'
<1>1. Clock /\ UNCHANGED <<current, known, sent, counter>> => Clock'
  BY DEF Clock
<1>2. Slots /\ UNCHANGED <<current, sent, pool>> => Slots'
  BY DEF Slots
<1>3. Queue /\ UNCHANGED <<current, ops, pending, priority>> => Queue'
  BY DEF Queue
<1>4. Threads /\ UNCHANGED <<state, stop, runner, late, asleep>> => Threads'
  BY DEF Threads
<1>5. Ordered /\ UNCHANGED todo => Ordered'
  BY DEF Ordered, Plan
<1>6. Phased /\ UNCHANGED <<state, todo>> => Phased'
  BY DEF Phased, Has, Plan
<1>7. Timed /\ UNCHANGED <<current, sent, todo>> => Timed'
  BY DEF Timed, Has, Plan
<1>8. Recorded /\ UNCHANGED <<sent, counter, pool, state, todo>> => Recorded'
  BY DEF Recorded, Has, Plan
<1>9. Listed /\ UNCHANGED <<ops, pending, priority>> => Listed'
  BY DEF Listed, Is
<1>0. Queue => \A i \in Ids : ops[i].tick \in Nat
  BY DEF Queue
<1>10. RunnerHas /\ Queue /\ Learns /\ UNCHANGED <<ops, runner>> => RunnerHas'
  BY <1>0 DEF RunnerHas, Is, Active, Learns
<1>11. OwnerHas /\ Queue /\ Learns /\ UNCHANGED <<ops, todo>> => OwnerHas'
  BY <1>0 DEF OwnerHas, Is, Plan, Learns
<1>12. Following /\ UNCHANGED <<ops, todo>> => Following'
  BY DEF Following, NoneBefore, Is, Plan
<1>13. Held /\ UNCHANGED <<ops, late>> => Held'
  BY DEF Held
<1>14. Draining /\ Queue /\ Learns
         /\ UNCHANGED <<ops, pending, priority, runner, state, todo>> => Draining'
  BY <1>0 DEF Draining, Has, Plan, Drained, Active, Learns
<1>15. Stopping /\ UNCHANGED <<stop, state, todo>> => Stopping'
  BY DEF Stopping, Has, Plan
<1>. QED  BY <1>1, <1>2, <1>3, <1>4, <1>5, <1>6, <1>7, <1>8, <1>9, <1>10, <1>11, <1>12,
             <1>13, <1>14, <1>15

\* A step that is over: those behind it move up.
MovesUp ==
    /\ 1 \in Plan
    /\ todo' \in Seq([do : Steps, n : Nat])
    /\ \A k \in Plan' : k \in Nat \ {0} /\ k + 1 \in Plan /\ k + 1 # 1 /\ todo'[k] = todo[k + 1]
    /\ \A k \in Plan : k = 1 \/ (k - 1 \in Plan' /\ todo'[k - 1] = todo[k])

LEMMA Moved ==
    ASSUME Ordered, todo # <<>>, todo' = Tail(todo)
    PROVE  MovesUp
<1>1. todo \in Seq([do : Steps, n : Nat])
  BY DEF Ordered
<1>2. /\ Len(todo) \in Nat \ {0} /\ todo' \in Seq([do : Steps, n : Nat])
      /\ Len(todo') = Len(todo) - 1
      /\ \A k \in 1 .. Len(todo) - 1 : todo'[k] = todo[k + 1]
  BY <1>1, WithoutFirst
<1>3. \A k \in Plan' : k \in Nat \ {0} /\ k + 1 \in Plan /\ k + 1 # 1 /\ todo'[k] = todo[k + 1]
  BY <1>2 DEF Plan
<1>4. ASSUME NEW k \in Plan, k # 1
      PROVE  k - 1 \in Plan' /\ todo'[k - 1] = todo[k]
  <2>1. k \in Nat /\ k - 1 \in 1 .. Len(todo) - 1 /\ (k - 1) + 1 = k
    BY <1>2, <1>4 DEF Plan
  <2>. QED  BY <1>2, <2>1 DEF Plan
<1>. QED  BY <1>2, <1>3, <1>4 DEF MovesUp, Plan

LEMMA Dropped ==
    ASSUME Ordered, MovesUp
    PROVE  /\ Ordered'
           /\ \A steps : Has(steps)' => Has(steps)
           /\ \A steps : Has(steps) => Has(steps)' \/ todo[1].do \in steps
           /\ Phased /\ UNCHANGED state /\ todo[1].do # "close" => Phased'
           /\ Timed /\ UNCHANGED <<current, sent>> /\ todo[1].do # "retry" => Timed'
           /\ Recorded /\ UNCHANGED <<sent, counter, pool, state>> /\ todo[1].do # "begin"
                => Recorded'
           /\ OwnerHas /\ Queue /\ Learns /\ UNCHANGED ops /\ todo[1].do \notin {"start", "run"}
                => OwnerHas'
           /\ Following /\ UNCHANGED ops /\ todo[1].do # "settle" => Following'
           /\ Draining /\ Queue /\ Learns /\ UNCHANGED <<ops, pending, priority, runner, state>>
                /\ todo[1].do \notin {"wait", "pop", "drain"} => Draining'
           /\ Stopping /\ UNCHANGED <<stop, state>> => Stopping'
<1>a. todo' \in Seq([do : Steps, n : Nat]) /\ 1 \in Plan
  BY DEF MovesUp
<1>1. \A k \in Plan' : k \in Nat \ {0} /\ k + 1 \in Plan /\ todo'[k] = todo[k + 1]
  BY DEF MovesUp
<1>b. \A k \in Plan : k = 1 \/ (k - 1 \in Plan' /\ todo'[k - 1] = todo[k])
  BY DEF MovesUp
<1>2. Ordered'
  <2>1. ASSUME NEW k \in Plan', NEW l \in Plan', k < l
        PROVE  Follows(todo'[l].do, todo'[k].do)
    <3>1. k + 1 \in Plan /\ l + 1 \in Plan /\ k + 1 < l + 1
      BY <1>1, <2>1
    <3>. QED  BY <1>1, <3>1 DEF Ordered
  <2>2. ASSUME NEW k \in Plan'
        PROVE  /\ todo'[k].do \notin {"retry", "run"}
               /\ todo'[k].do = "start" => k = 1
    <3>1. k + 1 \in Plan /\ k + 1 # 1 /\ (k + 1 = 2 => k = 1) /\ todo'[k] = todo[k + 1]
      BY <1>1
    <3>. QED  BY <3>1 DEF Ordered
  <2>. QED  BY <1>a, <2>1, <2>2 DEF Ordered
<1>3. \A steps : Has(steps)' => Has(steps)
  BY <1>1 DEF Has
<1>4. \A steps : Has(steps) => Has(steps)' \/ todo[1].do \in steps
  BY <1>b DEF Has
<1>5. Phased /\ UNCHANGED state /\ todo[1].do # "close" => Phased'
  <2>1. SUFFICES ASSUME Phased, UNCHANGED state, todo[1].do # "close"
                 PROVE  Phased'
    OBVIOUS
  <2>2. ASSUME state = "Open", Has({"submit", "retry"})'
        PROVE  Has({"begin"})'
    <3>1. Has({"begin"})
      BY <1>3, <2>1, <2>2 DEF Phased
    <3>2. todo[1].do # "begin"
      <4>1. PICK k \in Plan' : todo'[k].do \in {"submit", "retry"}
        BY <2>2 DEF Has
      <4>2. PICK l \in Plan : 1 < l /\ todo[l].do \in {"submit", "retry"}
        BY <1>1, <4>1
      <4>. QED  BY <1>a, <4>2 DEF Ordered, Follows
    <3>. QED  BY <1>4, <3>1, <3>2
  <2>. QED  BY <1>3, <1>4, <2>1, <2>2 DEF Phased
<1>6. Timed /\ UNCHANGED <<current, sent>> /\ todo[1].do # "retry" => Timed'
  <2>1. todo[1].do # "retry" => (Has({"retry"})' <=> Has({"retry"}))
    BY <1>3, <1>4
  <2>2. Timed /\ UNCHANGED current =>
            \A k \in Plan' : todo'[k].do = "retry" => todo'[k].n = current' - 1
    BY <1>1 DEF Timed
  <2>. QED  BY <2>1, <2>2 DEF Timed
<1>7. Recorded /\ UNCHANGED <<sent, counter, pool, state>> /\ todo[1].do # "begin" => Recorded'
  BY <1>3, <1>4 DEF Recorded
<1>0. Queue => \A i \in Ids : ops[i].tick \in Nat
  BY DEF Queue
<1>8. OwnerHas /\ Queue /\ Learns /\ UNCHANGED ops /\ todo[1].do \notin {"start", "run"} => OwnerHas'
  <2>1. SUFFICES ASSUME OwnerHas, Queue, Learns, UNCHANGED ops,
                        todo[1].do \notin {"start", "run"}
                 PROVE  OwnerHas'
    OBVIOUS
  <2>2. ASSUME NEW i \in Ids, Is(i, "normal", {"taken", "running"})'
        PROVE  \E k \in Plan' : todo'[k].do \in {"start", "run"} /\ todo'[k].n = i
    <3>1. PICK k \in Plan : todo[k].do \in {"start", "run"} /\ todo[k].n = i
      BY <2>1, <2>2 DEF OwnerHas, Is
    <3>2. k - 1 \in Plan' /\ todo'[k - 1] = todo[k]
      BY <1>b, <2>1, <3>1
    <3>. QED  BY <3>1, <3>2
  <2>3. ASSUME NEW k \in Plan'
        PROVE  /\ todo'[k].do = "start" => Is(todo'[k].n, "normal", {"taken"})
               /\ todo'[k].do = "run" => Is(todo'[k].n, "normal", {"running"})
               /\ todo'[k].do \in {"start", "run"} => ops[todo'[k].n].tick <= known'
    BY <1>0, <1>1, <2>1 DEF OwnerHas, Is, Learns
  <2>. QED  BY <2>1, <2>2, <2>3 DEF OwnerHas, Is
<1>9. Following /\ UNCHANGED ops /\ todo[1].do # "settle" => Following'
  <2>1. ASSUME NEW k \in Plan', todo[1].do # "settle"
        PROVE  todo'[k].do \notin {"start", "run"}
    <3>1. k + 1 \in Plan /\ k + 1 # 1 /\ todo'[k] = todo[k + 1]
      BY <1>1
    <3>. QED  BY <2>1, <3>1 DEF Ordered
  <2>. QED  BY <2>1 DEF Following
<1>10. Draining /\ Queue /\ Learns /\ UNCHANGED <<ops, pending, priority, runner, state>>
          /\ todo[1].do \notin {"wait", "pop", "drain"} => Draining'
  BY <1>0, <1>1, <1>3, <1>4 DEF Draining, Drained, Active, Learns
<1>11. Stopping /\ UNCHANGED <<stop, state>> => Stopping'
  BY <1>3 DEF Stopping
<1>. QED  BY <1>2, <1>3, <1>4, <1>5, <1>6, <1>7, <1>8, <1>9, <1>10, <1>11

\* A step of a call is not repeated in it but for the notifications, and the
\* steps of a call have their order.
LEMMA Later ==
    ASSUME Ordered, 1 \in Plan, NEW l \in Plan, l # 1
    PROVE  /\ todo[1].do \in {"submit", "retry", "begin"}
                => todo[l].do \notin {"submit", "retry", todo[1].do}
           /\ todo[1].do \in {"wait", "begin", "pop", "drain", "stop", "join"}
                => todo[l].do \notin {"submit", "retry", "wait", todo[1].do}
           /\ todo[1].do \in {"start", "run", "pop", "drain"}
                => todo[l].do \notin {"start", "run", "settle", "wait"}
           /\ todo[1].do \in {"drain", "stop", "notify all", "join", "close"}
                => todo[l].do \notin {"wait", "pop", "drain", "settle", "start", "run"}
           /\ todo[1].do = "close" => todo[l].do = "notify all"
<1>1. 1 < l /\ todo[1].do \in Steps /\ todo[l].do \in Steps
  BY Heads DEF Plan
<1>2. Follows(todo[l].do, todo[1].do)
  BY <1>1 DEF Ordered
<1>. QED  BY <1>1, <1>2 DEF Follows, Steps

\* The head of the steps that are left gives way to one of the same rank: a rejected
\* submission to its repetition, an operation that starts to its run.
LEMMA Replaced ==
    ASSUME Ordered, todo # <<>>, NEW e \in [do : Steps, n : Nat], todo' = <<e>> \o Tail(todo),
           \/ todo[1].do = "submit" /\ e.do = "retry"
           \/ todo[1].do = "start" /\ e.do = "run"
    PROVE  /\ Ordered'
           /\ Plan' = Plan /\ 1 \in Plan /\ todo'[1] = e
           /\ \A k \in Plan : k # 1 => todo'[k] = todo[k]
<1>1. todo \in Seq([do : Steps, n : Nat])
  BY DEF Ordered
<1>2. /\ Len(todo) \in Nat \ {0} /\ Tail(todo) \in Seq([do : Steps, n : Nat])
      /\ Len(Tail(todo)) = Len(todo) - 1
      /\ \A k \in 1 .. Len(todo) - 1 : Tail(todo)[k] = todo[k + 1]
  BY <1>1, WithoutFirst
<1>3. /\ todo' \in Seq([do : Steps, n : Nat]) /\ Len(todo') = Len(Tail(todo)) + 1
      /\ todo'[1] = e /\ \A k \in 1 .. Len(Tail(todo)) : todo'[k + 1] = Tail(todo)[k]
  BY <1>2, OneBefore
<1>4. Plan' = Plan /\ 1 \in Plan
  BY <1>2, <1>3 DEF Plan
<1>5. ASSUME NEW k \in Plan, k # 1
      PROVE  todo'[k] = todo[k]
  <2>1. k - 1 \in 1 .. Len(todo) - 1 /\ (k - 1) + 1 = k
    BY <1>2, <1>5 DEF Plan
  <2>. QED  BY <1>2, <1>3, <2>1
<1>6. \A k \in Plan : k \in Nat /\ k >= 1 /\ todo[k].do \in Steps
  BY Heads DEF Plan
<1>7. ASSUME NEW k \in Plan, NEW l \in Plan, k < l
      PROVE  Follows(todo'[l].do, todo'[k].do)
  <2>0. l # 1
    BY <1>6, <1>7
  <2>1. l # 1 /\ todo'[l] = todo[l] /\ Follows(todo[l].do, todo[k].do)
    BY <1>5, <1>7, <2>0 DEF Ordered
  <2>2. CASE k # 1
    BY <1>5, <2>1, <2>2
  <2>3. CASE k = 1
    <3>1. ASSUME NEW b \in Steps
          PROVE  /\ Follows(b, "submit") => Follows(b, "retry")
                 /\ Follows(b, "start") => Follows(b, "run")
      BY DEF Follows, Steps
    <3>. QED  BY <1>3, <1>6, <2>1, <2>3, <3>1
  <2>. QED  BY <2>2, <2>3
<1>8. ASSUME NEW k \in Plan
      PROVE  /\ todo'[k].do \in {"retry", "run"} => k = 1
             /\ todo'[k].do = "start" => k = 1
  <2>1. k # 1 => todo[k].do \notin {"retry", "run"}
    BY DEF Ordered
  <2>2. k # 1 => todo[k].do # "start"
    BY DEF Ordered
  <2>. QED  BY <1>5, <2>1, <2>2
<1>. QED  BY <1>3, <1>4, <1>5, <1>7, <1>8 DEF Ordered

\* The operation that is popped is settled and started before the next is looked for.
LEMMA Pushed ==
    ASSUME Ordered, todo # <<>>, todo[1].do = "pop", NEW e \in [do : Steps, n : Nat],
           NEW f \in [do : Steps, n : Nat], e.do = "settle", f.do = "start",
           todo' = <<e, f>> \o todo
    PROVE  /\ Ordered'
           /\ 1 \in Plan' /\ 2 \in Plan' /\ todo'[1] = e /\ todo'[2] = f
           /\ \A k \in Plan' : k = 1 \/ k = 2 \/ (k - 2 \in Plan /\ todo'[k] = todo[k - 2])
           /\ \A k \in Plan : k + 2 \in Plan' /\ todo'[k + 2] = todo[k]
           /\ \A k \in Plan : todo[k].do \notin {"start", "run", "wait", "retry", "settle"}
<1>1. todo \in Seq([do : Steps, n : Nat])
  BY DEF Ordered
<1>2. Len(todo) \in Nat /\ 1 \in Plan
  BY Heads
<1>3. /\ todo' \in Seq([do : Steps, n : Nat]) /\ Len(todo') = Len(todo) + 2
      /\ todo'[1] = e /\ todo'[2] = f /\ \A k \in 1 .. Len(todo) : todo'[k + 2] = todo[k]
  BY <1>1, TwoBefore
<1>4. 1 \in Plan' /\ 2 \in Plan' /\ \A k \in Plan : k + 2 \in Plan' /\ todo'[k + 2] = todo[k]
  BY <1>2, <1>3 DEF Plan
<1>5. ASSUME NEW k \in Plan', k # 1, k # 2
      PROVE  k - 2 \in Plan /\ todo'[k] = todo[k - 2]
  <2>1. k \in Nat /\ k - 2 \in 1 .. Len(todo) /\ (k - 2) + 2 = k
    BY <1>2, <1>3, <1>5 DEF Plan
  <2>. QED  BY <1>3, <2>1 DEF Plan
<1>6. ASSUME NEW k \in Plan
      PROVE  /\ todo[k].do \in Steps
             /\ todo[k].do \notin {"start", "run", "wait", "settle"}
             /\ todo[k].do # "retry"
             /\ Follows(todo[k].do, "start") /\ Follows(todo[k].do, "settle")
  <2>1. todo[k].do \in Steps
    BY Heads
  <2>2. k = 1 \/ Follows(todo[k].do, "pop")
    <3>1. k = 1 \/ 1 < k
      BY <1>2 DEF Plan
    <3>. QED  BY <1>2, <3>1 DEF Ordered
  <2>3. \A b \in Steps : b = "pop" \/ Follows(b, "pop") =>
            /\ b \notin {"start", "run", "wait", "settle", "retry"}
            /\ Follows(b, "start") /\ Follows(b, "settle")
    BY DEF Follows, Steps
  <2>. QED  BY <2>1, <2>2, <2>3
<1>7. ASSUME NEW k \in Plan', NEW l \in Plan', k < l
      PROVE  Follows(todo'[l].do, todo'[k].do)
  <2>0. k \in Nat /\ l \in Nat /\ k >= 1 /\ l > 1
    BY <1>3, <1>7 DEF Plan
  <2>1. CASE l = 2
    <3>1. k = 1 /\ Follows("start", "settle")
      BY <1>7, <2>0, <2>1 DEF Follows
    <3>. QED  BY <1>3, <2>1, <3>1
  <2>2. CASE l # 2 /\ k \in {1, 2}
    <3>0. l # 1 /\ l # 2
      BY <2>0, <2>2
    <3>1. l - 2 \in Plan /\ todo'[l] = todo[l - 2]
      BY <1>5, <3>0
    <3>2. Follows(todo'[l].do, "settle") /\ Follows(todo'[l].do, "start")
      BY <1>6, <3>1
    <3>. QED  BY <1>3, <2>2, <3>2
  <2>3. CASE k \notin {1, 2}
    <3>1. l # 2 /\ l # 1 /\ k - 2 < l - 2
      BY <1>7, <2>0, <2>3
    <3>2. k - 2 \in Plan /\ l - 2 \in Plan /\ todo'[k] = todo[k - 2] /\ todo'[l] = todo[l - 2]
      BY <1>5, <2>3, <3>1
    <3>. QED  BY <3>1, <3>2 DEF Ordered
  <2>. QED  BY <2>1, <2>2, <2>3
<1>8. ASSUME NEW k \in Plan'
      PROVE  /\ todo'[k].do \notin {"retry", "run"}
             /\ todo'[k].do = "start" => k = 2 /\ todo'[1].do = "settle"
  <2>1. k # 1 /\ k # 2 => todo'[k].do \notin {"retry", "run", "start"}
    BY <1>5, <1>6
  <2>. QED  BY <1>3, <2>1
<1>. QED  BY <1>3, <1>4, <1>5, <1>6, <1>7, <1>8 DEF Ordered


\* A call is put together of steps in order.
InOrder(s) ==
    /\ s \in Seq([do : Steps, n : Nat])
    /\ \A k, l \in 1 .. Len(s) : k < l => Follows(s[l].do, s[k].do)
    /\ \A k \in 1 .. Len(s) : s[k].do \notin {"retry", "start", "run"}
Does(s) == {s[k].do : k \in 1 .. Len(s)}
WaitsFor(s, tick) == \A k \in 1 .. Len(s) : s[k].do = "wait" => s[k].n = tick

LEMMA Joined ==
    ASSUME NEW s, NEW t, InOrder(s), InOrder(t),
           \A a \in Does(s), b \in Does(t) : Follows(b, a)
    PROVE  /\ InOrder(s \o t) /\ Does(s \o t) = Does(s) \cup Does(t)
           /\ \A tick : WaitsFor(s, tick) /\ WaitsFor(t, tick) => WaitsFor(s \o t, tick)
<1> DEFINE u == s \o t
<1>1. s \in Seq([do : Steps, n : Nat]) /\ t \in Seq([do : Steps, n : Nat])
  BY DEF InOrder
<1>2. /\ u \in Seq([do : Steps, n : Nat]) /\ Len(u) = Len(s) + Len(t)
      /\ \A k \in 1 .. Len(s) + Len(t) : u[k] = IF k <= Len(s) THEN s[k] ELSE t[k - Len(s)]
  BY <1>1, ConcatProperties
<1>3. Len(s) \in Nat /\ Len(t) \in Nat
  BY <1>1
<1> HIDE DEF u
<1>4. ASSUME NEW k \in 1 .. Len(u)
      PROVE  \/ k \in 1 .. Len(s) /\ u[k] = s[k]
             \/ k - Len(s) \in 1 .. Len(t) /\ k > Len(s) /\ u[k] = t[k - Len(s)]
  BY <1>2, <1>3
<1>5. \A k \in 1 .. Len(s) : k \in 1 .. Len(u) /\ u[k] = s[k]
  BY <1>2, <1>3
<1>6. ASSUME NEW k \in 1 .. Len(t)
      PROVE  k + Len(s) \in 1 .. Len(u) /\ u[k + Len(s)] = t[k]
  <2>1. k + Len(s) \in 1 .. Len(u) /\ ~ (k + Len(s) <= Len(s)) /\ (k + Len(s)) - Len(s) = k
    BY <1>2, <1>3
  <2>. QED  BY <1>2, <2>1
<1>7. ASSUME NEW k \in 1 .. Len(u), NEW l \in 1 .. Len(u), k < l
      PROVE  Follows(u[l].do, u[k].do)
  <2>1. CASE k \in 1 .. Len(s) /\ l \in 1 .. Len(s)
    BY <1>5, <1>7, <2>1 DEF InOrder
  <2>2. CASE k \in 1 .. Len(s) /\ l \notin 1 .. Len(s)
    <3>1. u[k].do \in Does(s) /\ u[l].do \in Does(t)
      BY <1>4, <1>5, <2>2 DEF Does
    <3>. QED  BY <3>1
  <2>3. CASE k \notin 1 .. Len(s)
    <3>1. l \notin 1 .. Len(s)
      BY <1>2, <1>3, <1>7, <2>3
    <3>2. k - Len(s) \in 1 .. Len(t) /\ l - Len(s) \in 1 .. Len(t) /\ k - Len(s) < l - Len(s)
      BY <1>2, <1>3, <1>4, <1>7, <2>3, <3>1
    <3>. QED  BY <1>4, <2>3, <3>1, <3>2 DEF InOrder
  <2>. QED  BY <2>1, <2>2, <2>3
<1>8. \A k \in 1 .. Len(u) : u[k].do \notin {"retry", "start", "run"}
  BY <1>4 DEF InOrder
<1>9. Does(u) = Does(s) \cup Does(t)
  <2>1. ASSUME NEW d \in Does(u)
        PROVE  d \in Does(s) \cup Does(t)
    BY <1>4 DEF Does
  <2>2. ASSUME NEW d \in Does(s) \cup Does(t)
        PROVE  d \in Does(u)
    BY <1>5, <1>6 DEF Does
  <2>. QED  BY <2>1, <2>2
<1>10. \A tick : WaitsFor(s, tick) /\ WaitsFor(t, tick) => WaitsFor(u, tick)
  BY <1>4 DEF WaitsFor
<1>. QED  BY <1>2, <1>7, <1>8, <1>9, <1>10 DEF InOrder, u

LEMMA OneStep ==
    ASSUME NEW what \in Steps \ {"retry", "start", "run"}, NEW n \in Nat
    PROVE  /\ InOrder(<<Do(what, n)>>) /\ Does(<<Do(what, n)>>) = {what}
           /\ \A tick : what # "wait" \/ n = tick => WaitsFor(<<Do(what, n)>>, tick)
<1> DEFINE s == <<Do(what, n)>>
<1>1. s \in Seq([do : Steps, n : Nat]) /\ Len(s) = 1 /\ s[1] = Do(what, n)
  BY DEF Do
<1>2. s[1].do = what /\ s[1].n = n
  BY <1>1 DEF Do
<1> HIDE DEF s
<1>. QED  BY <1>1, <1>2 DEF InOrder, Does, WaitsFor, s

\* Two steps of which neither waits.
LEMMA TwoSteps ==
    ASSUME NEW a \in Steps \ {"retry", "start", "run", "wait"},
           NEW b \in Steps \ {"retry", "start", "run", "wait"}, Follows(b, a)
    PROVE  /\ InOrder(<<Do(a, 0), Do(b, 0)>>) /\ Does(<<Do(a, 0), Do(b, 0)>>) = {a, b}
           /\ \A tick : WaitsFor(<<Do(a, 0), Do(b, 0)>>, tick)
<1>1. <<Do(a, 0), Do(b, 0)>> = <<Do(a, 0)>> \o <<Do(b, 0)>>
  OBVIOUS
<1>2. /\ InOrder(<<Do(a, 0)>>) /\ Does(<<Do(a, 0)>>) = {a}
      /\ InOrder(<<Do(b, 0)>>) /\ Does(<<Do(b, 0)>>) = {b}
      /\ \A tick : WaitsFor(<<Do(a, 0)>>, tick) /\ WaitsFor(<<Do(b, 0)>>, tick)
  BY OneStep
<1>3. /\ InOrder(<<Do(a, 0)>> \o <<Do(b, 0)>>)
      /\ Does(<<Do(a, 0)>> \o <<Do(b, 0)>>) = {a} \cup {b}
      /\ \A tick : WaitsFor(<<Do(a, 0)>> \o <<Do(b, 0)>>, tick)
  BY <1>2, Joined
<1>. QED  BY <1>1, <1>3

--------------------------------------------------------------------------------
(* The calls of the owner                                                  *)

LEMMA Called ==
    ASSUME Inv, todo = <<>>, state = "Open", InOrder(todo'),
           UNCHANGED <<current, sent, counter, pool>>
    PROVE  /\ Ordered' /\ Timed' /\ Recorded'
           /\ \A steps : Has(steps)' <=> (\E step \in Does(todo') : step \in steps)
           /\ OwnerHas /\ UNCHANGED ops => OwnerHas'
           /\ Following'
<1>1. /\ todo' \in Seq([do : Steps, n : Nat])
      /\ \A k, l \in Plan' : k < l => Follows(todo'[l].do, todo'[k].do)
      /\ \A k \in Plan' : todo'[k].do \notin {"retry", "start", "run"}
  BY DEF InOrder, Plan
<1>2. Plan = {} /\ \A steps : ~ Has(steps)
  BY DEF Plan, Has
<1>3. Ordered'
  BY <1>1 DEF Ordered
<1>4. Timed'
  BY <1>1, <1>2 DEF Inv, Timed, Has
<1>5. Recorded'
  BY <1>2 DEF Inv, Recorded
<1>6. \A steps : Has(steps)' <=> (\E step \in Does(todo') : step \in steps)
  BY DEF Has, Does, Plan
<1>7. OwnerHas /\ UNCHANGED ops => OwnerHas'
  BY <1>1, <1>2 DEF OwnerHas, Is
<1>8. Following'
  BY <1>1 DEF Following
<1>. QED  BY <1>3, <1>4, <1>5, <1>6, <1>7, <1>8

LEMMA OpenCall ==
    ASSUME Inv, NEW steps, Calls(steps), InOrder(steps),
           Does(steps) \cap {"stop", "notify all", "join", "close"} = {},
           "submit" \in Does(steps) => "begin" \in Does(steps)
    PROVE  Inv'
<1>1. /\ todo = <<>> /\ state = "Open" /\ todo' = steps
      /\ UNCHANGED <<current, known, sent, counter, pool, ops, pending, priority, state, stop,
                     runner, late, asleep>>
  BY DEF Calls
<1>2. /\ Ordered' /\ Timed' /\ Recorded' /\ OwnerHas' /\ Following'
      /\ \A all : Has(all)' <=> (\E step \in Does(steps) : step \in all)
  BY <1>1, Called DEF Inv
<1>3. Clock' /\ Slots' /\ Queue' /\ Threads' /\ Listed' /\ RunnerHas' /\ Held'
  BY <1>1, Kept, Learned DEF Inv
<1>4. Phased'
  <2>1. "retry" \notin Does(steps)
    BY DEF InOrder, Does
  <2>. QED  BY <1>1, <1>2, <2>1 DEF Phased
<1>5. Draining' /\ Stopping'
  BY <1>1 DEF Inv, Draining, Stopping
<1>. QED  BY <1>2, <1>3, <1>4, <1>5 DEF Inv

LEMMA SubmissionSteps ==
    ASSUME current \in Nat
    PROVE  /\ InOrder(Submission) /\ Does(Submission) = {"submit"}
           /\ InOrder(SubmissionAndWait) /\ Does(SubmissionAndWait) = {"submit", "wait"}
           /\ WaitsFor(SubmissionAndWait, current)
           /\ InOrder(Pops) /\ Does(Pops) = {"refresh", "pop"} /\ \A tick : WaitsFor(Pops, tick)
           /\ InOrder(<<Do("begin", 0)>>) /\ Does(<<Do("begin", 0)>>) = {"begin"}
<1>1. /\ InOrder(<<Do("submit", 0)>>) /\ Does(<<Do("submit", 0)>>) = {"submit"}
      /\ InOrder(<<Do("begin", 0)>>) /\ Does(<<Do("begin", 0)>>) = {"begin"}
      /\ InOrder(<<Do("wait", current)>>) /\ Does(<<Do("wait", current)>>) = {"wait"}
      /\ WaitsFor(<<Do("submit", 0)>>, current) /\ WaitsFor(<<Do("wait", current)>>, current)
  <2>1. {"submit", "begin", "wait"} \subseteq Steps \ {"retry", "start", "run"}
    BY DEF Steps
  <2>. QED  BY <2>1, OneStep
<1>2. /\ InOrder(<<Do("submit", 0)>> \o <<Do("wait", current)>>)
      /\ Does(<<Do("submit", 0)>> \o <<Do("wait", current)>>) = {"submit", "wait"}
      /\ WaitsFor(<<Do("submit", 0)>> \o <<Do("wait", current)>>, current)
  <2>1. Follows("wait", "submit")
    BY DEF Follows
  <2>2. /\ InOrder(<<Do("submit", 0)>> \o <<Do("wait", current)>>)
        /\ Does(<<Do("submit", 0)>> \o <<Do("wait", current)>>) = {"submit"} \cup {"wait"}
        /\ WaitsFor(<<Do("submit", 0)>> \o <<Do("wait", current)>>, current)
    BY <1>1, <2>1, Joined
  <2>. QED  BY <2>2
<1>3. InOrder(Pops) /\ Does(Pops) = {"refresh", "pop"} /\ \A tick : WaitsFor(Pops, tick)
  <2>1. {"refresh", "pop"} \subseteq Steps \ {"retry", "start", "run", "wait"}
    BY DEF Steps
  <2>2. Follows("pop", "refresh")
    BY DEF Follows
  <2>. QED  BY <2>1, <2>2, TwoSteps DEF Pops
<1>. QED  BY <1>1, <1>2, <1>3 DEF Submission, SubmissionAndWait

LEMMA CallSteps ==
    ASSUME Inv,
           \/ Flush \/ Finish \/ FinishAndDrain \/ PopPendingOperations
           \/ \E tick \in 1 .. current : Wait(tick) \/ WaitPriorityOperations(tick)
    PROVE  Inv'
<1>0. current \in Nat
  BY DEF Inv, Clock
<1>1. /\ InOrder(Submission) /\ Does(Submission) = {"submit"}
      /\ InOrder(SubmissionAndWait) /\ Does(SubmissionAndWait) = {"submit", "wait"}
      /\ InOrder(Pops) /\ Does(Pops) = {"refresh", "pop"}
      /\ InOrder(<<Do("begin", 0)>>) /\ Does(<<Do("begin", 0)>>) = {"begin"}
  BY <1>0, SubmissionSteps
<1> DEFINE begun == SubmissionAndWait \o <<Do("begin", 0)>>
<1>2. InOrder(begun) /\ Does(begun) = {"submit", "wait", "begin"}
  <2>1. Follows("begin", "submit") /\ Follows("begin", "wait")
    BY DEF Follows
  <2>2. InOrder(begun) /\ Does(begun) = {"submit", "wait"} \cup {"begin"}
    BY <1>1, <2>1, Joined
  <2>. QED  BY <2>2
<1>3. InOrder(begun \o Pops) /\ Does(begun \o Pops) = {"submit", "wait", "begin", "refresh", "pop"}
  <2> HIDE DEF begun
  <2>1. \A a \in {"submit", "wait", "begin"}, b \in {"refresh", "pop"} : Follows(b, a)
    BY DEF Follows
  <2>2. InOrder(begun \o Pops) /\ Does(begun \o Pops) = {"submit", "wait", "begin"} \cup {"refresh", "pop"}
    BY <1>1, <1>2, <2>1, Joined
  <2>. QED  BY <2>2
<1>4. CASE Flush
  <2>1. Follows("begin", "submit")
    BY DEF Follows
  <2>2. /\ InOrder(Submission \o <<Do("begin", 0)>>)
        /\ Does(Submission \o <<Do("begin", 0)>>) = {"submit"} \cup {"begin"}
    BY <1>1, <2>1, Joined
  <2>. QED  BY <1>4, <2>2, OpenCall DEF Flush
<1>5. CASE Finish
  BY <1>3, <1>5, OpenCall DEF Finish
<1>6. CASE FinishAndDrain
  <2> DEFINE s == begun \o Pops
             t == <<Do("drain", 0)>>
  <2>1. InOrder(t) /\ Does(t) = {"drain"}
    BY OneStep DEF Steps
  <2>2. \A a \in {"submit", "wait", "begin", "refresh", "pop"} : Follows("drain", a)
    BY DEF Follows
  <2>3. InOrder(s) /\ Does(s) = {"submit", "wait", "begin", "refresh", "pop"}
    BY <1>3
  <2>4. FinishAndDrain <=> Calls(s \o t)
    BY DEF FinishAndDrain
  <2> HIDE DEF s, t
  <2>5. InOrder(s \o t) /\ Does(s \o t) = {"submit", "wait", "begin", "refresh", "pop"} \cup {"drain"}
    BY <2>1, <2>2, <2>3, Joined
  <2>. QED  BY <1>6, <2>4, <2>5, OpenCall
<1>7. CASE PopPendingOperations
  BY <1>1, <1>7, OpenCall DEF PopPendingOperations
<1>8. ASSUME NEW tick \in 1 .. current, Wait(tick)
      PROVE  Inv'
  <2>0. "wait" \in Steps \ {"retry", "start", "run"} /\ tick \in Nat
    BY <1>0 DEF Steps
  <2>1. InOrder(<<Do("wait", tick)>>) /\ Does(<<Do("wait", tick)>>) = {"wait"}
    BY <2>0, OneStep
  <2>2. CASE tick = current
    <3>1. Calls(begun)
      BY <1>8, <2>2 DEF Wait
    <3> HIDE DEF begun
    <3>. QED  BY <1>2, <3>1, OpenCall
  <2>3. CASE tick # current
    BY <1>8, <2>1, <2>3, OpenCall DEF Wait
  <2>. QED  BY <2>2, <2>3
<1>9. ASSUME NEW tick \in 1 .. current, WaitPriorityOperations(tick)
      PROVE  Inv'
  <2>0. "settle" \in Steps \ {"retry", "start", "run"} /\ tick \in Nat
    BY <1>0 DEF Steps
  <2>1. InOrder(<<Do("settle", tick)>>) /\ Does(<<Do("settle", tick)>>) = {"settle"}
    BY <2>0, OneStep
  <2>. QED  BY <1>9, <2>1, OpenCall DEF WaitPriorityOperations
<1>. QED  BY <1>4, <1>5, <1>6, <1>7, <1>8, <1>9

LEMMA LastSteps ==
    <<Do("drain", 0), Do("stop", 0), Do("notify all", 0), Do("join", 0), Do("close", 0),
      Do("notify all", 0)>>
        = <<Do("drain", 0), Do("stop", 0)>> \o <<Do("notify all", 0), Do("join", 0)>>
          \o <<Do("close", 0), Do("notify all", 0)>>
<1> DEFINE a == Do("drain", 0)
           b == Do("stop", 0)
           c == Do("notify all", 0)
           d == Do("join", 0)
           e == Do("close", 0)
<1> HIDE DEF a, b, c, d, e
<1>1. <<a, b, c, d, e, c>> = <<a, b>> \o <<c, d>> \o <<e, c>>
  OBVIOUS
<1>. QED  BY <1>1 DEF a, b, c, d, e

LEMMA ShutdownSteps ==
    ASSUME Inv, Shutdown
    PROVE  Inv'
<1>0. current \in Nat
  BY DEF Inv, Clock
<1> DEFINE last == <<Do("drain", 0), Do("stop", 0), Do("notify all", 0), Do("join", 0),
                     Do("close", 0), Do("notify all", 0)>>
           sending == {"submit", "wait", "refresh", "pop"}
           ending == {"drain", "stop", "notify all", "join", "close"}
<1>1. /\ todo = <<>> /\ state = "Open" /\ state' = "Draining"
      /\ todo' = SubmissionAndWait \o Pops \o last
      /\ UNCHANGED <<current, known, sent, counter, pool, ops, pending, priority, stop, runner,
                     late, asleep>>
  BY DEF Shutdown
<1>2. InOrder(last) /\ Does(last) = ending /\ WaitsFor(last, current)
  <2> DEFINE a == <<Do("drain", 0), Do("stop", 0)>>
             b == <<Do("notify all", 0), Do("join", 0)>>
             c == <<Do("close", 0), Do("notify all", 0)>>
  <2>1. last = a \o b \o c
    BY LastSteps
  <2>2. ending \subseteq Steps \ {"retry", "start", "run", "wait"}
    BY DEF Steps
  <2>3. /\ Follows("stop", "drain") /\ Follows("join", "notify all")
        /\ Follows("notify all", "close")
    BY DEF Follows
  <2>4. /\ InOrder(a) /\ Does(a) = {"drain", "stop"} /\ WaitsFor(a, current)
        /\ InOrder(b) /\ Does(b) = {"notify all", "join"} /\ WaitsFor(b, current)
        /\ InOrder(c) /\ Does(c) = {"close", "notify all"} /\ WaitsFor(c, current)
    BY <2>2, <2>3, TwoSteps
  <2> HIDE DEF a, b, c
  <2>5. \A x \in {"drain", "stop"}, y \in {"notify all", "join"} : Follows(y, x)
    BY DEF Follows
  <2>6. /\ InOrder(a \o b) /\ Does(a \o b) = {"drain", "stop"} \cup {"notify all", "join"}
        /\ WaitsFor(a \o b, current)
    BY <2>4, <2>5, Joined
  <2>7. \A x \in Does(a \o b), y \in Does(c) : Follows(y, x)
    BY <2>4, <2>6 DEF Follows
  <2> DEFINE ab == a \o b
  <2>8. InOrder(ab) /\ WaitsFor(ab, current) /\ \A x \in Does(ab), y \in Does(c) : Follows(y, x)
    BY <2>6, <2>7
  <2> HIDE DEF ab
  <2>j. InOrder(ab \o c) /\ WaitsFor(ab \o c, current) /\ Does(ab \o c) = Does(ab) \cup Does(c)
    BY <2>4, <2>8, Joined
  <2>9. {"drain", "stop"} \cup {"notify all", "join"} \cup {"close", "notify all"} = ending
    OBVIOUS
  <2>10. /\ last = ab \o c /\ Does(c) = {"close", "notify all"}
         /\ Does(ab) = {"drain", "stop"} \cup {"notify all", "join"}
    BY <2>1, <2>4, <2>6 DEF ab
  <2> HIDE DEF last, ending
  <2>. QED  BY <2>j, <2>9, <2>10
<1> HIDE DEF last
<1>3. /\ InOrder(SubmissionAndWait \o Pops) /\ WaitsFor(SubmissionAndWait \o Pops, current)
      /\ Does(SubmissionAndWait \o Pops) = {"submit", "wait"} \cup {"refresh", "pop"}
  <2>1. \A a \in {"submit", "wait"}, b \in {"refresh", "pop"} : Follows(b, a)
    BY DEF Follows
  <2>. QED  BY <1>0, <2>1, SubmissionSteps, Joined
<1>4. InOrder(todo') /\ Does(todo') = sending \cup ending /\ WaitsFor(todo', current)
  <2>1. \A a \in Does(SubmissionAndWait \o Pops), b \in Does(last) : Follows(b, a)
    BY <1>2, <1>3 DEF Follows
  <2>2. /\ InOrder(SubmissionAndWait \o Pops \o last)
        /\ Does(SubmissionAndWait \o Pops \o last) = Does(SubmissionAndWait \o Pops) \cup Does(last)
        /\ WaitsFor(SubmissionAndWait \o Pops \o last, current)
    BY <1>2, <1>3, <2>1, Joined
  <2>. QED  BY <1>1, <1>2, <1>3, <2>2
<1>5. /\ Ordered' /\ Timed' /\ Recorded' /\ OwnerHas' /\ Following'
      /\ \A all : Has(all)' <=> (\E step \in Does(todo') : step \in all)
  BY <1>1, <1>4, Called DEF Inv
<1>6. Clock' /\ Slots' /\ Queue' /\ Listed' /\ RunnerHas' /\ Held'
  BY <1>1, Kept, Learned DEF Inv
<1>7. Threads'
  BY <1>1 DEF Inv, Threads
<1>8. Has({"wait"})' /\ Has({"pop"})' /\ Has({"drain"})' /\ Has({"close"})'
  BY <1>4, <1>5
<1>9. Phased'
  BY <1>1, <1>8 DEF Phased
<1>10. Draining'
  <2>1. \A i \in Ids : ops[i].tick <= current
    BY <1>0 DEF Inv, Queue
  <2>2. \A k \in Plan' : todo'[k].do = "wait" => todo'[k].n = current
    BY <1>4 DEF WaitsFor, Plan
  <2>. QED  BY <1>1, <1>8, <2>1, <2>2 DEF Draining
<1>11. Stopping'
  BY <1>1 DEF Inv, Stopping
<1>. QED  BY <1>5, <1>6, <1>7, <1>9, <1>10, <1>11 DEF Inv

--------------------------------------------------------------------------------
(* Operations are deferred                                                 *)

LEMMA Deferred ==
    ASSUME Inv, NEW i, NEW kind \in {"normal", "priority"}, Defer(i, kind),
           UNCHANGED <<current, runner, late>>
    PROVE  /\ Queue' /\ Listed' /\ Held'
           /\ i \in Ids /\ ops'[i].kind = kind /\ ops[i].state = "unused"
           /\ ops'[i].state = IF state = "Open" THEN "queued" ELSE "done"
           /\ \A j \in Ids : j # i => ops'[j] = ops[j]
           /\ state # "Open" => UNCHANGED <<pending, priority>>
           /\ Learns => RunnerHas'
<1> DEFINE new == [kind |-> kind, tick |-> current, state |-> IF Queues THEN "queued" ELSE "done"]
<1>1. /\ i \in Ids /\ ops[i].state = "unused"
      /\ ops' = [ops EXCEPT ![i] = new]
      /\ pending' = IF Queues /\ kind = "normal" THEN Append(pending, i) ELSE pending
      /\ priority' = IF Queues /\ kind = "priority" THEN Append(priority, i) ELSE priority
  BY DEF Defer, Fresh
<1>2. /\ MaxOps \in Nat /\ current \in Nat
      /\ ops \in [Ids -> [kind : Kinds, tick : 0 .. current, state : OpState]]
      /\ pending \in Seq(Ids) /\ priority \in Seq(Ids)
  BY DEF Inv, Queue, Clock
<1>3. new \in [kind : Kinds, tick : 0 .. current, state : OpState]
  BY <1>2 DEF Kinds, OpState
<1>4. new.kind = kind /\ new.tick = current /\ new.state = IF Queues THEN "queued" ELSE "done"
  OBVIOUS
<1> HIDE DEF new
<1>5. ops'[i] = new /\ \A j \in Ids : j # i => ops'[j] = ops[j]
  BY <1>1, <1>2
<1>6. Queue'
  <2>1. ops' \in [Ids -> [kind : Kinds, tick : 0 .. current, state : OpState]]
    BY <1>1, <1>2, <1>3
  <2>2. Append(pending, i) \in Seq(Ids) /\ Append(priority, i) \in Seq(Ids)
    BY <1>1, <1>2, OneBehind
  <2>. QED  BY <1>1, <1>2, <2>1, <2>2 DEF Queue
<1>7. /\ \A k \in 1 .. Len(pending) : pending[k] \in Ids \ {i} /\ ops'[pending[k]] = ops[pending[k]]
      /\ \A k \in 1 .. Len(priority) :
            priority[k] \in Ids \ {i} /\ ops'[priority[k]] = ops[priority[k]]
  BY <1>1, <1>5 DEF Inv, Listed, Is
<1>8. Listed'
  <2>1. CASE ~ Queues
    BY <1>1, <1>4, <1>5, <1>7, <2>1 DEF Inv, Listed, Is
  <2>2. CASE Queues /\ kind = "normal"
    <3>1. /\ pending' = Append(pending, i) /\ priority' = priority /\ Len(pending) \in Nat
          /\ Len(pending') = Len(pending) + 1 /\ pending'[Len(pending) + 1] = i
          /\ \A k \in 1 .. Len(pending) : pending'[k] = pending[k]
      BY <1>1, <1>2, <2>2, OneBehind
    <3>2. \A k \in 1 .. Len(pending') :
              \/ k = Len(pending) + 1 /\ pending'[k] = i
              \/ k \in 1 .. Len(pending) /\ pending'[k] = pending[k]
      BY <3>1
    <3>3. ops'[i].kind = "normal" /\ ops'[i].state = "queued"
      BY <1>4, <1>5, <2>2
    <3>4. \A k \in 1 .. Len(pending') :
              pending'[k] \in Ids /\ ops'[pending'[k]].kind = "normal" /\ ops'[pending'[k]].state = "queued"
      BY <1>1, <1>7, <3>2, <3>3 DEF Inv, Listed, Is
    <3>5. \A k, l \in 1 .. Len(pending') : k # l => pending'[k] # pending'[l]
      BY <1>7, <3>2 DEF Inv, Listed
    <3>6. ASSUME NEW j \in Ids, Is(j, "normal", {"queued"})'
          PROVE  \E k \in 1 .. Len(pending') : pending'[k] = j
      <4>1. CASE j = i
        <5>1. Len(pending) + 1 \in 1 .. Len(pending')
          BY <3>1
        <5>. QED  BY <3>1, <4>1, <5>1
      <4>2. CASE j # i
        <5>1. PICK k \in 1 .. Len(pending) : pending[k] = j
          BY <1>5, <3>6, <4>2 DEF Inv, Listed, Is
        <5>2. k \in 1 .. Len(pending') /\ pending'[k] = j
          BY <3>1, <5>1
        <5>. QED  BY <5>2
      <4>. QED  BY <4>1, <4>2
    <3>7. \A k \in 1 .. Len(priority') :
              priority'[k] \in Ids /\ ops'[priority'[k]].kind = "priority" /\ ops'[priority'[k]].state = "queued"
      BY <1>7, <3>1 DEF Inv, Listed, Is
    <3>8. \A k, l \in 1 .. Len(priority') : k < l =>
              priority'[k] # priority'[l] /\ ops'[priority'[k]].tick <= ops'[priority'[l]].tick
      BY <1>7, <3>1 DEF Inv, Listed
    <3>9. \A j \in Ids : Is(j, "priority", {"queued"})' =>
              \E k \in 1 .. Len(priority') : priority'[k] = j
      BY <1>5, <3>1, <3>3 DEF Inv, Listed, Is
    <3>10. \A j \in Ids : ops'[j].kind = "none" => ops'[j].state = "unused"
      BY <1>5, <3>3 DEF Inv, Listed
    <3>. QED  BY <3>4, <3>5, <3>6, <3>7, <3>8, <3>9, <3>10 DEF Listed, Is
  <2>3. CASE Queues /\ kind = "priority"
    <3>1. /\ priority' = Append(priority, i) /\ pending' = pending /\ Len(priority) \in Nat
          /\ Len(priority') = Len(priority) + 1 /\ priority'[Len(priority) + 1] = i
          /\ \A k \in 1 .. Len(priority) : priority'[k] = priority[k]
      BY <1>1, <1>2, <2>3, OneBehind
    <3>2. \A k \in 1 .. Len(priority') :
              \/ k = Len(priority) + 1 /\ priority'[k] = i
              \/ k \in 1 .. Len(priority) /\ priority'[k] = priority[k]
      BY <3>1
    <3>3. ops'[i].kind = "priority" /\ ops'[i].state = "queued" /\ ops'[i].tick = current
      BY <1>4, <1>5, <2>3
    <3>4. \A k \in 1 .. Len(priority') :
              priority'[k] \in Ids /\ ops'[priority'[k]].kind = "priority" /\ ops'[priority'[k]].state = "queued"
      BY <1>1, <1>7, <3>2, <3>3 DEF Inv, Listed, Is
    <3>5. ASSUME NEW k \in 1 .. Len(priority'), NEW l \in 1 .. Len(priority'), k < l
          PROVE  priority'[k] # priority'[l] /\ ops'[priority'[k]].tick <= ops'[priority'[l]].tick
      <4>1. k \in 1 .. Len(priority) /\ priority'[k] = priority[k]
        BY <3>1, <3>2, <3>5
      <4>2. CASE l \in 1 .. Len(priority) /\ priority'[l] = priority[l]
        BY <1>7, <3>5, <4>1, <4>2 DEF Inv, Listed
      <4>3. CASE priority'[l] = i
        <5>1. priority[k] \in Ids \ {i} /\ ops'[priority[k]] = ops[priority[k]]
          BY <1>7, <4>1
        <5>2. ops[priority[k]].tick <= current
          BY <1>2, <5>1
        <5>. QED  BY <3>3, <4>1, <4>3, <5>1, <5>2
      <4>. QED  BY <3>2, <4>2, <4>3
    <3>6. ASSUME NEW j \in Ids, Is(j, "priority", {"queued"})'
          PROVE  \E k \in 1 .. Len(priority') : priority'[k] = j
      <4>1. CASE j = i
        <5>1. Len(priority) + 1 \in 1 .. Len(priority')
          BY <3>1
        <5>. QED  BY <3>1, <4>1, <5>1
      <4>2. CASE j # i
        <5>1. PICK k \in 1 .. Len(priority) : priority[k] = j
          BY <1>5, <3>6, <4>2 DEF Inv, Listed, Is
        <5>2. k \in 1 .. Len(priority') /\ priority'[k] = j
          BY <3>1, <5>1
        <5>. QED  BY <5>2
      <4>. QED  BY <4>1, <4>2
    <3>7. \A k \in 1 .. Len(pending') :
              pending'[k] \in Ids /\ ops'[pending'[k]].kind = "normal" /\ ops'[pending'[k]].state = "queued"
      BY <1>7, <3>1 DEF Inv, Listed, Is
    <3>8. \A k, l \in 1 .. Len(pending') : k # l => pending'[k] # pending'[l]
      BY <3>1 DEF Inv, Listed
    <3>9. \A j \in Ids : Is(j, "normal", {"queued"})' =>
              \E k \in 1 .. Len(pending') : pending'[k] = j
      BY <1>5, <3>1, <3>3 DEF Inv, Listed, Is
    <3>10. \A j \in Ids : ops'[j].kind = "none" => ops'[j].state = "unused"
      BY <1>5, <3>3 DEF Inv, Listed
    <3>. QED  BY <3>4, <3>5, <3>6, <3>7, <3>8, <3>9, <3>10 DEF Listed, Is
  <2>. QED  BY <2>1, <2>2, <2>3
<1>9. Held'
  <2>1. \A t \in Latecomers : late[t] > 0 => late[t] \in Ids
    BY <1>2 DEF Inv, Threads, Ids, Nobody
  <2>. QED  BY <1>1, <1>5, <2>1 DEF Inv, Held
<1>10. Learns => RunnerHas'
  <2>1. SUFFICES ASSUME Learns
                 PROVE  RunnerHas'
    OBVIOUS
  <2>2. ops'[i].state \notin {"taken", "running"}
    BY <1>4, <1>5
  <2>3. \A j \in Ids : ops[j].tick \in Nat
    BY <1>2
  <2>. QED  BY <1>1, <1>5, <2>1, <2>2, <2>3 DEF Inv, RunnerHas, Active, Is, Learns
<1>. QED  BY <1>1, <1>4, <1>5, <1>6, <1>8, <1>9, <1>10 DEF Queues

LEMMA DeferSteps ==
    ASSUME Inv, NEW i, NEW kind \in {"normal", "priority"}, Defer(i, kind),
           kind = "priority" => todo = <<>>,
           UNCHANGED <<current, known, sent, counter, pool, state, stop, runner, todo, late, asleep>>
    PROVE  Inv'
<1>1. /\ Queue' /\ Listed' /\ Held' /\ RunnerHas'
      /\ i \in Ids /\ ops'[i].kind = kind /\ ops[i].state = "unused"
      /\ ops'[i].state = IF state = "Open" THEN "queued" ELSE "done"
      /\ \A j \in Ids : j # i => ops'[j] = ops[j]
      /\ state # "Open" => UNCHANGED <<pending, priority>>
  BY Deferred, Learned DEF Inv
<1>2. /\ Clock' /\ Slots' /\ Threads' /\ Ordered' /\ Phased' /\ Timed' /\ Recorded' /\ Stopping'
  BY Kept DEF Inv
<1>3. Plan' = Plan /\ (kind = "priority" => Plan = {})
  BY DEF Plan
<1>4. \A k \in Plan : todo[k].do \in {"start", "run"} =>
          todo[k].n \in Ids /\ todo[k].n # i /\ ops'[todo[k].n] = ops[todo[k].n]
  BY <1>1 DEF Inv, OwnerHas, Is
<1>5. OwnerHas'
  <2>1. \A j \in Ids : Is(j, "normal", {"taken", "running"})' => Is(j, "normal", {"taken", "running"})
    BY <1>1 DEF Is
  <2>. QED  BY <1>3, <1>4, <2>1 DEF Inv, OwnerHas, Is
<1>6. Following'
  <2>1. CASE kind = "priority"
    BY <1>3, <2>1 DEF Following
  <2>2. CASE kind = "normal"
    <3>1. \A j : Is(j, "priority", {"queued", "taken", "running"})' =>
              Is(j, "priority", {"queued", "taken", "running"}) /\ ops'[j] = ops[j]
      BY <1>1, <2>2 DEF Is
    <3>2. \A tick : NoneBefore(tick) => NoneBefore(tick)'
      BY <3>1 DEF NoneBefore
    <3>. QED  BY <1>3, <1>4, <3>2 DEF Inv, Following
  <2>. QED  BY <2>1, <2>2
<1>7. Draining'
  BY <1>1, <1>3 DEF Inv, Draining, Drained, Active, Has
<1>. QED  BY <1>1, <1>2, <1>5, <1>6, <1>7 DEF Inv

LEMMA OwnerDefersSteps ==
    ASSUME Inv, NEW i, NEW kind \in {"normal", "priority"}, MayDefer(kind), OwnerDefers(i, kind)
    PROVE  Inv'
<1>1. /\ Defer(i, kind) /\ (kind = "priority" => todo = <<>> /\ state = "Open")
      /\ UNCHANGED <<current, known, sent, counter, pool, state, stop, runner, late, asleep>>
      /\ todo' = IF Queues /\ kind = "priority" THEN <<Do("notify", 0)>> \o todo ELSE todo
  BY DEF OwnerDefers, MayDefer
<1>2. CASE UNCHANGED todo
  BY <1>1, <1>2, DeferSteps
<1>3. CASE kind = "priority" /\ ~ UNCHANGED todo
  <2>1. todo = <<>> /\ state = "Open" /\ todo' = <<Do("notify", 0)>>
    BY <1>1, <1>3
  <2>2. InOrder(<<Do("notify", 0)>>) /\ Does(<<Do("notify", 0)>>) = {"notify"}
    <3>1. "notify" \in Steps \ {"retry", "start", "run"}
      BY DEF Steps
    <3>. QED  BY <3>1, OneStep
  <2>3. /\ Ordered' /\ Timed' /\ Recorded' /\ Following'
        /\ \A all : Has(all)' <=> (\E step \in {"notify"} : step \in all)
    BY <1>1, <2>1, <2>2, Called DEF Inv
  <2>4. /\ Queue' /\ Listed' /\ Held' /\ RunnerHas'
        /\ i \in Ids /\ ops'[i].kind = kind
        /\ \A j \in Ids : j # i => ops'[j] = ops[j]
    BY <1>1, Deferred, Learned DEF Inv
  <2>5. Clock' /\ Slots' /\ Threads'
    BY <1>1, Kept DEF Inv
  <2>6. OwnerHas'
    <3>1. ~ Has({"start", "run"})'
      BY <2>3
    <3>2. \A k \in Plan' : todo'[k].do \notin {"start", "run"}
      BY <3>1 DEF Has
    <3>3. ~ Has({"start", "run"})
      BY <2>1 DEF Has, Plan
    <3>4. \A j \in Ids : ~ Is(j, "normal", {"taken", "running"})
      BY <3>3 DEF Inv, OwnerHas, Has
    <3>5. \A j \in Ids : ~ Is(j, "normal", {"taken", "running"})'
      BY <1>3, <2>4, <3>4 DEF Is
    <3>. QED  BY <3>2, <3>5 DEF OwnerHas
  <2>7. Phased' /\ Draining' /\ Stopping'
    BY <1>1, <2>1, <2>3 DEF Inv, Phased, Draining, Stopping
  <2>. QED  BY <2>3, <2>4, <2>5, <2>6, <2>7 DEF Inv
<1>. QED  BY <1>1, <1>2, <1>3

--------------------------------------------------------------------------------
(* The other threads, and whoever is late for a Shutdown                   *)

LEMMA OtherSteps ==
    ASSUME Inv, NEW t \in Latecomers, Late(t) \/ (t \in Others /\ Other(t))
    PROVE  Inv'
<1>0. Learns /\ MaxOps \in Nat
  BY Learned DEF Inv, Queue, Other, Late, OtherDefers, WaitsToDefer, OtherShutsDown, Resumes
<1>1. ASSUME NEW i \in Ids, OtherDefers(t, i)
      PROVE  Inv'
  BY <1>1, DeferSteps DEF OtherDefers
<1>2. ASSUME NEW i \in Ids, WaitsToDefer(t, i)
      PROVE  Inv'
  <2>1. /\ late[t] = Nobody /\ state = "Draining" /\ ops[i].state = "unused"
        /\ ops' = [ops EXCEPT ![i] = [kind |-> "normal", tick |-> 0, state |-> "held"]]
        /\ late' = [late EXCEPT ![t] = i] /\ asleep' = asleep \cup {t}
        /\ UNCHANGED <<current, known, sent, counter, pool, pending, priority, state, stop, runner,
                       todo>>
    BY <1>2 DEF WaitsToDefer, Fresh
  <2>2. /\ current \in Nat /\ i \in Ids /\ i \in Nat /\ i > 0
        /\ ops \in [Ids -> [kind : Kinds, tick : 0 .. current, state : OpState]]
    BY <1>0 DEF Inv, Queue, Clock, Ids
  <2>3. /\ ops'[i].kind = "normal" /\ ops'[i].tick = 0 /\ ops'[i].state = "held"
        /\ \A j \in Ids : j # i => ops'[j] = ops[j]
    BY <2>1, <2>2
  <2>4. Clock' /\ Slots' /\ Ordered' /\ Phased' /\ Timed' /\ Recorded' /\ Stopping'
    BY <2>1, Kept DEF Inv
  <2>5. Queue'
    <3>1. [kind |-> "normal", tick |-> 0, state |-> "held"]
              \in [kind : Kinds, tick : 0 .. current, state : OpState]
      BY <2>2 DEF Kinds, OpState
    <3>. QED  BY <2>1, <2>2, <3>1 DEF Inv, Queue
  <2>6. Threads' /\ Held'
    <3>1. i \in Nobody .. MaxOps
      BY <1>0, <2>2 DEF Ids, Nobody
    <3>2. late' \in [Latecomers -> Nobody .. MaxOps]
      BY <2>1, <3>1 DEF Inv, Threads
    <3>3. Threads'
      BY <2>1, <3>2 DEF Inv, Threads, Latecomers
    <3>4. late'[t] = i /\ \A u \in Latecomers : u # t => late'[u] = late[u]
      BY <2>1 DEF Inv, Threads
    <3>5. \A u \in Latecomers : u # t /\ late[u] > 0 => late[u] \in Ids /\ late[u] # i
      BY <1>0, <2>1 DEF Inv, Held, Threads, Ids, Nobody
    <3>. QED  BY <2>3, <3>3, <3>4, <3>5 DEF Inv, Held
  <2>7. \A j \in Ids, kind \in {"normal", "priority"}, s \in {"queued", "taken", "running", "done"} :
            Is(j, kind, {s}) \/ Is(j, kind, {s})' => j # i
    BY <2>1, <2>3 DEF Is
  <2>8. Listed'
    BY <2>1, <2>3 DEF Inv, Listed, Is
  <2>9. RunnerHas' /\ OwnerHas'
    BY <2>1, <2>3 DEF Inv, RunnerHas, OwnerHas, Is, Plan, Active
  <2>10. Following' /\ Draining'
    BY <2>1, <2>3 DEF Inv, Following, NoneBefore, Draining, Drained, Active, OwnerHas, Is, Plan, Has
  <2>. QED  BY <2>4, <2>5, <2>6, <2>8, <2>9, <2>10 DEF Inv
<1>3. CASE OtherShutsDown(t)
  <2>1. /\ late' = [late EXCEPT ![t] = 0] /\ asleep' = asleep \cup {t} /\ late[t] = Nobody
        /\ UNCHANGED <<current, known, sent, counter, pool, ops, pending, priority, state, stop,
                       runner, todo>>
    BY <1>3 DEF OtherShutsDown
  <2>2. /\ Clock' /\ Slots' /\ Queue' /\ Ordered' /\ Phased' /\ Timed' /\ Recorded' /\ Listed'
        /\ RunnerHas' /\ OwnerHas' /\ Following' /\ Draining' /\ Stopping'
    BY <1>0, <2>1, Kept DEF Inv
  <2>3. Threads'
    <3>1. 0 \in Nobody .. MaxOps
      BY <1>0 DEF Nobody
    <3>. QED  BY <2>1, <3>1 DEF Inv, Threads, Latecomers
  <2>4. Held'
    BY <2>1 DEF Inv, Held, Threads
  <2>. QED  BY <2>2, <2>3, <2>4 DEF Inv
<1>4. CASE Resumes(t)
  <2>1. /\ UNCHANGED <<current, known, sent, counter, pool, pending, priority, state, stop, runner,
                       todo>>
        /\ late[t] # Nobody
    BY <1>4 DEF Resumes
  <2>2. /\ Clock' /\ Slots' /\ Ordered' /\ Phased' /\ Timed' /\ Recorded' /\ Stopping'
    BY <2>1, Kept DEF Inv
  <2>3. CASE state = "Closed"
    <3>1. /\ late' = [late EXCEPT ![t] = Nobody] /\ asleep' = asleep
          /\ ops' = [i \in Ids |-> IF i = late[t] THEN [ops[i] EXCEPT !.state = "done"] ELSE ops[i]]
      BY <1>4, <2>3 DEF Resumes
    <3>2. ops \in [Ids -> [kind : Kinds, tick : 0 .. current, state : OpState]]
      BY DEF Inv, Queue
    <3>3. ASSUME NEW i \in Ids
          PROVE  /\ ops'[i] \in [kind : Kinds, tick : 0 .. current, state : OpState]
                 /\ ops'[i].kind = ops[i].kind /\ ops'[i].tick = ops[i].tick
                 /\ i # late[t] => ops'[i] = ops[i]
                 /\ i = late[t] => ops[i].state = "held" /\ ops'[i].state = "done"
      <4>1. CASE i = late[t]
        <5>1. ops'[i] = [ops[i] EXCEPT !.state = "done"]
          BY <3>1, <4>1
        <5>2. ops[i].state = "held"
          BY <1>0, <4>1 DEF Inv, Held, Ids
        <5>. QED  BY <3>2, <4>1, <5>1, <5>2 DEF OpState
      <4>2. CASE i # late[t]
        BY <3>1, <3>2, <4>2
      <4>. QED  BY <4>1, <4>2
    <3>4. Queue'
      BY <2>1, <3>1, <3>3 DEF Inv, Queue
    <3>5. Threads'
      <4>1. Nobody \in Nobody .. MaxOps
        BY <1>0 DEF Nobody
      <4>. QED  BY <2>1, <3>1, <4>1 DEF Inv, Threads
    <3>6. Held'
      <4>1. \A u \in Latecomers : u # t => late'[u] = late[u]
        BY <3>1 DEF Inv, Threads
      <4>2. late'[t] = Nobody
        BY <3>1 DEF Inv, Threads
      <4>3. \A u \in Latecomers : late[u] > 0 => late[u] \in Ids
        BY <1>0 DEF Inv, Threads, Ids, Nobody
      <4>. QED  BY <3>3, <4>1, <4>2, <4>3 DEF Inv, Held, Nobody
    <3>7. Listed'
      <4>1. \A j \in Ids : ops[j].state = "queued" \/ ops'[j].state = "queued" =>
                ops'[j].state = "queued" /\ ops[j].state = "queued"
        BY <3>3
      <4>2. /\ \A k \in 1 .. Len(pending) : pending[k] \in Ids
            /\ \A k \in 1 .. Len(priority) : priority[k] \in Ids
        BY DEF Inv, Listed, Is
      <4>3. \A j \in Ids : ops'[j].kind = "none" => ops'[j].state = "unused"
        BY <3>3 DEF Inv, Listed
      <4>4. \A j \in Ids : /\ ops'[j].kind = ops[j].kind /\ ops'[j].tick = ops[j].tick
                           /\ ops'[j].state = "queued" <=> ops[j].state = "queued"
        BY <3>3, <4>1
      <4>5. pending' = pending /\ priority' = priority
        BY <2>1
      <4>6. \A i, kind : Is(i, kind, {"queued"})' <=> Is(i, kind, {"queued"})
        BY <4>4 DEF Is
      <4>7. \A k \in 1 .. Len(priority) : ops'[priority[k]].tick = ops[priority[k]].tick
        BY <4>2, <4>4
      <4>. QED  BY <4>3, <4>5, <4>6, <4>7 DEF Inv, Listed
    <3>8. RunnerHas' /\ OwnerHas'
      BY <2>1, <3>3 DEF Inv, RunnerHas, OwnerHas, Is, Plan, Active
    <3>9. Following' /\ Draining'
      BY <2>1, <3>3 DEF Inv, Following, NoneBefore, Draining, Drained, Active, OwnerHas, Is, Plan,
                        Has
    <3>. QED  BY <2>2, <3>4, <3>5, <3>6, <3>7, <3>8, <3>9 DEF Inv
  <2>4. CASE state # "Closed"
    <3>1. asleep' = asleep \cup {t} /\ UNCHANGED <<late, ops>>
      BY <1>4, <2>4 DEF Resumes
    <3>2. Queue' /\ Listed' /\ RunnerHas' /\ OwnerHas' /\ Following' /\ Held' /\ Draining'
      BY <1>0, <2>1, <3>1, Kept DEF Inv
    <3>3. Threads'
      BY <2>1, <3>1 DEF Inv, Threads, Latecomers
    <3>. QED  BY <2>2, <3>2, <3>3 DEF Inv
  <2>. QED  BY <2>3, <2>4
<1>. QED  BY <1>1, <1>2, <1>3, <1>4 DEF Other, Late

--------------------------------------------------------------------------------
(* The runner and the GPU                                                  *)

\* An operation goes from one state to another.
LEMMA Changed ==
    ASSUME Queue, UNCHANGED current, NEW i \in Ids, NEW s \in OpState,
           ops' = [ops EXCEPT ![i].state = s]
    PROVE  /\ ops' \in [Ids -> [kind : Kinds, tick : 0 .. current', state : OpState]]
           /\ ops'[i].state = s
           /\ \A j \in Ids : ops'[j].kind = ops[j].kind /\ ops'[j].tick = ops[j].tick
           /\ \A j \in Ids : j # i => ops'[j] = ops[j]
           /\ \A j \in Ids : ops[j].tick \in Nat
<1>1. ops \in [Ids -> [kind : Kinds, tick : 0 .. current, state : OpState]]
  BY DEF Queue
<1>2. ops'[i] = [ops[i] EXCEPT !.state = s] /\ \A j \in Ids : j # i => ops'[j] = ops[j]
  BY <1>1
<1>3. /\ ops'[i] \in [kind : Kinds, tick : 0 .. current, state : OpState]
      /\ ops'[i].kind = ops[i].kind /\ ops'[i].tick = ops[i].tick /\ ops'[i].state = s
  BY <1>1, <1>2
<1>4. \A j \in Ids : ops'[j] \in [kind : Kinds, tick : 0 .. current, state : OpState]
  BY <1>1, <1>2, <1>3
<1>5. ops' \in [Ids -> [kind : Kinds, tick : 0 .. current', state : OpState]]
  BY <1>1, <1>4
<1>6. \A j \in Ids : ops[j].tick \in Nat
  BY <1>1
<1>. QED  BY <1>2, <1>3, <1>5, <1>6

LEMMA RunnerLooksSteps ==
    ASSUME Inv, RunnerLooks
    PROVE  Inv'
<1>1. /\ runner.at = "loop" /\ Learns
      /\ UNCHANGED <<current, known, sent, counter, pool, pending, state, stop, todo, late, asleep>>
  BY Learned DEF Inv, RunnerLooks
<1>2. /\ Clock' /\ Slots' /\ Ordered' /\ Phased' /\ Timed' /\ Recorded' /\ Stopping'
  BY <1>1, Kept DEF Inv
<1>3. ~ Active /\ MaxOps \in Nat
  BY <1>1 DEF Inv, RunnerHas, Queue
<1>4. \A j \in Ids : ~ Is(j, "priority", {"taken", "running"})
  BY <1>3 DEF Inv, RunnerHas, Active, Ids
<1>5. CASE stop \/ priority = <<>>
  <2>1. /\ UNCHANGED <<ops, priority>> /\ \E at \in {"exited", "holds"} : runner' = [runner EXCEPT !.at = at]
    BY <1>5 DEF RunnerLooks
  <2>2. runner'.op = runner.op /\ runner'.at \in {"exited", "holds"} /\ Threads'
    BY <1>1, <2>1 DEF Inv, Threads
  <2>3. Queue' /\ Listed' /\ OwnerHas' /\ Following' /\ Held'
    BY <1>1, <2>1, Kept DEF Inv
  <2>4. RunnerHas'
    BY <1>3, <1>4, <2>1, <2>2 DEF RunnerHas, Active, Is
  <2>5. Draining'
    BY <1>1, <2>1, <2>2 DEF Inv, Draining, Drained, Active, Has, Plan
  <2>. QED  BY <1>2, <2>2, <2>3, <2>4, <2>5 DEF Inv
<1>6. CASE ~ stop /\ priority # <<>>
  <2> DEFINE i == Head(priority)
  <2>1. /\ runner' = [at |-> "waits", op |-> i] /\ priority' = Tail(priority)
        /\ ops' = [ops EXCEPT ![i].state = "taken"]
    BY <1>6 DEF RunnerLooks
  <2>2. /\ i = priority[1] /\ Len(priority) \in Nat \ {0} /\ priority' \in Seq(Ids)
        /\ Len(priority') = Len(priority) - 1
        /\ \A k \in 1 .. Len(priority) - 1 : priority'[k] = priority[k + 1]
    BY <1>6, <2>1, WithoutFirst DEF Inv, Queue
  <2>3. i \in Ids /\ ops[i].kind = "priority" /\ ops[i].state = "queued"
    BY <2>2 DEF Inv, Listed, Is
  <2> HIDE DEF i
  <2>4. /\ ops' \in [Ids -> [kind : Kinds, tick : 0 .. current', state : OpState]]
        /\ ops'[i].state = "taken"
        /\ \A j \in Ids : ops'[j].kind = ops[j].kind /\ ops'[j].tick = ops[j].tick
        /\ \A j \in Ids : j # i => ops'[j] = ops[j]
    BY <1>1, <2>1, <2>3, Changed DEF Inv, OpState
  <2>5. Queue'
    BY <1>1, <1>3, <2>2, <2>4 DEF Inv, Queue
  <2>6. Threads'
    <3>1. runner' \in [at : {"loop", "holds", "waits", "runs", "clears", "notifies", "exited"},
                       op : 0 .. MaxOps]
      BY <2>1, <2>3, <1>3 DEF Ids
    <3>. QED  BY <1>1, <3>1 DEF Inv, Threads
  <2>7. Listed'
    <3>1. \A k \in 1 .. Len(priority') : k + 1 \in 1 .. Len(priority) /\ k + 1 # 1
              /\ priority'[k] = priority[k + 1]
      BY <2>2
    <3>2. ASSUME NEW k \in 1 .. Len(priority')
          PROVE  /\ priority'[k] \in Ids /\ priority'[k] # i
                 /\ ops[priority'[k]].kind = "priority" /\ ops[priority'[k]].state = "queued"
      <4>1. k + 1 \in 1 .. Len(priority) /\ 1 \in 1 .. Len(priority) /\ 1 < k + 1
        BY <2>2, <3>1
      <4>. QED  BY <2>2, <3>1, <4>1 DEF Inv, Listed, Is
    <3>3. ASSUME NEW k \in 1 .. Len(priority'), NEW l \in 1 .. Len(priority'), k < l
          PROVE  priority'[k] # priority'[l] /\ ops'[priority'[k]].tick <= ops'[priority'[l]].tick
      <4>1. k + 1 \in 1 .. Len(priority) /\ l + 1 \in 1 .. Len(priority) /\ k + 1 < l + 1
        BY <2>2, <3>1, <3>3
      <4>2. /\ priority[k + 1] # priority[l + 1]
            /\ ops[priority[k + 1]].tick <= ops[priority[l + 1]].tick
        BY <4>1 DEF Inv, Listed
      <4>3. priority'[k] = priority[k + 1] /\ priority'[l] = priority[l + 1]
        BY <3>1
      <4>4. priority'[k] \in Ids /\ priority'[l] \in Ids
        BY <3>2
      <4>. QED  BY <2>4, <4>2, <4>3, <4>4
    <3>4. ASSUME NEW j \in Ids, ops'[j].kind = "priority", ops'[j].state = "queued"
          PROVE  \E k \in 1 .. Len(priority') : priority'[k] = j
      <4>1. j # i /\ ops'[j] = ops[j]
        BY <2>4, <3>4
      <4>2. PICK k \in 1 .. Len(priority) : priority[k] = j
        BY <3>4, <4>1 DEF Inv, Listed, Is
      <4>3. k # 1
        BY <2>2, <4>1, <4>2
      <4>4. k - 1 \in 1 .. Len(priority') /\ k - 1 \in 1 .. Len(priority) - 1 /\ (k - 1) + 1 = k
        BY <2>2, <4>3
      <4>. QED  BY <2>2, <4>2, <4>4
    <3>5. /\ \A k \in 1 .. Len(pending) : pending[k] \in Ids \ {i} /\ ops'[pending[k]] = ops[pending[k]]
          /\ \A j \in Ids : ops'[j].kind = "normal" => ops'[j] = ops[j]
          /\ \A j \in Ids : ops'[j].kind = "none" => ops'[j].state = "unused"
      BY <2>3, <2>4 DEF Inv, Listed, Is
    <3>6. \A k \in 1 .. Len(priority') :
              /\ priority'[k] \in Ids /\ ops'[priority'[k]].kind = "priority"
              /\ ops'[priority'[k]].state = "queued"
      BY <2>4, <3>2
    <3>7. /\ \A k \in 1 .. Len(pending) :
                pending[k] \in Ids /\ ops'[pending[k]].kind = "normal" /\ ops'[pending[k]].state = "queued"
          /\ \A k, l \in 1 .. Len(pending) : k # l => pending[k] # pending[l]
          /\ \A j \in Ids : Is(j, "normal", {"queued"})' =>
                \E k \in 1 .. Len(pending) : pending[k] = j
      BY <3>5 DEF Inv, Listed, Is
    <3>. QED  BY <1>1, <3>3, <3>4, <3>5, <3>6, <3>7 DEF Listed, Is
  <2>8. RunnerHas'
    <3>1. runner'.at = "waits" /\ runner'.op = i
      BY <2>1
    <3>. QED  BY <1>4, <2>3, <2>4, <3>1 DEF RunnerHas, Active, Is
  <2>9. OwnerHas' /\ Following'
    <3>1. \A j \in Ids : ops'[j].kind = "normal" => ops'[j] = ops[j]
      BY <2>3, <2>4
    <3>2. \A k \in Plan : todo[k].do \in {"start", "run"} =>
              todo[k].n \in Ids /\ ops'[todo[k].n] = ops[todo[k].n]
      BY <2>3, <2>4 DEF Inv, OwnerHas, Is
    <3>3. OwnerHas'
      BY <1>1, <2>4, <3>1, <3>2 DEF Inv, OwnerHas, Is, Plan
    <3>4. \A tick : NoneBefore(tick) => NoneBefore(tick)'
      BY <2>3, <2>4 DEF NoneBefore, Is
    <3>5. Following'
      BY <1>1, <3>2, <3>4 DEF Inv, Following, Plan
    <3>. QED  BY <3>3, <3>5
  <2>10. Held'
    <3>1. \A t \in Latecomers : late[t] > 0 => late[t] \in Ids
      BY <1>3 DEF Inv, Threads, Ids, Nobody
    <3>2. \A t \in Latecomers : late[t] > 0 => late[t] # i /\ ops'[late[t]] = ops[late[t]]
      BY <2>3, <2>4, <3>1 DEF Inv, Held
    <3>. QED  BY <1>1, <3>2 DEF Inv, Held
  <2>11. Draining'
    BY <1>1, <1>6, <2>3, <2>4 DEF Inv, Draining, Drained, Has, Plan
  <2>. QED  BY <1>2, <2>5, <2>6, <2>7, <2>8, <2>9, <2>10, <2>11 DEF Inv
<1>. QED  BY <1>5, <1>6

\* The steps of the runner with the operation that it has taken.
LEMMA RunnerWorks ==
    ASSUME Inv, Learns, known' <= counter, NEW s \in {"running", "done"}, runner.op \in Ids,
           Is(runner.op, "priority", IF s = "running" THEN {"taken"} ELSE {"running"}),
           s = "running" => ops[runner.op].tick <= known',
           ops' = [ops EXCEPT ![runner.op].state = s],
           runner' = [runner EXCEPT !.at = IF s = "running" THEN "runs" ELSE "clears"],
           UNCHANGED <<current, sent, counter, pool, pending, priority, state, stop, todo, late, asleep>>
    PROVE  Inv'
<1> DEFINE i == runner.op
<1>1. /\ ops' \in [Ids -> [kind : Kinds, tick : 0 .. current', state : OpState]]
      /\ ops'[i].state = s
      /\ \A j \in Ids : ops'[j].kind = ops[j].kind /\ ops'[j].tick = ops[j].tick
      /\ \A j \in Ids : j # i => ops'[j] = ops[j]
      /\ \A j \in Ids : ops[j].tick \in Nat
  BY Changed DEF Inv, OpState
<1>2. /\ i \in Ids /\ ops[i].kind = "priority" /\ MaxOps \in Nat
      /\ ops[i].state = IF s = "running" THEN "taken" ELSE "running"
  BY DEF Is, Inv, Queue
<1>3. /\ runner'.op = i /\ runner'.at = IF s = "running" THEN "runs" ELSE "clears"
      /\ Threads'
  BY DEF Inv, Threads
<1> HIDE DEF i
<1>4. /\ Slots' /\ Ordered' /\ Phased' /\ Timed' /\ Recorded' /\ Stopping'
  BY Kept DEF Inv
<1>5. Clock' /\ Queue'
  BY <1>1 DEF Inv, Clock, Queue, Learns
<1>6. Listed'
  <2>1. \A j \in Ids : ops[j].state = "queued" \/ ops'[j].state = "queued" =>
            ops'[j].state = "queued" /\ ops[j].state = "queued"
    BY <1>1, <1>2
  <2>2. /\ \A k \in 1 .. Len(pending) : pending[k] \in Ids
        /\ \A k \in 1 .. Len(priority) : priority[k] \in Ids
    BY DEF Inv, Listed, Is
  <2>3. \A j \in Ids : ops'[j].kind = "none" => ops'[j].state = "unused"
    BY <1>1, <1>2 DEF Inv, Listed
  <2>. QED  BY <1>1, <2>1, <2>2, <2>3 DEF Inv, Listed, Is
<1>7. RunnerHas'
  <2>1. \A j \in Ids : Is(j, "priority", {"taken", "running"}) => j = i
    BY DEF Inv, RunnerHas, i
  <2>2. \A j \in Ids : Is(j, "priority", {"taken", "running"})' => j = i
    BY <1>1, <2>1 DEF Is
  <2>3. ops'[i].tick = ops[i].tick /\ (s = "running" => ops'[i].tick <= known')
    BY <1>1, <1>2 DEF i
  <2>. QED  BY <1>1, <1>2, <1>3, <2>2, <2>3 DEF RunnerHas, Active, Is
<1>8. OwnerHas' /\ Following'
  <2>1. \A j \in Ids : ops'[j].kind = "normal" => ops'[j] = ops[j]
    BY <1>1, <1>2
  <2>2. \A k \in Plan : todo[k].do \in {"start", "run"} =>
            todo[k].n \in Ids /\ ops'[todo[k].n] = ops[todo[k].n]
    BY <1>1, <1>2 DEF Inv, OwnerHas, Is
  <2>3. OwnerHas'
    BY <1>1, <2>1, <2>2 DEF Inv, OwnerHas, Is, Plan, Learns
  <2>4. \A tick : NoneBefore(tick) => NoneBefore(tick)'
    BY <1>1, <1>2 DEF NoneBefore, Is
  <2>5. Following'
    BY <2>2, <2>4 DEF Inv, Following, Plan
  <2>. QED  BY <2>3, <2>5
<1>9. Held'
  BY <1>1, <1>2 DEF Inv, Held, Threads, Ids, Nobody
<1>10. Draining'
  <2>1. Active
    BY <1>2 DEF Active, Ids, i
  <2>2. state # "Open" => Has({"drain"})
    BY <2>1 DEF Inv, Draining, Drained
  <2>3. \A j \in Ids : ops'[j].state = "queued" => ops[j].state = "queued" /\ ops'[j].tick = ops[j].tick
    BY <1>1, <1>2
  <2>. QED  BY <1>1, <2>2, <2>3 DEF Inv, Draining, Has, Plan, Learns
<1>. QED  BY <1>3, <1>4, <1>5, <1>6, <1>7, <1>8, <1>9, <1>10 DEF Inv

LEMMA RunnerSteps ==
    ASSUME Inv, Runner \/ \E i \in Ids : RunnerDefers(i)
    PROVE  Inv'
<1>0. MaxOps \in Nat /\ Clock
  BY DEF Inv, Queue
<1>1. CASE RunnerLooks
  BY <1>1, RunnerLooksSteps
<1>2. CASE RunnerWaits
  <2>1. /\ runner.at = "waits" /\ Waited(ops[runner.op].tick)
        /\ known' = KnownAfterWait(ops[runner.op].tick)
        /\ UNCHANGED <<current, sent, counter, pool, pending, priority, state, stop, todo, late, asleep>>
    BY <1>2 DEF RunnerWaits, Over
  <2>2. /\ Is(runner.op, "priority", {"taken"}) /\ runner.op \in Ids /\ ops[runner.op].tick \in Nat
    BY <2>1 DEF Inv, RunnerHas, Is, Queue
  <2>3. Learns /\ known' <= counter /\ ops[runner.op].tick <= known'
    <3>1. known' = known \/ known' = Refreshed
      BY <2>1 DEF KnownAfterWait
    <3>2. ops[runner.op].tick <= known'
      BY <1>0, <2>1, <2>2 DEF Waited, KnownAfterWait, Refreshed, Clock
    <3>. QED  BY <1>0, <3>1, <3>2, Learned
  <2>4. ~ stop
    <3>1. Active
      BY <1>0, <2>2 DEF Active, Ids
    <3>. QED  BY <3>1 DEF Inv, Stopping, Draining, Drained
  <2>5. /\ runner' = [runner EXCEPT !.at = "runs"]
        /\ ops' = [ops EXCEPT ![runner.op].state = "running"]
    BY <1>2, <2>4 DEF RunnerWaits
  <2>. QED  BY <2>1, <2>2, <2>3, <2>5, RunnerWorks
<1>3. CASE RunnerFinishes
  <2>1. /\ runner.at = "runs" /\ runner' = [runner EXCEPT !.at = "clears"]
        /\ ops' = [ops EXCEPT ![runner.op].state = "done"]
        /\ UNCHANGED <<current, known, sent, counter, pool, pending, priority, state, stop, todo,
                       late, asleep>>
    BY <1>3 DEF RunnerFinishes
  <2>2. Is(runner.op, "priority", {"running"}) /\ runner.op \in Ids
    BY <2>1 DEF Inv, RunnerHas, Is
  <2>3. Learns /\ known' <= counter
    BY <1>0, <2>1, Learned
  <2>. QED  BY <2>1, <2>2, <2>3, RunnerWorks
<1>4. CASE RunnerSleeps \/ RunnerClears \/ RunnerNotifies
  <2>1. /\ runner.at \in {"holds", "clears", "notifies"}
        /\ UNCHANGED <<current, known, sent, counter, pool, ops, pending, priority, state, stop,
                       todo, late>>
    BY <1>4 DEF RunnerSleeps, RunnerClears, RunnerNotifies
  <2>2. /\ Clock' /\ Slots' /\ Queue' /\ Ordered' /\ Phased' /\ Timed' /\ Recorded' /\ Listed'
        /\ OwnerHas' /\ Following' /\ Held' /\ Stopping'
    BY <1>0, <2>1, Kept, Learned DEF Inv
  <2>3. /\ runner'.op \in {0, runner.op} /\ runner'.at \in {"loop", "notifies"}
        /\ runner.at = "clears" => runner'.op = 0
        /\ runner' \in [at : {"loop", "holds", "waits", "runs", "clears", "notifies", "exited"},
                        op : 0 .. MaxOps]
        /\ asleep' \subseteq Others \cup {"owner", "runner"}
    <3>1. CASE RunnerSleeps
      BY <3>1 DEF RunnerSleeps, Inv, Threads
    <3>2. CASE RunnerClears
      BY <1>0, <3>2 DEF RunnerClears, Inv, Threads
    <3>3. CASE RunnerNotifies
      BY <3>3 DEF RunnerNotifies, NotifyAll, Inv, Threads
    <3>. QED  BY <1>4, <3>1, <3>2, <3>3
  <2>4. Threads'
    BY <2>1, <2>3 DEF Inv, Threads
  <2>5. runner'.op = 0
    BY <2>1, <2>3 DEF Inv, RunnerHas, Active
  <2>6. RunnerHas'
    <3>1. \A j \in Ids : ~ Is(j, "priority", {"taken", "running"})
      BY <1>0, <2>1 DEF Inv, RunnerHas, Active, Ids, Is
    <3>. QED  BY <2>1, <2>3, <2>5, <3>1 DEF RunnerHas, Active, Is
  <2>7. Draining'
    BY <2>1, <2>5 DEF Inv, Draining, Drained, Active, Has, Plan
  <2>. QED  BY <2>2, <2>4, <2>6, <2>7 DEF Inv
<1>5. ASSUME NEW i \in Ids, RunnerDefers(i)
      PROVE  Inv'
  BY <1>5, DeferSteps DEF RunnerDefers
<1>. QED  BY <1>1, <1>2, <1>3, <1>4, <1>5 DEF Runner

LEMMA GpuSteps ==
    ASSUME Inv, GpuFinishes
    PROVE  Inv'
<1>1. /\ counter < sent /\ counter' = counter + 1
      /\ UNCHANGED <<current, known, sent, pool, ops, pending, priority, state, stop, runner,
                     todo, late, asleep>>
  BY DEF GpuFinishes
<1>2. Clock' /\ Learns
  BY <1>1 DEF Inv, Clock, Learns
<1>3. /\ Slots' /\ Queue' /\ Threads' /\ Ordered' /\ Phased' /\ Timed' /\ Listed' /\ RunnerHas'
      /\ OwnerHas' /\ Following' /\ Held' /\ Draining' /\ Stopping'
  BY <1>1, <1>2, Kept DEF Inv
<1>4. Recorded'
  <2>1. \A tick \in counter' + 1 .. sent : tick \in counter + 1 .. sent
    BY <1>1 DEF Inv, Clock
  <2>. QED  BY <1>1, <2>1 DEF Inv, Recorded, Has, Plan
<1>. QED  BY <1>2, <1>3, <1>4 DEF Inv

--------------------------------------------------------------------------------
(* The steps of the owner: the pool and the clock                          *)

LEMMA LeastOf ==
    ASSUME NEW S \in SUBSET Nat, S # {}
    PROVE  Least(S) \in S
<1>1. IsWellFoundedOn(OpToRel(<, Nat), Nat)
  BY NatLessThanWellFounded
<1>2. PICK i \in S : \A j \in S : ~ (<<j, i>> \in OpToRel(<, Nat))
  BY <1>1, WFMin
<1>3. \A j \in S : ~ (j < i)
  BY <1>2 DEF OpToRel
<1>4. \A j \in S : i <= j
  BY <1>3
<1>. QED  BY <1>4 DEF Least

\* The slot that is used again is that of a submission the GPU has finished.
LEMMA Reused ==
    ASSUME Clock, Slots, Reusable # 0
    PROVE  Reusable \in 1 .. Len(pool.ticks) /\ pool.ticks[Reusable] <= counter
<1> DEFINE from == {i \in DOMAIN pool.ticks : i >= pool.hint}
           before == DOMAIN pool.ticks \ from
<1>1. /\ DOMAIN pool.ticks = 1 .. Len(pool.ticks) /\ Len(pool.ticks) \in Nat
      /\ \A i \in 1 .. Len(pool.ticks) : pool.ticks[i] \in Nat
  BY DEF Slots
<1>2. from \subseteq 1 .. Len(pool.ticks) /\ before \subseteq 1 .. Len(pool.ticks)
  BY <1>1
<1> HIDE DEF from, before
<1>3. known <= counter /\ Refreshed <= counter /\ known \in Nat /\ Refreshed \in Nat /\ counter \in Nat
  BY DEF Clock, Refreshed
<1>4. ASSUME NEW slots \in SUBSET (1 .. Len(pool.ticks)), NEW tick \in Nat, tick <= counter,
             FreeIn(slots, tick) # {}
      PROVE  /\ Least(FreeIn(slots, tick)) \in 1 .. Len(pool.ticks)
             /\ pool.ticks[Least(FreeIn(slots, tick))] <= counter
  <2>1. FreeIn(slots, tick) \in SUBSET Nat
    <3>1. 1 .. Len(pool.ticks) \subseteq Nat
      BY <1>1
    <3>2. FreeIn(slots, tick) \subseteq slots
      BY DEF FreeIn
    <3>. QED  BY <3>1, <3>2
  <2>2. Least(FreeIn(slots, tick)) \in FreeIn(slots, tick)
    BY <1>4, <2>1, LeastOf
  <2>3. /\ Least(FreeIn(slots, tick)) \in 1 .. Len(pool.ticks)
        /\ pool.ticks[Least(FreeIn(slots, tick))] <= tick
    BY <2>2 DEF FreeIn
  <2>. QED  BY <1>1, <1>3, <1>4, <2>3
<1>5. \/ FreeIn(from, known) # {} /\ Reusable = Least(FreeIn(from, known))
      \/ FreeIn(from, Refreshed) # {} /\ Reusable = Least(FreeIn(from, Refreshed))
      \/ FreeIn(before, Refreshed) # {} /\ Reusable = Least(FreeIn(before, Refreshed))
  <2>0. FreeIn(from, known) \subseteq FreeIn(from, Refreshed)
    <3>1. known <= Refreshed
      BY DEF Clock, Refreshed
    <3>2. \A i \in from : pool.ticks[i] \in Nat
      BY <1>1, <1>2
    <3>3. \A i \in from : pool.ticks[i] <= known => pool.ticks[i] <= Refreshed
      BY <1>3, <3>1, <3>2
    <3>. QED  BY <3>3 DEF FreeIn
  <2>1. CASE FreeIn(from, known) # {}
    <3>1. FreeIn(from, Refreshed) # {}
      BY <2>0, <2>1
    <3>. QED  BY <2>1, <3>1 DEF Reusable, from
  <2>2. CASE FreeIn(from, known) = {} /\ FreeIn(from, Refreshed) # {}
    BY <2>2 DEF Reusable, from
  <2>3. CASE FreeIn(from, known) = {} /\ FreeIn(from, Refreshed) = {} /\ FreeIn(before, Refreshed) # {}
    BY <2>3 DEF Reusable, from, before
  <2>4. CASE /\ FreeIn(from, known) = {} /\ FreeIn(from, Refreshed) = {}
             /\ FreeIn(before, Refreshed) = {}
    BY <2>4 DEF Reusable, from, before
  <2>. QED  BY <2>1, <2>2, <2>3, <2>4
<1>. QED  BY <1>2, <1>3, <1>4, <1>5

\* A multiple of GrowStep and one GrowStep more is a multiple of it.
LEMMA OneMore ==
    ASSUME NEW n \in Nat, NEW g \in Nat \ {0}, n % g = 0
    PROVE  (n + g) % g = 0
<1>1. PICK k \in Nat : n = g * k
  OBVIOUS
<1>2. n + g = g * (k + 1)
  BY <1>1
<1> DEFINE r == (n + g) % g
           d == (n + g) \div g
<1>3. n + g = g * d + r /\ r \in 0 .. g - 1 /\ d \in Nat
  OBVIOUS
<1>4. r = g * ((k + 1) - d)
  BY <1>2, <1>3
<1>5. (k + 1) - d = 0
  <2>1. CASE (k + 1) - d >= 1
    BY <1>3, <1>4, <2>1
  <2>2. CASE (k + 1) - d <= -1
    BY <1>3, <1>4, <2>2
  <2>. QED  BY <1>3, <2>1, <2>2
<1>. QED  BY <1>4, <1>5

LEMMA GrownSlots ==
    ASSUME Slots
    PROVE  /\ Grown \in Seq(Nat) /\ Len(Grown) = Len(pool.ticks) + GrowStep
           /\ \A i \in 1 .. Len(pool.ticks) : Grown[i] = pool.ticks[i]
           /\ \A i \in Len(pool.ticks) + 1 .. Len(Grown) : Grown[i] = 0
<1> DEFINE new == [i \in 1 .. GrowStep |-> 0]
<1>1. pool.ticks \in Seq(Nat) /\ GrowStep \in Nat \ {0}
  BY DEF Slots
<1>2. new \in Seq(Nat) /\ Len(new) = GrowStep /\ \A i \in 1 .. GrowStep : new[i] = 0
  BY <1>1
<1> HIDE DEF new
<1>3. /\ pool.ticks \o new \in Seq(Nat) /\ Len(pool.ticks \o new) = Len(pool.ticks) + Len(new)
      /\ \A i \in 1 .. Len(pool.ticks) + Len(new) : (pool.ticks \o new)[i] =
            IF i <= Len(pool.ticks) THEN pool.ticks[i] ELSE new[i - Len(pool.ticks)]
  BY <1>1, <1>2, ConcatProperties
<1>4. Grown = pool.ticks \o new
  BY DEF Grown, new
<1>5. Len(pool.ticks) \in Nat
  BY <1>1
<1>6. \A i \in Len(pool.ticks) + 1 .. Len(Grown) :
          i - Len(pool.ticks) \in 1 .. GrowStep /\ ~ (i <= Len(pool.ticks))
  BY <1>1, <1>2, <1>3, <1>4, <1>5
<1>. QED  BY <1>1, <1>2, <1>3, <1>4, <1>5, <1>6

LEMMA BeginsSteps ==
    ASSUME Inv, Begins
    PROVE  Inv'
<1> DEFINE ticks == IF Reusable # 0 THEN pool.ticks ELSE Grown
           slot == IF Reusable # 0 THEN Reusable ELSE Len(pool.ticks) + 1
<1>1. /\ At("begin") /\ pool.command = 0
      /\ pool' = [pool EXCEPT !.ticks = Stamped(slot, ticks), !.hint = (slot % Len(ticks)) + 1,
                              !.command = slot]
      /\ known' = IF Looks THEN Refreshed ELSE known
      /\ todo' = Tail(todo)
      /\ UNCHANGED <<current, sent, counter, ops, pending, priority, state, stop, runner,
                     late, asleep>>
  BY DEF Begins
<1>2. todo # <<>> /\ todo[1].do = "begin" /\ MovesUp /\ 1 \in Plan
  BY <1>1, Heads, Moved DEF Inv
<1>3. Learns /\ known' <= counter
  BY <1>1, Learned DEF Inv
<1>4. /\ ticks \in Seq(Nat) /\ slot \in 1 .. Len(ticks) /\ Len(ticks) >= Len(pool.ticks)
      /\ Len(ticks) % GrowStep = 0
      /\ \A i \in 1 .. Len(pool.ticks) : ticks[i] = pool.ticks[i]
      /\ \A i \in 1 .. Len(ticks) : ticks[i] <= current
      /\ slot \in 1 .. Len(pool.ticks) => pool.ticks[slot] <= counter
  <2>1. CASE Reusable # 0
    BY <2>1, Reused DEF Inv, Slots
  <2>2. CASE Reusable = 0
    <3>1. Len(pool.ticks) \in Nat /\ GrowStep \in Nat \ {0} /\ Len(pool.ticks) % GrowStep = 0
      BY DEF Inv, Slots
    <3>2. (Len(pool.ticks) + GrowStep) % GrowStep = 0
      BY <3>1, OneMore
    <3>3. /\ ticks = Grown /\ slot = Len(pool.ticks) + 1
      BY <2>2
    <3>4. /\ ticks \in Seq(Nat) /\ Len(ticks) = Len(pool.ticks) + GrowStep
          /\ \A i \in 1 .. Len(pool.ticks) : ticks[i] = pool.ticks[i]
          /\ \A i \in Len(pool.ticks) + 1 .. Len(ticks) : ticks[i] = 0
      BY <3>3, GrownSlots DEF Inv
    <3> HIDE DEF ticks, slot
    <3>5. \A i \in 1 .. Len(ticks) : ticks[i] <= current
      <4>1. \A i \in 1 .. Len(pool.ticks) : pool.ticks[i] <= current
        BY DEF Inv, Slots
      <4>2. current \in Nat /\ Len(pool.ticks) \in Nat /\ GrowStep \in Nat
        BY <3>1 DEF Inv, Clock
      <4>3. \A i \in 1 .. Len(ticks) : i \in 1 .. Len(pool.ticks) \/ i \in Len(pool.ticks) + 1 .. Len(ticks)
        BY <3>4, <4>2
      <4>4. 0 <= current
        BY <4>2
      <4>. QED  BY <3>4, <4>1, <4>3, <4>4
    <3>6. slot \in 1 .. Len(ticks) /\ Len(ticks) >= Len(pool.ticks) /\ slot \notin 1 .. Len(pool.ticks)
      <4>1. Len(pool.ticks) \in Nat /\ GrowStep \in Nat \ {0}
        BY <3>1
      <4>. QED  BY <3>3, <3>4, <4>1
    <3>7. Len(ticks) % GrowStep = 0
      BY <3>2, <3>4
    <3>. QED  BY <3>4, <3>5, <3>6, <3>7
  <2>. QED  BY <2>1, <2>2
<1> HIDE DEF ticks, slot
<1>5. /\ pool' \in [ticks : Seq(Nat), hint : Nat, command : Nat, used : Seq(Nat)]
      /\ pool'.used = pool.used /\ pool'.command = slot
      /\ pool'.hint \in 1 .. Len(ticks) /\ Len(pool'.ticks) = Len(ticks)
      /\ pool'.ticks[slot] = current
      /\ \A i \in 1 .. Len(ticks) : i # slot => pool'.ticks[i] = ticks[i]
  <2>1. current \in Nat /\ Len(ticks) \in Nat \ {0} /\ slot \in Nat
    BY <1>4 DEF Inv, Clock
  <2>2. /\ Stamped(slot, ticks) \in Seq(Nat) /\ Len(Stamped(slot, ticks)) = Len(ticks)
        /\ Stamped(slot, ticks)[slot] = current
        /\ \A i \in 1 .. Len(ticks) : i # slot => Stamped(slot, ticks)[i] = ticks[i]
    BY <1>4, <2>1 DEF Stamped
  <2>3. (slot % Len(ticks)) + 1 \in 1 .. Len(ticks)
    BY <2>1
  <2>4. pool \in [ticks : Seq(Nat), hint : Nat, command : Nat, used : Seq(Nat)]
    BY DEF Inv, Slots
  <2>5. /\ pool'.ticks = Stamped(slot, ticks) /\ pool'.hint = (slot % Len(ticks)) + 1
        /\ pool'.command = slot /\ pool'.used = pool.used
    BY <1>1, <2>4
  <2>6. pool' \in [ticks : Seq(Nat), hint : Nat, command : Nat, used : Seq(Nat)]
    <3>1. (slot % Len(ticks)) + 1 \in Nat
      BY <2>1
    <3> DEFINE s == Stamped(slot, ticks)
               h == (slot % Len(ticks)) + 1
    <3>2. pool' = [pool EXCEPT !.ticks = s, !.hint = h, !.command = slot]
      BY <1>1
    <3>3. s \in Seq(Nat) /\ h \in Nat
      BY <2>2, <3>1
    <3> HIDE DEF s, h
    <3>. QED  BY <2>1, <2>4, <3>2, <3>3
  <2>. QED  BY <2>2, <2>3, <2>5, <2>6
<1>6. Clock'
  BY <1>1, <1>3 DEF Inv, Clock, Learns
<1>7. current = sent + 1
  <2>1. ~ Has({"retry"})
    <3>1. \A k \in Plan : todo[k].do = "retry" => k = 1
      BY DEF Inv, Ordered
    <3>. QED  BY <1>2, <3>1 DEF Has
  <2>. QED  BY <2>1 DEF Inv, Timed, Clock
<1>8. Slots'
  <2>1. /\ Len(pool.used) = sent /\ \A tick \in 1 .. sent : pool.used[tick] \in 1 .. Len(pool.ticks)
        /\ GrowStep \in Nat \ {0} /\ Len(pool.ticks) \in Nat
    BY DEF Inv, Slots
  <2>2. \A i \in 1 .. Len(ticks) : pool'.ticks[i] <= current
    <3>1. current \in Nat
      BY DEF Inv, Clock
    <3>2. \A i \in 1 .. Len(ticks) : pool'.ticks[i] = current \/ pool'.ticks[i] = ticks[i]
      BY <1>5
    <3>. QED  BY <1>4, <3>1, <3>2
  <2>3. \A tick \in 1 .. sent : pool.used[tick] \in 1 .. Len(ticks)
    BY <1>4, <2>1
  <2>4. pool'.hint \in 1 .. Len(pool'.ticks) + 1 /\ pool'.command <= Len(pool'.ticks)
    BY <1>4, <1>5
  <2>. QED  BY <1>1, <1>4, <1>5, <2>1, <2>2, <2>3, <2>4 DEF Slots
<1>9. Recorded'
  <2>1. sent \in Nat /\ counter \in Nat /\ current \in Nat
    BY DEF Inv, Clock
  <2>2. \A tick \in 1 .. sent : /\ pool.used[tick] \in 1 .. Len(pool.ticks)
                               /\ pool.ticks[pool.used[tick]] >= tick
                               /\ pool.ticks[pool.used[tick]] \in Nat
    BY DEF Inv, Slots, Recorded
  <2>3. ASSUME NEW tick \in 1 .. sent
        PROVE  pool'.ticks[pool'.used[tick]] >= tick
    <3>1. pool.used[tick] \in 1 .. Len(ticks)
      BY <1>4, <2>2
    <3>2. CASE pool.used[tick] = slot
      BY <1>5, <1>7, <2>1, <3>2
    <3>3. CASE pool.used[tick] # slot
      BY <1>4, <1>5, <2>2, <3>1, <3>3
    <3>. QED  BY <3>2, <3>3
  <2>4. ASSUME NEW tick \in counter + 1 .. sent, pool.used[tick] = slot
        PROVE  FALSE
    <3>1. tick \in 1 .. sent /\ tick > counter
      BY <2>1
    <3>2. pool.ticks[slot] <= counter /\ pool.ticks[slot] >= tick /\ pool.ticks[slot] \in Nat
      BY <1>4, <2>2, <2>4, <3>1
    <3>. QED  BY <2>1, <3>1, <3>2
  <2>5. slot # 0
    BY <1>4
  <2>. QED  BY <1>1, <1>5, <1>7, <2>3, <2>4, <2>5 DEF Recorded
<1>10. /\ Ordered' /\ Phased' /\ Timed' /\ OwnerHas' /\ Following' /\ Draining' /\ Stopping'
  BY <1>1, <1>2, <1>3, Dropped DEF Inv
<1>11. Queue' /\ Threads' /\ Listed' /\ RunnerHas' /\ Held'
  BY <1>1, <1>3, Kept DEF Inv
<1>. QED  BY <1>6, <1>8, <1>9, <1>10, <1>11 DEF Inv

\* A submission that reaches the queue, at once or when it is repeated: the pool gives
\* away the buffer that was recorded.
LEMMA Sends ==
    ASSUME Inv, todo # <<>>, todo[1].do \in {"submit", "retry"}, todo' = Tail(todo),
           current' \in Nat, sent' = sent + 1, current' = sent + 2, current <= current', current' <= MaxTick + 1,
           Learns, known' <= counter,
           pool' = [pool EXCEPT !.command = 0, !.used = Append(@, pool.command)],
           UNCHANGED <<counter, ops, pending, priority, state, stop, runner, late, asleep>>
    PROVE  Inv'
<1>1. MovesUp /\ 1 \in Plan
  BY Heads, Moved DEF Inv
<1>2. /\ current \in Nat /\ sent \in Nat /\ counter \in Nat /\ counter <= sent /\ MaxTick \in Nat
      /\ current >= 1
  BY DEF Inv, Clock
<1>3. Clock'
  BY <1>2 DEF Inv, Clock, Learns
<1>4. /\ pool \in [ticks : Seq(Nat), hint : Nat, command : Nat, used : Seq(Nat)]
      /\ Len(pool.used) = sent /\ Len(pool.ticks) \in Nat
      /\ \A tick \in 1 .. sent : /\ pool.used[tick] \in 1 .. Len(pool.ticks)
                                 /\ pool.ticks[pool.used[tick]] >= tick
  <2>1. Slots /\ Recorded
    BY DEF Inv
  <2>2. /\ pool \in [ticks : Seq(Nat), hint : Nat, command : Nat, used : Seq(Nat)]
        /\ Len(pool.used) = sent
        /\ \A tick \in 1 .. sent : pool.used[tick] \in 1 .. Len(pool.ticks)
    BY <2>1 DEF Slots
  <2>3. \A tick \in 1 .. sent : pool.ticks[pool.used[tick]] >= tick
    BY <2>1 DEF Recorded
  <2>. QED  BY <2>2, <2>3
<1>5. pool.command \in 1 .. Len(pool.ticks) /\ pool.ticks[pool.command] = sent + 1
  <2>1. Has({"submit", "retry"})
    BY <1>1 DEF Has
  <2>. QED  BY <1>4, <2>1 DEF Inv, Slots, Recorded
<1>6. /\ Append(pool.used, pool.command) \in Seq(Nat)
      /\ Len(Append(pool.used, pool.command)) = sent + 1
      /\ \A tick \in 1 .. sent : Append(pool.used, pool.command)[tick] = pool.used[tick]
      /\ Append(pool.used, pool.command)[sent + 1] = pool.command
  BY <1>4, <1>5, OneBehind
<1>7. /\ pool' \in [ticks : Seq(Nat), hint : Nat, command : Nat, used : Seq(Nat)]
      /\ pool'.ticks = pool.ticks /\ pool'.hint = pool.hint /\ pool'.command = 0
      /\ pool'.used = Append(pool.used, pool.command)
  BY <1>4, <1>6
<1>8. \A tick \in 1 .. sent' : \/ tick \in 1 .. sent /\ pool'.used[tick] = pool.used[tick]
                               \/ tick = sent + 1 /\ pool'.used[tick] = pool.command
  <2>1. \A tick \in 1 .. sent + 1 : tick \in 1 .. sent \/ tick = sent + 1
    BY <1>2
  <2>2. \A tick \in 1 .. sent + 1 :
            \/ tick \in 1 .. sent /\ pool'.used[tick] = pool.used[tick]
            \/ tick = sent + 1 /\ pool'.used[tick] = pool.command
    BY <1>6, <1>7, <2>1
  <2>. QED  BY <2>2
<1>9. Slots'
  <2>1. \A i \in 1 .. Len(pool.ticks) : pool'.ticks[i] <= current'
    <3>1. \A i \in 1 .. Len(pool.ticks) : pool.ticks[i] \in Nat /\ pool.ticks[i] <= current
      <4>1. pool.ticks \in Seq(Nat)
        BY <1>4
      <4>2. \A i \in 1 .. Len(pool.ticks) : pool.ticks[i] \in Nat
        BY <4>1
      <4>. QED  BY <4>2 DEF Inv, Slots
    <3>2. current' \in Nat /\ current <= current'
      BY <1>2
    <3>3. \A i \in 1 .. Len(pool.ticks) : pool.ticks[i] <= current'
      BY <1>2, <3>1, <3>2
    <3>. QED  BY <1>7, <3>3
  <2>2. \A tick \in 1 .. sent' : pool'.used[tick] \in 1 .. Len(pool'.ticks)
    BY <1>4, <1>5, <1>7, <1>8
  <2>3. /\ Len(pool.ticks) % GrowStep = 0 /\ GrowStep \in Nat \ {0}
        /\ pool.hint \in 1 .. Len(pool.ticks) + 1
    BY DEF Inv, Slots
  <2>4. pool'.command <= Len(pool.ticks) /\ Len(pool'.used) = sent'
    BY <1>4, <1>6, <1>7
  <2>. QED  BY <1>7, <2>1, <2>2, <2>3, <2>4 DEF Slots
<1>10. ~ Has({"submit", "retry"})'
  <2>1. \A k \in Plan : k = 1 \/ todo[k].do \notin {"submit", "retry"}
    BY <1>1, Later DEF Inv
  <2>2. \A k \in Plan' : k + 1 \in Plan /\ k + 1 # 1 /\ todo'[k] = todo[k + 1]
    BY <1>1 DEF MovesUp
  <2>3. \A k \in Plan' : todo'[k].do \notin {"submit", "retry"}
    BY <2>1, <2>2
  <2>. QED  BY <2>3 DEF Has
<1>11. /\ Ordered' /\ Phased' /\ OwnerHas' /\ Following' /\ Draining' /\ Stopping'
       /\ state = "Open" => Has({"begin"})'
  <2>1. /\ Ordered' /\ Phased' /\ OwnerHas' /\ Following' /\ Draining' /\ Stopping'
        /\ Has({"begin"}) => Has({"begin"})'
    BY <1>1, Dropped DEF Inv
  <2>2. Has({"submit", "retry"})
    BY <1>1 DEF Has
  <2>. QED  BY <2>1, <2>2 DEF Inv, Phased
<1>12. Timed'
  <2>1. \A k \in Plan' : todo'[k].do # "retry"
    BY <1>10 DEF Has
  <2>2. ~ Has({"retry"})'
    BY <2>1 DEF Has
  <2>3. sent' = current' - 1
    BY <1>2
  <2>. QED  BY <2>1, <2>2, <2>3 DEF Timed
<1>13. Recorded'
  <2>1. ASSUME NEW tick \in 1 .. sent'
        PROVE  pool'.ticks[pool'.used[tick]] >= tick
    <3>1. CASE tick \in 1 .. sent /\ pool'.used[tick] = pool.used[tick]
      BY <1>4, <1>7, <3>1
    <3>2. CASE tick = sent + 1 /\ pool'.used[tick] = pool.command
      <4>1. pool'.ticks[pool'.used[tick]] = sent + 1
        BY <1>5, <1>7, <3>2
      <4>2. sent + 1 >= tick
        BY <1>2, <3>2
      <4>. QED  BY <4>1, <4>2
    <3>. QED  BY <1>8, <3>1, <3>2
  <2>. QED  BY <1>7, <1>10, <1>11, <2>1 DEF Recorded
<1>14. Queue'
  <2>1. \A i \in Ids : ops[i] \in [kind : Kinds, tick : 0 .. current', state : OpState]
    <3>1. 0 .. current \subseteq 0 .. current'
      BY <1>2
    <3>. QED  BY <3>1 DEF Inv, Queue
  <2>. QED  BY <2>1 DEF Inv, Queue
<1>15. Threads' /\ Listed' /\ RunnerHas' /\ Held'
  BY Kept DEF Inv
<1>. QED  BY <1>3, <1>9, <1>11, <1>12, <1>13, <1>14, <1>15 DEF Inv

LEMMA SubmitSteps ==
    ASSUME Inv, Submits(TRUE) \/ Submits(FALSE) \/ Resubmits
    PROVE  Inv'
<1>0. /\ Clock /\ current \in Nat /\ sent \in Nat /\ counter \in Nat /\ MaxTick \in Nat
      /\ current >= 1 /\ current <= MaxTick + 1
  BY DEF Inv, Clock
<1>1. CASE Submits(TRUE)
  <2>1. /\ At("submit") /\ current <= MaxTick /\ current' = current + 1 /\ sent' = current
        /\ pool' = [pool EXCEPT !.command = 0, !.used = Append(@, pool.command)]
        /\ todo' = Tail(todo)
        /\ UNCHANGED <<known, counter, ops, pending, priority, state, stop, runner, late, asleep>>
    BY <1>1 DEF Submits
  <2>2. todo # <<>> /\ todo[1].do = "submit" /\ 1 \in Plan
    BY <2>1, Heads DEF Inv
  <2>3. ~ Has({"retry"})
    BY <2>2 DEF Inv, Ordered, Has
  <2>4. sent = current - 1
    BY <2>3 DEF Inv, Timed
  <2>5. Learns /\ known' <= counter
    BY <1>0, <2>1, Learned
  <2>6. /\ current' \in Nat /\ sent' = sent + 1 /\ current' = sent + 2 /\ current <= current'
        /\ current' <= MaxTick + 1
    BY <1>0, <2>1, <2>4
  <2>. QED  BY <2>1, <2>2, <2>5, <2>6, Sends
<1>2. CASE Resubmits
  <2>1. /\ At("retry") /\ known' = KnownAfterWait(N - 1) /\ sent' = N
        /\ pool' = [pool EXCEPT !.command = 0, !.used = Append(@, pool.command)]
        /\ todo' = Tail(todo)
        /\ UNCHANGED <<current, counter, ops, pending, priority, state, stop, runner, late, asleep>>
    BY <1>2 DEF Resubmits, Collects
  <2>2. todo # <<>> /\ todo[1].do = "retry" /\ 1 \in Plan /\ N = todo[1].n
    BY <2>1, Heads DEF Inv
  <2>3. sent = current - 2 /\ N = current - 1
    BY <2>2 DEF Inv, Timed, Has
  <2>4. Learns /\ known' <= counter
    <3>1. known' = known \/ known' = Refreshed
      BY <2>1 DEF KnownAfterWait
    <3>. QED  BY <1>0, <3>1, Learned
  <2>5. /\ current' \in Nat /\ sent' = sent + 1 /\ current' = sent + 2 /\ current <= current'
        /\ current' <= MaxTick + 1
    BY <1>0, <2>1, <2>3
  <2>. QED  BY <2>1, <2>2, <2>4, <2>5, Sends
<1>3. CASE Submits(FALSE)
  <2> DEFINE e == Do("retry", current)
  <2>1. /\ At("submit") /\ current <= MaxTick /\ current' = current + 1
        /\ todo' = <<e>> \o Tail(todo)
        /\ UNCHANGED <<known, sent, pool, counter, ops, pending, priority, state, stop, runner,
                       late, asleep>>
    BY <1>3 DEF Submits
  <2>2. todo # <<>> /\ todo[1].do = "submit" /\ 1 \in Plan
    BY <2>1, Heads DEF Inv
  <2>3. e \in [do : Steps, n : Nat] /\ e.do = "retry" /\ e.n = current
    BY <1>0 DEF Do, Steps
  <2> HIDE DEF e
  <2>4. /\ Ordered' /\ Plan' = Plan /\ todo'[1] = e
        /\ \A k \in Plan : k # 1 => todo'[k] = todo[k]
    BY <2>1, <2>2, <2>3, Replaced DEF Inv
  <2>5. \A k \in Plan : k # 1 => todo[k].do \notin {"submit", "retry", "start", "run"} \/
                                 todo[k].do = "start"
    BY <2>2, Later DEF Inv, Ordered
  <2>6. \A steps : steps \cap {"submit", "retry"} = {} => (Has(steps)' <=> Has(steps))
    BY <2>2, <2>3, <2>4 DEF Has
  <2>7. Has({"submit", "retry"}) /\ Has({"retry"})'
    BY <2>2, <2>3, <2>4 DEF Has
  <2>8. Clock'
    BY <2>1 DEF Inv, Clock
  <2>9. Slots'
    <3>1. \A i \in 1 .. Len(pool.ticks) : pool.ticks[i] \in Nat /\ pool.ticks[i] <= current
      BY DEF Inv, Slots
    <3>2. \A i \in 1 .. Len(pool.ticks) : pool.ticks[i] <= current'
      BY <1>0, <2>1, <3>1
    <3>. QED  BY <2>1, <3>2 DEF Inv, Slots
  <2>10. Queue'
    <3>1. 0 .. current \subseteq 0 .. current'
      BY <1>0, <2>1
    <3>2. \A i \in Ids : ops[i] \in [kind : Kinds, tick : 0 .. current', state : OpState]
      BY <3>1 DEF Inv, Queue
    <3>. QED  BY <2>1, <3>2 DEF Inv, Queue
  <2>11. Threads' /\ Listed' /\ RunnerHas' /\ Held'
    BY <1>0, <2>1, Kept, Learned DEF Inv
  <2>12. Phased'
    <3>1. /\ Has({"stop", "notify all", "join", "close"})' <=> Has({"stop", "notify all", "join", "close"})
          /\ (Has({"begin"})' <=> Has({"begin"})) /\ (Has({"close"})' <=> Has({"close"}))
      BY <2>6
    <3>2. state # "Closed"
      BY <2>2 DEF Inv, Phased, Has, Steps
    <3>. QED  BY <2>1, <2>7, <3>1, <3>2 DEF Inv, Phased
  <2>13. Timed'
    <3>1. sent = current - 1
      BY <2>2 DEF Inv, Timed, Ordered, Has
    <3>2. \A k \in Plan : k # 1 => todo[k].do # "retry"
      BY DEF Inv, Ordered
    <3>3. e.n = current' - 1 /\ sent' = current' - 2
      BY <1>0, <2>1, <2>3, <3>1
    <3>4. \A k \in Plan' : todo'[k].do = "retry" => todo'[k].n = current' - 1
      BY <2>4, <3>2, <3>3
    <3>. QED  BY <2>7, <3>3, <3>4 DEF Timed
  <2>14. Recorded'
    <3>1. Has({"begin"})' <=> Has({"begin"})
      BY <2>6
    <3>. QED  BY <2>1, <2>7, <3>1 DEF Inv, Recorded
  <2>15. \A k \in Plan : todo'[k].do \in {"start", "run", "wait"} => k # 1 /\ todo'[k] = todo[k]
    BY <2>3, <2>4
  <2>16. OwnerHas'
    <3>1. \A k \in Plan : todo[k].do \in {"start", "run"} => todo'[k] = todo[k]
      BY <2>2, <2>4
    <3>3. \A i \in Ids : Is(i, "normal", {"taken", "running"}) =>
              \E k \in Plan' : todo'[k].do \in {"start", "run"} /\ todo'[k].n = i
      BY <2>4, <3>1 DEF Inv, OwnerHas
    <3>4. \A k \in Plan' : todo'[k].do \in {"start", "run"} =>
              k \in Plan /\ todo'[k] = todo[k]
      BY <2>4, <2>15
    <3>5. \A i : (Is(i, "normal", {"taken", "running"})' <=> Is(i, "normal", {"taken", "running"}))
      BY <2>1 DEF Is
    <3>6. ASSUME NEW k \in Plan'
          PROVE  /\ todo'[k].do = "start" => Is(todo'[k].n, "normal", {"taken"})
                 /\ todo'[k].do = "run" => Is(todo'[k].n, "normal", {"running"})
                 /\ todo'[k].do \in {"start", "run"} => ops[todo'[k].n].tick <= known
      <4>1. CASE todo'[k].do \in {"start", "run"}
        BY <3>4, <4>1 DEF Inv, OwnerHas
      <4>2. CASE todo'[k].do \notin {"start", "run"}
        BY <4>2
      <4>. QED  BY <4>1, <4>2
    <3>. QED  BY <2>1, <3>3, <3>5, <3>6 DEF OwnerHas, Is
  <2>17. Following'
    <3>1. \A k \in Plan : todo[k].do # "start" \/ k = 1
      BY <2>2 DEF Inv, Ordered
    <3>. QED  BY <2>1, <2>4, <2>15, <3>1 DEF Inv, Following
  <2>18. Draining' /\ Stopping'
    <3>1. /\ (Has({"wait"})' <=> Has({"wait"})) /\ (Has({"pop"})' <=> Has({"pop"}))
          /\ Has({"drain"})' <=> Has({"drain"})
      BY <2>6
    <3>. QED  BY <2>1, <2>4, <2>15, <3>1 DEF Inv, Draining, Drained, Active, Stopping
  <2>. QED  BY <2>4, <2>8, <2>9, <2>10, <2>11, <2>12, <2>13, <2>14, <2>16, <2>17, <2>18 DEF Inv
<1>. QED  BY <1>1, <1>2, <1>3

LEMMA ClockSteps ==
    ASSUME Inv, Waits \/ Refreshes
    PROVE  Inv'
<1>1. /\ todo # <<>> /\ todo' = Tail(todo) /\ todo[1].do \in {"wait", "refresh"} /\ 1 \in Plan
      /\ N = todo[1].n /\ todo[1].n \in Nat
      /\ known' = known \/ known' = Refreshed
      /\ UNCHANGED <<current, sent, counter, pool, ops, pending, priority, state, stop, runner,
                     late, asleep>>
  BY Heads DEF Inv, Waits, Refreshes, KnownAfterWait
<1>2. MovesUp /\ Learns /\ known' <= counter
  BY <1>1, Moved, Learned DEF Inv
<1>3. Clock'
  BY <1>1, <1>2 DEF Inv, Clock, Learns
<1>4. /\ Slots' /\ Queue' /\ Threads' /\ Listed' /\ RunnerHas' /\ Held'
  BY <1>1, <1>2, Kept DEF Inv
<1>5. /\ Ordered' /\ Phased' /\ Timed' /\ Recorded' /\ OwnerHas' /\ Following' /\ Stopping'
      /\ todo[1].do # "wait" => Draining'
  BY <1>1, <1>2, Dropped DEF Inv
<1>6. ASSUME todo[1].do = "wait" /\ state # "Open"
      PROVE  Draining'
  <2>1. known' >= todo[1].n
    <3>1. At("wait")
      BY <1>1, <1>6, Heads DEF Inv
    <3>2. ~ At("refresh")
      BY <3>1 DEF At
    <3>3. Waited(todo[1].n) /\ known' = KnownAfterWait(todo[1].n)
      BY <1>1, <3>2 DEF Waits, Refreshes
    <3>. QED  BY <1>1, <3>3 DEF Inv, Clock, Waited, KnownAfterWait, Refreshed
  <2>2. \A i \in Ids : ops[i].state = "queued" => ops[i].tick <= known'
    <3>1. \A i \in Ids : ops[i].state = "queued" => ops[i].tick <= todo[1].n
      BY <1>1, <1>6 DEF Inv, Draining
    <3>2. \A i \in Ids : ops[i].tick \in Nat
      BY DEF Inv, Queue
    <3>. QED  BY <1>1, <1>2, <2>1, <3>1, <3>2 DEF Learns
  <2>3. \A k \in Plan' : todo'[k].do # "wait"
    <3>1. \A k \in Plan : k = 1 \/ todo[k].do # "wait"
      BY <1>1, <1>6, Later DEF Inv
    <3>. QED  BY <1>2, <3>1 DEF MovesUp
  <2>4. (Has({"pop"}) => Has({"pop"})') /\ (Has({"drain"}) => Has({"drain"})')
    BY <1>2, <1>6, Dropped DEF Inv
  <2>5. Drained' <=> Drained
    BY <1>1 DEF Drained, Active
  <2>6. /\ ~ Has({"pop"}) => pending = <<>>
        /\ ~ Has({"drain"}) => Drained
    BY <1>6 DEF Inv, Draining
  <2>7. /\ ~ Has({"pop"})' => pending' = <<>>
        /\ ~ Has({"drain"})' => Drained'
    BY <1>1, <2>4, <2>5, <2>6
  <2>8. \A i \in Ids : ops'[i].state = "queued" => ops'[i].tick <= known'
    BY <1>1, <2>2
  <2>. QED  BY <2>3, <2>7, <2>8 DEF Draining
<1>7. Draining'
  <2>1. CASE state = "Open"
    BY <1>1, <2>1 DEF Draining
  <2>2. CASE todo[1].do # "wait"
    BY <1>5, <2>2
  <2>. QED  BY <1>6, <2>1, <2>2
<1>. QED  BY <1>3, <1>4, <1>5, <1>7 DEF Inv

--------------------------------------------------------------------------------
(* The steps of the owner: operations, and the end                         *)

\* When the operations of a tick are settled, none with priority is left of it.
LEMMA NoneLeftBefore ==
    ASSUME Inv, NEW tick \in Nat, Settled(tick)
    PROVE  NoneBefore(tick)
<1>1. ASSUME NEW j, Is(j, "priority", {"queued", "taken", "running"})
      PROVE  ops[j].tick > tick
  <2>1. j \in Ids /\ ops[j].tick \in Nat /\ MaxOps \in Nat
    BY <1>1 DEF Is, Inv, Queue
  <2>2. CASE ops[j].state = "queued"
    <3>1. PICK k \in 1 .. Len(priority) : priority[k] = j
      BY <1>1, <2>2 DEF Inv, Listed, Is
    <3>2. /\ priority \in Seq(Ids) /\ priority # <<>> /\ Len(priority) \in Nat
          /\ Head(priority) = priority[1]
      <4>1. priority \in Seq(Ids) /\ Len(priority) \in Nat
        BY DEF Inv, Queue
      <4>2. priority # <<>>
        BY <3>1, <4>1
      <4>. QED  BY <4>1, <4>2, WithoutFirst
    <3>3. 1 \in 1 .. Len(priority) /\ (k = 1 \/ 1 < k)
      BY <3>1, <3>2
    <3>4. ops[priority[1]].tick <= ops[j].tick /\ ops[priority[1]].tick \in Nat
      <4>1. priority[1] \in Ids
        BY <3>3 DEF Inv, Listed, Is
      <4>2. ops[priority[1]].tick \in Nat
        BY <4>1 DEF Inv, Queue
      <4>3. CASE k = 1
        BY <2>1, <3>1, <4>3
      <4>4. CASE 1 < k
        <5>1. ops[priority[1]].tick <= ops[priority[k]].tick
          BY <3>1, <3>3, <4>4 DEF Inv, Listed
        <5>. QED  BY <3>1, <4>2, <5>1
      <4>. QED  BY <3>3, <4>2, <4>3, <4>4
    <3>5. ~ (ops[priority[1]].tick <= tick)
      BY <3>2 DEF Settled
    <3>. QED  BY <2>1, <3>4, <3>5
  <2>3. CASE ops[j].state \in {"taken", "running"}
    <3>1. runner.op = j
      BY <1>1, <2>3 DEF Inv, RunnerHas, Is
    <3>2. Active
      BY <2>1, <3>1 DEF Active, Ids
    <3>3. ~ (ops[j].tick <= tick)
      BY <3>1, <3>2 DEF Settled
    <3>. QED  BY <2>1, <3>3
  <2>. QED  BY <1>1, <2>2, <2>3 DEF Is
<1>. QED  BY <1>1 DEF NoneBefore

LEMMA PopsSteps ==
    ASSUME Inv, PopsOne
    PROVE  Inv'
<1>1. /\ todo # <<>> /\ todo[1].do = "pop" /\ 1 \in Plan /\ Learns
      /\ UNCHANGED <<current, known, sent, counter, pool, priority, state, stop, runner, late, asleep>>
  BY Heads, Learned DEF Inv, PopsOne
<1>2. /\ Clock' /\ Slots' /\ Threads'
  BY <1>1, Kept DEF Inv
<1>3. ~ Has({"wait"})
  BY <1>1, Later DEF Inv, Has
<1>4. CASE ~ (pending # <<>> /\ known >= ops[Head(pending)].tick)
  <2>1. todo' = Tail(todo) /\ UNCHANGED <<ops, pending>>
    BY <1>4 DEF PopsOne
  <2>2. MovesUp
    BY <1>1, <2>1, Moved DEF Inv
  <2>3. /\ Queue' /\ Listed' /\ RunnerHas' /\ Held'
    BY <1>1, <2>1, Kept DEF Inv
  <2>4. /\ Ordered' /\ Phased' /\ Timed' /\ Recorded' /\ OwnerHas' /\ Following' /\ Stopping'
        /\ Has({"wait"})' => Has({"wait"})
        /\ Has({"drain"}) => Has({"drain"})'
    BY <1>1, <2>1, <2>2, Dropped DEF Inv
  <2>5. Draining'
    <3>1. state # "Open" => pending = <<>>
      <4>1. SUFFICES ASSUME state # "Open", pending # <<>>
                     PROVE  FALSE
        OBVIOUS
      <4>2. Head(pending) = pending[1] /\ 1 \in 1 .. Len(pending)
        BY <4>1, WithoutFirst DEF Inv, Queue
      <4>3. Head(pending) \in Ids /\ ops[Head(pending)].state = "queued"
        BY <4>2 DEF Inv, Listed, Is
      <4>4. ops[Head(pending)].tick <= known
        BY <1>3, <4>1, <4>3 DEF Inv, Draining
      <4>. QED  BY <1>4, <4>1, <4>3, <4>4 DEF Inv, Clock, Queue
    <3>2. Drained' <=> Drained
      BY <1>1 DEF Drained, Active
    <3>3. \A k \in Plan' : todo'[k].do # "wait"
      BY <1>3, <2>4 DEF Has
    <3>. QED  BY <1>1, <1>3, <2>1, <2>4, <3>1, <3>2, <3>3 DEF Inv, Draining
  <2>. QED  BY <1>2, <2>3, <2>4, <2>5 DEF Inv
<1>5. CASE pending # <<>> /\ known >= ops[Head(pending)].tick
  <2> DEFINE i == Head(pending)
             e == Do("settle", ops[i].tick)
             f == Do("start", i)
  <2>1. /\ todo' = <<e, f>> \o todo /\ ops' = [ops EXCEPT ![i].state = "taken"]
        /\ pending' = Tail(pending)
    BY <1>5 DEF PopsOne
  <2>2. /\ i = pending[1] /\ Len(pending) \in Nat \ {0} /\ pending' \in Seq(Ids)
        /\ Len(pending') = Len(pending) - 1
        /\ \A k \in 1 .. Len(pending) - 1 : pending'[k] = pending[k + 1]
    BY <1>5, <2>1, WithoutFirst DEF Inv, Queue
  <2>3. /\ i \in Ids /\ ops[i].kind = "normal" /\ ops[i].state = "queued" /\ MaxOps \in Nat
        /\ i \in Nat /\ ops[i].tick \in Nat /\ ops[i].tick <= known
    <3>1. 1 \in 1 .. Len(pending)
      BY <2>2
    <3>2. i \in Ids /\ ops[i].kind = "normal" /\ ops[i].state = "queued"
      BY <2>2, <3>1 DEF Inv, Listed, Is
    <3>3. MaxOps \in Nat /\ ops[i].tick \in Nat /\ known \in Nat
      BY <3>2 DEF Inv, Queue, Clock
    <3>. QED  BY <1>5, <3>2, <3>3 DEF Ids
  <2>4. /\ e \in [do : Steps, n : Nat] /\ e.do = "settle" /\ e.n = ops[i].tick
        /\ f \in [do : Steps, n : Nat] /\ f.do = "start" /\ f.n = i
    BY <2>3 DEF Do, Steps
  <2> HIDE DEF i, e, f
  <2>5. /\ Ordered' /\ 1 \in Plan' /\ 2 \in Plan' /\ todo'[1] = e /\ todo'[2] = f
        /\ \A k \in Plan' : k = 1 \/ k = 2 \/ (k - 2 \in Plan /\ todo'[k] = todo[k - 2])
        /\ \A k \in Plan : k + 2 \in Plan' /\ todo'[k + 2] = todo[k]
        /\ \A k \in Plan : todo[k].do \notin {"start", "run", "wait", "retry", "settle"}
    BY <1>1, <2>1, <2>4, Pushed DEF Inv
  <2>6. /\ ops' \in [Ids -> [kind : Kinds, tick : 0 .. current', state : OpState]]
        /\ ops'[i].state = "taken"
        /\ \A j \in Ids : ops'[j].kind = ops[j].kind /\ ops'[j].tick = ops[j].tick
        /\ \A j \in Ids : j # i => ops'[j] = ops[j]
    BY <1>1, <2>1, <2>3, Changed DEF Inv, OpState
  <2>7. /\ \A steps : "settle" \notin steps /\ "start" \notin steps => (Has(steps)' => Has(steps))
        /\ \A steps : Has(steps) => Has(steps)'
    <3>1. \A k \in Plan' : k = 1 \/ k = 2 \/ \E l \in Plan : todo'[k] = todo[l]
      BY <2>5
    <3>2. \A k \in Plan : \E l \in Plan' : todo'[l] = todo[k]
      BY <2>5
    <3>3. \A k \in Plan' : \/ todo'[k].do = "settle" \/ todo'[k].do = "start"
                            \/ \E l \in Plan : todo'[k] = todo[l]
      BY <2>4, <2>5, <3>1
    <3>4. ASSUME NEW steps, "settle" \notin steps, "start" \notin steps, Has(steps)'
          PROVE  Has(steps)
      <4>1. PICK k \in Plan' : todo'[k].do \in steps
        BY <3>4 DEF Has
      <4>. QED  BY <3>3, <3>4, <4>1 DEF Has
    <3>5. ASSUME NEW steps, Has(steps)
          PROVE  Has(steps)'
      BY <3>2, <3>5 DEF Has
    <3>. QED  BY <3>4, <3>5
  <2>8. Queue'
    BY <1>1, <2>2, <2>6 DEF Inv, Queue
  <2>9. Phased'
    <3>1. state # "Closed"
      <4>1. Has({"pop"})
        BY <1>1 DEF Has
      <4>. QED  BY <4>1 DEF Inv, Phased, Has, Steps
    <3>2. /\ Has({"stop", "notify all", "join", "close"})' => Has({"stop", "notify all", "join", "close"})
          /\ Has({"submit", "retry"})' => Has({"submit", "retry"})
          /\ Has({"begin"}) => Has({"begin"})'
          /\ Has({"close"}) => Has({"close"})'
      BY <2>7
    <3>. QED  BY <1>1, <3>1, <3>2 DEF Inv, Phased
  <2>10. Timed'
    <3>1. \A k \in Plan' : todo'[k].do # "retry"
      BY <2>4, <2>5
    <3>2. ~ Has({"retry"})' /\ ~ Has({"retry"})
      BY <2>5, <3>1 DEF Has
    <3>. QED  BY <1>1, <3>1, <3>2 DEF Inv, Timed
  <2>11. Recorded'
    <3>1. /\ Has({"submit", "retry"})' => Has({"submit", "retry"})
          /\ Has({"begin"}) => Has({"begin"})'
      BY <2>7
    <3>. QED  BY <1>1, <3>1 DEF Inv, Recorded
  <2>12. Listed'
    <3>1. \A k \in 1 .. Len(pending') : k + 1 \in 1 .. Len(pending) /\ k + 1 # 1
              /\ pending'[k] = pending[k + 1]
      BY <2>2
    <3>2. ASSUME NEW k \in 1 .. Len(pending')
          PROVE  /\ pending'[k] \in Ids /\ pending'[k] # i
                 /\ ops[pending'[k]].kind = "normal" /\ ops[pending'[k]].state = "queued"
      <4>1. k + 1 \in 1 .. Len(pending) /\ 1 \in 1 .. Len(pending) /\ k + 1 # 1
        BY <2>2, <3>1
      <4>. QED  BY <2>2, <3>1, <4>1 DEF Inv, Listed, Is
    <3>3. ASSUME NEW k \in 1 .. Len(pending'), NEW l \in 1 .. Len(pending'), k # l
          PROVE  pending'[k] # pending'[l]
      <4>1. k + 1 \in 1 .. Len(pending) /\ l + 1 \in 1 .. Len(pending) /\ k + 1 # l + 1
        BY <2>2, <3>1, <3>3
      <4>. QED  BY <3>1, <4>1 DEF Inv, Listed
    <3>4. ASSUME NEW j \in Ids, ops'[j].kind = "normal", ops'[j].state = "queued"
          PROVE  \E k \in 1 .. Len(pending') : pending'[k] = j
      <4>1. j # i /\ ops'[j] = ops[j]
        BY <2>6, <3>4
      <4>2. PICK k \in 1 .. Len(pending) : pending[k] = j
        BY <3>4, <4>1 DEF Inv, Listed, Is
      <4>3. k # 1
        BY <2>2, <4>1, <4>2
      <4>4. k - 1 \in 1 .. Len(pending') /\ k - 1 \in 1 .. Len(pending) - 1 /\ (k - 1) + 1 = k
        BY <2>2, <4>3
      <4>. QED  BY <2>2, <4>2, <4>4
    <3>5. \A k \in 1 .. Len(priority) : priority[k] \in Ids \ {i} /\ ops'[priority[k]] = ops[priority[k]]
      BY <2>3, <2>6 DEF Inv, Listed, Is
    <3>6. \A j \in Ids : ops'[j].kind = "priority" => ops'[j] = ops[j]
      BY <2>3, <2>6
    <3>7. \A j \in Ids : ops'[j].kind = "none" => ops'[j].state = "unused"
      BY <2>3, <2>6 DEF Inv, Listed
    <3>8. \A k \in 1 .. Len(pending') :
              /\ pending'[k] \in Ids /\ ops'[pending'[k]].kind = "normal"
              /\ ops'[pending'[k]].state = "queued"
      BY <2>6, <3>2
    <3>9. /\ \A k \in 1 .. Len(priority) :
                 /\ priority[k] \in Ids /\ ops'[priority[k]].kind = "priority"
                 /\ ops'[priority[k]].state = "queued"
          /\ \A k, l \in 1 .. Len(priority) : k < l =>
                 priority[k] # priority[l] /\ ops'[priority[k]].tick <= ops'[priority[l]].tick
          /\ \A j \in Ids : Is(j, "priority", {"queued"})' =>
                 \E k \in 1 .. Len(priority) : priority[k] = j
      BY <3>5, <3>6 DEF Inv, Listed, Is
    <3>. QED  BY <1>1, <3>3, <3>4, <3>7, <3>8, <3>9 DEF Listed, Is
  <2>13. RunnerHas'
    <3>1. runner.op # i \/ runner.at \notin {"waits", "runs", "clears"}
      BY <2>3 DEF Inv, RunnerHas, Is
    <3>2. \A j : Is(j, "priority", {"taken", "running"})' => Is(j, "priority", {"taken", "running"})
      BY <2>3, <2>6 DEF Is
    <3>. QED  BY <1>1, <2>6, <3>1, <3>2 DEF Inv, RunnerHas, Active, Is
  <2>14. OwnerHas'
    <3>1. \A j \in Ids : ~ Is(j, "normal", {"taken", "running"})
      BY <2>5 DEF Inv, OwnerHas
    <3>2. \A j \in Ids : Is(j, "normal", {"taken", "running"})' => j = i
      BY <2>6, <3>1 DEF Is
    <3>3. \A k \in Plan' : k = 2 \/ todo'[k].do \notin {"start", "run"}
      BY <2>4, <2>5
    <3>4. ops'[i].kind = "normal" /\ ops'[i].tick <= known
      BY <2>3, <2>6
    <3>. QED  BY <1>1, <2>3, <2>4, <2>5, <2>6, <3>2, <3>3, <3>4 DEF OwnerHas, Is
  <2>15. Following'
    <3>1. \A k \in Plan' : k = 2 \/ todo'[k].do \notin {"start", "run"}
      BY <2>4, <2>5
    <3>2. ops'[todo'[2].n].tick = todo'[1].n
      BY <2>3, <2>4, <2>5, <2>6
    <3>. QED  BY <3>1, <3>2 DEF Following
  <2>16. Held'
    <3>1. \A t \in Latecomers : late[t] > 0 => late[t] \in Ids
      BY <2>3 DEF Inv, Threads, Ids, Nobody
    <3>2. \A t \in Latecomers : late[t] > 0 => late[t] # i /\ ops'[late[t]] = ops[late[t]]
      BY <2>3, <2>6, <3>1 DEF Inv, Held
    <3>. QED  BY <1>1, <3>2 DEF Inv, Held
  <2>17. Draining' /\ Stopping'
    <3>1. /\ Has({"pop"}) /\ Has({"pop"})' /\ (Has({"drain"}) <=> Has({"drain"})')
          /\ ~ Has({"wait"})'
      <4>1. Has({"pop"})
        BY <1>1 DEF Has
      <4>. QED  BY <1>3, <2>7, <4>1
    <3>2. \A k \in Plan' : todo'[k].do # "wait"
      BY <3>1 DEF Has
    <3>3. Drained' <=> Drained
      BY <1>1 DEF Drained, Active
    <3>4. \A j \in Ids : ops'[j].state = "queued" => ops'[j] = ops[j]
      BY <2>6
    <3>5. Draining'
      BY <1>1, <1>3, <3>1, <3>2, <3>3, <3>4 DEF Inv, Draining
    <3>6. Stopping'
      BY <1>1, <3>1 DEF Inv, Stopping
    <3>. QED  BY <3>5, <3>6
  <2>. QED  BY <1>2, <2>5, <2>8, <2>9, <2>10, <2>11, <2>12, <2>13, <2>14, <2>15, <2>16, <2>17
            DEF Inv
<1>. QED  BY <1>4, <1>5

\* The owner waits for the operations with priority: for those of the tick of what it is
\* about to run, or, in Shutdown, for all.
LEMMA SettlesSteps ==
    ASSUME Inv, Settles
    PROVE  Inv'
<1>1. /\ todo # <<>> /\ todo[1].do \in {"settle", "drain"} /\ 1 \in Plan /\ Learns
      /\ N = todo[1].n /\ todo[1].n \in Nat
      /\ UNCHANGED <<current, known, sent, counter, pool, ops, pending, priority, state, stop,
                     runner, late>>
  BY Heads, Learned DEF Inv, Settles
<1>2. /\ Clock' /\ Slots' /\ Queue' /\ Listed' /\ RunnerHas' /\ Held'
  BY <1>1, Kept DEF Inv
<1>3. Threads'
  <2>1. asleep' \subseteq Others \cup {"owner", "runner"}
    BY DEF Settles, Inv, Threads
  <2>. QED  BY <1>1, <2>1 DEF Inv, Threads
<1>4. CASE ~ ((At("settle") /\ Settled(N)) \/ (At("drain") /\ Drained))
  <2>1. UNCHANGED todo
    BY <1>4 DEF Settles
  <2>. QED  BY <1>1, <1>2, <1>3, <2>1, Kept DEF Inv
<1>5. CASE (At("settle") /\ Settled(N)) \/ (At("drain") /\ Drained)
  <2>1. todo' = Tail(todo)
    BY <1>5 DEF Settles
  <2>2. MovesUp
    BY <1>1, <2>1, Moved DEF Inv
  <2>3. /\ Ordered' /\ Phased' /\ Timed' /\ Recorded' /\ OwnerHas' /\ Stopping'
        /\ todo[1].do # "settle" => Following'
        /\ todo[1].do # "drain" => Draining'
        /\ \A steps : Has(steps) => Has(steps)' \/ todo[1].do \in steps
        /\ \A steps : Has(steps)' => Has(steps)
    BY <1>1, <2>2, Dropped DEF Inv
  <2>4. ASSUME todo[1].do = "settle"
        PROVE  Following'
    <3>1. Settled(todo[1].n)
      BY <1>1, <1>5, <2>4 DEF At
    <3>2. NoneBefore(todo[1].n)
      BY <1>1, <3>1, NoneLeftBefore
    <3>4. ASSUME NEW k \in Plan', todo'[k].do \in {"start", "run"}
          PROVE  k = 1 /\ ops[todo'[k].n].tick = todo[1].n
      <4>1. k + 1 \in Plan /\ todo'[k] = todo[k + 1] /\ k \in Nat /\ k >= 1
        BY <2>2 DEF MovesUp, Plan
      <4>2. k + 1 # 1
        BY <4>1
      <4>3. todo[k + 1].do = "start" /\ k + 1 = 2
        BY <2>4, <3>4, <4>1, <4>2 DEF Inv, Ordered
      <4>4. todo[2].do = "start" /\ 2 \in Plan
        BY <4>1, <4>3
      <4>5. ops[todo[2].n].tick = todo[1].n
        BY <4>4 DEF Inv, Following
      <4>. QED  BY <4>1, <4>3, <4>5
    <3>5. \A k \in Plan' : todo'[k].do \in {"start", "run"} => NoneBefore(ops[todo'[k].n].tick)
      BY <3>2, <3>4
    <3>6. \A tick : NoneBefore(tick) =>
              \A j \in Ids : Is(j, "priority", {"queued", "taken", "running"})' => ops'[j].tick > tick
      BY <1>1 DEF NoneBefore, Is
    <3>7. \A k \in Plan' : k # 2 \/ todo'[k].do # "start"
      BY <3>4
    <3>. QED  BY <1>1, <3>5, <3>6, <3>7 DEF Following, NoneBefore
  <2>5. ASSUME todo[1].do = "drain", state # "Open"
        PROVE  Draining'
    <3>1. Drained /\ Drained'
      BY <1>1, <1>5, <2>5 DEF At, Drained, Active
    <3>2. /\ Has({"wait"})' => Has({"wait"})
          /\ Has({"wait"}) => Has({"wait"})'
          /\ Has({"pop"}) => Has({"pop"})'
      BY <2>3, <2>5
    <3>3. \A k \in Plan' : k + 1 \in Plan /\ todo'[k] = todo[k + 1]
      BY <2>2 DEF MovesUp
    <3>. QED  BY <1>1, <2>5, <3>1, <3>2, <3>3 DEF Inv, Draining
  <2>6. state = "Open" => Draining'
    BY <1>1 DEF Draining
  <2>. QED  BY <1>1, <1>2, <1>3, <2>3, <2>4, <2>5, <2>6 DEF Inv
<1>. QED  BY <1>4, <1>5

\* What starting and ending an operation of the owner changes.
LEMMA OwnWorks ==
    ASSUME Inv, todo # <<>>, todo[1].do \in {"start", "run"}, NEW i, i = todo[1].n,
           NEW s \in {"running", "done"}, ops' = [ops EXCEPT ![i].state = s],
           UNCHANGED <<current, known, sent, counter, pool, pending, priority, state, stop, runner,
                       late, asleep>>
    PROVE  /\ i \in Ids /\ ops[i].kind = "normal" /\ ops[i].state \in {"taken", "running"}
           /\ ops[i].tick <= known
           /\ ops' \in [Ids -> [kind : Kinds, tick : 0 .. current', state : OpState]]
           /\ ops'[i].state = s
           /\ \A j \in Ids : ops'[j].kind = ops[j].kind /\ ops'[j].tick = ops[j].tick
           /\ \A j \in Ids : j # i => ops'[j] = ops[j]
           /\ \A j \in Ids \ {i} : ~ Is(j, "normal", {"taken", "running"})
           /\ \A j : Is(j, "priority", {"queued", "taken", "running"})'
                        <=> Is(j, "priority", {"queued", "taken", "running"})
           /\ Clock' /\ Slots' /\ Queue' /\ Threads' /\ Listed' /\ RunnerHas' /\ Held'
<1>1. /\ 1 \in Plan /\ Learns /\ MaxOps \in Nat
  BY Heads, Learned DEF Inv, Queue
<1>2. /\ i \in Ids /\ ops[i].kind = "normal" /\ ops[i].state \in {"taken", "running"}
      /\ ops[i].tick <= known
  BY <1>1 DEF Inv, OwnerHas, Is
<1>3. /\ ops' \in [Ids -> [kind : Kinds, tick : 0 .. current', state : OpState]]
      /\ ops'[i].state = s
      /\ \A j \in Ids : ops'[j].kind = ops[j].kind /\ ops'[j].tick = ops[j].tick
      /\ \A j \in Ids : j # i => ops'[j] = ops[j]
  BY <1>2, Changed DEF Inv, OpState
<1>4. \A k \in Plan : todo[k].do \in {"start", "run"} => k = 1
  BY <1>1, Later DEF Inv
<1>5. \A j \in Ids \ {i} : ~ Is(j, "normal", {"taken", "running"})
  BY <1>4 DEF Inv, OwnerHas
<1>6. \A j : Is(j, "priority", {"queued", "taken", "running"})'
                <=> Is(j, "priority", {"queued", "taken", "running"})
  BY <1>2, <1>3 DEF Is
<1>7. Clock' /\ Slots' /\ Threads'
  BY <1>1, Kept DEF Inv
<1>8. Queue'
  BY <1>3 DEF Inv, Queue
<1>9. Listed'
  <2>1. \A j : (Is(j, "normal", {"queued"})' <=> Is(j, "normal", {"queued"}))
            /\ (Is(j, "priority", {"queued"})' <=> Is(j, "priority", {"queued"}))
    BY <1>2, <1>3 DEF Is
  <2>2. \A k \in 1 .. Len(priority) : priority[k] \in Ids
    BY DEF Inv, Listed, Is
  <2>3. \A j \in Ids : ops'[j].kind = "none" => ops'[j].state = "unused"
    BY <1>2, <1>3 DEF Inv, Listed
  <2>4. \A k, l \in 1 .. Len(priority) :
            k < l => priority[k] # priority[l] /\ ops'[priority[k]].tick <= ops'[priority[l]].tick
    BY <1>3, <2>2 DEF Inv, Listed
  <2>. QED  BY <2>1, <2>3, <2>4 DEF Inv, Listed
<1>10. RunnerHas'
  <2>1. runner.op # i \/ runner.at \notin {"waits", "runs", "clears"}
    BY <1>2 DEF Inv, RunnerHas, Is
  <2>2. \A j : Is(j, "priority", {"taken", "running"})' => Is(j, "priority", {"taken", "running"})
    BY <1>2, <1>3 DEF Is
  <2>. QED  BY <1>3, <2>1, <2>2 DEF Inv, RunnerHas, Active, Is
<1>11. Held'
  <2>1. \A t \in Latecomers : late[t] > 0 => late[t] \in Ids
    BY <1>1 DEF Inv, Threads, Ids, Nobody
  <2>2. \A t \in Latecomers : late[t] > 0 => late[t] # i /\ ops'[late[t]] = ops[late[t]]
    BY <1>2, <1>3, <2>1 DEF Inv, Held
  <2>. QED  BY <2>2 DEF Inv, Held
<1>. QED  BY <1>2, <1>3, <1>5, <1>6, <1>7, <1>8, <1>9, <1>10, <1>11

LEMMA StartsSteps ==
    ASSUME Inv, Starts
    PROVE  Inv'
<1> DEFINE i == todo[1].n
           e == Do("run", i)
<1>1. /\ todo # <<>> /\ todo[1].do = "start" /\ 1 \in Plan /\ Learns
      /\ todo' = <<e>> \o Tail(todo) /\ ops' = [ops EXCEPT ![i].state = "running"]
      /\ UNCHANGED <<current, known, sent, counter, pool, pending, priority, state, stop, runner,
                     late, asleep>>
  BY Heads, Learned DEF Inv, Starts
<1>2. /\ e \in [do : Steps, n : Nat] /\ e.do = "run" /\ e.n = i
  BY <1>1, Heads DEF Inv, Do, Steps
<1> HIDE DEF e
<1>3. /\ i \in Ids /\ ops[i].kind = "normal" /\ ops[i].state \in {"taken", "running"}
      /\ ops[i].tick <= known
      /\ ops'[i].state = "running"
      /\ \A j \in Ids : ops'[j].kind = ops[j].kind /\ ops'[j].tick = ops[j].tick
      /\ \A j \in Ids : j # i => ops'[j] = ops[j]
      /\ \A j \in Ids \ {i} : ~ Is(j, "normal", {"taken", "running"})
      /\ \A j : Is(j, "priority", {"queued", "taken", "running"})'
                   <=> Is(j, "priority", {"queued", "taken", "running"})
      /\ Clock' /\ Slots' /\ Queue' /\ Threads' /\ Listed' /\ RunnerHas' /\ Held'
  BY <1>1, OwnWorks
<1>4. /\ Ordered' /\ Plan' = Plan /\ todo'[1] = e
      /\ \A k \in Plan : k # 1 => todo'[k] = todo[k]
  BY <1>1, <1>2, Replaced DEF Inv
<1>5. ASSUME NEW steps, "start" \notin steps, "run" \notin steps
      PROVE  Has(steps)' <=> Has(steps)
  BY <1>1, <1>2, <1>4, <1>5 DEF Has
<1>6. Phased'
  <2>1. state # "Closed"
    <3>1. Has({"start"})
      BY <1>1 DEF Has
    <3>. QED  BY <3>1 DEF Inv, Phased, Has, Steps
  <2>2. /\ Has({"stop", "notify all", "join", "close"})' <=> Has({"stop", "notify all", "join", "close"})
        /\ (Has({"submit", "retry"})' <=> Has({"submit", "retry"}))
        /\ (Has({"begin"})' <=> Has({"begin"})) /\ (Has({"close"})' <=> Has({"close"}))
    BY <1>5
  <2>. QED  BY <1>1, <2>1, <2>2 DEF Inv, Phased
<1>7. Timed'
  <2>1. \A k \in Plan' : todo'[k].do = "retry" => k \in Plan /\ todo'[k] = todo[k]
    BY <1>2, <1>4
  <2>2. Has({"retry"})' <=> Has({"retry"})
    BY <1>5
  <2>. QED  BY <1>1, <2>1, <2>2 DEF Inv, Timed
<1>8. Recorded'
  <2>1. (Has({"submit", "retry"})' <=> Has({"submit", "retry"})) /\ (Has({"begin"})' <=> Has({"begin"}))
    BY <1>5
  <2>. QED  BY <1>1, <2>1 DEF Inv, Recorded
<1>9. \A k \in Plan' : todo'[k].do \in {"start", "run"} => k = 1
  <2>1. \A k \in Plan : todo[k].do \in {"start", "run"} => k = 1
    BY <1>1, Later DEF Inv
  <2>. QED  BY <1>4, <2>1
<1>10. OwnerHas'
  <2>1. \A j \in Ids : Is(j, "normal", {"taken", "running"})' => j = i
    BY <1>3 DEF Is
  <2>2. 1 \in Plan' /\ todo'[1].do = "run" /\ todo'[1].n = i
    BY <1>1, <1>2, <1>4
  <2>3. ops'[i].kind = "normal" /\ ops'[i].tick <= known'
    BY <1>1, <1>3
  <2>. QED  BY <1>3, <1>9, <2>1, <2>2, <2>3 DEF OwnerHas, Is
<1>11. Following'
  <2>1. NoneBefore(ops[i].tick)
    BY <1>1 DEF Inv, Following
  <2>2. \A j \in Ids : Is(j, "priority", {"queued", "taken", "running"})' => ops'[j].tick > ops'[i].tick
    BY <1>3, <2>1 DEF NoneBefore
  <2>3. \A k \in Plan' : todo'[k].do \in {"start", "run"} => k = 1 /\ todo'[k].n = i
    BY <1>2, <1>4, <1>9
  <2>. QED  BY <2>2, <2>3 DEF Following, NoneBefore
<1>12. Draining' /\ Stopping'
  <2>1. /\ (Has({"wait"})' <=> Has({"wait"})) /\ (Has({"pop"})' <=> Has({"pop"}))
        /\ (Has({"drain"})' <=> Has({"drain"}))
    BY <1>5
  <2>2. \A k \in Plan' : todo'[k].do = "wait" => k \in Plan /\ todo'[k] = todo[k]
    BY <1>2, <1>4
  <2>3. \A j \in Ids : ops'[j].state = "queued" => ops'[j] = ops[j]
    BY <1>3
  <2>4. Drained' <=> Drained
    BY <1>1 DEF Drained, Active
  <2>5. Draining'
    BY <1>1, <2>1, <2>2, <2>3, <2>4 DEF Inv, Draining
  <2>6. Stopping'
    BY <1>1, <2>1 DEF Inv, Stopping
  <2>. QED  BY <2>5, <2>6
<1>. QED  BY <1>3, <1>4, <1>6, <1>7, <1>8, <1>10, <1>11, <1>12 DEF Inv

LEMMA RunsSteps ==
    ASSUME Inv, Runs
    PROVE  Inv'
<1> DEFINE i == todo[1].n
<1>1. /\ todo # <<>> /\ todo[1].do = "run" /\ 1 \in Plan /\ Learns
      /\ todo' = Tail(todo) /\ ops' = [ops EXCEPT ![i].state = "done"]
      /\ UNCHANGED <<current, known, sent, counter, pool, pending, priority, state, stop, runner,
                     late, asleep>>
  BY Heads, Learned DEF Inv, Runs
<1>2. MovesUp
  BY <1>1, Moved DEF Inv
<1>3. /\ i \in Ids /\ ops'[i].state = "done"
      /\ \A j \in Ids : j # i => ops'[j] = ops[j]
      /\ \A j \in Ids \ {i} : ~ Is(j, "normal", {"taken", "running"})
      /\ Clock' /\ Slots' /\ Queue' /\ Threads' /\ Listed' /\ RunnerHas' /\ Held'
  BY <1>1, OwnWorks
<1>4. /\ Ordered' /\ Phased' /\ Timed' /\ Recorded' /\ Stopping'
      /\ \A steps : Has(steps)' => Has(steps)
      /\ \A steps : Has(steps) => Has(steps)' \/ todo[1].do \in steps
  BY <1>1, <1>2, Dropped DEF Inv
<1>5. \A k \in Plan' : todo'[k].do \notin {"start", "run"}
  <2>1. \A k \in Plan : todo[k].do \in {"start", "run"} => k = 1
    BY <1>1, Later DEF Inv
  <2>. QED  BY <1>2, <2>1 DEF MovesUp
<1>6. OwnerHas' /\ Following'
  <2>1. \A j \in Ids : ~ Is(j, "normal", {"taken", "running"})'
    BY <1>3 DEF Is
  <2>2. OwnerHas'
    BY <1>5, <2>1 DEF OwnerHas
  <2>. QED  BY <1>5, <2>2 DEF Following
<1>7. Draining'
  <2>1. /\ (Has({"wait"})' <=> Has({"wait"})) /\ (Has({"pop"})' <=> Has({"pop"}))
        /\ (Has({"drain"})' <=> Has({"drain"}))
    BY <1>1, <1>4
  <2>2. \A k \in Plan' : k + 1 \in Plan /\ todo'[k] = todo[k + 1]
    BY <1>2 DEF MovesUp
  <2>3. \A j \in Ids : ops'[j].state = "queued" => ops'[j] = ops[j]
    BY <1>3
  <2>4. Drained' <=> Drained
    BY <1>1 DEF Drained, Active
  <2>. QED  BY <1>1, <2>1, <2>2, <2>3, <2>4 DEF Inv, Draining
<1>. QED  BY <1>3, <1>4, <1>6, <1>7 DEF Inv

\* The notifications, and the last steps of Shutdown.
LEMMA EndSteps ==
    ASSUME Inv, Notifies \/ RequestsStop \/ Joins \/ Closes
    PROVE  Inv'
<1>1. /\ todo # <<>> /\ todo' = Tail(todo) /\ 1 \in Plan /\ Learns
      /\ todo[1].do \in {"notify", "notify all", "stop", "join", "close"}
      /\ UNCHANGED <<current, known, sent, counter, pool, ops, pending, priority, runner, late>>
      /\ todo[1].do # "close" => UNCHANGED state
      /\ todo[1].do = "close" => state' = "Closed"
      /\ todo[1].do # "stop" => UNCHANGED stop
      /\ todo[1].do = "stop" => stop' = TRUE
  <2>1. \A what : At(what) <=> (todo # <<>> /\ todo[1].do = what)
    BY Heads DEF Inv
  <2>2. /\ todo # <<>> /\ todo' = Tail(todo)
        /\ UNCHANGED <<current, known, sent, counter, pool, ops, pending, priority, runner, late>>
    BY DEF Notifies, RequestsStop, Joins, Closes, At
  <2>3. 1 \in Plan /\ Learns
    BY <2>2, Heads, Learned DEF Inv
  <2>4. CASE Notifies
    BY <2>1, <2>2, <2>3, <2>4 DEF Notifies
  <2>5. CASE RequestsStop
    BY <2>1, <2>2, <2>3, <2>5 DEF RequestsStop
  <2>6. CASE Joins
    BY <2>1, <2>2, <2>3, <2>6 DEF Joins
  <2>7. CASE Closes
    BY <2>1, <2>2, <2>3, <2>7 DEF Closes
  <2>. QED  BY <2>4, <2>5, <2>6, <2>7
<1>2. MovesUp
  BY <1>1, Moved DEF Inv
<1>3. /\ Clock' /\ Slots' /\ Queue' /\ Listed' /\ RunnerHas' /\ Held'
  BY <1>1, Kept DEF Inv
<1>4. /\ Ordered' /\ Timed' /\ OwnerHas' /\ Following'
      /\ todo[1].do # "close" => Phased' /\ Recorded' /\ Draining'
      /\ todo[1].do \notin {"stop", "close"} => Stopping'
      /\ \A steps : Has(steps)' => Has(steps)
      /\ \A steps : Has(steps) => Has(steps)' \/ todo[1].do \in steps
  BY <1>1, <1>2, Dropped DEF Inv
<1>5. Threads'
  <2>1. asleep' \subseteq Others \cup {"owner", "runner"}
    BY DEF Notifies, NotifyOne, NotifyAll, RequestsStop, Joins, Closes, Inv, Threads
  <2>. QED  BY <1>1, <2>1 DEF Inv, Threads
<1>6. todo[1].do \in {"stop", "close"} => state # "Open"
  <2>1. todo[1].do \in {"stop", "close"} => Has({"stop", "notify all", "join", "close"})
    BY <1>1 DEF Has
  <2>. QED  BY <2>1 DEF Inv, Phased
<1>7. CASE todo[1].do \notin {"stop", "close"}
  BY <1>3, <1>4, <1>5, <1>7 DEF Inv
<1>8. CASE todo[1].do = "stop"
  <2>1. ~ Has({"drain"})
    BY <1>1, <1>8, Later DEF Inv, Has
  <2>2. Stopping'
    BY <1>1, <1>4, <1>6, <1>8, <2>1 DEF Stopping
  <2>. QED  BY <1>3, <1>4, <1>5, <1>8, <2>2 DEF Inv
<1>9. CASE todo[1].do = "close"
  <2>1. \A k \in Plan : k = 1 \/ todo[k].do = "notify all"
    BY <1>1, <1>9, Later DEF Inv
  <2>2. \A k \in Plan' : todo'[k].do = "notify all"
    <3>1. \A k \in Plan' : k + 1 \in Plan /\ k + 1 # 1 /\ todo'[k] = todo[k + 1]
      BY <1>2 DEF MovesUp
    <3>. QED  BY <2>1, <3>1
  <2>3. \A steps : "notify all" \notin steps => ~ Has(steps)'
    BY <2>2 DEF Has
  <2>4. Phased' /\ Recorded'
    <3>1. ~ Has({"submit", "retry"})' /\ ~ Has(Steps \ {"notify all"})'
      BY <2>3
    <3>. QED  BY <1>1, <1>9, <3>1 DEF Inv, Phased, Recorded
  <2>5. ~ Has({"wait"}) /\ ~ Has({"pop"}) /\ ~ Has({"drain"})
    BY <1>9, <2>1 DEF Has
  <2>6. Draining'
    <3>1. /\ \A j \in Ids : ops[j].state = "queued" => ops[j].tick <= known
          /\ pending = <<>> /\ Drained
      BY <1>6, <1>9, <2>5 DEF Inv, Draining
    <3>2. Drained'
      BY <1>1, <3>1 DEF Drained, Active
    <3>3. \A k \in Plan' : todo'[k].do # "wait"
      BY <2>2
    <3>. QED  BY <1>1, <3>1, <3>2, <3>3 DEF Draining
  <2>7. Stopping'
    BY <1>1, <1>9, <2>3 DEF Stopping
  <2>. QED  BY <1>3, <1>4, <1>5, <2>4, <2>6, <2>7 DEF Inv
<1>. QED  BY <1>7, <1>8, <1>9

--------------------------------------------------------------------------------
(* The invariant, and what follows from it                                 *)

LEMMA InitInv ==
    Init => Inv
<1> SUFFICES ASSUME Init
             PROVE  Inv
  OBVIOUS
<1>1. /\ current = 1 /\ known = 0 /\ sent = 0 /\ counter = 0
      /\ pool = [ticks |-> <<>>, hint |-> 1, command |-> 0, used |-> <<>>]
      /\ ops = [i \in Ids |-> NoOp] /\ pending = <<>> /\ priority = <<>>
      /\ state = "Open" /\ stop = FALSE /\ runner = [at |-> "loop", op |-> 0]
      /\ todo = <<Do("begin", 0)>> /\ late = [t \in Latecomers |-> Nobody] /\ asleep = {}
      /\ GrowStep \in Nat \ {0} /\ MaxTick \in Nat /\ MaxOps \in Nat
  BY CommandSchedulerAssumption DEF Init
<1>2. Do("begin", 0) \in [do : Steps, n : Nat] /\ Do("begin", 0).do = "begin"
  BY DEF Do, Steps
<1>3. todo \in Seq([do : Steps, n : Nat]) /\ Plan = {1} /\ todo[1].do = "begin"
  BY <1>1, <1>2 DEF Plan
<1>4. \A steps : Has(steps) <=> "begin" \in steps
  BY <1>3 DEF Has
<1>5. \A i \in Ids : ops[i] = NoOp /\ ops[i].kind = "none" /\ ops[i].state = "unused"
  BY <1>1 DEF NoOp
<1>6. Clock
  BY <1>1 DEF Clock
<1>7. Slots
  <2>1. /\ pool.ticks = <<>> /\ pool.hint = 1 /\ pool.command = 0 /\ pool.used = <<>>
        /\ pool \in [ticks : Seq(Nat), hint : Nat, command : Nat, used : Seq(Nat)]
        /\ Len(pool.ticks) = 0 /\ Len(pool.used) = 0
    BY <1>1
  <2>2. 0 % GrowStep = 0
    BY <1>1
  <2>. QED  BY <1>1, <2>1, <2>2 DEF Slots
<1>8. Queue
  <2>1. NoOp \in [kind : Kinds, tick : 0 .. current, state : OpState]
    BY <1>1 DEF NoOp, Kinds, OpState
  <2>2. ops \in [Ids -> [kind : Kinds, tick : 0 .. current, state : OpState]]
    BY <1>1, <2>1
  <2>. QED  BY <1>1, <2>2 DEF Queue
<1>9. Threads
  <2>1. late \in [Latecomers -> Nobody .. MaxOps]
    BY <1>1 DEF Nobody
  <2>2. runner \in [at : {"loop", "holds", "waits", "runs", "clears", "notifies", "exited"},
                    op : 0 .. MaxOps]
    BY <1>1
  <2>. QED  BY <1>1, <2>1, <2>2 DEF Threads
<1>10. Ordered
  BY <1>3 DEF Ordered
<1>11. Phased /\ Timed
  <2>1. Has({"begin"}) /\ ~ Has({"stop", "notify all", "join", "close"}) /\ ~ Has({"retry"})
    BY <1>4
  <2>2. \A k \in Plan : todo[k].do # "retry"
    BY <1>3
  <2>3. Phased
    BY <1>1, <2>1 DEF Phased
  <2>4. Timed
    BY <1>1, <2>2 DEF Timed, Has
  <2>. QED  BY <2>3, <2>4
<1>12. Recorded
  BY <1>1, <1>4 DEF Recorded
<1>13. Listed /\ OwnerHas /\ Following
  BY <1>1, <1>3, <1>5 DEF Listed, OwnerHas, Following, Is
<1>14. RunnerHas
  BY <1>1, <1>5 DEF RunnerHas, Active, Is
<1>15. Held /\ Draining /\ Stopping
  BY <1>1 DEF Held, Draining, Stopping, Nobody
<1>. QED  BY <1>6, <1>7, <1>8, <1>9, <1>10, <1>11, <1>12, <1>13, <1>14, <1>15 DEF Inv

LEMMA StepInv ==
    Inv /\ [Next]_vars => Inv'
<1> SUFFICES ASSUME Inv, [Next]_vars
             PROVE  Inv'
  OBVIOUS
<1>1. CASE Call
  <2>1. \A tick \in 1 .. current - 1 : tick \in 1 .. current
    BY DEF Inv, Clock
  <2>2. current \in 1 .. current
    BY DEF Inv, Clock
  <2>3. \/ Flush \/ Finish \/ FinishAndDrain \/ PopPendingOperations \/ Shutdown
        \/ \E tick \in 1 .. current : Wait(tick) \/ WaitPriorityOperations(tick)
    BY <1>1, <2>1, <2>2 DEF Call
  <2>. QED  BY <2>3, CallSteps, ShutdownSteps
<1>2. CASE Step \/ Submits(FALSE)
  BY <1>2, BeginsSteps, SubmitSteps, ClockSteps, PopsSteps, SettlesSteps, StartsSteps, RunsSteps,
     EndSteps DEF Step
<1>3. CASE \E i \in Ids, kind \in {"normal", "priority"} : MayDefer(kind) /\ OwnerDefers(i, kind)
  BY <1>3, OwnerDefersSteps
<1>4. CASE Runner \/ \E i \in Ids : RunnerDefers(i)
  BY <1>4, RunnerSteps
<1>5. CASE (\E t \in Others : Other(t)) \/ (\E t \in Latecomers : Late(t))
  BY <1>5, OtherSteps DEF Latecomers
<1>6. CASE GpuFinishes
  BY <1>6, GpuSteps
<1>7. CASE UNCHANGED vars
  <2>1. /\ UNCHANGED <<current, known, sent, counter, pool, ops, pending, priority, state, stop,
                       runner, todo, late, asleep>>
        /\ Learns
    BY <1>7, Learned DEF vars, Inv
  <2>. QED  BY <2>1, Kept DEF Inv
<1>. QED  BY <1>1, <1>2, <1>3, <1>4, <1>5, <1>6, <1>7 DEF Next

LEMMA Invariance ==
    Spec => []Inv
  BY InitInv, StepInv, PTL DEF Spec

\* No operation, of the runner or of the owner, runs before the timeline has
\* reached the tick of the submission that it was deferred with.
THEOREM RunsAfterGpuAlways ==
    Spec => []RunsAfterGpu
<1>1. Inv => RunsAfterGpu
  <2> SUFFICES ASSUME Inv, NEW i \in Ids, ops[i].state = "running"
               PROVE  ops[i].tick <= counter
    BY DEF RunsAfterGpu
  <2>1. /\ known \in Nat /\ counter \in Nat /\ known <= counter /\ ops[i].tick \in Nat
        /\ ops[i].kind \in {"none", "normal", "priority"} /\ ops[i].kind # "none"
    BY DEF Inv, Clock, Queue, Kinds, Listed
  <2>2. CASE ops[i].kind = "priority"
    <3>1. runner.op = i
      BY <2>2 DEF Inv, RunnerHas, Is
    <3>2. Active
      BY <3>1, CommandSchedulerAssumption DEF Active, Ids
    <3>3. runner.at = "runs"
      BY <3>1, <3>2, <2>2 DEF Inv, RunnerHas, Is
    <3>4. ops[i].tick <= known
      BY <3>1, <3>3 DEF Inv, RunnerHas
    <3>. QED  BY <2>1, <3>4
  <2>3. CASE ops[i].kind = "normal"
    <3>1. PICK k \in Plan : todo[k].do \in {"start", "run"} /\ todo[k].n = i
      BY <2>3 DEF Inv, OwnerHas, Is
    <3>2. ops[i].tick <= known
      BY <3>1 DEF Inv, OwnerHas
    <3>. QED  BY <2>1, <3>2
  <2>. QED  BY <2>1, <2>2, <2>3
<1>. QED  BY <1>1, Invariance, PTL

\* When the owner runs a normal operation, which may free guest memory, every
\* guest-memory completion of that submission or of one before has run, the one
\* that the runner had taken included.
THEOREM PriorityFirstAlways ==
    Spec => []PriorityFirst
<1>1. Inv => PriorityFirst
  <2> SUFFICES ASSUME Inv, At("run"), NEW j \in Ids, ops[j].kind = "priority",
                      ops[j].tick <= ops[N].tick, ops[j].state \in {"queued", "taken", "running"}
               PROVE  FALSE
    BY DEF PriorityFirst
  <2>1. 1 \in Plan /\ todo[1].do = "run" /\ N = todo[1].n
    BY Heads DEF Inv
  <2>2. NoneBefore(ops[todo[1].n].tick)
    BY <2>1 DEF Inv, Following
  <2>3. ops[j].tick > ops[todo[1].n].tick
    BY <2>2 DEF NoneBefore, Is
  <2>4. todo[1].n \in Ids
    BY <2>1 DEF Inv, OwnerHas, Is
  <2>5. ops[j].tick \in Nat /\ ops[todo[1].n].tick \in Nat
    BY <2>4 DEF Inv, Queue
  <2>. QED  BY <2>1, <2>3, <2>5
<1>. QED  BY <1>1, Invariance, PTL

\* The command buffer that the pool hands out, even when a submission is being
\* repeated, is none of a submission that the GPU may still read; and the variables
\* have their types.
THEOREM NotInFlightAlways ==
    Spec => []NotInFlight
<1>1. Inv => NotInFlight
  <2> SUFFICES ASSUME Inv
               PROVE  NotInFlight
    OBVIOUS
  <2>1. current \in 1 .. MaxTick + 1 /\ sent \in {current - 1, current - 2}
        /\ 0 <= known /\ known <= counter /\ counter <= sent
    BY DEF Inv, Clock, Timed
  <2>2. pool.ticks \in Seq(0 .. current)
    <3>1. pool.ticks \in Seq(Nat) /\ Len(pool.ticks) \in Nat
      BY DEF Inv, Slots
    <3>2. \A i \in 1 .. Len(pool.ticks) : pool.ticks[i] \in 0 .. current
      BY <3>1, <2>1 DEF Inv, Slots, Clock
    <3>3. pool.ticks = [i \in 1 .. Len(pool.ticks) |-> pool.ticks[i]]
      BY <3>1
    <3>4. [i \in 1 .. Len(pool.ticks) |-> pool.ticks[i]] \in [1 .. Len(pool.ticks) -> 0 .. current]
      BY <3>2
    <3>5. pool.ticks \in [1 .. Len(pool.ticks) -> 0 .. current]
      BY <3>3, <3>4, Zenon
    <3>6. pool.ticks \in UNION {[1 .. n -> 0 .. current] : n \in Nat}
      BY <3>1, <3>5, Zenon
    <3>. QED  BY <3>6, SeqDef, Zenon
  <2>3. pool.used \in [1 .. sent -> 1 .. Len(pool.ticks)]
    <3>1. pool.used \in Seq(Nat) /\ Len(pool.used) = sent
      BY DEF Inv, Slots
    <3>2. pool.used = [i \in 1 .. sent |-> pool.used[i]]
      BY <3>1
    <3>3. \A i \in 1 .. sent : pool.used[i] \in 1 .. Len(pool.ticks)
      BY DEF Inv, Slots
    <3>. QED  BY <3>2, <3>3
  <2>4. /\ Len(pool.ticks) % GrowStep = 0 /\ pool.hint \in 1 .. Len(pool.ticks) + 1
        /\ pool.command \in 0 .. Len(pool.ticks)
    BY DEF Inv, Slots
  <2>5. TypeOK
    BY <2>1, <2>2, <2>3, <2>4 DEF TypeOK, Inv, Queue, Kinds, Threads
  <2>. QED  BY <2>5 DEF NotInFlight, Inv, Recorded
<1>. QED  BY <1>1, Invariance, PTL

\* When Shutdown closes the scheduler both queues are empty and the runner has
\* nothing; and no operation is then, or ever after, queued or under way.
THEOREM NothingLeftAlways ==
    Spec => []NothingLeft
<1>1. Inv => NothingLeft
  <2> SUFFICES ASSUME Inv, At("close") \/ state = "Closed"
               PROVE  /\ pending = <<>> /\ priority = <<>> /\ ~ Active
                      /\ \A i \in Ids : ops[i].state \in {"unused", "done", "held"}
    BY DEF NothingLeft
  <2>1. /\ \A k \in Plan : todo[k].do \in {"close", "notify all"}
        /\ state # "Open"
    <3>1. CASE At("close")
      <4>1. 1 \in Plan /\ todo[1].do = "close"
        BY <3>1, Heads DEF Inv
      <4>2. \A k \in Plan : k = 1 \/ todo[k].do = "notify all"
        BY <4>1, Later DEF Inv
      <4>3. Has({"stop", "notify all", "join", "close"})
        BY <4>1 DEF Has
      <4>. QED  BY <4>1, <4>2, <4>3 DEF Inv, Phased
    <3>2. CASE state = "Closed"
      <4>1. \A k \in Plan : todo[k].do \in Steps
        BY Heads DEF Inv
      <4>. QED  BY <3>2, <4>1 DEF Inv, Phased, Has
    <3>. QED  BY <3>1, <3>2
  <2>2. pending = <<>> /\ Drained
    BY <2>1 DEF Inv, Draining, Has
  <2>3. ASSUME NEW i \in Ids, ops[i].state \in {"queued", "taken", "running"}
        PROVE  FALSE
    <3>1. ops[i].kind \in {"normal", "priority"}
      BY <2>3 DEF Inv, Queue, Kinds, Listed
    <3>2. Is(i, "normal", {"queued"}) \/ Is(i, "priority", {"queued"}) => FALSE
      BY <2>2 DEF Inv, Listed, Drained
    <3>3. ~ Is(i, "priority", {"taken", "running"})
      <4>1. runner.op # i
        BY <2>2, CommandSchedulerAssumption DEF Drained, Active, Ids
      <4>. QED  BY <4>1 DEF Inv, RunnerHas
    <3>4. ~ Is(i, "normal", {"taken", "running"})
      BY <2>1 DEF Inv, OwnerHas
    <3>. QED  BY <2>3, <3>1, <3>2, <3>3, <3>4 DEF Is
  <2>4. \A i \in Ids : ops[i].state \in OpState
    BY DEF Inv, Queue
  <2>. QED  BY <2>2, <2>3, <2>4 DEF Drained, OpState
<1>. QED  BY <1>1, Invariance, PTL
================================================================================
