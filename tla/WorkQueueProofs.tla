--------------------------- MODULE WorkQueueProofs ---------------------------
(***************************************************************************)
(* The contract of the work queue holds for any number of items and        *)
(* workers, and CondQueue keeps it.                                        *)
(***************************************************************************)
EXTENDS CondQueue, FiniteSetTheorems, TLAPS

QueueInv == /\ queue \in Seq(Items)
            /\ dirty \subseteq Items
            /\ processing \subseteq Items
            /\ QueueDiscipline
            /\ NoLostItem

\* Add keeps the discipline of the queue and leaves the item dirty, unless the
\* queue is shutting down.
LEMMA AddKeeps ==
  ASSUME NEW i \in Items, QueueInv, Add(i)
  PROVE  /\ QueueInv'
         /\ processing' = processing
         /\ ~shuttingDown => dirty' = dirty \cup {i}
<1>1. CASE shuttingDown \/ i \in dirty
  BY <1>1 DEF Add, qvars, QueueInv, QueueDiscipline, NoLostItem, Queued
<1>2. CASE ~(shuttingDown \/ i \in dirty)
  <2>1. dirty' = dirty \cup {i} /\ processing' = processing
    BY <1>2 DEF Add
  <2>2. CASE i \in processing
    BY <1>2, <2>1, <2>2 DEF Add, QueueInv, QueueDiscipline, NoLostItem, Queued
  <2>3. CASE i \notin processing
    <3>1. queue' = Append(queue, i)
      BY <1>2, <2>3 DEF Add
    <3>2. /\ queue' \in Seq(Items) /\ Len(queue') = Len(queue) + 1
          /\ DOMAIN queue' = 1..Len(queue) + 1 /\ DOMAIN queue = 1..Len(queue)
          /\ \A n \in 1..Len(queue) : queue'[n] = queue[n]
          /\ queue'[Len(queue) + 1] = i
          /\ Len(queue) \in Nat
      BY <3>1 DEF QueueInv
    <3>3. Queued' = Queued \cup {i}
      BY <3>2 DEF Queued
    <3>4. i \notin Queued
      BY <1>2 DEF QueueInv, QueueDiscipline
    <3>5. \A m, n \in DOMAIN queue' : queue'[m] = queue'[n] => m = n
      BY <3>2, <3>4 DEF QueueInv, QueueDiscipline, Queued
    <3> QED
      BY <2>1, <2>3, <3>2, <3>3, <3>5 DEF QueueInv, QueueDiscipline, NoLostItem
  <2> QED
    BY <2>2, <2>3
<1> QED
  BY <1>1, <1>2

\* Pop hands out a dirty item that nobody has.
LEMMA PopKeeps ==
  ASSUME QueueInv, Pop
  PROVE  /\ QueueInv'
         /\ Head(queue) \in dirty \ processing
         /\ Head(queue) \in Items
         /\ processing' = processing \cup {Head(queue)}
         /\ dirty' = dirty \ {Head(queue)}
<1>1. /\ DOMAIN queue = 1..Len(queue) /\ Len(queue) \in Nat /\ Len(queue) > 0
      /\ Head(queue) = queue[1] /\ Head(queue) \in Items
  BY DEF QueueInv, Pop
<1>2. /\ queue' \in Seq(Items) /\ DOMAIN queue' = 1..Len(queue) - 1
      /\ \A n \in 1..Len(queue) - 1 : queue'[n] = queue[n + 1]
  BY <1>1 DEF QueueInv, Pop
<1>3. Head(queue) \in dirty \ processing
  BY <1>1 DEF QueueInv, QueueDiscipline, Queued
<1>4. Queued' = Queued \ {Head(queue)}
  <2>1. Queued' \subseteq Queued \ {Head(queue)}
    <3>1. ASSUME NEW n \in 1..Len(queue) - 1
          PROVE  queue'[n] \in Queued /\ queue'[n] # Head(queue)
      <4>1. n + 1 \in 1..Len(queue) /\ 1 \in 1..Len(queue) /\ n + 1 # 1
        BY <1>1
      <4> QED
        BY <1>1, <1>2, <4>1 DEF QueueInv, QueueDiscipline, Queued
    <3> QED
      BY <1>2, <3>1 DEF Queued
  <2>2. ASSUME NEW i \in Queued, i # Head(queue) PROVE i \in Queued'
    <3>1. PICK n \in 1..Len(queue) : i = queue[n]
      BY <1>1 DEF Queued
    <3>2. n - 1 \in 1..Len(queue) - 1 /\ queue'[n - 1] = i
      BY <1>1, <1>2, <2>2, <3>1
    <3> QED
      BY <1>2, <3>2 DEF Queued
  <2> QED
    BY <2>1, <2>2
<1>5. \A m, n \in DOMAIN queue' : queue'[m] = queue'[n] => m = n
  <2> TAKE m, n \in DOMAIN queue'
  <2> HAVE queue'[m] = queue'[n]
  <2>1. /\ m \in 1..Len(queue) - 1 /\ n \in 1..Len(queue) - 1
        /\ m + 1 \in 1..Len(queue) /\ n + 1 \in 1..Len(queue)
    BY <1>1, <1>2
  <2>2. queue[m + 1] = queue[n + 1]
    BY <1>2, <2>1
  <2>3. m + 1 = n + 1
    BY <1>1, <2>1, <2>2 DEF QueueInv, QueueDiscipline
  <2> QED
    BY <2>1, <2>3
<1> QED
  BY <1>1, <1>2, <1>3, <1>4, <1>5 DEF QueueInv, QueueDiscipline, NoLostItem, Pop

\* Finish queues the item again exactly when it was added in the meantime.
LEMMA FinishKeeps ==
  ASSUME NEW i \in processing, QueueInv, Finish(i)
  PROVE  /\ QueueInv'
         /\ processing' = processing \ {i}
         /\ dirty' = dirty
<1>1. processing' = processing \ {i} /\ dirty' = dirty /\ i \in Items
  BY DEF Finish, QueueInv
<1>2. CASE i \in dirty
  <2>1. queue' = Append(queue, i)
    BY <1>2 DEF Finish
  <2>2. /\ queue' \in Seq(Items)
        /\ DOMAIN queue' = 1..Len(queue) + 1 /\ DOMAIN queue = 1..Len(queue)
        /\ \A n \in 1..Len(queue) : queue'[n] = queue[n]
        /\ queue'[Len(queue) + 1] = i
        /\ Len(queue) \in Nat
    BY <1>1, <2>1 DEF QueueInv
  <2>3. Queued' = Queued \cup {i}
    BY <2>2 DEF Queued
  <2>4. i \notin Queued
    BY DEF QueueInv, QueueDiscipline
  <2>5. \A m, n \in DOMAIN queue' : queue'[m] = queue'[n] => m = n
    BY <2>2, <2>4 DEF QueueInv, QueueDiscipline, Queued
  <2> QED
    BY <1>1, <1>2, <2>2, <2>3, <2>5 DEF QueueInv, QueueDiscipline, NoLostItem
<1>3. CASE i \notin dirty
  BY <1>1, <1>3 DEF Finish, QueueInv, QueueDiscipline, NoLostItem, Queued
<1> QED
  BY <1>2, <1>3

-----------------------------------------------------------------------------
\* The contract is an inductive invariant: an item that is handed out was
\* queued, hence not being processed, hence held by nobody.
Contract == TypeOK /\ QueueDiscipline /\ NoLostItem /\ ExclusiveItem

LEMMA ContractInit == Init => Contract
<1> SUFFICES ASSUME Init PROVE Contract
  OBVIOUS
<1>1. TypeOK
  <2>1. queue \in Seq(Items)
    BY DEF Init
  <2>2. held \in [Workers -> Items \cup {NoItem, Exited}]
    BY DEF Init
  <2>3. shuttingDown \in BOOLEAN
    BY DEF Init
  <2>4. dirty \subseteq Items /\ processing \subseteq Items /\ waiting \subseteq Items
    BY DEF Init
  <2> QED
    BY <2>1, <2>2, <2>3, <2>4 DEF TypeOK
<1>2. DOMAIN queue = {} /\ Queued = {}
  BY DEF Init, Queued
<1>3. QueueDiscipline /\ NoLostItem
  BY <1>2 DEF Init, QueueDiscipline, NoLostItem
<1>4. ExclusiveItem
  BY Markers DEF Init, ExclusiveItem
<1> QED
  BY <1>1, <1>3, <1>4 DEF Contract

LEMMA ContractStep == Contract /\ [Next]_vars => Contract'
<1> SUFFICES ASSUME Contract, [Next]_vars PROVE Contract'
  OBVIOUS
<1> USE DEF Contract, TypeOK
<1>q. QueueInv
  BY DEF QueueInv
<1>1. ASSUME NEW i \in Items, Produce(i) PROVE Contract'
  BY <1>q, <1>1, AddKeeps DEF Produce, QueueInv, ExclusiveItem
<1>2. ASSUME NEW i \in Items, Fire(i) PROVE Contract'
  BY <1>q, <1>2, AddKeeps DEF Fire, QueueInv, ExclusiveItem
<1>3. ASSUME NEW w \in Workers, Get(w) PROVE Contract'
  <2>1. /\ QueueInv' /\ Head(queue) \in Items \ processing
        /\ processing' = processing \cup {Head(queue)}
    BY <1>q, <1>3, PopKeeps DEF Get
  <2>2. held' = [held EXCEPT ![w] = Head(queue)] /\ held[w] = NoItem
    BY <1>3 DEF Get
  <2>3. \A v \in Workers : held[v] # Head(queue)
    BY <2>1 DEF ExclusiveItem
  <2>4. ExclusiveItem'
    BY <2>1, <2>2, <2>3, Markers DEF ExclusiveItem
  <2> QED
    BY <1>3, <2>1, <2>2, <2>4 DEF Get, QueueInv
<1>4. ASSUME NEW w \in Workers, Done(w) PROVE Contract'
  <2>1. held[w] \in processing
    BY <1>4 DEF Done, ExclusiveItem
  <2>2. QueueInv' /\ processing' = processing \ {held[w]}
    BY <1>q, <1>4, <2>1, FinishKeeps DEF Done
  <2>3. held' = [held EXCEPT ![w] = NoItem]
    BY <1>4 DEF Done
  <2>4. ExclusiveItem'
    BY <2>1, <2>2, <2>3, Markers DEF ExclusiveItem
  <2> QED
    BY <1>4, <2>2, <2>3, <2>4 DEF Done, QueueInv
<1>5. ASSUME NEW w \in Workers, Exit(w) PROVE Contract'
  BY <1>5, Markers DEF Exit, QueueDiscipline, NoLostItem, ExclusiveItem, Queued
<1>6. ASSUME NEW w \in Workers, Retry(w) PROVE Contract'
  BY <1>6 DEF Retry, QueueDiscipline, NoLostItem, ExclusiveItem, Queued
<1>7. CASE ShutDown
  BY <1>7 DEF ShutDown, QueueDiscipline, NoLostItem, ExclusiveItem, Queued
<1>8. CASE UNCHANGED vars
  BY <1>8 DEF vars, QueueDiscipline, NoLostItem, ExclusiveItem, Queued
<1> QED
  BY <1>1, <1>2, <1>3, <1>4, <1>5, <1>6, <1>7, <1>8 DEF Next

\* However informer handlers, workers, back-offs and a shutdown interleave, the
\* queue (queue.go) keeps its discipline, forgets no item it was given, and
\* never lets two workers process the same item.
THEOREM WorkQueueContract ==
  Spec => [](TypeOK /\ QueueDiscipline /\ NoLostItem /\ ExclusiveItem)
BY ContractInit, ContractStep, PTL DEF Spec, Contract

-----------------------------------------------------------------------------
LEMMA CondStep == [CondNext]_condVars => [Next]_vars
BY DEF CondNext, condVars, vars, Next, CondProduce, CondFire, Sleep, CondGet,
       CondExit, CondRetry, CondDone, CondShutDown

\* The locked sections together with the condition variable they sleep on and
\* signal (queue.go) do nothing the abstract work queue does not do.
THEOREM CondImplementsWorkQueue == CondSpec => Spec
<1>1. CondInit => Init
  BY DEF CondInit
<1> QED
  BY <1>1, CondStep, PTL DEF CondSpec, Spec

\* Hence the contract holds of the queue as it is implemented.  The queue holds
\* just the dirty items that nobody processes, each once.
COROLLARY CondDiscipline == CondSpec => []QueueDiscipline
BY CondImplementsWorkQueue, WorkQueueContract, PTL

\* An item that was added again while it was processed is not forgotten when
\* its worker is done, whoever sleeps and whoever is woken (queue.go:220-236).
COROLLARY CondKeepsItems == CondSpec => []NoLostItem
BY CondImplementsWorkQueue, WorkQueueContract, PTL

\* "never processing the same item simultaneously in two different workers":
\* the comment of server.go holds of the queue it hands its workers to.
COROLLARY CondExclusive == CondSpec => []ExclusiveItem
BY CondImplementsWorkQueue, WorkQueueContract, PTL

-----------------------------------------------------------------------------
(* Wakeups *)

Idle == {w \in Workers \ asleep : held[w] = NoItem}

\* Only a worker with nothing to do sleeps.
SleepersIdle == asleep \subseteq {w \in Workers : held[w] = NoItem}

HeldType == held \in [Workers -> Items \cup {NoItem, Exited}]

WakeInv == queue \in Seq(Items) /\ HeldType /\ NoLostWakeup /\ SleepersIdle

LEMMA IdleGrows ==
  ASSUME IsFiniteSet(Workers), NEW w \in Workers \ Idle, Idle \cup {w} \subseteq Idle'
  PROVE  Cardinality(Idle) + 1 <= Cardinality(Idle') /\ Cardinality(Idle) \in Nat
                                                     /\ Cardinality(Idle') \in Nat
<1>1. IsFiniteSet(Idle) /\ IsFiniteSet(Idle')
  BY FS_Subset DEF Idle
<1>2. Cardinality(Idle \cup {w}) = Cardinality(Idle) + 1 /\ IsFiniteSet(Idle \cup {w})
  BY <1>1, FS_AddElement
<1>3. Cardinality(Idle \cup {w}) <= Cardinality(Idle')
  BY <1>1, FS_Subset
<1> QED BY <1>1, <1>2, <1>3, FS_CardinalityType

\* A signal makes one more worker look at the queue, if any sleeps.
LEMMA SignalWakes ==
  ASSUME IsFiniteSet(Workers), WakeInv, Signal, queue' \in Seq(Items), HeldType',
         Len(queue') \in {Len(queue), Len(queue) + 1},
         \A w \in Workers : held[w] = NoItem => held'[w] = NoItem
  PROVE  WakeInv'
<1> USE DEF WakeInv
<1>1. CASE asleep = {}
  BY <1>1 DEF Signal, NoLostWakeup, SleepersIdle
<1>2. CASE asleep # {}
  <2>1. PICK w \in asleep : asleep' = asleep \ {w}
    BY <1>2 DEF Signal
  <2>2. SleepersIdle'
    BY <2>1 DEF SleepersIdle
  <2>3. w \in Workers \ Idle /\ Idle \cup {w} \subseteq Idle'
    BY <2>1 DEF SleepersIdle, Idle
  <2>4. Cardinality(Idle) + 1 <= Cardinality(Idle') /\ Cardinality(Idle) \in Nat
        /\ Cardinality(Idle') \in Nat
    BY <2>3, IdleGrows
  <2>5. Len(queue) <= Cardinality(Idle)
    BY <1>2 DEF NoLostWakeup, Idle
  <2>6. Len(queue') <= Cardinality(Idle')
    BY <2>4, <2>5
  <2> QED BY <2>2, <2>6 DEF NoLostWakeup, Idle
<1> QED BY <1>1, <1>2

LEMMA AddLength ==
  ASSUME queue \in Seq(Items), NEW i \in Items, Add(i)
  PROVE  queue' \in Seq(Items) /\ Len(queue') \in {Len(queue), Len(queue) + 1}
BY DEF Add, qvars

LEMMA AddWakes ==
  ASSUME IsFiniteSet(Workers), WakeInv, NEW i \in Items, Add(i), SignalIfQueued,
         held' = held
  PROVE  WakeInv'
<1>1. queue' \in Seq(Items) /\ Len(queue') \in {Len(queue), Len(queue) + 1} /\ HeldType'
  BY AddLength DEF WakeInv, HeldType
<1>2. CASE Len(queue') > Len(queue)
  BY <1>1, <1>2, SignalWakes DEF SignalIfQueued
<1>3. CASE ~(Len(queue') > Len(queue))
  <2>1. asleep' = asleep
    BY <1>3 DEF SignalIfQueued
  <2>2. Len(queue') = Len(queue)
    BY <1>1, <1>3 DEF WakeInv
  <2> QED BY <1>1, <2>1, <2>2 DEF WakeInv, NoLostWakeup, SleepersIdle
<1> QED BY <1>2, <1>3

LEMMA WakeStep ==
  ASSUME IsFiniteSet(Workers), WakeInv, [CondNext]_condVars PROVE WakeInv'
<1>1. ASSUME NEW i \in Items, CondProduce(i) \/ CondFire(i) PROVE WakeInv'
  BY <1>1, AddWakes DEF CondProduce, CondFire, Produce, Fire
<1>2. ASSUME NEW w \in Workers, Sleep(w) PROVE WakeInv'
  <2>1. Len(queue') = 0 /\ queue' = queue /\ held' = held
    BY <1>2 DEF Sleep, vars
  <2>2. IsFiniteSet(Idle')
    BY FS_Subset DEF Idle
  <2>3. Cardinality(Idle') \in Nat
    BY <2>2, FS_CardinalityType
  <2> QED BY <1>2, <2>1, <2>3 DEF WakeInv, HeldType, NoLostWakeup, SleepersIdle, Sleep, Idle
<1>3. ASSUME NEW w \in Workers, CondGet(w) PROVE WakeInv'
  <2> USE <1>3 DEF CondGet, Get, Pop
  <2>1. /\ queue' \in Seq(Items) /\ Len(queue') = Len(queue) - 1
        /\ Len(queue) \in Nat /\ Head(queue) \in Items /\ HeldType'
    BY DEF WakeInv, HeldType
  <2>2. asleep' = asleep /\ SleepersIdle'
    BY DEF WakeInv, SleepersIdle
  <2>3. CASE asleep # {}
    <3>1. Idle \ {w} \subseteq Idle' /\ w \in Idle
      BY DEF Idle
    <3>2. IsFiniteSet(Idle) /\ IsFiniteSet(Idle')
      BY FS_Subset DEF Idle
    <3>3. Cardinality(Idle \ {w}) = Cardinality(Idle) - 1 /\ IsFiniteSet(Idle \ {w})
      BY <3>1, <3>2, FS_RemoveElement
    <3>4. Cardinality(Idle \ {w}) <= Cardinality(Idle')
      BY <3>1, <3>2, FS_Subset
    <3>5. Len(queue) <= Cardinality(Idle)
      BY <2>3 DEF WakeInv, NoLostWakeup, Idle
    <3>6. Len(queue') <= Cardinality(Idle')
      BY <2>1, <3>2, <3>3, <3>4, <3>5, FS_CardinalityType
    <3> QED BY <2>1, <2>2, <3>6 DEF WakeInv, NoLostWakeup, Idle
  <2>4. CASE asleep = {}
    BY <2>1, <2>2, <2>4 DEF WakeInv, NoLostWakeup
  <2> QED BY <2>3, <2>4
<1>4. ASSUME NEW w \in Workers, CondExit(w) PROVE WakeInv'
  <2>1. queue = <<>> /\ queue' = queue /\ asleep' = asleep /\ w \notin asleep
    BY <1>4 DEF CondExit, Exit
  <2>2. IsFiniteSet(Idle')
    BY FS_Subset DEF Idle
  <2>3. Len(queue') <= Cardinality(Idle')
    BY <2>1, <2>2, FS_CardinalityType
  <2>4. SleepersIdle' /\ HeldType'
    BY <1>4, <2>1 DEF CondExit, Exit, WakeInv, SleepersIdle, HeldType
  <2> QED BY <2>1, <2>3, <2>4 DEF WakeInv, NoLostWakeup, Idle
<1>5. ASSUME NEW w \in Workers, CondRetry(w) PROVE WakeInv'
  BY <1>5 DEF CondRetry, Retry, WakeInv, HeldType, NoLostWakeup, SleepersIdle
<1>6. ASSUME NEW w \in Workers, CondDone(w) PROVE WakeInv'
  <2>1. /\ held[w] \in Items /\ Finish(held[w])
        /\ held' = [held EXCEPT ![w] = NoItem]
    BY <1>6 DEF CondDone, Done
  <2>2. queue' \in Seq(Items) /\ Len(queue') \in {Len(queue), Len(queue) + 1}
    BY <2>1 DEF Finish, WakeInv
  <2>3. HeldType' /\ \A v \in Workers : held[v] = NoItem => held'[v] = NoItem
    BY <2>1 DEF WakeInv, HeldType
  <2>4. CASE held[w] \in dirty \/ processing' = {}
    BY <1>6, <2>2, <2>3, <2>4, SignalWakes DEF CondDone
  <2>5. CASE ~(held[w] \in dirty \/ processing' = {})
    <3>1. queue' = queue /\ asleep' = asleep
      BY <1>6, <2>1, <2>5 DEF CondDone, Finish
    <3>2. SleepersIdle' /\ Idle \subseteq Idle'
      BY <2>3, <3>1 DEF WakeInv, SleepersIdle, Idle
    <3>3. IsFiniteSet(Idle) /\ IsFiniteSet(Idle')
      BY FS_Subset DEF Idle
    <3>4. Cardinality(Idle) <= Cardinality(Idle')
      BY <3>2, <3>3, FS_Subset
    <3>5. asleep # {} => Len(queue') <= Cardinality(Idle')
      BY <3>1, <3>3, <3>4, FS_CardinalityType DEF WakeInv, NoLostWakeup, Idle
    <3> QED BY <2>2, <2>3, <3>1, <3>2, <3>5 DEF WakeInv, NoLostWakeup, Idle
  <2> QED BY <2>4, <2>5
<1>7. CASE CondShutDown
  BY <1>7 DEF CondShutDown, ShutDown, WakeInv, HeldType, NoLostWakeup, SleepersIdle
<1>8. CASE UNCHANGED condVars
  BY <1>8 DEF condVars, WakeInv, HeldType, NoLostWakeup, SleepersIdle
<1> QED BY <1>1, <1>2, <1>3, <1>4, <1>5, <1>6, <1>7, <1>8 DEF CondNext

\* With any number of workers, an item never waits in the queue for a worker
\* that nobody has woken (queue.go:175-236): Signal on every append suffices.
THEOREM SignalsSuffice == ASSUME IsFiniteSet(Workers) PROVE CondSpec => []NoLostWakeup
<1>1. CondInit => WakeInv
  BY DEF CondInit, Init, WakeInv, HeldType, NoLostWakeup, SleepersIdle
<1>2. WakeInv /\ [CondNext]_condVars => WakeInv'
  BY WakeStep
<1>3. WakeInv => NoLostWakeup
  BY DEF WakeInv
<1> QED BY <1>1, <1>2, <1>3, PTL DEF CondSpec

\* The variables of the queue and of its condition variable keep their types.
THEOREM CondTypes == CondSpec => []CondTypeOK
<1>1. CondInit => asleep \in SUBSET Workers
  BY DEF CondInit
<1>2. asleep \in SUBSET Workers /\ [CondNext]_condVars => (asleep \in SUBSET Workers)'
  BY DEF CondNext, condVars, CondProduce, CondFire, SignalIfQueued, Signal, Sleep, CondGet,
         CondExit, CondRetry, CondDone, CondShutDown
<1>3. CondSpec => [](asleep \in SUBSET Workers)
  BY <1>1, <1>2, PTL DEF CondSpec
<1>4. TypeOK /\ asleep \in SUBSET Workers => CondTypeOK
  BY DEF CondTypeOK
<1> QED BY <1>3, <1>4, CondImplementsWorkQueue, WorkQueueContract, PTL

=============================================================================
