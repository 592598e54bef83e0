------------------------------ MODULE CondQueue ------------------------------
(***************************************************************************)
(* The work queue with its condition variable: a worker that finds the     *)
(* queue empty sleeps until a Signal or Broadcast wakes it.  The module    *)
(* shows that the signals suffice: the sleeping workers are no obstacle to *)
(* the promise of WorkQueue, safety and liveness alike.                    *)
(***************************************************************************)
EXTENDS WorkQueue, Naturals

VARIABLE asleep     \* workers blocked in cond.Wait()

condVars == <<queue, dirty, processing, waiting, shuttingDown, held, asleep>>

CondTypeOK == TypeOK /\ asleep \in SUBSET Workers

CondInit == Init /\ asleep = {}

\* cond.Signal: wakes one sleeping worker, if there is one.
Signal ==
  \/ asleep = {} /\ UNCHANGED asleep
  \/ \E w \in asleep : asleep' = asleep \ {w}

\* Faulty variant of SignalIfQueued: Add does not signal.
NoSignal == UNCHANGED asleep

\* Faulty variant of SignalIfQueued: signals for the first item only.
SignalIfEmpty ==
  IF queue = <<>> /\ Len(queue') > Len(queue) THEN Signal ELSE UNCHANGED asleep

\* Add signals only on the path that appends to the queue.
SignalIfQueued == IF Len(queue') > Len(queue) THEN Signal ELSE UNCHANGED asleep

CondProduce(i) == Produce(i) /\ SignalIfQueued

CondFire(i) == Fire(i) /\ SignalIfQueued

\* The loop of Get: sleep while the queue is empty.
Sleep(w) ==
  /\ held[w] = NoItem
  /\ w \notin asleep
  /\ queue = <<>>
  /\ ~shuttingDown
  /\ asleep' = asleep \cup {w}
  /\ UNCHANGED vars

CondGet(w) == w \notin asleep /\ Get(w) /\ UNCHANGED asleep

CondExit(w) == w \notin asleep /\ Exit(w) /\ UNCHANGED asleep

CondRetry(w) == Retry(w) /\ UNCHANGED asleep

\* Done signals for the item it queues again, or when nothing is processed.
CondDone(w) ==
  /\ Done(w)
  /\ IF held[w] \in dirty \/ processing' = {} THEN Signal ELSE UNCHANGED asleep

\* shutdown: cond.Broadcast
CondShutDown == ShutDown /\ asleep' = {}

CondNext ==
  \/ \E i \in Items : CondProduce(i) \/ CondFire(i)
  \/ \E w \in Workers :
       Sleep(w) \/ CondGet(w) \/ CondExit(w) \/ CondRetry(w) \/ CondDone(w)
  \/ CondShutDown

CondFairness ==
  \A w \in Workers : WF_condVars(CondGet(w)) /\ WF_condVars(CondDone(w))

CondSpec == CondInit /\ [][CondNext]_condVars /\ CondFairness

-----------------------------------------------------------------------------

\* No lost wakeup: as many workers are awake and on their way to Get as there
\* are items queued, unless no worker sleeps at all.
NoLostWakeup ==
  \/ asleep = {}
  \/ Len(queue) <= Cardinality({w \in Workers \ asleep : held[w] = NoItem})

\* The queue with its condition variable is a WorkQueue.
ImplementsWorkQueue == FairSpec

=============================================================================
