------------------------------ MODULE WorkQueue ------------------------------
(***************************************************************************)
(* The work queue every controller of this repository is built on          *)
(* (vendor/k8s.io/client-go/util/workqueue), seen through the lock that    *)
(* guards it: each operator below is one critical section.  `held' is what *)
(* the worker goroutines of the clients have taken out and not yet given   *)
(* back, and `waiting' is the heap of the delaying queue (AddAfter).       *)
(***************************************************************************)
EXTENDS Sequences, FiniteSets

CONSTANTS
  Items,      \* keys "namespace/name"
  Workers,    \* goroutines running processNextWorkItem
  NoItem,     \* a worker between Done and the next Get
  Exited      \* a worker whose Get returned shutdown = true

ASSUME Markers == NoItem \notin Items /\ Exited \notin Items /\ NoItem # Exited

VARIABLES
  queue,         \* []t: the order in which items are handed out
  dirty,         \* set: items that need processing
  processing,    \* set: items handed out and not Done
  waiting,       \* items AddRateLimited, back-off not over
  shuttingDown,
  held           \* held[w]: the item worker w got, NoItem or Exited

qvars == <<queue, dirty, processing>>
vars == <<queue, dirty, processing, waiting, shuttingDown, held>>

TypeOK ==
  /\ queue \in Seq(Items)
  /\ dirty \subseteq Items
  /\ processing \subseteq Items
  /\ waiting \subseteq Items
  /\ shuttingDown \in BOOLEAN
  /\ held \in [Workers -> Items \cup {NoItem, Exited}]

Init ==
  /\ queue = <<>>
  /\ dirty = {}
  /\ processing = {}
  /\ waiting = {}
  /\ shuttingDown = FALSE
  /\ held = [w \in Workers |-> NoItem]

-----------------------------------------------------------------------------
(* The critical sections. *)

Queued == {queue[n] : n \in DOMAIN queue}

\* Faulty variant of Add: does not look at what is being processed.
AddAgain(i) ==
  IF shuttingDown \/ i \in dirty
  THEN UNCHANGED qvars
  ELSE dirty' = dirty \cup {i} /\ queue' = Append(queue, i) /\ UNCHANGED processing

\* Faulty variant of Add: drops an item that is being processed.
AddDrops(i) ==
  IF shuttingDown \/ i \in dirty \/ i \in processing
  THEN UNCHANGED qvars
  ELSE dirty' = dirty \cup {i} /\ queue' = Append(queue, i) /\ UNCHANGED processing

\* Type.Add: ignored when shutting down or already dirty; an item that is
\* being processed only becomes dirty, and Finish queues it.
Add(i) ==
  IF shuttingDown \/ i \in dirty
  THEN UNCHANGED qvars
  ELSE /\ dirty' = dirty \cup {i}
       /\ queue' = IF i \in processing THEN queue ELSE Append(queue, i)
       /\ UNCHANGED processing

\* Type.Get once the queue is not empty.
Pop ==
  /\ queue # <<>>
  /\ queue' = Tail(queue)
  /\ processing' = processing \cup {Head(queue)}
  /\ dirty' = dirty \ {Head(queue)}

\* Faulty variant of Finish: forgets what was added in the meantime.
FinishForgets(i) == processing' = processing \ {i} /\ UNCHANGED <<queue, dirty>>

\* Type.Done
Finish(i) ==
  /\ processing' = processing \ {i}
  /\ queue' = IF i \in dirty THEN Append(queue, i) ELSE queue
  /\ UNCHANGED dirty

-----------------------------------------------------------------------------
(* The clients: informer handlers that add, workers that get and are done. *)

Produce(i) == Add(i) /\ UNCHANGED <<waiting, shuttingDown, held>>

Get(w) ==
  /\ held[w] = NoItem
  /\ Pop
  /\ held' = [held EXCEPT ![w] = Head(queue)]
  /\ UNCHANGED <<waiting, shuttingDown>>

\* Faulty variant of Exit: does not drain the queue.
ExitEarly(w) ==
  /\ held[w] = NoItem /\ shuttingDown
  /\ held' = [held EXCEPT ![w] = Exited]
  /\ UNCHANGED <<queue, dirty, processing, waiting, shuttingDown>>

\* Get returns shutdown = true and processNextWorkItem ends the goroutine.
Exit(w) ==
  /\ held[w] = NoItem
  /\ queue = <<>>
  /\ shuttingDown
  /\ held' = [held EXCEPT ![w] = Exited]
  /\ UNCHANGED <<queue, dirty, processing, waiting, shuttingDown>>

\* Faulty variant of Retry: after the deferred Done has given the item back.
RetryAfterDone(w) ==
  /\ held[w] # Exited /\ ~shuttingDown
  /\ waiting' = waiting \cup {held[w]}
  /\ UNCHANGED <<queue, dirty, processing, shuttingDown, held>>

\* syncHandler failed: AddRateLimited, before the deferred Done.
Retry(w) ==
  /\ held[w] \in Items
  /\ ~shuttingDown
  /\ waiting' = waiting \cup {held[w]}
  /\ UNCHANGED <<queue, dirty, processing, shuttingDown, held>>

\* waitingLoop: the back-off of an item is over.
Fire(i) ==
  /\ i \in waiting
  /\ waiting' = waiting \ {i}
  /\ Add(i)
  /\ UNCHANGED <<shuttingDown, held>>

Done(w) ==
  /\ held[w] \in Items
  /\ Finish(held[w])
  /\ held' = [held EXCEPT ![w] = NoItem]
  /\ UNCHANGED <<waiting, shuttingDown>>

ShutDown ==
  /\ ~shuttingDown
  /\ shuttingDown' = TRUE
  /\ UNCHANGED <<queue, dirty, processing, waiting, held>>

Next ==
  \/ \E i \in Items : Produce(i) \/ Fire(i)
  \/ \E w \in Workers : Get(w) \/ Exit(w) \/ Retry(w) \/ Done(w)
  \/ ShutDown

\* A worker that can run runs: Get and Done never block for ever, and the
\* handler between them returns.
Fairness == \A w \in Workers : WF_vars(Get(w)) /\ WF_vars(Done(w))

Spec == Init /\ [][Next]_vars
FairSpec == Spec /\ Fairness

-----------------------------------------------------------------------------
(* Properties *)

\* "Every element of queue should be in the dirty set and not in the
\* processing set" (queue.go), and none is queued twice.
QueueDiscipline ==
  /\ Queued \subseteq dirty \ processing
  /\ \A m, n \in DOMAIN queue : queue[m] = queue[n] => m = n

\* Nothing that needs processing can be forgotten: it is queued, or the
\* worker that has it will queue it again when it is Done.
NoLostItem == dirty \subseteq Queued \cup processing

\* What is being processed is exactly what the workers hold, and no two of
\* them hold the same item ("never processing the same item simultaneously
\* in two different workers", server.go).
ExclusiveItem ==
  /\ processing = {held[w] : w \in Workers} \cap Items
  /\ \A v, w \in Workers : held[v] = held[w] /\ held[v] \in Items => v = w

\* An item added while it is being processed is processed once more, also
\* when the queue is shut down in between and the other workers are gone.
EveryAddIsServed == \A i \in Items : i \in dirty ~> i \notin dirty

=============================================================================
