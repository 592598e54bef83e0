-------------------------- MODULE PodManagerProofs --------------------------
(***************************************************************************)
(* The safety of the pod manager for any number of pods and workers, any   *)
(* labels and any number of edits, faults and crashes.                     *)
(***************************************************************************)
EXTENDS PodManager, TLAPS

\* The queue lemmas, about the manager's queue.
WQP == INSTANCE WorkQueueProofs WITH Items <- Keys, NoItem <- NoKey, Exited <- NoAct,
                                     waiting <- {}, shuttingDown <- FALSE, asleep <- {}

-----------------------------------------------------------------------------
(* Pods and their fields. *)

LEMMA NoVersionType == NoVersion \in Versions
BY Labels DEF NoVersion

LEMMA PodFields ==
  ASSUME NEW p \in Pod, NEW e \in EndpointLabels, NEW v \in Versions
  PROVE  /\ [p EXCEPT !.endpoint = e] \in Pod
         /\ [p EXCEPT !.endpoint = e].endpoint = e
         /\ [p EXCEPT !.rv = v] \in Pod
         /\ [p EXCEPT !.rv = v].endpoint = p.endpoint
         /\ [p EXCEPT !.rv = v].rv = v
BY DEF Pod

LEMMA SameFields ==
  ASSUME NEW p \in Pod, NEW q \in Pod
  PROVE  SameButEndpoint(p, q) <=>
           /\ p.enabled = q.enabled /\ p.service = q.service /\ p.state = q.state
           /\ p.cpuset = q.cpuset /\ p.status = q.status
<1> DEFINE P == [p EXCEPT !.endpoint = Absent, !.rv = NoVersion]
           Q == [q EXCEPT !.endpoint = Absent, !.rv = NoVersion]
<1>1. /\ P.enabled = p.enabled /\ P.service = p.service /\ P.state = p.state
      /\ P.cpuset = p.cpuset /\ P.status = p.status
      /\ Q.enabled = q.enabled /\ Q.service = q.service /\ Q.state = q.state
      /\ Q.cpuset = q.cpuset /\ Q.status = q.status
  BY DEF Pod
<1>2. ASSUME p.enabled = q.enabled, p.service = q.service, p.state = q.state,
             p.cpuset = q.cpuset, p.status = q.status
      PROVE  P = Q
  BY <1>2 DEF Pod
<1> QED
  BY <1>1, <1>2 DEF SameButEndpoint

LEMMA SameEndpointOrVersion ==
  ASSUME NEW p \in Pod, NEW e \in EndpointLabels, NEW v \in Versions
  PROVE  /\ SameButEndpoint(p, p)
         /\ SameButEndpoint([p EXCEPT !.endpoint = e], p)
         /\ SameButEndpoint([p EXCEPT !.rv = v], p)
         /\ SameButEndpoint(Forget([p EXCEPT !.endpoint = e]), p)
         /\ SameButEndpoint(Forget(p), p)
<1>1. /\ [p EXCEPT !.endpoint = e] \in Pod /\ [p EXCEPT !.rv = v] \in Pod
      /\ Forget(p) \in Pod /\ Forget([p EXCEPT !.endpoint = e]) \in Pod
  BY PodFields, NoVersionType DEF Forget
<1>2. \A q \in {[p EXCEPT !.endpoint = e], [p EXCEPT !.rv = v], Forget(p),
                Forget([p EXCEPT !.endpoint = e])} :
        /\ q.enabled = p.enabled /\ q.service = p.service /\ q.state = p.state
        /\ q.cpuset = p.cpuset /\ q.status = p.status
  BY DEF Forget, Pod
<1> QED
  BY <1>1, <1>2, SameFields

LEMMA SameTransitive ==
  ASSUME NEW p, NEW q, NEW r, SameButEndpoint(p, q), SameButEndpoint(q, r)
  PROVE  SameButEndpoint(p, r)
BY DEF SameButEndpoint

\* What the manager decides from a pod does not depend on the endpoint, except
\* where it is asked for.
LEMMA SameDecides ==
  ASSUME NEW p \in Pod, NEW q \in Pod, SameButEndpoint(p, q)
  PROVE  /\ MapOf(p) = MapOf(q)
         /\ Manageable(p) <=> Manageable(q)
         /\ GetPodState(p) = GetPodState(q)
BY SameFields, Markers DEF MapOf, Controlled, GetPodServiceType, GetPodState, KnownOr, Manageable

LEMMA MapOfType == ASSUME NEW p PROVE MapOf(p) \in Maps
BY DEF MapOf, Maps

-----------------------------------------------------------------------------
(* Steps several actions share. *)

QInv == WQP!QueueInv

LEMMA QInvHolds == TypeOK /\ WQ!QueueDiscipline /\ WQ!NoLostItem <=> TypeOK /\ QInv
BY DEF TypeOK, QInv, WQP!QueueInv, WQP!QueueDiscipline, WQP!NoLostItem, WQP!Queued,
       WQ!QueueDiscipline, WQ!NoLostItem, WQ!Queued

LEMMA AddEffect ==
  ASSUME NEW k \in Keys, QInv, WQ!Add(k)
  PROVE  QInv' /\ processing' = processing /\ dirty' = dirty \cup {k}
BY Markers, WQP!AddKeeps DEF WQP!Markers, QInv, WQ!Add, WQP!Add, WQ!qvars, WQP!qvars

LEMMA PopEffect ==
  ASSUME QInv, WQ!Pop
  PROVE  /\ QInv' /\ Head(queue) \in Keys /\ Head(queue) \notin processing
         /\ processing' = processing \cup {Head(queue)}
         /\ dirty' = dirty \ {Head(queue)}
BY Markers, WQP!PopKeeps DEF WQP!Markers, QInv, WQ!Pop, WQP!Pop

LEMMA FinishEffect ==
  ASSUME NEW k \in processing, QInv, WQ!Finish(k)
  PROVE  QInv' /\ processing' = processing \ {k} /\ dirty' = dirty
BY Markers, WQP!FinishKeeps DEF WQP!Markers, QInv, WQ!Finish, WQP!Finish

LEMMA EmptyQueue ==
  ASSUME queue' = <<>>, dirty' = {}, processing' = {} PROVE QInv'
BY DEF QInv, WQP!QueueInv, WQP!QueueDiscipline, WQP!NoLostItem, WQP!Queued

\* A version that is given out is nobody's.
LEMMA NewVersionUnused ==
  ASSUME NEW k \in Keys, UnusedVersions(k) # {}
  PROVE  /\ NewVersion(k) \in Versions
         /\ \A p \in Objects(k) \ {NoPod} : p.rv # NewVersion(k)
<1>1. NewVersion(k) \in UnusedVersions(k)
  BY DEF NewVersion
<1> QED
  BY <1>1 DEF UnusedVersions

\* The end of a worker's round.
LEMMA FinishItemEffect ==
  ASSUME TypeOK, QInv, WorkersInv, NEW w \in Workers, pc[w] # "idle", FinishItem(w)
  PROVE  /\ QInv' /\ held[w] \in Keys
         /\ held[w] \in processing
         /\ processing' = processing \ {held[w]} /\ dirty' = dirty
         /\ pc' = [pc EXCEPT ![w] = "idle"]
         /\ held' = [held EXCEPT ![w] = NoKey]
         /\ pod' = [pod EXCEPT ![w] = NoPod] /\ cur' = [cur EXCEPT ![w] = NoPod]
         /\ WorkersInv'
<1>1. held[w] \in Keys /\ held[w] \in processing
  BY DEF TypeOK, WorkersInv
<1>2. QInv' /\ processing' = processing \ {held[w]} /\ dirty' = dirty
  BY <1>1, FinishEffect DEF FinishItem
<1>3. /\ pc' = [pc EXCEPT ![w] = "idle"] /\ held' = [held EXCEPT ![w] = NoKey]
      /\ pod' = [pod EXCEPT ![w] = NoPod] /\ cur' = [cur EXCEPT ![w] = NoPod]
  BY DEF FinishItem
<1>4. ExclusiveKey'
  BY <1>3, Markers DEF ExclusiveKey, WorkersInv, TypeOK
<1>5. \A v \in Workers : v # w /\ held[v] \in Keys => held[v] # held[w]
  BY <1>1 DEF WorkersInv, ExclusiveKey
<1>6. WorkersInv'
  BY <1>1, <1>2, <1>3, <1>4, <1>5, Markers DEF WorkersInv, TypeOK
<1> QED
  BY <1>1, <1>2, <1>3, <1>6

\* Entries deleted stay in the maps' type and leave no action without entry.
LEMMA DeleteEffect ==
  ASSUME TypeOK, ActInv, NEW k \in Keys, NEW ms \in SUBSET Maps, DeleteEntry(k, ms)
  PROVE  /\ podMap' \in [Maps -> [Keys -> Info \cup {NoInfo}]]
         /\ act' \in [Keys -> Act \cup {NoAct}]
         /\ ActInv'
         /\ \A m \in Maps, j \in Keys :
              podMap'[m][j] = IF m \in ms /\ j = k THEN NoInfo ELSE podMap[m][j]
<1>1. \A m \in Maps, j \in Keys :
        podMap'[m][j] = IF m \in ms /\ j = k THEN NoInfo ELSE podMap[m][j]
  BY DEF DeleteEntry, TypeOK
<1>2. podMap' \in [Maps -> [Keys -> Info \cup {NoInfo}]]
  BY DEF DeleteEntry, TypeOK
<1>3. act' \in [Keys -> Act \cup {NoAct}]
  BY DEF DeleteEntry, TypeOK
<1>4. ASSUME NEW j \in Keys, act'[j] # NoAct PROVE podMap'[act'[j].map][j] # NoInfo
  <2>1. act'[j] = act[j] /\ act[j] # NoAct /\ act[j].map \in Maps
    BY <1>4 DEF DeleteEntry, TypeOK, Act
  <2>2. ~(act[j].map \in ms /\ j = k)
    BY <1>4, <2>1 DEF DeleteEntry, TypeOK
  <2> QED
    BY <1>1, <2>1, <2>2 DEF ActInv
<1> QED
  BY <1>1, <1>2, <1>3, <1>4 DEF ActInv

-----------------------------------------------------------------------------
(* Types, and what makes every step well defined. *)

BasicInv == TypeOK /\ QInv /\ WorkersInv /\ DownInv /\ ActInv

\* Everything the process holds.
processVars == <<queueVars, workerVars, podMap, act, up>>

LEMMA ProcessFrame ==
  ASSUME BasicInv, UNCHANGED processVars
  PROVE  QInv' /\ WorkersInv' /\ DownInv' /\ ActInv'
BY DEF BasicInv, processVars, queueVars, workerVars, QInv, WQP!QueueInv,
       WQP!QueueDiscipline, WQP!NoLostItem, WQP!Queued, WorkersInv, ExclusiveKey,
       DownInv, ActInv

LEMMA EditBasic ==
  ASSUME BasicInv, NEW k \in Keys, NEW new \in Pod \cup {NoPod}, Edit(k, new)
  PROVE  BasicInv'
<1>1. QInv' /\ WorkersInv' /\ DownInv' /\ ActInv'
  BY ProcessFrame DEF Edit, processVars
<1>2. api' \in [Keys -> Pod \cup {NoPod}]
  <2>1. NewVersion(k) \in Versions
    BY NewVersionUnused DEF Edit
  <2>2. new # NoPod => [new EXCEPT !.rv = NewVersion(k)] \in Pod
    BY <2>1 DEF Pod
  <2> QED
    BY <2>2 DEF Edit, BasicInv, TypeOK
<1>3. edits' \in 0..MaxEdits
  BY Bounds DEF Edit, BasicInv, TypeOK
<1> QED
  BY <1>1, <1>2, <1>3 DEF Edit, BasicInv, TypeOK, informerVars, queueVars, workerVars

LEMMA UserStepIsEdit ==
  ASSUME BasicInv, NEW k \in Keys, UserStep(k)
  PROVE  \E new \in Pod \cup {NoPod} :
           /\ Edit(k, new)
           /\ api[k] # NoPod /\ new # NoPod => new.endpoint = api[k].endpoint
<1>0. api[k] # NoPod => api[k] \in Pod
  BY DEF BasicInv, TypeOK
<1>1. CASE Create(k)
  BY <1>1, NoVersionType DEF Create, Pod
<1>2. CASE SetEnabled(k)
  BY <1>0, <1>2 DEF SetEnabled, Pod
<1>3. CASE SetService(k)
  BY <1>0, <1>3 DEF SetService, Pod
<1>4. CASE SetState(k)
  BY <1>0, <1>4 DEF SetState, Pod
<1>5. CASE SetStatus(k)
  BY <1>0, <1>5 DEF SetStatus, Pod
<1>6. CASE Delete(k)
  BY <1>6 DEF Delete
<1> QED
  BY <1>1, <1>2, <1>3, <1>4, <1>5, <1>6 DEF UserStep

LEMMA InformerBasic ==
  ASSUME BasicInv, NEW k \in Keys, InformerStep(k)
  PROVE  BasicInv'
<1>1. CASE InformerSync(k)
  <2>1. QInv' /\ WorkersInv' /\ DownInv' /\ ActInv'
    BY <1>1, ProcessFrame DEF InformerSync, processVars, envVars
  <2> QED
    BY <1>1, <2>1 DEF InformerSync, BasicInv, TypeOK, envVars, queueVars, workerVars
<1>2. CASE InformerTombstone(k)
  <2>1. QInv' /\ WorkersInv' /\ DownInv' /\ ActInv'
    BY <1>2, ProcessFrame DEF InformerTombstone, processVars
  <2> QED
    BY <1>2, <2>1, Bounds DEF InformerTombstone, BasicInv, TypeOK, queueVars, workerVars
<1>3. CASE HandleEvent(k)
  <2>1. QInv' /\ processing' = processing /\ dirty' = dirty \cup {k}
    BY <1>3, AddEffect DEF HandleEvent, BasicInv
  <2>2. WorkersInv' /\ DownInv' /\ ActInv'
    BY <1>3, <2>1 DEF HandleEvent, BasicInv, workerVars, envVars, WorkersInv,
                      ExclusiveKey, DownInv, ActInv
  <2> QED
    BY <1>3, <2>1, <2>2 DEF HandleEvent, BasicInv, TypeOK, envVars, workerVars,
                            QInv, WQP!QueueInv
<1> QED
  BY <1>1, <1>2, <1>3 DEF InformerStep

LEMMA GetBasic ==
  ASSUME BasicInv, NEW w \in Workers, Get(w)
  PROVE  /\ BasicInv'
         /\ Head(queue) \in Keys /\ Head(queue) \notin processing
         /\ processing' = processing \cup {Head(queue)}
         /\ dirty' = dirty \ {Head(queue)}
<1>1. /\ QInv' /\ Head(queue) \in Keys /\ Head(queue) \notin processing
      /\ processing' = processing \cup {Head(queue)}
      /\ dirty' = dirty \ {Head(queue)}
  BY PopEffect DEF Get, BasicInv
<1>2. \A v \in Workers : held[v] # Head(queue)
  BY <1>1, Markers DEF BasicInv, WorkersInv, TypeOK
<1>3. ExclusiveKey'
  BY <1>1, <1>2 DEF Get, BasicInv, TypeOK, WorkersInv, ExclusiveKey
<1>4. WorkersInv'
  BY <1>1, <1>3, Markers DEF Get, BasicInv, TypeOK, WorkersInv
<1>5. DownInv' /\ ActInv'
  BY DEF Get, BasicInv, DownInv, ActInv, envVars
<1>6. TypeOK'
  BY <1>1 DEF Get, BasicInv, TypeOK, envVars, informerVars, QInv, WQP!QueueInv, Steps
<1> QED
  BY <1>1, <1>4, <1>5, <1>6 DEF BasicInv

LEMMA FetchGoneBasic ==
  ASSUME BasicInv, NEW w \in Workers, FetchGone(w)
  PROVE  BasicInv'
<1>1. /\ QInv' /\ held[w] \in Keys /\ WorkersInv'
      /\ pc' = [pc EXCEPT ![w] = "idle"] /\ held' = [held EXCEPT ![w] = NoKey]
      /\ pod' = [pod EXCEPT ![w] = NoPod] /\ cur' = [cur EXCEPT ![w] = NoPod]
  BY FinishItemEffect DEF FetchGone, BasicInv
<1>2. /\ podMap' \in [Maps -> [Keys -> Info \cup {NoInfo}]]
      /\ act' \in [Keys -> Act \cup {NoAct}] /\ ActInv'
  BY <1>1, DeleteEffect DEF FetchGone, BasicInv
<1>3. up /\ up' = up
  BY DEF FetchGone, BasicInv, DownInv, envVars
<1>4. TypeOK'
  BY <1>1, <1>2 DEF FetchGone, BasicInv, TypeOK, Steps, QInv, WQP!QueueInv, informerVars, envVars
<1> QED
  BY <1>1, <1>2, <1>3, <1>4 DEF BasicInv, DownInv

LEMMA FetchBasic ==
  ASSUME BasicInv, NEW w \in Workers, Fetch(w)
  PROVE  BasicInv'
<1> DEFINE p == cache[held[w]]
           down == [p EXCEPT !.endpoint = Down]
<1>1. held[w] \in Keys /\ held[w] \in processing /\ p \in Pod
  BY DEF Fetch, Manageable, BasicInv, TypeOK, WorkersInv
<1>2. Forget(p) \in Pod /\ down \in Pod /\ Forget(down) \in Pod
  BY <1>1, PodFields, Labels, NoVersionType DEF Forget
<1>3. /\ pc' \in [Workers -> Steps] /\ pod' \in [Workers -> Pod \cup {NoPod}]
      /\ cur' \in [Workers -> Pod \cup {NoPod}]
      /\ \A v \in Workers : v # w => pc'[v] = pc[v] /\ pod'[v] = pod[v] /\ cur'[v] = cur[v]
      /\ pc'[w] \in {"wait", "write", "store"} /\ pod'[w] \in Pod
      /\ pc'[w] \in {"wait", "write"} => cur'[w] \in Pod
  <2>1. PICK q \in Pod, r \in Pod, step \in {"wait", "write", "store"} :
          /\ pod' = [pod EXCEPT ![w] = q] /\ pc' = [pc EXCEPT ![w] = step]
          /\ cur' = [cur EXCEPT ![w] = r] \/ (step = "store" /\ cur' = cur)
    BY <1>1, <1>2 DEF Fetch
  <2>2. step \in Steps
    BY DEF Steps
  <2> QED
    BY <2>1, <2>2 DEF BasicInv, TypeOK
<1>4. WorkersInv'
  BY <1>1, <1>3, Markers DEF Fetch, BasicInv, WorkersInv, ExclusiveKey, queueVars
<1>5. up /\ up' = up
  BY DEF Fetch, BasicInv, DownInv, envVars
<1>6. QInv' /\ ActInv'
  BY DEF Fetch, BasicInv, ActInv, queueVars, QInv, WQP!QueueInv,
         WQP!QueueDiscipline, WQP!NoLostItem, WQP!Queued
<1>7. TypeOK'
  BY <1>3 DEF Fetch, BasicInv, TypeOK, queueVars, informerVars, envVars
<1> QED
  BY <1>4, <1>5, <1>6, <1>7 DEF BasicInv, DownInv

LEMMA PollBasic ==
  ASSUME BasicInv, NEW w \in Workers, Poll(w)
  PROVE  BasicInv'
<1>1. pod[w] \in Pod /\ cur[w] \in Pod /\ held[w] \in Keys
  BY Markers DEF Poll, BasicInv, TypeOK, WorkersInv
<1>2. [pod[w] EXCEPT !.endpoint = Up] \in Pod /\ [cur[w] EXCEPT !.endpoint = Up] \in Pod
  BY <1>1, PodFields, Labels
<1>3. /\ pc' = [pc EXCEPT ![w] = "write"]
      /\ pod' = [pod EXCEPT ![w] = [pod[w] EXCEPT !.endpoint = Up]]
      /\ cur' = [cur EXCEPT ![w] = [cur[w] EXCEPT !.endpoint = Up]]
  BY DEF Poll
<1>4. WorkersInv'
  <2>1. held' = held /\ processing' = processing /\ pc[w] = "wait"
    BY DEF Poll, queueVars
  <2>2. \A v \in Workers : v # w => pc'[v] = pc[v] /\ pod'[v] = pod[v] /\ cur'[v] = cur[v]
    BY <1>3 DEF BasicInv, TypeOK
  <2>3. pc'[w] = "write" /\ pod'[w] # NoPod /\ cur'[w] # NoPod
    BY <1>2, <1>3, Markers DEF BasicInv, TypeOK
  <2> QED
    BY <1>1, <2>1, <2>2, <2>3, Markers DEF BasicInv, WorkersInv, ExclusiveKey
<1>5. up /\ up' = up
  BY DEF Poll, BasicInv, DownInv, envVars
<1>6. QInv' /\ ActInv'
  BY DEF Poll, BasicInv, ActInv, queueVars, QInv, WQP!QueueInv,
         WQP!QueueDiscipline, WQP!NoLostItem, WQP!Queued
<1>7. TypeOK'
  BY <1>2, <1>3 DEF Poll, BasicInv, TypeOK, Steps, queueVars, informerVars, envVars
<1> QED
  BY <1>4, <1>5, <1>6, <1>7 DEF BasicInv, DownInv

\* What Update does at the API server.
LEMMA ApplyUpdateType ==
  ASSUME TypeOK, NEW k \in Keys, NEW p \in Pod, ApplyUpdate(k, p)
  PROVE  /\ api' \in [Keys -> Pod \cup {NoPod}]
         /\ \/ api' = api
            \/ /\ UnusedVersions(k) # {}
               /\ api' = [api EXCEPT ![k] = [p EXCEPT !.rv = NewVersion(k)]]
               /\ api'[k] \in Pod /\ api'[k].endpoint = p.endpoint
               /\ api'[k].rv = NewVersion(k)
               /\ SameButEndpoint(api'[k], p)
<1>1. CASE UNCHANGED api
  BY <1>1 DEF TypeOK
<1>2. CASE /\ UnusedVersions(k) # {}
           /\ api' = [api EXCEPT ![k] = [p EXCEPT !.rv = NewVersion(k)]]
  <2>1. NewVersion(k) \in Versions
    BY <1>2, NewVersionUnused
  <2>2. /\ [p EXCEPT !.rv = NewVersion(k)] \in Pod
        /\ [p EXCEPT !.rv = NewVersion(k)].endpoint = p.endpoint
        /\ [p EXCEPT !.rv = NewVersion(k)].rv = NewVersion(k)
        /\ SameButEndpoint([p EXCEPT !.rv = NewVersion(k)], p)
    BY <2>1, PodFields, SameEndpointOrVersion, Labels
  <2> QED
    BY <1>2, <2>2 DEF TypeOK
<1> QED
  BY <1>1, <1>2 DEF ApplyUpdate

LEMMA WriteOKBasic ==
  ASSUME BasicInv, NEW w \in Workers, WriteOK(w)
  PROVE  BasicInv'
<1>1. cur[w] \in Pod /\ pod[w] \in Pod /\ held[w] \in Keys
  BY Markers DEF WriteOK, BasicInv, TypeOK, WorkersInv
<1>2. api' \in [Keys -> Pod \cup {NoPod}]
  BY <1>1, ApplyUpdateType DEF WriteOK, BasicInv
<1>3. WorkersInv'
  BY <1>1, Markers DEF WriteOK, BasicInv, TypeOK, WorkersInv, ExclusiveKey, queueVars
<1>4. up /\ up' = up
  BY DEF WriteOK, BasicInv, DownInv, envVars
<1>5. QInv' /\ ActInv'
  BY DEF WriteOK, BasicInv, ActInv, queueVars, QInv, WQP!QueueInv,
         WQP!QueueDiscipline, WQP!NoLostItem, WQP!Queued
<1>6. TypeOK'
  BY <1>2 DEF WriteOK, BasicInv, TypeOK, Steps, queueVars, informerVars, envVars
<1> QED
  BY <1>3, <1>4, <1>5, <1>6 DEF BasicInv, DownInv

LEMMA RefetchEffect ==
  ASSUME BasicInv, NEW w \in Workers, pc[w] = "write", Refetch(w)
  PROVE  /\ held[w] \in Keys
         /\ podMap' \in [Maps -> [Keys -> Info \cup {NoInfo}]]
         /\ act' \in [Keys -> Act \cup {NoAct}] /\ ActInv'
         /\ \A m \in Maps, j \in Keys : j # held[w] => podMap'[m][j] = podMap[m][j]
         /\ \/ /\ cache[held[w]] = NoPod
               /\ pc' = [pc EXCEPT ![w] = "store"]
               /\ cur' = [cur EXCEPT ![w] = NoPod]
            \/ /\ cache[held[w]] \in Pod
               /\ [cache[held[w]] EXCEPT !.endpoint = Up] \in Pod
               /\ pc' = pc
               /\ cur' = [cur EXCEPT ![w] = [cache[held[w]] EXCEPT !.endpoint = Up]]
               /\ podMap' = podMap /\ act' = act
<1>1. held[w] \in Keys
  BY DEF BasicInv, TypeOK, WorkersInv
<1>2. CASE cache[held[w]] = NoPod
  <2>1. DeleteEntry(held[w], {"LC"})
    BY <1>2 DEF Refetch
  <2>2. {"LC"} \in SUBSET Maps
    BY DEF Maps
  <2> QED
    BY <1>1, <1>2, <2>1, <2>2, DeleteEffect DEF Refetch, BasicInv
<1>3. CASE cache[held[w]] # NoPod
  <2>1. cache[held[w]] \in Pod
    BY <1>1, <1>3 DEF BasicInv, TypeOK
  <2>2. [cache[held[w]] EXCEPT !.endpoint = Up] \in Pod
    BY <2>1, PodFields, Labels
  <2> QED
    BY <1>1, <1>3, <2>1, <2>2 DEF Refetch, BasicInv, TypeOK, ActInv
<1> QED
  BY <1>2, <1>3

\* The two actions in which an Update fails.
LEMMA WriteAgainBasic ==
  ASSUME BasicInv, NEW w \in Workers, pc[w] = "write", Refetch(w),
         api' \in [Keys -> Pod \cup {NoPod}], faults' \in 0..MaxFaults,
         UNCHANGED <<informerVars, queueVars, held, pod, up, edits, crashes>>
  PROVE  BasicInv'
<1>1. pod[w] \in Pod
  BY Markers DEF BasicInv, TypeOK, WorkersInv
<1>e. /\ podMap' \in [Maps -> [Keys -> Info \cup {NoInfo}]]
      /\ act' \in [Keys -> Act \cup {NoAct}] /\ ActInv'
      /\ \/ /\ pc' = [pc EXCEPT ![w] = "store"]
            /\ cur' = [cur EXCEPT ![w] = NoPod]
         \/ /\ pc' = pc
            /\ [cache[held[w]] EXCEPT !.endpoint = Up] \in Pod
            /\ cur' = [cur EXCEPT ![w] = [cache[held[w]] EXCEPT !.endpoint = Up]]
  BY RefetchEffect
<1>p. /\ pc'[w] \in {"write", "store"} /\ (pc'[w] = "write" => cur'[w] # NoPod)
      /\ \A v \in Workers : v # w => pc'[v] = pc[v] /\ cur'[v] = cur[v]
  <2>1. pc \in [Workers -> Steps] /\ cur \in [Workers -> Pod \cup {NoPod}]
    BY DEF BasicInv, TypeOK
  <2>2. CASE pc' = [pc EXCEPT ![w] = "store"] /\ cur' = [cur EXCEPT ![w] = NoPod]
    BY <2>1, <2>2
  <2>3. CASE /\ pc' = pc /\ [cache[held[w]] EXCEPT !.endpoint = Up] \in Pod
             /\ cur' = [cur EXCEPT ![w] = [cache[held[w]] EXCEPT !.endpoint = Up]]
    <3>1. cur'[w] \in Pod
      BY <2>1, <2>3
    <3> QED
      BY <2>1, <2>3, <3>1, Markers
  <2> QED
    BY <1>e, <2>2, <2>3
<1>2. WorkersInv'
  BY <1>1, <1>p, Markers DEF BasicInv, TypeOK, WorkersInv, ExclusiveKey, queueVars
<1>3. up /\ up' = up
  BY DEF BasicInv, DownInv
<1>4. QInv' /\ ActInv'
  BY <1>e DEF BasicInv, queueVars, QInv, WQP!QueueInv,
         WQP!QueueDiscipline, WQP!NoLostItem, WQP!Queued
<1>5. cur' \in [Workers -> Pod \cup {NoPod}] /\ pc' \in [Workers -> Steps]
  BY <1>e DEF BasicInv, TypeOK, Steps
<1>6. TypeOK'
  BY <1>e, <1>5 DEF BasicInv, TypeOK, queueVars, informerVars
<1> QED
  BY <1>2, <1>3, <1>4, <1>6 DEF BasicInv, DownInv

LEMMA WriteRejectedBasic ==
  ASSUME BasicInv, NEW w \in Workers, WriteRejected(w)
  PROVE  BasicInv'
BY WriteAgainBasic DEF WriteRejected, envVars, BasicInv, TypeOK

LEMMA WriteFailedApi ==
  ASSUME BasicInv, NEW w \in Workers, WriteFailed(w)
  PROVE  api' = api \/ (Accepts(held[w], cur[w]) /\ ApplyUpdate(held[w], cur[w]))
BY DEF WriteFailed

LEMMA WriteFailedBasic ==
  ASSUME BasicInv, NEW w \in Workers, WriteFailed(w)
  PROVE  BasicInv'
<1>1. cur[w] \in Pod /\ held[w] \in Keys
  BY Markers DEF WriteFailed, BasicInv, TypeOK, WorkersInv
<1>2. api' \in [Keys -> Pod \cup {NoPod}]
  BY <1>1, ApplyUpdateType, WriteFailedApi DEF BasicInv, TypeOK
<1>3. faults' \in 0..MaxFaults
  BY Bounds DEF WriteFailed, BasicInv, TypeOK
<1> QED
  BY <1>2, <1>3, WriteAgainBasic DEF WriteFailed

LEMMA StoreEffect ==
  ASSUME BasicInv, NEW w \in Workers, Store(w)
  PROVE  /\ held[w] \in Keys /\ pod[w] \in Pod /\ MapOf(pod[w]) \in Maps
         /\ podMap' \in [Maps -> [Keys -> Info \cup {NoInfo}]]
         /\ podMap'[MapOf(pod[w])][held[w]] \in Info
         /\ podMap'[MapOf(pod[w])][held[w]].pod = pod[w]
         /\ \A m \in Maps, j \in Keys :
              j # held[w] \/ m # MapOf(pod[w]) => podMap'[m][j] = podMap[m][j]
<1> DEFINE k == held[w]
           m == MapOf(pod[w])
           old == podMap[m][k]
           new == [pod |-> pod[w], cpu |-> IF old = NoInfo THEN CPU_UNKNOWN ELSE old.cpu]
<1>1. k \in Keys /\ pod[w] \in Pod
  BY DEF Store, BasicInv, TypeOK, WorkersInv
<1>2. m \in Maps
  BY MapOfType
<1>3. new \in Info
  BY <1>1, <1>2 DEF BasicInv, TypeOK, Info, CPUStates
<1>4. podMap' = [podMap EXCEPT ![m] = [podMap[m] EXCEPT ![k] = new]]
  BY DEF Store
<1>5. new.pod = pod[w]
  OBVIOUS
<1> HIDE DEF m, new
<1>6. /\ podMap' \in [Maps -> [Keys -> Info \cup {NoInfo}]]
      /\ podMap'[m][k] = new
      /\ \A n \in Maps, j \in Keys : j # k \/ n # m => podMap'[n][j] = podMap[n][j]
  BY <1>1, <1>2, <1>3, <1>4 DEF BasicInv, TypeOK
<1> QED
  BY <1>1, <1>2, <1>3, <1>5, <1>6 DEF m

LEMMA StoreBasic ==
  ASSUME BasicInv, NEW w \in Workers, Store(w)
  PROVE  BasicInv'
<1>1. /\ QInv' /\ WorkersInv'
      /\ pc' = [pc EXCEPT ![w] = "idle"] /\ held' = [held EXCEPT ![w] = NoKey]
      /\ pod' = [pod EXCEPT ![w] = NoPod] /\ cur' = [cur EXCEPT ![w] = NoPod]
  BY FinishItemEffect DEF Store, BasicInv
<1>2. ActInv'
  <2> SUFFICES ASSUME NEW j \in Keys, act'[j] # NoAct
               PROVE  podMap'[act'[j].map][j] # NoInfo
    BY DEF ActInv
  <2>1. act'[j] = act[j] /\ act[j].map \in Maps /\ podMap[act[j].map][j] # NoInfo
    BY DEF Store, BasicInv, ActInv, TypeOK, Act
  <2>2. CASE j = held[w] /\ act[j].map = MapOf(pod[w])
    BY <2>1, <2>2, StoreEffect, Markers
  <2>3. CASE ~(j = held[w] /\ act[j].map = MapOf(pod[w]))
    BY <2>1, <2>3, StoreEffect
  <2> QED
    BY <2>2, <2>3
<1>3. up /\ up' = up
  BY DEF Store, BasicInv, DownInv, envVars
<1>4. TypeOK'
  BY <1>1, StoreEffect DEF Store, BasicInv, TypeOK, Steps, QInv, WQP!QueueInv,
                           informerVars, envVars
<1> QED
  BY <1>1, <1>2, <1>3, <1>4 DEF BasicInv, DownInv

\* The end of the process, by a nil dereference or by a kill.
LEMMA ProcessDownBasic ==
  ASSUME BasicInv, ProcessDown, api' = api, edits' = edits, faults' = faults,
         crashes' \in 0..MaxCrashes
  PROVE  BasicInv'
<1>1. QInv'
  BY EmptyQueue DEF ProcessDown
<1>2. /\ \A w \in Workers : pc'[w] = "idle" /\ held'[w] = NoKey
      /\ \A k \in Keys : act'[k] = NoAct
      /\ \A m \in Maps, k \in Keys : podMap'[m][k] = NoInfo
  BY DEF ProcessDown
<1>3. WorkersInv' /\ DownInv' /\ ActInv'
  BY <1>2, Markers DEF WorkersInv, ExclusiveKey, DownInv, ActInv
<1>4. TypeOK'
  BY <1>1 DEF ProcessDown, BasicInv, TypeOK, Steps, QInv, WQP!QueueInv
<1> QED
  BY <1>1, <1>3, <1>4 DEF BasicInv

LEMMA PanicBasic == ASSUME BasicInv, NEW w \in Workers, Panic(w) PROVE BasicInv'
BY ProcessDownBasic DEF Panic, BasicInv, TypeOK

LEMMA CrashBasic == ASSUME BasicInv, Crash PROVE BasicInv'
<1>1. crashes' \in 0..MaxCrashes
  BY Bounds DEF Crash, BasicInv, TypeOK
<1> QED
  BY <1>1, ProcessDownBasic DEF Crash

LEMMA StartBasic == ASSUME BasicInv, Start PROVE BasicInv'
<1>1. QInv' /\ WorkersInv' /\ ActInv'
  BY DEF Start, BasicInv, queueVars, workerVars, QInv, WQP!QueueInv,
         WQP!QueueDiscipline, WQP!NoLostItem, WQP!Queued, WorkersInv, ExclusiveKey, ActInv
<1>2. TypeOK'
  BY DEF Start, BasicInv, TypeOK, queueVars, workerVars
<1> QED
  BY <1>1, <1>2 DEF Start, BasicInv, DownInv

LEMMA LookupType == ASSUME NEW k \in Keys PROVE Lookup(k) \in Maps
BY DEF Lookup, Maps

LEMMA DecisionType == ASSUME NEW p, NEW q PROVE Decision(p, q).cpu \in CPUStates
<1>1. NoDecision.cpu \in CPUStates
  BY DEF NoDecision, CPUStates
<1>2. ASSUME NEW c PROVE StateDecision(p, c).cpu \in CPUStates
  BY <1>1 DEF StateDecision, CPUStates
<1> QED
  BY <1>1, <1>2 DEF Decision, CPUStates

LEMMA RCBasic ==
  ASSUME BasicInv, NEW k \in Keys, RCStep(k)
  PROVE  BasicInv'
<1>1. CASE RCCollect(k)
  <2> DEFINE m == Lookup(k)
             a == [map |-> m, cpu |-> Decision(cache[k], podMap[m][k].pod).cpu]
  <2>1. m \in Maps /\ podMap[m][k] # NoInfo /\ act' = [act EXCEPT ![k] = a]
    BY <1>1, LookupType DEF RCCollect
  <2>2. a \in Act /\ a.map = m
    BY <2>1, DecisionType DEF Act
  <2> HIDE DEF a, m
  <2>3. act' \in [Keys -> Act \cup {NoAct}] /\ \A j \in Keys : j # k => act'[j] = act[j]
    BY <2>1, <2>2 DEF BasicInv, TypeOK
  <2>4. ActInv'
    BY <1>1, <2>1, <2>2, <2>3 DEF RCCollect, BasicInv, TypeOK, ActInv
  <2>5. up /\ up' = up
    BY <1>1, <2>1 DEF RCCollect, BasicInv, DownInv, envVars
  <2>6. QInv' /\ WorkersInv'
    BY <1>1 DEF RCCollect, BasicInv, queueVars, workerVars, QInv, WQP!QueueInv,
                WQP!QueueDiscipline, WQP!NoLostItem, WQP!Queued, WorkersInv, ExclusiveKey
  <2>7. TypeOK'
    BY <1>1, <2>3 DEF RCCollect, BasicInv, TypeOK, informerVars, queueVars, workerVars, envVars
  <2> QED
    BY <2>4, <2>5, <2>6, <2>7 DEF BasicInv, DownInv
<1>2. CASE RCUpdate(k)
  <2> DEFINE m == act[k].map
             new == [podMap[m][k] EXCEPT !.cpu = act[k].cpu]
  <2>1. act[k] \in Act /\ m \in Maps /\ podMap[m][k] \in Info
    BY <1>2 DEF RCUpdate, BasicInv, TypeOK, ActInv, Act
  <2>2. new \in Info
    BY <2>1 DEF Info, Act
  <2>3. /\ podMap' = [podMap EXCEPT ![m] = [podMap[m] EXCEPT ![k] = new]]
        /\ act' = [act EXCEPT ![k] = NoAct]
    BY <1>2 DEF RCUpdate
  <2> HIDE DEF m, new
  <2>4. /\ podMap' \in [Maps -> [Keys -> Info \cup {NoInfo}]]
        /\ podMap'[m][k] = new
        /\ \A n \in Maps, j \in Keys : j # k \/ n # m => podMap'[n][j] = podMap[n][j]
        /\ act' \in [Keys -> Act \cup {NoAct}] /\ act'[k] = NoAct
        /\ \A j \in Keys : j # k => act'[j] = act[j]
    BY <2>1, <2>2, <2>3 DEF BasicInv, TypeOK
  <2>5. ActInv'
    <3>1. ASSUME NEW j \in Keys, act'[j] # NoAct
          PROVE  podMap'[act'[j].map][j] # NoInfo
      <4>1. j # k /\ act'[j] = act[j] /\ act[j] \in Act
        BY <2>4, <3>1 DEF BasicInv, TypeOK
      <4> QED
        BY <2>4, <4>1, <3>1 DEF BasicInv, ActInv, Act
    <3> QED
      BY <3>1 DEF ActInv
  <2>6. up /\ up' = up
    BY <1>2 DEF RCUpdate, BasicInv, DownInv, envVars
  <2>7. QInv' /\ WorkersInv'
    BY <1>2 DEF RCUpdate, BasicInv, queueVars, workerVars, QInv, WQP!QueueInv,
                WQP!QueueDiscipline, WQP!NoLostItem, WQP!Queued, WorkersInv, ExclusiveKey
  <2>8. TypeOK'
    BY <1>2, <2>4 DEF RCUpdate, BasicInv, TypeOK, informerVars, queueVars, workerVars, envVars
  <2> QED
    BY <2>5, <2>6, <2>7, <2>8 DEF BasicInv, DownInv
<1> QED
  BY <1>1, <1>2 DEF RCStep

LEMMA BasicInit == Init => BasicInv
<1> SUFFICES ASSUME Init PROVE BasicInv
  OBVIOUS
<1>1. TypeOK
  <2>1. /\ api \in [Keys -> Pod \cup {NoPod}] /\ cache \in [Keys -> Pod \cup {NoPod}]
        /\ notices \in [Keys -> Nat]
        /\ podMap \in [Maps -> [Keys -> Info \cup {NoInfo}]]
        /\ act \in [Keys -> Act \cup {NoAct}]
    BY DEF Init
  <2>2. missed \in [Keys -> BOOLEAN] /\ up \in BOOLEAN
    BY DEF Init
  <2>3. /\ pc \in [Workers -> Steps] /\ held \in [Workers -> Keys \cup {NoKey}]
        /\ pod \in [Workers -> Pod \cup {NoPod}] /\ cur \in [Workers -> Pod \cup {NoPod}]
    BY DEF Init, Steps
  <2>4. queue \in Seq(Keys) /\ dirty \in SUBSET Keys /\ processing \in SUBSET Keys
    BY DEF Init
  <2>5. edits \in 0..MaxEdits /\ faults \in 0..MaxFaults /\ crashes \in 0..MaxCrashes
    BY Bounds DEF Init
  <2> QED
    BY <2>1, <2>2, <2>3, <2>4, <2>5 DEF TypeOK
<1>2. QInv
  BY DEF Init, QInv, WQP!QueueInv, WQP!QueueDiscipline, WQP!NoLostItem, WQP!Queued
<1>3. WorkersInv /\ DownInv /\ ActInv
  BY Markers DEF Init, WorkersInv, ExclusiveKey, DownInv, ActInv
<1> QED
  BY <1>1, <1>2, <1>3 DEF BasicInv

LEMMA BasicStep == BasicInv /\ [Next]_vars => BasicInv'
<1> SUFFICES ASSUME BasicInv, [Next]_vars PROVE BasicInv'
  OBVIOUS
<1>1. ASSUME NEW k \in Keys, UserStep(k) PROVE BasicInv'
  BY <1>1, UserStepIsEdit, EditBasic
<1>2. ASSUME NEW k \in Keys, InformerStep(k) PROVE BasicInv'
  BY <1>2, InformerBasic
<1>3. ASSUME NEW k \in Keys, RCStep(k) PROVE BasicInv'
  BY <1>3, RCBasic
<1>4. ASSUME NEW w \in Workers, WorkerStep(w) PROVE BasicInv'
  BY <1>4, GetBasic, FetchGoneBasic, FetchBasic, PollBasic, WriteOKBasic,
     WriteRejectedBasic, WriteFailedBasic, StoreBasic, PanicBasic DEF WorkerStep
<1>5. CASE Crash
  BY <1>5, CrashBasic
<1>6. CASE Start
  BY <1>6, StartBasic
<1>7. CASE UNCHANGED vars
  <2>1. QInv' /\ WorkersInv' /\ DownInv' /\ ActInv'
    BY <1>7, ProcessFrame DEF vars, processVars, envVars
  <2> QED
    BY <1>7, <2>1 DEF vars, BasicInv, TypeOK, informerVars, queueVars, workerVars, envVars
<1> QED
  BY <1>1, <1>2, <1>3, <1>4, <1>5, <1>6, <1>7 DEF Next

\* Every variable keeps its type, however users, informer, workers, resource
\* controller, faults and restarts interleave (server.go).
THEOREM PodManagerTypes == Spec => []TypeOK
<1>1. Spec => []BasicInv
  BY BasicInit, BasicStep, PTL DEF Spec
<1>2. BasicInv => TypeOK
  BY DEF BasicInv
<1> QED
  BY <1>1, <1>2, PTL

\* No key is ever in the hands of two workers (server.go:60-64).
THEOREM PodManagerExclusive == Spec => []ExclusiveKey
<1>1. Spec => []BasicInv
  BY BasicInit, BasicStep, PTL DEF Spec
<1>2. BasicInv => ExclusiveKey
  BY DEF BasicInv, WorkersInv
<1> QED
  BY <1>1, <1>2, PTL

-----------------------------------------------------------------------------
(* The maps follow the lister. *)

\* MapsMatch only reads the cached pod and the pods of the entries.
LEMMA MatchFrame ==
  ASSUME NEW k \in Keys, cache'[k] = cache[k], MapsMatch(k),
         \A m \in Maps : /\ podMap'[m][k] = NoInfo <=> podMap[m][k] = NoInfo
                         /\ podMap[m][k] # NoInfo => podMap'[m][k].pod = podMap[m][k].pod
  PROVE  MapsMatch(k)'
<1>1. CASE Manageable(cache[k])
  <2> DEFINE m == MapOf(cache[k])
  <2>1. m \in Maps /\ podMap[m][k] # NoInfo /\ SameButEndpoint(podMap[m][k].pod, cache[k])
    BY <1>1, MapOfType DEF MapsMatch, MapsHolding
  <2>2. podMap'[m][k] # NoInfo /\ SameButEndpoint(podMap'[m][k].pod, cache'[k])
    BY <2>1
  <2>3. MapOf(cache'[k]) = m /\ Manageable(cache'[k])
    BY <1>1
  <2> QED
    BY <2>1, <2>2, <2>3 DEF MapsMatch, MapsHolding
<1>2. CASE ~Manageable(cache[k])
  BY <1>2 DEF MapsMatch, MapsHolding
<1> QED
  BY <1>1, <1>2

TrackInv == CopyInv /\ MapsInv

\* For a key whose events, cache entry and map entries a step leaves alone,
\* nothing changes.
LEMMA TrackKey ==
  ASSUME NEW k \in Keys, MapsInv,
         notices'[k] = notices[k], missed'[k] = missed[k], cache'[k] = cache[k],
         k \in dirty => k \in dirty', k \in processing => k \in processing',
         \A m \in Maps : /\ podMap'[m][k] = NoInfo <=> podMap[m][k] = NoInfo
                         /\ podMap[m][k] # NoInfo => podMap'[m][k].pod = podMap[m][k].pod
  PROVE  Fresh(k)' \/ k \in processing' \/ MapsMatch(k)'
<1>1. CASE Fresh(k)
  BY <1>1 DEF Fresh
<1>2. CASE MapsMatch(k)
  BY <1>2, MatchFrame
<1> QED
  BY <1>1, <1>2 DEF MapsInv

\* A worker that stays past its read keeps what it is right about.
LEMMA TrackWorker ==
  ASSUME NEW w \in Workers, CopyInv,
         pc[w] \in {"wait", "write", "store"}, held'[w] = held[w],
         SameButEndpoint(pod'[w], pod[w]),
         Fresh(held[w]) => Fresh(held[w])',
         cache'[held[w]] = cache[held[w]] \/ Fresh(held[w])'
  PROVE  \/ Fresh(held[w])'
         \/ Manageable(cache'[held'[w]]) /\ SameButEndpoint(pod'[w], cache'[held'[w]])
<1>1. CASE Fresh(held[w])
  BY <1>1
<1>2. CASE ~Fresh(held[w]) /\ cache'[held[w]] = cache[held[w]]
  <2>1. Manageable(cache[held[w]]) /\ SameButEndpoint(pod[w], cache[held[w]])
    BY <1>2 DEF CopyInv
  <2> QED
    BY <1>2, <2>1, SameTransitive
<1> QED
  BY <1>1, <1>2

\* The shape in which CopyInv' is proved.
LEMMA CopyRule ==
  ASSUME \A w \in Workers : pc'[w] \in {"wait", "write", "store"} =>
           /\ held'[w] = held[w]
           /\ \/ Fresh(held[w])'
              \/ Manageable(cache'[held'[w]]) /\ SameButEndpoint(pod'[w], cache'[held'[w]])
  PROVE  CopyInv'
<1> SUFFICES ASSUME NEW w \in Workers, pc'[w] \in {"wait", "write", "store"}
             PROVE  \/ Fresh(held[w])'
                    \/ Manageable(cache'[held'[w]]) /\ SameButEndpoint(pod'[w], cache'[held'[w]])
  BY DEF CopyInv
<1> QED
  OBVIOUS

\* Steps of users, of the API server and of the resource controller.
LEMMA TrackQuiet ==
  ASSUME BasicInv, TrackInv, UNCHANGED <<informerVars, queueVars, held, pod>>,
         \A w \in Workers : pc'[w] \in {"wait", "write", "store"}
                              => pc[w] \in {"wait", "write", "store"},
         \A m \in Maps, k \in Keys :
           /\ podMap'[m][k] = NoInfo <=> podMap[m][k] = NoInfo
           /\ podMap[m][k] # NoInfo => podMap'[m][k].pod = podMap[m][k].pod
  PROVE  TrackInv'
<1>1. MapsInv'
  <2> SUFFICES ASSUME NEW k \in Keys
               PROVE  Fresh(k)' \/ k \in processing' \/ MapsMatch(k)'
    BY DEF MapsInv
  <2> QED
    BY TrackKey DEF TrackInv, informerVars, queueVars
<1>2. CopyInv'
  <2> SUFFICES ASSUME NEW w \in Workers, pc'[w] \in {"wait", "write", "store"}
      PROVE  \/ Fresh(held[w])'
             \/ Manageable(cache'[held'[w]]) /\ SameButEndpoint(pod'[w], cache'[held'[w]])
    BY CopyRule
  <2>1. SameButEndpoint(pod'[w], pod[w])
    BY DEF SameButEndpoint
  <2>2. Fresh(held[w]) => Fresh(held[w])'
    BY DEF Fresh, informerVars, queueVars
  <2> QED
    BY <2>1, <2>2, TrackWorker DEF TrackInv, informerVars
<1> QED
  BY <1>1, <1>2 DEF TrackInv

LEMMA InformerTrack ==
  ASSUME BasicInv, TrackInv, NEW k \in Keys, InformerStep(k)
  PROVE  TrackInv'
<1>1. UNCHANGED <<processing, pc, held, pod, podMap>>
  BY AddEffect DEF InformerStep, InformerSync, InformerTombstone, HandleEvent, BasicInv,
                   queueVars, workerVars
<1>2. Fresh(k)'
  <2>1. CASE InformerSync(k)
    BY <2>1 DEF InformerSync, Fresh, BasicInv, TypeOK
  <2>2. CASE InformerTombstone(k)
    BY <2>2 DEF InformerTombstone, Fresh, BasicInv, TypeOK
  <2>3. CASE HandleEvent(k)
    BY <2>3, AddEffect DEF HandleEvent, Fresh, BasicInv
  <2> QED
    BY <2>1, <2>2, <2>3 DEF InformerStep
<1>3. ASSUME NEW j \in Keys, j # k
      PROVE  /\ notices'[j] = notices[j] /\ missed'[j] = missed[j] /\ cache'[j] = cache[j]
             /\ j \in dirty => j \in dirty'
  BY <1>3, AddEffect DEF InformerStep, InformerSync, InformerTombstone, HandleEvent,
                         BasicInv, TypeOK, queueVars
<1>4. MapsInv'
  <2> SUFFICES ASSUME NEW j \in Keys
               PROVE  Fresh(j)' \/ j \in processing' \/ MapsMatch(j)'
    BY DEF MapsInv
  <2> QED
    BY <1>1, <1>2, <1>3, TrackKey DEF TrackInv
<1>5. CopyInv'
  <2> SUFFICES ASSUME NEW w \in Workers, pc'[w] \in {"wait", "write", "store"}
      PROVE  /\ held'[w] = held[w]
             /\ \/ Fresh(held[w])'
                \/ Manageable(cache'[held'[w]]) /\ SameButEndpoint(pod'[w], cache'[held'[w]])
    BY CopyRule
  <2>1. held[w] \in Keys /\ held'[w] = held[w] /\ pc'[w] = pc[w] /\ pod'[w] = pod[w]
    BY <1>1 DEF BasicInv, WorkersInv, TypeOK
  <2>2. CASE held[w] = k
    BY <1>2, <2>1, <2>2
  <2>3. CASE held[w] # k
    <3>1. SameButEndpoint(pod'[w], pod[w])
      BY <2>1 DEF SameButEndpoint
    <3>2. cache'[held[w]] = cache[held[w]] /\ (Fresh(held[w]) => Fresh(held[w])')
      BY <1>3, <2>1, <2>3 DEF Fresh
    <3> QED
      BY <2>1, <3>1, <3>2, TrackWorker DEF TrackInv
  <2> QED
    BY <2>2, <2>3
<1> QED
  BY <1>4, <1>5 DEF TrackInv

LEMMA GetTrack ==
  ASSUME BasicInv, TrackInv, NEW w \in Workers, Get(w)
  PROVE  TrackInv'
<1>1. /\ Head(queue) \in Keys /\ Head(queue) \notin processing
      /\ processing' = processing \cup {Head(queue)}
      /\ dirty' = dirty \ {Head(queue)}
  BY GetBasic
<1>2. /\ UNCHANGED <<notices, missed, cache, podMap, pod>>
      /\ pc' = [pc EXCEPT ![w] = "fetch"]
      /\ held' = [held EXCEPT ![w] = Head(queue)]
  BY DEF Get, informerVars
<1>3. MapsInv'
  <2> SUFFICES ASSUME NEW j \in Keys
               PROVE  Fresh(j)' \/ j \in processing' \/ MapsMatch(j)'
    BY DEF MapsInv
  <2>1. CASE j = Head(queue)
    BY <1>1, <2>1
  <2>2. CASE j # Head(queue)
    BY <1>1, <1>2, <2>2, TrackKey DEF TrackInv
  <2> QED
    BY <2>1, <2>2
<1>4. CopyInv'
  <2> SUFFICES ASSUME NEW v \in Workers, pc'[v] \in {"wait", "write", "store"}
      PROVE  /\ held'[v] = held[v]
             /\ \/ Fresh(held[v])'
                \/ Manageable(cache'[held'[v]]) /\ SameButEndpoint(pod'[v], cache'[held'[v]])
    BY CopyRule
  <2>1. v # w /\ pc[v] \in {"wait", "write", "store"} /\ held'[v] = held[v] /\ pod'[v] = pod[v]
    BY <1>2 DEF BasicInv, TypeOK
  <2>2. held[v] \in processing
    BY <2>1 DEF BasicInv, WorkersInv, TypeOK
  <2>3. Fresh(held[v]) => Fresh(held[v])'
    BY <1>1, <1>2, <2>1, <2>2 DEF Fresh
  <2>4. SameButEndpoint(pod'[v], pod[v])
    BY <2>1 DEF SameButEndpoint
  <2> QED
    BY <1>2, <2>1, <2>3, <2>4, TrackWorker DEF TrackInv
<1> QED
  BY <1>3, <1>4 DEF TrackInv

LEMMA FetchTrack ==
  ASSUME BasicInv, TrackInv, NEW w \in Workers, Fetch(w)
  PROVE  TrackInv'
<1> DEFINE p == cache[held[w]]
           down == [p EXCEPT !.endpoint = Down]
<1>1. UNCHANGED <<informerVars, queueVars, held, podMap>>
  BY DEF Fetch
<1>2. p \in Pod /\ Manageable(p)
  BY DEF Fetch, Manageable, BasicInv, TypeOK, WorkersInv
<1>3. SameButEndpoint(Forget(p), p) /\ SameButEndpoint(Forget(down), p)
  BY <1>2, SameEndpointOrVersion, Labels
<1>4. /\ SameButEndpoint(pod'[w], p)
      /\ \A v \in Workers : v # w => pc'[v] = pc[v] /\ pod'[v] = pod[v]
  <2>1. pod'[w] \in {Forget(p), Forget(down)}
    BY DEF Fetch, BasicInv, TypeOK
  <2>2. \A v \in Workers : v # w => pc'[v] = pc[v] /\ pod'[v] = pod[v]
    BY DEF Fetch, BasicInv, TypeOK
  <2> QED
    BY <1>3, <2>1, <2>2
<1>5. MapsInv'
  <2> SUFFICES ASSUME NEW j \in Keys
               PROVE  Fresh(j)' \/ j \in processing' \/ MapsMatch(j)'
    BY DEF MapsInv
  <2> QED
    BY <1>1, TrackKey DEF TrackInv, informerVars, queueVars
<1>6. CopyInv'
  <2> SUFFICES ASSUME NEW v \in Workers, pc'[v] \in {"wait", "write", "store"}
      PROVE  /\ held'[v] = held[v]
             /\ \/ Fresh(held[v])'
                \/ Manageable(cache'[held'[v]]) /\ SameButEndpoint(pod'[v], cache'[held'[v]])
    BY CopyRule
  <2>1. held' = held /\ cache' = cache
    BY <1>1 DEF informerVars
  <2>2. CASE v = w
    BY <1>2, <1>4, <2>1, <2>2
  <2>3. CASE v # w
    <3>1. SameButEndpoint(pod'[v], pod[v])
      BY <1>4, <2>3 DEF SameButEndpoint
    <3>2. Fresh(held[v]) => Fresh(held[v])'
      BY <1>1 DEF Fresh, informerVars, queueVars
    <3> QED
      BY <1>4, <2>1, <2>3, <3>1, <3>2, TrackWorker DEF TrackInv
  <2> QED
    BY <2>2, <2>3
<1> QED
  BY <1>5, <1>6 DEF TrackInv

\* A worker ends its round: only the entries of its key have changed.
LEMMA FinishTrack ==
  ASSUME BasicInv, TrackInv, NEW w \in Workers, pc[w] # "idle", FinishItem(w),
         UNCHANGED informerVars, NEW k \in Keys, k = held[w],
         \A m \in Maps, j \in Keys : j # k => podMap'[m][j] = podMap[m][j],
         Fresh(k) \/ MapsMatch(k)'
  PROVE  TrackInv'
<1>1. /\ held[w] \in Keys /\ held[w] \in processing
      /\ processing' = processing \ {held[w]} /\ dirty' = dirty
      /\ pc' = [pc EXCEPT ![w] = "idle"]
      /\ held' = [held EXCEPT ![w] = NoKey]
      /\ pod' = [pod EXCEPT ![w] = NoPod]
  BY FinishItemEffect DEF BasicInv
<1>2. /\ notices' = notices /\ missed' = missed /\ cache' = cache
  BY DEF informerVars
<1>3. MapsInv'
  <2> SUFFICES ASSUME NEW j \in Keys
               PROVE  Fresh(j)' \/ j \in processing' \/ MapsMatch(j)'
    BY DEF MapsInv
  <2>1. CASE j = k
    <3>1. CASE Fresh(k)
      BY <1>1, <1>2, <2>1, <3>1 DEF Fresh
    <3>2. CASE MapsMatch(k)'
      BY <2>1, <3>2
    <3> QED
      BY <3>1, <3>2
  <2>2. CASE j # k
    BY <1>1, <1>2, <2>2, TrackKey DEF TrackInv
  <2> QED
    BY <2>1, <2>2
<1>4. CopyInv'
  <2> SUFFICES ASSUME NEW v \in Workers, pc'[v] \in {"wait", "write", "store"}
      PROVE  /\ held'[v] = held[v]
             /\ \/ Fresh(held[v])'
                \/ Manageable(cache'[held'[v]]) /\ SameButEndpoint(pod'[v], cache'[held'[v]])
    BY CopyRule
  <2>1. v # w /\ pc[v] \in {"wait", "write", "store"} /\ held'[v] = held[v] /\ pod'[v] = pod[v]
    BY <1>1 DEF BasicInv, TypeOK
  <2>2. Fresh(held[v]) => Fresh(held[v])'
    BY <1>1, <1>2, <2>1 DEF Fresh
  <2>3. SameButEndpoint(pod'[v], pod[v])
    BY <2>1 DEF SameButEndpoint
  <2> QED
    BY <1>2, <2>1, <2>2, <2>3, TrackWorker DEF TrackInv
<1> QED
  BY <1>3, <1>4 DEF TrackInv

LEMMA FetchGoneTrack ==
  ASSUME BasicInv, TrackInv, NEW w \in Workers, FetchGone(w)
  PROVE  TrackInv'
<1>1. PICK k \in Keys : k = held[w]
  BY DEF FetchGone, BasicInv, WorkersInv, TypeOK
<1>2. \A m \in Maps, j \in Keys :
        podMap'[m][j] = IF j = k THEN NoInfo ELSE podMap[m][j]
  <2>1. DeleteEntry(k, Maps)
    BY <1>1 DEF FetchGone
  <2> QED
    BY <2>1, DeleteEffect DEF BasicInv
<1>3. MapsMatch(k)'
  <2>1. ~Manageable(cache'[k])
    BY <1>1 DEF FetchGone, informerVars
  <2>2. \A m \in Maps : podMap'[m][k] = NoInfo
    BY <1>2
  <2> QED
    BY <2>1, <2>2 DEF MapsMatch, MapsHolding
<1>4. FinishItem(w) /\ pc[w] # "idle" /\ UNCHANGED informerVars
  BY DEF FetchGone
<1> QED
  BY <1>1, <1>2, <1>3, <1>4, FinishTrack

LEMMA StoreTrack ==
  ASSUME BasicInv, TrackInv, NEW w \in Workers, Store(w)
  PROVE  TrackInv'
<1>1. PICK k \in Keys : k = held[w]
  BY StoreEffect
<1> DEFINE p == pod[w]
           m == MapOf(p)
<1>2. /\ p \in Pod /\ m \in Maps
      /\ podMap'[m][k] \in Info /\ podMap'[m][k].pod = p
      /\ \A n \in Maps, j \in Keys : j # k => podMap'[n][j] = podMap[n][j]
  BY <1>1, StoreEffect
<1>3. FinishItem(w) /\ pc[w] = "store" /\ UNCHANGED informerVars
  BY DEF Store
<1>4. ASSUME ~Fresh(k) PROVE MapsMatch(k)'
  <2>1. Manageable(cache[k]) /\ SameButEndpoint(p, cache[k])
    BY <1>1, <1>3, <1>4 DEF TrackInv, CopyInv
  <2>2. cache[k] \in Pod /\ cache' = cache
    BY <1>3, <2>1 DEF Manageable, BasicInv, TypeOK, informerVars
  <2>3. MapOf(cache[k]) = m
    BY <1>2, <2>1, <2>2, SameDecides
  <2>4. podMap'[m][k] # NoInfo
    BY <1>2, Markers
  <2> HIDE DEF m
  <2>5. MapOf(cache'[k]) \in MapsHolding(k)'
    BY <1>2, <2>2, <2>3, <2>4 DEF MapsHolding
  <2>6. SameButEndpoint(podMap'[MapOf(cache'[k])][k].pod, cache'[k])
    BY <1>2, <2>1, <2>2, <2>3
  <2> QED
    BY <2>1, <2>2, <2>5, <2>6 DEF MapsMatch
<1> QED
  BY <1>1, <1>2, <1>3, <1>4, FinishTrack

LEMMA PollTrack ==
  ASSUME BasicInv, TrackInv, NEW w \in Workers, Poll(w)
  PROVE  TrackInv'
<1>1. /\ UNCHANGED <<informerVars, queueVars, held, podMap>> /\ pc[w] = "wait"
      /\ pc' = [pc EXCEPT ![w] = "write"]
      /\ pod' = [pod EXCEPT ![w] = [pod[w] EXCEPT !.endpoint = Up]]
  BY DEF Poll
<1>2. SameButEndpoint([pod[w] EXCEPT !.endpoint = Up], pod[w])
  <2>1. pod[w] \in Pod
    BY <1>1 DEF BasicInv, TypeOK, WorkersInv
  <2> QED
    BY <2>1, SameEndpointOrVersion, Labels
<1>3. MapsInv'
  <2> SUFFICES ASSUME NEW j \in Keys
               PROVE  Fresh(j)' \/ j \in processing' \/ MapsMatch(j)'
    BY DEF MapsInv
  <2> QED
    BY <1>1, TrackKey DEF TrackInv, informerVars, queueVars
<1>4. CopyInv'
  <2> SUFFICES ASSUME NEW v \in Workers, pc'[v] \in {"wait", "write", "store"}
      PROVE  /\ held'[v] = held[v]
             /\ \/ Fresh(held[v])'
                \/ Manageable(cache'[held'[v]]) /\ SameButEndpoint(pod'[v], cache'[held'[v]])
    BY CopyRule
  <2>1. pc[v] \in {"wait", "write", "store"}
    BY <1>1 DEF BasicInv, TypeOK
  <2>2. SameButEndpoint(pod'[v], pod[v])
    BY <1>1, <1>2 DEF SameButEndpoint, BasicInv, TypeOK
  <2>3. Fresh(held[v]) => Fresh(held[v])'
    BY <1>1 DEF Fresh, informerVars, queueVars
  <2> QED
    BY <1>1, <2>1, <2>2, <2>3, TrackWorker DEF TrackInv, informerVars
<1> QED
  BY <1>3, <1>4 DEF TrackInv

LEMMA WriteOKTrack ==
  ASSUME BasicInv, TrackInv, NEW w \in Workers, WriteOK(w)
  PROVE  TrackInv'
<1>1. \A v \in Workers : pc'[v] \in {"wait", "write", "store"}
                           => pc[v] \in {"wait", "write", "store"}
  BY DEF WriteOK, BasicInv, TypeOK
<1> QED
  BY <1>1, TrackQuiet DEF WriteOK

\* A failed Update may delete the LC entry, while the key is being processed.
LEMMA WriteAgainTrack ==
  ASSUME BasicInv, TrackInv, NEW w \in Workers, pc[w] = "write", Refetch(w),
         UNCHANGED <<informerVars, queueVars, held, pod>>
  PROVE  TrackInv'
<1>1. PICK k \in Keys : k = held[w] /\ k \in processing
  BY DEF BasicInv, WorkersInv, TypeOK
<1>2. /\ \A m \in Maps, j \in Keys : j # k => podMap'[m][j] = podMap[m][j]
      /\ \/ pc' = [pc EXCEPT ![w] = "store"]
         \/ pc' = pc
  BY <1>1, RefetchEffect
<1>3. MapsInv'
  <2> SUFFICES ASSUME NEW j \in Keys
               PROVE  Fresh(j)' \/ j \in processing' \/ MapsMatch(j)'
    BY DEF MapsInv
  <2>1. CASE j = k
    BY <1>1, <2>1 DEF queueVars
  <2>2. CASE j # k
    BY <1>2, <2>2, TrackKey DEF TrackInv, informerVars, queueVars
  <2> QED
    BY <2>1, <2>2
<1>4. CopyInv'
  <2> SUFFICES ASSUME NEW v \in Workers, pc'[v] \in {"wait", "write", "store"}
      PROVE  /\ held'[v] = held[v]
             /\ \/ Fresh(held[v])'
                \/ Manageable(cache'[held'[v]]) /\ SameButEndpoint(pod'[v], cache'[held'[v]])
    BY CopyRule
  <2>1. pc[v] \in {"wait", "write", "store"}
    BY <1>2 DEF BasicInv, TypeOK
  <2>2. SameButEndpoint(pod'[v], pod[v])
    BY DEF SameButEndpoint
  <2>3. Fresh(held[v]) => Fresh(held[v])'
    BY DEF Fresh, informerVars, queueVars
  <2> QED
    BY <2>1, <2>2, <2>3, TrackWorker DEF TrackInv, informerVars
<1> QED
  BY <1>3, <1>4 DEF TrackInv

LEMMA RCTrack ==
  ASSUME BasicInv, TrackInv, NEW k \in Keys, RCStep(k)
  PROVE  TrackInv'
<1>1. CASE RCCollect(k)
  BY <1>1, TrackQuiet DEF RCCollect, workerVars
<1>2. CASE RCUpdate(k)
  <2> DEFINE m == act[k].map
             new == [podMap[m][k] EXCEPT !.cpu = act[k].cpu]
  <2>1. m \in Maps /\ podMap[m][k] \in Info
    BY <1>2 DEF RCUpdate, BasicInv, TypeOK, ActInv, Act
  <2>2. new \in Info /\ new.pod = podMap[m][k].pod
    BY <1>2, <2>1 DEF RCUpdate, Info, Act, BasicInv, TypeOK
  <2>3. podMap' = [podMap EXCEPT ![m] = [podMap[m] EXCEPT ![k] = new]]
    BY <1>2 DEF RCUpdate
  <2> HIDE DEF m, new
  <2>4. /\ podMap'[m][k] = new
        /\ \A n \in Maps, j \in Keys : j # k \/ n # m => podMap'[n][j] = podMap[n][j]
    BY <2>1, <2>3 DEF BasicInv, TypeOK
  <2>5. podMap[m][k] # NoInfo /\ new # NoInfo
    BY <2>1, <2>2, Markers
  <2>6. \A n \in Maps, j \in Keys :
           /\ podMap'[n][j] = NoInfo <=> podMap[n][j] = NoInfo
           /\ podMap[n][j] # NoInfo => podMap'[n][j].pod = podMap[n][j].pod
    BY <2>2, <2>4, <2>5
  <2> QED
    BY <1>2, <2>6, TrackQuiet DEF RCUpdate, workerVars
<1> QED
  BY <1>1, <1>2 DEF RCStep

LEMMA DownTrack ==
  ASSUME BasicInv, ProcessDown
  PROVE  TrackInv'
<1>1. CopyInv'
  BY CopyRule DEF ProcessDown
<1>2. ASSUME NEW k \in Keys PROVE MapsMatch(k)'
  <2>1. ~Manageable(cache'[k]) /\ \A m \in Maps : podMap'[m][k] = NoInfo
    BY DEF ProcessDown, Manageable
  <2> QED
    BY <2>1 DEF MapsMatch, MapsHolding
<1> QED
  BY <1>1, <1>2 DEF TrackInv, MapsInv

LEMMA StartTrack ==
  ASSUME BasicInv, Start
  PROVE  TrackInv'
<1>1. CopyInv'
  BY CopyRule DEF Start, BasicInv, DownInv, workerVars
<1>2. ASSUME NEW k \in Keys PROVE Fresh(k)' \/ MapsMatch(k)'
  <2>1. CASE api[k] = NoPod
    <3>1. ~Manageable(cache'[k]) /\ \A m \in Maps : podMap'[m][k] = NoInfo
      BY <2>1 DEF Start, Manageable, BasicInv, DownInv
    <3> QED
      BY <3>1 DEF MapsMatch, MapsHolding
  <2>2. CASE api[k] # NoPod
    BY <2>2 DEF Start, Fresh
  <2> QED
    BY <2>1, <2>2
<1> QED
  BY <1>1, <1>2 DEF TrackInv, MapsInv

LEMMA TrackInit == Init => TrackInv
<1> SUFFICES ASSUME Init PROVE TrackInv
  OBVIOUS
<1>1. \A k \in Keys : ~Manageable(cache[k]) /\ MapsHolding(k) = {}
  BY DEF Init, Manageable, MapsHolding
<1> QED
  BY <1>1 DEF Init, TrackInv, CopyInv, MapsInv, MapsMatch

LEMMA TrackStep == BasicInv /\ TrackInv /\ [Next]_vars => TrackInv'
<1> SUFFICES ASSUME BasicInv, TrackInv, [Next]_vars PROVE TrackInv'
  OBVIOUS
<1>1. ASSUME NEW k \in Keys, UserStep(k) PROVE TrackInv'
  <2>1. PICK new \in Pod \cup {NoPod} : Edit(k, new)
    BY <1>1, UserStepIsEdit
  <2> QED
    BY <2>1, TrackQuiet DEF Edit, workerVars
<1>2. ASSUME NEW k \in Keys, InformerStep(k) PROVE TrackInv'
  BY <1>2, InformerTrack
<1>3. ASSUME NEW k \in Keys, RCStep(k) PROVE TrackInv'
  BY <1>3, RCTrack
<1>4. ASSUME NEW w \in Workers, WorkerStep(w) PROVE TrackInv'
  <2>1. CASE WriteRejected(w)
    BY <2>1, WriteAgainTrack DEF WriteRejected
  <2>2. CASE WriteFailed(w)
    BY <2>2, WriteAgainTrack DEF WriteFailed
  <2>3. CASE Panic(w)
    BY <2>3, DownTrack DEF Panic
  <2> QED
    BY <1>4, <2>1, <2>2, <2>3, GetTrack, FetchGoneTrack, FetchTrack, PollTrack,
       WriteOKTrack, StoreTrack DEF WorkerStep
<1>5. CASE Crash
  BY <1>5, DownTrack DEF Crash
<1>6. CASE Start
  BY <1>6, StartTrack
<1>7. CASE UNCHANGED vars
  BY <1>7, TrackQuiet DEF vars, workerVars
<1> QED
  BY <1>1, <1>2, <1>3, <1>4, <1>5, <1>6, <1>7 DEF Next

\* However long a worker waits between its read of the lister and its store,
\* and however its events are merged, once a pod's events are handled the maps
\* (server.go:380-479) hold that pod as the lister knows it, or nothing.
THEOREM PodManagerSettles == Spec => []SettledMaps
<1>1. Spec => [](BasicInv /\ TrackInv)
  BY BasicInit, BasicStep, TrackInit, TrackStep, PTL DEF Spec
<1>2. TrackInv => SettledMaps
  BY DEF TrackInv, MapsInv, SettledMaps, Settled, Fresh, BasicInv, TypeOK
<1> QED
  BY <1>1, <1>2, PTL

=============================================================================
