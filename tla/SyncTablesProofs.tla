--------------------------- MODULE SyncTablesProofs ---------------------------
(***************************************************************************)
(* The tables that syncs share, for any pods, workers, services and labels *)
(* and any number of edits, faults and collections.                        *)
(***************************************************************************)
EXTENDS SyncTables, CgroupPathProofs

\* The queue lemmas, about the manager's queue.
WQP == INSTANCE WorkQueueProofs WITH Items <- Keys, NoItem <- NoKey, Exited <- NoTarget,
                                     waiting <- {}, shuttingDown <- FALSE, asleep <- {}

QInv == WQP!QueueInv

QTypes == queue \in Seq(Keys) /\ dirty \subseteq Keys /\ processing \subseteq Keys

LEMMA AddEffect ==
  ASSUME NEW k \in Keys, QInv, WQ!Add(k)
  PROVE  QInv' /\ QTypes' /\ processing' = processing /\ dirty' = dirty \cup {k}
<1>1. QInv' /\ processing' = processing /\ dirty' = dirty \cup {k}
  BY TablesMarkers, WQP!AddKeeps DEF WQP!Markers, QInv, WQ!Add, WQP!Add, WQ!qvars, WQP!qvars
<1> QED
  BY <1>1 DEF QTypes, QInv, WQP!QueueInv

LEMMA PopEffect ==
  ASSUME QInv, WQ!Pop
  PROVE  /\ QInv' /\ QTypes' /\ Head(queue) \in Keys /\ Head(queue) \notin processing
         /\ processing' = processing \cup {Head(queue)}
         /\ dirty' = dirty \ {Head(queue)}
<1>1. /\ QInv' /\ Head(queue) \in Keys /\ Head(queue) \notin processing
      /\ processing' = processing \cup {Head(queue)}
      /\ dirty' = dirty \ {Head(queue)}
  BY TablesMarkers, WQP!PopKeeps DEF WQP!Markers, QInv, WQ!Pop, WQP!Pop
<1> QED
  BY <1>1 DEF QTypes, QInv, WQP!QueueInv

LEMMA FinishEffect ==
  ASSUME NEW k \in processing, QInv, WQ!Finish(k)
  PROVE  QInv' /\ QTypes' /\ processing' = processing \ {k} /\ dirty' = dirty
<1>1. QInv' /\ processing' = processing \ {k} /\ dirty' = dirty
  BY TablesMarkers, WQP!FinishKeeps DEF WQP!Markers, QInv, WQ!Finish, WQP!Finish
<1> QED
  BY <1>1 DEF QTypes, QInv, WQP!QueueInv

LEMMA EmptyQueue ==
  ASSUME queue' = <<>>, dirty' = {}, processing' = {} PROVE QInv' /\ QTypes'
BY DEF QInv, QTypes, WQP!QueueInv, WQP!QueueDiscipline, WQP!NoLostItem, WQP!Queued

LEMMA SameQueue ==
  ASSUME QInv, UNCHANGED queueVars
  PROVE  QInv' /\ QTypes' /\ processing' = processing /\ dirty' = dirty
BY DEF QInv, QTypes, queueVars, WQP!QueueInv, WQP!QueueDiscipline, WQP!NoLostItem, WQP!Queued

-----------------------------------------------------------------------------
(* Pods, weights and paths. *)

LEMMA WordRange == \A n \in Int : n % Word \in 0 .. Word - 1
BY TablesBounds

LEMMA WeightTypes ==
  /\ {NoDest, 0, 1} \subseteq Weights
  /\ \A p \in Pods : p.weight # NoLabel =>
       WeightOf(p) \in Int /\ Stored(WeightOf(p)) \in Weights
<1>1. {NoDest, 0, 1} \subseteq Weights
  BY TablesBounds DEF Weights
<1>2. ASSUME NEW p \in Pods, p.weight # NoLabel PROVE WeightOf(p) \in Int
  BY <1>2, PodsAssumption, TablesMarkers, TablesBounds DEF WeightOf, Pod
<1>3. ASSUME NEW p \in Pods, p.weight # NoLabel PROVE Stored(WeightOf(p)) \in Weights
  BY <1>2, <1>3, WordRange DEF Stored, Weights
<1> QED
  BY <1>1, <1>2, <1>3

LEMMA PodTypes ==
  ASSUME NEW p \in Pods
  PROVE  /\ p.key \in Keys /\ p.uid \in Uids /\ p.qos \in QoSClasses
         /\ p.group \in Groups \cup {NoGroup} /\ p.map \in Maps
         /\ p.addr \in Addrs \cup {NoAddr} /\ p.cid \in Cids \cup {NoCid}
BY PodsAssumption DEF Pod

LEMMA CgroupTypes ==
  ASSUME NEW p \in Pods
  PROVE  /\ CgroupOf(p) \in Seq(Seq(Parts))
         /\ p.cid # NoCid => ContainerOf(p) \in Seq(Seq(Parts))
BY PodTypes, PathTypes DEF CgroupOf, ContainerOf

-----------------------------------------------------------------------------
(* Types, and what the workers know. *)

ListerInv == \A k \in Keys : lister[k] # NoPod => lister[k].key = k

\* A worker works on a pod of the key it holds; it edits the real server of the
\* pod's address; it stores a pod whose group is registered.
WorkerOK(w) ==
  /\ pc[w] = "idle" <=> held[w] = NoKey
  /\ held[w] # NoKey => held[w] \in processing
  /\ pc[w] \in {"scan", "edit", "load", "store"} => pod[w] \in Pods /\ pod[w].key = held[w]
  /\ pc[w] \in {"scan", "edit"} => pod[w].weight # NoLabel
  /\ pc[w] = "edit" => target[w] \in Target /\ target[w][2] = pod[w].addr
  /\ pc[w] = "store" => /\ pod[w].cid # NoCid
                        /\ pod[w].group # NoGroup => groups[pod[w].group] # NoPath

OneHolder == \A v, w \in Workers : held[v] = held[w] /\ held[v] # NoKey => v = w
WorkersInv == OneHolder /\ \A w \in Workers : WorkerOK(w)

Basic == TypeOK /\ QInv /\ ListerInv /\ WorkersInv

\* What a step of one worker leaves to the others.
LEMMA OthersKeep ==
  ASSUME NEW w \in Workers, TypeOK, TypeOK', WorkersInv,
         \A v \in Workers \ {w} : /\ pc'[v] = pc[v] /\ held'[v] = held[v] /\ pod'[v] = pod[v]
                                  /\ target'[v] = target[v],
         \A k \in processing : k # held[w] => k \in processing',
         \A g \in Groups : groups[g] # NoPath => groups'[g] # NoPath,
         held'[w] = NoKey \/ held'[w] = held[w] \/ held'[w] \notin processing,
         WorkerOK(w)'
  PROVE  WorkersInv'
<1>1. ASSUME NEW v \in Workers, v # w PROVE WorkerOK(v)'
  <2>1. WorkerOK(v) /\ (held[v] = held[w] /\ held[v] # NoKey => v = w)
    BY DEF WorkersInv, OneHolder
  <2>2. pod[v] \in Pods /\ pod[v].group # NoGroup => pod[v].group \in Groups
    BY PodTypes
  <2> QED
    BY <1>1, <2>1, <2>2 DEF WorkerOK
<1>2. OneHolder'
  BY DEF WorkersInv, WorkerOK, OneHolder
<1> QED
  BY <1>1, <1>2 DEF WorkersInv

\* Nothing the workers know changes.
LEMMA WorkersKeep ==
  ASSUME WorkersInv, UNCHANGED workerVars, UNCHANGED groups, processing' = processing
  PROVE  WorkersInv'
BY DEF WorkersInv, WorkerOK, OneHolder, workerVars

LEMMA ListerKeeps == ASSUME ListerInv, UNCHANGED lister PROVE ListerInv'
BY DEF ListerInv

LEMMA EventBasic ==
  ASSUME Basic, NEW k \in Keys, Event(k) PROVE Basic'
<1>1. QInv' /\ QTypes' /\ processing' = processing
  BY SameQueue DEF Basic, Event
<1>2. TypeOK'
  <2>1. lister' \in [Keys -> Pods \cup {NoPod}] /\ kept' \in [Addrs -> BOOLEAN]
    BY DEF Basic, Event, TypeOK
  <2>2. calls' \subseteq Keys /\ edits' \in 0 .. MaxEdits
    BY TablesBounds DEF Basic, Event, TypeOK
  <2>3. steady' \subseteq steady
    BY DEF Event, KeepSteady
  <2> QED
    BY <1>1, <2>1, <2>2, <2>3 DEF Basic, Event, TypeOK, QTypes, workerVars, statVars, tableVars
<1>3. ListerInv'
  BY DEF Basic, Event, TypeOK, ListerInv
<1>4. WorkersInv'
  BY <1>1, WorkersKeep DEF Basic, Event, tableVars
<1> QED
  BY <1>1, <1>2, <1>3, <1>4 DEF Basic

LEMMA HandleEventBasic ==
  ASSUME Basic, NEW k \in Keys, HandleEvent(k) PROVE Basic'
<1>1. QInv' /\ QTypes' /\ processing' = processing
  BY AddEffect DEF Basic, HandleEvent
<1>2. TypeOK'
  BY <1>1 DEF Basic, HandleEvent, TypeOK, QTypes, workerVars, statVars, tableVars, boundVars
<1>3. WorkersInv' /\ ListerInv'
  BY <1>1, WorkersKeep, ListerKeeps DEF Basic, HandleEvent, tableVars
<1> QED
  BY <1>1, <1>2, <1>3 DEF Basic

LEMMA ProxyBasic ==
  ASSUME Basic, NEW s \in Services, NEW a \in Addrs, ProxyStep(s, a) PROVE Basic'
<1>1. PICK weight \in {NoDest, 0, 1} : Proxy(s, a, weight)
  BY DEF ProxyStep, ProxyAdds, ProxyDrains, ProxyRemoves
<1>2. QInv' /\ QTypes' /\ processing' = processing
  BY <1>1, SameQueue DEF Basic, Proxy
<1>3. TypeOK'
  <2>1. weight \in Weights
    BY WeightTypes
  <2>2. dests' \in [Services -> [Addrs -> Weights]] /\ kept' \in [Addrs -> BOOLEAN]
    BY <1>1, <2>1 DEF Basic, Proxy, TypeOK
  <2>3. proxied' \in 0 .. MaxProxy
    BY <1>1, TablesBounds DEF Basic, Proxy, TypeOK
  <2> QED
    BY <1>1, <1>2, <2>2, <2>3 DEF Basic, Proxy, TypeOK, QTypes, workerVars, statVars
<1>4. WorkersInv' /\ ListerInv'
  BY <1>1, <1>2, WorkersKeep, ListerKeeps DEF Basic, Proxy
<1> QED
  BY <1>2, <1>3, <1>4 DEF Basic

\* A step of worker w that holds on to its key and leaves the queue alone.
LEMMA StepBasic ==
  ASSUME Basic, NEW w \in Workers, UNCHANGED <<queueVars, lister, held>>,
         \A v \in Workers \ {w} : pc'[v] = pc[v] /\ pod'[v] = pod[v] /\ target'[v] = target[v],
         \A g \in Groups : groups[g] # NoPath => groups'[g] # NoPath,
         QTypes' => TypeOK', WorkerOK(w)'
  PROVE  Basic'
<1>1. QInv' /\ QTypes' /\ processing' = processing
  BY SameQueue DEF Basic
<1>2. WorkersInv'
  BY <1>1, OthersKeep DEF Basic
<1> QED
  BY <1>1, <1>2, ListerKeeps DEF Basic

LEMMA HoldsKey ==
  ASSUME Basic, NEW w \in Workers, pc[w] # "idle"
  PROVE  held[w] \in Keys /\ held[w] \in processing
BY DEF Basic, WorkersInv, WorkerOK, TypeOK

LEMMA GetBasic ==
  ASSUME Basic, NEW w \in Workers, Get(w) PROVE Basic'
<1>1. /\ QInv' /\ QTypes' /\ Head(queue) \in Keys /\ Head(queue) \notin processing
      /\ processing' = processing \cup {Head(queue)}
  BY PopEffect DEF Basic, Get
<1>2. TypeOK'
  BY <1>1 DEF Basic, Get, Goto, TypeOK, QTypes, Steps, statVars, tableVars, boundVars
<1>3. WorkerOK(w)'
  BY <1>1, TablesMarkers DEF Basic, Get, Goto, TypeOK, WorkerOK
<1>4. WorkersInv'
  BY <1>1, <1>2, <1>3, OthersKeep DEF Basic, Get, Goto, TypeOK, tableVars
<1> QED
  BY <1>1, <1>2, <1>4, ListerKeeps DEF Basic, Get

LEMMA FetchBasic ==
  ASSUME Basic, NEW w \in Workers, Fetch(w) PROVE Basic'
<1>1. /\ held[w] \in Keys /\ lister[held[w]] \in Pods /\ lister[held[w]].key = held[w]
      /\ pod' = [pod EXCEPT ![w] = lister[held[w]]] /\ lister[held[w]] # NoPod
      /\ held[w] # NoKey
  BY HoldsKey, TablesMarkers DEF Basic, TypeOK, ListerInv, Fetch
<1>2. /\ pc' \in {[pc EXCEPT ![w] = "load"], [pc EXCEPT ![w] = "scan"]}
      /\ pc'[w] = "scan" => lister[held[w]].weight # NoLabel
      /\ pc'[w] \in {"load", "scan"}
      /\ todo' = todo \/ todo' = [todo EXCEPT ![w] = Services]
  BY DEF Fetch, Goto, Basic, TypeOK
<1>3. QTypes' => TypeOK'
  <2>1. /\ todo' \in [Workers -> SUBSET Services] /\ pc' \in [Workers -> Steps]
        /\ pod' \in [Workers -> Pods \cup {NoPod}]
    BY <1>1, <1>2 DEF Basic, TypeOK, Steps
  <2> QED
    BY <2>1 DEF Basic, Fetch, TypeOK, QTypes, statVars, tableVars, boundVars
<1>4. WorkerOK(w)'
  BY <1>1, <1>2, HoldsKey DEF Basic, Fetch, TypeOK, WorkerOK, queueVars
<1> QED
  BY <1>1, <1>2, <1>3, <1>4, StepBasic DEF Basic, Fetch, TypeOK, tableVars

LEMMA ScanMissBasic ==
  ASSUME Basic, NEW w \in Workers, NEW s \in Services, ScanMiss(w, s) PROVE Basic'
<1>1. /\ pc[w] = "scan" /\ pc' \in {pc, [pc EXCEPT ![w] = "load"]}
      /\ pc'[w] \in {"scan", "load"}
  BY DEF ScanMiss, Goto, Basic, TypeOK
<1>2. QTypes' => TypeOK'
  BY <1>1 DEF Basic, ScanMiss, TypeOK, QTypes, Steps, statVars, tableVars, boundVars
<1>3. WorkerOK(w)'
  BY <1>1, HoldsKey DEF Basic, ScanMiss, TypeOK, WorkersInv, WorkerOK, queueVars
<1> QED
  BY <1>1, <1>2, <1>3, StepBasic DEF Basic, ScanMiss, TypeOK, tableVars

LEMMA ScanHitBasic ==
  ASSUME Basic, NEW w \in Workers, NEW s \in Services, ScanHit(w, s) PROVE Basic'
<1>1. PICK a \in Addrs : a = pod[w].addr /\ target' = [target EXCEPT ![w] = <<s, a>>]
  BY DEF ScanHit, Found, Matches
<1>2. <<s, a>> \in Target
  BY DEF Target
<1>3. QTypes' => TypeOK'
  BY <1>1, <1>2 DEF Basic, ScanHit, Goto, TypeOK, QTypes, Steps, statVars, tableVars, boundVars
<1>4. WorkerOK(w)'
  BY <1>1, <1>2, HoldsKey DEF Basic, ScanHit, Goto, TypeOK, WorkersInv, WorkerOK, queueVars
<1> QED
  BY <1>1, <1>3, <1>4, StepBasic DEF Basic, ScanHit, Goto, TypeOK, tableVars

\* The weights EditWeight leaves in the table.
LEMMA EditEffect ==
  ASSUME Basic, NEW w \in Workers, EditWeight(w)
  PROVE  /\ pod[w] \in Pods /\ pod[w].weight # NoLabel /\ pod[w].key = held[w]
         /\ \E s \in Services, a \in Addrs :
              /\ target[w] = <<s, a>> /\ a = pod[w].addr
              /\ dests' = IF dests[s][a] # NoDest /\ Accepted(WeightOf(pod[w]))
                          THEN [dests EXCEPT ![s][a] = Stored(WeightOf(pod[w]))] ELSE dests
<1>1. /\ pod[w] \in Pods /\ pod[w].weight # NoLabel /\ pod[w].key = held[w]
      /\ target[w] \in Target /\ target[w][2] = pod[w].addr
  BY DEF Basic, WorkersInv, WorkerOK, EditWeight
<1>2. PICK s \in Services, a \in Addrs : target[w] = <<s, a>>
  BY <1>1 DEF Target
<1>3. target[w][1] = s /\ target[w][2] = a
  BY <1>2
<1>4. dests' = IF dests[s][a] # NoDest /\ Accepted(WeightOf(pod[w]))
               THEN [dests EXCEPT ![s][a] = Stored(WeightOf(pod[w]))] ELSE dests
  BY <1>3 DEF EditWeight
<1> QED
  BY <1>1, <1>2, <1>3, <1>4

LEMMA EditWeightBasic ==
  ASSUME Basic, NEW w \in Workers, EditWeight(w) PROVE Basic'
<1>1. dests' \in [Services -> [Addrs -> Weights]]
  <2>1. PICK s \in Services, a \in Addrs :
          dests' = IF dests[s][a] # NoDest /\ Accepted(WeightOf(pod[w]))
                   THEN [dests EXCEPT ![s][a] = Stored(WeightOf(pod[w]))] ELSE dests
    BY EditEffect
  <2>2. Stored(WeightOf(pod[w])) \in Weights
    BY EditEffect, WeightTypes
  <2> QED
    BY <2>1, <2>2 DEF Basic, TypeOK
<1>2. QTypes' => TypeOK'
  BY <1>1 DEF Basic, EditWeight, Goto, TypeOK, QTypes, Steps, statVars, boundVars
<1>3. WorkerOK(w)'
  BY HoldsKey DEF Basic, EditWeight, Goto, TypeOK, WorkersInv, WorkerOK, queueVars
<1> QED
  BY <1>2, <1>3, StepBasic DEF Basic, EditWeight, Goto, TypeOK

LEMMA IPVSFailsBasic ==
  ASSUME Basic, NEW w \in Workers, IPVSFails(w) PROVE Basic'
<1>1. /\ pc' = [pc EXCEPT ![w] = "load"] /\ pc[w] \in {"scan", "edit"}
      /\ target' = [target EXCEPT ![w] = NoTarget] /\ todo' = [todo EXCEPT ![w] = {}]
  BY DEF IPVSFails, Goto
<1>2. kept' \in [Addrs -> BOOLEAN]
  BY DEF Basic, TypeOK, IPVSFails
<1>3. faults' \in 0 .. MaxFaults
  BY TablesBounds DEF Basic, TypeOK, IPVSFails
<1>4. QTypes' => TypeOK'
  BY <1>1, <1>2, <1>3 DEF Basic, IPVSFails, TypeOK, QTypes, Steps, statVars, tableVars
<1>5. WorkerOK(w)'
  BY <1>1, HoldsKey DEF Basic, IPVSFails, TypeOK, WorkersInv, WorkerOK, queueVars
<1> QED
  BY <1>1, <1>4, <1>5, StepBasic DEF Basic, IPVSFails, TypeOK, tableVars

\* loadContainerGroupCgroup leaves the group registered and every other one alone.
LEMMA LoadGroupEffect ==
  ASSUME TypeOK, NEW p \in Pods, LoadGroup(p)
  PROVE  /\ groups' \in [Groups -> Seq(Seq(Parts)) \cup {NoPath}]
         /\ \A g \in Groups : groups[g] # NoPath => groups'[g] = groups[g]
         /\ \A g \in Groups : groups'[g] # groups[g] =>
              p.group = g /\ groups'[g] = GroupPath(p.qos, g)
         /\ p.group # NoGroup => /\ p.group \in Groups
                                 /\ groups[p.group] = NoPath =>
                                      groups'[p.group] = GroupPath(p.qos, p.group)
<1>1. p.qos \in QoSClasses /\ p.group \in Groups \cup {NoGroup}
  BY PodTypes
<1>2. p.group # NoGroup => GroupPath(p.qos, p.group) \in Seq(Seq(Parts))
  BY <1>1, GroupPathType
<1> QED
  BY <1>1, <1>2 DEF TypeOK, LoadGroup

LEMMA LoadBasic ==
  ASSUME Basic, NEW w \in Workers, Load(w) PROVE Basic'
<1>1. pod[w] \in Pods /\ pc[w] = "load" /\ pod[w].cid # NoCid
  BY DEF Basic, WorkersInv, WorkerOK, Load
<1>2. /\ groups' \in [Groups -> Seq(Seq(Parts)) \cup {NoPath}]
      /\ \A g \in Groups : groups[g] # NoPath => groups'[g] = groups[g]
      /\ pod[w].group # NoGroup =>
           /\ pod[w].group \in Groups
           /\ groups[pod[w].group] = NoPath =>
                groups'[pod[w].group] = GroupPath(pod[w].qos, pod[w].group)
  BY <1>1, LoadGroupEffect DEF Basic, Load
<1>3. pod[w].group # NoGroup => groups'[pod[w].group] # NoPath
  <2>1. pod[w].group # NoGroup => GroupPath(pod[w].qos, pod[w].group) # NoPath
    BY <1>1, PodTypes, GroupPathType, TablesMarkers
  <2> QED
    BY <1>2, <2>1
<1>4. QTypes' => TypeOK'
  BY <1>2 DEF Basic, Load, Goto, TypeOK, QTypes, Steps, statVars, boundVars
<1>5. WorkerOK(w)'
  BY <1>1, <1>3, HoldsKey DEF Basic, Load, Goto, TypeOK, WorkersInv, WorkerOK, queueVars
<1> QED
  BY <1>2, <1>4, <1>5, StepBasic DEF Basic, Load, Goto, TypeOK

-----------------------------------------------------------------------------
(* The ends of a sync. *)

GroupsType == [Groups -> Seq(Seq(Parts)) \cup {NoPath}]
PodMapType == [Maps -> [Keys -> Info \cup {NoInfo}]]
GroupsStay == \A g \in Groups : groups[g] # NoPath => groups'[g] = groups[g]

LEMMA FinishItemEffect ==
  ASSUME Basic, NEW w \in Workers, pc[w] # "idle", FinishItem(w)
  PROVE  /\ QInv' /\ QTypes' /\ processing' = processing \ {held[w]} /\ dirty' = dirty
         /\ pc' = [pc EXCEPT ![w] = "idle"] /\ held' = [held EXCEPT ![w] = NoKey]
         /\ pod' = [pod EXCEPT ![w] = NoPod] /\ todo' = todo /\ target' = target
<1>1. held[w] \in processing /\ QInv
  BY HoldsKey DEF Basic
<1>2. WQ!Finish(held[w])
  BY DEF FinishItem
<1>3. QInv' /\ QTypes' /\ processing' = processing \ {held[w]} /\ dirty' = dirty
  BY <1>1, <1>2, FinishEffect
<1> QED
  BY <1>3 DEF FinishItem, Goto

LEMMA FinishBasic ==
  ASSUME Basic, NEW w \in Workers, pc[w] # "idle", FinishItem(w), KeepSteady,
         UNCHANGED <<lister, calls, statVars, dests, boundVars, kept>>,
         podMap' \in PodMapType, groups' \in GroupsType, GroupsStay
  PROVE  Basic'
<1>1. /\ QInv' /\ QTypes' /\ processing' = processing \ {held[w]}
      /\ pc' = [pc EXCEPT ![w] = "idle"] /\ held' = [held EXCEPT ![w] = NoKey]
      /\ pod' = [pod EXCEPT ![w] = NoPod] /\ todo' = todo /\ target' = target
  BY FinishItemEffect
<1>2. TypeOK'
  <2>1. /\ pc' \in [Workers -> Steps] /\ held' \in [Workers -> Keys \cup {NoKey}]
        /\ pod' \in [Workers -> Pods \cup {NoPod}]
    BY <1>1 DEF Basic, TypeOK, Steps
  <2>2. steady' \subseteq steady
    BY DEF KeepSteady
  <2> QED
    BY <1>1, <2>1, <2>2 DEF Basic, TypeOK, QTypes, PodMapType, GroupsType, statVars, boundVars
<1>3. WorkerOK(w)'
  BY <1>1 DEF Basic, TypeOK, WorkerOK
<1>4. WorkersInv'
  BY <1>1, <1>2, <1>3, OthersKeep DEF Basic, TypeOK, GroupsStay
<1> QED
  BY <1>1, <1>2, <1>4, ListerKeeps DEF Basic

LEMMA DropBasic ==
  ASSUME Basic, NEW w \in Workers, pc[w] # "idle", DropAndFinish(w),
         groups' \in GroupsType, GroupsStay
  PROVE  Basic'
<1>1. podMap' \in PodMapType
  BY DEF Basic, TypeOK, DropAndFinish, PodMapType
<1> QED
  BY <1>1, FinishBasic DEF DropAndFinish

LEMMA SameGroups == ASSUME TypeOK, UNCHANGED groups PROVE groups' \in GroupsType /\ GroupsStay
BY DEF TypeOK, GroupsType, GroupsStay

LEMMA FetchGoneBasic ==
  ASSUME Basic, NEW w \in Workers, FetchGone(w) PROVE Basic'
BY DropBasic, SameGroups DEF Basic, FetchGone

LEMMA ElsewhereBasic ==
  ASSUME Basic, NEW w \in Workers, Elsewhere(w) PROVE Basic'
BY DropBasic, SameGroups DEF Basic, Elsewhere

LEMMA LoadFailsBasic ==
  ASSUME Basic, NEW w \in Workers, LoadFails(w) PROVE Basic'
<1>1. pod[w] \in Pods
  BY DEF Basic, WorkersInv, WorkerOK, LoadFails
<1>2. groups' \in GroupsType /\ GroupsStay
  BY <1>1, LoadGroupEffect DEF Basic, LoadFails, GroupsType, GroupsStay
<1> QED
  BY <1>2, DropBasic DEF LoadFails

\* What Store does to the maps.
LEMMA StoreEffect ==
  ASSUME Basic, NEW w \in Workers, Store(w)
  PROVE  \E p \in Pods, k \in Keys, new \in Info :
           /\ p = pod[w] /\ k = held[w] /\ p.key = k /\ p.cid # NoCid /\ p.map \in Maps
           /\ p.group # NoGroup => groups[p.group] # NoPath
           /\ new.pod = p
           /\ IF podMap[p.map][k] = NoInfo
              THEN new.cgroup = CgroupOf(p) /\ new.container = ContainerOf(p)
              ELSE new.cgroup = podMap[p.map][k].cgroup /\ new.container = podMap[p.map][k].container
           /\ podMap' = [podMap EXCEPT ![p.map][k] = new]
<1> DEFINE p == pod[w]
           k == held[w]
           fresh == [pod |-> p, cgroup |-> CgroupOf(p), container |-> ContainerOf(p)]
           old == podMap[p.map][k]
           new == IF old = NoInfo THEN fresh ELSE [old EXCEPT !.pod = p]
<1>1. /\ p \in Pods /\ p.key = k /\ p.cid # NoCid /\ k \in Keys
      /\ p.group # NoGroup => groups[p.group] # NoPath
  BY HoldsKey DEF Basic, WorkersInv, WorkerOK, Store
<1>2. p.map \in Maps
  BY <1>1, PodTypes
<1>3. fresh \in Info
  BY <1>1, CgroupTypes DEF Info
<1>4. old \in Info \cup {NoInfo}
  BY <1>1, <1>2 DEF Basic, TypeOK
<1>5. new \in Info
  BY <1>1, <1>3, <1>4 DEF Info
<1>6. /\ new.pod = p
      /\ IF old = NoInfo
         THEN new.cgroup = CgroupOf(p) /\ new.container = ContainerOf(p)
         ELSE new.cgroup = old.cgroup /\ new.container = old.container
  BY <1>4 DEF Info
<1>7. podMap' = [podMap EXCEPT ![p.map][k] = new]
  BY DEF Store
<1> QED
  BY <1>1, <1>2, <1>5, <1>6, <1>7

LEMMA StoreBasic ==
  ASSUME Basic, NEW w \in Workers, Store(w) PROVE Basic'
<1>1. podMap' \in PodMapType
  <2>1. PICK p \in Pods, k \in Keys, new \in Info :
          p.map \in Maps /\ podMap' = [podMap EXCEPT ![p.map][k] = new]
    BY StoreEffect
  <2> QED
    BY <2>1 DEF Basic, TypeOK, PodMapType
<1> QED
  BY <1>1, FinishBasic, SameGroups DEF Basic, Store

-----------------------------------------------------------------------------
(* Collections, starts and stops. *)

StatEffect ==
  /\ UNCHANGED <<lister, calls, queueVars, workerVars, tableVars, boundVars, kept>>
  /\ reports' \in 0 .. MaxReports /\ stage' \in Stages /\ left' \subseteq Keys
  /\ report' \subseteq Maps \X Keys /\ steady' \subseteq Maps \X Keys

LEMMA StatBasic ==
  ASSUME Basic, StatStep PROVE Basic'
<1>1. StatEffect
  <2>1. CASE CollectBegins
    BY <2>1, TablesBounds DEF StatEffect, CollectBegins, Basic, TypeOK, Stages, Maps
  <2>2. CASE NextMap
    BY <2>2 DEF StatEffect, NextMap, Following, Basic, TypeOK, Stages, Maps
  <2>3. CASE Respond
    BY <2>3 DEF StatEffect, Respond, Basic, TypeOK, Stages
  <2>4. ASSUME NEW k \in Keys, Visit(k)
        PROVE  StatEffect
    BY <2>4 DEF StatEffect, Visit, Basic, TypeOK, Stages
  <2>5. ASSUME NEW k \in Keys, Skip(k)
        PROVE  StatEffect
    BY <2>5 DEF StatEffect, Skip, Basic, TypeOK
  <2> QED
    BY <2>1, <2>2, <2>3, <2>4, <2>5 DEF StatStep
<1>2. QInv' /\ QTypes' /\ processing' = processing
  BY <1>1, SameQueue DEF StatEffect, Basic
<1>3. TypeOK'
  BY <1>1, <1>2 DEF StatEffect, Basic, TypeOK, QTypes, workerVars, tableVars, boundVars
<1> QED
  BY <1>1, <1>2, <1>3, WorkersKeep, ListerKeeps DEF StatEffect, Basic, tableVars

LEMMA DownBasic ==
  ASSUME Basic, ProcessDown, UNCHANGED <<lister, dests, proxied, faults, reports, kept>>,
         edits' \in 0 .. MaxEdits
  PROVE  Basic'
<1>1. QInv' /\ QTypes'
  BY EmptyQueue DEF ProcessDown
<1>2. TypeOK'
  BY <1>1 DEF Basic, ProcessDown, TypeOK, QTypes, Steps, Stages
<1>3. WorkersInv' /\ ListerInv'
  BY ListerKeeps DEF Basic, ProcessDown, WorkersInv, WorkerOK, OneHolder
<1> QED
  BY <1>1, <1>2, <1>3 DEF Basic

LEMMA CrashBasic ==
  ASSUME Basic, Crash PROVE Basic'
<1>1. edits' \in 0 .. MaxEdits
  BY TablesBounds DEF Basic, TypeOK, Crash
<1> QED
  BY <1>1, DownBasic DEF Crash

LEMMA PanicBasic ==
  ASSUME Basic, NEW w \in Workers, Panic(w) PROVE Basic'
BY DownBasic DEF Basic, TypeOK, Panic

LEMMA StartBasic ==
  ASSUME Basic, Start PROVE Basic'
<1>1. QInv' /\ QTypes' /\ processing' = processing
  BY SameQueue DEF Basic, Start
<1>2. TypeOK'
  BY <1>1 DEF Basic, Start, TypeOK, QTypes, workerVars, statVars, tableVars
<1> QED
  BY <1>1, <1>2, WorkersKeep, ListerKeeps DEF Basic, Start, tableVars

LEMMA BasicInit == ASSUME Init PROVE Basic
<1>1. QInv
  BY DEF Init, QInv, WQP!QueueInv, WQP!QueueDiscipline, WQP!NoLostItem, WQP!Queued
<1>2. TypeOK
  <2>1. edits \in 0 .. MaxEdits /\ proxied \in 0 .. MaxProxy /\ faults \in 0 .. MaxFaults
        /\ reports \in 0 .. MaxReports
    BY TablesBounds DEF Init
  <2>2. dests \in [Services -> [Addrs -> Weights]]
    BY DEF Init, Weights
  <2>3. queue \in Seq(Keys) /\ dirty \subseteq Keys /\ processing \subseteq Keys
    BY DEF Init
  <2>4. /\ pc \in [Workers -> Steps] /\ held \in [Workers -> Keys \cup {NoKey}]
        /\ pod \in [Workers -> Pods \cup {NoPod}] /\ todo \in [Workers -> SUBSET Services]
        /\ target \in [Workers -> Target \cup {NoTarget}]
    BY DEF Init, Steps
  <2>5. podMap \in [Maps -> [Keys -> Info \cup {NoInfo}]]
        /\ groups \in [Groups -> Seq(Seq(Parts)) \cup {NoPath}]
    BY DEF Init
  <2>6. lister \in [Keys -> Pods \cup {NoPod}] /\ kept \in [Addrs -> BOOLEAN]
    BY DEF Init
  <2> QED
    BY <2>1, <2>2, <2>3, <2>4, <2>5, <2>6 DEF Init, TypeOK, Stages
<1>3. ListerInv /\ WorkersInv
  BY DEF Init, ListerInv, WorkersInv, WorkerOK, OneHolder
<1> QED
  BY <1>1, <1>2, <1>3 DEF Basic

LEMMA BasicStep == ASSUME Basic, [Next]_vars PROVE Basic'
<1>1. ASSUME NEW w \in Workers, WorkerStep(w) PROVE Basic'
  BY <1>1, GetBasic, FetchGoneBasic, FetchBasic, EditWeightBasic, IPVSFailsBasic, ElsewhereBasic,
     LoadFailsBasic, LoadBasic, StoreBasic, ScanMissBasic, ScanHitBasic DEF WorkerStep
<1>2. CASE UNCHANGED vars
  <2>1. QInv' /\ QTypes' /\ processing' = processing
    BY <1>2, SameQueue DEF Basic, vars
  <2>2. TypeOK'
    BY <1>2, <2>1 DEF Basic, TypeOK, QTypes, vars, workerVars, statVars, tableVars, boundVars
  <2> QED
    BY <1>2, <2>1, <2>2, WorkersKeep, ListerKeeps DEF Basic, vars, tableVars
<1> QED
  BY <1>1, <1>2, EventBasic, HandleEventBasic, ProxyBasic, PanicBasic, StatBasic, CrashBasic, StartBasic
  DEF Next

\* TypeOK holds for any pods, workers, labels and services and any number of
\* edits, faults and collections.
THEOREM SyncTablesTypes == Spec => []TypeOK
<1>1. Spec => []Basic
  BY BasicInit, BasicStep, PTL DEF Spec
<1>2. Basic => TypeOK
  BY DEF Basic
<1> QED
  BY <1>1, <1>2, PTL

-----------------------------------------------------------------------------
(* Whose cgroup an entry and a group have. *)

\* An entry has the cgroups of some pod of its key, although not always those of
\* the pod in it, and the group of that pod is registered.
EntryOK(m, k) ==
  Present(m, k) =>
    /\ \E q \in Pods : /\ q.key = k /\ q.cid # NoCid
                       /\ podMap[m][k].cgroup = CgroupOf(q)
                       /\ podMap[m][k].container = ContainerOf(q)
    /\ LET g == podMap[m][k].pod.group IN g # NoGroup => groups[g] # NoPath

\* A registered group has the slice that one of its pods asks for.
GroupOK(g) ==
  groups[g] # NoPath => \E q \in Pods : q.group = g /\ groups[g] = GroupPath(q.qos, g)

TablesInv == /\ \A m \in Maps, k \in Keys : EntryOK(m, k)
             /\ \A g \in Groups : GroupOK(g)

\* How a step changes the maps and the groups.
TablesChange ==
  \/ ProcessDown
  \/ \E w \in Workers : Store(w)
  \/ /\ \A m \in Maps, k \in Keys : podMap'[m][k] \in {podMap[m][k], NoInfo}
     /\ UNCHANGED groups \/ \E p \in Pods : LoadGroup(p)

LEMMA DropChange ==
  ASSUME Basic, NEW w \in Workers, DropAndFinish(w)
  PROVE  \A m \in Maps, k \in Keys : podMap'[m][k] \in {podMap[m][k], NoInfo}
BY DEF DropAndFinish, Basic, TypeOK

LEMMA TablesSteps == ASSUME Basic, [Next]_vars PROVE TablesChange
<1>1. ASSUME UNCHANGED podMap, UNCHANGED groups PROVE TablesChange
  BY <1>1 DEF TablesChange
<1>2. ASSUME NEW w \in Workers, WorkerStep(w) PROVE TablesChange
  <2>1. CASE FetchGone(w) \/ Elsewhere(w)
    BY <2>1, DropChange DEF FetchGone, Elsewhere, TablesChange
  <2>2. ASSUME LoadFails(w) PROVE TablesChange
    <3>1. pod[w] \in Pods /\ LoadGroup(pod[w]) /\ DropAndFinish(w)
      BY <2>2 DEF LoadFails, Basic, WorkersInv, WorkerOK
    <3> QED
      BY <3>1, DropChange DEF TablesChange
  <2>3. ASSUME Load(w) PROVE TablesChange
    <3>1. pod[w] \in Pods /\ LoadGroup(pod[w]) /\ UNCHANGED podMap
      BY <2>3 DEF Load, Basic, WorkersInv, WorkerOK
    <3> QED
      BY <3>1 DEF TablesChange
  <2>4. CASE Store(w)
    BY <2>4 DEF TablesChange
  <2>5. CASE Get(w) \/ Fetch(w) \/ EditWeight(w) \/ IPVSFails(w)
    BY <2>5, <1>1 DEF Get, Fetch, EditWeight, IPVSFails, tableVars
  <2>6. ASSUME NEW s \in Services, ScanMiss(w, s) \/ ScanHit(w, s) PROVE TablesChange
    BY <2>6, <1>1 DEF ScanMiss, ScanHit, tableVars
  <2> QED
    BY <1>2, <2>1, <2>2, <2>3, <2>4, <2>5, <2>6 DEF WorkerStep
<1>3. CASE StatStep
  BY <1>3, <1>1 DEF StatStep, CollectBegins, NextMap, Respond, Visit, Skip, tableVars
<1>4. ASSUME NEW k \in Keys, Event(k) \/ HandleEvent(k) PROVE TablesChange
  BY <1>4, <1>1 DEF Event, HandleEvent, tableVars
<1>5. ASSUME NEW s \in Services, NEW a \in Addrs, ProxyStep(s, a) PROVE TablesChange
  BY <1>5, <1>1 DEF ProxyStep, ProxyAdds, ProxyDrains, ProxyRemoves, Proxy
<1>6. ASSUME Crash \/ \E w \in Workers : Panic(w) PROVE TablesChange
  BY <1>6 DEF Crash, Panic, TablesChange
<1>7. CASE Start \/ UNCHANGED vars
  BY <1>7, <1>1 DEF Start, vars, tableVars
<1> QED
  BY <1>2, <1>3, <1>4, <1>5, <1>6, <1>7 DEF Next

LEMMA TablesInvStep == ASSUME Basic, TablesInv, [Next]_vars PROVE TablesInv'
<1>1. CASE ProcessDown
  BY <1>1 DEF ProcessDown, TablesInv, EntryOK, GroupOK, Present
<1>2. ASSUME NEW w \in Workers, Store(w) PROVE TablesInv'
  <2>1. PICK p \in Pods, k \in Keys, new \in Info :
          /\ p = pod[w] /\ k = held[w] /\ p.key = k /\ p.cid # NoCid /\ p.map \in Maps
          /\ p.group # NoGroup => groups[p.group] # NoPath
          /\ new.pod = p
          /\ IF podMap[p.map][k] = NoInfo
             THEN new.cgroup = CgroupOf(p) /\ new.container = ContainerOf(p)
             ELSE new.cgroup = podMap[p.map][k].cgroup /\ new.container = podMap[p.map][k].container
          /\ podMap' = [podMap EXCEPT ![p.map][k] = new]
    BY <1>2, StoreEffect
  <2>2. UNCHANGED groups
    BY <1>2 DEF Store
  <2>3. EntryOK(p.map, k)
    BY <2>1 DEF TablesInv
  <2>4. podMap'[p.map][k] = new
    BY <2>1 DEF Basic, TypeOK
  <2>5. EntryOK(p.map, k)'
    BY <2>1, <2>2, <2>3, <2>4 DEF EntryOK, Present
  <2>6. ASSUME NEW m \in Maps, NEW j \in Keys, m # p.map \/ j # k PROVE EntryOK(m, j)'
    <3>1. podMap'[m][j] = podMap[m][j]
      BY <2>1, <2>6 DEF Basic, TypeOK
    <3> QED
      BY <2>2, <3>1 DEF TablesInv, EntryOK, Present
  <2> QED
    BY <2>2, <2>5, <2>6 DEF TablesInv, GroupOK
<1>3. ASSUME \A m \in Maps, k \in Keys : podMap'[m][k] \in {podMap[m][k], NoInfo},
             UNCHANGED groups
      PROVE  TablesInv'
  BY <1>3 DEF TablesInv, EntryOK, GroupOK, Present
<1>4. ASSUME \A m \in Maps, k \in Keys : podMap'[m][k] \in {podMap[m][k], NoInfo},
             NEW p \in Pods, LoadGroup(p)
      PROVE  TablesInv'
  <2>1. /\ \A g \in Groups : groups[g] # NoPath => groups'[g] = groups[g]
        /\ \A g \in Groups : groups'[g] # groups[g] => p.group = g /\ groups'[g] = GroupPath(p.qos, g)
    BY <1>4, LoadGroupEffect DEF Basic
  <2>2. ASSUME NEW g \in Groups PROVE GroupOK(g)'
    BY <2>1 DEF TablesInv, GroupOK
  <2>3. ASSUME NEW m \in Maps, NEW k \in Keys, Present(m, k)' PROVE EntryOK(m, k)'
    <3>1. podMap'[m][k] = podMap[m][k] /\ Present(m, k)
      BY <1>4, <2>3 DEF Present
    <3>2. podMap[m][k].pod.group \in Groups \cup {NoGroup}
      BY <3>1, PodTypes DEF Basic, TypeOK, Info, Present
    <3> QED
      BY <2>1, <3>1, <3>2 DEF TablesInv, EntryOK
  <2> QED
    BY <2>2, <2>3 DEF TablesInv, EntryOK
<1> QED
  BY <1>1, <1>2, <1>3, <1>4, TablesSteps DEF TablesChange

LEMMA TablesInvHolds == Spec => [](Basic /\ TablesInv)
<1>1. Init => TablesInv
  BY DEF Init, TablesInv, EntryOK, GroupOK, Present
<1> QED
  BY <1>1, BasicInit, BasicStep, TablesInvStep, PTL DEF Spec

LEMMA SharedNever == ASSUME TablesInv PROVE NoSharedCgroup
<1> SUFFICES ASSUME NEW m \in Maps, NEW n \in Maps, NEW j \in Keys, NEW k \in Keys,
                    Present(m, j), Present(n, k), j # k
             PROVE  /\ podMap[m][j].cgroup # podMap[n][k].cgroup
                    /\ podMap[m][j].container # podMap[n][k].container
  BY DEF NoSharedCgroup
<1>1. PICK q \in Pods : /\ q.key = j /\ q.cid # NoCid /\ podMap[m][j].cgroup = CgroupOf(q)
                        /\ podMap[m][j].container = ContainerOf(q)
  BY DEF TablesInv, EntryOK
<1>2. PICK r \in Pods : /\ r.key = k /\ r.cid # NoCid /\ podMap[n][k].cgroup = CgroupOf(r)
                        /\ podMap[n][k].container = ContainerOf(r)
  BY DEF TablesInv, EntryOK
<1>3. q.uid # r.uid
  BY <1>1, <1>2, PodsAssumption
<1>4. q.cid \in Cids /\ r.cid \in Cids
  BY <1>1, <1>2, PodTypes
<1>5. /\ q.uid \in Uids /\ q.qos \in QoSClasses /\ q.group \in Groups \cup {NoGroup}
      /\ r.uid \in Uids /\ r.qos \in QoSClasses /\ r.group \in Groups \cup {NoGroup}
  BY PodTypes
<1>6. CgroupOf(q) # CgroupOf(r)
  <2>1. PodPath(q.qos, q.group, q.uid) # PodPath(r.qos, r.group, r.uid)
    BY <1>3, <1>5, PodPathsDiffer
  <2> QED
    BY <2>1 DEF CgroupOf
<1>7. ContainerOf(q) # ContainerOf(r)
  <2>1. ContainerPath(q.qos, q.group, q.uid, q.cid) # ContainerPath(r.qos, r.group, r.uid, r.cid)
    BY <1>3, <1>4, <1>5, ContainerPathsDiffer
  <2> QED
    BY <2>1 DEF ContainerOf
<1> QED
  BY <1>1, <1>2, <1>6, <1>7

\* Whatever pods come, go and are created again under old names, the resource
\* controller never writes for one key into the cgroup of a pod of another.
THEOREM CgroupsApart == Spec => []NoSharedCgroup
BY TablesInvHolds, SharedNever, PTL

LEMMA GroupsAbove == ASSUME Basic, TablesInv PROVE GroupsAbovePods
<1> SUFFICES ASSUME NEW m \in Maps, NEW k \in Keys, Present(m, k),
                    podMap[m][k].pod.group # NoGroup,
                    podMap[m][k].cgroup = CgroupOf(podMap[m][k].pod)
             PROVE  LET info == podMap[m][k]
                        p == info.pod
                    IN  /\ groups[p.group] # NoPath
                        /\ OneClass(p.group) =>
                             info.cgroup = Append(groups[p.group], PodSlice(p.qos, p.group, p.uid))
  BY DEF GroupsAbovePods, Present
<1> DEFINE p == podMap[m][k].pod
<1>1. p \in Pods /\ p.group \in Groups
  BY PodTypes DEF Basic, TypeOK, Info, Present
<1>2. groups[p.group] # NoPath
  BY DEF TablesInv, EntryOK
<1>3. PICK q \in Pods : q.group = p.group /\ groups[p.group] = GroupPath(q.qos, p.group)
  BY <1>1, <1>2 DEF TablesInv, GroupOK
<1>4. OneClass(p.group) => q.qos = p.qos
  BY <1>1, <1>3 DEF OneClass
<1> QED
  BY <1>2, <1>3, <1>4 DEF CgroupOf, PodPath

\* The registry of the group cgroups agrees with the entries of the pods.
THEOREM GroupsAgree == Spec => []GroupsAbovePods
BY TablesInvHolds, GroupsAbove, PTL

-----------------------------------------------------------------------------
(* What a collection reports. *)

SteadyInv == steady \subseteq Maps \X Keys /\ \A e \in steady : Readable(e[1], e[2])
ReportInv == SteadyInv /\ ReportComplete

\* A step outside a collection: readable entries are kept track of.
OutsideStep ==
  /\ UNCHANGED <<stage, left, report>>
  /\ KeepSteady \/ UNCHANGED <<steady, lister, podMap>>

LEMMA OutsideKeeps == ASSUME ReportInv, OutsideStep PROVE ReportInv'
<1>1. steady' \subseteq steady /\ \A e \in steady' : Readable(e[1], e[2])'
  BY DEF OutsideStep, KeepSteady, ReportInv, SteadyInv, Readable, Present
<1> QED
  BY <1>1 DEF OutsideStep, ReportInv, SteadyInv, ReportComplete, Passed

LEMMA ReportStart == ASSUME stage' = "idle", steady' = {} PROVE ReportInv'
BY DEF ReportInv, SteadyInv, ReportComplete

LEMMA StatReport == ASSUME ReportInv, TypeOK, StatStep PROVE ReportInv'
<1>1. UNCHANGED <<lister, podMap>>
  BY DEF StatStep, CollectBegins, NextMap, Respond, Visit, Skip, tableVars
<1>2. ASSUME CollectBegins PROVE ReportInv'
  <2>1. SteadyInv'
    BY <1>1, <1>2 DEF CollectBegins, SteadyInv, Readable, Present
  <2>2. stage' = "LC" /\ left' = Keys
    BY <1>2 DEF CollectBegins
  <2> QED
    BY <2>1, <2>2 DEF ReportInv, SteadyInv, ReportComplete, Passed
<1>3. ASSUME stage # "idle", UNCHANGED steady, report \subseteq report',
             \A e \in steady : Passed(e[1], e[2])' => Passed(e[1], e[2]) \/ e \in report'
      PROVE  ReportInv'
  BY <1>1, <1>3 DEF ReportInv, SteadyInv, ReportComplete, Readable, Present
<1>4. ASSUME NEW k \in Keys, Visit(k) PROVE ReportInv'
  <2>1. ASSUME NEW e \in steady, Passed(e[1], e[2])', ~Passed(e[1], e[2])
        PROVE  e = <<stage, k>> /\ e \in report'
    <3>1. stage' = stage /\ left' = left \ {k} /\ stage \in Maps
      BY <1>4 DEF Visit, TypeOK, Stages
    <3>2. e \in Maps \X Keys /\ Readable(e[1], e[2])
      BY DEF ReportInv, SteadyInv
    <3>3. e[1] = stage /\ e[2] = k
      BY <2>1, <3>1, <3>2 DEF Passed, Maps
    <3>4. e = <<stage, k>>
      BY <3>2, <3>3
    <3> QED
      BY <1>4, <3>2, <3>3, <3>4 DEF Visit
  <2> QED
    BY <1>3, <1>4, <2>1 DEF Visit
<1>5. ASSUME NEW k \in Keys, Skip(k) PROVE ReportInv'
  <2>1. ASSUME NEW e \in steady, Passed(e[1], e[2])' PROVE Passed(e[1], e[2])
    <3>1. stage' = stage /\ left' = left \ {k} /\ ~Present(stage, k) /\ stage \in Maps
      BY <1>5 DEF Skip, TypeOK, Stages
    <3>2. e \in Maps \X Keys /\ Present(e[1], e[2])
      BY DEF ReportInv, SteadyInv, Readable
    <3> QED
      BY <2>1, <3>1, <3>2 DEF Passed, Maps
  <2> QED
    BY <1>3, <1>5, <2>1 DEF Skip
<1>6. ASSUME NextMap PROVE ReportInv'
  <2>1. ASSUME NEW e \in steady, Passed(e[1], e[2])' PROVE Passed(e[1], e[2])
    <3>1. stage' = Following(stage) /\ left' = Keys /\ left = {} /\ stage \in {"LC", "BE"}
      BY <1>6 DEF NextMap
    <3>2. e \in Maps \X Keys
      BY DEF ReportInv, SteadyInv
    <3> QED
      BY <2>1, <3>1, <3>2 DEF Passed, Maps, Following
  <2> QED
    BY <1>3, <1>6, <2>1 DEF NextMap
<1>7. CASE Respond
  BY <1>7, ReportStart DEF Respond
<1> QED
  BY <1>2, <1>4, <1>5, <1>6, <1>7 DEF StatStep

LEMMA ReportInvStep == ASSUME Basic, ReportInv, [Next]_vars PROVE ReportInv'
<1>1. ASSUME NEW w \in Workers, WorkerStep(w) PROVE OutsideStep
  <2>1. CASE FetchGone(w) \/ Elsewhere(w) \/ LoadFails(w) \/ Store(w)
    BY <2>1 DEF FetchGone, Elsewhere, LoadFails, Store, DropAndFinish, OutsideStep, statVars
  <2>2. CASE Get(w) \/ Fetch(w) \/ EditWeight(w) \/ IPVSFails(w) \/ Load(w)
    BY <2>2 DEF Get, Fetch, EditWeight, IPVSFails, Load, OutsideStep, statVars, tableVars
  <2>3. ASSUME NEW s \in Services, ScanMiss(w, s) \/ ScanHit(w, s) PROVE OutsideStep
    BY <2>3 DEF ScanMiss, ScanHit, OutsideStep, statVars, tableVars
  <2> QED
    BY <1>1, <2>1, <2>2, <2>3 DEF WorkerStep
<1>2. ASSUME NEW k \in Keys, Event(k) \/ HandleEvent(k) PROVE OutsideStep
  BY <1>2 DEF Event, HandleEvent, OutsideStep, statVars, tableVars
<1>3. ASSUME NEW s \in Services, NEW a \in Addrs, ProxyStep(s, a) PROVE OutsideStep
  BY <1>3 DEF ProxyStep, ProxyAdds, ProxyDrains, ProxyRemoves, Proxy, OutsideStep, statVars
<1>4. ASSUME Start \/ UNCHANGED vars PROVE OutsideStep
  BY <1>4 DEF Start, vars, OutsideStep, statVars, tableVars
<1>5. ASSUME Crash \/ \E w \in Workers : Panic(w) PROVE ReportInv'
  BY <1>5, ReportStart DEF Crash, Panic, ProcessDown
<1> QED
  BY <1>1, <1>2, <1>3, <1>4, <1>5, OutsideKeeps, StatReport DEF Next, Basic

\* A pod that is there and readable throughout a collection is in the response,
\* however the workers change the maps meanwhile.
THEOREM ReportsComplete == Spec => []ReportComplete
<1>1. Init => ReportInv
  BY DEF Init, ReportInv, SteadyInv, ReportComplete
<1>2. ReportInv => ReportComplete
  BY DEF ReportInv
<1> QED
  BY <1>1, <1>2, BasicInit, BasicStep, ReportInvStep, PTL DEF Spec

-----------------------------------------------------------------------------
(* Weights. *)

\* Only kube-proxy and EditWeight change the table of the real servers.
DestsChange ==
  \/ UNCHANGED dests
  \/ \E s \in Services, a \in Addrs : ProxyStep(s, a)
  \/ \E w \in Workers : EditWeight(w)

LEMMA DestsSteps == ASSUME [Next]_vars PROVE DestsChange
<1>1. ASSUME NEW w \in Workers, WorkerStep(w) PROVE DestsChange
  <2>1. CASE FetchGone(w) \/ Elsewhere(w) \/ LoadFails(w) \/ Store(w)
    BY <2>1 DEF FetchGone, Elsewhere, LoadFails, Store, DropAndFinish, DestsChange
  <2>2. CASE Get(w) \/ Fetch(w) \/ IPVSFails(w) \/ Load(w)
    BY <2>2 DEF Get, Fetch, IPVSFails, Load, DestsChange, tableVars
  <2>3. ASSUME NEW s \in Services, ScanMiss(w, s) \/ ScanHit(w, s) PROVE DestsChange
    BY <2>3 DEF ScanMiss, ScanHit, DestsChange, tableVars
  <2> QED
    BY <1>1, <2>1, <2>2, <2>3 DEF WorkerStep, DestsChange
<1>2. CASE StatStep
  BY <1>2 DEF StatStep, CollectBegins, NextMap, Respond, Visit, Skip, tableVars, DestsChange
<1>3. ASSUME NEW k \in Keys, Event(k) \/ HandleEvent(k) PROVE DestsChange
  BY <1>3 DEF Event, HandleEvent, tableVars, DestsChange
<1>4. CASE Crash \/ (\E w \in Workers : Panic(w)) \/ Start \/ UNCHANGED vars
  BY <1>4 DEF Crash, Panic, Start, vars, tableVars, DestsChange
<1> QED
  BY <1>1, <1>2, <1>3, <1>4 DEF Next, DestsChange

LEMMA OwnWeightsStep == ASSUME Basic, OwnWeights, [Next]_vars PROVE OwnWeights'
<1> DEFINE Meant(a) == {NoDest, 0, 1} \cup
                       {Stored(WeightOf(p)) : p \in {q \in Pods : q.addr = a /\ q.weight # NoLabel}}
<1>1. ASSUME NEW s \in Services, NEW a \in Addrs, NEW weight \in Meant(a),
             dests' = [dests EXCEPT ![s][a] = weight]
      PROVE  OwnWeights'
  <2>1. ASSUME NEW t \in Services, NEW b \in Addrs PROVE dests'[t][b] \in Meant(b)
    <3>1. CASE t = s /\ b = a
      BY <1>1, <3>1 DEF Basic, TypeOK
    <3>2. CASE ~(t = s /\ b = a)
      <4>1. dests'[t][b] = dests[t][b]
        BY <1>1, <3>2 DEF Basic, TypeOK
      <4> QED
        BY <4>1 DEF OwnWeights
    <3> QED
      BY <3>1, <3>2
  <2> QED
    BY <2>1 DEF OwnWeights
<1>2. ASSUME NEW s \in Services, NEW a \in Addrs, ProxyStep(s, a) PROVE OwnWeights'
  <2>1. PICK weight \in {NoDest, 0, 1} : dests' = [dests EXCEPT ![s][a] = weight]
    BY <1>2 DEF ProxyStep, ProxyAdds, ProxyDrains, ProxyRemoves, Proxy
  <2>2. weight \in Meant(a)
    OBVIOUS
  <2> QED
    BY <1>1, <2>1, <2>2
<1>3. ASSUME NEW w \in Workers, EditWeight(w) PROVE OwnWeights'
  <2>1. PICK s \in Services, a \in Addrs :
          /\ target[w] = <<s, a>> /\ a = pod[w].addr
          /\ dests' = IF dests[s][a] # NoDest /\ Accepted(WeightOf(pod[w]))
                      THEN [dests EXCEPT ![s][a] = Stored(WeightOf(pod[w]))] ELSE dests
    BY <1>3, EditEffect
  <2>2. Stored(WeightOf(pod[w])) \in Meant(a)
    BY <1>3, <2>1, EditEffect
  <2>3. CASE dests' = dests
    BY <2>3 DEF OwnWeights
  <2> QED
    BY <1>1, <2>1, <2>2, <2>3
<1>4. CASE UNCHANGED dests
  BY <1>4 DEF OwnWeights
<1> QED
  BY <1>2, <1>3, <1>4, DestsSteps DEF DestsChange

\* A real server only ever has the weight of kube-proxy or of a label of its own
\* pod.
THEOREM WeightsOwn == Spec => []OwnWeights
<1>1. Init => OwnWeights
  BY DEF Init, OwnWeights
<1> QED
  BY <1>1, BasicInit, BasicStep, OwnWeightsStep, PTL DEF Spec

-----------------------------------------------------------------------------
(* The weights once the events of a pod are handled. *)

Weighed(p, a) ==
  (\E s \in Services : dests[s][a] # NoDest) => \E s \in Services : dests[s][a] = Stored(WeightOf(p))

\* Worker w is about to set the weight of p, or has.
InHand(w, p, a) ==
  \/ pc[w] = "fetch"
  \/ /\ pod[w] = p
     /\ \/ pc[w] = "scan" /\ \A s \in Services : dests[s][a] # NoDest => s \in todo[w]
        \/ pc[w] = "edit" /\ dests[target[w][1]][a] # NoDest
        \/ pc[w] \in {"load", "store"} /\ Weighed(p, a)

Asked(k, p, a) == /\ up /\ lister[k] = p /\ p.addr = a /\ kept[a]
                  /\ p.weight # NoLabel /\ Accepted(WeightOf(p))

\* A sync of k is still to come, or a worker is at it, or it was done.
Owed(k, p, a) ==
  \/ k \in calls \cup dirty
  \/ \E w \in Workers : held[w] = k /\ InHand(w, p, a)
  \/ (\A w \in Workers : held[w] # k) /\ Weighed(p, a)

WeightsInv == \A k \in Keys, p \in Pods, a \in Addrs : Asked(k, p, a) => Owed(k, p, a)

LEMMA SameOwed ==
  ASSUME NEW k \in Keys, NEW p \in Pods, NEW a \in Addrs, Owed(k, p, a),
         k \in calls \cup dirty => k \in calls' \cup dirty',
         UNCHANGED workerVars, \A s \in Services : dests'[s][a] = dests[s][a], Basic
  PROVE  Owed(k, p, a)'
<1>1. Weighed(p, a)' <=> Weighed(p, a)
  BY DEF Weighed
<1>2. ASSUME NEW w \in Workers, InHand(w, p, a) PROVE InHand(w, p, a)'
  <2>1. pc[w] = "edit" => target[w][1] \in Services
    BY DEF Basic, WorkersInv, WorkerOK, Target
  <2> QED
    BY <1>1, <1>2, <2>1 DEF InHand, workerVars
<1> QED
  BY <1>1, <1>2 DEF Owed, workerVars

\* A step of worker w may change what is owed only for the key it holds.
LEMMA WorkerOwed ==
  ASSUME NEW k \in Keys, NEW p \in Pods, NEW a \in Addrs, Owed(k, p, a), Basic,
         NEW w \in Workers, UNCHANGED <<calls, dirty>>,
         \A v \in Workers \ {w} : /\ pc'[v] = pc[v] /\ held'[v] = held[v] /\ pod'[v] = pod[v]
                                  /\ todo'[v] = todo[v] /\ target'[v] = target[v],
         held[w] # k => held'[w] # k /\ \A s \in Services : dests'[s][a] = dests[s][a],
         held[w] = k /\ InHand(w, p, a) =>
           \/ held'[w] = k /\ InHand(w, p, a)'
           \/ held'[w] # k /\ Weighed(p, a)'
  PROVE  Owed(k, p, a)'
<1>1. CASE k \in calls \cup dirty
  BY <1>1 DEF Owed
<1>2. CASE k \notin calls \cup dirty /\ held[w] = k
  <2>1. \A v \in Workers : held[v] = k => v = w
    BY <1>2, TablesMarkers DEF Basic, WorkersInv, OneHolder
  <2>2. InHand(w, p, a)
    BY <1>2, <2>1 DEF Owed
  <2> QED
    BY <1>2, <2>1, <2>2 DEF Owed
<1>3. CASE k \notin calls \cup dirty /\ held[w] # k
  <2>1. Weighed(p, a)' <=> Weighed(p, a)
    BY <1>3 DEF Weighed
  <2>2. ASSUME NEW v \in Workers, v # w, InHand(v, p, a) PROVE InHand(v, p, a)'
    <3>1. pc[v] = "edit" => target[v][1] \in Services
      BY DEF Basic, WorkersInv, WorkerOK, Target
    <3> QED
      BY <1>3, <2>1, <2>2, <3>1 DEF InHand
  <2> QED
    BY <1>3, <2>1, <2>2 DEF Owed
<1> QED
  BY <1>1, <1>2, <1>3

LEMMA GetOwed ==
  ASSUME NEW k \in Keys, NEW p \in Pods, NEW a \in Addrs, Owed(k, p, a), Basic,
         NEW w \in Workers, Get(w)
  PROVE  Owed(k, p, a)'
<1>1. /\ dirty' = dirty \ {Head(queue)} /\ held[w] = NoKey /\ NoKey # k
      /\ held' = [held EXCEPT ![w] = Head(queue)] /\ pc' = [pc EXCEPT ![w] = "fetch"]
      /\ UNCHANGED <<calls, pod, todo, target, dests>>
  BY PopEffect, TablesMarkers DEF Get, Goto, Basic, WorkersInv, WorkerOK, tableVars
<1>2. CASE Head(queue) = k
  BY <1>1, <1>2 DEF Basic, TypeOK, Owed, InHand
<1>3. CASE Head(queue) # k
  <2>1. Weighed(p, a)' <=> Weighed(p, a)
    BY <1>1 DEF Weighed
  <2>2. ASSUME NEW v \in Workers, held[v] = k, InHand(v, p, a)
        PROVE  held'[v] = k /\ InHand(v, p, a)'
    <3>1. v # w /\ pc'[v] = pc[v] /\ held'[v] = held[v]
      BY <1>1, <2>2 DEF Basic, TypeOK
    <3> QED
      BY <1>1, <2>1, <2>2, <3>1 DEF InHand
  <2>3. (\A v \in Workers : held[v] # k) => \A v \in Workers : held'[v] # k
    BY <1>1, <1>3 DEF Basic, TypeOK
  <2> QED
    BY <1>1, <1>3, <2>1, <2>2, <2>3 DEF Owed
<1> QED
  BY <1>2, <1>3

\* What a worker that holds k makes of what is owed.
LEMMA FinishOwed ==
  ASSUME NEW k \in Keys, NEW p \in Pods, NEW a \in Addrs, Owed(k, p, a), Basic,
         NEW w \in Workers, FinishItem(w), UNCHANGED <<calls, dests>>,
         pc[w] \in {"load", "store"} \/ (pc[w] = "fetch" /\ held[w] # k)
  PROVE  Owed(k, p, a)'
<1>1. /\ dirty' = dirty /\ pc' = [pc EXCEPT ![w] = "idle"] /\ held' = [held EXCEPT ![w] = NoKey]
      /\ pod' = [pod EXCEPT ![w] = NoPod] /\ todo' = todo /\ target' = target
  BY FinishItemEffect
<1>2. held'[w] = NoKey /\ NoKey # k
  BY <1>1, TablesMarkers DEF Basic, TypeOK
<1>3. held[w] = k /\ InHand(w, p, a) => Weighed(p, a)'
  BY DEF InHand, Weighed
<1> QED
  BY <1>1, <1>2, <1>3, WorkerOwed DEF Basic, TypeOK

LEMMA ScanOwed ==
  ASSUME NEW k \in Keys, NEW p \in Pods, NEW a \in Addrs, Owed(k, p, a), Basic, p.addr = a,
         NEW w \in Workers, NEW s \in Services, ScanMiss(w, s) \/ ScanHit(w, s)
  PROVE  Owed(k, p, a)'
<1>1. ASSUME ScanMiss(w, s), pod[w] = p,
             \A t \in Services : dests[t][a] # NoDest => t \in todo[w]
      PROVE  InHand(w, p, a)'
  <2>1. /\ dests[s][a] = NoDest /\ pod' = pod /\ dests' = dests
        /\ todo' = [todo EXCEPT ![w] = @ \ {s}] /\ s \in todo[w] /\ pc[w] = "scan"
        /\ IF todo[w] = {s} THEN pc' = [pc EXCEPT ![w] = "load"] ELSE pc' = pc
    BY <1>1 DEF ScanMiss, Found, Matches, Goto, tableVars
  <2>2. CASE todo[w] = {s}
    BY <1>1, <2>1, <2>2 DEF Basic, TypeOK, InHand, Weighed
  <2>3. CASE todo[w] # {s}
    BY <1>1, <2>1, <2>3 DEF Basic, TypeOK, InHand
  <2> QED
    BY <2>2, <2>3
<1>2. ASSUME ScanHit(w, s), pod[w] = p PROVE InHand(w, p, a)'
  <2>1. /\ target' = [target EXCEPT ![w] = <<s, a>>] /\ dests[s][a] # NoDest
        /\ pod' = pod /\ dests' = dests /\ pc' = [pc EXCEPT ![w] = "edit"]
    BY <1>2 DEF ScanHit, Found, Matches, Goto, tableVars
  <2>2. target'[w][1] = s /\ pc'[w] = "edit"
    BY <2>1 DEF Basic, TypeOK
  <2> QED
    BY <1>2, <2>1, <2>2 DEF InHand
<1>3. pc[w] = "scan" /\ UNCHANGED <<calls, dirty, held, dests>>
  BY DEF ScanMiss, ScanHit, queueVars, tableVars
<1>4. InHand(w, p, a) => InHand(w, p, a)'
  BY <1>1, <1>2, <1>3 DEF InHand
<1>5. \A v \in Workers \ {w} : /\ pc'[v] = pc[v] /\ pod'[v] = pod[v]
                               /\ todo'[v] = todo[v] /\ target'[v] = target[v]
  BY DEF ScanMiss, ScanHit, Goto, Basic, TypeOK
<1> QED
  BY <1>3, <1>4, <1>5, WorkerOwed

LEMMA EditOwed ==
  ASSUME NEW k \in Keys, NEW p \in Pods, NEW a \in Addrs, Owed(k, p, a), Basic, p.addr = a,
         p.key = k, Accepted(WeightOf(p)), NEW w \in Workers, EditWeight(w)
  PROVE  Owed(k, p, a)'
<1>1. PICK s \in Services, b \in Addrs :
        /\ target[w] = <<s, b>> /\ b = pod[w].addr
        /\ dests' = IF dests[s][b] # NoDest /\ Accepted(WeightOf(pod[w]))
                    THEN [dests EXCEPT ![s][b] = Stored(WeightOf(pod[w]))] ELSE dests
  BY EditEffect
<1>2. held[w] # k => \A t \in Services : dests'[t][a] = dests[t][a]
  <2>1. pod[w] \in Pods /\ pod[w].key = held[w]
    BY EditEffect
  <2>2. held[w] # k => b # a
    BY <1>1, <2>1, PodsAssumption, TablesMarkers
  <2> QED
    BY <1>1, <2>2 DEF Basic, TypeOK
<1>3. /\ pc[w] = "edit" /\ UNCHANGED <<calls, dirty, held, pod, todo>>
      /\ pc' = [pc EXCEPT ![w] = "load"] /\ target' = [target EXCEPT ![w] = NoTarget]
  BY DEF EditWeight, queueVars, Goto
<1>4. ASSUME InHand(w, p, a) PROVE InHand(w, p, a)'
  <2>1. pod[w] = p /\ dests[target[w][1]][a] # NoDest
    BY <1>3, <1>4 DEF InHand
  <2>2. target[w][1] = s /\ b = a
    BY <1>1, <2>1
  <2>3. dests' = [dests EXCEPT ![s][a] = Stored(WeightOf(p))]
    BY <1>1, <2>1, <2>2
  <2>4. Weighed(p, a)'
    BY <2>3 DEF Weighed, Basic, TypeOK
  <2> QED
    BY <1>3, <2>1, <2>4 DEF InHand, Basic, TypeOK
<1>5. \A v \in Workers \ {w} : pc'[v] = pc[v] /\ target'[v] = target[v]
  BY <1>3 DEF Basic, TypeOK
<1> QED
  BY <1>2, <1>3, <1>4, <1>5, WorkerOwed

LEMMA WorkerStepOwed ==
  ASSUME NEW k \in Keys, NEW p \in Pods, NEW a \in Addrs, Owed(k, p, a), Basic, p.key = k,
         Asked(k, p, a)', lister' = lister, NEW w \in Workers, WorkerStep(w)
  PROVE  Owed(k, p, a)'
<1>1. /\ p.addr = a /\ p.weight # NoLabel /\ Accepted(WeightOf(p)) /\ kept'[a] /\ lister[k] = p
      /\ p # NoPod /\ a # NoAddr
  BY TablesMarkers DEF Asked
<1>2. CASE Get(w)
  BY <1>2, GetOwed
<1>3. CASE FetchGone(w)
  BY <1>1, <1>3, FinishOwed DEF FetchGone, DropAndFinish
<1>4. ASSUME Fetch(w) PROVE Owed(k, p, a)'
  <2>1. /\ UNCHANGED <<calls, dirty, held, target, dests>> /\ pod' = [pod EXCEPT ![w] = lister[held[w]]]
        /\ IF lister[held[w]].weight = NoLabel
           THEN pc' = [pc EXCEPT ![w] = "load"] /\ todo' = todo
           ELSE pc' = [pc EXCEPT ![w] = "scan"] /\ todo' = [todo EXCEPT ![w] = Services]
    BY <1>4 DEF Fetch, Goto, queueVars, tableVars
  <2>2. held[w] = k => InHand(w, p, a)'
    BY <1>1, <2>1 DEF InHand, Basic, TypeOK
  <2>3. \A v \in Workers \ {w} : pc'[v] = pc[v] /\ pod'[v] = pod[v] /\ todo'[v] = todo[v]
    BY <2>1 DEF Basic, TypeOK
  <2> QED
    BY <2>1, <2>2, <2>3, WorkerOwed
<1>5. CASE EditWeight(w)
  BY <1>1, <1>5, EditOwed
<1>6. ASSUME IPVSFails(w) PROVE Owed(k, p, a)'
  <2>1. /\ UNCHANGED <<calls, dirty, held, pod, dests>> /\ pc[w] \in {"scan", "edit"}
        /\ pc' = [pc EXCEPT ![w] = "load"] /\ todo' = [todo EXCEPT ![w] = {}]
        /\ target' = [target EXCEPT ![w] = NoTarget]
    BY <1>6 DEF IPVSFails, Goto, queueVars, tableVars
  <2>2. pod[w] # p
    BY <1>1, <1>6 DEF IPVSFails, Basic, TypeOK
  <2>3. ~InHand(w, p, a)
    BY <2>1, <2>2 DEF InHand
  <2>4. \A v \in Workers \ {w} : pc'[v] = pc[v] /\ todo'[v] = todo[v] /\ target'[v] = target[v]
    BY <2>1 DEF Basic, TypeOK
  <2> QED
    BY <2>1, <2>3, <2>4, WorkerOwed
<1>7. CASE Elsewhere(w) \/ LoadFails(w) \/ Store(w)
  BY <1>7, FinishOwed DEF Elsewhere, LoadFails, Store, DropAndFinish
<1>8. ASSUME Load(w) PROVE Owed(k, p, a)'
  <2>1. /\ UNCHANGED <<calls, dirty, held, pod, todo, target, dests>> /\ pc[w] = "load"
        /\ pc' = [pc EXCEPT ![w] = "store"]
    BY <1>8 DEF Load, Goto, queueVars
  <2>2. InHand(w, p, a) => InHand(w, p, a)'
    BY <2>1 DEF InHand, Weighed, Basic, TypeOK
  <2>3. \A v \in Workers \ {w} : pc'[v] = pc[v]
    BY <2>1 DEF Basic, TypeOK
  <2> QED
    BY <2>1, <2>2, <2>3, WorkerOwed
<1>9. ASSUME NEW s \in Services, ScanMiss(w, s) \/ ScanHit(w, s) PROVE Owed(k, p, a)'
  BY <1>1, <1>9, ScanOwed
<1> QED
  BY <1>2, <1>3, <1>4, <1>5, <1>6, <1>7, <1>8, <1>9 DEF WorkerStep

\* A worker only ever makes kept smaller, and leaves the lister alone.
LEMMA WorkerAsked ==
  ASSUME Basic, NEW w \in Workers, WorkerStep(w)
  PROVE  lister' = lister /\ up' = up /\ \A a \in Addrs : kept'[a] => kept[a]
<1>1. CASE FetchGone(w) \/ Elsewhere(w) \/ LoadFails(w) \/ Store(w)
  BY <1>1 DEF FetchGone, Elsewhere, LoadFails, Store, DropAndFinish, boundVars
<1>2. CASE Get(w) \/ Fetch(w) \/ EditWeight(w) \/ Load(w)
  BY <1>2 DEF Get, Fetch, EditWeight, Load, boundVars
<1>3. ASSUME IPVSFails(w)
      PROVE  lister' = lister /\ up' = up /\ \A a \in Addrs : kept'[a] => kept[a]
  BY <1>3 DEF IPVSFails, Basic, TypeOK
<1>4. ASSUME NEW s \in Services, ScanMiss(w, s) \/ ScanHit(w, s)
      PROVE  lister' = lister /\ up' = up /\ kept' = kept
  BY <1>4 DEF ScanMiss, ScanHit, boundVars
<1> QED
  BY <1>1, <1>2, <1>3, <1>4 DEF WorkerStep

LEMMA WeightsInvStep ==
  ASSUME Basic, ListerInv', WeightsInv, [Next]_vars PROVE WeightsInv'
<1> SUFFICES ASSUME NEW k \in Keys, NEW p \in Pods, NEW a \in Addrs, Asked(k, p, a)'
             PROVE  Owed(k, p, a)'
  BY DEF WeightsInv
<1>1. /\ p # NoPod /\ a # NoAddr /\ p.key = k /\ lister'[k] = p /\ p.addr = a /\ kept'[a] /\ up'
      /\ Asked(k, p, a) => Owed(k, p, a)
  BY TablesMarkers DEF Asked, ListerInv, WeightsInv
<1>2. ASSUME NEW j \in Keys, Event(j) PROVE Owed(k, p, a)'
  <2>1. CASE j = k
    BY <1>1, <1>2, <2>1 DEF Event, Owed
  <2>2. CASE j # k
    <3>1. lister[k] = p /\ kept[a] /\ up
      <4>1. PICK q \in {r \in Pods : r.key = j} \cup {NoPod} :
              /\ lister' = [lister EXCEPT ![j] = q]
              /\ kept' = [b \in Addrs |-> kept[b] \/ (q # NoPod /\ q.addr = b)]
        BY <1>2 DEF Event
      <4>2. q # NoPod => q.addr # a
        BY <1>1, <2>2, PodsAssumption
      <4> QED
        BY <1>1, <1>2, <2>2, <4>1, <4>2 DEF Event, Basic, TypeOK
    <3>2. Owed(k, p, a)
      BY <1>1, <3>1 DEF Asked
    <3>3. calls \subseteq calls' /\ UNCHANGED <<dirty, workerVars, dests>>
      BY <1>2 DEF Event, queueVars, tableVars
    <3> QED
      BY <3>2, <3>3, SameOwed
  <2> QED
    BY <2>1, <2>2
<1>3. ASSUME UNCHANGED <<lister, up, workerVars>>, kept'[a] => kept[a],
             k \in calls \cup dirty => k \in calls' \cup dirty',
             \A s \in Services : dests'[s][a] = dests[s][a]
      PROVE  Owed(k, p, a)'
  <2>1. Owed(k, p, a)
    BY <1>1, <1>3 DEF Asked
  <2> QED
    BY <1>3, <2>1, SameOwed
<1>4. ASSUME NEW j \in Keys, HandleEvent(j) PROVE Owed(k, p, a)'
  <2>1. calls' = calls \ {j} /\ dirty' = dirty \cup {j}
    BY <1>4, AddEffect DEF HandleEvent, Basic
  <2> QED
    BY <1>3, <1>4, <2>1 DEF HandleEvent, boundVars, tableVars
<1>5. ASSUME NEW s \in Services, NEW b \in Addrs, ProxyStep(s, b) PROVE Owed(k, p, a)'
  <2>1. PICK weight : Proxy(s, b, weight)
    BY <1>5 DEF ProxyStep, ProxyAdds, ProxyDrains, ProxyRemoves
  <2>2. b # a
    BY <1>1, <2>1 DEF Proxy, Basic, TypeOK
  <2>3. kept'[a] = kept[a] /\ \A t \in Services : dests'[t][a] = dests[t][a]
    BY <2>1, <2>2 DEF Proxy, Basic, TypeOK
  <2> QED
    BY <1>3, <2>1, <2>3 DEF Proxy, queueVars
<1>6. ASSUME NEW w \in Workers, WorkerStep(w) PROVE Owed(k, p, a)'
  <2>1. lister' = lister /\ Asked(k, p, a)
    BY <1>1, <1>6, WorkerAsked DEF Asked
  <2> QED
    BY <1>1, <1>6, <2>1, WorkerStepOwed
<1>7. ASSUME StatStep PROVE Owed(k, p, a)'
  <2>1. UNCHANGED <<lister, calls, queueVars, workerVars, tableVars, boundVars, kept>>
    BY <1>7 DEF StatStep, CollectBegins, NextMap, Respond, Visit, Skip
  <2> QED
    BY <1>3, <2>1 DEF queueVars, tableVars, boundVars
<1>8. ~Crash /\ \A w \in Workers : ~Panic(w)
  BY <1>1 DEF Crash, Panic, ProcessDown
<1>9. CASE Start
  BY <1>1, <1>9 DEF Start, Owed
<1>10. ASSUME UNCHANGED vars PROVE Owed(k, p, a)'
  BY <1>3, <1>10 DEF vars, queueVars, tableVars, boundVars
<1> QED
  BY <1>2, <1>4, <1>5, <1>6, <1>7, <1>8, <1>9, <1>10 DEF Next

LEMMA SettledAreWeighed == ASSUME Basic, WeightsInv PROVE SettledWeights
<1> SUFFICES ASSUME NEW k \in Keys, Settled(k), lister[k] # NoPod, NEW a \in Addrs,
                    lister[k].addr = a, kept[a], lister[k].weight # NoLabel,
                    Accepted(WeightOf(lister[k]))
             PROVE  Weighed(lister[k], a)
  BY DEF SettledWeights, Weighed
<1>1. lister[k] \in Pods /\ Asked(k, lister[k], a)
  BY DEF Basic, TypeOK, Settled, Asked
<1>2. Owed(k, lister[k], a)
  BY <1>1 DEF WeightsInv
<1>3. \A w \in Workers : held[w] # k
  BY TablesMarkers DEF Basic, WorkersInv, WorkerOK, Settled
<1> QED
  BY <1>2, <1>3 DEF Owed, Settled

\* Once the events of a pod are handled, a real server of it has the weight of
\* its label, whatever syncs of other pods and keys ran meanwhile.
THEOREM WeightsSettle == Spec => []SettledWeights
<1>1. Init => WeightsInv
  BY DEF Init, WeightsInv, Asked
<1>2. Basic /\ WeightsInv /\ [Next]_vars => (Basic /\ WeightsInv)'
  BY BasicStep, WeightsInvStep DEF Basic
<1> QED
  BY <1>1, <1>2, BasicInit, SettledAreWeighed, PTL DEF Spec

=============================================================================
