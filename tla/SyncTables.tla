------------------------------ MODULE SyncTables ------------------------------
(***************************************************************************)
(* The tables that the syncs of the podmanager (pkg/podmanager/server.go)  *)
(* share with others: the IPVS tables of the kernel, in which kube-proxy   *)
(* keeps the real servers and syncHandler sets their weights; the registry *)
(* of the container groups' cgroups (pkg/cgroup); and the three pod maps,  *)
(* which GET /stats walks through while the workers change them.           *)
(*                                                                         *)
(* The informer is reduced to its effect: the lister shows a change, then  *)
(* the key is queued.  syncPodState, which runs between the loading of the *)
(* cgroups and the maps, only takes time here (module PodManager).         *)
(***************************************************************************)
EXTENDS CgroupPath, Integers, FiniteSets

CONSTANTS
  Keys, Workers,
  Services,     \* virtual services of the kernel's table
  Addrs,        \* IP address and port of a real server
  WeightLabels, \* numbers, NoLabel, and Garbled: what ParseInt rejects
  Pods,         \* the pods the lister may show, see Pod
  Word,         \* 2^32: the kernel is given the weight as an uint32
  DefaultWeight, \* defaultIPVSWeight
  NoPod, NoInfo, NoKey, NoAddr, NoDest, NoLabel, Garbled, NoPath, NoTarget,
  MaxEdits, MaxProxy, MaxFaults, MaxReports, MinEntries  \* bounds

Maps == {"LC", "BE", "Uncontrolled"}
Steps == {"idle", "fetch", "scan", "edit", "load", "store"}
Stages == Maps \cup {"idle"}

\* `addr' is the pod's IP with the first port of its first container, NoAddr
\* when one of them is missing; `cid' is NoCid while its container has no ID; `map' is
\* the map its labels call for (PodManager!MapOf).
Pod == [key : Keys, uid : Uids, qos : QoSClasses, group : Groups \cup {NoGroup},
        local : BOOLEAN, running : BOOLEAN, ports : BOOLEAN,
        addr : Addrs \cup {NoAddr}, weight : WeightLabels,
        cid : Cids \cup {NoCid}, map : Maps]

\* The QoS class of a pod never changes, and its group label is taken not to:
\* the kubelet has created the cgroup by then.  No two pods have one address.
ASSUME PodsAssumption ==
  /\ Pods \subseteq Pod
  /\ \A p, q \in Pods :
       /\ p.uid = q.uid => p.key = q.key /\ p.qos = q.qos /\ p.group = q.group
       /\ p.addr = q.addr /\ p.addr # NoAddr => p.key = q.key
ASSUME TablesMarkers ==
  /\ NoKey \notin Keys /\ NoTarget \notin Keys /\ NoTarget # NoKey
  /\ NoAddr \notin Addrs /\ NoPod \notin Pods
  /\ NoPath \notin Seq(Seq(Parts))
  /\ NoLabel \in WeightLabels /\ NoLabel # Garbled
  /\ WeightLabels \ {NoLabel, Garbled} \subseteq Int
ASSUME TablesBounds ==
  /\ Word \in Nat /\ Word > 2 /\ DefaultWeight \in 0 .. (Word \div 2) - 1
  /\ Services # {}
  /\ {MaxEdits, MaxProxy, MaxFaults, MaxReports, MinEntries} \subseteq Nat

VARIABLES
  lister,       \* the informer's copy of the pods of all nodes
  calls,        \* keys whose handler call is under way
  queue, dirty, processing,
  pc, held, pod, \* worker w: its step, its key, `pod' of syncHandler
  todo,         \* services whose destinations w has not asked for yet
  target,       \* the destination w found: its service and address
  podMap,       \* LCPodMap, BEPodMap and UncontrolledPodMap
  groups,       \* containerGroupCgroups
  dests,        \* dests[s][a]: the weight of real server a of service s
  stage,        \* the map a GET /stats is in
  left,         \* its keys that Range has not come to yet
  report,       \* the entries collected
  up, edits, proxied, faults, reports,
  \* History.
  kept,         \* kube-proxy left a alone, and no call failed, since the last event
  steady        \* entries there, and readable, since the collection began

queueVars == <<queue, dirty, processing>>
workerVars == <<pc, held, pod, todo, target>>
statVars == <<stage, left, report, reports>>
tableVars == <<podMap, groups, dests>>
boundVars == <<up, edits, proxied, faults>>
vars == <<lister, calls, queueVars, workerVars, statVars, tableVars, boundVars, kept, steady>>

WQ == INSTANCE WorkQueue WITH Items <- Keys, NoItem <- NoKey, Exited <- NoTarget,
                              waiting <- {}, shuttingDown <- FALSE

Weights == 0 .. Word - 1 \cup {NoDest}
Info == [pod : Pods, cgroup : Seq(Seq(Parts)), container : Seq(Seq(Parts))]
Target == Services \X Addrs

TypeOK ==
  /\ lister \in [Keys -> Pods \cup {NoPod}]
  /\ calls \in SUBSET Keys
  /\ queue \in Seq(Keys) /\ dirty \in SUBSET Keys /\ processing \in SUBSET Keys
  /\ pc \in [Workers -> Steps]
  /\ held \in [Workers -> Keys \cup {NoKey}]
  /\ pod \in [Workers -> Pods \cup {NoPod}]
  /\ todo \in [Workers -> SUBSET Services]
  /\ target \in [Workers -> Target \cup {NoTarget}]
  /\ podMap \in [Maps -> [Keys -> Info \cup {NoInfo}]]
  /\ groups \in [Groups -> Seq(Seq(Parts)) \cup {NoPath}]
  /\ dests \in [Services -> [Addrs -> Weights]]
  /\ stage \in Stages /\ left \in SUBSET Keys
  /\ report \in SUBSET (Maps \X Keys) /\ steady \in SUBSET (Maps \X Keys)
  /\ up \in BOOLEAN /\ kept \in [Addrs -> BOOLEAN]
  /\ edits \in 0..MaxEdits /\ proxied \in 0..MaxProxy /\ faults \in 0..MaxFaults
  /\ reports \in 0..MaxReports

-----------------------------------------------------------------------------
(* Weights and addresses. *)

\* Faulty variant of WeightOf: a label that is no number counts as 1.
WeightOrOne(p) == IF p.weight = Garbled THEN 1 ELSE p.weight

\* The weight asked for by a label that is there.
WeightOf(p) == IF p.weight = Garbled THEN DefaultWeight ELSE p.weight

\* The kernel reads the uint32 as a signed number and rejects negative ones.
Stored(weight) == weight % Word
Accepted(weight) == Stored(weight) < Word \div 2

\* Faulty variant of Matches: the port is not compared.
MatchesIP(p, a) == p.addr # NoAddr /\ p.addr.ip = a.ip

\* A pod without an IP matches nothing: net.ParseIP("") is nil.
Matches(p, a) == p.addr = a

CgroupOf(p) == PodPath(p.qos, p.group, p.uid)
ContainerOf(p) == ContainerPath(p.qos, p.group, p.uid, p.cid)

Present(m, k) == podMap[m][k] # NoInfo

\* The cgroup of a pod goes with the pod.
Readable(m, k) ==
  Present(m, k) /\ lister[k] # NoPod /\ podMap[m][k].cgroup = CgroupOf(lister[k])

\* What has been readable all the time still is.
KeepSteady == steady' = {e \in steady : Readable(e[1], e[2])'}

-----------------------------------------------------------------------------
(* The world outside. *)

\* A pod appears, changes, is replaced by one of the same name, or goes; of one
\* that goes while the watch is broken, the handler makes no key.
Event(k) ==
  /\ up
  /\ edits < MaxEdits /\ edits' = edits + 1
  /\ \E p \in {q \in Pods : q.key = k} \cup {NoPod} :
       /\ p # lister[k]
       /\ lister' = [lister EXCEPT ![k] = p]
       /\ kept' = [a \in Addrs |-> kept[a] \/ (p # NoPod /\ p.addr = a)]
  /\ calls' = calls \cup {k} \/ (lister'[k] = NoPod /\ UNCHANGED calls)
  /\ UNCHANGED <<queueVars, workerVars, statVars, tableVars, up, proxied, faults>>
  /\ KeepSteady

\* enqueuePod
HandleEvent(k) ==
  /\ k \in calls /\ calls' = calls \ {k}
  /\ WQ!Add(k)
  /\ UNCHANGED <<lister, workerVars, statVars, tableVars, boundVars, kept, steady>>

Proxy(s, a, weight) ==
  /\ proxied < MaxProxy /\ proxied' = proxied + 1
  /\ dests' = [dests EXCEPT ![s][a] = weight]
  /\ kept' = [kept EXCEPT ![a] = FALSE]
  /\ UNCHANGED <<lister, calls, queueVars, workerVars, statVars, podMap, groups,
                 up, edits, faults, steady>>

\* kube-proxy adds a real server, or finds one in its first sync.
ProxyAdds(s, a) == dests[s][a] # 1 /\ Proxy(s, a, 1)
\* It takes one out of service that still has connections ...
ProxyDrains(s, a) == dests[s][a] \notin {NoDest, 0} /\ Proxy(s, a, 0)
\* ... or has none.
ProxyRemoves(s, a) == dests[s][a] # NoDest /\ Proxy(s, a, NoDest)

ProxyStep(s, a) == ProxyAdds(s, a) \/ ProxyDrains(s, a) \/ ProxyRemoves(s, a)

-----------------------------------------------------------------------------
(* syncHandler, as run by worker w. *)

Goto(w, step) == pc' = [pc EXCEPT ![w] = step]

\* The end of processNextWorkItem.
FinishItem(w) ==
  /\ WQ!Finish(held[w])
  /\ Goto(w, "idle")
  /\ held' = [held EXCEPT ![w] = NoKey]
  /\ pod' = [pod EXCEPT ![w] = NoPod]
  /\ UNCHANGED <<todo, target>>

\* Delete the key from the three maps and return nil.
DropAndFinish(w) ==
  /\ podMap' = [m \in Maps |-> [podMap[m] EXCEPT ![held[w]] = NoInfo]]
  /\ FinishItem(w)
  /\ UNCHANGED <<lister, calls, statVars, dests, boundVars, kept>>
  /\ KeepSteady

Get(w) ==
  /\ up /\ pc[w] = "idle"
  /\ WQ!Pop
  /\ held' = [held EXCEPT ![w] = Head(queue)]
  /\ Goto(w, "fetch")
  /\ UNCHANGED <<lister, calls, pod, todo, target, statVars, tableVars, boundVars, kept, steady>>

FetchGone(w) ==
  /\ pc[w] = "fetch" /\ lister[held[w]] = NoPod
  /\ DropAndFinish(w)
  /\ UNCHANGED groups

\* The copy of the pod, and whether setLoadBalanceWeight has anything to do.
Fetch(w) ==
  LET p == lister[held[w]]
  IN  /\ pc[w] = "fetch" /\ p # NoPod
      /\ p.weight # NoLabel => p.ports
      /\ pod' = [pod EXCEPT ![w] = p]
      /\ IF p.weight = NoLabel
         THEN Goto(w, "load") /\ UNCHANGED todo
         ELSE Goto(w, "scan") /\ todo' = [todo EXCEPT ![w] = Services]
      /\ UNCHANGED <<lister, calls, queueVars, held, target, statVars, tableVars, boundVars,
                     kept, steady>>

\* GetDestinations of the next service.
Found(w, s) == {a \in Addrs : dests[s][a] # NoDest /\ Matches(pod[w], a)}

\* Faulty variant of ScanMiss: only one service is asked for the real server.
ScanFirst(w, s) ==
  /\ pc[w] = "scan" /\ s \in todo[w]
  /\ Found(w, s) = {}
  /\ todo' = [todo EXCEPT ![w] = {}]
  /\ Goto(w, "load")
  /\ UNCHANGED <<lister, calls, queueVars, held, pod, target, statVars, tableVars, boundVars,
                 kept, steady>>

\* After the last service: "not found real server", logged and never tried again.
ScanMiss(w, s) ==
  /\ pc[w] = "scan" /\ s \in todo[w]
  /\ Found(w, s) = {}
  /\ todo' = [todo EXCEPT ![w] = @ \ {s}]
  /\ IF todo[w] = {s} THEN Goto(w, "load") ELSE UNCHANGED pc
  /\ UNCHANGED <<lister, calls, queueVars, held, pod, target, statVars, tableVars, boundVars,
                 kept, steady>>

ScanHit(w, s) ==
  /\ pc[w] = "scan" /\ s \in todo[w]
  /\ \E a \in Found(w, s) : target' = [target EXCEPT ![w] = <<s, a>>]
  /\ todo' = [todo EXCEPT ![w] = {}]
  /\ Goto(w, "edit")
  /\ UNCHANGED <<lister, calls, queueVars, held, pod, statVars, tableVars, boundVars, kept, steady>>

\* UpdateDestination: fails when the destination has gone or the weight is
\* negative, which is logged.
EditWeight(w) ==
  LET s == target[w][1]
      a == target[w][2]
      weight == WeightOf(pod[w])
  IN  /\ pc[w] = "edit"
      /\ dests' = IF dests[s][a] # NoDest /\ Accepted(weight)
                  THEN [dests EXCEPT ![s][a] = Stored(weight)] ELSE dests
      /\ target' = [target EXCEPT ![w] = NoTarget]
      /\ Goto(w, "load")
      /\ UNCHANGED <<lister, calls, queueVars, held, pod, todo, statVars, podMap, groups, boundVars,
                     kept, steady>>

\* A call into the kernel fails, which is logged.
IPVSFails(w) ==
  /\ pc[w] \in {"scan", "edit"}
  /\ faults < MaxFaults /\ faults' = faults + 1
  /\ kept' = IF pod[w].addr = NoAddr THEN kept ELSE [kept EXCEPT ![pod[w].addr] = FALSE]
  /\ todo' = [todo EXCEPT ![w] = {}]
  /\ target' = [target EXCEPT ![w] = NoTarget]
  /\ Goto(w, "load")
  /\ UNCHANGED <<lister, calls, queueVars, held, pod, statVars, tableVars,
                 up, edits, proxied, steady>>

\* Only now is it asked whether the pod runs on this node.
Elsewhere(w) ==
  /\ pc[w] = "load" /\ ~(pod[w].local /\ pod[w].running)
  /\ DropAndFinish(w)
  /\ UNCHANGED groups

\* Faulty variant of LoadGroup: registers the slice of the QoS class.
LoadClass(p) ==
  groups' = IF p.group = NoGroup \/ groups[p.group] # NoPath THEN groups
            ELSE [groups EXCEPT ![p.group] = GroupPath(p.qos, NoGroup)]

\* loadContainerGroupCgroup, under its lock: the first pod of a group decides.
LoadGroup(p) ==
  groups' = IF p.group = NoGroup \/ groups[p.group] # NoPath THEN groups
            ELSE [groups EXCEPT ![p.group] = GroupPath(p.qos, p.group)]

\* LoadPodCgroup succeeds, LoadContainerCgroup finds no container ID.
LoadFails(w) ==
  /\ pc[w] = "load" /\ pod[w].local /\ pod[w].running /\ pod[w].cid = NoCid
  /\ LoadGroup(pod[w])
  /\ DropAndFinish(w)

Load(w) ==
  /\ pc[w] = "load" /\ pod[w].local /\ pod[w].running /\ pod[w].cid # NoCid
  /\ LoadGroup(pod[w])
  /\ Goto(w, "store")
  /\ UNCHANGED <<lister, calls, queueVars, held, pod, todo, target, statVars, podMap, dests, boundVars,
                 kept, steady>>

\* Faulty variant of Store: the pod without its PodInfo.
StoreBare(w) ==
  /\ pc[w] = "store"
  /\ podMap' = [podMap EXCEPT ![pod[w].map][held[w]] = pod[w]]
  /\ FinishItem(w)
  /\ UNCHANGED <<lister, calls, statVars, groups, dests, boundVars, kept>>
  /\ KeepSteady

\* LoadOrStore: the cgroups of an entry that is there already stay.
Store(w) ==
  LET p == pod[w]
      k == held[w]
      new == [pod |-> p, cgroup |-> CgroupOf(p), container |-> ContainerOf(p)]
  IN  /\ pc[w] = "store"
      /\ podMap' = [podMap EXCEPT ![p.map][k] =
                      IF @ = NoInfo THEN new ELSE [@ EXCEPT !.pod = p]]
      /\ FinishItem(w)
      /\ UNCHANGED <<lister, calls, statVars, groups, dests, boundVars, kept>>
      /\ KeepSteady

WorkerStep(w) ==
  \/ Get(w) \/ FetchGone(w) \/ Fetch(w) \/ EditWeight(w) \/ IPVSFails(w)
  \/ Elsewhere(w) \/ LoadFails(w) \/ Load(w) \/ Store(w)
  \/ \E s \in Services : ScanMiss(w, s) \/ ScanHit(w, s)

-----------------------------------------------------------------------------
(* GET /stats: CollectPodMetrics. *)

Following(m) == IF m = "LC" THEN "BE" ELSE "Uncontrolled"

\* Bound: only when MinEntries entries are there.
CollectBegins ==
  /\ up /\ stage = "idle"
  /\ reports < MaxReports /\ reports' = reports + 1
  /\ Cardinality({e \in Maps \X Keys : Present(e[1], e[2])}) >= MinEntries
  /\ stage' = "LC" /\ left' = Keys /\ report' = {}
  /\ steady' = {e \in Maps \X Keys : Readable(e[1], e[2])}
  /\ UNCHANGED <<lister, calls, queueVars, workerVars, tableVars, boundVars, kept>>

\* Faulty variant of Visit: an entry that cannot be read ends the Range.
VisitOrStop(k) ==
  /\ stage # "idle" /\ k \in left /\ Present(stage, k)
  /\ left' = IF Readable(stage, k) THEN left \ {k} ELSE {}
  /\ report' = IF Readable(stage, k) THEN report \cup {<<stage, k>>} ELSE report
  /\ UNCHANGED <<lister, calls, queueVars, workerVars, tableVars, boundVars, stage, reports, kept, steady>>

\* Range comes to an entry; one whose cgroup cannot be read is passed over.
Visit(k) ==
  /\ stage # "idle" /\ k \in left /\ Present(stage, k)
  /\ left' = left \ {k}
  /\ report' = IF Readable(stage, k) THEN report \cup {<<stage, k>>} ELSE report
  /\ UNCHANGED <<lister, calls, queueVars, workerVars, tableVars, boundVars, stage, reports, kept, steady>>

\* Range does not find the key, also not if it is stored later on.
Skip(k) ==
  /\ stage # "idle" /\ k \in left /\ ~Present(stage, k)
  /\ left' = left \ {k}
  /\ UNCHANGED <<lister, calls, queueVars, workerVars, tableVars, boundVars, stage, report, reports,
                 kept, steady>>

NextMap ==
  /\ stage \in {"LC", "BE"} /\ left = {}
  /\ stage' = Following(stage) /\ left' = Keys
  /\ UNCHANGED <<lister, calls, queueVars, workerVars, tableVars, boundVars, report, reports,
                 kept, steady>>

\* ServeHTTP writes what was collected.
Respond ==
  /\ stage = "Uncontrolled" /\ left = {}
  /\ stage' = "idle" /\ report' = {} /\ steady' = {}
  /\ UNCHANGED <<lister, calls, queueVars, workerVars, tableVars, boundVars, left, reports, kept>>

StatStep == CollectBegins \/ NextMap \/ Respond \/ \E k \in Keys : Visit(k) \/ Skip(k)

-----------------------------------------------------------------------------
(* Starting and stopping: the kernel's tables stay. *)

ProcessDown ==
  /\ up' = FALSE
  /\ calls' = {}
  /\ queue' = <<>> /\ dirty' = {} /\ processing' = {}
  /\ pc' = [w \in Workers |-> "idle"]
  /\ held' = [w \in Workers |-> NoKey]
  /\ pod' = [w \in Workers |-> NoPod]
  /\ todo' = [w \in Workers |-> {}]
  /\ target' = [w \in Workers |-> NoTarget]
  /\ podMap' = [m \in Maps |-> [k \in Keys |-> NoInfo]]
  /\ groups' = [g \in Groups |-> NoPath]
  /\ stage' = "idle" /\ left' = {} /\ report' = {} /\ steady' = {}

\* Containers[0].Ports[0] of a container that declares no port.
Panic(w) ==
  /\ pc[w] = "fetch" /\ lister[held[w]] # NoPod
  /\ lister[held[w]].weight # NoLabel /\ ~lister[held[w]].ports
  /\ ProcessDown
  /\ UNCHANGED <<lister, dests, edits, proxied, faults, reports, kept>>

Crash ==
  /\ up
  /\ edits < MaxEdits /\ edits' = edits + 1
  /\ ProcessDown
  /\ UNCHANGED <<lister, dests, proxied, faults, reports, kept>>

\* The cgroups of the QoS classes are loaded (without a look at whether they
\* exist); the pods listed come as events.
Start ==
  /\ ~up /\ up' = TRUE
  /\ calls' = {k \in Keys : lister[k] # NoPod}
  /\ kept' = [a \in Addrs |-> kept[a] \/ \E k \in calls' : lister[k].addr = a]
  /\ UNCHANGED <<lister, queueVars, workerVars, statVars, tableVars,
                 edits, proxied, faults, steady>>

Init ==
  /\ lister = [k \in Keys |-> NoPod] /\ calls = {}
  /\ queue = <<>> /\ dirty = {} /\ processing = {}
  /\ pc = [w \in Workers |-> "idle"]
  /\ held = [w \in Workers |-> NoKey]
  /\ pod = [w \in Workers |-> NoPod]
  /\ todo = [w \in Workers |-> {}]
  /\ target = [w \in Workers |-> NoTarget]
  /\ podMap = [m \in Maps |-> [k \in Keys |-> NoInfo]]
  /\ groups = [g \in Groups |-> NoPath]
  /\ dests = [s \in Services |-> [a \in Addrs |-> NoDest]]
  /\ stage = "idle" /\ left = {} /\ report = {} /\ steady = {}
  /\ up = FALSE /\ kept = [a \in Addrs |-> FALSE]
  /\ edits = 0 /\ proxied = 0 /\ faults = 0 /\ reports = 0

Next ==
  \/ \E k \in Keys : Event(k) \/ HandleEvent(k)
  \/ \E s \in Services, a \in Addrs : ProxyStep(s, a)
  \/ \E w \in Workers : WorkerStep(w) \/ Panic(w)
  \/ StatStep \/ Crash \/ Start

Spec == Init /\ [][Next]_vars

-----------------------------------------------------------------------------
(* Properties *)

\* No event of k is under way.
Settled(k) == up /\ k \notin calls /\ k \notin dirty /\ k \notin processing

\* Events of a pod are merged, and a sync may write a weight that was read long
\* ago.  Still, once its events are handled, one of the real servers of the pod
\* has the weight of its label, unless kube-proxy has touched them, or a call
\* into the kernel failed, since the last of these events.
SettledWeights ==
  \A k \in Keys : Settled(k) /\ lister[k] # NoPod =>
    LET p == lister[k]
    IN  \A a \in Addrs :
          /\ p.addr = a /\ kept[a] /\ p.weight # NoLabel /\ Accepted(WeightOf(p))
          /\ \E s \in Services : dests[s][a] # NoDest
          => \E s \in Services : dests[s][a] = Stored(WeightOf(p))

\* Workers set the weights of different pods at a time, each by reading and
\* writing entries of one table: a real server never has a weight that was
\* meant for another pod, nor one that no label asked for.
OwnWeights ==
  \A s \in Services, a \in Addrs :
    dests[s][a] \in {NoDest, 0, 1}
      \cup {Stored(WeightOf(p)) : p \in {q \in Pods : q.addr = a /\ q.weight # NoLabel}}

\* Entries outlive their pods and pods are created again under old names, yet
\* what the resource controller writes for one key never lands in the cgroup of
\* a pod of another key.
NoSharedCgroup ==
  \A m, n \in Maps, j, k \in Keys :
    Present(m, j) /\ Present(n, k) /\ j # k =>
      /\ podMap[m][j].cgroup # podMap[n][k].cgroup
      /\ podMap[m][j].container # podMap[n][k].container

\* The registry keeps one cgroup per group, that of the first pod's QoS class:
\* it has one for every managed pod that has its own cgroup and, when all pods of
\* the group are of one class, that is the slice around the pod's.
OneClass(g) == \A p, q \in Pods : p.group = g /\ q.group = g => p.qos = q.qos
GroupsAbovePods ==
  \A m \in Maps, k \in Keys :
    LET info == podMap[m][k]
        p == info.pod
    IN  info # NoInfo /\ p.group # NoGroup /\ info.cgroup = CgroupOf(p) =>
          /\ groups[p.group] # NoPath
          /\ OneClass(p.group) =>
               info.cgroup = Append(groups[p.group], PodSlice(p.qos, p.group, p.uid))

\* Range gives no snapshot and reading a cgroup may fail at any entry: still a
\* pod that is there and readable throughout a collection is in the response.
Passed(m, k) == CASE stage = "LC" -> m = "LC" /\ k \notin left
                  [] stage = "BE" -> m = "LC" \/ (m = "BE" /\ k \notin left)
                  [] OTHER -> m # "Uncontrolled" \/ k \notin left
ReportComplete ==
  stage # "idle" => \A e \in steady : Passed(e[1], e[2]) => e \in report

=============================================================================
