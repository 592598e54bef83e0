# Verification of GenesisRM PodManager

TLA+ models, TLC runs and TLAPS proofs of the node agent `podmanager` (`cmd/podmanager`,
`pkg/podmanager`), of the SwiftDeployment controller and the swiftlets (`pkg/controller`,
`pkg/swiftlet`), and of the work queue they are built on. Everything is written from the
source; line numbers below and in `PROJECT.json` ("map") are those of this commit.

## 1. The system

`podmanager` runs on every node. Users (or a controller) put *labels* on pods: `enabled`,
`service-type` (LC, latency critical, or BE, best effort), `state` (Initializing, WarmingUp,
Ready-FullSpeed, Ready-Running, Ready-CatNap, Ready-LongNap), `endpoint` (Up or Down: does the
pod serve?) and `cpuset`. The agent answers with the `endpoint` label and with what it writes to
the pod's cgroup: `cpu.max`, `memory.high`, `cpuset.cpus`.

| component | state | operations | talks to |
|---|---|---|---|
| work queue (`client-go/util/workqueue`) | `queue`, `dirty`, `processing`, waiting heap, `shuttingDown`, a condition variable | Add, Get, Done, AddRateLimited, ShutDown | informer handlers add, workers get |
| pod informer (`client-go/tools/cache`) | indexer, pending handler calls | list/watch, deltas, tombstones, resync | API server -> lister, `enqueuePod` |
| workers (`server.go`, 64 goroutines) | `LCPodMap`, `BEPodMap`, `UncontrolledPodMap`; locals of `syncHandler` | `syncHandler`, `syncPodState` | lister, API server (Update), the maps |
| resource controller (`resource_controller.go`, 1 goroutine) | metrics per pod, totals of the last tick | one tick: list, decide, write | lister, the maps (`CPUState`), cgroups |
| division of the cores (`resource_controller.go`, `resource.go`) | none | totals -> LC, mix and BE regions | |
| cgroup files (`pkg/cgroup`, `resource.go`) | files of the kernel | read quota, write | kernel |
| cgroup registry (`pkg/cgroup`) | `containerGroupCgroups`, under a lock | load the cgroups of a group, a pod, a container | workers, kernel |
| IPVS weights (`server.go`) | the kernel's virtual services and real servers | `setLoadBalanceWeight`: scan, then edit | kernel; kube-proxy writes the same table |
| metrics (`monitor.go`, `metrics.go`, `server.go`) | the entries collected so far | GET /stats: walk the three maps | the maps, cgroups |
| SwiftDeployment controller (`pkg/controller`) | listers, queue; locals of `syncHandler` | one sync: create the Deployment and the Service, label, resize, relabel, write the status | API server |
| swiftlet (`pkg/swiftlet`), one per node | lister, queue | carries out the labels `runnable` and `sleeping` of its pods | API server |
| app manager (`pkg/appmanager`) | none | read-only HTTP | API server |
| memory controller, `netscaler.go`, `genesis-server` | | not started / empty | |

Hard parts. The lister, the maps and the API server are three copies of a pod that differ most of
the time; a worker reads the lister once and may then wait in a loop for the resource controller,
which reads the newest labels: each can be waiting for what the other has long left behind. Updates
can conflict, fail, or succeed with their answer lost. The controller writes cpusets only when a
total changes and remembers what it wrote for pods that may meanwhile be others. Weights are written from a copy read several
kernel calls earlier, into a table kube-proxy writes too. Entries of the maps outlive their pods and are handed to pods created again. The SwiftDeployment
controller and the swiftlets talk only through labels that each writes from a copy which may be old, and the
former ignores some of its errors; a container that has no ID yet ends a swiftlet that is to act on its pod. Nothing is persisted. What makes each part correct is listed under "hazards" in `PROJECT.json`, each at its
line, with the properties of section 4 that cover it.

## 2. Modules

| module | models |
|---|---|
| `WorkQueue` | the queue as its lock shows it: one operator per critical section (`Add`, `Pop`, `Finish`), and client actions around them |
| `CondQueue` | `WorkQueue` plus the condition variable: `Sleep`, `Signal`, Broadcast; implements `WorkQueue!FairSpec` |
| `PodTypes` | labels, the helpers that read them, and the decision the controller takes for a pod |
| `PodManager` | API server, informer, queue (INSTANCE `WorkQueue`), workers, maps, the CPU state of each pod, crashes |
| `CpusetPlan` | division of the cores, with uint64 subtraction that wraps |
| `ResourceController` | the tick, step by step, over cgroups that fail or disappear |
| `CgroupPath` | the names of slices and scopes as the kubelet nests them |
| `SyncTables` | what syncs share with others: the IPVS table (next to kube-proxy), the cgroup registry, the maps under GET /stats |
| `SwiftCluster` | the SwiftDeployment, its Deployment, Service and pods in the API server; users; the Deployment controller of Kubernetes and the kubelets (external) |
| `SwiftDeployment` | the controller: its listers and `syncHandler`, call by call |
| `Swiftlet` | the swiftlets |
| `SwiftKube` | the last three composed; fairness and properties |
| `MCPodManager`, `MCResourceController`, `MCSyncTables` | symmetry sets and the pods for TLC |
| `WorkQueueProofs`, `PodManagerProofs`, `PodManagerUpdateProofs`, `CpusetPlanProofs`, `ResourceControllerProofs`, `CgroupPathProofs`, `SyncTablesProofs`, `SwiftKubeProofs` | theorems (section 5) |

Correspondence, `PodManager`. `api` is the API server, `cache` the lister, `notices` the handler calls not
yet made, `missed` a deletion that came as a tombstone and was dropped by `enqueuePod` (it has no
key). A worker goes through `Get`, `Fetch` (or `FetchGone`: every early return of `syncHandler`
that deletes the entries), then `Poll` (the wait loops), `WriteOK`/`WriteRejected`/`WriteFailed` (the
update loops, the refetch included) and `Store` (LoadOrStore and the end of processNextWorkItem).
`Panic` is the nil dereference of `GetPodInfo(key).CPUState`; it ends the whole process, as
`HandleCrash` panics again and nothing else recovers. `RCCollect` and `RCUpdate` are the resource
controller reduced to the CPU state it publishes, with the action it holds in between.
A `resourceVersion` is only compared for equality; a new one is any version not in sight (`Versions` is
finite, since a pod may flap for ever).

Correspondence, `SyncTables`. The same `syncHandler`, seen from the tables. `Event` and `HandleEvent` are the informer and
`enqueuePod`; pods of other nodes come too, as every node sets the weights of all pods. A worker goes through `Get`, `Fetch` or
`FetchGone`, one `ScanMiss` or `ScanHit` per virtual service (`setLoadBalanceWeight`, with one kernel call each), `EditWeight`
(`editIPVSWeight`) or `IPVSFails` at any of these calls, then `Elsewhere` (the pod is not on this node or does not run),
`LoadFails` (no container ID yet) or `Load`, and `Store`. `syncPodState` lies between `Load` and `Store` and only takes time here. Order
of the services is free, as the kernel gives it. `Panic` is `Containers[0].Ports[0]` of a container that declares no port. `CollectBegins`,
`Visit`, `Skip`, `NextMap` and `Respond` are `CollectPodMetrics`: `Range` of a `sync.Map` comes to a key once, in any order, and may
or may not see what is stored meanwhile. `kept` and `steady` are history variables. `Word` is the 2^32 of the netlink message's uint32; the kernel
takes it for a signed number. `CgroupPath` models a slice as the sequence of the parts of its name, since the code's
`-` to `_` replacement exists for these parts not to be confused.

Correspondence, `ResourceController`. One tick is `List`, `CollectMissing/Unknown/BE/LC` per pod (`total` adds up the requests as actions join `updateActions`),
`Advance` through the loops for the LC, mix and BE cpusets, `Update` and `PlaceBE` per pod, `EndTick`. The labels of a tick are those
of `List` (deep copies); the PodInfo is read when the pod is collected. `uid` distinguishes pods of one
name: a PodInfo keeps the cgroup of the pod it was made for. The workers are reduced to
`Sync`, `Drop` and `SetEndpoint`; the Pod in a PodInfo is taken to be as fresh as the lister's (module
`PodManager` is about when it is). `cpu.max` is "limited" or "unlimited", `memory.high` "not set", "10 GiB"
or "0": no property tells other values apart. The float arithmetic on millicores is exact here;
`Cores * 0.03` may in floating point round up to one more core for BE.

Correspondence, `SwiftKube`. One SwiftDeployment, which is not deleted; `sd` is its Spec. `SwiftCluster` keeps, instead of
versions, who holds a copy of the current one (`sdCurrent`, `podCurrent`): an Update is accepted from such a copy
only, and changes make every copy an old one. The exception is the Update of the Deployment (`:395`), which sends no version. A sync
is `Get`, `CreateDeployment`, `CreateService`, `InitPod` per pod without the label, `Resize`, `Relabel` per pod chosen by
`syncRunningPod`, `UpdateStatus`; each of them reads, after its call, what the code reads before the next one. The listers of the SwiftDeployment, the
Deployment and the Service are read only when a sync begins, so that their events may be put between syncs; the
pods' lister changes at any time, and is empty after a restart, as `Run` does not wait for it. `order[p]` is the
swiftlet's lister and queue in one. A pod's `container` is what its ContainerStatuses show: none yet, some container that waits and has no ID, or
all of them started; only pods that have started are available. With a container that waits, `Order` is "panic": `splitContainerID`
(`swiftlet/controller.go:303`) indexes out of range, HandleCrash panics again, and the DaemonSet (`swiftlet.yaml`) starts the swiftlet anew, which
hears of every pod of its node (`StartAgain`) and meets the same one. `AddRateLimited` takes effect at once: the back-off is as arbitrary as the moment
the worker runs. The Deployment controller of Kubernetes reports available pods at once. Users edit the Spec and delete the Deployment, and pods die; nobody deletes
the Service, for whose events the controller has no handler (`swiftdeployment_controller.go:112-146`): that the Service is there whenever the worker
rests (`SettledReplicas`, `RestsOnlyWhenServed`) holds only in this environment. A Service deleted by a user is created again by whatever sync comes next,
and none has to come.

Operators commented "faulty variant" are what a plausible mistake in the code would make of the
operator after them. No specification uses them; `PROJECT.json` ("mutants") says which property
each one breaks, to show that the property can fail.

## 3. Plan

Done in this order: `WorkQueue`, `CondQueue`, `PodTypes`, `PodManager` with runs and proofs, `CpusetPlan` with proofs,
`ResourceController`, `SwiftCluster`, `SwiftDeployment`, `Swiftlet`, `SwiftKube`, `CgroupPath` and `SyncTables` with proofs; then
the proofs of `NoLostWakeup`, of the updates of `PodManager`, and of the safety properties of `ResourceController` and `SwiftKube`; then the safety
behind the liveness properties (`SettledReplicas`, `NoLostOrder`, `SwapRemembered`, `PolledEntryStays`), stated, checked and proved, and theorems that confine
two of the findings. Next:

1. `SwiftKube`: the number of running pods does not converge (section 4); a run that shows it. Several SwiftDeployments, and their deletion.
2. A liveness property for pods of unknown service type, and the 64 workers running out.

## 4. Runs

Deadlock is not checked: users may do nothing for ever, and a queue may be shut down.

| run | checks | bounds |
|---|---|---|
| `CondQueue` | `CondTypeOK`, `QueueDiscipline`, `NoLostItem`, `ExclusiveItem`, `NoLostWakeup`, `EveryAddIsServed`, `ImplementsWorkQueue` | 3 items, 3 workers: two can sleep while one works, and an item can be queued, processed and waiting at once |
| `PodManagerFaults` | `TypeOK`, `SettledMaps`, `ExclusiveKey`, `NoUserEditLost`, `OnlyNappingPodsGoDown`, `UsesWorkQueue`, `PolledEntryStays` | 1 pod, 2 workers, 3 edits (creations, relabelling, deletions), 1 fault, 1 crash; LC, BE and unknown services, uncontrolled pods, pods that stop running |
| `PodManagerWake` | `KnownPodGoesUp` | 1 pod, 2 workers, 4 edits, 1 fault, 1 crash; LC pods in RCN and RR, no deletion |
| `ResourcesRegions` | `TypeOK`, `RegionsSeparate` | 2 pods, LC or BE, in the mix cpuset or not, 4 cores, requests of 1.5 and 5 cores (rounding, and more than the node has) |
| `ResourcesRecover` | `SwapRemembered`, `QuotaLifted`, `MemoryRestored`, `LongNapSwaps` | 1 name whose pod may be created again, 1 fault, 1 crash, the kubelet writing its limit; LC and unknown services |
| `SyncTables` | `TypeOK`, `SettledWeights`, `OwnWeights`, `NoSharedCgroup`, `GroupsAbovePods`, `ReportComplete` | 2 names, 4 UIDs, 2 workers, 2 services, 2 addresses, 3 edits or crashes, 2 changes by kube-proxy, 1 fault, 1 collection |
| `SwiftKube` | `TypeOK`, `SettledReplicas`, `NoLostOrder`, `PodCycle`, `SpecKept`, `ReplicasFollow`, `OrdersCarriedOut` | 1 pod, 0 or 1 replicas and running replicas, 2 edits, deaths or containers that wait, 1 fault or restart; panics are not counted |

One pod is enough where a property is about each key by itself: keys meet only in the queue, whose
own run has three, and in the totals of the controller, whose run has two. Two workers are needed for
an event that arrives during a sync, and no third can hold the same key. Three edits are a creation and
two changes: one that a sync acts on and one that overtakes it, or a deletion and a creation again; the safety properties
are proved for any number. Liveness is checked with four, since a pod has to be created, nap, go down and wake, with one change to spare. One fault suffices for
every failed step, and one crash for every prefix of a step. In `SwiftKube` a SwiftDeployment with one pod already
goes through every branch of `syncHandler`: from no replicas to one and back, from running to sleeping and back, the Deployment deleted
and created again, names that somebody else uses. Two edits put a change there and back, or a change and a deletion,
into one sync; a death and a container that waits are a pod ordered by a copy of the Deployment that still counts its predecessor. No property compares two pods with each other;
that a pod may wait because a swiftlet panics over another one is part of the fairness (`Undisturbed`), and not explored.

`RegionsSeparate` covers the mix cpuset. Actions for it request nothing, so that its LC pods are given the LC region and its BE pods the BE region; but
with no LC core requested at all the end of the mix region (`resource_controller.go:598`) wraps around, and LC pods in the mix cpuset get the whole
node, BE's cores included. The property states that case as its exception.

`OrdersCarriedOut` has a condition. `syncHandler` labels a pod as soon as it is listed, and decides by a copy of the Deployment that may be older than the pod:
a pod may be ordered to sleep before its container exists. The swiftlet then ends, again after each start, until the container has an ID. The
property says that no pod is under an order for ever unless such a pod exists again and again, or for ever (`ContainersMissing`); without that condition TLC
finds a pod whose image never comes, and which stands ordered for ever. `NoLostOrder` holds across the panics.

In `SyncTables` two pods of different names are compared with each other, and two weights can be written at a time; two services are the
least for a scan that misses one and hits the other, two ports of one IP for a match that must look at the port. `Word` is 16,
so that label 13 is negative to the kernel, and label 20 becomes 4; labels without a number, groups `a-b` and `a_b` that
are flattened to one name, and pods without a port, an IP or a container ID are all there. A collection starts when two entries exist: with
fewer nothing can be passed over.

What `SwiftKube` does not promise is that the number of running pods becomes the one asked for. The Updates of `syncRunningPod`
ignore their errors and no event of a pod leads to a sync (`swiftdeployment_controller.go:442`, `:450`): a relabelling that
meets a conflict is not tried again before something else changes. TLC finds this when asked; the hazards list it.

Five runs show where the code departs from what its comments say. Each checks one property:

* `PodManagerNewPod`: `syncPodState` is called before the pod is stored. A pod the manager has not
  seen, Ready-Running or warming up with endpoint Down, ends the process; after a restart every pod is one it has not seen.
* `PodManagerNapRetry`: the retry at `server.go:374` writes Up where the block writes Down. After one failed call a napping pod stays in
  service, or flaps.
* `PodManagerStaleEntry`: a pod relabelled from LC to BE keeps its LC entry, which is looked at first.
* `PodManagerWarmUp`: a worker waits for the CPU state of a label that has changed. Its key is never given to another worker.
* `ResourcesNap`: the tick between a pod's state change and its endpoint change uses up the change of
  the total, and the napping pod keeps its cores.

The same properties hold where the cause is absent: `KnownPodGoesUp` passes in `PodManagerWake`, whose pods
do not go through WarmingUp.

Fairness. `WorkQueue`: workers get and finish (handlers return). `PodManager`: watches deliver, handler calls are made, every worker
and the resource controller run, systemd restarts the process (`podmanager.service`: Restart=on-failure). `ResourceController`: its
goroutine and the workers run, and three seconds pass. `SwiftKube`: the worker runs, watches deliver, and a swiftlet carries out its
orders as long as none of them ends it. The watches have strong fairness for the listers that only change between syncs: events are
delivered while syncs run too, and a worker that fails for ever is between two syncs again and again. Nothing is assumed of users, of Kubernetes, of the
kubelet (a container may never start), or of a retry succeeding beyond the bound on faults.

## 5. Proofs

Proved by TLAPS for every value of the constants, under the named assumptions of the modules
(markers differ from real values, `Up` and `Down` are endpoint labels, bounds are natural numbers, there is at
least one core and fewer than 2^64, requests are natural numbers, and where cardinalities are counted the workers or the pods
are finitely many).

* `WorkQueueContract`: `TypeOK`, `QueueDiscipline`, `NoLostItem` and `ExclusiveItem` together are
  inductive. Lemmas say what each critical section keeps; the proofs of the modules that INSTANCE the queue use them as they are.
* `CondImplementsWorkQueue`: `CondSpec => Spec` (safety). `CondDiscipline`, `CondKeepsItems` and `CondExclusive` carry the contract over; `CondTypes`
  is about the types.
* `SignalsSuffice`: `NoLostWakeup`. Inductive with `SleepersIdle` (who sleeps holds no item): while some worker sleeps, no more items are
  queued than workers are awake and about to look; each append wakes one, each Get takes one of both.
* `PodManagerTypes`, `PodManagerExclusive`, `PodManagerSettles`. `SettledMaps` is not inductive: it says nothing
  of a pod being synced. `BasicInv` adds who holds which key and what a worker has at each step; `CopyInv` says that a worker past its
  read of the lister is right about the pod or will be followed by another; `MapsInv` says that of the maps. `Fresh(k)`
  (a call under way, a dropped tombstone, or `k` dirty) is what makes "will be followed" precise. One lemma per
  operator says what it changes, one step per action shows both parts kept.
* `UpdatesLoseNoEdit`, `OnlyNapsLeaveService`. `VersionInv` says that a copy with the version of the API server's pod
  equals it but for the endpoint, wherever the copy is; `NapInv` that a worker about to write Down has a copy in a nap state.
  A write is accepted only with the current version, so that what is true of the copy is true of the pod.
* `QueueUsedAsPromised`: every step of the manager is one of `WorkQueue` or leaves the queue alone, between crashes.
* `PollIsSafe`: what a step does to the LC map it does to the key of its worker (`WorkerEntries`, `RCEntries`, `QuietEntries`), and no other
  worker has the key of one that waits. A nil dereference in a wait loop is thus always that of `PodManagerNewPod`: of a pod that had no entry when the wait began.
* `OnlyRelabellingMisleads` confines the finding of `PodManagerStaleEntry`. The property fails in general; from `ServiceFixed(f)` (the service type of
  pod `k` is `f[k]` whenever it exists; every other label, deletions, faults and crashes are as free as before) it is proved.
  `ServiceInv` says that the lister, the workers' copies and the LC map then agree with `f`.
* `WaitsThatEnd`: for a ready LC pod (also one of unknown service type, as these are stored as LC) whose labels stay the same, the controller decides the
  awaited CPU state if and only if it has a cpuset which, in Ready-Running, is that of LC or BE. The others keep their worker for good.
* `ResourceTypes`, `RegionsAreSeparate`. `TickInv` adds that actions for the mix cpuset request nothing, that what is held of a pod is
  of an incarnation that exists or existed (a cgroup with the same uid is thus the one the action was made for), what each
  phase has still to do, and that each pod placed in this tick has the region of its cpuset, the mix cpuset included (`InRegion`). That the regions are
  disjoint then follows from `CpusetPlanProofs`.
* `SwapsAreRemembered`: the safety behind `MemoryRestored`, inductive together with `Inv`. No step but `Update` takes a pod's memory away
  or remembers anew that it has it (`NoNewMemory`; a pod created again has a new cgroup, which still has its memory), and `Update` remembers what it has
  written, and where the write failed what it remembered before.
* `CpusetPlanProofs`: the LC total fits the node and its requests, the unsigned differences behind BE's cores never wrap, BE
  always has its 3%, and the two regions partition the node. `MixRegionValue`: LC pods in the mix cpuset get the LC region for every
  total above zero, and the whole node for zero; they are apart from the BE pods in it (against the comment at
  `resource_controller.go:595`, "both LC and BE tasks") exactly if LC pods request something and leave BE its 3%.
* `PodPathsDiffer`, `ContainerPathsDiffer`, `SlicesNest` (`CgroupPathProofs`): the flattened names identify the pod, although those of
  groups may collide, and nest as systemd wants.
* `SyncTablesTypes`, `WeightsSettle`, `WeightsOwn`, `CgroupsApart`, `GroupsAgree`, `ReportsComplete`. Of `SettledWeights`
  the inductive form is `Owed`: of a pod whose weight is asked for, a sync is to come, or a worker has it in hand and the services it has not
  scanned include all that have the address, or it is done. `TablesInv` says whose cgroup an entry has: that of
  some pod of its key, not always the one in it. `ReportInv` says that what has been steady is readable.
* `SwiftKubeTypes`, `UsersSpecKept`, `LabelsCycle`. `SpecInv`: an accepted Update starts from the Spec as it is. `LabelInv`: what
  the holders of a pod's current version (lister, worker, swiftlet) know of it is right; a worker's list of
  pods is only as good as the moment it was made, for those of them it still holds currently.
* `OrdersNotLost`, `RestsOnlyWhenServed`: the safety behind `OrdersCarriedOut` and `ReplicasFollow`. The first needs that whoever changes
  the labels of a pod leaves no swiftlet in `podCurrent` that has not heard of it, and that an order that failed is kept, or read anew after a panic (`Told`). `SettledReplicas` is about a controller
  at rest; `SettledInv` adds what it needs at work: what the listers hold is current where they have seen the last change (`ListersInv`), the
  copy of a running sync passed its checks and has the Replicas it was given (`CopyInv`), and the worker comes back for
  ever to a Deployment that is somebody else's (`OtherInv`).

Only model-checked: liveness, which is out of the prover's reach (`EveryAddIsServed`, `KnownPodGoesUp`, `QuotaLifted`, `MemoryRestored`,
`LongNapSwaps`, `ReplicasFollow`, `OrdersCarriedOut`, the fairness part of `ImplementsWorkQueue`), and the five violations.

## 6. Not modelled

* App manager (`pkg/appmanager`): HTTP handlers that answer from listers and keep nothing between requests.
* Sample windows and `dynCalculateQuota`: its result is overwritten in the next line, so that nothing depends on the window.
* `memcontroller.go`, `reloadSwappages`, `UpdateContainerGroupCPUResource`, `GetContainerGroupCgroup`, the container runtime clients of the
  swiftlet: never called.
* The numbers and the formatting of GET /stats, and `CollectNodeMetrics`, which sums quotas that are never set.
* Errors of loading a cgroup with cgroup v2 mounted (paths are not looked at), of splitting keys (all are well formed), of the lister other than
  not found.
* Several SwiftDeployments, and their deletion (their keys meet only in the queue). A template that changes without
  the number of replicas, which the controller does not look at.
* Two pods that share an address: `PodsAssumption` excludes an IP that is used again while a worker has the copy of its former
  pod, and fixes the group label and the QoS class of a pod. Kubernetes fixes the class; the label decides before the cgroup is created.
* Back-off times, flags and signals, generated code, the wrappers around kubelet, kube-proxy and kubectl.

Data races on `PodInfo.Pod` and `PodInfo.CPUState` (pointers and strings written by one goroutine and
read by another without a lock) are modelled as atomic reads of the old or the new value.
