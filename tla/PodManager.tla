------------------------------ MODULE PodManager ------------------------------
(***************************************************************************)
(* The podmanager process of one node (pkg/podmanager/server.go) together  *)
(* with what it talks to: the API server, the pod informer that mirrors it *)
(* into a cache, the work queue, the worker goroutines running syncHandler *)
(* and the resource controller, reduced here to the CPU state it gives     *)
(* each pod (ResourceController models the rest of its tick).              *)
(*                                                                         *)
(* The pods are those scheduled to this node.  setLoadBalanceWeight, which *)
(* syncHandler calls for the pods of every node, changes only kernel state *)
(* and is in module SyncTables.                                            *)
(***************************************************************************)
EXTENDS PodTypes, Naturals, Sequences, FiniteSets

CONSTANTS
  Keys,            \* pod keys "namespace/name"
  Workers,         \* the 64 worker goroutines of Run
  NoPod, NoInfo, NoKey, NoAct,
  EnabledLabels, ServiceLabels, StateLabels, EndpointLabels, CpusetLabels,
  Versions,        \* resourceVersions
  Statuses,        \* of "pending", "starting", "ready"
  MayDelete,       \* do users delete pods?
  MaxEdits,        \* bound: changes made by users and the kubelet
  MaxFaults,       \* bound: API calls that fail, watches that break
  MaxCrashes       \* bound: times the process is killed

Maps == {"LC", "BE", "Uncontrolled"}
Steps == {"idle", "fetch", "wait", "write", "store"}

Pod == [enabled : EnabledLabels, service : ServiceLabels, state : StateLabels,
        endpoint : EndpointLabels, cpuset : CpusetLabels, status : Statuses,
        rv : Versions]
Info == [pod : Pod, cpu : CPUStates]
Act == [map : Maps, cpu : CPUStates]

ASSUME Markers == /\ NoKey \notin Keys /\ NoAct \notin Keys /\ NoKey # NoAct
                  /\ NoPod \notin Pod /\ NoInfo \notin Info /\ NoAct \notin Act
ASSUME Labels == {Up, Down} \subseteq EndpointLabels
                 /\ Versions # {} /\ Statuses \subseteq {"pending", "starting", "ready"}
ASSUME Bounds == MaxEdits \in Nat /\ MaxFaults \in Nat /\ MaxCrashes \in Nat

VARIABLES
  \* The API server.
  api,          \* api[k]: the pod, or NoPod
  \* The pod informer.
  cache,        \* what the lister returns
  notices,      \* notices[k]: handler calls on their way to enqueuePod
  missed,       \* missed[k]: a deletion reported as a tombstone was dropped
  \* The work queue (module WorkQueue).
  queue, dirty, processing,
  \* The workers.
  pc,           \* where worker w is in syncHandler
  held,         \* the key it is syncing
  pod,          \* `pod' of syncHandler
  cur,          \* `pod' of syncPodState: the object of the next Update
  \* Shared by the workers and the resource controller.
  podMap,       \* LCPodMap, BEPodMap and UncontrolledPodMap
  act,          \* the updateAction collected for a pod in this tick
  \* The environment.
  up, edits, faults, crashes

informerVars == <<cache, notices, missed>>
queueVars == <<queue, dirty, processing>>
workerVars == <<pc, held, pod, cur>>
envVars == <<up, edits, faults, crashes>>
vars == <<api, informerVars, queueVars, workerVars, podMap, act, envVars>>

\* Nothing shuts this queue down, and syncHandler never fails, so that nothing
\* waits for a back-off and no worker exits.
WQ == INSTANCE WorkQueue WITH Items <- Keys, NoItem <- NoKey, Exited <- NoAct,
                              waiting <- {}, shuttingDown <- FALSE

TypeOK ==
  /\ api \in [Keys -> Pod \cup {NoPod}]
  /\ cache \in [Keys -> Pod \cup {NoPod}]
  /\ notices \in [Keys -> Nat]
  /\ missed \in [Keys -> BOOLEAN]
  /\ queue \in Seq(Keys) /\ dirty \in SUBSET Keys /\ processing \in SUBSET Keys
  /\ pc \in [Workers -> Steps]
  /\ held \in [Workers -> Keys \cup {NoKey}]
  /\ pod \in [Workers -> Pod \cup {NoPod}]
  /\ cur \in [Workers -> Pod \cup {NoPod}]
  /\ podMap \in [Maps -> [Keys -> Info \cup {NoInfo}]]
  /\ act \in [Keys -> Act \cup {NoAct}]
  /\ up \in BOOLEAN
  /\ edits \in 0..MaxEdits /\ faults \in 0..MaxFaults /\ crashes \in 0..MaxCrashes

-----------------------------------------------------------------------------
(* Reading a pod. *)

\* Nobody compares the resourceVersion of a pod that only a worker's local or
\* a PodInfo holds; the model forgets it there.
NoVersion == CHOOSE v \in Versions : TRUE
Forget(p) == [p EXCEPT !.rv = NoVersion]

\* Versions are opaque and only compared for equality: a new one differs from
\* every one in sight.
Objects(k) == {api[k], cache[k]} \cup {cur[w] : w \in {v \in Workers : held[v] = k}}
UnusedVersions(k) == Versions \ {p.rv : p \in Objects(k) \ {NoPod}}
NewVersion(k) == CHOOSE v \in UnusedVersions(k) : TRUE

\* The lister knows the pod, IsPodRunning, and LoadPodCgroup and
\* LoadContainerCgroup succeed: it runs and each of its containers has an id.
Manageable(p) == p # NoPod /\ p.status # "pending"

\* Faulty variant of AwaitedCPU: every pod waits for CPU_MAX.
AwaitsMax(p) == CPU_MAX

\* The CPU state for which a pod about to serve waits before it goes Up.
AwaitedCPU(p) == IF GetPodState(p) = RR THEN CPU_OVERPROVISION ELSE CPU_MAX

GoesUp(p) == /\ Controlled(p)
             /\ GetPodState(p) \in {WU, RFS, RR}
             /\ GetPodEndpointState(p) = Down
GoesDown(p) == /\ Controlled(p)
               /\ GetPodState(p) \in Napping
               /\ GetPodEndpointState(p) = Up

\* The map a pod is stored in; an unknown service type counts as LC.
MapOf(p) == CASE ~Controlled(p) -> "Uncontrolled"
              [] Controlled(p) /\ GetPodServiceType(p) = SERVICE_BE -> "BE"
              [] OTHER -> "LC"

\* PodInfoByKey: the map whose entry answers for a key.
MapsHolding(k) == {m \in Maps : podMap[m][k] # NoInfo}
Lookup(k) == CASE "LC" \in MapsHolding(k) -> "LC"
               [] "LC" \notin MapsHolding(k) /\ "BE" \in MapsHolding(k) -> "BE"
               [] OTHER -> "Uncontrolled"

\* Faulty variant of DeleteEntry: deletes from the LC map whatever is asked.
DeleteLCEntry(k, ms) ==
  /\ podMap' = [podMap EXCEPT !["LC"][k] = NoInfo]
  /\ act' = IF act[k] # NoAct /\ act[k].map = "LC" THEN [act EXCEPT ![k] = NoAct] ELSE act

\* Delete key k from the maps ms; a collected action dies with its PodInfo.
DeleteEntry(k, ms) ==
  /\ podMap' = [m \in Maps |-> IF m \in ms THEN [podMap[m] EXCEPT ![k] = NoInfo]
                               ELSE podMap[m]]
  /\ act' = IF act[k] # NoAct /\ act[k].map \in ms
            THEN [act EXCEPT ![k] = NoAct] ELSE act

-----------------------------------------------------------------------------
(* Users and the kubelet change pods.  The endpoint label is the manager's:  *)
(* users give it only when they create a pod.                                *)

Edit(k, new) ==
  /\ edits < MaxEdits
  /\ edits' = edits + 1
  /\ new # api[k]
  /\ UnusedVersions(k) # {}
  /\ api' = [api EXCEPT ![k] = IF new = NoPod THEN NoPod
                               ELSE [new EXCEPT !.rv = NewVersion(k)]]
  /\ UNCHANGED <<informerVars, queueVars, workerVars, podMap, act,
                 up, faults, crashes>>

Create(k) == api[k] = NoPod /\ \E p \in [enabled : EnabledLabels,
    service : ServiceLabels, state : StateLabels, endpoint : EndpointLabels,
    cpuset : CpusetLabels, status : Statuses, rv : {NoVersion}] : Edit(k, p)
SetEnabled(k) == api[k] # NoPod /\
  \E v \in EnabledLabels : Edit(k, [api[k] EXCEPT !.enabled = v])
SetService(k) == api[k] # NoPod /\
  \E v \in ServiceLabels : Edit(k, [api[k] EXCEPT !.service = v])
SetState(k) == api[k] # NoPod /\
  \E v \in StateLabels : Edit(k, [api[k] EXCEPT !.state = v])
SetStatus(k) == api[k] # NoPod /\
  \E v \in Statuses : Edit(k, [api[k] EXCEPT !.status = v])
Delete(k) == api[k] # NoPod /\ MayDelete /\ Edit(k, NoPod)

UserStep(k) == Create(k) \/ SetEnabled(k) \/ SetService(k) \/ SetState(k)
               \/ SetStatus(k) \/ Delete(k)

-----------------------------------------------------------------------------
(* The informer: the indexer first takes the change over, the handler call   *)
(* follows asynchronously.                                                   *)

\* A watch event, or a relist that finds the pod changed.  The update handler
\* ignores updates that keep the resourceVersion, as resyncs do: those are
\* stuttering steps.
InformerSync(k) ==
  /\ up /\ cache[k] # api[k]
  /\ cache' = [cache EXCEPT ![k] = api[k]]
  /\ notices' = [notices EXCEPT ![k] = @ + 1]
  /\ UNCHANGED <<api, missed, queueVars, workerVars, podMap, act, envVars>>

\* The watch broke and the relist finds the pod gone: the handler is given a
\* DeletedFinalStateUnknown, for which MetaNamespaceKeyFunc fails.
InformerTombstone(k) ==
  /\ up /\ cache[k] # NoPod /\ api[k] = NoPod
  /\ faults < MaxFaults /\ faults' = faults + 1
  /\ cache' = [cache EXCEPT ![k] = NoPod]
  /\ missed' = [missed EXCEPT ![k] = TRUE]
  /\ UNCHANGED <<api, notices, queueVars, workerVars, podMap, act,
                 up, edits, crashes>>

\* enqueuePod
HandleEvent(k) ==
  /\ notices[k] > 0
  /\ notices' = [notices EXCEPT ![k] = @ - 1]
  /\ missed' = [missed EXCEPT ![k] = FALSE]
  /\ WQ!Add(k)
  /\ UNCHANGED <<api, cache, workerVars, podMap, act, envVars>>

-----------------------------------------------------------------------------
(* syncHandler, as run by worker w. *)

\* Faulty variant of FinishItem: Done is not called.
FinishNotDone(w) ==
  /\ UNCHANGED queueVars
  /\ pc' = [pc EXCEPT ![w] = "idle"]
  /\ held' = [held EXCEPT ![w] = NoKey]
  /\ pod' = [pod EXCEPT ![w] = NoPod]
  /\ cur' = [cur EXCEPT ![w] = NoPod]

\* The end of processNextWorkItem: no error, Forget and the deferred Done.
FinishItem(w) ==
  /\ WQ!Finish(held[w])
  /\ pc' = [pc EXCEPT ![w] = "idle"]
  /\ held' = [held EXCEPT ![w] = NoKey]
  /\ pod' = [pod EXCEPT ![w] = NoPod]
  /\ cur' = [cur EXCEPT ![w] = NoPod]

Get(w) ==
  /\ up /\ pc[w] = "idle"
  /\ WQ!Pop
  /\ held' = [held EXCEPT ![w] = Head(queue)]
  /\ pc' = [pc EXCEPT ![w] = "fetch"]
  /\ UNCHANGED <<api, informerVars, pod, cur, podMap, act, envVars>>

\* Not in the cache, not running or without cgroups: drop what is known of it.
FetchGone(w) ==
  /\ pc[w] = "fetch"
  /\ ~Manageable(cache[held[w]])
  /\ DeleteEntry(held[w], Maps)
  /\ FinishItem(w)
  /\ UNCHANGED <<api, informerVars, envVars>>

\* The prologue of syncPodState: which of its three blocks applies, if any.
Fetch(w) ==
  LET p == cache[held[w]]
      down == [p EXCEPT !.endpoint = Down]
  IN  /\ pc[w] = "fetch"
      /\ Manageable(p)
      /\ \/ /\ GoesUp(p)
            /\ pod' = [pod EXCEPT ![w] = Forget(p)]
            /\ cur' = [cur EXCEPT ![w] = p]
            /\ pc' = [pc EXCEPT ![w] = "wait"]
         \/ /\ GoesDown(p)
            /\ pod' = [pod EXCEPT ![w] = Forget(down)]
            /\ cur' = [cur EXCEPT ![w] = down]
            /\ pc' = [pc EXCEPT ![w] = "write"]
         \/ /\ ~GoesUp(p) /\ ~GoesDown(p)
            /\ pod' = [pod EXCEPT ![w] = Forget(p)]
            /\ pc' = [pc EXCEPT ![w] = "store"]
            /\ UNCHANGED cur
      /\ UNCHANGED <<api, informerVars, queueVars, held, podMap, act, envVars>>

\* One round of the wait loop that finds the awaited CPU state.  GetPodInfo
\* looks at the LC map only.  A round that finds another state changes nothing.
Poll(w) ==
  LET info == podMap["LC"][held[w]]
  IN  /\ pc[w] = "wait"
      /\ info # NoInfo
      /\ info.cpu = AwaitedCPU(pod[w])
      /\ pod' = [pod EXCEPT ![w].endpoint = Up]
      /\ cur' = [cur EXCEPT ![w].endpoint = Up]
      /\ pc' = [pc EXCEPT ![w] = "write"]
      /\ UNCHANGED <<api, informerVars, queueVars, held, podMap, act, envVars>>

\* Faulty variant of Refetch: keeps the endpoint that was to be written,
\* without looking at the state of the fresh copy.
RefetchSame(w) ==
  LET p == cache[held[w]]
  IN  IF p = NoPod
      THEN /\ DeleteEntry(held[w], {"LC"})
           /\ pc' = [pc EXCEPT ![w] = "store"]
           /\ cur' = [cur EXCEPT ![w] = NoPod]
      ELSE /\ cur' = [cur EXCEPT ![w] = [p EXCEPT !.endpoint = cur[w].endpoint]]
           /\ UNCHANGED <<pc, podMap, act>>

\* Faulty variant of Refetch: only the resourceVersion is taken from the fresh copy.
RefetchVersion(w) ==
  LET p == cache[held[w]]
  IN  IF p = NoPod
      THEN /\ DeleteEntry(held[w], {"LC"})
           /\ pc' = [pc EXCEPT ![w] = "store"]
           /\ cur' = [cur EXCEPT ![w] = NoPod]
      ELSE /\ cur' = [cur EXCEPT ![w].rv = p.rv]
           /\ UNCHANGED <<pc, podMap, act>>

\* After a failed Update: take the lister's copy and set its endpoint to Up,
\* in the third block (server.go:374) as in the first two.
Refetch(w) ==
  LET p == cache[held[w]]
  IN  IF p = NoPod
      THEN /\ DeleteEntry(held[w], {"LC"})
           /\ pc' = [pc EXCEPT ![w] = "store"]
           /\ cur' = [cur EXCEPT ![w] = NoPod]
      ELSE /\ cur' = [cur EXCEPT ![w] = [p EXCEPT !.endpoint = Up]]
           /\ UNCHANGED <<pc, podMap, act>>

\* The API server's side of Update: an object that changes nothing keeps its
\* resourceVersion.
Accepts(k, p) == api[k] # NoPod /\ p.rv = api[k].rv

ApplyUpdate(k, p) ==
  IF p = api[k] THEN UNCHANGED api
  ELSE /\ UnusedVersions(k) # {}
       /\ api' = [api EXCEPT ![k] = [p EXCEPT !.rv = NewVersion(k)]]

WriteOK(w) ==
  /\ pc[w] = "write"
  /\ Accepts(held[w], cur[w])
  /\ ApplyUpdate(held[w], cur[w])
  /\ pc' = [pc EXCEPT ![w] = "store"]
  /\ cur' = [cur EXCEPT ![w] = NoPod]
  /\ UNCHANGED <<informerVars, queueVars, held, pod, podMap, act, envVars>>

\* Conflict or NotFound.
WriteRejected(w) ==
  /\ pc[w] = "write"
  /\ ~Accepts(held[w], cur[w])
  /\ Refetch(w)
  /\ UNCHANGED <<api, informerVars, queueVars, held, pod, envVars>>

\* The call fails on the way there, or its answer on the way back.
WriteFailed(w) ==
  /\ pc[w] = "write"
  /\ faults < MaxFaults /\ faults' = faults + 1
  /\ \/ UNCHANGED api
     \/ Accepts(held[w], cur[w]) /\ ApplyUpdate(held[w], cur[w])
  /\ Refetch(w)
  /\ UNCHANGED <<informerVars, queueVars, held, pod, up, edits, crashes>>

\* LoadOrStore, then the pod of an entry that was there already is replaced.
Store(w) ==
  LET k == held[w]
      m == MapOf(pod[w])
      old == podMap[m][k]
      new == [pod |-> pod[w], cpu |-> IF old = NoInfo THEN CPU_UNKNOWN ELSE old.cpu]
  IN  /\ pc[w] = "store"
      /\ podMap' = [podMap EXCEPT ![m][k] = new]
      /\ FinishItem(w)
      /\ UNCHANGED <<api, informerVars, act, envVars>>

-----------------------------------------------------------------------------
(* The resource controller, pod by pod: a tick collects a decision for every *)
(* controlled pod of the lister, then carries the collected ones out.        *)

RCCollect(k) ==
  LET m == Lookup(k)
      d == Decision(cache[k], podMap[m][k].pod)
  IN  /\ act[k] = NoAct
      /\ cache[k] # NoPod /\ Controlled(cache[k])
      /\ podMap[m][k] # NoInfo
      /\ Applied(d)
      /\ act' = [act EXCEPT ![k] = [map |-> m, cpu |-> d.cpu]]
      /\ UNCHANGED <<api, informerVars, queueVars, workerVars, podMap, envVars>>

\* Faulty variant of RCUpdate: stores the wrong field of the action.
RCUpdateSwapped(k) ==
  /\ act[k] # NoAct
  /\ podMap' = [podMap EXCEPT ![act[k].map][k].cpu = act[k].map]
  /\ act' = [act EXCEPT ![k] = NoAct]
  /\ UNCHANGED <<api, informerVars, queueVars, workerVars, envVars>>

RCUpdate(k) ==
  /\ act[k] # NoAct
  /\ podMap' = [podMap EXCEPT ![act[k].map][k].cpu = act[k].cpu]
  /\ act' = [act EXCEPT ![k] = NoAct]
  /\ UNCHANGED <<api, informerVars, queueVars, workerVars, envVars>>

-----------------------------------------------------------------------------
(* Starting and stopping.  systemd restarts the process when it fails.      *)

ProcessDown ==
  /\ up' = FALSE
  /\ cache' = [k \in Keys |-> NoPod]
  /\ notices' = [k \in Keys |-> 0]
  /\ missed' = [k \in Keys |-> FALSE]
  /\ queue' = <<>> /\ dirty' = {} /\ processing' = {}
  /\ pc' = [w \in Workers |-> "idle"]
  /\ held' = [w \in Workers |-> NoKey]
  /\ pod' = [w \in Workers |-> NoPod]
  /\ cur' = [w \in Workers |-> NoPod]
  /\ podMap' = [m \in Maps |-> [k \in Keys |-> NoInfo]]
  /\ act' = [k \in Keys |-> NoAct]

\* GetPodInfo(key).CPUState of a key that is not in the LC map: a nil pointer
\* dereference ends the whole process.
Panic(w) ==
  /\ pc[w] = "wait"
  /\ podMap["LC"][held[w]] = NoInfo
  /\ ProcessDown
  /\ UNCHANGED <<api, edits, faults, crashes>>

Crash ==
  /\ up
  /\ crashes < MaxCrashes /\ crashes' = crashes + 1
  /\ ProcessDown
  /\ UNCHANGED <<api, edits, faults>>

\* Run: the caches have synced, every pod listed is a call of the add handler.
Start ==
  /\ ~up /\ up' = TRUE
  /\ cache' = api
  /\ notices' = [k \in Keys |-> IF api[k] = NoPod THEN 0 ELSE 1]
  /\ UNCHANGED <<api, missed, queueVars, workerVars, podMap, act,
                 edits, faults, crashes>>

Init ==
  /\ api = [k \in Keys |-> NoPod]
  /\ up = FALSE
  /\ cache = [k \in Keys |-> NoPod]
  /\ notices = [k \in Keys |-> 0]
  /\ missed = [k \in Keys |-> FALSE]
  /\ queue = <<>> /\ dirty = {} /\ processing = {}
  /\ pc = [w \in Workers |-> "idle"]
  /\ held = [w \in Workers |-> NoKey]
  /\ pod = [w \in Workers |-> NoPod]
  /\ cur = [w \in Workers |-> NoPod]
  /\ podMap = [m \in Maps |-> [k \in Keys |-> NoInfo]]
  /\ act = [k \in Keys |-> NoAct]
  /\ edits = 0 /\ faults = 0 /\ crashes = 0

WorkerStep(w) == \/ Get(w) \/ FetchGone(w) \/ Fetch(w) \/ Poll(w) \/ WriteOK(w)
                 \/ WriteRejected(w) \/ WriteFailed(w) \/ Store(w) \/ Panic(w)
InformerStep(k) == InformerSync(k) \/ InformerTombstone(k) \/ HandleEvent(k)
RCStep(k) == RCCollect(k) \/ RCUpdate(k)

Next == \/ \E k \in Keys : UserStep(k) \/ InformerStep(k) \/ RCStep(k)
        \/ \E w \in Workers : WorkerStep(w)
        \/ Crash \/ Start

Spec == Init /\ [][Next]_vars

\* Every goroutine of a running process gets to run, watches deliver, systemd
\* restarts the process (Restart=on-failure).  Users owe nothing.
Fairness ==
  /\ \A k \in Keys : /\ WF_vars(InformerSync(k)) /\ WF_vars(HandleEvent(k))
                     /\ WF_vars(RCCollect(k)) /\ WF_vars(RCUpdate(k))
  /\ \A w \in Workers : WF_vars(WorkerStep(w))
  /\ WF_vars(Start)

FairSpec == Spec /\ Fairness

-----------------------------------------------------------------------------
(* Safety *)

\* "never processing the same item simultaneously in two different workers":
\* two workers in syncHandler have different keys, so that at most one
\* goroutine writes the map entries of a key.
ExclusiveKey ==
  \A v, w \in Workers : held[v] = held[w] /\ held[v] \in Keys => v = w

\* No event of k is under way.
Settled(k) == /\ up /\ notices[k] = 0 /\ ~missed[k]
              /\ k \notin dirty /\ k \notin processing

SameButEndpoint(p, q) == [p EXCEPT !.endpoint = Absent, !.rv = NoVersion]
                         = [q EXCEPT !.endpoint = Absent, !.rv = NoVersion]

\* syncHandler reads the lister once and then may wait for long, while newer
\* events of the pod are merged: whatever the interleaving, once the events of
\* a pod are handled the maps hold its current version, or nothing when it is
\* gone or cannot be managed.
MapsMatch(k) ==
  IF Manageable(cache[k])
  THEN /\ MapOf(cache[k]) \in MapsHolding(k)
       /\ SameButEndpoint(podMap[MapOf(cache[k])][k].pod, cache[k])
  ELSE MapsHolding(k) = {}

SettledMaps == \A k \in Keys : Settled(k) => MapsMatch(k)

\* The manager updates pods from copies that may be old, and takes a fresh one
\* after a conflict: its writes change the endpoint and nothing else, so that
\* no change made by a user in the meantime is ever undone.
NoUserEditLost ==
  [][edits' = edits => \A k \in Keys : api'[k] # api[k] =>
       api[k] # NoPod /\ api'[k] # NoPod /\ SameButEndpoint(api'[k], api[k])]_vars

\* A pod is taken out of service only in the nap states, judged at the time of
\* the write and not at the time the worker read the pod.
OnlyNappingPodsGoDown ==
  [][\A k \in Keys : api[k] # NoPod /\ api'[k] # NoPod /\ edits' = edits
       /\ api[k].endpoint # Down /\ api'[k].endpoint = Down
       => GetPodState(api[k]) \in Napping]_vars

\* While the process runs, what handlers and workers do to the queue is what
\* the queue's contract allows them.
UsesWorkQueue == [][up /\ up' => WQ!Next \/ UNCHANGED WQ!vars]_vars

\* A worker in the wait loop dereferences GetPodInfo(key) in each round
\* (server.go:303), perhaps for minutes: once the entry is there, no other
\* worker, event, refetch or tick takes it away under it.
PolledEntryStays ==
  [][up /\ up' => \A w \in Workers :
       pc[w] = "wait" /\ podMap["LC"][held[w]] # NoInfo
       => podMap'["LC"][held[w]] # NoInfo]_vars

\* An LC entry would answer for a pod relabelled to another service.
\* "updateActions contains LC pods only" (resource_controller.go:566)
OnlyLCPodsInActions ==
  \A k \in Keys : Settled(k) /\ Manageable(cache[k])
                  /\ GetPodServiceType(cache[k]) = SERVICE_BE => Lookup(k) # "LC"

-----------------------------------------------------------------------------
(* Why the safety properties hold: the parts of an inductive invariant.     *)

\* Something will still make a worker look at k.
Fresh(k) == notices[k] > 0 \/ missed[k] \/ k \in dirty

\* A busy worker has a key that is being processed and that no other worker
\* has; it has the objects its step needs.
WorkersInv ==
  /\ ExclusiveKey
  /\ \A w \in Workers :
       /\ pc[w] = "idle" <=> held[w] = NoKey
       /\ held[w] \in Keys => held[w] \in processing
       /\ pc[w] \in {"wait", "write", "store"} => pod[w] # NoPod
       /\ pc[w] \in {"wait", "write"} => cur[w] # NoPod

DownInv == ~up => /\ \A w \in Workers : pc[w] = "idle"
                  /\ \A k \in Keys : act[k] = NoAct
                  /\ \A m \in Maps, k \in Keys : podMap[m][k] = NoInfo

ActInv == \A k \in Keys : act[k] # NoAct => podMap[act[k].map][k] # NoInfo

\* A worker past its read of the lister is either right about the pod or will
\* be followed by another.
CopyInv == \A w \in Workers : pc[w] \in {"wait", "write", "store"} =>
  \/ Fresh(held[w])
  \/ Manageable(cache[held[w]]) /\ SameButEndpoint(pod[w], cache[held[w]])

MapsInv == \A k \in Keys : Fresh(k) \/ k \in processing \/ MapsMatch(k)

\* Objects of equal version are equal, but for the endpoint a worker has set.
VersionInv ==
  /\ \A k \in Keys : cache[k] # NoPod /\ Accepts(k, cache[k]) => cache[k] = api[k]
  /\ \A w \in Workers : pc[w] \in {"wait", "write"} /\ Accepts(held[w], cur[w])
       => SameButEndpoint(cur[w], api[held[w]])

\* An Update that takes a pod down was decided for a napping pod.
NapInv == \A w \in Workers : pc[w] = "write" /\ cur[w].endpoint = Down
                             => GetPodState(cur[w]) \in Napping

IInv == /\ TypeOK /\ WQ!QueueDiscipline /\ WQ!NoLostItem
        /\ WorkersInv /\ DownInv /\ ActInv /\ CopyInv /\ MapsInv
        /\ VersionInv /\ NapInv

-----------------------------------------------------------------------------
(* Liveness *)

\* A pod that users leave alone in a nap state goes out of service and gives
\* its resources back: "RCN and RLN pods move to the BE cpuset by themselves".
RestsIn(k, states) == /\ api[k] # NoPod
                      /\ GetPodState(api[k]) \in states
                      /\ api[k].status = "ready"
NapReleasesCPU ==
  \A k \in Keys :
    <>[]RestsIn(k, Napping) => <>[](/\ api[k] # NoPod /\ api[k].endpoint # Up
                                    /\ podMap["LC"][k] # NoInfo
                                    /\ podMap["LC"][k].cpu = CPU_EFFICIENT)

\* A pod the manager knows and that users leave alone in Ready-Running comes
\* back into service.
KnownPodGoesUp ==
  \A k \in Keys : []<>( \/ ~RestsIn(k, {RR}) \/ api[k].endpoint # Down
                        \/ podMap["LC"][k] = NoInfo)

\* "the cpuscaler will soon update the resources of a newly added pod"
\* (server.go:451-454)
NewPodGetsCPU ==
  \A k \in Keys :
    <>[](RestsIn(k, PodStates) /\ Controlled(api[k])
         /\ GetPodServiceType(api[k]) = SERVICE_LC)
    => <>[](podMap["LC"][k] # NoInfo /\ podMap["LC"][k].cpu # CPU_UNKNOWN)

=============================================================================
