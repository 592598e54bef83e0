-------------------------- MODULE ResourceController --------------------------
(***************************************************************************)
(* The resource controller (pkg/podmanager/resource_controller.go): one    *)
(* goroutine that on every tick lists the controlled pods, decides for     *)
(* each what it may use, and writes the decisions to the cgroups.  What it *)
(* remembers of a pod outlives the tick, the pod and its cgroup do not     *)
(* have to.  The workers of PodManager are reduced to the entries they     *)
(* keep (Sync, Drop), the CPU usage statistics to whether there is an      *)
(* earlier sample to compare with: the quota computed from them is always  *)
(* overwritten.                                                            *)
(***************************************************************************)
EXTENDS PodTypes, CpusetPlan, FiniteSets

CONSTANTS
  Keys,           \* pod keys "namespace/name"
  NoPod, NoEntry, NoMetrics, NoAct,
  Services, States, Cpusets, Statuses,
  Requests,       \* of "swiftkube.io/cpu-request", in millicores
  MayRecreate,    \* may a pod be deleted and created again (StatefulSet)?
  MaxEdits,       \* bound: changes of the pods and of their cgroups by others
  MaxFaults,      \* bound: reads and writes of cgroups that fail
  MaxCrashes      \* bound: times the process is killed

ASSUME Bounds == MaxEdits \in Nat /\ MaxFaults \in Nat /\ MaxCrashes \in Nat
ASSUME RequestsAssumption == Requests \subseteq Nat

Pod == [enabled : {"true", "false"}, service : Services, state : States,
        endpoint : {Up, Down}, cpuset : Cpusets, status : Statuses,
        request : Requests]

\* cpu.max: the kubelet's limit or none; what is remembered of it may also be
\* math.MaxUint64, for "could not be read".  memory.high: as the kernel sets it
\* (remembered as -1), 10 GiB, or 0.
Unlimited == "unlimited"
Limited == "limited"
Unreadable == "unreadable"
NotSet == "not set"
DefaultHigh == "10 GiB"
Swapped == "0"

Quotas == {Unlimited, Limited, Unreadable}
Highs == {NotSet, DefaultHigh, Swapped}
Cgroup == [quota : {Unlimited, Limited}, high : Highs, cpus : SUBSET (0..Cores-1)]
Entry == [uid : 0..MaxEdits, cpu : CPUStates]
Metrics == [exist : BOOLEAN, sampled : BOOLEAN, last : Quotas, current : Quotas,
            high : Highs, napSince : {"never", "recently", "long"}]
Phases == {"list", "collect", "LC", "MIX", "BE", "end"}
Act == [uid : 0..MaxEdits, live : BOOLEAN, cpu : CPUStates,
        cpuset : {CPUSET_LC, CPUSET_MIX, CPUSET_BE}, cores : Nat,
        high : {DefaultHigh, Swapped}]
BEAct == [uid : 0..MaxEdits, cpuset : {CPUSET_BE, CPUSET_MIX}]

ASSUME Markers == NoAct \notin Act /\ NoEntry \notin Entry /\ NoMetrics \notin Metrics

VARIABLES
  \* The node.
  pods,       \* what the lister returns
  uid,        \* uid[k]: which incarnation of the pod it is
  cgroup,     \* the cgroup of that incarnation
  \* PodInfos, kept by the workers.
  entry,
  \* The goroutine.
  phase,      \* where the tick is
  snap,       \* localPods
  todo,       \* pods not yet collected, actions and BE pods not yet applied
  acts,       \* updateActions
  total,      \* total[c]: millicores the actions for cpuset c request
  bePods,     \* bePods and beMixPods with the incarnation of their PodInfo
  metrics,
  prevLC,     \* prevTotalRequestLCCoresInt
  placed,     \* pods whose cpuset this tick has written (history variable)
  \* The environment.
  edits, faults, crashes

tickVars == <<phase, snap, todo, acts, total, bePods, metrics, prevLC, placed>>
vars == <<pods, uid, cgroup, entry, tickVars, edits, faults, crashes>>

TypeOK ==
  /\ pods \in [Keys -> Pod \cup {NoPod}]
  /\ uid \in [Keys -> 0..MaxEdits]
  /\ cgroup \in [Keys -> Cgroup]
  /\ entry \in [Keys -> Entry \cup {NoEntry}]
  /\ phase \in Phases
  /\ snap \in [Keys -> Pod \cup {NoPod}]
  /\ todo \in SUBSET Keys /\ placed \in SUBSET Keys
  /\ acts \in [Keys -> Act \cup {NoAct}]
  /\ total \in [{CPUSET_LC, CPUSET_MIX} -> Nat]
  /\ bePods \in [Keys -> BEAct \cup {NoAct}]
  /\ metrics \in [Keys -> Metrics \cup {NoMetrics}]
  /\ prevLC \in 0..Cores
  /\ edits \in 0..MaxEdits /\ faults \in 0..MaxFaults /\ crashes \in 0..MaxCrashes

-----------------------------------------------------------------------------
(* The environment: users, the kubelet and the workers.                     *)

NoRequests == [c \in {CPUSET_LC, CPUSET_MIX} |-> 0]

NewCgroup == [quota |-> Limited, high |-> NotSet, cpus |-> 0..(Cores - 1)]

Edited == edits < MaxEdits /\ edits' = edits + 1

\* A pod becomes known to the lister; it has a cgroup of its own.
Create(k) ==
  /\ pods[k] = NoPod
  /\ MayRecreate \/ uid[k] = 0
  /\ Edited
  /\ \E p \in Pod : p.enabled = "true" /\ pods' = [pods EXCEPT ![k] = p]
  /\ uid' = [uid EXCEPT ![k] = @ + 1]
  /\ cgroup' = [cgroup EXCEPT ![k] = NewCgroup]
  /\ UNCHANGED <<entry, tickVars, faults, crashes>>

\* Users relabel a pod, its containers become ready or stop being so.
Relabel(k) ==
  /\ pods[k] # NoPod
  /\ Edited
  /\ \E p \in Pod \ {pods[k]} :
       /\ p.request = pods[k].request /\ p.cpuset = pods[k].cpuset
       /\ p.endpoint = pods[k].endpoint
       /\ pods' = [pods EXCEPT ![k] = p]
  /\ UNCHANGED <<uid, cgroup, entry, tickVars, faults, crashes>>

Delete(k) ==
  /\ pods[k] # NoPod
  /\ Edited
  /\ pods' = [pods EXCEPT ![k] = NoPod]
  /\ UNCHANGED <<uid, cgroup, entry, tickVars, faults, crashes>>

\* The kubelet writes the limit of the pod into cpu.max again.
KubeletWrites(k) ==
  /\ pods[k] # NoPod
  /\ Edited
  /\ cgroup' = [cgroup EXCEPT ![k].quota = Limited]
  /\ UNCHANGED <<pods, uid, entry, tickVars, faults, crashes>>

\* syncPodState: out of service in the nap states, back in the others once the
\* CPU state is the one waited for.
SetEndpoint(k) ==
  /\ pods[k] # NoPod /\ entry[k] # NoEntry
  /\ \/ /\ GetPodState(pods[k]) \in Napping /\ pods[k].endpoint = Up
        /\ pods' = [pods EXCEPT ![k].endpoint = Down]
     \/ /\ GetPodState(pods[k]) \in {RR, WU, RFS} /\ pods[k].endpoint = Down
        /\ entry[k].cpu = IF GetPodState(pods[k]) = RR THEN CPU_OVERPROVISION ELSE CPU_MAX
        /\ pods' = [pods EXCEPT ![k].endpoint = Up]
  /\ UNCHANGED <<uid, cgroup, entry, tickVars, edits, faults, crashes>>

\* LoadOrStore: an entry that is there keeps the cgroup it was made with.
Sync(k) ==
  /\ pods[k] # NoPod /\ entry[k] = NoEntry
  /\ entry' = [entry EXCEPT ![k] = [uid |-> uid[k], cpu |-> CPU_UNKNOWN]]
  /\ UNCHANGED <<pods, uid, cgroup, tickVars, edits, faults, crashes>>

\* The worker finds the pod gone.  The controller may still hold the PodInfo.
Drop(k) ==
  /\ pods[k] = NoPod /\ entry[k] # NoEntry
  /\ entry' = [entry EXCEPT ![k] = NoEntry]
  /\ acts' = [acts EXCEPT ![k] = IF @ = NoAct THEN NoAct ELSE [@ EXCEPT !.live = FALSE]]
  /\ UNCHANGED <<pods, uid, cgroup, phase, snap, todo, total, bePods, metrics,
                 prevLC, placed, edits, faults, crashes>>

-----------------------------------------------------------------------------
(* Deciding. *)

\* NewCPUMetrics, NewMemoryMetrics
NewMetrics == [exist |-> TRUE, sampled |-> FALSE, last |-> Unlimited,
               current |-> Unlimited, high |-> NotSet, napSince |-> "never"]

\* Is the cgroup of incarnation u of pod k there to be read and written?
Alive(k, u) == pods[k] # NoPod /\ uid[k] = u

\* A read or a write of the cgroup of incarnation u may fail, at the cost of a
\* fault, and fails if there is no such cgroup any more.
MayFail == faults < MaxFaults

\* Faulty variant of NapSince: the time of falling asleep is taken anew.
NapSinceAgain(p, known, m) ==
  IF known.status = "ready" /\ GetPodState(p) = RLN /\ p.endpoint = Down
  THEN "recently" ELSE "never"

\* RLNTimestamp: left alone in the mix cpuset and in an unknown state.
NapSince(p, known, m) ==
  CASE CPUSetLabel(p, known) = CPUSET_MIX -> m.napSince
    [] CPUSetLabel(p, known) # CPUSET_MIX /\ known.status = "ready"
       /\ GetPodState(p) = Unknown -> m.napSince
    [] CPUSetLabel(p, known) # CPUSET_MIX /\ known.status = "ready"
       /\ GetPodState(p) = RLN /\ p.endpoint = Down ->
         IF m.napSince = "never" THEN "recently" ELSE m.napSince
    [] OTHER -> "never"

\* min(requestCores, allocateCores): only pods that serve are given LC cores,
\* an action for the mix cpuset carries no request.
MaxCPULimit == 3000
GrantedCores(p, known) ==
  LET serves == known.status = "ready" /\ CPUSetLabel(p, known) # CPUSET_MIX
  IN  CASE serves /\ GetPodState(p) \in {RR, RFS} -> p.request
        [] serves /\ GetPodState(p) = WU -> Lesser(p.request, MaxCPULimit)
        [] OTHER -> 0

WantedHigh(p, known, m) ==
  IF /\ CPUSetLabel(p, known) # CPUSET_MIX /\ known.status = "ready"
     /\ GetPodState(p) = RLN /\ p.endpoint = Down /\ m.napSince = "long"
  THEN Swapped ELSE DefaultHigh

Action(k, p, known, m) ==
  [uid |-> entry[k].uid, live |-> TRUE,
   cpu |-> Decision(p, known).cpu, cpuset |-> Decision(p, known).cpuset,
   cores |-> GrantedCores(p, known), high |-> WantedHigh(p, known, m)]

\* Faulty variant of Reread: trusts what it has written.
TrustQuota(m, quota) == m

\* LastQuota == 0, as it is at the latest one update later: look what cpu.max
\* really is.
Reread(m, quota) ==
  IF m.last = Unlimited THEN [m EXCEPT !.current = quota] ELSE m

-----------------------------------------------------------------------------
(* The first half of a tick: list the pods, then collect one after the other. *)
(* The labels are those listed; the PodInfo, whose pod is taken to be as fresh *)
(* as the lister's, is read when the pod's turn comes.                         *)

List ==
  /\ phase = "list"
  /\ phase' = "collect"
  /\ snap' = [k \in Keys |-> IF pods[k] # NoPod /\ Controlled(pods[k])
                             THEN pods[k] ELSE NoPod]
  /\ todo' = {k \in Keys : pods[k] # NoPod /\ Controlled(pods[k])}
  /\ UNCHANGED <<pods, uid, cgroup, entry, acts, total, bePods, metrics, prevLC,
                 placed, edits, faults, crashes>>

Known(k) == IF pods[k] = NoPod THEN snap[k] ELSE pods[k]

Turn(k) == /\ phase = "collect" /\ k \in todo
           /\ todo' = todo \ {k}
           /\ UNCHANGED <<pods, uid, cgroup, entry, phase, snap, prevLC, placed,
                          edits, crashes>>

CollectMissing(k) ==
  /\ Turn(k)
  /\ entry[k] = NoEntry
  /\ metrics' = [metrics EXCEPT ![k] = NoMetrics]
  /\ UNCHANGED <<acts, total, bePods, faults>>

\* An unknown service type and no cpuset label: the pod is skipped.
CollectUnknown(k) ==
  /\ Turn(k)
  /\ entry[k] # NoEntry
  /\ CPUSetLabel(snap[k], Known(k)) = Absent
  /\ UNCHANGED <<acts, total, bePods, metrics, faults>>

CollectBE(k) ==
  LET cpuset == CPUSetLabel(snap[k], Known(k))
  IN  /\ Turn(k)
      /\ entry[k] # NoEntry
      /\ GetPodServiceType(Known(k)) = SERVICE_BE
      /\ metrics' = [metrics EXCEPT ![k] = NoMetrics]
      /\ bePods' = IF cpuset \in {CPUSET_BE, CPUSET_MIX}
                   THEN [bePods EXCEPT ![k] = [uid |-> entry[k].uid, cpuset |-> cpuset]]
                   ELSE bePods
      /\ UNCHANGED <<acts, total, faults>>

\* An action joins updateActions; the loop over them adds up what those for the
\* LC and the mix cpuset request.
Collected(k, a) ==
  /\ acts' = [acts EXCEPT ![k] = a]
  /\ total' = [c \in {CPUSET_LC, CPUSET_MIX} |->
                 IF c = a.cpuset THEN total[c] + a.cores ELSE total[c]]

\* The pods of the other service types: Stat fails, or gives the first sample,
\* with which nothing is decided yet, or a further one.
CollectLC(k) ==
  LET m == IF metrics[k] = NoMetrics THEN NewMetrics
           ELSE [metrics[k] EXCEPT !.exist = TRUE]
      p == snap[k]
      alive == Alive(k, entry[k].uid)
  IN  /\ Turn(k)
      /\ entry[k] # NoEntry
      /\ CPUSetLabel(p, Known(k)) # Absent
      /\ GetPodServiceType(Known(k)) # SERVICE_BE
      /\ \/ /\ IF alive THEN MayFail /\ faults' = faults + 1 ELSE UNCHANGED faults
            /\ metrics' = [metrics EXCEPT ![k] = [m EXCEPT !.sampled = FALSE]]
            /\ UNCHANGED <<acts, total>>
         \/ /\ alive /\ ~m.sampled
            /\ metrics' = [metrics EXCEPT ![k] = [m EXCEPT !.sampled = TRUE]]
            /\ UNCHANGED <<acts, total, faults>>
         \/ /\ alive /\ m.sampled
            /\ \E quota \in {cgroup[k].quota, Unreadable} :
                 /\ IF quota = Unreadable
                    THEN m.last = Unlimited /\ MayFail /\ faults' = faults + 1
                    ELSE UNCHANGED faults
                 /\ metrics' = [metrics EXCEPT ![k] =
                      [Reread(m, quota) EXCEPT !.napSince = NapSince(p, Known(k), m)]]
            /\ IF Applied(Decision(p, Known(k)))
               THEN Collected(k, Action(k, p, Known(k), m))
               ELSE UNCHANGED <<acts, total>>
      /\ UNCHANGED bePods

\* A pod's time in Ready-LongNap exceeds three seconds.
TimePasses(k) ==
  /\ metrics[k] # NoMetrics /\ metrics[k].napSince = "recently"
  /\ metrics' = [metrics EXCEPT ![k].napSince = "long"]
  /\ UNCHANGED <<pods, uid, cgroup, entry, phase, snap, todo, acts, total, bePods,
                 prevLC, placed, edits, faults, crashes>>

-----------------------------------------------------------------------------
(* The second half: the totals are known, the cpusets are served in order.    *)

ActsFor(cpuset) == {k \in Keys : acts[k] # NoAct /\ acts[k].cpuset = cpuset}
LCNow == LCCores(total[CPUSET_LC])
MixNow == WholeCores(total[CPUSET_MIX])

Advance ==
  /\ todo = {} /\ phase \in {"collect", "LC", "MIX", "BE"}
  /\ phase' = CASE phase = "collect" -> "LC"
                [] phase = "LC" -> "MIX"
                [] phase = "MIX" -> "BE"
                [] phase = "BE" -> "end"
  /\ todo' = CASE phase = "collect" -> ActsFor(CPUSET_LC)
               [] phase = "LC" -> ActsFor(CPUSET_MIX)
               [] phase = "MIX" -> ActsFor(CPUSET_BE) \cup {k \in Keys : bePods[k] # NoAct}
               [] phase = "BE" -> {}
  /\ UNCHANGED <<pods, uid, cgroup, entry, snap, acts, total, bePods, metrics, prevLC,
                 placed, edits, faults, crashes>>

\* The region of a pod; {} for one that is not to be written in this tick.
\* prevMix never differs from MixNow: actions for the mix cpuset request nothing.
Region(k) ==
  CASE LCNow = prevLC -> {}
    [] LCNow # prevLC /\ phase = "LC" -> LCRegion(LCNow)
    [] LCNow # prevLC /\ phase = "MIX" -> MixRegion(LCNow, MixNow)
    [] LCNow # prevLC /\ phase = "BE" ->
         IF bePods[k] # NoAct /\ bePods[k].cpuset = CPUSET_BE
         THEN BERegion(LCNow, MixNow) ELSE BEMixRegion(LCNow)

\* Of the files in `tried' those in `done' are written, the other writes fail:
\* all of them when the cgroup is gone.
Outcome(k, u, tried, done) ==
  IF Alive(k, u)
  THEN /\ faults' = faults + Cardinality(tried \ done)
       /\ faults' <= MaxFaults
  ELSE done = {} /\ UNCHANGED faults

WriteCpus(k, done) ==
  placed' = IF "cpuset.cpus" \in done THEN placed \cup {k} ELSE placed

\* Faulty variant of RememberHigh: remembers what it failed to write.
RememberAlways(m, high, failed) == high

RememberHigh(m, high, failed) == IF failed THEN m.high ELSE high

\* update, which every cpuset's loop calls with an unlimited quota, and the
\* write of the cpuset next to it.  cpu.max and memory.high are written when
\* they differ from what is remembered; a failure to write memory.high is
\* remembered, one to write cpu.max or cpuset.cpus is not.
Update(k) ==
  LET a == acts[k]
      m == metrics[k]
      tried == (IF m.current # Unlimited THEN {"cpu.max"} ELSE {})
               \cup (IF m.high # a.high THEN {"memory.high"} ELSE {})
               \cup (IF Region(k) # {} THEN {"cpuset.cpus"} ELSE {})
  IN  /\ phase \in {"LC", "MIX", "BE"} /\ k \in todo
      /\ a # NoAct
      /\ todo' = todo \ {k}
      /\ \E done \in SUBSET tried :
           /\ Outcome(k, a.uid, tried, done)
           /\ WriteCpus(k, done)
           /\ cgroup' = [cgroup EXCEPT ![k] =
                [quota |-> IF "cpu.max" \in done THEN Unlimited ELSE @.quota,
                 high |-> IF "memory.high" \in done THEN a.high ELSE @.high,
                 cpus |-> IF "cpuset.cpus" \in done THEN Region(k) ELSE @.cpus]]
           /\ metrics' = [metrics EXCEPT ![k] =
                [m EXCEPT !.last = m.current, !.current = Unlimited,
                          !.high = RememberHigh(m, a.high, "memory.high" \in tried \ done)]]
      /\ entry' = IF a.live THEN [entry EXCEPT ![k].cpu = a.cpu] ELSE entry
      /\ UNCHANGED <<pods, uid, phase, snap, acts, total, bePods, prevLC, edits, crashes>>

\* BE pods only get a cpuset.
PlaceBE(k) ==
  LET tried == IF Region(k) # {} THEN {"cpuset.cpus"} ELSE {}
  IN  /\ phase = "BE" /\ k \in todo
      /\ bePods[k] # NoAct
      /\ todo' = todo \ {k}
      /\ \E done \in SUBSET tried :
           /\ Outcome(k, bePods[k].uid, tried, done)
           /\ WriteCpus(k, done)
           /\ cgroup' = [cgroup EXCEPT ![k].cpus =
                           IF "cpuset.cpus" \in done THEN Region(k) ELSE @]
      /\ UNCHANGED <<pods, uid, entry, phase, snap, acts, total, bePods, metrics,
                     prevLC, edits, crashes>>

\* Metrics of pods this tick has not seen are dropped.
EndTick ==
  /\ phase = "end" /\ phase' = "list"
  /\ prevLC' = LCNow
  /\ metrics' = [k \in Keys |-> IF metrics[k] # NoMetrics /\ metrics[k].exist
                                THEN [metrics[k] EXCEPT !.exist = FALSE] ELSE NoMetrics]
  /\ snap' = [k \in Keys |-> NoPod]
  /\ acts' = [k \in Keys |-> NoAct] /\ total' = NoRequests
  /\ bePods' = [k \in Keys |-> NoAct]
  /\ placed' = {}
  /\ UNCHANGED <<pods, uid, cgroup, entry, todo, edits, faults, crashes>>

\* The process dies and is started again: what it remembers is lost, what it
\* has written to the cgroups is not.
Fresh ==
  /\ entry' = [k \in Keys |-> NoEntry]
  /\ phase' = "list" /\ todo' = {} /\ placed' = {} /\ prevLC' = 0
  /\ snap' = [k \in Keys |-> NoPod]
  /\ acts' = [k \in Keys |-> NoAct] /\ total' = NoRequests
  /\ bePods' = [k \in Keys |-> NoAct]
  /\ metrics' = [k \in Keys |-> NoMetrics]

Crash ==
  /\ crashes < MaxCrashes /\ crashes' = crashes + 1
  /\ Fresh
  /\ UNCHANGED <<pods, uid, cgroup, edits, faults>>

Init ==
  /\ pods = [k \in Keys |-> NoPod]
  /\ uid = [k \in Keys |-> 0]
  /\ cgroup = [k \in Keys |-> NewCgroup]
  /\ entry = [k \in Keys |-> NoEntry]
  /\ phase = "list" /\ todo = {} /\ placed = {} /\ prevLC = 0
  /\ snap = [k \in Keys |-> NoPod]
  /\ acts = [k \in Keys |-> NoAct] /\ total = NoRequests
  /\ bePods = [k \in Keys |-> NoAct]
  /\ metrics = [k \in Keys |-> NoMetrics]
  /\ edits = 0 /\ faults = 0 /\ crashes = 0

Collect(k) == CollectMissing(k) \/ CollectUnknown(k) \/ CollectBE(k) \/ CollectLC(k)
Apply(k) == Update(k) \/ PlaceBE(k)
Tick == List \/ Advance \/ EndTick \/ \E k \in Keys : Collect(k) \/ Apply(k)
UserStep(k) == Create(k) \/ Relabel(k) \/ Delete(k) \/ KubeletWrites(k)
WorkerStep(k) == SetEndpoint(k) \/ Sync(k) \/ Drop(k)

Next == \/ Tick
        \/ \E k \in Keys : UserStep(k) \/ WorkerStep(k) \/ TimePasses(k)
        \/ Crash

Spec == Init /\ [][Next]_vars

\* The controller's goroutine and the workers run, time passes.
Fairness == /\ WF_vars(Tick)
            /\ \A k \in Keys : WF_vars(WorkerStep(k)) /\ WF_vars(TimePasses(k))

FairSpec == Spec /\ Fairness

-----------------------------------------------------------------------------
(* Properties *)

\* When a tick has moved the border between LC and BE, the pods it has placed on
\* the LC side, in the LC cpuset or as LC pods in the mix cpuset, share no core
\* with those on the BE side, in the BE cpuset or as BE pods in the mix cpuset,
\* unless LC pods ask for so much that BE has only its 3% left, which it always
\* has, or no pod in the LC cpuset asks for anything: the end of the mix region
\* then wraps around, and the mix cpuset of the LC pods is the whole node.
PlacedLC ==
  {k \in placed : /\ acts[k] # NoAct /\ acts[k].cpuset \in {CPUSET_LC, CPUSET_MIX}
                  /\ Alive(k, acts[k].uid)}
PlacedBE ==
  {k \in placed : \/ acts[k] # NoAct /\ acts[k].cpuset = CPUSET_BE /\ Alive(k, acts[k].uid)
                  \/ bePods[k] # NoAct /\ Alive(k, bePods[k].uid)}

RegionsSeparate ==
  phase = "end" =>
    /\ \A j \in PlacedLC, k \in PlacedBE :
         \/ cgroup[j].cpus \cap cgroup[k].cpus = {}
         \/ /\ Cores - LCNow < MinBECores
            /\ Cardinality(cgroup[k].cpus) = MinBECores
         \/ /\ LCNow = 0 /\ acts[j].cpuset = CPUSET_MIX
            /\ cgroup[j].cpus = 0..(Cores - 1)
    /\ \A j \in PlacedLC :
         \/ 1000 * Cardinality(cgroup[j].cpus) >= total[CPUSET_LC]
         \/ cgroup[j].cpus = 0..(Cores - 1)

\* Pod k is left alone in a state of `states', ready, controlled, LC, and its
\* PodInfo has its own cgroup.
Rests(k, states) ==
  /\ pods[k] # NoPod /\ Controlled(pods[k])
  /\ GetPodServiceType(pods[k]) = SERVICE_LC
  /\ pods[k].status = "ready" /\ GetPodState(pods[k]) \in states
Owned(k) == entry[k] # NoEntry /\ entry[k].uid = uid[k]

\* The CPU limit of an LC pod is lifted in the end, although a failed write of
\* cpu.max is remembered as done and the kubelet may write its limit again.
QuotaLifted ==
  \A k \in Keys : <>[](Rests(k, PodStates) /\ Owned(k))
                  => <>[](cgroup[k].quota = Unlimited)

\* memory.high is written only when it differs from what is remembered.  Writes
\* fail, cgroups are replaced by those of new pods, metrics are dropped and lost
\* with the process: never is a pod whose memory is taken away remembered as
\* one that has it, or it would never be given back.
SwapRemembered ==
  \A k \in Keys : metrics[k] # NoMetrics /\ metrics[k].high = DefaultHigh
                  => cgroup[k].high # Swapped

\* The memory an LC pod lost in Ready-LongNap is given back in the other states,
\* although writes fail and the process may forget in between what it wrote.
MemoryRestored ==
  \A k \in Keys : <>[](Rests(k, PodStates \ {RLN}) /\ Owned(k))
                  => <>[](cgroup[k].high # Swapped)

\* ... and an LC pod left in Ready-LongNap gives its memory away.  That is so of
\* the first pod of its name: one created again before the metrics are dropped
\* inherits what was remembered of its predecessor, and may never be written to.
LongNapSwaps ==
  \A k \in Keys : <>[](/\ Rests(k, {RLN}) /\ Owned(k) /\ uid[k] = 1
                       /\ pods[k].cpuset # CPUSET_MIX)
                  => <>[](cgroup[k].high = Swapped)

\* "RCN and RLN pods are moved to the BE cpuset automatically"
\* (resource_controller.go:477,517): a napping pod has the cores of the BE cpuset.
NapMovesToBE ==
  \A k \in Keys : <>[](Rests(k, Napping) /\ Owned(k) /\ pods[k].cpuset # CPUSET_MIX)
                  => <>[](cgroup[k].cpus = BERegion(prevLC, 0))

=============================================================================
