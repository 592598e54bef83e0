----------------------- MODULE ResourceControllerProofs -----------------------
(***************************************************************************)
(* What holds of the resource controller for any pods, requests, number of *)
(* cores and bounds.                                                       *)
(***************************************************************************)
EXTENDS ResourceController, CpusetPlanProofs, FiniteSetTheorems

USE CoresAssumption, Bounds, RequestsAssumption, Markers

-----------------------------------------------------------------------------
(* Deciding *)

\* A decision is made of known values, and for the mix cpuset only when the
\* label of the pod says so.
LEMMA DecisionType ==
  ASSUME NEW p, NEW known
  PROVE  /\ Decision(p, known).cpu \in CPUStates
         /\ Decision(p, known).cpuset = CPUSET_MIX => CPUSetLabel(p, known) = CPUSET_MIX
<1>1. \A cpuset : StateDecision(p, cpuset).cpu \in CPUStates
  BY DEF StateDecision, NoDecision, CPUStates
<1>2. \A cpuset : cpuset # CPUSET_MIX => StateDecision(p, cpuset).cpuset # CPUSET_MIX
  BY DEF StateDecision, NoDecision, CPUSET_LC, CPUSET_BE, CPUSET_MIX, Absent
<1>3. Decision(p, known).cpu \in CPUStates
  BY <1>1 DEF Decision, NoDecision, CPUStates
<1>4. Decision(p, known).cpuset = CPUSET_MIX => CPUSetLabel(p, known) = CPUSET_MIX
  BY <1>2 DEF Decision, NoDecision, CPUSET_LC, CPUSET_BE, CPUSET_MIX, Absent
<1> QED BY <1>3, <1>4

\* Cores are granted in whole millicores, and none for the mix cpuset.
LEMMA GrantedCoresType ==
  ASSUME NEW p \in Pod, NEW known
  PROVE  /\ GrantedCores(p, known) \in Nat
         /\ Decision(p, known).cpuset = CPUSET_MIX => GrantedCores(p, known) = 0
<1>1. p.request \in Nat
  BY DEF Pod
<1>2. GrantedCores(p, known) \in Nat
  BY <1>1 DEF GrantedCores, Lesser, MaxCPULimit
<1>3. CPUSetLabel(p, known) = CPUSET_MIX => GrantedCores(p, known) = 0
  BY DEF GrantedCores
<1> QED BY <1>2, <1>3, DecisionType

\* An action that is applied is one of Act, and requests nothing for the mix cpuset.
LEMMA ActionType ==
  ASSUME NEW k \in Keys, NEW p \in Pod, NEW known, NEW m,
         entry[k] \in Entry, Applied(Decision(p, known))
  PROVE  /\ Action(k, p, known, m) \in Act
         /\ Action(k, p, known, m).uid = entry[k].uid
         /\ Action(k, p, known, m).cpuset = CPUSET_MIX => Action(k, p, known, m).cores = 0
<1>1. WantedHigh(p, known, m) \in {DefaultHigh, Swapped}
  BY DEF WantedHigh
<1>2. Decision(p, known).cpuset \in {CPUSET_LC, CPUSET_MIX, CPUSET_BE}
  BY DEF Applied
<1>3. entry[k].uid \in 0..MaxEdits
  BY DEF Entry
<1> QED BY <1>1, <1>2, <1>3, DecisionType, GrantedCoresType DEF Action, Act

LEMMA MetricsType ==
  ASSUME NEW m \in Metrics
  PROVE  /\ \A p, known : NapSince(p, known, m) \in {"never", "recently", "long"}
         /\ \A quota \in Quotas : Reread(m, quota) \in Metrics
<1>1. m.napSince \in {"never", "recently", "long"}
  BY DEF Metrics
<1>2. \A p, known : NapSince(p, known, m) \in {"never", "recently", "long"}
  BY <1>1 DEF NapSince
<1>3. \A quota \in Quotas : Reread(m, quota) \in Metrics
  BY DEF Reread, Metrics
<1> QED BY <1>2, <1>3

-----------------------------------------------------------------------------
(* Regions *)

\* As actions for the mix cpuset request nothing.
MixIsEmpty == total[CPUSET_MIX] = 0

LEMMA TotalsInRange ==
  ASSUME TypeOK, MixIsEmpty
  PROVE  LCNow \in 0..Cores /\ MixNow = 0
<1>1. total[CPUSET_LC] \in Nat
  BY DEF TypeOK
<1> QED BY <1>1, LCCoresBounded DEF LCNow, MixNow, MixIsEmpty, WholeCores

\* What is written to cpuset.cpus are cores of the node.
LEMMA RegionType ==
  ASSUME TypeOK, MixIsEmpty, NEW k \in Keys, phase \in {"LC", "MIX", "BE"}
  PROVE  Region(k) \in SUBSET (0..(Cores - 1))
<1>1. LCNow \in 0..Cores /\ MixNow = 0
  BY TotalsInRange
<1>2. LCRegion(LCNow) \in SUBSET (0..(Cores - 1))
  BY <1>1 DEF LCRegion, FromLower
<1>3. MixRegion(LCNow, 0) \in SUBSET (0..(Cores - 1))
  <2>1. MixEnd(LCNow, 0) <= Cores - 1
    BY <1>1 DEF MixEnd, Lesser, Wrap
  <2>2. MixEnd(LCNow, 0) \in Int
    BY <1>1 DEF MixEnd, Lesser, Wrap
  <2>3. LCNow..MixEnd(LCNow, 0) \in SUBSET (0..(Cores - 1))
    BY <1>1, <2>1, <2>2
  <2> QED BY <1>2, <2>3 DEF MixRegion, LCRegion
<1>4. /\ BERegion(LCNow, 0) = (Cores - BECores(LCNow, 0))..(Cores - 1)
      /\ BEMixRegion(LCNow) = BERegion(LCNow, 0)
  BY <1>1, BERegionNotEmpty
<1>5. BECores(LCNow, 0) \in MinBECores..Cores
  BY <1>1, BECoresValue
<1>6. BERegion(LCNow, 0) \in SUBSET (0..(Cores - 1))
  BY <1>4, <1>5, MinBEType
<1> QED BY <1>1, <1>2, <1>3, <1>4, <1>6 DEF Region

-----------------------------------------------------------------------------
(* The invariant *)

\* What the controller holds of a pod is of a known incarnation of it; an action
\* has the metrics it was made from and, while its PodInfo is stored, that PodInfo.
Held(k) ==
  /\ uid[k] <= edits
  /\ entry[k] # NoEntry => entry[k] \in Entry /\ entry[k].uid <= uid[k]
  /\ acts[k] # NoAct => /\ acts[k].uid <= uid[k]
                        /\ acts[k].live => entry[k] \in Entry
                        /\ metrics[k] \in Metrics
                        /\ bePods[k] = NoAct
  /\ bePods[k] # NoAct => bePods[k].uid <= uid[k]

\* A pod is collected once in a tick.
Uncollected(k) == acts[k] = NoAct /\ bePods[k] = NoAct

\* What the rest of the tick has to do.
Ahead ==
  /\ phase = "list" => \A k \in Keys : Uncollected(k)
  /\ phase = "collect" => \A k \in todo : snap[k] \in Pod /\ Uncollected(k)
  /\ phase \in {"list", "collect"} => placed = {}
  /\ phase = "LC" => todo \subseteq ActsFor(CPUSET_LC)
  /\ phase = "MIX" => todo \subseteq ActsFor(CPUSET_MIX)
  /\ phase = "BE" => todo \subseteq ActsFor(CPUSET_BE) \cup {k \in Keys : bePods[k] # NoAct}

\* The cgroup of a pod that this tick has placed has the region of its cpuset.
InRegion(k) ==
  /\ acts[k] # NoAct /\ Alive(k, acts[k].uid) =>
       /\ acts[k].cpuset = CPUSET_LC => cgroup[k].cpus = LCRegion(LCNow)
       /\ acts[k].cpuset = CPUSET_MIX => cgroup[k].cpus = MixRegion(LCNow, MixNow)
       /\ acts[k].cpuset = CPUSET_BE => cgroup[k].cpus = BEMixRegion(LCNow)
  /\ bePods[k] # NoAct /\ Alive(k, bePods[k].uid) =>
       cgroup[k].cpus \in {BERegion(LCNow, MixNow), BEMixRegion(LCNow)}

TickInv ==
  /\ MixIsEmpty
  /\ \A k \in Keys : Held(k)
  /\ Ahead
  /\ \A k \in placed : InRegion(k)

Inv == TypeOK /\ TickInv

LEMMA InitInv == Init => Inv
<1> SUFFICES ASSUME Init PROVE Inv
  OBVIOUS
<1> USE DEF Init
<1>1. TypeOK
  <2>1. cgroup \in [Keys -> Cgroup]
    BY DEF NewCgroup, Cgroup, Highs
  <2>2. total \in [{CPUSET_LC, CPUSET_MIX} -> Nat]
    BY DEF NoRequests
  <2> QED BY <2>1, <2>2 DEF TypeOK, Phases
<1>2. MixIsEmpty
  BY DEF MixIsEmpty, NoRequests
<1>3. \A k \in Keys : Held(k)
  BY DEF Held
<1>4. Ahead
  BY DEF Ahead, Uncollected
<1> QED BY <1>1, <1>2, <1>3, <1>4 DEF Inv, TickInv

-----------------------------------------------------------------------------
(* Steps of the environment: the tick's work is not changed, only which      *)
(* incarnation of a pod is there.                                            *)

LEMMA CreateKeeps == ASSUME Inv, NEW j \in Keys, Create(j) PROVE Inv'
<1> USE DEF Inv, TickInv, Create, Edited, tickVars
<1>1. TypeOK'
  <2>1. pods' \in [Keys -> Pod \cup {NoPod}]
    BY DEF TypeOK
  <2>2. uid' \in [Keys -> 0..MaxEdits] /\ edits' \in 0..MaxEdits
    BY DEF TypeOK, Held
  <2>3. NewCgroup \in Cgroup
    BY DEF NewCgroup, Cgroup, Highs
  <2>4. cgroup' \in [Keys -> Cgroup]
    BY <2>3 DEF TypeOK
  <2> QED BY <2>1, <2>2, <2>4 DEF TypeOK
<1>2. MixIsEmpty'
  BY DEF MixIsEmpty
<1>3. ASSUME NEW k \in Keys PROVE Held(k)'
  <2>1. Held(k) /\ uid[k] \in Nat /\ edits \in Nat
    BY DEF TypeOK
  <2>2. uid'[k] \in {uid[k], uid[k] + 1} /\ uid'[k] <= edits'
    BY <2>1 DEF TypeOK, Held
  <2>3. entry[k] # NoEntry => entry[k].uid <= uid'[k]
    BY <2>1, <2>2 DEF Held, Entry
  <2>4. acts[k] # NoAct => acts[k].uid <= uid'[k]
    BY <2>1, <2>2 DEF Held, TypeOK, Act
  <2>5. bePods[k] # NoAct => bePods[k].uid <= uid'[k]
    BY <2>1, <2>2 DEF Held, TypeOK, BEAct
  <2> QED BY <2>1, <2>2, <2>3, <2>4, <2>5 DEF Held
<1>4. Ahead'
  BY DEF Ahead, Uncollected, ActsFor
<1>5. ASSUME NEW k \in placed PROVE InRegion(k)'
  <2>1. k \in Keys /\ Held(k) /\ InRegion(k)
    BY DEF TypeOK
  <2>2. CASE k = j
    <3>1. uid'[k] = uid[k] + 1 /\ uid[k] \in Nat
      BY <2>1, <2>2 DEF TypeOK
    <3>2. acts[k] # NoAct => acts[k].uid # uid'[k]
      BY <2>1, <3>1 DEF Held, TypeOK, Act
    <3>3. bePods[k] # NoAct => bePods[k].uid # uid'[k]
      BY <2>1, <3>1 DEF Held, TypeOK, BEAct
    <3> QED BY <3>2, <3>3 DEF InRegion, Alive
  <2>3. CASE k # j
    BY <2>1, <2>3 DEF InRegion, Alive, TypeOK, LCNow, MixNow
  <2> QED BY <2>2, <2>3
<1> QED BY <1>1, <1>2, <1>3, <1>4, <1>5

\* Relabel, Delete, KubeletWrites and SetEndpoint keep the incarnations and the
\* cores of every pod that stays; a deleted pod has no cgroup.
LEMMA OutsideKeeps ==
  ASSUME Inv, NEW j \in Keys,
         pods' \in [Keys -> Pod \cup {NoPod}], edits' \in 0..MaxEdits, edits <= edits',
         cgroup' \in [Keys -> Cgroup],
         \A k \in Keys : /\ pods'[k] # NoPod => pods[k] # NoPod
                         /\ cgroup'[k].cpus = cgroup[k].cpus,
         UNCHANGED <<uid, entry, tickVars, faults, crashes>>
  PROVE  Inv'
<1> USE DEF Inv, TickInv, tickVars
<1>1. TypeOK'
  BY DEF TypeOK
<1>2. MixIsEmpty'
  BY DEF MixIsEmpty
<1>3. ASSUME NEW k \in Keys PROVE Held(k)'
  BY DEF Held, TypeOK
<1>4. Ahead'
  BY DEF Ahead, Uncollected, ActsFor
<1>5. ASSUME NEW k \in placed PROVE InRegion(k)'
  BY DEF InRegion, Alive, LCNow, MixNow, TypeOK
<1> QED BY <1>1, <1>2, <1>3, <1>4, <1>5

LEMMA UserStepKeeps == ASSUME Inv, NEW j \in Keys, UserStep(j) PROVE Inv'
<1>1. CASE Create(j)
  BY <1>1, CreateKeeps
<1>2. CASE Relabel(j)
  BY <1>2, OutsideKeeps DEF Relabel, Edited, Inv, TypeOK
<1>3. CASE Delete(j)
  BY <1>3, OutsideKeeps DEF Delete, Edited, Inv, TypeOK
<1>4. CASE KubeletWrites(j)
  <2> DEFINE c == [cgroup[j] EXCEPT !.quota = Limited]
  <2>0. cgroup \in [Keys -> Cgroup] /\ cgroup' = [cgroup EXCEPT ![j] = c]
    BY <1>4 DEF KubeletWrites, Inv, TypeOK
  <2>c. c \in Cgroup /\ c.cpus = cgroup[j].cpus
    BY <2>0 DEF Cgroup
  <2> HIDE DEF c
  <2>1. cgroup' \in [Keys -> Cgroup]
    BY <2>0, <2>c
  <2>2. \A k \in Keys : cgroup'[k].cpus = cgroup[k].cpus
    BY <2>0, <2>c
  <2> QED BY <1>4, <2>1, <2>2, OutsideKeeps DEF KubeletWrites, Edited, Inv, TypeOK
<1> QED BY <1>1, <1>2, <1>3, <1>4 DEF UserStep

-----------------------------------------------------------------------------
(* Steps of the workers *)

LEMMA WorkerStepKeeps == ASSUME Inv, NEW j \in Keys, WorkerStep(j) PROVE Inv'
<1> USE DEF Inv, TickInv, tickVars
<1>1. CASE SetEndpoint(j)
  <2>1. pods' \in [Keys -> Pod \cup {NoPod}]
    <3>1. \A p \in Pod, e \in {Up, Down} : [p EXCEPT !.endpoint = e] \in Pod
      BY DEF Pod
    <3>2. pods[j] \in Pod
      BY <1>1 DEF SetEndpoint, TypeOK
    <3> QED BY <1>1, <3>1, <3>2 DEF SetEndpoint, TypeOK
  <2>2. \A k \in Keys : pods'[k] # NoPod => pods[k] # NoPod
    BY <1>1 DEF SetEndpoint, TypeOK
  <2> QED BY <1>1, <2>1, <2>2, OutsideKeeps DEF SetEndpoint, TypeOK
<1>2. CASE Sync(j)
  <2> USE <1>2 DEF Sync
  <2>1. [uid |-> uid[j], cpu |-> CPU_UNKNOWN] \in Entry
    BY DEF TypeOK, Entry, CPUStates
  <2>2. entry' \in [Keys -> Entry \cup {NoEntry}]
    BY <2>1 DEF TypeOK
  <2>3. TypeOK'
    BY <2>2 DEF TypeOK
  <2>4. MixIsEmpty'
    BY DEF MixIsEmpty
  <2>5. ASSUME NEW k \in Keys PROVE Held(k)'
    BY <2>1 DEF Held, TypeOK
  <2>6. Ahead'
    BY DEF Ahead, Uncollected, ActsFor
  <2>7. ASSUME NEW k \in placed PROVE InRegion(k)'
    BY DEF InRegion, Alive, LCNow, MixNow
  <2> QED BY <2>3, <2>4, <2>5, <2>6, <2>7
<1>3. CASE Drop(j)
  <2> USE <1>3 DEF Drop
  <2>1. ASSUME NEW k \in Keys
        PROVE  /\ acts[k] = NoAct => acts'[k] = NoAct
               /\ acts[k] # NoAct => /\ acts'[k] \in Act
                                     /\ acts'[k] # NoAct
                                     /\ acts'[k].uid = acts[k].uid
                                     /\ acts'[k].cpuset = acts[k].cpuset
                                     /\ k # j => acts'[k] = acts[k]
                                     /\ k = j => ~acts'[k].live
    <3>1. \A a \in Act : /\ [a EXCEPT !.live = FALSE] \in Act
                         /\ [a EXCEPT !.live = FALSE].uid = a.uid
                         /\ [a EXCEPT !.live = FALSE].cpuset = a.cpuset
                         /\ ~[a EXCEPT !.live = FALSE].live
      BY DEF Act
    <3>2. CASE k = j
      BY <3>1, <3>2 DEF TypeOK
    <3>3. CASE k # j
      BY <3>3 DEF TypeOK
    <3> QED BY <3>2, <3>3
  <2>2. TypeOK'
    <3>1. acts' \in [Keys -> Act \cup {NoAct}]
      BY <2>1 DEF TypeOK
    <3>2. entry' \in [Keys -> Entry \cup {NoEntry}]
      BY DEF TypeOK
    <3> QED BY <3>1, <3>2 DEF TypeOK
  <2>3. MixIsEmpty'
    BY DEF MixIsEmpty
  <2>4. ASSUME NEW k \in Keys PROVE Held(k)'
    BY <2>1 DEF Held, TypeOK
  <2>5. Ahead'
    <3>1. \A k \in Keys : Uncollected(k) => Uncollected(k)'
      BY <2>1 DEF Uncollected
    <3>2. \A c : ActsFor(c) \subseteq ActsFor(c)'
      BY <2>1 DEF ActsFor
    <3> QED BY <3>1, <3>2 DEF Ahead, TypeOK
  <2>6. ASSUME NEW k \in placed PROVE InRegion(k)'
    BY <2>1 DEF InRegion, Alive, LCNow, MixNow, TypeOK
  <2> QED BY <2>2, <2>3, <2>4, <2>5, <2>6
<1> QED BY <1>1, <1>2, <1>3 DEF WorkerStep

LEMMA TimePassesKeeps == ASSUME Inv, NEW j \in Keys, TimePasses(j) PROVE Inv'
<1> USE DEF Inv, TickInv, TimePasses
<1>1. metrics' \in [Keys -> Metrics \cup {NoMetrics}]
  BY DEF TypeOK, Metrics
<1>2. TypeOK'
  BY <1>1 DEF TypeOK
<1>3. MixIsEmpty'
  BY DEF MixIsEmpty
<1>4. ASSUME NEW k \in Keys PROVE Held(k)'
  <2>1. metrics[k] \in Metrics => metrics'[k] \in Metrics
    BY DEF TypeOK, Metrics
  <2> QED BY <2>1 DEF Held
<1>5. Ahead'
  BY DEF Ahead, Uncollected, ActsFor
<1>6. ASSUME NEW k \in placed PROVE InRegion(k)'
  BY DEF InRegion, Alive, LCNow, MixNow
<1> QED BY <1>2, <1>3, <1>4, <1>5, <1>6

-----------------------------------------------------------------------------
(* The tick *)

LEMMA ListKeeps == ASSUME Inv, List PROVE Inv'
<1> USE DEF Inv, TickInv, List
<1>1. TypeOK'
  BY DEF TypeOK, Phases
<1>2. MixIsEmpty'
  BY DEF MixIsEmpty
<1>3. ASSUME NEW k \in Keys PROVE Held(k)'
  BY DEF Held
<1>4. Ahead'
  <2>1. \A k \in todo' : snap'[k] \in Pod /\ Uncollected(k)'
    BY DEF TypeOK, Ahead, Uncollected
  <2> QED BY <2>1 DEF Ahead
<1>5. ASSUME NEW k \in placed PROVE InRegion(k)'
  BY DEF Ahead
<1> QED BY <1>1, <1>2, <1>3, <1>4, <1>5

LEMMA AdvanceKeeps == ASSUME Inv, Advance PROVE Inv'
<1> USE DEF Inv, TickInv, Advance
<1>1. TypeOK'
  <2>1. phase' \in Phases
    BY DEF Phases
  <2>2. todo' \in SUBSET Keys
    BY DEF ActsFor
  <2> QED BY <2>1, <2>2 DEF TypeOK
<1>2. MixIsEmpty'
  BY DEF MixIsEmpty
<1>3. ASSUME NEW k \in Keys PROVE Held(k)'
  BY DEF Held
<1>4. Ahead'
  BY DEF Ahead, ActsFor
<1>5. ASSUME NEW k \in placed PROVE InRegion(k)'
  BY DEF InRegion, Alive, LCNow, MixNow
<1> QED BY <1>1, <1>2, <1>3, <1>4, <1>5

\* EndTick and Crash: nothing is held of any pod.
LEMMA ForgetKeeps ==
  ASSUME Inv, phase' = "list", placed' = {},
         acts' = [k \in Keys |-> NoAct], total' = NoRequests,
         bePods' = [k \in Keys |-> NoAct],
         entry' = entry \/ entry' = [k \in Keys |-> NoEntry],
         UNCHANGED <<uid, edits>>, TypeOK'
  PROVE  Inv'
<1> USE DEF Inv, TickInv
<1>1. MixIsEmpty'
  BY DEF MixIsEmpty, NoRequests
<1>2. ASSUME NEW k \in Keys PROVE Held(k)'
  BY DEF Held
<1>3. Ahead'
  BY DEF Ahead, Uncollected
<1> QED BY <1>1, <1>2, <1>3

LEMMA EndTickKeeps == ASSUME Inv, EndTick PROVE Inv'
<1> USE DEF Inv, EndTick
<1>1. total' \in [{CPUSET_LC, CPUSET_MIX} -> Nat]
  BY DEF NoRequests
<1>2. prevLC' \in 0..Cores
  BY TotalsInRange DEF TickInv
<1>3. metrics' \in [Keys -> Metrics \cup {NoMetrics}]
  <2>1. \A m \in Metrics : [m EXCEPT !.exist = FALSE] \in Metrics
    BY DEF Metrics
  <2> QED BY <2>1 DEF TypeOK
<1>4. TypeOK'
  BY <1>1, <1>2, <1>3 DEF TypeOK, Phases
<1> QED BY <1>4, ForgetKeeps

LEMMA CrashKeeps == ASSUME Inv, Crash PROVE Inv'
<1> USE DEF Inv, Crash, Fresh
<1>1. total' \in [{CPUSET_LC, CPUSET_MIX} -> Nat]
  BY DEF NoRequests
<1>2. TypeOK'
  BY <1>1 DEF TypeOK, Phases
<1> QED BY <1>2, ForgetKeeps

\* What a pod's turn may change: its metrics, and, as it was not collected
\* before, its action or its place among the BE pods.
LEMMA TurnKeeps ==
  ASSUME Inv, NEW j \in Keys, Turn(j),
         faults' \in 0..MaxFaults,
         metrics' \in [Keys -> Metrics \cup {NoMetrics}],
         \A k \in Keys \ {j} : metrics'[k] = metrics[k],
         \/ UNCHANGED <<acts, total, bePods>>
         \/ /\ UNCHANGED <<acts, total>>
            /\ \E b \in BEAct : /\ b.uid <= uid[j]
                                /\ bePods' = [bePods EXCEPT ![j] = b]
         \/ /\ UNCHANGED bePods
            /\ entry[j] \in Entry /\ metrics'[j] \in Metrics
            /\ \E a \in Act : /\ a.uid <= uid[j]
                              /\ a.cpuset = CPUSET_MIX => a.cores = 0
                              /\ Collected(j, a)
  PROVE  Inv'
<1> USE DEF Inv, TickInv, Turn
<1>1. j \in todo /\ phase = "collect" /\ Uncollected(j) /\ placed = {}
  BY DEF Ahead
<1>2. TypeOK' /\ MixIsEmpty'
  <2>1. CASE UNCHANGED <<acts, total, bePods>>
    BY <2>1 DEF TypeOK, MixIsEmpty
  <2>2. ASSUME UNCHANGED <<acts, total>>,
               NEW b \in BEAct, bePods' = [bePods EXCEPT ![j] = b]
        PROVE  TypeOK' /\ MixIsEmpty'
    BY <2>2 DEF TypeOK, MixIsEmpty
  <2>3. ASSUME UNCHANGED bePods, NEW a \in Act, Collected(j, a),
               a.cpuset = CPUSET_MIX => a.cores = 0
        PROVE  TypeOK' /\ MixIsEmpty'
    <3>1. a.cores \in Nat
      BY DEF Act
    <3>2. total' \in [{CPUSET_LC, CPUSET_MIX} -> Nat]
      BY <2>3, <3>1 DEF Collected, TypeOK
    <3>3. MixIsEmpty'
      BY <2>3, <3>1 DEF Collected, MixIsEmpty
    <3>4. acts' \in [Keys -> Act \cup {NoAct}]
      BY <2>3 DEF Collected, TypeOK
    <3> QED BY <2>3, <3>2, <3>3, <3>4 DEF TypeOK
  <2> QED BY <2>1, <2>2, <2>3
<1>3. ASSUME NEW k \in Keys \ {j}
      PROVE  acts'[k] = acts[k] /\ bePods'[k] = bePods[k]
  BY DEF TypeOK, Collected
<1>4. ASSUME NEW k \in Keys PROVE Held(k)'
  <2>1. CASE k # j
    BY <1>3, <2>1 DEF Held
  <2>2. CASE k = j
    <3>1. CASE UNCHANGED <<acts, total, bePods>>
      BY <1>1, <2>2, <3>1 DEF Held, Uncollected
    <3>2. ASSUME UNCHANGED <<acts, total>>, NEW b \in BEAct, b.uid <= uid[j],
                 bePods' = [bePods EXCEPT ![j] = b]
          PROVE  Held(k)'
      BY <1>1, <2>2, <3>2 DEF Held, Uncollected, TypeOK
    <3>3. ASSUME UNCHANGED bePods, entry[j] \in Entry, metrics'[j] \in Metrics,
                 NEW a \in Act, a.uid <= uid[j], Collected(j, a)
          PROVE  Held(k)'
      BY <1>1, <2>2, <3>3 DEF Held, Uncollected, Collected, TypeOK
    <3> QED BY <3>1, <3>2, <3>3
  <2> QED BY <2>1, <2>2
<1>5. Ahead'
  BY <1>1, <1>3 DEF Ahead, Uncollected, TypeOK
<1> QED BY <1>1, <1>2, <1>4, <1>5

LEMMA CollectKeeps == ASSUME Inv, NEW j \in Keys, Collect(j) PROVE Inv'
<1> USE DEF Inv
<1>1. /\ Held(j) /\ uid[j] \in Nat
      /\ faults \in 0..MaxFaults
      /\ metrics \in [Keys -> Metrics \cup {NoMetrics}]
  BY DEF TickInv, TypeOK
<1>2. CASE CollectMissing(j)
  BY <1>1, <1>2, TurnKeeps DEF CollectMissing
<1>3. CASE CollectUnknown(j)
  BY <1>1, <1>3, TurnKeeps DEF CollectUnknown
<1>4. CASE CollectBE(j)
  <2> DEFINE cpuset == CPUSetLabel(snap[j], Known(j))
             b == [uid |-> entry[j].uid, cpuset |-> cpuset]
  <2>1. CASE cpuset \in {CPUSET_BE, CPUSET_MIX}
    <3>1. b \in BEAct /\ b.uid <= uid[j]
      BY <1>1, <1>4, <2>1 DEF CollectBE, Held, Entry, BEAct
    <3>2. bePods' = [bePods EXCEPT ![j] = b]
      BY <1>4, <2>1 DEF CollectBE
    <3> HIDE DEF b, cpuset
    <3> QED BY <1>1, <1>4, <3>1, <3>2, TurnKeeps DEF CollectBE
  <2>2. CASE cpuset \notin {CPUSET_BE, CPUSET_MIX}
    BY <1>1, <1>4, <2>2, TurnKeeps DEF CollectBE
  <2> QED BY <2>1, <2>2
<1>5. CASE CollectLC(j)
  <2> DEFINE m == IF metrics[j] = NoMetrics THEN NewMetrics
                  ELSE [metrics[j] EXCEPT !.exist = TRUE]
             p == snap[j]
  <2>1. m \in Metrics
    <3>1. NewMetrics \in Metrics
      BY DEF NewMetrics, Metrics, Quotas, Highs
    <3>2. \A x \in Metrics : [x EXCEPT !.exist = TRUE] \in Metrics
      BY DEF Metrics
    <3> QED BY <1>1, <3>1, <3>2
  <2>2. Turn(j) /\ entry[j] \in Entry /\ p \in Pod /\ UNCHANGED bePods
    BY <1>1, <1>5 DEF CollectLC, Held, Turn, TickInv, Ahead
  <2>3. faults' \in 0..MaxFaults
    BY <1>1, <1>5 DEF CollectLC, MayFail, Bounds
  <2> DEFINE First == /\ \E v \in BOOLEAN :
                           metrics' = [metrics EXCEPT ![j] = [m EXCEPT !.sampled = v]]
                      /\ UNCHANGED <<acts, total>>
             Further ==
               /\ \E quota \in {cgroup[j].quota, Unreadable} : metrics' =
                    [metrics EXCEPT ![j] =
                      [Reread(m, quota) EXCEPT !.napSince = NapSince(p, Known(j), m)]]
               /\ IF Applied(Decision(p, Known(j)))
                  THEN Collected(j, Action(j, p, Known(j), m))
                  ELSE UNCHANGED <<acts, total>>
  <2>4. First \/ Further
    BY <1>5 DEF CollectLC
  <2> HIDE DEF m, p
  <2>5. CASE First
    <3>1. \A v \in BOOLEAN : [m EXCEPT !.sampled = v] \in Metrics
      BY <2>1 DEF Metrics
    <3>2. metrics' \in [Keys -> Metrics \cup {NoMetrics}]
      BY <1>1, <2>5, <3>1
    <3>3. \A k \in Keys \ {j} : metrics'[k] = metrics[k]
      BY <1>1, <2>5
    <3> QED BY <2>2, <2>3, <2>5, <3>2, <3>3, TurnKeeps
  <2>6. CASE Further
    <3>1. PICK quota \in {cgroup[j].quota, Unreadable} : metrics' =
            [metrics EXCEPT ![j] =
              [Reread(m, quota) EXCEPT !.napSince = NapSince(p, Known(j), m)]]
      BY <2>6
    <3>2. quota \in Quotas
      BY DEF TypeOK, Cgroup, Quotas
    <3>3. /\ Reread(m, quota) \in Metrics
          /\ NapSince(p, Known(j), m) \in {"never", "recently", "long"}
      BY <2>1, <3>2, MetricsType
    <3>4. [Reread(m, quota) EXCEPT !.napSince = NapSince(p, Known(j), m)] \in Metrics
      BY <3>3 DEF Metrics
    <3>5. /\ metrics' \in [Keys -> Metrics \cup {NoMetrics}]
          /\ metrics'[j] \in Metrics
          /\ \A k \in Keys \ {j} : metrics'[k] = metrics[k]
      BY <1>1, <3>1, <3>4
    <3>6. CASE ~Applied(Decision(p, Known(j)))
      BY <2>2, <2>3, <2>6, <3>5, <3>6, TurnKeeps
    <3>7. CASE Applied(Decision(p, Known(j)))
      <4> DEFINE a == Action(j, p, Known(j), m)
      <4>1. a \in Act /\ a.uid = entry[j].uid /\ (a.cpuset = CPUSET_MIX => a.cores = 0)
        BY <2>2, <3>7, ActionType
      <4>2. a.uid <= uid[j]
        BY <1>1, <1>5, <4>1 DEF Held, CollectLC
      <4>3. Collected(j, a)
        BY <2>6, <3>7
      <4> HIDE DEF a
      <4> QED BY <2>2, <2>3, <3>5, <4>1, <4>2, <4>3, TurnKeeps
    <3> QED BY <3>6, <3>7
  <2> QED BY <2>4, <2>5, <2>6
<1> QED BY <1>2, <1>3, <1>4, <1>5 DEF Collect

\* Pod j has been served: cgroup j is written where its incarnation is there,
\* and its cores are those of its region when they are.
LEMMA ApplyKeeps ==
  ASSUME Inv, NEW j \in Keys, phase \in {"LC", "MIX", "BE"}, j \in todo,
         NEW done,
         WriteCpus(j, done),
         "cpuset.cpus" \notin done => cgroup'[j].cpus = cgroup[j].cpus,
         "cpuset.cpus" \in done => cgroup'[j].cpus = Region(j) /\ LCNow # prevLC,
         todo' = todo \ {j},
         \A k \in Keys \ {j} : cgroup'[k] = cgroup[k],
         \A k \in Keys : /\ metrics[k] \in Metrics => metrics'[k] \in Metrics
                         /\ entry[k] \in Entry => /\ entry'[k] \in Entry
                                                  /\ entry'[k].uid = entry[k].uid
                         /\ entry[k] \notin Entry => entry'[k] = entry[k],
         cgroup' \in [Keys -> Cgroup],
         entry' \in [Keys -> Entry \cup {NoEntry}],
         metrics' \in [Keys -> Metrics \cup {NoMetrics}],
         faults' \in 0..MaxFaults,
         UNCHANGED <<pods, uid, phase, snap, acts, total, bePods, prevLC, edits, crashes>>
  PROVE  Inv'
<1> USE DEF Inv, TickInv
<1>1. TypeOK'
  BY DEF TypeOK, WriteCpus
<1>2. MixIsEmpty'
  BY DEF MixIsEmpty
<1>3. ASSUME NEW k \in Keys PROVE Held(k)'
  <2>1. /\ Held(k) /\ uid'[k] = uid[k] /\ edits' = edits
        /\ acts'[k] = acts[k] /\ bePods'[k] = bePods[k]
        /\ metrics[k] \in Metrics => metrics'[k] \in Metrics
    OBVIOUS
  <2>2. CASE entry[k] \in Entry
    <3>1. entry'[k] \in Entry /\ entry'[k].uid = entry[k].uid /\ entry[k].uid <= uid[k]
      BY <2>1, <2>2 DEF Held, Entry, TypeOK
    <3> QED BY <2>1, <2>2, <3>1 DEF Held
  <2>3. CASE entry[k] \notin Entry
    <3>1. entry'[k] = entry[k]
      BY <2>3
    <3> QED BY <2>1, <3>1 DEF Held
  <2> QED BY <2>2, <2>3
<1>4. Ahead'
  BY DEF Ahead, ActsFor
<1>5. ASSUME NEW k \in placed' PROVE InRegion(k)'
  <2>1. LCNow' = LCNow /\ MixNow' = MixNow
    BY DEF LCNow, MixNow
  <2>2. CASE k # j
    <3>1. k \in placed /\ k \in Keys
      BY <2>2 DEF WriteCpus, TypeOK
    <3> QED BY <2>1, <2>2, <3>1 DEF InRegion, Alive
  <2>3. CASE k = j /\ "cpuset.cpus" \notin done
    <3>1. k \in placed
      BY <2>3 DEF WriteCpus
    <3> QED BY <2>1, <2>3, <3>1 DEF InRegion, Alive
  <2>4. CASE k = j /\ "cpuset.cpus" \in done
    <3>1. cgroup'[j].cpus = Region(j) /\ LCNow # prevLC
      BY <2>4
    <3>2. acts[j] # NoAct => bePods[j] = NoAct
      BY DEF Held
    <3>3. phase = "LC" => acts[j] # NoAct /\ acts[j].cpuset = CPUSET_LC
      BY DEF Ahead, ActsFor
    <3>4. phase = "MIX" => acts[j] # NoAct /\ acts[j].cpuset = CPUSET_MIX
      BY DEF Ahead, ActsFor
    <3>5. phase = "BE" => \/ acts[j] # NoAct /\ acts[j].cpuset = CPUSET_BE
                          \/ bePods[j] # NoAct
      BY DEF Ahead, ActsFor
    <3>6. CASE phase = "LC"
      BY <2>1, <2>4, <3>1, <3>2, <3>3, <3>6
      DEF InRegion, Region, CPUSET_LC, CPUSET_BE, CPUSET_MIX
    <3>7. CASE phase = "MIX"
      BY <2>1, <2>4, <3>1, <3>2, <3>4, <3>7
      DEF InRegion, Region, CPUSET_LC, CPUSET_BE, CPUSET_MIX
    <3>8. CASE phase = "BE"
      BY <2>1, <2>4, <3>1, <3>2, <3>5, <3>8
      DEF InRegion, Region, CPUSET_LC, CPUSET_BE, CPUSET_MIX
    <3> QED BY <3>6, <3>7, <3>8
  <2> QED BY <2>2, <2>3, <2>4
<1> QED BY <1>1, <1>2, <1>3, <1>4, <1>5

\* Faults are counted up to their bound.
LEMMA OutcomeCounts ==
  ASSUME TypeOK, NEW k, NEW u, NEW tried, IsFiniteSet(tried), NEW done,
         Outcome(k, u, tried, done)
  PROVE  faults' \in 0..MaxFaults
<1>1. IsFiniteSet(tried \ done)
  BY FS_Subset
<1>2. Cardinality(tried \ done) \in Nat
  BY <1>1, FS_CardinalityType
<1> QED BY <1>2 DEF Outcome, TypeOK

LEMMA UpdateKeeps == ASSUME Inv, NEW j \in Keys, Update(j) PROVE Inv'
<1> USE DEF Inv
<1> DEFINE a == acts[j]
           m == metrics[j]
           tried == (IF m.current # Unlimited THEN {"cpu.max"} ELSE {})
                    \cup (IF m.high # a.high THEN {"memory.high"} ELSE {})
                    \cup (IF Region(j) # {} THEN {"cpuset.cpus"} ELSE {})
<1>1. /\ a \in Act /\ m \in Metrics /\ Held(j)
      /\ phase \in {"LC", "MIX", "BE"} /\ j \in todo
  BY DEF Update, TickInv, TypeOK, Held
<1>2. PICK done \in SUBSET tried :
        /\ Outcome(j, a.uid, tried, done)
        /\ WriteCpus(j, done)
        /\ cgroup' = [cgroup EXCEPT ![j] =
             [quota |-> IF "cpu.max" \in done THEN Unlimited ELSE @.quota,
              high |-> IF "memory.high" \in done THEN a.high ELSE @.high,
              cpus |-> IF "cpuset.cpus" \in done THEN Region(j) ELSE @.cpus]]
        /\ metrics' = [metrics EXCEPT ![j] =
             [m EXCEPT !.last = m.current, !.current = Unlimited,
                       !.high = RememberHigh(m, a.high, "memory.high" \in tried \ done)]]
  BY DEF Update
<1>3. IsFiniteSet(tried)
  <2>1. IsFiniteSet({"cpu.max", "memory.high", "cpuset.cpus"})
    <3>1. IsFiniteSet({"cpu.max"})
      BY FS_Singleton
    <3>2. IsFiniteSet({"cpu.max"} \cup {"memory.high"})
      BY <3>1, FS_AddElement
    <3>3. IsFiniteSet(({"cpu.max"} \cup {"memory.high"}) \cup {"cpuset.cpus"})
      BY <3>2, FS_AddElement
    <3>4. ({"cpu.max"} \cup {"memory.high"}) \cup {"cpuset.cpus"}
            = {"cpu.max", "memory.high", "cpuset.cpus"}
      OBVIOUS
    <3> QED BY <3>3, <3>4
  <2>2. tried \subseteq {"cpu.max", "memory.high", "cpuset.cpus"}
    OBVIOUS
  <2> QED BY <2>1, <2>2, FS_Subset
<1>4. "cpuset.cpus" \in done => Region(j) # {} /\ LCNow # prevLC
  <2>1. Region(j) # {} => LCNow # prevLC
    BY DEF Region
  <2> QED BY <2>1
<1>5. todo' = todo \ {j} /\ entry' = (IF a.live THEN [entry EXCEPT ![j].cpu = a.cpu] ELSE entry)
      /\ UNCHANGED <<pods, uid, phase, snap, acts, total, bePods, prevLC, edits, crashes>>
  BY DEF Update
<1>6. faults' \in 0..MaxFaults
  BY <1>2, <1>3, OutcomeCounts
<1>7. /\ cgroup' \in [Keys -> Cgroup]
      /\ \A k \in Keys \ {j} : cgroup'[k] = cgroup[k]
      /\ "cpuset.cpus" \notin done => cgroup'[j].cpus = cgroup[j].cpus
      /\ "cpuset.cpus" \in done => cgroup'[j].cpus = Region(j)
  <2>1. cgroup \in [Keys -> Cgroup] /\ cgroup[j] \in Cgroup
    BY DEF TypeOK
  <2>2. Region(j) \in SUBSET (0..(Cores - 1))
    BY <1>1, RegionType DEF TickInv
  <2>3. a.high \in Highs
    BY <1>1 DEF Act, Highs
  <2>4. cgroup'[j] = [quota |-> IF "cpu.max" \in done THEN Unlimited ELSE cgroup[j].quota,
                      high |-> IF "memory.high" \in done THEN a.high ELSE cgroup[j].high,
                      cpus |-> IF "cpuset.cpus" \in done THEN Region(j) ELSE cgroup[j].cpus]
    BY <1>2, <2>1
  <2>5. cgroup'[j] \in Cgroup
    BY <2>1, <2>2, <2>3, <2>4 DEF Cgroup
  <2> QED BY <1>2, <2>1, <2>4, <2>5
<1>8. /\ metrics' \in [Keys -> Metrics \cup {NoMetrics}]
      /\ \A k \in Keys : metrics[k] \in Metrics => metrics'[k] \in Metrics
  <2> DEFINE n == [m EXCEPT !.last = m.current, !.current = Unlimited,
                            !.high = RememberHigh(m, a.high, "memory.high" \in tried \ done)]
  <2>1. RememberHigh(m, a.high, "memory.high" \in tried \ done) \in Highs
    BY <1>1 DEF RememberHigh, Metrics, Act, Highs
  <2>2. n \in Metrics
    BY <1>1, <2>1 DEF Metrics, Quotas
  <2>3. metrics' = [metrics EXCEPT ![j] = n]
    BY <1>2
  <2> HIDE DEF n
  <2> QED BY <2>2, <2>3 DEF TypeOK
<1>9. /\ entry' \in [Keys -> Entry \cup {NoEntry}]
      /\ \A k \in Keys : /\ entry[k] \in Entry => /\ entry'[k] \in Entry
                                                  /\ entry'[k].uid = entry[k].uid
                         /\ entry[k] \notin Entry => entry'[k] = entry[k]
  <2>1. a.live => entry[j] \in Entry
    BY <1>1 DEF Held, Update
  <2>2. \A e \in Entry : /\ [e EXCEPT !.cpu = a.cpu] \in Entry
                         /\ [e EXCEPT !.cpu = a.cpu].uid = e.uid
    BY <1>1 DEF Entry, Act
  <2>3. CASE a.live
    <3>1. entry' = [entry EXCEPT ![j] = [entry[j] EXCEPT !.cpu = a.cpu]]
      BY <1>5, <2>3
    <3> HIDE DEF a
    <3> QED BY <2>1, <2>2, <2>3, <3>1 DEF TypeOK
  <2>4. CASE ~a.live
    BY <1>5, <2>4 DEF TypeOK
  <2> QED BY <2>3, <2>4
<1> HIDE DEF a, m, tried
<1> QED BY <1>1, <1>2, <1>4, <1>5, <1>6, <1>7, <1>8, <1>9, ApplyKeeps

LEMMA PlaceBEKeeps == ASSUME Inv, NEW j \in Keys, PlaceBE(j) PROVE Inv'
<1> USE DEF Inv
<1> DEFINE tried == IF Region(j) # {} THEN {"cpuset.cpus"} ELSE {}
<1>1. PICK done \in SUBSET tried :
        /\ Outcome(j, bePods[j].uid, tried, done)
        /\ WriteCpus(j, done)
        /\ cgroup' = [cgroup EXCEPT ![j].cpus =
                        IF "cpuset.cpus" \in done THEN Region(j) ELSE @]
  BY DEF PlaceBE
<1>2. faults' \in 0..MaxFaults
  <2>1. IsFiniteSet(tried)
    BY FS_EmptySet, FS_Singleton
  <2> QED BY <1>1, <2>1, OutcomeCounts
<1>3. "cpuset.cpus" \in done => LCNow # prevLC
  <2>1. Region(j) # {} => LCNow # prevLC
    BY DEF Region
  <2> QED BY <2>1
<1>4. /\ cgroup' \in [Keys -> Cgroup]
      /\ \A k \in Keys \ {j} : cgroup'[k] = cgroup[k]
      /\ "cpuset.cpus" \notin done => cgroup'[j].cpus = cgroup[j].cpus
      /\ "cpuset.cpus" \in done => cgroup'[j].cpus = Region(j)
  <2>1. cgroup \in [Keys -> Cgroup] /\ cgroup[j] \in Cgroup
    BY DEF TypeOK
  <2>2. Region(j) \in SUBSET (0..(Cores - 1))
    BY RegionType DEF TickInv, PlaceBE
  <2>3. cgroup' = [cgroup EXCEPT ![j] = [cgroup[j] EXCEPT !.cpus =
                      IF "cpuset.cpus" \in done THEN Region(j) ELSE cgroup[j].cpus]]
    BY <1>1
  <2>4. [cgroup[j] EXCEPT !.cpus =
          IF "cpuset.cpus" \in done THEN Region(j) ELSE cgroup[j].cpus] \in Cgroup
    BY <2>1, <2>2 DEF Cgroup
  <2>5. cgroup'[j].cpus = IF "cpuset.cpus" \in done THEN Region(j) ELSE cgroup[j].cpus
    BY <2>1, <2>3 DEF Cgroup
  <2> QED BY <2>1, <2>3, <2>4, <2>5
<1> HIDE DEF tried
<1> QED BY <1>1, <1>2, <1>3, <1>4, ApplyKeeps DEF PlaceBE, TypeOK

-----------------------------------------------------------------------------
(* Theorems *)

LEMMA NextInv == Inv /\ [Next]_vars => Inv'
<1> SUFFICES ASSUME Inv, [Next]_vars PROVE Inv'
  OBVIOUS
<1>1. ASSUME NEW j \in Keys, Apply(j) PROVE Inv'
  BY <1>1, UpdateKeeps, PlaceBEKeeps DEF Apply
<1>2. CASE Tick
  BY <1>1, <1>2, ListKeeps, AdvanceKeeps, EndTickKeeps, CollectKeeps DEF Tick
<1>3. CASE \E k \in Keys : UserStep(k) \/ WorkerStep(k) \/ TimePasses(k)
  BY <1>3, UserStepKeeps, WorkerStepKeeps, TimePassesKeeps
<1>4. CASE Crash
  BY <1>4, CrashKeeps
<1>5. CASE UNCHANGED vars
  <2>1. TypeOK'
    BY <1>5 DEF vars, tickVars, Inv, TypeOK
  <2>2. MixIsEmpty' /\ Ahead'
    BY <1>5 DEF vars, tickVars, Inv, TickInv, MixIsEmpty, Ahead, Uncollected, ActsFor
  <2>3. \A k \in Keys : Held(k)'
    BY <1>5 DEF vars, tickVars, Inv, TickInv, Held
  <2>4. \A k \in placed' : InRegion(k)'
    BY <1>5 DEF vars, tickVars, Inv, TickInv, InRegion, Alive, LCNow, MixNow
  <2> QED BY <2>1, <2>2, <2>3, <2>4 DEF Inv, TickInv
<1> QED BY <1>2, <1>3, <1>4, <1>5 DEF Next

\* The variables keep their types: what is remembered of a pod, and the cores
\* written to cgroups, stay in range for any node and any requests.
THEOREM ResourceTypes == Spec => []TypeOK
<1>1. Inv => TypeOK
  BY DEF Inv
<1> QED BY InitInv, NextInv, <1>1, PTL DEF Spec

\* As soon as the cores do not suffice, BE has exactly its 3%.
LEMMA ScarceBE ==
  ASSUME NEW lc \in 0..Cores, Cores - lc < MinBECores
  PROVE  Cardinality(BERegion(lc, 0)) = MinBECores
<1>1. BECores(lc, 0) = MinBECores
  BY BECoresValue, MinBEType DEF Greater
<1>2. BERegion(lc, 0) = (Cores - MinBECores)..(Cores - 1)
  BY <1>1, BERegionNotEmpty
<1> QED BY <1>2, MinBEType, FS_Interval

\* When a tick has moved the border between LC and BE, the pods it placed on the
\* LC side share no core with those it placed on the BE side, unless BE has only
\* its 3% left or no pod in the LC cpuset asks for anything, and they have the
\* cores that are requested, or all there are: whatever became of the pods, their
\* cgroups and their PodInfos while the tick ran.
THEOREM RegionsAreSeparate == Spec => []RegionsSeparate
<1>1. ASSUME Inv PROVE RegionsSeparate
  <2> USE <1>1 DEF Inv, TickInv
  <2>1. LCNow \in 0..Cores /\ MixNow = 0 /\ total[CPUSET_LC] \in Nat
    BY TotalsInRange DEF TypeOK
  <2>2. ASSUME NEW j \in PlacedLC
        PROVE  \/ cgroup[j].cpus = LCRegion(LCNow)
               \/ LCNow = 0 /\ acts[j].cpuset = CPUSET_MIX /\ cgroup[j].cpus = 0..(Cores - 1)
    <3>1. InRegion(j) /\ acts[j] # NoAct /\ Alive(j, acts[j].uid)
      BY DEF PlacedLC
    <3>2. CASE acts[j].cpuset = CPUSET_LC
      BY <3>1, <3>2 DEF InRegion
    <3>3. CASE acts[j].cpuset = CPUSET_MIX
      BY <2>1, <3>1, <3>3, MixRegionValue DEF InRegion
    <3> QED BY <3>2, <3>3 DEF PlacedLC
  <2>3. ASSUME NEW k \in PlacedBE PROVE cgroup[k].cpus = BERegion(LCNow, 0)
    <3>1. k \in placed /\ InRegion(k)
      BY DEF PlacedBE
    <3>2. BEMixRegion(LCNow) = BERegion(LCNow, 0)
      BY <2>1, BERegionNotEmpty
    <3> QED BY <2>1, <3>1, <3>2 DEF PlacedBE, InRegion
  <2>4. ASSUME NEW j \in PlacedLC, NEW k \in PlacedBE, cgroup[j].cpus = LCRegion(LCNow)
        PROVE  \/ cgroup[j].cpus \cap cgroup[k].cpus = {}
               \/ /\ Cores - LCNow < MinBECores
                  /\ Cardinality(cgroup[k].cpus) = MinBECores
    BY <2>1, <2>3, <2>4, ScarceBE, RegionsPartition, MinBEType
  <2>5. ASSUME NEW j \in PlacedLC, cgroup[j].cpus = LCRegion(LCNow)
        PROVE  \/ 1000 * Cardinality(cgroup[j].cpus) >= total[CPUSET_LC]
               \/ cgroup[j].cpus = 0..(Cores - 1)
    <3>1. cgroup[j].cpus = 0..(LCNow - 1)
      BY <2>1, <2>5 DEF LCRegion, FromLower
    <3>2. Cardinality(0..(LCNow - 1)) = LCNow
      BY <2>1, FS_Interval
    <3>3. LCNow = Cores \/ 1000 * LCNow >= total[CPUSET_LC]
      BY <2>1, LCCoresSuffice DEF LCNow
    <3> QED BY <3>1, <3>2, <3>3
  <2> QED BY <2>2, <2>4, <2>5 DEF RegionsSeparate
<1> QED BY InitInv, NextInv, <1>1, PTL DEF Spec


-----------------------------------------------------------------------------
(* What is remembered of memory.high *)

\* Nothing is learnt of pod k that could not be said of its cgroup before.
NoNewMemory(k) ==
  /\ metrics'[k] # NoMetrics /\ metrics'[k].high = DefaultHigh =>
       metrics[k] # NoMetrics /\ metrics[k].high = DefaultHigh
  /\ cgroup'[k].high = Swapped => cgroup[k].high = Swapped

LEMMA NoNewMemoryKeeps ==
  ASSUME SwapRemembered, \A k \in Keys : NoNewMemory(k) PROVE SwapRemembered'
BY DEF SwapRemembered, NoNewMemory

\* Users and the kubelet leave memory.high alone; a new cgroup has none.
LEMMA OutsideMemory ==
  ASSUME Inv, NEW j \in Keys, UserStep(j) \/ WorkerStep(j) \/ TimePasses(j), NEW k \in Keys
  PROVE  NoNewMemory(k)
<1> USE DEF Inv, TypeOK, tickVars, NoNewMemory
<1>1. CASE Create(j)
  BY <1>1 DEF Create, NewCgroup, Swapped, NotSet
<1>2. CASE Relabel(j) \/ Delete(j) \/ WorkerStep(j)
  BY <1>2 DEF Relabel, Delete, WorkerStep, SetEndpoint, Sync, Drop
<1>3. CASE KubeletWrites(j)
  BY <1>3 DEF KubeletWrites, Cgroup
<1>4. CASE TimePasses(j)
  BY <1>4 DEF TimePasses, Metrics
<1> QED BY <1>1, <1>2, <1>3, <1>4 DEF UserStep

\* Collecting keeps the memory.high remembered, or starts with none.
LEMMA CollectMemory ==
  ASSUME Inv, NEW j \in Keys, Collect(j), NEW k \in Keys PROVE NoNewMemory(k)
<1> DEFINE m == IF metrics[j] = NoMetrics THEN NewMetrics ELSE [metrics[j] EXCEPT !.exist = TRUE]
<1>1. UNCHANGED cgroup
  BY DEF Collect, CollectMissing, CollectUnknown, CollectBE, CollectLC, Turn
<1>2. metrics \in [Keys -> Metrics \cup {NoMetrics}] /\ cgroup \in [Keys -> Cgroup]
  BY DEF Inv, TypeOK
<1>3. CASE UNCHANGED metrics \/ metrics' = [metrics EXCEPT ![j] = NoMetrics]
  BY <1>1, <1>2, <1>3 DEF NoNewMemory
<1>4. CASE CollectLC(j)
  <2>1. m \in Metrics /\ (m.high = DefaultHigh => metrics[j] # NoMetrics /\ metrics[j].high = DefaultHigh)
    BY <1>2 DEF NewMetrics, Metrics, Quotas, Highs, NotSet, DefaultHigh
  <2>2. PICK n : metrics' = [metrics EXCEPT ![j] = n] /\ n.high = m.high
    <3>1. [m EXCEPT !.sampled = FALSE].high = m.high /\ [m EXCEPT !.sampled = TRUE].high = m.high
      BY <2>1 DEF Metrics
    <3>2. \A quota, since : [Reread(m, quota) EXCEPT !.napSince = since].high = m.high
      BY <2>1 DEF Reread, Metrics
    <3> HIDE DEF m
    <3>3. CASE \/ metrics' = [metrics EXCEPT ![j] = [m EXCEPT !.sampled = FALSE]]
               \/ metrics' = [metrics EXCEPT ![j] = [m EXCEPT !.sampled = TRUE]]
      BY <3>1, <3>3
    <3>4. ASSUME NEW quota, NEW since,
                 metrics' = [metrics EXCEPT ![j] = [Reread(m, quota) EXCEPT !.napSince = since]]
          PROVE  \E n : metrics' = [metrics EXCEPT ![j] = n] /\ n.high = m.high
      <4> DEFINE new == [Reread(m, quota) EXCEPT !.napSince = since]
      <4>1. new.high = m.high
        BY <3>2
      <4>2. metrics' = [metrics EXCEPT ![j] = new]
        BY <3>4
      <4> HIDE DEF new
      <4> QED BY <4>1, <4>2
    <3>5. \/ metrics' = [metrics EXCEPT ![j] = [m EXCEPT !.sampled = FALSE]]
          \/ metrics' = [metrics EXCEPT ![j] = [m EXCEPT !.sampled = TRUE]]
          \/ \E quota, since :
               metrics' = [metrics EXCEPT ![j] = [Reread(m, quota) EXCEPT !.napSince = since]]
      BY <1>4 DEF CollectLC, m
    <3> QED BY <3>3, <3>4, <3>5
  <2> HIDE DEF m
  <2> QED BY <1>1, <1>2, <2>1, <2>2 DEF NoNewMemory
<1> QED BY <1>3, <1>4 DEF Collect, CollectMissing, CollectUnknown, CollectBE

\* update remembers of memory.high what it has written, and what it has not
\* written as it was.
LEMMA UpdateMemory ==
  ASSUME Inv, SwapRemembered, NEW j \in Keys, Update(j) PROVE SwapRemembered'
<1> DEFINE a == acts[j]
           m == metrics[j]
           tried == (IF m.current # Unlimited THEN {"cpu.max"} ELSE {})
                    \cup (IF m.high # a.high THEN {"memory.high"} ELSE {})
                    \cup (IF Region(j) # {} THEN {"cpuset.cpus"} ELSE {})
<1>1. m \in Metrics /\ metrics \in [Keys -> Metrics \cup {NoMetrics}] /\ cgroup \in [Keys -> Cgroup]
  BY DEF Update, Inv, TickInv, TypeOK, Held
<1>2. PICK done \in SUBSET tried :
        /\ cgroup' = [cgroup EXCEPT ![j] =
             [quota |-> IF "cpu.max" \in done THEN Unlimited ELSE @.quota,
              high |-> IF "memory.high" \in done THEN a.high ELSE @.high,
              cpus |-> IF "cpuset.cpus" \in done THEN Region(j) ELSE @.cpus]]
        /\ metrics' = [metrics EXCEPT ![j] =
             [m EXCEPT !.last = m.current, !.current = Unlimited,
                       !.high = RememberHigh(m, a.high, "memory.high" \in tried \ done)]]
  BY DEF Update
<1>3. metrics'[j].high = RememberHigh(m, a.high, "memory.high" \in tried \ done)
  BY <1>1, <1>2 DEF Metrics
<1>4. cgroup'[j].high = IF "memory.high" \in done THEN a.high ELSE cgroup[j].high
  BY <1>1, <1>2
<1>5. ("memory.high" \in tried <=> m.high # a.high) /\ ("memory.high" \in done => "memory.high" \in tried)
  OBVIOUS
<1>6. \A k \in Keys \ {j} : metrics'[k] = metrics[k] /\ cgroup'[k] = cgroup[k]
  BY <1>1, <1>2
<1>7. m # NoMetrics /\ m.high = DefaultHigh => cgroup[j].high # Swapped
  BY DEF SwapRemembered
<1> HIDE DEF tried
<1>8. metrics'[j].high = DefaultHigh => cgroup'[j].high # Swapped
  <2>1. CASE "memory.high" \in done
    BY <1>3, <1>4, <2>1 DEF RememberHigh, DefaultHigh, Swapped
  <2>2. CASE "memory.high" \notin done
    <3>1. metrics'[j].high = m.high
      BY <1>3, <1>5, <2>2 DEF RememberHigh
    <3> QED BY <1>1, <1>4, <1>7, <2>2, <3>1
  <2> QED BY <2>1, <2>2
<1> QED BY <1>6, <1>8 DEF SwapRemembered

\* The other steps of the goroutine write no memory.high; at its end a tick drops
\* metrics, a crash all of them.
LEMMA OtherMemory ==
  ASSUME Inv, List \/ Advance \/ EndTick \/ Crash \/ (\E j \in Keys : PlaceBE(j)) \/ UNCHANGED vars,
         NEW k \in Keys
  PROVE  NoNewMemory(k)
<1> USE DEF Inv, TypeOK, NoNewMemory
<1>1. CASE List \/ Advance \/ UNCHANGED vars
  BY <1>1 DEF List, Advance, vars, tickVars
<1>2. CASE EndTick
  <2>1. metrics'[k] = IF metrics[k] # NoMetrics /\ metrics[k].exist
                      THEN [metrics[k] EXCEPT !.exist = FALSE] ELSE NoMetrics
    BY <1>2 DEF EndTick
  <2>2. metrics[k] # NoMetrics => [metrics[k] EXCEPT !.exist = FALSE].high = metrics[k].high
    BY DEF Metrics
  <2> QED BY <1>2, <2>1, <2>2 DEF EndTick
<1>3. CASE Crash
  BY <1>3 DEF Crash, Fresh
<1>4. ASSUME NEW j \in Keys, PlaceBE(j) PROVE NoNewMemory(k)
  BY <1>4 DEF PlaceBE, Cgroup
<1> QED BY <1>1, <1>2, <1>3, <1>4

\* A pod whose memory is taken away is never remembered as one that has it,
\* whatever writes fail and whatever becomes of the pods and their cgroups.
THEOREM SwapsAreRemembered == Spec => []SwapRemembered
<1>1. Init => Inv /\ SwapRemembered
  BY InitInv DEF Init, SwapRemembered
<1>2. ASSUME Inv, SwapRemembered, [Next]_vars PROVE SwapRemembered'
  <2>1. ASSUME NEW j \in Keys, Update(j) PROVE SwapRemembered'
    BY <1>2, <2>1, UpdateMemory
  <2>2. CASE \A k \in Keys : NoNewMemory(k)
    BY <1>2, <2>2, NoNewMemoryKeeps
  <2> QED BY <1>2, <2>1, <2>2, OutsideMemory, CollectMemory, OtherMemory DEF Next, Tick, Apply
<1>3. Inv /\ SwapRemembered /\ [Next]_vars => (Inv /\ SwapRemembered)'
  BY <1>2, NextInv
<1> QED BY <1>1, <1>3, PTL DEF Spec

=============================================================================
