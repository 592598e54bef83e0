---------------------------- MODULE SwiftKubeProofs ----------------------------
(***************************************************************************)
(* The SwiftDeployment controller and the swiftlets, for any number of     *)
(* pods, sizes, edits and faults.                                          *)
(***************************************************************************)
EXTENDS SwiftKube, FiniteSetTheorems, TLAPS

LEMMA CountTypes == \A S \in SUBSET Pods : IsFiniteSet(S) /\ Cardinality(S) \in Counts
<1> TAKE S \in SUBSET Pods
<1>1. IsFiniteSet(S) /\ Cardinality(S) <= Cardinality(Pods)
  BY Bounds, FS_Subset
<1>2. Cardinality(S) \in Nat /\ Cardinality(Pods) \in Nat
  BY <1>1, Bounds, FS_CardinalityType
<1> QED
  BY <1>1, <1>2 DEF Counts

\* The number of pods that run, before and after one starts or goes.
LEMMA StartedCounts ==
  /\ Cardinality(Started) \in Counts
  /\ \A p \in Pods : /\ Cardinality(Started \ {p}) \in Counts
                    /\ Cardinality(Started \cup {p}) \in Counts
<1>1. Started \subseteq Pods
  BY DEF Started, Live
<1>2. \A p \in Pods : Started \ {p} \subseteq Pods /\ Started \cup {p} \subseteq Pods
  BY <1>1
<1> QED
  BY <1>1, <1>2, CountTypes

LEMMA ZeroCount == 0 \in Counts
BY Bounds, FS_CardinalityType DEF Counts

-----------------------------------------------------------------------------
(* Writing. *)

DeploymentType == deployment \in Deployment \cup {NoDeployment} /\ deploymentSeen \in BOOLEAN
PodsType == /\ pods \in [Pods -> Pod \cup {NoPod}]
            /\ podCurrent \in [Pods -> SUBSET {"lister", "worker", "swiftlet"}]
SDType == sd \in SDSpec /\ status \in SDStatus /\ sdCurrent \in BOOLEAN
BoundsType == edits \in 0 .. MaxEdits /\ faults \in 0 .. MaxFaults

AllTypes == DeploymentType /\ PodsType /\ SDType /\ BoundsType /\ service \in Services

LEMMA ClusterTypes == (ClusterTypeOK <=> AllTypes) /\ (ClusterTypeOK' <=> AllTypes')
BY DEF AllTypes, ClusterTypeOK, DeploymentType, PodsType, SDType, BoundsType

LEMMA PutDeploymentType ==
  ASSUME DeploymentType, NEW d \in Deployment \cup {NoDeployment}, PutDeployment(d)
  PROVE  DeploymentType'
BY DEF PutDeployment, DeploymentType

LEMMA ReportType ==
  ASSUME DeploymentType, NEW n \in Counts, Report(n) PROVE DeploymentType'
<1>1. CASE Ours
  <2>1. [deployment EXCEPT !.available = n] \in Deployment
    BY <1>1 DEF DeploymentType, Deployment, Ours
  <2> QED
    BY <1>1, <2>1, PutDeploymentType DEF Report
<1>2. CASE ~Ours
  BY <1>2 DEF Report, DeploymentType
<1> QED
  BY <1>1, <1>2

LEMMA PutPodType ==
  ASSUME PodsType, NEW p \in Pods, NEW x \in Pod \cup {NoPod}, PutPod(p, x) PROVE PodsType'
BY DEF PutPod, PodsType

LEMMA EditType == ASSUME BoundsType, Edit PROVE BoundsType'
BY Bounds DEF Edit, BoundsType

LEMMA FaultType == ASSUME BoundsType, Fault PROVE BoundsType'
BY Bounds DEF Fault, BoundsType

LEMMA ClusterNextType ==
  ASSUME ClusterTypeOK, ClusterNext PROVE ClusterTypeOK'
<1> USE ClusterTypes DEF AllTypes
<1>1. CASE EditSpec
  BY <1>1, EditType DEF EditSpec, PutSD, SDType, DeploymentType, PodsType
<1>2. CASE DeleteDeployment
  BY <1>2, EditType, PutDeploymentType DEF DeleteDeployment, sdVars, SDType, PodsType
<1>3. ASSUME NEW p \in Pods, PodDies(p) PROVE ClusterTypeOK'
  BY <1>3, EditType, PutPodType, ReportType, StartedCounts DEF PodDies, sdVars, SDType
<1>4. ASSUME NEW p \in Pods, CreatePod(p) PROVE ClusterTypeOK'
  <2>1. [state |-> "absent", sleep |-> "absent", container |-> "none"] \in Pod
    BY DEF Pod, States, Sleeps, Containers
  <2> QED
    BY <1>4, <2>1, PutPodType DEF CreatePod, sdVars, boundVars, SDType, BoundsType, DeploymentType
<1>5. ASSUME NEW p \in Pods, RemovePod(p) PROVE ClusterTypeOK'
  BY <1>5, PutPodType, ReportType, StartedCounts DEF RemovePod, sdVars, boundVars, SDType, BoundsType
<1>6. CASE Adopt
  BY <1>6, ReportType, StartedCounts DEF Adopt, sdVars, boundVars, SDType, BoundsType, PodsType
<1>7. \A p \in Live, c \in Containers : [pods[p] EXCEPT !.container = c] \in Pod
  BY DEF Live, PodsType, Pod
<1>8. ASSUME NEW p \in Pods, ContainerWaits(p) PROVE ClusterTypeOK'
  <2>1. [pods[p] EXCEPT !.container = "waiting"] \in Pod
    BY <1>7, <1>8 DEF ContainerWaits, Containers
  <2> QED
    BY <1>8, <2>1, EditType, PutPodType DEF ContainerWaits, sdVars, SDType, DeploymentType
<1>9. ASSUME NEW p \in Pods, ContainersStart(p) PROVE ClusterTypeOK'
  <2>1. [pods[p] EXCEPT !.container = "started"] \in Pod
    BY <1>7, <1>9 DEF ContainersStart, Containers
  <2> QED
    BY <1>9, <2>1, PutPodType, ReportType, StartedCounts
    DEF ContainersStart, sdVars, boundVars, SDType, BoundsType
<1> QED
  BY <1>1, <1>2, <1>3, <1>4, <1>5, <1>6, <1>8, <1>9 DEF ClusterNext

-----------------------------------------------------------------------------
(* The swiftlets. *)

LEMMA OrderType == ASSUME NEW x PROVE Order(x) \in Orders
BY DEF Order, Orders

\* The swiftlet of the pods ps learns of them as they are.
Told(ps) ==
  /\ UNCHANGED pods
  /\ order' = [p \in Pods |-> IF p \in ps THEN Order(pods[p]) ELSE order[p]]
  /\ podCurrent' = [p \in Pods |-> IF p \in ps THEN podCurrent[p] \cup {"swiftlet"}
                                                ELSE podCurrent[p]]

LEMMA NoticeTells ==
  ASSUME PodsType, SwiftletTypeOK, NEW p \in Pods, Notice(p) PROVE Told({p})
BY DEF Notice, Told, PodsType, SwiftletTypeOK

LEMMA StartAgainTells ==
  ASSUME NEW p \in Pods, StartAgain(p), UNCHANGED pods PROVE \E ps \in SUBSET Pods : Told(ps)
BY DEF StartAgain, Told

LEMMA ToldType ==
  ASSUME PodsType, SwiftletTypeOK, NEW ps \in SUBSET Pods, Told(ps) PROVE PodsType' /\ SwiftletTypeOK'
BY OrderType DEF Told, PodsType, SwiftletTypeOK

\* A sync ends the swiftlet, writes the pod, or has the key queued again.
LEMMA SyncPodCases ==
  ASSUME NEW p \in Pods, SyncPod(p)
  PROVE  \/ StartAgain(p) /\ UNCHANGED pods
         \/ /\ order[p] \in {"activate", "suspend"} /\ Accepts(p, "swiftlet") /\ PutPod(p, Obeyed(p))
            /\ order' = order \/ order' = [order EXCEPT ![p] = "none"]
         \/ UNCHANGED <<pods, podCurrent, order>>
BY DEF SyncPod, Forget, AddRateLimited

LEMMA SwiftletNextType ==
  ASSUME ClusterTypeOK, SwiftletTypeOK, SwiftletNext PROVE ClusterTypeOK' /\ SwiftletTypeOK'
<1> USE ClusterTypes DEF AllTypes
<1>1. ASSUME NEW p \in Pods, Notice(p) PROVE ClusterTypeOK' /\ SwiftletTypeOK'
  BY <1>1, OrderType
  DEF Notice, SwiftletTypeOK, sdVars, boundVars, SDType, BoundsType, DeploymentType, PodsType
<1>2. ASSUME NEW p \in Pods, SyncPod(p) PROVE ClusterTypeOK' /\ SwiftletTypeOK'
  <2>1. SDType' /\ DeploymentType' /\ service' \in Services
    BY <1>2 DEF SyncPod, sdVars, SDType, DeploymentType
  <2>2. BoundsType'
    BY <1>2, FaultType DEF SyncPod, boundVars, BoundsType
  <2>3. CASE StartAgain(p) /\ UNCHANGED pods
    BY <2>1, <2>2, <2>3, StartAgainTells, ToldType
  <2>4. CASE /\ Accepts(p, "swiftlet") /\ PutPod(p, Obeyed(p))
             /\ order' = order \/ order' = [order EXCEPT ![p] = "none"]
    <3>1. Obeyed(p) \in Pod
      BY <2>4 DEF Accepts, Obeyed, PodsType, Pod, States, Sleeps
    <3>2. SwiftletTypeOK'
      BY <2>4 DEF SwiftletTypeOK, Orders
    <3> QED
      BY <2>1, <2>2, <2>4, <3>1, <3>2, PutPodType
  <2>5. CASE UNCHANGED <<pods, podCurrent, order>>
    BY <2>1, <2>2, <2>5 DEF PodsType, SwiftletTypeOK
  <2> QED
    BY <1>2, <2>3, <2>4, <2>5, SyncPodCases
<1>3. ASSUME NEW p \in Pods, RestartSwiftlet(p) PROVE ClusterTypeOK' /\ SwiftletTypeOK'
  BY <1>3, StartAgainTells, ToldType, FaultType DEF RestartSwiftlet, sdVars, SDType, DeploymentType
<1> QED
  BY <1>1, <1>2, <1>3 DEF SwiftletNext

-----------------------------------------------------------------------------
(* The controller. *)

CurrentType == podCurrent \in [Pods -> SUBSET {"lister", "worker", "swiftlet"}]
SyncType == /\ dirty \in BOOLEAN /\ pc \in Steps /\ todo \subseteq Pods /\ goal \in States
            /\ myDeployment \in Deployment \cup {NoDeployment}
            /\ pc \in {"service", "init", "relabel"} => myDeployment \in Deployment
ListerType == /\ sdLister \in SDSpec /\ deploymentLister \in Deployment \cup {NoDeployment}
              /\ serviceLister \in Services /\ podLister \in [Pods -> States \cup {NoPod}]

LEMMA ControllerTypes ==
  (SyncType /\ ListerType => ControllerTypeOK) /\ (SyncType' /\ ListerType' => ControllerTypeOK')
BY DEF ControllerTypeOK, SyncType, ListerType

LEMMA LeaveType == ASSUME Leave, dirty' \in BOOLEAN PROVE SyncType'
BY DEF Leave, SyncType, Steps, States

LEMMA FailType == ASSUME Fail PROVE SyncType'
BY LeaveType DEF Fail

LEMMA LoopType ==
  ASSUME SyncType, CurrentType, NEW step \in Steps, NEW ps \in SUBSET Pods, NEW s \in States,
         Loop(step, ps, s)
  PROVE  CurrentType' /\ (myDeployment' \in Deployment => SyncType')
<1>1. CurrentType'
  BY DEF Loop, CurrentType
<1>2. pc' \in Steps /\ todo' \subseteq Pods /\ goal' \in States /\ dirty' \in BOOLEAN
  BY DEF Loop, States, SyncType
<1> QED
  BY <1>1, <1>2 DEF SyncType

LEMMA AdmitType ==
  ASSUME SyncType, CurrentType, NEW d \in Deployment, NEW s, Admit(d, s)
  PROVE  SyncType' /\ CurrentType'
<1>1. CASE Fail /\ UNCHANGED podCurrent
  BY <1>1, FailType DEF CurrentType
<1>2. CASE myDeployment' = d /\ Loop("init", InState({"absent"}), "running")
  <2>1. InState({"absent"}) \in SUBSET Pods /\ "init" \in Steps /\ "running" \in States
    BY DEF InState, Steps, States
  <2> QED
    BY <1>2, <2>1, LoopType
<1> QED
  BY <1>1, <1>2 DEF Admit

LEMMA WithDeploymentType ==
  ASSUME SyncType, CurrentType, NEW d \in Deployment, WithDeployment(d)
  PROVE  SyncType' /\ CurrentType'
<1>1. CASE Admit(d, serviceLister)
  BY <1>1, AdmitType
<1>2. CASE pc' = "service" /\ myDeployment' = d /\ UNCHANGED <<podCurrent, dirty, todo, goal>>
  BY <1>2 DEF SyncType, Steps, CurrentType
<1> QED
  BY <1>1, <1>2 DEF WithDeployment

LEMMA SyncRunningPodType ==
  ASSUME SyncType, CurrentType, NEW d \in Deployment, syncRunningPod(d)
  PROVE  SyncType' /\ CurrentType'
<1>1. PICK qs \in SUBSET Pods, s \in States : Loop("relabel", qs, s)
  <2>1. ASSUME NEW n, NEW qs, qs \subseteq Pods PROVE \A ps \in SelectPods(qs, n) : ps \subseteq Pods
    BY <2>1 DEF SelectPods, kSubset
  <2>2. getRunningPods \subseteq Pods /\ getSleepingPods \subseteq Pods
    BY DEF getRunningPods, getSleepingPods, InState
  <2>3. \A s \in {"absent", "sleeping", "runnable"} : s \in States
    BY DEF States
  <2>4. CASE Loop("relabel", {}, "absent")
    BY <2>3, <2>4
  <2>5. ASSUME NEW n, NEW ps \in SelectPods(getRunningPods, n), Loop("relabel", ps, "sleeping")
        PROVE  \E qs \in SUBSET Pods, s \in States : Loop("relabel", qs, s)
    BY <2>1, <2>2, <2>3, <2>5
  <2>6. ASSUME NEW n, NEW ps \in SelectPods(getSleepingPods, n), Loop("relabel", ps, "runnable")
        PROVE  \E qs \in SUBSET Pods, s \in States : Loop("relabel", qs, s)
    BY <2>1, <2>2, <2>3, <2>6
  <2> QED
    BY <2>4, <2>5, <2>6 DEF syncRunningPod
<1>2. myDeployment' = d /\ "relabel" \in Steps
  BY DEF syncRunningPod, Steps
<1> QED
  BY <1>1, <1>2, LoopType

LEMMA DoneType == ASSUME SyncType, NEW p \in Pods, Done(p) PROVE SyncType'
BY DEF Done, SyncType, States

\* What a step of the worker or an informer keeps.
KubeType == AllTypes /\ SyncType /\ ListerType

LEMMA GetType == ASSUME KubeType, Get PROVE KubeType'
<1> USE DEF AllTypes, KubeType
<1>1. SyncType' /\ CurrentType'
  <2>1. CASE deploymentLister # NoDeployment /\ WithDeployment(deploymentLister)
    BY <2>1, WithDeploymentType DEF ListerType, PodsType, CurrentType
  <2>2. CASE pc' = "deployment" /\ UNCHANGED <<podCurrent, dirty, myDeployment, todo, goal>>
    BY <2>2 DEF SyncType, Steps, PodsType, CurrentType
  <2> QED
    BY <2>1, <2>2 DEF Get
<1> QED
  BY <1>1 DEF Get, sdVars, listerVars, boundVars, ListerType, SDType, DeploymentType, PodsType,
              CurrentType, BoundsType

LEMMA NewDeploymentType == ASSUME ListerType PROVE newDeployment \in Deployment
BY ZeroCount DEF ListerType, newDeployment, Deployment, SDSpec

LEMMA CreateDeploymentType == ASSUME KubeType, CreateDeployment PROVE KubeType'
<1> USE DEF AllTypes, KubeType
<1>1. newDeployment \in Deployment
  BY NewDeploymentType
<1>2. DeploymentType'
  BY <1>1, PutDeploymentType DEF CreateDeployment, DeploymentType
<1>3. SyncType' /\ CurrentType' /\ BoundsType'
  <2>1. CASE WithDeployment(newDeployment) /\ UNCHANGED boundVars
    BY <1>1, <2>1, WithDeploymentType DEF PodsType, CurrentType, boundVars, BoundsType
  <2>2. CASE Fault /\ Fail /\ UNCHANGED podCurrent
    BY <2>2, FaultType, FailType DEF PodsType, CurrentType
  <2>3. CASE Fail /\ UNCHANGED <<podCurrent, boundVars>>
    BY <2>3, FailType DEF PodsType, CurrentType, boundVars, BoundsType
  <2> QED
    BY <2>1, <2>2, <2>3 DEF CreateDeployment, Answered
<1> QED
  BY <1>2, <1>3 DEF CreateDeployment, sdVars, listerVars, SDType, ListerType, PodsType, CurrentType

LEMMA CreateServiceType == ASSUME KubeType, CreateService
                           PROVE  KubeType'
<1> USE DEF AllTypes, KubeType
<1>1. SyncType' /\ CurrentType' /\ BoundsType'
  <2>1. CASE Admit(myDeployment, "ours") /\ UNCHANGED boundVars
    BY <2>1, AdmitType DEF CreateService, SyncType, PodsType, CurrentType, boundVars, BoundsType
  <2>2. CASE Fault /\ Fail /\ UNCHANGED podCurrent
    BY <2>2, FaultType, FailType DEF PodsType, CurrentType
  <2>3. CASE Fail /\ UNCHANGED <<podCurrent, boundVars>>
    BY <2>3, FailType DEF PodsType, CurrentType, boundVars, BoundsType
  <2> QED
    BY <2>1, <2>2, <2>3 DEF CreateService, Answered
<1>2. service' \in Services
  BY DEF CreateService, Services
<1> QED
  BY <1>1, <1>2 DEF CreateService, sdVars, listerVars, SDType, ListerType, PodsType, CurrentType,
                    DeploymentType

LEMMA InitPodType == ASSUME KubeType, NEW p \in Pods, InitPod(p) PROVE KubeType'
<1> USE DEF AllTypes, KubeType
<1>1. PodsType'
  <2>1. CASE UNCHANGED <<pods, podCurrent>>
    BY <2>1 DEF PodsType
  <2>2. CASE Accepts(p, "worker") /\ PutPod(p, [pods[p] EXCEPT !.state = "running"])
    <3>1. [pods[p] EXCEPT !.state = "running"] \in Pod
      BY <2>2 DEF Accepts, PodsType, Pod, States
    <3> QED
      BY <2>2, <3>1, PutPodType
  <2> QED
    BY <2>1, <2>2 DEF InitPod
<1>2. SyncType' /\ BoundsType'
  BY DoneType, FailType, FaultType DEF InitPod, boundVars, BoundsType
<1> QED
  BY <1>1, <1>2 DEF InitPod, sdVars, listerVars, SDType, ListerType, DeploymentType

LEMMA ResizeType == ASSUME KubeType, Resize PROVE KubeType'
<1> USE DEF AllTypes, KubeType
<1> DEFINE d == [deployment EXCEPT !.replicas = sdLister.replicas]
<1>1. Ours => d \in Deployment
  BY DEF Ours, DeploymentType, Deployment, ListerType, SDSpec
<1>2. DeploymentType'
  BY <1>1, PutDeploymentType DEF Resize, DeploymentType
<1>3. SyncType' /\ CurrentType' /\ BoundsType'
  <2>1. CASE UNCHANGED boundVars /\ (syncRunningPod(myDeployment) \/ (Ours /\ syncRunningPod(d)))
    BY <1>1, <2>1, SyncRunningPodType DEF Resize, SyncType, PodsType, CurrentType, boundVars, BoundsType
  <2>2. CASE Fault /\ Fail /\ UNCHANGED podCurrent
    BY <2>2, FaultType, FailType DEF PodsType, CurrentType
  <2>3. CASE Fail /\ UNCHANGED <<podCurrent, boundVars>>
    BY <2>3, FailType DEF PodsType, CurrentType, boundVars, BoundsType
  <2> QED
    BY <2>1, <2>2, <2>3 DEF Resize, Answered
<1> QED
  BY <1>2, <1>3 DEF Resize, sdVars, listerVars, SDType, ListerType, PodsType, CurrentType

LEMMA RelabelType == ASSUME KubeType, NEW p \in Pods, Relabel(p) PROVE KubeType'
<1> USE DEF AllTypes, KubeType
<1>1. PodsType'
  <2>1. CASE UNCHANGED <<pods, podCurrent>>
    BY <2>1 DEF PodsType
  <2>2. CASE Accepts(p, "worker") /\ PutPod(p, Relabelled(pods[p]))
    <3>1. Relabelled(pods[p]) \in Pod
      BY <2>2 DEF Accepts, PodsType, Relabelled, Pod, States, Sleeps, SyncType
    <3> QED
      BY <2>2, <3>1, PutPodType
  <2> QED
    BY <2>1, <2>2 DEF Relabel
<1>2. SyncType' /\ BoundsType'
  BY DoneType DEF Relabel, boundVars, BoundsType
<1> QED
  BY <1>1, <1>2 DEF Relabel, sdVars, listerVars, SDType, ListerType, DeploymentType

LEMMA UpdateStatusType == ASSUME KubeType, UpdateStatus PROVE KubeType'
<1> USE DEF AllTypes, KubeType
<1>1. [running |-> Cardinality(getRunningPods), available |-> myDeployment.available] \in SDStatus
  <2>1. getRunningPods \subseteq Pods
    BY DEF getRunningPods, InState
  <2>2. Cardinality(getRunningPods) \in Counts
    BY <2>1, CountTypes
  <2>3. myDeployment \in Deployment
    BY DEF UpdateStatus, SyncType
  <2> QED
    BY <2>2, <2>3 DEF SDStatus, Deployment
<1>2. SDType'
  BY <1>1 DEF UpdateStatus, PutSD, sdVars, SDType, ListerType
<1>3. SyncType' /\ BoundsType'
  BY LeaveType, FailType, FaultType DEF UpdateStatus, Finish, boundVars, BoundsType
<1> QED
  BY <1>2, <1>3 DEF UpdateStatus, listerVars, ListerType, DeploymentType, PodsType

LEMMA CallFailsType == ASSUME KubeType, CallFails PROVE KubeType'
<1> USE DEF AllTypes, KubeType
<1>1. SyncType' /\ BoundsType'
  BY DoneType, FailType, FaultType DEF CallFails, SyncType
<1> QED
  BY <1>1 DEF CallFails, clusterVars, listerVars, SDType, ListerType, DeploymentType, PodsType

LEMMA RestartType == ASSUME KubeType, Restart PROVE KubeType'
<1> USE DEF AllTypes, KubeType
<1>1. SyncType' /\ BoundsType'
  BY LeaveType, FaultType DEF Restart
<1>2. PodsType'
  BY DEF Restart, PodsType
<1>3. ListerType'
  BY DEF Restart, ListerType, SDType, DeploymentType
<1> QED
  BY <1>1, <1>2, <1>3 DEF Restart, SDType, DeploymentType

LEMMA SeeType ==
  ASSUME KubeType, SeeSD \/ SeeDeployment \/ SeeService \/ \E p \in Pods : SeePod(p) PROVE KubeType'
<1> USE DEF AllTypes, KubeType
<1>1. CASE SeeSD
  BY <1>1 DEF SeeSD, syncVars, boundVars, SDType, ListerType, DeploymentType, PodsType, SyncType,
              BoundsType
<1>2. CASE SeeDeployment
  BY <1>2 DEF SeeDeployment, handleDeployment, sdVars, syncVars, boundVars, SDType, ListerType,
              DeploymentType, PodsType, SyncType, BoundsType
<1>3. CASE SeeService
  BY <1>3 DEF SeeService, clusterVars, syncVars, boundVars, SDType, ListerType, DeploymentType,
              PodsType, SyncType, BoundsType
<1>4. ASSUME NEW p \in Pods, SeePod(p) PROVE KubeType'
  <2>1. StateOf(pods[p]) \in States \cup {NoPod}
    BY DEF PodsType, StateOf, Pod
  <2>2. podLister' \in [Pods -> States \cup {NoPod}] /\ PodsType'
    BY <1>4, <2>1 DEF SeePod, ListerType, PodsType
  <2> QED
    BY <1>4, <2>2 DEF SeePod, sdVars, syncVars, boundVars, SDType, ListerType, DeploymentType,
                      SyncType, BoundsType
<1> QED
  BY <1>1, <1>2, <1>3, <1>4

LEMMA ControllerNextType == ASSUME KubeType, ControllerNext PROVE KubeType'
BY GetType, CreateDeploymentType, CreateServiceType, ResizeType, UpdateStatusType, InitPodType,
   RelabelType, CallFailsType, RestartType, SeeType
DEF ControllerNext, WorkerStep

Types == KubeType /\ SwiftletTypeOK

LEMMA TypesInit == ASSUME Init PROVE Types
<1> USE DEF AllTypes, KubeType
<1>1. SDType /\ deploymentSeen \in BOOLEAN /\ service \in Services /\ PodsType
  BY ZeroCount DEF Init, ClusterInit, SDType, SDStatus, Services, PodsType
<1>2. deployment \in Deployment \cup {NoDeployment}
  <2>1. (CHOOSE n \in Sizes : TRUE) \in Sizes
    BY Bounds
  <2> QED
    BY <2>1, ZeroCount DEF Init, ClusterInit, Deployment
<1>3. BoundsType
  BY Bounds DEF Init, ClusterInit, BoundsType
<1>4. SyncType /\ ListerType
  BY <1>1, <1>2 DEF Init, ControllerInit, SyncType, ListerType, Steps, States, SDType
<1>5. SwiftletTypeOK
  BY DEF Init, SwiftletInit, SwiftletTypeOK, Orders
<1> QED
  BY <1>1, <1>2, <1>3, <1>4, <1>5 DEF Types, DeploymentType

LEMMA TypesStep == ASSUME Types, [Next]_vars PROVE Types'
<1> USE ClusterTypes DEF Types, KubeType
<1>1. CASE Cluster(ClusterNext)
  <2>1. AllTypes'
    BY <1>1, ClusterNextType DEF Cluster
  <2> QED
    BY <1>1, <2>1 DEF Cluster, controllerVars, listerVars, syncVars, SyncType, ListerType,
                      SwiftletTypeOK
<1>2. CASE Controller(ControllerNext)
  BY <1>2, ControllerNextType DEF Controller, SwiftletTypeOK
<1>3. CASE Nodes(SwiftletNext)
  <2>1. AllTypes' /\ SwiftletTypeOK'
    BY <1>3, SwiftletNextType DEF Nodes
  <2> QED
    BY <1>3, <2>1 DEF Nodes, controllerVars, listerVars, syncVars, SyncType, ListerType
<1>4. CASE UNCHANGED vars
  BY <1>4 DEF vars, clusterVars, controllerVars, listerVars, syncVars, boundVars, AllTypes,
              SyncType, ListerType, SwiftletTypeOK, SDType, DeploymentType, PodsType, BoundsType
<1> QED
  BY <1>1, <1>2, <1>3, <1>4 DEF Next

\* TypeOK holds for any number of pods, sizes, edits and faults.
THEOREM SwiftKubeTypes == Spec => []TypeOK
<1>1. Spec => []Types
  BY TypesInit, TypesStep, PTL DEF Spec
<1>2. Types => TypeOK
  BY ClusterTypes, ControllerTypes DEF Types, KubeType, TypeOK
<1> QED
  BY <1>1, <1>2, PTL

-----------------------------------------------------------------------------
(* The Spec of the SwiftDeployment. *)

\* An Update of the SwiftDeployment that is accepted starts from its Spec.
SpecInv == sdCurrent => sdLister = sd

\* How a step changes the SwiftDeployment.
SpecChange ==
  \/ UNCHANGED <<sd, sdCurrent, sdLister>>
  \/ edits' # edits /\ ~sdCurrent'
  \/ sdCurrent' /\ sdLister' = sd' /\ sd' = sd
  \/ sdCurrent /\ sd' = sdLister /\ sdLister' = sdLister

LEMMA SpecSteps == ASSUME Types, [Next]_vars PROVE SpecChange
<1>1. ASSUME EditSpec PROVE edits' # edits /\ ~sdCurrent'
  BY <1>1 DEF EditSpec, Edit, PutSD, Types, KubeType, AllTypes, BoundsType
<1>2. ASSUME UpdateStatus PROVE SpecChange
  BY <1>2 DEF UpdateStatus, PutSD, sdVars, listerVars, SpecChange
<1>3. ASSUME SeeSD \/ Restart PROVE SpecChange
  BY <1>3 DEF SeeSD, Restart, SpecChange
<1>4. ASSUME Cluster(ClusterNext) PROVE SpecChange
  BY <1>1, <1>4 DEF Cluster, ClusterNext, DeleteDeployment, PodDies, CreatePod, RemovePod, Adopt,
                    ContainerWaits, ContainersStart, sdVars, controllerVars, listerVars, SpecChange
<1>5. ASSUME ControllerNext PROVE SpecChange
  <2>1. CASE Get \/ CreateDeployment \/ CreateService \/ Resize
    BY <2>1 DEF Get, CreateDeployment, CreateService, Resize, sdVars, listerVars, SpecChange
  <2>2. ASSUME NEW p \in Pods, InitPod(p) \/ Relabel(p) \/ SeePod(p) PROVE SpecChange
    BY <2>2 DEF InitPod, Relabel, SeePod, sdVars, listerVars, SpecChange
  <2>3. CASE CallFails \/ SeeDeployment \/ SeeService
    BY <2>3 DEF CallFails, SeeDeployment, SeeService, clusterVars, sdVars, listerVars, SpecChange
  <2> QED
    BY <1>2, <1>3, <1>5, <2>1, <2>2, <2>3 DEF ControllerNext, WorkerStep
<1>6. ASSUME Nodes(SwiftletNext) PROVE SpecChange
  BY <1>6 DEF Nodes, SwiftletNext, Notice, SyncPod, RestartSwiftlet, sdVars, controllerVars, listerVars,
              SpecChange
<1>7. CASE UNCHANGED vars
  BY <1>7 DEF vars, clusterVars, controllerVars, listerVars, SpecChange
<1> QED
  BY <1>4, <1>5, <1>6, <1>7 DEF Next, Controller

LEMMA SpecInvStep == ASSUME Types, SpecInv, [Next]_vars PROVE SpecInv' /\ (sd' # sd => edits' # edits)
BY SpecSteps DEF SpecChange, SpecInv

\* The controller, which writes whole objects, never takes back what a user has
\* asked for since.
THEOREM UsersSpecKept == Spec => SpecKept
<1>1. Init => Types /\ SpecInv
  BY TypesInit DEF Init, ControllerInit, SpecInv
<1>2. Types /\ SpecInv /\ [Next]_vars => (Types /\ SpecInv)'
  BY TypesStep, SpecInvStep
<1>3. Types /\ SpecInv /\ [Next]_vars => [sd' # sd => edits' # edits]_vars
  BY SpecInvStep
<1> QED
  BY <1>1, <1>2, <1>3, PTL DEF Spec, SpecKept

-----------------------------------------------------------------------------
(* The labels of the pods. *)

\* What the holders of the current version of p know of it.
ListerKnows(p) == "lister" \in podCurrent[p] => podLister[p] = StateOf(pods[p])
SwiftletKnows(p) == "swiftlet" \in podCurrent[p] /\ order[p] # "none" => order[p] = Order(pods[p])
WorkerKnows(p) ==
  "worker" \in podCurrent[p] /\ p \in todo /\ pods[p] # NoPod =>
    /\ pc = "init" => pods[p].state = "absent"
    /\ pc = "relabel" => \/ goal = "sleeping" /\ pods[p].state \in {"running", "runnable"}
                         \/ goal = "runnable" /\ pods[p].state = "sleeping"
Knows(p) == ListerKnows(p) /\ SwiftletKnows(p) /\ WorkerKnows(p)
LabelInv == \A p \in Pods : Knows(p)

LessToDo == todo' = {} \/ (todo' \subseteq todo /\ UNCHANGED <<pc, goal>>)

LEMMA EndsLess == (Leave => LessToDo) /\ \A p : Done(p) => LessToDo
BY DEF Leave, Done, LessToDo

\* Nobody has the version just written.
LEMMA PutKnows ==
  ASSUME Types, LabelInv, NEW q \in Pods, NEW x, PutPod(q, x), UNCHANGED podLister, LessToDo,
         \A p \in Pods : p # q => order'[p] = order[p]
  PROVE  LabelInv'
<1> SUFFICES ASSUME NEW p \in Pods PROVE Knows(p)'
  BY DEF LabelInv
<1>1. CASE p = q
  <2>1. podCurrent'[p] = {}
    BY <1>1 DEF PutPod, Types, KubeType, AllTypes, PodsType
  <2> QED
    BY <2>1 DEF Knows, ListerKnows, SwiftletKnows, WorkerKnows
<1>2. CASE p # q
  <2>1. pods'[p] = pods[p] /\ podCurrent'[p] = podCurrent[p] /\ order'[p] = order[p]
    BY <1>2 DEF PutPod, Types, KubeType, AllTypes, PodsType
  <2> QED
    BY <2>1 DEF LessToDo, LabelInv, Knows, ListerKnows, SwiftletKnows, WorkerKnows
<1> QED
  BY <1>1, <1>2

\* Who knows less, or has fewer pods to do, knows what is left.
LEMMA LessKnows ==
  ASSUME LabelInv, UNCHANGED <<pods, podLister, order>>, LessToDo,
         \A p \in Pods : podCurrent'[p] \subseteq podCurrent[p]
  PROVE  LabelInv'
BY DEF LessToDo, LabelInv, Knows, ListerKnows, SwiftletKnows, WorkerKnows

\* A worker that begins a loop has the current version of the pods that the
\* lister knows.
LEMMA LoopKnows ==
  ASSUME Types, LabelInv, UNCHANGED <<pods, podLister, order>>, NEW step, NEW ps \in SUBSET Pods, NEW s,
         Loop(step, ps, s),
         \/ step = "init" /\ ps \subseteq InState({"absent"})
         \/ step = "relabel" /\ s = "sleeping" /\ ps \subseteq getRunningPods
         \/ step = "relabel" /\ s = "runnable" /\ ps \subseteq getSleepingPods
         \/ step = "relabel" /\ ps = {}
  PROVE  LabelInv'
<1> SUFFICES ASSUME NEW p \in Pods PROVE Knows(p)'
  BY DEF LabelInv
<1>1. /\ pc' = step /\ todo' = ps /\ (p \in ps => goal' = s)
      /\ podCurrent'[p] = IF p \in ps /\ "lister" \in podCurrent[p]
                          THEN podCurrent[p] \cup {"worker"} ELSE podCurrent[p] \ {"worker"}
  BY DEF Loop
<1>2. ListerKnows(p)' /\ SwiftletKnows(p)'
  BY <1>1 DEF LabelInv, Knows, ListerKnows, SwiftletKnows
<1>3. WorkerKnows(p)'
  <2> SUFFICES ASSUME "worker" \in podCurrent'[p], p \in ps, pods[p] # NoPod
               PROVE  /\ pc' = "init" => pods[p].state = "absent"
                      /\ pc' = "relabel" => \/ goal' = "sleeping" /\ pods[p].state \in {"running", "runnable"}
                                            \/ goal' = "runnable" /\ pods[p].state = "sleeping"
    BY <1>1 DEF WorkerKnows
  <2>1. podLister[p] = pods[p].state
    BY <1>1 DEF LabelInv, Knows, ListerKnows, StateOf
  <2> QED
    BY <1>1, <2>1 DEF getRunningPods, getSleepingPods, InState
<1> QED
  BY <1>2, <1>3 DEF Knows

\* A change of a pod that the properties allow.
Allowed(p) ==
  pods[p] # NoPod /\ pods'[p] # NoPod =>
    /\ pods[p].state # pods'[p].state => <<pods[p].state, pods'[p].state>> \in Cycle
    /\ pods[p].sleep # "done" /\ pods'[p].sleep = "done" => pods[p].state = "sleeping"

LEMMA SameAllowed == ASSUME UNCHANGED pods PROVE \A p \in Pods : Allowed(p)
BY DEF Allowed

LEMMA PutAllowed ==
  ASSUME Types, NEW q \in Pods, NEW x, PutPod(q, x),
         pods[q] # NoPod /\ x # NoPod =>
           /\ pods[q].state # x.state => <<pods[q].state, x.state>> \in Cycle
           /\ pods[q].sleep # "done" /\ x.sleep = "done" => pods[q].state = "sleeping"
  PROVE  \A p \in Pods : Allowed(p)
<1> SUFFICES ASSUME NEW p \in Pods PROVE Allowed(p)
  OBVIOUS
<1>1. pods' = [pods EXCEPT ![q] = x] /\ pods \in [Pods -> Pod \cup {NoPod}]
  BY DEF PutPod, Types, KubeType, AllTypes, PodsType
<1>2. CASE p = q
  BY <1>1, <1>2 DEF Allowed
<1>3. CASE p # q
  BY <1>1, <1>3 DEF Allowed
<1> QED
  BY <1>2, <1>3

LabelStep == LabelInv' /\ \A p \in Pods : Allowed(p)

LEMMA ClusterLabels == ASSUME Types, LabelInv, Cluster(ClusterNext) PROVE LabelStep
<1>1. UNCHANGED <<podLister, pc, goal, todo, order>>
  BY DEF Cluster, controllerVars, listerVars, syncVars
<1>2. CASE UNCHANGED <<pods, podCurrent>>
  BY <1>1, <1>2, LessKnows, SameAllowed DEF LessToDo, LabelStep
<1>3. ASSUME NEW q \in Pods, NEW x, PutPod(q, x), pods[q] = NoPod \/ x = NoPod PROVE LabelStep
  BY <1>1, <1>3, PutKnows, PutAllowed DEF LessToDo, LabelStep
<1>4. ASSUME NEW p \in Pods, PodDies(p) \/ RemovePod(p) PROVE LabelStep
  BY <1>3, <1>4 DEF PodDies, RemovePod
<1>5. ASSUME NEW p \in Pods, CreatePod(p) PROVE LabelStep
  BY <1>3, <1>5 DEF CreatePod, Live
<1>6. ASSUME NEW p \in Pods, NEW c, PutPod(p, [pods[p] EXCEPT !.container = c]), pods[p] # NoPod
      PROVE  LabelStep
  <2>1. pods[p] \in Pod
    BY <1>6 DEF Types, KubeType, AllTypes, PodsType
  <2> QED
    BY <1>1, <1>6, <2>1, PutKnows, PutAllowed DEF LessToDo, LabelStep, Pod
<1>7. ASSUME NEW p \in Pods, ContainerWaits(p) \/ ContainersStart(p) PROVE LabelStep
  BY <1>6, <1>7 DEF ContainerWaits, ContainersStart, Live
<1> QED
  BY <1>2, <1>4, <1>5, <1>7 DEF Cluster, ClusterNext, EditSpec, DeleteDeployment, Adopt

LEMMA SwiftletLabels == ASSUME Types, LabelInv, Nodes(SwiftletNext) PROVE LabelStep
<1>1. UNCHANGED <<podLister, pc, goal, todo>> /\ LessToDo
  BY DEF Nodes, controllerVars, listerVars, syncVars, LessToDo
<1>2. ASSUME NEW ps \in SUBSET Pods, Told(ps) PROVE LabelStep
  <2>1. ASSUME NEW p \in Pods PROVE Knows(p)'
    <3>1. /\ "lister" \in podCurrent'[p] <=> "lister" \in podCurrent[p]
          /\ "worker" \in podCurrent'[p] <=> "worker" \in podCurrent[p]
      BY <1>2 DEF Told
    <3>2. ListerKnows(p)' /\ WorkerKnows(p)'
      BY <1>1, <1>2, <3>1 DEF Told, LabelInv, Knows, ListerKnows, WorkerKnows
    <3>3. SwiftletKnows(p)'
      BY <1>2 DEF Told, LabelInv, Knows, SwiftletKnows
    <3> QED
      BY <3>2, <3>3 DEF Knows
  <2> QED
    BY <1>2, <2>1, SameAllowed DEF Told, LabelStep, LabelInv
<1>3. ASSUME NEW q \in Pods, Notice(q) \/ RestartSwiftlet(q) PROVE LabelStep
  BY <1>2, <1>3, NoticeTells, StartAgainTells DEF RestartSwiftlet, Types, KubeType, AllTypes
<1>4. ASSUME NEW q \in Pods, SyncPod(q) PROVE LabelStep
  <2>1. CASE StartAgain(q) /\ UNCHANGED pods
    BY <1>2, <2>1, StartAgainTells
  <2>2. CASE /\ order[q] \in {"activate", "suspend"} /\ Accepts(q, "swiftlet") /\ PutPod(q, Obeyed(q))
             /\ order' = order \/ order' = [order EXCEPT ![q] = "none"]
    <3>1. \A p \in Pods : p # q => order'[p] = order[p]
      BY <2>2 DEF Types, SwiftletTypeOK
    <3>2. LabelInv'
      BY <1>1, <2>2, <3>1, PutKnows
    <3>3. pods[q] \in Pod /\ order[q] = Order(pods[q])
      BY <2>2 DEF Accepts, Types, KubeType, AllTypes, PodsType, LabelInv, Knows, SwiftletKnows
    <3>4. CASE order[q] = "activate"
      <4>1. pods[q].state = "runnable" /\ Obeyed(q) = [pods[q] EXCEPT !.state = "running"]
        BY <3>3, <3>4 DEF Order, Activating, Suspending, Obeyed
      <4> QED
        BY <2>2, <3>2, <3>3, <4>1, PutAllowed DEF LabelStep, Cycle, Pod
    <3>5. CASE order[q] = "suspend"
      <4>1. pods[q].state = "sleeping" /\ Obeyed(q) = [pods[q] EXCEPT !.sleep = "done"]
        BY <3>3, <3>5 DEF Order, Activating, Suspending, Obeyed
      <4> QED
        BY <2>2, <3>2, <3>3, <4>1, PutAllowed DEF LabelStep, Pod
    <3> QED
      BY <2>2, <3>4, <3>5
  <2>3. CASE UNCHANGED <<pods, podCurrent, order>>
    BY <1>1, <2>3, LessKnows, SameAllowed DEF LabelStep
  <2> QED
    BY <1>4, <2>1, <2>2, <2>3, SyncPodCases
<1> QED
  BY <1>3, <1>4 DEF Nodes, SwiftletNext

\* A step of the worker that writes no pod.
LEMMA LoopLabels ==
  ASSUME Types, LabelInv, UNCHANGED <<pods, podLister, order>>,
         \/ UNCHANGED podCurrent /\ LessToDo
         \/ UNCHANGED <<podCurrent, todo, goal>> /\ pc' \in {"deployment", "service"}
         \/ Loop("init", InState({"absent"}), "running")
         \/ \E d : syncRunningPod(d)
  PROVE  LabelStep
<1>1. CASE UNCHANGED podCurrent /\ LessToDo
  BY <1>1, LessKnows, SameAllowed DEF LabelStep
<1>2. CASE UNCHANGED <<podCurrent, todo, goal>> /\ pc' \in {"deployment", "service"}
  BY <1>2, SameAllowed DEF LabelStep, LabelInv, Knows, ListerKnows, SwiftletKnows, WorkerKnows
<1>3. CASE Loop("init", InState({"absent"}), "running")
  <2>1. InState({"absent"}) \in SUBSET Pods
    BY DEF InState
  <2> QED
    BY <1>3, <2>1, LoopKnows, SameAllowed DEF LabelStep
<1>4. ASSUME NEW d, syncRunningPod(d) PROVE LabelStep
  <2>1. \A qs, n : \A ps \in SelectPods(qs, n) : ps \subseteq qs
    BY DEF SelectPods, kSubset
  <2>2. getRunningPods \subseteq Pods /\ getSleepingPods \subseteq Pods
    BY DEF getRunningPods, getSleepingPods, InState
  <2>3. CASE Loop("relabel", {}, "absent")
    BY <2>3, LoopKnows, SameAllowed DEF LabelStep
  <2>4. ASSUME NEW n, NEW ps \in SelectPods(getRunningPods, n), Loop("relabel", ps, "sleeping")
        PROVE  LabelStep
    <3>1. ps \subseteq getRunningPods /\ ps \in SUBSET Pods
      BY <2>1, <2>2
    <3> QED
      BY <2>4, <3>1, LoopKnows, SameAllowed DEF LabelStep
  <2>5. ASSUME NEW n, NEW ps \in SelectPods(getSleepingPods, n), Loop("relabel", ps, "runnable")
        PROVE  LabelStep
    <3>1. ps \subseteq getSleepingPods /\ ps \in SUBSET Pods
      BY <2>1, <2>2
    <3> QED
      BY <2>5, <3>1, LoopKnows, SameAllowed DEF LabelStep
  <2> QED
    BY <1>4, <2>3, <2>4, <2>5 DEF syncRunningPod
<1> QED
  BY <1>1, <1>2, <1>3, <1>4

LEMMA WithDeploymentCases ==
  ASSUME NEW d, NEW s, WithDeployment(d) \/ Admit(d, s)
  PROVE  \/ UNCHANGED podCurrent /\ LessToDo
         \/ UNCHANGED <<podCurrent, todo, goal>> /\ pc' \in {"deployment", "service"}
         \/ Loop("init", InState({"absent"}), "running")
BY EndsLess DEF WithDeployment, Admit, Fail

\* The Updates of the worker.
LEMMA UpdateLabels ==
  ASSUME Types, LabelInv, UNCHANGED <<podLister, order>>, NEW q \in Pods, InitPod(q) \/ Relabel(q)
  PROVE  LabelStep
<1>1. LessToDo /\ pods \in [Pods -> Pod \cup {NoPod}] /\ q \in todo /\ WorkerKnows(q)
  BY EndsLess DEF InitPod, Relabel, Fail, Types, KubeType, AllTypes, PodsType, LabelInv, Knows
<1>2. CASE UNCHANGED <<pods, podCurrent>>
  BY <1>1, <1>2, LessKnows, SameAllowed DEF LabelStep
<1>3. ASSUME InitPod(q), Accepts(q, "worker"), PutPod(q, [pods[q] EXCEPT !.state = "running"])
      PROVE  LabelStep
  <2>1. pods[q].state = "absent" /\ pods[q] \in Pod
    BY <1>1, <1>3 DEF InitPod, Accepts, WorkerKnows
  <2> QED
    BY <1>1, <1>3, <2>1, PutKnows, PutAllowed DEF LabelStep, Cycle, Pod
<1>4. ASSUME Relabel(q), Accepts(q, "worker"), PutPod(q, Relabelled(pods[q])) PROVE LabelStep
  <2>1. /\ pods[q] \in Pod
        /\ \/ goal = "sleeping" /\ pods[q].state \in {"running", "runnable"}
           \/ goal = "runnable" /\ pods[q].state = "sleeping"
    BY <1>1, <1>4 DEF Relabel, Accepts, WorkerKnows
  <2>2. /\ Relabelled(pods[q]).state = goal
        /\ Relabelled(pods[q]).sleep \in {"wait", pods[q].sleep}
    BY DEF Relabelled
  <2>3. LabelInv'
    BY <1>1, <1>4, PutKnows
  <2> QED
    BY <1>4, <2>1, <2>2, <2>3, PutAllowed DEF LabelStep, Cycle
<1> QED
  BY <1>2, <1>3, <1>4 DEF InitPod, Relabel

LEMMA ControllerLabels == ASSUME Types, LabelInv, Controller(ControllerNext) PROVE LabelStep
<1>1. UNCHANGED order
  BY DEF Controller
<1>2. CASE Get
  BY <1>1, <1>2, WithDeploymentCases, LoopLabels DEF Get, listerVars
<1>3. CASE CreateDeployment
  BY <1>1, <1>3, WithDeploymentCases, LoopLabels, EndsLess DEF CreateDeployment, Answered, Fail, listerVars
<1>4. CASE CreateService
  BY <1>1, <1>4, WithDeploymentCases, LoopLabels, EndsLess DEF CreateService, Answered, Fail, listerVars
<1>5. CASE Resize
  BY <1>1, <1>5, LoopLabels, EndsLess DEF Resize, Answered, Fail, listerVars
<1>6. CASE UpdateStatus
  BY <1>1, <1>6, LoopLabels, EndsLess DEF UpdateStatus, Finish, Fail, listerVars
<1>7. ASSUME NEW p \in Pods, InitPod(p) \/ Relabel(p) PROVE LabelStep
  BY <1>1, <1>7, UpdateLabels DEF InitPod, Relabel, listerVars
<1>8. CASE CallFails
  BY <1>1, <1>8, LoopLabels, EndsLess DEF CallFails, Fail, clusterVars, listerVars
<1>9. CASE SeeSD \/ SeeDeployment \/ SeeService
  BY <1>1, <1>9, LoopLabels DEF SeeSD, SeeDeployment, SeeService, LessToDo, clusterVars, syncVars
<1>10. ASSUME NEW q \in Pods, SeePod(q) PROVE LabelStep
  <2>1. /\ UNCHANGED <<pods, pc, todo, goal>> /\ podLister' = [podLister EXCEPT ![q] = StateOf(pods[q])]
        /\ podCurrent' = [podCurrent EXCEPT ![q] = @ \cup {"lister"}]
    BY <1>10 DEF SeePod, syncVars
  <2>2. ASSUME NEW p \in Pods PROVE Knows(p)'
    <3>1. /\ "swiftlet" \in podCurrent'[p] <=> "swiftlet" \in podCurrent[p]
          /\ "worker" \in podCurrent'[p] <=> "worker" \in podCurrent[p]
      BY <2>1 DEF Types, KubeType, AllTypes, PodsType
    <3>2. SwiftletKnows(p)' /\ WorkerKnows(p)'
      BY <1>1, <2>1, <3>1 DEF LabelInv, Knows, SwiftletKnows, WorkerKnows
    <3>3. ListerKnows(p)'
      BY <2>1 DEF LabelInv, Knows, ListerKnows, Types, KubeType, AllTypes, PodsType, ListerType
    <3> QED
      BY <3>2, <3>3 DEF Knows
  <2> QED
    BY <2>1, <2>2, SameAllowed DEF LabelStep, LabelInv
<1>11. ASSUME Restart PROVE LabelStep
  <2>1. /\ UNCHANGED pods /\ podLister' = [p \in Pods |-> NoPod] /\ todo' = {}
        /\ podCurrent' = [p \in Pods |-> (podCurrent[p] \ {"lister", "worker"})
                                         \cup (IF p \in Live THEN {} ELSE {"lister"})]
    BY <1>11 DEF Restart, Leave
  <2>2. ASSUME NEW p \in Pods PROVE Knows(p)'
    BY <1>1, <2>1 DEF LabelInv, Knows, ListerKnows, SwiftletKnows, WorkerKnows, Live, StateOf
  <2> QED
    BY <2>1, <2>2, SameAllowed DEF LabelStep, LabelInv
<1> QED
  BY <1>2, <1>3, <1>4, <1>5, <1>6, <1>7, <1>8, <1>9, <1>10, <1>11
  DEF Controller, ControllerNext, WorkerStep

LEMMA LabelInvStep == ASSUME Types, LabelInv, [Next]_vars PROVE LabelStep
<1>1. CASE UNCHANGED vars
  BY <1>1, LessKnows, SameAllowed
  DEF vars, clusterVars, controllerVars, listerVars, syncVars, LabelStep, LessToDo
<1> QED
  BY <1>1, ClusterLabels, ControllerLabels, SwiftletLabels DEF Next

\* The labels of a pod keep to the cycle, and only a pod that is to sleep is
\* reported asleep, for any number of pods, edits, faults and restarts.
THEOREM LabelsCycle == Spec => PodCycle
<1>1. Init => Types /\ LabelInv
  BY TypesInit DEF Init, ClusterInit, ControllerInit, SwiftletInit, LabelInv, Knows, ListerKnows,
                   SwiftletKnows, WorkerKnows, StateOf
<1>2. Types /\ LabelInv /\ [Next]_vars => (Types /\ LabelInv)'
  BY TypesStep, LabelInvStep DEF LabelStep
<1>3. Types /\ LabelInv /\ [Next]_vars => [\A p \in Pods : Allowed(p)]_vars
  BY LabelInvStep DEF LabelStep
<1>4. [\A p \in Pods : Allowed(p)]_vars =>
        [\A p \in Pods :
           pods[p] # NoPod /\ pods'[p] # NoPod =>
             /\ pods[p].state # pods'[p].state => <<pods[p].state, pods'[p].state>> \in Cycle
             /\ pods[p].sleep # "done" /\ pods'[p].sleep = "done" => pods[p].state = "sleeping"]_vars
  BY DEF Allowed
<1> QED
  BY <1>1, <1>2, <1>3, <1>4, PTL DEF Spec, PodCycle


-----------------------------------------------------------------------------
(* The orders. *)

\* A step that is not about orders: no pod changes, and no swiftlet learns of one.
OrdersAlone ==
  /\ UNCHANGED <<pods, order>>
  /\ \A p \in Pods : "swiftlet" \in podCurrent'[p] => "swiftlet" \in podCurrent[p]

\* An Update of a pod makes the copy of its swiftlet an old one.
PodWritten(q) == \A p \in Pods :
  IF p = q THEN "swiftlet" \notin podCurrent'[p] ELSE UNCHANGED <<pods[p], podCurrent[p], order[p]>>

LEMMA PutWritten ==
  ASSUME Types, NEW q \in Pods, NEW x, PutPod(q, x), \A p \in Pods : p # q => order'[p] = order[p]
  PROVE  PodWritten(q)
BY DEF PutPod, PodWritten, Types, KubeType, AllTypes, PodsType

LEMMA OrderSteps ==
  ASSUME NoLostOrder, OrdersAlone \/ \E q \in Pods : PodWritten(q) PROVE NoLostOrder'
<1>1. CASE OrdersAlone
  BY <1>1 DEF OrdersAlone, NoLostOrder
<1>2. ASSUME NEW q \in Pods, PodWritten(q) PROVE NoLostOrder'
  <2> SUFFICES ASSUME NEW p \in Pods, "swiftlet" \in podCurrent'[p]
               PROVE  order'[p] = Order(pods'[p])
    BY DEF NoLostOrder, Order, Activating, Suspending
  <2>1. p # q /\ pods'[p] = pods[p] /\ podCurrent'[p] = podCurrent[p] /\ order'[p] = order[p]
    BY <1>2 DEF PodWritten
  <2> QED
    BY <2>1 DEF NoLostOrder
<1> QED
  BY <1>1, <1>2

LEMMA LoopAlone ==
  ASSUME UNCHANGED <<pods, order>>, NEW step, NEW ps, NEW s, Loop(step, ps, s) PROVE OrdersAlone
BY DEF Loop, OrdersAlone

LEMMA SameAlone == ASSUME UNCHANGED <<pods, podCurrent, order>> PROVE OrdersAlone
BY DEF OrdersAlone

LEMMA ClusterOrders == ASSUME Types, NoLostOrder, Cluster(ClusterNext) PROVE NoLostOrder'
<1>1. UNCHANGED order
  BY DEF Cluster
<1>2. CASE EditSpec \/ DeleteDeployment \/ Adopt
  BY <1>1, <1>2, SameAlone, OrderSteps DEF EditSpec, DeleteDeployment, Adopt
<1>3. ASSUME NEW p \in Pods, \/ PodDies(p) \/ CreatePod(p) \/ RemovePod(p)
                             \/ ContainerWaits(p) \/ ContainersStart(p)
      PROVE  NoLostOrder'
  BY <1>1, <1>3, PutWritten, OrderSteps
  DEF PodDies, CreatePod, RemovePod, ContainerWaits, ContainersStart
<1> QED
  BY <1>2, <1>3 DEF Cluster, ClusterNext

LEMMA WorkerOrders ==
  ASSUME Types, NoLostOrder, UNCHANGED order,
         Get \/ CreateDeployment \/ CreateService \/ Resize \/ UpdateStatus \/ CallFails
  PROVE  NoLostOrder'
<1>1. UNCHANGED pods
  BY DEF Get, CreateDeployment, CreateService, Resize, UpdateStatus, CallFails, clusterVars
<1>2. \/ UNCHANGED podCurrent
      \/ \E step, ps, s : Loop(step, ps, s)
  <2>1. ASSUME NEW d, NEW s, WithDeployment(d) \/ Admit(d, s)
        PROVE  UNCHANGED podCurrent \/ Loop("init", InState({"absent"}), "running")
    BY <2>1 DEF WithDeployment, Admit
  <2>2. ASSUME NEW d, syncRunningPod(d) PROVE \E step, ps, s : Loop(step, ps, s)
    BY <2>2 DEF syncRunningPod
  <2>3. CASE Get
    BY <2>1, <2>3 DEF Get
  <2>4. CASE CreateDeployment
    BY <2>1, <2>4 DEF CreateDeployment, Answered
  <2>5. CASE CreateService
    BY <2>1, <2>5 DEF CreateService, Answered
  <2>6. CASE Resize
    BY <2>2, <2>6 DEF Resize, Answered
  <2>7. CASE UpdateStatus \/ CallFails
    BY <2>7 DEF UpdateStatus, CallFails, clusterVars
  <2> QED
    BY <2>3, <2>4, <2>5, <2>6, <2>7
<1> QED
  BY <1>1, <1>2, SameAlone, LoopAlone, OrderSteps

LEMMA ControllerOrders == ASSUME Types, NoLostOrder, Controller(ControllerNext) PROVE NoLostOrder'
<1>1. UNCHANGED order
  BY DEF Controller
<1>2. ASSUME NEW p \in Pods, InitPod(p) \/ Relabel(p) PROVE NoLostOrder'
  BY <1>1, <1>2, PutWritten, SameAlone, OrderSteps DEF InitPod, Relabel
<1>3. CASE SeeSD \/ SeeDeployment \/ SeeService
  BY <1>1, <1>3, SameAlone, OrderSteps DEF SeeSD, SeeDeployment, SeeService, clusterVars
<1>4. ASSUME NEW q \in Pods, SeePod(q) PROVE NoLostOrder'
  <2>1. OrdersAlone
    BY <1>1, <1>4 DEF SeePod, OrdersAlone, Types, KubeType, AllTypes, PodsType
  <2> QED
    BY <2>1, OrderSteps
<1>5. CASE Restart
  <2>1. OrdersAlone
    BY <1>1, <1>5 DEF Restart, OrdersAlone
  <2> QED
    BY <2>1, OrderSteps
<1> QED
  BY <1>1, <1>2, <1>3, <1>4, <1>5, WorkerOrders DEF Controller, ControllerNext, WorkerStep

LEMMA SwiftletOrders == ASSUME Types, NoLostOrder, Nodes(SwiftletNext) PROVE NoLostOrder'
<1>1. ASSUME NEW ps \in SUBSET Pods, Told(ps) PROVE NoLostOrder'
  <2> SUFFICES ASSUME NEW p \in Pods, "swiftlet" \in podCurrent'[p]
               PROVE  order'[p] = Order(pods'[p])
    BY DEF NoLostOrder
  <2>1. CASE p \in ps
    BY <1>1, <2>1 DEF Told
  <2>2. CASE p \notin ps
    BY <1>1, <2>2 DEF Told, NoLostOrder
  <2> QED
    BY <2>1, <2>2
<1>2. ASSUME NEW q \in Pods, Notice(q) \/ RestartSwiftlet(q) PROVE NoLostOrder'
  BY <1>1, <1>2, NoticeTells, StartAgainTells DEF RestartSwiftlet, Types, KubeType, AllTypes
<1>3. ASSUME NEW q \in Pods, SyncPod(q) PROVE NoLostOrder'
  <2>1. CASE StartAgain(q) /\ UNCHANGED pods
    BY <1>1, <2>1, StartAgainTells
  <2>2. CASE /\ PutPod(q, Obeyed(q))
             /\ order' = order \/ order' = [order EXCEPT ![q] = "none"]
    <3>1. \A p \in Pods : p # q => order'[p] = order[p]
      BY <2>2 DEF Types, SwiftletTypeOK
    <3> QED
      BY <2>2, <3>1, PutWritten, OrderSteps
  <2>3. CASE UNCHANGED <<pods, podCurrent, order>>
    BY <2>3, SameAlone, OrderSteps
  <2> QED
    BY <1>3, <2>1, <2>2, <2>3, SyncPodCases
<1> QED
  BY <1>2, <1>3 DEF Nodes, SwiftletNext

\* No order is lost or made up by conflicts, lost answers and restarts, for any
\* number of pods and faults.
THEOREM OrdersNotLost == Spec => []NoLostOrder
<1>1. Init => Types /\ NoLostOrder
  BY TypesInit DEF Init, ClusterInit, SwiftletInit, NoLostOrder, Order, Activating, Suspending
<1>2. Types /\ NoLostOrder /\ [Next]_vars => (Types /\ NoLostOrder)'
  <2>1. ASSUME NoLostOrder, UNCHANGED vars PROVE NoLostOrder'
    BY <2>1, SameAlone, OrderSteps DEF vars, clusterVars
  <2> QED
    BY <2>1, TypesStep, ClusterOrders, ControllerOrders, SwiftletOrders DEF Next
<1> QED
  BY <1>1, <1>2, PTL DEF Spec


-----------------------------------------------------------------------------
(* The Deployment and the Service. *)

\* The copies that the listers hold.
ListersInv ==
  /\ SpecInv
  /\ deploymentSeen => deploymentLister = deployment
  /\ serviceLister # "none" => service = serviceLister

\* The copy the worker has: it passed both checks of IsControlledBy, and is
\* given the Replicas before the loop of syncRunningPod.
CopyInv ==
  /\ pc # "idle" => dirty
  /\ pc \in {"service", "init", "relabel"} /\ deploymentSeen => myDeployment = deployment
  /\ pc \in {"init", "relabel"} => myDeployment.owner = "ours" /\ service = "ours"
  /\ pc = "relabel" => myDeployment.replicas = sdLister.replicas

\* The worker comes back for ever to a Deployment that is not the controller's.
OtherInv ==
  deployment # NoDeployment /\ deployment.owner = "other" => deploymentSeen /\ dirty

SettledInv == ListersInv /\ CopyInv /\ OtherInv /\ SettledReplicas

\* What SettledInv is about, of the API server and of the controller.
sharedVars == <<sd, sdCurrent, deployment, deploymentSeen, service>>
copyVars == <<sdLister, deploymentLister, serviceLister>>

\* A step that tells the worker nothing new.
LEMMA SettledSame ==
  ASSUME SettledInv, UNCHANGED <<sharedVars, copyVars, pc, myDeployment, dirty>> PROVE SettledInv'
BY DEF SettledInv, ListersInv, CopyInv, OtherInv, SettledReplicas, AtRest, Served, Ours, SpecInv,
       sharedVars, copyVars

\* An error has the worker come back.
LEMMA SettledFail ==
  ASSUME ListersInv', deployment # NoDeployment /\ deployment.owner = "other" => deploymentSeen,
         UNCHANGED <<deployment, deploymentSeen>> \/ (deployment' # NoDeployment => deployment'.owner = "ours"),
         Fail
  PROVE  SettledInv'
BY DEF Fail, Leave, SettledInv, CopyInv, OtherInv, SettledReplicas, AtRest

\* An error, and nothing has been written.
LEMMA SettledFailSame ==
  ASSUME SettledInv, UNCHANGED <<sharedVars, copyVars>>, Fail PROVE SettledInv'
<1>1. ListersInv'
  BY DEF SettledInv, ListersInv, SpecInv, sharedVars, copyVars
<1> QED
  BY <1>1, SettledFail DEF SettledInv, OtherInv, sharedVars

\* The Deployment changes only if it is the controller's, and its informer has
\* yet to see the change.
DeploymentChanges ==
  \/ UNCHANGED <<deployment, deploymentSeen>>
  \/ ~deploymentSeen' /\ (deployment' # NoDeployment => deployment'.owner = "ours")

LEMMA ReportChanges == ASSUME Types, NEW n, Report(n) PROVE DeploymentChanges
<1>1. Ours => deployment \in Deployment /\ [deployment EXCEPT !.available = n].owner = "ours"
  BY DEF Ours, Types, KubeType, AllTypes, DeploymentType, Deployment
<1> QED
  BY <1>1 DEF Report, PutDeployment, DeploymentChanges

\* Changes by others than the controller.
LEMMA SettledOthers ==
  ASSUME Types, SettledInv, DeploymentChanges, UNCHANGED <<service, copyVars, pc, myDeployment, dirty>>,
         UNCHANGED <<sd, sdCurrent>> \/ ~sdCurrent'
  PROVE  SettledInv'
<1>1. ListersInv'
  BY DEF SettledInv, ListersInv, SpecInv, DeploymentChanges, copyVars
<1>2. CopyInv'
  BY DEF SettledInv, CopyInv, DeploymentChanges, copyVars
<1>3. OtherInv'
  BY DEF SettledInv, OtherInv, DeploymentChanges
<1>4. SettledReplicas'
  BY DEF SettledInv, SettledReplicas, AtRest, Served, Ours, DeploymentChanges
<1> QED
  BY <1>1, <1>2, <1>3, <1>4 DEF SettledInv

LEMMA ClusterSettled == ASSUME Types, SettledInv, Cluster(ClusterNext) PROVE SettledInv'
<1>1. UNCHANGED <<copyVars, pc, myDeployment, dirty>>
  BY DEF Cluster, controllerVars, listerVars, syncVars, copyVars
<1>2. UNCHANGED service /\ (UNCHANGED <<sd, sdCurrent>> \/ ~sdCurrent')
  BY DEF Cluster, ClusterNext, EditSpec, PutSD, DeleteDeployment, Adopt, PodDies, CreatePod, RemovePod,
         ContainerWaits, ContainersStart, sdVars
<1>3. DeploymentChanges
  <2>1. CASE EditSpec
    BY <2>1 DEF EditSpec, DeploymentChanges
  <2>2. CASE DeleteDeployment
    BY <2>2 DEF DeleteDeployment, PutDeployment, DeploymentChanges
  <2>3. CASE \E n : Report(n)
    BY <2>3, ReportChanges
  <2>4. ASSUME NEW p \in Pods, CreatePod(p) \/ ContainerWaits(p) PROVE DeploymentChanges
    BY <2>4 DEF CreatePod, ContainerWaits, DeploymentChanges
  <2> QED
    BY <2>1, <2>2, <2>3, <2>4 DEF Cluster, ClusterNext, Adopt, PodDies, RemovePod, ContainersStart
<1> QED
  BY <1>1, <1>2, <1>3, SettledOthers

LEMMA SwiftletSettled == ASSUME SettledInv, Nodes(SwiftletNext) PROVE SettledInv'
<1>1. UNCHANGED <<sharedVars, copyVars, pc, myDeployment, dirty>>
  BY DEF Nodes, SwiftletNext, Notice, SyncPod, RestartSwiftlet, sdVars, controllerVars, listerVars,
         syncVars, copyVars, sharedVars
<1> QED
  BY <1>1, SettledSame

-----------------------------------------------------------------------------

\* The informers.
LEMMA SeeSettled ==
  ASSUME Types, SettledInv, SeeSD \/ SeeDeployment \/ SeeService PROVE SettledInv'
<1>1. CASE SeeSD
  BY <1>1 DEF SeeSD, syncVars, SettledInv, ListersInv, SpecInv, CopyInv, OtherInv, SettledReplicas,
              AtRest
<1>2. CASE SeeDeployment
  <2>1. ListersInv' /\ CopyInv'
    BY <1>2 DEF SeeDeployment, sdVars, syncVars, SettledInv, ListersInv, SpecInv, CopyInv
  <2>2. handleDeployment(deployment)
    <3>1. deployment # NoDeployment => deployment.owner # "other"
      BY <1>2 DEF SeeDeployment, SettledInv, OtherInv
    <3> QED
      BY <3>1 DEF handleDeployment, Types, KubeType, AllTypes, DeploymentType, Deployment
  <2>3. OtherInv'
    BY <1>2, <2>2 DEF SeeDeployment, handleDeployment, OtherInv
  <2>4. SettledReplicas'
    BY <1>2, <2>2 DEF SeeDeployment, SettledReplicas, AtRest
  <2> QED
    BY <2>1, <2>3, <2>4 DEF SettledInv
<1>3. CASE SeeService
  BY <1>3 DEF SeeService, clusterVars, syncVars, SettledInv, ListersInv, SpecInv, CopyInv, OtherInv,
              SettledReplicas, AtRest, Served, Ours
<1> QED
  BY <1>1, <1>2, <1>3

LEMMA RestartSettled == ASSUME SettledInv, Restart PROVE SettledInv'
BY DEF Restart, Leave, SettledInv, ListersInv, SpecInv, CopyInv, OtherInv, SettledReplicas, AtRest


-----------------------------------------------------------------------------

\* The worker goes on with Deployment d: it has d, and asks for the Service.
GoesOn(d) ==
  /\ myDeployment' = d /\ UNCHANGED dirty
  /\ \/ pc' = "service"
     \/ pc' = "init" /\ d.owner = "ours" /\ service' = "ours"

LEMMA WithDeploymentGoesOn ==
  ASSUME ListersInv', UNCHANGED serviceLister, NEW d,
         \/ WithDeployment(d)
         \/ Admit(d, "ours") /\ service' = "ours"
  PROVE  GoesOn(d) \/ Fail
BY DEF WithDeployment, Admit, Loop, ListersInv, GoesOn

LEMMA SettledGoesOn ==
  ASSUME SettledInv, ListersInv', dirty, DeploymentChanges, NEW d, GoesOn(d),
         deploymentSeen' => d = deployment'
  PROVE  SettledInv'
<1>1. CopyInv'
  BY DEF GoesOn, CopyInv
<1>2. OtherInv' /\ SettledReplicas'
  BY DEF GoesOn, DeploymentChanges, SettledInv, OtherInv, SettledReplicas, AtRest
<1> QED
  BY <1>1, <1>2 DEF SettledInv

LEMMA GetSettled == ASSUME SettledInv, Get PROVE SettledInv'
<1>1. UNCHANGED <<sharedVars, copyVars>> /\ ListersInv' /\ DeploymentChanges
  BY DEF Get, sdVars, listerVars, sharedVars, copyVars, SettledInv, ListersInv, SpecInv,
         DeploymentChanges
<1>2. CASE WithDeployment(deploymentLister)
  <2>1. CASE GoesOn(deploymentLister)
    BY <1>1, <2>1, SettledGoesOn DEF Get, SettledInv, ListersInv, sharedVars
  <2>2. CASE Fail
    BY <1>1, <2>2, SettledFailSame
  <2> QED
    BY <1>1, <1>2, <2>1, <2>2, WithDeploymentGoesOn DEF copyVars
<1>3. CASE pc' = "deployment" /\ UNCHANGED <<dirty, myDeployment>>
  BY <1>1, <1>3 DEF Get, SettledInv, CopyInv, OtherInv, SettledReplicas, AtRest, sharedVars
<1> QED
  BY <1>2, <1>3 DEF Get

LEMMA CreateDeploymentSettled == ASSUME Types, SettledInv, CreateDeployment PROVE SettledInv'
<1>1. UNCHANGED <<sd, sdCurrent, service, copyVars>> /\ dirty
  BY DEF CreateDeployment, sdVars, listerVars, copyVars, SettledInv, CopyInv
<1>2. CASE PutDeployment(newDeployment) /\ deployment = NoDeployment
  <2>1. newDeployment \in Deployment /\ newDeployment.owner = "ours"
    BY NewDeploymentType DEF Types, KubeType, newDeployment
  <2>2. deployment' = newDeployment /\ ~deploymentSeen'
    BY <1>2, <2>1, Markers DEF PutDeployment
  <2>3. ListersInv' /\ DeploymentChanges
    BY <1>1, <2>1, <2>2 DEF SettledInv, ListersInv, SpecInv, copyVars, DeploymentChanges
  <2>4. CASE WithDeployment(newDeployment)
    BY <1>1, <1>2, <2>1, <2>2, <2>3, <2>4, WithDeploymentGoesOn, SettledGoesOn, SettledFail DEF copyVars
  <2>5. CASE Fail
    BY <1>2, <2>1, <2>2, <2>3, <2>5, SettledFail
  <2> QED
    BY <1>2, <2>2, <2>4, <2>5, Markers, NewDeploymentType DEF CreateDeployment, Answered
<1>3. CASE Fail /\ UNCHANGED <<deployment, deploymentSeen>>
  BY <1>1, <1>3, SettledFailSame DEF sharedVars
<1> QED
  BY <1>2, <1>3 DEF CreateDeployment

LEMMA CreateServiceSettled == ASSUME Types, SettledInv, CreateService PROVE SettledInv'
<1>1. /\ UNCHANGED <<sd, sdCurrent, deployment, deploymentSeen, copyVars>> /\ dirty
      /\ DeploymentChanges
  BY DEF CreateService, sdVars, listerVars, copyVars, SettledInv, CopyInv, DeploymentChanges
<1>2. CASE service = "none" /\ service' = "ours"
  <2>1. ListersInv'
    BY <1>1, <1>2 DEF SettledInv, ListersInv, SpecInv, copyVars
  <2>2. CASE Admit(myDeployment, "ours")
    <3>1. deploymentSeen' => myDeployment = deployment'
      BY <1>1 DEF CreateService, SettledInv, CopyInv
    <3>2. CASE GoesOn(myDeployment)
      BY <1>1, <2>1, <3>1, <3>2, SettledGoesOn
    <3>3. CASE Fail
      BY <1>1, <2>1, <3>3, SettledFail DEF SettledInv, OtherInv
    <3> QED
      BY <1>1, <1>2, <2>1, <2>2, <3>2, <3>3, WithDeploymentGoesOn DEF copyVars
  <2>3. CASE Fail
    BY <1>1, <2>1, <2>3, SettledFail DEF SettledInv, OtherInv
  <2> QED
    BY <1>2, <2>2, <2>3 DEF CreateService, Answered
<1>3. CASE Fail /\ UNCHANGED service
  BY <1>1, <1>3, SettledFailSame DEF sharedVars
<1> QED
  BY <1>2, <1>3 DEF CreateService

\* From its comparison of the Replicas on the worker has a Deployment with those
\* of the Spec it has.
LEMMA SettledLoop ==
  ASSUME SettledInv, ListersInv', dirty, UNCHANGED <<service, copyVars>>, DeploymentChanges,
         pc = "init", NEW d, syncRunningPod(d), d.owner = "ours", d.replicas = sdLister.replicas,
         deploymentSeen' => d = deployment'
  PROVE  SettledInv'
<1>1. myDeployment' = d /\ UNCHANGED dirty /\ pc' = "relabel"
  BY DEF syncRunningPod, Loop
<1>2. CopyInv'
  BY <1>1 DEF SettledInv, CopyInv, copyVars
<1>3. OtherInv' /\ SettledReplicas'
  BY <1>1 DEF DeploymentChanges, SettledInv, OtherInv, SettledReplicas, AtRest
<1> QED
  BY <1>2, <1>3 DEF SettledInv

LEMMA ResizeSettled == ASSUME Types, SettledInv, Resize PROVE SettledInv'
<1> DEFINE d == [deployment EXCEPT !.replicas = sdLister.replicas]
<1>1. UNCHANGED <<sd, sdCurrent, service, copyVars>> /\ dirty /\ pc = "init"
  BY DEF Resize, sdVars, listerVars, copyVars, SettledInv, CopyInv
<1>2. CASE /\ UNCHANGED <<deployment, deploymentSeen>> /\ syncRunningPod(myDeployment)
           /\ myDeployment.replicas = sdLister.replicas
  <2>1. ListersInv' /\ DeploymentChanges
    BY <1>1, <1>2 DEF SettledInv, ListersInv, SpecInv, copyVars, DeploymentChanges
  <2>2. myDeployment.owner = "ours" /\ (deploymentSeen' => myDeployment = deployment')
    BY <1>1, <1>2 DEF SettledInv, CopyInv
  <2> QED
    BY <1>1, <1>2, <2>1, <2>2, SettledLoop
<1>3. CASE Ours /\ PutDeployment(d) /\ Answered(syncRunningPod(d) /\ UNCHANGED boundVars)
  <2>1. d.owner = "ours" /\ d.replicas = sdLister.replicas /\ deployment.owner = "ours"
    BY <1>3 DEF Ours, Types, KubeType, AllTypes, DeploymentType, Deployment
  <2>2. deployment' = d /\ DeploymentChanges
    BY <1>3, <2>1 DEF PutDeployment, DeploymentChanges
  <2>3. ListersInv'
    BY <1>1, <2>2 DEF SettledInv, ListersInv, SpecInv, copyVars, DeploymentChanges
  <2>4. CASE syncRunningPod(d)
    BY <1>1, <2>1, <2>2, <2>3, <2>4, SettledLoop
  <2>5. CASE Fail
    BY <2>1, <2>2, <2>3, <2>5, SettledFail
  <2> QED
    BY <1>3, <2>4, <2>5 DEF Answered
<1>4. CASE Fail /\ UNCHANGED <<deployment, deploymentSeen>>
  BY <1>1, <1>4, SettledFailSame DEF sharedVars
<1> QED
  BY <1>2, <1>3, <1>4 DEF Resize

\* The sync ends well only if the Spec is the one that it began with; then its
\* copy of the Deployment tells whether another event is on its way.
LEMMA UpdateStatusSettled == ASSUME Types, SettledInv, UpdateStatus PROVE SettledInv'
<1>1. UNCHANGED <<deployment, deploymentSeen, service, copyVars>> /\ pc = "relabel" /\ DeploymentChanges
  BY DEF UpdateStatus, listerVars, copyVars, DeploymentChanges
<1>2. CASE sdCurrent
  <2>1. sd' = sd /\ sd = sdLister /\ (sdCurrent' => sdCurrent)
    BY <1>2 DEF UpdateStatus, PutSD, SettledInv, ListersInv, SpecInv
  <2>2. ListersInv'
    BY <1>1, <2>1 DEF SettledInv, ListersInv, SpecInv, copyVars
  <2>3. CASE Finish
    <3>1. myDeployment.owner = "ours" /\ service = "ours" /\ myDeployment.replicas = sd.replicas
      BY <1>1, <2>1 DEF SettledInv, CopyInv
    <3>2. deploymentSeen => Ours /\ deployment.replicas = sd.replicas
      <4>1. deploymentSeen => myDeployment = deployment
        BY <1>1 DEF SettledInv, CopyInv
      <4>2. ASSUME deploymentSeen PROVE deployment # NoDeployment
        BY <1>1, <4>1, <4>2, Markers DEF Types, KubeType, SyncType
      <4> QED
        BY <3>1, <4>1, <4>2 DEF Ours
    <3>3. OtherInv' /\ SettledReplicas'
      BY <1>1, <2>1, <3>1, <3>2 DEF SettledInv, OtherInv, SettledReplicas, AtRest, Served, Ours
    <3>4. CopyInv'
      BY <2>3 DEF Finish, Leave, CopyInv
    <3> QED
      BY <2>2, <3>3, <3>4 DEF SettledInv
  <2>4. CASE Fail
    BY <1>1, <2>2, <2>4, SettledFail DEF SettledInv, OtherInv
  <2> QED
    BY <1>2, <2>3, <2>4 DEF UpdateStatus
<1>3. CASE Fail /\ UNCHANGED sdVars
  BY <1>1, <1>3, SettledFailSame DEF sharedVars, sdVars
<1> QED
  BY <1>2, <1>3 DEF UpdateStatus


LEMMA UpdatesSettled ==
  ASSUME SettledInv, NEW p \in Pods, InitPod(p) \/ Relabel(p) \/ SeePod(p) PROVE SettledInv'
<1>1. UNCHANGED <<sharedVars, copyVars>>
  BY DEF InitPod, Relabel, SeePod, sdVars, listerVars, sharedVars, copyVars
<1>2. CASE UNCHANGED <<pc, myDeployment, dirty>>
  BY <1>1, <1>2, SettledSame
<1>3. CASE Fail
  BY <1>1, <1>3, SettledFailSame
<1> QED
  BY <1>2, <1>3 DEF InitPod, Relabel, SeePod, Done, syncVars

LEMMA CallFailsSettled == ASSUME SettledInv, CallFails PROVE SettledInv'
<1>1. UNCHANGED <<sharedVars, copyVars>>
  BY DEF CallFails, clusterVars, listerVars, sharedVars, copyVars
<1>2. CASE \E p \in todo : Done(p)
  BY <1>1, <1>2, SettledSame DEF Done
<1>3. CASE Fail
  BY <1>1, <1>3, SettledFailSame
<1> QED
  BY <1>2, <1>3 DEF CallFails

LEMMA SettledStep == ASSUME Types, SettledInv, [Next]_vars PROVE SettledInv'
<1>1. CASE Controller(ControllerNext)
  BY <1>1, GetSettled, CreateDeploymentSettled, CreateServiceSettled, ResizeSettled, UpdateStatusSettled,
     UpdatesSettled, CallFailsSettled, RestartSettled, SeeSettled
  DEF Controller, ControllerNext, WorkerStep
<1>2. CASE UNCHANGED vars
  BY <1>2, SettledSame
  DEF vars, clusterVars, controllerVars, listerVars, syncVars, sharedVars, copyVars
<1> QED
  BY <1>1, <1>2, ClusterSettled, SwiftletSettled DEF Next

\* Whenever the controller rests, with no event on its way, its Deployment and
\* its Service are there and the Deployment has the Replicas of the Spec: for any
\* number of pods, edits, deletions, lost answers and restarts.
THEOREM RestsOnlyWhenServed == Spec => []SettledReplicas
<1>1. Init => Types /\ SettledInv
  BY TypesInit DEF Init, ClusterInit, ControllerInit, SettledInv, ListersInv, SpecInv, CopyInv, OtherInv,
                   SettledReplicas, AtRest
<1>2. Types /\ SettledInv /\ [Next]_vars => (Types /\ SettledInv)'
  BY TypesStep, SettledStep
<1>3. SettledInv => SettledReplicas
  BY DEF SettledInv
<1> QED
  BY <1>1, <1>2, <1>3, PTL DEF Spec

=============================================================================
