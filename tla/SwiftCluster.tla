----------------------------- MODULE SwiftCluster -----------------------------
(***************************************************************************)
(* What the SwiftDeployment controller and the swiftlets share: one        *)
(* SwiftDeployment, its Deployment, Service and pods in the API server,    *)
(* the users who edit them, the Deployment controller of Kubernetes, which *)
(* keeps as many pods as the Deployment asks for, and the kubelets, which  *)
(* start their containers and report it in the status of the pod.          *)
(*                                                                         *)
(* An Update is accepted only if it carries the resourceVersion the object *)
(* has.  Versions are compared for nothing else, so that the model keeps,  *)
(* for each object, who holds a copy of its current version (sdCurrent,    *)
(* podCurrent).  A change of the object makes every copy an old one.       *)
(***************************************************************************)
EXTENDS Naturals, FiniteSets, FiniteSetsExt

CONSTANTS
  Pods,          \* names a pod of the Deployment may get
  NoPod, NoDeployment,
  Sizes,         \* values of Spec.Replicas and Spec.RunningReplicas
  MaxEdits,      \* bound: changes by users, pods that die, containers that wait
  MaxFaults      \* bound: API calls that fail or whose answer is lost, restarts

ASSUME Bounds == /\ IsFiniteSet(Pods) /\ Sizes \subseteq Nat /\ Sizes # {}
                 /\ MaxEdits \in Nat /\ MaxFaults \in Nat

\* Labels swiftkube.io/state and swiftkube.io/sleep of a pod.
States == {"absent", "running", "runnable", "sleeping"}
Sleeps == {"absent", "wait", "done"}
\* The ContainerStatuses of a pod: there are none yet, some have no ContainerID
\* yet, or all containers have been started.
Containers == {"none", "waiting", "started"}
Pod == [state : States, sleep : Sleeps, container : Containers]
Counts == 0..Cardinality(Pods)

SDSpec == [replicas : Sizes, runningReplicas : Sizes]
SDStatus == [running : Counts, available : Counts]
Deployment == [owner : {"ours", "other"}, replicas : Sizes, available : Counts]
Services == {"none", "ours", "other"}

ASSUME Markers == NoPod \notin Pod /\ NoDeployment \notin Deployment

VARIABLES
  sd, status, deployment, service, pods,  \* the API server; sd is the Spec
  sdCurrent,    \* has the controller sd and status as they are?
  podCurrent,   \* who holds pods[p] as it is: "lister", "worker", "swiftlet"
  deploymentSeen, \* has the controller's informer seen the last change of it?
  edits, faults

clusterVars == <<sd, status, deployment, service, pods, sdCurrent, podCurrent, deploymentSeen>>
sdVars == <<sd, status, sdCurrent>>
boundVars == <<edits, faults>>

ClusterTypeOK ==
  /\ sd \in SDSpec /\ status \in SDStatus
  /\ deployment \in Deployment \cup {NoDeployment}
  /\ service \in Services
  /\ pods \in [Pods -> Pod \cup {NoPod}]
  /\ sdCurrent \in BOOLEAN
  /\ podCurrent \in [Pods -> SUBSET {"lister", "worker", "swiftlet"}]
  /\ deploymentSeen \in BOOLEAN
  /\ edits \in 0..MaxEdits /\ faults \in 0..MaxFaults

\* A user has just created the SwiftDeployment.  Its Deployment and its Service
\* do not exist, unless somebody else uses their names.
ClusterInit ==
  /\ sd \in SDSpec /\ status = [running |-> 0, available |-> 0]
  /\ deployment \in {NoDeployment}
       \cup [owner : {"other"}, replicas : {CHOOSE n \in Sizes : TRUE}, available : {0}]
  /\ service \in {"none", "other"}
  /\ pods = [p \in Pods |-> NoPod]
  /\ sdCurrent = TRUE
  /\ podCurrent = [p \in Pods |-> {"lister", "swiftlet"}]
  /\ deploymentSeen = TRUE
  /\ edits = 0 /\ faults = 0

Live == {p \in Pods : pods[p] # NoPod}
Ours == deployment # NoDeployment /\ deployment.owner = "ours"
Started == {p \in Live : pods[p].container = "started"}
Wanted == IF Ours THEN deployment.replicas ELSE 0

-----------------------------------------------------------------------------
(* Writing.  Writing what is already there changes no version. *)

PutSD(spec, st) == IF spec = sd /\ st = status THEN UNCHANGED <<sd, status, sdCurrent>>
                   ELSE sd' = spec /\ status' = st /\ sdCurrent' = FALSE

PutDeployment(d) == IF d = deployment THEN UNCHANGED <<deployment, deploymentSeen>>
                    ELSE deployment' = d /\ deploymentSeen' = FALSE

PutPod(p, x) == /\ pods' = [pods EXCEPT ![p] = x]
                /\ podCurrent' = [podCurrent EXCEPT ![p] = {}]

\* The Deployment controller reports its pods that run in the status at once.
Report(n) == IF Ours THEN PutDeployment([deployment EXCEPT !.available = n])
             ELSE UNCHANGED <<deployment, deploymentSeen>>

\* Does an Update of pod p succeed that starts from the holder's copy?
Accepts(p, holder) == pods[p] # NoPod /\ holder \in podCurrent[p]

Fault == faults < MaxFaults /\ faults' = faults + 1 /\ UNCHANGED edits
Edit == edits < MaxEdits /\ edits' = edits + 1 /\ UNCHANGED faults

-----------------------------------------------------------------------------
(* Users, and pods that die. *)

EditSpec ==
  /\ Edit
  /\ \E spec \in SDSpec \ {sd} : PutSD(spec, status)
  /\ UNCHANGED <<deployment, deploymentSeen, service, pods, podCurrent>>

DeleteDeployment ==
  /\ Ours /\ Edit
  /\ PutDeployment(NoDeployment)
  /\ UNCHANGED <<sdVars, service, pods, podCurrent>>

PodDies(p) ==
  /\ p \in Live /\ Edit
  /\ PutPod(p, NoPod) /\ Report(Cardinality(Started \ {p}))
  /\ UNCHANGED <<sdVars, service>>

-----------------------------------------------------------------------------
(* Kubernetes: the Deployment controller and the garbage collector. *)

CreatePod(p) ==
  /\ p \notin Live /\ Cardinality(Live) < Wanted
  /\ PutPod(p, [state |-> "absent", sleep |-> "absent", container |-> "none"])
  /\ UNCHANGED <<sdVars, deployment, deploymentSeen, service, boundVars>>

RemovePod(p) ==
  /\ p \in Live /\ Cardinality(Live) > Wanted
  /\ PutPod(p, NoPod) /\ Report(Cardinality(Started \ {p}))
  /\ UNCHANGED <<sdVars, service, boundVars>>

\* A Deployment that was deleted and created again adopts the pods left.
Adopt ==
  /\ Ours /\ deployment.available # Cardinality(Started)
  /\ Report(Cardinality(Started))
  /\ UNCHANGED <<sdVars, service, pods, podCurrent, boundVars>>

\* The kubelet reports that a container waits, for its image perhaps, or that
\* all of them run.  Nothing says that it ever gets that far.
ContainerWaits(p) ==
  /\ p \in Live /\ pods[p].container = "none" /\ Edit
  /\ PutPod(p, [pods[p] EXCEPT !.container = "waiting"])
  /\ UNCHANGED <<sdVars, deployment, deploymentSeen, service>>

ContainersStart(p) ==
  /\ p \in Live \ Started
  /\ PutPod(p, [pods[p] EXCEPT !.container = "started"])
  /\ Report(Cardinality(Started \cup {p}))
  /\ UNCHANGED <<sdVars, service, boundVars>>

ClusterNext ==
  \/ EditSpec \/ DeleteDeployment \/ Adopt
  \/ \E p \in Pods : \/ PodDies(p) \/ CreatePod(p) \/ RemovePod(p)
                     \/ ContainerWaits(p) \/ ContainersStart(p)

=============================================================================
