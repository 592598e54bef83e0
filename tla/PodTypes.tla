------------------------------- MODULE PodTypes -------------------------------
(***************************************************************************)
(* The labels a pod carries, what the helpers of pkg/helper/pod.go read    *)
(* from them, and the CPU state the resource controller gives a pod.       *)
(* `Absent' is a missing label; any other string is a value nobody knows.  *)
(***************************************************************************)

Absent == "absent"
Unknown == "Unknown"

RR == "Ready-Running"
RCN == "Ready-CatNap"
RLN == "Ready-LongNap"
WU == "WarmingUp"
Initializing == "Initializing"
RFS == "Ready-FullSpeed"
PodStates == {RR, RCN, RLN, WU, Initializing, RFS}
Napping == {RCN, RLN}

Up == "Up"
Down == "Down"

SERVICE_LC == "lc-service"
SERVICE_BE == "be-service"

CPUSET_LC == "lc-cpuset"
CPUSET_BE == "be-cpuset"
CPUSET_MIX == "mix-cpuset"

CPU_UNKNOWN == "unknown"
CPU_OVERPROVISION == "dynamic-overprovision"
CPU_EFFICIENT == "dynamic-resource-efficient"
CPU_MAX == "cpu-max"
CPUStates == {CPU_UNKNOWN, CPU_OVERPROVISION, CPU_EFFICIENT, CPU_MAX}

KnownOr(value, known, default) == IF value \in known THEN value ELSE default

GetPodState(pod) == KnownOr(pod.state, PodStates, Unknown)
GetPodEndpointState(pod) == KnownOr(pod.endpoint, {Up, Down}, Unknown)
GetPodServiceType(pod) == KnownOr(pod.service, {SERVICE_LC, SERVICE_BE}, Unknown)

\* IsPodControlledByGenesis
Controlled(pod) == pod.enabled = "true"

-----------------------------------------------------------------------------
(* What one tick of the resource controller decides for a pod.  It reads    *)
(* labels from the lister's copy `pod' and the service type and readiness   *)
(* from the copy `known' that a worker stored when it last synced the pod.  *)

\* "no decision": the pod is skipped, or its CPU state is left alone
NoDecision == [cpu |-> CPU_UNKNOWN, cpuset |-> Absent]

\* A missing cpuset label follows the service type.
CPUSetLabel(pod, known) ==
  CASE pod.cpuset # Absent -> pod.cpuset
    [] pod.cpuset = Absent /\ GetPodServiceType(known) = SERVICE_BE -> CPUSET_BE
    [] pod.cpuset = Absent /\ GetPodServiceType(known) = SERVICE_LC -> CPUSET_LC
    [] OTHER -> Absent

StateDecision(pod, cpuset) ==
  CASE GetPodState(pod) = RR -> [cpu |-> CPU_OVERPROVISION, cpuset |-> cpuset]
    [] GetPodState(pod) = Initializing -> [cpu |-> CPU_MAX, cpuset |-> CPUSET_BE]
    [] GetPodState(pod) \in {WU, RFS} -> [cpu |-> CPU_MAX, cpuset |-> CPUSET_LC]
    [] GetPodState(pod) \in Napping /\ GetPodEndpointState(pod) = Down ->
         [cpu |-> CPU_EFFICIENT, cpuset |-> CPUSET_BE]
    [] GetPodState(pod) \in Napping /\ GetPodEndpointState(pod) # Down ->
         [cpu |-> CPU_MAX, cpuset |-> cpuset]
    [] OTHER -> NoDecision

Decision(pod, known) ==
  LET cpuset == CPUSetLabel(pod, known)
      skipped == cpuset = Absent \/ GetPodServiceType(known) = SERVICE_BE
  IN  CASE skipped -> NoDecision
        [] ~skipped /\ cpuset = CPUSET_MIX -> [cpu |-> CPU_MAX, cpuset |-> CPUSET_MIX]
        [] ~skipped /\ cpuset # CPUSET_MIX /\ known.status # "ready" ->
             [cpu |-> CPU_MAX, cpuset |-> CPUSET_BE]
        [] OTHER -> StateDecision(pod, cpuset)

\* Only the three cpuset loops apply an action; an action for any other cpuset
\* is collected and dropped.
Applied(decision) == decision.cpuset \in {CPUSET_LC, CPUSET_MIX, CPUSET_BE}

=============================================================================
