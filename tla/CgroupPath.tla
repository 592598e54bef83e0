------------------------------ MODULE CgroupPath ------------------------------
(***************************************************************************)
(* Where pkg/cgroup looks for the cgroup of a QoS class, of a group of     *)
(* pods, of a pod and of a container.  The kubelet (systemd driver) names  *)
(* a slice after all the slices around it, the parts separated by "-":     *)
(* kubepods-burstable-group-pod7.slice.  A slice is here the sequence of   *)
(* its parts, and a path the sequence of its slices.                       *)
(***************************************************************************)
EXTENDS Naturals, Sequences

CONSTANTS
  Groups,      \* values of the label genesis.io/container-group
  Uids,        \* metadata.uid of pods
  Cids,        \* container IDs, behind "containerd://"
  Parts,       \* strings without "-"
  GroupPart,   \* GroupPart[g]: g with "_" for "-"
  PodPart,     \* PodPart[u]: "pod" and u with "_" for "-"
  NoGroup, NoCid

QoSClasses == {"Guaranteed", "Burstable", "BestEffort"}

\* An uid has its "-" at fixed places and no "_", so that no two of them meet
\* in one part.  Two labels may: "a-b" and "a_b".
ASSUME Named ==
  /\ NoGroup \notin Groups /\ NoCid \notin Cids
  /\ {"kubepods", "burstable", "besteffort", "cri-containerd"} \cup Cids \subseteq Parts
  /\ GroupPart \in [Groups -> Parts]
  /\ PodPart \in [Uids -> Parts]
  /\ \A u, v \in Uids : PodPart[u] = PodPart[v] => u = v

QoSParts(qosClass) ==
  CASE qosClass = "Burstable" -> <<"burstable">>
    [] qosClass = "BestEffort" -> <<"besteffort">>
    [] OTHER -> <<>>
GroupParts(group) == IF group = NoGroup THEN <<>> ELSE <<GroupPart[group]>>

Slice(parts) == <<"kubepods">> \o parts
Scope(cid) == <<"cri-containerd", cid>>

\* cgroupPath(qosClass, group, "", ""): the slice of a group, or of a QoS class
\* when there is no group.
GroupPath(qosClass, group) ==
  <<Slice(<<>>)>>
  \o (IF QoSParts(qosClass) = <<>> THEN <<>> ELSE <<Slice(QoSParts(qosClass))>>)
  \o (IF group = NoGroup THEN <<>>
      ELSE <<Slice(QoSParts(qosClass) \o GroupParts(group))>>)

\* Faulty variant of PodSlice: in a group, the pod is forgotten.
PodSliceOfGroup(qosClass, group, uid) ==
  Slice(QoSParts(qosClass) \o IF group = NoGroup THEN <<PodPart[uid]>> ELSE GroupParts(group))

PodSlice(qosClass, group, uid) ==
  Slice(QoSParts(qosClass) \o GroupParts(group) \o <<PodPart[uid]>>)

\* cgroupPath(qosClass, group, uid, "")
PodPath(qosClass, group, uid) ==
  Append(GroupPath(qosClass, group), PodSlice(qosClass, group, uid))

\* cgroupPath(qosClass, group, uid, cid)
ContainerPath(qosClass, group, uid, cid) ==
  Append(PodPath(qosClass, group, uid), Scope(cid))

=============================================================================
