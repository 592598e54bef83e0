------------------------------- MODULE Swiftlet -------------------------------
(***************************************************************************)
(* The swiftlets (pkg/swiftlet): one per node, each carrying out what the  *)
(* SwiftDeployment controller orders of the pods of its node.  A swiftlet  *)
(* returns at once for the pods of other nodes, and its one worker takes   *)
(* one key after another, so that each pod has one swiftlet.  The pods of  *)
(* a node are any set of pods.                                             *)
(*                                                                         *)
(* order[p] is lister and work queue in one: the order that the labels of  *)
(* p carry in the lister while p is queued or being synced.  A sync of a   *)
(* pod without an order changes nothing, and a pod without an event is not *)
(* synced, so that nothing else of the two matters.  Reading the lister    *)
(* and updating the pod is one step: what may happen between them is what  *)
(* may happen while the lister is behind.                                  *)
(***************************************************************************)
EXTENDS SwiftCluster

VARIABLE order

\* "panic" is an order that ends the swiftlet.
Orders == {"none", "activate", "suspend", "panic"}

SwiftletTypeOK == order \in [Pods -> Orders]

SwiftletInit == order = [p \in Pods |-> "none"]

Activating(x) == x # NoPod /\ x.state = "runnable"
Suspending(x) == x # NoPod /\ x.state = "sleeping" /\ x.sleep # "done"
Ordered(x) == Activating(x) \/ Suspending(x)

\* splitContainerID takes what follows "://" in a ContainerID: an index out of
\* range if there is no ContainerID yet.
splitContainerIDPanics(x) == x.container = "waiting"

\* The branches of syncHandler: what the labels of a pod ask for, and what
\* comes of it.
Order(x) ==
  CASE Activating(x) -> IF splitContainerIDPanics(x) THEN "panic" ELSE "activate"
    [] Suspending(x) -> IF splitContainerIDPanics(x) THEN "panic" ELSE "suspend"
    [] OTHER -> "none"

\* An event reaches the lister and enqueuePod.  There is no DeleteFunc, but
\* syncHandler finds nothing of a pod that is gone.
Notice(p) ==
  /\ "swiftlet" \notin podCurrent[p]
  /\ order' = [order EXCEPT ![p] = Order(pods[p])]
  /\ podCurrent' = [podCurrent EXCEPT ![p] = @ \cup {"swiftlet"}]
  /\ UNCHANGED <<sdVars, deployment, deploymentSeen, service, pods, boundVars>>

Obeyed(p) == IF order[p] = "activate" THEN [pods[p] EXCEPT !.state = "running"]
                                      ELSE [pods[p] EXCEPT !.sleep = "done"]

Forget(p) == order' = [order EXCEPT ![p] = "none"]

\* Faulty variant of AddRateLimited: the error is only logged.
LogError(p) == Forget(p)

\* syncHandler returned an error: the key is queued again after a back-off.
AddRateLimited(p) == UNCHANGED order

\* The swiftlet of p's node ends, and the DaemonSet starts it again.  It waits for
\* its lister and is told of every pod, among them the pods ps of its node.
StartAgain(p) ==
  \E ps \in SUBSET Pods :
    /\ p \in ps
    /\ order' = [q \in Pods |-> IF q \in ps THEN Order(pods[q]) ELSE order[q]]
    /\ podCurrent' = [q \in Pods |-> IF q \in ps THEN podCurrent[q] \cup {"swiftlet"}
                                                  ELSE podCurrent[q]]

\* syncHandler of a pod with an order: memory.high is not written yet (TODO).  A
\* container without an ID ends the process before the labels are written, for
\* HandleCrash panics again; else the Update succeeds (and its answer may be
\* lost), conflicts, or fails.
SyncPod(p) ==
  /\ \/ /\ order[p] = "panic"
        /\ StartAgain(p)
        /\ UNCHANGED <<pods, boundVars>>
     \/ /\ order[p] \in {"activate", "suspend"}
        /\ Accepts(p, "swiftlet")
        /\ PutPod(p, Obeyed(p))
        /\ \/ Forget(p) /\ UNCHANGED boundVars
           \/ Fault /\ AddRateLimited(p)
     \/ /\ order[p] \in {"activate", "suspend"}
        /\ AddRateLimited(p)
        /\ Fault \/ (~Accepts(p, "swiftlet") /\ UNCHANGED boundVars)
        /\ UNCHANGED <<pods, podCurrent>>
  /\ UNCHANGED <<sdVars, deployment, deploymentSeen, service>>

\* The swiftlet ends for another reason.
RestartSwiftlet(p) ==
  /\ Fault
  /\ StartAgain(p)
  /\ UNCHANGED <<sdVars, deployment, deploymentSeen, service, pods>>

SwiftletNext == \E p \in Pods : Notice(p) \/ SyncPod(p) \/ RestartSwiftlet(p)

=============================================================================
