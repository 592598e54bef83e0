------------------------------ MODULE SwiftKube ------------------------------
(***************************************************************************)
(* The SwiftDeployment controller and the swiftlets together, over the     *)
(* cluster they share.  They meet only in the labels of the pods.          *)
(***************************************************************************)
EXTENDS SwiftDeployment, Swiftlet

vars == <<clusterVars, controllerVars, order, boundVars>>

TypeOK == ClusterTypeOK /\ ControllerTypeOK /\ SwiftletTypeOK

Init == ClusterInit /\ ControllerInit /\ SwiftletInit

Cluster(A) == A /\ UNCHANGED <<controllerVars, order>>
Controller(A) == A /\ UNCHANGED order
Nodes(A) == A /\ UNCHANGED controllerVars

Next == Cluster(ClusterNext) \/ Controller(ControllerNext) \/ Nodes(SwiftletNext)

\* A swiftlet that panics over one pod meets it again after each start, perhaps
\* always before the other pods of its node.
Undisturbed == \A p \in Pods : order[p] # "panic"

\* Watches deliver and workers run.  Nothing is assumed of users, faults and
\* restarts, nor of Kubernetes: a pod may never be created, its containers never
\* start.
Fairness ==
  /\ WF_vars(Controller(WorkerStep))
  /\ SF_vars(Controller(SeeSD)) /\ SF_vars(Controller(SeeDeployment))
  /\ SF_vars(Controller(SeeService))
  /\ \A p \in Pods : /\ WF_vars(Controller(SeePod(p)))
                     /\ WF_vars(Nodes(Notice(p)))
                     /\ WF_vars(Nodes(Undisturbed /\ SyncPod(p)))

Spec == Init /\ [][Next]_vars
FairSpec == Spec /\ Fairness

-----------------------------------------------------------------------------
(* Properties *)

\* A pod goes running -> sleeping -> runnable -> running, or back to sleep
\* before it runs; only a pod that is to sleep is reported asleep.  The two
\* programs write these labels from copies that may be old.
Cycle == {<<"absent", "running">>, <<"running", "sleeping">>, <<"runnable", "sleeping">>,
          <<"sleeping", "runnable">>, <<"runnable", "running">>}

PodCycle == [][\A p \in Pods :
   pods[p] # NoPod /\ pods'[p] # NoPod =>
     /\ pods[p].state # pods'[p].state => <<pods[p].state, pods'[p].state>> \in Cycle
     /\ pods[p].sleep # "done" /\ pods'[p].sleep = "done" => pods[p].state = "sleeping"]_vars

\* updateSwiftDeploymentStatus writes the whole object and must not take back
\* what a user has asked for since: only users change the Spec.
SpecKept == [][sd' # sd => edits' # edits]_vars

\* Nothing the controller has to act on is on its way to it; its worker rests.
AtRest == ~dirty /\ sdCurrent /\ deploymentSeen

\* The worker compares the Spec with a copy of the Deployment that may be older
\* than its own last Update, and Deployments are deleted while it works.  Still,
\* whenever it rests, its Deployment and its Service are there, and the
\* Deployment has the Replicas of the Spec: what is left to do is never taken
\* for done.  Of the Service that is so because nobody here deletes it: the
\* controller has no handler for Services and would not come to know.
Served == Ours /\ service = "ours" /\ deployment.replicas = sd.replicas
SettledReplicas == AtRest => Served

\* A swiftlet's Update may conflict, fail, or succeed with its answer lost: an
\* order that the labels of a pod carry is never dropped before it is carried
\* out or taken back, and none is kept that they no longer carry, except by a
\* swiftlet to which the news is still on its way.
NoLostOrder ==
  \A p \in Pods : "swiftlet" \in podCurrent[p] => order[p] = Order(pods[p])

\* The Deployment ends up with the Replicas asked for, whatever the order in
\* which the worker saw the changes, if nobody else has its name or that of
\* the Service.
ReplicasFollow ==
  <>[](\/ deployment # NoDeployment /\ deployment.owner = "other"
       \/ service = "other"
       \/ deployment # NoDeployment /\ deployment.replicas = sd.replicas)

\* An order may be given to a pod whose containers wait for their images: the
\* pod is labelled as soon as it is listed, and a Deployment's copy may be older
\* than the pod.  Such an order ends the swiftlet whenever it is met.
ContainersMissing == \E p \in Pods : Order(pods[p]) = "panic"

\* No pod is under an order to activate or to suspend it for ever, unless some
\* pod is under an order and waits for its containers again and again, or for
\* ever.
OrdersCarriedOut ==
  \A p \in Pods : []<>(~Ordered(pods[p]) \/ ContainersMissing)

=============================================================================
