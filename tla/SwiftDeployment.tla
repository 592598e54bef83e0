--------------------------- MODULE SwiftDeployment ---------------------------
(***************************************************************************)
(* The SwiftDeployment controller (pkg/controller/swiftdeployment): its    *)
(* listers, and the worker syncing the one SwiftDeployment of the model.   *)
(* The work queue gives a key to one worker at a time (WorkQueue,          *)
(* ExclusiveItem), so that one worker and one bit, `dirty', are all of it. *)
(* AddRateLimited sets the bit at once: the back-off is as arbitrary as    *)
(* the moment the worker takes the key.  The listers of the                *)
(* SwiftDeployment, its Deployment and its Service are read once, when a   *)
(* sync begins, so that an event that comes during a sync is as one that   *)
(* comes after it; the pods' lister changes at any time.                   *)
(***************************************************************************)
EXTENDS SwiftCluster

VARIABLES
  \* What the listers return: of the SwiftDeployment its Spec, of a pod its
  \* state label; nobody reads the rest there.
  sdLister, deploymentLister, serviceLister, podLister,
  dirty,      \* the key is in the work queue, or the worker has it
  pc,         \* where syncHandler is
  myDeployment, \* `deployment'; `sd' is what the lister has
  todo,       \* pods still to be updated in the loop syncHandler is in
  goal        \* the state that loop gives them, "absent" outside the loops

listerVars == <<sdLister, deploymentLister, serviceLister, podLister>>
syncVars == <<pc, myDeployment, todo, goal>>
controllerVars == <<listerVars, dirty, syncVars>>

Steps == {"idle", "deployment", "service", "init", "relabel"}

ControllerTypeOK ==
  /\ sdLister \in SDSpec
  /\ deploymentLister \in Deployment \cup {NoDeployment}
  /\ serviceLister \in Services
  /\ podLister \in [Pods -> States \cup {NoPod}]
  /\ dirty \in BOOLEAN
  /\ pc \in Steps
  /\ myDeployment \in Deployment \cup {NoDeployment}
  /\ todo \subseteq Pods
  /\ goal \in States

\* WaitForCacheSync has seen all listers but the pods'.
ControllerInit ==
  /\ sdLister = sd /\ deploymentLister = deployment /\ serviceLister = service
  /\ podLister = [p \in Pods |-> NoPod]
  /\ dirty = TRUE
  /\ pc = "idle"
  /\ myDeployment = NoDeployment /\ todo = {} /\ goal = "absent"

-----------------------------------------------------------------------------
(* The informers. *)

SeeSD ==
  /\ pc = "idle" /\ ~sdCurrent
  /\ sdLister' = sd /\ sdCurrent' = TRUE
  /\ dirty' = TRUE
  /\ UNCHANGED <<sd, status, deployment, deploymentSeen, service, pods, podCurrent,
                 deploymentLister, serviceLister, podLister, syncVars, boundVars>>

\* Faulty variant of handleDeployment: there is no DeleteFunc.
handleDeploymentAlive(d) == d # NoDeployment /\ d.owner = "ours"

\* handleDeployment: is the owner of what an event is about ours?  A deletion
\* brings the Deployment as it was last, and only ours are deleted here.
handleDeployment(d) == d = NoDeployment \/ d.owner = "ours"

SeeDeployment ==
  /\ pc = "idle" /\ ~deploymentSeen
  /\ deploymentLister' = deployment
  /\ deploymentSeen' = TRUE
  /\ dirty' = (dirty \/ handleDeployment(deployment))
  /\ UNCHANGED <<sdVars, deployment, service, pods, podCurrent,
                 sdLister, serviceLister, podLister, syncVars, boundVars>>

SeeService ==
  /\ pc = "idle" /\ serviceLister # service
  /\ serviceLister' = service
  /\ UNCHANGED <<clusterVars, sdLister, deploymentLister, podLister, dirty, syncVars, boundVars>>

StateOf(x) == IF x = NoPod THEN NoPod ELSE x.state

\* The pod informer has no handler.
SeePod(p) ==
  /\ "lister" \notin podCurrent[p]
  /\ podLister' = [podLister EXCEPT ![p] = StateOf(pods[p])]
  /\ podCurrent' = [podCurrent EXCEPT ![p] = @ \cup {"lister"}]
  /\ UNCHANGED <<sdVars, deployment, deploymentSeen, service, pods,
                 sdLister, deploymentLister, serviceLister, dirty, syncVars, boundVars>>

-----------------------------------------------------------------------------
(* syncHandler.  It runs to an API call and past it, so that what it reads  *)
(* from the listers after a call is read in the step of that call.          *)

Leave == /\ pc' = "idle" /\ myDeployment' = NoDeployment
         /\ todo' = {} /\ goal' = "absent"

\* syncHandler returns nil (Forget, Done), or an error (AddRateLimited, Done).
Finish == Leave /\ dirty' = FALSE
Fail == Leave /\ dirty' = TRUE

\* A call has been carried out; its answer may be lost, which is an error.
Answered(continue) == continue \/ (Fault /\ Fail /\ UNCHANGED podCurrent)

\* The pod lister's answers.
InState(ss) == {p \in Pods : podLister[p] \in ss}
getRunningPods == InState({"running", "runnable"})
getSleepingPods == InState({"sleeping"})

\* The loop that comes next: give the pods ps, as the lister has them, state s.
Loop(step, ps, s) ==
  /\ pc' = step /\ todo' = ps /\ goal' = IF ps = {} THEN "absent" ELSE s
  /\ podCurrent' = [p \in Pods |-> IF p \in ps /\ "lister" \in podCurrent[p]
                                   THEN podCurrent[p] \cup {"worker"}
                                   ELSE podCurrent[p] \ {"worker"}]
  /\ UNCHANGED dirty

\* The two checks of IsControlledBy, and the list of pods without a state.
Admit(d, s) ==
  \/ /\ d.owner = "ours" /\ s = "ours"
     /\ myDeployment' = d
     /\ Loop("init", InState({"absent"}), "running")
  \/ /\ d.owner = "other" \/ s = "other"
     /\ Fail /\ UNCHANGED podCurrent

\* From the Deployment d on: the Service, or its creation.
WithDeployment(d) ==
  \/ serviceLister # "none" /\ Admit(d, serviceLister)
  \/ /\ serviceLister = "none"
     /\ pc' = "service" /\ myDeployment' = d
     /\ UNCHANGED <<podCurrent, dirty, todo, goal>>

\* Get, and the Deployment the lister has.
Get ==
  /\ pc = "idle" /\ dirty
  /\ \/ deploymentLister # NoDeployment /\ WithDeployment(deploymentLister)
     \/ /\ deploymentLister = NoDeployment
        /\ pc' = "deployment"
        /\ UNCHANGED <<podCurrent, dirty, myDeployment, todo, goal>>
  /\ UNCHANGED <<sdVars, deployment, deploymentSeen, service, pods, listerVars, boundVars>>

\* Faulty variant of newDeployment: without OwnerReferences.
newDeploymentUnowned == [owner |-> "nobody", replicas |-> sdLister.replicas, available |-> 0]

newDeployment == [owner |-> "ours", replicas |-> sdLister.replicas, available |-> 0]

CreateDeployment ==
  /\ pc = "deployment"
  /\ \/ /\ deployment = NoDeployment
        /\ PutDeployment(newDeployment)
        /\ Answered(WithDeployment(newDeployment) /\ UNCHANGED boundVars)
     \/ /\ deployment # NoDeployment  \* AlreadyExists
        /\ Fail
        /\ UNCHANGED <<deployment, deploymentSeen, podCurrent, boundVars>>
  /\ UNCHANGED <<sdVars, service, pods, listerVars>>

CreateService ==
  /\ pc = "service"
  /\ \/ /\ service = "none"
        /\ service' = "ours"
        /\ Answered(Admit(myDeployment, "ours") /\ UNCHANGED boundVars)
     \/ /\ service # "none"  \* AlreadyExists
        /\ Fail
        /\ UNCHANGED <<service, podCurrent, boundVars>>
  /\ UNCHANGED <<sdVars, deployment, deploymentSeen, pods, listerVars>>

\* One pod fewer to do.
Done(p) == /\ todo' = todo \ {p}
           /\ goal' = IF todo = {p} THEN "absent" ELSE goal
           /\ UNCHANGED <<dirty, pc, myDeployment>>

\* "Initialize swiftkube label of pods"
InitPod(p) ==
  /\ pc = "init" /\ p \in todo
  /\ \/ /\ Accepts(p, "worker")
        /\ PutPod(p, [pods[p] EXCEPT !.state = "running"])
        /\ \/ Done(p) /\ UNCHANGED boundVars
           \/ Fault /\ Fail
     \/ /\ ~Accepts(p, "worker")  \* Conflict, NotFound
        /\ Fail
        /\ UNCHANGED <<pods, podCurrent, boundVars>>
  /\ UNCHANGED <<sdVars, deployment, deploymentSeen, service, listerVars>>

\* getPodInOrder, whose order is that of the lister: none.
SelectPods(ps, n) == kSubset(Min({n, Cardinality(ps)}), ps)

\* syncRunningPod: which pods to relabel, given Deployment d.
syncRunningPod(d) ==
  LET n == Cardinality(getRunningPods)
      m == sdLister.runningReplicas
      settled == d.available = d.replicas
  IN  /\ myDeployment' = d
      /\ \/ (~settled \/ n = m) /\ Loop("relabel", {}, "absent")
         \/ settled /\ n > m /\ \E ps \in SelectPods(getRunningPods, n - m) :
                                  Loop("relabel", ps, "sleeping")
         \/ settled /\ n < m /\ \E ps \in SelectPods(getSleepingPods, m - n) :
                                  Loop("relabel", ps, "runnable")

\* Update the Deployment if its replicas differ (newDeployment has no
\* resourceVersion: the Update is unconditional), then syncRunningPod.
Resize ==
  /\ pc = "init" /\ todo = {}
  /\ \/ /\ myDeployment.replicas = sdLister.replicas
        /\ syncRunningPod(myDeployment)
        /\ UNCHANGED <<deployment, deploymentSeen, boundVars>>
     \/ /\ myDeployment.replicas # sdLister.replicas /\ Ours
        /\ LET d == [deployment EXCEPT !.replicas = sdLister.replicas]
           IN  PutDeployment(d) /\ Answered(syncRunningPod(d) /\ UNCHANGED boundVars)
     \/ /\ myDeployment.replicas # sdLister.replicas /\ deployment = NoDeployment  \* NotFound
        /\ Fail
        /\ UNCHANGED <<deployment, deploymentSeen, podCurrent, boundVars>>
  /\ UNCHANGED <<sdVars, service, pods, listerVars>>

Relabelled(x) == [x EXCEPT !.state = goal,
                           !.sleep = IF goal = "sleeping" THEN "wait" ELSE x.sleep]

\* Faulty variant of Relabel: after a conflict the old copy is written with the
\* new resourceVersion.
RelabelAnyway(p) ==
  /\ pc = "relabel" /\ p \in todo
  /\ IF pods[p] # NoPod THEN PutPod(p, Relabelled(pods[p]))
                        ELSE UNCHANGED <<pods, podCurrent>>
  /\ Done(p)
  /\ UNCHANGED <<sdVars, deployment, deploymentSeen, service, listerVars, boundVars>>

\* The Updates of syncRunningPod, whose errors are ignored.
Relabel(p) ==
  /\ pc = "relabel" /\ p \in todo
  /\ IF Accepts(p, "worker") THEN PutPod(p, Relabelled(pods[p]))
                             ELSE UNCHANGED <<pods, podCurrent>>
  /\ Done(p)
  /\ UNCHANGED <<sdVars, deployment, deploymentSeen, service, listerVars, boundVars>>

\* Faulty variant of UpdateStatus: after a conflict the old object is written with
\* the new resourceVersion.
UpdateStatusAnyway ==
  /\ pc = "relabel" /\ todo = {}
  /\ PutSD(sdLister, [running |-> Cardinality(getRunningPods),
                     available |-> myDeployment.available])
  /\ Finish
  /\ UNCHANGED <<deployment, deploymentSeen, service, pods, podCurrent, listerVars, boundVars>>

\* updateSwiftDeploymentStatus: an Update of the whole object.
UpdateStatus ==
  /\ pc = "relabel" /\ todo = {}
  /\ \/ /\ sdCurrent
        /\ PutSD(sdLister, [running |-> Cardinality(getRunningPods),
                        available |-> myDeployment.available])
        /\ \/ Finish /\ UNCHANGED boundVars
           \/ Fault /\ Fail
     \/ /\ ~sdCurrent  \* Conflict
        /\ Fail
        /\ UNCHANGED <<sdVars, boundVars>>
  /\ UNCHANGED <<deployment, deploymentSeen, service, pods, podCurrent, listerVars>>

\* A call fails and changes nothing; syncRunningPod does not care.
CallFails ==
  /\ Fault
  /\ \/ /\ \/ pc = "deployment"
           \/ pc = "service"
           \/ pc = "init" /\ (todo # {} \/ myDeployment.replicas # sdLister.replicas)
           \/ pc = "relabel" /\ todo = {}
        /\ Fail
     \/ pc = "relabel" /\ \E p \in todo : Done(p)
  /\ UNCHANGED <<clusterVars, listerVars>>

\* The process ends and starts again.  Run waits for the listers, not for that
\* of the pods; every object it lists is an Add.
Restart ==
  /\ Fault
  /\ sdLister' = sd /\ deploymentLister' = deployment /\ serviceLister' = service
  /\ podLister' = [p \in Pods |-> NoPod]
  /\ dirty' = TRUE /\ Leave
  /\ sdCurrent' = TRUE /\ deploymentSeen' = TRUE
  /\ podCurrent' = [p \in Pods |-> (podCurrent[p] \ {"lister", "worker"})
                                   \cup (IF p \in Live THEN {} ELSE {"lister"})]
  /\ UNCHANGED <<sd, status, deployment, service, pods>>

WorkerStep ==
  \/ Get \/ CreateDeployment \/ CreateService
  \/ Resize \/ UpdateStatus
  \/ \E p \in Pods : InitPod(p) \/ Relabel(p)

ControllerNext ==
  \/ WorkerStep \/ CallFails \/ Restart
  \/ SeeSD \/ SeeDeployment \/ SeeService
  \/ \E p \in Pods : SeePod(p)

=============================================================================
