------------------------ MODULE PodManagerUpdateProofs ------------------------
(***************************************************************************)
(* The Updates of the pod manager (server.go:293-378): what they may change *)
(* of a pod, however old the copies are they are made from, and that the    *)
(* queue is used as its contract allows.  Then the entries of the LC map:   *)
(* what the wait loop may rely on, and what leaves stale ones behind.       *)
(***************************************************************************)
EXTENDS PodManagerProofs

\* The part of the invariant that is about copies and their versions.
UpdateInv == VersionInv /\ NapInv

\* A step may change the pod k in the API server to a version nobody has.
ApiMoves(k) ==
  \/ api'[k] \in {api[k], NoPod}
  \/ UnusedVersions(k) # {} /\ api'[k].rv = NewVersion(k)

CacheMoves(k) == cache'[k] \in {cache[k], NoPod, api'[k]}

\* The copy of worker v is left alone, no longer of interest, or taken from the
\* lister or from the copy before, at most with another endpoint.
Keeps(v) == pc'[v] = pc[v] /\ held'[v] = held[v] /\ cur'[v] = cur[v]
Drops(v) == pc'[v] \notin {"wait", "write"}
Source(v) == {cache[held[v]]} \cup (IF pc[v] \in {"wait", "write"} THEN {cur[v]} ELSE {})
Copies(v) ==
  /\ held'[v] = held[v] /\ held[v] \in Keys
  /\ \E p \in Source(v) \cap Pod, e \in EndpointLabels :
       cur'[v] \in {p, [p EXCEPT !.endpoint = e]}

\* A version that is still the current one belongs to a pod that has not moved.
LEMMA OldVersion ==
  ASSUME NEW k \in Keys, ApiMoves(k), NEW p, p \in Objects(k) \ {NoPod},
         api'[k] # NoPod, p.rv = api'[k].rv
  PROVE  api'[k] = api[k]
BY NewVersionUnused DEF ApiMoves

LEMMA CopyRight ==
  ASSUME BasicInv, VersionInv, NEW v \in Workers, ApiMoves(held[v]), Copies(v),
         Accepts(held[v], cur[v])'
  PROVE  SameButEndpoint(cur[v], api[held[v]])'
<1> DEFINE k == held[v]
<1>1. PICK p \in Source(v) \cap Pod, e \in EndpointLabels :
        cur'[v] \in {p, [p EXCEPT !.endpoint = e]}
  BY DEF Copies
<1>2. k \in Keys /\ held'[v] = k
  BY DEF Copies
<1>3. p \in Objects(k) \ {NoPod}
  BY <1>1, Markers DEF Source, Objects
<1>4. cur'[v].rv = p.rv /\ SameButEndpoint(cur'[v], p)
  <2>1. [p EXCEPT !.endpoint = e].rv = p.rv
    BY <1>1 DEF Pod
  <2>2. SameButEndpoint(p, p) /\ SameButEndpoint([p EXCEPT !.endpoint = e], p)
    BY <1>1, SameEndpointOrVersion, NoVersionType
  <2> QED BY <1>1, <2>1, <2>2
<1>5. api'[k] # NoPod /\ p.rv = api'[k].rv
  BY <1>2, <1>4 DEF Accepts
<1>6. api'[k] = api[k]
  BY <1>2, <1>3, <1>5, OldVersion
<1>7. Accepts(k, p)
  BY <1>5, <1>6 DEF Accepts
<1>8. SameButEndpoint(p, api[k])
  <2>1. CASE p = cache[k]
    <3>1. cache[k] = api[k]
      BY <1>2, <1>3, <1>7, <2>1 DEF VersionInv
    <3> QED BY <1>1, <2>1, <3>1, SameEndpointOrVersion, NoVersionType
  <2>2. CASE p = cur[v] /\ pc[v] \in {"wait", "write"}
    BY <1>7, <2>2 DEF VersionInv
  <2> QED BY <1>1, <2>1, <2>2 DEF Source
<1>9. SameButEndpoint(cur'[v], api[k])
  BY <1>4, <1>8, SameTransitive
<1> QED BY <1>2, <1>6, <1>9 DEF SameButEndpoint

\* How every action keeps VersionInv.
LEMMA VersionRule ==
  ASSUME BasicInv, VersionInv, \A k \in Keys : ApiMoves(k) /\ CacheMoves(k),
         \A v \in Workers : Keeps(v) \/ Drops(v) \/ Copies(v)
  PROVE  VersionInv'
<1>1. ASSUME NEW k \in Keys, cache'[k] # NoPod, Accepts(k, cache[k])'
      PROVE  cache'[k] = api'[k]
  <2>1. CASE cache'[k] = cache[k]
    <3>1. cache[k] \in Objects(k) \ {NoPod} /\ api'[k] # NoPod /\ cache[k].rv = api'[k].rv
      BY <1>1, <2>1 DEF Objects, Accepts
    <3>2. api'[k] = api[k]
      BY <3>1, OldVersion
    <3> QED BY <1>1, <2>1, <3>1, <3>2 DEF VersionInv, Accepts
  <2>2. CASE cache'[k] # cache[k]
    BY <1>1, <2>2 DEF CacheMoves
  <2> QED BY <2>1, <2>2
<1>2. ASSUME NEW v \in Workers, pc'[v] \in {"wait", "write"}, Accepts(held[v], cur[v])'
      PROVE  SameButEndpoint(cur[v], api[held[v]])'
  <2>1. CASE Copies(v)
    BY <1>2, <2>1, CopyRight DEF Copies
  <2>2. CASE Keeps(v)
    <3>1. held[v] \in Keys /\ cur[v] \in Pod /\ pc[v] \in {"wait", "write"}
      BY <1>2, <2>2, Markers DEF Keeps, BasicInv, TypeOK, WorkersInv
    <3>2. Copies(v)
      BY <2>2, <3>1, Labels DEF Copies, Keeps, Source
    <3> QED BY <1>2, <3>1, <3>2, CopyRight
  <2> QED BY <1>2, <2>1, <2>2 DEF Drops
<1> QED BY <1>1, <1>2 DEF VersionInv

\* How every action keeps NapInv.
LEMMA NapRule ==
  ASSUME NapInv,
         \A v \in Workers : \/ pc'[v] # "write"
                            \/ pc'[v] = pc[v] /\ cur'[v] = cur[v]
                            \/ cur'[v].endpoint # Down
                            \/ GetPodState(cur'[v]) \in Napping
  PROVE  NapInv'
BY DEF NapInv

-----------------------------------------------------------------------------
(* One lemma per action. *)

LEMMA EndpointApart ==
  /\ Up # Down
  /\ \A p : GoesDown(p) => GetPodState(p) \in Napping
BY DEF Up, Down, GoesDown

\* Steps that leave the workers alone.
LEMMA QuietUpdate ==
  ASSUME BasicInv, UpdateInv, UNCHANGED workerVars,
         \A k \in Keys : ApiMoves(k) /\ CacheMoves(k)
  PROVE  UpdateInv'
<1>1. \A v \in Workers : Keeps(v)
  BY DEF workerVars, Keeps
<1>2. VersionInv'
  BY <1>1, VersionRule DEF UpdateInv
<1>3. NapInv'
  BY NapRule DEF UpdateInv, workerVars
<1> QED BY <1>2, <1>3 DEF UpdateInv

LEMMA EditUpdate ==
  ASSUME BasicInv, UpdateInv, NEW k \in Keys, NEW new \in Pod \cup {NoPod}, Edit(k, new)
  PROVE  UpdateInv'
<1>1. ApiMoves(k)
  <2>1. NewVersion(k) \in Versions
    BY NewVersionUnused DEF Edit
  <2>2. new # NoPod => [new EXCEPT !.rv = NewVersion(k)].rv = NewVersion(k)
    BY <2>1 DEF Pod
  <2> QED BY <2>2 DEF Edit, ApiMoves, BasicInv, TypeOK
<1>2. \A j \in Keys \ {k} : ApiMoves(j)
  BY DEF Edit, ApiMoves, BasicInv, TypeOK
<1>3. \A j \in Keys : CacheMoves(j)
  BY DEF Edit, informerVars, CacheMoves
<1> QED BY <1>1, <1>2, <1>3, QuietUpdate DEF Edit

LEMMA InformerUpdate ==
  ASSUME BasicInv, UpdateInv, NEW k \in Keys, InformerStep(k) PROVE UpdateInv'
<1>1. \A j \in Keys : ApiMoves(j) /\ CacheMoves(j)
  BY DEF InformerStep, InformerSync, InformerTombstone, HandleEvent, ApiMoves,
         CacheMoves, BasicInv, TypeOK
<1>2. UNCHANGED workerVars
  BY DEF InformerStep, InformerSync, InformerTombstone, HandleEvent
<1> QED BY <1>1, <1>2, QuietUpdate

LEMMA RCUpdateKeeps ==
  ASSUME BasicInv, UpdateInv, NEW k \in Keys, RCStep(k) PROVE UpdateInv'
<1>1. \A j \in Keys : ApiMoves(j) /\ CacheMoves(j)
  BY DEF RCStep, RCCollect, RCUpdate, informerVars, ApiMoves, CacheMoves
<1> QED BY <1>1, QuietUpdate DEF RCStep, RCCollect, RCUpdate

\* The process ends: no copy is left.
LEMMA DownUpdate ==
  ASSUME BasicInv, UpdateInv, ProcessDown, UNCHANGED api PROVE UpdateInv'
<1>1. \A j \in Keys : ApiMoves(j) /\ CacheMoves(j)
  BY DEF ProcessDown, ApiMoves, CacheMoves
<1>2. \A v \in Workers : Drops(v) /\ pc'[v] # "write"
  BY DEF ProcessDown, Drops
<1> QED BY <1>1, <1>2, VersionRule, NapRule DEF UpdateInv

LEMMA StartUpdate == ASSUME BasicInv, UpdateInv, Start PROVE UpdateInv'
<1>1. \A j \in Keys : ApiMoves(j) /\ CacheMoves(j)
  BY DEF Start, ApiMoves, CacheMoves
<1> QED BY <1>1, QuietUpdate DEF Start

\* Steps of worker w that leave the API server and the lister alone.
LEMMA WorkerUpdate ==
  ASSUME BasicInv, UpdateInv, NEW w \in Workers, UNCHANGED <<api, cache>>,
         \A v \in Workers \ {w} : Keeps(v),
         Drops(w) \/ Copies(w),
         \/ pc'[w] # "write" \/ cur'[w].endpoint # Down
         \/ GetPodState(cur'[w]) \in Napping
  PROVE  UpdateInv'
<1>1. \A j \in Keys : ApiMoves(j) /\ CacheMoves(j)
  BY DEF ApiMoves, CacheMoves
<1>2. \A v \in Workers : Keeps(v) \/ Drops(v) \/ Copies(v)
  OBVIOUS
<1>3. VersionInv'
  BY <1>1, <1>2, VersionRule DEF UpdateInv
<1>4. NapInv'
  BY NapRule DEF UpdateInv, Keeps
<1> QED BY <1>3, <1>4 DEF UpdateInv

LEMMA GetUpdate ==
  ASSUME BasicInv, UpdateInv, NEW w \in Workers, Get(w) PROVE UpdateInv'
<1>1. \A v \in Workers \ {w} : Keeps(v)
  BY DEF Get, Keeps, BasicInv, TypeOK
<1>2. Drops(w) /\ pc'[w] # "write"
  BY DEF Get, Drops, BasicInv, TypeOK
<1> QED BY <1>1, <1>2, WorkerUpdate DEF Get, informerVars

\* FetchGone and Store
LEMMA FinishUpdate ==
  ASSUME BasicInv, UpdateInv, NEW w \in Workers, FinishItem(w),
         UNCHANGED <<api, informerVars>>
  PROVE  UpdateInv'
<1>1. \A v \in Workers \ {w} : Keeps(v)
  BY DEF FinishItem, Keeps, BasicInv, TypeOK
<1>2. Drops(w) /\ pc'[w] # "write"
  BY DEF FinishItem, Drops, BasicInv, TypeOK
<1> QED BY <1>1, <1>2, WorkerUpdate DEF informerVars

LEMMA FetchUpdate ==
  ASSUME BasicInv, UpdateInv, NEW w \in Workers, Fetch(w) PROVE UpdateInv'
<1> DEFINE p == cache[held[w]]
           down == [p EXCEPT !.endpoint = Down]
<1>1. held[w] \in Keys /\ p \in Pod
  BY DEF Fetch, Manageable, BasicInv, TypeOK, WorkersInv
<1>2. \A v \in Workers \ {w} : Keeps(v)
  BY DEF Fetch, Keeps, BasicInv, TypeOK
<1>3. UNCHANGED <<api, cache>> /\ held' = held
  BY DEF Fetch, informerVars
<1>4. CASE GoesUp(p) /\ cur' = [cur EXCEPT ![w] = p] /\ pc' = [pc EXCEPT ![w] = "wait"]
  <2>1. cur'[w] = p /\ pc'[w] = "wait"
    BY <1>4 DEF BasicInv, TypeOK
  <2>2. Copies(w)
    BY <1>1, <1>3, <2>1, Labels DEF Copies, Source
  <2> QED BY <1>2, <1>3, <2>1, <2>2, WorkerUpdate
<1>5. CASE GoesDown(p) /\ cur' = [cur EXCEPT ![w] = down] /\ pc' = [pc EXCEPT ![w] = "write"]
  <2>1. cur'[w] = down
    BY <1>5 DEF BasicInv, TypeOK
  <2>2. Copies(w)
    BY <1>1, <1>3, <2>1, Labels DEF Copies, Source
  <2>3. SameButEndpoint(down, p) /\ down \in Pod
    BY <1>1, SameEndpointOrVersion, PodFields, Labels, NoVersionType
  <2>4. GetPodState(down) = GetPodState(p)
    BY <1>1, <2>3, SameDecides
  <2> QED BY <1>2, <1>3, <1>5, <2>1, <2>2, <2>4, WorkerUpdate, EndpointApart
<1>6. CASE pc' = [pc EXCEPT ![w] = "store"]
  <2>1. Drops(w) /\ pc'[w] # "write"
    BY <1>6 DEF Drops, BasicInv, TypeOK
  <2> QED BY <1>2, <1>3, <2>1, WorkerUpdate
<1> QED BY <1>4, <1>5, <1>6 DEF Fetch

LEMMA PollUpdate ==
  ASSUME BasicInv, UpdateInv, NEW w \in Workers, Poll(w) PROVE UpdateInv'
<1>1. held[w] \in Keys /\ cur[w] \in Pod /\ pc[w] = "wait"
  BY Markers DEF Poll, BasicInv, TypeOK, WorkersInv
<1>2. cur' = [cur EXCEPT ![w] = [cur[w] EXCEPT !.endpoint = Up]]
  BY DEF Poll
<1>3. \A v \in Workers \ {w} : Keeps(v)
  BY <1>2 DEF Poll, Keeps, BasicInv, TypeOK
<1>4. cur'[w] = [cur[w] EXCEPT !.endpoint = Up] /\ cur'[w].endpoint = Up
  BY <1>1, <1>2, PodFields, Labels, NoVersionType DEF BasicInv, TypeOK
<1>5. Copies(w)
  BY <1>1, <1>4, Labels DEF Copies, Source, Poll
<1> QED BY <1>3, <1>4, <1>5, WorkerUpdate, EndpointApart DEF Poll, informerVars

\* What an Update leaves in the API server.
LEMMA WrittenApi ==
  ASSUME BasicInv, NEW w \in Workers, pc[w] = "write",
         \/ UNCHANGED api
         \/ Accepts(held[w], cur[w]) /\ ApplyUpdate(held[w], cur[w])
  PROVE  /\ held[w] \in Keys /\ cur[w] \in Pod
         /\ \A j \in Keys : ApiMoves(j)
         /\ \A j \in Keys : api'[j] # api[j] =>
              /\ j = held[w] /\ Accepts(j, cur[w]) /\ api'[j] \in Pod
              /\ api'[j].endpoint = cur[w].endpoint /\ SameButEndpoint(api'[j], cur[w])
<1>1. held[w] \in Keys /\ cur[w] \in Pod
  BY Markers DEF BasicInv, TypeOK, WorkersInv
<1>2. CASE UNCHANGED api
  BY <1>1, <1>2 DEF ApiMoves
<1>3. CASE Accepts(held[w], cur[w]) /\ ApplyUpdate(held[w], cur[w])
  <2>1. \/ api' = api
        \/ /\ UnusedVersions(held[w]) # {}
           /\ api' = [api EXCEPT ![held[w]] = [cur[w] EXCEPT !.rv = NewVersion(held[w])]]
           /\ api'[held[w]] \in Pod /\ api'[held[w]].endpoint = cur[w].endpoint
           /\ api'[held[w]].rv = NewVersion(held[w])
           /\ SameButEndpoint(api'[held[w]], cur[w])
    BY <1>1, <1>3, ApplyUpdateType DEF BasicInv
  <2>2. \A j \in Keys : api'[j] # api[j] => j = held[w]
    BY <2>1 DEF BasicInv, TypeOK
  <2>3. \A j \in Keys : ApiMoves(j)
    BY <2>1, <2>2 DEF ApiMoves
  <2> QED BY <1>1, <1>3, <2>1, <2>2, <2>3
<1> QED BY <1>2, <1>3

LEMMA WriteOKUpdate ==
  ASSUME BasicInv, UpdateInv, NEW w \in Workers, WriteOK(w) PROVE UpdateInv'
<1>1. \A j \in Keys : ApiMoves(j) /\ CacheMoves(j)
  BY WrittenApi DEF WriteOK, informerVars, CacheMoves
<1>2. \A v \in Workers \ {w} : Keeps(v)
  BY DEF WriteOK, Keeps, BasicInv, TypeOK
<1>3. Drops(w) /\ pc'[w] # "write"
  BY DEF WriteOK, Drops, BasicInv, TypeOK
<1>4. \A v \in Workers : Keeps(v) \/ Drops(v)
  BY <1>2, <1>3
<1>5. VersionInv'
  BY <1>1, <1>4, VersionRule DEF UpdateInv
<1>6. NapInv'
  BY <1>2, <1>3, NapRule DEF UpdateInv, Keeps
<1> QED BY <1>5, <1>6 DEF UpdateInv

\* WriteRejected and WriteFailed
LEMMA WriteAgainUpdate ==
  ASSUME BasicInv, UpdateInv, NEW w \in Workers, pc[w] = "write", Refetch(w),
         \/ UNCHANGED api
         \/ Accepts(held[w], cur[w]) /\ ApplyUpdate(held[w], cur[w]),
         UNCHANGED <<informerVars, held>>
  PROVE  UpdateInv'
<1> DEFINE p == cache[held[w]]
<1>1. \A j \in Keys : ApiMoves(j) /\ CacheMoves(j)
  BY WrittenApi DEF informerVars, CacheMoves
<1>2. /\ held[w] \in Keys
      /\ \/ pc' = [pc EXCEPT ![w] = "store"] /\ cur' = [cur EXCEPT ![w] = NoPod]
         \/ /\ p \in Pod /\ pc' = pc
            /\ cur' = [cur EXCEPT ![w] = [p EXCEPT !.endpoint = Up]]
  BY RefetchEffect
<1>3. \A v \in Workers \ {w} : Keeps(v)
  BY <1>2 DEF Keeps, BasicInv, TypeOK
<1>4. /\ Drops(w) \/ Copies(w)
      /\ pc'[w] # "write" \/ cur'[w].endpoint # Down
  <2>1. CASE pc' = [pc EXCEPT ![w] = "store"]
    BY <2>1 DEF Drops, BasicInv, TypeOK
  <2>2. CASE p \in Pod /\ cur' = [cur EXCEPT ![w] = [p EXCEPT !.endpoint = Up]]
    <3>1. cur'[w] = [p EXCEPT !.endpoint = Up] /\ cur'[w].endpoint = Up
      BY <2>2, PodFields, Labels, NoVersionType DEF BasicInv, TypeOK
    <3>2. Copies(w)
      BY <1>2, <2>2, <3>1, Labels DEF Copies, Source
    <3> QED BY <3>1, <3>2, EndpointApart
  <2> QED BY <1>2, <2>1, <2>2
<1>5. VersionInv'
  BY <1>1, <1>3, <1>4, VersionRule DEF UpdateInv
<1>6. NapInv'
  BY <1>3, <1>4, NapRule DEF UpdateInv, Keeps
<1> QED BY <1>5, <1>6 DEF UpdateInv

LEMMA UpdateInit == Init => UpdateInv
BY DEF Init, UpdateInv, VersionInv, NapInv

LEMMA UpdateStep == BasicInv /\ UpdateInv /\ [Next]_vars => UpdateInv'
<1> SUFFICES ASSUME BasicInv, UpdateInv, [Next]_vars PROVE UpdateInv'
  OBVIOUS
<1>1. ASSUME NEW k \in Keys, UserStep(k) PROVE UpdateInv'
  BY <1>1, UserStepIsEdit, EditUpdate
<1>2. ASSUME NEW k \in Keys, InformerStep(k) \/ RCStep(k) PROVE UpdateInv'
  BY <1>2, InformerUpdate, RCUpdateKeeps
<1>3. ASSUME NEW w \in Workers, WorkerStep(w) PROVE UpdateInv'
  <2>1. CASE FetchGone(w) \/ Store(w)
    BY <2>1, FinishUpdate DEF FetchGone, Store
  <2>2. CASE WriteRejected(w)
    BY <2>2, WriteAgainUpdate DEF WriteRejected
  <2>3. CASE WriteFailed(w)
    BY <2>3, WriteAgainUpdate DEF WriteFailed
  <2>4. CASE Panic(w)
    BY <2>4, DownUpdate DEF Panic
  <2> QED BY <1>3, <2>1, <2>2, <2>3, <2>4, GetUpdate, FetchUpdate, PollUpdate,
             WriteOKUpdate DEF WorkerStep
<1>4. CASE Crash \/ Start
  BY <1>4, DownUpdate, StartUpdate DEF Crash
<1>5. CASE UNCHANGED vars
  BY <1>5, QuietUpdate DEF vars, informerVars, ApiMoves, CacheMoves
<1> QED BY <1>1, <1>2, <1>3, <1>4, <1>5 DEF Next

-----------------------------------------------------------------------------
(* Theorems *)

\* Only users' edits and the Updates of workers change pods.
LEMMA WhoWrites ==
  ASSUME BasicInv, [Next]_vars, NEW k \in Keys, api'[k] # api[k], edits' = edits
  PROVE  \E w \in Workers :
           /\ pc[w] = "write" /\ held[w] = k /\ cur[w] \in Pod /\ Accepts(k, cur[w])
           /\ api'[k] \in Pod /\ api'[k].endpoint = cur[w].endpoint
           /\ SameButEndpoint(api'[k], cur[w])
<1>1. ASSUME NEW j \in Keys, UserStep(j) PROVE FALSE
  <2>1. PICK new \in Pod \cup {NoPod} : Edit(j, new)
    BY <1>1, UserStepIsEdit
  <2> QED BY <2>1 DEF Edit, BasicInv, TypeOK
<1>2. ASSUME NEW j \in Keys, InformerStep(j) \/ RCStep(j) PROVE api' = api
  BY <1>2 DEF InformerStep, InformerSync, InformerTombstone, HandleEvent,
              RCStep, RCCollect, RCUpdate
<1>3. ASSUME Crash \/ Start \/ UNCHANGED vars PROVE api' = api
  BY <1>3 DEF Crash, Start, vars
<1>4. ASSUME NEW w \in Workers, WorkerStep(w), ~WriteOK(w), ~WriteFailed(w)
      PROVE  api' = api
  BY <1>4 DEF WorkerStep, Get, FetchGone, Fetch, Poll, WriteRejected, Store, Panic
<1>5. PICK w \in Workers : WriteOK(w) \/ WriteFailed(w)
  BY <1>1, <1>2, <1>3, <1>4 DEF Next
<1>6. /\ pc[w] = "write"
      /\ \/ UNCHANGED api
         \/ Accepts(held[w], cur[w]) /\ ApplyUpdate(held[w], cur[w])
  BY <1>5 DEF WriteOK, WriteFailed
<1> QED BY <1>6, WrittenApi

LEMMA UpdateHolds == Spec => [](BasicInv /\ UpdateInv)
BY BasicInit, BasicStep, UpdateInit, UpdateStep, PTL DEF Spec

\* An Update changes the endpoint of the current pod and nothing else: however
\* old the copy it is made from, a change made by a user in the meantime has
\* given the pod another version, and the Update is rejected.
THEOREM UpdatesLoseNoEdit == Spec => NoUserEditLost
<1> DEFINE Harmless == \A k \in Keys : api'[k] # api[k] =>
             api[k] # NoPod /\ api'[k] # NoPod /\ SameButEndpoint(api'[k], api[k])
<1>1. BasicInv /\ UpdateInv /\ [Next]_vars => [edits' = edits => Harmless]_vars
  <2> SUFFICES ASSUME BasicInv, UpdateInv, [Next]_vars, edits' = edits,
                      NEW k \in Keys, api'[k] # api[k]
               PROVE  /\ api[k] # NoPod /\ api'[k] # NoPod
                      /\ SameButEndpoint(api'[k], api[k])
    OBVIOUS
  <2>1. PICK w \in Workers :
          /\ pc[w] = "write" /\ held[w] = k /\ Accepts(k, cur[w])
          /\ api'[k] \in Pod /\ SameButEndpoint(api'[k], cur[w])
    BY WhoWrites
  <2>2. SameButEndpoint(cur[w], api[k])
    BY <2>1 DEF UpdateInv, VersionInv
  <2>3. api[k] # NoPod /\ api'[k] # NoPod
    BY <2>1, Markers DEF Accepts
  <2>4. SameButEndpoint(api'[k], api[k])
    BY <2>1, <2>2, SameTransitive
  <2> QED BY <2>3, <2>4
<1> QED BY <1>1, UpdateHolds, PTL DEF Spec, NoUserEditLost

\* A pod leaves service only while its label in the API server is that of a nap
\* state: the check made by a worker on its copy still holds when it writes.
THEOREM OnlyNapsLeaveService == Spec => OnlyNappingPodsGoDown
<1> DEFINE Napped == \A k \in Keys : api[k] # NoPod /\ api'[k] # NoPod /\ edits' = edits
               /\ api[k].endpoint # Down /\ api'[k].endpoint = Down
               => GetPodState(api[k]) \in Napping
<1>1. BasicInv /\ UpdateInv /\ [Next]_vars => [Napped]_vars
  <2> SUFFICES ASSUME BasicInv, UpdateInv, [Next]_vars, NEW k \in Keys,
                      api[k] # NoPod, api'[k] # NoPod, edits' = edits,
                      api[k].endpoint # Down, api'[k].endpoint = Down
               PROVE  GetPodState(api[k]) \in Napping
    OBVIOUS
  <2>1. PICK w \in Workers :
          /\ pc[w] = "write" /\ held[w] = k /\ cur[w] \in Pod /\ Accepts(k, cur[w])
          /\ api'[k].endpoint = cur[w].endpoint
    BY WhoWrites
  <2>2. SameButEndpoint(cur[w], api[k])
    BY <2>1 DEF UpdateInv, VersionInv
  <2>3. api[k] \in Pod
    BY DEF BasicInv, TypeOK
  <2>4. GetPodState(cur[w]) = GetPodState(api[k])
    BY <2>1, <2>2, <2>3, SameDecides
  <2> QED BY <2>1, <2>4 DEF UpdateInv, NapInv
<1> QED BY <1>1, UpdateHolds, PTL DEF Spec, OnlyNappingPodsGoDown

\* While the process runs, every step is one of the work queue or none of its
\* business: nothing is got, finished or added in a way its contract forbids.
THEOREM QueueUsedAsPromised == Spec => UsesWorkQueue
<1>1. BasicInv /\ [Next]_vars => [up /\ up' => WQ!Next \/ UNCHANGED WQ!vars]_vars
  <2> SUFFICES ASSUME BasicInv, [Next]_vars, up, up'
               PROVE  WQ!Next \/ UNCHANGED WQ!vars
    OBVIOUS
  <2> DEFINE Idle == queue' = queue /\ dirty' = dirty /\ processing' = processing
                     /\ held' = held
  <2>1. Idle => UNCHANGED WQ!vars
    BY DEF WQ!vars
  <2>2. ASSUME NEW k \in Keys, UserStep(k) PROVE Idle
    <3>1. PICK new \in Pod \cup {NoPod} : Edit(k, new)
      BY <2>2, UserStepIsEdit
    <3> QED BY <3>1 DEF Edit, queueVars, workerVars
  <2>3. ASSUME NEW k \in Keys, InformerStep(k), ~HandleEvent(k) PROVE Idle
    BY <2>3 DEF InformerStep, InformerSync, InformerTombstone, queueVars, workerVars
  <2>4. ASSUME NEW k \in Keys, HandleEvent(k) PROVE WQ!Next
    <3>1. WQ!Produce(k)
      BY <2>4 DEF HandleEvent, WQ!Produce, workerVars
    <3> QED BY <3>1 DEF WQ!Next
  <2>5. ASSUME NEW k \in Keys, RCStep(k) PROVE Idle
    BY <2>5 DEF RCStep, RCCollect, RCUpdate, queueVars, workerVars
  <2>6. ASSUME NEW w \in Workers, Get(w) PROVE WQ!Next
    <3>1. held[w] = NoKey
      BY <2>6 DEF Get, BasicInv, WorkersInv
    <3>2. WQ!Get(w)
      BY <2>6, <3>1 DEF Get, WQ!Get
    <3> QED BY <3>2 DEF WQ!Next
  <2>7. ASSUME NEW w \in Workers, FetchGone(w) \/ Store(w) PROVE WQ!Next
    <3>1. held[w] \in Keys /\ FinishItem(w)
      BY <2>7 DEF FetchGone, Store, BasicInv, WorkersInv, TypeOK
    <3>2. WQ!Done(w)
      BY <3>1 DEF FinishItem, WQ!Done
    <3> QED BY <3>2 DEF WQ!Next
  <2>8. ASSUME NEW w \in Workers,
               Fetch(w) \/ Poll(w) \/ WriteOK(w) \/ WriteRejected(w) \/ WriteFailed(w)
        PROVE  Idle
    BY <2>8 DEF Fetch, Poll, WriteOK, WriteRejected, WriteFailed, queueVars
  <2>9. ASSUME NEW w \in Workers, Panic(w) PROVE FALSE
    BY <2>9 DEF Panic, ProcessDown
  <2>10. ASSUME Crash \/ Start PROVE FALSE
    BY <2>10 DEF Crash, Start, ProcessDown
  <2>11. ASSUME UNCHANGED vars PROVE Idle
    BY <2>11 DEF vars, queueVars, workerVars
  <2> QED BY <2>1, <2>2, <2>3, <2>4, <2>5, <2>6, <2>7, <2>8, <2>9, <2>10, <2>11
          DEF Next, WorkerStep
<1>2. Spec => []BasicInv
  BY BasicInit, BasicStep, PTL DEF Spec
<1> QED BY <1>1, <1>2, PTL DEF Spec, UsesWorkQueue

-----------------------------------------------------------------------------
(* The entries the wait loop and the resource controller look at.            *)

LEMMA InLC == "LC" \in Maps
BY DEF Maps

\* An update of the resource controller adds and removes no entry.
LEMMA RCEntries ==
  ASSUME BasicInv, NEW j \in Keys, RCStep(j), NEW k \in Keys
  PROVE  podMap'["LC"][k] = NoInfo <=> podMap["LC"][k] = NoInfo
<1>1. CASE RCCollect(j)
  BY <1>1 DEF RCCollect
<1>2. CASE RCUpdate(j)
  <2> DEFINE m == act[j].map
             new == [podMap[m][j] EXCEPT !.cpu = act[j].cpu]
  <2>1. act[j] \in Act /\ m \in Maps /\ podMap[m][j] \in Info
    BY <1>2 DEF RCUpdate, BasicInv, TypeOK, ActInv, Act
  <2>2. new \in Info
    BY <2>1 DEF Info, Act
  <2>3. podMap' = [podMap EXCEPT ![m] = [podMap[m] EXCEPT ![j] = new]]
    BY <1>2 DEF RCUpdate
  <2> HIDE DEF m, new
  <2>4. /\ podMap'[m][j] = new
        /\ \A n \in Maps, i \in Keys : i # j \/ n # m => podMap'[n][i] = podMap[n][i]
    BY <2>1, <2>3 DEF BasicInv, TypeOK
  <2> QED
    BY <2>1, <2>2, <2>4, InLC, Markers
<1> QED BY <1>1, <1>2 DEF RCStep

\* Steps that are none of a worker's keep the maps while the process runs.
LEMMA QuietEntries ==
  ASSUME BasicInv, up', NEW k \in Keys,
         \/ \E j \in Keys : UserStep(j) \/ InformerStep(j)
         \/ Crash \/ Start \/ UNCHANGED vars
  PROVE  podMap' = podMap
<1>1. ASSUME NEW j \in Keys, UserStep(j) PROVE podMap' = podMap
  <2>1. PICK new \in Pod \cup {NoPod} : Edit(j, new)
    BY <1>1, UserStepIsEdit
  <2> QED BY <2>1 DEF Edit
<1>2. ASSUME NEW j \in Keys, InformerStep(j) PROVE podMap' = podMap
  BY <1>2 DEF InformerStep, InformerSync, InformerTombstone, HandleEvent
<1>3. CASE Crash \/ Start \/ UNCHANGED vars
  BY <1>3 DEF Crash, ProcessDown, Start, vars
<1> QED BY <1>1, <1>2, <1>3

\* What worker w does to the LC map, it does to its own key.
LEMMA WorkerEntries ==
  ASSUME BasicInv, NEW w \in Workers, WorkerStep(w), up', NEW k \in Keys
  PROVE  \/ podMap'["LC"][k] = NoInfo <=> podMap["LC"][k] = NoInfo
         \/ podMap'["LC"][k] = NoInfo /\ held[w] = k /\ pc[w] \in {"fetch", "write"}
         \/ Store(w) /\ held[w] = k /\ MapOf(pod[w]) = "LC"
<1>1. CASE FetchGone(w)
  <2>1. held[w] \in Keys /\ pc[w] = "fetch"
    BY <1>1 DEF FetchGone, BasicInv, TypeOK, WorkersInv
  <2>2. \A m \in Maps, j \in Keys :
          podMap'[m][j] = IF m \in Maps /\ j = held[w] THEN NoInfo ELSE podMap[m][j]
    BY <1>1, <2>1, DeleteEffect DEF FetchGone, BasicInv
  <2> QED BY <2>1, <2>2, InLC
<1>2. CASE WriteRejected(w) \/ WriteFailed(w)
  <2>1. pc[w] = "write" /\ Refetch(w)
    BY <1>2 DEF WriteRejected, WriteFailed
  <2>2. CASE cache[held[w]] = NoPod
    <3>1. held[w] \in Keys /\ {"LC"} \in SUBSET Maps
      BY <2>1, InLC DEF BasicInv, TypeOK, WorkersInv
    <3>2. DeleteEntry(held[w], {"LC"})
      BY <2>1, <2>2 DEF Refetch
    <3>3. \A j \in Keys : podMap'["LC"][j] = IF j = held[w] THEN NoInfo ELSE podMap["LC"][j]
      BY <3>1, <3>2, InLC, DeleteEffect DEF BasicInv
    <3> QED BY <2>1, <3>3
  <2>3. CASE cache[held[w]] # NoPod
    BY <2>1, <2>3 DEF Refetch
  <2> QED BY <2>2, <2>3
<1>3. CASE Store(w)
  <2>1. CASE held[w] = k /\ MapOf(pod[w]) = "LC"
    BY <1>3, <2>1
  <2>2. CASE ~(held[w] = k /\ MapOf(pod[w]) = "LC")
    BY <1>3, <2>2, StoreEffect, InLC
  <2> QED BY <2>1, <2>2
<1>4. CASE Get(w) \/ Fetch(w) \/ Poll(w) \/ WriteOK(w)
  BY <1>4 DEF Get, Fetch, Poll, WriteOK
<1>5. CASE Panic(w)
  BY <1>5 DEF Panic, ProcessDown
<1> QED BY <1>1, <1>2, <1>3, <1>4, <1>5 DEF WorkerStep

\* The entry of the key a worker polls stays as long as it polls: only a worker
\* with that key, of which there is one, could delete it (server.go:303).
THEOREM PollIsSafe == Spec => PolledEntryStays
<1> DEFINE Stays == up /\ up' => \A w \in Workers :
             pc[w] = "wait" /\ podMap["LC"][held[w]] # NoInfo
             => podMap'["LC"][held[w]] # NoInfo
<1>1. BasicInv /\ [Next]_vars => [Stays]_vars
  <2> SUFFICES ASSUME BasicInv, [Next]_vars, up, up', NEW w \in Workers, pc[w] = "wait",
                      podMap["LC"][held[w]] # NoInfo, podMap'["LC"][held[w]] = NoInfo
               PROVE  FALSE
    OBVIOUS
  <2>1. held[w] \in Keys
    BY DEF BasicInv, TypeOK, WorkersInv
  <2>2. ASSUME NEW v \in Workers, WorkerStep(v) PROVE FALSE
    <3>1. CASE Store(v) /\ held[v] = held[w] /\ MapOf(pod[v]) = "LC"
      BY <2>1, <3>1, StoreEffect, Markers
    <3>2. CASE held[v] = held[w] /\ pc[v] \in {"fetch", "write"}
      BY <2>1, <3>2 DEF BasicInv, WorkersInv, ExclusiveKey
    <3> QED BY <2>1, <2>2, <3>1, <3>2, WorkerEntries
  <2>3. ASSUME NEW j \in Keys, RCStep(j) PROVE FALSE
    BY <2>1, <2>3, RCEntries
  <2> QED BY <2>1, <2>2, <2>3, QuietEntries DEF Next
<1>2. Spec => []BasicInv
  BY BasicInit, BasicStep, PTL DEF Spec
<1> QED BY <1>1, <1>2, PTL DEF Spec, PolledEntryStays

-----------------------------------------------------------------------------
(* Where stale entries come from (server.go:466).                            *)

Late == {"wait", "write", "store"}

\* The service type of pod k, whenever there is one, is f[k].
ServiceFixed(f) == \A k \in Keys : api[k] # NoPod => api[k].service = f[k]

ServiceInv(f) ==
  /\ \A k \in Keys : cache[k] # NoPod => cache[k].service = f[k]
  /\ \A w \in Workers : pc[w] \in Late => pod[w].service = f[held[w]]
  /\ \A k \in Keys : podMap["LC"][k] # NoInfo => f[k] # SERVICE_BE

\* A key enters the LC map when a worker stores a copy that belongs there.
LEMMA WhoEnters ==
  ASSUME BasicInv, [Next]_vars, NEW k \in Keys,
         podMap["LC"][k] = NoInfo, podMap'["LC"][k] # NoInfo
  PROVE  \E w \in Workers : pc[w] = "store" /\ held[w] = k /\ MapOf(pod[w]) = "LC"
<1>1. up'
  BY BasicStep, InLC DEF BasicInv, DownInv
<1>2. ASSUME NEW j \in Keys, RCStep(j) PROVE FALSE
  BY <1>2, RCEntries
<1>3. PICK w \in Workers : WorkerStep(w)
  BY <1>1, <1>2, QuietEntries DEF Next
<1>4. Store(w) /\ held[w] = k /\ MapOf(pod[w]) = "LC"
  BY <1>1, <1>3, WorkerEntries
<1> QED BY <1>4 DEF Store

\* The service type of a worker's copy is that of the copy before, or of the
\* lister's.
KeepsService(v) ==
  \/ pc'[v] \notin Late
  \/ pc[v] \in Late /\ held'[v] = held[v] /\ pod'[v].service = pod[v].service
  \/ /\ held'[v] = held[v] /\ held[v] \in Keys /\ cache[held[v]] # NoPod
     /\ pod'[v].service = cache[held[v]].service

LEMMA QuietService ==
  ASSUME UNCHANGED workerVars, NEW v \in Workers PROVE KeepsService(v)
BY DEF workerVars, KeepsService

LEMMA WorkerService ==
  ASSUME BasicInv, NEW w \in Workers, WorkerStep(w), NEW v \in Workers
  PROVE  KeepsService(v)
<1>1. CASE Get(w) \/ FetchGone(w) \/ Store(w) \/ Panic(w)
  BY <1>1 DEF Get, FetchGone, Store, FinishItem, Panic, ProcessDown, KeepsService,
              Late, BasicInv, TypeOK
<1>2. CASE Fetch(w)
  <2> DEFINE p == cache[held[w]]
  <2>1. held[w] \in Keys /\ p # NoPod /\ p \in Pod /\ held' = held
    BY <1>2 DEF Fetch, Manageable, BasicInv, TypeOK, WorkersInv
  <2>2. \A q \in {Forget(p), Forget([p EXCEPT !.endpoint = Down])} : q.service = p.service
    BY <2>1 DEF Forget, Pod
  <2>3. CASE v = w
    <3>1. pod'[w] \in {Forget(p), Forget([p EXCEPT !.endpoint = Down])}
      BY <1>2 DEF Fetch, BasicInv, TypeOK
    <3> QED BY <2>1, <2>2, <2>3, <3>1 DEF KeepsService
  <2>4. CASE v # w
    BY <1>2, <2>1, <2>4 DEF Fetch, KeepsService, BasicInv, TypeOK
  <2> QED BY <2>3, <2>4
<1>3. CASE Poll(w)
  <2>1. pod[w] \in Pod /\ pc[w] = "wait" /\ held' = held
    BY <1>3, Markers DEF Poll, BasicInv, TypeOK, WorkersInv
  <2>2. pod' = [pod EXCEPT ![w] = [pod[w] EXCEPT !.endpoint = Up]]
    BY <1>3 DEF Poll
  <2>3. pod'[v].service = pod[v].service
    BY <2>1, <2>2 DEF BasicInv, TypeOK, Pod
  <2>4. pc[v] \in Late \/ pc'[v] = pc[v]
    BY <1>3, <2>1 DEF Poll, Late, BasicInv, TypeOK
  <2> QED BY <2>1, <2>3, <2>4 DEF KeepsService
<1>4. CASE WriteOK(w) \/ WriteRejected(w) \/ WriteFailed(w)
  BY <1>4 DEF WriteOK, WriteRejected, WriteFailed, Refetch, KeepsService, Late,
              BasicInv, TypeOK
<1> QED BY <1>1, <1>2, <1>3, <1>4 DEF WorkerStep

LEMMA EveryService ==
  ASSUME BasicInv, [Next]_vars
  PROVE  \A v \in Workers : KeepsService(v)
<1>1. ASSUME NEW j \in Keys, UserStep(j) PROVE UNCHANGED workerVars
  <2>1. PICK new \in Pod \cup {NoPod} : Edit(j, new)
    BY <1>1, UserStepIsEdit
  <2> QED BY <2>1 DEF Edit
<1>2. ASSUME NEW j \in Keys, InformerStep(j) \/ RCStep(j) PROVE UNCHANGED workerVars
  BY <1>2 DEF InformerStep, InformerSync, InformerTombstone, HandleEvent,
              RCStep, RCCollect, RCUpdate
<1>3. CASE Crash
  BY <1>3 DEF Crash, ProcessDown, KeepsService, Late
<1>4. CASE Start \/ UNCHANGED vars
  BY <1>4, QuietService DEF Start, vars
<1> QED BY <1>1, <1>2, <1>3, <1>4, QuietService, WorkerService DEF Next

LEMMA CacheSources ==
  ASSUME BasicInv, [Next]_vars, NEW k \in Keys
  PROVE  cache'[k] \in {cache[k], NoPod, api[k]}
<1>1. ASSUME NEW j \in Keys, UserStep(j) PROVE cache' = cache
  <2>1. PICK new \in Pod \cup {NoPod} : Edit(j, new)
    BY <1>1, UserStepIsEdit
  <2> QED BY <2>1 DEF Edit, informerVars
<1>2. ASSUME NEW j \in Keys, InformerStep(j)
      PROVE  cache'[k] \in {cache[k], NoPod, api[k]}
  BY <1>2 DEF InformerStep, InformerSync, InformerTombstone, HandleEvent, BasicInv, TypeOK
<1>3. ASSUME NEW j \in Keys, RCStep(j) PROVE cache' = cache
  BY <1>3 DEF RCStep, RCCollect, RCUpdate, informerVars
<1>4. ASSUME NEW w \in Workers, WorkerStep(w) PROVE cache'[k] \in {cache[k], NoPod}
  BY <1>4 DEF WorkerStep, Get, FetchGone, Fetch, Poll, WriteOK, WriteRejected,
              WriteFailed, Store, Panic, ProcessDown, informerVars
<1>5. CASE Crash \/ Start \/ UNCHANGED vars
  BY <1>5 DEF Crash, ProcessDown, Start, vars, informerVars
<1> QED BY <1>1, <1>2, <1>3, <1>4, <1>5 DEF Next

LEMMA ServiceStep ==
  ASSUME NEW f, BasicInv, ServiceInv(f), ServiceFixed(f), [Next]_vars
  PROVE  ServiceInv(f)'
<1>1. ASSUME NEW k \in Keys, cache'[k] # NoPod PROVE cache'[k].service = f[k]
  BY <1>1, CacheSources DEF ServiceInv, ServiceFixed
<1>2. ASSUME NEW v \in Workers, pc'[v] \in Late PROVE pod'[v].service = f[held'[v]]
  BY <1>2, EveryService DEF KeepsService, ServiceInv
<1>3. ASSUME NEW k \in Keys, podMap'["LC"][k] # NoInfo PROVE f[k] # SERVICE_BE
  <2>1. CASE podMap["LC"][k] # NoInfo
    BY <2>1 DEF ServiceInv
  <2>2. CASE podMap["LC"][k] = NoInfo
    <3>1. PICK w \in Workers : pc[w] = "store" /\ held[w] = k /\ MapOf(pod[w]) = "LC"
      BY <1>3, <2>2, WhoEnters
    <3>2. pod[w].service = f[k]
      BY <3>1 DEF ServiceInv, Late
    <3>3. pod[w].service # SERVICE_BE
      BY <3>1 DEF MapOf, GetPodServiceType, KnownOr
    <3> QED BY <3>2, <3>3
  <2> QED BY <2>1, <2>2
<1> QED BY <1>1, <1>2, <1>3 DEF ServiceInv

LEMMA ServiceInit == ASSUME NEW f, Init PROVE ServiceInv(f)
BY InLC DEF Init, ServiceInv, Late

LEMMA ServiceMeans ==
  ASSUME NEW f, BasicInv, ServiceInv(f) PROVE OnlyLCPodsInActions
<1> SUFFICES ASSUME NEW k \in Keys, Manageable(cache[k]),
                    GetPodServiceType(cache[k]) = SERVICE_BE, Lookup(k) = "LC"
             PROVE  FALSE
  BY DEF OnlyLCPodsInActions
<1>1. cache[k].service = SERVICE_BE
  BY DEF GetPodServiceType, KnownOr, SERVICE_BE, Unknown
<1>2. podMap["LC"][k] # NoInfo
  BY DEF Lookup, MapsHolding
<1> QED BY <1>1, <1>2 DEF ServiceInv, Manageable

\* Relabelling is the only source of LC entries for BE pods: when the service
\* type of each pod stays what it is, also across deletions, crashes and lost
\* events, the resource controller acts on LC pods only, as
\* resource_controller.go:566 says, although other labels change at will.
THEOREM OnlyRelabellingMisleads ==
  ASSUME NEW f
  PROVE  Spec /\ []ServiceFixed(f) => []OnlyLCPodsInActions
<1>1. Spec => []BasicInv
  BY BasicInit, BasicStep, PTL DEF Spec
<1>2. Init => ServiceInv(f)
  BY ServiceInit
<1>3. BasicInv /\ ServiceInv(f) /\ ServiceFixed(f) /\ [Next]_vars => ServiceInv(f)'
  BY ServiceStep
<1>4. BasicInv /\ ServiceInv(f) => OnlyLCPodsInActions
  BY ServiceMeans
<1> QED BY <1>1, <1>2, <1>3, <1>4, PTL DEF Spec

-----------------------------------------------------------------------------
(* What a worker waits for, and what it is given.                            *)

\* A wait ends only if the resource controller decides the awaited state for
\* the pod (server.go:297-337, resource_controller.go:286-542).  For a ready
\* pod that is left alone it does so just when the pod has a cpuset, by label
\* or by service type, which in Ready-Running must be that of LC or BE: a pod
\* there with the mixed one gets CPU_MAX, and its worker waits for good.
THEOREM WaitsThatEnd ==
  ASSUME NEW p \in Pod, GoesUp(p), MapOf(p) = "LC", p.status = "ready"
  PROVE  Applied(Decision(p, p)) /\ Decision(p, p).cpu = AwaitedCPU(p)
         <=> IF GetPodState(p) = RR
             THEN CPUSetLabel(p, p) \in {CPUSET_LC, CPUSET_BE}
             ELSE CPUSetLabel(p, p) # Absent
<1> DEFINE c == CPUSetLabel(p, p)
           d == Decision(p, p)
<1>1. Absent \notin {CPUSET_LC, CPUSET_MIX, CPUSET_BE} /\ CPUSET_MIX \notin {CPUSET_LC, CPUSET_BE}
  BY DEF Absent, CPUSET_LC, CPUSET_MIX, CPUSET_BE
<1>2. GetPodServiceType(p) # SERVICE_BE /\ GetPodState(p) \in {WU, RFS, RR}
  BY DEF MapOf, GoesUp
<1>3. RR \notin {WU, RFS} /\ CPU_MAX # CPU_OVERPROVISION
  BY DEF RR, WU, RFS, CPU_MAX, CPU_OVERPROVISION
<1>s. {WU, RFS, RR} \cap (Napping \cup {Initializing}) = {} /\ RR \notin {WU, RFS}
  BY DEF WU, RFS, RR, Napping, RCN, RLN, Initializing
<1>4. CASE c = Absent
  <2>1. d = NoDecision
    BY <1>4 DEF Decision
  <2> QED BY <1>1, <1>4, <2>1 DEF Applied, NoDecision
<1>5. CASE c = CPUSET_MIX
  <2>1. d.cpu = CPU_MAX /\ d.cpuset = CPUSET_MIX
    BY <1>1, <1>2, <1>5 DEF Decision
  <2> QED BY <1>1, <1>2, <1>3, <1>5, <2>1 DEF Applied, AwaitedCPU
<1>6. CASE c \notin {Absent, CPUSET_MIX}
  <2>1. d = StateDecision(p, c)
    BY <1>2, <1>6 DEF Decision
  <2>2. CASE GetPodState(p) = RR
    <3>1. StateDecision(p, c) = [cpu |-> CPU_OVERPROVISION, cpuset |-> c]
      BY <1>s, <2>2 DEF StateDecision
    <3> QED BY <1>6, <2>1, <2>2, <3>1 DEF Applied, AwaitedCPU
  <2>3. CASE GetPodState(p) \in {WU, RFS}
    <3>1. StateDecision(p, c) = [cpu |-> CPU_MAX, cpuset |-> CPUSET_LC]
      BY <1>s, <2>3 DEF StateDecision
    <3> QED BY <1>3, <1>6, <2>1, <2>3, <3>1 DEF Applied, AwaitedCPU
  <2> QED BY <1>2, <2>2, <2>3
<1> QED BY <1>4, <1>5, <1>6

=============================================================================
