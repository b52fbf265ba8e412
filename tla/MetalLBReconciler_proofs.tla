----------------------- MODULE MetalLBReconciler_proofs -----------------------
(***************************************************************************)
(* Proofs about MetalLBReconciler, for every environment, set of specs,    *)
(* set of names and bound on the disruptions.                              *)
(***************************************************************************)
EXTENDS MetalLBReconciler, TLAPS

(***************************************************************************)
(* The rendered objects are among the objects of the model.                *)
(***************************************************************************)
LEMMA RenderedObjects ==
    /\ Workloads \subseteq Objects
    /\ FRRK8sObjects \subseteq Objects
    /\ \A s : toDelFor(s) \subseteq FRRK8sObjects
    /\ \A s : objsFor(s) \subseteq Objects
    /\ \A s : Controller \in objsFor(s)
<1>1. Workloads \subseteq Objects
  BY DEF Workloads, Objects
<1>2. FRRK8sObjects \subseteq Objects
  BY DEF Objects
<1>3. \A s : MetalLBObjects(s) \subseteq Objects
  BY DEF Objects, MetalLBObjects
<1>4. \A s : toDelFor(s) \subseteq FRRK8sObjects
  BY DEF toDelFor
<1>5. \A s : objsFor(s) \subseteq Objects
  BY <1>2, <1>3 DEF objsFor, Applied
<1>6. \A s : Controller \in objsFor(s)
  BY DEF objsFor, Applied, MetalLBObjects, Controller, Obj
<1> QED BY <1>1, <1>2, <1>4, <1>5, <1>6

(***************************************************************************)
(* The operator starts with well-typed variables.                          *)
(***************************************************************************)
LEMMA InitTypeOK == Init => TypeOK
<1> SUFFICES ASSUME Init PROVE TypeOK
  OBVIOUS
<1>1. providers \in SUBSET Providers /\ cnoSupports \in BOOLEAN
  BY DEF Init
<1>2. crs \in [Names -> CR \cup {None}] /\ objs \in [Objects -> Object \cup {None}]
  BY DEF Init
<1>3. cached \in [Names -> Copy \cup {None}] /\ seen \in [Workloads -> Readings]
  BY DEF Init, Readings
<1>4. netCached \in Net
  BY <1>1 DEF Init, Net
<1>5. outcome \in Outcome
  BY DEF Init, NoOutcome, Outcome, Conditions, Reasons
<1>6. churn \in 0 .. MaxChurn
  BY ConstantsAssumption DEF Init
<1> QED
  BY <1>1, <1>2, <1>3, <1>4, <1>5, <1>6 DEF Init, TypeOK, Steps

(***************************************************************************)
(* Types of the reconciler's locals: what the ways out of a step leave.    *)
(***************************************************************************)
LocalsTypeOK ==
    /\ pc \in Steps
    /\ req \in Names \cup {None} /\ inst \in Copy \cup {None} /\ net \in Net \cup {None}
    /\ toDel \in SUBSET Objects /\ toApply \in SUBSET Objects
    /\ outcome \in Outcome

(***************************************************************************)
(* Leaving Reconcile resets every local.                                   *)
(***************************************************************************)
LEMMA ReturnType == Return => LocalsTypeOK'
<1>1. NoOutcome \in Outcome
  BY DEF NoOutcome, Outcome, Conditions, Reasons
<1>2. "idle" \in Steps
  BY DEF Steps
<1> QED
  BY <1>1, <1>2 DEF Return, LocalsTypeOK

(***************************************************************************)
(* Reporting, whatever the outcome, leaves well-typed locals.              *)
(***************************************************************************)
LEMMA ReportType ==
    ASSUME LocalsTypeOK, NEW c \in Conditions, NEW r \in Reasons, NEW b \in BOOLEAN,
           Report(c, r, b)
    PROVE  LocalsTypeOK'
<1>1. outcome' \in Outcome
  BY DEF Report, Outcome
<1>2. toDel' = {} /\ toApply' = {} /\ pc' = "status" /\ net' = None /\ UNCHANGED <<req, inst>>
  BY DEF Report
<1> QED
  BY <1>1, <1>2 DEF LocalsTypeOK, Steps

(***************************************************************************)
(* So does a failed sync.                                                  *)
(***************************************************************************)
LEMMA SyncFailedType == ASSUME LocalsTypeOK, SyncFailed PROVE LocalsTypeOK'
<1>1. "Degraded" \in Conditions /\ "internal error" \in Reasons
  BY DEF Conditions, Reasons
<1> QED
  BY <1>1, ReportType DEF SyncFailed

(***************************************************************************)
(* And so do the readiness checks of IsMetalLBAvailable.                   *)
(***************************************************************************)
LEMMA ReadWorkloadType ==
    ASSUME LocalsTypeOK, seen \in [Workloads -> Readings],
           ReadSpeaker \/ ReadController \/ ReadFails
    PROVE  LocalsTypeOK'
<1>1. \A c \in {"Progressing", "Available"} : c \in Conditions /\ c \in Reasons
  BY DEF Conditions, Reasons
<1>2. "internal error" \in Reasons
  BY DEF Reasons
<1>3. ASSUME Report("Progressing", "internal error", FALSE) PROVE LocalsTypeOK'
  BY <1>1, <1>2, <1>3, ReportType
<1>4. ASSUME NotReady PROVE LocalsTypeOK'
  BY <1>1, <1>4, ReportType DEF NotReady
<1>5. ASSUME Report("Available", "Available", FALSE) PROVE LocalsTypeOK'
  BY <1>1, <1>5, ReportType
<1>6. ASSUME Goto("controller") PROVE LocalsTypeOK'
  BY <1>6 DEF Goto, LocalsTypeOK, Steps
<1>7. seen[Speaker] \in Readings /\ seen[Controller] \in Readings
  BY DEF Workloads
<1>8. CASE ReadSpeaker
  BY <1>3, <1>4, <1>6, <1>7, <1>8 DEF ReadSpeaker, ReadWorkload, Readings
<1>9. CASE ReadController
  BY <1>3, <1>4, <1>5, <1>7, <1>9 DEF ReadController, ReadWorkload, Readings
<1>10. CASE ReadFails
  BY <1>3, <1>10 DEF ReadFails
<1> QED
  BY <1>8, <1>9, <1>10

(***************************************************************************)
(* Copies keep their types when they are outdated, orphaned or refreshed.  *)
(***************************************************************************)
LEMMA NetOutdated == \A x \in Net : [x EXCEPT !.current = FALSE] \in Net
BY DEF Net

(***************************************************************************)
(* What a Network event puts into the cache is a copy of the Network.      *)
(***************************************************************************)
LEMMA NetFresh == \A p \in SUBSET Providers : [providers |-> p, current |-> TRUE] \in Net
BY DEF Net

(***************************************************************************)
(* What an edit, a deletion or a watch event makes of a copy is a copy.    *)
(***************************************************************************)
LEMMA CopyTypes ==
    /\ \A c \in Copy \cup {None} : Outdated(c) \in Copy \cup {None} /\ Orphaned(c) \in Copy \cup {None}
    /\ \A s \in Specs : [spec |-> s, tag |-> "current"] \in Copy
BY DEF Outdated, Orphaned, Copy, Tags

(***************************************************************************)
(* What a watch event puts into the cache is a copy or nothing.            *)
(***************************************************************************)
LEMMA FreshType ==
    ASSUME TypeOK, NEW n \in Names PROVE Fresh(n) \in Copy \cup {None}
<1>1. crs[n] # None => crs[n].spec \in Specs
  BY DEF TypeOK, CR
<1> QED
  BY <1>1, CopyTypes DEF Fresh

(***************************************************************************)
(* The budget is never exceeded.                                           *)
(***************************************************************************)
LEMMA DisruptType == ASSUME churn \in 0 .. MaxChurn, Disrupt PROVE churn' \in 0 .. MaxChurn
BY ConstantsAssumption DEF Disrupt

(***************************************************************************)
(* Every workload reads as absent, not ready or ready.                     *)
(***************************************************************************)
LEMMA ReadingType == \A w : Reading(w) \in Readings
BY DEF Reading, Readings

(***************************************************************************)
(* A copy says of itself truthfully how it relates to the stored resource. *)
(***************************************************************************)
Faithful(c, n) ==
    c # None =>
        /\ c.tag # "gone" => crs[n] # None
        /\ c.tag = "current" => crs[n].spec = c.spec

(***************************************************************************)
(* What each step of Reconcile has in hand.                                *)
(***************************************************************************)
InHand ==
    /\ pc = "idle" => req = None /\ inst = None
    /\ pc # "idle" => req \in Names /\ inst \in Copy /\ Faithful(inst, req)
    /\ pc \notin {"idle", "status"} => req = defaultMetalLBCrName
    /\ pc = "updateNetwork" => net \in Net

(***************************************************************************)
(* What the sync applies is an object: one of the contents some spec       *)
(* renders, with an owner.                                                 *)
(***************************************************************************)
LEMMA AppliedType ==
    ASSUME TypeOK, InHand, pc = "objects", NEW o \in Objects
    PROVE  [content |-> Content(inst.spec, o), owner |-> OwnerOf(o)] \in Object
<1>1. inst.spec \in Specs /\ req \in Names
  BY DEF InHand, Copy
<1>2. Content(inst.spec, o) \in Contents /\ OwnerOf(o) \in Owners
  BY <1>1 DEF Contents, OwnerOf, Owners
<1> QED BY <1>2 DEF Object

(***************************************************************************)
(* Every step keeps the types, given what Reconcile has in hand.           *)
(***************************************************************************)
LEMMA NextTypeOK == TypeOK /\ InHand /\ [Next]_vars => TypeOK'
<1> SUFFICES ASSUME TypeOK, InHand, [Next]_vars PROVE TypeOK'
  OBVIOUS
<1> USE ConstantsAssumption, RenderedObjects DEF TypeOK, vars, cluster, ocp, caches, work, reconcile
<1>1. CASE \E n \in Names : DeleteCR(n)
  BY <1>1, CopyTypes DEF DeleteCR, Disrupt, CR, Object, Owners
<1>2. CASE \E n \in Names : \E s \in Specs : CreateCR(n, s)
  BY <1>2 DEF CreateCR, Disrupt, CR, Conditions
<1>3. CASE \E n \in Names : \E s \in Specs : EditCR(n, s)
  BY <1>3, CopyTypes DEF EditCR, Disrupt, CopiesOutdated, CR
<1>4. CASE CollectGarbage
  BY <1>4 DEF CollectGarbage
<1>5. CASE \E w \in Workloads : Rollout(w)
  BY <1>5 DEF Rollout
<1>6. CASE \E w \in Workloads : PodsFail(w)
  BY <1>6 DEF PodsFail, Disrupt
<1>7. CASE \E w \in Workloads : WorkloadEvent(w)
  BY <1>7, ReadingType DEF WorkloadEvent
<1>8. CASE \E p \in SUBSET Providers : EditNetwork(p)
  BY <1>8, NetOutdated DEF EditNetwork, Disrupt
<1>9. CASE \E n \in Names : WatchEvent(n)
  BY <1>9, FreshType DEF WatchEvent
<1>10. CASE \E n \in Names : Resync(n)
  BY <1>10 DEF Resync, Disrupt
<1>11. CASE \E n \in Names : Timer(n)
  BY <1>11 DEF Timer
<1>12. CASE UpgradeCNO
  BY <1>12 DEF UpgradeCNO
<1>13. CASE NetworkEvent
  BY <1>13, NetFresh DEF NetworkEvent
<1>14. CASE SetupWebhook
  BY <1>14 DEF SetupWebhook
<1>15. CASE Restart
  <2>1. LocalsTypeOK'
    BY <1>15, ReturnType DEF Restart
  <2>2. \A n \in Names : Fresh(n) \in Copy \cup {None}
    BY FreshType
  <2>3. cached' \in [Names -> Copy \cup {None}]
    BY <1>15, <2>2 DEF Restart
  <2>4. seen' \in [Workloads -> Readings]
    BY <1>15, ReadingType DEF Restart
  <2>5. netCached' \in Net
    BY <1>15, NetFresh DEF Restart
  <2>6. churn' \in 0 .. MaxChurn
    BY <1>15 DEF Restart, Disrupt
  <2> QED
    BY <1>15, <2>1, <2>3, <2>4, <2>5, <2>6 DEF Restart, LocalsTypeOK
<1>16. CASE \E n \in Names : GetNotFound(n)
  BY <1>16 DEF GetNotFound, Take
<1>17. CASE \E n \in Names : GetMisnamed(n)
  <2>1. [cond |-> "Degraded", reason |-> "IncorrectMetalLBResourceName", requeue |-> FALSE] \in Outcome
    BY DEF Outcome, Conditions, Reasons
  <2> QED
    BY <1>17, <2>1 DEF GetMisnamed, Take, Steps
<1>18. CASE \E n \in Names : GetMetalLB(n)
  BY <1>18 DEF GetMetalLB, Take, Steps
<1>19. CASE CNOTooOld
  <2>1. LocalsTypeOK' /\ req \in Names
    BY <1>19, ReturnType DEF CNOTooOld, InHand
  <2> QED
    BY <1>19, <2>1 DEF CNOTooOld, LocalsTypeOK
<1>20. CASE CNOSupports
  BY <1>20 DEF CNOSupports, Goto, Steps
<1>21. CASE GetNetwork
  BY <1>21 DEF GetNetwork, Goto, Steps
<1>22. CASE UpdateNetwork
  <2>1. net.providers \in SUBSET Providers
    BY <1>22 DEF UpdateNetwork, InHand, Net
  <2> QED
    BY <1>22, <2>1, NetOutdated DEF UpdateNetwork, WriteNetwork, Steps
<1>23. CASE UpdateNetworkConflicts
  BY <1>23, SyncFailedType DEF UpdateNetworkConflicts, LocalsTypeOK
<1>24. CASE SkipInvalid
  BY <1>24 DEF SkipInvalid, Goto, Steps
<1>25. CASE RefuseBGPMode \/ RenderFails
  BY <1>25, SyncFailedType DEF RefuseBGPMode, RenderFails, LocalsTypeOK
<1>26. CASE Render
  BY <1>26 DEF Render, Steps
<1>27. CASE \E o \in Objects : DeleteObj(o)
  BY <1>27 DEF DeleteObj
<1>28. CASE \E o \in Objects : ApplyObj(o)
  <2>1. PICK o \in Objects : Apply(o)
    BY <1>28 DEF ApplyObj
  <2>4. [content |-> Content(inst.spec, o), owner |-> OwnerOf(o)] \in Object
    BY <2>1, AppliedType DEF Apply
  <2> QED
    BY <2>1, <2>4 DEF Apply, Steps
<1>29. CASE ReadSpeaker
  BY <1>29, ReadWorkloadType DEF ReadSpeaker, ReadWorkload, LocalsTypeOK
<1>30. CASE ReadController
  BY <1>30, ReadWorkloadType DEF ReadController, ReadWorkload, LocalsTypeOK
<1>31. CASE StatusWritten
  <2>1. LocalsTypeOK' /\ req \in Names
    BY <1>31, ReturnType DEF StatusWritten, InHand
  <2>2. outcome.cond \in Conditions
    BY DEF Outcome
  <2>5. crs[req] \in CR
    BY <1>31, <2>1 DEF StatusWritten, Accepted, InHand, Faithful
  <2>6. [crs[req] EXCEPT !.cond = outcome.cond] \in CR
    BY <2>2, <2>5 DEF CR
  <2>3. crs' \in [Names -> CR \cup {None}]
    BY <1>31, <2>1, <2>6 DEF StatusWritten
  <2>4. cached' \in [Names -> Copy \cup {None}]
    BY <1>31, <2>1, CopyTypes DEF StatusWritten
  <2> QED
    BY <1>31, <2>1, <2>3, <2>4 DEF StatusWritten, Requeue, LocalsTypeOK
<1>32. CASE StatusUnchanged
  <2>1. LocalsTypeOK' /\ req \in Names
    BY <1>32, ReturnType DEF StatusUnchanged, InHand
  <2> QED
    BY <1>32, <2>1 DEF StatusUnchanged, Requeue, LocalsTypeOK
<1>33. CASE StatusRefused
  BY <1>33, ReturnType DEF StatusRefused, StatusError, LocalsTypeOK
<1>34. CASE SyncCallFails
  BY <1>34, SyncFailedType DEF SyncCallFails, Disrupt, LocalsTypeOK
<1>35. CASE ReadFails
  <2>1. LocalsTypeOK'
    BY <1>35, ReadWorkloadType DEF LocalsTypeOK
  <2>2. churn' \in 0 .. MaxChurn
    BY <1>35, DisruptType DEF ReadFails
  <2> QED
    BY <1>35, <2>1, <2>2 DEF ReadFails, LocalsTypeOK
<1>36. CASE StatusCallFails
  BY <1>36, ReturnType DEF StatusCallFails, Disrupt, StatusError, LocalsTypeOK
<1>37. CASE \E n \in Names : GetFails(n)
  BY <1>37 DEF GetFails, Disrupt, Take
<1>38. CASE UNCHANGED vars
  BY <1>38
<1> QED
  BY <1>1, <1>2, <1>3, <1>4, <1>5, <1>6, <1>7, <1>8, <1>9, <1>10, <1>11, <1>12, <1>13,
     <1>14, <1>15, <1>16, <1>17, <1>18, <1>19, <1>20, <1>21, <1>22, <1>23, <1>24, <1>25,
     <1>26, <1>27, <1>28, <1>29, <1>30, <1>31, <1>32, <1>33, <1>34, <1>35, <1>36, <1>37,
     <1>38 DEF Next, Environment, Start, Step, Fault

(***************************************************************************)
(* Every cached copy is faithful, of resources and of the Network alike.   *)
(***************************************************************************)
CachesFaithful ==
    /\ \A n \in Names : Faithful(cached[n], n)
    /\ netCached.current => netCached.providers = providers
    /\ net # None /\ net.current => net.providers = providers

(***************************************************************************)
(* The readiness checks decide one of four things.                         *)
(***************************************************************************)
LEMMA ReadSteps ==
    ASSUME TypeOK, ReadSpeaker \/ ReadController
    PROVE  \/ Report("Progressing", "internal error", FALSE)
           \/ NotReady
           \/ pc = "speaker" /\ Goto("controller")
           \/ pc = "controller" /\ Report("Available", "Available", FALSE)
<1>1. seen[Speaker] \in Readings /\ seen[Controller] \in Readings
  BY DEF TypeOK, Workloads
<1>2. CASE ReadSpeaker
  BY <1>1, <1>2 DEF ReadSpeaker, ReadWorkload, Readings
<1>3. CASE ReadController
  BY <1>1, <1>3 DEF ReadController, ReadWorkload, Readings
<1> QED BY <1>2, <1>3

(***************************************************************************)
(* An outdated copy is never marked current, and is there no less.         *)
(***************************************************************************)
LEMMA OutdatedTags ==
    \A c \in Copy \cup {None} :
        /\ Outdated(c) = None <=> c = None
        /\ c # None => /\ Outdated(c).tag # "current"
                       /\ Outdated(c).tag = "gone" <=> c.tag = "gone"
                       /\ Outdated(c).spec = c.spec
<1> SUFFICES ASSUME NEW c \in Copy PROVE
        /\ Outdated(c) # None /\ Outdated(c).tag # "current" /\ Outdated(c).spec = c.spec
        /\ Outdated(c).tag = "gone" <=> c.tag = "gone"
  BY DEF Outdated
<1>1. None \notin Copy
  BY ConstantsAssumption
<1>2. CASE c.tag = "current"
  BY <1>1, <1>2 DEF Outdated, Copy, Tags
<1>3. CASE c.tag # "current"
  BY <1>1, <1>3 DEF Outdated
<1> QED BY <1>2, <1>3

(***************************************************************************)
(* The steps that touch a resource, the Network or a copy of one.          *)
(***************************************************************************)
LEMMA CopySteps ==
    ASSUME TypeOK, [Next]_vars
    PROVE  \/ \E n \in Names : DeleteCR(n) \/ \E s \in Specs : CreateCR(n, s) \/ EditCR(n, s)
           \/ \E n \in Names : WatchEvent(n)
           \/ \E p \in SUBSET Providers : EditNetwork(p)
           \/ NetworkEvent \/ GetNetwork \/ UpdateNetwork \/ StatusWritten \/ Restart
           \/ UNCHANGED <<crs, cached, netCached, providers>> /\ net' \in {net, None}
<1> USE DEF cluster, ocp, caches, work, reconcile, vars
<1>1. CASE Environment
  BY <1>1 DEF Environment, CollectGarbage, Rollout, PodsFail, WorkloadEvent, Resync, Timer,
              UpgradeCNO, SetupWebhook
<1>2. CASE \E n \in Names : Start(n)
  BY <1>2 DEF Start, GetNotFound, GetMisnamed, GetMetalLB
<1>3. CASE Step
  <2>1. CASE \/ CNOTooOld \/ CNOSupports \/ UpdateNetworkConflicts
             \/ SkipInvalid \/ RefuseBGPMode \/ RenderFails \/ Render
    BY <2>1 DEF CNOTooOld, CNOSupports, UpdateNetworkConflicts, SkipInvalid, RefuseBGPMode,
                RenderFails, Render, Return, Goto, SyncFailed, Report
  <2>2. CASE \E o \in Objects : DeleteObj(o) \/ ApplyObj(o)
    BY <2>2 DEF DeleteObj, ApplyObj, Apply
  <2>3. CASE ReadSpeaker \/ ReadController
    <3>1. UNCHANGED <<crs, cached, netCached, providers>>
      BY <2>3 DEF ReadSpeaker, ReadController, ReadWorkload
    <3>2. net' \in {net, None}
      BY <2>3, ReadSteps DEF Report, NotReady, Goto
    <3> QED BY <3>1, <3>2
  <2>4. CASE StatusUnchanged \/ StatusRefused
    BY <2>4 DEF StatusUnchanged, StatusRefused, StatusError, Return
  <2> QED BY <1>3, <2>1, <2>2, <2>3, <2>4 DEF Step
<1>4. CASE Fault
  BY <1>4 DEF Fault, SyncCallFails, ReadFails, StatusCallFails, GetFails, StatusError, Return,
              SyncFailed, Report
<1>5. CASE UNCHANGED vars
  BY <1>5
<1> QED BY <1>1, <1>2, <1>3, <1>4, <1>5 DEF Next

(***************************************************************************)
(* Copies stay faithful: a write to the store outdates every copy of it,   *)
(* and a watch event brings the cached one up to date.                     *)
(***************************************************************************)
LEMMA NextCachesFaithful == TypeOK /\ InHand /\ CachesFaithful /\ [Next]_vars => CachesFaithful'
<1> SUFFICES ASSUME TypeOK, InHand, CachesFaithful, [Next]_vars PROVE CachesFaithful'
  OBVIOUS
<1> USE DEF cluster, ocp, caches, work, reconcile
<1>0. None \notin CR \cup Copy
  BY ConstantsAssumption
<1>1. CASE \E n \in Names : DeleteCR(n)
  <2>1. PICK m \in Names : DeleteCR(m)
    BY <1>1
  <2>2. \A n \in Names : Faithful(cached[n], n)'
    BY <1>0, <2>1 DEF DeleteCR, TypeOK, CachesFaithful, Faithful, Orphaned, Copy
  <2> QED
    BY <2>1, <2>2 DEF DeleteCR, CachesFaithful
<1>2. CASE \E n \in Names, s \in Specs : CreateCR(n, s)
  <2>1. PICK m \in Names, s \in Specs : CreateCR(m, s)
    BY <1>2
  <2>2. \A n \in Names : Faithful(cached[n], n)'
    BY <1>0, <2>1 DEF CreateCR, TypeOK, CachesFaithful, Faithful
  <2> QED
    BY <2>1, <2>2 DEF CreateCR, CachesFaithful
<1>3. CASE \E n \in Names, s \in Specs : EditCR(n, s)
  <2>1. PICK m \in Names, s \in Specs : EditCR(m, s)
    BY <1>3
  <2>2. \A n \in Names : Faithful(cached[n], n)'
    <3> SUFFICES ASSUME NEW n \in Names PROVE Faithful(cached[n], n)'
      OBVIOUS
    <3>1. CASE n # m
      BY <2>1, <3>1 DEF EditCR, CopiesOutdated, TypeOK, CachesFaithful, Faithful
    <3>2. CASE n = m
      <4>1. cached'[n] = Outdated(cached[n]) /\ crs'[n] # None
        BY <1>0, <2>1, <3>2 DEF EditCR, CopiesOutdated, TypeOK, CR
      <4> QED BY <4>1, OutdatedTags DEF Faithful, TypeOK
    <3> QED BY <3>1, <3>2
  <2> QED
    BY <2>1, <2>2 DEF EditCR, CachesFaithful
<1>4. CASE \E n \in Names : WatchEvent(n)
  BY <1>4 DEF WatchEvent, TypeOK, CachesFaithful, Faithful, Fresh
<1>5. CASE \E p \in SUBSET Providers : EditNetwork(p)
  BY <1>5 DEF EditNetwork, CachesFaithful, Faithful, TypeOK, Net
<1>6. CASE NetworkEvent
  BY <1>6 DEF NetworkEvent, CachesFaithful, Faithful
<1>7. CASE GetNetwork
  BY <1>7 DEF GetNetwork, Goto, CachesFaithful, Faithful
<1>8. CASE UpdateNetwork
  BY <1>8 DEF UpdateNetwork, WriteNetwork, CachesFaithful, Faithful, TypeOK, Net
<1>9. CASE StatusWritten
  <2>1. \A n \in Names : Faithful(cached[n], n)'
    <3> SUFFICES ASSUME NEW n \in Names PROVE Faithful(cached[n], n)'
      OBVIOUS
    <3>1. CASE n # req
      BY <1>9, <3>1 DEF StatusWritten, TypeOK, CachesFaithful, Faithful
    <3>2. CASE n = req
      <4>1. cached'[n] = Outdated(cached[n]) /\ crs[n] \in CR
        BY <1>0, <1>9, <3>2 DEF StatusWritten, Accepted, InHand, Faithful, TypeOK
      <4>2. crs'[n] # None
        BY <1>0, <1>9, <3>2, <4>1 DEF StatusWritten, TypeOK, CR, Outcome
      <4> QED BY <4>1, <4>2, OutdatedTags DEF Faithful, TypeOK
    <3> QED BY <3>1, <3>2
  <2> QED
    BY <1>9, <2>1 DEF StatusWritten, Return, CachesFaithful
<1>10. CASE Restart
  BY <1>10 DEF Restart, Return, CachesFaithful, Faithful, Fresh
<1>11. CASE UNCHANGED <<crs, cached, netCached, providers>> /\ net' \in {net, None}
  BY <1>11 DEF CachesFaithful, Faithful
<1> QED
  BY <1>1, <1>2, <1>3, <1>4, <1>5, <1>6, <1>7, <1>8, <1>9, <1>10, <1>11, CopySteps

(***************************************************************************)
(* What a step does to the reconciler's locals, and with them to crs and   *)
(* objs: the case analysis of the lemmas below.                            *)
(***************************************************************************)
Quiet == UNCHANGED <<crs, objs, reconcile>>

Gives ==
    /\ pc \notin {"idle", "status"}
    /\ UNCHANGED <<crs, objs>>
    /\ SyncFailed \/ NotReady \/ Report("Progressing", "internal error", FALSE)

Finds ==
    /\ UNCHANGED <<crs, objs>>
    /\ \/ pc = "speaker" /\ Goto("controller")
       \/ pc = "controller" /\ Report("Available", "Available", FALSE)

(***************************************************************************)
(* The case analysis of the reconciler's locals.                           *)
(***************************************************************************)
LEMMA ReconcileSteps ==
    ASSUME TypeOK, [Next]_vars
    PROVE  \/ Quiet \/ Gives \/ Finds
           \/ UNCHANGED reconcile /\ (CollectGarbage \/ \E n \in Names, s \in Specs : CreateCR(n, s))
           \/ \E n \in Names : DeleteCR(n) \/ \E s \in Specs : EditCR(n, s)
           \/ UNCHANGED <<crs, objs>> /\ \E p \in SUBSET Providers : EditNetwork(p)
           \/ UNCHANGED <<crs, objs>> /\ \E n \in Names : GetMisnamed(n) \/ GetMetalLB(n)
           \/ UNCHANGED objs /\ Return
           \/ UNCHANGED <<crs, objs>> /\ (CNOSupports \/ GetNetwork \/ UpdateNetwork \/ SkipInvalid \/ Render)
           \/ UNCHANGED crs /\ \E o \in Objects : DeleteObj(o) \/ ApplyObj(o)
<1> USE DEF cluster, ocp, caches, work, reconcile, vars, Quiet, Gives, Finds
<1>1. CASE Environment
  BY <1>1 DEF Environment, CollectGarbage, Rollout, PodsFail, WorkloadEvent, Resync, Timer, EditNetwork,
              UpgradeCNO, SetupWebhook, WatchEvent, NetworkEvent, Restart, CreateCR
<1>2. CASE \E n \in Names : Start(n)
  BY <1>2 DEF Start, GetNotFound, GetMisnamed, GetMetalLB
<1>3. CASE Step
  <2>1. CASE CNOTooOld \/ StatusWritten \/ StatusUnchanged \/ StatusRefused
    BY <2>1 DEF CNOTooOld, StatusWritten, StatusUnchanged, StatusRefused, StatusError
  <2>2. CASE CNOSupports \/ GetNetwork \/ UpdateNetwork \/ SkipInvalid \/ Render
    BY <2>2 DEF CNOSupports, GetNetwork, UpdateNetwork, WriteNetwork, SkipInvalid, Render
  <2>3. CASE \E o \in Objects : DeleteObj(o) \/ ApplyObj(o)
    BY <2>3 DEF DeleteObj, ApplyObj, Apply
  <2>4. CASE ReadSpeaker \/ ReadController
    <3>1. UNCHANGED <<crs, objs>> /\ pc \notin {"idle", "status"}
      BY <2>4 DEF ReadSpeaker, ReadController, ReadWorkload
    <3> QED BY <2>4, <3>1, ReadSteps
  <2>5. CASE UpdateNetworkConflicts \/ RefuseBGPMode \/ RenderFails
    BY <2>5 DEF UpdateNetworkConflicts, RefuseBGPMode, RenderFails
  <2> QED BY <1>3, <2>1, <2>2, <2>3, <2>4, <2>5 DEF Step
<1>4. CASE Fault
  BY <1>4 DEF Fault, SyncCallFails, ReadFails, StatusCallFails, StatusError, GetFails
<1>5. CASE UNCHANGED vars
  BY <1>5
<1> QED BY <1>1, <1>2, <1>3, <1>4, <1>5 DEF Next

(***************************************************************************)
(* What Reconcile has in hand, at every step.                              *)
(***************************************************************************)
LEMMA NextInHand == TypeOK /\ InHand /\ CachesFaithful /\ [Next]_vars => InHand'
<1> SUFFICES ASSUME TypeOK, InHand, CachesFaithful, [Next]_vars PROVE InHand'
  OBVIOUS
<1> USE DEF reconcile
<1>0. None \notin CR \cup Copy \cup Net \cup Names
  BY ConstantsAssumption
<1>1. CASE Quiet
  BY <1>1 DEF Quiet, InHand, Faithful
<1>2. CASE Gives \/ Finds
  BY <1>2 DEF Gives, Finds, SyncFailed, NotReady, Report, Goto, InHand, Faithful
<1>3. CASE UNCHANGED reconcile /\ CollectGarbage
  BY <1>3 DEF CollectGarbage, InHand, Faithful
<1>4. CASE UNCHANGED reconcile /\ \E n \in Names, s \in Specs : CreateCR(n, s)
  BY <1>0, <1>4 DEF InHand, Faithful, CreateCR, TypeOK
<1>5. CASE \E n \in Names : DeleteCR(n)
  <2>1. PICK n \in Names : DeleteCR(n)
    BY <1>5
  <2>2. UNCHANGED <<pc, req, net>>
    BY <2>1 DEF DeleteCR
  <2>3. CASE req = n
    <3>1. pc # "idle" /\ inst \in Copy
      BY <1>0, <2>1, <2>3 DEF InHand
    <3>2. inst' \in Copy /\ inst'.tag = "gone"
      BY <1>0, <2>1, <2>3, <3>1 DEF DeleteCR, Orphaned, Copy, Tags
    <3> QED BY <1>0, <2>2, <3>1, <3>2 DEF InHand, Faithful
  <2>4. CASE req # n
    BY <2>1, <2>2, <2>4 DEF DeleteCR, InHand, Faithful, TypeOK
  <2> QED BY <2>3, <2>4
<1>6. CASE \E n \in Names, s \in Specs : EditCR(n, s)
  <2>1. PICK n \in Names, s \in Specs : EditCR(n, s)
    BY <1>6
  <2>2. UNCHANGED <<pc, req, net>>
    BY <2>1 DEF EditCR
  <2>3. CASE req = n
    <3>1. inst' = Outdated(inst) /\ crs'[n] # None
      BY <1>0, <2>1, <2>3 DEF EditCR, CopiesOutdated, TypeOK, CR
    <3> QED BY <1>0, <2>1, <2>2, <2>3, <3>1, CopyTypes, OutdatedTags DEF InHand, Faithful
  <2>4. CASE req # n
    BY <2>1, <2>2, <2>4 DEF EditCR, CopiesOutdated, InHand, Faithful, TypeOK
  <2> QED BY <2>3, <2>4
<1>7. CASE UNCHANGED <<crs, objs>> /\ \E p \in SUBSET Providers : EditNetwork(p)
  BY <1>0, <1>7, NetOutdated DEF EditNetwork, InHand, Faithful
<1>8. CASE UNCHANGED <<crs, objs>> /\ \E n \in Names : GetMisnamed(n) \/ GetMetalLB(n)
  BY <1>0, <1>8 DEF GetMisnamed, GetMetalLB, InHand, CachesFaithful, Faithful, TypeOK
<1>9. CASE UNCHANGED objs /\ Return
  BY <1>9 DEF Return, InHand
<1>10. CASE UNCHANGED <<crs, objs>> /\ (CNOSupports \/ GetNetwork \/ UpdateNetwork \/ SkipInvalid \/ Render)
  BY <1>10 DEF CNOSupports, GetNetwork, UpdateNetwork, WriteNetwork, SkipInvalid, Render, Goto,
               InHand, Faithful, TypeOK
<1>11. CASE UNCHANGED crs /\ \E o \in Objects : DeleteObj(o) \/ ApplyObj(o)
  BY <1>11 DEF DeleteObj, ApplyObj, Apply, InHand, Faithful
<1> QED
  BY <1>1, <1>2, <1>3, <1>4, <1>5, <1>6, <1>7, <1>8, <1>9, <1>10, <1>11, ReconcileSteps

(***************************************************************************)
(* What the reconciler may come to write into the status.                  *)
(***************************************************************************)
Decided ==
    /\ pc = "status" /\ req = defaultMetalLBCrName =>
          \/ outcome.reason = "internal error"
          \/ outcome.cond = "Progressing" /\ outcome.requeue
          \/ outcome.cond = "Available"
    /\ pc = "status" /\ req # defaultMetalLBCrName => outcome.cond = "Degraded"

(***************************************************************************)
(* Every way into the status write decides one of these outcomes.          *)
(***************************************************************************)
LEMMA NextDecided == TypeOK /\ InHand /\ Decided /\ [Next]_vars => Decided'
<1> SUFFICES ASSUME TypeOK, InHand, Decided, [Next]_vars PROVE Decided'
  OBVIOUS
<1> USE DEF reconcile
<1>1. CASE Quiet
  BY <1>1 DEF Quiet, Decided
<1>2. CASE Gives \/ Finds
  <2>1. CASE Gives
    <3>1. req' = defaultMetalLBCrName
      BY <2>1 DEF Gives, InHand, SyncFailed, NotReady, Report
    <3>2. CASE SyncFailed
      BY <3>1, <3>2 DEF SyncFailed, Report, Decided
    <3>4. CASE Report("Progressing", "internal error", FALSE)
      BY <3>1, <3>4 DEF Report, Decided
    <3>3. CASE NotReady
      BY <3>1, <3>3 DEF NotReady, Report, Decided
    <3> QED BY <2>1, <3>2, <3>3, <3>4 DEF Gives
  <2>2. CASE Finds
    <3>1. req' = defaultMetalLBCrName
      BY <2>2 DEF Finds, InHand, Report, Goto
    <3>2. CASE pc' = "controller"
      BY <3>2 DEF Decided
    <3>3. CASE outcome' = [cond |-> "Available", reason |-> "Available", requeue |-> FALSE]
      BY <3>1, <3>3 DEF Decided
    <3> QED BY <2>2, <3>2, <3>3 DEF Finds, Report, Goto
  <2> QED BY <1>2, <2>1, <2>2
<1>3. CASE UNCHANGED <<pc, req, outcome>>
  BY <1>3 DEF Decided
<1>4. CASE UNCHANGED <<crs, objs>> /\ \E n \in Names : GetMisnamed(n) \/ GetMetalLB(n)
  <2>1. ASSUME NEW n \in Names, GetMisnamed(n) PROVE Decided'
    BY <2>1 DEF GetMisnamed, Decided
  <2>2. ASSUME NEW n \in Names, GetMetalLB(n) PROVE Decided'
    BY <2>2 DEF GetMetalLB, Decided
  <2> QED BY <1>4, <2>1, <2>2
<1>5. CASE pc' # "status"
  BY <1>5 DEF Decided
<1>6. ASSUME NEW n \in Names, DeleteCR(n) \/ \E s \in Specs : EditCR(n, s) PROVE UNCHANGED <<pc, req, outcome>>
  BY <1>6 DEF DeleteCR, EditCR
<1>7. ASSUME NEW p \in SUBSET Providers, EditNetwork(p) PROVE UNCHANGED <<pc, req, outcome>>
  BY <1>7 DEF EditNetwork
<1>8. ASSUME Return PROVE pc' # "status"
  BY <1>8 DEF Return
<1>9. ASSUME CNOSupports \/ GetNetwork \/ UpdateNetwork \/ SkipInvalid \/ Render PROVE pc' # "status"
  BY <1>9 DEF CNOSupports, GetNetwork, UpdateNetwork, WriteNetwork, SkipInvalid, Render, Goto
<1>10. ASSUME NEW o \in Objects, DeleteObj(o) \/ ApplyObj(o) PROVE pc' # "status"
  BY <1>10 DEF DeleteObj, ApplyObj, Apply
<1> QED
  BY <1>1, <1>2, <1>3, <1>4, <1>5, <1>6, <1>7, <1>8, <1>9, <1>10, ReconcileSteps

(***************************************************************************)
(* The steps that change the stored resources and objects.                 *)
(***************************************************************************)
LEMMA ClusterSteps ==
    ASSUME TypeOK, [Next]_vars
    PROVE  \/ UNCHANGED <<crs, objs>>
           \/ CollectGarbage
           \/ \E n \in Names : DeleteCR(n) \/ \E s \in Specs : CreateCR(n, s) \/ EditCR(n, s)
           \/ \E o \in Objects : DeleteObj(o) \/ ApplyObj(o)
           \/ StatusWritten
<1> USE DEF reconcile, cluster, ocp, caches, work, vars
<1>1. CASE \E n \in Names : Start(n)
  BY <1>1 DEF Start, GetNotFound, GetMisnamed, GetMetalLB
<1>2. CASE Fault
  BY <1>2 DEF Fault, SyncCallFails, ReadFails, StatusCallFails, GetFails
<1>3. CASE CNOTooOld \/ CNOSupports \/ GetNetwork \/ UpdateNetwork \/ UpdateNetworkConflicts
  BY <1>3 DEF CNOTooOld, CNOSupports, GetNetwork, UpdateNetwork, WriteNetwork, UpdateNetworkConflicts
<1>4. CASE SkipInvalid \/ RefuseBGPMode \/ RenderFails \/ Render \/ StatusUnchanged \/ StatusRefused
  BY <1>4 DEF SkipInvalid, RefuseBGPMode, RenderFails, Render, StatusUnchanged, StatusRefused
<1>5. CASE ReadSpeaker \/ ReadController
  BY <1>5 DEF ReadSpeaker, ReadController, ReadWorkload
<1>6. CASE Environment
  BY <1>6 DEF Environment, Rollout, PodsFail, WorkloadEvent, Resync, Timer, EditNetwork, UpgradeCNO,
              SetupWebhook, WatchEvent, NetworkEvent, Restart
<1>7. CASE UNCHANGED vars
  BY <1>7
<1> QED
  BY <1>1, <1>2, <1>3, <1>4, <1>5, <1>6, <1>7 DEF Next, Step

(***************************************************************************)
(* MisnamedInert: the sync works for "metallb" only, and a copy it took    *)
(* before the resource went is known to be gone.                           *)
(***************************************************************************)
LEMMA NextMisnamedInert ==
    TypeOK /\ InHand /\ Decided /\ MisnamedInert /\ [Next]_vars => MisnamedInert'
<1> SUFFICES ASSUME TypeOK, InHand, Decided, MisnamedInert, [Next]_vars PROVE MisnamedInert'
  OBVIOUS
<1> USE DEF reconcile, cluster, defaultMetalLBCrName
<1>0. None \notin CR \cup Copy \cup Object \cup Names
  BY ConstantsAssumption
<1>1. CASE UNCHANGED <<crs, objs>>
  BY <1>1 DEF MisnamedInert
<1>2. CASE CollectGarbage
  BY <1>2 DEF CollectGarbage, MisnamedInert
<1>3. CASE \E n \in Names, s \in Specs : CreateCR(n, s)
  BY <1>0, <1>3 DEF CreateCR, MisnamedInert, TypeOK
<1>4. CASE \E n \in Names : DeleteCR(n)
  BY <1>0, <1>4 DEF DeleteCR, MisnamedInert, TypeOK, Object
<1>5. CASE \E n \in Names, s \in Specs : EditCR(n, s)
  BY <1>0, <1>5 DEF EditCR, MisnamedInert, TypeOK, CR
<1>6. CASE \E o \in Objects : DeleteObj(o)
  BY <1>6 DEF DeleteObj, MisnamedInert, TypeOK
<1>7. CASE \E o \in Objects : ApplyObj(o)
  BY <1>0, <1>7 DEF ApplyObj, Apply, OwnerOf, InHand, Faithful, MisnamedInert, TypeOK
<1>8. CASE StatusWritten
  <2>1. UNCHANGED objs /\ crs[req] \in CR /\ req \in Names
    BY <1>0, <1>8 DEF StatusWritten, Accepted, InHand, Faithful, TypeOK
  <2>2. crs'[req] # None /\ crs'[req].cond = outcome.cond
    BY <1>0, <1>8, <2>1 DEF StatusWritten, TypeOK, CR, Outcome
  <2>3. \A n \in Names \ {req} : crs'[n] = crs[n]
    BY <1>8, <2>1 DEF StatusWritten, TypeOK
  <2>4. req # defaultMetalLBCrName => outcome.cond = "Degraded"
    BY <1>8 DEF StatusWritten, Decided
  <2>5. crs[defaultMetalLBCrName] # None => crs'[defaultMetalLBCrName] # None
    BY ConstantsAssumption, <2>2, <2>3
  <2>6. \A n \in Names \ {defaultMetalLBCrName} :
            crs'[n] # None => crs'[n].cond \in {"none", "Degraded"}
    BY <2>2, <2>3, <2>4 DEF MisnamedInert
  <2> QED BY <2>1, <2>5, <2>6 DEF MisnamedInert
<1> QED
  BY <1>1, <1>2, <1>3, <1>4, <1>5, <1>6, <1>7, <1>8, ClusterSteps

(***************************************************************************)
(* Whatever is stored was admitted, by this process or an earlier one, and *)
(* so was every copy.                                                      *)
(***************************************************************************)
Admissible(s) == Validate(s, Env.FRRK8sExternalNamespace)

AdmittedOnly ==
    /\ \A n \in Names : crs[n] # None => Admissible(crs[n].spec)
    /\ \A n \in Names : cached[n] # None => Admissible(cached[n].spec)
    /\ inst # None => Admissible(inst.spec)

(***************************************************************************)
(* A spec that does not hang on the default namespace is valid whether or  *)
(* not the webhook has been registered.                                    *)
(***************************************************************************)
LEMMA StaysValid ==
    ASSUME NEW s, Admissible(s), ~NeedsDefaultNS(s), NEW b
    PROVE  Validate(s, b)
BY DEF Admissible, Validate, validateFRRK8sConfig, NeedsDefaultNS

(***************************************************************************)
(* An orphaned copy keeps its spec and is marked gone.                     *)
(***************************************************************************)
LEMMA OrphanedSpec ==
    \A c \in Copy \cup {None} :
        /\ Orphaned(c) = None <=> c = None
        /\ c # None => Orphaned(c).spec = c.spec /\ Orphaned(c).tag = "gone"
BY ConstantsAssumption DEF Orphaned, Copy, Tags

(***************************************************************************)
(* Only the webhook lets specs in, and copies only ever show stored specs. *)
(***************************************************************************)
LEMMA NextAdmittedOnly == TypeOK /\ InHand /\ AdmittedOnly /\ [Next]_vars => AdmittedOnly'
<1> SUFFICES ASSUME TypeOK, InHand, AdmittedOnly, [Next]_vars PROVE AdmittedOnly'
  OBVIOUS
<1> USE DEF reconcile, caches, cluster
<1>0. None \notin CR \cup Copy \cup Object \cup Names
  BY ConstantsAssumption
<1>1. \A n \in Names : crs'[n] # None => Admissible(crs'[n].spec)
  <2>1. CASE UNCHANGED crs
    BY <2>1 DEF AdmittedOnly
  <2>2. CASE \E n \in Names, s \in Specs : CreateCR(n, s)
    BY <2>2 DEF CreateCR, Admitted, Admissible, AdmittedOnly, TypeOK
  <2>3. CASE \E n \in Names : DeleteCR(n)
    BY <2>3 DEF DeleteCR, AdmittedOnly, TypeOK
  <2>4. CASE \E n \in Names, s \in Specs : EditCR(n, s)
    BY <2>4 DEF EditCR, Admitted, Admissible, AdmittedOnly, TypeOK, CR
  <2>5. CASE StatusWritten
    <3>1. crs[req] \in CR /\ req \in Names
      BY <1>0, <2>5 DEF StatusWritten, Accepted, InHand, Faithful, TypeOK
    <3>2. \A n \in Names : crs'[n] # None => crs[n] # None /\ crs'[n].spec = crs[n].spec
      BY <1>0, <2>5, <3>1 DEF StatusWritten, TypeOK, CR
    <3> QED BY <3>2 DEF AdmittedOnly
  <2>6. ASSUME NEW o \in Objects, DeleteObj(o) \/ ApplyObj(o) PROVE UNCHANGED crs
    BY <2>6 DEF DeleteObj, ApplyObj, Apply
  <2>7. CollectGarbage => UNCHANGED crs
    BY DEF CollectGarbage
  <2> QED BY <2>1, <2>2, <2>3, <2>4, <2>5, <2>6, <2>7, ClusterSteps
<1>2. \A n \in Names : cached'[n] # None => Admissible(cached'[n].spec)
  <2>1. CASE UNCHANGED cached
    BY <2>1 DEF AdmittedOnly
  <2>2. CASE \E n \in Names, s \in Specs : EditCR(n, s)
    BY <1>0, <2>2, OutdatedTags DEF EditCR, CopiesOutdated, AdmittedOnly, TypeOK
  <2>3. CASE \E n \in Names : DeleteCR(n)
    BY <1>0, <2>3, OrphanedSpec DEF DeleteCR, AdmittedOnly, TypeOK
  <2>4. CASE \E n \in Names : WatchEvent(n)
    BY <2>4 DEF WatchEvent, Fresh, AdmittedOnly, TypeOK
  <2>5. CASE StatusWritten
    <3>1. req \in Names
      BY <2>5 DEF StatusWritten, InHand
    <3> QED BY <1>0, <2>5, <3>1, OutdatedTags DEF StatusWritten, AdmittedOnly, TypeOK
  <2>6. CASE Restart
    BY <2>6 DEF Restart, Fresh, AdmittedOnly
  <2>7. ASSUME NEW p \in SUBSET Providers, EditNetwork(p) PROVE UNCHANGED cached
    BY <2>7 DEF EditNetwork
  <2>8. ASSUME NEW n \in Names, NEW s \in Specs, CreateCR(n, s) PROVE UNCHANGED cached
    BY <2>8 DEF CreateCR
  <2>9. NetworkEvent \/ GetNetwork \/ UpdateNetwork => UNCHANGED cached
    BY DEF NetworkEvent, GetNetwork, UpdateNetwork, WriteNetwork
  <2> QED BY <2>1, <2>2, <2>3, <2>4, <2>5, <2>6, <2>7, <2>8, <2>9, CopySteps
<1>3. inst' # None => Admissible(inst'.spec)
  <2>1. CASE UNCHANGED inst \/ inst' = None
    BY <2>1 DEF AdmittedOnly
  <2>2. CASE \E n \in Names, s \in Specs : EditCR(n, s)
    BY <1>0, <2>2, OutdatedTags DEF EditCR, CopiesOutdated, AdmittedOnly, TypeOK
  <2>3. CASE \E n \in Names : DeleteCR(n)
    BY <1>0, <2>3, OrphanedSpec DEF DeleteCR, AdmittedOnly, TypeOK
  <2>4. CASE \E n \in Names : GetMisnamed(n) \/ GetMetalLB(n)
    BY <2>4 DEF GetMisnamed, GetMetalLB, AdmittedOnly
  <2>5. Quiet \/ Gives \/ Finds => UNCHANGED inst
    BY DEF Quiet, Gives, Finds, SyncFailed, NotReady, Report, Goto
  <2>6. Return => inst' = None
    BY DEF Return
  <2>7. CNOSupports \/ GetNetwork \/ UpdateNetwork \/ SkipInvalid \/ Render => UNCHANGED inst
    BY DEF CNOSupports, GetNetwork, UpdateNetwork, WriteNetwork, SkipInvalid, Render, Goto
  <2>8. ASSUME NEW o \in Objects, DeleteObj(o) \/ ApplyObj(o) PROVE UNCHANGED inst
    BY <2>8 DEF DeleteObj, ApplyObj, Apply
  <2>9. ASSUME NEW p \in SUBSET Providers, EditNetwork(p) PROVE UNCHANGED inst
    BY <2>9 DEF EditNetwork
  <2> QED BY <2>1, <2>2, <2>3, <2>4, <2>5, <2>6, <2>7, <2>8, <2>9, ReconcileSteps
<1> QED
  BY <1>1, <1>2, <1>3 DEF AdmittedOnly

(***************************************************************************)
(* The sync's progress: what it still has to delete and to apply, and that *)
(* the rest is done and stays done as long as the resource exists.         *)
(***************************************************************************)
Removed(s) == \A o \in FRRK8sObjects \ objsFor(s) : o \in toDel \/ objs[o] = None
InPlace(s) == \A o \in objsFor(s) \ toApply : Matches(o, s)

SyncProgress ==
    /\ pc = "objects" =>
          /\ toApply # {} /\ toApply \subseteq objsFor(inst.spec)
          /\ toDel = {} \/ toApply = objsFor(inst.spec)
    /\ pc = "objects" /\ inst.tag # "gone" => Removed(inst.spec) /\ InPlace(inst.spec)
    /\ /\ pc \in {"speaker", "controller"} \/ Reporting("Available")
       /\ inst.tag # "gone" /\ ~NeedsDefaultNS(inst.spec)
       => Deployed(inst.spec)

(***************************************************************************)
(* Every frr-k8s object the mode does not use is on the list to delete.    *)
(***************************************************************************)
LEMMA UnusedAreDeleted == \A s : FRRK8sObjects \ objsFor(s) \subseteq toDelFor(s)
<1>1. \A o \in FRRK8sObjects : o.kind \notin {"Role", "RoleBinding"}
  BY DEF FRRK8sObjects, FRRK8sMonitors, FRRStartup, FRRK8sDaemon, StatusCleaner, WebhookService,
         ValidatingWebhook, WebhookSecret, Obj
<1> QED BY <1>1 DEF objsFor, Applied, toDelFor

(***************************************************************************)
(* What is in place is not undone from outside while its owner lives.      *)
(***************************************************************************)
LEMMA StaysInPlace ==
    ASSUME TypeOK, NEW s, NEW o \in Objects,
           CollectGarbage \/ \E n \in Names \ {defaultMetalLBCrName} : DeleteCR(n)
    PROVE  /\ Matches(o, s) => Matches(o, s)'
           /\ objs[o] = None => objs'[o] = None
<1>1. CASE CollectGarbage
  BY <1>1 DEF CollectGarbage, Garbage, Matches, TypeOK, defaultMetalLBCrName
<1>2. CASE \E n \in Names \ {defaultMetalLBCrName} : DeleteCR(n)
  BY <1>2, ConstantsAssumption DEF DeleteCR, Matches, TypeOK
<1> QED BY <1>1, <1>2

(***************************************************************************)
(* One deletion of the sync.                                               *)
(***************************************************************************)
LEMMA DeleteProgress ==
    ASSUME TypeOK, InHand, SyncProgress, NEW o \in Objects, DeleteObj(o)
    PROVE  SyncProgress'
<1>1. pc = "objects" /\ pc' = "objects" /\ UNCHANGED <<inst, toApply, req, outcome>>
  BY DEF DeleteObj
<1>2. toApply = objsFor(inst.spec)
  BY <1>1 DEF DeleteObj, Foremost, SyncProgress
<1>3. inst.tag # "gone" => Removed(inst.spec)'
  <2> SUFFICES ASSUME inst.tag # "gone" PROVE Removed(inst.spec)'
    OBVIOUS
  <2>1. Removed(inst.spec) /\ FRRK8sObjects \subseteq Objects
    BY <1>1, RenderedObjects DEF SyncProgress
  <2> QED BY <1>1, <2>1 DEF DeleteObj, Removed, TypeOK
<1>4. InPlace(inst.spec)'
  BY <1>1, <1>2 DEF InPlace
<1> QED
  BY <1>1, <1>2, <1>3, <1>4 DEF SyncProgress, Reporting

(***************************************************************************)
(* One application of the sync.                                            *)
(***************************************************************************)
LEMMA ApplyProgress ==
    ASSUME TypeOK, InHand, SyncProgress, NEW o \in Objects, ApplyObj(o)
    PROVE  SyncProgress'
<1> DEFINE s == inst.spec
<1>1. pc = "objects" /\ toDel = {} /\ toDel' = {} /\ o \in toApply /\ UNCHANGED <<inst, req, outcome>>
  BY DEF ApplyObj, Apply, Foremost
<1>2. toApply' = toApply \ {o} /\ objs' = [objs EXCEPT ![o] = [content |-> Content(s, o), owner |-> OwnerOf(o)]]
  BY DEF ApplyObj, Apply
<1>3. toApply \subseteq objsFor(s)
  BY <1>1 DEF SyncProgress
<1>4. \A p \in FRRK8sObjects \ objsFor(s) : objs[p] = None => objs'[p] = None
  BY <1>1, <1>2, <1>3, RenderedObjects DEF TypeOK
<1>5. inst.tag # "gone" => Removed(s)'
  BY <1>1, <1>4 DEF SyncProgress, Removed
<1>6. inst.tag # "gone" => Matches(o, s)'
  <2>1. req = defaultMetalLBCrName
    BY <1>1 DEF InHand
  <2>2. objs'[o] = [content |-> Content(s, o), owner |-> OwnerOf(o)] /\ objs'[o] # None
    BY <1>1, <1>2, AppliedType, ConstantsAssumption DEF TypeOK
  <2>3. objs'[o].content = Content(s, o) /\ objs'[o].owner = OwnerOf(o)
    BY <2>2
  <2> QED BY <1>1, <2>1, <2>2, <2>3 DEF Matches, OwnerOf
<1>7. inst.tag # "gone" => InPlace(s)'
  BY <1>1, <1>2, <1>3, <1>6, RenderedObjects DEF SyncProgress, InPlace, Matches, TypeOK
<1>8. CASE toApply = {o}
  <2>1. pc' = "speaker" /\ toApply' = {}
    BY <1>2, <1>8 DEF ApplyObj, Apply
  <2>2. inst.tag # "gone" => Deployed(s)'
    BY <1>1, <1>5, <1>7, <2>1 DEF Removed, InPlace, Deployed
  <2> QED BY <1>1, <2>1, <2>2 DEF SyncProgress
<1>9. CASE toApply # {o}
  <2>1. pc' = "objects" /\ toApply' # {}
    BY <1>1, <1>2, <1>9 DEF ApplyObj, Apply
  <2> QED BY <1>1, <1>2, <1>3, <1>5, <1>7, <2>1 DEF SyncProgress, Reporting
<1> QED BY <1>8, <1>9

(***************************************************************************)
(* Every step keeps the sync's progress: the sync's own by doing its next  *)
(* item, everybody else's by not touching what is owned.                   *)
(***************************************************************************)
LEMMA NextSyncProgress ==
    TypeOK /\ InHand /\ AdmittedOnly /\ SyncProgress /\ [Next]_vars => SyncProgress'
<1> SUFFICES ASSUME TypeOK, InHand, AdmittedOnly, SyncProgress, [Next]_vars PROVE SyncProgress'
  OBVIOUS
<1> USE DEF reconcile
<1>0. None \notin CR \cup Copy \cup Net \cup Names
  BY ConstantsAssumption
<1>1. CASE Quiet
  BY <1>1 DEF Quiet, SyncProgress, Removed, InPlace, Reporting, Deployed, Matches
<1>2. CASE Gives
  <2>1. pc' = "status" /\ outcome'.cond # "Available"
    <3>1. CASE SyncFailed
      BY <3>1 DEF SyncFailed, Report
    <3>2. CASE NotReady
      BY <3>2 DEF NotReady, Report
    <3>3. CASE Report("Progressing", "internal error", FALSE)
      BY <3>3 DEF Report
    <3> QED BY <1>2, <3>1, <3>2, <3>3 DEF Gives
  <2> QED BY <2>1 DEF SyncProgress, Reporting
<1>3. CASE Finds
  <2>1. pc \in {"speaker", "controller"} /\ pc' \in {"controller", "status"} /\ UNCHANGED <<objs, inst>>
    BY <1>3 DEF Finds, Goto, Report
  <2> QED BY <2>1 DEF SyncProgress, Deployed, Matches
<1>4. CASE UNCHANGED reconcile /\ \E n \in Names, t \in Specs : CreateCR(n, t)
  <2>1. UNCHANGED objs
    BY <1>4 DEF CreateCR
  <2> QED BY <1>4, <2>1 DEF SyncProgress, Removed, InPlace, Reporting, Deployed, Matches
<1>5. CASE UNCHANGED reconcile /\ CollectGarbage
  <2>1. inst \in Copy /\ inst.tag # "gone" /\ Removed(inst.spec) /\ InPlace(inst.spec)
            => Removed(inst.spec)' /\ InPlace(inst.spec)'
    BY <1>5, StaysInPlace, RenderedObjects DEF Removed, InPlace
  <2>2. inst \in Copy /\ Deployed(inst.spec) => Deployed(inst.spec)'
    BY <1>5, StaysInPlace, RenderedObjects DEF Deployed
  <2>3. pc # "idle" => inst \in Copy
    BY DEF InHand
  <2> QED BY <1>5, <2>1, <2>2, <2>3 DEF SyncProgress, Reporting
<1>6. CASE \E n \in Names : DeleteCR(n)
  <2>1. PICK n \in Names : DeleteCR(n)
    BY <1>6
  <2>2. UNCHANGED <<pc, req, toDel, toApply, outcome>>
    BY <2>1 DEF DeleteCR
  <2>3. CASE req = n
    <3>1. pc # "idle" /\ inst \in Copy
      BY <1>0, <2>3 DEF InHand
    <3>2. inst'.spec = inst.spec /\ inst'.tag = "gone"
      BY <1>0, <2>1, <2>3, <3>1, OrphanedSpec DEF DeleteCR
    <3> QED BY <2>2, <3>2 DEF SyncProgress, Reporting
  <2>4. CASE req # n /\ req = defaultMetalLBCrName
    <3>1. UNCHANGED inst
      BY <2>1, <2>4 DEF DeleteCR
    <3>2. Removed(inst.spec) /\ InPlace(inst.spec) => Removed(inst.spec)' /\ InPlace(inst.spec)'
      BY <2>1, <2>2, <2>4, <3>1, StaysInPlace, RenderedObjects DEF Removed, InPlace
    <3>3. Deployed(inst.spec) => Deployed(inst.spec)'
      BY <2>1, <2>4, <3>1, StaysInPlace, RenderedObjects DEF Deployed
    <3> QED BY <2>2, <3>1, <3>2, <3>3 DEF SyncProgress, Reporting
  <2>5. CASE req # defaultMetalLBCrName
    <3>1. pc \in {"idle", "status"}
      BY <2>5 DEF InHand
    <3> QED BY <2>2, <2>5, <3>1 DEF SyncProgress, Reporting
  <2> QED BY <2>3, <2>4, <2>5
<1>7. CASE \E n \in Names, t \in Specs : EditCR(n, t)
  <2>1. PICK n \in Names, t \in Specs : EditCR(n, t)
    BY <1>7
  <2>2. UNCHANGED <<objs, pc, req, toDel, toApply, outcome>>
    BY <2>1 DEF EditCR
  <2>3. pc # "idle" => inst \in Copy /\ inst'.spec = inst.spec /\ (inst'.tag = "gone" <=> inst.tag = "gone")
    BY <1>0, <2>1, OutdatedTags DEF EditCR, CopiesOutdated, InHand
  <2>4. pc # "idle" =>
           /\ Removed(inst.spec) => Removed(inst.spec)'
           /\ InPlace(inst.spec) => InPlace(inst.spec)'
           /\ Deployed(inst.spec) => Deployed(inst.spec)'
    BY <2>2, <2>3 DEF Removed, InPlace, Deployed, Matches
  <2> QED BY <2>2, <2>3, <2>4 DEF SyncProgress, Reporting
<1>8. CASE UNCHANGED <<crs, objs>> /\ \E p \in SUBSET Providers : EditNetwork(p)
  <2>1. UNCHANGED <<objs, pc, req, inst, toDel, toApply, outcome>>
    BY <1>8 DEF EditNetwork
  <2> QED BY <2>1 DEF SyncProgress, Removed, InPlace, Reporting, Deployed, Matches
<1>9. CASE \E n \in Names : GetMisnamed(n) \/ GetMetalLB(n)
  <2>1. ASSUME NEW n \in Names, GetMisnamed(n) PROVE SyncProgress'
    BY <2>1 DEF GetMisnamed, SyncProgress, Reporting
  <2>2. ASSUME NEW n \in Names, GetMetalLB(n) PROVE SyncProgress'
    BY <2>2 DEF GetMetalLB, SyncProgress, Reporting
  <2> QED BY <1>9, <2>1, <2>2
<1>10. CASE Return
  BY <1>10 DEF Return, SyncProgress, Reporting
<1>11. CASE CNOSupports \/ GetNetwork \/ UpdateNetwork
  BY <1>11 DEF CNOSupports, GetNetwork, UpdateNetwork, WriteNetwork, Goto, SyncProgress, Reporting
<1>12. CASE SkipInvalid
  <2>1. pc = "render" /\ inst \in Copy /\ pc' = "speaker" /\ UNCHANGED inst
    BY <1>12 DEF SkipInvalid, Goto, InHand
  <2>2. NeedsDefaultNS(inst.spec)
    BY <1>0, <1>12, <2>1, StaysValid DEF SkipInvalid, AdmittedOnly
  <2> QED BY <2>1, <2>2 DEF SyncProgress
<1>13. CASE Render
  <2>1. /\ pc' = "objects" /\ UNCHANGED <<objs, inst>>
        /\ toDel' = toDelFor(inst.spec) /\ toApply' = objsFor(inst.spec)
    BY <1>13 DEF Render, cluster
  <2>2. toApply' # {} /\ Removed(inst.spec)' /\ InPlace(inst.spec)'
    BY <2>1, RenderedObjects, UnusedAreDeleted DEF Removed, InPlace
  <2> QED BY <2>1, <2>2 DEF SyncProgress, Reporting
<1>14. CASE \E o \in Objects : DeleteObj(o) \/ ApplyObj(o)
  BY <1>14, DeleteProgress, ApplyProgress
<1> QED
  BY <1>1, <1>2, <1>3, <1>4, <1>5, <1>6, <1>7, <1>8, <1>9, <1>10, <1>11, <1>12, <1>13, <1>14,
     ReconcileSteps

(***************************************************************************)
(* No lost wakeup.  The steps that could lose one: those that take a key,  *)
(* end a Reconcile, or change what is stored, cached or scheduled.         *)
(***************************************************************************)
LEMMA WakeupSteps ==
    ASSUME TypeOK, InHand, [Next]_vars
    PROVE  \/ UNCHANGED <<crs, objs, cached, work, req>>
           \/ req = defaultMetalLBCrName /\ req' = req
           \/ CollectGarbage \/ Restart
           \/ \E n \in Names : DeleteCR(n) \/ \E s \in Specs : CreateCR(n, s) \/ EditCR(n, s)
           \/ \E n \in Names : WatchEvent(n) \/ Resync(n) \/ Timer(n)
           \/ \E n \in Names : GetNotFound(n) \/ GetMisnamed(n) \/ GetMetalLB(n) \/ GetFails(n)
           \/ CNOTooOld \/ StatusWritten \/ StatusUnchanged \/ StatusRefused \/ StatusCallFails
<1> USE DEF reconcile, cluster, ocp, caches, work, vars
<1>1. CASE Environment
  BY <1>1 DEF Environment, Rollout, PodsFail, WorkloadEvent, EditNetwork, UpgradeCNO,
              SetupWebhook, NetworkEvent
<1>2. CASE Step
  <2>1. CASE CNOSupports \/ GetNetwork \/ UpdateNetwork \/ UpdateNetworkConflicts
    BY <2>1 DEF CNOSupports, GetNetwork, UpdateNetwork, WriteNetwork, UpdateNetworkConflicts,
                Goto, SyncFailed, Report
  <2>2. CASE SkipInvalid \/ RefuseBGPMode \/ RenderFails \/ Render
    BY <2>2 DEF SkipInvalid, RefuseBGPMode, RenderFails, Render, Goto, SyncFailed, Report
  <2>3. CASE \E o \in Objects : DeleteObj(o) \/ ApplyObj(o)
    BY <2>3 DEF DeleteObj, ApplyObj, Apply, InHand
  <2>4. CASE ReadSpeaker \/ ReadController
    <3>1. pc \in {"speaker", "controller"}
      BY <2>4 DEF ReadSpeaker, ReadController, ReadWorkload
    <3>2. req' = req
      BY <2>4, ReadSteps DEF Report, NotReady, Goto
    <3> QED BY <3>1, <3>2 DEF InHand
  <2> QED BY <1>2, <2>1, <2>2, <2>3, <2>4 DEF Step
<1>3. CASE Fault
  BY <1>3 DEF Fault, SyncCallFails, ReadFails, SyncFailed, Report
<1>4. CASE UNCHANGED vars
  BY <1>4
<1> QED BY <1>1, <1>2, <1>3, <1>4 DEF Next, Start

(***************************************************************************)
(* Every step keeps NoLostWakeup: one that leaves the resource unfinished  *)
(* also leaves it with an event, a queued or delayed key, or a Reconcile   *)
(* in progress.                                                            *)
(***************************************************************************)
LEMMA NextNoLostWakeup ==
    /\ TypeOK /\ InHand /\ CachesFaithful /\ Decided /\ SyncProgress /\ NoLostWakeup
    /\ TypeOK' /\ CachesFaithful' /\ [Next]_vars
    => NoLostWakeup'
<1> DEFINE default == defaultMetalLBCrName
<1> SUFFICES ASSUME TypeOK, InHand, CachesFaithful, Decided, SyncProgress, NoLostWakeup,
                    TypeOK', CachesFaithful', [Next]_vars
             PROVE  NoLostWakeup'
  OBVIOUS
<1> USE DEF reconcile, cluster, ocp, caches, work
<1>0. /\ None \notin CR \cup Copy \cup Names \cup Object
      /\ default \in Names
  BY ConstantsAssumption
<1> DEFINE Finished == Deployed(crs[default].spec) /\ crs[default].cond = "Available"
<1> SUFFICES ASSUME crs'[default] # None, ~Pending(default)', ~NeedsDefaultNS(crs[default].spec)'
             PROVE  Finished'
  BY DEF NoLostWakeup
<1>1. /\ cached'[default] = [spec |-> crs'[default].spec, tag |-> "current"]
      /\ default \notin queue' /\ default \notin delayed' /\ req' # default
  BY DEF Pending, Lags, Fresh
<1>cached. cached'[default] # None /\ cached'[default].tag = "current"
  <2>1. crs'[default].spec \in Specs
    BY <1>0 DEF TypeOK, CR
  <2> QED BY <1>0, <1>1, <2>1, CopyTypes
\* Nothing that concerns the resource changed: it was finished before.
<1>2. ASSUME crs'[default] = crs[default], cached'[default] = cached[default], req # default,
             default \in queue \cup delayed => default \in queue' \cup delayed',
             Deployed(crs[default].spec) => Deployed(crs[default].spec)'
      PROVE  Finished'
  <2>1. ~Pending(default)
    BY <1>1, <1>2 DEF Pending, Lags, Fresh
  <2>2. Finished
    BY <1>2, <2>1 DEF NoLostWakeup
  <2> QED BY <1>2, <2>2
<1>3. ASSUME UNCHANGED <<crs, objs>> PROVE Deployed(crs[default].spec) => Deployed(crs[default].spec)'
  BY <1>3 DEF Deployed, Matches
<1>4. CASE UNCHANGED <<crs, objs, cached, work, req>>
  BY <1>1, <1>2, <1>3, <1>4
<1>5. CASE req = default /\ req' = req
  BY <1>1, <1>5
<1>6. CASE CollectGarbage
  <2>1. UNCHANGED <<crs, cached, work, req>>
    BY <1>6 DEF CollectGarbage
  <2>2. Deployed(crs[default].spec) => Deployed(crs[default].spec)'
    BY <1>6, <2>1, StaysInPlace, RenderedObjects DEF Deployed
  <2> QED BY <1>1, <1>2, <2>1, <2>2
<1>7. CASE Restart
  BY <1>0, <1>1, <1>7 DEF Restart
<1>8. CASE \E n \in Names : DeleteCR(n)
  <2>1. PICK n \in Names : DeleteCR(n)
    BY <1>8
  <2>2. n # default /\ crs'[default] = crs[default] /\ cached'[default] = cached[default]
    BY <1>0, <2>1 DEF DeleteCR, TypeOK
  <2>3. UNCHANGED <<work, req>>
    BY <2>1 DEF DeleteCR
  <2>4. Deployed(crs[default].spec) => Deployed(crs[default].spec)'
    BY <2>1, <2>2, StaysInPlace, RenderedObjects DEF Deployed
  <2> QED BY <1>1, <1>2, <2>2, <2>3, <2>4
<1>9. CASE \E n \in Names, s \in Specs : CreateCR(n, s)
  <2>1. PICK n \in Names, s \in Specs : CreateCR(n, s)
    BY <1>9
  <2>2. UNCHANGED <<objs, cached, work, req>>
    BY <2>1 DEF CreateCR
  <2>3. CASE n = default
    <3>1. crs[default] = None /\ cached[default] # None /\ cached[default].tag = "current"
      BY <1>cached, <2>1, <2>2, <2>3 DEF CreateCR
    <3> QED BY <1>0, <3>1 DEF CachesFaithful, Faithful
  <2>4. CASE n # default
    <3>1. crs'[default] = crs[default]
      BY <1>0, <2>1, <2>4 DEF CreateCR, TypeOK
    <3>2. Deployed(crs[default].spec) => Deployed(crs[default].spec)'
      BY <2>2, <3>1 DEF Deployed, Matches
    <3> QED BY <1>1, <1>2, <2>2, <3>1, <3>2
  <2> QED BY <2>3, <2>4
<1>10. CASE \E n \in Names, s \in Specs : EditCR(n, s)
  <2>1. PICK n \in Names, s \in Specs : EditCR(n, s)
    BY <1>10
  <2>2. UNCHANGED <<objs, work, req>>
    BY <2>1 DEF EditCR
  <2>3. CASE n = default
    <3>1. cached'[default] = Outdated(cached[default])
      BY <1>0, <2>1, <2>3 DEF EditCR, CopiesOutdated, TypeOK
    <3> QED BY <1>0, <1>cached, <3>1, OutdatedTags DEF TypeOK
  <2>4. CASE n # default
    <3>1. crs'[default] = crs[default] /\ cached'[default] = cached[default]
      BY <1>0, <2>1, <2>4 DEF EditCR, CopiesOutdated, TypeOK
    <3>2. Deployed(crs[default].spec) => Deployed(crs[default].spec)'
      BY <2>2, <3>1 DEF Deployed, Matches
    <3> QED BY <1>1, <1>2, <2>2, <3>1, <3>2
  <2> QED BY <2>3, <2>4
<1>11. CASE \E n \in Names : WatchEvent(n) \/ Resync(n) \/ Timer(n)
  <2>1. UNCHANGED <<crs, objs, req>>
    BY <1>11 DEF WatchEvent, Resync, Timer
  <2>2. default \in queue \cup delayed => default \in queue' \cup delayed'
    BY <1>11 DEF WatchEvent, Resync, Timer
  <2>3. cached'[default] = cached[default]
    BY <1>0, <1>1, <1>11 DEF WatchEvent, Resync, Timer, TypeOK
  <2> QED BY <1>1, <1>2, <1>3, <2>1, <2>2, <2>3
<1>12. CASE \E n \in Names : GetNotFound(n) \/ GetMisnamed(n) \/ GetMetalLB(n) \/ GetFails(n)
  <2>1. PICK n \in Names : GetNotFound(n) \/ GetMisnamed(n) \/ GetMetalLB(n) \/ GetFails(n)
    BY <1>12
  <2>2. UNCHANGED <<crs, objs, cached>> /\ queue' = queue \ {n} /\ delayed \subseteq delayed'
    BY <2>1 DEF GetNotFound, GetMisnamed, GetMetalLB, GetFails, Take
  <2>3. req = None
    BY <2>1 DEF GetNotFound, GetMisnamed, GetMetalLB, GetFails, Take, InHand
  <2>4. n # default
    <3>1. cached[default] # None
      BY <1>cached, <2>2
    <3>2. GetNotFound(n) => n # default
      BY <3>1 DEF GetNotFound
    <3>3. GetMisnamed(n) => n # default
      BY DEF GetMisnamed
    <3>4. GetMetalLB(n) => n # default
      BY <1>1 DEF GetMetalLB
    <3>5. GetFails(n) => n # default
      BY <1>1 DEF GetFails
    <3> QED BY <2>1, <3>2, <3>3, <3>4, <3>5
  <2> QED BY <1>0, <1>1, <1>2, <1>3, <2>2, <2>3, <2>4
<1>13. CASE CNOTooOld
  <2>1. req = default /\ req \in delayed'
    BY <1>13 DEF CNOTooOld, InHand
  <2> QED BY <1>1, <2>1
<1>14. CASE StatusWritten
  <2>1. req \in Names /\ cached' = [cached EXCEPT ![req] = Outdated(@)] /\ UNCHANGED <<objs, queue>>
        /\ delayed \subseteq delayed' /\ crs' = [crs EXCEPT ![req].cond = outcome.cond]
    BY <1>14 DEF StatusWritten, InHand
  <2>2. req # default
    <3>1. req = default => cached'[default] = Outdated(cached[default])
      BY <1>0, <2>1 DEF TypeOK
    <3> QED BY <1>0, <1>cached, <3>1, OutdatedTags DEF TypeOK
  <2>3. crs'[default] = crs[default] /\ cached'[default] = cached[default]
    BY <1>0, <2>1, <2>2 DEF TypeOK
  <2>4. Deployed(crs[default].spec) => Deployed(crs[default].spec)'
    BY <2>1, <2>3 DEF Deployed, Matches
  <2> QED BY <1>2, <2>1, <2>2, <2>3, <2>4
<1>15. CASE StatusUnchanged
  <2>1. UNCHANGED <<crs, objs, cached, queue>> /\ delayed' = delayed \cup Requeue
    BY <1>15 DEF StatusUnchanged
  <2>2. CASE req # default
    BY <1>2, <1>3, <2>1, <2>2
  <2>3. CASE req = default
    <3>1. /\ inst.tag = "current" /\ outcome.reason # "internal error"
          /\ crs[default].cond = outcome.cond /\ pc = "status"
      BY <1>15, <2>3 DEF StatusUnchanged, Accepted, ReasonAccepted
    <3>2. ~outcome.requeue
      BY <1>1, <2>1, <2>3 DEF Requeue
    <3>3. outcome.cond = "Available"
      BY <2>3, <3>1, <3>2 DEF Decided
    <3>4. inst \in Copy /\ crs[default].spec = inst.spec
      BY <1>0, <2>3, <3>1 DEF InHand, Faithful
    <3>5. Deployed(crs[default].spec)
      BY <2>1, <2>3, <3>1, <3>3, <3>4 DEF SyncProgress, Reporting
    <3> QED BY <1>3, <2>1, <3>1, <3>3, <3>5
  <2> QED BY <2>2, <2>3
<1>16. CASE StatusRefused \/ StatusCallFails
  <2>1. UNCHANGED <<crs, objs, cached, queue>>
    BY <1>16 DEF StatusRefused, StatusCallFails
  <2>2. delayed \subseteq delayed' /\ (req = default => default \in delayed')
    BY <1>16 DEF StatusRefused, StatusCallFails, StatusError
  <2> QED BY <1>1, <1>2, <1>3, <2>1, <2>2
<1> QED
  BY <1>4, <1>5, <1>6, <1>7, <1>8, <1>9, <1>10, <1>11, <1>12, <1>13, <1>14, <1>15, <1>16, WakeupSteps

-----------------------------------------------------------------------------
(***************************************************************************)
(* The inductive invariant, and what follows from it.                      *)
(***************************************************************************)
IInv ==
    /\ TypeOK /\ InHand /\ CachesFaithful /\ Decided
    /\ AdmittedOnly /\ SyncProgress
    /\ MisnamedInert /\ NoLostWakeup

(***************************************************************************)
(* The invariant holds at start.                                           *)
(***************************************************************************)
LEMMA InitIInv == Init => IInv
<1> SUFFICES ASSUME Init PROVE IInv
  OBVIOUS
<1>1. TypeOK
  BY InitTypeOK
<1>2. defaultMetalLBCrName \in Names
  BY ConstantsAssumption
<1>3. InHand /\ CachesFaithful /\ Decided
  BY DEF Init, InHand, CachesFaithful, Faithful, Decided
<1>4. AdmittedOnly /\ SyncProgress
  BY DEF Init, AdmittedOnly, SyncProgress, Reporting
<1>5. MisnamedInert /\ NoLostWakeup
  BY <1>2 DEF Init, MisnamedInert, NoLostWakeup
<1> QED BY <1>1, <1>3, <1>4, <1>5 DEF IInv

(***************************************************************************)
(* The invariant is inductive: each conjunct from the ones before it.      *)
(***************************************************************************)
LEMMA NextIInv == IInv /\ [Next]_vars => IInv'
BY NextTypeOK, NextInHand, NextCachesFaithful, NextDecided, NextAdmittedOnly, NextSyncProgress,
   NextMisnamedInert, NextNoLostWakeup DEF IInv

(***************************************************************************)
(* The inductive invariant holds in every state of every execution.        *)
(***************************************************************************)
THEOREM Inductive == Spec => []IInv
BY InitIInv, NextIInv, PTL DEF Spec

(***************************************************************************)
(* The variables keep their types.                                         *)
(***************************************************************************)
THEOREM TypeCorrect == Spec => []TypeOK
<1>1. IInv => TypeOK
  BY DEF IInv
<1> QED BY <1>1, Inductive, PTL

(***************************************************************************)
(* Available is reported only with every object in place, whatever edits,  *)
(* deletions, faults and restarts a sync meets (controller.go, the sync    *)
(* before the report in reconcileResource).                                *)
(***************************************************************************)
THEOREM AvailableIsTrue == Spec => []AvailableMeansDeployed
<1>1. IInv => AvailableMeansDeployed
  BY DEF IInv, SyncProgress, AvailableMeansDeployed
<1> QED BY <1>1, Inductive, PTL

(***************************************************************************)
(* A resource that is not deployed and Available has something under way.  *)
(***************************************************************************)
THEOREM NothingLost == Spec => []NoLostWakeup
<1>1. IInv => NoLostWakeup
  BY DEF IInv
<1> QED BY <1>1, Inductive, PTL

(***************************************************************************)
(* Only a live "metallb" owns objects, and only it is ever Available.      *)
(***************************************************************************)
THEOREM OnlyMetalLBOwns == Spec => []MisnamedInert
<1>1. IInv => MisnamedInert
  BY DEF IInv
<1> QED BY <1>1, Inductive, PTL

(***************************************************************************)
(* The write of the Network adds FRR to what the Network says then.        *)
(***************************************************************************)
LEMMA NetworkStep ==
    ASSUME TypeOK, InHand, CachesFaithful, [Next]_vars, pc = "updateNetwork", pc' = "render"
    PROVE  providers' = providers \cup {"FRR"}
<1> USE DEF reconcile
<1>1. ~(Quiet \/ Gives \/ Finds \/ Return \/ UNCHANGED reconcile)
  BY DEF Quiet, Gives, Finds, SyncFailed, NotReady, Report, Goto, Return
<1>2. ~(CNOSupports \/ GetNetwork \/ SkipInvalid \/ Render)
  BY DEF CNOSupports, GetNetwork, SkipInvalid, Render
<1>3. ~(\E n \in Names : GetMisnamed(n) \/ GetMetalLB(n))
  BY DEF GetMisnamed, GetMetalLB, Take
<1>4. ~(\E o \in Objects : DeleteObj(o) \/ ApplyObj(o))
  BY DEF DeleteObj, ApplyObj, Apply
<1>5. ~(\E n \in Names : DeleteCR(n) \/ \E s \in Specs : EditCR(n, s))
  BY DEF DeleteCR, EditCR
<1>6. ~(\E p \in SUBSET Providers : EditNetwork(p))
  BY DEF EditNetwork
<1>7. UpdateNetwork
  BY <1>1, <1>2, <1>3, <1>4, <1>5, <1>6, ReconcileSteps
<1>8. net # None
  BY ConstantsAssumption DEF InHand
<1> QED BY <1>7, <1>8 DEF UpdateNetwork, WriteNetwork, CachesFaithful

(***************************************************************************)
(* DeployFRRK8s (openshift.go) writes back the copy it read, and the API   *)
(* server accepts it only while it is current: no provider is lost or      *)
(* revived.                                                                *)
(***************************************************************************)
THEOREM NetworkPreserved == Spec => ProvidersPreserved
<1>1. IInv /\ [Next]_vars =>
        [pc = "updateNetwork" /\ pc' = "render" => providers' = providers \cup {"FRR"}]_vars
  BY NetworkStep DEF IInv
<1> QED BY <1>1, Inductive, PTL DEF Spec, ProvidersPreserved

(***************************************************************************)
(* The frr-k8s daemon precedes the speaker in every list to apply, and     *)
(* both carry the values of the same spec.                                 *)
(***************************************************************************)
LEMMA DaemonFirst ==
    /\ \A s : Content(s, Speaker) = <<BGPType(s), s.cfg>> /\ Content(s, FRRK8sDaemon) = <<"frr-k8s", s.cfg>>
    /\ \A s : BGPType(s) = "frr-k8s" => FRRK8sDaemon \in objsFor(s)
    /\ \A s, S : Speaker \in Foremost(S, MetalLBObjects(s)) => FRRK8sDaemon \notin S
<1>1. /\ Speaker \notin {FRRK8sDaemon, StatusCleaner} \cup {FRRStartup} \cup SpeakerMonitors
      /\ FRRK8sDaemon \notin {Speaker, Controller} \cup {FRRStartup} \cup SpeakerMonitors
  BY DEF Speaker, Controller, FRRK8sDaemon, StatusCleaner, FRRStartup, SpeakerMonitors, Obj
<1>2. \A s : Content(s, Speaker) = <<BGPType(s), s.cfg>> /\ Content(s, FRRK8sDaemon) = <<"frr-k8s", s.cfg>>
  BY <1>1 DEF Content
<1>3. FRRK8sDaemon \in FRRK8sObjects /\ FRRK8sDaemon.kind = "DaemonSet" /\ Speaker.kind = "DaemonSet"
  BY DEF FRRK8sObjects, FRRK8sDaemon, Speaker, Obj
<1>4. \A s : BGPType(s) = "frr-k8s" => FRRK8sDaemon \in objsFor(s)
  BY <1>3 DEF objsFor, Applied
<1>5. \A s : Speaker \in MetalLBObjects(s) /\ FRRK8sDaemon \notin MetalLBObjects(s)
  BY <1>1 DEF MetalLBObjects, Monitors, Speaker, Controller, ExcludeL2, FRRStartup, NetworkPolicy, SpeakerSCC,
         FRRK8sDaemon, Obj
<1>6. \A s : Place(FRRK8sDaemon, MetalLBObjects(s)) = 10 /\ Place(Speaker, MetalLBObjects(s)) = 30
  BY <1>3, <1>5 DEF Place, HelmKindOrder
<1>7. \A s, S : Speaker \in Foremost(S, MetalLBObjects(s)) => FRRK8sDaemon \notin S
  BY <1>6 DEF Foremost
<1> QED BY <1>2, <1>4, <1>7

(***************************************************************************)
(* A step that switches the speaker to frr-k8s applies it, after the       *)
(* daemon of the same spec.                                                *)
(***************************************************************************)
LEMMA SpeakerStep ==
    ASSUME TypeOK, InHand, SyncProgress, [Next]_vars, SwitchesToFRRK8s(Speaker)
    PROVE  /\ objs'[FRRK8sDaemon] # None
           /\ objs'[FRRK8sDaemon].content[2] = objs'[Speaker].content[2]
<1> USE DEF SwitchesToFRRK8s
<1>0. Speaker \in Objects /\ FRRK8sDaemon \in Objects /\ Speaker # FRRK8sDaemon /\ Speaker # SpeakerSCC
  BY DEF Objects, FRRK8sObjects, Speaker, FRRK8sDaemon, SpeakerSCC, Obj
<1>1. ~UNCHANGED objs
  OBVIOUS
<1>2. ~CollectGarbage
  BY <1>0 DEF CollectGarbage
<1>3. ~\E n \in Names : DeleteCR(n) \/ \E s \in Specs : CreateCR(n, s) \/ EditCR(n, s)
  <2>1. ASSUME NEW n \in Names, DeleteCR(n) PROVE FALSE
    BY <1>0, <2>1 DEF DeleteCR, TypeOK, Object
  <2> QED BY <1>1, <2>1 DEF CreateCR, EditCR
<1>4. ~StatusWritten
  BY <1>1 DEF StatusWritten
<1>5. PICK o \in Objects : DeleteObj(o) \/ ApplyObj(o)
  BY <1>1, <1>2, <1>3, <1>4, ClusterSteps
<1>6. ApplyObj(o) /\ o = Speaker
  BY <1>0, <1>5 DEF DeleteObj, ApplyObj, Apply, TypeOK
<1> DEFINE s == inst.spec
<1>7. /\ pc = "objects" /\ Speaker \in Foremost(toApply, MetalLBObjects(s))
      /\ objs' = [objs EXCEPT ![Speaker] = [content |-> Content(s, Speaker), owner |-> OwnerOf(Speaker)]]
  BY <1>6 DEF ApplyObj, Apply
<1>8. objs'[Speaker].content = Content(s, Speaker) /\ objs'[Speaker].owner = OwnerOf(Speaker)
      /\ objs'[FRRK8sDaemon] = objs[FRRK8sDaemon]
  BY <1>0, <1>7 DEF TypeOK
<1>9. inst.tag # "gone" /\ BGPType(s) = "frr-k8s"
  <2>1. OwnerOf(Speaker) # "gone"
    BY <1>8
  <2>2. HasNamespace(Speaker)
    BY <1>0 DEF HasNamespace
  <2>3. Content(s, Speaker)[1] = "frr-k8s"
    BY <1>8
  <2>4. <<BGPType(s), s.cfg>>[1] = BGPType(s)
    OBVIOUS
  <2> QED BY <2>1, <2>2, <2>3, <2>4, DaemonFirst DEF OwnerOf
<1>10. Matches(FRRK8sDaemon, s)
  BY <1>7, <1>9, DaemonFirst DEF SyncProgress, InPlace
<1>11. objs'[FRRK8sDaemon] # None /\ objs'[FRRK8sDaemon].content = <<"frr-k8s", s.cfg>>
  BY <1>8, <1>10, DaemonFirst DEF Matches
<1>12. objs'[Speaker].content = <<BGPType(s), s.cfg>>
  BY <1>8, DaemonFirst
<1> QED BY <1>11, <1>12

(***************************************************************************)
(* The speaker never starts to speak to an frr-k8s that is not there.      *)
(***************************************************************************)
THEOREM SpeakerFollowsFRRK8s == Spec => FRRK8sBeforeSpeaker
<1>1. IInv /\ [Next]_vars =>
        [SwitchesToFRRK8s(Speaker) =>
            /\ objs'[FRRK8sDaemon] # None
            /\ objs'[FRRK8sDaemon].content[2] = objs'[Speaker].content[2]]_vars
  BY SpeakerStep DEF IInv
<1> QED BY <1>1, Inductive, PTL DEF Spec, FRRK8sBeforeSpeaker

=============================================================================
