--------------------- MODULE ReconcilerStability_proofs ---------------------
(***************************************************************************)
(* Between two disruptions the reconciler leaves a settled cluster alone,  *)
(* for every environment, set of specs, set of names and bound on the      *)
(* disruptions.                                                            *)
(***************************************************************************)
EXTENDS ReconcilerRefinement_proofs

(***************************************************************************)
(* The steps that are no disruption.                                       *)
(***************************************************************************)
LEMMA CalmSteps ==
    ASSUME TypeOK, [Next]_vars, churn' = churn
    PROVE  \/ CollectGarbage \/ UpgradeCNO \/ NetworkEvent \/ SetupWebhook
           \/ \E w \in Workloads : Rollout(w) \/ WorkloadEvent(w)
           \/ \E n \in Names : WatchEvent(n) \/ Timer(n) \/ Start(n)
           \/ Step \/ UNCHANGED vars
<1>1. ~Disrupt
  BY DEF Disrupt, TypeOK
<1> QED
  BY <1>1 DEF Next, Environment, Fault, CreateCR, EditCR, DeleteCR, PodsFail, EditNetwork, Resync,
              Restart, SyncCallFails, ReadFails, StatusCallFails, GetFails

(***************************************************************************)
(* The parts of Running, with the spec as a parameter.                     *)
(***************************************************************************)
Asks(s) ==
    LET cr == crs[defaultMetalLBCrName] IN
    /\ cr # None /\ cr.spec = s /\ cr.cond = "Available"
    /\ Deployable(s) /\ ~NeedsDefaultNS(s) /\ (DeploysFromCNO(s) => cnoSupports)

Stands(s) ==
    /\ \A o \in objsFor(s) : Matches(o, s) \/ AboutToRestore(o)
    /\ \A o \in FRRK8sObjects \ objsFor(s) : objs[o] = None

Ready == Workloads \subseteq rolledOut /\ \A w \in Workloads : seen[w] = "ready"

Knows(s) ==
    LET c == cached[defaultMetalLBCrName] IN c # None => c.spec = s /\ c.tag # "gone"

Handles(s) ==
    req = defaultMetalLBCrName =>
        /\ inst.spec = s /\ inst.tag # "gone"
        /\ pc = "status" => outcome.cond = "Available" \/ ~ReasonAccepted(outcome.reason)

RunningFor(s) == Asks(s) /\ Stands(s) /\ Ready /\ Knows(s) /\ Handles(s)

LEMMA RunningParts ==
    LET cr == crs[defaultMetalLBCrName] IN
    cr # None => (Running(cr) <=> RunningFor(cr.spec))
BY DEF Running, RunningFor, Asks, Stands, Ready, Knows, Handles, Reconcilable

(***************************************************************************)
(* Only frr-startup is deleted by the very sync that applies it.           *)
(***************************************************************************)
LEMMA DeletedAndApplied == \A s : toDelFor(s) \cap objsFor(s) \subseteq {FRRStartup}
<1> SUFFICES ASSUME NEW s, NEW o \in toDelFor(s), o \in objsFor(s), o # FRRStartup PROVE FALSE
  OBVIOUS
<1>1. o \in FRRK8sObjects /\ o \in MetalLBObjects(s)
  BY DEF toDelFor, objsFor, Applied
<1>2. o \in {FRRK8sDaemon, StatusCleaner, WebhookService, ValidatingWebhook, WebhookSecret}
              \cup FRRK8sMonitors
  BY <1>1 DEF FRRK8sObjects
<1>3. o \in {Speaker, Controller, ExcludeL2, NetworkPolicy, SpeakerSCC} \cup Monitors
  BY <1>1 DEF MetalLBObjects
<1>4. o.name \in {"frr-k8s", "statuscleaner", "frr-k8s-webhook-service",
                  "frr-k8s-validating-webhook-configuration", "frr-k8s-webhook-server-cert",
                  "frr-k8s-monitor", "frr-k8s-monitor-service"}
  BY <1>2 DEF FRRK8sDaemon, StatusCleaner, WebhookService, ValidatingWebhook, WebhookSecret,
              FRRK8sMonitors, Obj
<1>5. o.name \notin {"frr-k8s", "statuscleaner", "frr-k8s-webhook-service",
                     "frr-k8s-validating-webhook-configuration", "frr-k8s-webhook-server-cert",
                     "frr-k8s-monitor", "frr-k8s-monitor-service"}
  BY <1>3 DEF Speaker, Controller, ExcludeL2, NetworkPolicy, SpeakerSCC, Monitors, Obj
<1> QED BY <1>4, <1>5

(***************************************************************************)
(* Workloads are always applied, and never on the list to delete.          *)
(***************************************************************************)
LEMMA WorkloadsApplied ==
    \A s : Workloads \subseteq objsFor(s) /\ Workloads \cap FRRK8sObjects = {}
           /\ FRRStartup \notin Workloads
BY DEF Workloads, objsFor, Applied, MetalLBObjects, FRRK8sObjects, FRRK8sMonitors, Speaker, Controller,
       FRRStartup, FRRK8sDaemon, StatusCleaner, WebhookService, ValidatingWebhook, WebhookSecret, Obj

-----------------------------------------------------------------------------
(***************************************************************************)
(* A step that leaves the stored resource and objects alone, and no sync   *)
(* at work that was, keeps what stands.                                    *)
(***************************************************************************)
LEMMA SameAsks ==
    ASSUME UNCHANGED crs, cnoSupports' \in {cnoSupports, TRUE}, NEW s, Asks(s)
    PROVE  Asks(s)'
BY DEF Asks

LEMMA SameStands ==
    ASSUME UNCHANGED objs, NEW s, Stands(s),
           pc = "objects" => UNCHANGED <<pc, toApply>>
    PROVE  Stands(s)'
BY DEF Stands, Matches, AboutToRestore

(***************************************************************************)
(* The reconciler's own step, one action at a time.                        *)
(***************************************************************************)
Held(s) == IInv /\ SyncListed /\ RunningFor(s)

LEMMA CollectKeeps ==
    ASSUME NEW s, Held(s), CollectGarbage
    PROVE  RunningFor(s)'
<1> USE DEF Held, RunningFor, IInv, ocp, caches, work, reconcile
<1>1. \A o \in Garbage : ~Matches(o, s)
  BY DEF Garbage, Matches, defaultMetalLBCrName
<1>2. \A o \in objsFor(s) : Matches(o, s) => Matches(o, s)' /\ o \notin Garbage
  BY <1>1, RenderedObjects DEF CollectGarbage, Matches
<1>3. Stands(s)'
  BY <1>2, RenderedObjects DEF Stands, CollectGarbage, AboutToRestore
<1>4. Ready'
  BY <1>2, WorkloadsApplied DEF Ready, CollectGarbage, Stands, AboutToRestore
<1>5. Asks(s)' /\ Knows(s)' /\ Handles(s)'
  BY DEF Asks, Knows, Handles, CollectGarbage
<1> QED BY <1>3, <1>4, <1>5

(***************************************************************************)
(* Kubelets, informers and timers.                                         *)
(***************************************************************************)
LEMMA SurroundingsKeep ==
    ASSUME NEW s, Held(s),
           \/ UpgradeCNO \/ NetworkEvent \/ SetupWebhook \/ UNCHANGED vars
           \/ \E w \in Workloads : Rollout(w) \/ WorkloadEvent(w)
           \/ \E n \in Names : Timer(n) \/ GetNotFound(n)
    PROVE  RunningFor(s)'
<1> USE DEF Held, RunningFor, cluster, ocp, caches, work, reconcile, vars
<1>1. UNCHANGED <<crs, objs, cached, reconcile>> /\ cnoSupports' \in {cnoSupports, TRUE}
  BY DEF UpgradeCNO, NetworkEvent, SetupWebhook, Rollout, WorkloadEvent, Timer, GetNotFound
<1>2. Asks(s)' /\ Stands(s)'
  BY <1>1, SameAsks, SameStands
<1>3. Knows(s)' /\ Handles(s)'
  BY <1>1 DEF Knows, Handles
<1>4. \A w \in Workloads : Reading(w) = "ready"
  BY WorkloadsApplied DEF Ready, Stands, Matches, AboutToRestore, Reading
<1>5. Ready'
  <2>1. CASE \E w \in Workloads : WorkloadEvent(w)
    BY <1>4, <2>1 DEF Ready, WorkloadEvent
  <2>2. CASE \E w \in Workloads : Rollout(w)
    BY <2>2 DEF Ready, Rollout
  <2>3. CASE UNCHANGED <<rolledOut, seen>>
    BY <2>3 DEF Ready
  <2> QED BY <2>1, <2>2, <2>3 DEF UpgradeCNO, NetworkEvent, SetupWebhook, Timer, GetNotFound
<1> QED BY <1>2, <1>3, <1>5

LEMMA WatchKeeps ==
    ASSUME NEW s, Held(s), NEW n \in Names, WatchEvent(n)
    PROVE  RunningFor(s)'
<1> USE DEF Held, RunningFor, cluster, ocp, caches, work, reconcile, WatchEvent
<1>1. Asks(s)' /\ Stands(s)' /\ Ready' /\ Handles(s)'
  BY SameAsks, SameStands DEF Ready, Handles
<1>2. Knows(s)'
  BY DEF Knows, IInv, TypeOK, Fresh, Asks
<1> QED BY <1>1, <1>2

(***************************************************************************)
(* A reconcile starts with what the cache knows.                           *)
(***************************************************************************)
LEMMA StartKeeps ==
    ASSUME NEW s, Held(s), NEW n \in Names, GetMisnamed(n) \/ GetMetalLB(n)
    PROVE  RunningFor(s)'
<1> USE DEF Held, RunningFor, cluster, ocp, caches, work, Take
<1>1. UNCHANGED <<crs, objs, rolledOut, cnoSupports, cached, seen>> /\ pc = "idle"
  BY DEF GetMisnamed, GetMetalLB
<1>2. Asks(s)' /\ Stands(s)' /\ Ready' /\ Knows(s)'
  BY <1>1, SameAsks, SameStands DEF Ready, Knows
<1>3. Handles(s)'
  BY DEF GetMisnamed, GetMetalLB, Handles, Knows
<1> QED BY <1>2, <1>3

(***************************************************************************)
(* A reconcile that ends, or goes on without touching an object.           *)
(***************************************************************************)
LEMMA EndKeeps ==
    ASSUME NEW s, Held(s), CNOTooOld \/ StatusUnchanged \/ StatusRefused
    PROVE  RunningFor(s)'
<1> USE DEF Held, RunningFor, cluster, ocp, caches, work, CNOTooOld, StatusUnchanged, StatusRefused,
            StatusError, Return
<1>1. UNCHANGED <<crs, objs, rolledOut, cnoSupports, cached, seen>> /\ pc # "objects"
  OBVIOUS
<1>2. Asks(s)' /\ Stands(s)' /\ Ready' /\ Knows(s)'
  BY <1>1, SameAsks, SameStands DEF Ready, Knows
<1>3. Handles(s)'
  BY ConstantsAssumption DEF Handles
<1> QED BY <1>2, <1>3

LEMMA GoOnKeeps ==
    ASSUME NEW s, Held(s),
           \/ CNOSupports \/ GetNetwork \/ UpdateNetwork \/ UpdateNetworkConflicts
           \/ SkipInvalid \/ RefuseBGPMode \/ RenderFails \/ Render \/ ReadSpeaker \/ ReadController
    PROVE  RunningFor(s)'
<1> USE DEF Held, RunningFor, cluster, ocp, caches, work, IInv
<1>1. UNCHANGED <<crs, objs, rolledOut, cnoSupports, cached, seen>> /\ pc # "objects"
  BY DEF CNOSupports, GetNetwork, UpdateNetwork, WriteNetwork, UpdateNetworkConflicts, SkipInvalid,
         RefuseBGPMode, RenderFails, Render, ReadSpeaker, ReadController, ReadWorkload
<1>2. Asks(s)' /\ Stands(s)' /\ Ready' /\ Knows(s)'
  BY <1>1, SameAsks, SameStands DEF Ready, Knows
<1>3. Handles(s)'
  <2>1. CASE CNOSupports \/ GetNetwork \/ UpdateNetwork \/ SkipInvalid \/ Render
    BY <2>1 DEF CNOSupports, GetNetwork, UpdateNetwork, WriteNetwork, SkipInvalid, Render, Goto, Handles
  <2>2. CASE UpdateNetworkConflicts \/ RefuseBGPMode \/ RenderFails
    <3>1. Report("Degraded", "internal error", FALSE)
      BY <2>2 DEF UpdateNetworkConflicts, RefuseBGPMode, RenderFails, SyncFailed
    <3>2. outcome'.reason = "internal error" /\ UNCHANGED <<req, inst>>
      BY <3>1 DEF Report
    <3> QED BY <3>2 DEF Handles, ReasonAccepted
  <2>3. CASE ReadSpeaker
    <3>1. Goto("controller")
      BY <2>3 DEF ReadSpeaker, ReadWorkload, Ready, Workloads
    <3> QED BY <3>1 DEF Goto, Handles
  <2>4. CASE ReadController
    <3>1. Report("Available", "Available", FALSE)
      BY <2>4 DEF ReadController, ReadWorkload, Ready, Workloads
    <3> QED BY <3>1 DEF Report, Handles
  <2> QED BY <2>1, <2>2, <2>3, <2>4
<1> QED BY <1>2, <1>3

(***************************************************************************)
(* The sync removes frr-startup only, which it is going to apply, and      *)
(* applies nothing new.                                                    *)
(***************************************************************************)
LEMMA DeleteKeeps ==
    ASSUME NEW s, Held(s), NEW o \in Objects, DeleteObj(o)
    PROVE  RunningFor(s)'
<1> USE DEF Held, RunningFor, ocp, caches, work
<1>1. /\ pc = "objects" /\ o \in toDel /\ objs' = [objs EXCEPT ![o] = None]
      /\ rolledOut' = rolledOut \ {o}
      /\ UNCHANGED <<crs, cnoSupports, cached, seen, pc, req, inst, toApply, outcome>>
  BY DEF DeleteObj, Foremost
<1>2. req = defaultMetalLBCrName /\ inst.spec = s
  BY <1>1 DEF IInv, InHand, Handles
<1>3. o \in toDelFor(s) /\ toApply = objsFor(s)
  BY <1>1, <1>2 DEF SyncListed, IInv, SyncProgress
<1>4. o \in objsFor(s) => o = FRRStartup
  BY <1>3, DeletedAndApplied
<1>5. \A p \in objsFor(s) : Matches(p, s)' \/ AboutToRestore(p)'
  <2> SUFFICES ASSUME NEW p \in objsFor(s), ~AboutToRestore(p) PROVE Matches(p, s)'
    BY <1>1 DEF AboutToRestore
  <2>1. p # o /\ p \in Objects /\ Matches(p, s)
    BY <1>1, <1>3, <1>4, RenderedObjects DEF AboutToRestore, Stands
  <2> QED BY <1>1, <2>1 DEF Matches, IInv, TypeOK
<1>6. Stands(s)'
  BY <1>1, <1>5, RenderedObjects DEF Stands, IInv, TypeOK
<1>7. Ready'
  BY <1>1, <1>3, WorkloadsApplied, RenderedObjects DEF Ready
<1> QED BY <1>1, <1>6, <1>7, SameAsks DEF Knows, Handles

LEMMA ApplyKeeps ==
    ASSUME NEW s, Held(s), NEW o \in Objects, ApplyObj(o)
    PROVE  RunningFor(s)'
<1> USE DEF Held, RunningFor, ocp, caches, work
<1>1. /\ pc = "objects" /\ o \in toApply /\ toApply' = toApply \ {o}
      /\ objs' = [objs EXCEPT ![o] = [content |-> Content(inst.spec, o), owner |-> OwnerOf(o)]]
      /\ rolledOut' = (IF Unchanged(o) THEN rolledOut ELSE rolledOut \ {o})
      /\ UNCHANGED <<crs, cnoSupports, cached, seen, req, inst, outcome>>
      /\ pc' = IF toApply = {o} THEN "speaker" ELSE pc
  BY DEF ApplyObj, Apply, Foremost
<1>2. req = defaultMetalLBCrName /\ inst.spec = s /\ inst.tag # "gone"
  BY <1>1 DEF IInv, InHand, Handles
<1>3. o \in objsFor(s)
  BY <1>1, <1>2 DEF IInv, SyncProgress
<1>4. Matches(o, s)'
  <2>1. objs'[o] = [content |-> Content(s, o), owner |-> OwnerOf(o)] /\ objs'[o] # None
    BY <1>1, <1>2, AppliedType, ConstantsAssumption DEF IInv, TypeOK
  <2>2. objs'[o].content = Content(s, o) /\ objs'[o].owner = OwnerOf(o)
    BY <2>1
  <2> QED BY <1>2, <2>1, <2>2 DEF Matches, OwnerOf
<1>5. ASSUME NEW p \in objsFor(s), p # o PROVE Matches(p, s)' \/ AboutToRestore(p)'
  <2>1. CASE Matches(p, s)
    BY <1>1, <1>5, <2>1, RenderedObjects DEF Matches, IInv, TypeOK
  <2>2. CASE AboutToRestore(p)
    BY <1>1, <1>5, <2>2 DEF AboutToRestore
  <2> QED BY <2>1, <2>2 DEF Stands
<1>6. \A p \in FRRK8sObjects \ objsFor(s) : objs'[p] = None
  BY <1>1, <1>3, RenderedObjects DEF Stands, IInv, TypeOK
<1>7. Stands(s)'
  BY <1>4, <1>5, <1>6 DEF Stands
<1>8. Ready'
  <2>1. o \in Workloads => Unchanged(o)
    BY <1>2, <1>3, WorkloadsApplied DEF Stands, Matches, AboutToRestore, Unchanged
  <2> QED BY <1>1, <2>1 DEF Ready
<1> QED BY <1>1, <1>7, <1>8, SameAsks DEF Knows, Handles

LEMMA WriteKeeps ==
    ASSUME NEW s, Held(s), StatusWritten
    PROVE  RunningFor(s)'
<1> USE DEF Held, RunningFor, ocp, work
<1>1. /\ pc = "status" /\ Accepted /\ crs' = [crs EXCEPT ![req].cond = outcome.cond]
      /\ cached' = [cached EXCEPT ![req] = Outdated(@)]
      /\ UNCHANGED <<objs, rolledOut, cnoSupports, seen>> /\ Return
  BY DEF StatusWritten
<1>2. req \in Names /\ defaultMetalLBCrName \in Names
  BY <1>1, ConstantsAssumption DEF IInv, InHand
<1>3. req = defaultMetalLBCrName => outcome.cond = "Available"
  BY <1>1 DEF Accepted, Handles
<1>4. Asks(s)'
  <2>1. crs[defaultMetalLBCrName] \in CR /\ None \notin CR
    BY <1>2, ConstantsAssumption DEF Asks, IInv, TypeOK
  <2>2. /\ crs'[defaultMetalLBCrName] = [crs[defaultMetalLBCrName] EXCEPT !.cond = "Available"]
    BY <1>1, <1>2, <1>3, <2>1 DEF Asks, IInv, TypeOK, CR
  <2> QED BY <1>1, <2>1, <2>2 DEF Asks, CR, Conditions
<1>5. Knows(s)'
  BY <1>1, <1>2, OutdatedTags DEF Knows, IInv, TypeOK
<1>6. Stands(s)' /\ Ready'
  BY <1>1, SameStands DEF Ready
<1>7. Handles(s)'
  BY <1>1, ConstantsAssumption DEF Handles, Return
<1> QED BY <1>4, <1>5, <1>6, <1>7

(***************************************************************************)
(* Every step that is no disruption keeps what runs.                       *)
(***************************************************************************)
LEMMA RunningStays ==
    ASSUME IInv, SyncListed, [Next]_vars, churn' = churn, NEW s, RunningFor(s)
    PROVE  RunningFor(s)'
<1>1. Held(s) /\ TypeOK
  BY DEF Held, IInv
<1>2. CASE CollectGarbage
  BY <1>1, <1>2, CollectKeeps
<1>3. CASE \/ UpgradeCNO \/ NetworkEvent \/ SetupWebhook \/ UNCHANGED vars
           \/ \E w \in Workloads : Rollout(w) \/ WorkloadEvent(w)
           \/ \E n \in Names : Timer(n) \/ GetNotFound(n)
  BY <1>1, <1>3, SurroundingsKeep
<1>4. CASE \E n \in Names : WatchEvent(n)
  BY <1>1, <1>4, WatchKeeps
<1>5. CASE \E n \in Names : GetMisnamed(n) \/ GetMetalLB(n)
  BY <1>1, <1>5, StartKeeps
<1>6. CASE Step
  <2>1. CASE CNOTooOld \/ StatusUnchanged \/ StatusRefused
    BY <1>1, <2>1, EndKeeps
  <2>2. CASE \/ CNOSupports \/ GetNetwork \/ UpdateNetwork \/ UpdateNetworkConflicts
             \/ SkipInvalid \/ RefuseBGPMode \/ RenderFails \/ Render \/ ReadSpeaker \/ ReadController
    BY <1>1, <2>2, GoOnKeeps
  <2>3. CASE \E o \in Objects : DeleteObj(o) \/ ApplyObj(o)
    BY <1>1, <2>3, DeleteKeeps, ApplyKeeps
  <2>4. CASE StatusWritten
    BY <1>1, <2>4, WriteKeeps
  <2> QED BY <1>6, <2>1, <2>2, <2>3, <2>4 DEF Step
<1> QED BY <1>1, <1>2, <1>3, <1>4, <1>5, <1>6, CalmSteps DEF Start

-----------------------------------------------------------------------------
(***************************************************************************)
(* Nothing comes back for a resource that is gone: no sync of it is at     *)
(* work, none starts, and only a sync creates objects.                     *)
(***************************************************************************)
LEMMA ClearedStays ==
    ASSUME IInv, [Next]_vars, churn' = churn, crs[defaultMetalLBCrName] = None, Cleared
    PROVE  crs'[defaultMetalLBCrName] = None /\ Cleared'
<1> USE DEF IInv, Cleared, cluster, ocp, caches, work
<1>0. defaultMetalLBCrName \in Names /\ None \notin Names
  BY ConstantsAssumption
<1>1. CASE CollectGarbage
  BY <1>1 DEF CollectGarbage, reconcile
<1>2. CASE \/ UpgradeCNO \/ NetworkEvent \/ SetupWebhook \/ UNCHANGED vars
           \/ \E w \in Workloads : Rollout(w) \/ WorkloadEvent(w)
           \/ \E n \in Names : Timer(n) \/ GetNotFound(n)
  BY <1>2 DEF UpgradeCNO, NetworkEvent, SetupWebhook, Rollout, WorkloadEvent, Timer, GetNotFound,
              vars, reconcile
<1>3. CASE \E n \in Names : WatchEvent(n)
  BY <1>3 DEF WatchEvent, Fresh, reconcile, TypeOK
<1>4. CASE \E n \in Names : GetMisnamed(n) \/ GetMetalLB(n)
  BY <1>4 DEF GetMisnamed, GetMetalLB, Take
<1>5. CASE \E o \in Objects : DeleteObj(o) \/ ApplyObj(o)
  BY <1>5 DEF DeleteObj, ApplyObj, Apply, InHand
<1>6. CASE StatusWritten
  <2>1. req \in Names /\ req # defaultMetalLBCrName
    BY <1>6 DEF StatusWritten, InHand
  <2> QED BY <1>0, <1>6, <2>1 DEF StatusWritten, Return, TypeOK
<1>7. CASE CNOTooOld \/ StatusUnchanged \/ StatusRefused
  BY <1>0, <1>7 DEF CNOTooOld, StatusUnchanged, StatusRefused, StatusError, Return
<1>8. CASE \/ CNOSupports \/ GetNetwork \/ UpdateNetwork \/ UpdateNetworkConflicts
           \/ SkipInvalid \/ RefuseBGPMode \/ RenderFails \/ Render
  BY <1>8 DEF CNOSupports, GetNetwork, UpdateNetwork, WriteNetwork, UpdateNetworkConflicts, SkipInvalid,
              RefuseBGPMode, RenderFails, Render, SyncFailed, Report, Goto
<1>9. CASE ReadSpeaker \/ ReadController
  BY <1>9 DEF ReadSpeaker, ReadController, ReadWorkload, InHand
<1> QED
  BY <1>1, <1>2, <1>3, <1>4, <1>5, <1>6, <1>7, <1>8, <1>9, CalmSteps DEF Start, Step

(***************************************************************************)
(* One step, whether the resource is there or not.                         *)
(***************************************************************************)
LEMMA SettledStep ==
    ASSUME IInv, SyncListed, [Next]_vars, churn' = churn, Settled
    PROVE  Settled'
<1>1. CASE crs[defaultMetalLBCrName] = None
  BY <1>1, ClearedStays DEF Settled
<1>2. CASE crs[defaultMetalLBCrName] # None
  <2> PICK s : s = crs[defaultMetalLBCrName].spec
    OBVIOUS
  <2>1. RunningFor(s)
    BY <1>2, RunningParts DEF Settled
  <2>2. RunningFor(s)'
    BY <2>1, RunningStays
  <2>3. crs'[defaultMetalLBCrName] # None /\ crs'[defaultMetalLBCrName].spec = s
    BY <2>2 DEF RunningFor, Asks
  <2>4. Running(crs[defaultMetalLBCrName])'
    BY <2>2, <2>3 DEF Running, RunningFor, Asks, Stands, Ready, Knows, Handles, Reconcilable
  <2> QED BY <2>3, <2>4 DEF Settled
<1> QED BY <1>1, <1>2

(***************************************************************************)
(* A settled cluster stays settled until the next disruption.              *)
(***************************************************************************)
THEOREM SettledStays == Spec => StaysSettled
<1>1. Init => SyncListed
  BY DEF Init, SyncListed
<1>2. IInv /\ SyncListed /\ [Next]_vars => SyncListed'
  BY NextSyncListed DEF IInv
<1>3. IInv /\ SyncListed /\ [Next]_vars => [Settled /\ churn' = churn => Settled']_vars
  BY SettledStep
<1> QED BY <1>1, <1>2, <1>3, Inductive, PTL DEF Spec, StaysSettled
=============================================================================
