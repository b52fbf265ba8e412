-------------------------- MODULE MetalLBReconciler --------------------------
(***************************************************************************)
(* The MetalLB reconciler and everything it shares with others: the        *)
(* MetalLB resources users create, edit and delete; the informer caches    *)
(* the reconciler reads them (and the operand workloads) through; the work *)
(* queue and its timers; the objects it deletes and applies one by one;    *)
(* the kubelet side that rolls workloads out; the garbage collector; on    *)
(* OpenShift, the cluster network operator and the Network resource.       *)
(*                                                                         *)
(* One Reconcile is a sequence of steps, one per call that leaves the      *)
(* process: between any two of them users edit, caches move, pods fail, a  *)
(* call is refused, or the operator is killed and starts again.            *)
(*                                                                         *)
(* The environment's disruptions (edits, faults, restarts) all draw on one *)
(* budget, MaxChurn; everything else is unbounded.                         *)
(***************************************************************************)
EXTENDS Operands, FiniteSets

CONSTANTS
    Names,        \* names of MetalLB resources users create
    Specs,        \* the specs users submit
    Providers,    \* routing capability providers of the Network resource
    MaxChurn,     \* bound on the environment's disruptions
    None          \* "no such object"

defaultMetalLBCrName == "metallb"

Workloads  == {Speaker, Controller}
Readings   == {"absent", "notReady", "ready"}
Conditions == {"none", "Available", "Progressing", "Degraded"}

(***************************************************************************)
(* An object as some reader last saw it: still the stored version, an      *)
(* older version of it, or an object deleted since (another may have its   *)
(* name now).  This stands for resourceVersion and uid.                    *)
(***************************************************************************)
Tags == {"current", "stale", "gone"}

CR       == [spec : Specs, cond : Conditions]
Copy     == [spec : Specs, tag : Tags]
Contents == {Content(s, o) : s \in Specs, o \in Objects}
Owners   == Names \cup {"gone", "none"}
Object   == [content : Contents, owner : Owners]
Net      == [providers : SUBSET Providers, current : BOOLEAN]
Reasons  == {"", "Available", "Progressing", "internal error", "IncorrectMetalLBResourceName"}
Outcome  == [cond : Conditions, reason : Reasons, requeue : BOOLEAN]
Steps    == {"idle", "cno", "getNetwork", "updateNetwork", "render", "objects",
             "speaker", "controller", "status"}

ASSUME ConstantsAssumption ==
    /\ defaultMetalLBCrName \in Names
    /\ Names \subseteq STRING \ {"gone", "none"}
    /\ Specs \subseteq MetalLBSpec
    /\ "FRR" \in Providers
    /\ MaxChurn \in Nat
    /\ None \notin Names \cup CR \cup Copy \cup Object \cup Net

VARIABLES
    crs,          \* the stored MetalLB resources
    objs,         \* the stored operand objects
    rolledOut,    \* the workloads whose status passes the readiness check
    providers,    \* the Network's routing providers (OpenShift)
    cnoSupports,  \* is the network operator's version recent enough?
    cached,       \* informer cache of the MetalLB resources
    seen,         \* informer cache of the workloads' readiness
    netCached,    \* informer cache of the Network
    queue,        \* keys ready to be reconciled
    delayed,      \* keys waiting for RequeueAfter or for the retry backoff
    webhookUp,    \* has SetupWebhookWithManager run in this process?
    pc,           \* the step the reconciler is at
    req,          \* the key being reconciled
    inst,         \* the copy of the resource Reconcile works on
    net,          \* the copy of the Network DeployFRRK8s works on
    toDel,        \* objects the sync still has to delete
    toApply,      \* objects the sync still has to apply
    outcome,      \* what reconcileResource returned
    churn         \* disruptions so far

cluster   == <<crs, objs, rolledOut>>
ocp       == <<providers, cnoSupports, netCached>>
caches    == <<cached, seen>>
work      == <<queue, delayed>>
reconcile == <<pc, req, inst, net, toDel, toApply, outcome>>
vars      == <<cluster, ocp, caches, work, reconcile, webhookUp, churn>>

NoOutcome == [cond |-> "none", reason |-> "", requeue |-> FALSE]

Init ==
    /\ crs = [n \in Names |-> None]
    /\ objs = [o \in Objects |-> None]
    /\ rolledOut = {}
    /\ providers \in (IF Env.IsOpenshift THEN SUBSET Providers ELSE {{}})
    /\ cnoSupports \in (IF Env.IsOpenshift THEN BOOLEAN ELSE {FALSE})
    /\ cached = [n \in Names |-> None]
    /\ seen = [w \in Workloads |-> "absent"]
    /\ netCached = [providers |-> providers, current |-> TRUE]
    /\ queue = {} /\ delayed = {}
    /\ webhookUp = FALSE
    /\ pc = "idle" /\ req = None /\ inst = None /\ net = None
    /\ toDel = {} /\ toApply = {}
    /\ outcome = NoOutcome
    /\ churn = 0

-----------------------------------------------------------------------------
(***************************************************************************)
(* The environment: users, the API server, kubelets, administrators.       *)
(***************************************************************************)

\* A disruption, charged to the budget.
Disrupt == churn < MaxChurn /\ churn' = churn + 1

(***************************************************************************)
(* What a write to the stored object does to a copy of it held elsewhere.  *)
(***************************************************************************)
Outdated(c) == IF c # None /\ c.tag = "current" THEN [c EXCEPT !.tag = "stale"] ELSE c
Orphaned(c) == IF c # None THEN [c EXCEPT !.tag = "gone"] ELSE c

\* Every copy of n's resource is outdated by a write to it.
CopiesOutdated(n) ==
    /\ cached' = [cached EXCEPT ![n] = Outdated(@)]
    /\ inst' = IF req = n THEN Outdated(inst) ELSE inst

(***************************************************************************)
(* ValidateCreate and ValidateUpdate.  The webhook's failure policy is     *)
(* Fail: while this process does not serve it nothing is admitted.         *)
(***************************************************************************)
Admitted(s) == webhookUp /\ Validate(s, Env.FRRK8sExternalNamespace)

CreateCR(n, s) ==
    /\ Disrupt
    /\ crs[n] = None
    /\ Admitted(s)
    /\ crs' = [crs EXCEPT ![n] = [spec |-> s, cond |-> "none"]]
    /\ UNCHANGED <<objs, rolledOut, ocp, caches, work, reconcile, webhookUp>>

EditCR(n, s) ==
    /\ Disrupt
    /\ crs[n] # None /\ crs[n].spec # s
    /\ Admitted(s)
    /\ crs' = [crs EXCEPT ![n].spec = s]
    /\ CopiesOutdated(n)
    /\ UNCHANGED <<objs, rolledOut, ocp, seen, work, pc, req, net, toDel, toApply, outcome, webhookUp>>

(***************************************************************************)
(* ValidateDelete admits every deletion.  The objects the resource owns    *)
(* become the garbage collector's.                                         *)
(***************************************************************************)
DeleteCR(n) ==
    /\ Disrupt
    /\ crs[n] # None
    /\ crs' = [crs EXCEPT ![n] = None]
    /\ objs' = [o \in Objects |-> IF objs[o] # None /\ objs[o].owner = n
                                  THEN [objs[o] EXCEPT !.owner = "gone"] ELSE objs[o]]
    /\ cached' = [cached EXCEPT ![n] = Orphaned(@)]
    /\ inst' = IF req = n THEN Orphaned(inst) ELSE inst
    /\ UNCHANGED <<rolledOut, ocp, seen, work, pc, req, net, toDel, toApply, outcome, webhookUp>>

(***************************************************************************)
(* Kubernetes deletes the namespaced objects whose owner is gone, here all *)
(* that are garbage at the moment.  A cluster scoped object that names a   *)
(* namespaced owner is never collected.                                    *)
(***************************************************************************)
Garbage == {o \in Objects : objs[o] # None /\ objs[o].owner = "gone" /\ ~ClusterScoped(o)}

CollectGarbage ==
    /\ Garbage # {}
    /\ objs' = [o \in Objects |-> IF o \in Garbage THEN None ELSE objs[o]]
    /\ rolledOut' = rolledOut \ Garbage
    /\ UNCHANGED <<crs, ocp, caches, work, reconcile, webhookUp, churn>>

\* The pods of a workload come to run its stored content, all of them ready.
Rollout(w) ==
    /\ objs[w] # None /\ w \notin rolledOut
    /\ rolledOut' = rolledOut \cup {w}
    /\ UNCHANGED <<crs, objs, ocp, caches, work, reconcile, webhookUp, churn>>

PodsFail(w) ==
    /\ Disrupt
    /\ w \in rolledOut
    /\ rolledOut' = rolledOut \ {w}
    /\ UNCHANGED <<crs, objs, ocp, caches, work, reconcile, webhookUp>>

\* The network operator is upgraded to a version that manages frr-k8s.
UpgradeCNO ==
    /\ Env.IsOpenshift /\ ~cnoSupports
    /\ cnoSupports' = TRUE
    /\ UNCHANGED <<cluster, providers, netCached, caches, work, reconcile, webhookUp, churn>>

\* An administrator, or another operator, edits the Network's providers.
EditNetwork(p) ==
    /\ Disrupt
    /\ Env.IsOpenshift /\ p # providers
    /\ providers' = p
    /\ netCached' = [netCached EXCEPT !.current = FALSE]
    /\ net' = IF net # None THEN [net EXCEPT !.current = FALSE] ELSE None
    /\ UNCHANGED <<cluster, cnoSupports, caches, work, pc, req, inst, toDel, toApply, outcome, webhookUp>>

-----------------------------------------------------------------------------
(***************************************************************************)
(* The operator's informers, queue and timers.                             *)
(***************************************************************************)

\* A watch event brings a resource's cached copy up to date and enqueues it.
Fresh(n) == IF crs[n] = None THEN None ELSE [spec |-> crs[n].spec, tag |-> "current"]

Lags(n) == cached[n] # Fresh(n)

WatchEvent(n) ==
    /\ Lags(n)
    /\ cached' = [cached EXCEPT ![n] = Fresh(n)]
    /\ queue' = queue \cup {n}
    /\ UNCHANGED <<cluster, ocp, seen, delayed, reconcile, webhookUp, churn>>

\* The informers' periodic resync.
Resync(n) ==
    /\ Disrupt
    /\ cached[n] # None
    /\ queue' = queue \cup {n}
    /\ UNCHANGED <<cluster, ocp, caches, delayed, reconcile, webhookUp>>

Timer(n) ==
    /\ n \in delayed
    /\ queue' = queue \cup {n}
    /\ delayed' = delayed \ {n}
    /\ UNCHANGED <<cluster, ocp, caches, reconcile, webhookUp, churn>>

\* isDaemonSetReady and isDeploymentReady, of the stored workload.
Reading(w) == IF objs[w] = None THEN "absent"
              ELSE IF w \in rolledOut THEN "ready" ELSE "notReady"

WorkloadEvent(w) ==
    /\ seen[w] # Reading(w)
    /\ seen' = [seen EXCEPT ![w] = Reading(w)]
    /\ UNCHANGED <<cluster, ocp, cached, work, reconcile, webhookUp, churn>>

(***************************************************************************)
(* The Network watch refreshes the cache.  The key it enqueues is the      *)
(* Network's own, which names no MetalLB resource: it reconciles nothing.  *)
(***************************************************************************)
NetworkEvent ==
    /\ ~netCached.current
    /\ netCached' = [providers |-> providers, current |-> TRUE]
    /\ UNCHANGED <<cluster, providers, cnoSupports, caches, work, reconcile, webhookUp, churn>>

-----------------------------------------------------------------------------
(***************************************************************************)
(* Reconcile.  A single worker takes one key at a time.                    *)
(***************************************************************************)

\* The ways out of Reconcile, and of reconcileResource into the status write.
Return ==
    /\ pc' = "idle" /\ req' = None /\ inst' = None /\ net' = None
    /\ toDel' = {} /\ toApply' = {} /\ outcome' = NoOutcome

Report(cond, reason, requeue) ==
    /\ pc' = "status"
    /\ outcome' = [cond |-> cond, reason |-> reason, requeue |-> requeue]
    /\ net' = None /\ toDel' = {} /\ toApply' = {}
    /\ UNCHANGED <<req, inst>>

SyncErrorDropped  == Return                                        \* mutant
UnknownCondition  == Report("Failed", "internal error", FALSE)     \* mutant
SyncFailed        == Report("Degraded", "internal error", FALSE)

Goto(step) ==
    /\ pc' = step
    /\ UNCHANGED <<req, inst, net, toDel, toApply, outcome>>

Take(n) == pc = "idle" /\ n \in queue /\ queue' = queue \ {n}

\* The resource is not in the cache: nothing to do, nothing to requeue.
GetNotFound(n) ==
    /\ Take(n)
    /\ cached[n] = None
    /\ UNCHANGED <<cluster, ocp, caches, delayed, reconcile, webhookUp, churn>>

\* A resource by any other name is only told so.
GetMisnamed(n) ==
    /\ Take(n)
    /\ cached[n] # None /\ n # defaultMetalLBCrName
    /\ pc' = "status" /\ req' = n /\ inst' = cached[n]
    /\ outcome' = [cond |-> "Degraded", reason |-> "IncorrectMetalLBResourceName", requeue |-> FALSE]
    /\ UNCHANGED <<cluster, ocp, caches, delayed, net, toDel, toApply, webhookUp, churn>>

\* Mutant: any name is reconciled.
GetAnyName(n) ==
    /\ Take(n)
    /\ cached[n] # None
    /\ pc' = "render" /\ req' = n /\ inst' = cached[n]
    /\ UNCHANGED <<cluster, ocp, caches, delayed, net, toDel, toApply, outcome, webhookUp, churn>>

\* The start of reconcileResource and of syncMetalLBResources.
GetMetalLB(n) ==
    /\ Take(n)
    /\ cached[n] # None /\ n = defaultMetalLBCrName
    /\ pc' = IF DeploysFromCNO(cached[n].spec) THEN "cno" ELSE "render"
    /\ req' = n /\ inst' = cached[n]
    /\ UNCHANGED <<cluster, ocp, caches, delayed, net, toDel, toApply, outcome, webhookUp, churn>>

\* The read itself fails: the key is retried with backoff.
GetFails(n) ==
    /\ Disrupt
    /\ Take(n)
    /\ delayed' = delayed \cup {n}
    /\ UNCHANGED <<cluster, ocp, caches, reconcile, webhookUp>>

-----------------------------------------------------------------------------
(***************************************************************************)
(* syncMetalLBResources, part one: frr-k8s from the network operator.      *)
(***************************************************************************)

\* Mutant: the network operator is too old, and that is that.
CNOTooOldForGood ==
    /\ pc = "cno" /\ ~cnoSupports
    /\ Return
    /\ UNCHANGED <<cluster, ocp, caches, work, webhookUp, churn>>

\* The network operator is too old: try again in two minutes, say nothing.
CNOTooOld ==
    /\ pc = "cno" /\ ~cnoSupports
    /\ delayed' = delayed \cup {req}
    /\ Return
    /\ UNCHANGED <<cluster, ocp, caches, queue, webhookUp, churn>>

CNOSupports ==
    /\ pc = "cno" /\ cnoSupports
    /\ Goto("getNetwork")
    /\ UNCHANGED <<cluster, ocp, caches, work, webhookUp, churn>>

\* DeployFRRK8s reads the Network and stops if FRR is there already.
GetNetwork ==
    /\ pc = "getNetwork"
    /\ IF "FRR" \in netCached.providers
       THEN Goto("render")
       ELSE /\ pc' = "updateNetwork" /\ net' = netCached
            /\ UNCHANGED <<req, inst, toDel, toApply, outcome>>
    /\ UNCHANGED <<cluster, ocp, caches, work, webhookUp, churn>>

\* DeployFRRK8s writes the copy it read back, with FRR appended.
WriteNetwork ==
    /\ providers' = net.providers \cup {"FRR"}
    /\ netCached' = [netCached EXCEPT !.current = FALSE]
    /\ pc' = "render" /\ net' = None
    /\ UNCHANGED <<cluster, cnoSupports, caches, work, req, inst, toDel, toApply, outcome, webhookUp, churn>>

OverwriteNetwork == pc = "updateNetwork" /\ WriteNetwork           \* mutant
UpdateNetwork    == pc = "updateNetwork" /\ net.current /\ WriteNetwork

\* The Network changed since it was read: the API server refuses the write.
UpdateNetworkConflicts ==
    /\ pc = "updateNetwork" /\ ~net.current
    /\ SyncFailed
    /\ UNCHANGED <<cluster, ocp, caches, work, webhookUp, churn>>

-----------------------------------------------------------------------------
(***************************************************************************)
(* syncMetalLBResources, part two: validate, render, delete, apply.        *)
(***************************************************************************)

\* Has SetupWebhookWithManager stored the operator's default namespace yet?
DefaultNS == webhookUp /\ Env.FRRK8sExternalNamespace

\* An invalid resource is logged and otherwise treated as a finished sync.
SkipInvalid ==
    /\ pc = "render" /\ ~Validate(inst.spec, DefaultNS)
    /\ Goto("speaker")
    /\ UNCHANGED <<cluster, ocp, caches, work, webhookUp, churn>>

RefuseBGPMode ==
    /\ pc = "render" /\ Validate(inst.spec, DefaultNS) /\ ~validateBGPMode(inst.spec)
    /\ SyncFailed
    /\ UNCHANGED <<cluster, ocp, caches, work, webhookUp, churn>>

\* Mutant: a resource that cannot be rendered is skipped like an invalid one.
SkipUnrendered ==
    /\ pc = "render" /\ Validate(inst.spec, DefaultNS)
    /\ validateBGPMode(inst.spec) /\ ~Renders(inst.spec)
    /\ Goto("speaker")
    /\ UNCHANGED <<cluster, ocp, caches, work, webhookUp, churn>>

\* A chart cannot be rendered: nothing is deleted, nothing applied.
RenderFails ==
    /\ pc = "render" /\ Validate(inst.spec, DefaultNS)
    /\ validateBGPMode(inst.spec) /\ ~Renders(inst.spec)
    /\ SyncFailed
    /\ UNCHANGED <<cluster, ocp, caches, work, webhookUp, churn>>

Render ==
    /\ pc = "render" /\ Validate(inst.spec, DefaultNS)
    /\ validateBGPMode(inst.spec) /\ Renders(inst.spec)
    /\ toDel' = toDelFor(inst.spec) /\ toApply' = objsFor(inst.spec)
    /\ pc' = "objects"
    /\ UNCHANGED <<cluster, ocp, caches, work, req, inst, net, outcome, webhookUp, churn>>

\* Deleting an object that is not there is no error.
DeleteObj(o) ==
    /\ pc = "objects" /\ o \in Foremost(toDel, {})
    /\ objs' = [objs EXCEPT ![o] = None]
    /\ rolledOut' = rolledOut \ {o}
    /\ toDel' = toDel \ {o}
    /\ UNCHANGED <<crs, ocp, caches, work, pc, req, inst, net, toApply, outcome, webhookUp, churn>>

\* SetControllerReference: the uid of the copy, which may be gone by now.
NoOwner(o) == "none"                                               \* mutant
OwnerByName(o) == IF ~HasNamespace(o) THEN "none" ELSE req         \* mutant
OwnerOf(o) == IF ~HasNamespace(o) THEN "none"
              ELSE IF inst.tag = "gone" THEN "gone" ELSE req

Unchanged(o) == objs[o] # None /\ objs[o].content = Content(inst.spec, o)

\* A forced server-side apply; new content makes a workload roll out again.
Apply(o) ==
    /\ pc = "objects"
    /\ o \in Foremost(toApply, MetalLBObjects(inst.spec))
    /\ objs' = [objs EXCEPT ![o] = [content |-> Content(inst.spec, o), owner |-> OwnerOf(o)]]
    /\ rolledOut' = IF Unchanged(o) THEN rolledOut ELSE rolledOut \ {o}
    /\ toApply' = toApply \ {o}
    /\ pc' = IF toApply = {o} THEN "speaker" ELSE pc
    /\ UNCHANGED <<crs, ocp, caches, work, req, inst, net, toDel, outcome, webhookUp, churn>>

ApplyBeforeDelete(o) == Apply(o)                                   \* mutant
ApplyObj(o)          == toDel = {} /\ Apply(o)

\* Any call of the sync may fail; what was done before it stays done.
SyncCallFails ==
    /\ Disrupt
    /\ pc \in {"cno", "getNetwork", "updateNetwork", "objects"}
    /\ SyncFailed
    /\ UNCHANGED <<cluster, ocp, caches, work, webhookUp>>

-----------------------------------------------------------------------------
(***************************************************************************)
(* IsMetalLBAvailable: speaker first, controller only if it is ready.      *)
(***************************************************************************)
NotReadyForGood == Report("Progressing", "Progressing", FALSE)     \* mutant
NotReady        == Report("Progressing", "Progressing", TRUE)

ReadWorkload(step, w, IfReady) ==
    /\ pc = step
    /\ CASE seen[w] = "absent"   -> Report("Progressing", "internal error", FALSE)
         [] seen[w] = "notReady" -> NotReady
         [] seen[w] = "ready"    -> IfReady
    /\ UNCHANGED <<cluster, ocp, caches, work, webhookUp, churn>>

ReadSpeaker    == ReadWorkload("speaker", Speaker, Goto("controller"))
ReadController == ReadWorkload("controller", Controller, Report("Available", "Available", FALSE))

ReadFails ==
    /\ Disrupt
    /\ pc \in {"speaker", "controller"}
    /\ Report("Progressing", "internal error", FALSE)
    /\ UNCHANGED <<cluster, ocp, caches, work, webhookUp>>

-----------------------------------------------------------------------------
(***************************************************************************)
(* status.Update: all four conditions are rewritten with the present time. *)
(***************************************************************************)

\* The resource definition's pattern for a condition's reason has no blank.
ReasonAccepted(r) == r # "internal error"

Accepted == inst.tag = "current" /\ ReasonAccepted(outcome.reason)

Requeue == IF outcome.requeue THEN {req} ELSE {}

StatusWritten ==
    /\ pc = "status" /\ Accepted
    /\ crs' = [crs EXCEPT ![req].cond = outcome.cond]
    /\ cached' = [cached EXCEPT ![req] = Outdated(@)]
    /\ delayed' = delayed \cup Requeue
    /\ Return
    /\ UNCHANGED <<objs, rolledOut, ocp, seen, queue, webhookUp, churn>>

\* The same conditions within the same second: the write changes nothing.
StatusUnchanged ==
    /\ pc = "status" /\ Accepted
    /\ crs[req].cond = outcome.cond
    /\ delayed' = delayed \cup Requeue
    /\ Return
    /\ UNCHANGED <<cluster, ocp, caches, queue, webhookUp, churn>>

StatusErrorDropped == UNCHANGED delayed /\ Return                  \* mutant

\* The error is returned, hence retried; for a misnamed resource it is dropped.
StatusError ==
    /\ delayed' = IF req = defaultMetalLBCrName THEN delayed \cup {req} ELSE delayed
    /\ Return

StatusRefused ==
    /\ pc = "status" /\ ~Accepted
    /\ StatusError
    /\ UNCHANGED <<cluster, ocp, caches, queue, webhookUp, churn>>

StatusCallFails ==
    /\ Disrupt
    /\ pc = "status"
    /\ StatusError
    /\ UNCHANGED <<cluster, ocp, caches, queue, webhookUp>>

-----------------------------------------------------------------------------
(***************************************************************************)
(* The operator process.                                                   *)
(***************************************************************************)

\* Once the webhook's certificate exists, main registers the webhook.
SetupWebhook ==
    /\ ~webhookUp
    /\ webhookUp' = TRUE
    /\ UNCHANGED <<cluster, ocp, caches, work, reconcile, churn>>

\* The process is killed anywhere and starts again with freshly listed caches.
Restart ==
    /\ Disrupt
    /\ Return
    /\ cached' = [n \in Names |-> Fresh(n)]
    /\ seen' = [w \in Workloads |-> Reading(w)]
    /\ netCached' = [providers |-> providers, current |-> TRUE]
    /\ queue' = {n \in Names : crs[n] # None}
    /\ delayed' = {}
    /\ webhookUp' = FALSE
    /\ UNCHANGED <<cluster, providers, cnoSupports>>

-----------------------------------------------------------------------------
Environment ==
    \/ \E n \in Names : DeleteCR(n) \/ \E s \in Specs : CreateCR(n, s) \/ EditCR(n, s)
    \/ CollectGarbage
    \/ \E w \in Workloads : Rollout(w) \/ PodsFail(w) \/ WorkloadEvent(w)
    \/ \E p \in SUBSET Providers : EditNetwork(p)
    \/ \E n \in Names : WatchEvent(n) \/ Resync(n) \/ Timer(n)
    \/ UpgradeCNO \/ NetworkEvent \/ SetupWebhook \/ Restart

Start(n) == GetNotFound(n) \/ GetMisnamed(n) \/ GetMetalLB(n)

Step ==
    \/ CNOTooOld \/ CNOSupports \/ GetNetwork \/ UpdateNetwork \/ UpdateNetworkConflicts
    \/ SkipInvalid \/ RefuseBGPMode \/ RenderFails \/ Render
    \/ \E o \in Objects : DeleteObj(o) \/ ApplyObj(o)
    \/ ReadSpeaker \/ ReadController
    \/ StatusWritten \/ StatusUnchanged \/ StatusRefused

Fault == SyncCallFails \/ ReadFails \/ StatusCallFails \/ \E n \in Names : GetFails(n)

Next == Environment \/ (\E n \in Names : Start(n)) \/ Step \/ Fault

Spec == Init /\ [][Next]_vars

(***************************************************************************)
(* Fairness: a running worker finishes its calls; the queue is first in,   *)
(* first out, so a key that keeps coming back to it is taken (strong       *)
(* fairness); informers, timers, kubelets and the garbage collector get to *)
(* their work.  Users, administrators, faults, resyncs and upgrades owe us *)
(* nothing.                                                                *)
(***************************************************************************)
Fairness ==
    /\ WF_vars(Step)
    /\ \A n \in Names : SF_vars(Start(n)) /\ WF_vars(WatchEvent(n)) /\ WF_vars(Timer(n))
    /\ \A w \in Workloads : WF_vars(Rollout(w)) /\ WF_vars(WorkloadEvent(w))
    /\ WF_vars(CollectGarbage) /\ WF_vars(NetworkEvent) /\ WF_vars(SetupWebhook)

FairSpec == Spec /\ Fairness

-----------------------------------------------------------------------------
(***************************************************************************)
(* Properties.                                                             *)
(***************************************************************************)

\* The types of the variables.
TypeOK ==
    /\ crs \in [Names -> CR \cup {None}]
    /\ objs \in [Objects -> Object \cup {None}]
    /\ rolledOut \in SUBSET Workloads
    /\ providers \in SUBSET Providers /\ cnoSupports \in BOOLEAN
    /\ cached \in [Names -> Copy \cup {None}]
    /\ seen \in [Workloads -> Readings]
    /\ netCached \in Net
    /\ queue \in SUBSET Names /\ delayed \in SUBSET Names
    /\ webhookUp \in BOOLEAN
    /\ pc \in Steps
    /\ req \in Names \cup {None} /\ inst \in Copy \cup {None} /\ net \in Net \cup {None}
    /\ toDel \in SUBSET Objects /\ toApply \in SUBSET Objects
    /\ outcome \in Outcome
    /\ churn \in 0 .. MaxChurn

\* The validity of s hangs on the operator's default frr-k8s namespace.
NeedsDefaultNS(s) == s.bgpBackend = "frr-k8s-external" /\ ~s.namespace

Matches(o, s) ==
    /\ objs[o] # None
    /\ objs[o].content = Content(s, o)
    /\ objs[o].owner = IF HasNamespace(o) THEN defaultMetalLBCrName ELSE "none"

\* The cluster holds the objects s asks for, and of frr-k8s no others.
Deployed(s) ==
    /\ \A o \in objsFor(s) : Matches(o, s)
    /\ \A o \in FRRK8sObjects \ objsFor(s) : objs[o] = None

(***************************************************************************)
(* "Available" is never reported for a resource whose objects are not all  *)
(* in place: the sync that precedes the report deleted what the mode does  *)
(* not use, applied everything it does use, in that order (frr-startup is  *)
(* in both lists in frr mode), and nothing undid it meanwhile.  Specs      *)
(* whose validity hangs on the default namespace are left out (see         *)
(* AvailableMeansDeployedAlways).                                          *)
(***************************************************************************)
Reporting(c) == pc = "status" /\ req = defaultMetalLBCrName /\ outcome.cond = c

AvailableMeansDeployed ==
    Reporting("Available") /\ inst.tag # "gone" /\ ~NeedsDefaultNS(inst.spec)
        => Deployed(inst.spec)

(***************************************************************************)
(* No lost wakeup: when nothing is on its way (no watch event, no queued   *)
(* or delayed key, no reconcile in progress) the operator has finished:    *)
(* the stored spec is deployed and the stored condition says Available.    *)
(* Errors, conflicts, stale reads, kills and half-done syncs never leave   *)
(* the resource behind with nothing scheduled.                             *)
(***************************************************************************)
Pending(n) == Lags(n) \/ n \in queue \cup delayed \/ req = n

NoLostWakeup ==
    LET cr == crs[defaultMetalLBCrName] IN
    cr # None /\ ~Pending(defaultMetalLBCrName) /\ ~NeedsDefaultNS(cr.spec)
        => Deployed(cr.spec) /\ cr.cond = "Available"

(***************************************************************************)
(* A misnamed resource owns nothing and is never reported available or     *)
(* progressing; an object is owned by a live "metallb" or by the garbage.  *)
(***************************************************************************)
MisnamedInert ==
    /\ \A o \in Objects : objs[o] # None =>
            \/ objs[o].owner = defaultMetalLBCrName /\ crs[defaultMetalLBCrName] # None
            \/ objs[o].owner \in {"gone", "none"}
    /\ \A n \in Names \ {defaultMetalLBCrName} :
            crs[n] # None => crs[n].cond \in {"none", "Degraded"}

(***************************************************************************)
(* The speaker is switched to frr-k8s only once the frr-k8s daemons it     *)
(* will talk to have been applied from the same spec.                      *)
(***************************************************************************)
SwitchesToFRRK8s(w) ==
    /\ objs'[w] # objs[w] /\ objs'[w] # None
    /\ objs'[w].content[1] = "frr-k8s" /\ objs'[w].owner # "gone"

FRRK8sBeforeSpeaker ==
    [][SwitchesToFRRK8s(Speaker) =>
          /\ objs'[FRRK8sDaemon] # None
          /\ objs'[FRRK8sDaemon].content[2] = objs'[Speaker].content[2]]_vars

(***************************************************************************)
(* What the operator writes to the Network is what the Network says at     *)
(* that moment plus FRR: no provider an administrator added meanwhile is   *)
(* lost, and none an administrator removed comes back.                     *)
(***************************************************************************)
ProvidersPreserved ==
    [][pc = "updateNetwork" /\ pc' = "render" => providers' = providers \cup {"FRR"}]_vars

\* The platform allows the mode and the charts can be rendered for it.
Deployable(s) == validateBGPMode(s) /\ Renders(s)

(***************************************************************************)
(* Once the disruptions stop, a resource the platform supports ends up     *)
(* Available for good, with its objects in place again and again (in frr   *)
(* mode every sync briefly removes frr-startup).                           *)
(***************************************************************************)
Reconcilable(cr) ==
    /\ cr # None
    /\ Deployable(cr.spec) /\ ~NeedsDefaultNS(cr.spec)
    /\ DeploysFromCNO(cr.spec) => cnoSupports

Converges ==
    <>[]Reconcilable(crs[defaultMetalLBCrName]) =>
        /\ <>[](crs[defaultMetalLBCrName] # None => crs[defaultMetalLBCrName].cond = "Available")
        /\ []<>(crs[defaultMetalLBCrName] # None => Deployed(crs[defaultMetalLBCrName].spec))

(***************************************************************************)
(* Once the resource is gone for good, so are the namespaced objects it    *)
(* owned, those a sync in flight created after the deletion included.      *)
(***************************************************************************)
CollectedAmong(S) ==
    <>[](crs[defaultMetalLBCrName] = None) =>
        <>[](\A o \in S : objs[o] = None)

OperandsCollected == CollectedAmong({o \in Objects : ~ClusterScoped(o)})

(***************************************************************************)
(* Settled: the operator has nothing left to do for "metallb".  If there   *)
(* is such a resource, its objects are in place and its pods run, the      *)
(* informers have seen both, the condition says so, and what a reconcile   *)
(* in progress works from or is about to report is no different.  Only     *)
(* frr-startup may be missing, between the two halves of a sync in frr     *)
(* mode.  If there is none, its objects are gone and no sync is at work.   *)
(***************************************************************************)
AboutToRestore(o) == o = FRRStartup /\ pc = "objects" /\ o \in toApply

Running(cr) ==
    /\ Reconcilable(cr) /\ cr.cond = "Available"
    /\ \A o \in objsFor(cr.spec) : Matches(o, cr.spec) \/ AboutToRestore(o)
    /\ \A o \in FRRK8sObjects \ objsFor(cr.spec) : objs[o] = None
    /\ Workloads \subseteq rolledOut /\ \A w \in Workloads : seen[w] = "ready"
    /\ LET c == cached[defaultMetalLBCrName] IN c # None => c.spec = cr.spec /\ c.tag # "gone"
    /\ req = defaultMetalLBCrName =>
          /\ inst.spec = cr.spec /\ inst.tag # "gone"
          /\ pc = "status" => outcome.cond = "Available" \/ ~ReasonAccepted(outcome.reason)

Cleared ==
    /\ cached[defaultMetalLBCrName] = None /\ req # defaultMetalLBCrName
    /\ \A o \in Objects : ~ClusterScoped(o) => objs[o] = None

Settled ==
    LET cr == crs[defaultMetalLBCrName] IN IF cr = None THEN Cleared ELSE Running(cr)

(***************************************************************************)
(* The safe half of Converges and OperandsCollected: until the next        *)
(* disruption the operator leaves a settled cluster alone.  However often  *)
(* it reconciles, and it does so after each event and with each failed     *)
(* status write, no pod is restarted, no object of the mode is removed for *)
(* good, no condition is taken back and nothing returns that was collected.*)
(***************************************************************************)
StaysSettled == [][Settled /\ churn' = churn => Settled']_vars

-----------------------------------------------------------------------------
(***************************************************************************)
(* Statements of the repository the code does not live up to.              *)
(***************************************************************************)

(***************************************************************************)
(* "Owned objects are automatically garbage collected": every object the   *)
(* sync gave a controller reference to goes with the resource.             *)
(***************************************************************************)
OwnedCollected == CollectedAmong({o \in Objects : HasNamespace(o)})

(***************************************************************************)
(* "Conditions show the current state": a resource whose sync fails for as *)
(* long as it exists is reported Degraded, as reconcileResource decides.   *)
(***************************************************************************)
FailureReported ==
    <>[](crs[defaultMetalLBCrName] # None /\ ~validateBGPMode(crs[defaultMetalLBCrName].spec))
        => <>(crs[defaultMetalLBCrName] # None /\ crs[defaultMetalLBCrName].cond = "Degraded")

(***************************************************************************)
(* "The operator will consume this resource and create all required        *)
(* resources": Available without exception means deployed.                 *)
(***************************************************************************)
AvailableMeansDeployedAlways ==
    Reporting("Available") /\ inst.tag # "gone" => Deployed(inst.spec)
=============================================================================
