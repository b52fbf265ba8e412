---------------------------- MODULE WorkloadStatus ----------------------------
(***************************************************************************)
(* How the operator learns that the workloads run.  Kubernetes rolls the   *)
(* speaker DaemonSet and the controller Deployment out pod by pod and      *)
(* writes counts into their status; the operator reads a copy, judges it   *)
(* (package status), reports a condition and decides whether to come back. *)
(* Nothing watches the workloads.                                          *)
(*                                                                         *)
(* The sync is one step here: module MetalLBReconciler has its calls.  A   *)
(* generation of a workload is the count of its specs applied so far.      *)
(***************************************************************************)
EXTENDS Naturals, FiniteSets

CONSTANTS
    Nodes,        \* the nodes of the cluster
    MaxGen,       \* bound on the specs the user asks for
    MaxChurn      \* bound on failing pods and on nodes coming and going

ASSUME StatusAssumption ==
    IsFiniteSet(Nodes) /\ MaxGen \in Nat \ {0} /\ MaxChurn \in Nat

Gens == 1 .. MaxGen
Pod  == [gen : 0 .. MaxGen, ready : BOOLEAN]      \* generation 0: no pod

NoPod  == [gen |-> 0, ready |-> FALSE]
New(g) == [gen |-> g, ready |-> FALSE]
replicas == 1

VARIABLES
    wanted,       \* the number of the resource's spec; 0 before it is created
    gen,          \* the generation both workloads are stored with, 0 when absent
    nodes,        \* the nodes the speaker is to run on
    pods,         \* the speaker pod of each node
    ctrlPods,     \* the controller's pods
    dsSeen,       \* the operator's copy of the DaemonSet, its status included
    deploySeen,   \* the operator's copy of the Deployment
    stored,       \* the conditions of the resource that are true
    event,        \* has the resource changed since the operator looked?
    timer,        \* is a retry or a poll due?
    pc,           \* the next call of the reconcile
    inst,         \* the spec it works on
    outcome,      \* the condition it is to report
    rolledOut,    \* history: the generation all nodes ran when the last status was taken
    served,       \* history: likewise, that had a pod while one pod served
    churn

kube     == <<nodes, pods, ctrlPods>>
copies   == <<dsSeen, deploySeen, rolledOut, served>>
resource == <<wanted, stored>>
operator == <<event, timer, pc, inst, outcome>>
vars     == <<kube, copies, resource, operator, gen, churn>>

DSStatus     == [observed : 0 .. MaxGen, desired : Nat, current : Nat, updated : Nat, ready : Nat]
DeployStatus == [observed : 0 .. MaxGen, updated : Nat, ready : Nat]

Init ==
    /\ wanted = 0 /\ gen = 0
    /\ nodes = Nodes /\ pods = [n \in Nodes |-> NoPod] /\ ctrlPods = {}
    /\ dsSeen = [gen |-> 0, status |-> [observed |-> 0, desired |-> 0, current |-> 0,
                                        updated |-> 0, ready |-> 0]]
    /\ deploySeen = [gen |-> 0, status |-> [observed |-> 0, updated |-> 0, ready |-> 0]]
    /\ stored = {}
    /\ event = FALSE /\ timer = FALSE
    /\ pc = "idle" /\ inst = 0 /\ outcome = "none"
    /\ rolledOut = {} /\ served = {}
    /\ churn = 0

-----------------------------------------------------------------------------
(***************************************************************************)
(* The user.                                                               *)
(***************************************************************************)
Ask ==
    /\ wanted < MaxGen
    /\ wanted' = wanted + 1
    /\ event' = TRUE
    /\ UNCHANGED <<kube, copies, stored, timer, pc, inst, outcome, gen, churn>>

-----------------------------------------------------------------------------
(***************************************************************************)
(* Kubernetes.  The DaemonSet is rolled out node by node; the Deployment,  *)
(* with one replica, by a surge: the old pod goes when the new one serves. *)
(***************************************************************************)
Disrupt == churn < MaxChurn /\ churn' = churn + 1

Unmoved == UNCHANGED <<copies, resource, operator, gen>>
SetPod(n, p) == pods' = [pods EXCEPT ![n] = p]

ReplacePod(n) ==
    /\ n \in nodes /\ pods[n].gen < gen
    /\ SetPod(n, New(gen))
    /\ Unmoved /\ UNCHANGED <<nodes, ctrlPods, churn>>

PodStarts(n) ==
    /\ pods[n].gen # 0 /\ ~pods[n].ready
    /\ SetPod(n, [pods[n] EXCEPT !.ready = TRUE])
    /\ Unmoved /\ UNCHANGED <<nodes, ctrlPods, churn>>

PodFails(n) ==
    /\ Disrupt /\ pods[n].ready
    /\ SetPod(n, [pods[n] EXCEPT !.ready = FALSE])
    /\ Unmoved /\ UNCHANGED <<nodes, ctrlPods>>

\* A node leaves with its pod, or comes (back) without one.
NodeChanges(n) ==
    /\ Disrupt
    /\ nodes' = IF n \in nodes THEN nodes \ {n} ELSE nodes \cup {n}
    /\ SetPod(n, NoPod)
    /\ Unmoved /\ UNCHANGED ctrlPods

ControllerPodsChange ==
    /\ \/ /\ gen # 0 /\ \A p \in ctrlPods : p.gen # gen
          /\ ctrlPods' = ctrlPods \cup {New(gen)}
       \/ \E p \in ctrlPods :
             /\ ~p.ready
             /\ ctrlPods' = (ctrlPods \ {p}) \cup {[p EXCEPT !.ready = TRUE]}
       \/ /\ \E p \in ctrlPods : p.gen # gen
          /\ [gen |-> gen, ready |-> TRUE] \in ctrlPods
          /\ ctrlPods' = {p \in ctrlPods : p.gen = gen}
    /\ Unmoved /\ UNCHANGED <<nodes, pods, churn>>

ControllerPodFails ==
    /\ Disrupt
    /\ \E p \in ctrlPods : p.ready /\ ctrlPods' = (ctrlPods \ {p}) \cup {New(p.gen)}
    /\ Unmoved /\ UNCHANGED <<nodes, pods>>

-----------------------------------------------------------------------------
(***************************************************************************)
(* The controllers of the workloads count their pods and write the counts  *)
(* with the generation they are for; the operator's informers deliver what *)
(* they wrote.  The two delays are one: a copy is what was true at some    *)
(* moment, for as long as no newer one arrives.  A count taken for an      *)
(* older generation than the stored one is the case of SeeSpecs.           *)
(***************************************************************************)
UpToDate  == {n \in nodes : pods[n].gen = gen}
Ready     == {n \in nodes : pods[n].ready}
StillSeen == UNCHANGED <<kube, resource, operator, gen, churn>>

SeeSpeaker ==
    /\ gen # 0
    /\ dsSeen' = [gen |-> gen,
                  status |-> [observed |-> gen,
                              desired  |-> Cardinality(nodes),
                              current  |-> Cardinality({n \in nodes : pods[n].gen # 0}),
                              updated  |-> Cardinality(UpToDate),
                              ready    |-> Cardinality(Ready)]]
    /\ rolledOut' = IF nodes \subseteq UpToDate \cap Ready THEN {gen} ELSE {}
    /\ StillSeen /\ UNCHANGED <<deploySeen, served>>

SeeController ==
    LET updated == {p \in ctrlPods : p.gen = gen}
        serving == {p \in ctrlPods : p.ready} IN
    /\ gen # 0
    /\ deploySeen' = [gen |-> gen,
                      status |-> [observed |-> gen, updated |-> Cardinality(updated),
                                  ready |-> Cardinality(serving)]]
    /\ served' = IF updated # {} /\ serving # {} THEN {gen} ELSE {}
    /\ StillSeen /\ UNCHANGED <<dsSeen, rolledOut>>

\* The new spec is seen before the status catches up with it.
SeeSpecs ==
    /\ dsSeen' = [dsSeen EXCEPT !.gen = gen]
    /\ deploySeen' = [deploySeen EXCEPT !.gen = gen]
    /\ StillSeen /\ UNCHANGED <<rolledOut, served>>

-----------------------------------------------------------------------------
(***************************************************************************)
(* isDaemonSetReady and isDeploymentReady.                                 *)
(***************************************************************************)
NoUpdatedCheck(ds) ==                                              \* mutant
    /\ ds.gen = ds.status.observed
    /\ ds.status.desired = ds.status.current /\ ds.status.desired = ds.status.ready
isDaemonSetReady(ds) ==
    /\ ds.gen = ds.status.observed
    /\ ds.status.desired = ds.status.current /\ ds.status.desired = ds.status.ready
    /\ ds.status.desired = ds.status.updated

\* Any pod counts as ready, the old one of a surge included.
isDeploymentReady(d) ==
    /\ d.gen = d.status.observed
    /\ d.status.ready = replicas /\ d.status.updated = replicas

\* Mutant: each sync first announces itself.
AnnounceSync ==
    /\ pc = "idle" /\ (event \/ timer) /\ wanted # 0
    /\ event' = FALSE /\ timer' = FALSE
    /\ inst' = wanted /\ gen' = wanted
    /\ stored' = {"Progressing"}
    /\ pc' = "speaker"
    /\ UNCHANGED <<kube, copies, wanted, outcome, churn>>

\* A key taken from the queue: sync brings both workloads to the spec.
Sync ==
    /\ pc = "idle" /\ (event \/ timer) /\ wanted # 0
    /\ event' = FALSE /\ timer' = FALSE
    /\ inst' = wanted
    /\ gen' = wanted
    /\ pc' = "speaker"
    /\ UNCHANGED <<kube, copies, resource, outcome, churn>>

Report(c) == pc' = "write" /\ outcome' = c /\ UNCHANGED <<timer, inst>>
Return    == pc' = "idle" /\ outcome' = "none" /\ inst' = 0

\* The error of a missing workload is returned once more by the status
\* write, which the API server refuses for its reason: a retry.
NoRetry == Return /\ UNCHANGED timer                               \* mutant
Retry   == Return /\ timer' = TRUE

ReadSpeaker ==
    /\ pc = "speaker"
    /\ \/ dsSeen.gen = 0 /\ Retry
       \/ dsSeen.gen # 0 /\ ~isDaemonSetReady(dsSeen) /\ Report("Progressing")
       \/ dsSeen.gen # 0 /\ isDaemonSetReady(dsSeen) /\ pc' = "controller" /\ UNCHANGED <<timer, outcome, inst>>
    /\ UNCHANGED <<kube, copies, resource, event, gen, churn>>

ReadController ==
    /\ pc = "controller"
    /\ \/ deploySeen.gen = 0 /\ Retry
       \/ /\ deploySeen.gen # 0
          /\ Report(IF isDeploymentReady(deploySeen) THEN "Available" ELSE "Progressing")
    /\ UNCHANGED <<kube, copies, resource, event, gen, churn>>

(***************************************************************************)
(* Update.  The conditions carry the present time, so they are never equal *)
(* to those read and are always written.  The API server keeps seconds: a  *)
(* write of the same conditions may or may not change the resource, and a  *)
(* write that does comes back as an event.                                 *)
(***************************************************************************)
DegradedLeft(c) == {c, "Degraded"}                                 \* mutant
getConditions(c) == IF c = "Available" THEN {"Available", "Upgradeable"} ELSE {c}

PollLost == UNCHANGED timer                                        \* mutant
Poll     == timer' = (timer \/ outcome = "Progressing")

Update ==
    /\ pc = "write" /\ inst = wanted
    /\ stored' = getConditions(outcome)
    /\ event' = TRUE \/ (stored' = stored /\ event' = event)
    /\ Poll /\ Return
    /\ UNCHANGED <<kube, copies, wanted, gen, churn>>

\* The resource was edited since it was read.
UpdateConflicts ==
    /\ pc = "write" /\ inst # wanted
    /\ Retry
    /\ UNCHANGED <<kube, copies, resource, event, gen, churn>>

-----------------------------------------------------------------------------
Reconcile == Sync \/ ReadSpeaker \/ ReadController \/ Update \/ UpdateConflicts

Next ==
    \/ Ask \/ Reconcile
    \/ SeeSpecs \/ SeeSpeaker \/ SeeController
    \/ \E n \in Nodes : ReplacePod(n) \/ PodStarts(n) \/ PodFails(n) \/ NodeChanges(n)
    \/ ControllerPodsChange \/ ControllerPodFails

Spec == Init /\ [][Next]_vars

(***************************************************************************)
(* Fairness: the worker runs, Kubernetes gets pods running and counts the  *)
(* latest generation, informers deliver.  Users and failures owe nothing.  *)
(***************************************************************************)
Fairness ==
    /\ WF_vars(Reconcile)
    /\ WF_vars(\E n \in Nodes : ReplacePod(n) \/ PodStarts(n))
    /\ WF_vars(ControllerPodsChange)
    /\ WF_vars(SeeSpeaker) /\ WF_vars(SeeController)

FairSpec == Spec /\ Fairness

-----------------------------------------------------------------------------
(***************************************************************************)
(* Properties.                                                             *)
(***************************************************************************)

\* The types of the variables.
TypeOK ==
    /\ wanted \in 0 .. MaxGen /\ gen \in 0 .. MaxGen
    /\ nodes \in SUBSET Nodes /\ pods \in [Nodes -> Pod] /\ ctrlPods \in SUBSET Pod
    /\ dsSeen \in [gen : 0 .. MaxGen, status : DSStatus]
    /\ deploySeen \in [gen : 0 .. MaxGen, status : DeployStatus]
    /\ stored \in SUBSET {"Available", "Upgradeable", "Progressing"}
    /\ event \in BOOLEAN /\ timer \in BOOLEAN
    /\ pc \in {"idle", "speaker", "controller", "write"}
    /\ inst \in 0 .. MaxGen
    /\ outcome \in IF pc = "write" THEN {"Available", "Progressing"} ELSE {"none"}
    /\ rolledOut \in SUBSET Gens /\ served \in SUBSET Gens
    /\ churn \in 0 .. MaxChurn

(***************************************************************************)
(* What a verdict on a copy is worth: if isDaemonSetReady says so, there   *)
(* was a moment when every node the speaker is to run on ran a ready pod   *)
(* of that very generation, however old the copy, whatever failed since.   *)
(* For the Deployment it is less: a pod of that generation existed and     *)
(* some pod, maybe the old one of a surge, served.                         *)
(***************************************************************************)
VerdictSound ==
    /\ dsSeen.gen # 0 /\ isDaemonSetReady(dsSeen) => dsSeen.gen \in rolledOut
    /\ deploySeen.gen # 0 /\ isDeploymentReady(deploySeen) => deploySeen.gen \in served

(***************************************************************************)
(* The operator rests only on Available: with the workloads unwatched, a   *)
(* report of Progressing always leaves a poll, an event or a retry behind, *)
(* a write dropped as unchanged and a conflict included.                   *)
(***************************************************************************)
Resting == pc = "idle" /\ ~event /\ ~timer

RestsOnAvailable ==
    wanted # 0 /\ Resting => stored = {"Available", "Upgradeable"} /\ gen = wanted

(***************************************************************************)
(* The converse of VerdictSound, and no flapping: while users and failures *)
(* are quiet, rolled out workloads that are reported available stay        *)
(* reported.  Each status the operator reads is judged ready, and however  *)
(* often its own writes wake it, no reconcile reports or applies anything  *)
(* else.                                                                   *)
(***************************************************************************)
RolledOut ==
    /\ \A n \in nodes : pods[n] = [gen |-> wanted, ready |-> TRUE]
    /\ ctrlPods = {[gen |-> wanted, ready |-> TRUE]}

Reported ==
    /\ gen = wanted /\ stored = {"Available", "Upgradeable"}
    /\ dsSeen.gen = wanted /\ isDaemonSetReady(dsSeen)
    /\ deploySeen.gen = wanted /\ isDeploymentReady(deploySeen)
    /\ outcome # "Progressing"

StaysReported ==
    [][wanted # 0 /\ RolledOut /\ Reported /\ UNCHANGED <<wanted, churn>>
          => (RolledOut /\ Reported)']_vars

(***************************************************************************)
(* Once users and failures are quiet, the resource is reported available   *)
(* for good and every node runs a ready speaker of its last spec.          *)
(***************************************************************************)
RolledOutAndReported ==
    <>[](/\ wanted # 0 => stored = {"Available", "Upgradeable"}
         /\ wanted # 0 => \A n \in nodes : pods[n] = [gen |-> wanted, ready |-> TRUE])
=============================================================================
