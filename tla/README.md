# metallb-operator in TLA+

A model of the MetalLB operator: the controller that turns one `MetalLB` resource into the
objects that run MetalLB, on plain Kubernetes and on OpenShift. The operator itself is small
and sequential. What is hard about it is everything it shares with others while it works: a
resource users keep editing, caches that lag, objects that are deleted and applied one by one,
a Network resource administrators edit too, and the process itself, which may be killed between
any two calls. Those interleavings are what the modules here describe.

## 1. The system

| Component | State | Operations | Talks to |
|---|---|---|---|
| MetalLB reconciler, `controllers/metallb_controller.go` | none of its own: the work queue, the timers, a copy of the resource | `Reconcile`, `reconcileResource`, `syncMetalLBResources` | API server (through caches for reads), the charts, `pkg/openshift`, `pkg/status` |
| Status conditions, `pkg/status/status.go` | the resource's four conditions | `Update`, `IsMetalLBAvailable` | API server, workload caches |
| Admission webhook, `api/v1beta1/metallb_webhook.go` | the package variable `ExternalFRRK8sNamespace` | `ValidateCreate`, `ValidateUpdate`, `ValidateDelete`, `Validate` | users' writes; `Validate` is called by the reconciler as well |
| Helm charts, `pkg/helm` and `bindata/deployment/helm` | none | `MetalLBChart.Objects`, `FRRK8SChart.Objects` | the reconciler |
| Network operator integration, `pkg/openshift/openshift.go` | the Network's list of routing providers (shared with administrators) | `SupportsFRRK8s`, `DeployFRRK8s` | `ClusterOperator/network`, `Network/cluster` |
| Environment and mode, `pkg/params` | `EnvConfig`, read once | `FromEnvironment`, `BGPType` | everything |
| Start-up, `main.go` | flags, TLS settings, the registration of the webhook | `main`, `syncTLSConfigMap`, `deleteWebhookServerPods` | all of the above |
| TLS profile, `pkg/openshift/tls.go`, `pkg/tlsconfig` | the profile the process started with | `FetchTLSConfig`, `SetupProfileWatcher`, `OptFor` | start-up |

How they interact. A user's write passes the webhook and lands in the API server; the watch brings
it into the informer cache and its key into the queue; one worker takes the key, reads the resource
from the cache, asks the network operator for frr-k8s (OpenShift), validates again, renders both
charts (or fails to), deletes what the mode does not use, applies what it uses, reads the two workloads from the
cache and writes the conditions. That write comes back as another watch event.

What is hard, and what makes it right:

* *Half-done work.* Two loops of API calls, any of which may fail and before any of which the process
  may die. Available must not be reported unless everything is in place, and something must always
  be scheduled that finishes the job.
* *Where retries come from.* A failed sync returns neither an error nor a requeue. It is retried
  because its status write fails (the reason `internal error` is refused) and that error is returned;
  had the write succeeded, its own watch event would have been the retry. "No lost wakeup" is
  therefore an argument over all of the code, not a line of it.
* *Stale copies.* `Reconcile` finishes with the copy it started with. Deletion and re-creation of the
  resource meanwhile make it adopt objects for an owner that is gone.
* *Two charts, one name.* `frr-startup` is rendered by both; in `frr` mode every sync deletes it and
  applies it again.
* *A shared resource.* `DeployFRRK8s` reads the Network from a cache and writes it back whole.
* *Two notions of the mode.* Validation tests the mode written in the resource, rendering the mode in
  force. With external mode as the platform's default a resource may be valid and yet not render.
* *A global set late.* `Validate` means one thing before the webhook is registered and another after.
* *Readiness from counts.* Nothing watches the workloads. Whether they run is judged from four numbers
  in a status that lags behind the spec, read from a cache that lags behind the status.
* *Three ways for one value.* What a user asks for reaches a workload as a helm value, through a
  template, or as a patch of the rendered object; for OpenShift more is patched on top.
* *A start-up with effects.* Before the manager runs and without the lease, `main` writes a ConfigMap and
  deletes pods. It may die at any step, and the TLS profile it works from may change at any step.

`PROJECT.json` lists every hazard at its line, with the properties that cover it or why none does.

## 2. The modules

| Module | What it is |
|---|---|
| `Operands` | Pure functions of the environment and a spec: the BGP mode, `Validate`, `validateBGPMode`, the objects each chart renders, the deletion and the application list and their order. |
| `MetalLBReconciler` | The state machine: users, API server, caches, queue, timers, kubelets, garbage collector, network operator, and `Reconcile` with one action per call that leaves the process. Extends `Operands`. |
| `DesiredState` | The abstract specification: one resource, its objects and its reported condition, without caches, queues and steps. |
| `ReconcilerRefinement` | `MetalLBReconciler` with the refinement mapping to `DesiredState`. |
| `WorkloadStatus` | The rollout of the workloads pod by pod, the counts in their status, and how the operator judges, reports and polls. |
| `StartupInputs` | Pure functions: environment variables, image references, platform, versions, TLS settings. |
| `OperatorStartup` | The state machine of `main`, the ConfigMap, the webhook server's pods, the lease and the profile watcher. Extends `StartupInputs`. |
| `ChartObjects` | The content of the rendered objects, and a sync that applies them. Takes the objects from `Operands` by `INSTANCE`, with the environment as a variable. |
| `MCReconciler`, `MCStartup`, `MCCharts` | Environments, specs and inputs for TLC. |
| `MetalLBReconciler_proofs`, `ReconcilerRefinement_proofs`, `ReconcilerStability_proofs`, `WorkloadStatus_proofs`, `StartupInputs_proofs`, `OperatorStartup_proofs`, `ChartObjects_proofs` | Theorems for all values of the constants, each module extending the one it is about (`ReconcilerStability_proofs` builds on the two before it, `OperatorStartup_proofs` on `StartupInputs_proofs`). |

The sync occurs in three modules, each time with the detail that module is about: call by call with all
that can interleave, but opaque contents, in `MetalLBReconciler`; with contents but without queues and
caches in `ChartObjects`; as one step in `WorkloadStatus`.

### MetalLBReconciler: state

| Variable | Stands for |
|---|---|
| `crs`, `objs` | the stored MetalLB resources (spec and reported condition) and operand objects (content and owner) |
| `rolledOut` | the workloads whose status, once it is up to date, passes the operator's readiness check (`WorkloadStatus` says what that is worth) |
| `cached`, `seen`, `netCached` | the informer caches of the resources, of the readiness of the two workloads, of the Network |
| `queue`, `delayed` | the keys in the work queue; those waiting for `RequeueAfter` or a backoff |
| `providers`, `cnoSupports` | `Network.spec.additionalRoutingCapabilities.providers`; whether the network operator's version is at least `CNO_MIN_FRRK8S_VERSION` |
| `webhookUp` | whether `SetupWebhookWithManager` has run in this process, hence whether the default namespace is set and writes are admitted |
| `pc`, `req`, `inst`, `net`, `toDel`, `toApply`, `outcome` | the local state of `Reconcile`: step, key, copy of the resource, copy of the Network, what is left of the two lists, and the triple `reconcileResource` returns |
| `churn` | the environment's disruptions so far |

A copy of an object carries a tag: `current` (it has the stored resourceVersion), `stale` (same uid,
older version) or `gone` (the uid no longer exists). The tag decides whether a write with the copy
is accepted and whom an owner reference names; versions and uids themselves are not counted.

### MetalLBReconciler: actions

| Code | Actions |
|---|---|
| `Reconcile`, the `Get` | `GetNotFound`, `GetMisnamed`, `GetMetalLB`, `GetFails` |
| `SupportsFRRK8s`, `DeployFRRK8s` | `CNOTooOld`, `CNOSupports`, `GetNetwork`, `UpdateNetwork`, `UpdateNetworkConflicts` |
| validation and rendering | `SkipInvalid`, `RefuseBGPMode`, `RenderFails`, `Render` |
| the two loops | `DeleteObj`, `ApplyObj` |
| any call of the sync failing | `SyncCallFails` |
| `IsMetalLBAvailable` | `ReadSpeaker`, `ReadController`, `ReadFails` |
| `status.Update` and what `Reconcile` returns | `StatusWritten`, `StatusUnchanged`, `StatusRefused`, `StatusCallFails` |
| the webhook, guarding users' writes | `CreateCR`, `EditCR`, `DeleteCR` |
| `main` | `SetupWebhook`, `Restart` |
| not this repository's code | `CollectGarbage`, `Rollout`, `PodsFail`, `UpgradeCNO`, `EditNetwork`, `WatchEvent`, `Resync`, `Timer`, `WorkloadEvent`, `NetworkEvent` |

Some choices that matter:

* The order inside the two lists is the code's: frr-k8s objects before metallb objects, each chart in
  helm's order of kinds, the SecurityContextConstraints last. Objects of one kind are interchangeable,
  so they may come in any order.
* `StatusUnchanged` is there because `getConditions` stamps the present time and the API server keeps
  seconds: the same conditions written again within one second change nothing, and no event follows.
* Rendering fails in one case (`RenderFails`): external mode is in force and neither the resource nor
  the environment gives a namespace, which the speaker's template requires
  (`templates/speaker.yaml:291`). Written in the resource, external mode without a namespace is
  refused by `Validate`; as the platform's default (`bgpBackend` empty, OpenShift,
  `DEPLOY_FRRK8S_FROM_CNO`) it is not. The sync then fails like any other, before anything is deleted,
  and is retried until the resource is edited. The charts' other `required` and `fail` conditions
  are met by the values the operator always passes.
* The webhook's failure policy is `Fail`: while the operator is starting, nothing is admitted.
* `Rollout` ends with all pods ready. A later `Apply` of the same content does not restart it.
* Workloads are not watched, so `WorkloadEvent` moves a cache and enqueues nothing; neither does
  `NetworkEvent`, since the key it enqueues is the Network's own.

### DesiredState

The user creates, edits and deletes the resource. The operator may `Place` an object for any spec
that can be deployed here (`Deployable`: the platform allows its mode and its charts render), provided
everything the mode does without is gone and everything that comes earlier in the list is in place; it
may `PlaceOrphan` after the resource was deleted, `Remove` optional objects of such a spec, and
`Report`, Available only of the stored spec and only when it is deployed. The mapping takes `cr` to
the stored resource `metallb` and the objects to the objects; the operators `Wants`, `Drops`, `Before`
and so on are those of `Operands`. `Excused` are the specs of the third finding below.

### WorkloadStatus

| Code | Actions and operators |
|---|---|
| `Reconcile` up to the end of the sync | `Sync` (both workloads get the spec's generation) |
| `IsMetalLBAvailable` | `ReadSpeaker`, `ReadController`, with `isDaemonSetReady` and `isDeploymentReady` |
| `status.Update` | `Update`, `UpdateConflicts`, with `getConditions` |
| `RequeueAfter` and the rate limited retry | `Poll`, `Retry` |
| DaemonSet controller, kubelets, nodes | `ReplacePod`, `PodStarts`, `PodFails`, `NodeChanges` |
| Deployment controller (one replica, a surge of one) | `ControllerPodsChange`, `ControllerPodFails` |
| their status writes, and the operator's informers | `SeeSpecs`, `SeeSpeaker`, `SeeController` |

A workload's status lags behind its pods and the operator's copy behind the status. Both delays are one
here: a copy holds what was true at some moment and keeps it until the next `See` action. The case
that a new spec is seen with the counts of the old one is `SeeSpecs`. There is no clock: a write of
equal conditions may or may not cause an event.

### OperatorStartup

| Code | Actions |
|---|---|
| `GetPlatformInfo`, `FromEnvironment` | `GetPlatformInfo`, `ReadEnvironment` |
| `FetchTLSConfig`, two reads | `FetchProfile`, `FetchPolicy` |
| `OptFor` | `ParseTLS` |
| `syncTLSConfigMap` | `syncTLSConfigMap` |
| `deleteWebhookServerPods` | `ListPods`, `DeletePod`, `DeleteVanished`, `AllDeleted` |
| `NewManager` to `mgr.Start`, the lease, the webhook | `StartManager`, `AcquireLease`, `SetupWebhook` |
| the profile watcher | `ProfileChanged` |
| any call failing, a kill | `CallFails` |
| not this repository's code | `Start`, `ChangeAPIServer`, `StartPod`, `RestartContainer`, `LosePod` |

`Following` is the order of `main`. A pod of the webhook server reads the ConfigMap when its container
starts and cannot start without it (`optional: false` in `config/webhook/backend/backend.yaml`). A pod
that was listed and is gone when it is deleted makes `Delete` return an error, which ends the process.

### ChartObjects

An object is a function from the fields some property tells apart (scheduling, resources, annotations,
security context, mounted secret, certificate annotations, ...) to values. `PodValues`, `frrk8sValues`
and the other value functions of `pkg/helm` come first, then `Template`, then the two loops over the
rendered objects (`MetalLBObject`, `FRRK8sObject`) with the order of their patches. `MetalLBObject` keeps
the code's aliasing: with a config the copy in the list is not the object patched for OpenShift.
`live` has the objects there are; a sync deletes, then applies, and an edit or a failure may fall anywhere.

### Bounds

| Bound | Value in the runs | Why it is enough |
|---|---|---|
| `MaxChurn` of the reconciler | 3 (`k8s_safety`), 2 (the other runs), 1-3 (violations) | One disruption brings the resource; two more interleave, for example, an edit with a failed call, a kill with an edit, or a deletion with a re-creation. The proofs need no bound. |
| `Names` | `metallb`, and in `k8s_liveness` a second one | All names but one are treated alike. |
| `Specs` | 1 to 4 | On Kubernetes the two modes that share `frr-startup`, one the platform refuses and one the webhook refuses; on OpenShift frr-k8s from the network operator by default and by request and frr-k8s of the operator's own (safety); by default without a namespace, which cannot be rendered, and by request with one (liveness). `v_available` has the three of the safety run. |
| `Env` | `K8sEnv`, `OpenShiftEnv`, `NoNamespaceEnv` | Plain Kubernetes; OpenShift with the network operator deploying frr-k8s, as the manifests have it; and that without `FRRK8S_EXTERNAL_NAMESPACE` (`openshift_liveness`), where rendering may fail. The theorems hold for every environment. |
| `Providers` | `FRR`, and on OpenShift (both runs) another one | A provider to lose or to bring back. |
| `status`: `Nodes`, `MaxGen`, `MaxChurn` | 2, 2, 1 | Two nodes make a rollout that is half done; two specs an old and a new generation; one failing pod or leaving node falls between any two steps. |
| `startup`: `Procs`, `Slots`, `MaxChurn` | 1, 2, 3 | Two pods, of which one is deleted and the other not; a change of profile, a kill and a lost pod in one behaviour. Three profiles: two good ones and one Go cannot serve. `v_processes` has two processes and one pod. |
| `charts`: specs, `MaxChurn` | 15, 2 | Each user value on its own next to frr-k8s, all or none of them for either workload without it; two edits or an edit and a failing sync. Values do not depend on one another except through the presence of a config, which is a spec of its own. |
| `startup`: images of `Envs`, `Reports` | 18 references, 27 versions | The inputs of `ImagesKept` and `EveryBuildCounts`. With and without registry, port, path, tag, digest; releases around the minimum with prereleases of up to two identifiers. |

Everything else (reconciles, retries, events, rollouts, starts) is unbounded. `CHECK_DEADLOCK FALSE` is
set because the operator may rightly stop: without a resource, or with everything reported and the
budget spent, nothing is left to do. That it does not stop too early is `NoLostWakeup` and
`RestsOnAvailable`.

### Fairness

`MetalLBReconciler!FairSpec` assumes that a running worker finishes its calls; that a key which keeps
coming back to the queue is taken (strong fairness: the queue is first in, first out, and one worker is
idle again and again); and that watch events, timers, workload caches, rollouts, the garbage collector
and the registration of the webhook eventually happen. `WorkloadStatus!FairSpec` assumes that the worker
runs, pods are replaced and started, and the controllers count and the informers deliver the latest
counts. `OperatorStartup!FairSpec` assumes that the kubelet restarts the operator, `main` goes on, the
lease is taken, the watch on the profile delivers and the Deployment replaces the pods. Users,
administrators, faults, resyncs, kills and upgrades are not fair, and the budget ends them: a fault that
recurs for ever is no promise the code makes anything about.

## 3. What is checked

| Run | Properties | Shows |
|---|---|---|
| `k8s_safety` | `TypeOK`, `AvailableMeansDeployed`, `NoLostWakeup`, `FRRK8sBeforeSpeaker`, `ImplementsDesiredState`, `StaysSettled` | Plain Kubernetes, switches between `frr` and `frr-k8s`, a mode the reconciler refuses, a spec the webhook refuses. |
| `k8s_liveness` | `MisnamedInert`, `Converges`, `OperandsCollected` | After the disruptions: Available for good, objects in place again and again; nothing namespaced is left of a deleted resource. A second resource with another name comes and goes next to the real one. |
| `openshift_safety` | `AvailableMeansDeployed`, `NoLostWakeup`, `ImplementsDesiredState`, `StaysSettled` | The same claims across the network operator's part of the sync, switching between its frr-k8s, by default or by request, and the operator's own, with other providers in the Network. |
| `openshift_liveness` | `NoLostWakeup`, `Converges`, `ProvidersPreserved` | Old network operators, conflicts and retries included; edits of the Network against a lagging cache; and, as there is no default namespace, a resource that cannot be rendered: no sync of it reports Available for the objects of an earlier spec, it is retried for as long as it stays so, and it converges once it is edited. |
| `status` | `TypeOK`, `VerdictSound`, `RestsOnAvailable`, `StaysReported`, `RolledOutAndReported` | The rollout, its counts and the operator's copies. |
| `startup` | `OnlyUsableSettings`, `PodsHaveNewSettings`, `SettingsRollOut`, `ImagesKept`, `EveryBuildCounts` | One process on OpenShift, in every small environment. |
| `charts` | `DaemonFollowsSpeaker`, `UserValuesReachPods`, `CertificatesProvided`, `RolloutHasCause` | The content of the objects, on Kubernetes and OpenShift. |
| `v_collected`, `v_failure`, `v_available`, `v_annotation`, `v_processes` | see 4. | Statements of the repository the code does not live up to. |

The properties, in words:

* **AvailableMeansDeployed**: whenever Available is about to be written for a resource that still
  exists, every object its spec asks for is stored with that spec's content and the resource as its
  owner, and every frr-k8s object it does not ask for is gone.
* **NoLostWakeup**: with no event on its way, no key queued or delayed and no reconcile running, the
  stored spec is deployed and reported Available.
* **MisnamedInert**: a resource with another name owns nothing and is told nothing but Degraded; an
  object's owner is a live `metallb` or the garbage collector's.
* **FRRK8sBeforeSpeaker**: the speaker of a live resource is switched to frr-k8s only when the daemons
  of the same configuration are there.
* **ImplementsDesiredState**: the reconciler's steps are steps of `DesiredState`.
* **ProvidersPreserved**: a write of the Network leaves what is stored at that moment plus FRR.
* **Converges**: a supported resource (its mode allowed, its charts rendered, the network operator recent
  enough if needed) ends up Available for good and deployed infinitely often. Not
  "deployed for good": in `frr` mode each sync deletes `frr-startup` and applies it again.
* **OperandsCollected**: when the resource is gone for good, so are its namespaced objects, those a
  sync in flight created after the deletion included.
* **StaysSettled**: the safe half of the two before. Once a supported resource is deployed, its pods run,
  the informers have seen it and the condition says Available (or once a deleted resource's objects are
  gone), nothing but the next disruption changes that: not the reconcile each status write sets off, nor
  retries, delayed events, or a sync in progress. Only `frr-startup` may be missing, between the two
  halves of a sync that is going to apply it again.
* **VerdictSound**: if a copy passes the readiness check, there was a moment when every node ran a ready
  speaker of the copy's generation; for the controller only that a pod of it existed and some pod served,
  which during a surge need not be the same.
* **RestsOnAvailable**: with no event, poll or retry pending and no reconcile running, the last spec is
  applied and reported Available.
* **StaysReported**: the converse of `VerdictSound`, and no flapping. While all pods run, each status the
  operator reads is judged ready, and no reconcile takes the report Available back, until the user or a
  failure intervenes.
* **RolledOutAndReported**: in the end every selected node runs a ready speaker of the last spec and the
  resource is Available.
* **OnlyUsableSettings**: TLS settings the operator itself refuses never reach the ConfigMap or a pod.
* **PodsHaveNewSettings**: when the leader knows the cluster's profile and nobody is starting, ConfigMap
  and pods have its settings, however many starts were cut short before.
* **SettingsRollOut**: if the profile stays usable, the operator serves its webhook for good and all
  pods of the webhook server run with that profile's settings.
* **ImagesKept**: what the charts render for an image is the reference that was set, with the chart's version
  added only if it had no tag. A reference is a path that ends in `/` or none (with any number of ports),
  a name, and then nothing or one tag or digest; those with both a tag and a digest are left out (a
  hazard in `PROJECT.json`).
* **EveryBuildCounts**: with a minimum that ends in `-0` the network operator is new enough exactly from
  the first build of the minimum's release on, candidates and nightlies included, whatever else it
  reports.
* **DaemonFollowsSpeaker**: after a sync the frr-k8s daemons have the speaker's node selector,
  tolerations, affinity and classes.
* **UserValuesReachPods**: after a sync the speaker and the controller have what the user asks for now
  and nothing an earlier spec asked for.
* **CertificatesProvided**: each secret a pod mounts is made by exactly one party, and frr-k8s rotates its
  certificate exactly when OpenShift does not. On OpenShift it takes the service monitors, which the
  manifests switch on there; without them nobody makes the metrics certificates (a hazard in
  `PROJECT.json`).
* **RolloutHasCause**: an applied workload differs from the stored one only if something the user asks for
  does; the same blocked networks in another order are no difference.

Specs in external mode that rely on the operator's default namespace are excluded from
`AvailableMeansDeployed`, `NoLostWakeup`, `Converges` and the refinement (`Excused`); the third finding
below is why.

Each property has a mutant: a plausible bug, defined next to the operator it replaces and marked
`mutant`, under which TLC finds the property violated. Examples: applying before the deletions are
done, dropping the error of the status write, not comparing the updated pods, deleting the pods before the
ConfigMap is written, writing the Network without regard to its version, deleting the frr-k8s objects in
every mode.

## 4. What the checks found

* `v_collected`. The charts' `Objects` set a namespace on every object, cluster scoped kinds included,
  and the sync decides by the namespace whether to set a controller reference. The frr-k8s
  `ValidatingWebhookConfiguration` thus names a namespaced owner, which Kubernetes does not collect by:
  it remains when the resource is deleted, against the comments at
  `controllers/metallb_controller.go:96` and `:236`. (The speaker's SecurityContextConstraints have no
  owner at all, and remain too.)
* `v_failure`. Every failure is written with the reason `internal error`. The resource definition's
  pattern for a reason (`config/crd/bases/metallb.io_metallbs.yaml:2230`) has no blank, the whole
  status is refused, and the resource keeps the conditions it had.
* `v_available`. An invalid resource counts as a finished sync, and a resource may be invalid only
  because the default frr-k8s namespace has not been stored yet after a restart. With the workloads of
  the previous spec still ready, it is reported Available.
* `v_annotation`. `MetalLBChart.Objects` annotates `obj` after `overrideSpeakerParameters` has put a
  converted copy in its place in the list. With a `speakerConfig` the applied speaker has no
  `openshift.io/required-scc`, which the test case "OCP includes SCC and annotation"
  (`pkg/helm/metallb_test.go:420`) expects of OpenShift.
* `v_processes`. The ConfigMap is written and the webhook server's pods are deleted without holding the
  lease. When two processes start at a time and the profile changes between their reads, the one with the
  old profile may write last while the other becomes leader: the leader's watcher sees nothing to do, and
  the pods do not "pick up the new TLS config" (`main.go:156`).

## 5. What is proved

The theorems, for every value of the constants that satisfies the modules' named assumptions:

| Module | Theorem | Statement |
|---|---|---|
| `MetalLBReconciler_proofs` | `Inductive` | `Spec => []IInv` |
| | `TypeCorrect` | `Spec => []TypeOK` |
| | `AvailableIsTrue` | `Spec => []AvailableMeansDeployed` |
| | `NothingLost` | `Spec => []NoLostWakeup` |
| | `OnlyMetalLBOwns` | `Spec => []MisnamedInert` |
| | `NetworkPreserved` | `Spec => ProvidersPreserved` |
| | `SpeakerFollowsFRRK8s` | `Spec => FRRK8sBeforeSpeaker` |
| `ReconcilerRefinement_proofs` | `Implements` | `Spec => ImplementsDesiredState` |
| `ReconcilerStability_proofs` | `SettledStays` | `Spec => StaysSettled` |
| `WorkloadStatus_proofs` | `StatusTypeCorrect` | `Spec => []TypeOK` |
| | `VerdictsAreSound` | `Spec => []VerdictSound` |
| | `RestIsAvailable` | `Spec => []RestsOnAvailable` |
| | `ReportStays` | `Spec => StaysReported` |
| `OperatorStartup_proofs` | `StartupTypeCorrect` | `Spec => []TypeOK` |
| | `SettingsUsable` | `Spec => []OnlyUsableSettings` |
| | `SettingsArrive` | one process at a time `=> (Spec => []PodsHaveNewSettings)` |
| | `ReferencesKept` | `Spec => []ImagesKept` |
| | `BuildsCount` | `Spec => []EveryBuildCounts` |
| `ChartObjects_proofs` | `DaemonAlwaysFollows` | `Spec => []DaemonFollowsSpeaker` |
| | `ValuesReachPods` | `Spec => []UserValuesReachPods` |
| | `CertificatesAlwaysProvided` | `Spec => []CertificatesProvided` |
| | `RolloutsHaveCause` | `Spec => RolloutHasCause` |

With these, every safety and action property a passing run checks is a theorem.

### The reconciler

The assumptions: `Env` is an environment `validate` accepts; `metallb` is one of the names; specs have
the type of a spec; FRR is a provider; the budget is a natural number; `None` is none of the records
(and no name is the word `gone` or `none`, the model's owners that are no resource).

The argument. None of the invariants is inductive alone; `IInv` is the conjunction of

1. `TypeOK`;
2. `InHand`: what each step of a reconcile holds (a key that is `metallb` except on the way to a
   misnamed resource's status, a faithful copy, a Network copy exactly where one is needed, ...);
3. `CachesFaithful`: a copy tagged `current` has the stored spec, a copy tagged `gone` or missing says
   what it should about the store, a Network copy tagged current has the stored providers;
4. `Decided`: which outcomes may be on the way to the status, and what follows from each;
5. `AdmittedOnly`: every spec, stored or copied, passed the webhook's validation, so the sync can
   skip it only if its validity hangs on the default namespace;
6. `SyncProgress`: in the loops, an object not to be used is in `toDel` or gone, an object to be used is
   in `toApply` or in place; from there to the report, `Deployed` holds. This is where the order of
   deletions and applications and the shared name `frr-startup` enter;
7. `MisnamedInert`;
8. `NoLostWakeup`.

Lemmas state what the helpers do (what is rendered, what a write or a deletion does to a copy's tag) and
split `[Next]_vars` by what it may touch (`CopySteps`, `ReconcileSteps`, `ClusterSteps`,
`WakeupSteps`, `ReadSteps`); one lemma per conjunct then shows that every step preserves it.
`ProvidersPreserved` follows from `CachesFaithful` (the write is accepted only with a current copy),
`FRRK8sBeforeSpeaker` from `SyncProgress` and the order of the list (`DaemonFirst`). The theorems cover
what the runs cannot: any number of names, specs, edits and kills.

### The refinement

`Implements` has three steps: the initial states map to initial states; under `IInv`, every step of the
reconciler is a step of `DesiredState` or leaves resource and objects alone; `IInv` holds throughout (with
`SyncListed` added: what a sync has left to do comes from the lists of its copy's spec). The
second is by cases on the actions. The two that carry weight are `ApplyObj`, where `SyncProgress` says
that what precedes the object is in place and what the mode does without is gone, and the status write,
where `Decided` says that Available is written only for a deployed or excused spec.

### What is settled stays

`SettledStays` says of one step what `Converges` and `OperandsCollected` need once their goal is reached.
The steps that are no disruption (`CalmSteps`) are taken one action at a time, from `IInv` and
`SyncListed`. `Running` is split into what the resource asks for, what stands in the cluster, what runs,
what the cache knows and what the reconcile in progress handles (`RunningFor`); there is one lemma for
each kind of step. The weight is on the two loops. A deletion hits an object of the mode only if it is
`frr-startup` (`DeletedAndApplied`), and then `SyncProgress` says that it is still to be applied. An
application writes what is there already, so it restarts no pod (`ApplyKeeps`). A status write carries
Available, or is refused for its reason (`WriteKeeps`). For the resource that is gone (`ClearedStays`), no
sync is at work and none can start, as the cache has nothing.

### WorkloadStatus

`VerdictsAreSound` rests on an invariant about the copies: a copy whose generation equals the observed
one and whose counts are equal was taken when the sets behind the counts coincided (cardinalities of
nested finite sets, from `FiniteSetTheorems`), and that moment is in the history. For
`RestIsAvailable` it is enough to add that a running reconcile works on the generation it has applied. `ReportStays` needs the counts the other way
round: when every pod is of the last generation and ready, the sets behind the counts are the set of
nodes, and the controller's one pod is both updated and ready (`SpeakerJudgedReady`,
`ControllerJudgedReady`); a reconcile that finds this reports Available again.

### OperatorStartup

`SettingsUsable` holds for any number of processes: a process that is about to write has just parsed the
settings it writes, and nothing it made them from changes in between. `SettingsArrive` assumes at most one
process (`SingleProcess`, a hypothesis of the theorem; `v_processes` shows that it is needed). Its
invariant follows the process through `main`: after the write the ConfigMap has the settings the process
knows; while it deletes, every pod with other settings is still among the pods to delete; afterwards
none is left.

`ReferencesKept` and `BuildsCount` rest on lemmas about the pure functions (`StartupInputs_proofs`), for
texts, lists and versions of any length: where the last slash and the colons of a reference are
(`ReferencePlaces`), that cutting there and joining again gives the reference back (`ReferenceKept`), that
the least prerelease precedes every other (`FirstBuild`), and that the version judged is that of the
first entry called `operator` (`FirstOperator`). They assume `TextsAssumption`: references are sequences of
strings, versions have a release and prerelease identifiers or do not parse.

### ChartObjects

The assumptions: `None` is no spec and no secret's name, and on OpenShift the service monitors are
switched on, as the manifests do (only `CertificatesAlwaysProvided` needs it). The invariant has the sync's
part, `Reached`: what has been taken off the two lists is gone, or in place with the content the spec asks
for; while anything is left to delete nothing has been applied. Any two specs' lists cover each other's
objects (`OnlyThePresent`), so at rest there is what the present spec renders and nothing else. The other
part is about content: `SpeakerContent`, `ControllerContent` and `DaemonContent` follow a value through helm
values, template and patches, `ObjectCerts` says which object mounts a certificate and which asks for one.

For `RolloutsHaveCause` the sorted list of blocked networks is defined by what sorting promises: an ascending
rearrangement. That there is one for every finite list is `Sortable`, by taking the shortest list that
has none and inserting its last element into the sorted rest (`Insertion`); that there is only one is
`OneSortedList`, by looking at the first place where two would differ. Hence two lists that are
rearrangements of each other give the same daemon arguments (`ObjectBlocks`), and a workload whose
content changes has another cause. The assumption `alwaysBlock \in Seq(Int)` numbers the networks in
the order of their texts.

Only model-checked: `Converges`, `OperandsCollected`, `RolledOutAndReported` and `SettingsRollOut`, since
liveness under fairness is out of the prover's reach (for the first three the part that says what is
reached stays is proved), and the five violations. `SettingsArrive` has no counterpart for two processes,
because `v_processes` refutes it.

## 6. What is not modelled

* *Values nobody reads again.* Ports, the log level, the images and the TLS strings are copied into
  templates; the models follow them to the values, not through the text of the templates. In
  `MetalLBReconciler` an object's content is its BGP mode and one value `cfg` for everything else.
* *Objects whose content never varies*: roles, the content of the SecurityContextConstraints, of the
  network policies and of the startup ConfigMap.
* *Time.* Backoffs and the requeue intervals are timers that fire some time; the conditions' time stamps
  are in the models only as the choice whether a write of the same conditions is a change.
* *Certificate rotation* is a library's (`cert-controller`): here it is the unknown delay before the
  webhook is registered. Likewise leader election: one leader at a time is assumed.
* *The tables of ciphers, curves and versions* of the TLS libraries, and parsing of the texts: a name is
  known or it is not, a number parses or it does not.
* *An empty `CNO_MIN_FRRK8S_VERSION`* with the network operator's frr-k8s on, on which
  `cnoSupportsFRRK8s` dereferences nil.
* *Users and administrators changing operand objects by hand*, and other field managers: the sync's
  forced apply would restore them, but nothing would wake it up.
* Generated code, manifests, and the end-to-end tests, which were read as documentation.

## 7. Plan

Done, in this order: `Operands`, `MetalLBReconciler` and its proofs; `DesiredState` with the refinement and
its proof; `WorkloadStatus`, `OperatorStartup` and their proofs; `StartupInputs`; `ChartObjects` and its
proofs; the proofs about the pure functions, the rollouts' causes, and what is settled or reported.
What could follow:

1. A refinement that ties `WorkloadStatus` to the readiness `MetalLBReconciler` reads (`rolledOut`, `seen`), and
   consequences of `DesiredState` proved on it alone.
2. The content of the objects `ChartObjects` leaves out: roles, network policies, the startup ConfigMap.
3. `SettingsArrive` for two processes under a corrected start-up that takes the lease before it writes.
4. A clock for the conditions' transition times, once the code keeps them.
