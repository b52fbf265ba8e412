------------------------------ MODULE Operands ------------------------------
(***************************************************************************)
(* What one MetalLB resource asks for: the BGP mode it selects, whether it *)
(* is valid, and the Kubernetes objects the two embedded helm charts       *)
(* (metallb and frr-k8s) render for it.  These are the pure functions the  *)
(* reconciler of module MetalLBReconciler is built from; they read only    *)
(* the operator's environment and the resource's spec.                     *)
(*                                                                         *)
(* An object is identified by its kind and name.  Its content is reduced   *)
(* to what distinguishes two renderings of it.                             *)
(***************************************************************************)
EXTENDS Integers

CONSTANTS
    Env,      \* the operator's EnvConfig, read once at start-up
    Cfgs      \* what else of a spec reaches the workloads, as one value

(***************************************************************************)
(* The fields of EnvConfig that decide which objects exist.                *)
(***************************************************************************)
EnvConfig ==
    [ IsOpenshift             : BOOLEAN,
      MustDeployFRRK8sFromCNO : BOOLEAN,
      FRRK8sExternalNamespace : BOOLEAN,   \* is a default namespace set?
      DeployServiceMonitors   : BOOLEAN,
      DeployPodMonitors       : BOOLEAN,
      DisableNetworkPolicies  : BOOLEAN ]

(***************************************************************************)
(* FromEnvironment refuses an environment that asks for both monitors.     *)
(***************************************************************************)
validate(e) == ~(e.DeployPodMonitors /\ e.DeployServiceMonitors)

ASSUME EnvAssumption == Env \in EnvConfig /\ validate(Env)

-----------------------------------------------------------------------------
(***************************************************************************)
(* The resource.  A toleration without tolerationSeconds has seconds 0;    *)
(* the weights are those of all preferred scheduling terms, node and pod   *)
(* affinity of speaker and controller alike; an AlwaysBlock entry is       *)
(* reduced to whether it parses as a CIDR.  cfg stands for all the values  *)
(* the rendering copies into the workloads: log level, node selectors,     *)
(* resources, the name in frrk8sConfig.namespace, and so on.               *)
(***************************************************************************)
Toleration == [seconds : Int, effect : {"", "NoSchedule", "NoExecute"}]

MetalLBSpec ==
    [ bgpBackend  : STRING,
      namespace   : BOOLEAN,               \* frrk8sConfig.namespace set?
      tolerations : SUBSET Toleration,
      weights     : SUBSET Int,
      alwaysBlock : SUBSET BOOLEAN,
      cfg         : Cfgs ]

BGPTypes == {"native", "frr", "frr-k8s", "frr-k8s-external"}

(***************************************************************************)
(* The mode in force: the user's choice or the platform's default.         *)
(***************************************************************************)
BGPType(s) ==
    IF s.bgpBackend # ""                                  THEN s.bgpBackend
    ELSE IF Env.IsOpenshift /\ Env.MustDeployFRRK8sFromCNO THEN "frr-k8s-external"
    ELSE IF Env.IsOpenshift                                THEN "frr-k8s"
    ELSE "frr"

(***************************************************************************)
(* External mode needs a namespace: the resource's own or the operator's   *)
(* default.  The default lives in a global that is set only when the       *)
(* webhook is registered; defaultNS says whether it is set now.            *)
(***************************************************************************)
validateFRRK8sConfig(s, defaultNS) ==
    /\ s.bgpBackend = "frr-k8s-external" => s.namespace \/ defaultNS
    /\ FALSE \notin s.alwaysBlock

(***************************************************************************)
(* MetalLB.Validate, run by the admission webhook and again by every sync. *)
(***************************************************************************)
Validate(s, defaultNS) ==
    /\ \A t \in s.tolerations : t.seconds > 0 => t.effect = "NoExecute"
    /\ \A w \in s.weights : w >= 1 /\ w <= 100
    /\ s.bgpBackend \in BGPTypes \cup {""}
    /\ validateFRRK8sConfig(s, defaultNS)

(***************************************************************************)
(* The platform check of the reconciler, which the webhook does not make.  *)
(***************************************************************************)
validateBGPMode(s) ==
    \/ s.bgpBackend = "frr-k8s-external" /\ Env.IsOpenshift
    \/ /\ s.bgpBackend \in {"", "native", "frr-k8s", "frr"}
       /\ ~(Env.IsOpenshift /\ s.bgpBackend = "native")

(***************************************************************************)
(* The sync asks the cluster network operator for frr-k8s.                 *)
(***************************************************************************)
DeploysFromCNO(s) ==
    /\ Env.MustDeployFRRK8sFromCNO /\ Env.IsOpenshift
    /\ BGPType(s) = "frr-k8s-external"

(***************************************************************************)
(* The speaker's template refuses external mode without a namespace.  It   *)
(* goes by the mode in force and by the operator's environment, Validate   *)
(* by the mode written in the resource: with external mode as the          *)
(* platform's default a resource may pass the one and not the other.       *)
(***************************************************************************)
Renders(s) ==
    BGPType(s) = "frr-k8s-external" => s.namespace \/ Env.FRRK8sExternalNamespace

-----------------------------------------------------------------------------
(***************************************************************************)
(* The objects.                                                            *)
(***************************************************************************)
Obj(k, n) == [kind |-> k, name |-> n]

Speaker           == Obj("DaemonSet", "speaker")
Controller        == Obj("Deployment", "controller")
ExcludeL2         == Obj("ConfigMap", "metallb-excludel2")
FRRStartup        == Obj("ConfigMap", "frr-startup")
NetworkPolicy     == Obj("NetworkPolicy", "controller")
SpeakerSCC        == Obj("SecurityContextConstraints", "metallb-speaker")
FRRK8sDaemon      == Obj("DaemonSet", "frr-k8s")
StatusCleaner     == Obj("Deployment", "statuscleaner")
WebhookSecret     == Obj("Secret", "frr-k8s-webhook-server-cert")
WebhookService    == Obj("Service", "frr-k8s-webhook-service")
ValidatingWebhook == Obj("ValidatingWebhookConfiguration",
                         "frr-k8s-validating-webhook-configuration")

(***************************************************************************)
(* The monitoring objects of the two charts.  The pod monitors come with   *)
(* the account Prometheus reads the metrics with.                          *)
(***************************************************************************)
Monitors ==
    IF Env.DeployServiceMonitors
    THEN {Obj("ServiceMonitor", "speaker-monitor"), Obj("Service", "speaker-monitor-service"),
          Obj("ServiceMonitor", "controller-monitor"), Obj("Service", "controller-monitor-service"),
          Obj("Role", "prometheus"), Obj("RoleBinding", "prometheus")}
    ELSE IF Env.DeployPodMonitors
    THEN {Obj("PodMonitor", "controller"), Obj("PodMonitor", "speaker"),
          Obj("ServiceAccount", "metrics-reader"), Obj("Secret", "metrics-token"),
          Obj("ClusterRole", "metrics-reader"), Obj("ClusterRoleBinding", "metrics-reader"),
          Obj("Role", "prometheus"), Obj("RoleBinding", "prometheus")}
    ELSE {}

FRRK8sMonitors ==
    IF Env.DeployServiceMonitors
    THEN {Obj("ServiceMonitor", "frr-k8s-monitor"), Obj("Service", "frr-k8s-monitor-service")}
    ELSE {}

(***************************************************************************)
(* FRRK8SChart.Objects.  OpenShift manages the certificate secret itself.  *)
(***************************************************************************)
FRRK8sObjects ==
    {FRRStartup, FRRK8sDaemon, StatusCleaner, WebhookService, ValidatingWebhook}
        \cup (IF Env.IsOpenshift THEN {} ELSE {WebhookSecret})
        \cup FRRK8sMonitors

(***************************************************************************)
(* MetalLBChart.Objects.  In frr mode the chart renders a ConfigMap with   *)
(* the name of one of the frr-k8s chart's.                                 *)
(***************************************************************************)
MetalLBObjects(s) ==
    {Speaker, Controller, ExcludeL2}
        \cup (IF BGPType(s) = "frr" THEN {FRRStartup} ELSE {})
        \cup (IF Env.DisableNetworkPolicies THEN {} ELSE {NetworkPolicy})
        \cup Monitors
        \cup (IF Env.IsOpenshift THEN {SpeakerSCC} ELSE {})

Objects ==
    {Speaker, Controller, ExcludeL2, FRRStartup, NetworkPolicy, SpeakerSCC}
        \cup FRRK8sObjects \cup Monitors

(***************************************************************************)
(* Roles and role bindings are rendered and skipped: they are shipped with *)
(* the operator's own manifests.                                           *)
(***************************************************************************)
Applied(S) == {o \in S : o.kind \notin {"Role", "RoleBinding"}}

(***************************************************************************)
(* The two lists a sync works through: deletions first, then the frr-k8s   *)
(* objects (when the operator deploys frr-k8s itself) and the metallb ones.*)
(***************************************************************************)
NothingToDelete(s) == {}                                           \* mutant
DropAlways(s)      == FRRK8sObjects                                \* mutant
toDelFor(s) == IF BGPType(s) = "frr-k8s" THEN {} ELSE FRRK8sObjects

objsFor(s) ==
    Applied(MetalLBObjects(s) \cup (IF BGPType(s) = "frr-k8s" THEN FRRK8sObjects ELSE {}))

(***************************************************************************)
(* A rendered object's place in its list.  helm sorts a release by kind    *)
(* (external); the objects of the chart appended later follow the others,  *)
(* and the SecurityContextConstraints close the list on OpenShift.         *)
(***************************************************************************)
HelmKindOrder ==
    [ NetworkPolicy |-> 1, ServiceAccount |-> 2, Secret |-> 3, ConfigMap |-> 4,
      ClusterRole |-> 5, ClusterRoleBinding |-> 6, Role |-> 7, RoleBinding |-> 8,
      Service |-> 9, DaemonSet |-> 10, Deployment |-> 11,
      ValidatingWebhookConfiguration |-> 12, ServiceMonitor |-> 13, PodMonitor |-> 14,
      SecurityContextConstraints |-> 15 ]

PlacedFirst(o, later) == HelmKindOrder[o.kind] + (IF o \in later THEN 0 ELSE 20)   \* mutant
Place(o, later) == HelmKindOrder[o.kind] + (IF o \in later THEN 20 ELSE 0)

Foremost(S, later) == {o \in S : \A p \in S : Place(o, later) <= Place(p, later)}

(***************************************************************************)
(* What the rendering puts into an object, as far as two renderings of it  *)
(* can differ: the workloads follow the spec (their BGP mode and values),  *)
(* the two versions of frr-startup differ, the speaker's monitors have one *)
(* more endpoint in frr mode, everything else is fixed.                    *)
(***************************************************************************)
SpeakerMonitors ==
    {Obj("ServiceMonitor", "speaker-monitor"), Obj("Service", "speaker-monitor-service"),
     Obj("PodMonitor", "speaker")}

Content(s, o) ==
    CASE o \in {Speaker, Controller}          -> <<BGPType(s), s.cfg>>
      [] o \in {FRRK8sDaemon, StatusCleaner}  -> <<"frr-k8s", s.cfg>>
      [] o \in {FRRStartup} \cup SpeakerMonitors /\ BGPType(s) = "frr" -> <<"frr">>
      [] OTHER                                -> <<"fixed">>

(***************************************************************************)
(* Objects sets the operator's namespace on every rendered object, cluster *)
(* scoped kinds included; only the appended SecurityContextConstraints has *)
(* none.  The controller reference follows the namespace, not the scope.   *)
(***************************************************************************)
HasNamespace(o) == o # SpeakerSCC

ClusterScoped(o) ==
    o.kind \in {"SecurityContextConstraints", "ValidatingWebhookConfiguration",
                "ClusterRole", "ClusterRoleBinding"}

=============================================================================
