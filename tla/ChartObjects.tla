---------------------------- MODULE ChartObjects ----------------------------
(***************************************************************************)
(* What is inside the objects the two charts render: which of the user's   *)
(* values reaches which workload, what is set for OpenShift, and who       *)
(* provides the certificates the pods mount.  Which objects there are and  *)
(* the order they are applied in is module Operands; the sync is the one   *)
(* of MetalLBReconciler without its queues and watches.                    *)
(*                                                                         *)
(* The code copies values by three paths that must agree: helm values, the *)
(* templates, and patches of the rendered objects for what "helm template  *)
(* doesn't support loading".                                               *)
(***************************************************************************)
EXTENDS Integers, SequencesExt

CONSTANTS
    Envs,        \* environments (records of Operands!EnvConfig)
    Specs,       \* specs the webhook admits
    MaxChurn,    \* bound on edits and failing calls
    None         \* a value that is not set

\* The manifests for OpenShift switch the service monitors on.
ASSUME ChartAssumption ==
    /\ None \notin Specs
    /\ \A e \in Envs : e.IsOpenshift \in BOOLEAN /\ (e.IsOpenshift => e.DeployServiceMonitors)
    /\ \A s \in Specs : s.alwaysBlock \in Seq(Int)      \* networks in the order of their texts

VARIABLES
    env,         \* the operator's environment
    spec,        \* the spec of the MetalLB resource
    pending,     \* is a reconcile due?
    inst,        \* the copy of the spec the sync works from, None between two
    toDel, toApply,
    live,        \* the objects in the cluster, a function on those there are
    churn

vars == <<env, spec, pending, inst, toDel, toApply, live, churn>>

O == INSTANCE Operands WITH Env <- env, Cfgs <- {}

-----------------------------------------------------------------------------
(***************************************************************************)
(* A spec has a backend, the entries of frrK8sConfig.alwaysBlock and, for  *)
(* speaker and controller each, a node selector, tolerations and an        *)
(* optional config, whose fields are optional too.                         *)
(***************************************************************************)
ConfigFields == {"affinity", "resources", "priorityClassName", "runtimeClassName", "annotations"}

Of(config, f) == IF config = None THEN None ELSE config[f]

(***************************************************************************)
(* An object is a function on these fields; None is a field that is absent.*)
(***************************************************************************)
Scheduling == {"nodeSelector", "tolerations", "affinity", "priorityClassName", "runtimeClassName"}

Fields ==
    Scheduling \cup
    {"resources", "annotations", "securityContext", "requiredSCC", "mounts", "alwaysBlock",
     "certRotation", "servingCert", "caBundle", "tlsVerified"}

Blank == [f \in Fields |-> None]

-----------------------------------------------------------------------------
(***************************************************************************)
(* The values handed to the charts.                                        *)
(***************************************************************************)
NoTolerations(s) ==                                                \* mutant
    [ nodeSelector      |-> s.speaker.nodeSelector,
      tolerations       |-> None,
      priorityClassName |-> Of(s.speaker.config, "priorityClassName"),
      runtimeClassName  |-> Of(s.speaker.config, "runtimeClassName") ]

PodValues(pod) ==
    [ nodeSelector      |-> pod.nodeSelector,
      tolerations       |-> pod.tolerations,
      priorityClassName |-> Of(pod.config, "priorityClassName"),
      runtimeClassName  |-> Of(pod.config, "runtimeClassName"),
      annotations       |-> Of(pod.config, "annotations") ]

controllerValues(s) == PodValues(s.controller)
speakerValues(s)    == PodValues(s.speaker)

\* The charts default to uid and group of nobody; nil removes the two.
controllerSecurityContext == IF env.IsOpenshift THEN "nonRoot" ELSE "nobody"

Ascending(x)     == \A i, j \in DOMAIN x : i < j => x[i] <= x[j]
Rearranged(x, y) == \E p \in Bijection(DOMAIN x, DOMAIN y) : \A i \in DOMAIN x : x[i] = y[p[i]]

NotSorted(blocks) == blocks                                        \* mutant

\* A sorted copy: what sorting gives is the one such list there is.
alwaysBlockToString(blocks) ==
    CHOOSE x \in [DOMAIN blocks -> ToSet(blocks)] : Ascending(x) /\ Rearranged(x, blocks)

frrk8sValues(s) ==
    [ nodeSelector      |-> s.speaker.nodeSelector,
      tolerations       |-> s.speaker.tolerations,
      priorityClassName |-> Of(s.speaker.config, "priorityClassName"),
      runtimeClassName  |-> Of(s.speaker.config, "runtimeClassName") ]

RotationKept        == TRUE                                        \* mutant
disableCertRotation == env.IsOpenshift

controllerCertsSecret == "controller-certs-secret"
speakerCertsSecret    == "speaker-certs-secret"
frrk8sCertsSecret     == "frr-k8s-certs-secret"
webhookSecret         == "frr-k8s-webhook-server-cert"

ASSUME SecretsAssumption ==
    None \notin {controllerCertsSecret, speakerCertsSecret, frrk8sCertsSecret, webhookSecret}

OnOpenShift(x) == IF env.IsOpenshift THEN x ELSE None

metallbTLSHelmValues ==
    [ controller |-> OnOpenShift(controllerCertsSecret), speaker |-> OnOpenShift(speakerCertsSecret) ]
frrk8sTLSHelmValues == OnOpenShift(frrk8sCertsSecret)

\* The annotation has OpenShift make a certificate for the service.
metalLBprometheusValues ==
    [ controller |-> OnOpenShift(controllerCertsSecret), speaker |-> OnOpenShift(speakerCertsSecret) ]
prometheusValues == OnOpenShift(frrk8sCertsSecret)

-----------------------------------------------------------------------------
(***************************************************************************)
(* The templates.                                                          *)
(***************************************************************************)
MonitorServices ==
    [ controller |-> O!Obj("Service", "controller-monitor-service"),
      speaker    |-> O!Obj("Service", "speaker-monitor-service"),
      frrk8s     |-> O!Obj("Service", "frr-k8s-monitor-service") ]

Filled(values) == [f \in Fields |-> IF f \in DOMAIN values THEN values[f] ELSE None]

Template(s, o) ==
    CASE o = O!Controller ->
            [Filled(controllerValues(s)) EXCEPT !.securityContext = controllerSecurityContext,
                                                !.mounts = metallbTLSHelmValues.controller]
      [] o = O!Speaker ->
            [Filled(speakerValues(s)) EXCEPT !.mounts = metallbTLSHelmValues.speaker]
      [] o = O!FRRK8sDaemon ->
            [Filled(frrk8sValues(s)) EXCEPT !.mounts = frrk8sTLSHelmValues,
                                            !.alwaysBlock = alwaysBlockToString(s.alwaysBlock)]
      [] o = O!StatusCleaner ->
            [Filled(frrk8sValues(s)) EXCEPT !.nodeSelector = None, !.mounts = webhookSecret,
                                            !.certRotation = ~disableCertRotation]
      [] o = MonitorServices.controller -> [Blank EXCEPT !.servingCert = metalLBprometheusValues.controller]
      [] o = MonitorServices.speaker    -> [Blank EXCEPT !.servingCert = metalLBprometheusValues.speaker]
      [] o = MonitorServices.frrk8s     -> [Blank EXCEPT !.servingCert = prometheusValues]
      [] o.kind = "ServiceMonitor"      -> [Blank EXCEPT !.tlsVerified = env.IsOpenshift]
      [] OTHER -> Blank

-----------------------------------------------------------------------------
(***************************************************************************)
(* The patches.  A config makes a converted copy of its workload, with the *)
(* affinity and, in the workload's own container, the resources of the     *)
(* config; what the config leaves out is left as it was, that is, unset.   *)
(***************************************************************************)
OnlyWithAffinity(config, obj) ==                                   \* mutant
    IF Of(config, "affinity") = None THEN obj
    ELSE [obj EXCEPT !.affinity = config.affinity, !.resources = config.resources]

Override(config, obj) ==
    [obj EXCEPT !.affinity = Of(config, "affinity"), !.resources = Of(config, "resources")]

overrideFRRK8SDaemonParameters(s, obj) == Override(s.speaker.config, obj)

ConfigOf(s, o) ==
    CASE o = O!Controller -> s.controller.config
      [] o = O!Speaker    -> s.speaker.config
      [] OTHER            -> None

(***************************************************************************)
(* MetalLBChart.Objects.  The loop patches "obj" for OpenShift, but a      *)
(* config has put a copy in its place in the list: the copy is applied.    *)
(***************************************************************************)
OpenShiftPatch(o, obj) ==
    CASE o = O!Controller          -> [obj EXCEPT !.securityContext = "nonRoot"]
      [] o = O!Speaker             -> [obj EXCEPT !.requiredSCC = "metallb-speaker"]
      [] o.kind = "ServiceMonitor" -> [obj EXCEPT !.tlsVerified = TRUE]
      [] OTHER                     -> obj

MetalLBObject(s, o) ==
    IF ConfigOf(s, o) # None THEN Override(ConfigOf(s, o), Template(s, o))
    ELSE IF env.IsOpenshift THEN OpenShiftPatch(o, Template(s, o))
    ELSE Template(s, o)

(***************************************************************************)
(* FRRK8SChart.Objects.  Here the copy takes obj's place.  The Secret is   *)
(* skipped on OpenShift (Operands!FRRK8sObjects).                          *)
(***************************************************************************)
FRRK8sPatch(o, obj) ==
    CASE o = O!ValidatingWebhook   -> [obj EXCEPT !.caBundle = "injected"]
      [] o = O!WebhookService      -> [obj EXCEPT !.servingCert = webhookSecret]
      [] o = O!StatusCleaner       -> [obj EXCEPT !.securityContext = "nonRoot"]
      [] o.kind = "ServiceMonitor" -> [obj EXCEPT !.tlsVerified = TRUE]
      [] OTHER                     -> obj

FRRK8sObject(s, o) ==
    LET rendered == Template(s, o)
        obj == IF o = O!FRRK8sDaemon THEN overrideFRRK8SDaemonParameters(s, rendered) ELSE rendered IN
    IF env.IsOpenshift THEN FRRK8sPatch(o, obj) ELSE obj

Object(s, o) ==
    IF o \in O!FRRK8sObjects /\ O!BGPType(s) = "frr-k8s" THEN FRRK8sObject(s, o)
    ELSE MetalLBObject(s, o)

-----------------------------------------------------------------------------
(***************************************************************************)
(* The sync.                                                               *)
(***************************************************************************)
Init ==
    /\ env \in Envs /\ spec \in Specs
    /\ pending = TRUE /\ inst = None /\ toDel = {} /\ toApply = {}
    /\ live = <<>>
    /\ churn = 0

Disrupt == churn < MaxChurn /\ churn' = churn + 1

Edit(s) ==
    /\ Disrupt /\ s # spec
    /\ spec' = s /\ pending' = TRUE
    /\ UNCHANGED <<env, inst, toDel, toApply, live>>

Render ==
    /\ inst = None /\ pending
    /\ inst' = spec /\ pending' = FALSE
    /\ toDel' = O!toDelFor(spec) /\ toApply' = O!objsFor(spec)
    /\ UNCHANGED <<env, spec, live, churn>>

DeleteObj(o) ==
    /\ inst # None /\ o \in O!Foremost(toDel, {})
    /\ toDel' = toDel \ {o} /\ live' = Restrict(live, DOMAIN live \ {o})
    /\ UNCHANGED <<env, spec, pending, inst, toApply, churn>>

\* Server-side apply by one owner: fields no longer rendered are removed.
Later == IF O!BGPType(inst) = "frr-k8s" THEN O!MetalLBObjects(inst) ELSE {}

ApplyObj(o) ==
    /\ inst # None /\ toDel = {} /\ o \in O!Foremost(toApply, Later)
    /\ toApply' = toApply \ {o}
    /\ live' = [p \in DOMAIN live \cup {o} |-> IF p = o THEN Object(inst, o) ELSE live[p]]
    /\ UNCHANGED <<env, spec, pending, inst, toDel, churn>>

Done ==
    /\ inst # None /\ toDel = {} /\ toApply = {}
    /\ inst' = None
    /\ UNCHANGED <<env, spec, pending, toDel, toApply, live, churn>>

\* A call fails, or the operator is restarted: the sync is tried again.
Fail ==
    /\ Disrupt /\ inst # None
    /\ inst' = None /\ toDel' = {} /\ toApply' = {} /\ pending' = TRUE
    /\ UNCHANGED <<env, spec, live>>

Next ==
    \/ \E s \in Specs : Edit(s)
    \/ Render \/ Done \/ Fail
    \/ \E o \in O!Objects : DeleteObj(o) \/ ApplyObj(o)

Spec == Init /\ [][Next]_vars

-----------------------------------------------------------------------------
(***************************************************************************)
(* Properties.                                                             *)
(***************************************************************************)
Synced   == inst = None /\ ~pending
There(o) == o \in DOMAIN live

(***************************************************************************)
(* "Mirror the behaviour of the speaker pods as frrk8s pods must follow    *)
(* the speaker pods": after every sync the frr-k8s daemons run on exactly  *)
(* the nodes the speaker runs on, with the same classes, although the      *)
(* values take different paths to the two DaemonSets.                      *)
(***************************************************************************)
DaemonFollowsSpeaker ==
    Synced /\ There(O!FRRK8sDaemon) =>
        /\ There(O!Speaker)
        /\ \A f \in Scheduling : live[O!FRRK8sDaemon][f] = live[O!Speaker][f]

(***************************************************************************)
(* After every sync speaker and controller have what the user asks for in  *)
(* the resource now and nothing an earlier spec asked for, whatever the    *)
(* order of edits and failures: a value is on none of the paths twice and  *)
(* on one at least.                                                        *)
(***************************************************************************)
Asked(pod, f) == IF f \in {"nodeSelector", "tolerations"} THEN pod[f] ELSE Of(pod.config, f)

UserValuesReachPods ==
    Synced => \A f \in Scheduling \cup ConfigFields :
                 /\ live[O!Speaker][f] = Asked(spec.speaker, f)
                 /\ live[O!Controller][f] = Asked(spec.controller, f)

(***************************************************************************)
(* Every secret with a certificate that a pod mounts is made by exactly    *)
(* one party, the operator's own Secret or OpenShift through an annotated  *)
(* Service, and frr-k8s rotates its certificate exactly if OpenShift does  *)
(* not ("OpenShift is responsible of managing the cert secret").  It takes *)
(* the service monitors on OpenShift, which its manifests switch on.       *)
(***************************************************************************)
Provides(o, secret) ==
    There(o) /\ (live[o].servingCert = secret \/ (o.kind = "Secret" /\ o.name = secret))

CertificatesProvided ==
    Synced =>
        /\ \A w \in O!Objects : There(w) /\ live[w].mounts # None =>
              \E o \in O!Objects :
                 /\ Provides(o, live[w].mounts)
                 /\ \A p \in O!Objects : Provides(p, live[w].mounts) => p = o
        /\ There(O!StatusCleaner) => (live[O!StatusCleaner].certRotation <=> There(O!WebhookSecret))

(***************************************************************************)
(* Nothing but a change of what the user asks for rolls a workload: to     *)
(* list the same blocked networks in another order does not.               *)
(***************************************************************************)
SameBlocks(x, y) == x = y \/ (None \notin {x, y} /\ Rearranged(x, y))

RolloutHasCause ==
    [][\A o \in O!Objects :
          There(o) /\ There(o)' /\ live'[o] # live[o] =>
              \/ \E f \in Fields \ {"alwaysBlock"} : live'[o][f] # live[o][f]
              \/ ~SameBlocks(live'[o].alwaysBlock, live[o].alwaysBlock)]_vars

(***************************************************************************)
(* "OCP includes SCC and annotation" (a case of TestSpeakerSCCOnOpenShift):*)
(* on OpenShift the speaker's pods ask for the SCC made for them.  The     *)
(* code loses the annotation when the resource has a speakerConfig.        *)
(***************************************************************************)
SpeakerAsksForSCC ==
    env.IsOpenshift /\ Synced => live[O!Speaker].requiredSCC = "metallb-speaker"
=============================================================================
