------------------------------ MODULE MCCharts ------------------------------
(***************************************************************************)
(* An instance of ChartObjects for TLC.                                    *)
(***************************************************************************)
EXTENDS ChartObjects

\* Plain Kubernetes with pod monitors and network policies, and OpenShift with
\* the service monitors its manifests switch on.
K8sEnv ==
    [ IsOpenshift |-> FALSE, MustDeployFRRK8sFromCNO |-> FALSE, FRRK8sExternalNamespace |-> FALSE,
      DeployServiceMonitors |-> FALSE, DeployPodMonitors |-> TRUE, DisableNetworkPolicies |-> FALSE ]

OpenShiftEnv ==
    [K8sEnv EXCEPT !.IsOpenshift = TRUE, !.DeployServiceMonitors = TRUE, !.DeployPodMonitors = FALSE]

MCEnvs        == {K8sEnv, OpenShiftEnv}
OnlyOpenShift == {OpenShiftEnv}

NoConfig == [f \in ConfigFields |-> None]
Plain    == [nodeSelector |-> None, tolerations |-> None, config |-> None]

Base(backend) == [bgpBackend |-> backend, speaker |-> Plain, controller |-> Plain, alwaysBlock |-> <<>>]

Pods ==
    {Plain, [Plain EXCEPT !.config = NoConfig], [Plain EXCEPT !.nodeSelector = "x"],
     [Plain EXCEPT !.tolerations = "x"]}
        \cup {[Plain EXCEPT !.config = [NoConfig EXCEPT ![f] = "x"]] : f \in ConfigFields}

\* Every field set, each to a value of its own.
Full == [nodeSelector |-> "node", tolerations |-> "toleration", config |-> [f \in ConfigFields |-> f]]

\* Each field on its own next to frr-k8s, all or nothing for speaker and
\* controller without it, and blocked networks in two orders.
MCSpecs ==
    {[Base("frr-k8s") EXCEPT !.speaker = p] : p \in Pods}
        \cup {Base("frr"), [Base("frr") EXCEPT !.speaker = Full], [Base("frr") EXCEPT !.controller = Full]}
        \cup {[Base("frr-k8s") EXCEPT !.alwaysBlock = b] : b \in {<<1, 2>>, <<2, 1>>, <<2, 1, 2>>}}

AnnotationSpecs == {Base("frr-k8s"), [Base("frr-k8s") EXCEPT !.speaker.config = NoConfig]}
=============================================================================
