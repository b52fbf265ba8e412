---------------------------- MODULE MCReconciler ----------------------------
(***************************************************************************)
(* Instances of MetalLBReconciler for TLC: the environments the operator   *)
(* is deployed in and the specs users submit.                              *)
(***************************************************************************)
EXTENDS ReconcilerRefinement

\* The values of bin/manifests: plain Kubernetes, no monitoring.
K8sEnv ==
    [ IsOpenshift |-> FALSE, MustDeployFRRK8sFromCNO |-> FALSE, FRRK8sExternalNamespace |-> FALSE,
      DeployServiceMonitors |-> FALSE, DeployPodMonitors |-> FALSE, DisableNetworkPolicies |-> TRUE ]

OpenShiftEnv ==
    [K8sEnv EXCEPT !.IsOpenshift = TRUE, !.MustDeployFRRK8sFromCNO = TRUE,
                   !.FRRK8sExternalNamespace = TRUE]

\* The same without a default namespace: external mode needs the resource's own.
NoNamespaceEnv == [OpenShiftEnv EXCEPT !.FRRK8sExternalNamespace = FALSE]

Spec0(backend, c) ==
    [ bgpBackend |-> backend, namespace |-> FALSE, tolerations |-> {}, weights |-> {},
      alwaysBlock |-> {}, cfg |-> c ]

CONSTANTS info, debug

AllCfgs == {info, debug}

IllFormed(s) == [s EXCEPT !.weights = {0}]
WithNamespace(s) == [s EXCEPT !.namespace = TRUE]

\* The two modes that share frr-startup, external mode, which the webhook
\* admits on any platform and the reconciler does not, and a refused spec.
K8sSpecs ==
    {Spec0("", info), Spec0("frr-k8s", debug), WithNamespace(Spec0("frr-k8s-external", info)),
     IllFormed(Spec0("frr", info))}

\* On OpenShift: frr-k8s from the network operator by default and by request
\* (there with the operator's default namespace), or deployed by the operator.
ByDefault  == Spec0("", info)
ByRequest  == Spec0("frr-k8s-external", debug)
OfOperator == Spec0("frr-k8s", debug)

OpenShiftSpecs == {ByDefault, ByRequest, OfOperator}
SwitchSpecs    == {ByDefault, OfOperator}

\* Without the default namespace: a resource no chart is rendered for, and the
\* same mode with a namespace of its own.
ExternalSpecs  == {ByDefault, WithNamespace(ByRequest)}
=============================================================================
