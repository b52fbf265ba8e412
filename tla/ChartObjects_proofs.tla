------------------------- MODULE ChartObjects_proofs -------------------------
(***************************************************************************)
(* Theorems about the content of the applied objects, for all environments *)
(* and specs and any number of edits and failures.                         *)
(***************************************************************************)
EXTENDS ChartObjects, FunctionTheorems, FiniteSetTheorems, SequenceTheorems, WellFoundedInduction, TLAPS

(***************************************************************************)
(* The environment never changes, so neither do the lists and the objects  *)
(* a given spec is rendered to.                                            *)
(***************************************************************************)
LEMMA SameLists ==
    ASSUME UNCHANGED env, NEW s
    PROVE  O!toDelFor(s)' = O!toDelFor(s) /\ O!objsFor(s)' = O!objsFor(s)
  BY DEF O!toDelFor, O!objsFor, O!BGPType, O!FRRK8sObjects, O!FRRK8sMonitors, O!MetalLBObjects,
         O!Monitors, O!Applied

LEMMA SameObject ==
    ASSUME UNCHANGED env, NEW s, NEW o
    PROVE  Object(s, o)' = Object(s, o)
<1>1. O!BGPType(s)' = O!BGPType(s)
  BY DEF O!BGPType
<1>2. O!FRRK8sObjects' = O!FRRK8sObjects
  BY DEF O!FRRK8sObjects, O!FRRK8sMonitors
<1>3. Template(s, o)' = Template(s, o)
  BY DEF Template, controllerSecurityContext, metallbTLSHelmValues, frrk8sTLSHelmValues,
         metalLBprometheusValues, prometheusValues, OnOpenShift, disableCertRotation
<1>4. MetalLBObject(s, o)' = MetalLBObject(s, o)
  BY <1>3 DEF MetalLBObject
<1>5. FRRK8sObject(s, o)' = FRRK8sObject(s, o)
  BY <1>3 DEF FRRK8sObject, overrideFRRK8SDaemonParameters
<1> QED
  BY <1>1, <1>2, <1>4, <1>5 DEF Object

-----------------------------------------------------------------------------
(***************************************************************************)
(* The inductive invariant.  Reached says what of a spec's two lists is    *)
(* done when del and app are left of them: the applied objects have the    *)
(* spec's content, the deleted ones are gone.  Nothing is applied before   *)
(* the deletions are through, so the one does not undo the other.  And     *)
(* every object there is was applied for some spec.                        *)
(***************************************************************************)
Reached(s, del, app) ==
    /\ \A o \in O!objsFor(s) \ app : There(o) /\ live[o] = Object(s, o)
    /\ \A o \in O!toDelFor(s) \ (del \cup O!objsFor(s)) : ~There(o)

SyncInv ==
    inst # None =>
        /\ inst \in Specs /\ (~pending => inst = spec)
        /\ toApply \subseteq O!objsFor(inst)
        /\ toDel # {} => toApply = O!objsFor(inst)
        /\ Reached(inst, toDel, toApply)

RestInv == Synced => Reached(spec, {}, {})

Applied(o) == \E s \in Specs : o \in O!objsFor(s) /\ live[o] = Object(s, o)

IInv ==
    /\ env \in Envs /\ spec \in Specs
    /\ SyncInv /\ RestInv
    /\ \A o \in DOMAIN live : Applied(o)

LEMMA InitIInv == Init => IInv
  BY DEF Init, IInv, SyncInv, RestInv, Synced

\* What neither moves the sync nor touches an object keeps what is reached.
LEMMA ReachedKept ==
    ASSUME UNCHANGED <<env, live>>, NEW s, NEW del, NEW app
    PROVE  Reached(s, del, app)' = Reached(s, del, app)
  BY SameLists, SameObject DEF Reached, There

LEMMA AppliedKept ==
    ASSUME IInv, UNCHANGED <<env, live>>
    PROVE  \A o \in DOMAIN live' : Applied(o)'
  BY SameLists, SameObject DEF IInv, Applied

LEMMA EditStep ==
    ASSUME IInv, NEW s \in Specs, Edit(s)
    PROVE  IInv'
<1>1. SyncInv'
  BY SameLists, ReachedKept DEF Edit, IInv, SyncInv
<1>2. ~Synced'
  BY DEF Edit, Synced
<1> QED
  BY <1>1, <1>2, AppliedKept DEF Edit, IInv, RestInv

LEMMA RenderStep == ASSUME IInv, Render PROVE IInv'
<1>1. O!toDelFor(spec)' = O!toDelFor(spec) /\ O!objsFor(spec)' = O!objsFor(spec)
  BY SameLists DEF Render
<1>2. Reached(spec, O!toDelFor(spec), O!objsFor(spec))'
  BY <1>1 DEF Reached, Render
<1>3. SyncInv'
  BY <1>1, <1>2 DEF IInv, SyncInv, Render
<1>4. ~Synced'
  BY ChartAssumption DEF Render, Synced, IInv
<1> QED
  BY <1>3, <1>4, AppliedKept DEF Render, IInv, RestInv

LEMMA DoneStep == ASSUME IInv, Done PROVE IInv'
<1>1. PICK s \in Specs : s = inst
  BY DEF Done, IInv, SyncInv
<1>2. Reached(s, {}, {}) /\ (~pending => s = spec)
  BY <1>1 DEF Done, IInv, SyncInv
<1>3. Reached(s, {}, {})'
  BY <1>2, ReachedKept DEF Done
<1>4. RestInv'
  BY <1>2, <1>3 DEF Done, RestInv, Synced
<1> QED
  BY <1>4, AppliedKept DEF Done, IInv, SyncInv

LEMMA FailStep == ASSUME IInv, Fail PROVE IInv'
  BY AppliedKept DEF Fail, IInv, SyncInv, RestInv, Synced

LEMMA DeleteStep ==
    ASSUME IInv, NEW o, DeleteObj(o)
    PROVE  IInv'
<1>1. inst # None /\ toDel # {} /\ toDel' = toDel \ {o} /\ UNCHANGED <<env, spec, inst, toApply, pending>>
  BY DEF DeleteObj, O!Foremost
<1>2. DOMAIN live' = DOMAIN live \ {o} /\ \A p \in DOMAIN live \ {o} : live'[p] = live[p]
  BY DEF DeleteObj, Restrict
<1>3. toApply = O!objsFor(inst) /\ Reached(inst, toDel, toApply)
  BY <1>1 DEF IInv, SyncInv
<1>4. Reached(inst, toDel, toApply)'
  BY <1>1, <1>2, <1>3, SameLists DEF Reached, There
<1>5. SyncInv'
  BY <1>1, <1>4, SameLists DEF IInv, SyncInv
<1>6. \A p \in DOMAIN live' : Applied(p)'
  BY <1>1, <1>2, SameLists, SameObject DEF IInv, Applied
<1> QED
  BY <1>1, <1>5, <1>6 DEF IInv, RestInv, Synced

LEMMA ApplyStep ==
    ASSUME IInv, NEW o, ApplyObj(o)
    PROVE  IInv'
<1>1. /\ inst # None /\ toDel = {} /\ o \in toApply /\ toApply' = toApply \ {o}
      /\ UNCHANGED <<env, spec, inst, toDel, pending>>
  BY DEF ApplyObj, O!Foremost
<1>2. /\ DOMAIN live' = DOMAIN live \cup {o} /\ live'[o] = Object(inst, o)
      /\ \A p \in DOMAIN live \ {o} : live'[p] = live[p]
  BY DEF ApplyObj
<1>3. inst \in Specs /\ toApply \subseteq O!objsFor(inst) /\ Reached(inst, {}, toApply)
  BY <1>1 DEF IInv, SyncInv
<1>4. Object(inst, o)' = live'[o]
  BY <1>1, <1>2, SameObject
<1>5. Reached(inst, {}, toApply)'
  <2>1. \A p \in O!objsFor(inst) \ toApply' : There(p)' /\ live'[p] = Object(inst, p)'
    BY <1>1, <1>2, <1>3, <1>4, SameObject DEF Reached, There
  <2>2. \A p \in O!toDelFor(inst) \ O!objsFor(inst) : ~There(p)'
    BY <1>1, <1>2, <1>3 DEF Reached, There
  <2> QED
    BY <1>1, <2>1, <2>2, SameLists DEF Reached
<1>6. SyncInv'
  BY <1>1, <1>3, <1>5, SameLists DEF IInv, SyncInv
<1>7. \A p \in DOMAIN live' : Applied(p)'
  BY <1>1, <1>2, <1>3, <1>4, SameLists, SameObject DEF IInv, Applied
<1> QED
  BY <1>1, <1>6, <1>7 DEF IInv, RestInv, Synced

LEMMA StepIInv == IInv /\ [Next]_vars => IInv'
<1> SUFFICES ASSUME IInv, [Next]_vars PROVE IInv'
  OBVIOUS
<1>1. CASE Next
  BY <1>1, EditStep, RenderStep, DoneStep, FailStep, DeleteStep, ApplyStep DEF Next
<1>2. CASE UNCHANGED vars
  BY <1>2, SameLists, ReachedKept, AppliedKept DEF vars, IInv, SyncInv, RestInv, Synced
<1> QED
  BY <1>1, <1>2

LEMMA InductiveInvariant == Spec => []IInv
  BY InitIInv, StepIInv, PTL DEF Spec

-----------------------------------------------------------------------------
(***************************************************************************)
(* What the user asks for reaches the three workloads.                     *)
(***************************************************************************)
LEMMA WorkloadsListed ==
    ASSUME NEW s
    PROVE  /\ O!Speaker \in O!objsFor(s) /\ O!Controller \in O!objsFor(s)
           /\ O!BGPType(s) = "frr-k8s" => O!FRRK8sDaemon \in O!objsFor(s)
           /\ O!BGPType(s) # "frr-k8s" => O!FRRK8sDaemon \in O!toDelFor(s) \ O!objsFor(s)
<1>1. O!Speaker \in O!objsFor(s) /\ O!Controller \in O!objsFor(s)
  BY DEF O!objsFor, O!Applied, O!MetalLBObjects, O!Speaker, O!Controller, O!Obj
<1>2. O!FRRK8sDaemon \in O!FRRK8sObjects /\ O!FRRK8sDaemon.kind = "DaemonSet"
  BY DEF O!FRRK8sObjects, O!FRRK8sDaemon, O!Obj
<1>3. O!FRRK8sDaemon \notin O!MetalLBObjects(s)
  BY DEF O!MetalLBObjects, O!Monitors, O!FRRK8sDaemon, O!Speaker, O!Controller, O!ExcludeL2,
         O!FRRStartup, O!NetworkPolicy, O!SpeakerSCC, O!Obj
<1> QED
  BY <1>1, <1>2, <1>3 DEF O!objsFor, O!Applied, O!toDelFor

\* The content of a workload before and after its config's patches.
LEMMA SpeakerContent ==
    ASSUME NEW s, NEW f \in Scheduling \cup ConfigFields
    PROVE  Object(s, O!Speaker)[f] = Asked(s.speaker, f)
<1>1. Object(s, O!Speaker) = MetalLBObject(s, O!Speaker)
  BY DEF Object, O!FRRK8sObjects, O!FRRK8sMonitors, O!Speaker, O!FRRStartup, O!FRRK8sDaemon,
         O!StatusCleaner, O!WebhookService, O!ValidatingWebhook, O!WebhookSecret, O!Obj
<1>2. Template(s, O!Speaker) =
          [Filled(speakerValues(s)) EXCEPT !.mounts = metallbTLSHelmValues.speaker]
  BY DEF Template, O!Speaker, O!Controller, O!FRRK8sDaemon, O!StatusCleaner, O!Obj, MonitorServices
<1>3. f \in Fields /\ f \notin {"mounts", "requiredSCC"}
  BY DEF Scheduling, ConfigFields, Fields
<1>4. Template(s, O!Speaker)[f] =
          IF f \in {"affinity", "resources"} THEN None ELSE Asked(s.speaker, f)
  <2>1. Template(s, O!Speaker)[f] = Filled(speakerValues(s))[f]
    BY <1>2, <1>3 DEF Filled
  <2> QED
    BY <1>3, <2>1 DEF Filled, speakerValues, PodValues, Asked, Scheduling, ConfigFields
<1>5. ConfigOf(s, O!Speaker) = s.speaker.config
  BY DEF ConfigOf, O!Speaker, O!Controller, O!Obj
<1>6. CASE s.speaker.config # None
  <2>1. MetalLBObject(s, O!Speaker) = Override(s.speaker.config, Template(s, O!Speaker))
    BY <1>5, <1>6 DEF MetalLBObject
  <2> QED
    BY <1>1, <1>2, <1>3, <1>4, <2>1 DEF Override, Asked, Filled, Fields
<1>7. CASE s.speaker.config = None
  <2>1. MetalLBObject(s, O!Speaker)[f] = Template(s, O!Speaker)[f]
    BY <1>2, <1>3, <1>5, <1>7 DEF MetalLBObject, OpenShiftPatch, O!Speaker, O!Controller, O!Obj, Filled
  <2> QED
    BY <1>1, <1>4, <1>7, <2>1 DEF Asked, Of
<1> QED
  BY <1>6, <1>7

LEMMA ControllerContent ==
    ASSUME NEW s, NEW f \in Scheduling \cup ConfigFields
    PROVE  Object(s, O!Controller)[f] = Asked(s.controller, f)
<1>1. Object(s, O!Controller) = MetalLBObject(s, O!Controller)
  BY DEF Object, O!FRRK8sObjects, O!FRRK8sMonitors, O!Controller, O!FRRStartup, O!FRRK8sDaemon,
         O!StatusCleaner, O!WebhookService, O!ValidatingWebhook, O!WebhookSecret, O!Obj
<1>2. Template(s, O!Controller) =
          [Filled(controllerValues(s)) EXCEPT !.securityContext = controllerSecurityContext,
                                              !.mounts = metallbTLSHelmValues.controller]
  BY DEF Template, O!Speaker, O!Controller, O!FRRK8sDaemon, O!StatusCleaner, O!Obj, MonitorServices
<1>3. f \in Fields /\ f \notin {"mounts", "securityContext"}
  BY DEF Scheduling, ConfigFields, Fields
<1>4. Template(s, O!Controller)[f] =
          IF f \in {"affinity", "resources"} THEN None ELSE Asked(s.controller, f)
  <2>1. Template(s, O!Controller)[f] = Filled(controllerValues(s))[f]
    BY <1>2, <1>3 DEF Filled
  <2> QED
    BY <1>3, <2>1 DEF Filled, controllerValues, PodValues, Asked, Scheduling, ConfigFields
<1>5. ConfigOf(s, O!Controller) = s.controller.config
  BY DEF ConfigOf, O!Speaker, O!Controller, O!Obj
<1>6. CASE s.controller.config # None
  <2>1. MetalLBObject(s, O!Controller) = Override(s.controller.config, Template(s, O!Controller))
    BY <1>5, <1>6 DEF MetalLBObject
  <2> QED
    BY <1>1, <1>2, <1>3, <1>4, <2>1 DEF Override, Asked, Filled, Fields
<1>7. CASE s.controller.config = None
  <2>1. MetalLBObject(s, O!Controller)[f] = Template(s, O!Controller)[f]
    BY <1>2, <1>3, <1>5, <1>7 DEF MetalLBObject, OpenShiftPatch, O!Speaker, O!Controller, O!Obj, Filled
  <2> QED
    BY <1>1, <1>4, <1>7, <2>1 DEF Asked, Of
<1> QED
  BY <1>6, <1>7

\* The frr-k8s chart takes all from the speaker, but its annotations.
LEMMA DaemonContent ==
    ASSUME NEW s, O!BGPType(s) = "frr-k8s", NEW f \in Scheduling
    PROVE  Object(s, O!FRRK8sDaemon)[f] = Asked(s.speaker, f)
<1>1. Object(s, O!FRRK8sDaemon) = FRRK8sObject(s, O!FRRK8sDaemon)
  BY DEF Object, O!FRRK8sObjects
<1>2. Template(s, O!FRRK8sDaemon) =
          [Filled(frrk8sValues(s)) EXCEPT !.mounts = frrk8sTLSHelmValues,
                                          !.alwaysBlock = alwaysBlockToString(s.alwaysBlock)]
  BY DEF Template, O!Speaker, O!Controller, O!FRRK8sDaemon, O!StatusCleaner, O!Obj, MonitorServices
<1>3. FRRK8sObject(s, O!FRRK8sDaemon) = Override(s.speaker.config, Template(s, O!FRRK8sDaemon))
  BY DEF FRRK8sObject, FRRK8sPatch, overrideFRRK8SDaemonParameters, O!FRRK8sDaemon,
         O!ValidatingWebhook, O!WebhookService, O!StatusCleaner, O!Obj
<1>4. CASE f = "affinity"
  BY <1>1, <1>2, <1>3, <1>4 DEF Override, Asked, Filled, Fields, Scheduling
<1>5. CASE f # "affinity"
  <2>1. Object(s, O!FRRK8sDaemon)[f] = Template(s, O!FRRK8sDaemon)[f]
    BY <1>1, <1>2, <1>3, <1>5 DEF Override, Filled, Fields, Scheduling
  <2>2. Template(s, O!FRRK8sDaemon)[f] = Filled(frrk8sValues(s))[f]
    BY <1>2 DEF Filled, Fields, Scheduling
  <2> QED
    BY <1>5, <2>1, <2>2 DEF Asked, Filled, frrk8sValues, Fields, Scheduling
<1> QED
  BY <1>4, <1>5

LEMMA AtRest ==
    ASSUME IInv, Synced
    PROVE  /\ \A o \in O!objsFor(spec) : There(o) /\ live[o] = Object(spec, o)
           /\ \A o \in O!toDelFor(spec) \ O!objsFor(spec) : ~There(o)
  BY DEF IInv, RestInv, Reached

(***************************************************************************)
(* After every sync the frr-k8s daemons run exactly where the speaker does *)
(* (overrideFRRK8SDaemonParameters: "frrk8s pods must follow the speaker   *)
(* pods"), for every spec, environment and number of edits and failures.   *)
(***************************************************************************)
THEOREM DaemonAlwaysFollows == Spec => []DaemonFollowsSpeaker
<1>1. ASSUME IInv PROVE DaemonFollowsSpeaker
  <2> SUFFICES ASSUME Synced, There(O!FRRK8sDaemon) PROVE
          There(O!Speaker) /\ \A f \in Scheduling : live[O!FRRK8sDaemon][f] = live[O!Speaker][f]
    BY DEF DaemonFollowsSpeaker
  <2>1. O!BGPType(spec) = "frr-k8s"
    BY <1>1, AtRest, WorkloadsListed
  <2>2. /\ There(O!Speaker) /\ live[O!Speaker] = Object(spec, O!Speaker)
        /\ live[O!FRRK8sDaemon] = Object(spec, O!FRRK8sDaemon)
    BY <1>1, <2>1, AtRest, WorkloadsListed
  <2> QED
    BY <2>1, <2>2, SpeakerContent, DaemonContent
<1> QED
  BY <1>1, InductiveInvariant, PTL

(***************************************************************************)
(* After every sync speaker and controller have exactly the values of the  *)
(* present spec, whatever was edited and whichever call failed before.     *)
(***************************************************************************)
THEOREM ValuesReachPods == Spec => []UserValuesReachPods
<1>1. ASSUME IInv PROVE UserValuesReachPods
  BY <1>1, AtRest, WorkloadsListed, SpeakerContent, ControllerContent DEF UserValuesReachPods
<1> QED
  BY <1>1, InductiveInvariant, PTL

-----------------------------------------------------------------------------
(***************************************************************************)
(* Certificates: which objects mount one and which objects ask for one.    *)
(***************************************************************************)
USE DEF O!Obj

MountOf(o) ==
    IF o = O!Controller         THEN OnOpenShift(controllerCertsSecret)
    ELSE IF o = O!Speaker       THEN OnOpenShift(speakerCertsSecret)
    ELSE IF o = O!FRRK8sDaemon  THEN OnOpenShift(frrk8sCertsSecret)
    ELSE IF o = O!StatusCleaner THEN webhookSecret
    ELSE None

CertOf(o) ==
    IF o = MonitorServices.controller   THEN OnOpenShift(controllerCertsSecret)
    ELSE IF o = MonitorServices.speaker THEN OnOpenShift(speakerCertsSecret)
    ELSE IF o = MonitorServices.frrk8s  THEN OnOpenShift(frrk8sCertsSecret)
    ELSE None

LEMMA TemplateCerts ==
    ASSUME NEW s, NEW o
    PROVE  /\ DOMAIN Template(s, o) = Fields
           /\ Template(s, o).mounts = MountOf(o) /\ Template(s, o).servingCert = CertOf(o)
<1> USE DEF Template, MountOf, CertOf, Filled, Blank, Fields, MonitorServices, metallbTLSHelmValues,
            frrk8sTLSHelmValues, metalLBprometheusValues, prometheusValues
<1>1. CASE o = O!Controller
  BY <1>1 DEF O!Controller, O!Speaker, O!FRRK8sDaemon, O!StatusCleaner, controllerValues, PodValues
<1>2. CASE o = O!Speaker
  BY <1>2 DEF O!Controller, O!Speaker, O!FRRK8sDaemon, O!StatusCleaner, speakerValues, PodValues
<1>3. CASE o = O!FRRK8sDaemon
  BY <1>3 DEF O!Controller, O!Speaker, O!FRRK8sDaemon, O!StatusCleaner, frrk8sValues
<1>4. CASE o = O!StatusCleaner
  BY <1>4 DEF O!Controller, O!Speaker, O!FRRK8sDaemon, O!StatusCleaner, frrk8sValues
<1>5. CASE o \notin {O!Controller, O!Speaker, O!FRRK8sDaemon, O!StatusCleaner}
  BY <1>5
<1> QED
  BY <1>1, <1>2, <1>3, <1>4, <1>5

LEMMA ObjectCerts ==
    ASSUME NEW s, NEW o \in O!objsFor(s)
    PROVE  /\ Object(s, o).mounts = MountOf(o)
           /\ Object(s, o).servingCert =
                  IF o = O!WebhookService THEN OnOpenShift(webhookSecret) ELSE CertOf(o)
<1>1. /\ MetalLBObject(s, o).mounts = MountOf(o)
      /\ MetalLBObject(s, o).servingCert = CertOf(o)
  BY TemplateCerts DEF MetalLBObject, OpenShiftPatch, Override, Fields
<1>2. /\ FRRK8sObject(s, o).mounts = MountOf(o)
      /\ FRRK8sObject(s, o).servingCert =
             IF o = O!WebhookService THEN OnOpenShift(webhookSecret) ELSE CertOf(o)
  <2> DEFINE obj == IF o = O!FRRK8sDaemon THEN Override(s.speaker.config, Template(s, o))
                    ELSE Template(s, o)
  <2>1. DOMAIN obj = Fields /\ obj.mounts = MountOf(o) /\ obj.servingCert = CertOf(o)
    BY TemplateCerts DEF Override, Fields
  <2>2. FRRK8sObject(s, o) = IF env.IsOpenshift THEN FRRK8sPatch(o, obj) ELSE obj
    BY DEF FRRK8sObject, overrideFRRK8SDaemonParameters
  <2>3. CertOf(O!WebhookService) = None
    BY DEF CertOf, O!WebhookService, MonitorServices
  <2> HIDE DEF obj
  <2>4. /\ FRRK8sPatch(o, obj).mounts = obj.mounts
        /\ FRRK8sPatch(o, obj).servingCert =
               IF o = O!WebhookService THEN webhookSecret ELSE obj.servingCert
    BY <2>1 DEF FRRK8sPatch, Fields, O!ValidatingWebhook, O!WebhookService, O!StatusCleaner
  <2> QED
    BY <2>1, <2>2, <2>3, <2>4 DEF OnOpenShift
<1>3. O!WebhookService \in O!FRRK8sObjects
  BY DEF O!FRRK8sObjects
<1>4. O!WebhookService \notin O!MetalLBObjects(s)
  BY DEF O!MetalLBObjects, O!Monitors, O!WebhookService, O!Speaker, O!Controller, O!ExcludeL2,
         O!FRRStartup, O!NetworkPolicy, O!SpeakerSCC
<1>5. o = O!WebhookService => O!BGPType(s) = "frr-k8s"
  BY <1>4 DEF O!objsFor, O!Applied
<1> QED
  BY <1>1, <1>2, <1>3, <1>5 DEF Object

LEMMA Rotation ==
    ASSUME NEW s, O!BGPType(s) = "frr-k8s"
    PROVE  Object(s, O!StatusCleaner).certRotation = ~env.IsOpenshift
<1>1. Object(s, O!StatusCleaner) = FRRK8sObject(s, O!StatusCleaner)
  BY DEF Object, O!FRRK8sObjects
<1>2. /\ DOMAIN Template(s, O!StatusCleaner) = Fields
      /\ Template(s, O!StatusCleaner).certRotation = ~env.IsOpenshift
  BY TemplateCerts DEF Template, O!Speaker, O!Controller, O!FRRK8sDaemon, O!StatusCleaner,
     MonitorServices, disableCertRotation, Filled, Fields
<1>3. FRRK8sObject(s, O!StatusCleaner).certRotation = Template(s, O!StatusCleaner).certRotation
  BY <1>2 DEF FRRK8sObject, FRRK8sPatch, Fields, O!FRRK8sDaemon, O!ValidatingWebhook,
     O!WebhookService, O!StatusCleaner
<1> QED
  BY <1>1, <1>2, <1>3

\* At rest there is what the present spec renders and nothing else.
LEMMA OnlyThePresent ==
    ASSUME IInv, Synced
    PROVE  DOMAIN live = O!objsFor(spec) /\ \A o \in DOMAIN live : live[o] = Object(spec, o)
<1>1. \A s, t : O!objsFor(s) \subseteq O!objsFor(t) \cup O!toDelFor(t)
  BY DEF O!objsFor, O!toDelFor, O!Applied, O!MetalLBObjects, O!FRRK8sObjects
<1> QED
  BY <1>1, AtRest DEF IInv, Applied, There

\* Which of the objects that matter here are rendered.
LEMMA CertificatesListed ==
    ASSUME NEW s
    PROVE  /\ O!objsFor(s) \subseteq O!Objects
           /\ \A o \in O!objsFor(s) : o.kind = "Secret" /\ o.name = webhookSecret => o = O!WebhookSecret
           /\ \A o \in O!objsFor(s) :
                 o.kind = "Secret" => o.name \notin {controllerCertsSecret, speakerCertsSecret, frrk8sCertsSecret}
           /\ O!FRRK8sDaemon \in O!objsFor(s) => O!BGPType(s) = "frr-k8s"
           /\ O!StatusCleaner \in O!objsFor(s) => O!BGPType(s) = "frr-k8s"
           /\ O!BGPType(s) = "frr-k8s" =>
                 /\ O!WebhookService \in O!objsFor(s)
                 /\ O!WebhookSecret \in O!objsFor(s) <=> ~env.IsOpenshift
           /\ env.DeployServiceMonitors =>
                 /\ MonitorServices.controller \in O!objsFor(s) /\ MonitorServices.speaker \in O!objsFor(s)
                 /\ O!BGPType(s) = "frr-k8s" => MonitorServices.frrk8s \in O!objsFor(s)
<1> USE DEF O!objsFor, O!Applied, O!MetalLBObjects, O!FRRK8sObjects, O!FRRK8sMonitors, O!Monitors
<1>1. O!objsFor(s) \subseteq O!Objects
  BY DEF O!Objects
<1>2. \A o \in O!objsFor(s) : o.kind = "Secret" => o = O!WebhookSecret \/ o.name = "metrics-token"
  BY DEF O!Speaker, O!Controller, O!ExcludeL2, O!FRRStartup, O!NetworkPolicy, O!SpeakerSCC,
     O!FRRK8sDaemon, O!StatusCleaner, O!WebhookService, O!ValidatingWebhook
<1>3. O!WebhookSecret.name = webhookSecret /\ O!WebhookSecret.kind = "Secret"
  BY DEF O!WebhookSecret, webhookSecret
<1>4. /\ O!FRRK8sDaemon \in O!objsFor(s) => O!BGPType(s) = "frr-k8s"
      /\ O!StatusCleaner \in O!objsFor(s) => O!BGPType(s) = "frr-k8s"
  BY DEF O!Speaker, O!Controller, O!ExcludeL2, O!FRRStartup, O!NetworkPolicy, O!SpeakerSCC,
     O!FRRK8sDaemon, O!StatusCleaner
<1>5. ASSUME O!BGPType(s) = "frr-k8s"
      PROVE  /\ O!WebhookService \in O!objsFor(s)
             /\ O!WebhookSecret \in O!objsFor(s) <=> ~env.IsOpenshift
  BY <1>5 DEF O!Speaker, O!Controller, O!ExcludeL2, O!FRRStartup, O!NetworkPolicy, O!SpeakerSCC,
     O!FRRK8sDaemon, O!StatusCleaner, O!WebhookService, O!ValidatingWebhook, O!WebhookSecret
<1>6. ASSUME env.DeployServiceMonitors
      PROVE  /\ MonitorServices.controller \in O!objsFor(s) /\ MonitorServices.speaker \in O!objsFor(s)
             /\ O!BGPType(s) = "frr-k8s" => MonitorServices.frrk8s \in O!objsFor(s)
  BY <1>6 DEF MonitorServices
<1> QED
  BY <1>1, <1>2, <1>3, <1>4, <1>5, <1>6 DEF webhookSecret, controllerCertsSecret, speakerCertsSecret, frrk8sCertsSecret

LEMMA ProvidesAtRest ==
    ASSUME IInv, Synced, NEW p \in O!objsFor(spec), NEW secret
    PROVE  Provides(p, secret) <=>
              \/ (IF p = O!WebhookService THEN OnOpenShift(webhookSecret) ELSE CertOf(p)) = secret
              \/ p.kind = "Secret" /\ p.name = secret
  BY OnlyThePresent, ObjectCerts DEF Provides, There

(***************************************************************************)
(* At rest every certificate a pod mounts has exactly one provider, and    *)
(* frr-k8s rotates its own exactly if OpenShift does not (the charts'      *)
(* values and the patches of both charts agree about the secrets), if the  *)
(* service monitors are switched on on OpenShift.                          *)
(***************************************************************************)
THEOREM CertificatesAlwaysProvided == Spec => []CertificatesProvided
<1>1. ASSUME IInv PROVE CertificatesProvided
  <2> SUFFICES ASSUME Synced PROVE
          /\ \A w \in O!Objects : There(w) /\ live[w].mounts # None =>
                \E o \in O!Objects :
                   /\ Provides(o, live[w].mounts)
                   /\ \A p \in O!Objects : Provides(p, live[w].mounts) => p = o
          /\ There(O!StatusCleaner) => (live[O!StatusCleaner].certRotation <=> There(O!WebhookSecret))
    BY DEF CertificatesProvided
  <2>1. /\ env.IsOpenshift \in BOOLEAN /\ (env.IsOpenshift => env.DeployServiceMonitors)
        /\ DOMAIN live = O!objsFor(spec) /\ \A o \in DOMAIN live : live[o] = Object(spec, o)
    BY <1>1, ChartAssumption, OnlyThePresent DEF IInv
  <2>2. ASSUME NEW o \in O!objsFor(spec), NEW secret, Provides(o, secret),
               \A p \in O!objsFor(spec) : Provides(p, secret) => p = o
        PROVE  \E q \in O!Objects :
                  Provides(q, secret) /\ \A p \in O!Objects : Provides(p, secret) => p = q
    BY <2>1, <2>2, CertificatesListed DEF Provides, There
  <2>3. ASSUME NEW w \in O!objsFor(spec), MountOf(w) # None
        PROVE  \E o \in O!objsFor(spec) :
                  /\ Provides(o, MountOf(w))
                  /\ \A p \in O!objsFor(spec) : Provides(p, MountOf(w)) => p = o
    <3> USE DEF OnOpenShift, controllerCertsSecret, speakerCertsSecret, frrk8sCertsSecret, webhookSecret
    <3>1. /\ None \notin {controllerCertsSecret, speakerCertsSecret, frrk8sCertsSecret, webhookSecret}
          /\ CertOf(MonitorServices.controller) = OnOpenShift(controllerCertsSecret)
          /\ CertOf(MonitorServices.speaker) = OnOpenShift(speakerCertsSecret)
          /\ CertOf(MonitorServices.frrk8s) = OnOpenShift(frrk8sCertsSecret)
          /\ O!WebhookService \notin {MonitorServices.controller, MonitorServices.speaker, MonitorServices.frrk8s}
          /\ O!WebhookSecret.kind = "Secret" /\ O!WebhookSecret.name = webhookSecret
      BY SecretsAssumption DEF CertOf, MonitorServices, O!WebhookService, O!WebhookSecret
    <3>2. CASE w = O!Controller
      <4>1. env.IsOpenshift /\ MountOf(w) = controllerCertsSecret
        BY <2>3, <3>2 DEF MountOf
      <4>2. MonitorServices.controller \in O!objsFor(spec)
        BY <2>1, <4>1, CertificatesListed
      <4> QED
        BY <1>1, <2>1, <3>1, <4>1, <4>2, ProvidesAtRest, CertificatesListed DEF CertOf
    <3>3. CASE w = O!Speaker
      <4>1. env.IsOpenshift /\ MountOf(w) = speakerCertsSecret
        BY <2>3, <3>3 DEF MountOf, O!Speaker, O!Controller
      <4>2. MonitorServices.speaker \in O!objsFor(spec)
        BY <2>1, <4>1, CertificatesListed
      <4> QED
        BY <1>1, <2>1, <3>1, <4>1, <4>2, ProvidesAtRest, CertificatesListed DEF CertOf
    <3>4. CASE w = O!FRRK8sDaemon
      <4>1. env.IsOpenshift /\ MountOf(w) = frrk8sCertsSecret
        BY <2>3, <3>4 DEF MountOf, O!Speaker, O!Controller, O!FRRK8sDaemon
      <4>2. MonitorServices.frrk8s \in O!objsFor(spec)
        BY <2>1, <2>3, <3>4, <4>1, CertificatesListed
      <4> QED
        BY <1>1, <2>1, <3>1, <4>1, <4>2, ProvidesAtRest, CertificatesListed DEF CertOf
    <3>5. CASE w = O!StatusCleaner
      <4>1. MountOf(w) = webhookSecret /\ O!BGPType(spec) = "frr-k8s"
        BY <2>3, <3>5, CertificatesListed DEF MountOf, O!Speaker, O!Controller, O!FRRK8sDaemon, O!StatusCleaner
      <4>2. CASE env.IsOpenshift
        <5>1. O!WebhookService \in O!objsFor(spec) /\ O!WebhookSecret \notin O!objsFor(spec)
          BY <4>1, <4>2, CertificatesListed
        <5> QED
          BY <1>1, <3>1, <4>1, <4>2, <5>1, ProvidesAtRest, CertificatesListed DEF CertOf
      <4>3. CASE ~env.IsOpenshift
        <5>1. O!WebhookSecret \in O!objsFor(spec)
          BY <4>1, <4>3, CertificatesListed
        <5> QED
          BY <1>1, <3>1, <4>1, <4>3, <5>1, ProvidesAtRest, CertificatesListed DEF CertOf
      <4> QED
        BY <2>1, <4>2, <4>3
    <3> QED
      BY <2>3, <3>2, <3>3, <3>4, <3>5 DEF MountOf
  <2>4. \A w \in O!objsFor(spec) : live[w].mounts = MountOf(w)
    BY <2>1, ObjectCerts
  <2>5. ASSUME There(O!StatusCleaner)
        PROVE  live[O!StatusCleaner].certRotation <=> There(O!WebhookSecret)
    BY <2>1, <2>5, CertificatesListed, Rotation DEF There
  <2> QED
    BY <2>1, <2>2, <2>3, <2>4, <2>5 DEF There
<1> QED
  BY <1>1, InductiveInvariant, PTL

-----------------------------------------------------------------------------
(***************************************************************************)
(* Sorting.  Every list has a sorted copy, and lists that differ in order  *)
(* only have the same one.                                                 *)
(***************************************************************************)
\* Every nonempty set of numbers has a least one.
LEMMA LeastNumber ==
    ASSUME NEW T \in SUBSET Nat, T # {}
    PROVE  \E m \in T : \A k \in T : m <= k
<1>1. PICK m \in T : \A k \in T : ~(<<k, m>> \in OpToRel(<, Nat))
  BY NatLessThanWellFounded, WFMin
<1>2. \A k \in T : ~(k < m)
  BY <1>1 DEF OpToRel
<1> QED
  BY <1>2

\* There are no more places in a list than it is mapped to one by one.
LEMMA NoFewerPlaces ==
    ASSUME NEW m \in Nat, NEW n \in Nat, NEW p \in [1 .. m -> 1 .. n],
           \A i, j \in 1 .. m : p[i] = p[j] => i = j
    PROVE  m <= n
<1>1. /\ IsFiniteSet(1 .. m) /\ Cardinality(1 .. m) = m
      /\ IsFiniteSet(1 .. n) /\ Cardinality(1 .. n) = n
  BY FS_Interval
<1>2. CASE n < m
  BY <1>1, <1>2, FS_PigeonHole
<1> QED
  BY <1>2

(***************************************************************************)
(* The next element goes in front of the first that is larger.  order is   *)
(* where the first n elements of x go to.                                  *)
(***************************************************************************)
Orders(x, n) ==
    {p \in [1 .. n -> 1 .. n] :
        /\ \A i, j \in 1 .. n : p[i] = p[j] => i = j
        /\ \A k \in 1 .. n : \E i \in 1 .. n : p[i] = k
        /\ \A i, j \in 1 .. n : i < j => x[p[i]] <= x[p[j]]}

LEMMA Insertion ==
    ASSUME NEW x \in Seq(Int), NEW n \in Nat, n + 1 <= Len(x), Orders(x, n) # {}
    PROVE  Orders(x, n + 1) # {}
<1>1. PICK p \in Orders(x, n) : TRUE
  OBVIOUS
<1>2. \A i \in 1 .. n + 1 : x[i] \in Int
  BY ElementOfSeq, LenProperties
<1> DEFINE a == x[n + 1]
           larger == {i \in 1 .. n : x[p[i]] > a} \cup {n + 1}
<1>3. PICK k \in larger : \A i \in larger : k <= i
  <2>1. larger \in SUBSET Nat /\ larger # {}
    OBVIOUS
  <2> HIDE DEF larger
  <2> QED
    BY <2>1, LeastNumber
<1> DEFINE q == [i \in 1 .. n + 1 |-> IF i < k THEN p[i] ELSE IF i = k THEN n + 1 ELSE p[i - 1]]
<1>4. /\ p \in [1 .. n -> 1 .. n] /\ k \in 1 .. n + 1
      /\ \A i, j \in 1 .. n : p[i] = p[j] => i = j
      /\ \A c \in 1 .. n : \E i \in 1 .. n : p[i] = c
      /\ \A i, j \in 1 .. n : i < j => x[p[i]] <= x[p[j]]
  BY <1>3 DEF Orders
<1>t. p \in [1 .. n -> 1 .. n] /\ k \in 1 .. n + 1
  BY <1>4
<1>o. \A i, j \in 1 .. n : i < j => x[p[i]] <= x[p[j]]
  BY <1>4
<1>5. \A i \in 1 .. n + 1 :
        /\ i < k => i \in 1 .. n /\ q[i] = p[i]
        /\ i = k => q[i] = n + 1
        /\ i > k => i - 1 \in 1 .. n /\ q[i] = p[i - 1]
  BY <1>4
<1>6. q \in [1 .. n + 1 -> 1 .. n + 1]
  <2>1. ASSUME NEW i \in 1 .. n + 1 PROVE q[i] \in 1 .. n + 1
    <3> HIDE DEF q
    <3>1. n + 1 \in 1 .. n + 1 /\ \A l \in 1 .. n : p[l] \in 1 .. n + 1
      BY <1>t
    <3>2. i < k \/ i = k \/ i > k
      BY <1>t
    <3> QED
      BY <1>5, <3>1, <3>2
  <2> QED
    BY <2>1
<1>7. \A i, j \in 1 .. n + 1 : q[i] = q[j] => i = j
  <2> HIDE DEF q
  <2> SUFFICES ASSUME NEW i \in 1 .. n + 1, NEW j \in 1 .. n + 1, q[i] = q[j], i < j PROVE FALSE
    BY <1>4
  <2>1. CASE i < k /\ j < k
    BY <1>4, <1>5, <2>1
  <2>2. CASE i > k /\ j > k
    BY <1>4, <1>5, <2>2
  <2>3. CASE i < k /\ j > k
    BY <1>4, <1>5, <2>3
  <2>4. CASE i = k \/ j = k
    BY <1>4, <1>5, <2>4
  <2> QED
    BY <1>4, <2>1, <2>2, <2>3, <2>4
<1>8. ASSUME NEW c \in 1 .. n + 1 PROVE \E i \in 1 .. n + 1 : q[i] = c
  <2> HIDE DEF q
  <2>1. CASE c = n + 1
    BY <1>4, <1>5, <2>1
  <2>2. CASE c # n + 1
    <3>1. PICK i \in 1 .. n : p[i] = c
      BY <1>4, <2>2
    <3>2. CASE i < k
      BY <1>5, <3>1, <3>2
    <3>3. CASE i >= k
      <4>1. i + 1 \in 1 .. n + 1 /\ i + 1 > k /\ (i + 1) - 1 = i
        BY <1>4, <3>3
      <4> QED
        BY <1>5, <3>1, <4>1
    <3> QED
      BY <1>4, <3>2, <3>3
  <2> QED
    BY <2>1, <2>2
<1>9. ASSUME NEW i \in 1 .. n + 1, NEW j \in 1 .. n + 1, i < j PROVE x[q[i]] <= x[q[j]]
  <2>0. a \in Int
    BY <1>2
  <2>1. \A l \in 1 .. n : x[p[l]] \in Int /\ (l < k => x[p[l]] <= a) /\ (l = k => x[p[l]] > a)
    <3> SUFFICES ASSUME NEW l \in 1 .. n
                 PROVE  x[p[l]] \in Int /\ (l < k => x[p[l]] <= a) /\ (l = k => x[p[l]] > a)
      OBVIOUS
    <3>1. p[l] \in 1 .. n + 1 /\ a \in Int
      <4>1. n + 1 \in 1 .. n + 1 /\ p[l] \in 1 .. n
        BY <1>t
      <4> QED
        BY <1>2, <4>1
    <3>2. x[p[l]] \in Int
      BY <1>2, <3>1
    <3>3. (l \in larger <=> x[p[l]] > a) /\ (l < k => l \notin larger) /\ k \in larger
      BY <1>3
    <3> QED
      BY <3>1, <3>2, <3>3
  <2>2. \A l \in 1 .. n : l >= k => x[p[l]] > a
    <3> SUFFICES ASSUME NEW l \in 1 .. n, l > k PROVE x[p[l]] > a
      BY <1>t, <1>o, <2>1
    <3>1. k \in 1 .. n /\ x[p[k]] <= x[p[l]]
      BY <1>t, <1>o
    <3> QED
      BY <1>2, <2>1, <3>1
  <2> HIDE DEF q, a, larger
  <2>3. CASE j < k
    <3>1. i \in 1 .. n /\ j \in 1 .. n /\ q[i] = p[i] /\ q[j] = p[j]
      BY <1>t, <1>5, <1>9, <2>3
    <3> QED
      BY <1>t, <1>o, <1>9, <3>1
  <2>4. CASE j = k
    <3>1. i \in 1 .. n /\ i < k /\ q[i] = p[i] /\ q[j] = n + 1
      BY <1>t, <1>5, <1>9, <2>4
    <3> QED
      BY <2>1, <3>1 DEF a
  <2>5. CASE j > k /\ i < k
    <3>1. i \in 1 .. n /\ j - 1 \in 1 .. n /\ i < j - 1 /\ q[i] = p[i] /\ q[j] = p[j - 1]
      BY <1>t, <1>5, <1>9, <2>5
    <3> QED
      BY <1>t, <1>o, <3>1
  <2>6. CASE j > k /\ i = k
    <3>1. q[i] = n + 1 /\ j - 1 \in 1 .. n /\ j - 1 >= k /\ q[j] = p[j - 1]
      BY <1>t, <1>5, <1>9, <2>6
    <3>2. x[p[j - 1]] > a /\ x[p[j - 1]] \in Int /\ a \in Int
      BY <2>0, <2>1, <2>2, <3>1
    <3> QED
      BY <3>1, <3>2 DEF a
  <2>7. CASE j > k /\ i > k
    <3>1. i - 1 \in 1 .. n /\ j - 1 \in 1 .. n /\ i - 1 < j - 1 /\ q[i] = p[i - 1] /\ q[j] = p[j - 1]
      BY <1>t, <1>5, <1>9, <2>7
    <3> QED
      BY <1>t, <1>o, <3>1
  <2> QED
    BY <1>t, <1>o, <1>9, <2>3, <2>4, <2>5, <2>6, <2>7
<1> HIDE DEF q
<1> QED
  BY <1>6, <1>7, <1>8, <1>9 DEF Orders

\* Every list can be sorted: were there one whose first n elements cannot, take
\* the least n.
LEMMA Sortable ==
    ASSUME NEW x \in Seq(Int)
    PROVE  Orders(x, Len(x)) # {}
<1> DEFINE Bad == {n \in 0 .. Len(x) : Orders(x, n) = {}}
<1>0. Len(x) \in Nat
  BY LenProperties
<1>1. SUFFICES ASSUME Bad # {} PROVE FALSE
  BY <1>0
<1>2. PICK n \in Bad : \A k \in Bad : n <= k
  <2>1. Bad \in SUBSET Nat
    BY <1>0
  <2> HIDE DEF Bad
  <2> QED
    BY <1>1, <2>1, LeastNumber
<1>3. CASE n = 0
  <2>1. [i \in 1 .. 0 |-> i] \in Orders(x, 0)
    BY DEF Orders
  <2> QED
    BY <1>3, <2>1
<1>4. CASE n > 0
  <2>1. n - 1 \in Nat /\ n - 1 \notin Bad /\ (n - 1) + 1 = n /\ n <= Len(x)
    BY <1>0, <1>2, <1>4
  <2>2. Orders(x, n - 1) # {}
    BY <1>0, <2>1
  <2> QED
    BY <1>2, <2>1, <2>2, Insertion
<1> QED
  BY <1>0, <1>3, <1>4

\* What alwaysBlockToString chooses is there: a sorted list with the same elements.
LEMMA SortedBlocks ==
    ASSUME NEW x \in Seq(Int)
    PROVE  /\ alwaysBlockToString(x) \in [1 .. Len(x) -> Int]
           /\ Ascending(alwaysBlockToString(x))
<1> DEFINE D == 1 .. Len(x)
<1>1. PICK p \in Orders(x, Len(x)) : TRUE
  BY Sortable
<1>2. /\ p \in [D -> D] /\ \A i, j \in D : p[i] = p[j] => i = j
      /\ \A k \in D : \E i \in D : p[i] = k
      /\ \A i, j \in D : i < j => x[p[i]] <= x[p[j]]
  BY DEF Orders
<1>3. DOMAIN x = D /\ ToSet(x) \subseteq Int /\ \A i \in D : x[i] \in ToSet(x)
  BY LenProperties, ElementOfSeq DEF ToSet
<1> DEFINE y == [i \in D |-> x[p[i]]]
<1>4. y \in [D -> ToSet(x)] /\ DOMAIN y = D /\ \A i \in D : y[i] = x[p[i]]
  BY <1>2, <1>3
<1>5. p \in Bijection(D, D)
  BY <1>2, Fun_IsBij
<1> HIDE DEF D, y
<1>6. Ascending(y) /\ Rearranged(y, x)
  BY <1>2, <1>3, <1>4, <1>5 DEF Ascending, Rearranged
<1>7. /\ alwaysBlockToString(x) \in [D -> ToSet(x)]
      /\ Ascending(alwaysBlockToString(x))
  BY <1>3, <1>4, <1>6 DEF alwaysBlockToString
<1> QED
  BY <1>3, <1>7 DEF D

\* Of two sorted lists of which the one is mapped into the other, no element is
\* smaller: i elements would have their places before place i.
LEMMA NoneSmaller ==
    ASSUME NEW n \in Nat, NEW x \in [1 .. n -> Int], NEW y \in [1 .. n -> Int],
           Ascending(x), Ascending(y), NEW p \in [1 .. n -> 1 .. n],
           \A i, j \in 1 .. n : p[i] = p[j] => i = j,
           \A i \in 1 .. n : x[i] = y[p[i]], NEW c \in 1 .. n
    PROVE  y[c] <= x[c]
<1> SUFFICES ASSUME x[c] < y[c] PROVE FALSE
  BY DEF Ascending
<1>d. PICK d \in Nat : d = c - 1
  OBVIOUS
<1>1. ASSUME NEW i \in 1 .. c PROVE p[i] \in 1 .. d
  <2>1. i \in 1 .. n /\ p[i] \in 1 .. n /\ x[i] <= x[c]
    BY DEF Ascending
  <2>2. y[p[i]] < y[c]
    BY <2>1
  <2>3. CASE p[i] >= c
    <3>1. y[c] <= y[p[i]]
      BY <2>1, <2>3 DEF Ascending
    <3> QED
      BY <2>1, <2>2, <3>1
  <2> QED
    BY <1>d, <2>1, <2>3
<1> DEFINE q == [i \in 1 .. c |-> p[i]]
<1>2. q \in [1 .. c -> 1 .. d]
  BY <1>1
<1>3. \A i, j \in 1 .. c : q[i] = q[j] => i = j
  <2>1. \A i \in 1 .. c : i \in 1 .. n /\ q[i] = p[i]
    OBVIOUS
  <2> HIDE DEF q
  <2> QED
    BY <2>1
<1> HIDE DEF q
<1>4. c \in Nat
  OBVIOUS
<1>5. c <= d
  BY <1>2, <1>3, <1>4, NoFewerPlaces
<1> QED
  BY <1>d, <1>5

\* Hence sorting makes lists equal that differ in their order only.
LEMMA OneSortedList ==
    ASSUME NEW m \in Nat, NEW n \in Nat, NEW x \in [1 .. m -> Int], NEW y \in [1 .. n -> Int],
           Ascending(x), Ascending(y), Rearranged(x, y)
    PROVE  x = y
<1>1. PICK p \in Bijection(1 .. m, 1 .. n) : \A i \in 1 .. m : x[i] = y[p[i]]
  BY DEF Rearranged
<1>2. p \in [1 .. m -> 1 .. n] /\ \A i, j \in 1 .. m : p[i] = p[j] => i = j
  BY DEF Bijection, Injection, IsInjective
<1> DEFINE q == Inverse(p, 1 .. m, 1 .. n)
<1>b. q \in Bijection(1 .. n, 1 .. m)
  BY Fun_BijInverse
<1>3. \A i \in 1 .. m : q[p[i]] = i
  BY Fun_BijInverse
<1> HIDE DEF q
<1>4. q \in [1 .. n -> 1 .. m] /\ \A i, j \in 1 .. n : q[i] = q[j] => i = j
  BY <1>b DEF Bijection, Injection, IsInjective
<1>5. m = n
  <2>1. m <= n /\ n <= m
    BY <1>2, <1>4, NoFewerPlaces
  <2> QED
    BY <2>1
<1>6. ASSUME NEW i \in 1 .. n PROVE y[i] = x[q[i]]
  <2>1. q[i] \in 1 .. m /\ p[q[i]] \in 1 .. n /\ q[p[q[i]]] = q[i]
    BY <1>2, <1>3, <1>4
  <2>2. p[q[i]] = i
    BY <1>4, <2>1
  <2> QED
    BY <1>1, <2>1, <2>2
<1>7. ASSUME NEW i \in 1 .. n PROVE x[i] = y[i]
  <2>1. y[i] <= x[i]
    BY <1>1, <1>2, <1>5, NoneSmaller
  <2>2. x[i] <= y[i]
    BY <1>4, <1>5, <1>6, NoneSmaller
  <2>3. x[i] \in Int /\ y[i] \in Int
    BY <1>5
  <2> QED
    BY <2>1, <2>2, <2>3
<1> QED
  BY <1>5, <1>7

-----------------------------------------------------------------------------
(***************************************************************************)
(* What an object says of blocked networks is nothing, or a sorted list.   *)
(***************************************************************************)
Sorted(blocks) ==
    blocks # None => \E n \in Nat : blocks \in [1 .. n -> Int] /\ Ascending(blocks)

LEMMA TemplateBlocks ==
    ASSUME NEW s \in Specs, NEW o
    PROVE  DOMAIN Template(s, o) = Fields /\ Sorted(Template(s, o).alwaysBlock)
<1> USE DEF Template, Filled, Blank, Fields, MonitorServices
<1>1. Sorted(None)
  BY DEF Sorted
<1>2. CASE o = O!FRRK8sDaemon
  <2>1. s.alwaysBlock \in Seq(Int)
    BY ChartAssumption
  <2>2. Sorted(alwaysBlockToString(s.alwaysBlock))
    BY <2>1, SortedBlocks, LenProperties DEF Sorted
  <2>3. Template(s, o).alwaysBlock = alwaysBlockToString(s.alwaysBlock)
    BY <1>2 DEF O!Controller, O!Speaker, O!FRRK8sDaemon, O!StatusCleaner, frrk8sValues
  <2> QED
    BY <2>2, <2>3, TemplateCerts
<1>3. CASE o # O!FRRK8sDaemon
  <2>1. Template(s, o).alwaysBlock = None
    BY <1>3 DEF controllerValues, speakerValues, PodValues, frrk8sValues
  <2> QED
    BY <1>1, <2>1, TemplateCerts
<1> QED
  BY <1>2, <1>3

LEMMA ObjectBlocks ==
    ASSUME NEW s \in Specs, NEW o
    PROVE  /\ Object(s, o) = [f \in Fields |-> Object(s, o)[f]]
           /\ Sorted(Object(s, o).alwaysBlock)
<1> DEFINE Good(obj) == obj = [f \in Fields |-> obj[f]] /\ Sorted(obj.alwaysBlock)
<1>1. Good(Template(s, o))
  <2>1. Template(s, o) = [f \in Fields |-> Template(s, o)[f]]
    <3> DEFINE Whole(obj) == obj = [f \in Fields |-> obj[f]]
    <3>1. \A obj, f, v : Whole(obj) => Whole([obj EXCEPT ![f] = v])
      OBVIOUS
    <3>2. Whole(Blank) /\ \A values : Whole(Filled(values))
      BY DEF Blank, Filled
    <3> HIDE DEF Whole
    <3>3. Whole(Template(s, o))
      BY <3>1, <3>2 DEF Template
    <3> QED
      BY <3>3 DEF Whole
  <2> QED
    BY <2>1, TemplateBlocks
<1>2. \A obj, config : Good(obj) => Good(Override(config, obj))
  BY DEF Override, Fields
<1>3. ASSUME NEW obj, Good(obj) PROVE Good(OpenShiftPatch(o, obj)) /\ Good(FRRK8sPatch(o, obj))
  <2>1. \A f \in Fields \ {"alwaysBlock"} : \A v : Good([obj EXCEPT ![f] = v])
    BY <1>3 DEF Fields
  <2>2. {"securityContext", "requiredSCC", "tlsVerified", "caBundle", "servingCert"}
            \subseteq Fields \ {"alwaysBlock"}
    BY DEF Fields
  <2> HIDE DEF Good
  <2> QED
    BY <1>3, <2>1, <2>2 DEF OpenShiftPatch, FRRK8sPatch
<1> HIDE DEF Good
<1>4. Good(MetalLBObject(s, o))
  BY <1>1, <1>2, <1>3 DEF MetalLBObject
<1>5. Good(FRRK8sObject(s, o))
  BY <1>1, <1>2, <1>3 DEF FRRK8sObject, overrideFRRK8SDaemonParameters
<1>6. Good(Object(s, o))
  BY <1>4, <1>5 DEF Object
<1> QED
  BY <1>6 DEF Good

(***************************************************************************)
(* No step changes an object because the same blocked networks are listed  *)
(* in another order (alwaysBlockToString sorts them), whatever the order   *)
(* of edits, failures and retries.                                         *)
(***************************************************************************)
THEOREM RolloutsHaveCause == Spec => RolloutHasCause
<1> DEFINE Cause(o) == \/ \E f \in Fields \ {"alwaysBlock"} : live'[o][f] # live[o][f]
                       \/ ~SameBlocks(live'[o].alwaysBlock, live[o].alwaysBlock)
<1>1. ASSUME IInv, IInv', UNCHANGED env, NEW o, There(o), There(o)', live'[o] # live[o], ~Cause(o)
      PROVE  FALSE
  <2>1. PICK s \in Specs : live[o] = Object(s, o)
    BY <1>1 DEF IInv, Applied, There
  <2>2. PICK t \in Specs : live'[o] = Object(t, o)
    BY <1>1, SameObject DEF IInv, Applied, There
  <2> DEFINE x == live'[o].alwaysBlock
             y == live[o].alwaysBlock
  <2>3. \A f \in Fields \ {"alwaysBlock"} : live'[o][f] = live[o][f]
    BY <1>1
  <2>4. /\ live[o] = [f \in Fields |-> live[o][f]] /\ live'[o] = [f \in Fields |-> live'[o][f]]
        /\ Sorted(x) /\ Sorted(y)
    BY <2>1, <2>2, ObjectBlocks
  <2>5. x # y
    BY <1>1, <2>3, <2>4
  <2>6. None \notin {x, y} /\ Rearranged(x, y)
    BY <1>1, <2>5 DEF SameBlocks
  <2> HIDE DEF x, y
  <2> QED
    BY <2>4, <2>5, <2>6, OneSortedList DEF Sorted
<1>2. ASSUME IInv, IInv', [Next]_vars
      PROVE  [\A o \in O!Objects : There(o) /\ There(o)' /\ live'[o] # live[o] => Cause(o)]_vars
  <2>1. UNCHANGED env
    BY <1>2 DEF Next, Edit, Render, Done, Fail, DeleteObj, ApplyObj, vars
  <2> QED
    BY <1>1, <1>2, <2>1
<1> QED
  BY <1>2, InductiveInvariant, PTL DEF Spec, RolloutHasCause
=============================================================================
