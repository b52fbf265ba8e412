--------------------- MODULE ReconcilerRefinement_proofs ---------------------
(***************************************************************************)
(* MetalLBReconciler implements DesiredState, for every environment, set   *)
(* of specs, set of names and bound on the disruptions.                    *)
(***************************************************************************)
EXTENDS ReconcilerRefinement, MetalLBReconciler_proofs

(***************************************************************************)
(* The two lists are those of a spec that can be deployed here.            *)
(***************************************************************************)
SyncListed ==
    pc = "objects" => Deployable(inst.spec) /\ toDel \subseteq toDelFor(inst.spec)

(***************************************************************************)
(* Only Render fills the lists; everything else shortens or leaves them.   *)
(***************************************************************************)
LEMMA NextSyncListed == TypeOK /\ InHand /\ SyncListed /\ [Next]_vars => SyncListed'
<1> SUFFICES ASSUME TypeOK, InHand, SyncListed, [Next]_vars PROVE SyncListed'
  OBVIOUS
<1> USE DEF reconcile
<1>0. None \notin CR \cup Copy \cup Net \cup Names
  BY ConstantsAssumption
<1>1. CASE Quiet \/ UNCHANGED reconcile
  BY <1>1 DEF Quiet, SyncListed
<1>2. CASE Gives \/ Finds
  <2>1. pc' # "objects"
    BY <1>2 DEF Gives, Finds, SyncFailed, NotReady, Report, Goto
  <2> QED BY <2>1 DEF SyncListed
<1>3. CASE \E n \in Names : DeleteCR(n) \/ \E s \in Specs : EditCR(n, s)
  <2>1. UNCHANGED <<pc, toDel>>
    BY <1>3 DEF DeleteCR, EditCR
  <2>2. pc = "objects" => inst'.spec = inst.spec
    BY <1>0, <1>3, OutdatedTags, OrphanedSpec DEF DeleteCR, EditCR, CopiesOutdated, InHand
  <2> QED BY <2>1, <2>2 DEF SyncListed
<1>4. CASE UNCHANGED <<crs, objs>> /\ \E p \in SUBSET Providers : EditNetwork(p)
  BY <1>4 DEF EditNetwork, SyncListed
<1>5. CASE UNCHANGED <<crs, objs>> /\ \E n \in Names : GetMisnamed(n) \/ GetMetalLB(n)
  BY <1>5 DEF GetMisnamed, GetMetalLB, SyncListed
<1>6. CASE UNCHANGED objs /\ Return
  BY <1>6 DEF Return, SyncListed
<1>7. CASE CNOSupports \/ GetNetwork \/ UpdateNetwork \/ SkipInvalid
  BY <1>7 DEF CNOSupports, GetNetwork, UpdateNetwork, WriteNetwork, SkipInvalid, Goto, SyncListed
<1>8. CASE Render
  BY <1>8 DEF Render, SyncListed, Deployable
<1>9. CASE \E o \in Objects : DeleteObj(o) \/ ApplyObj(o)
  BY <1>9 DEF DeleteObj, ApplyObj, Apply, SyncListed
<1> QED
  BY <1>1, <1>2, <1>3, <1>4, <1>5, <1>6, <1>7, <1>8, <1>9, ReconcileSteps

-----------------------------------------------------------------------------
Stored == crs[defaultMetalLBCrName]

(***************************************************************************)
(* Deployed says the same of both specifications.                          *)
(***************************************************************************)
LEMMA SameDeployed == \A s : Deployed(s) => Desired!Deployed(s)
<1> SUFFICES ASSUME NEW s, Deployed(s) PROVE Desired!Deployed(s)
  OBVIOUS
<1>1. \A o \in toDelFor(s) \ objsFor(s) : objs[o] = None
  BY RenderedObjects DEF Deployed
<1>2. \A o \in objsFor(s) : Desired!InPlace(o, s)
  BY DEF Deployed, Matches, Desired!InPlace, Desired!Owner
<1> QED BY <1>1, <1>2 DEF Desired!Deployed, Desired!Tidy

(***************************************************************************)
(* The steps of users and of the garbage collector.                        *)
(***************************************************************************)
LEMMA UsersRefine ==
    ASSUME TypeOK, MisnamedInert, NEW n \in Names,
           DeleteCR(n) \/ \E s \in Specs : CreateCR(n, s) \/ EditCR(n, s)
    PROVE  Desired!Next \/ UNCHANGED Desired!vars
<1>0. defaultMetalLBCrName \in Names /\ n \notin {"gone", "none"}
  BY ConstantsAssumption
<1>1. CASE n = defaultMetalLBCrName /\ DeleteCR(n)
  <2>1. Stored # None /\ Stored' = None
    BY <1>0, <1>1 DEF DeleteCR, Stored, TypeOK
  <2>2. Desired!Delete
    BY <1>1, <2>1 DEF DeleteCR, Desired!Delete, Stored
  <2> QED BY <2>2 DEF Desired!Next
<1>2. CASE n # defaultMetalLBCrName /\ DeleteCR(n)
  <2>1. Stored' = Stored
    BY <1>0, <1>2 DEF DeleteCR, Stored, TypeOK
  <2>2. \A o \in Objects : ~(objs[o] # None /\ objs[o].owner = n)
    BY <1>0, <1>2 DEF MisnamedInert
  <2>3. objs' = [o \in Objects |-> objs[o]]
    BY <1>2, <2>2 DEF DeleteCR
  <2>4. objs' = objs
    BY <2>3 DEF TypeOK
  <2> QED BY <2>1, <2>4 DEF Desired!vars, Stored
<1>3. CASE \E s \in Specs : CreateCR(n, s)
  <2>1. PICK s \in Specs : CreateCR(n, s)
    BY <1>3
  <2>2. CASE n = defaultMetalLBCrName
    <3>1. Stored = None /\ Stored' = [spec |-> s, cond |-> "none"] /\ UNCHANGED objs
      BY <1>0, <2>1, <2>2 DEF CreateCR, Stored, TypeOK
    <3>2. Desired!Create(s)
      BY <3>1 DEF Desired!Create, Stored
    <3> QED BY <3>2 DEF Desired!Next
  <2>3. CASE n # defaultMetalLBCrName
    <3>1. UNCHANGED <<Stored, objs>>
      BY <1>0, <2>1, <2>3 DEF CreateCR, Stored, TypeOK
    <3> QED BY <3>1 DEF Desired!vars, Stored
  <2> QED BY <2>2, <2>3
<1>4. CASE \E s \in Specs : EditCR(n, s)
  <2>1. PICK s \in Specs : EditCR(n, s)
    BY <1>4
  <2>2. CASE n = defaultMetalLBCrName
    <3>1. Stored # None /\ Stored' = [Stored EXCEPT !.spec = s] /\ UNCHANGED objs
      BY <1>0, <2>1, <2>2 DEF EditCR, Stored, TypeOK
    <3>2. Desired!Edit(s)
      BY <3>1 DEF Desired!Edit, Stored
    <3> QED BY <3>2 DEF Desired!Next
  <2>3. CASE n # defaultMetalLBCrName
    <3>1. UNCHANGED <<Stored, objs>>
      BY <1>0, <2>1, <2>3 DEF EditCR, Stored, TypeOK
    <3> QED BY <3>1 DEF Desired!vars, Stored
  <2> QED BY <2>2, <2>3
<1> QED BY <1>1, <1>2, <1>3, <1>4

(***************************************************************************)
(* What Kubernetes collects is what DesiredState lets it collect.          *)
(***************************************************************************)
LEMMA CollectRefines == ASSUME TypeOK, CollectGarbage PROVE Desired!Collect
<1>1. objs' = [o \in Objects |-> IF objs[o] # None /\ objs[o].owner = "gone" /\ ~ClusterScoped(o)
                                 THEN None ELSE objs[o]]
  BY DEF CollectGarbage, Garbage
<1> QED BY <1>1 DEF CollectGarbage, Desired!Collect

(***************************************************************************)
(* A deletion of the sync removes an object of the list.                   *)
(***************************************************************************)
LEMMA DeleteRefines ==
    ASSUME TypeOK, InHand, SyncListed, NEW o \in Objects, DeleteObj(o)
    PROVE  Desired!Next
<1>1. pc = "objects" /\ o \in toDel /\ objs' = [objs EXCEPT ![o] = None] /\ UNCHANGED crs
  BY DEF DeleteObj, Foremost
<1>2. inst.spec \in Specs
  BY <1>1 DEF InHand, Copy
<1>3. Desired!Remove(o, inst.spec)
  BY <1>1 DEF SyncListed, Desired!Remove
<1> QED BY <1>2, <1>3 DEF Desired!Next

(***************************************************************************)
(* Every object has a place in its list.                                   *)
(***************************************************************************)
LEMMA PlacesAreNumbers == \A S : \A o \in Objects : Place(o, S) \in Int
<1>1. \A o \in Objects : o.kind \in DOMAIN HelmKindOrder
  BY DEF Objects, FRRK8sObjects, Monitors, FRRK8sMonitors, Speaker, Controller, ExcludeL2, FRRStartup,
         NetworkPolicy, SpeakerSCC, FRRK8sDaemon, StatusCleaner, WebhookSecret, WebhookService,
         ValidatingWebhook, Obj, HelmKindOrder
<1>2. \A k \in DOMAIN HelmKindOrder : HelmKindOrder[k] \in Int
  BY DEF HelmKindOrder
<1> QED BY <1>1, <1>2 DEF Place

(***************************************************************************)
(* An application of the sync places an object in its turn, or litters for *)
(* a resource that is gone.                                                *)
(***************************************************************************)
LEMMA ApplyRefines ==
    ASSUME TypeOK, InHand, SyncProgress, SyncListed, NEW o \in Objects, ApplyObj(o)
    PROVE  Desired!Next
<1> DEFINE s == inst.spec
<1>1. /\ pc = "objects" /\ toDel = {} /\ o \in Foremost(toApply, MetalLBObjects(s)) /\ UNCHANGED crs
      /\ objs' = [objs EXCEPT ![o] = [content |-> Content(s, o), owner |-> OwnerOf(o)]]
  BY DEF ApplyObj, Apply
<1>2. inst \in Copy /\ s \in Specs /\ req = defaultMetalLBCrName
  BY <1>1 DEF InHand, Copy
<1>3. Deployable(s) /\ o \in objsFor(s)
  BY <1>1 DEF SyncListed, SyncProgress, Foremost
<1>4. CASE inst.tag = "gone"
  <2>1. OwnerOf(o) = Desired!Owner(o, FALSE)
    BY <1>4 DEF OwnerOf, Desired!Owner
  <2>2. Desired!PlaceOrphan(o, s)
    BY <1>1, <1>3, <2>1 DEF Desired!PlaceOrphan
  <2> QED BY <1>2, <2>2 DEF Desired!Next
<1>5. CASE inst.tag # "gone"
  <2>1. Stored # None
    BY <1>1, <1>2, <1>5, ConstantsAssumption DEF InHand, Faithful, Stored
  <2>2. OwnerOf(o) = Desired!Owner(o, TRUE)
    BY <1>2, <1>5 DEF OwnerOf, Desired!Owner
  <2>3. Desired!Tidy(s)
    BY <1>1, <1>5, RenderedObjects DEF SyncProgress, Removed, Desired!Tidy
  <2>4. ASSUME NEW p \in objsFor(s), PlacedBefore(p, o, s) PROVE Desired!InPlace(p, s)
    <3>1. p \notin toApply
      <4> SUFFICES ASSUME p \in toApply PROVE FALSE
        OBVIOUS
      <4>1. Place(o, MetalLBObjects(s)) <= Place(p, MetalLBObjects(s))
        BY <1>1 DEF Foremost
      <4>2. Place(o, MetalLBObjects(s)) \in Int /\ Place(p, MetalLBObjects(s)) \in Int
        BY <1>3, <2>4, RenderedObjects, PlacesAreNumbers
      <4> QED BY <2>4, <4>1, <4>2 DEF PlacedBefore
    <3>2. Matches(p, s)
      BY <1>1, <1>5, <3>1 DEF SyncProgress, InPlace
    <3> QED BY <3>2 DEF Matches, Desired!InPlace, Desired!Owner
  <2>5. Desired!Place(o, s)
    BY <1>1, <1>3, <2>1, <2>2, <2>3, <2>4 DEF Desired!Place, Stored
  <2> QED BY <1>2, <2>5 DEF Desired!Next
<1> QED BY <1>4, <1>5

(***************************************************************************)
(* A status write reports what DesiredState lets it report.                *)
(***************************************************************************)
LEMMA StatusRefines ==
    ASSUME TypeOK, InHand, Decided, SyncProgress, StatusWritten
    PROVE  Desired!Next \/ UNCHANGED Desired!vars
<1>1. /\ pc = "status" /\ Accepted /\ UNCHANGED objs
      /\ crs' = [crs EXCEPT ![req].cond = outcome.cond]
  BY DEF StatusWritten
<1>2. inst.tag = "current" /\ outcome.reason # "internal error" /\ inst \in Copy /\ req \in Names
  BY <1>1 DEF Accepted, ReasonAccepted, InHand
<1>3. CASE req # defaultMetalLBCrName
  <2>1. UNCHANGED Stored
    BY <1>1, <1>3, ConstantsAssumption DEF Stored, TypeOK
  <2> QED BY <1>1, <2>1 DEF Desired!vars, Stored
<1>4. CASE req = defaultMetalLBCrName
  <2>1. Stored # None /\ Stored.spec = inst.spec
    BY <1>1, <1>2, <1>4, ConstantsAssumption DEF InHand, Faithful, Stored
  <2>2. Stored' = [Stored EXCEPT !.cond = outcome.cond]
    BY <1>1, <1>4, ConstantsAssumption DEF Stored, TypeOK
  <2>3. outcome.cond \in {"Progressing", "Available"}
    BY <1>1, <1>2, <1>4 DEF Decided
  <2>4. outcome.cond = "Available" => Desired!Deployed(Stored.spec) \/ NeedsDefaultNS(Stored.spec)
    <3> SUFFICES ASSUME outcome.cond = "Available", ~NeedsDefaultNS(inst.spec)
                 PROVE  Desired!Deployed(inst.spec)
      BY <2>1
    <3>1. Reporting("Available")
      BY <1>1, <1>4 DEF Reporting
    <3>2. Deployed(inst.spec)
      BY <1>2, <3>1 DEF SyncProgress
    <3> QED BY <3>2, SameDeployed
  <2>5. Desired!Report(outcome.cond)
    BY <1>1, <2>1, <2>2, <2>4 DEF Desired!Report, Stored
  <2> QED BY <2>3, <2>5 DEF Desired!Next, Desired!Conditions
<1> QED BY <1>3, <1>4

-----------------------------------------------------------------------------
(***************************************************************************)
(* Every step of the reconciler and its surroundings is a step of          *)
(* DesiredState, or one it does not see.                                   *)
(***************************************************************************)
LEMMA StepRefines ==
    ASSUME IInv, SyncListed, [Next]_vars
    PROVE  [Desired!Next]_Desired!vars
<1> USE DEF IInv
<1>1. CASE UNCHANGED <<crs, objs>>
  BY <1>1 DEF Desired!vars
<1>2. CASE CollectGarbage
  BY <1>2, CollectRefines DEF Desired!Next
<1>3. CASE \E n \in Names : DeleteCR(n) \/ \E s \in Specs : CreateCR(n, s) \/ EditCR(n, s)
  BY <1>3, UsersRefine
<1>4. CASE \E o \in Objects : DeleteObj(o) \/ ApplyObj(o)
  BY <1>4, DeleteRefines, ApplyRefines
<1>5. CASE StatusWritten
  BY <1>5, StatusRefines
<1> QED BY <1>1, <1>2, <1>3, <1>4, <1>5, ClusterSteps

(***************************************************************************)
(* The reconciler implements DesiredState.                                 *)
(***************************************************************************)
THEOREM Implements == Spec => ImplementsDesiredState
<1>1. Init => Desired!Init /\ SyncListed
  BY ConstantsAssumption DEF Init, Desired!Init, SyncListed
<1>2. IInv /\ SyncListed /\ [Next]_vars => SyncListed'
  BY NextSyncListed DEF IInv
<1>3. IInv /\ SyncListed /\ [Next]_vars => [Desired!Next]_Desired!vars
  BY StepRefines
<1> QED BY <1>1, <1>2, <1>3, Inductive, PTL DEF Spec, ImplementsDesiredState, Desired!Spec
=============================================================================
