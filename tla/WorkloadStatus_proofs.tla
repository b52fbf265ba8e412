------------------------ MODULE WorkloadStatus_proofs ------------------------
(***************************************************************************)
(* Proofs about WorkloadStatus, for every finite set of nodes and every    *)
(* number of specs and failures.                                           *)
(***************************************************************************)
EXTENDS WorkloadStatus, FiniteSetTheorems, TLAPS

-----------------------------------------------------------------------------
(***************************************************************************)
(* The counts of a status are numbers.                                     *)
(***************************************************************************)
LEMMA NodeCounts ==
    ASSUME NEW S, S \subseteq Nodes
    PROVE  IsFiniteSet(S) /\ Cardinality(S) \in Nat
  BY FS_Subset, FS_CardinalityType, StatusAssumption

(***************************************************************************)
(* Controller pods come from a finite set, so there are finitely many.     *)
(***************************************************************************)
LEMMA PodCounts ==
    ASSUME NEW S, S \subseteq Pod
    PROVE  IsFiniteSet(S) /\ Cardinality(S) \in Nat
<1> DEFINE Pairs == (0 .. MaxGen) \X {TRUE, FALSE}
           F     == [q \in Pairs |-> [gen |-> q[1], ready |-> q[2]]]
<1>1. IsFiniteSet(Pairs)
  <2>1. IsFiniteSet(0 .. MaxGen)
    BY FS_Interval, StatusAssumption
  <2>2. IsFiniteSet({TRUE, FALSE})
    <3>1. IsFiniteSet({TRUE})
      BY FS_Singleton
    <3>2. IsFiniteSet({TRUE} \cup {FALSE})
      BY <3>1, FS_AddElement
    <3>3. {TRUE} \cup {FALSE} = {TRUE, FALSE}
      OBVIOUS
    <3> QED BY <3>2, <3>3
  <2> QED BY <2>1, <2>2, FS_Product
<1>2. F \in [Pairs -> Pod]
  BY DEF Pod
<1>3. \A p \in Pod : \E q \in Pairs : F[q] = p
  <2> SUFFICES ASSUME NEW p \in Pod
               PROVE  \E q \in Pairs : F[q] = p
    OBVIOUS
  <2>1. <<p.gen, p.ready>> \in Pairs /\ p = [gen |-> p.gen, ready |-> p.ready]
    BY DEF Pod
  <2>2. F[<<p.gen, p.ready>>] = p
    BY <2>1
  <2> QED BY <2>1, <2>2
<1>4. F \in Surjection(Pairs, Pod)
  BY <1>2, <1>3 DEF Surjection
<1>5. IsFiniteSet(Pod)
  BY <1>1, <1>4, FS_Surjection
<1> QED BY <1>5, FS_Subset, FS_CardinalityType

(***************************************************************************)
(* The variables keep their types.                                         *)
(***************************************************************************)
LEMMA TypeInit == Init => TypeOK
<1> SUFFICES ASSUME Init PROVE TypeOK
  OBVIOUS
<1>1. NoPod \in Pod /\ 0 \in 0 .. MaxGen /\ 0 \in 0 .. MaxChurn
  BY StatusAssumption DEF NoPod, Pod
<1>2. nodes \in SUBSET Nodes /\ pods \in [Nodes -> Pod] /\ ctrlPods \in SUBSET Pod
  BY <1>1 DEF Init
<1>3. /\ dsSeen \in [gen : 0 .. MaxGen, status : DSStatus]
      /\ deploySeen \in [gen : 0 .. MaxGen, status : DeployStatus]
  BY <1>1 DEF Init, DSStatus, DeployStatus
<1> QED BY <1>1, <1>2, <1>3 DEF Init, TypeOK

LEMMA NodesKeepTypes ==
    ASSUME TypeOK, NEW n \in Nodes,
           ReplacePod(n) \/ PodStarts(n) \/ PodFails(n) \/ NodeChanges(n)
    PROVE  TypeOK'
<1>1. nodes' \in SUBSET Nodes /\ churn' \in 0 .. MaxChurn
  BY StatusAssumption DEF TypeOK, ReplacePod, PodStarts, PodFails, NodeChanges, Disrupt
<1>2. /\ pods[n] \in Pod /\ New(gen) \in Pod /\ NoPod \in Pod
      /\ [pods[n] EXCEPT !.ready = TRUE] \in Pod /\ [pods[n] EXCEPT !.ready = FALSE] \in Pod
  <2>1. pods[n] \in Pod /\ gen \in 0 .. MaxGen /\ 0 \in 0 .. MaxGen
    BY StatusAssumption DEF TypeOK
  <2>2. [pods[n] EXCEPT !.ready = TRUE] \in Pod /\ [pods[n] EXCEPT !.ready = FALSE] \in Pod
    BY <2>1 DEF Pod
  <2> QED BY <2>1, <2>2 DEF Pod, New, NoPod
<1>3. \E p \in Pod : pods' = [pods EXCEPT ![n] = p]
  BY <1>2 DEF ReplacePod, PodStarts, PodFails, NodeChanges, SetPod
<1>4. pods' \in [Nodes -> Pod]
  BY <1>3 DEF TypeOK
<1> QED
  BY <1>1, <1>4
     DEF TypeOK, ReplacePod, PodStarts, PodFails, NodeChanges, Unmoved, copies, resource, operator

LEMMA ControllerKeepsTypes ==
    ASSUME TypeOK, ControllerPodsChange \/ ControllerPodFails
    PROVE  TypeOK'
<1>1. New(gen) \in Pod
  BY DEF TypeOK, Pod, New
<1>2. \A p \in ctrlPods : [p EXCEPT !.ready = TRUE] \in Pod /\ New(p.gen) \in Pod
  BY DEF TypeOK, Pod, New
<1>3. ctrlPods' \in SUBSET Pod
  <2>1. \A p \in ctrlPods : p \in Pod
    BY DEF TypeOK
  <2>2. CASE ControllerPodFails
    BY <1>2, <2>1, <2>2 DEF ControllerPodFails
  <2>3. CASE ControllerPodsChange
    BY <1>1, <1>2, <2>1, <2>3 DEF ControllerPodsChange
  <2> QED BY <2>2, <2>3
<1>4. churn' \in 0 .. MaxChurn
  BY StatusAssumption DEF TypeOK, ControllerPodsChange, ControllerPodFails, Disrupt
<1> QED
  BY <1>3, <1>4
     DEF TypeOK, ControllerPodsChange, ControllerPodFails, Unmoved, copies, resource, operator

LEMMA CopiesKeepTypes ==
    ASSUME TypeOK, SeeSpecs \/ SeeSpeaker \/ SeeController
    PROVE  TypeOK'
<1>1. CASE SeeSpecs
  BY <1>1 DEF TypeOK, SeeSpecs, StillSeen, kube, resource, operator
<1>2. CASE SeeSpeaker
  <2>1. /\ nodes \in SUBSET Nodes /\ UpToDate \subseteq Nodes /\ Ready \subseteq Nodes
        /\ {n \in nodes : pods[n].gen # 0} \subseteq Nodes
    BY DEF TypeOK, UpToDate, Ready
  <2>2. dsSeen' \in [gen : 0 .. MaxGen, status : DSStatus]
    BY <1>2, <2>1, NodeCounts DEF TypeOK, SeeSpeaker, DSStatus
  <2>3. rolledOut' \in SUBSET Gens
    BY <1>2 DEF TypeOK, SeeSpeaker, Gens
  <2> QED BY <1>2, <2>2, <2>3 DEF TypeOK, SeeSpeaker, StillSeen, kube, resource, operator
<1>3. CASE SeeController
  <2>1. /\ {p \in ctrlPods : p.gen = gen} \subseteq Pod
        /\ {p \in ctrlPods : p.ready} \subseteq Pod
    BY DEF TypeOK
  <2>2. deploySeen' \in [gen : 0 .. MaxGen, status : DeployStatus]
    BY <1>3, <2>1, PodCounts DEF TypeOK, SeeController, DeployStatus
  <2>3. served' \in SUBSET Gens
    BY <1>3 DEF TypeOK, SeeController, Gens
  <2> QED BY <1>3, <2>2, <2>3 DEF TypeOK, SeeController, StillSeen, kube, resource, operator
<1> QED BY <1>1, <1>2, <1>3

LEMMA OperatorKeepsTypes ==
    ASSUME TypeOK, Ask \/ Reconcile
    PROVE  TypeOK'
<1>1. CASE Ask
  BY <1>1, StatusAssumption DEF TypeOK, Ask, kube, copies
<1>2. CASE Sync
  BY <1>2 DEF TypeOK, Sync, kube, copies, resource
<1>3. CASE ReadSpeaker
  BY <1>3, StatusAssumption DEF TypeOK, ReadSpeaker, Retry, Return, Report, kube, copies, resource
<1>4. CASE ReadController
  BY <1>4, StatusAssumption DEF TypeOK, ReadController, Retry, Return, Report, kube, copies, resource
<1>5. CASE Update
  <2>1. outcome = "Available" \/ outcome = "Progressing"
    BY <1>5 DEF TypeOK, Update
  <2>2. stored' \in SUBSET {"Available", "Upgradeable", "Progressing"}
    BY <1>5, <2>1 DEF Update, getConditions
  <2>3. timer' \in BOOLEAN /\ event' \in BOOLEAN
    BY <1>5 DEF TypeOK, Update, Poll
  <2> QED BY <1>5, <2>2, <2>3, StatusAssumption DEF TypeOK, Update, getConditions, Poll, Return, kube, copies
<1>6. CASE UpdateConflicts
  BY <1>6, StatusAssumption DEF TypeOK, UpdateConflicts, Retry, Return, kube, copies, resource
<1> QED BY <1>1, <1>2, <1>3, <1>4, <1>5, <1>6 DEF Reconcile

LEMMA TypeStep == TypeOK /\ [Next]_vars => TypeOK'
<1> SUFFICES ASSUME TypeOK, [Next]_vars PROVE TypeOK'
  OBVIOUS
<1>1. CASE UNCHANGED vars
  BY <1>1 DEF TypeOK, vars, kube, copies, resource, operator
<1>2. CASE ControllerPodsChange \/ ControllerPodFails
  BY <1>2, ControllerKeepsTypes
<1>3. CASE \E n \in Nodes : ReplacePod(n) \/ PodStarts(n) \/ PodFails(n) \/ NodeChanges(n)
  BY <1>3, NodesKeepTypes
<1> QED BY <1>1, <1>2, <1>3, CopiesKeepTypes, OperatorKeepsTypes DEF Next

(***************************************************************************)
(* TypeOK holds of every behaviour: the counters, pods, copies and         *)
(* conditions stay in their sets.                                          *)
(***************************************************************************)
THEOREM StatusTypeCorrect == Spec => []TypeOK
BY TypeInit, TypeStep, PTL DEF Spec

-----------------------------------------------------------------------------
(***************************************************************************)
(* Two subsets of a finite set that both have as many elements as the set  *)
(* are the set itself: equal counts of updated and of ready pods mean the  *)
(* pods are the same ones.                                                 *)
(***************************************************************************)
LEMMA FullCounts ==
    ASSUME NEW S, NEW A, NEW B, IsFiniteSet(S), A \subseteq S, B \subseteq S,
           Cardinality(S) = Cardinality(A), Cardinality(S) = Cardinality(B)
    PROVE  S \subseteq A \cap B
<1>1. S = A
  BY FS_Subset
<1>2. S = B
  BY FS_Subset
<1> QED BY <1>1, <1>2

(***************************************************************************)
(* What the statuses in the copies say of the past, whatever generation    *)
(* the copies have: VerdictSound without the comparison of generations.    *)
(***************************************************************************)
CountsSound ==
    /\ LET st == dsSeen.status IN
       st.observed # 0 /\ st.desired = st.ready /\ st.desired = st.updated
           => st.observed \in rolledOut
    /\ LET st == deploySeen.status IN
       st.observed # 0 /\ st.ready = replicas /\ st.updated = replicas
           => st.observed \in served

LEMMA CountsStep == TypeOK /\ CountsSound /\ [Next]_vars => CountsSound'
<1> SUFFICES ASSUME TypeOK, CountsSound, [Next]_vars PROVE CountsSound'
  OBVIOUS
<1>1. CASE SeeSpeaker
  <2>1. IsFiniteSet(nodes)
    BY NodeCounts DEF TypeOK
  <2>2. UpToDate \subseteq nodes /\ Ready \subseteq nodes
    BY DEF UpToDate, Ready
  <2>3. /\ Cardinality(nodes) = Cardinality(Ready) /\ Cardinality(nodes) = Cardinality(UpToDate)
           => nodes \subseteq UpToDate \cap Ready
    BY <2>1, <2>2, FullCounts
  <2>4. /\ dsSeen'.status.desired = Cardinality(nodes)
        /\ dsSeen'.status.ready = Cardinality(Ready)
        /\ dsSeen'.status.updated = Cardinality(UpToDate)
        /\ dsSeen'.status.observed = gen
    BY <1>1 DEF SeeSpeaker
  <2>5. nodes \subseteq UpToDate \cap Ready => gen \in rolledOut'
    BY <1>1 DEF SeeSpeaker
  <2>6. UNCHANGED <<deploySeen, served>>
    BY <1>1 DEF SeeSpeaker
  <2> QED BY <2>3, <2>4, <2>5, <2>6 DEF CountsSound
<1>2. CASE SeeController
  <2> DEFINE updated == {p \in ctrlPods : p.gen = gen}
             serving == {p \in ctrlPods : p.ready}
  <2>1. Cardinality({}) = 0
    BY FS_EmptySet
  <2>2. /\ deploySeen'.status.updated = Cardinality(updated)
        /\ deploySeen'.status.ready = Cardinality(serving)
        /\ deploySeen'.status.observed = gen
    BY <1>2 DEF SeeController
  <2>3. updated # {} /\ serving # {} => gen \in served'
    BY <1>2 DEF SeeController
  <2>4. UNCHANGED <<dsSeen, rolledOut>>
    BY <1>2 DEF SeeController
  <2> HIDE DEF updated, serving
  <2> QED BY <2>1, <2>2, <2>3, <2>4 DEF CountsSound, replicas
<1>3. CASE SeeSpecs
  <2>1. dsSeen'.status = dsSeen.status /\ deploySeen'.status = deploySeen.status
    BY <1>3 DEF SeeSpecs, TypeOK
  <2>2. UNCHANGED <<rolledOut, served>>
    BY <1>3 DEF SeeSpecs
  <2> QED BY <2>1, <2>2 DEF CountsSound
<1>4. CASE UNCHANGED copies
  BY <1>4 DEF CountsSound, copies
<1>5. CASE UNCHANGED vars
  BY <1>4, <1>5 DEF vars
<1>6. CASE Ask \/ Reconcile
  BY <1>4, <1>6 DEF Ask, Reconcile, Sync, ReadSpeaker, ReadController, Update, UpdateConflicts
<1>7. CASE \E n \in Nodes : ReplacePod(n) \/ PodStarts(n) \/ PodFails(n) \/ NodeChanges(n)
  BY <1>4, <1>7 DEF ReplacePod, PodStarts, PodFails, NodeChanges, Unmoved
<1>8. CASE ControllerPodsChange \/ ControllerPodFails
  BY <1>4, <1>8 DEF ControllerPodsChange, ControllerPodFails, Unmoved
<1> QED BY <1>1, <1>2, <1>3, <1>5, <1>6, <1>7, <1>8 DEF Next

(***************************************************************************)
(* A verdict "ready" on a copy of the DaemonSet, however old, means that   *)
(* every selected node once ran a ready pod of the copy's generation; on   *)
(* a copy of the Deployment, that its generation had a pod while one was   *)
(* serving.  For any number of nodes, specs and failures.                  *)
(***************************************************************************)
THEOREM VerdictsAreSound == Spec => []VerdictSound
<1>1. Init => CountsSound
  BY DEF Init, CountsSound
<1>2. CountsSound => VerdictSound
  BY DEF CountsSound, VerdictSound, isDaemonSetReady, isDeploymentReady
<1> QED BY <1>1, <1>2, CountsStep, StatusTypeCorrect, PTL DEF Spec

-----------------------------------------------------------------------------
(***************************************************************************)
(* RestsOnAvailable, and that a reconcile under way works on the spec it   *)
(* brought the workloads to.                                               *)
(***************************************************************************)
RestInv == RestsOnAvailable /\ (pc # "idle" => gen = inst)

LEMMA RestStep == TypeOK /\ RestInv /\ [Next]_vars => RestInv'
<1> SUFFICES ASSUME TypeOK, RestInv, [Next]_vars PROVE RestInv'
  OBVIOUS
<1> USE DEF RestInv, RestsOnAvailable, Resting
<1>1. CASE UNCHANGED <<resource, operator, gen>>
  BY <1>1 DEF resource, operator
<1>2. CASE UNCHANGED vars
  BY <1>1, <1>2 DEF vars
<1>3. CASE SeeSpecs \/ SeeSpeaker \/ SeeController
  BY <1>1, <1>3 DEF SeeSpecs, SeeSpeaker, SeeController, StillSeen
<1>4. CASE \E n \in Nodes : ReplacePod(n) \/ PodStarts(n) \/ PodFails(n) \/ NodeChanges(n)
  BY <1>1, <1>4 DEF ReplacePod, PodStarts, PodFails, NodeChanges, Unmoved
<1>5. CASE ControllerPodsChange \/ ControllerPodFails
  BY <1>1, <1>5 DEF ControllerPodsChange, ControllerPodFails, Unmoved
<1>6. CASE Ask
  BY <1>6 DEF Ask
<1>7. CASE Sync
  BY <1>7 DEF Sync
<1>8. CASE ReadSpeaker
  BY <1>8 DEF ReadSpeaker, Retry, Return, Report, resource
<1>9. CASE ReadController
  BY <1>9 DEF ReadController, Retry, Return, Report, resource
<1>10. CASE Update
  <2>1. outcome = "Available" \/ outcome = "Progressing"
    BY <1>10 DEF TypeOK, Update
  <2>2. CASE outcome = "Progressing"
    BY <1>10, <2>2 DEF Update, Poll, Return
  <2>3. CASE outcome = "Available"
    BY <1>10, <2>3 DEF Update, getConditions, Return
  <2> QED BY <2>1, <2>2, <2>3
<1>11. CASE UpdateConflicts
  BY <1>11 DEF UpdateConflicts, Retry, Return
<1> QED
  BY <1>2, <1>3, <1>4, <1>5, <1>6, <1>7, <1>8, <1>9, <1>10, <1>11 DEF Next, Reconcile

(***************************************************************************)
(* The operator comes to rest only with Available reported and the last    *)
(* spec applied: neither a dropped write nor a conflict loses the poll     *)
(* that replaces the missing watch on the workloads.                       *)
(***************************************************************************)
THEOREM RestIsAvailable == Spec => []RestsOnAvailable
<1>1. Init => RestInv
  BY DEF Init, RestInv, RestsOnAvailable
<1>2. RestInv => RestsOnAvailable
  BY DEF RestInv
<1> QED BY <1>1, <1>2, RestStep, StatusTypeCorrect, PTL DEF Spec

-----------------------------------------------------------------------------
(***************************************************************************)
(* A status counted while everything runs is judged ready.                 *)
(***************************************************************************)
LEMMA SpeakerJudgedReady ==
    ASSUME TypeOK, wanted # 0, RolledOut, Reported, SeeSpeaker
    PROVE  dsSeen'.gen = wanted /\ isDaemonSetReady(dsSeen')
<1>1. /\ nodes = UpToDate /\ nodes = Ready
      /\ nodes = {n \in nodes : pods[n].gen # 0}
  BY DEF RolledOut, Reported, UpToDate, Ready
<1>2. /\ dsSeen'.gen = gen /\ dsSeen'.status.observed = gen
      /\ dsSeen'.status.desired = Cardinality(nodes)
      /\ dsSeen'.status.current = Cardinality({n \in nodes : pods[n].gen # 0})
      /\ dsSeen'.status.updated = Cardinality(UpToDate)
      /\ dsSeen'.status.ready = Cardinality(Ready)
  BY DEF SeeSpeaker
<1> QED BY <1>1, <1>2 DEF Reported, isDaemonSetReady

LEMMA ControllerJudgedReady ==
    ASSUME RolledOut, Reported, SeeController
    PROVE  deploySeen'.gen = wanted /\ isDeploymentReady(deploySeen')
<1> DEFINE pod     == [gen |-> wanted, ready |-> TRUE]
           updated == {p \in ctrlPods : p.gen = gen}
           serving == {p \in ctrlPods : p.ready}
<1>1. updated = {pod} /\ serving = {pod}
  BY DEF RolledOut, Reported
<1>2. Cardinality({pod}) = 1
  BY FS_Singleton
<1>3. /\ deploySeen'.gen = gen /\ deploySeen'.status.observed = gen
      /\ deploySeen'.status.updated = Cardinality(updated)
      /\ deploySeen'.status.ready = Cardinality(serving)
  BY DEF SeeController
<1> HIDE DEF updated, serving, pod
<1> QED BY <1>1, <1>2, <1>3 DEF Reported, isDeploymentReady, replicas

(***************************************************************************)
(* Neither Kubernetes nor the operator moves anything that is in place and *)
(* reported.                                                               *)
(***************************************************************************)
LEMMA ReportedStep ==
    ASSUME TypeOK, [Next]_vars, wanted # 0, RolledOut, Reported, UNCHANGED <<wanted, churn>>
    PROVE  (RolledOut /\ Reported)'
<1>1. gen = wanted /\ churn \in Nat
  BY StatusAssumption DEF TypeOK, Reported
<1>2. CASE \E n \in Nodes : ReplacePod(n) \/ PodStarts(n) \/ PodFails(n) \/ NodeChanges(n)
  <2> PICK n \in Nodes : ReplacePod(n) \/ PodStarts(n) \/ PodFails(n) \/ NodeChanges(n)
    BY <1>2
  <2>1. ~PodFails(n) /\ ~NodeChanges(n)
    BY <1>1 DEF PodFails, NodeChanges, Disrupt
  <2>2. ~ReplacePod(n)
    BY <1>1 DEF ReplacePod, RolledOut, TypeOK
  <2>3. PodStarts(n) /\ n \notin nodes
    BY <2>1, <2>2 DEF PodStarts, RolledOut
  <2>4. UNCHANGED <<nodes, ctrlPods>> /\ \A m \in nodes : pods'[m] = pods[m]
    BY <2>3 DEF PodStarts, SetPod, TypeOK
  <2>5. UNCHANGED <<copies, resource, operator, gen>>
    BY <2>3 DEF PodStarts, Unmoved
  <2> QED BY <2>4, <2>5 DEF RolledOut, Reported, copies, resource, operator
<1>3. CASE ControllerPodsChange \/ ControllerPodFails
  <2>1. \A p \in ctrlPods : p.gen = gen /\ p.ready /\ ctrlPods # {}
    BY <1>1 DEF RolledOut
  <2>2. ~ControllerPodFails
    BY <1>1 DEF ControllerPodFails, Disrupt
  <2>3. ~ControllerPodsChange
    BY <1>1, <2>1 DEF ControllerPodsChange, RolledOut
  <2> QED BY <1>3, <2>2, <2>3
<1>4. CASE SeeSpecs \/ SeeSpeaker \/ SeeController
  <2>1. RolledOut' /\ UNCHANGED <<stored, gen, wanted, outcome>>
    BY <1>4 DEF SeeSpecs, SeeSpeaker, SeeController, StillSeen, kube, resource, operator, RolledOut
  <2>2. dsSeen'.gen = wanted /\ isDaemonSetReady(dsSeen')
    <3>1. CASE SeeSpecs
      BY <1>1, <3>1 DEF SeeSpecs, Reported, TypeOK, isDaemonSetReady
    <3> QED BY <1>4, <3>1, SpeakerJudgedReady DEF SeeController, Reported
  <2>3. deploySeen'.gen = wanted /\ isDeploymentReady(deploySeen')
    <3>1. CASE SeeSpecs
      BY <1>1, <3>1 DEF SeeSpecs, Reported, TypeOK, isDeploymentReady
    <3> QED BY <1>4, <3>1, ControllerJudgedReady DEF SeeSpeaker, Reported
  <2> QED BY <2>1, <2>2, <2>3 DEF Reported, isDaemonSetReady, isDeploymentReady
<1>5. CASE Sync
  BY <1>5 DEF Sync, kube, copies, resource, RolledOut, Reported
<1>6. CASE ReadSpeaker
  BY <1>6 DEF ReadSpeaker, Retry, Return, kube, copies, resource, RolledOut, Reported
<1>7. CASE ReadController
  BY <1>7 DEF ReadController, Retry, Return, Report, kube, copies, resource, RolledOut, Reported
<1>8. CASE Update
  <2>1. outcome = "Available"
    BY <1>8 DEF Update, TypeOK, Reported
  <2> QED
    BY <1>8, <2>1 DEF Update, getConditions, Return, kube, copies, RolledOut, Reported
<1>9. CASE UpdateConflicts
  BY <1>9 DEF UpdateConflicts, Retry, Return, kube, copies, resource, RolledOut, Reported
<1>10. CASE UNCHANGED vars
  BY <1>10 DEF vars, kube, copies, resource, operator, RolledOut, Reported
<1>11. ~Ask
  BY DEF Ask, TypeOK
<1> QED
  BY <1>2, <1>3, <1>4, <1>5, <1>6, <1>7, <1>8, <1>9, <1>10, <1>11 DEF Next, Reconcile

(***************************************************************************)
(* Workloads that are rolled out and reported available stay so until the  *)
(* user or a failure intervenes: for any number of nodes, statuses read    *)
(* and reconciles started by the operator's own writes.                    *)
(***************************************************************************)
THEOREM ReportStays == Spec => StaysReported
<1>1. TypeOK /\ [Next]_vars =>
        [wanted # 0 /\ RolledOut /\ Reported /\ UNCHANGED <<wanted, churn>>
            => (RolledOut /\ Reported)']_vars
  BY ReportedStep
<1> QED BY <1>1, StatusTypeCorrect, PTL DEF Spec, StaysReported
=============================================================================
