----------------------- MODULE OperatorStartup_proofs -----------------------
(***************************************************************************)
(* Theorems about the operator's start-up, for all clusters, environments, *)
(* profiles and numbers of pods.                                           *)
(***************************************************************************)
EXTENDS OperatorStartup, StartupInputs_proofs

-----------------------------------------------------------------------------
(***************************************************************************)
(* Types.                                                                  *)
(***************************************************************************)

\* main only goes from one of its steps to another.
LEMMA FollowingType ==
    ASSUME NEW step \in StepNames \ {"down", "running"}
    PROVE  Following(step) \in StepNames
  BY DEF Following, StepNames

LEMMA AdvanceType ==
    ASSUME TypeOK, NEW p \in Procs, pc[p] \notin {"down", "running"}, Advance(p)
    PROVE  pc' \in [Procs -> StepNames]
<1>1. pc \in [Procs -> StepNames] /\ pc[p] \in StepNames \ {"down", "running"}
  BY DEF TypeOK
<1>2. Following(pc[p]) \in StepNames
  BY <1>1, FollowingType
<1> QED
  BY <1>1, <1>2 DEF Advance

LEMMA ExitType ==
    ASSUME TypeOK, NEW p \in Procs, Exit(p)
    PROVE  /\ pc' \in [Procs -> StepNames]
           /\ fetched' \in [Procs -> [profile : Profiles \cup {None}, policy : Policies \cup {None}]]
           /\ webhook' \in SUBSET Procs
           /\ listed' \in [Procs -> SUBSET Slots] /\ vanished' \in [Procs -> BOOLEAN]
           /\ leader' \in Procs \cup {None}
  BY DEF TypeOK, Exit, Nothing, StepNames

LEMMA TypeInit == Init => TypeOK
  BY StartupAssumption DEF Init, TypeOK, Nothing, StepNames, APIServers

LEMMA TypeStep == TypeOK /\ [Next]_vars => TypeOK'
<1> SUFFICES ASSUME TypeOK, [Next]_vars PROVE TypeOK'
  OBVIOUS
<1>1. ASSUME NEW p \in Procs, Start(p) PROVE TypeOK'
  BY <1>1 DEF Start, At, TypeOK, cluster, StepNames
<1>2. ASSUME NEW p \in Procs,
             GetPlatformInfo(p) \/ syncTLSConfigMap(p) \/ StartManager(p) \/ AllDeleted(p)
      PROVE  TypeOK'
  <2>1. pc' \in [Procs -> StepNames]
    BY <1>2, AdvanceType DEF GetPlatformInfo, syncTLSConfigMap, StartManager, AllDeleted, At
  <2> QED
    BY <1>2, <2>1 DEF GetPlatformInfo, syncTLSConfigMap, StartManager, AllDeleted, TypeOK, cluster
<1>3. ASSUME NEW p \in Procs, ReadEnvironment(p) \/ ParseTLS(p) PROVE TypeOK'
  <2>1. CASE Exit(p)
    BY <1>3, <2>1, ExitType DEF ReadEnvironment, ParseTLS, TypeOK, cluster
  <2>2. CASE Advance(p) /\ UNCHANGED <<leader, fetched, webhook, listed, vanished>>
    <3>1. pc' \in [Procs -> StepNames]
      BY <1>3, <2>2, AdvanceType DEF ReadEnvironment, ParseTLS, At
    <3> QED
      BY <1>3, <2>2, <3>1 DEF ReadEnvironment, ParseTLS, TypeOK, cluster
  <2> QED
    BY <1>3, <2>1, <2>2 DEF ReadEnvironment, ParseTLS
<1>4. ASSUME NEW p \in Procs, FetchProfile(p) \/ FetchPolicy(p) PROVE TypeOK'
  <2>1. pc' \in [Procs -> StepNames]
    BY <1>4, AdvanceType DEF FetchProfile, FetchPolicy, At
  <2>2. apiServer.profile \in Profiles /\ apiServer.policy \in Policies
    BY DEF TypeOK, APIServers
  <2>3. fetched' \in [Procs -> [profile : Profiles \cup {None}, policy : Policies \cup {None}]]
    BY <1>4, <2>2 DEF FetchProfile, FetchPolicy, TypeOK
  <2> QED
    BY <1>4, <2>1, <2>3 DEF FetchProfile, FetchPolicy, TypeOK, cluster
<1>5. ASSUME NEW p \in Procs, ListPods(p) PROVE TypeOK'
  <2>1. pc' \in [Procs -> StepNames]
    BY <1>5, AdvanceType DEF ListPods, At
  <2> QED
    BY <1>5, <2>1 DEF ListPods, TypeOK, cluster
<1>6. ASSUME NEW p \in Procs, NEW s \in Slots, DeletePod(p, s) PROVE TypeOK'
  BY <1>6 DEF DeletePod, TakeAway, Missed, TypeOK, cluster
<1>7. ASSUME NEW p \in Procs, DeleteVanished(p) \/ ProfileChanged(p) PROVE TypeOK'
  BY <1>7, ExitType DEF DeleteVanished, ProfileChanged, TypeOK, cluster
<1>8. ASSUME NEW p \in Procs, SetupWebhook(p) \/ AcquireLease(p) PROVE TypeOK'
  BY <1>8 DEF SetupWebhook, AcquireLease, TypeOK, cluster, process
<1>9. ASSUME NEW p \in Procs, CallFails(p) PROVE TypeOK'
  BY <1>9, ExitType, StartupAssumption DEF CallFails, Disrupt, TypeOK, cluster
<1>10. ASSUME NEW a \in APIServers, ChangeAPIServer(a) PROVE TypeOK'
  BY <1>10, StartupAssumption DEF ChangeAPIServer, Disrupt, TypeOK, process
<1>11. ASSUME NEW s \in Slots, StartPod(s) \/ RestartContainer(s) PROVE TypeOK'
  BY <1>11, StartupAssumption DEF StartPod, RestartContainer, Disrupt, TypeOK, cluster, process
<1>12. ASSUME NEW s \in Slots, LosePod(s) PROVE TypeOK'
  BY <1>12, StartupAssumption DEF LosePod, TakeAway, Missed, Disrupt, TypeOK, cluster
<1>13. CASE UNCHANGED vars
  BY <1>13 DEF vars, cluster, process, TypeOK
<1> QED
  BY <1>1, <1>2, <1>3, <1>4, <1>5, <1>6, <1>7, <1>8, <1>9, <1>10, <1>11, <1>12, <1>13
  DEF Next, Step

(***************************************************************************)
(* Type correctness.                                                       *)
(***************************************************************************)
THEOREM StartupTypeCorrect == Spec => []TypeOK
<1>1. Init => TypeOK
  BY TypeInit
<1>2. TypeOK /\ [Next]_vars => TypeOK'
  BY TypeStep
<1> QED
  BY <1>1, <1>2, PTL DEF Spec

-----------------------------------------------------------------------------
(***************************************************************************)
(* What is read from the environment, for every text and every version.    *)
(***************************************************************************)
LEMMA Environment ==
    ASSUME FromEnvironment(env) # Refused
    PROVE  /\ validateEnv(env)
           /\ FromEnvironment(env).minimum = Getenv(env, "CNO_MIN_FRRK8S_VERSION")
           /\ \A i \in Images \cap DOMAIN env :
                 FromEnvironment(env).images[i] = getImageNameTag(env[i])
  BY DEF FromEnvironment

\* The default tag is ":" and one more word.
LEMMA DefaultTag == <<":">> \o <<"default">> = <<":", "default">>
<1>1. ASSUME NEW a, NEW b PROVE <<a>> \o <<b>> = <<a, b>>
  <2>1. <<a>> \in Seq({a, b}) /\ <<b>> \in Seq({a, b}) /\ <<a, b>> \in Seq({a, b})
        /\ Len(<<a>>) = 1 /\ Len(<<b>>) = 1 /\ Len(<<a, b>>) = 2
    OBVIOUS
  <2> DEFINE ab == <<a>> \o <<b>>
  <2>2. ab \in Seq({a, b}) /\ Len(ab) = 2
        /\ \A i \in 1 .. 2 : ab[i] = IF i <= 1 THEN <<a>>[i] ELSE <<b>>[i - 1]
    BY <2>1, ConcatProperties
  <2>3. \A i \in 1 .. Len(ab) : ab[i] = <<a, b>>[i]
    BY <2>2
  <2> HIDE DEF ab
  <2>4. ab = <<a, b>>
    BY <2>1, <2>2, <2>3, SeqEqual
  <2> QED
    BY <2>4 DEF ab
<1> QED
  BY <1>1

(***************************************************************************)
(* No reference of the shape registries use is changed on its way from the *)
(* environment into a chart.                                               *)
(***************************************************************************)
THEOREM ReferencesKept == Spec => []ImagesKept
<1>1. TypeOK => ImagesKept
  <2> SUFFICES ASSUME TypeOK, FromEnvironment(env) # Refused,
                      NEW i \in Images \cap DOMAIN env,
                      NEW b \in 0 .. Len(env[i]), NEW n \in b .. Len(env[i]),
                      Reference(env[i], b, n)
               PROVE  Rendered(getImageNameTag(env[i]), <<"default">>)
                          = env[i] \o (IF n = Len(env[i]) THEN <<":", "default">> ELSE <<>>)
    BY Environment DEF ImagesKept
  <2> DEFINE Words == STRING \cup {":", "default"}
  <2>1. env[i] \in Seq(STRING)
    BY TextsAssumption DEF TypeOK
  <2>2. env[i] \in Seq(Words) /\ <<"default">> \in Seq(Words) /\ ":" \in Words
    BY <2>1
  <2>3. Rendered(getImageNameTag(env[i]), <<"default">>)
            = env[i] \o (IF n = Len(env[i]) THEN <<":">> \o <<"default">> ELSE <<>>)
    <3> HIDE DEF Words
    <3> QED
      BY <2>2, ReferenceKept
  <2> QED
    BY <2>3, DefaultTag
<1> QED
  BY <1>1, StartupTypeCorrect, PTL

(***************************************************************************)
(* With a minimum that ends in "-0" releases alone decide, for every list  *)
(* of versions the network operator may report.                            *)
(***************************************************************************)
THEOREM BuildsCount == Spec => []EveryBuildCounts
<1>1. TypeOK => EveryBuildCounts
  <2> DEFINE minimum   == FromEnvironment(env).minimum
             dash_zero == <<0>>
  <2> SUFFICES ASSUME TypeOK, FromEnvironment(env) # Refused,
                      "CNO_MIN_FRRK8S_VERSION" \in DOMAIN env, minimum.pre = dash_zero,
                      NEW r \in Reports, NEW i \in DOMAIN r,
                      r[i].name = "operator", r[i].version # Garbage,
                      \A j \in 1 .. i - 1 : r[j].name # "operator"
               PROVE  cnoSupportsFRRK8s(r, minimum) <=> r[i].version.release >= minimum.release
    BY DEF EveryBuildCounts
  <2>1. minimum \in Version
    <3>1. minimum = env["CNO_MIN_FRRK8S_VERSION"] /\ minimum # Garbage
      BY Environment DEF validateEnv, Getenv
    <3> QED
      BY <3>1, TextsAssumption DEF TypeOK
  <2> HIDE DEF minimum
  <2>2. r \in Seq([name : STRING, version : Version \cup {Garbage}])
    BY TextsAssumption
  <2>3. r[i].version \in Version
    <3>1. r[i] \in [name : STRING, version : Version \cup {Garbage}]
      BY <2>2, DOMAIN r = 1 .. Len(r), ElementOfSeq
    <3> QED
      BY <3>1
  <2>4. cnoSupportsFRRK8s(r, minimum) = ~LessThan(r[i].version, minimum)
    BY <2>2, FirstOperator
  <2>5. ~PreLess(r[i].version.pre, minimum.pre)
    BY <2>3, FirstBuild DEF Version
  <2>6. r[i].version.release \in Nat /\ minimum.release \in Nat
    BY <2>1, <2>3 DEF Version
  <2>7. LessThan(r[i].version, minimum) <=> r[i].version.release < minimum.release
    BY <2>5 DEF LessThan
  <2>8. r[i].version.release >= minimum.release <=> ~(r[i].version.release < minimum.release)
    BY <2>6
  <2> QED
    BY <2>4, <2>7, <2>8, Zenon
<1> QED
  BY <1>1, StartupTypeCorrect, PTL

-----------------------------------------------------------------------------
(***************************************************************************)
(* Only settings that parse are written.  What makes it inductive: the     *)
(* process that is about to write has just parsed them.                    *)
(***************************************************************************)
PodsType == pods = [s \in Slots |-> pods[s]]

UsableInv ==
    /\ TypeOK /\ PodsType /\ OnlyUsableSettings
    /\ \A p \in Procs : pc[p] = "sync" => Usable(TLSOf(p))

\* The settings of a process depend on the environment and what it fetched.
LEMMA SameTLS ==
    ASSUME NEW p, env' = env, fetched'[p] = fetched[p]
    PROVE  TLSOf(p)' = TLSOf(p)
  BY DEF TLSOf

LEMMA IntoSync ==
    ASSUME NEW step \in StepNames \ {"down", "running"}, Following(step) = "sync"
    PROVE  step = "tls"
  BY DEF Following, StepNames

\* A step that writes no settings and brings nobody to "sync" keeps UsableInv.
LEMMA UsableKept ==
    ASSUME UsableInv, TypeOK', PodsType', env' = env, cm' = cm,
           \A s \in Slots : pods'[s] \in {None, cm, pods[s]},
           \A q \in Procs : pc'[q] = "sync" => pc[q] = "sync" /\ fetched'[q] = fetched[q]
    PROVE  UsableInv'
<1>1. \A s \in Slots : pods'[s] # None => Usable(pods'[s])
  BY DEF UsableInv, OnlyUsableSettings
<1>2. ASSUME NEW q \in Procs, pc'[q] = "sync" PROVE Usable(TLSOf(q))'
  <2>1. TLSOf(q)' = TLSOf(q)
    BY <1>2, SameTLS
  <2>2. Usable(TLSOf(q))
    BY <1>2 DEF UsableInv
  <2> QED
    BY <2>1, <2>2
<1> QED
  BY <1>1, <1>2 DEF UsableInv, OnlyUsableSettings

LEMMA AdvanceSync ==
    ASSUME TypeOK, NEW p \in Procs, pc[p] \notin {"down", "running", "tls"}, Advance(p),
           NEW q \in Procs, pc'[q] = "sync"
    PROVE  q # p /\ pc[q] = "sync"
<1>1. pc \in [Procs -> StepNames] /\ pc' = [pc EXCEPT ![p] = Following(pc[p])]
  BY DEF TypeOK, Advance
<1>2. Following(pc[p]) # "sync"
  BY <1>1, IntoSync
<1> QED
  BY <1>1, <1>2

LEMMA ExitSync ==
    ASSUME TypeOK, NEW p \in Procs, Exit(p), NEW q \in Procs, pc'[q] = "sync"
    PROVE  pc[q] = "sync" /\ fetched'[q] = fetched[q]
  BY DEF TypeOK, Exit

LEMMA UsableInit == Init => UsableInv
<1> SUFFICES ASSUME Init PROVE UsableInv
  OBVIOUS
<1>1. TypeOK
  BY TypeInit
<1> QED
  BY <1>1 DEF Init, UsableInv, PodsType, OnlyUsableSettings

LEMMA UsableStep == UsableInv /\ [Next]_vars => UsableInv'
<1> SUFFICES ASSUME UsableInv, [Next]_vars PROVE UsableInv'
  OBVIOUS
<1>t. TypeOK /\ TypeOK' /\ PodsType
  BY TypeStep DEF UsableInv
<1>1. ASSUME NEW p \in Procs, Start(p) PROVE UsableInv'
  <2>1. \A q \in Procs : pc'[q] = "sync" => pc[q] = "sync"
    BY <1>1, <1>t DEF Start, At, TypeOK
  <2> QED
    BY <1>1, <1>t, <2>1, UsableKept DEF Start, PodsType, cluster
<1>2. ASSUME NEW p \in Procs,
             GetPlatformInfo(p) \/ StartManager(p) \/ AllDeleted(p) \/ ListPods(p)
      PROVE  UsableInv'
  <2>1. pc[p] \notin {"down", "running", "tls"} /\ Advance(p)
    BY <1>2 DEF GetPlatformInfo, StartManager, AllDeleted, ListPods, At
  <2>2. \A q \in Procs : pc'[q] = "sync" => pc[q] = "sync"
    BY <1>t, <2>1, AdvanceSync
  <2> QED
    BY <1>2, <1>t, <2>2, UsableKept
    DEF GetPlatformInfo, StartManager, AllDeleted, ListPods, PodsType, cluster
<1>3. ASSUME NEW p \in Procs, ReadEnvironment(p) \/ ParseTLS(p) PROVE UsableInv'
  <2>1. env' = env /\ cm' = cm /\ pods' = pods
    BY <1>3 DEF ReadEnvironment, ParseTLS, cluster
  <2>2. CASE Exit(p)
    <3>1. \A q \in Procs : pc'[q] = "sync" => pc[q] = "sync" /\ fetched'[q] = fetched[q]
      BY <1>t, <2>2, ExitSync
    <3> QED
      BY <1>t, <2>1, <3>1, UsableKept DEF PodsType
  <2>3. CASE ReadEnvironment(p) /\ Advance(p) /\ fetched' = fetched
    <3>1. \A q \in Procs : pc'[q] = "sync" => pc[q] = "sync"
      BY <1>t, <2>3, AdvanceSync DEF ReadEnvironment, At
    <3> QED
      BY <1>t, <2>1, <2>3, <3>1, UsableKept DEF PodsType
  <2>4. CASE ParseTLS(p) /\ Usable(TLSOf(p)) /\ Advance(p) /\ fetched' = fetched
    <3>1. ASSUME NEW q \in Procs, pc'[q] = "sync" PROVE Usable(TLSOf(q))
      <4>1. q # p => pc[q] = "sync"
        BY <1>t, <2>4, <3>1 DEF Advance, TypeOK
      <4> QED
        BY <2>4, <4>1 DEF UsableInv
    <3>2. ASSUME NEW q \in Procs, pc'[q] = "sync" PROVE Usable(TLSOf(q))'
      <4>1. TLSOf(q)' = TLSOf(q)
        BY <2>1, <2>4, SameTLS
      <4> QED
        BY <3>1, <3>2, <4>1
    <3> QED
      BY <1>t, <2>1, <3>2 DEF UsableInv, PodsType, OnlyUsableSettings
  <2> QED
    BY <1>3, <2>2, <2>3, <2>4 DEF ReadEnvironment, ParseTLS
<1>4. ASSUME NEW p \in Procs, FetchProfile(p) \/ FetchPolicy(p) PROVE UsableInv'
  <2>1. pc[p] \notin {"down", "running", "tls"} /\ Advance(p)
    BY <1>4 DEF FetchProfile, FetchPolicy, At
  <2>2. \A q \in Procs : pc'[q] = "sync" => q # p /\ pc[q] = "sync"
    BY <1>t, <2>1, AdvanceSync
  <2>3. \A q \in Procs : q # p => fetched'[q] = fetched[q]
    BY <1>4, <1>t DEF FetchProfile, FetchPolicy, TypeOK
  <2> QED
    BY <1>4, <1>t, <2>2, <2>3, UsableKept DEF FetchProfile, FetchPolicy, PodsType, cluster
<1>5. ASSUME NEW p \in Procs, syncTLSConfigMap(p) PROVE UsableInv'
  <2>1. Usable(TLSOf(p)) /\ cm' = TLSOf(p) /\ env' = env /\ fetched' = fetched /\ pods' = pods
    BY <1>5 DEF syncTLSConfigMap, UsableInv, At, cluster
  <2>2. ASSUME NEW q \in Procs, pc'[q] = "sync" PROVE Usable(TLSOf(q))'
    <3>1. pc[q] = "sync"
      BY <1>5, <1>t, <2>2, AdvanceSync DEF syncTLSConfigMap, At
    <3>2. TLSOf(q)' = TLSOf(q)
      BY <2>1, SameTLS
    <3> QED
      BY <3>1, <3>2 DEF UsableInv
  <2> QED
    BY <1>t, <2>1, <2>2 DEF UsableInv, OnlyUsableSettings, PodsType
<1>6. ASSUME NEW p \in Procs, NEW s \in Slots, DeletePod(p, s) PROVE UsableInv'
  BY <1>6, <1>t, UsableKept DEF DeletePod, TakeAway, PodsType, cluster
<1>7. ASSUME NEW p \in Procs, DeleteVanished(p) \/ ProfileChanged(p) \/ CallFails(p)
      PROVE  UsableInv'
  <2>1. Exit(p) /\ env' = env /\ cm' = cm /\ pods' = pods
    BY <1>7 DEF DeleteVanished, ProfileChanged, CallFails, cluster
  <2>2. \A q \in Procs : pc'[q] = "sync" => pc[q] = "sync" /\ fetched'[q] = fetched[q]
    BY <1>t, <2>1, ExitSync
  <2> QED
    BY <1>t, <2>1, <2>2, UsableKept DEF PodsType
<1>8. ASSUME NEW p \in Procs, SetupWebhook(p) \/ AcquireLease(p) PROVE UsableInv'
  BY <1>8, <1>t, UsableKept DEF SetupWebhook, AcquireLease, PodsType, cluster, process
<1>9. ASSUME NEW a \in APIServers, ChangeAPIServer(a) PROVE UsableInv'
  BY <1>9, <1>t, UsableKept DEF ChangeAPIServer, PodsType, process
<1>10. ASSUME NEW s \in Slots, StartPod(s) \/ RestartContainer(s) PROVE UsableInv'
  BY <1>10, <1>t, UsableKept DEF StartPod, RestartContainer, PodsType, cluster, process
<1>11. ASSUME NEW s \in Slots, LosePod(s) PROVE UsableInv'
  BY <1>11, <1>t, UsableKept DEF LosePod, TakeAway, PodsType, cluster
<1>12. CASE UNCHANGED vars
  BY <1>12, <1>t, UsableKept DEF vars, PodsType, cluster, process
<1> QED
  BY <1>1, <1>2, <1>3, <1>4, <1>5, <1>6, <1>7, <1>8, <1>9, <1>10, <1>11, <1>12 DEF Next, Step

(***************************************************************************)
(* Whatever processes, profiles and kills there are, the webhook server    *)
(* never gets settings the operator would refuse for itself.               *)
(***************************************************************************)
THEOREM SettingsUsable == Spec => []OnlyUsableSettings
<1>1. Init => UsableInv
  BY UsableInit
<1>2. UsableInv /\ [Next]_vars => UsableInv'
  BY UsableStep
<1>3. UsableInv => OnlyUsableSettings
  BY DEF UsableInv
<1> QED
  BY <1>1, <1>2, <1>3, PTL DEF Spec

-----------------------------------------------------------------------------
(***************************************************************************)
(* With one process at a time the pods come back with the new settings.    *)
(* The invariant says how far the process has got: from "list" on the      *)
(* ConfigMap has its settings, in "delete" so have all pods it has not     *)
(* still to delete, and from "manager" on all of them.                     *)
(***************************************************************************)
SingleProcess == \A p, q \in Procs : p = q

UpToDate(s) == pods[s] \in {None, cm}

RolloutInv ==
    /\ TypeOK /\ PodsType
    /\ \A p \in Procs :
          /\ pc[p] \in {"list", "delete", "manager", "running"} => cm = TLSOf(p)
          /\ pc[p] = "delete" => \A s \in Slots : s \notin listed[p] => UpToDate(s)
          /\ pc[p] \in {"manager", "running"} => \A s \in Slots : UpToDate(s)
          /\ leader = p => pc[p] = "running"
    /\ ~externalWebhookServer => \A s \in Slots : pods[s] = None

LEMMA RolloutInit == Init => RolloutInv
<1> SUFFICES ASSUME Init PROVE RolloutInv
  OBVIOUS
<1>1. TypeOK
  BY TypeInit
<1> QED
  BY <1>1, StartupAssumption DEF Init, RolloutInv, PodsType, UpToDate

\* When a process ends, nothing is claimed of it any more.
LEMMA RolloutExit ==
    ASSUME RolloutInv, SingleProcess, NEW p \in Procs, Exit(p), TypeOK', pods' = pods
    PROVE  RolloutInv'
<1>1. pc'[p] = "down" /\ leader' # p
  BY StartupAssumption DEF RolloutInv, TypeOK, Exit
<1> QED
  BY <1>1 DEF RolloutInv, SingleProcess, PodsType

\* A step that leaves ConfigMap, processes and lease alone and makes no pod older.
LEMMA RolloutPods ==
    ASSUME RolloutInv, TypeOK', PodsType', env' = env, cm' = cm, pc' = pc, fetched' = fetched,
           leader' = leader,
           \A s \in Slots : UpToDate(s) => UpToDate(s)',
           \A p \in Procs, s \in Slots : s \notin listed'[p] => s \notin listed[p] \/ UpToDate(s)',
           ~externalWebhookServer => \A s \in Slots : pods'[s] = None
    PROVE  RolloutInv'
<1>1. \A p \in Procs : TLSOf(p)' = TLSOf(p)
  BY SameTLS
<1> QED
  BY <1>1 DEF RolloutInv

LEMMA RolloutStep == SingleProcess /\ RolloutInv /\ [Next]_vars => RolloutInv'
<1> SUFFICES ASSUME SingleProcess, RolloutInv, [Next]_vars PROVE RolloutInv'
  OBVIOUS
<1>t. TypeOK /\ TypeOK' /\ PodsType
  BY TypeStep DEF RolloutInv
<1>1. ASSUME NEW p \in Procs, Start(p) PROVE RolloutInv'
  <2>1. pc'[p] = "platform" /\ leader # p /\ leader' = leader /\ pods' = pods
    BY <1>1, <1>t DEF Start, At, TypeOK, RolloutInv
  <2> QED
    BY <1>t, <2>1 DEF RolloutInv, SingleProcess, PodsType
<1>2. ASSUME NEW p \in Procs, GetPlatformInfo(p) \/ FetchProfile(p) \/ FetchPolicy(p) PROVE RolloutInv'
  <2>1. pc'[p] \in {"environment", "policy", "tls"} /\ pc[p] # "running"
    BY <1>2, <1>t DEF GetPlatformInfo, FetchProfile, FetchPolicy, At, Advance, Following, TypeOK
  <2>2. leader' = leader /\ leader # p /\ pods' = pods
    BY <1>2, <2>1 DEF GetPlatformInfo, FetchProfile, FetchPolicy, RolloutInv
  <2> QED
    BY <1>t, <2>1, <2>2 DEF RolloutInv, SingleProcess, PodsType
<1>3. ASSUME NEW p \in Procs, ReadEnvironment(p) \/ ParseTLS(p) PROVE RolloutInv'
  <2>1. pods' = pods
    BY <1>3 DEF ReadEnvironment, ParseTLS
  <2>2. CASE Exit(p)
    BY <1>t, <2>1, <2>2, RolloutExit
  <2>3. CASE Advance(p) /\ leader' = leader
    <3>1. pc'[p] \in {"profile", "tls", "sync"} /\ pc[p] # "running"
      BY <1>3, <1>t, <2>3 DEF ReadEnvironment, ParseTLS, At, Advance, Following, TypeOK
    <3>2. leader # p
      BY <3>1 DEF RolloutInv
    <3> QED
      BY <1>t, <2>1, <2>3, <3>1, <3>2 DEF RolloutInv, SingleProcess, PodsType
  <2> QED
    BY <1>3, <2>2, <2>3 DEF ReadEnvironment, ParseTLS
<1>4. ASSUME NEW p \in Procs, syncTLSConfigMap(p) PROVE RolloutInv'
  <2>1. /\ pc'[p] = (IF externalWebhookServer THEN "list" ELSE "manager")
        /\ pc[p] = "sync"
    BY <1>4, <1>t DEF syncTLSConfigMap, At, Advance, Following, TypeOK
  <2>2. /\ leader' = leader /\ leader # p /\ pods' = pods /\ cm' = TLSOf(p)
        /\ env' = env /\ fetched' = fetched
    BY <1>4, <2>1 DEF syncTLSConfigMap, RolloutInv, cluster
  <2>3. cm' = TLSOf(p)'
    BY <2>2, SameTLS
  <2>4. ~externalWebhookServer => \A s \in Slots : pods'[s] = None /\ UpToDate(s)'
    BY <2>2 DEF RolloutInv, UpToDate
  <2>5. pc'[p] # "delete" /\ (pc'[p] \in {"manager", "running"} => ~externalWebhookServer)
    BY <2>1
  <2> QED
    BY <1>t, <2>1, <2>2, <2>3, <2>4, <2>5 DEF RolloutInv, SingleProcess, PodsType
<1>5. ASSUME NEW p \in Procs, ListPods(p) \/ AllDeleted(p) \/ StartManager(p) PROVE RolloutInv'
  <2>1. /\ leader' = leader /\ pods' = pods /\ cm' = cm /\ env' = env /\ fetched' = fetched
        /\ pc[p] \in {"list", "delete", "manager"} /\ leader # p
    BY <1>5 DEF ListPods, AllDeleted, StartManager, At, RolloutInv, cluster
  <2>2. cm' = TLSOf(p)'
    <3>1. cm = TLSOf(p)
      BY <2>1 DEF RolloutInv
    <3>2. TLSOf(p)' = TLSOf(p)
      BY <2>1, SameTLS
    <3> QED
      BY <2>1, <3>1, <3>2
  <2>3. \A s \in Slots : UpToDate(s)' <=> UpToDate(s)
    BY <2>1 DEF UpToDate
  <2>4. CASE ListPods(p)
    <3>1. pc'[p] = "delete" /\ listed'[p] = {s \in Slots : pods[s] # None}
      BY <1>t, <2>4 DEF ListPods, At, Advance, Following, TypeOK
    <3>2. \A s \in Slots : s \notin listed'[p] => UpToDate(s)'
      BY <3>1, <2>3 DEF UpToDate
    <3> QED
      BY <1>t, <2>1, <2>2, <3>1, <3>2 DEF RolloutInv, SingleProcess, PodsType
  <2>5. CASE AllDeleted(p)
    <3>1. pc[p] = "delete" /\ pc'[p] = "manager" /\ listed[p] = {}
      BY <1>t, <2>5 DEF AllDeleted, At, Advance, Following, TypeOK
    <3>2. \A s \in Slots : UpToDate(s)'
      BY <3>1, <2>3 DEF RolloutInv
    <3> QED
      BY <1>t, <2>1, <2>2, <3>1, <3>2 DEF RolloutInv, SingleProcess, PodsType
  <2>6. CASE StartManager(p)
    <3>1. pc[p] = "manager" /\ pc'[p] = "running"
      BY <1>t, <2>6 DEF StartManager, At, Advance, Following, TypeOK
    <3>2. \A s \in Slots : UpToDate(s)'
      BY <3>1, <2>3 DEF RolloutInv
    <3> QED
      BY <1>t, <2>1, <2>2, <3>1, <3>2 DEF RolloutInv, SingleProcess, PodsType
  <2> QED
    BY <1>5, <2>4, <2>5, <2>6
<1>6. ASSUME NEW p \in Procs, DeleteVanished(p) \/ ProfileChanged(p) \/ CallFails(p)
      PROVE  RolloutInv'
  BY <1>6, <1>t, RolloutExit DEF DeleteVanished, ProfileChanged, CallFails
<1>7. ASSUME NEW p \in Procs, AcquireLease(p) PROVE RolloutInv'
  <2>1. pc[p] = "running" /\ cm = TLSOf(p) /\ \A s \in Slots : UpToDate(s)
    BY <1>7 DEF AcquireLease, At, RolloutInv
  <2>2. TLSOf(p)' = TLSOf(p)
    BY <1>7, SameTLS DEF AcquireLease, cluster, process
  <2>3. \A s \in Slots : UpToDate(s)'
    BY <1>7, <2>1 DEF AcquireLease, UpToDate
  <2> QED
    BY <1>7, <1>t, <2>1, <2>2, <2>3
    DEF AcquireLease, RolloutInv, SingleProcess, PodsType, cluster, process
<1>8. ASSUME NEW p \in Procs, SetupWebhook(p) PROVE RolloutInv'
  <2>1. \A s \in Slots : UpToDate(s) => UpToDate(s)'
    BY <1>8 DEF SetupWebhook, UpToDate
  <2> QED
    BY <1>8, <1>t, <2>1, RolloutPods DEF SetupWebhook, PodsType, RolloutInv, cluster
<1>9. ASSUME NEW a \in APIServers, ChangeAPIServer(a) PROVE RolloutInv'
  <2>1. \A s \in Slots : UpToDate(s) => UpToDate(s)'
    BY <1>9 DEF ChangeAPIServer, UpToDate
  <2> QED
    BY <1>9, <1>t, <2>1, RolloutPods DEF ChangeAPIServer, PodsType, RolloutInv, process
<1>10. ASSUME NEW p \in Procs, NEW d \in Slots, DeletePod(p, d) PROVE RolloutInv'
  <2>1. /\ pods' = [pods EXCEPT ![d] = None] /\ listed' = [q \in Procs |-> listed[q] \ {d}]
        /\ UNCHANGED <<cluster, cm, leader, pc, fetched>>
    BY <1>10 DEF DeletePod, TakeAway
  <2>2. PodsType' /\ pods'[d] = None /\ \A s \in Slots : pods'[s] \in {None, pods[s]}
    BY <1>t, <2>1 DEF PodsType
  <2>3. UpToDate(d)' /\ \A s \in Slots : UpToDate(s) => UpToDate(s)'
    BY <2>1, <2>2 DEF UpToDate
  <2> QED
    BY <1>t, <2>1, <2>2, <2>3, RolloutPods DEF RolloutInv, cluster
<1>11. ASSUME NEW d \in Slots, LosePod(d) PROVE RolloutInv'
  <2>1. /\ pods' = [pods EXCEPT ![d] = None] /\ listed' = [q \in Procs |-> listed[q] \ {d}]
        /\ UNCHANGED <<cluster, cm, leader, pc, fetched>>
    BY <1>11 DEF LosePod, TakeAway
  <2>2. PodsType' /\ pods'[d] = None /\ \A s \in Slots : pods'[s] \in {None, pods[s]}
    BY <1>t, <2>1 DEF PodsType
  <2>3. UpToDate(d)' /\ \A s \in Slots : UpToDate(s) => UpToDate(s)'
    BY <2>1, <2>2 DEF UpToDate
  <2> QED
    BY <1>t, <2>1, <2>2, <2>3, RolloutPods DEF RolloutInv, cluster
<1>12. ASSUME NEW d \in Slots, StartPod(d) \/ RestartContainer(d) PROVE RolloutInv'
  <2>1. /\ pods' = [pods EXCEPT ![d] = cm] /\ externalWebhookServer
        /\ UNCHANGED <<cluster, cm, leader, process>>
    BY <1>12 DEF StartPod, RestartContainer, RolloutInv
  <2>2. PodsType' /\ \A s \in Slots : pods'[s] \in {cm, pods[s]}
    BY <1>t, <2>1 DEF PodsType
  <2>3. \A s \in Slots : UpToDate(s) => UpToDate(s)'
    BY <2>1, <2>2 DEF UpToDate
  <2> QED
    BY <1>t, <2>1, <2>2, <2>3, RolloutPods DEF cluster, process
<1>13. CASE UNCHANGED vars
  <2>1. \A s \in Slots : UpToDate(s) => UpToDate(s)'
    BY <1>13 DEF vars, UpToDate
  <2> QED
    BY <1>13, <1>t, <2>1, RolloutPods DEF vars, cluster, process, PodsType, RolloutInv
<1> QED
  BY <1>1, <1>2, <1>3, <1>4, <1>5, <1>6, <1>7, <1>8, <1>9, <1>10, <1>11, <1>12, <1>13
  DEF Next, Step

(***************************************************************************)
(* As long as processes of the operator do not overlap, ConfigMap and pods *)
(* have the settings of the leader when it has the profile of the cluster, *)
(* after any number of starts that were cut short.                         *)
(***************************************************************************)
THEOREM SettingsArrive ==
    ASSUME SingleProcess
    PROVE  Spec => []PodsHaveNewSettings
<1>1. Init => RolloutInv
  BY RolloutInit
<1>2. RolloutInv /\ [Next]_vars => RolloutInv'
  BY RolloutStep
<1>3. RolloutInv => PodsHaveNewSettings
  BY DEF RolloutInv, PodsHaveNewSettings, Settled, UpToDate
<1> QED
  BY <1>1, <1>2, <1>3, PTL DEF Spec
=============================================================================
