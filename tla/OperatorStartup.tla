--------------------------- MODULE OperatorStartup ---------------------------
(***************************************************************************)
(* The operator process from main to the running manager: it reads its     *)
(* inputs, refuses what it cannot use, writes the TLS settings to a        *)
(* ConfigMap, deletes the pods of the separate webhook server so that they *)
(* come back with them, starts the manager and contends for its lease.     *)
(* On OpenShift the settings come from the cluster's APIServer resource,   *)
(* which the leader watches: a change ends the process, and the next one   *)
(* begins with the new settings.                                           *)
(*                                                                         *)
(* The operator's Deployment has one replica, but two processes overlap    *)
(* while it is rolled out: Procs has one element or two.                   *)
(***************************************************************************)
EXTENDS StartupInputs

CONSTANTS
    Procs,        \* processes of the operator that may exist at a time
    Slots,        \* places for pods of the webhook server's Deployment
    Profiles,     \* TLS profiles the APIServer resource may have
    Policies,     \* and its TLS adherence policies
    Envs,         \* environments the operator may be started with
    Groups,       \* the API groups of the cluster
    Reports,      \* the lists of versions the network operator may report
    externalWebhookServer,   \* the flag: is there a separate webhook server?
    MaxChurn,     \* bound on failing calls, kills, lost pods and profile changes
    None

ASSUME StartupAssumption ==
    /\ IsOpenShift(Groups) \in BOOLEAN /\ externalWebhookServer \in BOOLEAN
    /\ None \notin Procs /\ MaxChurn \in Nat

(***************************************************************************)
(* Image references are texts.  A version is a release and its prerelease  *)
(* identifiers, numbered as in StartupInputs, unless it does not parse.    *)
(* An empty minimum is as good as none.                                    *)
(***************************************************************************)
Version == [release : Nat, pre : Seq(Nat)]

ASSUME TextsAssumption ==
    /\ \A e \in Envs : \A v \in Images \cap DOMAIN e : e[v] \in Seq(STRING)
    /\ \A e \in Envs : "CNO_MIN_FRRK8S_VERSION" \in DOMAIN e =>
          e["CNO_MIN_FRRK8S_VERSION"] \in Version \cup {Garbage}
    /\ \A r \in Reports : r \in Seq([name : STRING, version : Version \cup {Garbage}])

VARIABLES
    env,          \* the environment variables of the operator's container
    apiServer,    \* profile and adherence policy of the cluster
    cm,           \* the ConfigMap metallb-tls-config
    pods,         \* the settings each pod of the webhook server runs with
    leader,       \* the process that holds the lease
    pc,           \* the next step of each process
    fetched,      \* the profile and policy it started with
    webhook,      \* the processes that serve the admission webhook
    listed,       \* the pods of the webhook server it is still to delete
    vanished,     \* is a pod it listed gone already?
    churn

cluster == <<env, apiServer>>
process == <<pc, fetched, webhook, listed, vanished>>
vars    == <<cluster, cm, pods, leader, process, churn>>

Nothing == [profile |-> None, policy |-> None]

APIServers == [profile : Profiles, policy : Policies]

Init ==
    /\ env \in Envs /\ apiServer \in APIServers
    /\ cm = None /\ pods = [s \in Slots |-> None]
    /\ leader = None
    /\ pc = [p \in Procs |-> "down"] /\ fetched = [p \in Procs |-> Nothing]
    /\ webhook = {}
    /\ listed = [p \in Procs |-> {}] /\ vanished = [p \in Procs |-> FALSE]
    /\ churn = 0

-----------------------------------------------------------------------------
(***************************************************************************)
(* The order of main.  The steps in brackets of the code's conditions are  *)
(* skipped on plain Kubernetes and without a separate webhook server.      *)
(***************************************************************************)
SyncFirst(step) ==                                                 \* mutant
    CASE step = "platform"    -> "environment"
      [] step = "environment" -> IF IsOpenShift(Groups) THEN "profile" ELSE "sync"
      [] step = "profile"     -> "policy"
      [] step = "policy"      -> "sync"
      [] step = "sync"        -> "tls"
      [] step = "tls"         -> IF externalWebhookServer THEN "list" ELSE "manager"
      [] step = "list"        -> "delete"
      [] step = "delete"      -> "manager"
      [] step = "manager"     -> "running"

DeleteFirst(step) ==                                               \* mutant
    CASE step = "platform"    -> "environment"
      [] step = "environment" -> IF IsOpenShift(Groups) THEN "profile" ELSE "tls"
      [] step = "profile"     -> "policy"
      [] step = "policy"      -> "tls"
      [] step = "tls"         -> IF externalWebhookServer THEN "list" ELSE "sync"
      [] step = "list"        -> "delete"
      [] step = "delete"      -> "sync"
      [] step = "sync"        -> "manager"
      [] step = "manager"     -> "running"

Following(step) ==
    CASE step = "platform"    -> "environment"
      [] step = "environment" -> IF IsOpenShift(Groups) THEN "profile" ELSE "tls"
      [] step = "profile"     -> "policy"
      [] step = "policy"      -> "tls"
      [] step = "tls"         -> "sync"
      [] step = "sync"        -> IF externalWebhookServer THEN "list" ELSE "manager"
      [] step = "list"        -> "delete"
      [] step = "delete"      -> "manager"
      [] step = "manager"     -> "running"

At(p, step) == pc[p] = step
Advance(p)  == pc' = [pc EXCEPT ![p] = Following(@)]

\* os.Exit(1), a return from main or a kill.
Exit(p) ==
    /\ pc' = [pc EXCEPT ![p] = "down"]
    /\ fetched' = [fetched EXCEPT ![p] = Nothing]
    /\ webhook' = webhook \ {p}
    /\ listed' = [listed EXCEPT ![p] = {}] /\ vanished' = [vanished EXCEPT ![p] = FALSE]
    /\ leader' = IF leader = p THEN None ELSE leader

\* What the process takes for the settings: the cluster's or the environment's.
TLSOf(p) ==
    IF IsOpenShift(Groups) THEN tlsStringsFromProfile(fetched[p].profile)
    ELSE FromEnvironment(env).tls

-----------------------------------------------------------------------------
Start(p) ==
    /\ At(p, "down")
    /\ pc' = [pc EXCEPT ![p] = "platform"]
    /\ UNCHANGED <<cluster, cm, pods, leader, fetched, webhook, listed, vanished, churn>>

GetPlatformInfo(p) ==
    /\ At(p, "platform") /\ Advance(p)
    /\ UNCHANGED <<cluster, cm, pods, leader, fetched, webhook, listed, vanished, churn>>

ReadEnvironment(p) ==
    /\ At(p, "environment")
    /\ IF FromEnvironment(env) = Refused THEN Exit(p)
       ELSE Advance(p) /\ UNCHANGED <<leader, fetched, webhook, listed, vanished>>
    /\ UNCHANGED <<cluster, cm, pods, churn>>

\* FetchTLSConfig reads the APIServer resource twice.
FetchProfile(p) ==
    /\ At(p, "profile") /\ Advance(p)
    /\ fetched' = [fetched EXCEPT ![p].profile = apiServer.profile]
    /\ UNCHANGED <<cluster, cm, pods, leader, webhook, listed, vanished, churn>>

FetchPolicy(p) ==
    /\ At(p, "policy") /\ Advance(p)
    /\ fetched' = [fetched EXCEPT ![p].policy = apiServer.policy]
    /\ UNCHANGED <<cluster, cm, pods, leader, webhook, listed, vanished, churn>>

ParseTLS(p) ==
    /\ At(p, "tls")
    /\ IF ~Usable(TLSOf(p)) THEN Exit(p)
       ELSE Advance(p) /\ UNCHANGED <<leader, fetched, webhook, listed, vanished>>
    /\ UNCHANGED <<cluster, cm, pods, churn>>

syncTLSConfigMap(p) ==
    /\ At(p, "sync") /\ Advance(p)
    /\ cm' = TLSOf(p)
    /\ UNCHANGED <<cluster, pods, leader, fetched, webhook, listed, vanished, churn>>

\* deleteWebhookServerPods lists, then deletes what it listed.
ListPods(p) ==
    /\ At(p, "list") /\ Advance(p)
    /\ listed' = [listed EXCEPT ![p] = {s \in Slots : pods[s] # None}]
    /\ UNCHANGED <<cluster, cm, pods, leader, fetched, webhook, vanished, churn>>

\* A pod goes, and with it its name: whoever else listed it will not find it.
TakeAway(s) ==
    /\ pods' = [pods EXCEPT ![s] = None]
    /\ listed' = [q \in Procs |-> listed[q] \ {s}]

Missed(s, Q) == vanished' = [q \in Procs |-> vanished[q] \/ (q \in Q /\ s \in listed[q])]

DeletePod(p, s) ==
    /\ At(p, "delete") /\ s \in listed[p]
    /\ TakeAway(s) /\ Missed(s, Procs \ {p})
    /\ UNCHANGED <<cluster, cm, leader, pc, fetched, webhook, churn>>

DeleteVanished(p) ==
    /\ At(p, "delete") /\ vanished[p]
    /\ Exit(p)
    /\ UNCHANGED <<cluster, cm, pods, churn>>

AllDeleted(p) ==
    /\ At(p, "delete") /\ listed[p] = {} /\ ~vanished[p]
    /\ Advance(p)
    /\ UNCHANGED <<cluster, cm, pods, leader, fetched, webhook, listed, vanished, churn>>

\* NewManager, SetupProfileWatcher, the reconciler, the rotator, mgr.Start.
StartManager(p) ==
    /\ At(p, "manager") /\ Advance(p)
    /\ UNCHANGED <<cluster, cm, pods, leader, fetched, webhook, listed, vanished, churn>>

\* Any process serves the webhook as soon as the certificates are there.
SetupWebhook(p) ==
    /\ At(p, "running") /\ p \notin webhook
    /\ webhook' = webhook \cup {p}
    /\ UNCHANGED <<cluster, cm, pods, leader, pc, fetched, listed, vanished, churn>>

AcquireLease(p) ==
    /\ At(p, "running") /\ leader = None
    /\ leader' = p
    /\ UNCHANGED <<cluster, cm, pods, process, churn>>

ChangeIgnored(p) == FALSE                                          \* mutant

\* The watcher, a controller of the leader, compares with what was fetched.
ProfileChanged(p) ==
    /\ IsOpenShift(Groups)
    /\ At(p, "running") /\ leader = p
    /\ fetched[p] # apiServer
    /\ Exit(p)
    /\ UNCHANGED <<cluster, cm, pods, churn>>

-----------------------------------------------------------------------------
(***************************************************************************)
(* Disruptions, and the Deployment of the webhook server, whose containers *)
(* read the ConfigMap when they start and cannot start without it.         *)
(***************************************************************************)
Disrupt == churn < MaxChurn /\ churn' = churn + 1

CallFails(p) ==
    /\ Disrupt /\ pc[p] \notin {"down", "environment", "tls"}
    /\ Exit(p)
    /\ UNCHANGED <<cluster, cm, pods>>

ChangeAPIServer(a) ==
    /\ Disrupt /\ a # apiServer
    /\ apiServer' = a
    /\ UNCHANGED <<env, cm, pods, leader, process>>

StartPod(s) ==
    /\ externalWebhookServer /\ cm # None /\ pods[s] = None
    /\ pods' = [pods EXCEPT ![s] = cm]
    /\ UNCHANGED <<cluster, cm, leader, process, churn>>

RestartContainer(s) ==
    /\ Disrupt /\ pods[s] # None
    /\ pods' = [pods EXCEPT ![s] = cm]
    /\ UNCHANGED <<cluster, cm, leader, process>>

LosePod(s) ==
    /\ Disrupt /\ pods[s] # None
    /\ TakeAway(s) /\ Missed(s, Procs)
    /\ UNCHANGED <<cluster, cm, leader, pc, fetched, webhook>>

-----------------------------------------------------------------------------
Step(p) ==
    \/ GetPlatformInfo(p) \/ ReadEnvironment(p) \/ FetchProfile(p) \/ FetchPolicy(p)
    \/ ParseTLS(p) \/ syncTLSConfigMap(p) \/ ListPods(p)
    \/ \E s \in Slots : DeletePod(p, s)
    \/ DeleteVanished(p) \/ AllDeleted(p) \/ StartManager(p)

Next ==
    \/ \E p \in Procs :
          \/ Start(p) \/ Step(p) \/ SetupWebhook(p) \/ AcquireLease(p) \/ ProfileChanged(p)
          \/ CallFails(p)
    \/ \E a \in APIServers : ChangeAPIServer(a)
    \/ \E s \in Slots : StartPod(s) \/ RestartContainer(s) \/ LosePod(s)

Spec == Init /\ [][Next]_vars

(***************************************************************************)
(* Fairness: the kubelet restarts a container that ended, main runs on,    *)
(* the lease is taken, the watch delivers, the Deployment replaces pods.   *)
(***************************************************************************)
Fairness ==
    /\ \A p \in Procs :
          /\ WF_vars(Start(p)) /\ WF_vars(Step(p)) /\ WF_vars(SetupWebhook(p))
          /\ WF_vars(AcquireLease(p)) /\ WF_vars(ProfileChanged(p))
    /\ \A s \in Slots : WF_vars(StartPod(s))

FairSpec == Spec /\ Fairness

-----------------------------------------------------------------------------
(***************************************************************************)
(* Properties.                                                             *)
(***************************************************************************)
StepNames == {"down", "platform", "environment", "profile", "policy", "tls", "sync", "list",
              "delete", "manager", "running"}

\* The types of the variables.
TypeOK ==
    /\ env \in Envs /\ apiServer \in APIServers
    /\ leader \in Procs \cup {None}
    /\ pc \in [Procs -> StepNames]
    /\ fetched \in [Procs -> [profile : Profiles \cup {None}, policy : Policies \cup {None}]]
    /\ webhook \in SUBSET Procs
    /\ listed \in [Procs -> SUBSET Slots] /\ vanished \in [Procs -> BOOLEAN]
    /\ churn \in 0 .. MaxChurn

(***************************************************************************)
(* Settings the operator itself refuses never reach the webhook server,    *)
(* neither its ConfigMap nor a pod, whatever the cluster's profile is      *)
(* changed to and whenever a process dies.                                 *)
(***************************************************************************)
OnlyUsableSettings ==
    /\ cm # None => Usable(cm)
    /\ \A s \in Slots : pods[s] # None => Usable(pods[s])

(***************************************************************************)
(* The pods are deleted "to pick up the new TLS config from the ConfigMap" *)
(* and a change of the profile restarts the operator: when no process is   *)
(* starting and the leader has the profile the cluster has, ConfigMap and  *)
(* pods have its settings, however many starts were cut short before.      *)
(***************************************************************************)
Settled(p) ==
    /\ leader = p
    /\ \A q \in Procs : pc[q] \in {"down", "running"}
    /\ IsOpenShift(Groups) => fetched[p] = apiServer

PodsHaveNewSettings ==
    \A p \in Procs : Settled(p) =>
        /\ cm = TLSOf(p)
        /\ \A s \in Slots : pods[s] \in {None, cm}

(***************************************************************************)
(* The charts join repository and tag to the reference that was set, the   *)
(* chart's own version added only if it had none; neither the port of the  *)
(* registry nor the colon of a digest is mistaken for a tag's.             *)
(***************************************************************************)
ImagesKept ==
    FromEnvironment(env) # Refused =>
        \A i \in Images \cap DOMAIN env :
            \A b \in 0 .. Len(env[i]) : \A n \in b .. Len(env[i]) :
                Reference(env[i], b, n) =>
                    Rendered(FromEnvironment(env).images[i], <<"default">>)
                        = env[i] \o (IF n = Len(env[i]) THEN <<":", "default">> ELSE <<>>)

(***************************************************************************)
(* With a minimum like "4.17.0-0" the network operator is good enough      *)
(* exactly from the first build of that release on, nightlies and          *)
(* candidates included, whatever else it reports.                          *)
(***************************************************************************)
EveryBuildCounts ==
    LET minimum == FromEnvironment(env).minimum IN
    FromEnvironment(env) # Refused /\ "CNO_MIN_FRRK8S_VERSION" \in DOMAIN env /\ minimum.pre = <<0>> =>
        \A r \in Reports : \A i \in DOMAIN r :
            /\ r[i].name = "operator" /\ r[i].version # Garbage
            /\ \A j \in 1 .. i - 1 : r[j].name # "operator"
            => (cnoSupportsFRRK8s(r, minimum) <=> r[i].version.release >= minimum.release)

(***************************************************************************)
(* Once the profile stops changing and is one the operator can use, the    *)
(* operator serves its webhook for good, knows profile and policy as they  *)
(* are and every pod of the webhook server runs with the settings.         *)
(***************************************************************************)
FinalSettings ==
    IF IsOpenShift(Groups) THEN tlsStringsFromProfile(apiServer.profile)
    ELSE FromEnvironment(env).tls

Startable == FromEnvironment(env) # Refused /\ Usable(FinalSettings)

SettingsRollOut ==
    (<>[]Startable) =>
        <>[](\E p \in Procs :
                /\ p \in webhook /\ Settled(p)
                /\ externalWebhookServer => \A s \in Slots : pods[s] = FinalSettings)
=============================================================================
