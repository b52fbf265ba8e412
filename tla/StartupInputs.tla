---------------------------- MODULE StartupInputs ----------------------------
(***************************************************************************)
(* What the operator makes of its inputs when it starts: the environment   *)
(* variables (package params), the API groups that tell OpenShift from     *)
(* plain Kubernetes (package platform), the TLS profile of the cluster     *)
(* (packages openshift and tlsconfig) and, for the reconciler, the version *)
(* of the cluster network operator.  Pure functions; Refused stands for    *)
(* the error they return.                                                  *)
(***************************************************************************)
EXTENDS Integers, SequencesExt

CONSTANTS
    Refused,      \* an error
    Garbage,      \* a text that does not parse
    Known,        \* OpenSSL cipher names that have an IANA name
    GoCiphers,    \* cipher names the Go runtime implements
    GoCurves,     \* curve numbers the Go runtime implements
    GoVersions    \* TLS version names

ASSUME InputsAssumption == Refused # Garbage

-----------------------------------------------------------------------------
(***************************************************************************)
(* The environment: a function on the variables that are set.  A port is   *)
(* "", the text of a number or Garbage; a version likewise; an image is a  *)
(* sequence of words, "/" and ":".                                         *)
(***************************************************************************)
Getenv(env, v)  == IF v \in DOMAIN env THEN env[v] ELSE ""
GetList(env, v) == IF v \in DOMAIN env THEN env[v] ELSE <<>>      \* "" has no elements

Images    == {"CONTROLLER_IMAGE", "SPEAKER_IMAGE", "FRR_IMAGE", "FRRK8S_IMAGE"}
Mandatory == {"OPERATOR_NAMESPACE", "CONTROLLER_IMAGE", "SPEAKER_IMAGE", "FRR_IMAGE"}

PortDefault ==
    [ MEMBER_LIST_BIND_PORT |-> "7946", FRR_METRICS_PORT |-> "9121", METRICS_PORT |-> "9120",
      OPERAND_LIVENESS_PORT |-> "17472", FRRK8S_METRICS_PORT |-> "7572",
      FRRK8S_HTTPS_METRICS_PORT |-> "9140", FRRK8S_FRR_METRICS_PORT |-> "7573",
      FRRK8S_FRR_HTTPS_METRICS_PORT |-> "9141" ]

intValueWithDefault(env, v) ==
    IF Getenv(env, v) = "" THEN PortDefault[v] ELSE Getenv(env, v)

(***************************************************************************)
(* getImageNameTag.  Only what follows the last "/" is split at ":", and   *)
(* of that two parts are kept.                                             *)
(***************************************************************************)
First(S)     == CHOOSE i \in S : \A j \in S : i <= j
Latest(S)    == CHOOSE i \in S \cup {0} : \A j \in S : j <= i
Places(r, w) == {i \in DOMAIN r : r[i] = w}
UpTo(r, n)   == SubSeq(r, 1, n)
From(r, n)   == SubSeq(r, n, Len(r))

SplitFirst(ref) ==                                                 \* mutant
    LET i == IF Places(ref, ":") = {} THEN Len(ref) + 1 ELSE First(Places(ref, ":"))
    IN  [repo |-> UpTo(ref, i - 1), tag |-> From(ref, i + 1)]

getImageNameTag(ref) ==
    LET name   == Latest(Places(ref, "/"))
        colons == {i \in Places(ref, ":") : i > name}
    IN  IF colons = {} THEN [repo |-> ref, tag |-> <<>>]
        ELSE LET c    == First(colons)
                 rest == colons \ {c}
             IN  [repo |-> UpTo(ref, c - 1),
                  tag  |-> SubSeq(ref, c + 1, IF rest = {} THEN Len(ref) ELSE First(rest) - 1)]

\* The charts join the two again, with the chart's version for no tag.
Rendered(i, version) == i.repo \o <<":">> \o (IF i.tag = <<>> THEN version ELSE i.tag)

(***************************************************************************)
(* A reference as registries write it: a path that ends in "/" or none, a  *)
(* name, and then nothing or one tag or digest.  b and n are where path    *)
(* and name end.                                                           *)
(***************************************************************************)
Plain(ref, i, j) == \A k \in i .. j : ref[k] \notin {"/", ":"}

Reference(ref, b, n) ==
    /\ b = 0 \/ ref[b] = "/"
    /\ Plain(ref, b + 1, n)
    /\ n < Len(ref) => n + 1 < Len(ref) /\ ref[n + 1] = ":" /\ Plain(ref, n + 2, Len(ref))

-----------------------------------------------------------------------------
(***************************************************************************)
(* Versions.  A prerelease is a sequence of identifiers, numbers and words *)
(* (words are coded from 100 on: they come after every number).            *)
(***************************************************************************)
PreLess(p, q) ==
    \/ p # <<>> /\ q = <<>>
    \/ q # <<>> /\ p # <<>> /\ IsStrictPrefix(p, q)
    \/ \E i \in DOMAIN p \cap DOMAIN q :
          p[i] < q[i] /\ \A j \in 1 .. i - 1 : p[j] = q[j]

LessThan(v, w) == v.release < w.release \/ (v.release = w.release /\ PreLess(v.pre, w.pre))

Operators(versions) == {i \in DOMAIN versions : versions[i].name = "operator"}

\* The version named "operator", the first such, against the minimum.
cnoReleaseOnly(versions, minimum) ==                               \* mutant
    LET v == versions[First(Operators(versions))].version IN
    IF Operators(versions) = {} \/ v = Garbage THEN Refused
    ELSE v.pre = <<>> /\ ~LessThan(v, minimum)

cnoSupportsFRRK8s(versions, minimum) ==
    LET v == versions[First(Operators(versions))].version IN
    IF Operators(versions) = {} \/ v = Garbage THEN Refused ELSE ~LessThan(v, minimum)

-----------------------------------------------------------------------------
(***************************************************************************)
(* GetPlatformInfo and FromEnvironment.                                    *)
(***************************************************************************)
IsOpenShift(groups) == "route.openshift.io" \in groups

Settings(ciphers, curves, minVersion) ==
    [ciphers |-> ciphers, curves |-> curves, minVersion |-> minVersion]

Enabled(env, v) == Getenv(env, v) = "true"

validateEnv(env) ==
    /\ ~(Enabled(env, "DEPLOY_PODMONITORS") /\ Enabled(env, "DEPLOY_SERVICEMONITORS"))
    /\ Getenv(env, "CNO_MIN_FRRK8S_VERSION") # Garbage

FromEnvironment(env) ==
    IF \/ ~(Mandatory \subseteq DOMAIN env)
       \/ \E v \in DOMAIN PortDefault : intValueWithDefault(env, v) = Garbage
       \/ ~validateEnv(env)
    THEN Refused
    ELSE [ images  |-> [v \in Images \cap DOMAIN env |-> getImageNameTag(env[v])],
           ports   |-> [v \in DOMAIN PortDefault |-> intValueWithDefault(env, v)],
           minimum |-> Getenv(env, "CNO_MIN_FRRK8S_VERSION"),
           tls     |-> Settings(GetList(env, "TLS_CIPHER_SUITES"),
                                GetList(env, "TLS_CURVE_PREFERENCES"),
                                Getenv(env, "TLS_MIN_VERSION")) ]

-----------------------------------------------------------------------------
(***************************************************************************)
(* TLS.  The cluster's profile is turned into settings (cipher names the   *)
(* library has no IANA name for are dropped, curves are left to Go), the   *)
(* settings into a configuration.  An empty list means Go's own choice.    *)
(***************************************************************************)
tlsStringsFromProfile(profile) ==
    Settings(SelectSeq(profile.ciphers, LAMBDA c : c \in Known), <<>>, profile.minVersion)

parseCurvePreferences(curves) ==
    IF /\ Garbage \notin ToSet(curves)
       /\ \A i \in DOMAIN curves : curves[i] > 0 /\ curves[i] < 2^16 /\ curves[i] \in GoCurves
       /\ IsInjective(curves)
    THEN curves ELSE Refused

parseCipherSuites(ciphers) == IF ToSet(ciphers) \subseteq GoCiphers THEN ciphers ELSE Refused

parseTLSVersion(v) ==
    IF v = "" THEN "VersionTLS13" ELSE IF v \in GoVersions THEN v ELSE Refused

OptFor(s) ==
    LET parsed == Settings(parseCipherSuites(s.ciphers), parseCurvePreferences(s.curves),
                           parseTLSVersion(s.minVersion))
    IN  IF Refused \in {parsed.ciphers, parsed.curves, parsed.minVersion} THEN Refused ELSE parsed

Usable(s) == OptFor(s) # Refused
=============================================================================
