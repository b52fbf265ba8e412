------------------------------ MODULE MCStartup ------------------------------
(***************************************************************************)
(* An instance of OperatorStartup for TLC, and the environments and the    *)
(* reports of the network operator it is started with.                     *)
(***************************************************************************)
EXTENDS OperatorStartup

\* Cipher names: one of each kind the two tables distinguish.
MCKnown      == {"supported", "unsupported"}
MCGoCiphers  == {"supported"}
MCGoCurves   == {23, 29}
MCGoVersions == {"VersionTLS12", "VersionTLS13"}

Profile(ciphers, v) == [ciphers |-> ciphers, minVersion |-> v]

\* Two profiles to change between, and one that Go cannot serve.
MCProfiles ==
    {Profile(<<"supported", "nameless">>, "VersionTLS12"), Profile(<<>>, "VersionTLS13"),
     Profile(<<"unsupported">>, "VersionTLS12")}

(***************************************************************************)
(* Image references: registry with or without a port, path, then nothing,  *)
(* a tag or a digest.                                                      *)
(***************************************************************************)
Hosts == {<<>>, <<"quay.io", "/">>, <<"localhost", ":", "5000", "/">>}
Paths == {<<"speaker">>, <<"metallb", "/", "speaker">>}

\* The minimum version of the network operator is that of the first build, "-0".
First17 == [release |-> 17, pre |-> <<0>>]

\* The images of one environment share a repository and differ in what follows it.
Suffix ==
    [CONTROLLER_IMAGE |-> <<>>, SPEAKER_IMAGE |-> <<":", "v1">>, FRR_IMAGE |-> <<"@sha256", ":", "d1">>]

GoodEnv(repository) ==
    [v \in Mandatory |-> IF v \in Images THEN repository \o Suffix[v] ELSE "set"]
        @@ [TLS_CURVE_PREFERENCES |-> <<29, 23>>, CNO_MIN_FRRK8S_VERSION |-> First17]

With(v, value) == (v :> value) @@ GoodEnv(<<"speaker">>)

\* Sound environments and three the operator refuses to start with.
MCEnvs ==
    {GoodEnv(h \o p) : h \in Hosts, p \in Paths}
        \cup {With("METRICS_PORT", Garbage), With("CNO_MIN_FRRK8S_VERSION", Garbage),
              With("DEPLOY_PODMONITORS", "true") @@ ("DEPLOY_SERVICEMONITORS" :> "true")}

OpenShiftGroups == {"apps", "route.openshift.io"}

\* Releases are numbered; prereleases are up to two identifiers.
Pres == {<<>>} \cup {<<a>> : a \in {0, 1, 100, 101}} \cup {<<a, b>> : a \in {0, 100}, b \in {0, 100}}
Vers == [release : 16 .. 18, pre : Pres]

Named(n, v) == [name |-> n, version |-> v]

\* What the network operator reports: its version among others, or none that parses.
MCReports ==
    {<<Named("other", Garbage), Named("operator", v), Named("operator", Garbage)>> : v \in Vers}
        \cup {<<Named("operator", Garbage)>>, <<Named("other", First17)>>}
=============================================================================
