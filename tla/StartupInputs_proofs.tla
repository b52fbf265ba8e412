------------------------ MODULE StartupInputs_proofs ------------------------
(***************************************************************************)
(* What the operator makes of its inputs, for every text and every version *)
(* there may be.                                                           *)
(***************************************************************************)
EXTENDS StartupInputs, SequenceTheorems, TLAPS

\* The first and the latest place of a set, when there is one.
LEMMA FirstIs ==
    ASSUME NEW S, NEW c \in S, \A j \in S : j \in Int /\ c <= j
    PROVE  First(S) = c
<1> DEFINE P(i) == i \in S /\ \A j \in S : i <= j
<1>1. P(c)
  OBVIOUS
<1>2. \A i : P(i) => i = c
  OBVIOUS
<1>3. First(S) = CHOOSE i : P(i)
  BY DEF First
<1> QED
  BY <1>1, <1>2, <1>3

\* The latest place is where it is.
LEMMA LatestIs ==
    ASSUME NEW S, NEW b \in S \cup {0}, b \in Nat, \A j \in S : j \in Nat /\ j <= b
    PROVE  Latest(S) = b
<1> DEFINE P(i) == i \in S \cup {0} /\ \A j \in S : j <= i
<1>1. P(b)
  OBVIOUS
<1>2. \A i : P(i) => i = b
  OBVIOUS
<1>3. Latest(S) = CHOOSE i : P(i)
  BY DEF Latest
<1> QED
  BY <1>1, <1>2, <1>3

(***************************************************************************)
(* getImageNameTag and the charts' join keep every reference of the shape  *)
(* registries use, and add the chart's version to one without a tag.       *)
(***************************************************************************)
LEMMA ReferencePlaces ==
    ASSUME NEW S, NEW ref \in Seq(S), NEW b \in 0 .. Len(ref), NEW n \in b .. Len(ref),
           Reference(ref, b, n)
    PROVE  /\ Latest(Places(ref, "/")) = b
           /\ {i \in Places(ref, ":") : i > b} = IF n < Len(ref) THEN {n + 1} ELSE {}
<1>1. DOMAIN ref = 1 .. Len(ref) /\ Len(ref) \in Nat
  BY LenProperties
<1>2. \A i \in 1 .. Len(ref) : i > b =>
        /\ ref[i] # "/"
        /\ ref[i] = ":" <=> i = n + 1
  <2> SUFFICES ASSUME NEW i \in 1 .. Len(ref), i > b
               PROVE  ref[i] # "/" /\ (ref[i] = ":" <=> i = n + 1)
    OBVIOUS
  <2>1. CASE i <= n
    BY <1>1, <2>1 DEF Reference, Plain
  <2>2. CASE i = n + 1
    BY <1>1, <2>2 DEF Reference
  <2>3. CASE i > n + 1
    BY <1>1, <2>3 DEF Reference, Plain
  <2> QED
    BY <1>1, <2>1, <2>2, <2>3
<1>3. b \in Places(ref, "/") \cup {0} /\ b \in Nat
  BY <1>1 DEF Reference, Places
<1>4. \A j \in Places(ref, "/") : j \in Nat /\ j <= b
  BY <1>1, <1>2 DEF Places
<1>5. Latest(Places(ref, "/")) = b
  BY <1>3, <1>4, LatestIs
<1>6. {i \in Places(ref, ":") : i > b} = IF n < Len(ref) THEN {n + 1} ELSE {}
  BY <1>1, <1>2 DEF Places
<1> QED
  BY <1>5, <1>6

LEMMA ReferenceKept ==
    ASSUME NEW S, ":" \in S, NEW ref \in Seq(S), NEW version \in Seq(S),
           NEW b \in 0 .. Len(ref), NEW n \in b .. Len(ref), Reference(ref, b, n)
    PROVE  Rendered(getImageNameTag(ref), version)
               = ref \o (IF n = Len(ref) THEN <<":">> \o version ELSE <<>>)
<1> DEFINE colons == {i \in Places(ref, ":") : i > b}
           colon  == <<":">>
           L      == Len(ref)
<1>1. Latest(Places(ref, "/")) = b /\ colons = IF n < L THEN {n + 1} ELSE {}
  BY ReferencePlaces
<1>2. colon \in Seq(S) /\ Len(colon) = 1 /\ L \in Nat
  BY LenProperties
<1>3. CASE n = L
  <2>1. getImageNameTag(ref) = [repo |-> ref, tag |-> <<>>]
    BY <1>1, <1>3 DEF getImageNameTag
  <2>2. Rendered(getImageNameTag(ref), version) = (ref \o colon) \o version
    BY <2>1 DEF Rendered
  <2> QED
    BY <1>2, <1>3, <2>2, ConcatAssociative
<1>4. CASE n < L
  <2>1. colons = {n + 1} /\ n + 1 \in Int
    BY <1>1, <1>2, <1>4
  <2>2. First(colons) = n + 1
    <3>1. n + 1 \in colons /\ \A j \in colons : j \in Int /\ n + 1 <= j
      BY <2>1
    <3> QED
      BY <3>1, FirstIs
  <2>3. getImageNameTag(ref) = [repo |-> SubSeq(ref, 1, n), tag |-> SubSeq(ref, n + 2, L)]
    <3>1. colons # {} /\ colons \ {n + 1} = {}
      BY <2>1
    <3>2. getImageNameTag(ref) = [repo |-> UpTo(ref, (n + 1) - 1), tag |-> SubSeq(ref, (n + 1) + 1, L)]
      BY <1>1, <2>2, <3>1 DEF getImageNameTag
    <3>3. (n + 1) - 1 = n /\ (n + 1) + 1 = n + 2
      BY <1>2
    <3> QED
      BY <3>2, <3>3 DEF UpTo
  <2>4. n + 1 < L /\ ref[n + 1] = ":"
    BY <1>4 DEF Reference
  <2>5. \A i \in 1 .. L : ref[i] \in S
    BY ElementOfSeq
  <2>6. SubSeq(ref, 1, n) \in Seq(S) /\ SubSeq(ref, n + 2, L) \in Seq(S)
        /\ SubSeq(ref, n + 2, L) # <<>>
    <3>1. SubSeq(ref, 1, n) \in Seq(S)
      BY <1>2, <1>4, <2>5, SubSeqProperties
    <3>2. SubSeq(ref, n + 2, L) \in Seq(S) /\ Len(SubSeq(ref, n + 2, L)) = L - (n + 2) + 1
      BY <1>2, <2>4, <2>5, SubSeqProperties
    <3>3. Len(SubSeq(ref, n + 2, L)) # 0
      BY <1>2, <2>4, <3>2
    <3> QED
      BY <3>1, <3>2, <3>3, EmptySeq
  <2>7. Rendered(getImageNameTag(ref), version) = (SubSeq(ref, 1, n) \o colon) \o SubSeq(ref, n + 2, L)
    <3> DEFINE image == [repo |-> SubSeq(ref, 1, n), tag |-> SubSeq(ref, n + 2, L)]
    <3>1. image.repo = SubSeq(ref, 1, n) /\ image.tag = SubSeq(ref, n + 2, L)
      OBVIOUS
    <3>2. image.tag # <<>>
      BY <2>6, <3>1
    <3> HIDE DEF image
    <3>3. Rendered(image, version) = (image.repo \o colon) \o image.tag
      BY <3>2 DEF Rendered
    <3> QED
      BY <2>3, <3>1, <3>3 DEF image
  <2>8. (SubSeq(ref, 1, n) \o colon) \o SubSeq(ref, n + 2, L)
            = SubSeq(ref, 1, n) \o (colon \o SubSeq(ref, n + 2, L))
    <3> SUFFICES ASSUME NEW q \in Seq(S), NEW r \in Seq(S)
                 PROVE  (q \o colon) \o r = q \o (colon \o r)
      BY <2>6
    <3> QED
      BY <1>2, ConcatAssociative
  <2>9. colon \o SubSeq(ref, n + 2, L) = SubSeq(ref, n + 1, L)
    <3>1. SubSeq(ref, n + 1, L) = << ref[n + 1] >> \o SubSeq(ref, (n + 1) + 1, L)
      BY <1>2, <2>4, SubSeqRecursiveFirst
    <3>2. (n + 1) + 1 = n + 2
      BY <1>2
    <3> QED
      BY <2>4, <3>1, <3>2
  <2>10. SubSeq(ref, 1, n) \o SubSeq(ref, n + 1, L) = ref
    <3>1. SubSeq(ref, 1, n) \o SubSeq(ref, n + 1, L) = SubSeq(ref, 1, L)
      <4>1. 1 \in 1 .. L + 1 /\ n \in 1 - 1 .. L /\ L \in n .. L
        BY <1>2, <1>4
      <4> QED
        BY <4>1, ConcatAdjacentSubSeq
    <3> QED
      BY <3>1, SubSeqFull
  <2>11. ref \o <<>> = ref
    BY ConcatEmptySeq
  <2> QED
    <3>1. Rendered(getImageNameTag(ref), version) = ref
      BY <2>7, <2>8, <2>9, <2>10
    <3>2. (IF n = L THEN colon \o version ELSE <<>>) = <<>>
      BY <1>2, <1>4
    <3> QED
      BY <2>11, <3>1, <3>2
<1> QED
  BY <1>2, <1>3, <1>4

-----------------------------------------------------------------------------
(***************************************************************************)
(* No prerelease precedes the one of a first build.                        *)
(***************************************************************************)
LEMMA FirstBuild ==
    ASSUME NEW p \in Seq(Nat)
    PROVE  ~PreLess(p, <<0>>)
<1>1. <<0>> # <<>> /\ Len(<<0>>) = 1 /\ DOMAIN <<0>> = {1} /\ <<0>>[1] = 0
  OBVIOUS
<1>2. ~(p # <<>> /\ IsStrictPrefix(p, <<0>>))
  BY <1>1, LenProperties DEF IsStrictPrefix, IsPrefix
<1>3. \A i \in DOMAIN p \cap DOMAIN <<0>> : ~(p[i] < <<0>>[i])
  BY <1>1, LenProperties
<1> QED
  BY <1>1, <1>2, <1>3 DEF PreLess

(***************************************************************************)
(* cnoSupportsFRRK8s looks at the first version named "operator" only.     *)
(***************************************************************************)
LEMMA FirstOperator ==
    ASSUME NEW S, NEW r \in Seq(S), NEW i \in DOMAIN r, r[i].name = "operator",
           r[i].version # Garbage, \A j \in 1 .. i - 1 : r[j].name # "operator", NEW minimum
    PROVE  cnoSupportsFRRK8s(r, minimum) = ~LessThan(r[i].version, minimum)
<1>1. DOMAIN r = 1 .. Len(r) /\ Len(r) \in Nat
  BY LenProperties
<1>2. i \in Operators(r) /\ \A j \in Operators(r) : j \in Int /\ i <= j
  BY <1>1 DEF Operators
<1>3. First(Operators(r)) = i
  BY <1>2, FirstIs
<1> QED
  BY <1>2, <1>3 DEF cnoSupportsFRRK8s
=============================================================================
