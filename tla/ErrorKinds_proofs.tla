-------------------------- MODULE ErrorKinds_proofs --------------------------
(***************************************************************************)
(* What the translations of an error depend on, for an error of any depth. *)
(***************************************************************************)
EXTENDS ErrorKinds, FiniteSetTheorems, SequenceTheorems, TLAPS

\* Among places of a chain there is an outermost one.
LEMMA OutermostExists ==
    ASSUME NEW S \in SUBSET Nat, S # {}
    PROVE  Min(S) \in S /\ \A i \in S : Min(S) <= i
<1> DEFINE UpTo(n) == S \cap (0 .. n)
           less == StrictSubsetOrdering(S)
           cuts == {UpTo(n) : n \in S}
<1>1. cuts \subseteq FiniteSubsetsOf(S) /\ cuts # {}
    <2>1. ASSUME NEW n \in S PROVE UpTo(n) \in FiniteSubsetsOf(S)
        <3>1. IsFiniteSet(0 .. n)
            BY FS_Interval
        <3>2. IsFiniteSet(UpTo(n))
            BY <3>1, FS_Intersection
        <3> QED  BY <3>2 DEF FiniteSubsetsOf
    <2> QED  BY <2>1
<1>2. IsWellFoundedOn(less, FiniteSubsetsOf(S))
    BY FS_StrictSubsetOrderingWellFounded
<1>3. \E x \in cuts : \A y \in cuts : ~ (<<y, x>> \in less)
    <2> HIDE DEF cuts, less
    <2> QED  BY <1>1, <1>2, WFMin
<1>4. PICK m \in S : \A n \in S : ~ (<<UpTo(n), UpTo(m)>> \in less)
    BY <1>3
<1>5. ASSUME NEW i \in S PROVE m <= i
    <2>1. SUFFICES ASSUME i < m PROVE FALSE
        OBVIOUS
    <2>2. UpTo(i) \subseteq UpTo(m) /\ m \in UpTo(m) /\ m \notin UpTo(i)
        BY <2>1
    <2>3. <<UpTo(i), UpTo(m)>> \in less
        BY <2>2 DEF StrictSubsetOrdering
    <2> QED  BY <1>4, <2>3
<1> QED  BY <1>5 DEF Min

\* The outermost envelope of a chain gives its kind.
LEMMA AsOutermost ==
    ASSUME NEW err \in Seq(Link), NEW i \in DOMAIN err, err[i] # "plain",
           \A j \in DOMAIN err : j < i => err[j] = "plain"
    PROVE  As(err) = err[i]
<1>1. DOMAIN err \subseteq Nat
    BY LenProperties
<1>2. i \in Envelopes(err) /\ Envelopes(err) \in SUBSET Nat
    BY <1>1 DEF Envelopes
<1>3. Min(Envelopes(err)) \in Envelopes(err) /\ Min(Envelopes(err)) <= i
    BY <1>2, OutermostExists
<1>4. Min(Envelopes(err)) = i
    BY <1>1, <1>2, <1>3 DEF Envelopes
<1> QED  BY <1>2, <1>4 DEF As

LEMMA AsNone ==
    ASSUME NEW err \in Seq(Link), \A j \in DOMAIN err : err[j] = "plain"
    PROVE  As(err) = "none"
    BY DEF As, Envelopes

\* Every chain is of one of these two forms.
LEMMA OutermostOrNone ==
    ASSUME NEW err \in Seq(Link)
    PROVE  \/ \A j \in DOMAIN err : err[j] = "plain"
           \/ \E i \in DOMAIN err : /\ err[i] # "plain"
                                    /\ \A j \in DOMAIN err : j < i => err[j] = "plain"
<1>1. DOMAIN err \subseteq Nat /\ Envelopes(err) \in SUBSET Nat
    BY LenProperties DEF Envelopes
<1>2. CASE Envelopes(err) # {}
    <2>1. PICK m \in Envelopes(err) : \A j \in Envelopes(err) : m <= j
        BY <1>1, <1>2, OutermostExists
    <2>2. m \in DOMAIN err /\ err[m] # "plain"
        BY DEF Envelopes
    <2>3. ASSUME NEW j \in DOMAIN err, j < m PROVE err[j] = "plain"
        BY <1>1, <2>1, <2>2, <2>3 DEF Envelopes
    <2> QED  BY <2>2, <2>3
<1>3. CASE Envelopes(err) = {}
    BY <1>3 DEF Envelopes
<1> QED  BY <1>2, <1>3

LEMMA AsType ==
    ASSUME NEW err \in Seq(Link)
    PROVE  As(err) \in Kind \cup {"none"}
<1>1. \A i \in DOMAIN err : err[i] \in Link
    BY LenProperties, ElementOfSeq
<1>2. ASSUME NEW i \in DOMAIN err, err[i] # "plain",
             \A j \in DOMAIN err : j < i => err[j] = "plain"
      PROVE  As(err) \in Kind
    BY <1>1, <1>2, AsOutermost DEF Link
<1>3. ASSUME \A j \in DOMAIN err : err[j] = "plain" PROVE As(err) = "none"
    BY <1>3, AsNone
<1> QED  BY <1>2, <1>3, OutermostOrNone

\* An error counts as the service's own exactly if whatever else is in its chain
\* lies inside an internal envelope, or if there is no envelope at all.
LEMMA FaultOfOurs ==
    ASSUME NEW err \in Seq(Link)
    PROVE  As(err) \in {"none", "internal"} <=>
               \A i \in DOMAIN err :
                   err[i] \in {"plain", "internal"} \/ \E j \in 1 .. (i - 1) : err[j] = "internal"
<1>1. DOMAIN err = 1 .. Len(err) /\ Len(err) \in Nat /\ \A i \in DOMAIN err : err[i] \in Link
    BY LenProperties, ElementOfSeq
<1>2. CASE \A j \in DOMAIN err : err[j] = "plain"
    BY <1>2, AsNone
<1>3. ASSUME NEW i \in DOMAIN err, err[i] # "plain",
             \A j \in DOMAIN err : j < i => err[j] = "plain"
      PROVE  As(err) \in {"none", "internal"} <=>
                 \A k \in DOMAIN err :
                     err[k] \in {"plain", "internal"} \/ \E j \in 1 .. (k - 1) : err[j] = "internal"
    <2>1. As(err) = err[i] /\ err[i] \in Kind
        BY <1>1, <1>3, AsOutermost DEF Link
    <2>2. CASE err[i] = "internal"
        <3>1. ASSUME NEW k \in DOMAIN err
              PROVE  err[k] \in {"plain", "internal"} \/ \E j \in 1 .. (k - 1) : err[j] = "internal"
            BY <1>1, <1>3, <2>2
        <3> QED  BY <2>1, <2>2, <3>1
    <2>3. CASE err[i] # "internal"
        <3>1. \A j \in 1 .. (i - 1) : err[j] = "plain"
            BY <1>1, <1>3
        <3> QED  BY <1>3, <2>1, <2>3, <3>1 DEF Kind
    <2> QED  BY <2>2, <2>3
<1> QED  BY <1>2, <1>3, OutermostOrNone

\* To wrap an error with fmt.Errorf changes nothing that a client reads.
THEOREM WrappingKeepsTheAnswer ==
    ASSUME NEW err \in Seq(Link), err # <<>>
    PROVE  /\ ToStatus(Wrap("plain", err)) = ToStatus(err)
           /\ ToGraphQLError(Wrap("plain", err)) = ToGraphQLError(err)
<1> DEFINE w == Wrap("plain", err)
<1>1. <<"plain">> \in Seq(Link) /\ Len(<<"plain">>) = 1 /\ <<"plain">>[1] = "plain"
    BY DEF Link
<1>2. DOMAIN err = 1 .. Len(err) /\ Len(err) \in Nat
    BY LenProperties
<1>3. /\ w \in Seq(Link) /\ Len(w) = 1 + Len(err)
      /\ \A i \in 1 .. 1 + Len(err) : w[i] = IF i <= 1 THEN <<"plain">>[i] ELSE err[i - 1]
    BY <1>1, ConcatProperties DEF Wrap
<1>4. DOMAIN w = 1 .. 1 + Len(err) /\ w # <<>>
    BY <1>2, <1>3, LenProperties
<1> HIDE DEF w
<1>5. w[1] = "plain" /\ \A i \in 1 .. Len(err) : w[i + 1] = err[i]
    BY <1>1, <1>2, <1>3
<1>6. As(w) = As(err)
    <2>1. CASE \A j \in DOMAIN err : err[j] = "plain"
        <3>1. ASSUME NEW j \in DOMAIN w PROVE w[j] = "plain"
            <4>1. CASE j = 1
                BY <1>5, <4>1
            <4>2. CASE j # 1
                <5>1. j - 1 \in DOMAIN err /\ w[j] = err[j - 1]
                    BY <1>2, <1>3, <1>4, <4>2
                <5> QED  BY <2>1, <5>1
            <4> QED  BY <4>1, <4>2
        <3> QED  BY <1>3, <2>1, <3>1, AsNone
    <2>2. ASSUME NEW i \in DOMAIN err, err[i] # "plain",
                 \A j \in DOMAIN err : j < i => err[j] = "plain"
          PROVE  As(w) = As(err)
        <3>1. i + 1 \in DOMAIN w /\ w[i + 1] = err[i]
            BY <1>2, <1>4, <1>5
        <3>2. ASSUME NEW j \in DOMAIN w, j < i + 1 PROVE w[j] = "plain"
            <4>1. CASE j = 1
                BY <1>5, <4>1
            <4>2. CASE j # 1
                <5>1. j - 1 \in DOMAIN err /\ j - 1 < i /\ w[j] = err[j - 1]
                    BY <1>2, <1>3, <1>4, <3>2, <4>2
                <5> QED  BY <2>2, <5>1
            <4> QED  BY <4>1, <4>2
        <3>3. As(w) = w[i + 1]
            BY <1>3, <2>2, <3>1, <3>2, AsOutermost
        <3>4. As(err) = err[i]
            BY <2>2, AsOutermost
        <3> QED  BY <3>1, <3>3, <3>4
    <2> QED  BY <2>1, <2>2, OutermostOrNone
<1> QED  BY <1>4, <1>6 DEF ToStatus, ToGraphQLError, IsKind, w

\* An envelope decides what clients read, whatever it is put around.
THEOREM EnvelopeDecides ==
    ASSUME NEW err \in Seq(Link), NEW kind \in Kind
    PROVE  As(Wrap(kind, err)) = kind
<1> DEFINE w == Wrap(kind, err)
<1>1. <<kind>> \in Seq(Link) /\ Len(<<kind>>) = 1 /\ <<kind>>[1] = kind
    BY DEF Link
<1>2. Len(err) \in Nat
    BY LenProperties
<1>3. /\ w \in Seq(Link) /\ Len(w) = 1 + Len(err)
      /\ \A i \in 1 .. 1 + Len(err) : w[i] = IF i <= 1 THEN <<kind>>[i] ELSE err[i - 1]
    BY <1>1, ConcatProperties DEF Wrap
<1>4. DOMAIN w = 1 .. 1 + Len(err)
    BY <1>3, LenProperties
<1> HIDE DEF w
<1>5. 1 \in DOMAIN w /\ w[1] = kind /\ kind # "plain" /\ \A j \in DOMAIN w : ~(j < 1)
    BY <1>1, <1>2, <1>3, <1>4 DEF Kind
<1>6. As(w) = kind
    BY <1>3, <1>5, AsOutermost
<1> QED  BY <1>6 DEF w
=============================================================================
