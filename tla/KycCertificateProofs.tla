----------------------- MODULE KycCertificateProofs ------------------------
(* Theorems about KycCertificate and TrustChain, for any codec, keys, names, *)
(* values put, certificates and issuers.                                    *)
EXTENDS KycCertificate, SequenceTheorems, FiniteSetTheorems, NaturalsInduction, TLAPS

(* Least and greatest indices *)

LEMMA FirstIndex ==
    ASSUME NEW S \in SUBSET Nat, S # {}
    PROVE  \E i \in S : \A j \in S : i <= j
<1>1. IsWellFoundedOn(OpToRel(<, Nat), Nat)
    BY NatLessThanWellFounded
<1>2. PICK i \in S : \A j \in S : <<j, i>> \notin OpToRel(<, Nat)
    BY <1>1, WFMin
<1>3. \A j \in S : ~(j < i)
    BY <1>2 DEF OpToRel
<1> QED
    BY <1>3

LEMMA LastIndex ==
    ASSUME NEW n \in Nat, NEW S \in SUBSET (1..n), S # {}
    PROVE  \E i \in S : \A j \in S : j <= i
<1> DEFINE T == {k \in Nat : n - k \in S}
<1>1. PICK s \in S : TRUE
    OBVIOUS
<1>2. n - s \in T
    OBVIOUS
<1>3. T # {} /\ T \in SUBSET Nat
    BY <1>2
<1>4. PICK k \in T : \A m \in T : k <= m
    <2> HIDE DEF T
    <2> QED
        BY <1>3, FirstIndex
<1>5. n - k \in S /\ k \in Nat
    BY <1>4
<1>6. ASSUME NEW j \in S PROVE j <= n - k
    <2>1. j \in 1..n
        OBVIOUS
    <2>2. n - j \in Nat /\ n - (n - j) = j
        BY <2>1
    <2>3. n - j \in T
        BY <2>2
    <2> HIDE DEF T
    <2>4. k <= n - j
        BY <1>4, <2>3
    <2> QED
        BY <1>5, <2>1, <2>4
<1> QED
    BY <1>5, <1>6

(* Sequences *)

LEMMA SequenceShape ==
    ASSUME NEW s, IsSequence(s)
    PROVE  Len(s) \in Nat /\ DOMAIN s = 1..Len(s)
BY LenProperties DEF IsSequence

LEMMA AppendShape ==
    ASSUME NEW S, NEW s \in Seq(S), NEW e \in S
    PROVE  /\ Append(s, e) \in Seq(S)
           /\ Len(s) \in Nat
           /\ Len(Append(s, e)) = Len(s) + 1
           /\ Append(s, e)[Len(s) + 1] = e
           /\ \A i \in 1..Len(s) : Append(s, e)[i] = s[i]
           /\ DOMAIN s = 1..Len(s)
           /\ DOMAIN Append(s, e) = 1..(Len(s) + 1)
<1>1. /\ Append(s, e) \in Seq(S) /\ Len(s) \in Nat /\ Len(Append(s, e)) = Len(s) + 1
    OBVIOUS
<1>2. /\ Append(s, e)[Len(s) + 1] = e
      /\ \A i \in 1..Len(s) : Append(s, e)[i] = s[i]
    OBVIOUS
<1>3. DOMAIN s = 1..Len(s) /\ DOMAIN Append(s, e) = 1..(Len(s) + 1)
    BY <1>1, LenProperties
<1> QED
    BY <1>1, <1>2, <1>3

\* A function on 1..n is a sequence of n elements.
LEMMA Listing ==
    ASSUME NEW n \in Nat, NEW s, s = [i \in 1..n |-> s[i]]
    PROVE  IsSequence(s) /\ Len(s) = n /\ DOMAIN s = 1..n
<1> DEFINE S == {s[i] : i \in 1..n}
<1>1. DOMAIN s = 1..n
    OBVIOUS
<1>2. s \in [1..n -> S]
    OBVIOUS
<1>3. s \in Seq(S)
    BY <1>2, SeqDef
<1>4. 1..n = 1..Len(s) /\ Len(s) \in Nat
    BY <1>1, <1>3, LenProperties
<1>5. n = Len(s)
    BY <1>4
<1> QED
    BY <1>1, <1>3, <1>5 DEF IsSequence

LEMMA AppendIsSequence ==
    ASSUME NEW s, IsSequence(s), NEW e
    PROVE  /\ IsSequence(Append(s, e))
           /\ Len(s) \in Nat /\ DOMAIN s = 1..Len(s)
           /\ Len(Append(s, e)) = Len(s) + 1
           /\ DOMAIN Append(s, e) = 1..(Len(s) + 1)
           /\ Append(s, e)[Len(s) + 1] = e
           /\ \A i \in DOMAIN s : Append(s, e)[i] = s[i]
<1> DEFINE S == {s[i] : i \in DOMAIN s} \cup {e}
           t == Append(s, e)
<1>1. s \in Seq(S) /\ e \in S
    BY SeqMonotonic DEF IsSequence
<1> HIDE DEF S
<1>2. /\ t \in Seq(S) /\ Len(s) \in Nat /\ Len(t) = Len(s) + 1
      /\ t[Len(s) + 1] = e
      /\ \A i \in 1..Len(s) : t[i] = s[i]
      /\ DOMAIN s = 1..Len(s)
      /\ DOMAIN t = 1..(Len(s) + 1)
    BY <1>1, AppendShape
<1>3. t = [i \in 1..Len(t) |-> t[i]]
    BY <1>2, LenProperties
<1>4. Len(t) \in Nat
    BY <1>2
<1> HIDE DEF t
<1>5. IsSequence(t)
    BY <1>3, <1>4, Listing
<1> QED
    BY <1>2, <1>5 DEF t

(* Results *)

LEMMA FirstOfTwo ==
    ASSUME NEW a, NEW b
    PROVE  FirstGood(<<a, b>>) = IF a # Bad THEN a ELSE b
<1> DEFINE two == <<a, b>>
           good == {i \in DOMAIN two : ~Failed(two[i])}
           first == CHOOSE i \in good : \A j \in good : i <= j
<1>1. DOMAIN two = {1, 2} /\ two[1] = a /\ two[2] = b
    OBVIOUS
<1> HIDE DEF two
<1>2. FirstGood(two) = IF good = {} THEN Bad ELSE two[first]
    BY DEF FirstGood
<1>3. CASE a # Bad
    <2>1. 1 \in good /\ good \subseteq {1, 2}
        BY <1>1, <1>3 DEF Failed
    <2>2. \A j \in good : 1 <= j
        <3> HIDE DEF good
        <3> QED
            BY <2>1
    <2>3. \A i \in good : (\A j \in good : i <= j) => i = 1
        <3> HIDE DEF good
        <3> QED
            BY <2>1
    <2>4. first = 1
        <3> HIDE DEF good
        <3> QED
            BY <2>1, <2>2, <2>3
    <2> QED
        BY <1>1, <1>2, <1>3, <2>1, <2>4 DEF two
<1>4. CASE a = Bad /\ b # Bad
    <2>1. good = {2}
        BY <1>1, <1>4 DEF Failed
    <2>2. first = 2
        <3> HIDE DEF good
        <3> QED
            BY <2>1
    <2> QED
        BY <1>1, <1>2, <1>4, <2>1, <2>2 DEF two
<1>5. CASE a = Bad /\ b = Bad
    <2>1. good = {}
        BY <1>1, <1>5 DEF Failed
    <2> QED
        BY <1>1, <1>2, <1>5, <2>1 DEF two
<1> QED
    BY <1>3, <1>4, <1>5

\* What is found by an identifier has it.
LEMMA FoundByOid ==
    ASSUME NEW s, IsSequence(s), NEW oid
    PROVE  /\ (\A i \in DOMAIN s : s[i].oid # oid) => FindByOid(s, oid) = Bad
           /\ (\E i \in DOMAIN s : s[i].oid = oid) =>
                 \E i \in DOMAIN s : s[i].oid = oid /\ FindByOid(s, oid) = s[i]
<1> DEFINE at == {i \in DOMAIN s : s[i].oid = oid}
           first == CHOOSE i \in at : \A j \in at : i <= j
<1>1. FindByOid(s, oid) = IF at = {} THEN Bad ELSE s[first]
    BY DEF FindByOid
<1>2. ASSUME at # {} PROVE first \in at
    <2>1. at \in SUBSET Nat
        BY SequenceShape
    <2> HIDE DEF at
    <2> QED
        BY <1>2, <2>1, FirstIndex
<1> QED
    BY <1>1, <1>2

\* What is got is an attribute of the certificate, or none.
LEMMA GotIsThere ==
    ASSUME NEW c, IsSequence(c.attributes), NEW n
    PROVE  \/ GetAttribute(c, n) = Bad
           \/ \E i \in DOMAIN c.attributes : GetAttribute(c, n) = c.attributes[i]
<1> DEFINE Found(oids) == IF n \in DOMAIN oids
                          THEN FindByOid(c.attributes, oids[n]) ELSE Bad
<1>1. \A oid : \/ FindByOid(c.attributes, oid) = Bad
               \/ \E i \in DOMAIN c.attributes : FindByOid(c.attributes, oid) = c.attributes[i]
    BY FoundByOid
<1>2. GetAttribute(c, n) = FirstGood(<<Found(SensitiveOid), Found(PlainOid)>>)
    BY DEF GetAttribute
<1>3. GetAttribute(c, n) \in {Found(SensitiveOid), Found(PlainOid)}
    BY <1>2, FirstOfTwo
<1> QED
    BY <1>1, <1>3

-----------------------------------------------------------------------------
(* Trust *)

\* Induction over the numbers in a set, by its least counterexample.
LEMMA Induction ==
    ASSUME NEW T, 0 \in T, \A n \in Nat : n \in T => n + 1 \in T
    PROVE  Nat \subseteq T
<1> DEFINE Missing == {n \in Nat : n \notin T}
<1> SUFFICES ASSUME Missing # {} PROVE FALSE
    OBVIOUS
<1>1. PICK m \in Missing : \A n \in Missing : m <= n
    <2>1. Missing \in SUBSET Nat
        OBVIOUS
    <2> HIDE DEF Missing
    <2> QED
        BY <2>1, FirstIndex
<1>2. m - 1 \in Nat /\ ~(m <= m - 1)
    BY <1>1
<1>3. m - 1 \notin Missing
    BY <1>1, <1>2
<1> QED
    BY <1>1, <1>2, <1>3

Place == Certificate \X SUBSET Certificate

\* How many certificates are left to chain with.
Left(place) == Cardinality(place[2])

LEMMA LeftType ==
    ASSUME NEW v \in Place
    PROVE  Left(v) \in Nat /\ Left(v) <= Cardinality(Certificate)
BY TrustAssumption, FS_Subset, FS_CardinalityType DEF Place, Left

\* The recursion takes the certificate it goes to away from those left.
LEMMA OneLess ==
    ASSUME NEW c \in Certificate, NEW a \in SUBSET Certificate, NEW issuer \in NextIn(c, a)
    PROVE  /\ <<issuer, a \ {issuer}>> \in Place
           /\ Left(<<issuer, a \ {issuer}>>) < Left(<<c, a>>)
<1>1. issuer \in a /\ IsFiniteSet(a)
    BY TrustAssumption, FS_Subset DEF NextIn
<1>2. Cardinality(a \ {issuer}) = Cardinality(a) - 1 /\ Cardinality(a) \in Nat
    BY <1>1, FS_RemoveElement, FS_CardinalityType
<1> QED
    BY <1>1, <1>2 DEF Place, Left

\* The ends depend on those from where fewer are left alone.
LEMMA EndsAlike ==
    ASSUME NEW c \in Certificate, NEW a \in SUBSET Certificate, NEW f, NEW g,
           \A v \in Place : Left(v) < Left(<<c, a>>) => f[v] = g[v]
    PROVE  EndsFrom(f, c, a) = EndsFrom(g, c, a)
<1>1. \A issuer \in NextIn(c, a) : f[<<issuer, a \ {issuer}>>] = g[<<issuer, a \ {issuer}>>]
    BY OneLess
<1>2. UNION {f[<<issuer, a \ {issuer}>>] : issuer \in NextIn(c, a)} =
      UNION {g[<<issuer, a \ {issuer}>>] : issuer \in NextIn(c, a)}
    BY <1>1
<1> QED
    BY <1>2 DEF EndsFrom

\* f satisfies the recursive equation where fewer than n are left.
Solves(f, n) == \A v \in Place : Left(v) < n => f[v] = EndsFrom(f, v[1], v[2])

\* The recursive definition has a solution, so that it may be unfolded.
LEMMA EndsUnfold ==
    ASSUME NEW c \in Certificate, NEW a \in SUBSET Certificate
    PROVE  ChainEnds[<<c, a>>] = EndsFrom(ChainEnds, c, a)
<1> DEFINE Solved == {n \in Nat : \E f : Solves(f, n)}
<1>1. 0 \in Solved
    <2>1. \A v \in Place : ~(Left(v) < 0)
        BY LeftType
    <2>2. Solves(<<>>, 0)
        BY <2>1 DEF Solves
    <2> QED
        BY <2>2
<1>2. ASSUME NEW n \in Nat, n \in Solved PROVE n + 1 \in Solved
    <2>1. PICK f : Solves(f, n)
        BY <1>2
    <2> DEFINE g == [v \in Place |-> EndsFrom(f, v[1], v[2])]
    <2>2. ASSUME NEW v \in Place, Left(v) < n + 1
          PROVE  g[v] = EndsFrom(g, v[1], v[2])
        <3>1. v[1] \in Certificate /\ v[2] \in SUBSET Certificate /\ v = <<v[1], v[2]>>
            BY DEF Place
        <3>2. ASSUME NEW w \in Place, Left(w) < Left(v)
              PROVE  f[w] = g[w]
            <4>1. Left(w) < n
                BY <2>2, <3>2, LeftType
            <4>2. f[w] = EndsFrom(f, w[1], w[2])
                BY <2>1, <4>1 DEF Solves
            <4> QED
                BY <4>2
        <3> HIDE DEF g
        <3>3. EndsFrom(f, v[1], v[2]) = EndsFrom(g, v[1], v[2])
            BY <3>1, <3>2, EndsAlike
        <3> QED
            BY <3>3 DEF g
    <2> HIDE DEF g
    <2>3. Solves(g, n + 1)
        BY <2>2 DEF Solves
    <2> QED
        BY <2>3
<1> HIDE DEF Solved
<1>3. Nat \subseteq Solved
    BY <1>1, <1>2, Induction
<1> DEFINE N == Cardinality(Certificate) + 1
<1>4. N \in Nat /\ \A v \in Place : Left(v) < N
    BY TrustAssumption, FS_CardinalityType, LeftType
<1>5. PICK f : Solves(f, N)
    BY <1>3, <1>4 DEF Solved
<1> DEFINE g == [v \in Place |-> EndsFrom(f, v[1], v[2])]
<1>6. g = [v \in Place |-> EndsFrom(g, v[1], v[2])]
    <2>1. \A v \in Place : f[v] = g[v]
        BY <1>4, <1>5 DEF Solves
    <2> HIDE DEF g
    <2>2. ASSUME NEW v \in Place
          PROVE  EndsFrom(f, v[1], v[2]) = EndsFrom(g, v[1], v[2])
        <3>1. v[1] \in Certificate /\ v[2] \in SUBSET Certificate
            BY DEF Place
        <3>2. \A w \in Place : Left(w) < Left(<<v[1], v[2]>>) => f[w] = g[w]
            BY <2>1
        <3> HIDE DEF N
        <3> QED
            BY <3>1, <3>2, EndsAlike
    <2> QED
        BY <2>2 DEF g
<1> HIDE DEF g
<1>7. ChainEnds = CHOOSE h : h = [v \in Place |-> EndsFrom(h, v[1], v[2])]
    BY DEF ChainEnds, Place
<1>8. ChainEnds = [v \in Place |-> EndsFrom(ChainEnds, v[1], v[2])]
    BY <1>6, <1>7
<1>9. <<c, a>> \in Place
    BY DEF Place
<1> HIDE DEF N
<1> QED
    BY <1>8, <1>9

\* A chain ends in every set that holds its beginning and the issuers at hand of
\* its members.
LEMMA EndsStay ==
    ASSUME NEW hand \in SUBSET Certificate, NEW S \in SUBSET Certificate,
           \A c \in S : NextIn(c, hand) \subseteq S,
           NEW c \in S
    PROVE  ChainEnds[<<c, hand>>] \subseteq S
<1> DEFINE Staying == {n \in Nat : \A x \in S, a \in SUBSET hand :
                          Cardinality(a) <= n => ChainEnds[<<x, a>>] \subseteq S}
<1>1. \A a \in SUBSET hand : IsFiniteSet(a) /\ Cardinality(a) \in Nat
    BY TrustAssumption, FS_Subset, FS_CardinalityType
<1>2. \A x \in S, a \in SUBSET hand :
        /\ x \in Certificate /\ a \in SUBSET Certificate
        /\ NextIn(x, a) \subseteq S
        /\ NextIn(x, a) \subseteq a
    BY DEF NextIn
<1>3. 0 \in Staying
    <2> SUFFICES ASSUME NEW x \in S, NEW a \in SUBSET hand, Cardinality(a) <= 0
                 PROVE  ChainEnds[<<x, a>>] \subseteq S
        OBVIOUS
    <2>1. a = {}
        BY <1>1, FS_EmptySet
    <2>2. NextIn(x, a) = {}
        BY <2>1 DEF NextIn
    <2> QED
        BY <1>2, <2>2, EndsUnfold DEF EndsFrom
<1>4. ASSUME NEW n \in Nat, n \in Staying PROVE n + 1 \in Staying
    <2> SUFFICES ASSUME NEW x \in S, NEW a \in SUBSET hand, Cardinality(a) <= n + 1,
                        NEW end \in ChainEnds[<<x, a>>]
                 PROVE  end \in S
        BY <1>4
    <2>1. ChainEnds[<<x, a>>] = EndsFrom(ChainEnds, x, a)
        BY <1>2, EndsUnfold
    <2>2. CASE NextIn(x, a) = {}
        BY <2>1, <2>2 DEF EndsFrom
    <2>3. CASE NextIn(x, a) # {}
        <3>1. PICK issuer \in NextIn(x, a) : end \in ChainEnds[<<issuer, a \ {issuer}>>]
            <4>1. EndsFrom(ChainEnds, x, a) =
                  UNION {ChainEnds[<<issuer, a \ {issuer}>>] : issuer \in NextIn(x, a)}
                BY <2>3, Zenon DEF EndsFrom
            <4> DEFINE next == {ChainEnds[<<issuer, a \ {issuer}>>] : issuer \in NextIn(x, a)}
            <4>2. PICK ends \in next : end \in ends
                <5> HIDE DEF next
                <5> QED
                    BY <2>1, <4>1 DEF next
            <4> QED
                BY <4>2, Zenon
        <3>2. issuer \in S /\ issuer \in a /\ a \ {issuer} \in SUBSET hand
            BY <1>2
        <3>3. Cardinality(a \ {issuer}) = Cardinality(a) - 1
            BY <1>1, <3>2, FS_RemoveElement
        <3>4. Cardinality(a \ {issuer}) <= n
            BY <1>1, <3>3
        <3> QED
            BY <1>4, <3>1, <3>2, <3>4
    <2> QED
        BY <2>2, <2>3
<1> HIDE DEF Staying
<1>5. Cardinality(hand) \in Staying
    BY <1>1, <1>3, <1>4, Induction
<1> QED
    BY <1>1, <1>5 DEF Staying

LEMMA ChainedIsAnchored ==
    ASSUME NEW r \in Record, NEW moment,
           TRUE \in RecordChainsToRoot(r, Trusted, moment)
    PROVE  Anchored(r, Trusted, moment)
<1> DEFINE hand == r.intermediates \cup Trusted
<1>1. /\ r.certificate \in Certificate /\ hand \in SUBSET Certificate
      /\ moment \in ValidAt[r.certificate]
    BY TrustAssumption DEF RecordChainsToRoot
<1> SUFFICES ASSUME NEW S \in SUBSET Certificate, r.certificate \in S,
                    \A c \in S : Issuers[c] \cap hand \subseteq S
             PROVE  S \cap Trusted # {}
    BY <1>1 DEF Anchored
<1>2. CASE r.certificate \in Trusted
    BY <1>2
<1>3. CASE r.certificate \notin Trusted
    <2>1. PICK end \in ChainEnds[<<r.certificate, hand>>] : end \in Trusted
        BY <1>1, <1>3 DEF RecordChainsToRoot, Anchors
    <2> HIDE DEF hand
    <2>2. \A c \in S : NextIn(c, hand) \subseteq S
        BY DEF NextIn
    <2>3. ChainEnds[<<r.certificate, hand>>] \subseteq S
        BY <1>1, <2>2, EndsStay
    <2> QED
        BY <2>1, <2>3
<1> QED
    BY <1>2, <1>3

LEMMA TrustMeans ==
    ASSUME published \subseteq Record
    PROVE  TrustedIsAnchored
<1> SUFFICES ASSUME NEW moment \in Moment,
                    NEW status \in EvaluatePublishedChain(published, Trusted, moment)
             PROVE  /\ AssertCertificateChain(status) = "Ok" =>
                         \E r \in published : r.readable /\ Anchored(r, Trusted, moment)
                    /\ (\E r \in published : /\ r.readable /\ r.certificate \in Trusted
                                             /\ moment \in ValidAt[r.certificate])
                          => AssertCertificateChain(status) = "Ok"
                    /\ AssertCertificateChain(status) = "Missing" <=> published = {}
    BY DEF TrustedIsAnchored
<1> DEFINE parsed == {r \in published : r.readable}
<1>1. CASE published = {}
    BY <1>1 DEF EvaluatePublishedChain, AssertCertificateChain
<1>2. CASE published # {} /\ parsed = {}
    BY <1>2 DEF EvaluatePublishedChain, AssertCertificateChain
<1>3. CASE parsed # {} /\ Trusted = {}
    BY <1>3 DEF EvaluatePublishedChain, EvaluateCertificateChain, AssertCertificateChain
<1>4. CASE parsed # {} /\ Trusted # {}
    <2>1. status \in EvaluateCertificateChain(parsed, Trusted, moment)
        BY <1>4 DEF EvaluatePublishedChain
    <2>2. /\ status \in {"Trusted", "Untrusted"}
          /\ status = "Trusted" =>
                \E r \in parsed : TRUE \in RecordChainsToRoot(r, Trusted, moment)
          /\ status = "Untrusted" =>
                \A r \in parsed : FALSE \in RecordChainsToRoot(r, Trusted, moment)
        <3> HIDE DEF parsed
        <3> QED
            BY <1>4, <2>1 DEF EvaluateCertificateChain
    <2>3. \A r \in parsed : r.certificate \in Trusted /\ moment \in ValidAt[r.certificate] =>
            RecordChainsToRoot(r, Trusted, moment) = {TRUE}
        BY DEF RecordChainsToRoot, Anchors
    <2>4. /\ AssertCertificateChain("Trusted") = "Ok"
          /\ AssertCertificateChain("Untrusted") = "Untrusted"
        BY DEF AssertCertificateChain
    <2>5. \A r \in parsed : TRUE \in RecordChainsToRoot(r, Trusted, moment) =>
            r \in published /\ r.readable /\ Anchored(r, Trusted, moment)
        BY ChainedIsAnchored
    <2>6. CASE status = "Trusted"
        <3>1. \E r \in published : r.readable /\ Anchored(r, Trusted, moment)
            BY <2>2, <2>5, <2>6
        <3> QED
            BY <1>4, <2>4, <2>6, <3>1
    <2>7. CASE status = "Untrusted"
        <3>1. \A r \in parsed : ~(r.certificate \in Trusted /\ moment \in ValidAt[r.certificate])
            BY <2>2, <2>3, <2>7
        <3> QED
            BY <1>4, <2>4, <2>7, <3>1
    <2> QED
        BY <2>2, <2>6, <2>7
<1> QED
    BY <1>1, <1>2, <1>3, <1>4

-----------------------------------------------------------------------------
(* The builder *)

LEMMA PutTypes ==
    ASSUME NEW p \in Put
    PROVE  /\ p.name \in Name /\ p.entry.sensitive \in BOOLEAN
           /\ p.entry.value \in Offered[p.name]
           /\ p = [name |-> p.name, entry |-> p.entry]
<1>1. PICK n \in Name : p \in [name : {n}, entry : [sensitive : BOOLEAN, value : Offered[n]]]
    BY DEF Put
<1> QED
    BY <1>1

LEMMA AskedIsFinite ==
    ASSUME NEW puts \in Seq(Put)
    PROVE  /\ Asked(puts) \subseteq Name
           /\ IsFiniteSet(Asked(puts)) /\ Cardinality(Asked(puts)) \in Nat
           /\ DOMAIN puts = 1..Len(puts)
<1>1. DOMAIN puts = 1..Len(puts) /\ \A i \in 1..Len(puts) : puts[i] \in Put
    BY LenProperties, ElementOfSeq
<1>2. Asked(puts) \subseteq Name
    BY <1>1, PutTypes DEF Asked
<1> QED
    BY <1>1, <1>2, NameAssumption, FS_Subset, FS_CardinalityType

\* What was put last for a name was put.
LEMMA LastCallIs ==
    ASSUME NEW puts \in Seq(Put), NEW n \in Asked(puts)
    PROVE  \E i \in DOMAIN puts : puts[i].name = n /\ LastCall(puts, n) = puts[i].entry
<1> DEFINE at == {i \in DOMAIN puts : puts[i].name = n}
           last == CHOOSE i \in at : \A j \in at : j <= i
<1>1. Len(puts) \in Nat /\ at \in SUBSET (1..Len(puts)) /\ at # {}
    BY LenProperties DEF Asked
<1>2. last \in at
    <2> HIDE DEF at
    <2> QED
        BY <1>1, LastIndex
<1>3. LastCall(puts, n) = puts[last].entry
    BY DEF LastCall
<1> HIDE DEF last
<1> QED
    BY <1>2, <1>3

LEMMA LastCallTypes ==
    ASSUME NEW puts \in Seq(Put), NEW n \in Asked(puts)
    PROVE  /\ n \in Name
           /\ LastCall(puts, n).sensitive \in BOOLEAN
           /\ LastCall(puts, n).value \in Offered[n]
           /\ (\A i \in DOMAIN puts : KnownAs(puts[i].name, puts[i].entry.sensitive)) =>
                 KnownAs(n, LastCall(puts, n).sensitive)
<1>1. PICK i \in DOMAIN puts : puts[i].name = n /\ LastCall(puts, n) = puts[i].entry
    BY LastCallIs
<1>2. puts[i] \in Put
    BY LenProperties, ElementOfSeq
<1> QED
    BY <1>1, <1>2, PutTypes

\* Putting a name makes it the last one put, and leaves the other names.
LEMMA LastCallAppended ==
    ASSUME NEW puts \in Seq(Put), NEW p \in Put
    PROVE  /\ Asked(Append(puts, p)) = Asked(puts) \cup {p.name}
           /\ LastCall(Append(puts, p), p.name) = p.entry
           /\ \A n \in Asked(puts) \ {p.name} :
                 LastCall(Append(puts, p), n) = LastCall(puts, n)
<1> DEFINE more == Append(puts, p)
           at(s, n) == {i \in DOMAIN s : s[i].name = n}
           last(s, n) == CHOOSE i \in at(s, n) : \A j \in at(s, n) : j <= i
<1>1. /\ Len(puts) \in Nat
      /\ DOMAIN puts = 1..Len(puts) /\ DOMAIN more = 1..(Len(puts) + 1)
      /\ more[Len(puts) + 1] = p
      /\ \A i \in 1..Len(puts) : more[i] = puts[i]
    BY AppendShape
<1> HIDE DEF more
<1>2. Asked(more) = Asked(puts) \cup {p.name}
    BY <1>1 DEF Asked
<1>3. \A s, n : LastCall(s, n) = s[last(s, n)].entry
    BY DEF LastCall
<1>4. LastCall(more, p.name) = p.entry
    <2>1. Len(puts) + 1 \in at(more, p.name) /\ at(more, p.name) \subseteq 1..(Len(puts) + 1)
        BY <1>1
    <2> DEFINE places == at(more, p.name)
    <2> HIDE DEF places
    <2>2. \A j \in places : j <= Len(puts) + 1
        BY <1>1, <2>1 DEF places
    <2>3. \A i \in places : (\A j \in places : j <= i) => i = Len(puts) + 1
        BY <1>1, <2>1, <2>2 DEF places
    <2>4. (CHOOSE i \in places : \A j \in places : j <= i) = Len(puts) + 1
        BY <2>1, <2>2, <2>3 DEF places
    <2>5. last(more, p.name) = Len(puts) + 1
        BY <2>4 DEF places
    <2> QED
        BY <1>1, <1>3, <2>5
<1>5. ASSUME NEW n \in Asked(puts) \ {p.name}
      PROVE  LastCall(more, n) = LastCall(puts, n)
    <2>1. at(more, n) = at(puts, n)
        BY <1>1
    <2>2. last(more, n) = last(puts, n)
        BY <2>1
    <2>3. last(puts, n) \in DOMAIN puts
        <3> DEFINE places == at(puts, n)
        <3>1. places \in SUBSET (1..Len(puts)) /\ places # {}
            BY <1>1 DEF Asked
        <3> HIDE DEF places
        <3>2. (CHOOSE i \in places : \A j \in places : j <= i) \in places
            BY <1>1, <3>1, LastIndex
        <3> QED
            BY <1>1, <3>1, <3>2 DEF places
    <2> HIDE DEF last
    <2> QED
        BY <1>1, <1>3, <2>2, <2>3
<1> QED
    BY <1>2, <1>4, <1>5 DEF more

LEMMA WithAttributeKeeps ==
    ASSUME CertificateInv, NEW name \in Name, NEW sensitive \in BOOLEAN,
           NEW value \in Offered[name], WithAttribute(name, Entry(sensitive, value))
    PROVE  BuilderInv'
<1> DEFINE entry == Entry(sensitive, value)
           p == [name |-> name, entry |-> entry]
<1>1. p \in Put
    BY DEF Put, Entry
<1>2. p.name = name /\ p.entry = entry /\ entry.sensitive = sensitive
    BY DEF Entry
<1>3. calls' = Append(calls, p) /\ calls \in Seq(Put) /\ errors \in BOOLEAN
    BY DEF WithAttribute, CertificateInv, BuilderInv
<1>4. IF KnownAs(name, sensitive)
      THEN /\ entries' = [n \in DOMAIN entries \cup {name} |->
                            IF n = name THEN entry ELSE entries[n]]
           /\ errors' = errors
      ELSE errors' = TRUE
    BY <1>2 DEF WithAttribute
<1> HIDE DEF p, entry
<1>5. /\ calls' \in Seq(Put)
      /\ DOMAIN calls = 1..Len(calls) /\ Len(calls) \in Nat
      /\ DOMAIN calls' = 1..(Len(calls) + 1)
      /\ calls'[Len(calls) + 1] = p
      /\ \A i \in 1..Len(calls) : calls'[i] = calls[i]
    BY <1>1, <1>3, AppendShape
<1>6. errors' \in BOOLEAN
    BY <1>3, <1>4
<1>7. ASSUME ~errors'
      PROVE  /\ \A i \in DOMAIN calls' : KnownAs(calls'[i].name, calls'[i].entry.sensitive)
             /\ entries' = [n \in Asked(calls') |-> LastCall(calls', n)]
    <2>1. KnownAs(name, sensitive) /\ ~errors
        BY <1>4, <1>7
    <2>2. /\ \A i \in DOMAIN calls : KnownAs(calls[i].name, calls[i].entry.sensitive)
          /\ entries = [n \in Asked(calls) |-> LastCall(calls, n)]
        BY <2>1 DEF CertificateInv, BuilderInv
    <2>3. \A i \in DOMAIN calls' : KnownAs(calls'[i].name, calls'[i].entry.sensitive)
        <3> SUFFICES ASSUME NEW i \in 1..(Len(calls) + 1)
                     PROVE  KnownAs(calls'[i].name, calls'[i].entry.sensitive)
            BY <1>5
        <3>1. CASE i = Len(calls) + 1
            BY <1>2, <1>5, <2>1, <3>1
        <3>2. CASE i \in 1..Len(calls)
            BY <1>5, <2>2, <3>2
        <3> QED
            BY <1>5, <3>1, <3>2
    <2>4. /\ Asked(calls') = Asked(calls) \cup {name}
          /\ LastCall(calls', name) = entry
          /\ \A n \in Asked(calls) \ {name} : LastCall(calls', n) = LastCall(calls, n)
        BY <1>1, <1>2, <1>3, LastCallAppended
    <2>5. entries' = [n \in Asked(calls) \cup {name} |->
                        IF n = name THEN entry ELSE LastCall(calls, n)]
        BY <1>4, <2>1, <2>2
    <2>6. entries' = [n \in Asked(calls') |-> LastCall(calls', n)]
        BY <2>4, <2>5
    <2> QED
        BY <2>3, <2>6
<1> QED
    BY <1>5, <1>6, <1>7 DEF BuilderInv

\* A finite set can be gone through in some order.
LEMMA InOrder ==
    ASSUME NEW D, IsFiniteSet(D),
           NEW order, order = CHOOSE s \in [1..Cardinality(D) -> D] :
                                 \A n \in D : \E i \in DOMAIN s : s[i] = n
    PROVE  /\ Cardinality(D) \in Nat
           /\ order \in [1..Cardinality(D) -> D]
           /\ \A n \in D : \E i \in DOMAIN order : order[i] = n
<1>1. Cardinality(D) \in Nat /\ ExistsBijection(1..Cardinality(D), D)
    BY FS_CardinalityType
<1>2. PICK b : b \in Bijection(1..Cardinality(D), D)
    BY <1>1 DEF ExistsBijection
<1>3. /\ b \in [1..Cardinality(D) -> D]
      /\ \A n \in D : \E i \in DOMAIN b : b[i] = n
    BY <1>2 DEF Bijection, Surjection
<1> QED
    BY <1>1, <1>3

LEMMA AttributeBuilt ==
    ASSUME BuilderInv, ~errors, NEW key \in Key, NEW n \in Asked(calls),
           NEW i, i = Len(certificates) + 1,
           NEW c, c.subject = key, c.calls = calls,
           NEW attribute, attribute = BuildAttribute(n, LastCall(calls, n), key),
           attribute # Bad
    PROVE  BuiltFor(i, c, n, attribute)
<1> DEFINE entry == LastCall(calls, n)
           encoded == Encode(TypeOf(n, entry.sensitive), entry.value)
<1>1. entry.sensitive \in BOOLEAN
    BY LastCallTypes DEF BuilderInv
<1>2. encoded # Bad /\ ~(entry.sensitive /\ key \notin Encrypting)
    BY DEF BuildAttribute, Failed, TypeOf
<1>3. attribute = [oid |-> OidAs(n, entry.sensitive), sensitive |-> entry.sensitive,
                   content |-> IF entry.sensitive
                               THEN Seal(key, <<Len(certificates) + 1, n>>, encoded)
                               ELSE encoded]
    BY DEF BuildAttribute, Failed, TypeOf
<1> HIDE DEF encoded
<1>4. /\ attribute.oid = OidAs(n, entry.sensitive)
      /\ attribute.sensitive = entry.sensitive
      /\ attribute.content = IF entry.sensitive THEN Seal(key, <<i, n>>, encoded) ELSE encoded
    BY <1>3
<1> QED
    BY <1>1, <1>2, <1>4 DEF BuiltFor, encoded

\* What is built has what was put last for each name.
LEMMA CertificateBuilt ==
    ASSUME BuilderInv, ~errors, NEW key \in Key,
           NEW i, i = Len(certificates) + 1,
           NEW extension, extension = BuildKycExtension(key), extension # Bad,
           NEW c, c = [attributes |-> extension, subject |-> key, calls |-> calls]
    PROVE  Fulfils(i, c)
<1> DEFINE D == Asked(calls)
           order == CHOOSE s \in [1..Cardinality(D) -> D] :
                       \A n \in D : \E j \in DOMAIN s : s[j] = n
           results == [j \in DOMAIN order |->
                         BuildAttribute(order[j], LastCall(calls, order[j]), key)]
<1>1. /\ calls \in Seq(Put)
      /\ \A j \in DOMAIN calls : KnownAs(calls[j].name, calls[j].entry.sensitive)
      /\ entries = [n \in D |-> LastCall(calls, n)]
    BY DEF BuilderInv
<1>2. IsFiniteSet(D)
    BY <1>1, AskedIsFinite
<1>3. /\ Cardinality(D) \in Nat
      /\ order \in [1..Cardinality(D) -> D]
      /\ \A n \in D : \E j \in DOMAIN order : order[j] = n
    <2> HIDE DEF D
    <2> QED
        BY <1>2, InOrder
<1>4. extension = AllOrBad(results)
    <2>1. DOMAIN entries = D
        BY <1>1
    <2>2. extension = AllOrBad([j \in DOMAIN order |->
                                  BuildAttribute(order[j], entries[order[j]], key)])
        BY <2>1 DEF BuildKycExtension
    <2> HIDE DEF order, D
    <2>3. \A j \in DOMAIN order : entries[order[j]] = LastCall(calls, order[j])
        BY <1>1, <1>3
    <2>4. [j \in DOMAIN order |-> BuildAttribute(order[j], entries[order[j]], key)] = results
        BY <2>3
    <2> QED
        BY <2>2, <2>4
<1> HIDE DEF order
<1>5. extension = results /\ \A j \in DOMAIN results : results[j] # Bad
    BY <1>4 DEF AllOrBad, Failed
<1>6. DOMAIN order = 1..Cardinality(D)
    BY <1>3
<1>7. \A j \in DOMAIN order : order[j] \in D /\ BuiltFor(i, c, order[j], extension[j])
    <2> SUFFICES ASSUME NEW j \in DOMAIN order
                 PROVE  order[j] \in D /\ BuiltFor(i, c, order[j], extension[j])
        OBVIOUS
    <2>1. order[j] \in D
        BY <1>3
    <2>2. /\ extension[j] = BuildAttribute(order[j], LastCall(calls, order[j]), key)
          /\ extension[j] # Bad
        BY <1>5
    <2>3. c.subject = key /\ c.calls = calls
        OBVIOUS
    <2> HIDE DEF results, D
    <2> QED
        BY <2>1, <2>2, <2>3, AttributeBuilt DEF D
<1>8. /\ IsSequence(extension) /\ Len(extension) = Cardinality(D)
      /\ DOMAIN extension = DOMAIN order
    <2>1. extension = [j \in 1..Cardinality(D) |-> extension[j]]
        BY <1>5, <1>6
    <2> HIDE DEF D, results
    <2> QED
        BY <1>3, <1>6, <2>1, Listing
<1>9. c.subject = key /\ c.calls = calls /\ c.attributes = extension
    OBVIOUS
<1> HIDE DEF results
<1>10. /\ \A j \in DOMAIN extension : \E n \in D : BuiltFor(i, c, n, extension[j])
       /\ \A n \in D : \E j \in DOMAIN extension : BuiltFor(i, c, n, extension[j])
    <2> HIDE DEF D
    <2> QED
        BY <1>3, <1>7, <1>8
<1> QED
    BY <1>1, <1>8, <1>9, <1>10 DEF Fulfils

-----------------------------------------------------------------------------
(* What is got from a certificate that was built *)

LEMMA OidsApart ==
    ASSUME NEW m \in Name, NEW n \in Name, NEW s \in BOOLEAN, NEW t \in BOOLEAN,
           KnownAs(m, s), KnownAs(n, t), OidAs(m, s) = OidAs(n, t)
    PROVE  m = n /\ s = t
BY NameAssumption

LEMMA GotBuilt ==
    ASSUME NEW i, NEW c, Fulfils(i, c), NEW n \in Name
    PROVE  /\ n \in Asked(c.calls) => BuiltFor(i, c, n, GetAttribute(c, n))
           /\ n \notin Asked(c.calls) => GetAttribute(c, n) = Bad
<1> DEFINE as(m) == LastCall(c.calls, m).sensitive
           found(s) == FindByOid(c.attributes, OidAs(n, s))
<1>1. /\ c.calls \in Seq(Put) /\ IsSequence(c.attributes)
      /\ \A m \in Asked(c.calls) : m \in Name /\ as(m) \in BOOLEAN /\ KnownAs(m, as(m))
    BY LastCallTypes DEF Fulfils
<1>2. /\ \A j \in DOMAIN c.attributes : \E m \in Asked(c.calls) :
            /\ BuiltFor(i, c, m, c.attributes[j])
            /\ c.attributes[j].oid = OidAs(m, as(m))
      /\ \A m \in Asked(c.calls) : \E j \in DOMAIN c.attributes :
            /\ BuiltFor(i, c, m, c.attributes[j])
            /\ c.attributes[j].oid = OidAs(m, as(m))
    BY DEF Fulfils, BuiltFor
<1>3. ASSUME NEW s \in BOOLEAN, KnownAs(n, s)
      PROVE  IF n \in Asked(c.calls) /\ s = as(n) THEN BuiltFor(i, c, n, found(s))
             ELSE found(s) = Bad
    <2> DEFINE oid == OidAs(n, s)
    <2>1. ASSUME NEW j \in DOMAIN c.attributes, c.attributes[j].oid = oid
          PROVE  n \in Asked(c.calls) /\ s = as(n) /\ BuiltFor(i, c, n, c.attributes[j])
        <3>1. PICK m \in Asked(c.calls) : /\ BuiltFor(i, c, m, c.attributes[j])
                                          /\ c.attributes[j].oid = OidAs(m, as(m))
            BY <1>2
        <3>2. m = n /\ s = as(m)
            <4>1. m \in Name /\ as(m) \in BOOLEAN /\ KnownAs(m, as(m))
                BY <1>1
            <4>2. OidAs(m, as(m)) = OidAs(n, s)
                BY <2>1, <3>1
            <4> HIDE DEF as
            <4> QED
                BY <1>3, <4>1, <4>2, OidsApart
        <3> QED
            BY <3>1, <3>2
    <2>2. CASE n \in Asked(c.calls) /\ s = as(n)
        <3>1. \E j \in DOMAIN c.attributes : c.attributes[j].oid = oid
            BY <1>2, <2>2
        <3>2. PICK j \in DOMAIN c.attributes :
                 c.attributes[j].oid = oid /\ found(s) = c.attributes[j]
            BY <1>1, <3>1, FoundByOid
        <3> QED
            BY <2>1, <2>2, <3>2
    <2>3. CASE ~(n \in Asked(c.calls) /\ s = as(n))
        <3>1. \A j \in DOMAIN c.attributes : c.attributes[j].oid # oid
            BY <2>1, <2>3
        <3> QED
            BY <1>1, <2>3, <3>1, FoundByOid
    <2> QED
        BY <2>2, <2>3
<1>4. GetAttribute(c, n) = FirstGood(<<IF KnownAs(n, TRUE) THEN found(TRUE) ELSE Bad,
                                       IF KnownAs(n, FALSE) THEN found(FALSE) ELSE Bad>>)
    BY DEF GetAttribute, KnownAs, OidAs
<1>5. GetAttribute(c, n) =
        IF KnownAs(n, TRUE) /\ found(TRUE) # Bad THEN found(TRUE)
        ELSE IF KnownAs(n, FALSE) THEN found(FALSE) ELSE Bad
    <2> DEFINE a == IF KnownAs(n, TRUE) THEN found(TRUE) ELSE Bad
               b == IF KnownAs(n, FALSE) THEN found(FALSE) ELSE Bad
    <2>1. FirstGood(<<a, b>>) = IF a # Bad THEN a ELSE b
        <3> HIDE DEF a, b
        <3> QED
            BY FirstOfTwo
    <2> HIDE DEF found
    <2> QED
        BY <1>4, <2>1
<1>6. \A a : BuiltFor(i, c, n, a) => a # Bad
    BY DEF BuiltFor
<1> HIDE DEF found, as
<1>7. CASE n \notin Asked(c.calls)
    <2>1. \A s \in BOOLEAN : KnownAs(n, s) => found(s) = Bad
        BY <1>3, <1>7
    <2> QED
        BY <1>5, <1>7, <2>1
<1>8. CASE n \in Asked(c.calls) /\ as(n) = TRUE
    <2>1. KnownAs(n, TRUE) /\ BuiltFor(i, c, n, found(TRUE))
        BY <1>1, <1>3, <1>8
    <2> QED
        BY <1>5, <1>6, <1>8, <2>1
<1>9. CASE n \in Asked(c.calls) /\ as(n) = FALSE
    <2>1. KnownAs(n, FALSE) /\ BuiltFor(i, c, n, found(FALSE))
        BY <1>1, <1>3, <1>9
    <2>2. KnownAs(n, TRUE) => found(TRUE) = Bad
        BY <1>3, <1>9
    <2> QED
        BY <1>5, <1>9, <2>1, <2>2
<1> QED
    BY <1>1, <1>7, <1>8, <1>9

LEMMA SealIsGood ==
    ASSUME NEW key \in Key, NEW salt \in Salt, NEW encoded \in Encodings
    PROVE  Seal(key, salt, encoded) # Bad
<1>1. Seal(key, salt, encoded) \in Sealed
    BY DEF Seal, Sealed, HashInput, Ciphertext
<1> QED
    BY <1>1, BadAssumption

\* What is sealed for a name: what was put last, when that was sensitive.
LEMMA SealedBuilt ==
    ASSUME NEW i \in Nat, NEW c, Fulfils(i, c), NEW n \in Name,
           NEW entry, entry = LastCall(c.calls, n),
           NEW encoded, encoded = Encode(TypeOf(n, entry.sensitive), entry.value)
    PROVE  IF n \in Asked(c.calls) /\ entry.sensitive
           THEN /\ GetSealed(c, n) = Seal(c.subject, <<i, n>>, encoded)
                /\ Seal(c.subject, <<i, n>>, encoded) # Bad
                /\ encoded # Bad /\ c.subject \in Encrypting
                /\ KnownAs(n, TRUE)
           ELSE GetSealed(c, n) = Bad
<1>1. CASE n \notin Asked(c.calls)
    <2>1. GetAttribute(c, n) = Bad
        BY <1>1, GotBuilt
    <2> QED
        BY <1>1, <2>1 DEF GetSealed, Failed
<1>2. CASE n \in Asked(c.calls)
    <2>1. /\ entry.sensitive \in BOOLEAN /\ entry.value \in Offered[n]
          /\ KnownAs(n, entry.sensitive)
        BY <1>2, LastCallTypes DEF Fulfils
    <2> DEFINE a == GetAttribute(c, n)
    <2>2. BuiltFor(i, c, n, a)
        BY <1>2, GotBuilt
    <2> HIDE DEF a
    <2>3. /\ a # Bad /\ encoded # Bad /\ a.sensitive = entry.sensitive
          /\ entry.sensitive => c.subject \in Encrypting
          /\ entry.sensitive => a.content = Seal(c.subject, <<i, n>>, encoded)
        BY <2>2 DEF BuiltFor
    <2>4. GetSealed(c, n) = IF ~a.sensitive THEN Bad ELSE a.content
        BY <2>3 DEF GetSealed, Failed, a
    <2>5. CASE ~entry.sensitive
        BY <2>3, <2>4, <2>5
    <2>6. CASE entry.sensitive
        <3>1. entry.sensitive = TRUE
            BY <2>1, <2>6
        <3>2. encoded \in Encodings
            <4>1. PICK j \in DOMAIN c.calls : c.calls[j].name = n /\ entry = c.calls[j].entry
                BY <1>2, LastCallIs DEF Fulfils
            <4>2. c.calls[j] \in Put
                BY LenProperties, ElementOfSeq DEF Fulfils
            <4> QED
                BY <2>1, <4>1, <4>2 DEF Encodings
        <3>3. c.subject \in Key /\ <<i, n>> \in Salt
            BY DEF Fulfils, Salt
        <3>4. Seal(c.subject, <<i, n>>, encoded) # Bad
            BY <3>2, <3>3, SealIsGood
        <3> QED
            BY <1>2, <2>1, <2>3, <2>4, <2>6, <3>1, <3>4
    <2> QED
        BY <2>5, <2>6
<1> QED
    BY <1>1, <1>2

-----------------------------------------------------------------------------
(* The invariant *)

LEMMA CertificateStarts == Init => CertificateInv
<1> SUFFICES ASSUME Init PROVE CertificateInv
    OBVIOUS
<1>1. <<>> \in Seq(Put) /\ DOMAIN <<>> = {} /\ Asked(<<>>) = {}
    BY DEF Asked
<1>2. <<>> = [n \in {} |-> LastCall(<<>>, n)]
    OBVIOUS
<1>3. BuilderInv
    BY <1>1, <1>2 DEF Init, BuilderInv
<1>4. IsSequence(<<>>)
    BY EmptySeq DEF IsSequence
<1> QED
    BY <1>1, <1>3, <1>4 DEF Init, CertificateInv

\* One certificate more disturbs neither the certificates nor the proofs there are.
LEMMA OneMoreCertificate ==
    ASSUME CertificateInv, NEW c, certificates' = Append(certificates, c),
           UNCHANGED <<proofs, published>>, BuilderInv',
           NEW i, i = Len(certificates) + 1,
           IF Issued(c) THEN Fulfils(i, c) ELSE Elsewhere(c)
    PROVE  CertificateInv'
<1>1. /\ IsSequence(certificates') /\ Len(certificates) \in Nat
      /\ DOMAIN certificates = 1..Len(certificates)
      /\ DOMAIN certificates' = 1..(Len(certificates) + 1)
      /\ certificates'[i] = c
      /\ \A j \in DOMAIN certificates : certificates'[j] = certificates[j]
    BY AppendIsSequence DEF CertificateInv
<1>2. \A j \in DOMAIN certificates' : j = i \/ j \in DOMAIN certificates
    BY <1>1
<1>3. \A j \in DOMAIN certificates' :
        IF Issued(certificates'[j]) THEN Fulfils(j, certificates'[j])
        ELSE Elsewhere(certificates'[j])
    BY <1>1, <1>2 DEF CertificateInv
<1>4. ASSUME NEW proof \in proofs' PROVE Backed(proof)'
    <2>1. Backed(proof)
        BY <1>4 DEF CertificateInv
    <2>2. \A j \in DOMAIN certificates :
             j \in DOMAIN certificates' /\ certificates'[j] = certificates[j]
        BY <1>1
    <2> QED
        BY <2>1, <2>2 DEF Backed
<1>5. published' \subseteq Record
    BY DEF CertificateInv
<1> QED
    BY <1>1, <1>3, <1>4, <1>5 DEF CertificateInv

LEMMA BuildKeeps ==
    ASSUME CertificateInv, NEW key \in Key, Build(key)
    PROVE  CertificateInv'
<1>1. entries' = <<>> /\ errors' = FALSE /\ calls' = <<>> /\ UNCHANGED <<proofs, published>>
    BY DEF Build
<1>2. BuilderInv'
    <2>1. <<>> \in Seq(Put) /\ DOMAIN <<>> = {} /\ Asked(<<>>) = {}
        BY DEF Asked
    <2>2. <<>> = [n \in {} |-> LastCall(<<>>, n)]
        OBVIOUS
    <2> QED
        BY <1>1, <2>1, <2>2 DEF BuilderInv
<1>3. CASE UNCHANGED certificates
    <2>1. \A proof \in proofs' : Backed(proof)'
        BY <1>1, <1>3 DEF CertificateInv, Backed
    <2> QED
        BY <1>1, <1>2, <1>3, <2>1 DEF CertificateInv
<1>4. CASE certificates' # certificates
    <2> DEFINE extension == BuildKycExtension(key)
               c == [attributes |-> extension, subject |-> key, calls |-> calls]
               i == Len(certificates) + 1
    <2>1. /\ calls # <<>> /\ ~errors /\ extension # Bad
          /\ certificates' = Append(certificates, c)
        BY <1>4 DEF Build, Failed
    <2>2. Fulfils(i, c)
        <3>1. BuilderInv
            BY DEF CertificateInv
        <3> HIDE DEF i, c, extension
        <3> QED
            BY <2>1, <3>1, CertificateBuilt DEF i, c, extension
    <2>3. Issued(c)
        BY <2>1 DEF Issued
    <2> HIDE DEF i, c
    <2> QED
        BY <1>1, <1>2, <2>1, <2>2, <2>3, OneMoreCertificate DEF i
<1> QED
    BY <1>3, <1>4

LEMMA ReceiveKeeps ==
    ASSUME CertificateInv, NEW extension \in Foreign, ReceiveCertificate(extension)
    PROVE  CertificateInv'
<1> DEFINE c == [attributes |-> IF Failed(extension) THEN <<>> ELSE extension,
                 subject |-> Bad, calls |-> <<>>]
           i == Len(certificates) + 1
<1>1. /\ certificates' = Append(certificates, c)
      /\ UNCHANGED <<entries, errors, calls, proofs, published>>
    BY DEF ReceiveCertificate
<1>2. BuilderInv'
    BY <1>1 DEF CertificateInv, BuilderInv
<1>3. ~Issued(c) /\ Elsewhere(c)
    BY DEF Issued, Elsewhere, Failed
<1> HIDE DEF i, c
<1> QED
    BY <1>1, <1>2, <1>3, OneMoreCertificate DEF i

\* What is sealed elsewhere has a salt that is not drawn here.
LEMMA SealedElsewhere ==
    ASSUME NEW c, Elsewhere(c), NEW n, GetSealed(c, n) # Bad
    PROVE  GetSealed(c, n).salt \notin Salt
<1> DEFINE a == GetAttribute(c, n)
<1>1. a # Bad /\ a.sensitive /\ GetSealed(c, n) = a.content
    BY DEF GetSealed, Failed
<1>2. IsSequence(c.attributes)
    BY EmptySeq, ForeignAssumption DEF Elsewhere, IsSequence
<1>3. PICK i \in DOMAIN c.attributes : a = c.attributes[i]
    BY <1>1, <1>2, GotIsThere
<1>4. c.attributes \in Foreign \ {Bad}
    BY <1>3 DEF Elsewhere
<1> HIDE DEF a
<1> QED
    BY <1>1, <1>3, <1>4, ForeignAssumption

\* What a proof that was made says.
LEMMA ProofMade ==
    ASSUME NEW c, NEW n, NEW key, NEW proof, proof = ProveAttribute(c, n, key), proof # Bad
    PROVE  /\ GetSealed(c, n) # Bad
           /\ Unseal(GetSealed(c, n), key) # Bad
           /\ Unseal(GetSealed(c, n), key) = GetSealed(c, n).encoded
           /\ key = GetSealed(c, n).key /\ key \in Encrypting
           /\ proof = [value |-> GetSealed(c, n).encoded, salt |-> GetSealed(c, n).salt]
BY DEF ProveAttribute, ToProof, Unseal, Failed

LEMMA ProveKeeps ==
    ASSUME CertificateInv, NEW i \in DOMAIN certificates, NEW n \in Name, NEW key \in Key,
           Prove(certificates[i], n, key)
    PROVE  CertificateInv'
<1> DEFINE c == certificates[i]
           made == ProveAttribute(c, n, key)
           sealed == GetSealed(c, n)
<1>1. /\ made # Bad /\ proofs' = proofs \cup {made}
      /\ UNCHANGED <<entries, errors, calls, certificates, published>>
    BY DEF Prove, Failed
<1>2. i \in Nat
    BY SequenceShape DEF CertificateInv
<1>3. IF Issued(c) THEN Fulfils(i, c) ELSE Elsewhere(c)
    BY DEF CertificateInv
<1>4. sealed # Bad /\ made = [value |-> sealed.encoded, salt |-> sealed.salt]
    <2> HIDE DEF c
    <2> QED
        BY <1>1, ProofMade
<1> HIDE DEF made
<1>5. /\ made.value = sealed.encoded /\ made.salt = sealed.salt
      /\ made = [value |-> made.value, salt |-> made.salt]
    BY <1>4
<1> HIDE DEF c, sealed
<1>6. Backed(made)
    <2>1. CASE ~Issued(c)
        <3>1. sealed.salt \notin Salt
            BY <1>3, <1>4, <2>1, SealedElsewhere DEF sealed
        <3> QED
            BY <1>1, <1>5, <3>1 DEF Backed
    <2>2. CASE Issued(c)
        <3> DEFINE entry == LastCall(c.calls, n)
                   encoded == Encode(TypeOf(n, entry.sensitive), entry.value)
        <3>1. IF n \in Asked(c.calls) /\ entry.sensitive
              THEN sealed = Seal(c.subject, <<i, n>>, encoded) ELSE sealed = Bad
            <4> HIDE DEF entry, encoded
            <4> QED
                BY <1>2, <1>3, <2>2, SealedBuilt DEF sealed, entry, encoded
        <3>2. n \in Asked(c.calls) /\ entry.sensitive /\ entry.sensitive \in BOOLEAN
            BY <1>3, <1>4, <2>2, <3>1, LastCallTypes DEF Fulfils
        <3>3. made.salt = <<i, n>> /\ made.value = encoded
            <4> HIDE DEF encoded, entry
            <4> QED
                BY <1>5, <3>1, <3>2 DEF Seal
        <3>4. made.value = Encode(TypeOf(n, TRUE), LastCall(c.calls, n).value)
            <4>1. entry.sensitive = TRUE
                BY <3>2
            <4> QED
                BY <3>3, <4>1
        <3> QED
            BY <1>1, <1>5, <2>2, <3>2, <3>3, <3>4 DEF Backed, c
    <2> QED
        BY <2>1, <2>2
<1>7. \A proof \in proofs' : Backed(proof)'
    <2>1. ASSUME NEW proof, Backed(proof)
          PROVE  Backed(proof)'
        BY <1>1, <2>1 DEF Backed
    <2>2. \A proof \in proofs : Backed(proof)
        BY DEF CertificateInv
    <2> QED
        BY <1>1, <1>6, <2>1, <2>2
<1>8. BuilderInv'
    BY <1>1 DEF CertificateInv, BuilderInv
<1> QED
    BY <1>1, <1>7, <1>8 DEF CertificateInv

LEMMA CertificateStep == CertificateInv /\ [Next]_vars => CertificateInv'
<1> SUFFICES ASSUME CertificateInv, [Next]_vars PROVE CertificateInv'
    OBVIOUS
<1>1. ASSUME NEW name \in Name, NEW sensitive \in BOOLEAN, NEW value \in Offered[name],
             WithAttribute(name, Entry(sensitive, value))
      PROVE  CertificateInv'
    <2>1. BuilderInv'
        BY <1>1, WithAttributeKeeps
    <2>2. UNCHANGED <<certificates, proofs, published>>
        BY <1>1 DEF WithAttribute
    <2>3. \A proof \in proofs' : Backed(proof)'
        BY <2>2 DEF CertificateInv, Backed
    <2> QED
        BY <2>1, <2>2, <2>3 DEF CertificateInv
<1>2. ASSUME NEW record \in Record, Publish(record),
             UNCHANGED <<entries, errors, calls, certificates, proofs>>
      PROVE  CertificateInv'
    <2>1. \A proof \in proofs' : Backed(proof)'
        BY <1>2 DEF CertificateInv, Backed
    <2>2. BuilderInv'
        BY <1>2 DEF CertificateInv, BuilderInv
    <2> QED
        BY <1>2, <2>1, <2>2 DEF CertificateInv, Publish
<1>3. CASE UNCHANGED vars
    <2>1. \A proof \in proofs' : Backed(proof)'
        BY <1>3 DEF CertificateInv, Backed, vars
    <2>2. BuilderInv'
        BY <1>3 DEF CertificateInv, BuilderInv, vars
    <2> QED
        BY <1>3, <2>1, <2>2 DEF CertificateInv, vars
<1> QED
    BY <1>1, <1>2, <1>3, BuildKeeps, ReceiveKeeps, ProveKeeps DEF Next

\* certificates/builder.rs with_attribute, build, sensitive_attributes to_proof:
\* the builder holds what was put last for each name, a certificate has one
\* attribute for each of them, sealed to its subject where it is sensitive, and a
\* proof whose salt was drawn here has the value sealed with it.
THEOREM CertificateInvariance == CertificateSpec => []CertificateInv
BY CertificateStarts, CertificateStep, PTL DEF CertificateSpec

-----------------------------------------------------------------------------
(* What a certificate that was built reads as *)

LEMMA ReadBuilt ==
    ASSUME NEW i \in Nat, NEW c, Fulfils(i, c), NEW n \in Asked(c.calls),
           NEW entry, entry = LastCall(c.calls, n),
           NEW type, type = TypeOf(n, entry.sensitive),
           NEW encoded, encoded = Encode(type, entry.value)
    PROVE  /\ n \in Name /\ entry.sensitive \in BOOLEAN /\ entry.value \in Offered[n]
           /\ KnownAs(n, entry.sensitive) /\ encoded # Bad
           /\ GetAttribute(c, n) # Bad /\ GetAttribute(c, n).sensitive = entry.sensitive
           /\ GetPlainAttribute(c, n) =
                IF entry.sensitive THEN Bad ELSE Decode(type, encoded)
           /\ \A key \in Key : DecryptAttribute(c, n, key) =
                IF entry.sensitive /\ key = c.subject THEN Decode(type, encoded) ELSE Bad
<1> DEFINE a == GetAttribute(c, n)
<1>1. /\ n \in Name /\ entry.sensitive \in BOOLEAN /\ entry.value \in Offered[n]
      /\ KnownAs(n, entry.sensitive)
    BY LastCallTypes DEF Fulfils
<1>2. BuiltFor(i, c, n, a)
    BY <1>1, GotBuilt
<1>3. /\ a # Bad /\ encoded # Bad
      /\ a.oid = OidAs(n, entry.sensitive) /\ a.sensitive = entry.sensitive
      /\ ~entry.sensitive => a.content = encoded
    <2> HIDE DEF a
    <2> QED
        BY <1>2 DEF BuiltFor
<1>4. ValueType[a.oid] = type
    <2> HIDE DEF a
    <2> QED
        BY <1>3 DEF TypeOf
<1>5. GetPlainAttribute(c, n) = IF entry.sensitive THEN Bad ELSE Decode(type, encoded)
    BY <1>3, <1>4 DEF GetPlainAttribute, Failed
<1>6. IF entry.sensitive
      THEN /\ GetSealed(c, n) = Seal(c.subject, <<i, n>>, encoded)
           /\ Seal(c.subject, <<i, n>>, encoded) # Bad
           /\ c.subject \in Encrypting
      ELSE GetSealed(c, n) = Bad
    <2> HIDE DEF a
    <2>1. /\ n \in Name /\ n \in Asked(c.calls)
          /\ encoded = Encode(TypeOf(n, entry.sensitive), entry.value)
        BY <1>1
    <2>2. IF n \in Asked(c.calls) /\ entry.sensitive
          THEN /\ GetSealed(c, n) = Seal(c.subject, <<i, n>>, encoded)
               /\ Seal(c.subject, <<i, n>>, encoded) # Bad
               /\ encoded # Bad /\ c.subject \in Encrypting
               /\ KnownAs(n, TRUE)
          ELSE GetSealed(c, n) = Bad
        BY <2>1, SealedBuilt
    <2> QED
        BY <2>1, <2>2
<1> HIDE DEF a
<1>7. ASSUME NEW key \in Key
      PROVE  DecryptAttribute(c, n, key) =
                IF entry.sensitive /\ key = c.subject THEN Decode(type, encoded) ELSE Bad
    <2>1. CASE ~entry.sensitive
        BY <1>6, <2>1 DEF DecryptAttribute, Failed
    <2>2. CASE entry.sensitive
        <3> DEFINE sealed == Seal(c.subject, <<i, n>>, encoded)
        <3>1. sealed.version = 0 /\ sealed.key = c.subject /\ sealed.encoded = encoded
            BY DEF Seal
        <3>2. sealed # Bad /\ GetSealed(c, n) = sealed
            BY <1>6, <2>2
        <3> HIDE DEF sealed
        <3>3. Unseal(sealed, key) = IF key = c.subject THEN encoded ELSE Bad
            BY <1>6, <2>2, <3>1 DEF Unseal
        <3> QED
            BY <1>3, <1>4, <2>2, <3>2, <3>3 DEF DecryptAttribute, Failed, a
    <2> QED
        BY <1>1, <2>1, <2>2
<1> QED
    BY <1>1, <1>3, <1>5, <1>7 DEF a

LEMMA ReadingMeans ==
    ASSUME CertificateInv, CodecRoundTrips
    PROVE  ReadsWhatWasCertified
<1> SUFFICES ASSUME NEW i \in DOMAIN certificates, Issued(certificates[i])
             PROVE  LET c == certificates[i] IN
                    /\ Len(c.attributes) = Cardinality(Asked(c.calls))
                    /\ \A n \in Asked(c.calls) :
                          LET entry == LastCall(c.calls, n)
                              reads == IF KnownAs(n, entry.sensitive)
                                       THEN Reads(TypeOf(n, entry.sensitive), entry.value) ELSE Bad
                          IN  /\ KnownAs(n, entry.sensitive)
                              /\ Accepts(TypeOf(n, entry.sensitive), entry.value)
                              /\ GetPlainAttribute(c, n) = IF entry.sensitive THEN Bad ELSE reads
                              /\ \A key \in Key : DecryptAttribute(c, n, key) =
                                    IF entry.sensitive /\ key = c.subject THEN reads ELSE Bad
    BY DEF ReadsWhatWasCertified
<1> DEFINE c == certificates[i]
<1>1. i \in Nat /\ Fulfils(i, c)
    BY SequenceShape DEF CertificateInv
<1>2. Len(c.attributes) = Cardinality(Asked(c.calls))
    BY <1>1 DEF Fulfils
<1> HIDE DEF c
<1>3. ASSUME NEW n \in Asked(c.calls), NEW entry, entry = LastCall(c.calls, n)
      PROVE  /\ KnownAs(n, entry.sensitive)
             /\ Accepts(TypeOf(n, entry.sensitive), entry.value)
             /\ GetPlainAttribute(c, n) = IF entry.sensitive THEN Bad
                                          ELSE Reads(TypeOf(n, entry.sensitive), entry.value)
             /\ \A key \in Key : DecryptAttribute(c, n, key) =
                   IF entry.sensitive /\ key = c.subject
                   THEN Reads(TypeOf(n, entry.sensitive), entry.value) ELSE Bad
    <2> DEFINE type == TypeOf(n, entry.sensitive)
               encoded == Encode(type, entry.value)
    <2> HIDE DEF type, encoded
    <2>1. /\ n \in Name /\ entry.sensitive \in BOOLEAN /\ entry.value \in Offered[n]
          /\ KnownAs(n, entry.sensitive) /\ encoded # Bad
          /\ GetPlainAttribute(c, n) = IF entry.sensitive THEN Bad ELSE Decode(type, encoded)
          /\ \A key \in Key : DecryptAttribute(c, n, key) =
                IF entry.sensitive /\ key = c.subject THEN Decode(type, encoded) ELSE Bad
        BY <1>1, <1>3, ReadBuilt DEF type, encoded
    <2>2. Accepts(type, entry.value) /\ Decode(type, encoded) = Reads(type, entry.value)
        BY <2>1 DEF CodecRoundTrips, type, encoded
    <2> QED
        BY <2>1, <2>2 DEF type
<1> QED
    BY <1>2, <1>3 DEF c

\* builder.rs with_attribute, build and certificates/mod.rs, for every codec whose
\* values round-trip one by one: a certificate reads as what was put last for each
\* name, by the subject alone where it is sensitive, and has nothing else.
THEOREM ReadsBack == CodecRoundTrips => (CertificateSpec => []ReadsWhatWasCertified)
<1> SUFFICES ASSUME CodecRoundTrips PROVE CertificateSpec => []ReadsWhatWasCertified
    OBVIOUS
<1>1. CertificateInv => ReadsWhatWasCertified
    BY ReadingMeans
<1> QED
    BY <1>1, CertificateInvariance, PTL

LEMMA ReferencesMean ==
    ASSUME CertificateInv, CodecKeepsReferences
    PROVE  ReferencesSurvive
<1> SUFFICES ASSUME NEW i \in DOMAIN certificates, Issued(certificates[i]),
                    certificates[i].subject \in Identified
             PROVE  LET c == certificates[i]
                        blobs == [n \in Asked(c.calls) |->
                                    LET put == LastCall(c.calls, n).value
                                    IN  IF put[1] = "json" THEN Mentions(put[2]) ELSE {}]
                    IN  ExternalReferences(c, c.subject, Name) =
                          IF \E n \in Asked(c.calls) : Bad \in blobs[n] THEN Bad
                          ELSE [n \in {m \in Asked(c.calls) : blobs[m] # {}} |-> blobs[n]]
    BY DEF ReferencesSurvive
<1> DEFINE c == certificates[i]
           blobs == [n \in Asked(c.calls) |->
                       LET put == LastCall(c.calls, n).value
                       IN  IF put[1] = "json" THEN Mentions(put[2]) ELSE {}]
           there == {n \in Name : ~Failed(GetAttribute(c, n))}
           decoded == [n \in there |-> DecodedAttributeValue(c, n, c.subject)]
           found == [n \in there |->
                       IF Failed(decoded[n]) THEN Bad
                       ELSE IF decoded[n][1] # "json" THEN {} ELSE ReferencesIn(decoded[n][2])]
<1>1. i \in Nat /\ Fulfils(i, c)
    BY SequenceShape DEF CertificateInv
<1>2. c.subject \in Identified /\ c.subject \in Key
    BY <1>1 DEF Fulfils
<1>3. ExternalReferences(c, c.subject, Name) =
        IF \E n \in there : Failed(found[n]) THEN Bad
        ELSE [n \in {m \in there : found[m] # {}} |-> found[n]]
    BY DEF ExternalReferences
<1> HIDE DEF c
<1>4. there = Asked(c.calls)
    <2>1. Asked(c.calls) \subseteq Name
        BY <1>1, AskedIsFinite DEF Fulfils
    <2>2. \A n \in Asked(c.calls) : GetAttribute(c, n) # Bad
        BY <1>1, ReadBuilt
    <2>3. \A n \in Name \ Asked(c.calls) : GetAttribute(c, n) = Bad
        BY <1>1, GotBuilt
    <2> QED
        BY <2>1, <2>2, <2>3 DEF Failed
<1>5. ASSUME NEW n \in Asked(c.calls)
      PROVE  found[n] = (IF Bad \in blobs[n] THEN Bad ELSE blobs[n])
             /\ (Bad \notin blobs[n] => blobs[n] # Bad)
    <2> DEFINE entry == LastCall(c.calls, n)
               type == TypeOf(n, entry.sensitive)
               encoded == Encode(type, entry.value)
               d == Decode(type, encoded)
    <2>1. /\ n \in Name /\ entry.sensitive \in BOOLEAN /\ entry.value \in Offered[n]
          /\ KnownAs(n, entry.sensitive) /\ encoded # Bad
          /\ GetAttribute(c, n).sensitive = entry.sensitive
          /\ GetPlainAttribute(c, n) = IF entry.sensitive THEN Bad ELSE d
          /\ DecryptAttribute(c, n, c.subject) = IF entry.sensitive THEN d ELSE Bad
        <3> HIDE DEF entry, type, encoded
        <3> QED
            BY <1>1, <1>2, ReadBuilt DEF entry, type, encoded
    <2>2. decoded[n] = d
        <3>1. decoded[n] = DecodedAttributeValue(c, n, c.subject)
            BY <1>4
        <3> HIDE DEF d, entry
        <3> QED
            BY <1>2, <2>1, <3>1 DEF DecodedAttributeValue
    <2>3. /\ d # Bad
          /\ (IF d[1] # "json" THEN {} ELSE ReferencesIn(d[2])) =
                IF Bad \in blobs[n] THEN Bad ELSE blobs[n]
          /\ Bad \notin blobs[n] => blobs[n] # Bad
        <3>1. blobs[n] = IF entry.value[1] = "json" THEN Mentions(entry.value[2]) ELSE {}
            OBVIOUS
        <3> HIDE DEF blobs, entry
        <3> QED
            BY <2>1, <3>1 DEF CodecKeepsReferences
    <2>4. found[n] = IF d[1] # "json" THEN {} ELSE ReferencesIn(d[2])
        <3> HIDE DEF d, decoded
        <3> QED
            BY <1>4, <2>2, <2>3 DEF Failed
    <2> HIDE DEF found, blobs, d
    <2> QED
        BY <2>3, <2>4
<1> HIDE DEF found, blobs, there
<1>6. CASE \E n \in Asked(c.calls) : Bad \in blobs[n]
    <2>1. \E n \in there : Failed(found[n])
        BY <1>4, <1>5, <1>6 DEF Failed
    <2> QED
        BY <1>3, <1>6, <2>1 DEF c, blobs
<1>7. CASE ~\E n \in Asked(c.calls) : Bad \in blobs[n]
    <2>1. \A n \in there : found[n] = blobs[n] /\ ~Failed(found[n])
        BY <1>4, <1>5, <1>7 DEF Failed
    <2>2. [n \in {m \in there : found[m] # {}} |-> found[n]] =
          [n \in {m \in Asked(c.calls) : blobs[m] # {}} |-> blobs[n]]
        BY <1>4, <2>1
    <2>3. ExternalReferences(c, c.subject, Name) =
            [n \in {m \in Asked(c.calls) : blobs[m] # {}} |-> blobs[n]]
        BY <1>3, <2>1, <2>2
    <2> QED
        BY <1>7, <2>3 DEF c, blobs
<1> QED
    BY <1>6, <1>7

\* references.rs, certificates/mod.rs external_references, for every codec that
\* keeps the references of one value: the subject finds every document reference
\* of what was put last, and is refused when one cannot be read.
THEOREM FindsReferences == CodecKeepsReferences => (CertificateSpec => []ReferencesSurvive)
<1> SUFFICES ASSUME CodecKeepsReferences PROVE CertificateSpec => []ReferencesSurvive
    OBVIOUS
<1>1. CertificateInv => ReferencesSurvive
    BY ReferencesMean
<1> QED
    BY <1>1, CertificateInvariance, PTL

-----------------------------------------------------------------------------
(* Proofs *)

\* What a proof says of a certificate that was built.
Tells(proof, i, c, n, key) ==
    /\ n \in Asked(c.calls) /\ LastCall(c.calls, n).sensitive
    /\ key = c.subject
    /\ proof.salt = <<i, n>>
    /\ proof.value = Encode(TypeOf(n, TRUE), LastCall(c.calls, n).value)

\* A proof validates against one sealed value: the one with its salt and value.
LEMMA ValidatedMeans ==
    ASSUME NEW i \in Nat, NEW c, Fulfils(i, c), NEW n \in Name, NEW key \in Key, NEW proof
    PROVE  ValidateAttributeProof(c, n, key, proof) = TRUE <=> Tells(proof, i, c, n, key)
<1> DEFINE entry == LastCall(c.calls, n)
           encoded == Encode(TypeOf(n, entry.sensitive), entry.value)
           sealed == Seal(c.subject, <<i, n>>, encoded)
           valid == ValidateAttributeProof(c, n, key, proof)
<1>1. IF n \in Asked(c.calls) /\ entry.sensitive
      THEN GetSealed(c, n) = sealed /\ sealed # Bad /\ encoded # Bad
      ELSE GetSealed(c, n) = Bad
    <2> HIDE DEF entry, encoded
    <2> QED
        BY SealedBuilt DEF entry, encoded
<1>2. Bad # TRUE /\ <<i, n>> # Bad
    <2>1. <<i, n>> \in Salt
        BY DEF Salt
    <2> QED
        BY <2>1, BadAssumption
<1>3. CASE ~(n \in Asked(c.calls) /\ entry.sensitive)
    <2>1. valid = Bad
        BY <1>1, <1>3 DEF ValidateAttributeProof, Failed
    <2> QED
        BY <1>2, <1>3, <2>1 DEF Tells
<1>4. CASE n \in Asked(c.calls) /\ entry.sensitive
    <2>1. entry.sensitive = TRUE /\ encoded = Encode(TypeOf(n, TRUE), entry.value)
        BY <1>4, LastCallTypes DEF Fulfils
    <2>2. valid = ValidateProof(sealed, key, proof)
        BY <1>1, <1>4 DEF ValidateAttributeProof, Failed
    <2> HIDE DEF encoded, valid
    <2>3. sealed.hash = <<<<i, n>>, c.subject, Ciphertext(c.subject, <<i, n>>, encoded), encoded>>
          /\ sealed.key = c.subject /\ sealed.salt = <<i, n>> /\ sealed.encoded = encoded
        BY DEF Seal, HashInput
    <2> HIDE DEF sealed
    <2>4. valid = IF proof.value = Bad \/ proof.salt = Bad THEN Bad
                  ELSE sealed.hash = <<proof.salt, key, Ciphertext(c.subject, <<i, n>>, encoded),
                                       proof.value>>
        BY <2>2, <2>3 DEF ValidateProof, HashInput, Failed
    <2>5. valid = TRUE <=> /\ proof.salt = <<i, n>> /\ key = c.subject
                           /\ proof.value = encoded
        <3> DEFINE cipher == Ciphertext(c.subject, <<i, n>>, encoded)
                   salt == <<i, n>>
        <3>1. (<<salt, c.subject, cipher, encoded>> = <<proof.salt, key, cipher, proof.value>>) <=>
              proof.salt = salt /\ key = c.subject /\ proof.value = encoded
            <4> HIDE DEF cipher, salt
            <4> QED
                OBVIOUS
        <3>2. encoded # Bad /\ salt # Bad
            BY <1>1, <1>2, <1>4
        <3> HIDE DEF cipher, salt
        <3>3. CASE proof.value = Bad \/ proof.salt = Bad
            BY <1>2, <2>4, <3>2, <3>3 DEF salt
        <3>4. CASE ~(proof.value = Bad \/ proof.salt = Bad)
            <4>1. valid = (<<salt, c.subject, cipher, encoded>> =
                             <<proof.salt, key, cipher, proof.value>>)
                BY <2>3, <2>4, <3>4 DEF cipher, salt
            <4> QED
                BY <3>1, <4>1 DEF salt
        <3> QED
            BY <3>3, <3>4
    <2> QED
        BY <1>4, <2>1, <2>5 DEF valid, Tells
<1> QED
    BY <1>3, <1>4

LEMMA BindingMeans ==
    ASSUME CertificateInv
    PROVE  ProofBinds
<1> SUFFICES ASSUME NEW i \in DOMAIN certificates, NEW n \in Name, NEW proof \in proofs,
                    NEW key \in Key
             PROVE  LET c == certificates[i]
                        made == proof = ProveAttribute(c, n, key)
                    IN  /\ made => DecryptAttribute(c, n, key) =
                                      Decode(ValueType[GetAttribute(c, n).oid], proof.value)
                        /\ Issued(c) =>
                              /\ ValidateAttributeProof(c, n, key, proof) = TRUE <=> made
                              /\ \A value \in
                                    ({<<"junk">>} \cup {p.value : p \in proofs}) \ {proof.value} :
                                    LET altered == [proof EXCEPT !.value = value]
                                    IN  ValidateAttributeProof(c, n, key, altered) # TRUE
    BY DEF ProofBinds
<1> DEFINE c == certificates[i]
           made == proof = ProveAttribute(c, n, key)
           entry == LastCall(c.calls, n)
<1>1. proof # Bad /\ proof = [value |-> proof.value, salt |-> proof.salt]
    BY DEF CertificateInv, Backed
<1>2. IF Issued(c) THEN Fulfils(i, c) ELSE Elsewhere(c)
    BY DEF CertificateInv
<1>3. i \in Nat
    BY SequenceShape DEF CertificateInv
<1>4. proof.salt = <<i, n>> /\ Issued(c) =>
        n \in Asked(c.calls) /\ proof.value = Encode(TypeOf(n, TRUE), entry.value)
    <2> SUFFICES ASSUME proof.salt = <<i, n>>
                 PROVE  n \in Asked(c.calls) /\ proof.value = Encode(TypeOf(n, TRUE), entry.value)
        OBVIOUS
    <2>1. proof.salt \in Salt
        BY <1>3 DEF Salt
    <2>2. Backed(proof)
        BY DEF CertificateInv
    <2>3. PICK j \in DOMAIN certificates : \E m \in Asked(certificates[j].calls) :
              /\ proof.salt = <<j, m>>
              /\ proof.value = Encode(TypeOf(m, TRUE), LastCall(certificates[j].calls, m).value)
        BY <2>1, <2>2 DEF Backed
    <2>4. PICK m \in Asked(certificates[j].calls) :
              /\ proof.salt = <<j, m>>
              /\ proof.value = Encode(TypeOf(m, TRUE), LastCall(certificates[j].calls, m).value)
        BY <2>3
    <2>5. j = i /\ m = n
        BY <2>4
    <2> QED
        BY <2>4, <2>5
<1> HIDE DEF c, entry
<1>5. ASSUME made
      PROVE  DecryptAttribute(c, n, key) =
                Decode(ValueType[GetAttribute(c, n).oid], proof.value)
    <2>1. /\ GetSealed(c, n) # Bad /\ Unseal(GetSealed(c, n), key) # Bad
          /\ Unseal(GetSealed(c, n), key) = GetSealed(c, n).encoded
          /\ proof.value = GetSealed(c, n).encoded
        <3>1. /\ GetSealed(c, n) # Bad /\ Unseal(GetSealed(c, n), key) # Bad
              /\ Unseal(GetSealed(c, n), key) = GetSealed(c, n).encoded
              /\ proof = [value |-> GetSealed(c, n).encoded, salt |-> GetSealed(c, n).salt]
            BY <1>1, <1>5, ProofMade
        <3> QED
            BY <3>1
    <2> QED
        BY <2>1 DEF DecryptAttribute, Failed
<1>6. ASSUME Issued(c) PROVE ValidateAttributeProof(c, n, key, proof) = TRUE <=> made
    <2> DEFINE encoded == Encode(TypeOf(n, entry.sensitive), entry.value)
    <2>1. Fulfils(i, c)
        BY <1>2, <1>6
    <2>2. IF n \in Asked(c.calls) /\ entry.sensitive
          THEN /\ GetSealed(c, n) = Seal(c.subject, <<i, n>>, encoded)
               /\ Seal(c.subject, <<i, n>>, encoded) # Bad
               /\ encoded # Bad /\ c.subject \in Encrypting
          ELSE GetSealed(c, n) = Bad
        <3> HIDE DEF encoded
        <3> QED
            BY <1>3, <2>1, SealedBuilt DEF encoded, entry
    <2>3. n \in Asked(c.calls) => entry.sensitive \in BOOLEAN
        BY <2>1, LastCallTypes DEF Fulfils, entry
    <2>4. ValidateAttributeProof(c, n, key, proof) = TRUE <=>
            /\ n \in Asked(c.calls) /\ entry.sensitive /\ key = c.subject
            /\ proof.salt = <<i, n>> /\ proof.value = Encode(TypeOf(n, TRUE), entry.value)
        <3>1. ValidateAttributeProof(c, n, key, proof) = TRUE <=> Tells(proof, i, c, n, key)
            BY <1>3, <2>1, ValidatedMeans
        <3> QED
            BY <3>1 DEF Tells, entry
    <2>5. n \in Asked(c.calls) /\ entry.sensitive =>
            encoded = Encode(TypeOf(n, TRUE), entry.value)
        <3>1. n \in Asked(c.calls) /\ entry.sensitive => entry.sensitive = TRUE
            BY <2>3
        <3> QED
            BY <3>1
    <2> HIDE DEF encoded
    <2> DEFINE sealed == Seal(c.subject, <<i, n>>, encoded)
    <2>6. /\ sealed.encoded = encoded /\ sealed.salt = <<i, n>> /\ sealed.key = c.subject
          /\ sealed.version = 0
        BY DEF Seal
    <2> HIDE DEF sealed
    <2>7. ASSUME ValidateAttributeProof(c, n, key, proof) = TRUE PROVE made
        <3>1. /\ n \in Asked(c.calls) /\ entry.sensitive /\ key = c.subject
              /\ proof.salt = <<i, n>> /\ proof.value = encoded
            BY <2>4, <2>5, <2>7
        <3>2. GetSealed(c, n) = sealed /\ sealed # Bad /\ encoded # Bad /\ key \in Encrypting
            BY <2>2, <3>1 DEF sealed
        <3>3. Unseal(sealed, key) = encoded
            BY <2>6, <3>1, <3>2 DEF Unseal
        <3>4. ProveAttribute(c, n, key) = [value |-> encoded, salt |-> <<i, n>>]
            BY <2>6, <3>2, <3>3 DEF ProveAttribute, ToProof, Failed
        <3> QED
            BY <1>1, <3>1, <3>4
    <2>8. ASSUME made PROVE ValidateAttributeProof(c, n, key, proof) = TRUE
        <3>1. /\ GetSealed(c, n) # Bad /\ key = GetSealed(c, n).key
              /\ proof = [value |-> GetSealed(c, n).encoded, salt |-> GetSealed(c, n).salt]
            BY <1>1, <2>8, ProofMade
        <3>2. n \in Asked(c.calls) /\ entry.sensitive /\ GetSealed(c, n) = sealed
            BY <2>2, <3>1 DEF sealed
        <3>3. proof.value = encoded /\ proof.salt = <<i, n>> /\ key = c.subject
            BY <2>6, <3>1, <3>2
        <3> QED
            BY <2>4, <2>5, <3>2, <3>3
    <2> QED
        BY <2>7, <2>8
<1>7. ASSUME Issued(c), NEW value, value # proof.value
      PROVE  ValidateAttributeProof(c, n, key, [proof EXCEPT !.value = value]) # TRUE
    <2> DEFINE altered == [proof EXCEPT !.value = value]
    <2>1. altered.value = value /\ altered.salt = proof.salt
        BY <1>1
    <2> HIDE DEF altered
    <2>2. Fulfils(i, c)
        BY <1>2, <1>7
    <2> SUFFICES ASSUME ValidateAttributeProof(c, n, key, altered) = TRUE PROVE FALSE
        BY DEF altered
    <2>3. Tells(altered, i, c, n, key)
        BY <1>3, <2>2, ValidatedMeans
    <2>4. proof.salt = <<i, n>> /\ value = Encode(TypeOf(n, TRUE), entry.value)
        BY <2>1, <2>3 DEF Tells, entry
    <2> QED
        BY <1>4, <1>7, <2>4
<1> QED
    BY <1>5, <1>6, <1>7 DEF c

\* sensitive_attributes/mod.rs to_proof, validate_proof: a proof holds for the very
\* attribute and key it was made with, and for no other certificate, key or value.
THEOREM ProofsBind == CertificateSpec => []ProofBinds
<1>1. CertificateInv => ProofBinds
    BY BindingMeans
<1> QED
    BY <1>1, CertificateInvariance, PTL

\* trust/mod.rs, trust.rs: an account is trusted only for a certificate that is
\* valid and cannot be kept from a trusted issuer by any set that is closed under
\* the issuers at hand; one of a trusted issuer is trusted whatever else was
\* published; and only an account that published nothing has none.
THEOREM TrustAnchored == CertificateSpec => []TrustedIsAnchored
<1>1. CertificateInv => TrustedIsAnchored
    BY TrustMeans DEF CertificateInv
<1> QED
    BY <1>1, CertificateInvariance, PTL
=============================================================================
