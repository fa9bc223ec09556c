---------------------- MODULE MetadataExpansionProofs ----------------------
(* Theorems about MetadataExpansion, for any URLs and whatever they serve. *)
EXTENDS MetadataExpansion, SequenceTheorems, FiniteSetTheorems, NaturalsInduction, TLAPS

(* Paths *)

LEMMA PrefixLength ==
    ASSUME NEW p \in Seq(Key), NEW q \in Seq(Key), IsPrefixOf(p, q), p # q
    PROVE  Len(p) < Len(q)
<1>1. Len(p) \in Nat /\ Len(q) \in Nat /\ Len(p) <= Len(q)
    BY LenProperties DEF IsPrefixOf
<1>2. Len(p) # Len(q)
    <2> SUFFICES ASSUME Len(p) = Len(q) PROVE FALSE
        OBVIOUS
    <2>1. \A i \in 1..Len(p) : p[i] = q[i]
        BY DEF IsPrefixOf
    <2> QED
        BY <2>1, SeqEqual
<1> QED
    BY <1>1, <1>2

LEMMA PrefixCut ==
    ASSUME NEW q \in Seq(Key), NEW n \in 0..Len(q)
    PROVE  /\ SubSeq(q, 1, n) \in Seq(Key)
           /\ Len(SubSeq(q, 1, n)) = n
           /\ IsPrefixOf(SubSeq(q, 1, n), q)
<1>1. Len(q) \in Nat /\ \A i \in 1..n : q[i] \in Key
    BY LenProperties, ElementOfSeq
<1>2. /\ SubSeq(q, 1, n) \in Seq(Key)
      /\ Len(SubSeq(q, 1, n)) = n
      /\ \A i \in 1..n : SubSeq(q, 1, n)[i] = q[i]
    BY <1>1, SubSeqProperties
<1> QED
    BY <1>1, <1>2 DEF IsPrefixOf

LEMMA PrefixIsCut ==
    ASSUME NEW p \in Seq(Key), NEW q \in Seq(Key), IsPrefixOf(p, q)
    PROVE  SubSeq(q, 1, Len(p)) = p
<1>1. Len(p) \in 0..Len(q)
    BY LenProperties DEF IsPrefixOf
<1>2. /\ SubSeq(q, 1, Len(p)) \in Seq(Key)
      /\ Len(SubSeq(q, 1, Len(p))) = Len(p)
      /\ \A i \in 1..Len(p) : SubSeq(q, 1, Len(p))[i] = p[i]
    <2>1. \A i \in 1..Len(p) : SubSeq(q, 1, Len(p))[i] = q[i]
        BY <1>1, PrefixCut DEF IsPrefixOf
    <2> QED
        BY <1>1, <2>1, PrefixCut DEF IsPrefixOf
<1> QED
    BY <1>2, SeqEqual

\* What a step down a path adds.
LEMMA StepDown ==
    ASSUME NEW p \in Seq(Key), NEW k \in Key
    PROVE  /\ Append(p, k) \in Seq(Key)
           /\ IsPrefixOf(p, Append(p, k)) /\ p # Append(p, k)
           /\ Append(p, k)[Len(Append(p, k))] = k
           /\ \A q \in Seq(Key) : IsPrefixOf(q, Append(p, k)) /\ q # Append(p, k) =>
                 IsPrefixOf(q, p)
           /\ \A q \in Seq(Key) : IsPrefixOf(Append(p, k), q) =>
                 IsPrefixOf(p, q) /\ p # q
<1>1. /\ Append(p, k) \in Seq(Key) /\ Len(p) \in Nat
      /\ Len(Append(p, k)) = Len(p) + 1
      /\ \A i \in 1..Len(p) : Append(p, k)[i] = p[i]
      /\ Append(p, k)[Len(p) + 1] = k
    BY AppendProperties, LenProperties
<1>2. ASSUME NEW q \in Seq(Key), IsPrefixOf(q, Append(p, k)), q # Append(p, k)
      PROVE  IsPrefixOf(q, p)
    <2>1. Len(q) < Len(p) + 1 /\ Len(q) \in Nat
        BY <1>1, <1>2, PrefixLength, LenProperties
    <2> QED
        BY <1>1, <1>2, <2>1 DEF IsPrefixOf
<1>3. ASSUME NEW q \in Seq(Key), IsPrefixOf(Append(p, k), q)
      PROVE  IsPrefixOf(p, q) /\ p # q
    <2>1. Len(q) \in Nat /\ Len(p) + 1 <= Len(q)
        BY <1>1, <1>3, LenProperties DEF IsPrefixOf
    <2>2. \A i \in 1..Len(p) : q[i] = p[i]
        BY <1>1, <1>3 DEF IsPrefixOf
    <2> QED
        BY <1>1, <2>1, <2>2 DEF IsPrefixOf
<1>4. IsPrefixOf(p, Append(p, k)) /\ p # Append(p, k)
    BY <1>1 DEF IsPrefixOf
<1> QED
    BY <1>1, <1>2, <1>3, <1>4

\* A path goes on below each of its prefixes.
LEMMA NextStep ==
    ASSUME NEW p \in Seq(Key), NEW q \in Seq(Key), IsPrefixOf(p, q), p # q
    PROVE  /\ q[Len(p) + 1] \in Key
           /\ IsPrefixOf(Append(p, q[Len(p) + 1]), q)
<1>1. Len(p) \in Nat /\ Len(q) \in Nat /\ Len(p) < Len(q)
    BY PrefixLength, LenProperties
<1>2. q[Len(p) + 1] \in Key
    BY <1>1, ElementOfSeq
<1> DEFINE k == q[Len(p) + 1]
           a == Append(p, k)
<1>3. /\ Len(a) = Len(p) + 1
      /\ \A i \in 1..Len(p) : a[i] = p[i]
      /\ a[Len(p) + 1] = k
    BY <1>2, AppendProperties
<1> HIDE DEF a
<1>4. \A i \in 1..Len(a) : q[i] = a[i]
    BY <1>1, <1>3 DEF IsPrefixOf
<1> QED
    BY <1>1, <1>2, <1>3, <1>4 DEF a, IsPrefixOf

-----------------------------------------------------------------------------
(* Trees *)

\* Rooted, with prefixes in place of cuts.
ObjectsAbove(t) ==
    \A q \in DOMAIN t : \A p \in Seq(Key) : IsPrefixOf(p, q) /\ p # q =>
        p \in DOMAIN t /\ t[p] = "object"

CutsAbove(t) ==
    \A q \in DOMAIN t : \A n \in 0..(Len(q) - 1) :
        SubSeq(q, 1, n) \in DOMAIN t /\ t[SubSeq(q, 1, n)] = "object"

LEMMA RootedMeans ==
    ASSUME NEW t, DOMAIN t \subseteq Seq(Key)
    PROVE  CutsAbove(t) <=> ObjectsAbove(t)
<1>1. ASSUME CutsAbove(t), NEW q \in DOMAIN t, NEW p \in Seq(Key), IsPrefixOf(p, q), p # q
      PROVE  p \in DOMAIN t /\ t[p] = "object"
    <2>1. Len(p) \in 0..(Len(q) - 1)
        BY <1>1, PrefixLength, LenProperties
    <2>2. SubSeq(q, 1, Len(p)) = p
        BY <1>1, PrefixIsCut
    <2> QED
        BY <1>1, <2>1, <2>2 DEF CutsAbove
<1>2. ASSUME ObjectsAbove(t), NEW q \in DOMAIN t, NEW n \in 0..(Len(q) - 1)
      PROVE  SubSeq(q, 1, n) \in DOMAIN t /\ t[SubSeq(q, 1, n)] = "object"
    <2>1. n \in 0..Len(q) /\ n # Len(q) /\ q \in Seq(Key)
        BY LenProperties
    <2>2. /\ SubSeq(q, 1, n) \in Seq(Key) /\ IsPrefixOf(SubSeq(q, 1, n), q)
          /\ SubSeq(q, 1, n) # q
        BY <2>1, PrefixCut
    <2> QED
        BY <1>2, <2>2 DEF ObjectsAbove
<1> QED
    BY <1>1, <1>2 DEF CutsAbove, ObjectsAbove

LEMMA DocumentTypes ==
    ASSUME NEW d \in Document
    PROVE  /\ d.node \in Node
           /\ DOMAIN d.fields \subseteq Key
           /\ \A k \in DOMAIN d.fields : d.fields[k] \in Node
           /\ DOMAIN d.fields # {} => d.node = "object"
<1>1. CASE d \in [node : {"leaf"} \cup Url, fields : [{} -> {"leaf"}]]
    BY <1>1 DEF Node
<1>2. CASE d \in [node : {"object"}, fields : Fields]
    <2>1. PICK ks \in SUBSET Key : d.fields \in [ks -> {"leaf"} \cup Url]
        BY <1>2 DEF Fields
    <2> QED
        BY <1>2, <2>1 DEF Node
<1> QED
    BY <1>1, <1>2 DEF Document

\* Grafting a document at a path with nothing below it.
LEMMA Grafting ==
    ASSUME NEW t, NEW path \in Seq(Key), NEW d \in Document,
           DOMAIN t \subseteq Seq(Key), t \in [DOMAIN t -> Node], ObjectsAbove(t),
           \A p \in Seq(Key) : IsPrefixOf(p, path) /\ p # path =>
               p \in DOMAIN t /\ t[p] = "object",
           \A q \in DOMAIN t : IsPrefixOf(path, q) => q = path
    PROVE  LET g == Graft(t, path, d)
           IN  /\ DOMAIN g \subseteq Seq(Key)
               /\ g \in [DOMAIN g -> Node]
               /\ ObjectsAbove(g)
               /\ path \in DOMAIN g /\ DOMAIN t \subseteq DOMAIN g
               /\ \A q \in DOMAIN g :
                     \/ q \in DOMAIN t /\ q # path /\ g[q] = t[q]
                     \/ IsPrefixOf(path, q)
<1> DEFINE below == {Append(path, k) : k \in DOMAIN d.fields}
           g == Graft(t, path, d)
<1>1. /\ DOMAIN g = DOMAIN t \cup {path} \cup below
      /\ \A p \in DOMAIN g :
            g[p] = IF p = path THEN d.node
                   ELSE IF p \in below THEN d.fields[p[Len(p)]] ELSE t[p]
      /\ g = [p \in DOMAIN g |-> g[p]]
    BY DEF Graft
<1> HIDE DEF g
<1>2. \A b \in below : \E k \in DOMAIN d.fields :
          b = Append(path, k) /\ k \in Key /\ d.node = "object" /\ d.fields[k] \in Node
    BY DocumentTypes
<1> HIDE DEF below
<1>3. \A b \in below :
          /\ b \in Seq(Key) /\ IsPrefixOf(path, b) /\ b # path
          /\ d.node = "object" /\ d.fields[b[Len(b)]] \in Node
          /\ \A q \in Seq(Key) : IsPrefixOf(q, b) /\ q # b => IsPrefixOf(q, path)
          /\ \A q \in Seq(Key) : IsPrefixOf(b, q) => IsPrefixOf(path, q) /\ path # q
    <2> TAKE b \in below
    <2>1. PICK k \in DOMAIN d.fields :
              b = Append(path, k) /\ k \in Key /\ d.node = "object" /\ d.fields[k] \in Node
        BY <1>2
    <2>2. b[Len(b)] = k
        BY <2>1, StepDown
    <2>3. /\ b \in Seq(Key) /\ IsPrefixOf(path, b) /\ b # path
          /\ \A q \in Seq(Key) : IsPrefixOf(q, b) /\ q # b => IsPrefixOf(q, path)
          /\ \A q \in Seq(Key) : IsPrefixOf(b, q) => IsPrefixOf(path, q) /\ path # q
        BY <2>1, StepDown
    <2> QED
        BY <2>1, <2>2, <2>3
<1>4. DOMAIN g \subseteq Seq(Key)
    BY <1>1, <1>3
<1>5. \A p \in DOMAIN g : g[p] \in Node
    BY <1>1, <1>3, DocumentTypes
<1>6. g \in [DOMAIN g -> Node]
    BY <1>1, <1>5
<1>7. ASSUME NEW q \in Seq(Key), IsPrefixOf(q, path), q # path
      PROVE  q \in DOMAIN g /\ g[q] = "object"
    <2>1. q \in DOMAIN t /\ t[q] = "object"
        BY <1>7
    <2>2. q \notin below
        <3> SUFFICES ASSUME q \in below PROVE FALSE
            OBVIOUS
        <3>1. IsPrefixOf(path, q)
            BY <1>3
        <3> QED
            BY <1>7, <2>1, <3>1
    <2> QED
        BY <1>1, <1>7, <2>1, <2>2
<1>8. ASSUME NEW q \in DOMAIN g, NEW p \in Seq(Key), IsPrefixOf(p, q), p # q
      PROVE  p \in DOMAIN g /\ g[p] = "object"
    <2>1. CASE q = path
        BY <1>7, <1>8, <2>1
    <2>2. CASE q \in below
        <3>1. IsPrefixOf(p, path)
            BY <1>3, <1>8, <2>2
        <3>2. CASE p = path
            BY <1>1, <1>3, <2>2, <3>2
        <3>3. CASE p # path
            BY <1>7, <3>1, <3>3
        <3> QED
            BY <3>2, <3>3
    <2>3. CASE q \in DOMAIN t /\ q # path /\ q \notin below
        <3>1. p \in DOMAIN t /\ t[p] = "object"
            BY <1>8, <2>3 DEF ObjectsAbove
        <3>2. p # path
            BY <1>8, <2>3
        <3>3. p \notin below
            BY <1>3, <1>8, <2>3
        <3> QED
            BY <1>1, <3>1, <3>2, <3>3
    <2> QED
        BY <1>1, <2>1, <2>2, <2>3
<1>9. \A q \in DOMAIN g : \/ q \in DOMAIN t /\ q # path /\ g[q] = t[q]
                         \/ IsPrefixOf(path, q)
    BY <1>1, <1>3 DEF IsPrefixOf
<1> QED
    BY <1>1, <1>4, <1>6, <1>8, <1>9 DEF g, ObjectsAbove
-----------------------------------------------------------------------------
(* The order of an object's keys *)

Rank(ks, k) == Cardinality({j \in ks : j < k})

LEMMA RankBelow ==
    ASSUME NEW ks \in SUBSET Key, NEW k \in ks
    PROVE  Rank(ks, k) \in Nat /\ Rank(ks, k) < Cardinality(ks)
<1> DEFINE less == {j \in ks : j < k}
<1>1. IsFiniteSet(ks) /\ ks \subseteq Nat
    BY FS_Subset, KeyAssumption
<1>2. less \in SUBSET ks /\ k \notin less
    BY <1>1
<1> HIDE DEF less
<1>3. /\ IsFiniteSet(less) /\ Cardinality(less) <= Cardinality(ks)
      /\ Cardinality(ks) # Cardinality(less)
    BY <1>1, <1>2, FS_Subset
<1>4. Cardinality(less) \in Nat /\ Cardinality(ks) \in Nat
    BY <1>1, <1>3, FS_CardinalityType
<1> QED
    BY <1>3, <1>4 DEF Rank, less

LEMMA RankGrows ==
    ASSUME NEW ks \in SUBSET Key, NEW k \in ks, NEW m \in ks, k < m
    PROVE  Rank(ks, k) # Rank(ks, m)
<1> DEFINE less == {j \in ks : j < k}
           more == {j \in ks : j < m}
<1>1. IsFiniteSet(ks) /\ ks \subseteq Nat
    BY FS_Subset, KeyAssumption
<1>2. less \in SUBSET more /\ k \notin less /\ k \in more /\ more \in SUBSET ks
    <2>1. k \in Nat /\ m \in Nat /\ \A j \in ks : j \in Nat
        BY <1>1
    <2>2. \A j \in ks : j < k => j < m
        BY <2>1
    <2>3. ~(k < k)
        BY <2>1
    <2> QED
        BY <2>2, <2>3
<1> HIDE DEF less, more
<1>3. IsFiniteSet(more)
    BY <1>1, <1>2, FS_Subset
<1>4. Cardinality(more) # Cardinality(less)
    BY <1>2, <1>3, FS_Subset
<1> QED
    BY <1>4 DEF Rank, less, more

\* Nth enumerates the keys: as many numbers as keys, and no two keys share one.
LEMMA NthKey ==
    ASSUME NEW ks \in SUBSET Key
    PROVE  /\ Cardinality(ks) \in Nat
           /\ \A i \in 1..Cardinality(ks) : Nth(ks, i) \in ks
           /\ \A k \in ks : \E i \in 1..Cardinality(ks) : Nth(ks, i) = k
           /\ \A i, j \in 1..Cardinality(ks) : Nth(ks, i) = Nth(ks, j) => i = j
<1> DEFINE n == Cardinality(ks)
           r == [k \in ks |-> Rank(ks, k)]
<1>1. IsFiniteSet(ks) /\ ks \subseteq Nat
    BY FS_Subset, KeyAssumption
<1>2. n \in Nat
    BY <1>1, FS_CardinalityType
<1> HIDE DEF n
<1>3. IsFiniteSet(0..(n - 1)) /\ Cardinality(0..(n - 1)) = n
    BY <1>2, FS_Interval
<1>4. \A k \in ks : Rank(ks, k) \in 0..(n - 1)
    BY <1>2, RankBelow DEF n
<1>5. \A k, m \in ks : Rank(ks, k) = Rank(ks, m) => k = m
    BY <1>1, RankGrows
<1>6. r \in Injection(ks, 0..(n - 1))
    BY <1>4, <1>5 DEF Injection, IsInjective
<1>7. r \in Surjection(ks, 0..(n - 1))
    BY <1>3, <1>6, FS_Injection DEF n
<1>8. \A i \in 1..n : \E k \in ks : Rank(ks, k) = i - 1
    <2> TAKE i \in 1..n
    <2>1. i - 1 \in 0..(n - 1)
        BY <1>2
    <2> QED
        BY <1>7, <2>1 DEF Surjection
<1>9. \A i \in 1..n : Nth(ks, i) \in ks /\ Rank(ks, Nth(ks, i)) = i - 1
    BY <1>8 DEF Nth, Rank
<1>10. \A k \in ks : \E i \in 1..n : Nth(ks, i) = k
    <2> TAKE k \in ks
    <2>1. Rank(ks, k) + 1 \in 1..n /\ (Rank(ks, k) + 1) - 1 = Rank(ks, k)
        BY <1>2, <1>4
    <2> QED
        BY <1>5, <1>9, <2>1
<1>11. \A i, j \in 1..n : Nth(ks, i) = Nth(ks, j) => i = j
    <2> TAKE i, j \in 1..n
    <2> HAVE Nth(ks, i) = Nth(ks, j)
    <2>1. i - 1 = j - 1
        BY <1>9
    <2> QED
        BY <2>1
<1> QED
    BY <1>2, <1>9, <1>10, <1>11 DEF n
-----------------------------------------------------------------------------
(* The invariant *)

\* Every visit is to a node, and every reference lies at or below one of them.
Covered(t, visits) ==
    /\ \A i \in 1..Len(visits) : visits[i].path \in DOMAIN t
    /\ \A p \in DOMAIN t : t[p] \in Url =>
          \E i \in 1..Len(visits) : IsPrefixOf(visits[i].path, p)

Tree(t) == DOMAIN t \subseteq Seq(Key) /\ t \in [DOMAIN t -> Node] /\ ObjectsAbove(t)

LEMMA InvariantParts ==
    /\ IInv <=> /\ served \in [Url -> Document \cup {Unreadable}] /\ root \in Document
                /\ pending \in Seq(Visit) /\ Tree(tree) /\ Covered(tree, pending)
    /\ IInv' <=> /\ served' \in [Url -> Document \cup {Unreadable}] /\ root' \in Document
                 /\ pending' \in Seq(Visit) /\ Tree(tree') /\ Covered(tree', pending')
<1>1. Rooted <=> CutsAbove(tree)
    BY DEF Rooted, CutsAbove
<1>2. Rooted' <=> CutsAbove(tree')
    BY DEF Rooted, CutsAbove
<1>3. DOMAIN tree \subseteq Seq(Key) => (CutsAbove(tree) <=> ObjectsAbove(tree))
    BY RootedMeans
<1>4. DOMAIN tree' \subseteq Seq(Key) => (CutsAbove(tree') <=> ObjectsAbove(tree'))
    BY RootedMeans
<1>5. Covered(tree, pending) <=>
          (\A i \in 1..Len(pending) : pending[i].path \in DOMAIN tree) /\ NoReferenceForgotten
    BY DEF Covered, NoReferenceForgotten
<1>6. Covered(tree', pending') <=>
          (\A i \in 1..Len(pending) : pending[i].path \in DOMAIN tree)' /\ NoReferenceForgotten'
    BY DEF Covered, NoReferenceForgotten
<1> QED
    BY <1>1, <1>2, <1>3, <1>4, <1>5, <1>6 DEF IInv, TypeOK, Tree

LEMMA InitInvariant == Init => IInv
<1> SUFFICES ASSUME Init PROVE IInv
    OBVIOUS
<1> DEFINE t == << >>
           path == << >>
<1>1. /\ path \in Seq(Key) /\ DOMAIN t = {} /\ Len(path) = 0
    OBVIOUS
<1>2. \A p \in Seq(Key) : IsPrefixOf(path, p) /\ (IsPrefixOf(p, path) => p = path)
    <2> TAKE p \in Seq(Key)
    <2>1. IsPrefixOf(path, p)
        BY LenProperties DEF IsPrefixOf
    <2> HIDE DEF path
    <2>2. IsPrefixOf(p, path) => p = path
        <3>1. Len(p) \in Nat
            BY LenProperties
        <3>2. IsPrefixOf(p, path) /\ p # path => Len(p) < Len(path)
            BY <1>1, PrefixLength
        <3> QED
            BY <1>1, <3>1, <3>2
    <2> QED
        BY <2>1, <2>2
<1>3. t \in [DOMAIN t -> Node] /\ ObjectsAbove(t)
    BY <1>1 DEF ObjectsAbove
<1>4. tree = Graft(t, path, root) /\ root \in Document
    BY DEF Init
<1>5. pending = <<[path |-> path, ancestors |-> {}]>>
    BY DEF Init
<1> HIDE DEF t, path
<1>6. /\ Tree(tree) /\ path \in DOMAIN tree
    BY <1>1, <1>2, <1>3, <1>4, Grafting DEF Tree
<1>7. pending \in Seq(Visit) /\ Len(pending) = 1 /\ pending[1].path = path
    BY <1>1, <1>5 DEF Visit
<1>8. Covered(tree, pending)
    BY <1>2, <1>6, <1>7 DEF Covered, Tree
<1> QED
    BY <1>6, <1>7, <1>8, InvariantParts DEF Init

LEMMA AllButLast ==
    ASSUME NEW S, NEW s \in Seq(S), Len(s) \in Nat \ {0}
    PROVE  /\ SubSeq(s, 1, Len(s) - 1) \in Seq(S)
           /\ Len(SubSeq(s, 1, Len(s) - 1)) = Len(s) - 1
           /\ \A i \in 1..(Len(s) - 1) : SubSeq(s, 1, Len(s) - 1)[i] = s[i]
<1> DEFINE n == Len(s) - 1
<1>1. n \in Nat /\ \A i \in 1..n : s[i] \in S
    BY ElementOfSeq
<1> HIDE DEF n
<1>2. /\ SubSeq(s, 1, n) \in Seq(S)
      /\ Len(SubSeq(s, 1, n)) = IF 1 <= n THEN n - 1 + 1 ELSE 0
      /\ \A i \in 1..(n - 1 + 1) : SubSeq(s, 1, n)[i] = s[1 + i - 1]
    BY <1>1, SubSeqProperties
<1>3. /\ SubSeq(s, 1, n) \in Seq(S) /\ Len(SubSeq(s, 1, n)) = n
      /\ \A i \in 1..n : SubSeq(s, 1, n)[i] = s[i]
    BY <1>1, <1>2
<1> QED
    BY <1>3 DEF n

\* The visit on top of the stack, and the stack below it.
LEMMA TopVisit ==
    ASSUME IInv, pending # <<>>
    PROVE  /\ Len(pending) \in Nat \ {0}
           /\ Top \in Visit /\ Top.path \in Seq(Key) /\ Top.path \in DOMAIN tree
           /\ Popped \in Seq(Visit) /\ Len(Popped) = Len(pending) - 1
           /\ \A i \in 1..Len(Popped) : Popped[i] = pending[i]
<1>1. pending \in Seq(Visit) /\ Covered(tree, pending)
    BY InvariantParts
<1>2. Len(pending) \in Nat \ {0}
    BY <1>1, EmptySeq, LenProperties
<1>3. \A i \in 1..Len(pending) : pending[i] \in Visit
    BY <1>1, ElementOfSeq
<1>4. Top \in Visit /\ Top.path \in DOMAIN tree
    BY <1>1, <1>2, <1>3 DEF Top, Covered
<1>5. /\ Popped \in Seq(Visit) /\ Len(Popped) = Len(pending) - 1
      /\ \A i \in 1..(Len(pending) - 1) : Popped[i] = pending[i]
    BY <1>1, <1>2, AllButLast DEF Popped
<1> QED
    BY <1>2, <1>4, <1>5 DEF Visit

\* Nothing lies below a reference.
LEMMA NothingBelow ==
    ASSUME Tree(tree), NEW p \in DOMAIN tree, tree[p] \in Url,
           NEW q \in DOMAIN tree, IsPrefixOf(p, q)
    PROVE  q = p
BY UrlAssumption DEF Tree, ObjectsAbove

LEMMA NullingStep ==
    ASSUME IInv, pending # <<>>, Found \in Url,
           tree' = Nulled(tree, Top.path), pending' = Popped, UNCHANGED <<served, root>>
    PROVE  IInv'
<1> DEFINE P == Top.path
<1>1. Tree(tree) /\ Covered(tree, pending)
    BY InvariantParts
<1>2. P \in DOMAIN tree /\ P \in Seq(Key) /\ tree[P] \in Url
    BY TopVisit DEF Found
<1>3. tree' = [tree EXCEPT ![P] = "null"]
    BY DEF Nulled
<1>4. P = Top.path
    OBVIOUS
<1> HIDE DEF P
<1>5. /\ DOMAIN tree' = DOMAIN tree /\ tree'[P] = "null"
      /\ \A q \in DOMAIN tree : q # P => tree'[q] = tree[q]
      /\ tree' \in [DOMAIN tree' -> Node]
    BY <1>1, <1>2, <1>3 DEF Tree, Node
<1>6. ObjectsAbove(tree')
    BY <1>1, <1>2, <1>5, UrlAssumption DEF Tree, ObjectsAbove
<1>7. Covered(tree', pending')
    <2>1. \A i \in 1..Len(pending') : pending'[i].path \in DOMAIN tree'
        BY <1>1, <1>5, TopVisit DEF Covered
    <2>2. ASSUME NEW q \in DOMAIN tree', tree'[q] \in Url
          PROVE  \E i \in 1..Len(pending') : IsPrefixOf(pending'[i].path, q)
        <3>1. q \in DOMAIN tree /\ q # P /\ tree[q] \in Url
            BY <1>5, <2>2, UrlAssumption
        <3>2. PICK i \in 1..Len(pending) : IsPrefixOf(pending[i].path, q)
            BY <1>1, <3>1 DEF Covered
        <3>3. i # Len(pending)
            BY <1>1, <1>2, <1>4, <3>1, <3>2, NothingBelow DEF Top
        <3>4. i \in 1..Len(Popped) /\ Popped[i] = pending[i]
            BY <3>2, <3>3, TopVisit
        <3> QED
            BY <3>2, <3>4
    <2> QED
        BY <2>1, <2>2 DEF Covered
<1> QED
    BY <1>1, <1>5, <1>6, <1>7, TopVisit, InvariantParts DEF Tree

LEMMA ExpandStep ==
    ASSUME IInv, Expand
    PROVE  IInv'
<1> DEFINE P == Top.path
           d == served[Found]
           visit == [path |-> P, ancestors |-> Chain(Found)]
<1>1. Tree(tree) /\ Covered(tree, pending) /\ served \in [Url -> Document \cup {Unreadable}]
    BY InvariantParts
<1>2. pending # <<>> /\ Found \in Url
    BY DEF Expand
<1>3. P \in DOMAIN tree /\ P \in Seq(Key) /\ tree[P] \in Url
    BY <1>2, TopVisit DEF Found
<1>4. d \in Document
    BY <1>1, <1>2 DEF Expand
<1>5. tree' = Graft(tree, P, d) /\ pending' = Append(Popped, visit) /\ UNCHANGED <<served, root>>
    BY DEF Expand
<1>6. visit \in Visit /\ visit.path = P
    BY <1>2, <1>3, TopVisit DEF Visit, Chain
<1>7. P = Top.path
    OBVIOUS
<1> HIDE DEF P, d, visit
<1>8. \A q \in DOMAIN tree : IsPrefixOf(P, q) => q = P
    BY <1>1, <1>3, NothingBelow
<1>9. /\ Tree(tree') /\ P \in DOMAIN tree' /\ DOMAIN tree \subseteq DOMAIN tree'
      /\ \A q \in DOMAIN tree' :
            \/ q \in DOMAIN tree /\ q # P /\ tree'[q] = tree[q]
            \/ IsPrefixOf(P, q)
    <2>1. \A p \in Seq(Key) :
              IsPrefixOf(p, P) /\ p # P => p \in DOMAIN tree /\ tree[p] = "object"
        BY <1>1, <1>3 DEF Tree, ObjectsAbove
    <2> QED
        BY <1>1, <1>3, <1>4, <1>5, <1>8, <2>1, Grafting DEF Tree
<1>10. /\ pending' \in Seq(Visit) /\ Len(pending') = Len(pending)
       /\ \A i \in 1..(Len(pending) - 1) : pending'[i] = pending[i]
       /\ pending'[Len(pending)] = visit
    <2>1. /\ Len(pending) \in Nat \ {0} /\ Popped \in Seq(Visit)
          /\ Len(Popped) = Len(pending) - 1
          /\ \A i \in 1..Len(Popped) : Popped[i] = pending[i]
        BY <1>2, TopVisit
    <2> HIDE DEF Visit
    <2> QED
        BY <1>5, <1>6, <2>1, AppendProperties
<1>11. \A i \in 1..Len(pending) : pending'[i].path = pending[i].path
    <2> TAKE i \in 1..Len(pending)
    <2>1. CASE i = Len(pending)
        BY <1>6, <1>7, <1>10, <2>1 DEF Top
    <2>2. CASE i # Len(pending)
        BY <1>2, <1>10, <2>2, TopVisit
    <2> QED
        BY <2>1, <2>2
<1>12. Covered(tree', pending')
    <2>1. \A i \in 1..Len(pending') : pending'[i].path \in DOMAIN tree'
        BY <1>1, <1>9, <1>10, <1>11 DEF Covered
    <2>2. ASSUME NEW q \in DOMAIN tree', tree'[q] \in Url
          PROVE  \E i \in 1..Len(pending') : IsPrefixOf(pending'[i].path, q)
        <3>1. CASE q \in DOMAIN tree /\ q # P /\ tree'[q] = tree[q]
            BY <1>1, <1>10, <1>11, <2>2, <3>1 DEF Covered
        <3>2. CASE IsPrefixOf(P, q)
            BY <1>2, <1>6, <1>10, <3>2, TopVisit
        <3> QED
            BY <1>9, <3>1, <3>2
    <2> QED
        BY <2>1, <2>2 DEF Covered
<1> QED
    BY <1>1, <1>5, <1>9, <1>10, <1>12, InvariantParts

LEMMA PushStep ==
    ASSUME IInv, PushChildren
    PROVE  IInv'
<1> DEFINE P == Top.path
           ks == ChildKeys(P)
           new == Children(P, Top.ancestors)
<1>1. Tree(tree) /\ Covered(tree, pending)
    BY InvariantParts
<1>2. pending # <<>> /\ Found \notin Url
    BY DEF PushChildren
<1>3. P \in DOMAIN tree /\ P \in Seq(Key) /\ tree[P] \notin Url /\ Top.ancestors \in SUBSET Url
    BY <1>2, TopVisit DEF Found, Visit
<1>4. pending' = Popped \o new /\ UNCHANGED <<served, root, tree>>
    BY DEF PushChildren
<1>5. P = Top.path
    OBVIOUS
<1>6. ks \in SUBSET Key /\ \A k \in Key : k \in ks <=> Append(P, k) \in DOMAIN tree
    BY DEF ChildKeys
<1>7. new = [i \in 1..Cardinality(ks) |->
                [path |-> Append(P, Nth(ks, i)), ancestors |-> Top.ancestors]]
    BY DEF Children
<1> HIDE DEF P, ks, new
<1>8. /\ Cardinality(ks) \in Nat
      /\ \A i \in 1..Cardinality(ks) : Nth(ks, i) \in ks
      /\ \A k \in ks : \E i \in 1..Cardinality(ks) : Nth(ks, i) = k
    BY <1>6, NthKey
<1>9. /\ new \in Seq(Visit) /\ Len(new) = Cardinality(ks)
      /\ \A i \in 1..Len(new) : new[i].path = Append(P, Nth(ks, i))
    <2>1. \A i \in 1..Cardinality(ks) :
             [path |-> Append(P, Nth(ks, i)), ancestors |-> Top.ancestors] \in Visit
        BY <1>3, <1>6, <1>8, AppendProperties DEF Visit
    <2> HIDE DEF Visit
    <2>2. new \in [1..Cardinality(ks) -> Visit]
        BY <1>7, <2>1
    <2>3. new \in Seq(Visit) /\ Len(new) = Cardinality(ks)
        BY <1>8, <2>2
    <2> QED
        BY <1>7, <2>3
<1>10. /\ pending' \in Seq(Visit) /\ Len(pending') = Len(Popped) + Len(new)
       /\ \A i \in 1..Len(Popped) : pending'[i] = Popped[i]
       /\ \A i \in 1..Len(new) : pending'[Len(Popped) + i] = new[i]
    <2>1. Popped \in Seq(Visit)
        BY <1>2, TopVisit
    <2> HIDE DEF Visit
    <2>2. /\ pending' \in Seq(Visit) /\ Len(pending') = Len(Popped) + Len(new)
          /\ \A i \in 1..Len(Popped) + Len(new) :
                pending'[i] = IF i <= Len(Popped) THEN Popped[i] ELSE new[i - Len(Popped)]
        BY <1>4, <1>9, <2>1, ConcatProperties
    <2>3. Len(Popped) \in Nat /\ Len(new) \in Nat
        BY <1>9, <2>1, LenProperties
    <2> QED
        BY <2>2, <2>3
<1>11. /\ Len(Popped) \in Nat /\ Len(Popped) = Len(pending) - 1 /\ Len(new) \in Nat
       /\ \A i \in 1..Len(Popped) : Popped[i] = pending[i]
    BY <1>2, <1>8, <1>9, TopVisit
<1>12. \A i \in 1..Len(pending') : pending'[i].path \in DOMAIN tree'
    <2> TAKE i \in 1..Len(pending')
    <2>1. CASE i \in 1..Len(Popped)
        BY <1>1, <1>4, <1>10, <1>11, <2>1 DEF Covered
    <2>2. CASE i \notin 1..Len(Popped)
        <3> DEFINE j == i - Len(Popped)
        <3>1. j \in 1..Len(new) /\ i = Len(Popped) + j
            BY <1>10, <1>11, <2>2
        <3>2. pending'[i].path = Append(P, Nth(ks, j)) /\ Nth(ks, j) \in ks
            BY <1>8, <1>9, <1>10, <3>1
        <3> QED
            BY <1>4, <1>6, <3>2
    <2> QED
        BY <2>1, <2>2
<1>13. ASSUME NEW q \in DOMAIN tree', tree'[q] \in Url
       PROVE  \E i \in 1..Len(pending') : IsPrefixOf(pending'[i].path, q)
    <2>1. PICK i \in 1..Len(pending) : IsPrefixOf(pending[i].path, q)
        BY <1>1, <1>4, <1>13 DEF Covered
    <2>2. CASE i # Len(pending)
        <3>1. i \in 1..Len(Popped)
            BY <1>11, <2>2
        <3>2. pending'[i].path = pending[i].path
            BY <1>10, <1>11, <3>1
        <3>3. i \in 1..Len(pending')
            BY <1>10, <1>11, <3>1
        <3> QED
            BY <2>1, <3>2, <3>3
    <2>3. CASE i = Len(pending)
        <3>1. q \in Seq(Key) /\ IsPrefixOf(P, q) /\ P # q
            BY <1>1, <1>3, <1>4, <1>5, <1>13, <2>1, <2>3 DEF Top, Tree
        <3> DEFINE k == q[Len(P) + 1]
                   a == Append(P, k)
        <3>2. k \in Key /\ IsPrefixOf(a, q)
            BY <1>3, <3>1, NextStep
        <3>3. a \in Seq(Key)
            BY <1>3, <3>2, AppendProperties
        <3> HIDE DEF k
        <3>4. a \in DOMAIN tree
            BY <1>1, <1>4, <1>13, <3>2, <3>3 DEF Tree, ObjectsAbove
        <3>5. k \in ks
            BY <1>6, <3>2, <3>4
        <3>6. PICK j \in 1..Len(new) : Nth(ks, j) = k
            BY <1>8, <1>9, <3>5
        <3>7. pending'[Len(Popped) + j].path = a
            BY <1>9, <1>10, <3>6
        <3>8. Len(Popped) + j \in 1..Len(pending')
            BY <1>10, <1>11, <3>6
        <3> HIDE DEF a
        <3> QED
            BY <3>2, <3>7, <3>8
    <2> QED
        BY <2>2, <2>3
<1>14. Covered(tree', pending')
    BY <1>12, <1>13 DEF Covered
<1> QED
    BY <1>1, <1>4, <1>10, <1>14, InvariantParts

LEMMA StepInvariant == IInv /\ [Next]_vars => IInv'
<1> SUFFICES ASSUME IInv, [Next]_vars PROVE IInv'
    OBVIOUS
<1>1. CASE CutCycle
    BY <1>1, NullingStep DEF CutCycle
<1>2. CASE ReadFails
    BY <1>2, NullingStep DEF ReadFails
<1>3. CASE Expand
    BY <1>3, ExpandStep
<1>4. CASE PushChildren
    BY <1>4, PushStep
<1>5. CASE UNCHANGED vars
    BY <1>5, InvariantParts DEF vars
<1> QED
    BY <1>1, <1>2, <1>3, <1>4, <1>5 DEF Next

(* Main theorems *)

\* Whatever the locations serve and whichever of them fail, the stack of paths
\* holds a visit to, or above, every reference that is still in the document,
\* and each of its paths leads to a node (resolve_external_urls).
THEOREM Invariance == Spec => []IInv
<1> QED
    BY InitInvariant, StepInvariant, PTL DEF Spec

\* When nothing is left to visit the document holds no reference.
NothingLeft == pending = <<>> => \A p \in DOMAIN tree : tree[p] \notin Url

THEOREM NoReferenceLeft == Spec => []NothingLeft
<1>1. IInv => NothingLeft
    BY DEF IInv, NoReferenceForgotten, NothingLeft
<1> QED
    BY <1>1, Invariance, PTL

\* Induction over the numbers in a set, by its least counterexample.
LEMMA Induction ==
    ASSUME NEW T, 0 \in T, \A n \in Nat : n \in T => n + 1 \in T
    PROVE  Nat \subseteq T
<1> DEFINE Missing == {n \in Nat : n \notin T}
<1> SUFFICES ASSUME Missing # {} PROVE FALSE
    OBVIOUS
<1>1. IsWellFoundedOn(OpToRel(<, Nat), Nat)
    BY NatLessThanWellFounded
<1>2. Missing \subseteq Nat
    OBVIOUS
<1>3. PICK m \in Missing : \A n \in Missing : <<n, m>> \notin OpToRel(<, Nat)
    <2> HIDE DEF Missing
    <2> QED BY <1>1, <1>2, WFMin
<1>4. m \in Nat \ {0} /\ m - 1 \in Nat /\ m - 1 < m
    OBVIOUS
<1>5. m - 1 \notin Missing
    BY <1>3, <1>4 DEF OpToRel
<1> QED BY <1>4, <1>5
(* What the recursive definition gives *)

\* The places the recursion visits, and a number that falls on the way down: a
\* location more on the chain, or a field instead of its object.
Place == (SUBSET Url) \X Document

Weight(place) ==
    2 * Cardinality(Url \ place[1]) + (IF place[2].node = "object" THEN 1 ELSE 0)

\* What every location serves is fixed.
WebOK == served \in [Url -> Document \cup {Unreadable}]

\* A document is an object, a leaf or a reference, and only an object has fields.
LEMMA DocumentKinds ==
    ASSUME NEW d \in Document
    PROVE  /\ d.node = "object" \/ d.node = "leaf" \/ d.node \in Url
           /\ d.node = "object" => d.node \notin Url
           /\ d.node # "object" => DOMAIN d.fields = {} /\ d = Single(d.node)
           /\ \A k \in DOMAIN d.fields :
                /\ d.fields[k] \in {"leaf"} \cup Url
                /\ Single(d.fields[k]) \in Document
                /\ Single(d.fields[k]).node = d.fields[k]
<1>1. \A n \in {"leaf"} \cup Url : Single(n) \in Document /\ Single(n).node = n
    <2> TAKE n \in {"leaf"} \cup Url
    <2>1. <<>> \in [{} -> {"leaf"}]
        OBVIOUS
    <2> QED
        BY <2>1 DEF Single, Document
<1>2. CASE d \in [node : {"leaf"} \cup Url, fields : [{} -> {"leaf"}]]
    <2>1. d.fields = <<>>
        BY <1>2
    <2>2. d = [node |-> d.node, fields |-> d.fields]
        BY <1>2
    <2> QED
        BY <1>1, <1>2, <2>1, <2>2, UrlAssumption DEF Single
<1>3. CASE d \in [node : {"object"}, fields : Fields]
    <2>1. PICK ks \in SUBSET Key : d.fields \in [ks -> {"leaf"} \cup Url]
        BY <1>3 DEF Fields
    <2> QED
        BY <1>1, <1>3, <2>1, UrlAssumption
<1> QED
    BY <1>2, <1>3 DEF Document

\* The number has a bound, as there are finitely many locations.
LEMMA WeightType ==
    ASSUME NEW v \in Place
    PROVE  /\ Weight(v) \in Nat
           /\ Weight(v) <= 2 * Cardinality(Url) + 1
<1>1. /\ IsFiniteSet(Url \ v[1]) /\ Cardinality(Url \ v[1]) <= Cardinality(Url)
      /\ Cardinality(Url) \in Nat /\ Cardinality(Url \ v[1]) \in Nat
    BY FiniteAssumption, FS_Subset, FS_CardinalityType
<1> QED
    BY <1>1 DEF Weight

\* The recursion goes to smaller places only.
LEMMA SmallerPlaces ==
    ASSUME WebOK, NEW chain \in SUBSET Url, NEW doc \in Document
    PROVE  /\ doc.node = "object" =>
                \A k \in DOMAIN doc.fields :
                    LET v == <<chain, Single(doc.fields[k])>>
                    IN  v \in Place /\ Weight(v) < Weight(<<chain, doc>>)
           /\ doc.node \in Url /\ doc.node \notin chain /\ served[doc.node] # Unreadable =>
                LET v == <<chain \cup {doc.node}, served[doc.node]>>
                IN  v \in Place /\ Weight(v) < Weight(<<chain, doc>>)
<1>0. <<chain, doc>> \in Place
    BY DEF Place
<1>1. ASSUME doc.node = "object", NEW k \in DOMAIN doc.fields
      PROVE  /\ <<chain, Single(doc.fields[k])>> \in Place
             /\ Weight(<<chain, Single(doc.fields[k])>>) < Weight(<<chain, doc>>)
    <2>1. /\ Single(doc.fields[k]) \in Document /\ Single(doc.fields[k]).node # "object"
        BY DocumentKinds, UrlAssumption
    <2>2. Cardinality(Url \ chain) \in Nat
        BY FiniteAssumption, FS_Subset, FS_CardinalityType
    <2> QED
        BY <1>1, <2>1, <2>2 DEF Weight, Place
<1>2. ASSUME doc.node \in Url, doc.node \notin chain, served[doc.node] # Unreadable
      PROVE  /\ <<chain \cup {doc.node}, served[doc.node]>> \in Place
             /\ Weight(<<chain \cup {doc.node}, served[doc.node]>>) < Weight(<<chain, doc>>)
    <2>1. served[doc.node] \in Document /\ doc.node # "object"
        BY <1>2, UrlAssumption DEF WebOK
    <2> DEFINE rest == Url \ chain
               less == Url \ (chain \cup {doc.node})
    <2>2. less = rest \ {doc.node} /\ doc.node \in rest
        BY <1>2
    <2>3. IsFiniteSet(rest) /\ Cardinality(rest) \in Nat
        BY FiniteAssumption, FS_Subset, FS_CardinalityType
    <2>4. Cardinality(less) = Cardinality(rest) - 1
        <3> HIDE DEF rest, less
        <3> QED
            BY <2>2, <2>3, FS_RemoveElement
    <2>5. <<chain \cup {doc.node}, served[doc.node]>> \in Place
        BY <1>2, <2>1 DEF Place
    <2>6. /\ Weight(<<chain, doc>>) = 2 * Cardinality(rest) + 0
          /\ \E b \in {0, 1} :
                Weight(<<chain \cup {doc.node}, served[doc.node]>>) = 2 * Cardinality(less) + b
        BY <2>1 DEF Weight
    <2> HIDE DEF rest, less
    <2>7. \A b \in {0, 1} : 2 * Cardinality(less) + b < 2 * Cardinality(rest) + 0
        BY <2>3, <2>4
    <2> QED
        BY <2>5, <2>6, <2>7
<1> QED
    BY <1>1, <1>2

\* What a place expands to depends on the smaller places alone.
LEMMA ExpandedAlike ==
    ASSUME WebOK, NEW chain \in SUBSET Url, NEW doc \in Document, NEW f, NEW g,
           \A v \in Place : Weight(v) < Weight(<<chain, doc>>) => f[v] = g[v]
    PROVE  Expanded(f, chain, doc) = Expanded(g, chain, doc)
<1>1. CASE doc.node = "object"
    <2>1. \A k \in DOMAIN doc.fields :
            f[<<chain, Single(doc.fields[k])>>] = g[<<chain, Single(doc.fields[k])>>]
        BY <1>1, SmallerPlaces
    <2>2. {Below(k, f[<<chain, Single(doc.fields[k])>>]) : k \in DOMAIN doc.fields} =
          {Below(k, g[<<chain, Single(doc.fields[k])>>]) : k \in DOMAIN doc.fields}
        BY <2>1
    <2> QED
        BY <1>1, <2>2 DEF Expanded
<1>2. CASE doc.node # "object"
    <2>1. CASE doc.node = "leaf" \/ doc.node \in chain \/ served[doc.node] = Unreadable
        BY <1>2, <2>1 DEF Expanded
    <2>2. CASE doc.node # "leaf" /\ doc.node \notin chain /\ served[doc.node] # Unreadable
        <3>1. doc.node \in Url
            BY <1>2, <2>2, DocumentKinds
        <3>2. f[<<chain \cup {doc.node}, served[doc.node]>>] =
              g[<<chain \cup {doc.node}, served[doc.node]>>]
            BY <2>2, <3>1, SmallerPlaces
        <3> QED
            BY <1>2, <2>2, <3>2 DEF Expanded
    <2> QED
        BY <2>1, <2>2
<1> QED
    BY <1>1, <1>2

\* f satisfies the recursive equation at the places smaller than n.
Solves(f, n) ==
    \A v \in Place : Weight(v) < n => f[v] = Expanded(f, v[1], v[2])

\* The recursive definition has a solution, so that it may be unfolded: a solution
\* for the places below n extends to those below n + 1.
LEMMA ExpansionStep ==
    ASSUME WebOK, NEW chain \in SUBSET Url, NEW doc \in Document
    PROVE  Expansion[<<chain, doc>>] = Expanded(Expansion, chain, doc)
<1> DEFINE Solved == {n \in Nat : \E f : Solves(f, n)}
<1>1. 0 \in Solved
    <2>1. \A v \in Place : ~(Weight(v) < 0)
        BY WeightType
    <2>2. Solves(<<>>, 0)
        BY <2>1 DEF Solves
    <2> QED
        BY <2>2
<1>2. ASSUME NEW n \in Nat, n \in Solved PROVE n + 1 \in Solved
    <2>1. PICK f : Solves(f, n)
        BY <1>2
    <2> DEFINE g == [v \in Place |-> Expanded(f, v[1], v[2])]
    <2>2. ASSUME NEW v \in Place, Weight(v) < n + 1
          PROVE  g[v] = Expanded(g, v[1], v[2])
        <3>1. v[1] \in SUBSET Url /\ v[2] \in Document /\ v = <<v[1], v[2]>>
            BY DEF Place
        <3>2. ASSUME NEW w \in Place, Weight(w) < Weight(v)
              PROVE  f[w] = g[w]
            <4>1. Weight(w) < n
                BY <2>2, <3>2, WeightType
            <4>2. f[w] = Expanded(f, w[1], w[2])
                BY <2>1, <4>1 DEF Solves
            <4> QED
                BY <4>2
        <3> HIDE DEF g
        <3>3. Expanded(f, v[1], v[2]) = Expanded(g, v[1], v[2])
            BY <3>1, <3>2, ExpandedAlike
        <3> QED
            BY <3>3 DEF g
    <2> HIDE DEF g
    <2>3. Solves(g, n + 1)
        BY <2>2 DEF Solves
    <2> QED
        BY <2>3
<1> HIDE DEF Solved
<1>3. Nat \subseteq Solved
    BY <1>1, <1>2, Induction
<1> DEFINE N == 2 * Cardinality(Url) + 2
<1>4. N \in Nat /\ \A v \in Place : Weight(v) < N
    BY FiniteAssumption, FS_CardinalityType, WeightType
<1>5. PICK f : Solves(f, N)
    BY <1>3, <1>4 DEF Solved
<1> DEFINE g == [v \in Place |-> Expanded(f, v[1], v[2])]
<1>6. g = [v \in Place |-> Expanded(g, v[1], v[2])]
    <2>1. \A v \in Place : f[v] = g[v]
        BY <1>4, <1>5 DEF Solves
    <2> HIDE DEF g
    <2>2. ASSUME NEW v \in Place
          PROVE  Expanded(f, v[1], v[2]) = Expanded(g, v[1], v[2])
        <3>1. v[1] \in SUBSET Url /\ v[2] \in Document
            BY DEF Place
        <3>2. \A w \in Place : Weight(w) < Weight(<<v[1], v[2]>>) => f[w] = g[w]
            BY <2>1
        <3> HIDE DEF N
        <3> QED
            BY <3>1, <3>2, ExpandedAlike
    <2> QED
        BY <2>2 DEF g
<1> HIDE DEF g
<1>7. Expansion = CHOOSE e : e = [place \in Place |-> Expanded(e, place[1], place[2])]
    BY DEF Expansion, Place
<1>8. Expansion = [v \in Place |-> Expanded(Expansion, v[1], v[2])]
    BY <1>6, <1>7
<1> QED
    BY <1>8 DEF Place

\* A step that leaves the web alone leaves what its documents expand to.
LEMMA SameExpansion == served' = served => Expansion' = Expansion
BY DEF Expansion, Expanded
-----------------------------------------------------------------------------
(* What places expand to *)

\* What expands is made of nodes at paths.
Nodes == Seq(Key) \X Node

\* Putting nodes below a key keeps them nodes at paths.
LEMMA BelowType ==
    ASSUME NEW X \in SUBSET Nodes, NEW k \in Key
    PROVE  Below(k, X) \in SUBSET Nodes
<1> SUFFICES ASSUME NEW pn \in X PROVE <<(<<k>> \o pn[1]), pn[2]>> \in Nodes
    BY DEF Below
<1>1. pn[1] \in Seq(Key) /\ pn[2] \in Node
    BY DEF Nodes
<1>2. <<k>> \o pn[1] \in Seq(Key)
    BY <1>1
<1> QED
    BY <1>1, <1>2 DEF Nodes

\* So does a step of the recursion.
LEMMA ExpandedType ==
    ASSUME WebOK, NEW chain \in SUBSET Url, NEW doc \in Document, NEW f,
           \A v \in Place : Weight(v) < Weight(<<chain, doc>>) => f[v] \in SUBSET Nodes
    PROVE  Expanded(f, chain, doc) \in SUBSET Nodes
<1>1. <<>> \in Seq(Key) /\ {"object", "leaf", "null"} \subseteq Node
    BY DEF Node
<1>2. CASE doc.node = "object"
    <2>1. \A k \in DOMAIN doc.fields :
              Below(k, f[<<chain, Single(doc.fields[k])>>]) \in SUBSET Nodes
        <3> TAKE k \in DOMAIN doc.fields
        <3>1. f[<<chain, Single(doc.fields[k])>>] \in SUBSET Nodes
            BY <1>2, SmallerPlaces
        <3>2. k \in Key
            BY DocumentTypes
        <3> QED
            BY <3>1, <3>2, BelowType
    <2>2. <<(<<>>), "object">> \in Nodes
        BY <1>1 DEF Nodes
    <2> QED
        BY <1>2, <2>1, <2>2 DEF Expanded
<1>3. CASE doc.node # "object"
    <2>1. CASE doc.node = "leaf" \/ doc.node \in chain \/ served[doc.node] = Unreadable
        <3>1. <<(<<>>), "leaf">> \in Nodes /\ <<(<<>>), "null">> \in Nodes
            BY <1>1 DEF Nodes
        <3> QED
            BY <1>3, <2>1, <3>1 DEF Expanded
    <2>2. CASE doc.node # "leaf" /\ doc.node \notin chain /\ served[doc.node] # Unreadable
        <3>1. doc.node \in Url
            BY <1>3, <2>2, DocumentKinds
        <3>2. f[<<chain \cup {doc.node}, served[doc.node]>>] \in SUBSET Nodes
            BY <2>2, <3>1, SmallerPlaces
        <3> QED
            BY <1>3, <2>2, <3>2 DEF Expanded
    <2> QED
        BY <2>1, <2>2
<1> QED
    BY <1>2, <1>3

\* Every place expands to nodes at paths.
LEMMA ExpansionType ==
    ASSUME WebOK
    PROVE  \A v \in Place : Expansion[v] \in SUBSET Nodes
<1> DEFINE Typed == {n \in Nat : \A v \in Place : Weight(v) < n => Expansion[v] \in SUBSET Nodes}
<1>1. 0 \in Typed
    <2>1. \A v \in Place : ~(Weight(v) < 0)
        BY WeightType
    <2> QED
        BY <2>1
<1>2. ASSUME NEW n \in Nat, n \in Typed PROVE n + 1 \in Typed
    <2>1. ASSUME NEW v \in Place, Weight(v) < n + 1
          PROVE  Expansion[v] \in SUBSET Nodes
        <3>1. v[1] \in SUBSET Url /\ v[2] \in Document /\ v = <<v[1], v[2]>>
            BY DEF Place
        <3>2. \A w \in Place :
                  Weight(w) < Weight(<<v[1], v[2]>>) => Expansion[w] \in SUBSET Nodes
            <4> TAKE w \in Place
            <4>1. Weight(w) < Weight(v) => Weight(w) < n
                BY <2>1, WeightType
            <4> QED
                BY <1>2, <3>1, <4>1
        <3> HIDE DEF Typed
        <3>3. Expanded(Expansion, v[1], v[2]) \in SUBSET Nodes
            BY <3>1, <3>2, ExpandedType
        <3> QED
            BY <3>1, <3>3, ExpansionStep
    <2> QED
        BY <2>1
<1> HIDE DEF Typed
<1>3. Nat \subseteq Typed
    BY <1>1, <1>2, Induction
<1> QED
    <2> SUFFICES ASSUME NEW v \in Place PROVE Expansion[v] \in SUBSET Nodes
        OBVIOUS
    <2>1. Weight(v) \in Nat
        BY WeightType
    <2>2. Weight(v) + 1 \in Typed /\ Weight(v) < Weight(v) + 1
        BY <1>3, <2>1
    <2> QED
        BY <2>2 DEF Typed
-----------------------------------------------------------------------------
(* Moving what a place expands to below a path *)

(* Documents within documents *)

\* A single node, moved to a path.
LEMMA RebasedOne ==
    ASSUME NEW path \in Seq(Key), NEW n
    PROVE  Rebased(path, {<<(<<>>), n>>}) = {<<path, n>>}
<1>1. path \o <<>> = path
    OBVIOUS
<1> QED
    BY <1>1 DEF Rebased

\* Moving to a path what is below a key is moving it one step further down.
LEMMA RebasedBelow ==
    ASSUME NEW path \in Seq(Key), NEW k \in Key, NEW X \in SUBSET Nodes
    PROVE  Rebased(path, Below(k, X)) = Rebased(Append(path, k), X)
<1>1. \A pn \in X : pn[1] \in Seq(Key)
    BY DEF Nodes
<1>2. \A s \in Seq(Key) : path \o (<<k>> \o s) = Append(path, k) \o s
    <2> TAKE s \in Seq(Key)
    <2>1. <<k>> \in Seq(Key) /\ Append(path, k) = path \o <<k>>
        OBVIOUS
    <2> QED
        BY <2>1, ConcatAssociative
<1>3. ASSUME NEW e \in Rebased(path, Below(k, X))
      PROVE  e \in Rebased(Append(path, k), X)
    <2>1. PICK b \in Below(k, X) : e = <<path \o b[1], b[2]>>
        BY DEF Rebased
    <2>2. PICK pn \in X : b = <<(<<k>> \o pn[1]), pn[2]>>
        BY DEF Below
    <2>3. e = <<Append(path, k) \o pn[1], pn[2]>>
        BY <1>1, <1>2, <2>1, <2>2
    <2> QED
        BY <2>3 DEF Rebased
<1>4. ASSUME NEW e \in Rebased(Append(path, k), X)
      PROVE  e \in Rebased(path, Below(k, X))
    <2>1. PICK pn \in X : e = <<Append(path, k) \o pn[1], pn[2]>>
        BY DEF Rebased
    <2> DEFINE b == <<(<<k>> \o pn[1]), pn[2]>>
    <2>2. b \in Below(k, X)
        BY DEF Below
    <2>3. e = <<path \o b[1], b[2]>>
        BY <1>1, <1>2, <2>1
    <2> HIDE DEF b
    <2> QED
        BY <2>2, <2>3 DEF Rebased
<1> QED
    BY <1>3, <1>4

\* Several sets of nodes, each moved to a path.
RebasedEach(path, S) == {Rebased(path, X) : X \in S}

\* Moving a union is moving its parts.
LEMMA RebasedUnion ==
    ASSUME NEW path, NEW A, NEW S
    PROVE  Rebased(path, A \cup UNION S) = Rebased(path, A) \cup UNION RebasedEach(path, S)
<1> DEFINE moved(pn) == <<path \o pn[1], pn[2]>>
<1>1. \A X : Rebased(path, X) = {moved(pn) : pn \in X}
    BY DEF Rebased
<1> HIDE DEF moved
<1>2. ASSUME NEW e \in Rebased(path, A \cup UNION S)
      PROVE  e \in Rebased(path, A) \cup UNION RebasedEach(path, S)
    <2>1. PICK pn \in A \cup UNION S : e = moved(pn)
        BY <1>1
    <2>2. CASE pn \in A
        BY <1>1, <2>1, <2>2
    <2>3. CASE pn \in UNION S
        <3>1. PICK X \in S : pn \in X
            BY <2>3
        <3> QED
            BY <1>1, <2>1, <3>1 DEF RebasedEach
    <2> QED
        BY <2>2, <2>3
<1>3. ASSUME NEW e \in Rebased(path, A) \cup UNION RebasedEach(path, S)
      PROVE  e \in Rebased(path, A \cup UNION S)
    <2>1. PICK X \in {A} \cup S : e \in Rebased(path, X)
        BY DEF RebasedEach
    <2>2. PICK pn \in X : e = moved(pn)
        BY <1>1, <2>1
    <2>3. pn \in A \cup UNION S
        BY <2>1, <2>2
    <2> QED
        BY <1>1, <2>2, <2>3
<1> QED
    BY <1>2, <1>3

\* At the empty path nothing moves.
LEMMA RebasedAtRoot ==
    ASSUME NEW X \in SUBSET Nodes
    PROVE  Rebased(<<>>, X) = X
<1>1. \A pn \in X : pn = <<(<<>>) \o pn[1], pn[2]>>
    <2> TAKE pn \in X
    <2>1. pn[1] \in Seq(Key) /\ pn = <<pn[1], pn[2]>>
        BY DEF Nodes
    <2>2. <<>> \o pn[1] = pn[1]
        BY <2>1
    <2> QED
        BY <2>1, <2>2
<1> QED
    BY <1>1 DEF Rebased

-----------------------------------------------------------------------------
(* One visit replaced by others below it *)

\* A path above a path above a third is above the third.
LEMMA PrefixTrans ==
    ASSUME NEW p \in Seq(Key), NEW q \in Seq(Key), NEW r \in Seq(Key),
           IsPrefixOf(p, q), IsPrefixOf(q, r)
    PROVE  IsPrefixOf(p, r)
<1>1. Len(p) \in Nat /\ Len(q) \in Nat /\ Len(r) \in Nat
    BY LenProperties
<1>2. Len(p) <= Len(q) /\ Len(q) <= Len(r)
    BY DEF IsPrefixOf
<1>3. ASSUME NEW i \in 1..Len(p)
      PROVE  p[i] = r[i]
    <2>1. i \in 1..Len(q)
        BY <1>1, <1>2
    <2>2. p[i] = q[i]
        BY DEF IsPrefixOf
    <2>3. q[i] = r[i]
        BY <2>1 DEF IsPrefixOf
    <2> QED
        BY <2>2, <2>3
<1>4. Len(p) <= Len(r)
    BY <1>1, <1>2
<1> QED
    BY <1>3, <1>4 DEF IsPrefixOf

\* Of two paths above a third, one is above the other.
LEMMA PrefixesMeet ==
    ASSUME NEW p \in Seq(Key), NEW q \in Seq(Key), NEW r \in Seq(Key),
           IsPrefixOf(p, r), IsPrefixOf(q, r)
    PROVE  IsPrefixOf(p, q) \/ IsPrefixOf(q, p)
<1>1. Len(p) \in Nat /\ Len(q) \in Nat /\ Len(r) \in Nat
    BY LenProperties
<1>2. CASE Len(p) <= Len(q)
    BY <1>1, <1>2 DEF IsPrefixOf
<1>3. CASE Len(q) <= Len(p)
    BY <1>1, <1>3 DEF IsPrefixOf
<1> QED
    BY <1>1, <1>2, <1>3

\* Two trees that differ at and below a path only.
SameElsewhere(t, u, path) ==
    \A q \in Seq(Key) : ~IsPrefixOf(path, q) =>
        /\ q \in DOMAIN t <=> q \in DOMAIN u
        /\ q \in DOMAIN t => u[q] = t[q]

\* Replacing what is at and below a path leaves the documents of the visits apart
\* from it.
LEMMA DocumentsElsewhere ==
    ASSUME NEW t, NEW u, NEW path \in Seq(Key), SameElsewhere(t, u, path),
           NEW p \in Seq(Key), p \in DOMAIN t, ~IsPrefixOf(p, path), ~IsPrefixOf(path, p)
    PROVE  DocumentAt(u, p) = DocumentAt(t, p)
<1>1. \A k \in Key : ~IsPrefixOf(path, Append(p, k)) /\ Append(p, k) \in Seq(Key)
    BY StepDown
<1>2. {k \in Key : Append(p, k) \in DOMAIN u} = {k \in Key : Append(p, k) \in DOMAIN t}
    BY <1>1 DEF SameElsewhere
<1>3. u[p] = t[p]
    BY DEF SameElsewhere
<1>4. \A k \in {k \in Key : Append(p, k) \in DOMAIN t} : u[Append(p, k)] = t[Append(p, k)]
    BY <1>1 DEF SameElsewhere
<1> QED
    BY <1>2, <1>3, <1>4 DEF DocumentAt

\* What became of a visit: the nodes settled below its path, with what the
\* visits in its place will come to.
Continued(t, visits, path) ==
    {<<p, t[p]>> : p \in {p \in Settled(t, visits) : IsPrefixOf(path, p)}}
    \cup UNION {Awaited(t, v) : v \in visits}

\* Visits Q stay, and N takes the place of top.
Replaces(t, u, Q, top, N) ==
    /\ DOMAIN t \subseteq Seq(Key) /\ DOMAIN u \subseteq Seq(Key)
    /\ Q \subseteq Visit /\ N \subseteq Visit /\ top \in Visit
    /\ \A v \in Q : /\ v.path \in DOMAIN t
                    /\ ~IsPrefixOf(v.path, top.path) /\ ~IsPrefixOf(top.path, v.path)
    /\ \A v \in N : IsPrefixOf(top.path, v.path)
    /\ SameElsewhere(t, u, top.path)
    /\ Awaited(t, top) = Continued(u, N, top.path)

\* What is foretold stays, when the visits in the place of one come to what that
\* one was to come to.
LEMMA Replacing ==
    ASSUME NEW t, NEW u, NEW Q, NEW top, NEW N, Replaces(t, u, Q, top, N)
    PROVE  Foretold(u, Q \cup N) = Foretold(t, Q \cup {top})
<1> USE DEF Replaces
<1> DEFINE P == top.path
<1>1. P \in Seq(Key) /\ \A v \in Q \cup N : v.path \in Seq(Key)
    BY DEF Visit
<1>2. \A v \in Q : Awaited(u, v) = Awaited(t, v)
    <2> TAKE v \in Q
    <2>1. v.path \in Seq(Key)
        BY <1>1
    <2>2. DocumentAt(u, v.path) = DocumentAt(t, v.path)
        BY <1>1, <2>1, DocumentsElsewhere
    <2> QED
        BY <2>2 DEF Awaited
<1>3. ASSUME NEW p \in Seq(Key), IsPrefixOf(P, p)
      PROVE  /\ p \notin Settled(t, Q \cup {top})
             /\ p \in Settled(u, Q \cup N) <=> p \in Settled(u, N)
    <2>1. \A v \in Q : ~IsPrefixOf(v.path, p)
        <3> TAKE v \in Q
        <3>1. v.path \in Seq(Key) /\ ~IsPrefixOf(v.path, P) /\ ~IsPrefixOf(P, v.path)
            BY <1>1
        <3> QED
            BY <1>1, <1>3, <3>1, PrefixesMeet
    <2> QED
        BY <1>3, <2>1 DEF Settled
<1>4. ASSUME NEW p \in Seq(Key), ~IsPrefixOf(P, p)
      PROVE  /\ p \in Settled(u, Q \cup N) <=> p \in Settled(t, Q \cup {top})
             /\ p \in Settled(t, Q \cup {top}) => u[p] = t[p]
    <2>1. \A v \in N : ~IsPrefixOf(v.path, p)
        <3> TAKE v \in N
        <3>1. v.path \in Seq(Key) /\ IsPrefixOf(P, v.path)
            BY <1>1
        <3> QED
            BY <1>1, <1>4, <3>1, PrefixTrans
    <2> QED
        BY <1>4, <2>1 DEF Settled, SameElsewhere
<1>5. {<<p, u[p]>> : p \in Settled(u, Q \cup N)} =
          {<<p, t[p]>> : p \in Settled(t, Q \cup {top})}
          \cup {<<p, u[p]>> : p \in {p \in Settled(u, N) : IsPrefixOf(P, p)}}
    <2>1. /\ Settled(u, Q \cup N) \subseteq Seq(Key)
          /\ Settled(t, Q \cup {top}) \subseteq Seq(Key)
          /\ Settled(u, N) \subseteq Seq(Key)
        BY DEF Settled
    <2>2. \A p \in Seq(Key) :
             p \in Settled(u, Q \cup N) <=>
                 \/ p \in Settled(t, Q \cup {top}) /\ u[p] = t[p]
                 \/ p \in {x \in Settled(u, N) : IsPrefixOf(P, x)}
        BY <1>3, <1>4
    <2>3. \A p \in Settled(t, Q \cup {top}) : u[p] = t[p]
        BY <1>3, <1>4, <2>1
    <2> DEFINE old == Settled(t, Q \cup {top})
               now == Settled(u, Q \cup N)
               below == {p \in Settled(u, N) : IsPrefixOf(P, p)}
    <2>4. now = old \cup below
        BY <2>1, <2>2, <2>3
    <2>5. \A p \in old : <<p, u[p]>> = <<p, t[p]>>
        BY <2>3
    <2> HIDE DEF old, now, below
    <2>6. {<<p, u[p]>> : p \in old \cup below} =
              {<<p, t[p]>> : p \in old} \cup {<<p, u[p]>> : p \in below}
        BY <2>5
    <2> QED
        BY <2>4, <2>6 DEF old, now, below
<1>6. UNION {Awaited(u, v) : v \in Q \cup N} =
          (UNION {Awaited(t, v) : v \in Q}) \cup (UNION {Awaited(u, v) : v \in N})
    BY <1>2
<1>7. UNION {Awaited(t, v) : v \in Q \cup {top}} =
          (UNION {Awaited(t, v) : v \in Q}) \cup Awaited(t, top)
    OBVIOUS
<1> QED
    BY <1>5, <1>6, <1>7 DEF Foretold, Continued
-----------------------------------------------------------------------------
(* One step of an expansion *)

(* The stack as a set of visits *)

Visits(s) == {s[i] : i \in 1..Len(s)}

\* Joining two stacks joins their visits.
LEMMA JoinedVisits ==
    ASSUME NEW s \in Seq(Visit), NEW e \in Seq(Visit)
    PROVE  /\ Len(s) \in Nat /\ Len(e) \in Nat
           /\ s \o e \in Seq(Visit) /\ Len(s \o e) = Len(s) + Len(e)
           /\ \A i \in 1..Len(s \o e) :
                 \/ i \in 1..Len(s) /\ (s \o e)[i] = s[i]
                 \/ i - Len(s) \in 1..Len(e) /\ (s \o e)[i] = e[i - Len(s)]
           /\ Visits(s \o e) = Visits(s) \cup Visits(e)
<1> HIDE DEF Visit
<1>1. /\ Len(s) \in Nat /\ Len(e) \in Nat
      /\ s \o e \in Seq(Visit) /\ Len(s \o e) = Len(s) + Len(e)
      /\ \A i \in 1..Len(s) + Len(e) :
            (s \o e)[i] = IF i <= Len(s) THEN s[i] ELSE e[i - Len(s)]
    BY ConcatProperties, LenProperties
<1> DEFINE c == s \o e
<1> HIDE DEF c
<1>2. \A i \in 1..Len(c) : \/ i \in 1..Len(s) /\ c[i] = s[i]
                           \/ i - Len(s) \in 1..Len(e) /\ c[i] = e[i - Len(s)]
    BY <1>1 DEF c
<1>3. \A i \in 1..Len(s) : i \in 1..Len(c) /\ c[i] = s[i]
    BY <1>1 DEF c
<1>4. \A i \in 1..Len(e) : Len(s) + i \in 1..Len(c) /\ c[Len(s) + i] = e[i]
    BY <1>1 DEF c
<1>5. Visits(c) \subseteq Visits(s) \cup Visits(e)
    BY <1>2 DEF Visits
<1>6. Visits(s) \subseteq Visits(c)
    BY <1>3 DEF Visits
<1>7. Visits(e) \subseteq Visits(c)
    BY <1>4 DEF Visits
<1> QED
    BY <1>1, <1>2, <1>5, <1>6, <1>7 DEF c

\* The stack is what is popped and the visit on top, which differ.
LEMMA TopAndRest ==
    ASSUME IInv, pending # <<>>, Apart(pending)
    PROVE  /\ Visits(pending) = Visits(Popped) \cup {Top}
           /\ Visits(Popped) \in SUBSET Visit
           /\ \A v \in Visits(Popped) :
                 /\ v.path \in DOMAIN tree /\ v.path \in Seq(Key)
                 /\ ~IsPrefixOf(v.path, Top.path) /\ ~IsPrefixOf(Top.path, v.path)
           /\ Apart(Popped)
<1>1. /\ Len(pending) \in Nat \ {0} /\ Popped \in Seq(Visit)
      /\ Len(Popped) = Len(pending) - 1
      /\ \A i \in 1..Len(Popped) : Popped[i] = pending[i]
      /\ Top = pending[Len(pending)]
    BY TopVisit DEF Top
<1>2. \A i \in 1..Len(pending) : pending[i].path \in DOMAIN tree
    BY DEF IInv
<1> HIDE DEF Visit
<1>3. \A i \in 1..Len(Popped) : Popped[i] \in Visit
    BY <1>1, ElementOfSeq
<1>4. Visits(pending) = Visits(Popped) \cup {Top}
    BY <1>1 DEF Visits
<1>5. Visits(Popped) \in SUBSET Visit
    BY <1>3 DEF Visits
<1>6. \A v \in Visits(Popped) :
         /\ v.path \in DOMAIN tree
         /\ ~IsPrefixOf(v.path, Top.path) /\ ~IsPrefixOf(Top.path, v.path)
    BY <1>1, <1>2 DEF Visits, Apart
<1>7. Apart(Popped)
    BY <1>1 DEF Apart
<1> QED
    BY <1>4, <1>5, <1>6, <1>7 DEF Visit

\* A step that pops one visit, pushes others at and below it, and changes the
\* document there only, keeps the visits apart and what is foretold.
LEMMA ReplacingStep ==
    ASSUME IInv, IInv', pending # <<>>, Apart(pending),
           \A i \in 1..Len(pending) : Shallow(tree, pending[i]),
           NEW new \in Seq(Visit), pending' = Popped \o new,
           SameElsewhere(tree, tree', Top.path), Apart(new),
           \A v \in Visits(new) : IsPrefixOf(Top.path, v.path) /\ Shallow(tree', v),
           Awaited(tree, Top) = Continued(tree', Visits(new), Top.path)
    PROVE  /\ Apart(pending')
           /\ \A v \in Visits(pending') : Shallow(tree', v)
           /\ Foretold(tree', Visits(pending')) = Foretold(tree, Visits(pending))
<1> DEFINE P == Top.path
           Q == Visits(Popped)
           N == Visits(new)
<1>1. /\ Popped \in Seq(Visit) /\ Top \in Visit /\ P \in Seq(Key)
      /\ \A i \in 1..Len(Popped) : Popped[i] = pending[i]
      /\ Len(Popped) = Len(pending) - 1 /\ Len(pending) \in Nat
    BY TopVisit
<1>2. DOMAIN tree \subseteq Seq(Key) /\ DOMAIN tree' \subseteq Seq(Key)
    BY DEF IInv, TypeOK
<1>3. N \in SUBSET Visit
    BY ElementOfSeq DEF Visits
<1>4. \A v \in N : v.path \in Seq(Key)
    BY <1>3 DEF Visit
<1>5. \A v \in Q : /\ v.path \in DOMAIN tree /\ v.path \in Seq(Key)
                   /\ ~IsPrefixOf(v.path, P) /\ ~IsPrefixOf(P, v.path)
    BY TopAndRest
<1>6. Visits(pending) = Q \cup {Top} /\ Q \in SUBSET Visit /\ Apart(Popped)
    BY TopAndRest
<1>7. Visits(pending') = Q \cup N
    BY <1>1, JoinedVisits
<1>8. Foretold(tree', Visits(pending')) = Foretold(tree, Visits(pending))
    <2>1. Replaces(tree, tree', Q, Top, N)
        BY <1>1, <1>2, <1>3, <1>5, <1>6 DEF Replaces
    <2> HIDE DEF P, Q, N
    <2>2. Foretold(tree', Q \cup N) = Foretold(tree, Q \cup {Top})
        BY ONLY <2>1, Replacing
    <2> QED
        BY <1>6, <1>7, <2>2
<1>9. ASSUME NEW v \in Q, NEW w \in N
      PROVE  ~IsPrefixOf(v.path, w.path) /\ ~IsPrefixOf(w.path, v.path)
    <2>1. /\ v.path \in Seq(Key) /\ w.path \in Seq(Key) /\ IsPrefixOf(P, w.path)
          /\ ~IsPrefixOf(v.path, P) /\ ~IsPrefixOf(P, v.path)
        BY <1>4, <1>5
    <2> QED
        BY <1>1, <2>1, PrefixesMeet, PrefixTrans
<1>10. Apart(pending')
    <2>1. \A i \in 1..Len(pending') :
             \/ i \in 1..Len(Popped) /\ pending'[i] = Popped[i] /\ pending'[i] \in Q
             \/ /\ i - Len(Popped) \in 1..Len(new) /\ pending'[i] = new[i - Len(Popped)]
                /\ pending'[i] \in N
        <3>1. \A i \in 1..Len(pending') :
                 \/ i \in 1..Len(Popped) /\ pending'[i] = Popped[i]
                 \/ i - Len(Popped) \in 1..Len(new) /\ pending'[i] = new[i - Len(Popped)]
            BY <1>1, JoinedVisits
        <3> QED
            BY <3>1 DEF Visits
    <2> HIDE DEF Q, N
    <2> SUFFICES ASSUME NEW i \in 1..Len(pending'), NEW j \in 1..Len(pending'), i # j
                 PROVE  ~IsPrefixOf(pending'[i].path, pending'[j].path)
        BY DEF Apart
    <2>2. Len(Popped) \in Nat
        BY <1>1, LenProperties
    <2> DEFINE Lower(m) == m \in 1..Len(Popped) /\ pending'[m] = Popped[m] /\ pending'[m] \in Q
               Upper(m) == /\ m - Len(Popped) \in 1..Len(new)
                           /\ pending'[m] = new[m - Len(Popped)] /\ pending'[m] \in N
    <2>3. (Lower(i) \/ Upper(i)) /\ (Lower(j) \/ Upper(j))
        BY <2>1
    <2>4. CASE Lower(i) /\ Lower(j)
        BY <1>6, <2>4 DEF Apart
    <2>5. CASE Upper(i) /\ Upper(j)
        <3> DEFINE a == i - Len(Popped)
                   b == j - Len(Popped)
        <3>1. a # b
            BY <2>2
        <3>2. /\ a \in 1..Len(new) /\ pending'[i] = new[a]
              /\ b \in 1..Len(new) /\ pending'[j] = new[b]
            BY <2>5
        <3> HIDE DEF a, b
        <3> QED
            BY <3>1, <3>2 DEF Apart
    <2>6. CASE Lower(i) /\ Upper(j)
        BY <1>9, <2>6
    <2>7. CASE Upper(i) /\ Lower(j)
        BY <1>9, <2>7
    <2> QED
        BY <2>3, <2>4, <2>5, <2>6, <2>7
<1>11. ASSUME NEW v \in Q PROVE Shallow(tree', v)
    <2>1. Shallow(tree, v)
        BY <1>6 DEF Visits
    <2>2. DocumentAt(tree', v.path) = DocumentAt(tree, v.path)
        BY <1>1, <1>5, DocumentsElsewhere
    <2>3. ASSUME NEW q \in DOMAIN tree', IsPrefixOf(v.path, q)
          PROVE  q \in DOMAIN tree
        <3>1. ~IsPrefixOf(P, q)
            BY <1>1, <1>2, <1>5, <2>3, PrefixesMeet
        <3> QED
            BY <1>2, <3>1 DEF SameElsewhere
    <2> QED
        BY <2>1, <2>2, <2>3 DEF Shallow
<1> QED
    BY <1>7, <1>8, <1>10, <1>11
-----------------------------------------------------------------------------
(* The actions *)

\* A document put in the place of a reference is what is found there afterwards.
LEMMA GraftedDocument ==
    ASSUME NEW t, DOMAIN t \subseteq Seq(Key), NEW path \in Seq(Key), NEW d \in Document,
           \A q \in DOMAIN t : IsPrefixOf(path, q) => q = path
    PROVE  LET g == Graft(t, path, d)
           IN  /\ SameElsewhere(t, g, path)
               /\ DocumentAt(g, path) = d
               /\ \A q \in DOMAIN g : IsPrefixOf(path, q) => Len(q) <= Len(path) + 1
<1> DEFINE below == {Append(path, k) : k \in DOMAIN d.fields}
           g == Graft(t, path, d)
<1>1. /\ DOMAIN g = DOMAIN t \cup {path} \cup below
      /\ \A p \in DOMAIN g :
            g[p] = IF p = path THEN d.node
                   ELSE IF p \in below THEN d.fields[p[Len(p)]] ELSE t[p]
    BY DEF Graft
<1>2. DOMAIN d.fields \subseteq Key
    BY DocumentTypes
<1>3. \A k \in Key : /\ Append(path, k) \in Seq(Key) /\ Append(path, k) # path
                     /\ IsPrefixOf(path, Append(path, k))
                     /\ Append(path, k)[Len(Append(path, k))] = k
    BY StepDown
<1>4. IsPrefixOf(path, path) /\ Len(path) \in Nat
    BY LenProperties DEF IsPrefixOf
<1>5. \A k \in Key : Len(Append(path, k)) = Len(path) + 1
    BY AppendProperties
<1> HIDE DEF g
<1>6. \A k \in Key : Append(path, k) \in below <=> k \in DOMAIN d.fields
    BY <1>2, <1>3
<1>7. {k \in Key : Append(path, k) \in DOMAIN g} = DOMAIN d.fields
    BY <1>1, <1>2, <1>3, <1>6
<1>8. \A k \in DOMAIN d.fields : g[Append(path, k)] = d.fields[k]
    <2> TAKE k \in DOMAIN d.fields
    <2>1. /\ k \in Key /\ Append(path, k) \in DOMAIN g /\ Append(path, k) # path
          /\ Append(path, k) \in below
        BY <1>1, <1>2, <1>3, <1>6
    <2> HIDE DEF below
    <2> QED
        BY <1>1, <1>3, <2>1
<1>9. g[path] = d.node
    BY <1>1
<1>10. d = [node |-> d.node, fields |-> [k \in DOMAIN d.fields |-> d.fields[k]]]
    <2>1. CASE d \in [node : {"leaf"} \cup Url, fields : [{} -> {"leaf"}]]
        BY <2>1
    <2>2. CASE d \in [node : {"object"}, fields : Fields]
        <3>1. PICK ks \in SUBSET Key : d.fields \in [ks -> {"leaf"} \cup Url]
            BY <2>2 DEF Fields
        <3>2. d.fields = [k \in DOMAIN d.fields |-> d.fields[k]]
            BY <3>1
        <3> QED
            BY <2>2, <3>2
    <2> QED
        BY <2>1, <2>2 DEF Document
<1>11. DocumentAt(g, path) = d
    <2>1. [k \in {k \in Key : Append(path, k) \in DOMAIN g} |-> g[Append(path, k)]] =
              [k \in DOMAIN d.fields |-> d.fields[k]]
        BY <1>7, <1>8
    <2> QED
        BY <1>9, <1>10, <2>1 DEF DocumentAt
<1>12. SameElsewhere(t, g, path)
    <2>1. \A p \in below : IsPrefixOf(path, p)
        BY <1>2, <1>3
    <2> HIDE DEF below
    <2> QED
        BY <1>1, <1>4, <2>1 DEF SameElsewhere
<1>13. \A q \in DOMAIN g : IsPrefixOf(path, q) => Len(q) <= Len(path) + 1
    <2>1. \A p \in below : Len(p) = Len(path) + 1
        BY <1>2, <1>5
    <2> HIDE DEF below
    <2> TAKE q \in DOMAIN g
    <2> HAVE IsPrefixOf(path, q)
    <2>2. q = path \/ q \in below
        BY <1>1
    <2> QED
        BY <1>4, <2>1, <2>2
<1> QED
    BY <1>11, <1>12, <1>13 DEF g

\* At first the one visit is to the root, and what it awaits is the result.
LEMMA InitExpansion == Init => ExpansionInv
<1> SUFFICES ASSUME Init PROVE ExpansionInv
    OBVIOUS
<1> DEFINE path == << >>
           t == << >>
           visit == [path |-> path, ancestors |-> {}]
<1>1. IInv /\ WebOK /\ root \in Document
    BY InitInvariant DEF Init, WebOK
<1>2. path \in Seq(Key) /\ DOMAIN t = {} /\ DOMAIN tree \subseteq Seq(Key)
    BY <1>1 DEF IInv, TypeOK
<1>3. \A p \in Seq(Key) : IsPrefixOf(path, p)
    <2> TAKE p \in Seq(Key)
    <2> QED
        BY LenProperties DEF IsPrefixOf
<1>4. tree = Graft(t, path, root)
    BY DEF Init
<1> HIDE DEF t
<1>5. /\ DocumentAt(tree, path) = root
      /\ \A q \in DOMAIN tree : IsPrefixOf(path, q) => Len(q) <= Len(path) + 1
    BY <1>1, <1>2, <1>4, GraftedDocument
<1>6. pending = <<visit>> /\ Len(pending) = 1 /\ pending[1] = visit
    BY DEF Init
<1>7. visit.path = path /\ visit.ancestors = {}
    OBVIOUS
<1> HIDE DEF path, visit
<1>8. Visits(pending) = {visit}
    BY <1>6 DEF Visits
<1>9. Apart(pending)
    BY <1>6 DEF Apart
<1>10. Shallow(tree, visit)
    BY <1>1, <1>5, <1>7 DEF Shallow
<1>11. Foretold(tree, Visits(pending)) = Expansion[<<{}, root>>]
    <2>1. Settled(tree, {visit}) = {}
        BY <1>2, <1>3, <1>7 DEF Settled
    <2>2. <<{}, root>> \in Place
        BY <1>1 DEF Place
    <2>3. Expansion[<<{}, root>>] \in SUBSET Nodes
        BY <1>1, <2>2, ExpansionType
    <2>4. Awaited(tree, visit) = Rebased(path, Expansion[<<{}, root>>])
        BY <1>5, <1>7 DEF Awaited
    <2>5. Awaited(tree, visit) = Expansion[<<{}, root>>]
        BY <2>3, <2>4, RebasedAtRoot DEF path
    <2> QED
        BY <1>8, <2>1, <2>5 DEF Foretold
<1> QED
    BY <1>1, <1>6, <1>9, <1>10, <1>11 DEF ExpansionInv, Visits
\* A step that keeps the web and replaces the visit on top keeps what is foretold.
LEMMA ReplacedInvariant ==
    ASSUME ExpansionInv, IInv', UNCHANGED <<served, root>>, pending # <<>>,
           NEW new \in Seq(Visit), pending' = Popped \o new,
           SameElsewhere(tree, tree', Top.path), Apart(new),
           \A v \in Visits(new) : IsPrefixOf(Top.path, v.path) /\ Shallow(tree', v),
           Awaited(tree, Top) = Continued(tree', Visits(new), Top.path)
    PROVE  ExpansionInv'
<1>1. /\ Apart(pending')
      /\ \A v \in Visits(pending') : Shallow(tree', v)
      /\ Foretold(tree', Visits(pending')) = Foretold(tree, Visits(pending))
    BY ReplacingStep DEF ExpansionInv
<1>2. Expansion' = Expansion
    BY SameExpansion
<1>3. Foretold(tree, Visits(pending)) = Expansion[<<{}, root>>]
    BY DEF ExpansionInv, Visits
<1>4. \A i \in 1..Len(pending') : Shallow(tree', pending'[i])
    BY <1>1 DEF Visits
<1> DEFINE V == Visits(pending')
<1>5. V = {pending'[i] : i \in 1..Len(pending')}
    BY DEF Visits
<1>6. (Foretold(tree, {pending[i] : i \in 1..Len(pending)}) = Expansion[<<{}, root>>])'
    <2>1. Foretold(tree', V) = Expansion[<<{}, root>>]
        BY <1>1, <1>3
    <2> HIDE DEF V
    <2> QED
        <3>1. Foretold(tree', {pending'[i] : i \in 1..Len(pending')}) = Expansion[<<{}, root>>]
            BY <1>5, <2>1
        <3>2. root' = root
            OBVIOUS
        <3>3. Foretold(tree, {pending[i] : i \in 1..Len(pending)})'
                = Foretold(tree', {pending'[i] : i \in 1..Len(pending')})
            BY <1>2 DEF Foretold, Awaited
        <3> QED
            BY <1>2, <3>1, <3>2, <3>3
<1> QED
    BY <1>1, <1>4, <1>6 DEF ExpansionInv

\* The place that is visited next.
LEMMA TopPlace ==
    ASSUME ExpansionInv, pending # <<>>
    PROVE  /\ WebOK /\ DOMAIN tree \subseteq Seq(Key) /\ Tree(tree)
           /\ Top \in Visit /\ Top.path \in Seq(Key) /\ Top.path \in DOMAIN tree
           /\ Top.ancestors \in SUBSET Url
           /\ Shallow(tree, Top)
           /\ DocumentAt(tree, Top.path) \in Document
           /\ DocumentAt(tree, Top.path).node = Found
           /\ Awaited(tree, Top) =
                  Rebased(Top.path,
                          Expanded(Expansion, Top.ancestors, DocumentAt(tree, Top.path)))
<1>1. WebOK /\ DOMAIN tree \subseteq Seq(Key) /\ Tree(tree)
    BY InvariantParts DEF ExpansionInv, WebOK, Tree
<1>2. Top \in Visit /\ Top.path \in DOMAIN tree /\ Len(pending) \in Nat \ {0}
    BY TopVisit DEF ExpansionInv
<1>3. Top.path \in Seq(Key) /\ Top.ancestors \in SUBSET Url
    BY <1>2 DEF Visit
<1>4. Shallow(tree, Top)
    BY <1>2 DEF ExpansionInv, Top
<1>5. DocumentAt(tree, Top.path) \in Document
    BY <1>4 DEF Shallow
<1>6. DocumentAt(tree, Top.path).node = Found
    BY DEF DocumentAt, Found
<1>7. Expansion[<<Top.ancestors, DocumentAt(tree, Top.path)>>] =
          Expanded(Expansion, Top.ancestors, DocumentAt(tree, Top.path))
    BY <1>1, <1>3, <1>5, ExpansionStep
<1> QED
    BY <1>1, <1>2, <1>3, <1>4, <1>5, <1>6, <1>7 DEF Awaited

\* Popping without pushing.
LEMMA NoVisits ==
    /\ <<>> \in Seq(Visit) /\ Visits(<<>>) = {} /\ Apart(<<>>)
    /\ \A s \in Seq(Visit) : s \o <<>> = s
BY DEF Visits, Apart

\* A reference that is unreadable, or lies on its own chain, expands to null.
LEMMA NullingExpansion ==
    ASSUME ExpansionInv, IInv', pending # <<>>, Found \in Url,
           Cyclic(Found) \/ served[Found] = Unreadable,
           tree' = Nulled(tree, Top.path), pending' = Popped, UNCHANGED <<served, root>>
    PROVE  ExpansionInv'
<1> DEFINE P == Top.path
           d == DocumentAt(tree, P)
<1>1. /\ Tree(tree) /\ P \in Seq(Key) /\ P \in DOMAIN tree /\ d.node = Found /\ tree[P] = Found
      /\ Awaited(tree, Top) = Rebased(P, Expanded(Expansion, Top.ancestors, d))
    BY TopPlace DEF Found
<1>2. /\ DOMAIN tree' = DOMAIN tree /\ tree'[P] = "null"
      /\ \A q \in DOMAIN tree : q # P => tree'[q] = tree[q]
    BY <1>1 DEF Nulled
<1>3. IsPrefixOf(P, P)
    BY <1>1, LenProperties DEF IsPrefixOf
<1>4. Awaited(tree, Top) = {<<P, "null">>}
    <2>1. Expanded(Expansion, Top.ancestors, d) = {<<(<<>>), "null">>}
        BY <1>1, UrlAssumption DEF Expanded, Cyclic
    <2> QED
        BY <1>1, <2>1, RebasedOne
<1>5. \A q \in DOMAIN tree : IsPrefixOf(P, q) => q = P
    BY <1>1, NothingBelow
<1> HIDE DEF P
<1>6. Continued(tree', {}, P) = {<<P, "null">>}
    <2>1. {p \in Settled(tree', {}) : IsPrefixOf(P, p)} = {P}
        BY <1>1, <1>2, <1>3, <1>5 DEF Settled
    <2> QED
        BY <1>2, <2>1 DEF Continued
<1>7. SameElsewhere(tree, tree', P)
    BY <1>2, <1>3 DEF SameElsewhere
<1>8. Popped \in Seq(Visit)
    BY TopVisit DEF ExpansionInv
<1> QED
    BY <1>4, <1>6, <1>7, <1>8, NoVisits, ReplacedInvariant DEF P

\* A reference expands to what its location expands to, with it on the chain.
LEMMA ExpandExpansion ==
    ASSUME ExpansionInv, IInv', Expand
    PROVE  ExpansionInv'
<1> DEFINE P == Top.path
           d == served[Found]
           visit == [path |-> P, ancestors |-> Chain(Found)]
           new == <<visit>>
<1>1. /\ pending # <<>> /\ Found \in Url /\ ~Cyclic(Found) /\ d # Unreadable
      /\ tree' = Graft(tree, P, d) /\ UNCHANGED <<served, root>>
      /\ pending' = Append(Popped, visit)
    BY DEF Expand
<1>2. /\ WebOK /\ Tree(tree) /\ DOMAIN tree \subseteq Seq(Key)
      /\ P \in Seq(Key) /\ P \in DOMAIN tree /\ tree[P] = Found
      /\ Top.ancestors \in SUBSET Url
      /\ DocumentAt(tree, P).node = Found
      /\ Awaited(tree, Top) =
             Rebased(P, Expanded(Expansion, Top.ancestors, DocumentAt(tree, P)))
    BY <1>1, TopPlace DEF Found
<1>3. d \in Document /\ visit \in Visit
    BY <1>1, <1>2 DEF WebOK, Visit, Chain
<1>4. visit.path = P /\ visit.ancestors = Top.ancestors \cup {Found}
    BY DEF Chain
<1>5. Awaited(tree, Top) = Rebased(P, Expansion[<<visit.ancestors, d>>])
    <2>1. Expanded(Expansion, Top.ancestors, DocumentAt(tree, P)) =
              Expansion[<<Top.ancestors \cup {Found}, d>>]
        BY <1>1, <1>2, UrlAssumption DEF Expanded, Cyclic
    <2> QED
        BY <1>2, <1>4, <2>1
<1>6. \A q \in DOMAIN tree : IsPrefixOf(P, q) => q = P
    BY <1>1, <1>2, NothingBelow
<1>7. Popped \in Seq(Visit)
    BY <1>1, TopVisit DEF ExpansionInv
<1> HIDE DEF P, d, visit
<1>8. /\ SameElsewhere(tree, tree', P)
      /\ DocumentAt(tree', P) = d
      /\ \A q \in DOMAIN tree' : IsPrefixOf(P, q) => Len(q) <= Len(P) + 1
    BY <1>1, <1>2, <1>3, <1>6, GraftedDocument
<1>9. Awaited(tree', visit) = Awaited(tree, Top)
    BY <1>4, <1>5, <1>8 DEF Awaited
<1>10. Continued(tree', {visit}, P) = Awaited(tree', visit)
    <2>1. {p \in Settled(tree', {visit}) : IsPrefixOf(P, p)} = {}
        BY <1>4 DEF Settled
    <2> QED
        BY <2>1 DEF Continued
<1>11. new \in Seq(Visit) /\ Visits(new) = {visit} /\ Apart(new)
    BY <1>3 DEF Visits, Apart
<1>12. pending' = Popped \o new
    BY <1>1, <1>3, <1>7
<1>13. Shallow(tree', visit)
    BY <1>3, <1>4, <1>8 DEF Shallow
<1>14. IsPrefixOf(P, P)
    BY <1>2, LenProperties DEF IsPrefixOf
<1>15. \A v \in Visits(new) : IsPrefixOf(P, v.path) /\ Shallow(tree', v)
    BY <1>4, <1>11, <1>13, <1>14
<1> HIDE DEF new
<1> QED
    BY <1>1, <1>8, <1>9, <1>10, <1>11, <1>12, <1>15, ReplacedInvariant DEF P
\* The visit push_children queues for one key.
Child(path, k, chain) == [path |-> Append(path, k), ancestors |-> chain]

\* The visits to the children are one for every key, and none is above another.
LEMMA ChildVisits ==
    ASSUME NEW path \in Seq(Key), NEW chain \in SUBSET Url
    PROVE  LET new == Children(path, chain)
           IN  /\ new \in Seq(Visit)
               /\ Visits(new) = {Child(path, k, chain) : k \in ChildKeys(path)}
               /\ Apart(new)
<1> DEFINE ks == ChildKeys(path)
           new == Children(path, chain)
<1>1. ks \in SUBSET Key
    BY DEF ChildKeys
<1>2. new = [i \in 1..Cardinality(ks) |-> Child(path, Nth(ks, i), chain)]
    BY DEF Children, Child
<1> HIDE DEF ks, new
<1>3. /\ Cardinality(ks) \in Nat
      /\ \A i \in 1..Cardinality(ks) : Nth(ks, i) \in ks
      /\ \A k \in ks : \E i \in 1..Cardinality(ks) : Nth(ks, i) = k
      /\ \A i, j \in 1..Cardinality(ks) : Nth(ks, i) = Nth(ks, j) => i = j
    BY <1>1, NthKey
<1>4. \A k \in ks :
          Child(path, k, chain) \in Visit /\ Child(path, k, chain).path = Append(path, k)
    BY <1>1, AppendProperties DEF Visit, Child
<1>5. new \in Seq(Visit) /\ Len(new) = Cardinality(ks)
    <2> HIDE DEF Visit
    <2>1. new \in [1..Cardinality(ks) -> Visit]
        BY <1>2, <1>3, <1>4
    <2> QED
        BY <1>3, <2>1
<1>6. Visits(new) = {Child(path, k, chain) : k \in ks}
    <2>1. \A i \in 1..Len(new) : new[i] = Child(path, Nth(ks, i), chain)
        BY <1>2, <1>5
    <2> QED
        BY <1>3, <1>5, <2>1 DEF Visits
<1>7. Apart(new)
    <2> SUFFICES ASSUME NEW i \in 1..Len(new), NEW j \in 1..Len(new), i # j
                 PROVE  ~IsPrefixOf(new[i].path, new[j].path)
        BY DEF Apart
    <2> DEFINE k == Nth(ks, i)
               m == Nth(ks, j)
    <2>1. k \in ks /\ m \in ks /\ k # m
        BY <1>3, <1>5
    <2>2. new[i].path = Append(path, k) /\ new[j].path = Append(path, m)
        BY <1>2, <1>4, <1>5, <2>1
    <2> HIDE DEF k, m
    <2>3. k \in Key /\ m \in Key
        BY <1>1, <2>1
    <2>4. Append(path, k) \in Seq(Key) /\ ~IsPrefixOf(Append(path, k), path)
        BY <2>3, StepDown
    <2>5. Append(path, k) # Append(path, m)
        BY <2>1, <2>3, StepDown
    <2>6. IsPrefixOf(Append(path, k), Append(path, m)) => IsPrefixOf(Append(path, k), path)
        BY <2>3, <2>4, <2>5, StepDown
    <2> QED
        BY <2>2, <2>4, <2>6
<1> QED
    BY <1>5, <1>6, <1>7 DEF ks, new

\* What a document awaits that is no reference: its node, and its children.
LEMMA ExpandedChildren ==
    ASSUME WebOK, NEW path \in Seq(Key), NEW chain \in SUBSET Url, NEW d \in Document,
           d.node \notin Url
    PROVE  Rebased(path, Expanded(Expansion, chain, d)) =
               {<<path, d.node>>} \cup
               UNION {Rebased(Append(path, k), Expansion[<<chain, Single(d.fields[k])>>]) :
                         k \in DOMAIN d.fields}
<1>1. CASE d.node = "object"
    <2> DEFINE Field(k) == Expansion[<<chain, Single(d.fields[k])>>]
               fields == {Below(k, Field(k)) : k \in DOMAIN d.fields}
    <2>1. Expanded(Expansion, chain, d) = {<<(<<>>), "object">>} \cup UNION fields
        BY <1>1 DEF Expanded
    <2>2. Rebased(path, Expanded(Expansion, chain, d)) =
              {<<path, "object">>} \cup UNION {Rebased(path, X) : X \in fields}
        <3> DEFINE top == {<<(<<>>), "object">>}
        <3>1. Rebased(path, top) = {<<path, "object">>}
            BY RebasedOne
        <3> HIDE DEF fields, top
        <3>2. Rebased(path, top \cup UNION fields) =
                  Rebased(path, top) \cup UNION RebasedEach(path, fields)
            BY RebasedUnion
        <3>3. Expanded(Expansion, chain, d) = top \cup UNION fields
            BY <2>1 DEF top
        <3> QED
            BY <3>1, <3>2, <3>3 DEF RebasedEach
    <2>3. \A k \in DOMAIN d.fields : Field(k) \in SUBSET Nodes /\ k \in Key
        BY <1>1, SmallerPlaces, ExpansionType, DocumentTypes
    <2> HIDE DEF Field
    <2>4. \A k \in DOMAIN d.fields :
             Rebased(path, Below(k, Field(k))) = Rebased(Append(path, k), Field(k))
        BY <2>3, RebasedBelow
    <2>5. {Rebased(path, X) : X \in fields} =
              {Rebased(Append(path, k), Field(k)) : k \in DOMAIN d.fields}
        BY <2>4
    <2> HIDE DEF fields
    <2> QED
        BY <1>1, <2>2, <2>5 DEF Field
<1>2. CASE d.node # "object"
    <2>1. d.node = "leaf" /\ DOMAIN d.fields = {}
        BY <1>2, DocumentKinds
    <2>2. Expanded(Expansion, chain, d) = {<<(<<>>), "leaf">>}
        BY <1>2, <2>1 DEF Expanded
    <2> DEFINE fields == {Rebased(Append(path, k), Expansion[<<chain, Single(d.fields[k])>>]) :
                             k \in DOMAIN d.fields}
    <2>3. UNION fields = {}
        BY <2>1
    <2>4. Rebased(path, {<<(<<>>), "leaf">>}) = {<<path, "leaf">>}
        BY RebasedOne
    <2>5. Rebased(path, Expanded(Expansion, chain, d)) = {<<path, d.node>>}
        BY <2>1, <2>2, <2>4
    <2> HIDE DEF fields
    <2>6. Rebased(path, Expanded(Expansion, chain, d)) = {<<path, d.node>>} \cup UNION fields
        BY <2>3, <2>5
    <2> QED
        BY <2>6 DEF fields
<1> QED
    BY <1>1, <1>2

\* A node that is no reference is settled, and its children take its place.
LEMMA PushExpansion ==
    ASSUME ExpansionInv, IInv', PushChildren
    PROVE  ExpansionInv'
<1> DEFINE P == Top.path
           chain == Top.ancestors
           d == DocumentAt(tree, P)
           ks == ChildKeys(P)
           new == Children(P, chain)
<1>1. /\ pending # <<>> /\ Found \notin Url /\ UNCHANGED <<served, root>> /\ tree' = tree
      /\ pending' = Popped \o new
    BY DEF PushChildren
<1>2. /\ WebOK /\ Tree(tree) /\ DOMAIN tree \subseteq Seq(Key)
      /\ P \in Seq(Key) /\ P \in DOMAIN tree /\ chain \in SUBSET Url
      /\ d \in Document /\ d.node = Found /\ Shallow(tree, Top)
      /\ Awaited(tree, Top) = Rebased(P, Expanded(Expansion, chain, d))
    BY <1>1, TopPlace
<1>3. ks = DOMAIN d.fields /\ d.node = tree[P]
      /\ \A k \in ks : k \in Key /\ Append(P, k) \in DOMAIN tree
                       /\ d.fields[k] = tree[Append(P, k)]
    BY DEF DocumentAt, ChildKeys
<1>4. /\ new \in Seq(Visit) /\ Apart(new)
      /\ Visits(new) = {Child(P, k, chain) : k \in ks}
    BY <1>2, ChildVisits
<1>5. \A q \in DOMAIN tree : IsPrefixOf(P, q) => Len(q) <= Len(P) + 1
    BY <1>2 DEF Shallow
<1>6. \A k \in Key : Append(P, k) \in DOMAIN tree => k \in ks
    BY DEF ChildKeys
<1> HIDE DEF P, chain, d, ks, new
<1>7. ASSUME NEW k \in ks
      PROVE  /\ DocumentAt(tree, Append(P, k)) = Single(d.fields[k])
             /\ IsPrefixOf(P, Append(P, k)) /\ Append(P, k) \in Seq(Key)
             /\ Shallow(tree, Child(P, k, chain))
    <2> DEFINE a == Append(P, k)
    <2>1. /\ a \in Seq(Key) /\ IsPrefixOf(P, a) /\ a \in DOMAIN tree
          /\ Len(a) = Len(P) + 1 /\ Len(P) \in Nat
        BY <1>2, <1>3, StepDown, AppendProperties, LenProperties
    <2>2. d.fields[k] = tree[a]
        BY <1>3
    <2> HIDE DEF a
    <2>3. ASSUME NEW q \in DOMAIN tree, IsPrefixOf(a, q)
          PROVE  Len(q) <= Len(a)
        BY <1>2, <1>5, <2>1, <2>3, PrefixTrans
    <2>4. \A m \in Key : Append(a, m) \notin DOMAIN tree
        <3> SUFFICES ASSUME NEW m \in Key, Append(a, m) \in DOMAIN tree PROVE FALSE
            OBVIOUS
        <3>1. IsPrefixOf(a, Append(a, m))
            BY <2>1, StepDown
        <3>2. Len(Append(a, m)) = Len(a) + 1 /\ Len(a) \in Nat
            BY <2>1, AppendProperties, LenProperties
        <3>3. Len(Append(a, m)) <= Len(a)
            BY <2>3, <3>1
        <3> QED
            BY <3>2, <3>3
    <2>5. DocumentAt(tree, a) = Single(d.fields[k])
        <3>1. {m \in Key : Append(a, m) \in DOMAIN tree} = {}
            BY <2>4
        <3> DEFINE D == {m \in Key : Append(a, m) \in DOMAIN tree}
                   f == [m \in D |-> tree[Append(a, m)]]
        <3>2. f = <<>>
            BY <3>1
        <3>3. DocumentAt(tree, a) = [node |-> tree[a], fields |-> f]
            BY DEF DocumentAt
        <3> HIDE DEF f
        <3> QED
            BY <2>2, <3>2, <3>3 DEF Single
    <2>6. Single(d.fields[k]) \in Document
        BY <1>2, <1>3, DocumentKinds
    <2>7. \A q \in DOMAIN tree : IsPrefixOf(a, q) => Len(q) <= Len(a) + 1
        BY <2>1, <2>3, LenProperties, <1>2
    <2>8. Child(P, k, chain).path = a
        BY DEF Child, a
    <2>9. Shallow(tree, Child(P, k, chain))
        BY <2>5, <2>6, <2>7, <2>8 DEF Shallow
    <2> QED
        BY <2>1, <2>5, <2>9 DEF a
<1>8. ASSUME NEW v \in Visits(new)
      PROVE  IsPrefixOf(P, v.path) /\ Shallow(tree', v)
    <2>1. PICK k \in ks : v = Child(P, k, chain)
        BY <1>4
    <2>2. v.path = Append(P, k)
        BY <2>1 DEF Child
    <2>3. IsPrefixOf(P, Append(P, k)) /\ Shallow(tree, v)
        BY <1>7, <2>1
    <2> QED
        BY <1>1, <2>2, <2>3
<1>9. SameElsewhere(tree, tree', P)
    BY <1>1 DEF SameElsewhere
<1>10. UNION {Awaited(tree, v) : v \in Visits(new)} =
           UNION {Rebased(Append(P, k), Expansion[<<chain, Single(d.fields[k])>>]) : k \in ks}
    <2>1. \A k \in ks : Awaited(tree, Child(P, k, chain)) =
                            Rebased(Append(P, k), Expansion[<<chain, Single(d.fields[k])>>])
        BY <1>7 DEF Awaited, Child
    <2> QED
        BY <1>4, <2>1
<1>11. {p \in Settled(tree, Visits(new)) : IsPrefixOf(P, p)} = {P}
    <2>1. P \in Settled(tree, Visits(new)) /\ IsPrefixOf(P, P)
        <3>1. IsPrefixOf(P, P)
            BY <1>2, LenProperties DEF IsPrefixOf
        <3>2. \A k \in ks : ~IsPrefixOf(Append(P, k), P)
            BY <1>2, <1>3, StepDown
        <3>3. ASSUME NEW v \in Visits(new) PROVE ~IsPrefixOf(v.path, P)
            <4>1. PICK k \in ks : v = Child(P, k, chain)
                BY <1>4
            <4>2. v.path = Append(P, k)
                BY <4>1 DEF Child
            <4> QED
                BY <3>2, <4>2
        <3> QED
            BY <1>2, <3>1, <3>3 DEF Settled
    <2>2. ASSUME NEW p \in DOMAIN tree, IsPrefixOf(P, p), p # P
          PROVE  p \notin Settled(tree, Visits(new))
        <3>1. p \in Seq(Key)
            BY <1>2
        <3> DEFINE k == p[Len(P) + 1]
        <3>2. k \in Key /\ IsPrefixOf(Append(P, k), p)
            BY <1>2, <2>2, <3>1, NextStep
        <3> HIDE DEF k
        <3>3. Append(P, k) \in Seq(Key)
            BY <1>2, <3>2, StepDown
        <3>4. Append(P, k) \in DOMAIN tree
            BY <1>2, <3>2, <3>3 DEF Tree, ObjectsAbove
        <3>5. Child(P, k, chain) \in Visits(new) /\ Child(P, k, chain).path = Append(P, k)
            BY <1>4, <1>6, <3>2, <3>4 DEF Child
        <3> QED
            BY <3>2, <3>5 DEF Settled
    <2> QED
        BY <2>1, <2>2 DEF Settled
<1>12. Awaited(tree, Top) = Continued(tree', Visits(new), P)
    <2>1. Awaited(tree, Top) =
              {<<P, d.node>>} \cup
              UNION {Rebased(Append(P, k), Expansion[<<chain, Single(d.fields[k])>>]) : k \in ks}
        BY <1>1, <1>2, <1>3, ExpandedChildren
    <2>2. {<<p, tree[p]>> : p \in {p \in Settled(tree, Visits(new)) : IsPrefixOf(P, p)}} =
              {<<P, d.node>>}
        BY <1>3, <1>11
    <2>3. Continued(tree, Visits(new), P) = Awaited(tree, Top)
        BY <1>10, <2>1, <2>2 DEF Continued
    <2> QED
        BY <1>1, <2>3
<1> QED
    BY <1>1, <1>4, <1>8, <1>9, <1>12, ReplacedInvariant DEF P

\* Every step keeps what is foretold.
LEMMA StepExpansion == ExpansionInv /\ [Next]_vars => ExpansionInv'
<1> SUFFICES ASSUME ExpansionInv, [Next]_vars PROVE ExpansionInv'
    OBVIOUS
<1>1. IInv'
    BY StepInvariant DEF ExpansionInv
<1>2. CASE CutCycle
    BY <1>1, <1>2, NullingExpansion DEF CutCycle
<1>3. CASE ReadFails
    BY <1>1, <1>3, NullingExpansion DEF ReadFails
<1>4. CASE Expand
    BY <1>1, <1>4, ExpandExpansion
<1>5. CASE PushChildren
    BY <1>1, <1>5, PushExpansion
<1>6. CASE UNCHANGED vars
    <2>1. Expansion' = Expansion
        BY <1>6, SameExpansion DEF vars
    <2>2. tree' = tree /\ pending' = pending /\ root' = root
        BY <1>6 DEF vars
    <2>3. /\ Apart(pending')
          /\ \A i \in 1..Len(pending') : Shallow(tree', pending'[i])
        BY <2>2 DEF ExpansionInv
    <2> DEFINE V == {pending[i] : i \in 1..Len(pending)}
    <2>4. (Foretold(tree, {pending[i] : i \in 1..Len(pending)}) = Expansion[<<{}, root>>])'
        <3>1. Foretold(tree', V) = Expansion[<<{}, root'>>]
            BY <2>2 DEF ExpansionInv
        <3>2. V = {pending'[i] : i \in 1..Len(pending')}
            BY <2>2
        <3> HIDE DEF V
        <3> QED
            BY <2>1, <3>1, <3>2 DEF Foretold, Awaited
    <2> QED
        BY <1>1, <2>3, <2>4 DEF ExpansionInv
<1> QED
    BY <1>2, <1>3, <1>4, <1>5, <1>6 DEF Next

\* At every step what is settled, together with what the visits on the stack will
\* come to, is the expansion of the document as it was read; the order in which
\* resolve_external_urls visits does not matter.
THEOREM ExpansionInvariance == Spec => []ExpansionInv
BY InitExpansion, StepExpansion, PTL DEF Spec

\* The document resolve_external_urls ends with is the one the recursion over
\* chains of references defines, for any number of locations and whatever they
\* serve: null stands exactly where a reference is unreadable or on its own chain.
THEOREM ExpandsRight == Spec => []ExpandedRight
<1>1. ExpansionInv => ExpandedRight
    <2> SUFFICES ASSUME ExpansionInv, pending = <<>>
                 PROVE  {<<p, tree[p]>> : p \in DOMAIN tree} = Expansion[<<{}, root>>]
        BY DEF ExpandedRight
    <2>1. {pending[i] : i \in 1..Len(pending)} = {}
        OBVIOUS
    <2>2. Foretold(tree, {}) = {<<p, tree[p]>> : p \in DOMAIN tree}
        BY DEF Foretold, Settled
    <2> QED
        BY <2>1, <2>2 DEF ExpansionInv
<1> QED
    BY <1>1, ExpansionInvariance, PTL
=============================================================================
