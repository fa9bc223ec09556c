-------------------------- MODULE AnchorClientsProofs --------------------------
(***************************************************************************)
(* Theorems about AnchorClients, and about the Resolver it looks providers *)
(* up with, for any number of roots, any ids, entries, calls and texts.    *)
(***************************************************************************)
EXTENDS AnchorClients, SequenceTheorems, WellFoundedInduction, TLAPS

-----------------------------------------------------------------------------
(* The lookup keeps to the highest root *)

\* Appending an element.
LEMMA AppendShape ==
    ASSUME NEW S, NEW s \in Seq(S), NEW e \in S
    PROVE  /\ Append(s, e) \in Seq(S)
           /\ Len(s) \in Nat
           /\ Len(Append(s, e)) = Len(s) + 1
           /\ Append(s, e)[Len(s) + 1] = e
           /\ \A i \in 1..Len(s) : Append(s, e)[i] = s[i]
OBVIOUS

\* Nothing is merged at first.
LEMMA InitInvariant == Init => IInv
<1> SUFFICES ASSUME Init PROVE IInv
    OBVIOUS
<1>1. 1 \in 1..(Roots + 1) /\ 0 \in 0..Roots
    BY ResolverAssumption
<1> QED
    BY <1>1 DEF Init, IInv, TypeOK, Untouched, HigherRootsDecide

\* Documents are read before any is merged.
LEMMA ReadRootKeeps ==
    ASSUME IInv, NEW d \in Document, ReadRoot(d)
    PROVE  IInv'
<1> USE DEF ReadRoot
<1>1. documents \in Seq(Document) /\ root \in Nat /\ Untouched
    BY ResolverAssumption DEF IInv, TypeOK
<1>2. /\ documents' \in Seq(Document) /\ Len(documents) \in Nat
      /\ Len(documents') = Len(documents) + 1
    BY <1>1, AppendShape
<1>3. TypeOK'
    BY <1>1, <1>2, ResolverAssumption DEF IInv, TypeOK, merge
<1>4. Len(documents') <= root' /\ rank' <= Len(documents') + 1
    BY <1>1, <1>2 DEF IInv, Untouched, merge
<1>5. Untouched'
    BY <1>1 DEF Untouched, merge
<1> QED
    BY <1>2, <1>3, <1>4, <1>5 DEF IInv, Untouched, HigherRootsDecide

\* Steps that neither read a document nor list an entry.
LEMMA QuietStepsKeep ==
    ASSUME IInv, SkipRoot \/ AllRead \/ Return \/ UNCHANGED vars
    PROVE  IInv'
<1>1. /\ UNCHANGED <<documents, seen, visited, rank, providers>>
      /\ root' \in 0..Roots /\ root' >= root
      /\ pc' \in {pc, "merging", "found", "no_metadata"}
    BY ResolverAssumption DEF IInv, TypeOK, SkipRoot, AllRead, Return, vars, merge
<1>2. TypeOK'
    BY <1>1 DEF IInv, TypeOK
<1>3. Len(documents') <= root'
    BY <1>1 DEF IInv, TypeOK
<1> QED
    BY <1>1, <1>2, <1>3 DEF IInv, Untouched, HigherRootsDecide

\* An id is listed only when no document merged before has it, because all
\* their ids are taken.
LEMMA TakeEntryKeeps ==
    ASSUME IInv, NEW id \in Id, TakeEntry(id)
    PROVE  IInv'
<1> USE DEF TakeEntry, SeenWith
<1> DEFINE l == [document |-> rank, id |-> id]
<1>1. /\ rank \in Nat \ {0} /\ Len(documents) \in Nat /\ rank <= Len(documents)
      /\ providers \in Seq(Listing) /\ l \in Listing
    BY ResolverAssumption DEF IInv, TypeOK, Listing
<1>2. /\ providers' \in Seq(Listing)
      /\ \A i \in 1..Len(providers') :
            \/ i \in 1..Len(providers) /\ providers'[i] = providers[i]
            \/ providers'[i] = l /\ id \notin seen
    <2>1. CASE Wins(id)
        <3>1. providers' = Append(providers, l)
            BY <2>1
        <3> HIDE DEF l
        <3>2. /\ providers' \in Seq(Listing) /\ Len(providers) \in Nat
              /\ Len(providers') = Len(providers) + 1
              /\ providers'[Len(providers) + 1] = l
              /\ \A i \in 1..Len(providers) : providers'[i] = providers[i]
            BY <1>1, <3>1, AppendShape
        <3>3. id \notin seen
            BY <2>1 DEF Wins
        <3> QED
            BY <3>2, <3>3
    <2>2. CASE ~Wins(id)
        BY <1>1, <2>2
    <2> QED
        BY <2>1, <2>2
<1>3. \A i \in 1..Len(providers') : providers'[i].document \in 1..Len(documents)
    BY <1>1, <1>2 DEF IInv
<1>4. HigherRootsDecide'
    <2> SUFFICES ASSUME NEW i \in 1..Len(providers'),
                        NEW above \in 1..(providers'[i].document - 1)
                 PROVE  providers'[i].id \notin DOMAIN documents[above]
        BY DEF HigherRootsDecide
    <2>1. CASE i \in 1..Len(providers) /\ providers'[i] = providers[i]
        BY <2>1 DEF IInv, HigherRootsDecide
    <2>2. CASE providers'[i] = l /\ id \notin seen
        <3>1. above \in 1..Len(documents) /\ above < rank
            BY <1>1, <2>2
        <3> QED
            BY <2>2, <3>1 DEF IInv
    <2> QED
        BY <1>2, <2>1, <2>2
<1>5. TypeOK'
    BY <1>2 DEF IInv, TypeOK
<1>6. pc' # "reading"
    OBVIOUS
<1> QED
    BY <1>3, <1>4, <1>5, <1>6 DEF IInv

\* A document is left when all its ids are taken.
LEMMA NextDocumentKeeps == ASSUME IInv, NextDocument PROVE IInv'
<1> USE DEF NextDocument
<1>1. /\ rank \in Nat \ {0} /\ Len(documents) \in Nat /\ rank <= Len(documents)
      /\ root \in 0..Roots /\ Len(documents) <= root
    BY ResolverAssumption DEF IInv, TypeOK
<1>2. rank' \in 1..(Roots + 1) /\ rank' <= Len(documents) + 1
    BY <1>1, ResolverAssumption
<1>3. \A r \in 1..Len(documents) : r < rank' => DOMAIN documents[r] \subseteq seen
    <2> SUFFICES ASSUME NEW r \in 1..Len(documents), r < rank'
                 PROVE  DOMAIN documents[r] \subseteq seen
        OBVIOUS
    <2>1. CASE r = rank
        BY <2>1 DEF IInv, Entries
    <2>2. CASE r < rank
        BY <2>2 DEF IInv
    <2> QED
        BY <1>1, <2>1, <2>2
<1>4. TypeOK'
    BY <1>2 DEF IInv, TypeOK
<1> QED
    BY <1>2, <1>3, <1>4 DEF IInv, HigherRootsDecide

\* IInv is inductive.
LEMMA StepInvariant == IInv /\ [Next]_vars => IInv'
<1> SUFFICES ASSUME IInv, [Next]_vars PROVE IInv'
    OBVIOUS
<1>1. ASSUME NEW d \in Document, ReadRoot(d) PROVE IInv'
    BY <1>1, ReadRootKeeps
<1>2. ASSUME NEW id \in Id, TakeEntry(id) PROVE IInv'
    BY <1>2, TakeEntryKeeps
<1>3. CASE NextDocument
    BY <1>3, NextDocumentKeeps
<1>4. CASE SkipRoot \/ AllRead \/ Return \/ UNCHANGED vars
    BY <1>4, QuietStepsKeep
<1> QED
    BY <1>1, <1>2, <1>3, <1>4 DEF Next

\* In every reachable state of a lookup the ids of the documents merged so far
\* are taken, and what is listed names the first document that has its id.
THEOREM Invariance == Spec => []IInv
BY InitInvariant, StepInvariant, PTL DEF Spec

\* lookup lists an id from the highest root alone that has it: nothing that a
\* lower root publishes changes what a higher one decides.
THEOREM HigherRootsWin == Spec => []HigherRootsDecide
<1>1. IInv => HigherRootsDecide
    BY DEF IInv
<1> QED
    BY <1>1, Invariance, PTL
-----------------------------------------------------------------------------
(* What lookup returns *)

\* The document that counts for an id is the first that has it.
LEMMA WinnerIs ==
    ASSUME NEW id, Len(documents) \in Nat, NEW r \in 1..Len(documents),
           id \in DOMAIN documents[r],
           \A j \in 1..Len(documents) : j < r => id \notin DOMAIN documents[j]
    PROVE  Winner(id) = r /\ Ranks(id) # {}
<1>1. r \in Ranks(id) /\ \A j \in Ranks(id) : r <= j
    BY DEF Ranks
<1>2. \A i \in Ranks(id) : (\A j \in Ranks(id) : i <= j) => i = r
    BY <1>1 DEF Ranks
<1> HIDE DEF Ranks
<1> QED
    BY <1>1, <1>2 DEF Winner

\* What is to be listed follows from the documents.
LEMMA SamePlaces == documents' = documents => Placed' = Placed
BY DEF Placed, Listed, Winner, Ranks

\* A step that reads no document leaves what counts, and keeps what is listed
\* as long as it lists nothing.
LEMMA SameListing ==
    ASSUME MergeInv, IInv', UNCHANGED <<documents, seen, providers>>,
           pc' = "found" => rank' > Len(documents'),
           rank' <= Len(documents') =>
               (\A v \in visited : \A w \in DOMAIN Entries \ visited : v < w)',
           \A listing \in Listing : Passed(listing) => Passed(listing)'
    PROVE  MergeInv'
<1>1. \A i \in 1..Len(providers) : providers[i] \in Listing
    BY ElementOfSeq DEF MergeInv, IInv, TypeOK
<1>2. \A i \in 1..Len(providers) : Passed(providers[i])'
    BY <1>1 DEF MergeInv
<1>3. Placed' = Placed
    BY SamePlaces
<1>4. (\A i, j \in 1..Len(providers) : i < j => Before(providers[i], providers[j]))'
    BY DEF MergeInv, Before
<1> QED
    BY <1>2, <1>3, <1>4 DEF MergeInv

\* Nothing is listed at first.
LEMMA InitMerge == Init => MergeInv
<1> SUFFICES ASSUME Init PROVE MergeInv
    OBVIOUS
<1>1. IInv
    BY InitInvariant
<1>2. /\ 1..Len(providers) = {} /\ visited = {} /\ seen = {} /\ pc # "found"
    BY DEF Init
<1> QED
    BY <1>1, <1>2 DEF MergeInv

\* The roots are read before anything is listed.
LEMMA ReadingMerges ==
    ASSUME MergeInv, IInv', pc = "reading", UNCHANGED merge, pc' # "found"
    PROVE  MergeInv'
<1>1. Untouched /\ Untouched'
    BY DEF MergeInv, IInv, Untouched, merge
<1>2. (1..Len(providers))' = {} /\ visited' = {} /\ seen' = {}
    BY <1>1 DEF Untouched
<1> QED
    BY <1>2 DEF MergeInv

\* An id that is visited comes after those of its document that were, and when
\* it is new, its document is the one that counts for it.
LEMMA TakeEntryMerges ==
    ASSUME MergeInv, IInv', NEW id \in Id, TakeEntry(id)
    PROVE  MergeInv'
<1> DEFINE l == [document |-> rank, id |-> id]
           N == Len(providers)
<1>1. /\ UNCHANGED <<pc, root, documents, rank>>
      /\ pc = "merging" /\ rank <= Len(documents) /\ Upcoming(id)
      /\ visited' = visited \cup {id} /\ seen' = seen \cup {id}
      /\ providers' = IF Wins(id) THEN Append(providers, l) ELSE providers
    BY DEF TakeEntry, SeenWith
<1>2. /\ rank \in 1..Len(documents) /\ Len(documents) \in Nat /\ N \in Nat
      /\ providers \in Seq(Listing) /\ l \in Listing /\ Id \subseteq Nat
      /\ documents \in Seq(Document) /\ DOMAIN Entries \subseteq Id
    <2>1. /\ rank \in Nat \ {0} /\ documents \in Seq(Document) /\ providers \in Seq(Listing)
        BY ResolverAssumption DEF MergeInv, IInv, TypeOK
    <2>2. Len(documents) \in Nat /\ N \in Nat /\ rank \in 1..Len(documents)
        BY <1>1, <2>1, LenProperties
    <2>3. documents[rank] \in Document
        BY <2>1, <2>2, ElementOfSeq
    <2> QED
        BY <2>1, <2>2, <2>3, ResolverAssumption DEF Entries, Document, Listing
<1>3. id \in DOMAIN Entries /\ id \notin visited
      /\ \A other \in DOMAIN Entries \ visited : id <= other
    BY <1>1 DEF Upcoming
<1>4. id \notin seen => (id \in DOMAIN Placed <=> Wins(id)) /\ (Wins(id) => Placed[id] = l)
    <2> SUFFICES ASSUME id \notin seen
                 PROVE  (id \in DOMAIN Placed <=> Wins(id)) /\ (Wins(id) => Placed[id] = l)
        OBVIOUS
    <2>1. \A j \in 1..Len(documents) : j < rank => id \notin DOMAIN documents[j]
        BY DEF MergeInv, IInv
    <2>2. Winner(id) = rank /\ Ranks(id) # {}
        BY <1>2, <1>3, <2>1, WinnerIs DEF Entries
    <2>3. Listed(id) <=> Wins(id)
        BY <2>2 DEF Listed, Wins, Entries
    <2> QED
        BY <2>2, <2>3 DEF Placed
<1>5. Placed' = Placed
    BY <1>1, SamePlaces
<1>6. /\ \A i \in 1..Len(providers') :
            \/ i \in 1..N /\ providers'[i] = providers[i]
            \/ i = N + 1 /\ providers'[i] = l /\ Wins(id)
      /\ \A i \in 1..N : i \in 1..Len(providers') /\ providers'[i] = providers[i]
      /\ Wins(id) => N + 1 \in 1..Len(providers') /\ providers'[N + 1] = l
    <2> HIDE DEF l
    <2>1. CASE Wins(id)
        <3>1. /\ Len(providers') = N + 1 /\ providers'[N + 1] = l
              /\ \A i \in 1..N : providers'[i] = providers[i]
            BY <1>1, <1>2, <2>1, AppendShape
        <3> QED
            BY <1>2, <2>1, <3>1
    <2>2. CASE ~Wins(id)
        BY <1>1, <1>2, <2>2
    <2> QED
        BY <2>1, <2>2
<1>7. Wins(id) => id \notin seen
    BY DEF Wins
<1>8. \A i \in 1..N : /\ Passed(providers[i])
                      /\ providers[i].id \in DOMAIN Placed
                      /\ providers[i] = Placed[providers[i].id]
                      /\ providers[i] \in Listing
    BY <1>2, ElementOfSeq DEF MergeInv
<1>9. \A i \in 1..Len(providers') :
          /\ providers'[i].id \in DOMAIN Placed
          /\ providers'[i] = Placed[providers'[i].id]
    BY <1>4, <1>6, <1>7, <1>8
<1>10. \A i \in 1..Len(providers') : Passed(providers[i])'
    BY <1>1, <1>6, <1>8 DEF Passed
<1>11. \A x \in seen' \cap DOMAIN Placed :
          \E i \in 1..Len(providers') : providers'[i] = Placed[x]
    <2> SUFFICES ASSUME NEW x \in seen' \cap DOMAIN Placed
                 PROVE  \E i \in 1..Len(providers') : providers'[i] = Placed[x]
        OBVIOUS
    <2>1. CASE x \in seen
        <3>1. PICK i \in 1..N : providers[i] = Placed[x]
            BY <2>1 DEF MergeInv
        <3> QED
            BY <1>6, <3>1
    <2>2. CASE x \notin seen
        <3>1. x = id
            BY <1>1, <2>2
        <3>2. Wins(id) /\ Placed[x] = l
            BY <1>4, <2>2, <3>1
        <3> QED
            BY <1>6, <3>2
    <2> QED
        BY <2>1, <2>2
<1>12. \A i, j \in 1..Len(providers') : i < j => Before(providers'[i], providers'[j])
    <2> SUFFICES ASSUME NEW i \in 1..Len(providers'), NEW j \in 1..Len(providers'), i < j
                 PROVE  Before(providers'[i], providers'[j])
        OBVIOUS
    <2>1. i \in 1..N /\ providers'[i] = providers[i]
        BY <1>2, <1>6
    <2>2. CASE j \in 1..N /\ providers'[j] = providers[j]
        BY <2>1, <2>2 DEF MergeInv
    <2>3. CASE providers'[j] = l
        <3>1. CASE providers[i].document < rank
            BY <2>1, <2>3, <3>1 DEF Before
        <3>2. CASE providers[i].document = rank /\ providers[i].id \in visited
            <4>1. providers[i].id < id
                BY <1>1, <1>3, <3>2 DEF MergeInv
            <4> QED
                BY <2>1, <2>3, <3>2, <4>1 DEF Before
        <3> QED
            BY <1>8, <2>1, <3>1, <3>2 DEF Passed
    <2> QED
        BY <1>6, <2>2, <2>3
<1>13. (\A i, j \in 1..Len(providers) : i < j => Before(providers[i], providers[j]))'
    BY <1>12 DEF Before
<1>14. \A v \in visited' : \A w \in DOMAIN Entries \ visited' : v < w
    <2> SUFFICES ASSUME NEW v \in visited', NEW w \in DOMAIN Entries \ visited' PROVE v < w
        OBVIOUS
    <2>1. CASE v \in visited
        BY <1>1, <2>1 DEF MergeInv
    <2>2. CASE v = id
        BY <1>1, <1>2, <1>3, <2>2
    <2> QED
        BY <1>1, <2>1, <2>2
<1>15. (rank <= Len(documents) =>
          \A v \in visited : \A w \in DOMAIN Entries \ visited : v < w)'
    BY <1>1, <1>14 DEF Entries
<1> QED
    BY <1>1, <1>5, <1>9, <1>10, <1>11, <1>13, <1>15 DEF MergeInv

\* The next document begins with none of its ids visited.
LEMMA NextDocumentMerges ==
    ASSUME MergeInv, IInv', NextDocument
    PROVE  MergeInv'
<1>1. /\ UNCHANGED <<pc, documents, seen, providers>> /\ visited' = {} /\ rank' = rank + 1
      /\ pc = "merging" /\ rank \in Nat
    BY ResolverAssumption DEF NextDocument, MergeInv, IInv, TypeOK
<1>2. \A listing \in Listing : Passed(listing) => Passed(listing)'
    BY <1>1 DEF Passed, Listing
<1> QED
    BY <1>1, <1>2, SameListing

\* MergeInv is inductive.
LEMMA StepMerge == MergeInv /\ [Next]_vars => MergeInv'
<1> SUFFICES ASSUME MergeInv, [Next]_vars PROVE MergeInv'
    OBVIOUS
<1>1. IInv /\ IInv'
    BY StepInvariant DEF MergeInv
<1>2. ASSUME NEW d \in Document, ReadRoot(d) PROVE MergeInv'
    BY <1>1, <1>2, ReadingMerges DEF ReadRoot
<1>3. CASE SkipRoot \/ AllRead
    BY <1>1, <1>3, ReadingMerges DEF SkipRoot, AllRead
<1>4. ASSUME NEW id \in Id, TakeEntry(id) PROVE MergeInv'
    BY <1>1, <1>4, TakeEntryMerges
<1>5. CASE NextDocument
    BY <1>1, <1>5, NextDocumentMerges
<1>6. CASE Return \/ UNCHANGED vars
    <2>1. UNCHANGED <<documents, seen, visited, rank, providers>>
        BY <1>6 DEF Return, vars, merge
    <2>2. pc' = "found" => rank' > Len(documents')
        BY <1>6, <2>1 DEF Return, vars, MergeInv
    <2>3. \A listing \in Listing : Passed(listing) => Passed(listing)'
        BY <2>1 DEF Passed
    <2>4. rank' <= Len(documents') =>
               (\A v \in visited : \A w \in DOMAIN Entries \ visited : v < w)'
        BY <2>1 DEF MergeInv, Entries
    <2> QED
        BY <1>1, <2>1, <2>2, <2>3, <2>4, SameListing
<1> QED
    BY <1>2, <1>3, <1>4, <1>5, <1>6 DEF Next

\* At every step what is listed is what counts, in order, and of the ids taken
\* all that count are listed.
THEOREM MergeInvariance == Spec => []MergeInv
BY InitMerge, StepMerge, PTL DEF Spec

\* When lookup returns, all ids are taken, so all that are to be listed are.
LEMMA MergedThen == MergeInv => MergedByPriority
<1> SUFFICES ASSUME MergeInv, pc = "found"
             PROVE  {providers[i] : i \in 1..Len(providers)} =
                    {Placed[id] : id \in DOMAIN Placed}
    BY DEF MergedByPriority, MergeInv
<1>1. \A i \in 1..Len(providers) :
          \E id \in DOMAIN Placed : providers[i] = Placed[id]
    BY DEF MergeInv
<1>2. ASSUME NEW id \in DOMAIN Placed
      PROVE  \E i \in 1..Len(providers) : providers[i] = Placed[id]
    <2>0. Listed(id)
        BY DEF Placed
    <2>1. PICK r \in 1..Len(documents) : id \in DOMAIN documents[r]
        BY <2>0 DEF Listed, Ranks
    <2>2. r < rank
        BY ResolverAssumption DEF MergeInv, IInv, TypeOK
    <2>3. id \in seen
        BY <2>1, <2>2 DEF MergeInv, IInv
    <2> QED
        BY <2>3 DEF MergeInv
<1> QED
    BY <1>1, <1>2

\* What lookup returns follows from the documents alone: an id is in it exactly
\* when the first document that has it lists a genuine entry the query accepts,
\* and the listings are in the order of the roots and of the ids.
THEOREM MergesByPriority == Spec => []MergedByPriority
BY MergedThen, MergeInvariance, PTL

-----------------------------------------------------------------------------
(* Reading JSON *)

\* A text is read as a text, at any depth.
LEMMA TextFits ==
    ASSUME NEW v
    PROVE  /\ Fits(v, Str) <=> v[1] = "text"
           /\ Fits7(v, Str) <=> v[1] = "text"
           /\ Fits6(v, Str) <=> v[1] = "text"
           /\ Fits5(v, Str) <=> v[1] = "text"
<1>1. Chosen(v, Str) = Str /\ ~HasParts(Str) /\ (FitsFlat(v, Str) <=> v[1] = "text")
    BY DEF Chosen, HasParts, FitsFlat, Str
<1> QED
    BY <1>1 DEF Fits, Fits7, Fits6, Fits5, FitsBy

\* What has no parts is read as it is.
LEMMA FlatAsIs ==
    ASSUME NEW v, NEW kind, kind[1] \notin {"list", "map", "untagged", "object", "open"}
    PROVE  /\ Cleaned(v, kind) = v
           /\ Cleaned7(v, kind) = v
           /\ Cleaned6(v, kind) = v
           /\ Cleaned5(v, kind) = v
BY DEF Cleaned, Cleaned7, Cleaned6, Cleaned5, CleanedBy, Chosen, HasParts

\* The members that are read of an object, and those of them that are read as the
\* shape says.
LEMMA ObjectMembers ==
    ASSUME NEW v, NEW d, d[1] \in {"object", "open"}
    PROVE  /\ Chosen(v, d) = d /\ HasParts(d) /\ JsonTag(d) = "object"
           /\ MembersRead(v, d) = Unknown(v, d) \cup Known(v, d)
           /\ \A name : PartKind(d, name) = d[2][name].kind
           /\ \A name \in Unknown(v, d) \cup Known(v, d) :
                /\ name \notin DOMAIN d[2] => name \notin Parts(v, d) /\ name \in DOMAIN v[2]
                /\ name \in DOMAIN d[2] => (name \in Parts(v, d) <=> name \in DOMAIN v[2])
<1>1. /\ Chosen(v, d) = d /\ HasParts(d) /\ JsonTag(d) = "object"
      /\ MembersRead(v, d) = Unknown(v, d) \cup Known(v, d)
      /\ \A name : PartKind(d, name) = d[2][name].kind
      /\ Parts(v, d) = {name \in DOMAIN d[2] : ~Absent(v[2], name, d[2][name])}
    BY DEF Chosen, HasParts, JsonTag, MembersRead, PartKind, Parts
<1>2. ASSUME NEW name \in Unknown(v, d) \cup Known(v, d)
      PROVE  /\ name \notin DOMAIN d[2] => name \notin Parts(v, d) /\ name \in DOMAIN v[2]
             /\ name \in DOMAIN d[2] => (name \in Parts(v, d) <=> name \in DOMAIN v[2])
    BY <1>1, <1>2 DEF Unknown, Known, Absent
<1> QED
    BY <1>1, <1>2

\* The members that are read of an object at each depth.
Members7(v, d) ==
    [name \in Unknown(v, d) \cup Known(v, d) |->
        IF name \notin DOMAIN d[2] THEN v[2][name]
        ELSE IF name \in DOMAIN v[2] THEN Cleaned7(v[2][name], d[2][name].kind)
        ELSE DefaultOf(d[2][name].kind)]

Members6(v, d) ==
    [name \in Unknown(v, d) \cup Known(v, d) |->
        IF name \notin DOMAIN d[2] THEN v[2][name]
        ELSE IF name \in DOMAIN v[2] THEN Cleaned6(v[2][name], d[2][name].kind)
        ELSE DefaultOf(d[2][name].kind)]

Members5(v, d) ==
    [name \in Unknown(v, d) \cup Known(v, d) |->
        IF name \notin DOMAIN d[2] THEN v[2][name]
        ELSE IF name \in DOMAIN v[2] THEN Cleaned5(v[2][name], d[2][name].kind)
        ELSE DefaultOf(d[2][name].kind)]

\* An object is read member by member...
LEMMA ObjectRead ==
    ASSUME NEW v, NEW d, d[1] \in {"object", "open"}
    PROVE  Cleaned(v, d) = Object(Members7(v, d))
<1> DEFINE members == Unknown(v, d) \cup Known(v, d)
<1>1. Cleaned(v, d) = <<"object", [name \in members |->
                IF name \in Parts(v, d) THEN Cleaned7(v[2][name], d[2][name].kind)
                ELSE IF name \in DOMAIN v[2] THEN v[2][name] ELSE DefaultOf(d[2][name].kind)]>>
    BY ObjectMembers DEF Cleaned, CleanedBy
<1>2. \A name \in members :
        /\ name \notin DOMAIN d[2] => name \notin Parts(v, d) /\ name \in DOMAIN v[2]
        /\ name \in DOMAIN d[2] => (name \in Parts(v, d) <=> name \in DOMAIN v[2])
    BY ObjectMembers
<1>3. Members7(v, d) = [name \in members |->
                IF name \notin DOMAIN d[2] THEN v[2][name]
                ELSE IF name \in DOMAIN v[2] THEN Cleaned7(v[2][name], d[2][name].kind)
                ELSE DefaultOf(d[2][name].kind)]
    BY DEF Members7
<1> HIDE DEF members
<1> QED
    BY <1>1, <1>2, <1>3 DEF Object

\* ...as is an object inside...
LEMMA PartRead ==
    ASSUME NEW v, NEW d, d[1] \in {"object", "open"}
    PROVE  Cleaned7(v, d) = Object(Members6(v, d))
<1> DEFINE members == Unknown(v, d) \cup Known(v, d)
<1>1. Cleaned7(v, d) = <<"object", [name \in members |->
                IF name \in Parts(v, d) THEN Cleaned6(v[2][name], d[2][name].kind)
                ELSE IF name \in DOMAIN v[2] THEN v[2][name] ELSE DefaultOf(d[2][name].kind)]>>
    BY ObjectMembers DEF Cleaned7, CleanedBy
<1>2. \A name \in members :
        /\ name \notin DOMAIN d[2] => name \notin Parts(v, d) /\ name \in DOMAIN v[2]
        /\ name \in DOMAIN d[2] => (name \in Parts(v, d) <=> name \in DOMAIN v[2])
    BY ObjectMembers
<1>3. Members6(v, d) = [name \in members |->
                IF name \notin DOMAIN d[2] THEN v[2][name]
                ELSE IF name \in DOMAIN v[2] THEN Cleaned6(v[2][name], d[2][name].kind)
                ELSE DefaultOf(d[2][name].kind)]
    BY DEF Members6
<1> HIDE DEF members
<1> QED
    BY <1>1, <1>2, <1>3 DEF Object

\* ...and one inside that.
LEMMA InnerRead ==
    ASSUME NEW v, NEW d, d[1] \in {"object", "open"}
    PROVE  Cleaned6(v, d) = Object(Members5(v, d))
<1> DEFINE members == Unknown(v, d) \cup Known(v, d)
<1>1. Cleaned6(v, d) = <<"object", [name \in members |->
                IF name \in Parts(v, d) THEN Cleaned5(v[2][name], d[2][name].kind)
                ELSE IF name \in DOMAIN v[2] THEN v[2][name] ELSE DefaultOf(d[2][name].kind)]>>
    BY ObjectMembers DEF Cleaned6, CleanedBy
<1>2. \A name \in members :
        /\ name \notin DOMAIN d[2] => name \notin Parts(v, d) /\ name \in DOMAIN v[2]
        /\ name \in DOMAIN d[2] => (name \in Parts(v, d) <=> name \in DOMAIN v[2])
    BY ObjectMembers
<1>3. Members5(v, d) = [name \in members |->
                IF name \notin DOMAIN d[2] THEN v[2][name]
                ELSE IF name \in DOMAIN v[2] THEN Cleaned5(v[2][name], d[2][name].kind)
                ELSE DefaultOf(d[2][name].kind)]
    BY DEF Members5
<1> HIDE DEF members
<1> QED
    BY <1>1, <1>2, <1>3 DEF Object

\* An object is read member by member: those of the shape that are there or
\* have a default.
LEMMA ObjectCleaned ==
    ASSUME NEW v, NEW shape
    PROVE  Cleaned(v, Dto(shape)) = Object([name \in Known(v, Dto(shape)) |->
               IF name \in DOMAIN v[2] THEN Cleaned7(v[2][name], shape[name].kind)
               ELSE DefaultOf(shape[name].kind)])
<1> DEFINE d == Dto(shape)
<1>1. d[1] = "object" /\ d[2] = shape
    BY DEF Dto
<1>2. Unknown(v, d) = {} /\ Known(v, d) \subseteq DOMAIN shape
    BY <1>1 DEF Unknown, Known
<1> HIDE DEF d
<1>3. Cleaned(v, d) = Object([name \in Unknown(v, d) \cup Known(v, d) |->
                IF name \notin DOMAIN d[2] THEN v[2][name]
                ELSE IF name \in DOMAIN v[2] THEN Cleaned7(v[2][name], d[2][name].kind)
                ELSE DefaultOf(d[2][name].kind)])
    <2>1. Cleaned(v, d) = Object(Members7(v, d))
        BY <1>1, ObjectRead
    <2> QED
        BY <2>1 DEF Members7
<1>4. [name \in Unknown(v, d) \cup Known(v, d) |->
                IF name \notin DOMAIN d[2] THEN v[2][name]
                ELSE IF name \in DOMAIN v[2] THEN Cleaned7(v[2][name], d[2][name].kind)
                ELSE DefaultOf(d[2][name].kind)] =
      [name \in Known(v, d) |->
               IF name \in DOMAIN v[2] THEN Cleaned7(v[2][name], shape[name].kind)
               ELSE DefaultOf(shape[name].kind)]
    BY <1>1, <1>2
<1> QED
    BY <1>3, <1>4 DEF d

\* An object fits when each member fits, or may be absent.
LEMMA ObjectFits ==
    ASSUME NEW v, NEW shape
    PROVE  Fits(v, Dto(shape)) <=>
              /\ v[1] = "object"
              /\ \A name \in DOMAIN shape :
                   IF Absent(v[2], name, shape[name]) THEN shape[name].mode # "needed"
                   ELSE Fits7(v[2][name], shape[name].kind)
<1> DEFINE d == Dto(shape)
<1>1. d[1] = "object" /\ d[2] = shape
    BY DEF Dto
<1>2. /\ Chosen(v, d) = d /\ HasParts(d) /\ JsonTag(d) = "object"
      /\ \A name : PartKind(d, name) = shape[name].kind
    BY <1>1, ObjectMembers
<1>3. Parts(v, d) = {name \in DOMAIN shape : ~Absent(v[2], name, shape[name])}
    BY <1>1 DEF Parts
<1> HIDE DEF d
<1>4. Fits(v, d) <=> /\ v[1] = "object"
                     /\ NothingMissing(v, d)
                     /\ \A name \in Parts(v, d) : Fits7(v[2][name], shape[name].kind)
    BY <1>2 DEF Fits, FitsBy
<1>5. NothingMissing(v, d) <=>
        \A name \in DOMAIN shape :
            Absent(v[2], name, shape[name]) => shape[name].mode # "needed"
    BY <1>1 DEF NothingMissing, Absent
<1> QED
    BY <1>3, <1>4, <1>5 DEF d

\* A member that has to be there, and one that may be missing or null.
LEMMA NeededMember ==
    ASSUME NEW v, NEW shape, NEW name \in DOMAIN shape, shape[name].mode = "needed",
           Fits(v, Dto(shape))
    PROVE  /\ name \in DOMAIN v[2] /\ Fits7(v[2][name], shape[name].kind)
           /\ name \in DOMAIN Cleaned(v, Dto(shape))[2]
           /\ Cleaned(v, Dto(shape))[2][name] = Cleaned7(v[2][name], shape[name].kind)
<1>1. name \in DOMAIN v[2] /\ Fits7(v[2][name], shape[name].kind)
    BY ObjectFits DEF Absent
<1>2. name \in Known(v, Dto(shape))
    BY <1>1 DEF Known, Absent, Dto
<1> QED
    BY <1>1, <1>2, ObjectCleaned DEF Object

\* A member that may be absent or null is read when it is given.
LEMMA OptionMember ==
    ASSUME NEW v, NEW shape, NEW name \in DOMAIN shape, shape[name].mode = "option"
    PROVE  /\ name \in DOMAIN Cleaned(v, Dto(shape))[2] <=> Given(v[2], name)
           /\ Given(v[2], name) =>
                Cleaned(v, Dto(shape))[2][name] = Cleaned7(v[2][name], shape[name].kind)
<1>1. name \in Known(v, Dto(shape)) <=> Given(v[2], name)
    BY DEF Known, Absent, Dto, Given
<1> QED
    BY <1>1, ObjectCleaned DEF Object, Given

\* An endpoint of a KYC provider is a text, or an object with a text "url".
LEMMA EndpointRead ==
    ASSUME NEW v
    PROVE  /\ Fits7(v, EndpointUrl) <=>
                \/ v[1] = "text"
                \/ v[1] = "object" /\ "url" \in DOMAIN v[2] /\ v[2].url[1] = "text"
           /\ Fits7(v, EndpointUrl) =>
                UrlOf(Cleaned7(v, EndpointUrl)) = IF v[1] = "text" THEN v[2] ELSE v[2].url[2]
<1> DEFINE d == Dto([url |-> Needed(Str)])
<1>1. /\ d[1] = "object" /\ DOMAIN d[2] = {"url"}
      /\ d[2]["url"].mode = "needed" /\ d[2]["url"].kind = Str
    BY DEF Dto, Needed
<1>2. EndpointUrl[1] = "untagged" /\ EndpointUrl[2] = Str /\ EndpointUrl[3] = d
    BY DEF EndpointUrl, Untagged
<1>3. Chosen(v, EndpointUrl) = IF v[1] = "text" THEN Str ELSE d
    BY <1>2 DEF Chosen, FitsFlat, Str
<1> HIDE DEF d
<1>4. CASE v[1] = "text"
    <2>1. ~HasParts(Str)
        BY DEF HasParts, Str
    <2>2. Fits7(v, EndpointUrl)
        BY <1>3, <1>4, <2>1 DEF Fits7, FitsBy, FitsFlat, Str
    <2>3. Cleaned7(v, EndpointUrl) = v
        BY <1>3, <1>4, <2>1 DEF Cleaned7, CleanedBy
    <2> QED
        BY <1>4, <2>2, <2>3 DEF UrlOf
<1>5. CASE v[1] # "text"
    <2>1. /\ Chosen(v, d) = d /\ HasParts(d) /\ JsonTag(d) = "object"
          /\ PartKind(d, "url") = Str
        <3>1. d[1] \in {"object", "open"}
            BY <1>1
        <3>2. PartKind(d, "url") = d[2]["url"].kind
            BY <3>1, ObjectMembers
        <3> QED
            BY <1>1, <3>1, <3>2, ObjectMembers
    <2>2. /\ Parts(v, d) = {name \in {"url"} : name \in DOMAIN v[2]}
          /\ NothingMissing(v, d) <=> "url" \in DOMAIN v[2]
        BY <1>1 DEF Parts, NothingMissing, Absent
    <2>3. Fits7(v, EndpointUrl) <=>
            /\ v[1] = "object" /\ NothingMissing(v, d)
            /\ \A name \in Parts(v, d) : Fits6(v[2][name], PartKind(d, name))
        BY <1>3, <1>5, <2>1 DEF Fits7, FitsBy
    <2>4. Fits7(v, EndpointUrl) <=>
            v[1] = "object" /\ "url" \in DOMAIN v[2] /\ v[2]["url"][1] = "text"
        BY <2>1, <2>2, <2>3, TextFits
    <2>5. Cleaned7(v, EndpointUrl) = Cleaned7(v, d)
        BY <1>3, <1>5, <2>1 DEF Cleaned7, CleanedBy
    <2>6. Unknown(v, d) = {} /\ ("url" \in DOMAIN v[2] => Known(v, d) = {"url"})
        BY <1>1 DEF Unknown, Known, Absent
    <2>7. Cleaned6(v[2]["url"], Str) = v[2]["url"]
        BY FlatAsIs DEF Str
    <2>8. /\ Cleaned7(v, d)[1] = "object"
          /\ "url" \in DOMAIN v[2] => Cleaned7(v, d)[2]["url"] = v[2]["url"]
        <3>1. d[1] \in {"object", "open"}
            BY <1>1
        <3>2. Cleaned7(v, d) = Object(Members6(v, d))
            BY <3>1, PartRead
        <3> QED
            BY <1>1, <2>6, <2>7, <3>2 DEF Object, Members6
    <2> QED
        BY <1>5, <2>4, <2>5, <2>8 DEF UrlOf
<1> QED
    BY <1>4, <1>5

\* A list of texts is read as it is.
LEMMA TextsRead ==
    ASSUME NEW v
    PROVE  /\ Fits7(v, Seqs(Str)) <=>
                v[1] = "list" /\ \A i \in DOMAIN v[2] : v[2][i][1] = "text"
           /\ Cleaned7(v, Seqs(Str)) = ListOf([i \in DOMAIN v[2] |-> v[2][i]])
<1> DEFINE k == Seqs(Str)
<1>1. /\ Chosen(v, k) = k /\ HasParts(k) /\ JsonTag(k) = "list"
      /\ MembersRead(v, k) = DOMAIN v[2] /\ Parts(v, k) = DOMAIN v[2]
      /\ NothingMissing(v, k) /\ \A i : PartKind(k, i) = Str
    BY DEF Seqs, Chosen, HasParts, JsonTag, MembersRead, Parts, NothingMissing, PartKind
<1>2. \A i \in DOMAIN v[2] : Cleaned6(v[2][i], Str) = v[2][i]
    BY FlatAsIs DEF Str
<1> HIDE DEF k
<1>3. Cleaned7(v, k) = ListOf([i \in DOMAIN v[2] |-> Cleaned6(v[2][i], Str)])
    <2>1. Cleaned7(v, k) = <<"list", [i \in DOMAIN v[2] |->
                IF i \in DOMAIN v[2] THEN Cleaned6(v[2][i], Str)
                ELSE IF i \in DOMAIN v[2] THEN v[2][i] ELSE DefaultOf(Str)]>>
        BY <1>1 DEF Cleaned7, CleanedBy
    <2> QED
        BY <2>1 DEF ListOf
<1>4. [i \in DOMAIN v[2] |-> Cleaned6(v[2][i], Str)] = [i \in DOMAIN v[2] |-> v[2][i]]
    BY <1>2
<1>5. Fits7(v, k) <=> v[1] = "list" /\ \A i \in DOMAIN v[2] : Fits6(v[2][i], Str)
    BY <1>1 DEF Fits7, FitsBy
<1> QED
    BY <1>3, <1>4, <1>5, TextFits DEF k

\* Nothing but the members of the shape is read.
LEMMA NoOtherMember ==
    ASSUME NEW v, NEW shape
    PROVE  DOMAIN Cleaned(v, Dto(shape))[2] \subseteq DOMAIN shape
<1>1. Known(v, Dto(shape)) \subseteq DOMAIN shape
    BY DEF Known, Dto
<1>2. DOMAIN Cleaned(v, Dto(shape))[2] = Known(v, Dto(shape))
    BY ObjectCleaned DEF Object
<1> QED
    BY <1>1, <1>2

-----------------------------------------------------------------------------
(* Entries of KYC providers *)

\* What the JSON of an entry has to be.
LEMMA EntryFits ==
    ASSUME NEW json
    PROVE  Fits(json, Dto(KycProviderJson)) <=>
              /\ json[1] = "object" /\ {"operations", "ca"} \subseteq DOMAIN json[2]
              /\ json[2].ca[1] = "text"
              /\ Given(json[2], "countryCodes") =>
                    Fits7(json[2].countryCodes, Seqs(Str))
<1> DEFINE s == KycProviderJson
<1>1. /\ DOMAIN s = {"operations", "countryCodes", "ca"}
      /\ s["operations"].mode = "needed" /\ s["operations"].kind = AnyJson
      /\ s["countryCodes"].mode = "option" /\ s["countryCodes"].kind = Seqs(Str)
      /\ s["ca"].mode = "needed" /\ s["ca"].kind = Str
    BY DEF KycProviderJson, Needed, Option
<1>2. \A v : Fits7(v, AnyJson)
    BY DEF Fits7, FitsBy, Chosen, HasParts, FitsFlat, AnyJson
<1> HIDE DEF s
<1>3. Fits(json, Dto(s)) <=>
         /\ json[1] = "object"
         /\ "operations" \in DOMAIN json[2]
         /\ "ca" \in DOMAIN json[2] /\ Fits7(json[2].ca, Str)
         /\ Given(json[2], "countryCodes") => Fits7(json[2].countryCodes, Seqs(Str))
    BY <1>1, <1>2, ObjectFits DEF Absent, Given
<1> QED
    BY <1>3, TextFits DEF s

\* The operations and the countries of such an entry are read as they are.
LEMMA EntryMembers ==
    ASSUME NEW json, Fits(json, Dto(KycProviderJson))
    PROVE  /\ EntryRead(json).operations = json[2].operations
           /\ "countryCodes" \in DOMAIN EntryRead(json) <=> Given(json[2], "countryCodes")
           /\ Given(json[2], "countryCodes") =>
                EntryRead(json).countryCodes = ListOf([i \in DOMAIN json[2].countryCodes[2] |->
                                                    json[2].countryCodes[2][i]])
<1> DEFINE s == KycProviderJson
<1>1. /\ "operations" \in DOMAIN s /\ "countryCodes" \in DOMAIN s
      /\ s["operations"].mode = "needed" /\ s["operations"].kind = AnyJson
      /\ s["countryCodes"].mode = "option" /\ s["countryCodes"].kind = Seqs(Str)
    BY DEF KycProviderJson, Needed, Option
<1>2. \A v : Cleaned7(v, AnyJson) = v
    BY FlatAsIs DEF AnyJson
<1> HIDE DEF s
<1>3. EntryRead(json)["operations"] = json[2]["operations"]
    BY <1>1, <1>2, NeededMember DEF EntryRead, s
<1>4. /\ "countryCodes" \in DOMAIN EntryRead(json) <=> Given(json[2], "countryCodes")
      /\ Given(json[2], "countryCodes") =>
           EntryRead(json)["countryCodes"] = Cleaned7(json[2]["countryCodes"], Seqs(Str))
    BY <1>1, OptionMember DEF EntryRead, s
<1> QED
    BY <1>3, <1>4, TextsRead

\* The operations of an entry are read endpoint by endpoint.
LEMMA OperationsFit ==
    ASSUME NEW json
    PROVE  Fits(json, Dto(KycOperations)) <=>
              /\ json[1] = "object"
              /\ \A name \in KycOperation : Given(json[2], name) =>
                    LET endpoint == json[2][name] IN
                    \/ endpoint[1] = "text"
                    \/ /\ endpoint[1] = "object" /\ "url" \in DOMAIN endpoint[2]
                       /\ endpoint[2].url[1] = "text"
<1> DEFINE s == KycOperations
<1>1. DOMAIN s = KycOperation
      /\ \A name \in KycOperation : s[name].mode = "option" /\ s[name].kind = EndpointUrl
    BY DEF KycOperations, Option
<1> HIDE DEF s
<1>2. Fits(json, Dto(s)) <=>
         /\ json[1] = "object"
         /\ \A name \in KycOperation : Given(json[2], name) => Fits7(json[2][name], EndpointUrl)
    BY <1>1, ObjectFits DEF Absent, Given
<1> QED
    BY <1>2, EndpointRead DEF s

\* The client reads exactly the entries the reference definition says it can.
LEMMA Readable ==
    ASSUME NEW json
    PROVE  KycReadable(json) <=> WellFormed(json)
<1> DEFINE codes == json[2].countryCodes
<1>1. CASE ~Fits(json, Dto(KycProviderJson))
    <2>1. ~KycReadable(json)
        BY <1>1 DEF KycReadable
    <2>2. ASSUME WellFormed(json) PROVE Fits(json, Dto(KycProviderJson))
        <3>1. Given(json[2], "countryCodes") => Fits7(codes, Seqs(Str))
            BY <2>2, TextsRead DEF WellFormed
        <3>2. /\ json[1] = "object" /\ {"operations", "ca"} \subseteq DOMAIN json[2]
              /\ json[2].ca[1] = "text"
            BY <2>2 DEF WellFormed
        <3> QED
            BY <3>1, <3>2, EntryFits
    <2> QED
        BY <1>1, <2>1, <2>2
<1>2. CASE Fits(json, Dto(KycProviderJson))
    <2>1. /\ json[1] = "object" /\ {"operations", "ca"} \subseteq DOMAIN json[2]
          /\ json[2].ca[1] = "text"
          /\ Given(json[2], "countryCodes") =>
                 codes[1] = "list" /\ \A i \in DOMAIN codes[2] : codes[2][i][1] = "text"
        BY <1>2, EntryFits, TextsRead
    <2>2. CountriesRead(EntryRead(json)) <=>
             (Given(json[2], "countryCodes") =>
                \A i \in DOMAIN codes[2] : codes[2][i][2][1] # "")
        <3>1. CASE ~Given(json[2], "countryCodes")
            BY <1>2, <3>1, EntryMembers DEF CountriesRead
        <3>2. CASE Given(json[2], "countryCodes")
            <4>1. EntryRead(json).countryCodes
                    = ListOf([i \in DOMAIN codes[2] |-> codes[2][i]])
                  /\ "countryCodes" \in DOMAIN EntryRead(json)
                BY <1>2, <3>2, EntryMembers
            <4>2. Unwrapped(EntryRead(json).countryCodes)
                    = [i \in DOMAIN codes[2] |-> codes[2][i][2]]
                BY <4>1 DEF Unwrapped, ListOf
            <4> HIDE DEF codes
            <4> QED
                BY <3>2, <4>1, <4>2 DEF CountriesRead, CodesRead, IsBlank
        <3> QED
            BY <3>1, <3>2
    <2>3. Fits(EntryRead(json).operations, Dto(KycOperations)) <=>
              Fits(json[2].operations, Dto(KycOperations))
        BY <1>2, EntryMembers
    <2>4. KycReadable(json) <=>
             /\ Fits(json[2].operations, Dto(KycOperations))
             /\ Given(json[2], "countryCodes") =>
                  \A i \in DOMAIN codes[2] : codes[2][i][2][1] # ""
        BY <1>2, <2>2, <2>3 DEF KycReadable
    <2> QED
        <3> DEFINE operations == json[2].operations
        <3>1. Fits(operations, Dto(KycOperations)) <=>
                 /\ operations[1] = "object"
                 /\ \A name \in KycOperation : Given(operations[2], name) =>
                       LET endpoint == operations[2][name] IN
                       \/ endpoint[1] = "text"
                       \/ /\ endpoint[1] = "object" /\ "url" \in DOMAIN endpoint[2]
                          /\ endpoint[2].url[1] = "text"
            BY OperationsFit
        <3>2. WellFormed(json) <=>
                 /\ Fits(operations, Dto(KycOperations))
                 /\ Given(json[2], "countryCodes") =>
                      \A i \in DOMAIN codes[2] : codes[2][i][2][1] # ""
            BY <2>1, <3>1 DEF WellFormed
        <3> QED
            BY <2>4, <3>2
<1> QED
    BY <1>1, <1>2

\* The URL that published operations give for one of them.
UrlGiven(operations, name) ==
    LET endpoint == operations[2][name]
    IN  IF endpoint[1] = "text" THEN endpoint[2] ELSE endpoint[2].url[2]

\* What is kept of such an entry: its operations and, if it has some, its countries.
LEMMA InfoMembers ==
    ASSUME NEW id, NEW urls, NEW read
    PROVE  LET info == ProviderInfo(id, urls, read)
           IN  /\ info.operations = urls
               /\ "countryCodes" \in DOMAIN info <=> "countryCodes" \in DOMAIN read
               /\ "countryCodes" \in DOMAIN read =>
                    info.countryCodes = CanonicalCodes(Unwrapped(read.countryCodes))
<1> DEFINE info == ProviderInfo(id, urls, read)
<1>1. DOMAIN info = {"id", "ca", "operations"} \cup (DOMAIN read \cap {"countryCodes"})
    BY DEF ProviderInfo
<1>2. info["operations"] = urls
    BY DEF ProviderInfo
<1>3. "countryCodes" \in DOMAIN read =>
        info["countryCodes"] = CanonicalCodes(Unwrapped(read.countryCodes))
    BY DEF ProviderInfo
<1> HIDE DEF info
<1>4. "countryCodes" \in DOMAIN info <=> "countryCodes" \in DOMAIN read
    BY <1>1
<1> QED
    BY <1>2, <1>3, <1>4 DEF info

\* The countries of the provider of such an entry are those listed, as codes.
LEMMA ReadCountries ==
    ASSUME NEW id, NEW json, KycReadable(json)
    PROVE  LET info == KycInfo(id, json)
               served == json[2].countryCodes[2]
           IN  /\ "countryCodes" \in DOMAIN info <=> Given(json[2], "countryCodes")
               /\ Given(json[2], "countryCodes") =>
                    info.countryCodes = [i \in DOMAIN served |-> <<served[i][2][1], "upper">>]
<1> DEFINE info == KycInfo(id, json)
           served == json[2].countryCodes[2]
           read == EntryRead(json)
           ops == Cleaned(read.operations, Dto(KycOperations))[2]
           urls == [name \in DOMAIN ops |-> UrlOf(ops[name])]
<1>1. Fits(json, Dto(KycProviderJson))
    BY DEF KycReadable
<1>2. info = ProviderInfo(id, urls, read)
    BY DEF KycInfo
<1> HIDE DEF urls, read, info
<1>3. /\ "countryCodes" \in DOMAIN info <=> "countryCodes" \in DOMAIN read
      /\ "countryCodes" \in DOMAIN read =>
            info.countryCodes = CanonicalCodes(Unwrapped(read.countryCodes))
    BY <1>2, InfoMembers
<1>4. /\ "countryCodes" \in DOMAIN read <=> Given(json[2], "countryCodes")
      /\ Given(json[2], "countryCodes") =>
            read.countryCodes = ListOf([i \in DOMAIN served |-> served[i]])
    BY <1>1, EntryMembers DEF read
<1> HIDE DEF served
<1>5. ASSUME Given(json[2], "countryCodes")
      PROVE  info.countryCodes = [i \in DOMAIN served |-> <<served[i][2][1], "upper">>]
    <2>1. Unwrapped(read.countryCodes) = [i \in DOMAIN served |-> served[i][2]]
        BY <1>4, <1>5 DEF Unwrapped, ListOf
    <2>2. CanonicalCodes(Unwrapped(read.countryCodes))
            = [i \in DOMAIN served |-> <<served[i][2][1], "upper">>]
        BY <2>1 DEF CanonicalCodes, CountryCode
    <2> QED
        BY <1>3, <1>4, <1>5, <2>2
<1>6. "countryCodes" \in DOMAIN info <=> Given(json[2], "countryCodes")
    BY <1>3, <1>4
<1> QED
    BY <1>5, <1>6 DEF info, served

\* Its operations are of those there are, and have the URLs the entry gives.
LEMMA ReadUrls ==
    ASSUME NEW id, NEW json, KycReadable(json)
    PROVE  /\ DOMAIN KycInfo(id, json).operations \subseteq KycOperation
           /\ \A name \in DOMAIN KycInfo(id, json).operations :
                  KycInfo(id, json).operations[name] = UrlGiven(json[2].operations, name)
<1> DEFINE listed == json[2].operations[2]
           read == EntryRead(json)
           ops == Cleaned(json[2].operations, Dto(KycOperations))[2]
           urls == [name \in DOMAIN ops |-> UrlOf(ops[name])]
           s == KycOperations
<1>1. Fits(json, Dto(KycProviderJson)) /\ read.operations = json[2].operations
    BY EntryMembers DEF KycReadable
<1>2. KycInfo(id, json) = ProviderInfo(id, urls, read)
    BY <1>1 DEF KycInfo
<1>3. Fits(json[2].operations, Dto(KycOperations))
    BY <1>1 DEF KycReadable
<1>4. DOMAIN s = KycOperation
      /\ \A name \in KycOperation : s[name].mode = "option" /\ s[name].kind = EndpointUrl
    BY DEF KycOperations, Option
<1>5. DOMAIN urls = DOMAIN ops /\ \A name \in DOMAIN ops : urls[name] = UrlOf(ops[name])
    OBVIOUS
<1> HIDE DEF s
<1>6. DOMAIN ops \subseteq KycOperation
    BY <1>4, NoOtherMember DEF s
<1>7. \A name \in KycOperation :
         /\ name \in DOMAIN ops <=> Given(listed, name)
         /\ Given(listed, name) => ops[name] = Cleaned7(listed[name], EndpointUrl)
    BY <1>4, OptionMember DEF s
<1> HIDE DEF urls, ops, read
<1>8. KycInfo(id, json).operations = urls
    BY <1>2, InfoMembers
<1>9. ASSUME NEW name \in DOMAIN ops
      PROVE  UrlOf(ops[name]) = UrlGiven(json[2].operations, name)
    <2>1. name \in KycOperation /\ Given(listed, name)
        BY <1>6, <1>7
    <2>2. Fits7(listed[name], EndpointUrl)
        BY <1>3, <2>1, EndpointRead, OperationsFit
    <2>3. ops[name] = Cleaned7(listed[name], EndpointUrl)
        BY <1>7, <2>1
    <2> QED
        BY <2>2, <2>3, EndpointRead DEF UrlGiven
<1> QED
    BY <1>5, <1>6, <1>8, <1>9

\* An entry is listed for those who ask for countries it serves, however it
\* writes them.
LEMMA MatchesMeans ==
    ASSUME NEW id, NEW json, NEW requested,
           \A code \in Members(requested) : code = <<code[1], "upper">>
    PROVE  KycMatches(id, json, requested) <=>
              WellFormed(json) /\ \A code \in Members(requested) : ServesCountry(json, code[1])
<1>1. CASE ~KycReadable(json)
    BY <1>1, Readable DEF KycMatches
<1>2. CASE KycReadable(json)
    <2> DEFINE info == KycInfo(id, json)
               served == json[2].countryCodes[2]
    <2>1. /\ "countryCodes" \in DOMAIN info <=> Given(json[2], "countryCodes")
          /\ Given(json[2], "countryCodes") =>
               info.countryCodes = [i \in DOMAIN served |-> <<served[i][2][1], "upper">>]
        BY <1>2, ReadCountries
    <2>2. KycMatches(id, json, requested) <=> ServesAll(info, requested)
        BY <1>2 DEF KycMatches
    <2>3. CASE ~Given(json[2], "countryCodes")
        BY <1>2, <2>1, <2>2, <2>3, Readable DEF ServesAll, ServesCountry
    <2>4. CASE Given(json[2], "countryCodes")
        <3>1. Members(info.countryCodes) = {<<served[i][2][1], "upper">> : i \in DOMAIN served}
            BY <2>1, <2>4 DEF Members
        <3>2. ASSUME NEW code \in Members(requested)
              PROVE  code \in Members(info.countryCodes) <=> ServesCountry(json, code[1])
            <4>1. code = <<code[1], "upper">>
                OBVIOUS
            <4>2. ServesCountry(json, code[1]) <=>
                     \E i \in DOMAIN served : served[i][2][1] = code[1]
                BY <2>4 DEF ServesCountry
            <4> HIDE DEF info, served
            <4> QED
                BY <3>1, <4>1, <4>2
        <3> HIDE DEF info, served
        <3> QED
            BY <1>2, <2>1, <2>2, <2>4, <3>2, Readable DEF ServesAll
    <2> QED
        BY <2>3, <2>4
<1> QED
    BY <1>1, <1>2

\* The fields verify_entry covers are those an entry has to be genuine in.
LEMMA SignedIsGenuine == ASSUME NEW entry PROVE EntrySigned(entry) <=> Genuine(entry)
BY DEF EntrySigned, Genuine, SignedFields

-----------------------------------------------------------------------------
(* Providers go out to the host and come back *)

\* An object inside another is read member by member too.
LEMMA PartCleaned ==
    ASSUME NEW v, NEW shape
    PROVE  Cleaned6(v, Dto(shape)) = Object([name \in Known(v, Dto(shape)) |->
               IF name \in DOMAIN v[2] THEN Cleaned5(v[2][name], shape[name].kind)
               ELSE DefaultOf(shape[name].kind)])
<1> DEFINE d == Dto(shape)
<1>1. d[1] = "object" /\ d[2] = shape
    BY DEF Dto
<1>2. Unknown(v, d) = {} /\ Known(v, d) \subseteq DOMAIN shape
    BY <1>1 DEF Unknown, Known
<1> HIDE DEF d
<1>3. Cleaned6(v, d) = Object([name \in Unknown(v, d) \cup Known(v, d) |->
                IF name \notin DOMAIN d[2] THEN v[2][name]
                ELSE IF name \in DOMAIN v[2] THEN Cleaned5(v[2][name], d[2][name].kind)
                ELSE DefaultOf(d[2][name].kind)])
    <2>1. Cleaned6(v, d) = Object(Members5(v, d))
        BY <1>1, InnerRead
    <2> QED
        BY <2>1 DEF Members5
<1>4. [name \in Unknown(v, d) \cup Known(v, d) |->
                IF name \notin DOMAIN d[2] THEN v[2][name]
                ELSE IF name \in DOMAIN v[2] THEN Cleaned5(v[2][name], d[2][name].kind)
                ELSE DefaultOf(d[2][name].kind)] =
      [name \in Known(v, d) |->
               IF name \in DOMAIN v[2] THEN Cleaned5(v[2][name], shape[name].kind)
               ELSE DefaultOf(shape[name].kind)]
    BY <1>1, <1>2
<1> QED
    BY <1>3, <1>4 DEF d

\* An endpoint that went out to a host comes back as it was.
LEMMA EndpointBack ==
    ASSUME NEW url, NEW auth
    PROVE  LET back == Cleaned6(Object([url |-> Text(url), auth |-> Text(auth)]), EndpointDto)[2]
           IN  back.url = Text(url) /\ back.auth = Text(auth)
<1> DEFINE s == [url |-> Needed(Str), auth |-> Needed(AuthDto)]
           v == Object([url |-> Text(url), auth |-> Text(auth)])
<1>1. /\ v[2]["url"] = Text(url) /\ v[2]["auth"] = Text(auth) /\ DOMAIN v[2] = {"url", "auth"}
      /\ DOMAIN s = {"url", "auth"} /\ s["url"].kind = Str /\ s["auth"].kind = AuthDto
      /\ s["url"].mode = "needed" /\ s["auth"].mode = "needed"
    BY DEF Object, Needed
<1>2. Cleaned5(Text(url), Str) = Text(url) /\ Cleaned5(Text(auth), AuthDto) = Text(auth)
    BY FlatAsIs DEF Str, AuthDto, OneOf
<1>3. EndpointDto = Dto(s)
    BY DEF EndpointDto
<1> HIDE DEF s, v
<1>4. Known(v, Dto(s)) = {"url", "auth"}
    BY <1>1 DEF Known, Absent, Dto
<1>5. Cleaned6(v, EndpointDto)[2] = [name \in {"url", "auth"} |->
               IF name \in DOMAIN v[2] THEN Cleaned5(v[2][name], s[name].kind)
               ELSE DefaultOf(s[name].kind)]
    BY <1>3, <1>4, PartCleaned DEF Object
<1>6. /\ Cleaned6(v, EndpointDto)[2].url = Text(url)
      /\ Cleaned6(v, EndpointDto)[2].auth = Text(auth)
    BY <1>1, <1>2, <1>5
<1> QED
    BY <1>6 DEF v

\* A provider of asset movement comes back from the host with the endpoints it
\* had.
LEMMA ProviderBack ==
    ASSUME NEW info, NEW provider, provider = ParseProvider(EncodeProvider(info)),
           provider # None
    PROVE  /\ DOMAIN provider.operations = DOMAIN info.operations
           /\ \A op \in DOMAIN info.operations :
                /\ provider.operations[op].url = info.operations[op].url
                /\ provider.operations[op].auth = info.operations[op].auth
<1> DEFINE json == EncodeProvider(info)
           s == ProviderDto
           dto == Parse(json, s)
           out == [op \in DOMAIN info.operations |->
                     Object([url |-> Text(info.operations[op].url),
                             auth |-> Text(info.operations[op].auth)])]
<1>1. dto # None
    BY DEF ParseProvider
<1>8. provider.operations = [op \in DOMAIN dto.operations[2] |->
              [url |-> dto.operations[2][op][2].url[2],
               auth |-> dto.operations[2][op][2].auth[2]]]
    <2> DEFINE account == IF "account" \in DOMAIN dto THEN dto.account[2] ELSE None
               read == [op \in DOMAIN dto.operations[2] |->
                          [url |-> dto.operations[2][op][2].url[2],
                           auth |-> dto.operations[2][op][2].auth[2]]]
    <2>1. provider = [id |-> dto.id[2], account |-> account, operations |-> read]
        BY <1>1 DEF ParseProvider
    <2> HIDE DEF dto, account, read
    <2>2. provider.operations = read
        BY <2>1
    <2> QED
        BY <2>2 DEF read
<1>2. Fits(json, Dto(s)) /\ dto = Cleaned(json, Dto(s))[2]
    BY <1>1 DEF Parse
<1>3. json[2]["operations"] = Object(out)
    BY DEF EncodeProvider, Object
<1>4. s["operations"].mode = "needed" /\ s["operations"].kind = Map(EndpointDto)
      /\ "operations" \in DOMAIN s
    BY DEF ProviderDto, Needed
<1> HIDE DEF out, s, json
<1>5. dto["operations"] = Cleaned7(Object(out), Map(EndpointDto))
    BY <1>2, <1>3, <1>4, NeededMember
<1>6. Cleaned7(Object(out), Map(EndpointDto))
        = Object([op \in DOMAIN out |-> Cleaned6(out[op], EndpointDto)])
    <2> DEFINE k == Map(EndpointDto)
               v == Object(out)
    <2>1. v[2] = out
        BY DEF Object
    <2>2. /\ Chosen(v, k) = k /\ HasParts(k) /\ JsonTag(k) = "object"
          /\ MembersRead(v, k) = DOMAIN out /\ Parts(v, k) = DOMAIN out
          /\ \A op : PartKind(k, op) = EndpointDto
        BY <2>1 DEF Map, Chosen, HasParts, JsonTag, MembersRead, Parts, PartKind
    <2> HIDE DEF k, v
    <2>3. Cleaned7(v, k) = <<"object", [op \in DOMAIN out |->
                IF op \in DOMAIN out THEN Cleaned6(out[op], EndpointDto)
                ELSE IF op \in DOMAIN out THEN out[op] ELSE DefaultOf(EndpointDto)]>>
        BY <2>1, <2>2 DEF Cleaned7, CleanedBy
    <2>4. Cleaned7(v, k) = <<"object", [op \in DOMAIN out |-> Cleaned6(out[op], EndpointDto)]>>
        BY <2>3
    <2> QED
        BY <2>4 DEF Object, v, k
<1>7. dto.operations[2] = [op \in DOMAIN out |-> Cleaned6(out[op], EndpointDto)]
    BY <1>5, <1>6 DEF Object
<1>9. DOMAIN out = DOMAIN info.operations
    BY DEF out
<1>10. \A op \in DOMAIN info.operations :
          /\ Cleaned6(out[op], EndpointDto)[2].url = Text(info.operations[op].url)
          /\ Cleaned6(out[op], EndpointDto)[2].auth = Text(info.operations[op].auth)
    BY EndpointBack DEF out
<1> HIDE DEF dto
<1>11. DOMAIN provider.operations = DOMAIN info.operations
    BY <1>7, <1>8, <1>9
<1>12. ASSUME NEW op \in DOMAIN info.operations
      PROVE  /\ provider.operations[op].url = info.operations[op].url
             /\ provider.operations[op].auth = info.operations[op].auth
    <2>1. dto.operations[2][op] = Cleaned6(out[op], EndpointDto)
        BY <1>7, <1>9
    <2>2. provider.operations[op] = [url |-> dto.operations[2][op][2].url[2],
                                     auth |-> dto.operations[2][op][2].auth[2]]
        BY <1>7, <1>8, <1>9
    <2>3. /\ dto.operations[2][op][2].url = Text(info.operations[op].url)
          /\ dto.operations[2][op][2].auth = Text(info.operations[op].auth)
        BY <1>10, <2>1
    <2>4. \A t : Text(t)[2] = t
        BY DEF Text
    <2> QED
        BY <2>2, <2>3, <2>4
<1> QED
    BY <1>11, <1>12

\* The operations of a KYC provider come back from the host as they were.
LEMMA OperationsBack ==
    ASSUME NEW urls, DOMAIN urls \subseteq KycOperation
    PROVE  Cleaned7(EncodeOperations(urls), OperationsDto)[2]
              = [name \in DOMAIN urls |-> Text(urls[name])]
<1> DEFINE s == [name \in KycOperation |-> Option(Str)]
           v == EncodeOperations(urls)
           d == Dto(s)
<1>1. /\ v[2] = [name \in DOMAIN urls |-> Text(urls[name])]
      /\ DOMAIN v[2] = DOMAIN urls /\ \A name \in DOMAIN urls : v[2][name] = Text(urls[name])
      /\ DOMAIN s = KycOperation
      /\ \A name \in KycOperation : s[name].mode = "option" /\ s[name].kind = Str
      /\ d[1] = "object" /\ d[2] = s /\ OperationsDto = d
    BY DEF EncodeOperations, Object, Option, Dto, OperationsDto
<1>2. \A t : Text(t) # Null
    BY DEF Text, Null
<1> HIDE DEF s, v, d
<1>3. Unknown(v, d) = {} /\ Known(v, d) = DOMAIN urls
    <2>1. Unknown(v, d) = {}
        BY <1>1 DEF Unknown
    <2>2. Known(v, d) \subseteq KycOperation
        BY <1>1 DEF Known
    <2>3. ASSUME NEW name \in KycOperation
          PROVE  name \in Known(v, d) <=> name \in DOMAIN urls
        <3>1. name \in DOMAIN urls => v[2][name] # Null
            BY <1>1, <1>2
        <3>2. name \in Known(v, d) <=> ~Absent(v[2], name, d[2][name])
            BY <1>1 DEF Known
        <3> QED
            BY <1>1, <3>1, <3>2 DEF Absent
    <2> QED
        BY <2>1, <2>2, <2>3
<1>4. Cleaned7(v, d) = Object([name \in Unknown(v, d) \cup Known(v, d) |->
                IF name \notin DOMAIN d[2] THEN v[2][name]
                ELSE IF name \in DOMAIN v[2] THEN Cleaned6(v[2][name], d[2][name].kind)
                ELSE DefaultOf(d[2][name].kind)])
    <2>1. Cleaned7(v, d) = Object(Members6(v, d))
        BY <1>1, PartRead
    <2> QED
        BY <2>1 DEF Members6
<1>5. \A t : Cleaned6(t, Str) = t
    BY FlatAsIs DEF Str
<1>6. Cleaned7(v, d)[2] = [name \in DOMAIN urls |-> v[2][name]]
    BY <1>1, <1>3, <1>4, <1>5 DEF Object
<1> QED
    BY <1>1, <1>6 DEF v

\* So does the provider.
LEMMA KycProviderBack ==
    ASSUME NEW info, "operations" \in DOMAIN info, DOMAIN info.operations \subseteq KycOperation
    PROVE  KycProviderOf(EncodeKycProvider(info)).operations
              = [name \in DOMAIN info.operations |-> info.operations[name]]
<1> DEFINE json == EncodeKycProvider(info)
           s == KycProviderDto
           dto == ProviderRead(json)
           urls == info.operations
           back == [name \in DOMAIN dto.operations[2] |-> dto.operations[2][name][2]]
<1>1. json[2] = [name \in DOMAIN info |->
        CASE name \in {"id", "ca"} -> Text(info[name])
          [] name = "operations" -> EncodeOperations(info.operations)
          [] name = "countryCodes" -> ListOfTexts(info.countryCodes)]
    BY DEF EncodeKycProvider, Object
<1>2. "operations" \in DOMAIN json[2] /\ json[2]["operations"] = EncodeOperations(urls)
    BY <1>1
<1>3. s["operations"].mode = "needed" /\ s["operations"].kind = OperationsDto
      /\ "operations" \in DOMAIN s
    BY DEF KycProviderDto, Needed
<1>4. KycProviderOf(json) = ProviderInfo(dto.id[2], back, dto)
    BY DEF KycProviderOf
<1> HIDE DEF back, dto
<1>5. KycProviderOf(json)["operations"] = back
    BY <1>4 DEF ProviderInfo
<1> HIDE DEF json, s
<1>6. "operations" \in Known(json, Dto(s))
    BY <1>2, <1>3 DEF Known, Absent, Dto
<1>7. dto["operations"] = Cleaned7(EncodeOperations(urls), OperationsDto)
    BY <1>2, <1>3, <1>6, ObjectCleaned DEF dto, ProviderRead, Object, s
<1>8. dto.operations[2] = [name \in DOMAIN urls |-> Text(urls[name])]
    BY <1>7, OperationsBack
<1>9. back = [name \in DOMAIN urls |-> urls[name]]
    BY <1>8 DEF back, Text
<1> QED
    BY <1>5, <1>9 DEF json

-----------------------------------------------------------------------------
(* The steps of a session *)

\* A sequence with one element more.
LEMMA Extended ==
    ASSUME NEW s, s \in Seq(Members(s)), NEW e
    PROVE  /\ Append(s, e) \in Seq(Members(Append(s, e)))
           /\ Len(s) \in Nat /\ DOMAIN s = 1..Len(s)
           /\ Len(Append(s, e)) = Len(s) + 1
           /\ DOMAIN Append(s, e) = 1..(Len(s) + 1)
           /\ Append(s, e)[Len(s) + 1] = e
           /\ \A i \in 1..Len(s) : Append(s, e)[i] = s[i]
<1> DEFINE S == Members(s) \cup {e}
           t == Append(s, e)
<1>1. s \in Seq(S)
    BY SeqMonotonic
<1>2. /\ t \in Seq(S) /\ Len(s) \in Nat /\ Len(t) = Len(s) + 1
      /\ t[Len(s) + 1] = e /\ \A i \in 1..Len(s) : t[i] = s[i]
    BY <1>1, AppendShape
<1>3. DOMAIN s = 1..Len(s) /\ DOMAIN t = 1..Len(t) /\ t \in [1..Len(t) -> S]
    BY <1>1, <1>2, LenProperties
<1> HIDE DEF t, S
<1>4. \A i \in DOMAIN t : t[i] \in Members(t)
    BY DEF Members
<1>5. t \in [1..Len(t) -> Members(t)] /\ Len(t) \in Nat
    BY <1>2, <1>3, <1>4
<1>6. t \in Seq(Members(t))
    BY <1>5, SeqDef
<1> QED
    BY <1>2, <1>3, <1>6 DEF t

\* The empty sequence.
LEMMA EmptyMembers == <<>> \in Seq(Members(<<>>)) /\ Len(<<>>) = 0 /\ DOMAIN <<>> = {}
BY EmptySeq

\* What is read of a document are verdicts on its entries.
LEMMA VerdictsRead ==
    ASSUME NEW ids \in SUBSET Id, NEW S, NEW content \in [ids -> S]
    PROVE  Verdicts(content) \in Document /\ KycVerdicts(content) \in Document
<1>1. DOMAIN content = ids
    OBVIOUS
<1>2. \A entry : EntrySigned(entry) \in BOOLEAN
    BY DEF EntrySigned
<1>3. \A filter, info : FilterAccepts(filter, info) \in BOOLEAN
    BY DEF FilterAccepts
<1>4. \A id, json, requested : KycMatches(id, json, requested) \in BOOLEAN
    BY DEF KycMatches, ServesAll
<1>5. Verdicts(content) \in [ids -> Entry]
    BY <1>1, <1>2, <1>3 DEF Verdicts, Entry
<1>6. KycVerdicts(content) \in [ids -> Entry]
    BY <1>1, <1>2, <1>4 DEF KycVerdicts, Entry
<1> QED
    BY <1>5, <1>6 DEF Document

\* The kinds of steps of a session: a document is read, a lookup ends, one begins, a
\* provider is handed over that the host kept, and calls with their answers.
Reads(content) == Discover(content) \/ KycDiscover(content)
Leaves ==
    \/ \E listing \in [document : 1..Roots, id : Id] : Bind(listing) \/ KycBind(listing)
    \/ Leave \/ KycLeave

Asks ==
    \/ \E query \in Queries : Ask(query)
    \/ \E query \in KycQueries : KycAsk(query)

Restores ==
    \/ \E stored \in Stored : Restore(stored)
    \/ \E stored \in KycStored : KycRestore(stored)

Talks ==
    \/ CallAny
    \/ \E call \in KycCalls : KycExport(call) \/ KycComponentMethod(call)
    \/ \E operation \in DOMAIN Responses : \E r \in Responses[operation] : Answer(r)
    \/ \E operation \in DOMAIN KycResponses : \E r \in KycResponses[operation] : KycAnswer(r)
    \/ FailTransport

\* To Resolver a document that is read is a document of verdicts.
LEMMA ReadsMerge ==
    ASSUME NEW ids \in SUBSET Id, NEW S, NEW content \in [ids -> S], Reads(content)
    PROVE  \E d \in Document : ReadRoot(d)
BY VerdictsRead DEF Reads, Discover, KycDiscover

\* When a lookup ends, nothing of it stays behind.
LEMMA LeavesInit == Leaves => Init' /\ asked' = None /\ published' = <<>> /\ service' = service
BY DEF Leaves, Bind, KycBind, Leave, KycLeave, Forget, Init

\* Asking, restoring and calling leave the lookup alone.
LEMMA Silent ==
    ASSUME Asks \/ Restores \/ Talks
    PROVE  UNCHANGED <<vars, service, published>>
<1>1. CASE Asks
    BY <1>1 DEF Asks, Ask, KycAsk
<1>2. CASE Restores
    BY <1>2 DEF Restores, Restore, KycRestore, lookupVars
<1>3. CASE Talks
    <2>1. ASSUME CallAny PROVE UNCHANGED <<vars, lookupVars>>
        BY <2>1 DEF CallAny, TransferExport, ForwardingExport, RecordExport, CallMethod, Call
    <2>2. ASSUME NEW call \in KycCalls, NEW binding, Dispatch(binding, call)
          PROVE  UNCHANGED <<vars, lookupVars>>
        <3>1. \A operation, argument : KycCall(binding, operation, argument)
                 => UNCHANGED <<vars, lookupVars>>
            BY DEF KycCall
        <3>2. call[1] \in {"createVerification", "getCertificates", "getVerificationStatus"}
            BY KycCallAssumption
        <3> QED
            BY <2>2, <3>1, <3>2 DEF Dispatch, CreateVerification, GetCertificates,
                                    GetVerificationStatus
    <2>3. ASSUME NEW r, Answer(r) \/ KycAnswer(r) \/ FailTransport
          PROVE  UNCHANGED <<vars, lookupVars>>
        BY <2>3 DEF Answer, KycAnswer, FailTransport
    <2>4. UNCHANGED <<vars, lookupVars>>
        BY <1>3, <2>1, <2>2, <2>3 DEF Talks, KycExport, KycComponentMethod
    <2> QED
        BY <2>4 DEF lookupVars
<1> QED
    BY <1>1, <1>2, <1>3

\* There are no other steps than these.
LEMMA StepKinds ==
    ASSUME ClientsNext
    PROVE  \/ \E ids \in SUBSET Id : \E content \in [ids -> Content] : Discover(content)
           \/ \E ids \in SUBSET Id : \E content \in [ids -> KycContent] : KycDiscover(content)
           \/ LookUp \/ Leaves \/ Asks \/ Restores \/ Talks
BY DEF ClientsNext, MovementNext, KycNext, Leaves, Asks, Restores, Talks

\* The steps of the lookup are Resolver's.
LEMMA LookUpMerges == LookUp => Next
BY DEF LookUp, Next

\* So what Resolver's lookup keeps, every step of a session keeps.
LEMMA SessionMerges == MergeInv /\ [ClientsNext]_allVars => MergeInv'
<1> SUFFICES ASSUME MergeInv, [ClientsNext]_allVars PROVE MergeInv'
    OBVIOUS
<1>1. ASSUME NEW ids \in SUBSET Id, NEW S, NEW content \in [ids -> S], Reads(content)
      PROVE  MergeInv'
    BY <1>1, ReadsMerge, StepMerge DEF Next
<1>2. CASE LookUp
    BY <1>2, LookUpMerges, StepMerge
<1>3. CASE Leaves
    BY <1>3, LeavesInit, InitMerge, PTL
<1>4. CASE Asks \/ Restores \/ Talks
    BY <1>4, Silent, StepMerge DEF vars
<1>5. CASE UNCHANGED allVars
    BY <1>5, StepMerge DEF allVars
<1> QED
    BY <1>1, <1>2, <1>3, <1>4, <1>5, StepKinds DEF Reads

\* A call or an answer leaves the provider and the lookup as they are.
LEMMA TalksKeep ==
    ASSUME Talks
    PROVE  UNCHANGED <<lookupVars, handle, origin>> /\ (handle # None \/ UNCHANGED log)
<1>1. ASSUME NEW binding, NEW provider, NEW operation, NEW request,
             Call(binding, provider, operation, request)
      PROVE  UNCHANGED <<lookupVars, handle, origin>>
    BY <1>1 DEF Call
<1>2. ASSUME CallAny PROVE UNCHANGED <<lookupVars, handle, origin>> /\ handle # None
    BY <1>1, <1>2 DEF CallAny, TransferExport, ForwardingExport, RecordExport, CallMethod
<1>3. ASSUME NEW call \in KycCalls, NEW binding, Dispatch(binding, call)
      PROVE  UNCHANGED <<lookupVars, handle, origin>>
    <2>1. \A operation, argument : KycCall(binding, operation, argument)
             => UNCHANGED <<lookupVars, handle, origin>>
        BY DEF KycCall
    <2>2. call[1] \in {"createVerification", "getCertificates", "getVerificationStatus"}
        BY KycCallAssumption
    <2> QED
        BY <1>3, <2>1, <2>2 DEF Dispatch, CreateVerification, GetCertificates,
                                GetVerificationStatus
<1>4. ASSUME NEW call \in KycCalls, KycExport(call) \/ KycComponentMethod(call)
      PROVE  UNCHANGED <<lookupVars, handle, origin>> /\ handle # None
    BY <1>3, <1>4 DEF KycExport, KycComponentMethod
<1>5. ASSUME NEW r, Answer(r) \/ KycAnswer(r) \/ FailTransport
      PROVE  UNCHANGED <<lookupVars, handle, origin, log>>
    BY <1>5 DEF Answer, KycAnswer, FailTransport
<1> QED
    BY <1>2, <1>4, <1>5 DEF Talks

\* Who takes up a provider asked for none; what is asked of a provider changes
\* neither it nor where it came from.
LEMMA HostKeeps ==
    ASSUME LookupInv, Asks \/ Restores \/ Talks
    PROVE  /\ UNCHANGED origin
           /\ handle' = handle \/ handle = None
           /\ log' # log => handle # None
           /\ handle' # None => asked' = None
           /\ asked' # asked => asked = None
           /\ asked # None => asked' # None
           /\ asked = None => Init /\ published = <<>>
<1>1. CASE Asks
    BY <1>1 DEF Asks, Ask, KycAsk, LookupInv
<1>2. CASE Restores
    BY <1>2 DEF Restores, Restore, KycRestore, lookupVars, LookupInv
<1>3. CASE Talks
    BY <1>3, TalksKeep DEF lookupVars, LookupInv
<1> QED
    BY <1>1, <1>2, <1>3

-----------------------------------------------------------------------------
(* Between the lookups *)

\* What a document was read as lists, and the verdicts on it.
ReadAt(i) ==
    /\ published[i] \in [DOMAIN published[i] ->
                            IF service = "asset" THEN Content ELSE KycContent]
    /\ documents[i] = IF service = "asset" THEN Verdicts(published[i])
                      ELSE KycVerdicts(published[i])

\* Steps that read no document keep LookupInv.
LEMMA SameLookup ==
    ASSUME LookupInv, UNCHANGED <<service, published, documents>>,
           UNCHANGED asked \/ published = <<>>,
           (asked = None => Init /\ published = <<>>)',
           (handle # None => asked = None)', (log # <<>> => handle # None)'
    PROVE  LookupInv'
<1>1. \A i \in DOMAIN published : ReadAt(i)'
    <2>1. CASE published = <<>>
        BY <2>1, EmptyMembers
    <2>2. CASE UNCHANGED asked
        BY <2>2 DEF LookupInv, ReadAt, Verdicts, KycVerdicts, Criteria
    <2> QED
        BY <2>1, <2>2
<1> QED
    BY <1>1 DEF LookupInv, ReadAt

\* A document that is read is added with its verdicts.
LEMMA DiscoverKeeps ==
    ASSUME MergeInv, LookupInv,
           NEW ids \in SUBSET Id,
           NEW content \in [ids -> IF service = "asset" THEN Content ELSE KycContent],
           IF service = "asset" THEN Discover(content) ELSE KycDiscover(content)
    PROVE  LookupInv'
<1> DEFINE d == IF service = "asset" THEN Verdicts(content) ELSE KycVerdicts(content)
<1>1. /\ UNCHANGED <<service, asked, callVars>> /\ asked # None
      /\ documents' = Append(documents, d) /\ published' = Append(published, content)
    BY DEF Discover, KycDiscover, ReadRoot, LookupInv
<1>2. documents \in Seq(Document) /\ d \in Document
    BY VerdictsRead DEF MergeInv, IInv, TypeOK
<1>3. /\ Len(documents') = Len(documents) + 1 /\ documents'[Len(documents) + 1] = d
      /\ \A i \in 1..Len(documents) : documents'[i] = documents[i]
    BY <1>1, <1>2, AppendShape
<1>4. /\ published' \in Seq(Members(published')) /\ Len(published) \in Nat
      /\ Len(published') = Len(published) + 1 /\ Len(published) = Len(documents)
      /\ DOMAIN published = 1..Len(published) /\ DOMAIN published' = 1..(Len(published) + 1)
      /\ published'[Len(published) + 1] = content
      /\ \A i \in 1..Len(published) : published'[i] = published[i]
    BY <1>1, Extended DEF LookupInv
<1>5. \A i \in DOMAIN published' : ReadAt(i)'
    <2> SUFFICES ASSUME NEW i \in DOMAIN published' PROVE ReadAt(i)'
        OBVIOUS
    <2>1. CASE i \in 1..Len(published)
        <3>1. published'[i] = published[i] /\ documents'[i] = documents[i]
            BY <1>3, <1>4, <2>1
        <3>2. ReadAt(i)
            BY <1>4, <2>1 DEF LookupInv, ReadAt
        <3> QED
            BY <1>1, <3>1, <3>2 DEF ReadAt, Verdicts, KycVerdicts, Criteria
    <2>2. CASE i = Len(published) + 1
        <3>1. published'[i] = content /\ documents'[i] = d
            BY <1>3, <1>4, <2>2
        <3> QED
            BY <1>1, <3>1 DEF ReadAt, Verdicts, KycVerdicts, Criteria
    <2> QED
        BY <1>4, <2>1, <2>2
<1> QED
    BY <1>1, <1>3, <1>4, <1>5 DEF LookupInv, ReadAt, callVars

\* LookupInv is inductive beside MergeInv.
LEMMA SessionLookup == MergeInv /\ LookupInv /\ [ClientsNext]_allVars => LookupInv'
<1> SUFFICES ASSUME MergeInv, LookupInv, [ClientsNext]_allVars PROVE LookupInv'
    OBVIOUS
<1>1. ASSUME NEW ids \in SUBSET Id, NEW content \in [ids -> Content], Discover(content)
      PROVE  LookupInv'
    BY <1>1, DiscoverKeeps DEF Discover
<1>2. ASSUME NEW ids \in SUBSET Id, NEW content \in [ids -> KycContent], KycDiscover(content)
      PROVE  LookupInv'
    BY <1>2, DiscoverKeeps DEF KycDiscover
<1>3. CASE LookUp
    <2>1. UNCHANGED <<lookupVars, callVars, documents>> /\ asked # None
        BY <1>3 DEF LookUp, SkipRoot, AllRead, TakeEntry, NextDocument, Return
    <2> QED
        BY <2>1, SameLookup DEF lookupVars, callVars, LookupInv
<1>4. CASE Leaves
    <2>1. Init' /\ asked' = None /\ published' = <<>> /\ service' = service
        BY <1>4, LeavesInit
    <2>2. documents' = <<>> /\ Len(documents') = 0 /\ Len(published') = 0
          /\ published' \in Seq(Members(published')) /\ DOMAIN published' = {}
        BY <2>1, EmptyMembers DEF Init
    <2>3. asked # None /\ UNCHANGED log
        BY <1>4 DEF Leaves, Bind, KycBind, Leave, KycLeave, LookupInv, Init
    <2>4. log' = <<>>
        BY <2>3 DEF LookupInv
    <2> QED
        BY <2>1, <2>2, <2>4 DEF LookupInv
<1>5. CASE Asks \/ Restores \/ Talks
    <2>1. UNCHANGED <<vars, service, published>>
        BY <1>5, Silent
    <2>2. Init' <=> Init
        BY <2>1 DEF vars, Init
    <2> QED
        BY <1>5, <2>1, <2>2, HostKeeps, SameLookup DEF vars, LookupInv
<1>6. CASE UNCHANGED allVars
    <2>1. Init' <=> Init
        BY <1>6 DEF allVars, vars, Init
    <2> QED
        BY <1>6, <2>1, SameLookup DEF allVars, vars, lookupVars, callVars, LookupInv
<1> QED
    BY <1>1, <1>2, <1>3, <1>4, <1>5, <1>6, StepKinds

-----------------------------------------------------------------------------
(* What was found *)

\* Every set of numbers has a least one.
LEMMA Least ==
    ASSUME NEW S \in SUBSET Nat, S # {}
    PROVE  \E i \in S : \A j \in S : i <= j
<1>1. IsWellFoundedOn(OpToRel(<, Nat), Nat)
    BY NatLessThanWellFounded
<1>2. PICK i \in S : \A j \in S : <<j, i>> \notin OpToRel(<, Nat)
    BY <1>1, WFMin
<1>3. \A j \in S : ~(j < i)
    BY <1>2 DEF OpToRel
<1> QED
    BY <1>3

\* The document that counts for an id is the first that has it.
LEMMA WinnerRanks ==
    ASSUME NEW id, Ranks(id) # {}
    PROVE  Winner(id) \in Ranks(id) /\ \A j \in Ranks(id) : Winner(id) <= j
<1>1. Ranks(id) \in SUBSET Nat
    BY DEF Ranks
<1>2. \E i \in Ranks(id) : \A j \in Ranks(id) : i <= j
    BY <1>1, Least
<1> QED
    BY <1>2 DEF Winner

\* What lookup lists is, in the document it names, signed as it has to be, and
\* what was asked for.
LEMMA PlacedEntry ==
    ASSUME LookupInv, NEW id
    PROVE  /\ Ranks(id) = {i \in DOMAIN published : id \in DOMAIN published[i]}
           /\ Ranks(id) # {} =>
                LET entry == published[Winner(id)][id] IN
                /\ Winner(id) \in DOMAIN published /\ id \in DOMAIN published[Winner(id)]
                /\ entry \in IF service = "asset" THEN Content ELSE KycContent
                /\ Listed(id) <=>
                     /\ EntrySigned(entry)
                     /\ IF service = "asset" THEN FilterAccepts(Criteria, Info(id, entry))
                        ELSE KycMatches(id, entry.json, asked.countries)
<1>1. DOMAIN published = 1..Len(documents)
    BY LenProperties DEF LookupInv
<1>2. \A i \in DOMAIN published : ReadAt(i)
    BY DEF LookupInv, ReadAt
<1>3. \A i \in DOMAIN published : DOMAIN documents[i] = DOMAIN published[i]
    BY <1>2 DEF ReadAt, Verdicts, KycVerdicts
<1>4. Ranks(id) = {i \in DOMAIN published : id \in DOMAIN published[i]}
    BY <1>1, <1>3 DEF Ranks
<1>5. ASSUME Ranks(id) # {}
      PROVE  LET entry == published[Winner(id)][id] IN
                /\ Winner(id) \in DOMAIN published /\ id \in DOMAIN published[Winner(id)]
                /\ entry \in IF service = "asset" THEN Content ELSE KycContent
                /\ Listed(id) <=>
                     /\ EntrySigned(entry)
                     /\ IF service = "asset" THEN FilterAccepts(Criteria, Info(id, entry))
                        ELSE KycMatches(id, entry.json, asked.countries)
    <2> DEFINE w == Winner(id)
               entry == published[w][id]
    <2>1. w \in DOMAIN published /\ id \in DOMAIN published[w]
        BY <1>4, <1>5, WinnerRanks
    <2>2. Listed(id) <=> documents[w][id].signatureOk /\ documents[w][id].matches
        BY <1>5 DEF Listed
    <2> HIDE DEF w
    <2>3. ReadAt(w)
        BY <1>2, <2>1
    <2>4. entry \in IF service = "asset" THEN Content ELSE KycContent
        BY <2>1, <2>3 DEF ReadAt
    <2>5. documents[w][id] =
             [signatureOk |-> EntrySigned(entry),
              matches |-> IF service = "asset" THEN FilterAccepts(Criteria, Info(id, entry))
                          ELSE KycMatches(id, entry.json, asked.countries)]
        BY <2>1, <2>3 DEF ReadAt, Verdicts, KycVerdicts
    <2>6. Listed(id) <=>
             /\ EntrySigned(entry)
             /\ IF service = "asset" THEN FilterAccepts(Criteria, Info(id, entry))
                ELSE KycMatches(id, entry.json, asked.countries)
        BY <2>2, <2>5
    <2> QED
        BY <2>1, <2>4, <2>6 DEF w
<1> QED
    BY <1>4, <1>5

\* A listing names the highest root's entry, which is genuine and what was
\* asked for.
LEMMA FoundEntry ==
    ASSUME MergeInv, LookupInv, NEW i \in DOMAIN providers
    PROVE  LET l == providers[i]
               entry == published[l.document][l.id]
           IN  /\ l.id \in Id /\ Ranks(l.id) # {} /\ l.document = Winner(l.id)
               /\ l = [document |-> Winner(l.id), id |-> l.id] /\ Listed(l.id)
               /\ entry \in IF service = "asset" THEN Content ELSE KycContent
               /\ Genuine(entry)
               /\ service = "kyc" => KycMatches(l.id, entry.json, asked.countries)
<1>1. i \in 1..Len(providers) /\ providers[i].id \in Id
    <2>1. providers \in Seq(Listing)
        BY DEF MergeInv, IInv, TypeOK
    <2>2. i \in 1..Len(providers)
        BY <2>1, LenProperties
    <2>3. providers[i] \in Listing
        BY <2>1, <2>2, ElementOfSeq
    <2> QED
        BY <2>2, <2>3 DEF Listing
<1>2. providers[i].id \in DOMAIN Placed /\ providers[i] = Placed[providers[i].id]
    BY <1>1 DEF MergeInv
<1>3. providers[i] = [document |-> Winner(providers[i].id), id |-> providers[i].id]
    BY <1>2 DEF Placed
<1>4. Listed(providers[i].id) /\ Ranks(providers[i].id) # {}
    BY <1>2 DEF Placed, Listed
<1>5. providers[i].document = Winner(providers[i].id)
    BY <1>3
<1> QED
    BY <1>1, <1>3, <1>4, <1>5, PlacedEntry, SignedIsGenuine

\* No countries are no codes.
LEMMA Unwrapping == Unwrapped(ListOf(<<>>)) = <<>> /\ CanonicalCodes(<<>>) = <<>>
BY DEF Unwrapped, ListOf, CanonicalCodes

\* AskedInv is inductive.
LEMMA SessionAsked == LookupInv /\ AskedInv /\ [ClientsNext]_allVars => AskedInv'
<1> SUFFICES ASSUME LookupInv, AskedInv, [ClientsNext]_allVars PROVE AskedInv'
    OBVIOUS
<1>1. ASSUME NEW query \in KycQueries, KycAsk(query) PROVE AskedInv'
    <2> DEFINE codes == CanonicalCodes(Unwrapped(query.countries))
    <2>1. CASE asked' = asked
        BY <1>1, <2>1 DEF KycAsk, AskedInv
    <2>2. CASE asked' = [query EXCEPT !.countries = codes]
        <3>1. DOMAIN query = {"goal", "countries"}
              /\ (query.goal = "countries" => query.countries = ListOf(<<>>))
            BY QueryAssumption
        <3>2. \A code \in Members(codes) : code = <<code[1], "upper">>
            BY DEF Members, CanonicalCodes, CountryCode
        <3>3. query.goal = "countries" => codes = <<>>
            BY <3>1, Unwrapping
        <3> HIDE DEF codes
        <3>4. asked'.goal = query.goal /\ asked'.countries = codes
            BY <2>2, <3>1
        <3> QED
            BY <3>2, <3>3, <3>4 DEF AskedInv
    <2> QED
        BY <1>1, <2>1, <2>2 DEF KycAsk
<1>2. ASSUME NEW query \in Queries, Ask(query) PROVE AskedInv'
    BY <1>2 DEF Ask, AskedInv
<1>3. CASE Leaves
    BY <1>3, LeavesInit DEF AskedInv
<1>4. CASE UNCHANGED <<service, asked>>
    BY <1>4 DEF AskedInv
<1>5. CASE Restores \/ Talks
    <2>1. UNCHANGED service
        BY <1>5, Silent
    <2>2. CASE Restores
        BY <1>4, <2>1, <2>2 DEF Restores, Restore, KycRestore, lookupVars
    <2>3. CASE Talks
        BY <1>4, <2>1, <2>3, TalksKeep DEF lookupVars
    <2> QED
        BY <1>5, <2>2, <2>3
<1>6. CASE LookUp \/ UNCHANGED allVars
    BY <1>4, <1>6 DEF LookUp, allVars, lookupVars
<1>7. ASSUME NEW content, Discover(content) \/ KycDiscover(content) PROVE AskedInv'
    BY <1>4, <1>7 DEF Discover, KycDiscover
<1> QED
    BY <1>1, <1>2, <1>3, <1>5, <1>6, <1>7, StepKinds DEF Asks

-----------------------------------------------------------------------------
(* What the host holds *)

\* The host gets a genuine entry, and no call was made before.
LEMMA BindKeeps ==
    ASSUME MergeInv, LookupInv, NEW listing, Bind(listing) \/ KycBind(listing)
    PROVE  HandleInv' /\ log = <<>> /\ log' = log /\ Genuine(origin.entry)'
<1>1. log = <<>> /\ log' = log /\ service' = service
    BY DEF Bind, KycBind, Forget, LookupInv, Init
<1>2. PICK i \in DOMAIN providers : listing = providers[i]
    BY DEF Bind, KycBind, Offered, Filtered, Searched
<1> DEFINE entry == published[listing.document][listing.id]
<1>3. /\ listing.id \in Id /\ Genuine(entry)
      /\ entry \in IF service = "asset" THEN Content ELSE KycContent
      /\ service = "kyc" => KycReadable(entry.json)
    BY <1>2, FoundEntry DEF KycMatches
<1>4. origin' = [id |-> listing.id, entry |-> entry]
    BY DEF Bind, KycBind
<1>5. CASE Bind(listing)
    <2>1. service = "asset" /\ handle' = EncodeProvider(Info(listing.id, entry))
        BY <1>5 DEF Bind, InfoOf
    <2> HIDE DEF entry
    <2> QED
        BY <1>1, <1>3, <1>4, <2>1 DEF HandleInv
<1>6. CASE KycBind(listing)
    <2>1. service = "kyc" /\ handle' = EncodeKycProvider(KycInfo(listing.id, entry.json))
        BY <1>6 DEF KycBind, KycInfoOf
    <2> HIDE DEF entry
    <2> QED
        BY <1>1, <1>3, <1>4, <2>1 DEF HandleInv
<1> QED
    BY <1>1, <1>5, <1>6 DEF HandleInv

\* What came of an entry is held.
LEMMA HandleThere == HandleInv /\ origin # None => handle # None
<1> SUFFICES ASSUME HandleInv, origin # None PROVE handle # None
    OBVIOUS
<1> QED
    BY NoneAssumption DEF HandleInv

\* HandleInv is inductive beside MergeInv and LookupInv.
LEMMA SessionHandle ==
    MergeInv /\ LookupInv /\ HandleInv /\ [ClientsNext]_allVars => HandleInv'
<1> SUFFICES ASSUME MergeInv, LookupInv, HandleInv, [ClientsNext]_allVars PROVE HandleInv'
    OBVIOUS
<1>1. CASE UNCHANGED <<service, handle, origin>>
    BY <1>1 DEF HandleInv
<1>2. CASE Leaves
    <2>1. CASE Leave \/ KycLeave
        BY <1>1, <2>1 DEF Leave, KycLeave, Forget
    <2> QED
        BY <1>2, <2>1, BindKeeps DEF Leaves
<1>3. CASE Asks \/ Restores \/ Talks
    <2>1. UNCHANGED <<service, origin>> /\ (handle' = handle \/ handle = None)
        BY <1>3, Silent, HostKeeps
    <2>2. CASE handle = None
        BY <2>1, <2>2, HandleThere DEF HandleInv
    <2> QED
        BY <1>1, <2>1, <2>2
<1>4. CASE LookUp \/ UNCHANGED allVars
    BY <1>1, <1>4 DEF LookUp, allVars, lookupVars, callVars
<1>5. ASSUME NEW content, Discover(content) \/ KycDiscover(content) PROVE HandleInv'
    BY <1>1, <1>5 DEF Discover, KycDiscover, callVars
<1> QED
    BY <1>2, <1>3, <1>4, <1>5, StepKinds

-----------------------------------------------------------------------------
(* What is sent *)

\* Calls that are sent: of asset movement, and of a KYC provider.
SendsAsset(call) ==
    LET provider == ParseProvider(handle) IN
    /\ service = "asset"
    /\ Refusal(provider, call[1], Requests[call]) = None
    /\ log' = Append(log, Message(call[1], provider.operations[call[1]], Requests[call]))

SendsKyc(binding, operation, argument) ==
    LET provider == KycProviderOf(handle) IN
    /\ service = "kyc" /\ KycRefusal(provider, operation) = None
    /\ operation = "createVerification" => CountriesError(argument.countries) = None
    /\ operation \in {"createVerification", "getCertificates", "getVerificationStatus"}
    /\ log' = Append(log, KycMessage(binding, provider, operation, argument))

\* What a call or an answer adds to the log.
LEMMA Sends ==
    ASSUME Talks
    PROVE  \/ UNCHANGED log
           \/ \E call \in Calls : SendsAsset(call)
           \/ \E binding, operation, argument : SendsKyc(binding, operation, argument)
<1>1. ASSUME CallAny PROVE UNCHANGED log \/ \E call \in Calls : SendsAsset(call)
    <2>1. ASSUME NEW call \in Calls, NEW binding,
                 Call(binding, ParseProvider(handle), call[1], Requests[call])
          PROVE  UNCHANGED log \/ (service = "asset" => SendsAsset(call))
        BY <2>1 DEF Call, SendsAsset
    <2>2. service = "asset"
        BY <1>1 DEF CallAny
    <2>3. PICK call \in Calls : \E binding \in {"p1", "p2"} :
                Call(binding, ParseProvider(handle), call[1], Requests[call])
        BY <1>1 DEF CallAny, TransferExport, ForwardingExport, RecordExport, CallMethod
    <2> QED
        BY <2>1, <2>2, <2>3
<1>2. ASSUME NEW call \in KycCalls, NEW binding, Dispatch(binding, call), service = "kyc"
      PROVE  UNCHANGED log
             \/ \E operation, argument : SendsKyc(binding, operation, argument)
    <2>1. ASSUME NEW operation, NEW argument, KycCall(binding, operation, argument),
                 operation = "createVerification" => CountriesError(argument.countries) = None
                                                     \/ ProviderError(handle) # None,
                 operation \in {"createVerification", "getCertificates",
                                "getVerificationStatus"}
          PROVE  UNCHANGED log \/ SendsKyc(binding, operation, argument)
        BY <1>2, <2>1 DEF KycCall, KycRefuse, SendsKyc
    <2>2. \/ UNCHANGED log
          \/ \E operation, argument :
               /\ KycCall(binding, operation, argument)
               /\ operation = "createVerification" => CountriesError(argument.countries) = None
                                                      \/ ProviderError(handle) # None
               /\ operation \in {"createVerification", "getCertificates",
                                 "getVerificationStatus"}
        <3>1. CASE call[1] = "createVerification"
            <4>1. CreateVerification(binding, call[2])
                BY <1>2, <3>1 DEF Dispatch
            <4>2. CASE ProviderError(handle) = None /\ CountriesError(call[2].countries) # None
                BY <4>1, <4>2 DEF CreateVerification, KycRefuse
            <4> QED
                BY <4>1, <4>2 DEF CreateVerification
        <3>2. CASE call[1] = "getCertificates"
            BY <1>2, <3>2 DEF Dispatch, GetCertificates
        <3>3. CASE call[1] = "getVerificationStatus"
            BY <1>2, <3>3 DEF Dispatch, GetVerificationStatus
        <3> QED
            BY <3>1, <3>2, <3>3, KycCallAssumption
    <2> QED
        BY <2>1, <2>2
<1>3. ASSUME NEW r, Answer(r) \/ KycAnswer(r) \/ FailTransport PROVE UNCHANGED log
    BY <1>3 DEF Answer, KycAnswer, FailTransport
<1> QED
    BY <1>1, <1>2, <1>3 DEF Talks, KycExport, KycComponentMethod

\* Errors a call is refused with.
Errors == {Error("INVALID_INPUT")} \cup {Failed(variant) : variant \in DOMAIN Code}

\* A call that is sent was of a provider, a request and an operation that could
\* be read.
LEMMA NotRefused ==
    ASSUME NEW provider, NEW operation, NEW request,
           Refusal(provider, operation, request) = None
    PROVE  /\ provider # None /\ request # None /\ operation \in DOMAIN provider.operations
           /\ Payload(operation, request) # None
<1>1. None \notin Errors
    BY NoneAssumption DEF Errors
<1>2. {"Body", "UnsupportedOperation", "Signing", "Url", "Request"} \subseteq DOMAIN Code
    BY DEF Code
<1>3. \A variant \in {"Body", "UnsupportedOperation", "Signing", "Url", "Request"} :
        Failed(variant) # None
    BY <1>1, <1>2 DEF Errors
<1>4. Error("INVALID_INPUT") # None
    BY <1>1 DEF Errors
<1> QED
    BY <1>3, <1>4 DEF Refusal

\* The same of KYC.
LEMMA KycNotRefused ==
    ASSUME NEW provider, NEW operation, KycRefusal(provider, operation) = None
    PROVE  operation \in DOMAIN provider.operations
<1>1. Failed("UnsupportedOperation") # None
    <2>1. "UnsupportedOperation" \in DOMAIN Code
        BY DEF Code
    <2> QED
        BY <2>1, NoneAssumption
<1> QED
    BY <1>1 DEF KycRefusal

\* A signed message was made of one call.
LEMMA AssetMade ==
    ASSUME NEW call \in Calls, SendsAsset(call)
    PROVE  LET m == Message(call[1], ParseProvider(handle).operations[call[1]], Requests[call])
           IN  m.signed \notin {None, <<>>} => MadeOf(m, call)
<1> DEFINE provider == ParseProvider(handle)
           m == Message(call[1], provider.operations[call[1]], Requests[call])
<1>1. Requests[call] # None /\ Payload(call[1], Requests[call]) # None
    BY NotRefused DEF SendsAsset
<1>2. /\ m.operation = call[1] /\ m.id = UrlId(call[1], Requests[call])
      /\ m.body = IF Method(call[1]) = "GET" THEN None
                  ELSE Object(WithAccount(Fields(call[1], Requests[call])))
      /\ m.signed = None \/ m.signed = Payload(call[1], Requests[call])
    BY DEF Message
<1> HIDE DEF m
<1>3. m.signed \notin {None, <<>>} => MadeOf(m, call)
    BY <1>1, <1>2 DEF MadeOf
<1> QED
    BY <1>3 DEF m

\* A call adds no other signed message.
LEMMA TalksLog == ASSUME LogInv, Talks PROVE LogInv'
<1>1. ASSUME NEW m, log' = Append(log, m),
             m.signed \notin {None, <<>>} => \E call \in Calls : MadeOf(m, call)
      PROVE  LogInv'
    <2>1. log \in Seq(Members(log))
        BY DEF LogInv
    <2>2. /\ log' \in Seq(Members(log')) /\ DOMAIN log = 1..Len(log) /\ Len(log) \in Nat
          /\ DOMAIN log' = 1..(Len(log) + 1) /\ log'[Len(log) + 1] = m
          /\ \A i \in 1..Len(log) : log'[i] = log[i]
        BY <1>1, <2>1, Extended
    <2>3. \A i \in DOMAIN log' :
              log'[i].signed \notin {None, <<>>} => \E call \in Calls : MadeOf(log'[i], call)
        BY <1>1, <2>2 DEF LogInv
    <2> QED
        BY <2>2, <2>3 DEF LogInv
<1>2. ASSUME NEW call \in Calls, SendsAsset(call) PROVE LogInv'
    BY <1>1, <1>2, AssetMade DEF SendsAsset
<1>3. ASSUME NEW binding, NEW operation, NEW argument, SendsKyc(binding, operation, argument)
      PROVE  LogInv'
    <2> DEFINE m == KycMessage(binding, KycProviderOf(handle), operation, argument)
    <2>1. m.signed \in {None, <<>>}
        BY DEF KycMessage, KycSigned
    <2>2. log' = Append(log, m)
        BY <1>3 DEF SendsKyc
    <2> HIDE DEF m
    <2> QED
        BY <1>1, <2>1, <2>2
<1>4. CASE UNCHANGED log
    BY <1>4 DEF LogInv
<1> QED
    BY <1>2, <1>3, <1>4, Sends

\* Nothing else adds to the log.
LEMMA SessionLog == LogInv /\ LookupInv /\ [ClientsNext]_allVars => LogInv'
<1> SUFFICES ASSUME LogInv, LookupInv, [ClientsNext]_allVars PROVE LogInv'
    OBVIOUS
<1>1. CASE UNCHANGED log
    BY <1>1 DEF LogInv
<1>2. CASE Talks
    BY <1>2, TalksLog
<1>3. CASE Asks \/ Restores
    BY <1>1, <1>3 DEF Asks, Ask, KycAsk, Restores, Restore, KycRestore
<1>4. CASE Leaves
    BY <1>1, <1>4 DEF Leaves, Bind, KycBind, Leave, KycLeave
<1>5. CASE LookUp \/ UNCHANGED allVars
    BY <1>1, <1>5 DEF LookUp, allVars, callVars
<1>6. ASSUME NEW content, Discover(content) \/ KycDiscover(content) PROVE LogInv'
    BY <1>1, <1>6 DEF Discover, KycDiscover, callVars
<1> QED
    BY <1>2, <1>3, <1>4, <1>5, <1>6, StepKinds

-----------------------------------------------------------------------------
(* Everything goes as advertised *)

\* What is asked of a provider of asset movement goes as the entry says.
LEMMA AssetGoes ==
    ASSUME HandleInv, origin # None, NEW call \in Calls, SendsAsset(call)
    PROVE  GoesAsEntrySays(
               Message(call[1], ParseProvider(handle).operations[call[1]], Requests[call]),
               origin.entry)
<1> DEFINE provider == ParseProvider(handle)
           entry == origin.entry
           info == Info(origin.id, entry)
           op == call[1]
           endpoint == entry.operations[op]
           m == Message(op, provider.operations[op], Requests[call])
<1>1. handle = EncodeProvider(info) /\ entry \in Content
    BY DEF HandleInv, SendsAsset
<1>2. /\ provider # None /\ op \in DOMAIN provider.operations
      /\ Payload(op, Requests[call]) # None
    BY NotRefused DEF SendsAsset
<1>3. info.operations = Operations(entry.operations)
    BY DEF Info
<1>4. provider = ParseProvider(EncodeProvider(info))
    BY <1>1
<1> HIDE DEF provider, info
<1>5. /\ op \in DOMAIN Operations(entry.operations)
      /\ provider.operations[op].url = Operations(entry.operations)[op].url
      /\ provider.operations[op].auth = Operations(entry.operations)[op].auth
    BY <1>2, <1>3, <1>4, ProviderBack
<1>6. /\ op \in DOMAIN entry.operations /\ Url(endpoint) # None
      /\ Operations(entry.operations)[op].url = Url(endpoint)
      /\ Operations(entry.operations)[op].auth = Auth(op, endpoint)
    BY <1>5 DEF Operations
<1>7. provider.operations[op].url = endpoint[2]
    BY <1>5, <1>6 DEF Url
<1>8. /\ m.operation = op /\ m.url = endpoint[2]
      /\ m.signed = IF SignsFor(Auth(op, endpoint)) THEN Payload(op, Requests[call]) ELSE None
    BY <1>5, <1>6, <1>7 DEF Message
<1>9. SignsFor(Auth(op, endpoint)) <=>
          op = "getAccountStatus"
          \/ (endpoint[1] = "object" /\ endpoint[3] \in {"required", "optional"})
    BY DEF SignsFor, Auth
<1>10. \A auth \in {"required", "optional"} :
         endpoint = <<"object", endpoint[2], auth>>
            <=> (endpoint[1] = "object" /\ endpoint[3] = auth)
    <2>1. endpoint[1] = "object" => endpoint = <<"object", endpoint[2], endpoint[3]>>
        BY <1>1, <1>6, EndpointAssumption
    <2> HIDE DEF endpoint
    <2> QED
        BY <2>1
<1> HIDE DEF m, endpoint, entry
<1>11. m.signed = None <=>
          /\ op # "getAccountStatus"
          /\ \A auth \in {"required", "optional"} :
               endpoint # <<"object", endpoint[2], auth>>
    BY <1>2, <1>8, <1>9, <1>10
<1>12. GoesAsEntrySays(m, entry)
    BY <1>8, <1>11 DEF GoesAsEntrySays, endpoint
<1> QED
    BY <1>12 DEF m, entry, provider

\* The same of KYC: the URL of the entry, and countries by their codes.
GoesAsKycSays(message, entry) ==
    /\ message.url = UrlPublished(entry, message.operation)
    /\ message.operation = "createVerification" =>
          \A code \in Members(Unwrapped(message.body[2].countryCodes)) :
              code[1] # "" /\ code = <<code[1], "upper">>

\* What is asked of a KYC provider goes as the entry says.
LEMMA KycGoes ==
    ASSUME HandleInv, origin # None, NEW binding, NEW operation, NEW argument,
           SendsKyc(binding, operation, argument)
    PROVE  GoesAsKycSays(KycMessage(binding, KycProviderOf(handle), operation, argument),
                         origin.entry)
<1> DEFINE provider == KycProviderOf(handle)
           entry == origin.entry
           info == KycInfo(origin.id, entry.json)
           m == KycMessage(binding, provider, operation, argument)
<1>1. handle = EncodeKycProvider(info) /\ entry \in KycContent /\ KycReadable(entry.json)
    BY DEF HandleInv, SendsKyc
<1>2. operation \in DOMAIN provider.operations
    BY KycNotRefused DEF SendsKyc
<1>3. /\ DOMAIN info.operations \subseteq KycOperation
      /\ \A name \in DOMAIN info.operations :
           info.operations[name] = UrlGiven(entry.json[2].operations, name)
    BY <1>1, ReadUrls
<1>4. "operations" \in DOMAIN info
    <2>1. \A id, operations, object :
              "operations" \in DOMAIN ProviderInfo(id, operations, object)
        BY DEF ProviderInfo
    <2> QED
        BY <2>1 DEF KycInfo
<1> HIDE DEF info
<1>5. provider.operations = [name \in DOMAIN info.operations |-> info.operations[name]]
    BY <1>1, <1>3, <1>4, KycProviderBack
<1> HIDE DEF provider
<1>6. provider.operations[operation] = UrlGiven(entry.json[2].operations, operation)
    BY <1>2, <1>3, <1>5
<1>7. entry.operations = entry.json[2].operations
    BY <1>1, ContentAssumption
<1>8. m.operation = operation /\ m.url = UrlPublished(entry, operation)
    BY <1>6, <1>7 DEF KycMessage, UrlPublished, UrlGiven
<1>9. ASSUME operation = "createVerification"
      PROVE  \A code \in Members(Unwrapped(m.body[2].countryCodes)) :
                 code[1] # "" /\ code = <<code[1], "upper">>
    <2> DEFINE written == Unwrapped(argument.countries)
               codes == CanonicalCodes(written)
               fields == CreateRequestFields(codes, Redirect(binding, argument.redirect))
    <2>1. CodesRead(written)
        BY <1>9, NoneAssumption DEF SendsKyc, CountriesError
    <2>2. m.body = Object(WithAccount(fields))
        BY <1>9 DEF KycMessage, KycMethod
    <2>3. "countryCodes" \in DOMAIN fields /\ fields["countryCodes"] = ListOfTexts(codes)
        BY DEF CreateRequestFields
    <2> HIDE DEF fields, codes
    <2>4. WithAccount(fields)["countryCodes"] = ListOfTexts(codes)
        BY <2>3 DEF WithAccount
    <2>5. m.body[2].countryCodes = ListOfTexts(codes)
        BY <2>2, <2>4 DEF Object
    <2>6. Unwrapped(ListOfTexts(codes)) = [i \in DOMAIN codes |-> codes[i]]
        BY DEF Unwrapped, ListOfTexts, ListOf, Text
    <2>7. \A i \in DOMAIN codes : codes[i][1] # "" /\ codes[i] = <<codes[i][1], "upper">>
        BY <2>1 DEF codes, CanonicalCodes, CountryCode, CodesRead, IsBlank
    <2> HIDE DEF m
    <2>8. Members(Unwrapped(m.body[2].countryCodes)) = {codes[i] : i \in DOMAIN codes}
        BY <2>5, <2>6 DEF Members
    <2> QED
        BY <2>7, <2>8
<1> HIDE DEF m, entry
<1>10. GoesAsKycSays(m, entry)
    BY <1>8, <1>9 DEF GoesAsKycSays
<1> QED
    BY <1>10 DEF m, entry, provider

\* What AsAdvertised says of a message.
Goes(message) ==
    IF service = "asset" THEN GoesAsEntrySays(message, origin.entry)
    ELSE GoesAsKycSays(message, origin.entry)

\* AsAdvertised is that of every message, and that the entry is genuine.
LEMMA AdvertisedMeans ==
    AsAdvertised <=>
        (origin # None => Genuine(origin.entry) /\ \A i \in DOMAIN log : Goes(log[i]))
BY DEF AsAdvertised, Goes, GoesAsKycSays

\* A call sends as advertised.
LEMMA TalksGoes ==
    ASSUME LookupInv, HandleInv, LogInv, AsAdvertised, Talks
    PROVE  AsAdvertised'
<1>1. UNCHANGED <<service, origin>>
    BY Silent, TalksKeep
<1>2. ASSUME NEW m, log' = Append(log, m), origin # None => Goes(m)
      PROVE  AsAdvertised'
    <2>1. log \in Seq(Members(log))
        BY DEF LogInv
    <2>2. /\ DOMAIN log = 1..Len(log) /\ Len(log) \in Nat
          /\ DOMAIN log' = 1..(Len(log) + 1) /\ log'[Len(log) + 1] = m
          /\ \A i \in 1..Len(log) : log'[i] = log[i]
        BY <1>2, <2>1, Extended
    <2> SUFFICES ASSUME origin # None, NEW i \in DOMAIN log'
                 PROVE  Genuine(origin.entry) /\ Goes(log'[i])
        BY <1>1 DEF AsAdvertised, Goes, GoesAsKycSays
    <2>3. Genuine(origin.entry) /\ \A j \in DOMAIN log : Goes(log[j])
        BY AdvertisedMeans
    <2> QED
        BY <1>2, <2>2, <2>3
<1>3. ASSUME NEW call \in Calls, SendsAsset(call) PROVE AsAdvertised'
    BY <1>2, <1>3, AssetGoes DEF SendsAsset, Goes
<1>4. ASSUME NEW binding, NEW operation, NEW argument, SendsKyc(binding, operation, argument)
      PROVE  AsAdvertised'
    BY <1>2, <1>4, KycGoes DEF SendsKyc, Goes
<1>5. CASE UNCHANGED log
    BY <1>1, <1>5 DEF AsAdvertised
<1> QED
    BY <1>3, <1>4, <1>5, Sends

\* No other step changes what was sent, or the entry it is measured by.
LEMMA SessionAdvertised ==
    MergeInv /\ LookupInv /\ HandleInv /\ LogInv /\ AsAdvertised /\ [ClientsNext]_allVars
        => AsAdvertised'
<1> SUFFICES ASSUME MergeInv, LookupInv, HandleInv, LogInv, AsAdvertised,
                    [ClientsNext]_allVars
             PROVE  AsAdvertised'
    OBVIOUS
<1>1. CASE UNCHANGED <<service, origin, log>>
    BY <1>1 DEF AsAdvertised
<1>2. CASE Talks
    BY <1>2, TalksGoes
<1>3. CASE Asks \/ Restores
    BY <1>1, <1>3, Silent, HostKeeps DEF Asks, Ask, KycAsk, Restores, Restore, KycRestore
<1>4. CASE Leaves
    <2>1. CASE Leave \/ KycLeave
        BY <1>1, <2>1 DEF Leave, KycLeave, Forget
    <2>2. ASSUME NEW listing, Bind(listing) \/ KycBind(listing) PROVE AsAdvertised'
        <3>1. log' = <<>> /\ Genuine(origin.entry)'
            BY <2>2, BindKeeps
        <3>2. DOMAIN log' = {}
            BY <3>1
        <3> QED
            BY <3>1, <3>2 DEF AsAdvertised
    <2> QED
        BY <1>4, <2>1, <2>2 DEF Leaves
<1>5. CASE LookUp \/ UNCHANGED allVars
    BY <1>1, <1>5 DEF LookUp, allVars, callVars, lookupVars
<1>6. ASSUME NEW content, Discover(content) \/ KycDiscover(content) PROVE AsAdvertised'
    BY <1>1, <1>6 DEF Discover, KycDiscover, callVars
<1> QED
    BY <1>2, <1>3, <1>4, <1>5, <1>6, StepKinds

\* ClientsInv holds at first.
LEMMA InitClients == MovementInit => ClientsInv
<1> SUFFICES ASSUME MovementInit PROVE ClientsInv
    OBVIOUS
<1>1. MergeInv
    BY InitMerge DEF MovementInit
<1>2. LookupInv
    BY EmptyMembers DEF MovementInit, LookupInv, Init
<1>3. AskedInv /\ HandleInv
    BY DEF MovementInit, AskedInv, HandleInv
<1>4. LogInv /\ AsAdvertised
    BY EmptyMembers DEF MovementInit, LogInv, AsAdvertised
<1> QED
    BY <1>1, <1>2, <1>3, <1>4 DEF ClientsInv

\* Every step of a session keeps ClientsInv.
LEMMA StepClients == ClientsInv /\ [ClientsNext]_allVars => ClientsInv'
BY SessionMerges, SessionLookup, SessionAsked, SessionHandle, SessionLog, SessionAdvertised
   DEF ClientsInv

\* In every reachable state of a client over any number of roots, ids, entries and
\* calls: the lookup has listed what the documents so far decide, the documents are
\* those that were read, what the host holds is a genuine entry's, and every signed
\* message was made of one call.
THEOREM ClientsInvariance == ClientsSpec => []ClientsInv
BY InitClients, StepClients, PTL DEF ClientsSpec

\* What a client asks of a provider it found goes where the highest root's genuine
\* entry says, signed when that entry wants it, although the provider went out to the
\* host as JSON and was read back from it with each call.
THEOREM GoesAsAdvertised == ClientsSpec => []AsAdvertised
<1>1. ClientsInv => AsAdvertised
    BY DEF ClientsInv
<1> QED
    BY <1>1, ClientsInvariance, PTL

-----------------------------------------------------------------------------
(* What was read of a request *)

\* A member with a default is always there once it is read.
LEMMA DefaultMember ==
    ASSUME NEW v, NEW shape, NEW name \in DOMAIN shape, shape[name].mode = "default"
    PROVE  name \in DOMAIN Cleaned(v, Dto(shape))[2]
<1>1. name \in Known(v, Dto(shape))
    BY DEF Known, Dto
<1> QED
    BY <1>1, ObjectCleaned DEF Object

\* What Parse reads has the members of the shape: all that are needed or have a
\* default, and no others.
LEMMA Parsed ==
    ASSUME NEW json, NEW shape, Parse(json, shape) # None
    PROVE  LET dto == Parse(json, shape) IN
           /\ DOMAIN dto \subseteq DOMAIN shape
           /\ \A name \in DOMAIN shape :
                shape[name].mode \in {"needed", "default"} => name \in DOMAIN dto
           /\ \A name \in DOMAIN shape : shape[name].mode = "needed" =>
                dto[name] = Cleaned7(json[2][name], shape[name].kind)
<1>1. Fits(json, Dto(shape)) /\ Parse(json, shape) = Cleaned(json, Dto(shape))[2]
    BY DEF Parse
<1>2. DOMAIN Cleaned(json, Dto(shape))[2] \subseteq DOMAIN shape
    BY NoOtherMember
<1>3. \A name \in DOMAIN shape :
         shape[name].mode = "needed" =>
            /\ name \in DOMAIN Cleaned(json, Dto(shape))[2]
            /\ Cleaned(json, Dto(shape))[2][name] = Cleaned7(json[2][name], shape[name].kind)
    BY <1>1, NeededMember
<1>4. \A name \in DOMAIN shape :
         shape[name].mode = "default" => name \in DOMAIN Cleaned(json, Dto(shape))[2]
    BY DefaultMember
<1> QED
    BY <1>1, <1>2, <1>3, <1>4

\* An asset is one or a pair.
LEMMA AssetLength ==
    ASSUME NEW v, AssetOrPair(v) # None
    PROVE  Len(AssetOrPair(v)) \in {1, 2}
BY DEF AssetOrPair

\* The asset of a template's payload is that of its body, with one asset read as
\* the pair of it with itself.
LEMMA PairOfAsset ==
    ASSUME NEW v, AssetOrPair(v) # None
    PROVE  LET value == AssetValue(AssetOrPair(v)) IN
           PairValue(AssetOrPair(v)) =
               IF value[1] = "object" THEN value ELSE Object([from |-> value, to |-> value])
<1> DEFINE a == AssetOrPair(v)
<1>1. Len(a) = 1 \/ Len(a) = 2
    BY AssetLength
<1> HIDE DEF a
<1>2. CASE Len(a) = 1
    <2>1. AssetValue(a) = Text(Canonical(a[1]))
        BY <1>2 DEF AssetValue
    <2>2. AssetValue(a)[1] = "text"
        BY <2>1 DEF Text
    <2>3. PairValue(a) = Object([from |-> AssetValue(a), to |-> AssetValue(a)])
        BY <1>2, <2>1 DEF PairValue
    <2> QED
        BY <2>2, <2>3 DEF a
<1>3. CASE Len(a) = 2
    <2>1. AssetValue(a) = PairValue(a)
        BY <1>3 DEF AssetValue, PairValue
    <2>2. AssetValue(a)[1] = "object"
        BY <2>1 DEF PairValue, Object
    <2> QED
        BY <2>1, <2>2 DEF a
<1> QED
    BY <1>1, <1>2, <1>3

\* What a call asks is read from its argument.
LEMMA RequestRead ==
    ASSUME NEW call \in Calls, Requests[call] # None,
           call[1] \notin TakesId \cup {"getAccountStatus"}
    PROVE  LET dto == Parse(call[2], Shape(call[1])) IN
           dto # None /\ Requests[call] = IntoCore(call[1], dto)
<1>1. Requests[call] = Request(call[1], call[2])
    BY DEF Requests
<1> DEFINE dto == Parse(call[2], Shape(call[1]))
<1>2. Request(call[1], call[2]) = IF dto = None THEN None ELSE IntoCore(call[1], dto)
    <2> HIDE DEF dto
    <2> QED
        BY DEF Request, dto
<1> QED
    BY <1>1, <1>2

\* Reading the asset of a request changes nothing else of it.
LEMMA AssetRead ==
    ASSUME NEW r, ReadAsset(r) # None
    PROVE  /\ AssetOrPair(r.asset) # None
           /\ ReadAsset(r) = [r EXCEPT !.asset = AssetOrPair(r.asset)]
           /\ DOMAIN ReadAsset(r) = DOMAIN r
BY DEF ReadAsset

\* The members of a transfer.
TransferShape(r) ==
    /\ DOMAIN r = {"asset", "from", "to", "value", "allowedRails"}
    /\ DOMAIN r.from[2] \subseteq {"location", "source"}

\* A request for a transfer has these members.
LEMMA TransferShaped ==
    ASSUME NEW call \in Calls, Requests[call] # None,
           call[1] \in {"simulateTransfer", "initiateTransfer"}
    PROVE  TransferShape(Requests[call])
<1> DEFINE dto == Parse(call[2], TransferReqDto)
           s == TransferReqDto
           r == Requests[call]
<1>1. dto # None /\ r = TransferRequest(dto)
    BY RequestRead DEF Shape, IntoCore, TakesId
<1>2. /\ DOMAIN s = {"asset", "from", "to", "value", "allowedRails"}
      /\ \A name \in DOMAIN s : s[name].mode \in {"needed", "default"}
      /\ s["from"].mode = "needed" /\ s["from"].kind = SourceDto
    BY DEF TransferReqDto, Needed, Default
<1> HIDE DEF s
<1>3. DOMAIN dto = DOMAIN s /\ dto["from"] = Cleaned7(call[2][2]["from"], SourceDto)
    <2>1. dto = Parse(call[2], s) /\ dto # None
        BY <1>1 DEF s
    <2> HIDE DEF dto
    <2>2. /\ DOMAIN dto \subseteq DOMAIN s
          /\ \A name \in DOMAIN s :
                s[name].mode \in {"needed", "default"} => name \in DOMAIN dto
          /\ \A name \in DOMAIN s : s[name].mode = "needed" =>
                dto[name] = Cleaned7(call[2][2][name], s[name].kind)
        BY <2>1, Parsed
    <2> QED
        BY <1>2, <2>2
<1> HIDE DEF dto, r
<1>4. r # None
    BY DEF r
<1>5. r = ReadAsset([dto EXCEPT !.value = ValueString(dto.value)])
    BY <1>1, <1>4 DEF TransferRequest
<1>6. DOMAIN r = DOMAIN dto /\ r["from"] = dto["from"]
    BY <1>2, <1>3, <1>4, <1>5, AssetRead
<1>7. \A v : DOMAIN Cleaned7(v, SourceDto)[2] \subseteq {"location", "source"}
    <2> SUFFICES ASSUME NEW v
                 PROVE  DOMAIN Cleaned7(v, SourceDto)[2] \subseteq {"location", "source"}
        OBVIOUS
    <2> DEFINE d == SourceDto
    <2>1. d[1] = "object" /\ DOMAIN d[2] = {"location", "source"}
        BY DEF SourceDto, Dto
    <2> HIDE DEF d
    <2>2. Unknown(v, d) = {} /\ Known(v, d) \subseteq DOMAIN d[2]
        BY <2>1 DEF Unknown, Known
    <2>3. Cleaned7(v, d) = Object([name \in Unknown(v, d) \cup Known(v, d) |->
                IF name \notin DOMAIN d[2] THEN v[2][name]
                ELSE IF name \in DOMAIN v[2] THEN Cleaned6(v[2][name], d[2][name].kind)
                ELSE DefaultOf(d[2][name].kind)])
        <3>1. Cleaned7(v, d) = Object(Members6(v, d))
            BY <2>1, PartRead
        <3> QED
            BY <3>1 DEF Members6
    <2>4. DOMAIN Cleaned7(v, d)[2] = Unknown(v, d) \cup Known(v, d)
        BY <2>3 DEF Object
    <2> QED
        BY <2>1, <2>2, <2>4 DEF d
<1> QED
    BY <1>2, <1>3, <1>6, <1>7 DEF TransferShape, r

\* An asset that was read from JSON.
ReadOf(asset) == \E v : AssetOrPair(v) # None /\ asset = AssetOrPair(v)

\* An instruction is of a transfer.
LEMMA ExecuteShaped ==
    ASSUME NEW call \in Calls, Requests[call] # None, call[1] = "executeTransfer"
    PROVE  \E id, instruction : Requests[call] = [id |-> id, instruction |-> instruction]
<1> DEFINE dto == Parse(call[2], ExecuteReqDto)
<1>1. Requests[call] = ExecuteRequest(dto)
    BY RequestRead DEF Shape, IntoCore, TakesId
<1> HIDE DEF dto
<1> QED
    BY <1>1 DEF ExecuteRequest

\* A session of a template is asked for by an asset and a location.
LEMMA SessionShaped ==
    ASSUME NEW call \in Calls, Requests[call] # None,
           call[1] = "initiatePersistentForwardingTemplate"
    PROVE  /\ DOMAIN Requests[call] = {"asset", "location"}
           /\ ReadOf(Requests[call].asset)
<1> DEFINE s == InitiateTemplateDto
           dto == Parse(call[2], s)
           r == Requests[call]
<1>1. dto # None /\ r = ReadAsset(dto)
    BY RequestRead DEF Shape, IntoCore, TakesId
<1>2. DOMAIN s = {"asset", "location"} /\ \A name \in DOMAIN s : s[name].mode = "needed"
    BY DEF InitiateTemplateDto, Needed
<1> HIDE DEF s
<1>3. DOMAIN dto = DOMAIN s
    BY <1>1, <1>2, Parsed
<1>4. r # None
    OBVIOUS
<1> HIDE DEF dto, r
<1>5. /\ DOMAIN r = DOMAIN dto
      /\ r["asset"] = AssetOrPair(dto.asset) /\ AssetOrPair(dto.asset) # None
    BY <1>1, <1>2, <1>3, <1>4, AssetRead
<1> QED
    BY <1>2, <1>3, <1>5 DEF r, ReadOf

\* A template is completed by its id and data, or created for an address.
TemplateShape(r) ==
    \/ Completes(r) /\ DOMAIN r \subseteq {"id", "data"} /\ r = [name \in DOMAIN r |-> r[name]]
    \/ /\ ~Completes(r) /\ DOMAIN r = {"asset", "location", "address"}
       /\ ReadOf(r.asset)

\* A request for a template is one or the other.
LEMMA TemplateShaped ==
    ASSUME NEW call \in Calls, Requests[call] # None,
           call[1] = "createPersistentForwardingTemplate"
    PROVE  TemplateShape(Requests[call])
<1> DEFINE s == CreateTemplateDto
           dto == Parse(call[2], s)
           r == Requests[call]
<1>1. dto # None /\ r = CreateTemplateRequest(dto)
    BY RequestRead DEF Shape, IntoCore, TakesId
<1>2. DOMAIN s = {"asset", "location", "address", "id", "data"}
    BY DEF CreateTemplateDto
<1> HIDE DEF s
<1>3. DOMAIN dto \subseteq DOMAIN s
    BY <1>1, Parsed
<1>4. r # None
    OBVIOUS
<1> HIDE DEF dto, r
<1>5. CASE "data" \in DOMAIN dto
    <2>1. r = Only(dto, {"id", "data"})
        BY <1>1, <1>5 DEF CreateTemplateRequest
    <2>2. /\ DOMAIN r = DOMAIN dto \cap {"id", "data"} /\ "data" \in DOMAIN r
          /\ r = [name \in DOMAIN r |-> r[name]]
        BY <1>5, <2>1 DEF Only
    <2> QED
        BY <2>2 DEF TemplateShape, Completes, r
<1>6. CASE "data" \notin DOMAIN dto
    <2> DEFINE d == Without(dto, {"id"})
    <2>1. {"asset", "location", "address"} \subseteq DOMAIN dto /\ r = ReadAsset(d)
        BY <1>1, <1>4, <1>6 DEF CreateTemplateRequest
    <2>2. DOMAIN d = {"asset", "location", "address"}
        BY <1>2, <1>3, <1>6, <2>1 DEF Without, Only
    <2> HIDE DEF d
    <2>3. DOMAIN r = DOMAIN d /\ r["asset"] = AssetOrPair(d.asset) /\ AssetOrPair(d.asset) # None
        BY <1>4, <2>1, <2>2, AssetRead
    <2> QED
        BY <2>2, <2>3 DEF TemplateShape, Completes, ReadOf, r
<1> QED
    BY <1>5, <1>6

\* The members by which an address for forwarding differs from the rest.
LEMMA ForwardingShaped ==
    ASSUME NEW call \in Calls, Requests[call] # None,
           call[1] = "createPersistentForwarding"
    PROVE  /\ {"sourceLocation", "asset"} \subseteq DOMAIN Requests[call]
           /\ DOMAIN Requests[call] \cap {"account", "value", "instruction", "data"} = {}
<1> DEFINE s == CreateAddressDto
           dto == Parse(call[2], s)
           r == Requests[call]
<1>1. dto # None /\ r = CreateAddressRequest(dto)
    BY RequestRead DEF Shape, IntoCore, TakesId
<1>2. /\ DOMAIN s = {"sourceLocation", "asset", "outgoingRail", "incomingRail",
                     "destinationLocation", "destinationAddress",
                     "persistentAddressTemplateId"}
      /\ s["sourceLocation"].mode = "needed" /\ s["asset"].mode = "needed"
    BY DEF CreateAddressDto, Needed
<1> HIDE DEF s
<1>3. DOMAIN dto \subseteq DOMAIN s /\ {"sourceLocation", "asset"} \subseteq DOMAIN dto
    BY <1>1, <1>2, Parsed
<1>4. r # None
    OBVIOUS
<1> HIDE DEF dto, r
<1>5. PICK names \in {{"persistentAddressTemplateId"},
                      {"destinationLocation", "destinationAddress"}} :
         r = ReadAsset(Without(dto, names))
    BY <1>1, <1>4 DEF CreateAddressRequest
<1>6. DOMAIN r = DOMAIN dto \ names
    BY <1>4, <1>5, AssetRead DEF Without, Only
<1> QED
    BY <1>2, <1>3, <1>6 DEF r

-----------------------------------------------------------------------------
(* What a signature tells *)

\* The parts of Essence, what a message asks of the provider.
Transfers == {"simulateTransfer", "initiateTransfer"}
Templates == {"initiatePersistentForwardingTemplate", "createPersistentForwardingTemplate"}
Lists == {"listPersistentForwardingTemplate", "shareKYC", "listPersistentForwarding",
          "listTransactions"}

BodyOf(message) == IF Method(message.operation) = "GET" THEN Empty
                   ELSE Without(message.body[2], {"account"})

PairedAsset(asset) == IF asset[1] = "object" THEN asset
                      ELSE Object([from |-> asset, to |-> asset])

EssentialBody(message) ==
    CASE message.operation \in Transfers ->
            [Without(BodyOf(message), {"allowedRails"}) EXCEPT
                !.from = Object(Without(@[2], {"source"}))]
      [] message.operation \in Templates /\ "asset" \in DOMAIN BodyOf(message) ->
            [BodyOf(message) EXCEPT !.asset = PairedAsset(@)]
      [] message.operation \in Lists -> Empty
      [] OTHER -> BodyOf(message)

\* Essence by its parts, and its body by the kind of operation.
LEMMA EssenceIs ==
    ASSUME NEW m
    PROVE  Essence(m) =
             [kind |-> IF m.operation \in Transfers THEN Transfers ELSE {m.operation},
              id |-> m.id, body |-> EssentialBody(m)]
BY DEF Essence, EssentialBody, BodyOf, PairedAsset, Transfers, Templates, Lists

\* The body by the kind of operation, as four facts.
LEMMA EssentialBodies ==
    ASSUME NEW m
    PROVE  /\ m.operation \in Transfers =>
                EssentialBody(m) = [Without(BodyOf(m), {"allowedRails"}) EXCEPT
                                        !.from = Object(Without(@[2], {"source"}))]
           /\ m.operation \in Templates /\ "asset" \in DOMAIN BodyOf(m) =>
                EssentialBody(m) = [BodyOf(m) EXCEPT !.asset = PairedAsset(@)]
           /\ m.operation \in Lists => EssentialBody(m) = Empty
           /\ m.operation \notin Transfers \cup Lists
              /\ ~(m.operation \in Templates /\ "asset" \in DOMAIN BodyOf(m))
                => EssentialBody(m) = BodyOf(m)
<1>1. ASSUME m.operation \in Transfers
      PROVE  EssentialBody(m) = [Without(BodyOf(m), {"allowedRails"}) EXCEPT
                                        !.from = Object(Without(@[2], {"source"}))]
    BY <1>1 DEF EssentialBody, Transfers, Templates, Lists
<1>2. ASSUME m.operation \in Templates, "asset" \in DOMAIN BodyOf(m)
      PROVE  EssentialBody(m) = [BodyOf(m) EXCEPT !.asset = PairedAsset(@)]
    BY <1>2 DEF EssentialBody, Transfers, Templates, Lists
<1>3. ASSUME m.operation \in Lists PROVE EssentialBody(m) = Empty
    BY <1>3 DEF EssentialBody, Transfers, Templates, Lists
<1>4. ASSUME m.operation \notin Transfers \cup Lists,
             ~(m.operation \in Templates /\ "asset" \in DOMAIN BodyOf(m))
      PROVE  EssentialBody(m) = BodyOf(m)
    BY <1>4 DEF EssentialBody
<1> QED
    BY <1>1, <1>2, <1>3, <1>4

\* The body of a message without the account is the fields it was made of.
LEMMA SentBody ==
    ASSUME NEW m, NEW fields, "account" \notin DOMAIN fields,
           m.body = Object(WithAccount(fields)), m.operation # "getTransferStatus"
    PROVE  /\ BodyOf(m) = [name \in DOMAIN fields |-> fields[name]]
           /\ DOMAIN BodyOf(m) = DOMAIN fields
           /\ \A name \in DOMAIN fields : BodyOf(m)[name] = fields[name]
<1> DEFINE sent == WithAccount(fields)
<1>1. /\ DOMAIN sent = {"account"} \cup DOMAIN fields
      /\ \A name \in DOMAIN fields : sent[name] = fields[name]
    BY DEF WithAccount
<1>2. m.body[2] = sent
    BY DEF Object
<1> HIDE DEF sent
<1>3. BodyOf(m) = [name \in DOMAIN sent \cap (DOMAIN sent \ {"account"}) |-> sent[name]]
    BY <1>2 DEF BodyOf, Method, Without, Only
<1>4. DOMAIN sent \cap (DOMAIN sent \ {"account"}) = DOMAIN fields
    BY <1>1
<1>5. /\ DOMAIN BodyOf(m) = DOMAIN fields
      /\ \A name \in DOMAIN fields : BodyOf(m)[name] = fields[name]
    BY <1>1, <1>3, <1>4
<1>6. BodyOf(m) = [name \in DOMAIN fields |-> fields[name]]
    BY <1>1, <1>3, <1>4
<1> QED
    BY <1>5, <1>6

\* What the provider is asked for can be told from what is signed alone.
KindOf(object) ==
    IF "value" \in DOMAIN object THEN Transfers
    ELSE IF "instruction" \in DOMAIN object THEN {"executeTransfer"}
    ELSE IF \/ "data" \in DOMAIN object
            \/ "address" \in DOMAIN object /\ "sourceLocation" \notin DOMAIN object
    THEN {"createPersistentForwardingTemplate"}
    ELSE IF "sourceLocation" \in DOMAIN object THEN {"createPersistentForwarding"}
    ELSE {"initiatePersistentForwardingTemplate"}

Tag(operation) ==
    CASE operation = "listPersistentForwardingTemplate" -> "list-templates"
      [] operation = "listPersistentForwarding" -> "list-persistent-forwarding-addresses"
      [] operation = "listTransactions" -> "list-transactions"
      [] operation = "shareKYC" -> "share-kyc"
      [] operation = "getAccountStatus" -> "get-account-status"
      [] operation = "getTransferStatus" -> "get-transaction"
      [] operation = "deactivatePersistentForwardingTemplate" ->
            "deactivate-persistent-forwarding-template"
      [] operation = "deactivatePersistentForwarding" ->
            "deactivate-persistent-forwarding-address"

Tagged == Lists \cup TakesId \cup {"getAccountStatus"}

Told(payload) ==
    IF payload[1][1] = "literal"
    THEN [kind |-> {operation \in Tagged : Tag(operation) = payload[1][2]},
          id |-> IF payload[1][2] \in {Tag(operation) : operation \in TakesId}
                 THEN payload[2][2] ELSE None,
          body |-> Empty]
    ELSE LET object == payload[1][2] IN
         [kind |-> KindOf(object),
          id |-> IF "instruction" \in DOMAIN object THEN object.id[2] ELSE None,
          body |-> IF "instruction" \in DOMAIN object THEN Only(object, {"instruction"})
                   ELSE object]

\* What is told of an object that is signed in canonical form.
LEMMA CanonicalPayload ==
    ASSUME NEW object, ObjectToSignable(object) # None
    PROVE  /\ ObjectToSignable(object)[1] = <<"canonical", object>>
           /\ Told(ObjectToSignable(object)) =
                [kind |-> KindOf(object),
                 id |-> IF "instruction" \in DOMAIN object THEN object.id[2] ELSE None,
                 body |-> IF "instruction" \in DOMAIN object THEN Only(object, {"instruction"})
                          ELSE object]
<1>1. ObjectToSignable(object) = <<<<"canonical", object>>>>
    BY DEF ObjectToSignable
<1>2. ObjectToSignable(object)[1][1] # "literal" /\ ObjectToSignable(object)[1][2] = object
    BY <1>1
<1> QED
    BY <1>1, <1>2 DEF Told

\* The essence of a transfer is told by its signature: the rails and the source are no
\* part of it.
LEMMA TransferTold ==
    ASSUME NEW m, NEW call \in Calls, MadeOf(m, call), call[1] \in Transfers
    PROVE  Essence(m) = Told(m.signed)
<1> DEFINE r == Requests[call]
           debited == r.from[2]
           from == Object(Only(debited, {"location"}))
           o == [asset |-> AssetValue(r.asset), value |-> r.value, from |-> from, to |-> r.to]
           fields == TransferFields(r)
<1>1. /\ m.operation = call[1] /\ m.id = None
      /\ m.body = Object(WithAccount(fields))
      /\ m.signed = ObjectToSignable(o) /\ m.signed # None
      /\ TransferShape(r)
    BY TransferShaped DEF MadeOf, Transfers, Method, UrlId, Fields, Payload, TransferPayload
<1>2. /\ DOMAIN o = {"asset", "value", "from", "to"}
      /\ o["asset"] = AssetValue(r.asset) /\ o["value"] = r.value
      /\ o["from"] = from /\ o["to"] = r.to
    OBVIOUS
<1> HIDE DEF o
<1>3. Told(m.signed) = [kind |-> Transfers, id |-> None, body |-> o]
    BY <1>1, <1>2, CanonicalPayload DEF KindOf
<1>4. /\ DOMAIN fields \ {"allowedRails"} = {"asset", "value", "from", "to"}
      /\ "account" \notin DOMAIN fields
      /\ fields["asset"] = AssetValue(r.asset) /\ fields["value"] = r.value
      /\ fields["from"] = r.from /\ fields["to"] = r.to
    <2> DEFINE d == IF r.allowedRails = ListOf(<<>>) THEN Without(r, {"allowedRails"}) ELSE r
    <2>1. /\ DOMAIN d \ {"allowedRails"} = {"asset", "value", "from", "to"}
          /\ DOMAIN d \subseteq {"asset", "value", "from", "to", "allowedRails"}
          /\ \A name \in {"asset", "value", "from", "to"} : d[name] = r[name]
        BY <1>1 DEF Without, Only, TransferShape
    <2>2. fields = [d EXCEPT !.asset = AssetValue(d.asset)]
        BY DEF TransferFields, WithAsset
    <2> HIDE DEF d, r, fields
    <2> QED
        BY <2>1, <2>2
<1> DEFINE body == BodyOf(m)
           open == Without(body, {"allowedRails"})
<1> HIDE DEF fields
<1>5. DOMAIN body = DOMAIN fields /\ \A name \in DOMAIN fields : body[name] = fields[name]
    BY <1>1, <1>4, SentBody DEF Transfers
<1> HIDE DEF body
<1>6. /\ DOMAIN open = {"asset", "value", "from", "to"}
      /\ \A name \in {"asset", "value", "from", "to"} : open[name] = fields[name]
    BY <1>4, <1>5 DEF Without, Only
<1>7. EssentialBody(m) = [open EXCEPT !.from = Object(Without(open["from"][2], {"source"}))]
    BY <1>1, EssentialBodies DEF body
<1>8. Without(debited, {"source"}) = Only(debited, {"location"})
    <2>1. DOMAIN debited \cap (DOMAIN debited \ {"source"}) = DOMAIN debited \cap {"location"}
        BY <1>1 DEF TransferShape
    <2> HIDE DEF debited
    <2> QED
        BY <2>1 DEF Without, Only
<1> HIDE DEF open, debited, r
<1>9. open["from"][2] = debited
    BY <1>4, <1>6 DEF debited
<1>10. EssentialBody(m) = o
    BY <1>2, <1>4, <1>6, <1>7, <1>8, <1>9 DEF o
<1> QED
    BY <1>1, <1>3, <1>10, EssenceIs

\* The instruction is signed with the id of the transfer in the URL.
LEMMA ExecuteTold ==
    ASSUME NEW m, NEW call \in Calls, MadeOf(m, call), call[1] = "executeTransfer"
    PROVE  Essence(m) = Told(m.signed)
<1> DEFINE r == Requests[call]
           o == [r EXCEPT !.id = Text(r.id)]
           fields == Only(r, {"instruction"})
<1>1. /\ m.operation = "executeTransfer" /\ m.id = r.id
      /\ m.body = Object(WithAccount(fields))
      /\ m.signed = ObjectToSignable(o) /\ m.signed # None
    BY DEF MadeOf, Method, UrlId, Fields, Payload, ExecutePayload, ExecuteFields
<1>2. PICK id, instruction : r = [id |-> id, instruction |-> instruction]
    BY ExecuteShaped DEF MadeOf
<1> HIDE DEF r
<1>3. /\ DOMAIN o = {"id", "instruction"} /\ o["id"] = Text(r.id)
      /\ o["instruction"] = instruction
    BY <1>2
<1>4. Text(r.id)[2] = r.id
    BY DEF Text
<1> HIDE DEF o
<1>5. Told(m.signed) = [kind |-> {"executeTransfer"}, id |-> r.id,
                        body |-> Only(o, {"instruction"})]
    BY <1>1, <1>3, <1>4, CanonicalPayload DEF KindOf
<1>6. DOMAIN fields = {"instruction"} /\ fields["instruction"] = instruction
    BY <1>2 DEF Only
<1> HIDE DEF fields
<1>7. BodyOf(m) = [name \in DOMAIN fields |-> fields[name]]
    BY <1>1, <1>6, SentBody
<1>8. Only(o, {"instruction"}) = BodyOf(m)
    BY <1>3, <1>6, <1>7 DEF Only
<1>9. EssentialBody(m) = BodyOf(m)
    BY <1>1, EssentialBodies DEF Transfers, Lists, Templates
<1> QED
    BY <1>1, <1>5, <1>8, <1>9, EssenceIs DEF Transfers

\* A template is asked for with its asset, and signed with the pair of it.
LEMMA PairTold ==
    ASSUME NEW m, NEW r, ReadOf(r.asset),
           m.operation \in Templates, m.id = None, m.body = Object(WithAccount(WithAsset(r))),
           m.signed = ObjectToSignable(WithPair(r)), m.signed # None,
           "asset" \in DOMAIN r,
           DOMAIN r \cap {"account", "value", "instruction", "data", "sourceLocation"} = {},
           m.operation = "createPersistentForwardingTemplate" <=> "address" \in DOMAIN r
    PROVE  Essence(m) = Told(m.signed)
<1> DEFINE o == WithPair(r)
           fields == WithAsset(r)
<1>1. /\ o = [r EXCEPT !.asset = PairValue(r.asset)] /\ DOMAIN o = DOMAIN r
      /\ fields = [r EXCEPT !.asset = AssetValue(r.asset)] /\ DOMAIN fields = DOMAIN r
    BY DEF WithPair, WithAsset
<1>2. fields["asset"] = AssetValue(r.asset) /\ PairValue(r.asset) = PairedAsset(fields["asset"])
    BY <1>1, PairOfAsset DEF ReadOf, PairedAsset
<1> HIDE DEF o, fields
<1>3. KindOf(o) = {m.operation}
    BY <1>1 DEF KindOf, Templates
<1>4. Told(m.signed) = [kind |-> {m.operation}, id |-> None, body |-> o]
    BY <1>1, <1>3, CanonicalPayload DEF o
<1>5. BodyOf(m) = [name \in DOMAIN fields |-> fields[name]]
    BY <1>1, SentBody DEF Templates, fields
<1>6. EssentialBody(m) = [BodyOf(m) EXCEPT !.asset = PairedAsset(BodyOf(m)["asset"])]
    <2>1. "asset" \in DOMAIN BodyOf(m)
        BY <1>1, <1>5
    <2> QED
        BY <2>1, EssentialBodies
<1>7. EssentialBody(m) = o
    BY <1>1, <1>2, <1>5, <1>6
<1> QED
    BY <1>4, <1>7, EssenceIs DEF Templates, Transfers

\* The session of a template.
LEMMA SessionTold ==
    ASSUME NEW m, NEW call \in Calls, MadeOf(m, call),
           call[1] = "initiatePersistentForwardingTemplate"
    PROVE  Essence(m) = Told(m.signed)
<1> DEFINE r == Requests[call]
<1>1. /\ m.operation = "initiatePersistentForwardingTemplate" /\ m.id = None
      /\ m.body = Object(WithAccount(WithAsset(r)))
      /\ m.signed = ObjectToSignable(WithPair(r)) /\ m.signed # None
    BY DEF MadeOf, Method, UrlId, Fields, Payload, SessionFields, SessionPayload
<1>2. DOMAIN r = {"asset", "location"} /\ ReadOf(r.asset)
    BY SessionShaped DEF MadeOf
<1> HIDE DEF r
<1> QED
    BY <1>1, <1>2, PairTold DEF Templates

\* A template, completed or created.
LEMMA TemplateTold ==
    ASSUME NEW m, NEW call \in Calls, MadeOf(m, call),
           call[1] = "createPersistentForwardingTemplate"
    PROVE  Essence(m) = Told(m.signed)
<1> DEFINE r == Requests[call]
<1>1. /\ m.operation = "createPersistentForwardingTemplate" /\ m.id = None
      /\ m.body = Object(WithAccount(TemplateFields(r)))
      /\ m.signed = TemplatePayload(r) /\ m.signed # None
      /\ TemplateShape(r)
    BY TemplateShaped DEF MadeOf, Method, UrlId, Fields, Payload
<1> HIDE DEF r
<1>2. CASE Completes(r)
    <2>1. /\ m.body = Object(WithAccount(r)) /\ m.signed = ObjectToSignable(r)
          /\ "data" \in DOMAIN r /\ DOMAIN r \subseteq {"id", "data"}
          /\ r = [name \in DOMAIN r |-> r[name]]
        BY <1>1, <1>2 DEF TemplateFields, TemplatePayload, TemplateShape, Completes
    <2>2. Told(m.signed) = [kind |-> {m.operation}, id |-> None, body |-> r]
        BY <1>1, <2>1, CanonicalPayload DEF KindOf
    <2>3. BodyOf(m) = r
        BY <1>1, <2>1, SentBody
    <2>4. EssentialBody(m) = r
        BY <1>1, <2>1, <2>3, EssentialBodies DEF Transfers, Lists
    <2> QED
        BY <1>1, <2>2, <2>4, EssenceIs DEF Transfers
<1>3. CASE ~Completes(r)
    <2>1. /\ m.body = Object(WithAccount(WithAsset(r)))
          /\ m.signed = ObjectToSignable(WithPair(r))
          /\ DOMAIN r = {"asset", "location", "address"} /\ ReadOf(r.asset)
        BY <1>1, <1>3 DEF TemplateFields, TemplatePayload, TemplateShape
    <2> QED
        BY <1>1, <2>1, PairTold DEF Templates
<1> QED
    BY <1>2, <1>3

\* An address for forwarding signs the fields it sends.
LEMMA ForwardingTold ==
    ASSUME NEW m, NEW call \in Calls, MadeOf(m, call),
           call[1] = "createPersistentForwarding"
    PROVE  Essence(m) = Told(m.signed)
<1> DEFINE r == Requests[call]
           o == WithAsset(r)
<1>1. /\ m.operation = "createPersistentForwarding" /\ m.id = None
      /\ m.body = Object(WithAccount(o))
      /\ m.signed = ObjectToSignable(o) /\ m.signed # None
    BY DEF MadeOf, Method, UrlId, Fields, Payload, ForwardingFields, ForwardingPayload
<1>2. /\ {"sourceLocation", "asset"} \subseteq DOMAIN r
      /\ DOMAIN r \cap {"account", "value", "instruction", "data"} = {}
    BY ForwardingShaped DEF MadeOf
<1>3. DOMAIN o = DOMAIN r /\ o = [name \in DOMAIN o |-> o[name]]
    BY DEF WithAsset
<1> HIDE DEF r, o
<1>4. Told(m.signed) = [kind |-> {"createPersistentForwarding"}, id |-> None, body |-> o]
    BY <1>1, <1>2, <1>3, CanonicalPayload DEF KindOf
<1>5. BodyOf(m) = o
    BY <1>1, <1>2, <1>3, SentBody
<1>6. EssentialBody(m) = o
    BY <1>1, <1>5, EssentialBodies DEF Transfers, Lists, Templates
<1> QED
    BY <1>1, <1>4, <1>6, EssenceIs DEF Transfers

\* The others sign what they are for, and an id.
LEMMA TagIs ==
    ASSUME NEW operation \in Tagged
    PROVE  /\ {other \in Tagged : Tag(other) = Tag(operation)} = {operation}
           /\ Tag(operation) \in {Tag(other) : other \in TakesId} <=> operation \in TakesId
BY DEF Tagged, Tag, Lists, TakesId

\* A literal for an id has its two parts.
LEMMA IdLiteralIs ==
    ASSUME NEW tag, NEW id
    PROVE  /\ IdLiteral(tag, id)[1] = <<"literal", tag>>
           /\ IdLiteral(tag, id)[2] = <<"id", id>>
<1> DEFINE a == <<"literal", tag>>
           b == <<"id", id>>
           S == {a, b}
<1> HIDE DEF a, b
<1>1. <<a>> \in Seq(S) /\ <<b>> \in Seq(S) /\ Len(<<a>>) = 1 /\ Len(<<b>>) = 1
    OBVIOUS
<1>2. \A i \in 1..2 : (<<a>> \o <<b>>)[i] = IF i <= 1 THEN <<a>>[i] ELSE <<b>>[i - 1]
    BY <1>1, ConcatProperties
<1>3. (<<a>> \o <<b>>)[1] = a /\ (<<a>> \o <<b>>)[2] = b
    BY <1>2
<1> QED
    BY <1>3 DEF IdLiteral, Literal, a, b

\* The essence of the others is their operation and the id.
LEMMA TaggedTold ==
    ASSUME NEW m, NEW call \in Calls, MadeOf(m, call), call[1] \in Tagged
    PROVE  Essence(m) = Told(m.signed)
<1> DEFINE op == call[1]
           r == Requests[call]
<1>1. /\ m.operation = op /\ m.id = IF op \in TakesId THEN r.id ELSE None
      /\ m.body = IF op = "getTransferStatus" THEN None
                  ELSE Object(WithAccount(Fields(op, r)))
      /\ m.signed = Payload(op, r)
    BY DEF MadeOf, Method, UrlId, Tagged, Lists, TakesId
<1>2. Payload(op, r) = IF op \in TakesId THEN IdLiteral(Tag(op), r.id) ELSE Literal(Tag(op))
    BY DEF Payload, Tag, Tagged, Lists, TakesId
<1> HIDE DEF r
<1>3. /\ m.signed[1] = <<"literal", Tag(op)>>
      /\ op \in TakesId => m.signed[2] = <<"id", r.id>>
    BY <1>1, <1>2, IdLiteralIs DEF Literal
<1>4. Told(m.signed) = [kind |-> {op}, id |-> IF op \in TakesId THEN r.id ELSE None,
                        body |-> Empty]
    BY <1>3, TagIs DEF Told
<1>5. EssentialBody(m) = Empty
    <2>1. CASE op \in Lists
        BY <1>1, <2>1, EssentialBodies
    <2>2. CASE op = "getTransferStatus"
        <3>1. BodyOf(m) = Empty
            BY <1>1, <2>2 DEF BodyOf, Method
        <3> QED
            BY <1>1, <2>2, <3>1, EssentialBodies DEF Transfers, Lists, Templates
    <2>3. CASE op \notin Lists \cup {"getTransferStatus"}
        <3>1. Fields(op, r) = Empty
            BY <2>3 DEF Fields, Tagged, Lists, TakesId
        <3>2. DOMAIN Empty = {} /\ Empty = [name \in DOMAIN Empty |-> Empty[name]]
            BY DEF Empty
        <3>3. BodyOf(m) = Empty
            BY <1>1, <2>3, <3>1, <3>2, SentBody
        <3> QED
            BY <1>1, <2>3, <3>3, EssentialBodies DEF Transfers, Lists, Templates, Tagged, TakesId
    <2> QED
        BY <2>1, <2>2, <2>3
<1> QED
    BY <1>1, <1>4, <1>5, EssenceIs DEF Transfers, Tagged, Lists, TakesId

\* So of every message the essence is what its signature tells.
LEMMA EssenceTold ==
    ASSUME NEW m, NEW call \in Calls, MadeOf(m, call)
    PROVE  Essence(m) = Told(m.signed)
<1>1. call[1] \in Operation
    BY CallAssumption
<1> QED
    BY <1>1, TransferTold, ExecuteTold, SessionTold, TemplateTold, ForwardingTold, TaggedTold
       DEF Operation, Transfers, Tagged, Lists, TakesId

\* Two messages with the same signed payload ask the provider for the same: a signature
\* of one operation, of one asset, of one id or of one direction serves for no other.
THEOREM SignaturesTellApart == ClientsSpec => []SignedAlike
<1>1. ClientsInv => SignedAlike
    <2> SUFFICES ASSUME ClientsInv, NEW i \in DOMAIN log, NEW j \in DOMAIN log,
                        log[i].signed \notin {None, <<>>}, log[i].signed = log[j].signed
                 PROVE  Essence(log[i]) = Essence(log[j])
        BY DEF SignedAlike
    <2>1. PICK a \in Calls : MadeOf(log[i], a)
        BY DEF ClientsInv, LogInv
    <2>2. PICK b \in Calls : MadeOf(log[j], b)
        BY DEF ClientsInv, LogInv
    <2> QED
        BY <2>1, <2>2, EssenceTold
<1> QED
    BY <1>1, ClientsInvariance, PTL

-----------------------------------------------------------------------------
(* All the wanted providers *)

\* Every id that is to be listed is, from the document that counts for it.
LEMMA ListsAll ==
    ASSUME MergeInv, LookupInv, pc = "found", NEW id \in Id, Ranks(id) # {}, Listed(id)
    PROVE  \E i \in DOMAIN providers :
               providers[i] = [document |-> Winner(id), id |-> id]
<1>1. MergedByPriority
    BY MergedThen
<1>2. DOMAIN providers = 1..Len(providers)
    BY LenProperties DEF MergeInv, IInv, TypeOK
<1>3. id \in DOMAIN Placed /\ Placed[id] = [document |-> Winner(id), id |-> id]
    BY DEF Placed
<1>4. Placed[id] \in {providers[i] : i \in 1..Len(providers)}
    BY <1>1, <1>3 DEF MergedByPriority
<1> QED
    BY <1>2, <1>3, <1>4

\* Listings are in the order of the roots and of the ids, which is strict.
LEMMA Ordered ==
    ASSUME MergeInv
    PROVE  /\ DOMAIN providers \subseteq Nat
           /\ \A i, j \in DOMAIN providers : i < j => Before(providers[i], providers[j])
           /\ \A i, j \in DOMAIN providers :
                 Before(providers[i], providers[j]) => ~Before(providers[j], providers[i])
<1>1. providers \in Seq(Listing)
    BY DEF MergeInv, IInv, TypeOK
<1>2. DOMAIN providers = 1..Len(providers) /\ Len(providers) \in Nat
    BY <1>1, LenProperties
<1>3. \A i \in DOMAIN providers : providers[i] \in Listing
    BY <1>1, <1>2, ElementOfSeq
<1>4. \A i \in DOMAIN providers : providers[i].document \in Nat /\ providers[i].id \in Nat
    BY <1>3, ResolverAssumption DEF Listing
<1>5. \A i, j \in DOMAIN providers :
         Before(providers[i], providers[j]) => ~Before(providers[j], providers[i])
    BY <1>4 DEF Before
<1> QED
    BY <1>2, <1>5 DEF MergeInv

\* The client's search accepts what the reference definition says an entry
\* serves.
LEMMA AcceptsServes ==
    ASSUME NEW id, NEW entry, NEW search
    PROVE  Accepts(search, Info(id, entry)) <=> Serves(entry, search)
<1>1. \A path : PathMatches(search, path) <=>
        Len(path) = 2 /\ \E i \in {1, 2} : OrientationMatches(search, path[i], path[3 - i])
    BY DEF PathMatches
<1>2. Info(id, entry).supported = entry.supported
    BY DEF Info
<1> QED
    BY <1>1, <1>2 DEF Accepts, Serves

\* What a caller wants of an entry, whoever asks.
Sought(id, entry) ==
    /\ asked.filter.id \in {None, id} /\ asked.filter.account \in {None, entry.account}
    /\ asked.search = None \/ Serves(entry, asked.search)

\* The lookup's query, the search and the binding's filter together are what
\* was wanted.
LEMMA FilteredIs ==
    ASSUME MergeInv, LookupInv, service = "asset", NEW i \in DOMAIN providers
    PROVE  LET l == providers[i] IN
           i \in Filtered <=> Sought(l.id, published[l.document][l.id])
<1> DEFINE l == providers[i]
           entry == published[l.document][l.id]
           info == Info(l.id, entry)
<1>1. FilterAccepts(Criteria, info)
    BY FoundEntry, PlacedEntry
<1>2. info.id = l.id /\ info.account = entry.account
    BY DEF Info
<1>3. InfoOf(l) = info
    BY DEF InfoOf
<1>4. \A search : Accepts(search, info) <=> Serves(entry, search)
    BY AcceptsServes
<1>5. i \in Filtered <=>
        /\ asked.search = None \/ Accepts(asked.search, info)
        /\ asked.via = "rust" \/ FilterKeeps(asked.filter, info)
    BY <1>3 DEF Filtered, Searched
<1> HIDE DEF info, entry, l
<1>6. asked.via = "rust" \/ FilterKeeps(asked.filter, info) <=>
        asked.filter.id \in {None, l.id} /\ asked.filter.account \in {None, entry.account}
    BY <1>1, <1>2 DEF FilterAccepts, FilterKeeps, Criteria
<1> QED
    BY <1>4, <1>5, <1>6 DEF Sought, l, entry

\* The filtered providers are all the wanted ones.
LEMMA FilteredWanted ==
    ASSUME MergeInv, LookupInv, service = "asset", pc = "found"
    PROVE  {providers[i] : i \in Filtered} = Listings(Wanted)
<1>1. Filtered \subseteq DOMAIN providers
    BY DEF Filtered, Searched
<1>2. ASSUME NEW i \in Filtered PROVE providers[i] \in Listings(Wanted)
    <2> DEFINE id == providers[i].id
               entry == published[providers[i].document][id]
    <2>1. /\ id \in Id /\ Ranks(id) # {} /\ providers[i].document = Winner(id)
          /\ providers[i] = [document |-> Winner(id), id |-> id] /\ Genuine(entry)
        BY <1>1, FoundEntry
    <2>2. Sought(id, entry)
        BY <1>1, FilteredIs
    <2>3. id \in Wanted
        BY <2>1, <2>2 DEF Wanted, Sought
    <2> QED
        BY <2>1, <2>3 DEF Listings
<1>3. ASSUME NEW id \in Wanted
      PROVE  \E i \in Filtered : providers[i] = [document |-> Winner(id), id |-> id]
    <2> DEFINE entry == published[Winner(id)][id]
    <2>1. id \in Id /\ Ranks(id) # {} /\ Genuine(entry) /\ Sought(id, entry)
        BY DEF Wanted, Sought
    <2>2. FilterAccepts(Criteria, Info(id, entry))
        <3>1. Info(id, entry).id = id /\ Info(id, entry).account = entry.account
            BY DEF Info
        <3> HIDE DEF entry
        <3> QED
            BY <2>1, <3>1 DEF FilterAccepts, Criteria, NoFilter, Sought
    <2>3. Listed(id)
        BY <2>1, <2>2, PlacedEntry, SignedIsGenuine
    <2>4. PICK i \in DOMAIN providers : providers[i] = [document |-> Winner(id), id |-> id]
        BY <2>1, <2>3, ListsAll
    <2>5. providers[i].id = id /\ providers[i].document = Winner(id)
        BY <2>4
    <2>6. i \in Filtered
        BY <2>1, <2>5, FilteredIs
    <2> QED
        BY <2>4, <2>6
<1> QED
    BY <1>2, <1>3 DEF Listings

\* The first position is the listing before all others.
LEMMA FirstIsOffered ==
    ASSUME MergeInv
    PROVE  LET all == {providers[i] : i \in Filtered} IN
           {providers[i] : i \in {k \in Filtered : \A j \in Filtered : k <= j}}
             = {l \in all : \A other \in all \ {l} : Before(l, other)}
<1> DEFINE all == {providers[i] : i \in Filtered}
           first == {k \in Filtered : \A j \in Filtered : k <= j}
<1>1. Filtered \subseteq DOMAIN providers /\ Filtered \in SUBSET Nat
    BY Ordered DEF Filtered, Searched
<1>2. ASSUME NEW i \in first, NEW other \in all \ {providers[i]}
      PROVE  Before(providers[i], other)
    <2>1. PICK j \in Filtered : other = providers[j]
        OBVIOUS
    <2>2. i < j
        BY <1>1, <2>1
    <2> QED
        BY <1>1, <2>1, <2>2, Ordered
<1>3. ASSUME NEW l \in all, \A other \in all \ {l} : Before(l, other)
      PROVE  \E i \in first : l = providers[i]
    <2>1. PICK i \in Filtered : l = providers[i]
        OBVIOUS
    <2>2. PICK m \in Filtered : \A j \in Filtered : m <= j
        BY <1>1, <2>1, Least
    <2>3. CASE m = i
        BY <2>1, <2>2, <2>3
    <2>4. CASE m # i
        <3>1. m < i
            BY <1>1, <2>2, <2>4
        <3>2. Before(providers[m], l) /\ ~Before(l, providers[m])
            BY <1>1, <2>1, <3>1, Ordered
        <3>3. ~Before(l, l)
            BY <1>1, <2>1, Ordered
        <3>4. providers[m] \in all \ {l}
            BY <3>2, <3>3
        <3> QED
            BY <1>3, <3>2, <3>4
    <2> QED
        BY <2>3, <2>4
<1>4. first \subseteq Filtered
    OBVIOUS
<1> HIDE DEF first
<1> QED
    BY <1>2, <1>3, <1>4 DEF first

\* The asset movement half of FoundByHighestRoot.
LEMMA OffersAll ==
    ASSUME MergeInv, LookupInv, service = "asset", pc = "found"
    PROVE  OffersWanted
<1>1. Offered \subseteq Filtered /\ Filtered \subseteq DOMAIN providers
    BY DEF Offered, Filtered, Searched
<1>2. \A i, j \in Offered : i < j => Before(providers[i], providers[j])
    BY <1>1, Ordered
<1>3. CASE asked.filter = NoFilter
    <2>1. Offered = Filtered
        BY <1>3 DEF Offered
    <2> QED
        BY <1>2, <1>3, <2>1, FilteredWanted DEF OffersWanted
<1>4. CASE asked.filter # NoFilter
    <2>1. Offered = {k \in Filtered : \A j \in Filtered : k <= j}
        BY <1>4 DEF Offered
    <2>2. {providers[i] : i \in Offered} =
             {l \in {providers[i] : i \in Filtered} :
                 \A other \in {providers[i] : i \in Filtered} \ {l} : Before(l, other)}
        BY <2>1, FirstIsOffered
    <2> QED
        BY <1>2, <1>4, <2>2, FilteredWanted DEF OffersWanted
<1> QED
    BY <1>3, <1>4

\* The KYC half: every provider that serves the countries, and no other.
LEMMA ServedIsListed ==
    ASSUME MergeInv, LookupInv, AskedInv, service = "kyc", pc = "found"
    PROVE  Members(providers) = Listings(ServedBy(asked.countries))
<1>1. Members(providers) = {providers[i] : i \in DOMAIN providers}
    BY DEF Members
<1>2. asked # None
    BY DEF LookupInv, Init
<1>3. \A code \in Members(asked.countries) : code = <<code[1], "upper">>
    BY <1>2 DEF AskedInv
<1>4. \A id, json : KycMatches(id, json, asked.countries) <=>
         WellFormed(json) /\ \A code \in Members(asked.countries) : ServesCountry(json, code[1])
    BY <1>3, MatchesMeans
<1>5. ASSUME NEW i \in DOMAIN providers
      PROVE  providers[i] \in Listings(ServedBy(asked.countries))
    <2> DEFINE id == providers[i].id
               entry == published[providers[i].document][id]
    <2>1. /\ id \in Id /\ Ranks(id) # {} /\ providers[i].document = Winner(id)
          /\ providers[i] = [document |-> Winner(id), id |-> id] /\ Genuine(entry)
          /\ KycMatches(id, entry.json, asked.countries)
        BY FoundEntry
    <2>2. id \in ServedBy(asked.countries)
        BY <1>4, <2>1 DEF ServedBy
    <2> QED
        BY <2>1, <2>2 DEF Listings
<1>6. ASSUME NEW id \in ServedBy(asked.countries)
      PROVE  \E i \in DOMAIN providers : providers[i] = [document |-> Winner(id), id |-> id]
    <2> DEFINE entry == published[Winner(id)][id]
    <2>1. /\ id \in Id /\ Ranks(id) # {} /\ Genuine(entry)
          /\ KycMatches(id, entry.json, asked.countries)
        BY <1>4 DEF ServedBy
    <2>2. Listed(id)
        BY <2>1, PlacedEntry, SignedIsGenuine
    <2> QED
        BY <2>1, <2>2, ListsAll
<1> QED
    BY <1>1, <1>5, <1>6 DEF Listings

\* The JSON of a listing's entry.
JsonOf(listing) == published[listing.document][listing.id].json

\* What a provider that is listed is known to serve.
LEMMA CountriesOfListed ==
    ASSUME MergeInv, LookupInv, service = "kyc", NEW i \in DOMAIN providers
    PROVE  LET info == KycInfoOf(providers[i])
               json == JsonOf(providers[i])
           IN  /\ WellFormed(json)
               /\ "countryCodes" \in DOMAIN info <=> Given(json[2], "countryCodes")
               /\ "countryCodes" \in DOMAIN info => \A letters :
                    <<letters, "upper">> \in Members(info.countryCodes)
                        <=> ServesCountry(json, letters)
<1> DEFINE info == KycInfoOf(providers[i])
           json == JsonOf(providers[i])
           served == json[2].countryCodes[2]
<1>1. KycReadable(json)
    BY FoundEntry DEF KycMatches, JsonOf
<1>2. info = KycInfo(providers[i].id, json)
    BY DEF KycInfoOf, JsonOf
<1> HIDE DEF info, json
<1>3. /\ "countryCodes" \in DOMAIN info <=> Given(json[2], "countryCodes")
      /\ Given(json[2], "countryCodes") =>
           info.countryCodes = [k \in DOMAIN served |-> <<served[k][2][1], "upper">>]
    BY <1>1, <1>2, ReadCountries
<1>4. ASSUME "countryCodes" \in DOMAIN info, NEW letters
      PROVE  <<letters, "upper">> \in Members(info.countryCodes)
                <=> ServesCountry(json, letters)
    <2>1. info.countryCodes = [k \in DOMAIN served |-> <<served[k][2][1], "upper">>]
        BY <1>3, <1>4
    <2>2. ServesCountry(json, letters) <=> \E k \in DOMAIN served : served[k][2][1] = letters
        BY <1>3, <1>4 DEF ServesCountry
    <2> DEFINE codes == [k \in DOMAIN served |-> <<served[k][2][1], "upper">>]
    <2> HIDE DEF served
    <2>3. <<letters, "upper">> \in Members(codes)
            <=> \E k \in DOMAIN served : <<letters, "upper">> = codes[k]
        BY DEF Members
    <2>4. \A k \in DOMAIN served : codes[k] = <<letters, "upper">> <=> served[k][2][1] = letters
        OBVIOUS
    <2> HIDE DEF codes
    <2>5. info.countryCodes = codes
        BY <2>1 DEF codes
    <2> QED
        BY <2>2, <2>3, <2>4, <2>5
<1> QED
    BY <1>1, <1>3, <1>4, Readable DEF info, json

\* Who asks for a country finds one of the providers that are listed for all.
LEMMA ServedByOne ==
    ASSUME MergeInv, LookupInv, AskedInv, service = "kyc", pc = "found",
           asked.goal = "countries", NEW letters
    PROVE  ServedBy(<<<<letters, "upper">>>>) # {} <=>
              \E i \in DOMAIN providers : ServesCountry(JsonOf(providers[i]), letters)
<1>1. asked.countries = <<>>
    BY DEF AskedInv, LookupInv, Init
<1>2. Members(<<<<letters, "upper">>>>) = {<<letters, "upper">>} /\ Members(<<>>) = {}
    BY DEF Members
<1>3. \A id : id \in ServedBy(<<<<letters, "upper">>>>) <=>
        id \in ServedBy(<<>>) /\ ServesCountry(published[Winner(id)][id].json, letters)
    BY <1>2 DEF ServedBy
<1>4. {providers[i] : i \in DOMAIN providers} = Listings(ServedBy(<<>>))
    BY <1>1, ServedIsListed DEF Members
<1>5. ASSUME NEW id \in ServedBy(<<>>)
      PROVE  \E i \in DOMAIN providers : JsonOf(providers[i]) = published[Winner(id)][id].json
    <2>1. [document |-> Winner(id), id |-> id] \in {providers[i] : i \in DOMAIN providers}
        BY <1>4 DEF Listings
    <2>2. PICK i \in DOMAIN providers : providers[i] = [document |-> Winner(id), id |-> id]
        BY <2>1
    <2>3. providers[i].document = Winner(id) /\ providers[i].id = id
        BY <2>2
    <2> QED
        BY <2>3 DEF JsonOf
<1>6. ASSUME NEW i \in DOMAIN providers
      PROVE  \E id \in ServedBy(<<>>) : JsonOf(providers[i]) = published[Winner(id)][id].json
    <2>1. PICK id \in ServedBy(<<>>) : providers[i] = [document |-> Winner(id), id |-> id]
        BY <1>4 DEF Listings
    <2>2. providers[i].document = Winner(id) /\ providers[i].id = id
        BY <2>1
    <2> QED
        BY <2>2 DEF JsonOf
<1> QED
    BY <1>3, <1>5, <1>6

\* The supported countries are those for which someone who asks finds a
\* provider.
LEMMA SupportedAreFound ==
    ASSUME MergeInv, LookupInv, AskedInv, service = "kyc", pc = "found",
           asked.goal = "countries"
    PROVE  CountriesFound
<1> DEFINE infos == [i \in DOMAIN providers |-> KycInfoOf(providers[i])]
<1>1. /\ DOMAIN infos = DOMAIN providers
      /\ \A i \in DOMAIN providers : infos[i] = KycInfoOf(providers[i])
      /\ KycSupported = SupportedCountries(infos)
    BY DEF KycSupported
<1> HIDE DEF infos
<1>2. \A i \in DOMAIN providers :
        "countryCodes" \in DOMAIN infos[i] <=> Given(JsonOf(providers[i])[2], "countryCodes")
    BY <1>1, CountriesOfListed
<1>3. \A i \in DOMAIN providers : "countryCodes" \in DOMAIN infos[i] => \A letters :
        <<letters, "upper">> \in Members(infos[i].countryCodes)
            <=> ServesCountry(JsonOf(providers[i]), letters)
    BY <1>1, CountriesOfListed
<1> SUFFICES ASSUME NEW letters \in Country
             PROVE  (KycSupported = <<"worldwide">> \/ <<letters, "upper">> \in KycSupported[2])
                       <=> \E i \in DOMAIN providers :
                              ServesCountry(JsonOf(providers[i]), letters)
    BY ServedByOne DEF CountriesFound
<1>4. CASE \E i \in DOMAIN infos : "countryCodes" \notin DOMAIN infos[i]
    <2>1. PICK i \in DOMAIN infos : "countryCodes" \notin DOMAIN infos[i]
        BY <1>4
    <2>2. ServesCountry(JsonOf(providers[i]), letters)
        BY <1>1, <1>2, <2>1 DEF ServesCountry
    <2>3. KycSupported = <<"worldwide">>
        BY <1>1, <1>4 DEF SupportedCountries
    <2> QED
        BY <1>1, <2>2, <2>3
<1>5. CASE \A i \in DOMAIN infos : "countryCodes" \in DOMAIN infos[i]
    <2> DEFINE all == UNION {Members(infos[i].countryCodes) : i \in DOMAIN infos}
    <2>1. KycSupported = <<"countries", all>>
        BY <1>1, <1>5 DEF SupportedCountries
    <2>2. <<letters, "upper">> \in all <=>
             \E i \in DOMAIN infos : <<letters, "upper">> \in Members(infos[i].countryCodes)
        <3>1. ASSUME <<letters, "upper">> \in all
              PROVE  \E i \in DOMAIN infos :
                        <<letters, "upper">> \in Members(infos[i].countryCodes)
            BY <3>1
        <3>2. ASSUME NEW i \in DOMAIN infos,
                     <<letters, "upper">> \in Members(infos[i].countryCodes)
              PROVE  <<letters, "upper">> \in all
            BY <3>2
        <3> QED
            BY <3>1, <3>2
    <2> HIDE DEF all
    <2>3. KycSupported[2] = all /\ KycSupported # <<"worldwide">>
        <3>1. KycSupported[1] = "countries" /\ KycSupported[2] = all
            BY <2>1
        <3> QED
            BY <3>1
    <2> QED
        BY <1>1, <1>3, <1>5, <2>2, <2>3
<1> QED
    BY <1>4, <1>5

\* A finished lookup offers its caller, a host or a Rust program, exactly the genuine
\* providers that were wanted, each from the highest root that lists it, in order; and
\* the supported countries are those one would be found for.
THEOREM FindsByHighestRoot == ClientsSpec => []FoundByHighestRoot
<1>1. ClientsInv => FoundByHighestRoot
    <2> SUFFICES ASSUME ClientsInv, pc = "found" PROVE FoundByHighestRoot
        BY DEF FoundByHighestRoot
    <2>1. MergeInv /\ LookupInv /\ AskedInv
        BY DEF ClientsInv
    <2>2. CASE service = "asset"
        BY <2>1, <2>2, OffersAll DEF FoundByHighestRoot
    <2>3. CASE service = "kyc"
        <3>1. \A i, j \in DOMAIN providers : i < j => Before(providers[i], providers[j])
            BY <2>1, Ordered
        <3> QED
            BY <2>1, <2>3, <3>1, ServedIsListed, SupportedAreFound DEF FoundByHighestRoot
    <2> QED
        BY <2>1, <2>2, <2>3 DEF LookupInv
<1> QED
    BY <1>1, ClientsInvariance, PTL
=============================================================================
