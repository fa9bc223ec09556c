------------------------------ MODULE Resolver ------------------------------
(***************************************************************************)
(* Resolver::lookup (resolver/mod.rs): the documents of the root accounts  *)
(* are read one after the other, each expanded as MetadataExpansion says,  *)
(* and their service entries are merged by priority and filtered.          *)
(*                                                                         *)
(* A root may be read while its owner publishes another document: what a   *)
(* read finds is chosen when it happens.  An entry is abstracted to the    *)
(* verdicts of entry_signature_ok and of the query's parse on it.          *)
(***************************************************************************)
EXTENDS Naturals, Sequences, FiniteSets

CONSTANTS
    Roots,      \* the number of root accounts, in priority order
    Id          \* provider ids, in their order

ASSUME ResolverAssumption == Roots \in Nat /\ Id \subseteq Nat /\ IsFiniteSet(Id)

Entry == [signatureOk : BOOLEAN, matches : BOOLEAN]

\* The service entries of a document; a document without the service has none.
Document == UNION {[ids -> Entry] : ids \in SUBSET Id}

\* An entry as the document that ranks it: which document, which id.
Listing == [document : Nat, id : Id]

VARIABLES
    pc,         \* "reading", "merging", "found" or "no_metadata"
    root,       \* roots consulted so far
    documents,  \* the documents read, in priority order
    seen,       \* ids taken so far
    visited,    \* entries iterated so far, of the current document
    rank,       \* the document being merged
    providers   \* what lookup will return

vars == <<pc, root, documents, seen, visited, rank, providers>>
merge == <<seen, visited, rank, providers>>

TypeOK ==
    /\ pc \in {"reading", "merging", "found", "no_metadata"}
    /\ root \in 0..Roots
    /\ documents \in Seq(Document)
    /\ seen \subseteq Id
    /\ visited \subseteq Id
    /\ rank \in 1..(Roots + 1)
    /\ providers \in Seq(Listing)

-----------------------------------------------------------------------------
\* root_documents: a root that is read and whose expanded document has the
\* supported version.
ReadRoot(d) ==
    /\ pc = "reading" /\ root < Roots
    /\ root' = root + 1
    /\ documents' = Append(documents, d)
    /\ UNCHANGED <<pc, merge>>

\* An unreadable or unsupported root is skipped.
SkipRoot ==
    /\ pc = "reading" /\ root < Roots
    /\ root' = root + 1
    /\ UNCHANGED <<pc, documents, merge>>

AllRead ==
    /\ pc = "reading" /\ root = Roots
    /\ pc' = IF documents = <<>> THEN "no_metadata" ELSE "merging"
    /\ UNCHANGED <<root, documents, merge>>

Entries == documents[rank]

\* The next id of the document under the iteration in id order.
Upcoming(id) ==
    /\ id \in DOMAIN Entries \ visited
    /\ \A other \in DOMAIN Entries \ visited : id <= other

\* Mutant: an entry with a bad signature does not take its id.
SeenIfSigned(id) == IF Entries[id].signatureOk THEN seen \cup {id} ELSE seen

SeenWith(id) == seen \cup {id}

\* The entry is listed: its id is new, its signature verifies or is not there,
\* and the query accepts it.
Wins(id) == id \notin seen /\ Entries[id].signatureOk /\ Entries[id].matches

TakeEntry(id) ==
    /\ pc = "merging" /\ rank <= Len(documents)
    /\ Upcoming(id)
    /\ visited' = visited \cup {id}
    /\ seen' = SeenWith(id)
    /\ providers' = IF Wins(id)
                    THEN Append(providers, [document |-> rank, id |-> id])
                    ELSE providers
    /\ UNCHANGED <<pc, root, documents, rank>>

NextDocument ==
    /\ pc = "merging" /\ rank <= Len(documents)
    /\ DOMAIN Entries \subseteq visited
    /\ rank' = rank + 1
    /\ visited' = {}
    /\ UNCHANGED <<pc, root, documents, seen, providers>>

Return ==
    /\ pc = "merging" /\ rank > Len(documents)
    /\ pc' = "found"
    /\ UNCHANGED <<root, documents, merge>>

Init ==
    /\ pc = "reading"
    /\ root = 0
    /\ documents = <<>>
    /\ seen = {}
    /\ visited = {}
    /\ rank = 1
    /\ providers = <<>>

Next ==
    \/ \E d \in Document : ReadRoot(d)
    \/ SkipRoot
    \/ AllRead
    \/ \E id \in Id : TakeEntry(id)
    \/ NextDocument
    \/ Return

Spec == Init /\ [][Next]_vars
-----------------------------------------------------------------------------
(* Properties *)

\* The document whose entry counts for an id: the first that has one.
Ranks(id) == {i \in 1..Len(documents) : id \in DOMAIN documents[i]}
Winner(id) == CHOOSE i \in Ranks(id) : \A j \in Ranks(id) : i <= j

\* The order of a lookup: by priority and then by id.
Before(a, b) ==
    a.document < b.document \/ (a.document = b.document /\ a.id < b.id)

\* A lower-priority root never changes what a higher one decides: whatever is
\* listed stays what the documents up to its own say.
HigherRootsDecide ==
    \A i \in 1..Len(providers) :
        \A above \in 1..(providers[i].document - 1) :
            providers[i].id \notin DOMAIN documents[above]

\* Behind HigherRootsDecide: the ids of every document merged so far, and those
\* visited in the current one, are taken; a listing names a merged document.
Untouched == seen = {} /\ visited = {} /\ rank = 1 /\ providers = <<>>

IInv ==
    /\ TypeOK
    /\ Len(documents) <= root
    /\ rank <= Len(documents) + 1
    /\ pc = "reading" => Untouched
    /\ visited \subseteq seen
    /\ \A r \in 1..Len(documents) : r < rank => DOMAIN documents[r] \subseteq seen
    /\ \A i \in 1..Len(providers) : providers[i].document \in 1..Len(documents)
    /\ HigherRootsDecide

\* An id is listed for the first document that has it, and only when the entry
\* there is genuine and asked for: a bad one is not made up for by a lower root.
Listed(id) ==
    Ranks(id) # {} /\ LET entry == documents[Winner(id)][id]
                      IN  entry.signatureOk /\ entry.matches

\* The listings lookup is to return, by id.
Placed == [id \in {x \in Id : Listed(x)} |-> [document |-> Winner(id), id |-> id]]

\* What lookup returns is told by the documents alone: every id that counts,
\* once, in the order of the documents and of the ids.
MergedByPriority ==
    pc = "found" =>
        /\ \A i, j \in 1..Len(providers) : i < j => Before(providers[i], providers[j])
        /\ {providers[i] : i \in 1..Len(providers)} = {Placed[id] : id \in DOMAIN Placed}

\* Behind MergedByPriority: what is listed counts, and was visited before what
\* is left of its document; of the ids taken, all that count are listed.
Passed(listing) ==
    listing.document < rank \/ (listing.document = rank /\ listing.id \in visited)

MergeInv ==
    /\ IInv
    /\ pc = "found" => rank > Len(documents)
    /\ rank <= Len(documents) =>
          \A v \in visited : \A w \in DOMAIN Entries \ visited : v < w
    /\ \A i \in 1..Len(providers) :
          /\ Passed(providers[i])
          /\ providers[i].id \in DOMAIN Placed /\ providers[i] = Placed[providers[i].id]
    /\ \A id \in seen \cap DOMAIN Placed :
          \E i \in 1..Len(providers) : providers[i] = Placed[id]
    /\ \A i, j \in 1..Len(providers) : i < j => Before(providers[i], providers[j])
=============================================================================
