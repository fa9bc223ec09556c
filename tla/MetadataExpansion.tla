------------------------- MODULE MetadataExpansion -------------------------
(***************************************************************************)
(* Resolver::resolve_external_urls (resolver/mod.rs): every ExternalURL    *)
(* node of a metadata document is replaced with the document it points to, *)
(* at any depth, with a stack of paths still to visit.  A visit that reads *)
(* a location awaits; each is a step here.                                 *)
(*                                                                         *)
(* A document is the map from the paths of its nodes to the nodes: an      *)
(* object or array, a leaf, null, or the URL of an ExternalURL node.  What *)
(* each URL serves is fixed for one expansion.                             *)
(***************************************************************************)
EXTENDS Naturals, Sequences, FiniteSets

CONSTANTS
    Url,
    Key,        \* keys of an object in their order, or indices of an array
    Unreadable  \* a failed read, or a location of an unsupported scheme

ASSUME KeyAssumption == Key \subseteq Nat /\ IsFiniteSet(Key)

\* An expansion that ends has met finitely many locations.
ASSUME FiniteAssumption == IsFiniteSet(Url)

Node == {"object", "leaf", "null"} \cup Url

\* A document as one location serves it: a single node, or an object of them.
Fields == UNION {[ks -> {"leaf"} \cup Url] : ks \in SUBSET Key}
Document == [node : {"leaf"} \cup Url, fields : [{} -> {"leaf"}]]
            \cup [node : {"object"}, fields : Fields]

ASSUME UrlAssumption ==
    /\ Url \cap {"object", "leaf", "null"} = {}
    /\ Unreadable \notin Document

VARIABLES
    served,     \* what each URL serves
    root,       \* the document that is expanded, as it was read
    tree,       \* the document, a function from paths to nodes
    pending     \* the stack of paths to visit, each with its chain of URLs

vars == <<served, root, tree, pending>>

Visit == [path : Seq(Key), ancestors : SUBSET Url]

TypeOK ==
    /\ served \in [Url -> Document \cup {Unreadable}]
    /\ root \in Document
    /\ DOMAIN tree \subseteq Seq(Key)
    /\ tree \in [DOMAIN tree -> Node]
    /\ pending \in Seq(Visit)

-----------------------------------------------------------------------------
\* set_at: doc takes the place of the node at path, which has no children.
Graft(t, path, doc) ==
    LET below == {Append(path, k) : k \in DOMAIN doc.fields}
    IN  [p \in DOMAIN t \cup {path} \cup below |->
            IF p = path THEN doc.node
            ELSE IF p \in below THEN doc.fields[p[Len(p)]]
            ELSE t[p]]

Nulled(t, path) == [t EXCEPT ![path] = "null"]

ChildKeys(path) == {k \in Key : Append(path, k) \in DOMAIN tree}

\* The i-th smallest key of ks.
Nth(ks, i) == CHOOSE k \in ks : Cardinality({j \in ks : j < k}) = i - 1

\* push_children: in the order of the keys, so that the last is visited first.
Children(path, ancestors) ==
    LET ks == ChildKeys(path)
    IN  [i \in 1..Cardinality(ks) |->
            [path |-> Append(path, Nth(ks, i)), ancestors |-> ancestors]]

Top == pending[Len(pending)]
Popped == SubSeq(pending, 1, Len(pending) - 1)
Found == tree[Top.path]

\* Mutant: references of other branches count as ancestors.
ChainOfAll(url) == Top.ancestors \cup (Url \cap {tree[p] : p \in DOMAIN tree})

\* The chain an expanded node's replacement is visited with.
Chain(url) == Top.ancestors \cup {url}

Cyclic(url) == url \in Top.ancestors

\* expand_external on a reference back into its own chain.
CutCycle ==
    /\ pending # <<>>
    /\ Found \in Url /\ Cyclic(Found)
    /\ tree' = Nulled(tree, Top.path)
    /\ pending' = Popped
    /\ UNCHANGED <<served, root>>

\* Mutant: a location that cannot be read is tried again.
ReadFailsRetrying ==
    /\ pending # <<>>
    /\ Found \in Url /\ ~Cyclic(Found)
    /\ served[Found] = Unreadable
    /\ UNCHANGED vars

ReadFails ==
    /\ pending # <<>>
    /\ Found \in Url /\ ~Cyclic(Found)
    /\ served[Found] = Unreadable
    /\ tree' = Nulled(tree, Top.path)
    /\ pending' = Popped
    /\ UNCHANGED <<served, root>>

\* Mutant: the replacement is not queued.
ExpandOnce ==
    /\ pending # <<>>
    /\ Found \in Url /\ ~Cyclic(Found)
    /\ served[Found] # Unreadable
    /\ tree' = Graft(tree, Top.path, served[Found])
    /\ pending' = Popped
    /\ UNCHANGED <<served, root>>

Expand ==
    /\ pending # <<>>
    /\ Found \in Url /\ ~Cyclic(Found)
    /\ served[Found] # Unreadable
    /\ tree' = Graft(tree, Top.path, served[Found])
    /\ pending' = Append(Popped, [path |-> Top.path, ancestors |-> Chain(Found)])
    /\ UNCHANGED <<served, root>>

PushChildren ==
    /\ pending # <<>>
    /\ Found \notin Url
    /\ pending' = Popped \o Children(Top.path, Top.ancestors)
    /\ UNCHANGED <<served, root, tree>>

Init ==
    /\ served \in [Url -> Document \cup {Unreadable}]
    /\ root \in Document
    /\ tree = Graft(<<>>, <<>>, root)
    /\ pending = <<[path |-> <<>>, ancestors |-> {}]>>

Next == CutCycle \/ ReadFails \/ Expand \/ PushChildren

Spec == Init /\ [][Next]_vars

\* Every read is answered or fails.
FairSpec == Spec /\ WF_vars(Next)
-----------------------------------------------------------------------------
(* Properties *)

\* The nodes a document expands to, by recursion over the chain of URLs above
\* it: a set of path and node pairs.
Single(node) == [node |-> node, fields |-> <<>>]
Below(k, nodes) == {<<(<<k>> \o pn[1]), pn[2]>> : pn \in nodes}

\* One step of the recursion, given what every place expands to.
Expanded(expansion, chain, doc) ==
    IF doc.node = "object"
    THEN {<<(<<>>), "object">>} \cup
         UNION {Below(k, expansion[<<chain, Single(doc.fields[k])>>]) :
                   k \in DOMAIN doc.fields}
    ELSE IF doc.node = "leaf" THEN {<<(<<>>), "leaf">>}
    ELSE IF doc.node \in chain \/ served[doc.node] = Unreadable
         THEN {<<(<<>>), "null">>}
    ELSE expansion[<<chain \cup {doc.node}, served[doc.node]>>]

Expansion[place \in (SUBSET Url) \X Document] == Expanded(Expansion, place[1], place[2])

\* With nothing left to visit the document is what the recursive definition
\* gives: a reference became null exactly when it is unreadable or lies on its
\* own chain, and a reference that two places share is expanded in both.
ExpandedRight ==
    pending = <<>> => {<<p, tree[p]>> : p \in DOMAIN tree} = Expansion[<<{}, root>>]

\* A node that is still a reference has a visit to it, or to a node above it,
\* on the stack: no order of visits loses one.
IsPrefixOf(p, q) == Len(p) <= Len(q) /\ \A i \in 1..Len(p) : q[i] = p[i]

NoReferenceForgotten ==
    \A p \in DOMAIN tree : tree[p] \in Url =>
        \E i \in 1..Len(pending) : IsPrefixOf(pending[i].path, p)

\* The invariant the proofs rest on: above every node are objects, and every
\* visit is to a node.
Rooted ==
    \A q \in DOMAIN tree : \A n \in 0..(Len(q) - 1) :
        SubSeq(q, 1, n) \in DOMAIN tree /\ tree[SubSeq(q, 1, n)] = "object"

IInv ==
    /\ TypeOK
    /\ Rooted
    /\ \A i \in 1..Len(pending) : pending[i].path \in DOMAIN tree
    /\ NoReferenceForgotten

\* Behind ExpandedRight: no visit is to a node below another's, what lies below
\* the node of a visit is what its location served, and the nodes that are
\* settled make up the result with what the visits will come to.
DocumentAt(t, path) ==
    [node |-> t[path],
     fields |-> [k \in {k \in Key : Append(path, k) \in DOMAIN t} |-> t[Append(path, k)]]]

Rebased(path, nodes) == {<<path \o pn[1], pn[2]>> : pn \in nodes}

Awaited(t, visit) ==
    Rebased(visit.path, Expansion[<<visit.ancestors, DocumentAt(t, visit.path)>>])

Settled(t, visits) == {p \in DOMAIN t : \A v \in visits : ~IsPrefixOf(v.path, p)}

Foretold(t, visits) ==
    {<<p, t[p]>> : p \in Settled(t, visits)} \cup UNION {Awaited(t, v) : v \in visits}

Apart(visits) ==
    \A i, j \in 1..Len(visits) : i # j => ~IsPrefixOf(visits[i].path, visits[j].path)

Shallow(t, visit) ==
    /\ DocumentAt(t, visit.path) \in Document
    /\ \A q \in DOMAIN t : IsPrefixOf(visit.path, q) => Len(q) <= Len(visit.path) + 1

ExpansionInv ==
    /\ IInv
    /\ Apart(pending)
    /\ \A i \in 1..Len(pending) : Shallow(tree, pending[i])
    /\ Foretold(tree, {pending[i] : i \in 1..Len(pending)}) = Expansion[<<{}, root>>]

\* Every expansion ends, also when locations refer to each other in circles.
Terminates == <>(pending = <<>>)
=============================================================================
