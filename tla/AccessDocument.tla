--------------------------- MODULE AccessDocument ---------------------------
(***************************************************************************)
(* What an encrypted container promises its user, with no caches, ciphers  *)
(* or signatures: a document has a payload and, when it is sealed, a set   *)
(* of readers.  Exporting it records the payload together with exactly the *)
(* readers it has at that moment, and a document is opened from what some  *)
(* document exported earlier.  EncryptedContainer implements this module.  *)
(***************************************************************************)
CONSTANTS
    Key,        \* public keys of the accounts
    Payload     \* plaintext payloads

VARIABLES
    sealed,     \* the document is restricted to its readers
    payload,    \* its content
    readers,    \* the keys it is shared with; empty when not sealed
    exported,   \* every [sealed, payload, readers] that left a document
    last        \* what happened last: a document was created, opened or used

docVars == <<sealed, payload, readers, exported, last>>

Copy == [sealed : BOOLEAN, payload : Payload, readers : SUBSET Key]

DocTypeOK ==
    /\ sealed \in BOOLEAN
    /\ payload \in Payload
    /\ readers \in SUBSET Key
    /\ exported \in SUBSET Copy
    /\ last \in {"created", "opened", "used"}

DocInit ==
    /\ sealed = FALSE
    /\ payload \in Payload
    /\ readers = {}
    /\ exported = {}
    /\ last = "created"

\* A new document with any payload, sealed to any readers or open.
Create ==
    /\ last' = "created"
    /\ sealed' \in BOOLEAN
    /\ payload' \in Payload
    /\ readers' \in SUBSET Key
    /\ ~sealed' => readers' = {}
    /\ UNCHANGED exported

\* A document opened from an exported copy has that copy's readers.
OpenCopy(x) ==
    /\ last' = "opened"
    /\ sealed' = x.sealed
    /\ payload' = x.payload
    /\ readers' = x.readers
    /\ UNCHANGED exported

Replace(p) ==
    /\ payload' = p
    /\ last' = "used"
    /\ UNCHANGED <<sealed, readers, exported>>

Share(k) ==
    /\ sealed
    /\ readers' = readers \cup {k}
    /\ last' = "used"
    /\ UNCHANGED <<sealed, payload, exported>>

Unshare(k) ==
    /\ sealed
    /\ readers' = readers \ {k}
    /\ last' = "used"
    /\ UNCHANGED <<sealed, payload, exported>>

\* A sealed document without readers cannot leave.
Export ==
    /\ sealed => readers # {}
    /\ exported' = exported \cup
                     {[sealed |-> sealed, payload |-> payload, readers |-> readers]}
    /\ last' = "used"
    /\ UNCHANGED <<sealed, payload, readers>>

\* Reading, verifying and every refused call leave the document alone.
Observe ==
    /\ last' = "used"
    /\ UNCHANGED <<sealed, payload, readers, exported>>

DocNext ==
    \/ Create
    \/ Observe
    \/ Export
    \/ \E k \in Key : Share(k) \/ Unshare(k)
    \/ \E p \in Payload : Replace(p)
    \/ \E x \in exported : OpenCopy(x)

DocSpec == DocInit /\ [][DocNext]_docVars
=============================================================================
