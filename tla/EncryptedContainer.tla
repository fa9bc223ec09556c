------------------------- MODULE EncryptedContainer -------------------------
(***************************************************************************)
(* One EncryptedContainer value of encrypted_container/mod.rs with the     *)
(* wire format of encrypted_container/codec.rs, and the pool of blobs that *)
(* containers have handed out.  The live container is replaced whenever a  *)
(* constructor runs, so the module covers a sender that seals and shares a *)
(* payload, and every holder that later opens one of the shared blobs,     *)
(* changes it and shares it again.                                         *)
(*                                                                         *)
(* Data is abstract.  A payload stands for its compressed bytes too        *)
(* (compress is deterministic).  An account is its key and whether its     *)
(* private half is held; the principal list is, per key, the best access   *)
(* any entry of the list gives, because decryption tries every entry and   *)
(* revocation drops every entry of a key.  CipherMaterial::random returns  *)
(* a body key never used before.                                           *)
(***************************************************************************)
EXTENDS Naturals, FiniteSets

CONSTANTS
    Key,        \* type-prefixed public keys
    Payload,    \* plaintext payloads
    CipherKey,  \* AES body keys still to be drawn: bounds the encodings
    MaxPublished, \* bound on the blobs handed out
    None        \* the absent Option

Access == {"absent", "public", "private"}
NoPrincipals == [k \in Key |-> "absent"]
Account == [key : Key, private : BOOLEAN]

\* SignerInfo: who signed and the payload whose compressed bytes it covers.
SignerInfo == [sid : Key, over : Payload]

(***************************************************************************)
(* An encoded container.  An encrypted one lists the keys the body key is  *)
(* wrapped to (its key stores).                                            *)
(***************************************************************************)
Blob == [encrypted : BOOLEAN, stores : SUBSET Key, cek : CipherKey \cup {None},
         body : Payload, sig : SignerInfo \cup {None}]

ASSUME NoneAssumption ==
    /\ None \notin CipherKey
    /\ None \notin Payload
    /\ None \notin SignerInfo
    /\ None \notin Account
    /\ None \notin Blob

VARIABLES
    encrypted,      \* EncryptedContainer.encrypted
    principals,     \* .principals, as [Key -> Access]
    mayAccess,      \* .may_access_plaintext
    signer,         \* .signer
    parsed,         \* .parsed_signer_info
    plaintext,      \* .plaintext, the decoded form when computed
    encoded,        \* .encoded, the encoded form when computed
    published,      \* blobs returned by get_encoded so far
    spent,          \* body keys drawn so far
    result          \* how the last call returned

sealing == <<encrypted, principals>>
forms == <<plaintext, encoded>>
vars == <<encrypted, principals, mayAccess, signer, parsed, plaintext,
          encoded, published, spent, result>>

KeysOf(ps) == {k \in Key : ps[k] # "absent"}

TypeOK ==
    /\ encrypted \in BOOLEAN
    /\ principals \in [Key -> Access]
    /\ mayAccess \in BOOLEAN
    /\ signer \in Account \cup {None}
    /\ parsed \in SignerInfo \cup {None}
    /\ plaintext \in Payload \cup {None}
    /\ encoded \in Blob \cup {None}
    /\ published \in SUBSET Blob
    /\ spent \in SUBSET CipherKey
    /\ result \in {"created", "opened", "ok", "refused", "valid", "invalid"}

-----------------------------------------------------------------------------
(* Wire format (codec.rs) *)

\* Mutant: provided accounts without a key store are kept as principals.
MergeKeepingProvided(stores, provided) ==
    [k \in Key |-> IF provided[k] = "private" THEN "private"
                   ELSE IF k \in stores THEN "public" ELSE provided[k]]

\* merge_principals: one account per key store, the provided one when it
\* matches, else a public-only account; unmatched provided ones are dropped.
Merge(stores, provided) ==
    [k \in Key |-> IF k \notin stores THEN "absent"
                   ELSE IF provided[k] = "private" THEN "private" ELSE "public"]

\* unwrap_symmetric_key: some principal of a key store holds a private key.
Unwraps(blob, ps) == \E k \in blob.stores : ps[k] = "private"

\* compute_encoded reaches a blob only with a plaintext, for a recipient if it is
\* to be encrypted, and with a signer that holds its private key.
Encodable ==
    /\ plaintext # None
    /\ encrypted => KeysOf(principals) # {}
    /\ signer # None => signer.private

\* Mutant: the body key of an earlier encoding may be used again.
EncodingsReusingKey ==
    {[encrypted |-> encrypted,
      stores |-> IF encrypted THEN KeysOf(principals) ELSE {},
      cek |-> m,
      body |-> plaintext,
      sig |-> IF signer = None THEN None
              ELSE [sid |-> signer.key, over |-> plaintext]] :
        m \in IF encrypted THEN CipherKey ELSE {None}}

\* encode_encrypted / encode_plaintext: what compute_encoded may produce now.
\* An encrypted encoding draws its body key afresh.
Encodings ==
    {[encrypted |-> encrypted,
      stores |-> IF encrypted THEN KeysOf(principals) ELSE {},
      cek |-> m,
      body |-> plaintext,
      sig |-> IF signer = None THEN None
              ELSE [sid |-> signer.key, over |-> plaintext]] :
        m \in IF encrypted THEN CipherKey \ spent ELSE {None}}

\* codec::verify
Verifies(info, body) == info.over = body

-----------------------------------------------------------------------------
(* compute_and_set_key_info and decode_from_encoded *)

\* The encoded form agrees with the encryption state, so that parsing it for
\* decoding raises neither EncryptionRequired nor InvalidPrincipals.
Parses == encoded # None /\ encrypted = encoded.encrypted

ParsedPrincipals ==
    IF encoded.encrypted THEN Merge(encoded.stores, principals) ELSE NoPrincipals

ParsedSigner(before) == IF encoded.sig # None THEN encoded.sig ELSE before

Decodes == Parses /\ (encoded.encrypted => Unwraps(encoded, ParsedPrincipals))

\* compute_plaintext when it succeeds: the three fields it leaves behind.
HasPlaintext == plaintext # None \/ Decodes
PlaintextNow == IF plaintext # None THEN plaintext ELSE encoded.body
PrincipalsNow == IF plaintext # None THEN principals ELSE ParsedPrincipals
ParsedNow == IF plaintext # None THEN parsed ELSE ParsedSigner(parsed)

\* Mutant: the encoding is dropped before the plaintext was computed.
PlaintextUnavailableDropping ==
    /\ ~HasPlaintext
    /\ encoded' = None
    /\ result' = "refused"
    /\ UNCHANGED <<encrypted, principals, parsed, mayAccess, signer, plaintext,
                   published, spent>>

\* compute_plaintext when it fails: the blob was parsed but not decrypted.
PlaintextUnavailable ==
    /\ ~HasPlaintext
    /\ IF Parses
       THEN principals' = ParsedPrincipals /\ parsed' = ParsedSigner(parsed)
       ELSE UNCHANGED <<principals, parsed>>
    /\ result' = "refused"
    /\ UNCHANGED <<encrypted, mayAccess, signer, forms, published, spent>>

-----------------------------------------------------------------------------
(* Constructors: the live container is replaced *)

FromPlaintext(p, sealed, ps, locked, s) ==
    /\ encrypted' = sealed
    /\ principals' = IF sealed THEN ps ELSE NoPrincipals
    /\ mayAccess' = ~locked
    /\ signer' = s
    /\ parsed' = None
    /\ plaintext' = p
    /\ encoded' = None
    /\ result' = "created"
    /\ UNCHANGED <<published, spent>>

\* from_encoded and from_encrypted; an encrypted blob needs principals to be
\* supplied (an empty list is enough), a plaintext one ignores them.
FromEncoded(b, provided) ==
    /\ encrypted' = b.encrypted
    /\ principals' = IF b.encrypted THEN Merge(b.stores, provided) ELSE NoPrincipals
    /\ mayAccess' = TRUE
    /\ signer' = None
    /\ parsed' = b.sig
    /\ plaintext' = None
    /\ encoded' = b
    /\ result' = "opened"
    /\ UNCHANGED <<published, spent>>

-----------------------------------------------------------------------------
(* Methods *)

\* Mutant: the cached encoding survives the new plaintext.
SetPlaintextKeepingEncoding(p) ==
    /\ plaintext' = p
    /\ result' = "ok"
    /\ UNCHANGED <<sealing, mayAccess, signer, parsed, encoded, published, spent>>

SetPlaintext(p) ==
    /\ plaintext' = p
    /\ encoded' = None
    /\ result' = "ok"
    /\ UNCHANGED <<sealing, mayAccess, signer, parsed, published, spent>>

DisablePlaintext ==
    /\ mayAccess' = FALSE
    /\ result' = "ok"
    /\ UNCHANGED <<sealing, signer, parsed, forms, published, spent>>

GetPlaintext ==
    \/ /\ mayAccess
       /\ HasPlaintext
       /\ plaintext' = PlaintextNow
       /\ principals' = PrincipalsNow
       /\ parsed' = ParsedNow
       /\ result' = "ok"
       /\ UNCHANGED <<encrypted, mayAccess, signer, encoded, published, spent>>
    \/ mayAccess /\ PlaintextUnavailable
    \/ /\ ~mayAccess
       /\ result' = "refused"
       /\ UNCHANGED <<sealing, mayAccess, signer, parsed, forms, published, spent>>

\* Bound: the pool of blobs takes b in.
Room(b) == b \in published \/ Cardinality(published) < MaxPublished

\* The cached encoding is returned as it is; otherwise it is computed first.
GetEncoded ==
    \/ /\ encoded # None
       /\ Room(encoded)
       /\ published' = published \cup {encoded}
       /\ result' = "ok"
       /\ UNCHANGED <<sealing, mayAccess, signer, parsed, forms, spent>>
    \/ /\ encoded = None
       /\ Encodable
       /\ \E b \in Encodings :
             /\ Room(b)
             /\ encoded' = b
             /\ published' = published \cup {b}
             /\ spent' = spent \cup ({b.cek} \ {None})
       /\ result' = "ok"
       /\ UNCHANGED <<sealing, mayAccess, signer, parsed, plaintext>>
    \/ /\ encoded = None
       /\ ~Encodable
       /\ result' = "refused"
       /\ UNCHANGED <<sealing, mayAccess, signer, parsed, forms, published, spent>>

\* The principal list after one key is listed (again) or dropped.
Relist(ps, k, access) ==
    [ps EXCEPT ![k] = IF access = "absent" THEN "absent"
                      ELSE IF "private" \in {@, access} THEN "private" ELSE "public"]

\* grant_access and revoke_access share their shape: the plaintext is computed
\* first, then access management is checked, then the list changes and the
\* encoding is dropped.  Refused on a plaintext container, the plaintext that
\* was computed on the way stays.
ChangeAccess(k, access) ==
    \/ /\ encrypted
       /\ HasPlaintext
       /\ plaintext' = PlaintextNow
       /\ principals' = Relist(PrincipalsNow, k, access)
       /\ parsed' = ParsedNow
       /\ encoded' = None
       /\ result' = "ok"
       /\ UNCHANGED <<encrypted, mayAccess, signer, published, spent>>
    \/ /\ ~encrypted
       /\ HasPlaintext
       /\ plaintext' = PlaintextNow
       /\ principals' = PrincipalsNow
       /\ parsed' = ParsedNow
       /\ result' = "refused"
       /\ UNCHANGED <<encrypted, mayAccess, signer, encoded, published, spent>>
    \/ PlaintextUnavailable

GrantAccess(k, access) == access # "absent" /\ ChangeAccess(k, access)

\* Mutant: revoking edits the list and forgets the cached encoding.
RevokeAccessKeepingEncoding(k) ==
    /\ encrypted
    /\ HasPlaintext
    /\ plaintext' = PlaintextNow
    /\ principals' = Relist(PrincipalsNow, k, "absent")
    /\ result' = "ok"
    /\ UNCHANGED <<encrypted, mayAccess, signer, parsed, encoded, published, spent>>

RevokeAccess(k) == ChangeAccess(k, "absent")

TakeSigningAccount ==
    /\ signer' = IF signer = None THEN None ELSE [signer EXCEPT !.private = FALSE]
    /\ result' = "ok"
    /\ UNCHANGED <<sealing, mayAccess, parsed, forms, published, spent>>

\* verify_signature.  ensure_signer_info_parsed encodes and parses when a signer
\* is attached and nothing was parsed; the signature is then copied, and only
\* afterwards is the encoded form decoded, which refreshes parsed.
NeedsSignerInfo == parsed = None /\ signer # None

CheckSignature(blob, info) ==
    /\ result' = IF /\ info # None
                    /\ encrypted = blob.encrypted
                    /\ encrypted => Unwraps(blob, Merge(blob.stores, principals))
                 THEN IF Verifies(info, blob.body) THEN "valid" ELSE "invalid"
                 ELSE "refused"
    /\ IF info # None /\ encrypted = blob.encrypted
       THEN /\ principals' = IF blob.encrypted THEN Merge(blob.stores, principals)
                             ELSE NoPrincipals
            /\ parsed' = IF blob.sig # None THEN blob.sig ELSE info
       ELSE /\ parsed' = info
            /\ UNCHANGED principals

VerifySignature ==
    \/ /\ ~NeedsSignerInfo
       /\ encoded # None
       /\ CheckSignature(encoded, parsed)
       /\ UNCHANGED <<encrypted, mayAccess, signer, forms, published, spent>>
    \/ /\ NeedsSignerInfo
       /\ encoded # None
       /\ CheckSignature(encoded, encoded.sig)
       /\ UNCHANGED <<encrypted, mayAccess, signer, forms, published, spent>>
    \/ /\ NeedsSignerInfo
       /\ encoded = None
       /\ Encodable
       /\ \E b \in Encodings :
             /\ encoded' = b
             /\ spent' = spent \cup ({b.cek} \ {None})
             /\ CheckSignature(b, b.sig)
       /\ UNCHANGED <<encrypted, mayAccess, signer, plaintext, published>>
    \/ /\ encoded = None
       /\ ~(NeedsSignerInfo /\ Encodable)
       /\ result' = "refused"
       /\ UNCHANGED <<sealing, mayAccess, signer, parsed, forms, published, spent>>

-----------------------------------------------------------------------------
Init ==
    /\ encrypted = FALSE
    /\ principals = NoPrincipals
    /\ mayAccess = TRUE
    /\ signer = None
    /\ parsed = None
    /\ plaintext \in Payload
    /\ encoded = None
    /\ published = {}
    /\ spent = {}
    /\ result = "created"

Next ==
    \/ \E p \in Payload, sealed \in BOOLEAN, ps \in [Key -> Access],
          locked \in BOOLEAN, s \in Account \cup {None} :
             FromPlaintext(p, sealed, ps, locked, s)
    \/ \E b \in published, provided \in [Key -> Access] : FromEncoded(b, provided)
    \/ \E p \in Payload : SetPlaintext(p)
    \/ DisablePlaintext
    \/ GetPlaintext
    \/ GetEncoded
    \/ \E k \in Key, access \in Access : GrantAccess(k, access)
    \/ \E k \in Key : RevokeAccess(k)
    \/ TakeSigningAccount
    \/ VerifySignature

Spec == Init /\ [][Next]_vars
-----------------------------------------------------------------------------
(* Properties *)

\* The two forms of the container never disagree: a cached encoding lists
\* exactly the current principals, is sealed when the container is, and holds
\* the cached plaintext, whatever mix of set_plaintext, grant_access,
\* revoke_access, get_encoded and verify_signature filled the caches.
Coherent ==
    encoded # None =>
        /\ encoded.encrypted = encrypted
        /\ encrypted => encoded.stores = KeysOf(principals)
        /\ plaintext # None => encoded.body = plaintext

\* The content is never lost: every method that drops the encoding has the
\* plaintext in hand first, so one of the two forms is always there.
Recoverable == plaintext # None \/ encoded # None

\* Whoever holds a published blob's body key can open it; a body key is learnt
\* from any published blob it was wrapped in.
Openers(b, pool) ==
    {k \in Key : \E b2 \in pool : b2.cek = b.cek /\ k \in b2.stores}

\* A blob that leaves the container can be opened by the principals of that
\* moment and nobody else: a revoked account does not open it, neither with a
\* stale cached encoding nor with a body key it was given before.
OnlyPrincipalsOpen ==
    [][\A b \in published' \ published :
          b.encrypted => Openers(b, published') = KeysOf(principals')]_vars

\* Every blob ever handed out stays closed to whoever it was not sealed to.
SealedForGood ==
    \A b \in published : b.encrypted => Openers(b, published) = b.stores

\* The invariant the proofs rest on.  Blobs, the cached one included, are well
\* formed and no two of them share a body key; an unsealed container lists
\* nobody; an attached signer is the author of what was parsed.  Of blobs this
\* code made alone, the signatures are authentic too.
Blobs == published \cup ({encoded} \ {None})

WellFormed(b) ==
    /\ b.encrypted => b.cek \in spent /\ b.stores # {}
    /\ ~b.encrypted => b.cek = None /\ b.stores = {}

KeyPerBlob == \A b1, b2 \in Blobs : b1.encrypted /\ b1.cek = b2.cek => b1 = b2

Authentic == \A b \in Blobs : b.sig # None => Verifies(b.sig, b.body)

SignerIsAuthor ==
    signer # None =>
        /\ parsed # None => parsed.sid = signer.key
        /\ encoded # None /\ encoded.sig # None => encoded.sig.sid = signer.key

IInv ==
    /\ TypeOK
    /\ Coherent
    /\ Recoverable
    /\ \A b \in Blobs : WellFormed(b)
    /\ KeyPerBlob
    /\ ~encrypted => principals = NoPrincipals
    /\ SignerIsAuthor

\* What the container holds, whichever form it holds it in.
Content == IF plaintext # None THEN plaintext ELSE encoded.body

\* A call that returns an error leaves the document as it was: its content,
\* who it is shared with, who signs it and the encoding it had cached.
RefusalsChangeNothing ==
    [][result' = "refused" =>
          /\ encoded # None => encoded' = encoded
          /\ Content' = Content
          /\ encrypted' = encrypted
          /\ KeysOf(principals') = KeysOf(principals)
          /\ signer' = signer]_vars

\* verify_signature answers true only for a signature over the very content
\* the container would show, and the account it checked is the one
\* signing_account reports.
ValidIsAuthentic ==
    [][result' = "valid" =>
          /\ parsed' # None
          /\ signer' # None => signer'.key = parsed'.sid
          /\ parsed'.over = Content']_vars

\* The container is an AccessDocument: caches, key material and signatures
\* neither add nor lose a reader or a content.
Readers == IF encrypted THEN KeysOf(principals) ELSE {}
CopyOf(b) == [sealed |-> b.encrypted, payload |-> b.body, readers |-> b.stores]
Copies == {CopyOf(b) : b \in published}

LastUse == IF result \in {"created", "opened"} THEN result ELSE "used"

Document == INSTANCE AccessDocument WITH
    sealed <- encrypted, payload <- Content, readers <- Readers, exported <- Copies,
    last <- LastUse

ImplementsDocument == Document!DocSpec

-----------------------------------------------------------------------------
(* Statements of the source that the code does not keep *)

\* codec.rs says verify answers false for an incorrect signature: then the
\* encoding the container now caches must not carry a correct one.
InvalidMeansIncorrect ==
    [][result' = "invalid" =>
          ~(encoded'.sig # None /\ Verifies(encoded'.sig, encoded'.body))]_vars

\* The module documentation says a signature stays valid across re-encryption:
\* when a signed blob is opened and only its principals change, whatever the
\* container encodes next still carries a signature.
SignatureSurvives ==
    [][(/\ encoded # None /\ encoded.sig # None
        /\ encoded' = None
        /\ principals' # principals
        /\ plaintext' = Content
        /\ parsed' # None)
        => \A b \in Encodings' : b.sig # None]_vars
=============================================================================
