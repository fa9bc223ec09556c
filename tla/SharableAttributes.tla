------------------------- MODULE SharableAttributes -------------------------
(***************************************************************************)
(* SharableCertificateAttributes (sharable_attributes/mod.rs): a chosen    *)
(* subset of a certificate's attributes, sealed in an EncryptedContainer   *)
(* and shared with recipients that validate it against the certificate.    *)
(*                                                                         *)
(* The bundle's contents are the payload of the container: a map from the  *)
(* attribute names to entries.  Every bundle is about one certificate; a   *)
(* value is told apart only as the bytes the certificate holds, as what    *)
(* they decrypt to, or as something else.                                  *)
(***************************************************************************)
EXTENDS EncryptedContainer

CONSTANTS
    Name,       \* attribute names
    Certified,  \* the names the certificate has
    Sensitive,  \* of them, the encrypted ones
    Referring,  \* of them, those whose value refers to an external blob
    Request,    \* the sets of names a bundle is built for
    Web,        \* what a reference's URL and its storage may be
    Transient,  \* the key of the account that only seals new bundles
    Foreign     \* containers of other origin, in circulation from the start

Entry == [sensitive : BOOLEAN, form : {"plain", "proof"},
          value : {"raw", "opened", "other"},
          inlined : {"none", "right", "wrong"}]

Contents == UNION {[names -> Entry] : names \in SUBSET Name}

ASSUME SharableAssumption ==
    /\ Certified \subseteq Name
    /\ Sensitive \subseteq Certified
    /\ Referring \subseteq Certified
    /\ Request \subseteq SUBSET Name
    /\ Transient \in Key
    /\ Foreign \subseteq Blob
    /\ Payload \subseteq Contents

\* What a fetch of an attribute's external blob brought: nothing, the blob, or
\* bytes that do not open or do not have the digest.
Fetched == [Referring -> {"missing", "right", "corrupt"}]

VARIABLES
    populated,  \* the validated attributes, computed on first access
    supplied    \* history: the names whose blob was there when it was built

sharableVars == <<vars, populated, supplied>>

-----------------------------------------------------------------------------
(* Fetching (sharable.rs): bytes are the blob as it is "stored", sealed to   *)
(* the subject, or "other" ones; None for a reference that is not fetched.   *)

\* decode_data_url
DecodeDataUrl(data) ==
    IF data \in {<<"no comma">>, <<"base64", "invalid">>} THEN None ELSE data[2]

\* unwrap_container_payload: an object of exactly a text "data" and a text
\* "mimeType" holds the bytes in base64; every other body is the bytes.
UnwrapContainerPayload(body) ==
    IF body[1] # "object" THEN body[2]
    ELSE IF DOMAIN body[2] # {"data", "mimeType"} THEN "other"
    ELSE IF body[2].mimeType # "text" \/ body[2].data = "number" THEN "other"
    ELSE IF body[2].data = "invalid" THEN None ELSE body[2].data

\* fetch_reference
FetchReference(web) ==
    IF web.url = "data" THEN DecodeDataUrl(web.data)
    ELSE IF web.status # 200 THEN None ELSE UnwrapContainerPayload(web.body)

\* open_reference_blob with the comparison of digests.
OpenReferenceBlob(bytes) ==
    CASE bytes = None -> "missing" [] bytes = "stored" -> "right" [] OTHER -> "corrupt"

-----------------------------------------------------------------------------
(* Contents *)

\* ingest_references for one attribute.
Inlined(n, fetched) ==
    IF n \in Referring /\ fetched[n] = "right" THEN "right" ELSE "none"

\* Mutant: the proof of a sensitive attribute is not made.
CollectUnproved(n, fetched) ==
    [sensitive |-> n \in Sensitive, form |-> "plain",
     value |-> IF n \in Sensitive THEN "opened" ELSE "raw",
     inlined |-> Inlined(n, fetched)]

\* collect_attributes for one name: a proof with the decrypted value for a
\* sensitive attribute, the certificate's bytes for a plain one.
Collect(n, fetched) ==
    [sensitive |-> n \in Sensitive,
     form |-> IF n \in Sensitive THEN "proof" ELSE "plain",
     value |-> IF n \in Sensitive THEN "opened" ELSE "raw",
     inlined |-> Inlined(n, fetched)]

\* Names the certificate does not have are left out.
Collected(names, fetched) == [n \in names \cap Certified |-> Collect(n, fetched)]

Built == {Collected(names, fetched) : names \in Request, fetched \in Fetched}

\* Whatever is built is a payload.  Containers of other origin, which may be
\* signed by anyone, were sealed under a body key of their own, and not to the
\* throw-away account, which exists for one sealing only.
ASSUME BundleAssumption ==
    /\ Built \subseteq Payload
    /\ \A b \in Foreign :
          IF b.encrypted THEN b.cek # None /\ b.stores # {} /\ Transient \notin b.stores
                         ELSE b.cek = None /\ b.stores = {}
    /\ \A b, c \in Foreign : b.encrypted /\ b.cek = c.cek => b = c

\* A blob that does not open or does not match its digest fails the build.
Collectable(names, fetched) ==
    \A n \in names \cap Referring : fetched[n] # "corrupt"

\* Mutant: plain values are not compared with the certificate.
ValidatesProofsOnly(n, e) ==
    /\ n \in Certified
    /\ e.sensitive <=> n \in Sensitive
    /\ e.form = "proof" => n \in Sensitive /\ e.value = "opened"

\* disclose_attribute accepts the entry.
Validates(n, e) ==
    /\ n \in Certified
    /\ e.sensitive <=> n \in Sensitive
    /\ e.form = "plain" => e.value = "raw"
    /\ e.form = "proof" => n \in Sensitive /\ e.value = "opened"

Accepted(contents) == \A n \in DOMAIN contents : Validates(n, contents[n])

Disclosed(contents) ==
    [n \in DOMAIN contents |-> [sensitive |-> contents[n].sensitive,
                                value |-> contents[n].value,
                                inlined |-> contents[n].inlined]]

-----------------------------------------------------------------------------
(* The bundle *)

\* The sealing container's principals, and what its blob opens with.
SealedTo == [NoPrincipals EXCEPT ![Transient] = "private"]
Reopened == Merge({Transient}, SealedTo)

\* seal_with_transient_principal: a container is sealed to a fresh account,
\* opened again with it, and that account is revoked.
Seal(contents, ps) ==
    /\ \E m \in CipherKey \ spent : spent' = spent \cup {m}
    /\ encrypted' = TRUE
    /\ principals' = ps
    /\ mayAccess' = TRUE
    /\ signer' = None
    /\ parsed' = None
    /\ plaintext' = contents
    /\ encoded' = None
    /\ populated' = None
    /\ supplied' = {n \in DOMAIN contents : contents[n].inlined = "right"}
    /\ UNCHANGED published

\* Mutant: the transient account stays a principal.
FromCertificateUnrevoked(names, fetched) ==
    /\ Collectable(names, fetched)
    /\ Seal(Collected(names, fetched), Reopened)
    /\ result' = "created"

FromCertificate(names, fetched) ==
    /\ Collectable(names, fetched)
    /\ Seal(Collected(names, fetched), Relist(Reopened, Transient, "absent"))
    /\ result' = "created"

FromCertificateFails(names, fetched) ==
    /\ ~Collectable(names, fetched)
    /\ result' = "refused"
    /\ UNCHANGED <<sealing, mayAccess, signer, parsed, forms, published, spent,
                   populated, supplied>>

\* sharable_with_references: every reference is fetched, or there is no bundle.
FetchedFrom(names, web) ==
    [n \in Referring |-> IF n \in names THEN FetchReference(web[n]) ELSE None]

SharableWithReferences(names, web) ==
    LET bytes == FetchedFrom(names, web)
        fetched == [n \in Referring |-> OpenReferenceBlob(bytes[n])]
    IN  /\ \A n \in names \cap Referring : bytes[n] # None
        /\ FromCertificate(names, fetched) \/ FromCertificateFails(names, fetched)

SharableWithReferencesFails(names, web) ==
    /\ \E n \in names \cap Referring : FetchedFrom(names, web)[n] = None
    /\ result' = "refused"
    /\ UNCHANGED <<sealing, mayAccess, signer, parsed, forms, published, spent,
                   populated, supplied>>

\* from_encoded and from_pem
Import(b, provided) == FromEncoded(b, provided) /\ populated' = None /\ supplied' = {}

Grant(k, access) == GrantAccess(k, access) /\ UNCHANGED <<populated, supplied>>

Revoke(k) == RevokeAccess(k) /\ UNCHANGED <<populated, supplied>>

\* export and to_pem; a container that is not encrypted has no principals.
Export ==
    \/ KeysOf(principals) # {} /\ GetEncoded /\ UNCHANGED <<populated, supplied>>
    \/ /\ KeysOf(principals) = {}
       /\ result' = "refused"
       /\ UNCHANGED <<sealing, mayAccess, signer, parsed, forms, published,
                      spent, populated, supplied>>

\* compute_populated: the contents are opened, then every entry is validated.
Populate ==
    \/ /\ HasPlaintext
       /\ Accepted(PlaintextNow)
       /\ GetPlaintext
       /\ populated' = Disclosed(PlaintextNow)
       /\ UNCHANGED supplied
    \/ /\ HasPlaintext
       /\ ~Accepted(PlaintextNow)
       /\ plaintext' = PlaintextNow
       /\ principals' = PrincipalsNow
       /\ parsed' = ParsedNow
       /\ result' = "refused"
       /\ UNCHANGED <<encrypted, mayAccess, signer, encoded, published, spent,
                      populated, supplied>>
    \/ PlaintextUnavailable /\ UNCHANGED <<populated, supplied>>

\* certificate, intermediates, attribute_names, attribute_buffer, attribute and
\* attribute_value all go through populated().
Read ==
    \/ populated = None /\ Populate
    \/ /\ populated # None
       /\ result' = "ok"
       /\ UNCHANGED <<sealing, mayAccess, signer, parsed, forms, published,
                      spent, populated, supplied>>

\* reference_blob refuses an inlined blob without the digest.
ReadReference(n) ==
    \/ populated = None /\ Populate
    \/ /\ populated # None /\ n \in DOMAIN populated
       /\ result' = IF populated[n].inlined = "wrong" THEN "refused" ELSE "ok"
       /\ UNCHANGED <<sealing, mayAccess, signer, parsed, forms, published,
                      spent, populated, supplied>>

SharableInit ==
    \E names \in Request, m \in CipherKey :
        /\ encrypted = TRUE
        /\ principals = NoPrincipals
        /\ mayAccess = TRUE
        /\ signer = None
        /\ parsed = None
        /\ plaintext = Collected(names, [n \in Referring |-> "missing"])
        /\ encoded = None
        /\ published = Foreign
        /\ m \notin {b.cek : b \in Foreign}
        /\ spent = {m} \cup ({b.cek : b \in Foreign} \ {None})
        /\ result = "created"
        /\ populated = None
        /\ supplied = {}

SharableNext ==
    \/ \E names \in Request, fetched \in Fetched :
          FromCertificate(names, fetched) \/ FromCertificateFails(names, fetched)
    \/ \E names \in Request, web \in [Referring -> Web] :
          SharableWithReferences(names, web) \/ SharableWithReferencesFails(names, web)
    \/ \E b \in published, provided \in [Key \ {Transient} -> Access] :
          Import(b, [k \in Key |-> IF k = Transient THEN "absent" ELSE provided[k]])
    \/ \E k \in Key \ {Transient}, access \in Access : Grant(k, access) \/ Revoke(k)
    \/ Export
    \/ Read
    \/ \E n \in Referring : ReadReference(n)

SharableSpec == SharableInit /\ [][SharableNext]_sharableVars
-----------------------------------------------------------------------------
(* Properties *)

\* Whoever built the contents, a reader is shown values of the certificate only:
\* its own bytes, or what they decrypt to for an attribute that is sensitive.
\* And what is shown, of the cache that is filled on first access, is the very
\* payload that is sealed and exported, whatever was granted or revoked since.
ShownIsCertified ==
    populated # None =>
        /\ plaintext # None
        /\ populated = Disclosed(plaintext)
        /\ \A n \in DOMAIN populated :
            /\ n \in Certified
            /\ populated[n].value = "raw" \/ (n \in Sensitive /\ populated[n].value = "opened")

\* What was collected from the certificate reaches every recipient: each key an
\* exported blob is sealed to can open it alone, every entry is accepted, and
\* every sensitive attribute is there decrypted.  A blob that was supplied or
\* fetched when the bundle was built stays in it, whatever is granted, revoked,
\* exported and read since.
Alone(k) == [NoPrincipals EXCEPT ![k] = "private"]

RecipientsRead ==
    /\ \A b \in published \ Foreign : b.body \in Built =>
        /\ \A k \in b.stores : Unwraps(b, Merge(b.stores, Alone(k)))
        /\ Accepted(b.body)
        /\ \A n \in DOMAIN b.body :
              Disclosed(b.body)[n].value = IF n \in Sensitive THEN "opened" ELSE "raw"
    /\ \A n \in supplied :
          /\ plaintext # None => plaintext[n].inlined = "right"
          /\ populated # None => populated[n].inlined = "right"

\* No bundle leaves in the clear, and the account that sealed a new bundle, who
\* knows the body key of that sealing, opens nothing that leaves.
NeverInTheClear ==
    \A b \in published \ Foreign :
        b.encrypted /\ Transient \notin Openers(b, published)

\* The inductive invariant behind them, of blobs, populated and supplied.
BlobsSealed ==
    /\ Foreign \subseteq published
    /\ Transient \notin KeysOf(principals)
    /\ \A b \in Blobs : Transient \notin b.stores
    /\ \A b \in Blobs \ Foreign : b.encrypted

PopulatedIsPlaintext ==
    populated # None =>
        /\ plaintext # None
        /\ populated = Disclosed(plaintext)
        /\ Accepted(plaintext)

SuppliedStays ==
    \A n \in supplied :
        plaintext # None /\ n \in DOMAIN plaintext /\ plaintext[n].inlined = "right"

BundleInv == IInv /\ mayAccess /\ BlobsSealed /\ PopulatedIsPlaintext /\ SuppliedStays

\* Every step of a bundle is one of the shared document it seals: a new bundle
\* has no readers, what leaves has exactly the granted ones, and reading,
\* validating and refusing change nothing.
StepsOfDocument == [][Document!DocNext]_(Document!docVars)
=============================================================================
