---------------------- MODULE SharableAttributesProofs ----------------------
(***************************************************************************)
(* Proofs about SharableAttributes for every certificate, every request    *)
(* and every container of other origin.  A bundle is a container whose     *)
(* payload is its contents, so its steps are the container's, with the     *)
(* sealing of a new bundle and the reading of its contents added.          *)
(***************************************************************************)
EXTENDS SharableAttributes, EncryptedContainerProofs

-----------------------------------------------------------------------------
(* Contents *)

\* What the builder collects is a payload, of entries every reader accepts.
LEMMA CollectedIsAccepted ==
    ASSUME NEW names \in Request, NEW fetched \in Fetched
    PROVE  /\ Collected(names, fetched) \in Payload
           /\ Accepted(Collected(names, fetched))
           /\ \A n \in DOMAIN Collected(names, fetched) :
                Disclosed(Collected(names, fetched))[n].value
                    = IF n \in Sensitive THEN "opened" ELSE "raw"
<1>1. Collected(names, fetched) \in Payload
  BY BundleAssumption DEF Built
<1>2. Accepted(Collected(names, fetched))
  BY DEF Accepted, Collected, Collect, Validates
<1>3. \A n \in DOMAIN Collected(names, fetched) :
          Disclosed(Collected(names, fetched))[n].value
              = IF n \in Sensitive THEN "opened" ELSE "raw"
  BY DEF Disclosed, Collected, Collect
<1> QED BY <1>1, <1>2, <1>3

\* What a reader accepts is the certificate's own bytes, or what they decrypt to.
LEMMA AcceptedIsCertified ==
    ASSUME NEW contents \in Payload, Accepted(contents), NEW n \in DOMAIN contents
    PROVE  /\ n \in Certified
           /\ contents[n].value = "raw" \/ (n \in Sensitive /\ contents[n].value = "opened")
<1>1. contents[n] \in Entry
  <2>1. PICK names \in SUBSET Name : contents \in [names -> Entry]
    BY SharableAssumption DEF Contents
  <2> QED BY <2>1
<1>2. contents[n].form \in {"plain", "proof"}
  BY <1>1 DEF Entry
<1> QED BY <1>2 DEF Accepted, Validates

\* The fetches of a build bring what ExternalBlobs may hold.
LEMMA FetchesAreTyped ==
    ASSUME NEW bytes
    PROVE  [n \in Referring |-> OpenReferenceBlob(bytes[n])] \in Fetched
BY DEF OpenReferenceBlob, Fetched

\* A new bundle lists nobody: the account that sealed it is revoked.
LEMMA NobodyListed ==
    /\ Relist(Reopened, Transient, "absent") \in [Key -> Access]
    /\ KeysOf(Relist(Reopened, Transient, "absent")) = {}
<1>1. SealedTo \in [Key -> Access]
  BY NoPrincipalsKeys DEF SealedTo, Access
<1>2. Reopened \in [Key -> Access] /\ KeysOf(Reopened) = {Transient}
  BY <1>1, MergeKeys, SharableAssumption DEF Reopened
<1> QED BY <1>2 DEF KeysOf, Relist, Access

-----------------------------------------------------------------------------
(* The invariant is inductive *)

LEMMA BundleStarts ==
    ASSUME SharableInit
    PROVE  BundleInv
<1> PICK names \in Request, m \in CipherKey :
        /\ plaintext = Collected(names, [n \in Referring |-> "missing"])
        /\ m \notin {b.cek : b \in Foreign}
        /\ spent = {m} \cup ({b.cek : b \in Foreign} \ {None})
  BY DEF SharableInit
<1>1. plaintext \in Payload /\ plaintext # None
  <2>1. [n \in Referring |-> "missing"] \in Fetched
    BY DEF Fetched
  <2> QED BY <2>1, CollectedIsAccepted, NoneAssumption
<1>2. Foreign \subseteq Blob /\ published = Foreign /\ encoded = None
  BY SharableAssumption DEF SharableInit
<1>3. spent \subseteq CipherKey
  BY <1>2 DEF Blob
<1>4. Blobs = Foreign
  BY <1>2 DEF Blobs
<1>5. TypeOK
  BY <1>1, <1>2, <1>3, NoPrincipalsKeys DEF SharableInit, TypeOK
<1>6. (\A b \in Blobs : WellFormed(b)) /\ KeyPerBlob
  BY <1>2, <1>4, BundleAssumption DEF WellFormed, KeyPerBlob, Blob
<1>7. IInv
  BY <1>1, <1>5, <1>6 DEF SharableInit, IInv, Coherent, Recoverable, SignerIsAuthor
<1>8. BlobsSealed
  BY <1>2, <1>4, NoPrincipalsKeys, BundleAssumption DEF BlobsSealed, SharableInit, Blob
<1> QED BY <1>7, <1>8 DEF BundleInv, PopulatedIsPlaintext, SuppliedStays, SharableInit

\* Building a bundle seals it under a body key of its own, to nobody yet.
LEMMA SealKeeps ==
    ASSUME BundleInv, NEW contents \in Payload, result' = "created",
           Seal(contents, Relist(Reopened, Transient, "absent"))
    PROVE  BundleInv'
<1>1. PICK m \in CipherKey \ spent : spent' = spent \cup {m}
  BY DEF Seal
<1>2. /\ encrypted' = TRUE /\ mayAccess' = TRUE /\ signer' = None /\ parsed' = None
      /\ principals' = Relist(Reopened, Transient, "absent")
      /\ plaintext' = contents /\ contents # None /\ encoded' = None /\ populated' = None
      /\ supplied' = {n \in DOMAIN contents : contents[n].inlined = "right"}
      /\ published' = published
  BY NoneAssumption DEF Seal
<1>3. TypeOK'
  BY <1>1, <1>2, NobodyListed DEF BundleInv, IInv, TypeOK
<1>4. Blobs' \subseteq Blobs
  BY <1>2 DEF Blobs
<1>5. (\A b \in Blobs' : WellFormed(b)') /\ KeyPerBlob'
  BY <1>1, <1>4 DEF BundleInv, IInv, WellFormed, KeyPerBlob
<1>6. IInv'
  BY <1>2, <1>3, <1>5 DEF IInv, Coherent, Recoverable, SignerIsAuthor
<1>7. KeysOf(principals)' = {}
  <2>1. KeysOf(principals)' = KeysOf(Relist(Reopened, Transient, "absent"))
    BY <1>2 DEF KeysOf
  <2> QED BY <2>1, NobodyListed
<1>8. BlobsSealed'
  BY <1>2, <1>4, <1>7 DEF BundleInv, BlobsSealed
<1> QED BY <1>2, <1>6, <1>8 DEF BundleInv, PopulatedIsPlaintext, SuppliedStays

\* Steps of the container that keep its principals' keys, its plaintext once
\* there is one, and its blobs.
LEMMA QuietStepKeeps ==
    ASSUME BundleInv, IInv', KeysOf(principals') = KeysOf(principals),
           plaintext # None => plaintext' = plaintext,
           UNCHANGED <<mayAccess, encoded, published, supplied>>,
           populated' = populated \/ PopulatedIsPlaintext'
    PROVE  BundleInv'
<1>1. BlobsSealed'
  <2>1. KeysOf(principals)' = KeysOf(principals) /\ Blobs' = Blobs
    BY DEF KeysOf, Blobs
  <2> QED BY <2>1 DEF BundleInv, BlobsSealed
<1>2. PopulatedIsPlaintext' /\ SuppliedStays'
  BY DEF BundleInv, PopulatedIsPlaintext, SuppliedStays
<1> QED BY <1>1, <1>2 DEF BundleInv

\* A refused step that leaves everything alone.
LEMMA IdleStepKeeps ==
    ASSUME BundleInv, result' \in {"ok", "refused"},
           UNCHANGED <<sealing, mayAccess, signer, parsed, forms, published, spent,
                       populated, supplied>>
    PROVE  BundleInv'
<1>1. IInv'
  BY DetailsKeep DEF BundleInv, IInv, TypeOK, sealing, forms
<1>2. KeysOf(principals') = KeysOf(principals)
  BY DEF sealing
<1> QED BY <1>1, <1>2, QuietStepKeeps DEF forms

LEMMA ImportKeeps ==
    ASSUME BundleInv, NEW b \in published, NEW provided \in [Key -> Access],
           Import(b, provided)
    PROVE  BundleInv'
<1>1. FromEncoded(b, provided) /\ populated' = None /\ supplied' = {}
  BY DEF Import
<1>2. IInv'
  BY <1>1, FromEncodedKeeps DEF BundleInv
<1>3. b \in Blob /\ b.stores \in SUBSET Key /\ b \in Blobs /\ b # None
  BY NoneAssumption DEF BundleInv, IInv, TypeOK, Blob, Blobs
<1>4. Transient \notin KeysOf(principals)'
  <2>1. Transient \notin b.stores
    BY <1>3 DEF BundleInv, BlobsSealed
  <2>2. KeysOf(principals)' \in {b.stores, {}}
    BY <1>1, <1>3, MergeKeys, NoPrincipalsKeys DEF FromEncoded, KeysOf
  <2> QED BY <2>1, <2>2
<1>5. Blobs' \subseteq Blobs /\ published' = published
  BY <1>1, <1>3 DEF FromEncoded, Blobs
<1>6. BlobsSealed'
  BY <1>4, <1>5 DEF BundleInv, BlobsSealed
<1> QED BY <1>1, <1>2, <1>6 DEF BundleInv, FromEncoded, PopulatedIsPlaintext, SuppliedStays

LEMMA UnavailableKeepsBundle ==
    ASSUME BundleInv, PlaintextUnavailable, UNCHANGED <<populated, supplied>>
    PROVE  BundleInv'
<1>1. IInv' /\ UNCHANGED <<mayAccess, plaintext, encoded, published>>
  BY PlaintextUnavailableKeeps DEF BundleInv, PlaintextUnavailable, forms
<1>2. KeysOf(principals') = KeysOf(principals)
  BY UnavailableIsClean DEF BundleInv
<1> QED BY <1>1, <1>2, QuietStepKeeps

\* Access changes are about other accounts, and never touch the contents.
LEMMA AccessKeeps ==
    ASSUME BundleInv, NEW k \in Key \ {Transient}, NEW access \in Access,
           ChangeAccess(k, access), UNCHANGED <<populated, supplied>>
    PROVE  BundleInv'
<1>1. IInv'
  BY ChangeAccessKeeps DEF BundleInv
<1>2. CASE PlaintextUnavailable
  BY <1>2, UnavailableKeepsBundle
<1>3. ASSUME ~PlaintextUnavailable
      PROVE  /\ HasPlaintext /\ plaintext' = PlaintextNow
             /\ published' = published /\ encoded' \in {encoded, None}
             /\ mayAccess' = mayAccess
             /\ \/ principals' = PrincipalsNow
                \/ principals' = Relist(PrincipalsNow, k, access)
  BY <1>3 DEF ChangeAccess
<1>4. ASSUME ~PlaintextUnavailable PROVE BundleInv'
  <2>1. PrincipalsNow \in [Key -> Access] /\ KeysOf(PrincipalsNow) = KeysOf(principals)
    BY <1>3, <1>4, MaterialisingKeeps DEF BundleInv
  <2>2. Transient \notin KeysOf(principals)'
    <3>1. PrincipalsNow[Transient] = "absent"
      BY <2>1, SharableAssumption DEF BundleInv, BlobsSealed, KeysOf
    <3> QED BY <1>3, <1>4, <2>1, <3>1 DEF KeysOf, Relist
  <2>3. Blobs' \subseteq Blobs /\ published' = published
    BY <1>3, <1>4 DEF Blobs
  <2>4. BlobsSealed'
    BY <2>2, <2>3 DEF BundleInv, BlobsSealed
  <2>5. plaintext # None => plaintext' = plaintext
    BY <1>3, <1>4 DEF PlaintextNow
  <2>6. PopulatedIsPlaintext' /\ SuppliedStays'
    BY <2>5 DEF BundleInv, PopulatedIsPlaintext, SuppliedStays
  <2> QED BY <1>1, <1>3, <1>4, <2>4, <2>6 DEF BundleInv
<1> QED BY <1>2, <1>4

\* An export adds the blob it returns, which is sealed to the principals.
LEMMA ExportKeeps ==
    ASSUME BundleInv, Export
    PROVE  BundleInv'
<1>1. CASE KeysOf(principals) # {} /\ GetEncoded /\ UNCHANGED <<populated, supplied>>
  <2>1. IInv'
    BY <1>1, GetEncodedKeeps DEF BundleInv
  <2>2. encrypted
    BY <1>1, NoPrincipalsKeys DEF BundleInv, IInv
  <2>3. UNCHANGED <<principals, plaintext, mayAccess>> /\ published \subseteq published'
    BY <1>1 DEF GetEncoded, sealing, forms
  <2>4. \A b \in Blobs' : b \in Blobs \/ (Encodable /\ b \in Encodings)
    BY <1>1 DEF GetEncoded, forms, Blobs
  <2>5. \A b \in Blobs' : b \in Blobs \/ (b.encrypted /\ b.stores = KeysOf(principals))
    BY <2>2, <2>4, EncodingsFresh DEF BundleInv
  <2>6. BlobsSealed'
    BY <2>3, <2>5 DEF BundleInv, BlobsSealed, KeysOf
  <2>7. PopulatedIsPlaintext' /\ SuppliedStays'
    BY <1>1, <2>3 DEF BundleInv, PopulatedIsPlaintext, SuppliedStays
  <2> QED BY <2>1, <2>3, <2>6, <2>7 DEF BundleInv
<1>2. CASE /\ result' = "refused"
           /\ UNCHANGED <<sealing, mayAccess, signer, parsed, forms, published,
                          spent, populated, supplied>>
  BY <1>2, IdleStepKeeps
<1> QED BY <1>1, <1>2 DEF Export

\* Reading fills the cache with what the contents disclose, if all is accepted.
LEMMA PopulateKeeps ==
    ASSUME BundleInv, populated = None, Populate
    PROVE  BundleInv'
<1>1. CASE /\ HasPlaintext /\ Accepted(PlaintextNow) /\ GetPlaintext
           /\ populated' = Disclosed(PlaintextNow) /\ UNCHANGED supplied
  <2>1. IInv'
    BY <1>1, GetPlaintextKeeps DEF BundleInv
  <2>2. CASE plaintext' = PlaintextNow /\ principals' = PrincipalsNow
             /\ UNCHANGED <<mayAccess, encoded, published>>
    <3>1. plaintext' # None /\ KeysOf(principals') = KeysOf(principals)
      BY <1>1, <2>2, MaterialisingKeeps, NoneAssumption DEF BundleInv
    <3>2. PopulatedIsPlaintext'
      BY <1>1, <2>2, <3>1 DEF PopulatedIsPlaintext, Disclosed, Accepted
    <3>3. plaintext # None => plaintext' = plaintext
      BY <2>2 DEF PlaintextNow
    <3> QED BY <1>1, <2>1, <2>2, <3>1, <3>2, <3>3, QuietStepKeeps
  <2>3. ~PlaintextUnavailable
    BY <1>1 DEF PlaintextUnavailable
  <2> QED BY <1>1, <2>2, <2>3 DEF GetPlaintext, BundleInv
<1>2. CASE /\ HasPlaintext /\ plaintext' = PlaintextNow /\ principals' = PrincipalsNow
           /\ parsed' = ParsedNow /\ result' = "refused"
           /\ UNCHANGED <<encrypted, mayAccess, signer, encoded, published, spent,
                          populated, supplied>>
  <2>1. IInv'
    BY <1>2, MaterialiseStepKeeps DEF BundleInv
  <2>2. KeysOf(principals') = KeysOf(principals)
    BY <1>2, MaterialisingKeeps DEF BundleInv
  <2>3. plaintext # None => plaintext' = plaintext
    BY <1>2 DEF PlaintextNow
  <2> QED BY <1>2, <2>1, <2>2, <2>3, QuietStepKeeps
<1>3. CASE PlaintextUnavailable /\ UNCHANGED <<populated, supplied>>
  BY <1>3, UnavailableKeepsBundle
<1> QED BY <1>1, <1>2, <1>3 DEF Populate

LEMMA BundleStep ==
    ASSUME BundleInv, [SharableNext]_sharableVars
    PROVE  BundleInv'
<1>1. ASSUME NEW names \in Request, NEW fetched \in Fetched, FromCertificate(names, fetched)
      PROVE  BundleInv'
  BY <1>1, SealKeeps, CollectedIsAccepted DEF FromCertificate
<1>2. ASSUME NEW names \in Request, NEW fetched \in Fetched,
             FromCertificateFails(names, fetched)
      PROVE  BundleInv'
  BY <1>2, IdleStepKeeps DEF FromCertificateFails
<1>3. ASSUME NEW names \in Request, NEW web, SharableWithReferences(names, web)
      PROVE  BundleInv'
  <2>1. PICK fetched \in Fetched :
            FromCertificate(names, fetched) \/ FromCertificateFails(names, fetched)
    BY <1>3, FetchesAreTyped DEF SharableWithReferences
  <2> QED BY <2>1, <1>1, <1>2
<1>4. ASSUME NEW names, NEW web, SharableWithReferencesFails(names, web)
      PROVE  BundleInv'
  BY <1>4, IdleStepKeeps DEF SharableWithReferencesFails
<1>5. ASSUME NEW b \in published, NEW provided \in [Key \ {Transient} -> Access],
             Import(b, [k \in Key |-> IF k = Transient THEN "absent" ELSE provided[k]])
      PROVE  BundleInv'
  <2>1. [k \in Key |-> IF k = Transient THEN "absent" ELSE provided[k]] \in [Key -> Access]
    BY DEF Access
  <2> QED BY <1>5, <2>1, ImportKeeps
<1>6. ASSUME NEW k \in Key \ {Transient}, NEW access \in Access,
             Grant(k, access) \/ Revoke(k)
      PROVE  BundleInv'
  <2>1. "absent" \in Access
    BY DEF Access
  <2> QED BY <1>6, <2>1, AccessKeeps DEF Grant, Revoke, GrantAccess, RevokeAccess
<1>7. CASE Read
  <2>1. CASE populated = None /\ Populate
    BY <2>1, PopulateKeeps
  <2> QED BY <1>7, <2>1, IdleStepKeeps DEF Read
<1>8. ASSUME NEW n \in Referring, ReadReference(n)
      PROVE  BundleInv'
  <2>1. CASE populated = None /\ Populate
    BY <2>1, PopulateKeeps
  <2> QED BY <1>8, <2>1, IdleStepKeeps DEF ReadReference
<1>9. CASE UNCHANGED sharableVars
  <2>1. UNCHANGED <<mayAccess, encoded, published, supplied, populated, plaintext, principals>>
    BY <1>9 DEF sharableVars, vars
  <2>2. IInv'
    BY <1>9, StepInvariant DEF sharableVars, BundleInv
  <2> QED BY <2>1, <2>2, QuietStepKeeps
<1> QED
  BY <1>1, <1>2, <1>3, <1>4, <1>5, <1>6, <1>7, <1>8, <1>9, ExportKeeps DEF SharableNext

-----------------------------------------------------------------------------
(* Theorems *)

\* The inductive invariant: a bundle is a coherent container that only granted
\* accounts are listed in, its cache holds what its sealed contents disclose,
\* and the blobs it was built with stay in them.
THEOREM BundleInvariance == SharableSpec => []BundleInv
BY BundleStarts, BundleStep, PTL DEF SharableSpec

\* A reader is shown nothing but values of the certificate, and the very
\* payload that is sealed, also long after the cache was filled.
THEOREM ShownCertified == SharableSpec => []ShownIsCertified
<1>1. BundleInv => ShownIsCertified
  <2> SUFFICES ASSUME BundleInv, populated # None
               PROVE  /\ plaintext # None
                      /\ populated = Disclosed(plaintext)
                      /\ \A n \in DOMAIN populated :
                          /\ n \in Certified
                          /\ \/ populated[n].value = "raw"
                             \/ n \in Sensitive /\ populated[n].value = "opened"
    BY DEF ShownIsCertified
  <2>1. /\ plaintext # None /\ plaintext \in Payload
        /\ populated = Disclosed(plaintext) /\ Accepted(plaintext)
    BY DEF BundleInv, PopulatedIsPlaintext, IInv, TypeOK
  <2>2. DOMAIN populated = DOMAIN plaintext
        /\ \A n \in DOMAIN plaintext : populated[n].value = plaintext[n].value
    BY <2>1 DEF Disclosed
  <2> QED BY <2>1, <2>2, AcceptedIsCertified
<1> QED BY <1>1, BundleInvariance, PTL

\* Each key an exported bundle is sealed to opens it alone and accepts all that
\* was collected; references supplied when it was built are never lost.
THEOREM RecipientsCanRead == SharableSpec => []RecipientsRead
<1>1. BundleInv => RecipientsRead
  <2> SUFFICES ASSUME BundleInv PROVE RecipientsRead
    OBVIOUS
  <2>1. ASSUME NEW b \in published \ Foreign, b.body \in Built
        PROVE  /\ \A k \in b.stores : Unwraps(b, Merge(b.stores, Alone(k)))
               /\ Accepted(b.body)
               /\ \A n \in DOMAIN b.body :
                     Disclosed(b.body)[n].value = IF n \in Sensitive THEN "opened" ELSE "raw"
    <3>1. b.stores \in SUBSET Key
      BY DEF BundleInv, IInv, TypeOK, Blob
    <3>2. \A k \in b.stores : Unwraps(b, Merge(b.stores, Alone(k)))
      BY <3>1 DEF Unwraps, Merge, Alone, NoPrincipals
    <3>3. PICK names \in Request, fetched \in Fetched : b.body = Collected(names, fetched)
      BY <2>1 DEF Built
    <3> QED BY <3>2, <3>3, CollectedIsAccepted
  <2>2. ASSUME NEW n \in supplied
        PROVE  /\ plaintext # None => plaintext[n].inlined = "right"
               /\ populated # None => populated[n].inlined = "right"
    BY <2>2 DEF BundleInv, SuppliedStays, PopulatedIsPlaintext, Disclosed
  <2> QED BY <2>1, <2>2 DEF RecipientsRead
<1> QED BY <1>1, BundleInvariance, PTL

\* No bundle leaves in the clear, and the throw-away account, which knows the
\* body key of the first sealing, opens nothing that leaves.
THEOREM NeverClear == SharableSpec => []NeverInTheClear
<1>1. BundleInv => NeverInTheClear
  <2> SUFFICES ASSUME BundleInv, NEW b \in published \ Foreign
               PROVE  b.encrypted /\ Transient \notin Openers(b, published)
    BY DEF NeverInTheClear
  <2>1. b \in Blobs /\ b.encrypted /\ Transient \notin b.stores
    BY DEF BundleInv, BlobsSealed, Blobs
  <2>2. published \in SUBSET Blobs
    BY DEF Blobs
  <2> QED BY <2>1, <2>2, OpenersOfBlob DEF BundleInv
<1> QED BY <1>1, BundleInvariance, PTL

-----------------------------------------------------------------------------
(* A bundle is a shared document *)

\* A new bundle is a new sealed document without readers.
LEMMA SealMaps ==
    ASSUME NEW contents \in Payload, result' = "created",
           Seal(contents, Relist(Reopened, Transient, "absent"))
    PROVE  Document!DocNext
<1>1. Content' = contents
  BY NoneAssumption DEF Seal, Content
<1>2. Copies' = Copies
  BY DEF Seal, Copies
<1>3. Readers' = {}
  BY NobodyListed DEF Seal, Readers, KeysOf
<1>4. Document!Create
  BY <1>1, <1>2, <1>3 DEF Document!Create, Seal, LastUse
<1> QED BY <1>4 DEF Document!DocNext

\* Refusals, and what was computed before, change nothing of the document.
LEMMA IdleStepMaps ==
    ASSUME result' \in {"ok", "refused"}, UNCHANGED <<sealing, forms, published>>
    PROVE  Document!DocNext
BY DocumentStays DEF sealing, forms, Content, Returns

LEMMA PopulateMaps ==
    ASSUME BundleInv, Populate
    PROVE  Document!DocNext
<1>1. CASE GetPlaintext
  BY <1>1, GetPlaintextMaps DEF BundleInv
<1>2. CASE /\ HasPlaintext /\ plaintext' = PlaintextNow /\ principals' = PrincipalsNow
           /\ result' = "refused"
           /\ UNCHANGED <<encrypted, mayAccess, signer, encoded, published, spent>>
  BY <1>2, MaterialiseMaps, MaterialisingKeeps, DocumentStays DEF BundleInv, Returns
<1>3. CASE PlaintextUnavailable
  BY <1>3, UnavailableMaps DEF BundleInv
<1> QED BY <1>1, <1>2, <1>3 DEF Populate

LEMMA BundleStepMaps ==
    ASSUME BundleInv, BundleInv', [SharableNext]_sharableVars
    PROVE  Document!DocNext \/ UNCHANGED Document!docVars
<1>1. ASSUME NEW names \in Request, NEW fetched \in Fetched, FromCertificate(names, fetched)
      PROVE  Document!DocNext
  BY <1>1, SealMaps, CollectedIsAccepted DEF FromCertificate
<1>2. ASSUME NEW names \in Request, NEW fetched, FromCertificateFails(names, fetched)
      PROVE  Document!DocNext
  BY <1>2, IdleStepMaps DEF FromCertificateFails
<1>3. ASSUME NEW names \in Request, NEW web, SharableWithReferences(names, web)
      PROVE  Document!DocNext
  <2>1. PICK fetched \in Fetched :
            FromCertificate(names, fetched) \/ FromCertificateFails(names, fetched)
    BY <1>3, FetchesAreTyped DEF SharableWithReferences
  <2> QED BY <2>1, <1>1, <1>2
<1>4. ASSUME NEW names, NEW web, SharableWithReferencesFails(names, web)
      PROVE  Document!DocNext
  BY <1>4, IdleStepMaps DEF SharableWithReferencesFails
<1>5. ASSUME NEW b \in published, NEW provided \in [Key \ {Transient} -> Access],
             Import(b, [k \in Key |-> IF k = Transient THEN "absent" ELSE provided[k]])
      PROVE  Document!DocNext
  <2>1. [k \in Key |-> IF k = Transient THEN "absent" ELSE provided[k]] \in [Key -> Access]
    BY DEF Access
  <2> QED BY <1>5, <2>1, FromEncodedMaps DEF Import, BundleInv
<1>6. ASSUME NEW k \in Key, NEW access \in Access, Grant(k, access) \/ Revoke(k)
      PROVE  Document!DocNext
  <2>1. "absent" \in Access
    BY DEF Access
  <2> QED BY <1>6, <2>1, ChangeAccessMaps DEF Grant, Revoke, GrantAccess, RevokeAccess, BundleInv
<1>7. CASE Export
  BY <1>7, GetEncodedMaps, IdleStepMaps DEF Export, BundleInv
<1>8. CASE Read \/ \E n \in Referring : ReadReference(n)
  BY <1>8, PopulateMaps, IdleStepMaps DEF Read, ReadReference
<1>9. CASE UNCHANGED sharableVars
  BY <1>9 DEF sharableVars, vars, Document!docVars, Content, Readers, Copies, CopyOf, LastUse,
              KeysOf
<1> QED BY <1>1, <1>2, <1>3, <1>4, <1>5, <1>6, <1>7, <1>8, <1>9 DEF SharableNext

\* Building, importing, granting, revoking, exporting, reading and refusing are
\* steps of the shared document the bundle seals.
THEOREM BundleIsDocument == SharableSpec => StepsOfDocument
<1>1. BundleInv /\ BundleInv' /\ [SharableNext]_sharableVars =>
        [Document!DocNext]_(Document!docVars)
  BY BundleStepMaps
<1> QED BY <1>1, BundleInvariance, PTL DEF SharableSpec, StepsOfDocument

=============================================================================
