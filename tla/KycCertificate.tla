--------------------------- MODULE KycCertificate ---------------------------
(***************************************************************************)
(* A KYC certificate's life: an issuer puts attributes in a builder, the   *)
(* builder seals the sensitive ones to the subject and builds the          *)
(* certificate, or one is read that somebody else issued; the subject      *)
(* reads its attributes, proves one to somebody, and publishes             *)
(* certificates that are evaluated against the trusted issuers.            *)
(* keetanetwork-anchor/src/certificates, sensitive_attributes, kyc_schema. *)
(*                                                                         *)
(* The reading operations take &self and change nothing: they are          *)
(* operators, and the properties speak of what they answer in every state. *)
(***************************************************************************)
EXTENDS Results, TrustChain, Sequences

CONSTANTS
    Offered,        \* the values put for each name
    SensitiveOid,   \* SENSITIVE_ATTRIBUTES: the names that may be sensitive
    PlainOid,       \* PLAIN_ATTRIBUTES: the names that may be plain
    ValueType,      \* attribute_value_type
    Key,            \* key pairs
    Encrypting,     \* those that support encryption
    Identified,     \* those of an account type a reference can be opened with
    Foreign,        \* the attribute extensions of certificates issued elsewhere
    MaxInputs,      \* attributes put, certificates received and records published
    MaxProofs,      \* proofs made
    \* The codec, which is module KycSchema: encode_value, decode_value and
    \* AttributeReference::collect...
    Encode(_, _), Decode(_, _), ReferencesIn(_),
    \* ...and what it promises: the values of a type it encodes, what they read
    \* as, and the documents a JSON value refers to.
    Accepts(_, _), Reads(_, _), Mentions(_)

VARIABLES
    entries,        \* KycCertificateBuilder.kyc_attributes
    errors,         \* whether KycCertificateBuilder.errors holds one
    calls,          \* the with_attribute calls the builder has seen
    certificates,   \* the certificates there are, and the calls of those built here
    proofs          \* the proofs made: an attribute's encoded value and its salt

vars == <<entries, errors, calls, certificates, proofs, published>>

Name == DOMAIN Offered

-----------------------------------------------------------------------------
(* Sealed values (sensitive_attributes) *)

\* Encryption never yields the same bytes twice: a salt is drawn for each
\* attribute built, and so is the key and the nonce of its cipher.
Ciphertext(key, salt, encoded) == <<"encrypted", key, salt, encoded>>

\* Mutant: the public key is left out of the hash.
KeylessHashInput(salt, key, ciphertext, encoded) == <<salt, ciphertext, encoded>>

\* create_hash_input
HashInput(salt, key, ciphertext, encoded) == <<salt, key, ciphertext, encoded>>

\* SensitiveAttributeBuilder::build
Seal(key, salt, encoded) ==
    [version |-> 0, key |-> key, salt |-> salt, encoded |-> encoded,
     hash |-> HashInput(salt, key, Ciphertext(key, salt, encoded), encoded)]

\* SensitiveAttribute::decrypt: the encoded value.
Unseal(sealed, key) ==
    IF sealed.version # 0 \/ key \notin Encrypting \/ key # sealed.key THEN Bad
    ELSE sealed.encoded

\* to_proof
ToProof(sealed, key) ==
    IF Failed(Unseal(sealed, key)) THEN Bad
    ELSE [value |-> sealed.encoded, salt |-> sealed.salt]

\* validate_proof: the public key of the pair is enough.
ValidateProof(sealed, key, proof) ==
    IF Failed(proof.value) \/ Failed(proof.salt) THEN Bad
    ELSE sealed.hash = HashInput(proof.salt, key,
                          Ciphertext(sealed.key, sealed.salt, sealed.encoded), proof.value)

-----------------------------------------------------------------------------
(* Reading a certificate (certificates/mod.rs) *)

\* KycAttributes::find_by_oid: the first one, or none.
FindByOid(attributes, oid) ==
    LET at == {i \in DOMAIN attributes : attributes[i].oid = oid}
    IN  IF at = {} THEN Bad ELSE attributes[CHOOSE i \in at : \A j \in at : i <= j]

\* get_attribute: by the sensitive identifier of the name, else by the plain one.
GetAttribute(certificate, name) ==
    LET Found(oids) == IF name \in DOMAIN oids
                       THEN FindByOid(certificate.attributes, oids[name]) ELSE Bad
    IN  FirstGood(<<Found(SensitiveOid), Found(PlainOid)>>)

\* assert_attribute_is_sensitive and decoding what is sealed.
GetSealed(certificate, name) ==
    LET attribute == GetAttribute(certificate, name)
    IN  IF Failed(attribute) THEN Bad
        ELSE IF ~attribute.sensitive THEN Bad ELSE attribute.content

DecryptAttribute(certificate, name, key) ==
    LET sealed == GetSealed(certificate, name)
    IN  IF Failed(sealed) THEN Bad
        ELSE IF Failed(Unseal(sealed, key)) THEN Bad
        ELSE Decode(ValueType[GetAttribute(certificate, name).oid], Unseal(sealed, key))

GetPlainAttribute(certificate, name) ==
    LET attribute == GetAttribute(certificate, name)
    IN  IF Failed(attribute) THEN Bad
        ELSE IF attribute.sensitive THEN Bad
        ELSE Decode(ValueType[attribute.oid], attribute.content)

ProveAttribute(certificate, name, key) ==
    LET sealed == GetSealed(certificate, name)
    IN  IF Failed(sealed) THEN Bad ELSE ToProof(sealed, key)

ValidateAttributeProof(certificate, name, key, proof) ==
    LET sealed == GetSealed(certificate, name)
    IN  IF Failed(sealed) THEN Bad ELSE ValidateProof(sealed, key, proof)

\* decoded_attribute_value of an attribute that is there.
DecodedAttributeValue(certificate, name, key) ==
    IF ~GetAttribute(certificate, name).sensitive THEN GetPlainAttribute(certificate, name)
    ELSE IF key \notin Identified THEN Bad
    ELSE DecryptAttribute(certificate, name, key)

\* external_references: the digests found under each name that has any.  One
\* name that cannot be read, or an algorithm that is not known, fails the call.
ExternalReferences(certificate, key, names) ==
    LET there == {n \in names : ~Failed(GetAttribute(certificate, n))}
        decoded == [n \in there |-> DecodedAttributeValue(certificate, n, key)]
        found == [n \in there |->
                    IF Failed(decoded[n]) THEN Bad
                    ELSE IF decoded[n][1] # "json" THEN {} ELSE ReferencesIn(decoded[n][2])]
    IN  IF \E n \in there : Failed(found[n]) THEN Bad
        ELSE [n \in {m \in there : found[m] # {}} |-> found[n]]

-----------------------------------------------------------------------------
Init ==
    /\ entries = <<>>
    /\ errors = FALSE
    /\ calls = <<>>
    /\ certificates = <<>>
    /\ proofs = {}
    /\ published = {}

\* to_oid: a name is known for one way of putting it.
KnownAs(name, sensitive) ==
    name \in DOMAIN (IF sensitive THEN SensitiveOid ELSE PlainOid)

OidAs(name, sensitive) == IF sensitive THEN SensitiveOid[name] ELSE PlainOid[name]

\* Attributes are told apart by their identifiers.
ASSUME NameAssumption ==
    /\ IsFiniteSet(Name)
    /\ \A m, n \in Name, s, t \in BOOLEAN :
          KnownAs(m, s) /\ KnownAs(n, t) /\ OidAs(m, s) = OidAs(n, t) => m = n /\ s = t

TypeOf(name, sensitive) == ValueType[OidAs(name, sensitive)]

Entry(sensitive, value) == [sensitive |-> sensitive, value |-> value]

\* with_attribute, with_plain_attribute, with_sensitive_attribute: a name that
\* is not known is remembered as an error, a name put again is overwritten.
WithAttribute(name, entry) ==
    /\ calls' = Append(calls, [name |-> name, entry |-> entry])
    /\ IF KnownAs(name, entry.sensitive)
       THEN /\ entries' = [n \in DOMAIN entries \cup {name} |->
                             IF n = name THEN entry ELSE entries[n]]
            /\ UNCHANGED errors
       ELSE errors' = TRUE /\ UNCHANGED entries
    /\ UNCHANGED <<certificates, proofs, published>>

\* One attribute of build_kyc_extension, the salt drawn for the certificate and
\* the name; nothing when the value does not encode or cannot be sealed.
BuildAttribute(name, entry, key) ==
    LET oid == OidAs(name, entry.sensitive)
        encoded == Encode(ValueType[oid], entry.value)
    IN  IF Failed(encoded) \/ (entry.sensitive /\ key \notin Encrypting) THEN Bad
        ELSE [oid |-> oid, sensitive |-> entry.sensitive,
              content |-> IF entry.sensitive
                          THEN Seal(key, <<Len(certificates) + 1, name>>, encoded) ELSE encoded]

\* build_kyc_extension: the attributes in the order of their names, which tells
\* nothing apart as no two of them share an identifier.
BuildKycExtension(key) ==
    LET order == CHOOSE s \in [1..Cardinality(DOMAIN entries) -> DOMAIN entries] :
                    \A n \in DOMAIN entries : \E i \in DOMAIN s : s[i] = n
    IN  AllOrBad([i \in DOMAIN order |-> BuildAttribute(order[i], entries[order[i]], key)])

\* build, which takes the builder: the remembered error first.
Build(key) ==
    LET extension == BuildKycExtension(key)
    IN  /\ calls # <<>>
        /\ IF errors \/ Failed(extension) THEN UNCHANGED certificates
           ELSE certificates' = Append(certificates,
                   [attributes |-> extension, subject |-> key, calls |-> calls])
        /\ entries' = <<>>
        /\ errors' = FALSE
        /\ calls' = <<>>
        /\ UNCHANGED <<proofs, published>>

\* KycCertificate::new of a certificate issued elsewhere: an extension that does
\* not decode counts as none.
ReceiveCertificate(extension) ==
    /\ certificates' = Append(certificates,
          [attributes |-> IF Failed(extension) THEN <<>> ELSE extension,
           subject |-> Bad, calls |-> <<>>])
    /\ UNCHANGED <<entries, errors, calls, proofs, published>>

\* prove_attribute, the proof being handed to somebody.
Prove(certificate, name, key) ==
    /\ ~Failed(ProveAttribute(certificate, name, key))
    /\ proofs' = proofs \cup {ProveAttribute(certificate, name, key)}
    /\ UNCHANGED <<entries, errors, calls, certificates, published>>

CallsSeen(certificate) == IF certificate.calls = <<>> THEN 1 ELSE Len(certificate.calls)

\* MaxInputs bounds what is put in.
Inputs ==
    LET Seen[i \in 0..Len(certificates)] ==
            IF i = 0 THEN 0 ELSE Seen[i - 1] + CallsSeen(certificates[i])
    IN  Seen[Len(certificates)] + Len(calls) + Cardinality(published)

Next ==
    \/ /\ Inputs < MaxInputs
       /\ \/ \E name \in Name, sensitive \in BOOLEAN : \E value \in Offered[name] :
                WithAttribute(name, Entry(sensitive, value))
          \/ \E extension \in Foreign : ReceiveCertificate(extension)
          \/ \E record \in Record \ published :
                Publish(record) /\ UNCHANGED <<entries, errors, calls, certificates, proofs>>
    \/ \E key \in Key : Build(key)
    \/ \E i \in DOMAIN certificates, name \in Name, key \in Key :
          Cardinality(proofs) < MaxProofs /\ Prove(certificates[i], name, key)

CertificateSpec == Init /\ [][Next]_vars

-----------------------------------------------------------------------------
Issued(certificate) == certificate.calls # <<>>

\* What the issuer asked of the builder last for a name.
LastCall(puts, name) ==
    LET at == {i \in DOMAIN puts : puts[i].name = name}
    IN  puts[CHOOSE i \in at : \A j \in at : j <= i].entry

Asked(puts) == {puts[i].name : i \in DOMAIN puts}

\* builder.rs with_attribute, build and certificates/mod.rs: a certificate is
\* built only of names and values that all were right, and reads as what was
\* put last for each name, up to the schema: a sensitive value by the subject
\* alone, and never as a plain one, a plain value by anyone.
ReadsWhatWasCertified ==
    \A i \in DOMAIN certificates : LET c == certificates[i] IN Issued(c) =>
        /\ Len(c.attributes) = Cardinality(Asked(c.calls))
        /\ \A n \in Asked(c.calls) :
              LET entry == LastCall(c.calls, n)
                  reads == IF KnownAs(n, entry.sensitive)
                           THEN Reads(TypeOf(n, entry.sensitive), entry.value) ELSE Bad
              IN  /\ KnownAs(n, entry.sensitive)
                  /\ Accepts(TypeOf(n, entry.sensitive), entry.value)
                  /\ GetPlainAttribute(c, n) = IF entry.sensitive THEN Bad ELSE reads
                  /\ \A key \in Key :
                        DecryptAttribute(c, n, key) =
                            IF entry.sensitive /\ key = c.subject THEN reads ELSE Bad

\* sensitive_attributes/mod.rs to_proof, validate_proof: a proof says what its
\* maker reads.  It holds for the very attribute and key it was made with, and
\* not for another certificate that certifies the same value, nor with another
\* key, nor with another value in it.
ProofBinds ==
    \A i \in DOMAIN certificates, n \in Name, proof \in proofs, key \in Key :
        LET c == certificates[i]
            made == proof = ProveAttribute(c, n, key)
        IN  /\ made => DecryptAttribute(c, n, key) =
                          Decode(ValueType[GetAttribute(c, n).oid], proof.value)
            /\ Issued(c) =>
                  /\ ValidateAttributeProof(c, n, key, proof) = TRUE <=> made
                  /\ \A value \in ({<<"junk">>} \cup {p.value : p \in proofs}) \ {proof.value} :
                        LET altered == [proof EXCEPT !.value = value]
                        IN  ValidateAttributeProof(c, n, key, altered) # TRUE

\* references.rs: every document reference of the values an issuer put, whether
\* they were encoded by their schema or kept as they were, is found again by the
\* subject, with its digest.
ReferencesSurvive ==
    \A i \in DOMAIN certificates : LET c == certificates[i] IN
        (Issued(c) /\ c.subject \in Identified) =>
            LET blobs == [n \in Asked(c.calls) |->
                            LET put == LastCall(c.calls, n).value
                            IN  IF put[1] = "json" THEN Mentions(put[2]) ELSE {}]
            IN  ExternalReferences(c, c.subject, Name) =
                  IF \E n \in Asked(c.calls) : Bad \in blobs[n] THEN Bad
                  ELSE [n \in {m \in Asked(c.calls) : blobs[m] # {}} |-> blobs[n]]

-----------------------------------------------------------------------------
(* What the properties rest on *)

IsSequence(s) == s \in Seq({s[i] : i \in DOMAIN s})

\* A salt is drawn for the certificate, told by its place, and a name.
Salt == Nat \X Name

\* No salt is drawn twice, and those of certificates issued elsewhere are others.
ASSUME ForeignAssumption ==
    \A extension \in Foreign \ {Bad} :
        /\ IsSequence(extension)
        /\ \A i \in DOMAIN extension :
              extension[i].sensitive => extension[i].content.salt \notin Salt

Put == UNION {[name : {n}, entry : [sensitive : BOOLEAN, value : Offered[n]]] : n \in Name}

Encodings ==
    {Encode(TypeOf(p.name, p.entry.sensitive), p.entry.value) :
        p \in {q \in Put : KnownAs(q.name, q.entry.sensitive)}}

Sealed ==
    [version : {0}, key : Key, salt : Salt, encoded : Encodings,
     hash : Salt \X Key \X ({"encrypted"} \X Key \X Salt \X Encodings) \X Encodings]

\* The error is none of the values it is told from.
ASSUME BadAssumption == Bad # TRUE /\ Bad \notin Salt /\ Bad \notin Sealed

\* The builder has what was put last for each name, unless one was not known.
BuilderInv ==
    /\ calls \in Seq(Put)
    /\ errors \in BOOLEAN
    /\ ~errors =>
          /\ \A i \in DOMAIN calls : KnownAs(calls[i].name, calls[i].entry.sensitive)
          /\ entries = [n \in Asked(calls) |-> LastCall(calls, n)]

\* An attribute is what building the i-th certificate made of a name.
BuiltFor(i, certificate, name, attribute) ==
    LET entry == LastCall(certificate.calls, name)
        encoded == Encode(TypeOf(name, entry.sensitive), entry.value)
    IN  /\ attribute # Bad /\ encoded # Bad
        /\ attribute.oid = OidAs(name, entry.sensitive)
        /\ attribute.sensitive = entry.sensitive
        /\ entry.sensitive => certificate.subject \in Encrypting
        /\ attribute.content = IF entry.sensitive
                               THEN Seal(certificate.subject, <<i, name>>, encoded)
                               ELSE encoded

\* The i-th certificate has an attribute for each name it was asked for.
Fulfils(i, certificate) ==
    /\ certificate.subject \in Key
    /\ certificate.calls \in Seq(Put)
    /\ \A j \in DOMAIN certificate.calls :
          KnownAs(certificate.calls[j].name, certificate.calls[j].entry.sensitive)
    /\ IsSequence(certificate.attributes)
    /\ Len(certificate.attributes) = Cardinality(Asked(certificate.calls))
    /\ \A j \in DOMAIN certificate.attributes : \E n \in Asked(certificate.calls) :
          BuiltFor(i, certificate, n, certificate.attributes[j])
    /\ \A n \in Asked(certificate.calls) : \E j \in DOMAIN certificate.attributes :
          BuiltFor(i, certificate, n, certificate.attributes[j])

Elsewhere(certificate) ==
    certificate.attributes = <<>> \/ certificate.attributes \in Foreign \ {Bad}

\* A proof with a salt drawn here has the value that was sealed with it.
Backed(proof) ==
    /\ proof # Bad
    /\ proof = [value |-> proof.value, salt |-> proof.salt]
    /\ proof.salt \in Salt =>
          \E i \in DOMAIN certificates : LET c == certificates[i] IN
              /\ Issued(c)
              /\ \E n \in Asked(c.calls) :
                    /\ proof.salt = <<i, n>>
                    /\ proof.value = Encode(TypeOf(n, TRUE), LastCall(c.calls, n).value)

CertificateInv ==
    /\ BuilderInv
    /\ IsSequence(certificates)
    /\ \A i \in DOMAIN certificates :
          IF Issued(certificates[i]) THEN Fulfils(i, certificates[i])
          ELSE Elsewhere(certificates[i])
    /\ \A proof \in proofs : Backed(proof)
    /\ published \subseteq Record

\* What the theorems ask of the codec, a function of the value alone: what it
\* encodes is what its type takes, and reads as that...
CodecRoundTrips ==
    \A n \in Name, sensitive \in BOOLEAN : KnownAs(n, sensitive) =>
        \A value \in Offered[n] :
            LET type == TypeOf(n, sensitive)
            IN  Encode(type, value) # Bad =>
                  /\ Accepts(type, value)
                  /\ Decode(type, Encode(type, value)) = Reads(type, value)

\* ...and its references are found again.
CodecKeepsReferences ==
    \A n \in Name, sensitive \in BOOLEAN : KnownAs(n, sensitive) =>
        \A value \in Offered[n] :
            LET type == TypeOf(n, sensitive)
                decoded == Decode(type, Encode(type, value))
                blobs == IF value[1] = "json" THEN Mentions(value[2]) ELSE {}
                found == IF decoded[1] # "json" THEN {} ELSE ReferencesIn(decoded[2])
            IN  Encode(type, value) # Bad =>
                  /\ decoded # Bad
                  /\ found = IF Bad \in blobs THEN Bad ELSE blobs
                  /\ Bad \notin blobs => blobs # Bad
=============================================================================
