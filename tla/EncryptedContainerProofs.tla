----------------------- MODULE EncryptedContainerProofs -----------------------
(***************************************************************************)
(* Proofs about EncryptedContainer for every set of keys, payloads and     *)
(* body keys.  Everything follows from the inductive invariant IInv.       *)
(***************************************************************************)
EXTENDS EncryptedContainer, TLAPS

-----------------------------------------------------------------------------
(* Operators *)

\* Merging keeps exactly the keys of the stores, whoever was provided.
LEMMA MergeKeys ==
    ASSUME NEW stores \in SUBSET Key, NEW ps \in [Key -> Access]
    PROVE  /\ Merge(stores, ps) \in [Key -> Access]
           /\ KeysOf(Merge(stores, ps)) = stores
BY DEF Merge, KeysOf, Access

LEMMA NoPrincipalsKeys ==
    /\ NoPrincipals \in [Key -> Access]
    /\ KeysOf(NoPrincipals) = {}
BY DEF NoPrincipals, KeysOf, Access

\* Relisting one key leaves a well-typed principal list.
LEMMA RelistType ==
    ASSUME NEW ps \in [Key -> Access], NEW k \in Key, NEW a \in Access
    PROVE  Relist(ps, k, a) \in [Key -> Access]
BY DEF Relist, Access

\* What compute_encoded may produce is a well-formed blob of the current
\* content, recipients and signer under a body key not drawn before.
LEMMA EncodingsFresh ==
    ASSUME IInv, Encodable, NEW b \in Encodings
    PROVE  /\ b \in Blob /\ b # None
           /\ b.encrypted = encrypted
           /\ b.body = plaintext
           /\ b.stores = IF encrypted THEN KeysOf(principals) ELSE {}
           /\ b.encrypted => b.cek \in CipherKey \ spent /\ b.cek # None
                             /\ b.stores # {}
           /\ ~b.encrypted => b.cek = None
           /\ b.sig # None => b.sig.over = b.body /\ signer # None
                              /\ b.sig.sid = signer.key
<1>1. PICK m \in IF encrypted THEN CipherKey \ spent ELSE {None} :
        b = [encrypted |-> encrypted,
             stores |-> IF encrypted THEN KeysOf(principals) ELSE {},
             cek |-> m, body |-> plaintext,
             sig |-> IF signer = None THEN None
                     ELSE [sid |-> signer.key, over |-> plaintext]]
  BY DEF Encodings
<1>2. plaintext \in Payload
  BY DEF IInv, TypeOK, Encodable
<1>3. b.sig \in SignerInfo \cup {None}
  BY <1>1, <1>2 DEF IInv, TypeOK, SignerInfo, Account
<1>4. b \in Blob
  <2>1. KeysOf(principals) \in SUBSET Key
    BY DEF KeysOf
  <2>2. m \in CipherKey \cup {None}
    BY <1>1
  <2> QED BY <1>1, <1>2, <1>3, <2>1, <2>2 DEF Blob, IInv, TypeOK
<1>5. encrypted => m \in CipherKey \ spent
  BY <1>1
<1>6. b # None /\ (m \in CipherKey => m # None)
  BY <1>4, NoneAssumption
<1>7. encrypted \in BOOLEAN
  BY DEF IInv, TypeOK
<1>8. b.sig # None => b.sig.over = b.body /\ signer # None /\ b.sig.sid = signer.key
  BY <1>1
<1> QED BY <1>1, <1>4, <1>5, <1>6, <1>7, <1>8 DEF Encodable

\* Parsing the cached encoding changes nobody's standing: the principals keep
\* their keys and an attached signer stays the author of what is parsed.
LEMMA ParsingKeeps ==
    ASSUME IInv, encoded # None
    PROVE  /\ Parses
           /\ ParsedPrincipals \in [Key -> Access]
           /\ KeysOf(ParsedPrincipals) = KeysOf(principals)
           /\ ~encrypted => ParsedPrincipals = NoPrincipals
           /\ ParsedSigner(parsed) \in SignerInfo \cup {None}
           /\ signer # None /\ ParsedSigner(parsed) # None
                 => ParsedSigner(parsed).sid = signer.key
<1>1. encoded \in Blob /\ principals \in [Key -> Access] /\ encrypted \in BOOLEAN
  BY DEF IInv, TypeOK
<1>2. Parses
  BY <1>1 DEF Parses, IInv, Coherent
<1>3. encoded.stores \in SUBSET Key
  BY <1>1 DEF Blob
<1>4. CASE encrypted
  <2>1. ParsedPrincipals = Merge(encoded.stores, principals)
    BY <1>2, <1>4 DEF ParsedPrincipals, Parses
  <2>2. KeysOf(ParsedPrincipals) = encoded.stores /\ ParsedPrincipals \in [Key -> Access]
    BY <2>1, <1>1, <1>3, MergeKeys
  <2>3. encoded.stores = KeysOf(principals)
    BY <1>4 DEF IInv, Coherent
  <2>4. ParsedSigner(parsed) \in SignerInfo \cup {None}
    BY <1>1 DEF ParsedSigner, IInv, TypeOK, Blob
  <2> QED BY <1>2, <1>4, <2>2, <2>3, <2>4 DEF ParsedSigner, IInv, SignerIsAuthor
<1>5. CASE ~encrypted
  <2>1. ParsedPrincipals = NoPrincipals /\ principals = NoPrincipals
    BY <1>2, <1>5 DEF ParsedPrincipals, Parses, IInv
  <2>4. ParsedSigner(parsed) \in SignerInfo \cup {None}
    BY <1>1 DEF ParsedSigner, IInv, TypeOK, Blob
  <2> QED BY <1>2, <1>5, <2>1, <2>4, NoPrincipalsKeys
             DEF ParsedSigner, IInv, SignerIsAuthor
<1> QED BY <1>1, <1>4, <1>5

\* What compute_plaintext leaves behind.
LEMMA MaterialisingKeeps ==
    ASSUME IInv, HasPlaintext
    PROVE  /\ PlaintextNow \in Payload
           /\ encoded # None => encoded.body = PlaintextNow
           /\ PrincipalsNow \in [Key -> Access]
           /\ KeysOf(PrincipalsNow) = KeysOf(principals)
           /\ ~encrypted => PrincipalsNow = NoPrincipals
           /\ ParsedNow \in SignerInfo \cup {None}
           /\ signer # None /\ ParsedNow # None => ParsedNow.sid = signer.key
<1>1. CASE plaintext # None
  BY <1>1 DEF IInv, TypeOK, Coherent, SignerIsAuthor, PlaintextNow, PrincipalsNow, ParsedNow
<1>2. CASE plaintext = None
  <2>1. encoded # None /\ encoded \in Blob
    BY <1>2 DEF HasPlaintext, Decodes, Parses, IInv, TypeOK
  <2>2. encoded.body \in Payload
    BY <2>1 DEF Blob
  <2>3. /\ PlaintextNow = encoded.body
        /\ PrincipalsNow = ParsedPrincipals
        /\ ParsedNow = ParsedSigner(parsed)
    BY <1>2 DEF PlaintextNow, PrincipalsNow, ParsedNow
  <2> QED BY <2>1, <2>2, <2>3, ParsingKeeps
<1> QED BY <1>1, <1>2

\* A blob fresh from compute_encoded joins the pool without breaking it.
LEMMA EncodingJoins ==
    ASSUME IInv, Encodable, NEW b \in Encodings,
           Blobs' \subseteq Blobs \cup {b}, spent' = spent \cup ({b.cek} \ {None})
    PROVE  /\ \A c \in Blobs' : WellFormed(c)'
           /\ KeyPerBlob'
<1>1. WellFormed(b)'
  BY EncodingsFresh DEF WellFormed
<1>2. \A c \in Blobs : WellFormed(c)'
  BY DEF IInv, WellFormed
<1>3. \A c \in Blobs : ~(c.encrypted /\ c.cek = b.cek)
  <2> SUFFICES ASSUME NEW c \in Blobs, c.encrypted, c.cek = b.cek PROVE FALSE
    OBVIOUS
  <2>1. c.cek \in spent /\ c.cek # None
    BY NoneAssumption DEF IInv, WellFormed, TypeOK
  <2> QED BY <2>1, EncodingsFresh DEF IInv, WellFormed
<1>4. KeyPerBlob'
  <2> SUFFICES ASSUME NEW c1 \in Blobs', NEW c2 \in Blobs', c1.encrypted, c1.cek = c2.cek
               PROVE  c1 = c2
    BY DEF KeyPerBlob
  <2>1. CASE c1 \in Blobs /\ c2 \in Blobs
    BY <2>1 DEF IInv, KeyPerBlob
  <2>2. CASE c1 = b /\ c2 \in Blobs
    <3>1. c2.encrypted
      <4> SUFFICES ASSUME ~c2.encrypted PROVE FALSE
        OBVIOUS
      <4> QED BY <2>2, EncodingsFresh DEF IInv, WellFormed
    <3> QED BY <2>2, <3>1, <1>3
  <2>3. CASE c1 \in Blobs /\ c2 = b
    BY <2>3, <1>3
  <2> QED BY <2>1, <2>2, <2>3
<1> QED BY <1>1, <1>2, <1>4

-----------------------------------------------------------------------------
(* The invariant is inductive *)

LEMMA InitInvariant == Init => IInv
<1> SUFFICES ASSUME Init PROVE IInv
  OBVIOUS
<1>1. TypeOK
  BY NoPrincipalsKeys DEF Init, TypeOK
<1>2. Blobs = {}
  BY DEF Init, Blobs
<1> QED
  BY <1>1, <1>2, NoneAssumption
     DEF Init, IInv, Coherent, Recoverable, KeyPerBlob, SignerIsAuthor

\* Steps that add no blob to the pool and draw no key keep its two invariants.
LEMMA PoolKept ==
    ASSUME IInv, Blobs' \subseteq Blobs, UNCHANGED spent
    PROVE  (\A b \in Blobs' : WellFormed(b)') /\ KeyPerBlob'
BY DEF IInv, WellFormed, KeyPerBlob

LEMMA FromPlaintextKeeps ==
    ASSUME IInv, NEW p \in Payload, NEW sealed \in BOOLEAN, NEW ps \in [Key -> Access],
           NEW locked \in BOOLEAN, NEW s \in Account \cup {None},
           FromPlaintext(p, sealed, ps, locked, s)
    PROVE  IInv'
<1>1. TypeOK'
  BY NoPrincipalsKeys DEF IInv, TypeOK, FromPlaintext
<1>2. Blobs' \subseteq Blobs
  BY DEF Blobs, FromPlaintext
<1>3. (\A b \in Blobs' : WellFormed(b)') /\ KeyPerBlob'
  BY <1>2, PoolKept DEF FromPlaintext
<1>4. plaintext' # None
  BY NoneAssumption DEF FromPlaintext
<1> QED
  BY <1>1, <1>3, <1>4
     DEF IInv, FromPlaintext, Coherent, Recoverable, SignerIsAuthor

LEMMA FromEncodedKeeps ==
    ASSUME IInv, NEW b \in published, NEW provided \in [Key -> Access],
           FromEncoded(b, provided)
    PROVE  IInv'
<1>1. b \in Blob /\ b.stores \in SUBSET Key /\ b.encrypted \in BOOLEAN
      /\ b.sig \in SignerInfo \cup {None} /\ b # None
  BY NoneAssumption DEF IInv, TypeOK, Blob
<1>2. /\ Merge(b.stores, provided) \in [Key -> Access]
      /\ KeysOf(Merge(b.stores, provided)) = b.stores
  BY <1>1, MergeKeys
<1>3. TypeOK'
  BY <1>1, <1>2, NoPrincipalsKeys DEF IInv, TypeOK, FromEncoded
<1>4. Coherent' /\ Recoverable'
  BY <1>1, <1>2 DEF FromEncoded, Coherent, Recoverable
<1>5. Blobs' \subseteq Blobs
  BY <1>1 DEF Blobs, FromEncoded
<1>6. (\A c \in Blobs' : WellFormed(c)') /\ KeyPerBlob'
  BY <1>5, PoolKept DEF FromEncoded
<1> QED
  BY <1>3, <1>4, <1>6 DEF IInv, FromEncoded, SignerIsAuthor

LEMMA SetPlaintextKeeps ==
    ASSUME IInv, NEW p \in Payload, SetPlaintext(p)
    PROVE  IInv'
<1>1. TypeOK'
  BY DEF IInv, TypeOK, SetPlaintext, sealing
<1>2. Blobs' \subseteq Blobs
  BY DEF Blobs, SetPlaintext
<1>3. (\A b \in Blobs' : WellFormed(b)') /\ KeyPerBlob'
  BY <1>2, PoolKept DEF SetPlaintext
<1> QED
  BY <1>1, <1>3, NoneAssumption
     DEF IInv, SetPlaintext, sealing, Coherent, Recoverable, SignerIsAuthor

\* Steps that leave the sealing, the two forms, what was parsed, the pool and
\* the drawn keys alone, and keep the signer's key.
LEMMA DetailsKeep ==
    ASSUME IInv,
           UNCHANGED <<encrypted, principals, parsed, plaintext, encoded, published, spent>>,
           mayAccess' \in BOOLEAN,
           result' \in {"created", "opened", "ok", "refused", "valid", "invalid"},
           signer' \in Account \cup {None},
           signer' # None => signer # None /\ signer'.key = signer.key
    PROVE  IInv'
<1>1. TypeOK'
  BY DEF IInv, TypeOK
<1>2. Blobs' = Blobs
  BY DEF Blobs
<1>3. (\A b \in Blobs' : WellFormed(b)') /\ KeyPerBlob'
  BY <1>2, PoolKept
<1>4. KeysOf(principals)' = KeysOf(principals)
  BY DEF KeysOf
<1> QED
  BY <1>1, <1>3, <1>4 DEF IInv, Coherent, Recoverable, SignerIsAuthor

LEMMA TakeSigningAccountKeeps == ASSUME IInv, TakeSigningAccount PROVE IInv'
<1>1. signer' \in Account \cup {None}
  BY DEF IInv, TypeOK, TakeSigningAccount, Account
<1>2. signer' # None => signer # None /\ signer'.key = signer.key
  BY DEF TakeSigningAccount, IInv, TypeOK, Account
<1> QED
  BY <1>1, <1>2, DetailsKeep DEF TakeSigningAccount, IInv, TypeOK, sealing, forms

\* Steps that only materialise: the plaintext and what was parsed on the way
\* are stored, the principals stay the same keys, the encoding stays.
LEMMA MaterialiseStepKeeps ==
    ASSUME IInv, HasPlaintext, plaintext' = PlaintextNow, principals' = PrincipalsNow,
           parsed' = ParsedNow, result' \in {"ok", "refused"},
           UNCHANGED <<encrypted, mayAccess, signer, encoded, published, spent>>
    PROVE  IInv'
<1>1. TypeOK'
  BY MaterialisingKeeps DEF IInv, TypeOK
<1>2. Blobs' = Blobs
  BY DEF Blobs
<1>3. (\A b \in Blobs' : WellFormed(b)') /\ KeyPerBlob'
  BY <1>2, PoolKept
<1>4. KeysOf(principals)' = KeysOf(principals)
  <2>1. KeysOf(principals)' = KeysOf(PrincipalsNow)
    BY DEF KeysOf
  <2> QED BY <2>1, MaterialisingKeeps
<1>5. Coherent'
  BY <1>4, MaterialisingKeeps DEF IInv, Coherent
<1>6. plaintext' # None
  BY MaterialisingKeeps, NoneAssumption
<1>7. SignerIsAuthor'
  BY MaterialisingKeeps DEF IInv, SignerIsAuthor
<1> QED
  BY <1>1, <1>3, <1>5, <1>6, <1>7, MaterialisingKeeps DEF IInv, Recoverable

LEMMA PlaintextUnavailableKeeps == ASSUME IInv, PlaintextUnavailable PROVE IInv'
<1>1. encoded # None
  BY DEF PlaintextUnavailable, HasPlaintext, IInv, Recoverable
<1>2. principals' = ParsedPrincipals /\ parsed' = ParsedSigner(parsed)
  BY <1>1, ParsingKeeps DEF PlaintextUnavailable
<1>3. TypeOK'
  BY <1>1, <1>2, ParsingKeeps DEF IInv, TypeOK, PlaintextUnavailable, forms
<1>4. Blobs' = Blobs
  BY DEF Blobs, PlaintextUnavailable, forms
<1>5. (\A b \in Blobs' : WellFormed(b)') /\ KeyPerBlob'
  BY <1>4, PoolKept DEF PlaintextUnavailable
<1>6. KeysOf(principals)' = KeysOf(principals)
  <2>1. KeysOf(principals)' = KeysOf(ParsedPrincipals)
    BY <1>2 DEF KeysOf
  <2> QED BY <1>1, <2>1, ParsingKeeps
<1>7. Coherent'
  BY <1>6 DEF IInv, Coherent, PlaintextUnavailable, forms
<1>8. SignerIsAuthor'
  BY <1>1, <1>2, ParsingKeeps DEF IInv, SignerIsAuthor, PlaintextUnavailable, forms
<1> QED
  BY <1>1, <1>2, <1>3, <1>5, <1>7, <1>8, ParsingKeeps
     DEF IInv, Recoverable, PlaintextUnavailable, forms

LEMMA GetPlaintextKeeps == ASSUME IInv, GetPlaintext PROVE IInv'
<1>1. CASE mayAccess /\ PlaintextUnavailable
  BY <1>1, PlaintextUnavailableKeeps
<1>2. CASE ~mayAccess /\ GetPlaintext /\ ~PlaintextUnavailable
  <2>1. UNCHANGED <<sealing, mayAccess, signer, parsed, forms, published, spent>>
        /\ result' = "refused"
    BY <1>2 DEF GetPlaintext
  <2> QED BY <2>1, DetailsKeep DEF IInv, TypeOK, sealing, forms
<1>3. CASE mayAccess /\ HasPlaintext
  <2>1. /\ plaintext' = PlaintextNow
        /\ principals' = PrincipalsNow
        /\ parsed' = ParsedNow
        /\ result' = "ok"
        /\ UNCHANGED <<encrypted, mayAccess, signer, encoded, published, spent>>
    BY <1>3 DEF GetPlaintext, PlaintextUnavailable
  <2> QED BY <1>3, <2>1, MaterialiseStepKeeps
<1>4. PlaintextUnavailable => ~HasPlaintext
  BY DEF PlaintextUnavailable
<1>5. mayAccess /\ ~HasPlaintext => PlaintextUnavailable
  BY DEF GetPlaintext
<1>6. ~mayAccess /\ PlaintextUnavailable => IInv'
  BY PlaintextUnavailableKeeps
<1> QED BY <1>1, <1>2, <1>3, <1>4, <1>5, <1>6

LEMMA ChangeAccessKeeps ==
    ASSUME IInv, NEW k \in Key, NEW access \in Access, ChangeAccess(k, access)
    PROVE  IInv'
<1>1. CASE PlaintextUnavailable
  BY <1>1, PlaintextUnavailableKeeps
<1>2. CASE /\ ~encrypted
           /\ HasPlaintext
           /\ plaintext' = PlaintextNow
           /\ principals' = PrincipalsNow
           /\ parsed' = ParsedNow
           /\ result' = "refused"
           /\ UNCHANGED <<encrypted, mayAccess, signer, encoded, published, spent>>
  BY <1>2, MaterialiseStepKeeps
<1>3. CASE /\ encrypted
           /\ HasPlaintext
           /\ plaintext' = PlaintextNow
           /\ principals' = Relist(PrincipalsNow, k, access)
           /\ parsed' = ParsedNow
           /\ encoded' = None
           /\ result' = "ok"
           /\ UNCHANGED <<encrypted, mayAccess, signer, published, spent>>
  <2>1. principals' \in [Key -> Access]
    BY <1>3, RelistType, MaterialisingKeeps
  <2>2. TypeOK'
    BY <1>3, <2>1, MaterialisingKeeps DEF IInv, TypeOK
  <2>3. Blobs' \subseteq Blobs
    BY <1>3 DEF Blobs
  <2>4. (\A b \in Blobs' : WellFormed(b)') /\ KeyPerBlob'
    BY <1>3, <2>3, PoolKept
  <2>5. plaintext' # None
    BY <1>3, MaterialisingKeeps, NoneAssumption
  <2>6. SignerIsAuthor'
    BY <1>3, MaterialisingKeeps DEF IInv, SignerIsAuthor
  <2> QED BY <1>3, <2>2, <2>4, <2>5, <2>6 DEF IInv, Coherent, Recoverable
<1> QED BY <1>1, <1>2, <1>3 DEF ChangeAccess

\* A step that caches a fresh encoding, publishing it or not, and may store
\* its signature as the parsed one.
LEMMA EncodeStepKeeps ==
    ASSUME IInv, encoded = None, Encodable, NEW b \in Encodings,
           encoded' = b, published' \subseteq published \cup {b},
           spent' = spent \cup ({b.cek} \ {None}),
           principals' \in [Key -> Access], KeysOf(principals') = KeysOf(principals),
           ~encrypted => principals' = NoPrincipals,
           parsed' \in {parsed, b.sig},
           result' \in {"ok", "refused", "valid", "invalid"},
           UNCHANGED <<encrypted, mayAccess, signer, plaintext>>
    PROVE  IInv'
<1>1. /\ b \in Blob /\ b # None /\ b.encrypted = encrypted /\ b.body = plaintext
      /\ b.stores = IF encrypted THEN KeysOf(principals) ELSE {}
      /\ b.cek \in CipherKey \cup {None}
      /\ b.sig \in SignerInfo \cup {None}
      /\ b.sig # None => signer # None /\ b.sig.sid = signer.key
  BY EncodingsFresh DEF Blob
<1>2. TypeOK'
  BY <1>1 DEF IInv, TypeOK
<1>3. Blobs' \subseteq Blobs \cup {b}
  BY DEF Blobs
<1>4. (\A c \in Blobs' : WellFormed(c)') /\ KeyPerBlob'
  BY <1>3, EncodingJoins
<1>5. Coherent' /\ Recoverable'
  BY <1>1 DEF Coherent, Recoverable, KeysOf
<1>6. SignerIsAuthor'
  BY <1>1 DEF IInv, SignerIsAuthor
<1> QED BY <1>2, <1>4, <1>5, <1>6 DEF IInv

LEMMA GetEncodedKeeps == ASSUME IInv, GetEncoded PROVE IInv'
<1>1. CASE /\ encoded # None
           /\ published' = published \cup {encoded}
           /\ result' = "ok"
           /\ UNCHANGED <<sealing, mayAccess, signer, parsed, forms, spent>>
  <2>1. encoded \in Blob
    BY <1>1 DEF IInv, TypeOK
  <2>2. TypeOK'
    BY <1>1, <2>1 DEF IInv, TypeOK, sealing, forms
  <2>3. Blobs' \subseteq Blobs
    BY <1>1 DEF Blobs, forms
  <2>4. (\A b \in Blobs' : WellFormed(b)') /\ KeyPerBlob'
    BY <1>1, <2>3, PoolKept
  <2>5. KeysOf(principals)' = KeysOf(principals)
    BY <1>1 DEF KeysOf, sealing
  <2> QED
    BY <1>1, <2>2, <2>4, <2>5
       DEF IInv, Coherent, Recoverable, SignerIsAuthor, sealing, forms
<1>2. CASE /\ encoded = None
           /\ Encodable
           /\ \E b \in Encodings :
                 /\ encoded' = b
                 /\ published' = published \cup {b}
                 /\ spent' = spent \cup ({b.cek} \ {None})
           /\ result' = "ok"
           /\ UNCHANGED <<sealing, mayAccess, signer, parsed, plaintext>>
  <2>1. PICK b \in Encodings :
            /\ encoded' = b
            /\ published' = published \cup {b}
            /\ spent' = spent \cup ({b.cek} \ {None})
    BY <1>2
  <2>2. /\ principals' = principals /\ principals \in [Key -> Access]
        /\ ~encrypted => principals = NoPrincipals
    BY <1>2 DEF sealing, IInv, TypeOK
  <2> QED BY <1>2, <2>1, <2>2, EncodeStepKeeps DEF sealing
<1>3. CASE /\ result' = "refused"
           /\ UNCHANGED <<sealing, mayAccess, signer, parsed, forms, published, spent>>
  BY <1>3, DetailsKeep DEF IInv, TypeOK, sealing, forms
<1> QED BY <1>1, <1>2, <1>3 DEF GetEncoded

\* Checking a blob that agrees with the container changes nobody's standing.
LEMMA CheckingKeeps ==
    ASSUME IInv, NEW blob \in Blob, blob.encrypted = encrypted,
           encrypted => blob.stores = KeysOf(principals),
           NEW info \in SignerInfo \cup {None}, CheckSignature(blob, info)
    PROVE  /\ principals' \in [Key -> Access]
           /\ KeysOf(principals') = KeysOf(principals)
           /\ ~encrypted => principals' = NoPrincipals
           /\ parsed' \in {info, blob.sig}
           /\ result' \in {"refused", "valid", "invalid"}
           /\ result' = "valid" => info # None /\ info.over = blob.body
<1>1. principals \in [Key -> Access] /\ encrypted \in BOOLEAN /\ blob.stores \in SUBSET Key
  BY DEF IInv, TypeOK, Blob
<1>2. /\ Merge(blob.stores, principals) \in [Key -> Access]
      /\ KeysOf(Merge(blob.stores, principals)) = blob.stores
  BY <1>1, MergeKeys
<1>3. /\ principals' \in {principals, IF blob.encrypted THEN Merge(blob.stores, principals)
                                    ELSE NoPrincipals}
      /\ parsed' \in {info, blob.sig}
  BY DEF CheckSignature
<1>4. ~encrypted => principals = NoPrincipals
  BY DEF IInv
<1>5. /\ result' \in {"refused", "valid", "invalid"}
      /\ result' = "valid" => info # None /\ info.over = blob.body
  BY DEF CheckSignature, Verifies
<1> QED BY <1>1, <1>2, <1>3, <1>4, <1>5, NoPrincipalsKeys

LEMMA VerifySignatureKeeps == ASSUME IInv, VerifySignature PROVE IInv'
<1>1. ASSUME encoded # None, NEW info \in {parsed, encoded.sig},
             CheckSignature(encoded, info),
             UNCHANGED <<encrypted, mayAccess, signer, forms, published, spent>>
      PROVE  IInv'
  <2>1. /\ encoded \in Blob /\ encoded.encrypted = encrypted
        /\ encrypted => encoded.stores = KeysOf(principals)
        /\ info \in SignerInfo \cup {None} /\ encoded.sig \in SignerInfo \cup {None}
    BY <1>1 DEF IInv, TypeOK, Coherent, Blob
  <2>2. /\ principals' \in [Key -> Access]
        /\ KeysOf(principals') = KeysOf(principals)
        /\ ~encrypted => principals' = NoPrincipals
        /\ parsed' \in {parsed, encoded.sig}
        /\ result' \in {"refused", "valid", "invalid"}
    BY <1>1, <2>1, CheckingKeeps
  <2>3. TypeOK'
    BY <1>1, <2>1, <2>2 DEF IInv, TypeOK, forms
  <2>4. Blobs' = Blobs
    BY <1>1 DEF Blobs, forms
  <2>5. (\A b \in Blobs' : WellFormed(b)') /\ KeyPerBlob'
    BY <1>1, <2>4, PoolKept
  <2>6. KeysOf(principals)' = KeysOf(principals)
    BY <2>2 DEF KeysOf
  <2>7. SignerIsAuthor'
    BY <1>1, <2>2 DEF IInv, SignerIsAuthor, forms
  <2> QED
    BY <1>1, <2>2, <2>3, <2>5, <2>6, <2>7 DEF IInv, Coherent, Recoverable, forms
<1>2. CASE /\ encoded = None
           /\ Encodable
           /\ \E b \in Encodings :
                 /\ encoded' = b
                 /\ spent' = spent \cup ({b.cek} \ {None})
                 /\ CheckSignature(b, b.sig)
           /\ UNCHANGED <<encrypted, mayAccess, signer, plaintext, published>>
  <2>1. PICK b \in Encodings :
            /\ encoded' = b
            /\ spent' = spent \cup ({b.cek} \ {None})
            /\ CheckSignature(b, b.sig)
    BY <1>2
  <2>2. /\ b \in Blob /\ b.encrypted = encrypted
        /\ encrypted => b.stores = KeysOf(principals)
        /\ b.sig \in SignerInfo \cup {None}
    BY <1>2, EncodingsFresh DEF Blob
  <2>3. /\ principals' \in [Key -> Access]
        /\ KeysOf(principals') = KeysOf(principals)
        /\ ~encrypted => principals' = NoPrincipals
        /\ parsed' \in {b.sig}
        /\ result' \in {"refused", "valid", "invalid"}
    BY <2>1, <2>2, CheckingKeeps
  <2> QED BY <1>2, <2>1, <2>3, EncodeStepKeeps
<1>3. CASE /\ result' = "refused"
           /\ UNCHANGED <<sealing, mayAccess, signer, parsed, forms, published, spent>>
  BY <1>3, DetailsKeep DEF IInv, TypeOK, sealing, forms
<1> QED BY <1>1, <1>2, <1>3 DEF VerifySignature

LEMMA StepInvariant == IInv /\ [Next]_vars => IInv'
<1> SUFFICES ASSUME IInv, [Next]_vars PROVE IInv'
  OBVIOUS
<1>1. CASE \E p \in Payload, sealed \in BOOLEAN, ps \in [Key -> Access],
              locked \in BOOLEAN, s \in Account \cup {None} :
                 FromPlaintext(p, sealed, ps, locked, s)
  BY <1>1, FromPlaintextKeeps
<1>2. CASE \E b \in published, provided \in [Key -> Access] : FromEncoded(b, provided)
  BY <1>2, FromEncodedKeeps
<1>3. CASE \E p \in Payload : SetPlaintext(p)
  BY <1>3, SetPlaintextKeeps
<1>4. CASE DisablePlaintext
  BY <1>4, DetailsKeep DEF DisablePlaintext, IInv, TypeOK, sealing, forms
<1>5. CASE GetPlaintext
  BY <1>5, GetPlaintextKeeps
<1>6. CASE GetEncoded
  BY <1>6, GetEncodedKeeps
<1>7. CASE \E k \in Key, access \in Access : GrantAccess(k, access)
  BY <1>7, ChangeAccessKeeps DEF GrantAccess
<1>8. CASE \E k \in Key : RevokeAccess(k)
  BY <1>8, ChangeAccessKeeps DEF RevokeAccess, Access
<1>9. CASE TakeSigningAccount
  BY <1>9, TakeSigningAccountKeeps
<1>10. CASE VerifySignature
  BY <1>10, VerifySignatureKeeps
<1>11. CASE UNCHANGED vars
  BY <1>11, DetailsKeep DEF vars, IInv, TypeOK
<1> QED
  BY <1>1, <1>2, <1>3, <1>4, <1>5, <1>6, <1>7, <1>8, <1>9, <1>10, <1>11 DEF Next

-----------------------------------------------------------------------------
(* Theorems *)

\* The inductive invariant holds in every reachable state.
THEOREM Invariance == Spec => []IInv
BY InitInvariant, StepInvariant, PTL DEF Spec

\* The fields of the container always have the types of the struct.
THEOREM TypeCorrectness == Spec => []TypeOK
<1>1. IInv => TypeOK
  BY DEF IInv
<1> QED BY <1>1, Invariance, PTL

\* A cached encoding always lists the current principals and holds the current
\* plaintext (the caching of get_encoded, grant_access, revoke_access and
\* set_plaintext).
THEOREM CachesCoherent == Spec => []Coherent
<1>1. IInv => Coherent
  BY DEF IInv
<1> QED BY <1>1, Invariance, PTL

\* The content of a container is never lost, whatever calls fail.
THEOREM ContentRecoverable == Spec => []Recoverable
<1>1. IInv => Recoverable
  BY DEF IInv
<1> QED BY <1>1, Invariance, PTL

\* A body key opens one published blob only, so a blob opens for the keys it
\* is wrapped to and for nobody else.
LEMMA OpenersOfBlob ==
    ASSUME IInv, NEW pool \in SUBSET Blobs, NEW b \in pool, b.encrypted
    PROVE  Openers(b, pool) = b.stores
<1>1. b \in Blob
  BY DEF IInv, TypeOK, Blobs
<1>2. \A b2 \in pool : b2.cek = b.cek => b2 = b
  BY DEF IInv, KeyPerBlob
<1> QED BY <1>1, <1>2 DEF Openers, Blob

THEOREM PublishedStaySealed == Spec => []SealedForGood
<1>1. IInv => SealedForGood
  BY OpenersOfBlob DEF SealedForGood, Blobs, IInv, TypeOK
<1> QED BY <1>1, Invariance, PTL

\* Only get_encoded hands out a blob, and what it hands out is what it caches.
LEMMA PublishedIsEncoded ==
    ASSUME IInv, [Next]_vars, NEW b \in published' \ published
    PROVE  b = encoded' /\ b # None
<1>1. CASE GetEncoded
  <2>1. CASE encoded # None /\ published' = published \cup {encoded} /\ UNCHANGED forms
    BY <2>1 DEF forms
  <2>2. CASE Encodable /\ \E c \in Encodings : encoded' = c /\ published' = published \cup {c}
    <3>1. PICK c \in Encodings : encoded' = c /\ published' = published \cup {c}
      BY <2>2
    <3>2. c # None
      BY <2>2, EncodingsFresh
    <3> QED BY <3>1, <3>2
  <2>3. CASE UNCHANGED published
    BY <2>3
  <2> QED BY <1>1, <2>1, <2>2, <2>3 DEF GetEncoded
<1>2. CASE ~GetEncoded
  <2>1. UNCHANGED published
    BY <1>2 DEF Next, vars, FromPlaintext, FromEncoded, SetPlaintext, DisablePlaintext,
                GetPlaintext, PlaintextUnavailable, GrantAccess, RevokeAccess, ChangeAccess,
                TakeSigningAccount, VerifySignature
  <2> QED BY <2>1
<1> QED BY <1>1, <1>2

\* A blob leaving the container opens for the principals of that moment only:
\* revoke_access takes effect on everything get_encoded returns afterwards.
THEOREM RevocationEffective == Spec => OnlyPrincipalsOpen
<1>1. IInv /\ IInv' /\ [Next]_vars =>
        [\A b \in published' \ published :
            b.encrypted => Openers(b, published') = KeysOf(principals')]_vars
  <2> SUFFICES ASSUME IInv, IInv', [Next]_vars, NEW b \in published' \ published, b.encrypted
               PROVE  Openers(b, published') = KeysOf(principals')
    OBVIOUS
  <2>1. b = encoded' /\ b # None
    BY PublishedIsEncoded
  <2>2. b.stores = KeysOf(principals')
    <3>1. b.encrypted = encrypted' /\ (encrypted' => b.stores = KeysOf(principals)')
      BY <2>1 DEF IInv, Coherent
    <3> QED BY <3>1 DEF KeysOf
  <2>3. \A b2 \in published' : b2.cek = b.cek => b2 = b
    <3>1. published' \subseteq Blobs'
      BY DEF Blobs
    <3> QED BY <3>1 DEF IInv, KeyPerBlob
  <2>4. b.stores \in SUBSET Key
    BY DEF IInv, TypeOK, Blob
  <2> QED BY <2>2, <2>3, <2>4 DEF Openers
<1> QED BY <1>1, Invariance, PTL DEF Spec, OnlyPrincipalsOpen

\* A step adds to the blobs only what compute_encoded made.
LEMMA BlobsAreMade ==
    ASSUME IInv, [Next]_vars, NEW b \in Blobs'
    PROVE  b \in Blobs \/ (b.sig # None => Verifies(b.sig, b.body))
<1>1. CASE GetEncoded \/ VerifySignature
  <2>1. b \in Blobs \/ (Encodable /\ b \in Encodings)
    BY <1>1 DEF GetEncoded, VerifySignature, forms, Blobs
  <2> QED BY <2>1, EncodingsFresh DEF Verifies
<1>2. CASE ~GetEncoded /\ ~VerifySignature
  <2>1. Blobs' \subseteq Blobs
    BY <1>2 DEF Next, vars, FromPlaintext, FromEncoded, SetPlaintext, DisablePlaintext,
                GetPlaintext, PlaintextUnavailable, GrantAccess, RevokeAccess, ChangeAccess,
                TakeSigningAccount, forms, Blobs
  <2> QED BY <2>1
<1> QED BY <1>1, <1>2

\* Every signature on a blob this code made, or caches, covers its content.
THEOREM SignaturesAuthentic == Spec => []Authentic
<1>1. Init => Authentic
  BY DEF Init, Authentic, Blobs
<1>2. IInv /\ Authentic /\ [Next]_vars => Authentic'
  BY BlobsAreMade DEF Authentic, Verifies
<1> QED BY <1>1, <1>2, Invariance, PTL DEF Spec

\* Only verify_signature answers "valid", about the cached encoding.
LEMMA ValidIsVerified ==
    ASSUME IInv, IInv', Next, result' = "valid"
    PROVE  VerifySignature
BY DEF Next, FromPlaintext, FromEncoded, SetPlaintext, DisablePlaintext, GetPlaintext,
       GetEncoded, PlaintextUnavailable, GrantAccess, RevokeAccess, ChangeAccess,
       TakeSigningAccount

\* verify_signature answers true only for a signature over the content the
\* container would show, made by the account that signing_account reports.
THEOREM ValidSignatures == Spec => ValidIsAuthentic
<1>1. IInv /\ IInv' /\ Authentic' /\ [Next]_vars =>
        [result' = "valid" =>
            /\ parsed' # None
            /\ signer' # None => signer'.key = parsed'.sid
            /\ parsed'.over = Content']_vars
  <2> SUFFICES ASSUME IInv, IInv', Authentic', Next, result' = "valid"
               PROVE  /\ parsed' # None
                      /\ signer' # None => signer'.key = parsed'.sid
                      /\ parsed'.over = Content'
    OBVIOUS
  <2>1. PICK blob, info :
          /\ CheckSignature(blob, info) /\ encoded' = blob
          /\ info \in {parsed, blob.sig}
          /\ \/ encoded # None /\ blob = encoded /\ UNCHANGED forms
             \/ encoded = None /\ Encodable /\ blob \in Encodings /\ plaintext' = plaintext
    BY ValidIsVerified DEF VerifySignature, forms
  <2>2. blob \in Blob /\ blob # None
    BY <2>1, EncodingsFresh DEF IInv, TypeOK
  <2>3. info # None /\ info.over = blob.body
    BY <2>1 DEF CheckSignature, Verifies
  <2>4. parsed' = IF blob.sig # None THEN blob.sig ELSE info
    BY <2>1, <2>3 DEF CheckSignature
  <2>5. blob.sig # None => blob.sig.over = blob.body
    BY <2>1, <2>2 DEF Authentic, Blobs, Verifies
  <2>6. Content' = blob.body
    BY <2>1, <2>2 DEF IInv, Coherent, Content
  <2>7. signer' # None => signer'.key = parsed'.sid
    BY <2>3, <2>4 DEF IInv, SignerIsAuthor
  <2> QED BY <2>3, <2>4, <2>5, <2>6, <2>7
<1> QED BY <1>1, Invariance, SignaturesAuthentic, PTL DEF Spec, ValidIsAuthentic

\* A refusal while the plaintext is computed, and one after it.
LEMMA UnavailableIsClean ==
    ASSUME IInv, PlaintextUnavailable
    PROVE  /\ UNCHANGED <<encrypted, signer, plaintext, encoded>>
           /\ KeysOf(principals') = KeysOf(principals)
<1>1. encoded # None
  BY DEF PlaintextUnavailable, HasPlaintext, IInv, Recoverable
<1> QED BY <1>1, ParsingKeeps DEF PlaintextUnavailable, forms

LEMMA MaterialisingIsClean ==
    ASSUME IInv, HasPlaintext, plaintext' = PlaintextNow, principals' = PrincipalsNow,
           UNCHANGED <<encrypted, signer, encoded>>
    PROVE  /\ Content' = Content
           /\ KeysOf(principals') = KeysOf(principals)
<1>1. plaintext' # None
  BY MaterialisingKeeps, NoneAssumption
<1> QED BY <1>1, MaterialisingKeeps DEF Content, PlaintextNow

\* verify_signature changes no content, no reader and no signer.
LEMMA VerifyingIsClean ==
    ASSUME IInv, VerifySignature
    PROVE  /\ UNCHANGED <<encrypted, signer>>
           /\ encoded # None => encoded' = encoded
           /\ Content' = Content
           /\ KeysOf(principals') = KeysOf(principals)
<1>1. ASSUME encoded # None, NEW info \in {parsed, encoded.sig}, CheckSignature(encoded, info)
      PROVE  KeysOf(principals') = KeysOf(principals)
  <2>1. /\ encoded \in Blob /\ encoded.encrypted = encrypted
        /\ encrypted => encoded.stores = KeysOf(principals)
        /\ info \in SignerInfo \cup {None}
    BY <1>1 DEF IInv, TypeOK, Coherent, Blob
  <2> QED BY <1>1, <2>1, CheckingKeeps
<1>2. CASE encoded # None /\ UNCHANGED <<encrypted, signer, forms>>
  BY <1>1, <1>2 DEF VerifySignature, forms, Content
<1>3. ASSUME encoded = None, Encodable, NEW b \in Encodings, encoded' = b,
             CheckSignature(b, b.sig), UNCHANGED <<encrypted, signer, plaintext>>
      PROVE  Content' = Content /\ KeysOf(principals') = KeysOf(principals)
  <2>1. /\ b \in Blob /\ b.encrypted = encrypted /\ b.sig \in SignerInfo \cup {None}
        /\ encrypted => b.stores = KeysOf(principals)
    BY <1>3, EncodingsFresh DEF Blob
  <2> QED BY <1>3, <2>1, CheckingKeeps DEF Content, Encodable
<1>4. CASE UNCHANGED <<sealing, signer, forms>>
  BY <1>4 DEF sealing, forms, Content
<1> QED BY <1>2, <1>3, <1>4 DEF VerifySignature

\* A call that returns an error leaves the document, its readers, its signer and
\* the encoding it had cached as they were, at whatever point it fails.
THEOREM RefusalsAreClean == Spec => RefusalsChangeNothing
<1> DEFINE Clean == /\ encoded # None => encoded' = encoded
                    /\ Content' = Content
                    /\ encrypted' = encrypted
                    /\ KeysOf(principals') = KeysOf(principals)
                    /\ signer' = signer
<1>1. IInv /\ [Next]_vars => [result' = "refused" => Clean]_vars
  <2> SUFFICES ASSUME IInv, Next, result' = "refused" PROVE Clean
    OBVIOUS
  <2>1. CASE PlaintextUnavailable
    BY <2>1, UnavailableIsClean DEF Content
  <2>2. CASE UNCHANGED <<sealing, signer, forms>>
    BY <2>2 DEF sealing, forms, Content
  <2>3. CASE VerifySignature
    BY <2>3, VerifyingIsClean
  <2>4. CASE /\ HasPlaintext /\ plaintext' = PlaintextNow /\ principals' = PrincipalsNow
             /\ UNCHANGED <<encrypted, signer, encoded>>
    BY <2>4, MaterialisingIsClean
  <2> HIDE DEF Clean
  <2> QED BY <2>1, <2>2, <2>3, <2>4
          DEF Next, FromPlaintext, FromEncoded, SetPlaintext, DisablePlaintext, GetPlaintext,
              GetEncoded, GrantAccess, RevokeAccess, ChangeAccess, TakeSigningAccount
<1> QED BY <1>1, Invariance, PTL DEF Spec, RefusalsChangeNothing

-----------------------------------------------------------------------------
(* The container implements the document *)

LEMMA InitMaps == Init => Document!DocInit
BY NoneAssumption DEF Init, Document!DocInit, Content, Readers, Copies, LastUse

\* The results of the methods, none of which builds a container.
Returns == {"ok", "refused", "valid", "invalid"}

\* When the pool and the access keys stay and the content does, a method only
\* observes the document.
LEMMA DocumentStays ==
    ASSUME UNCHANGED <<encrypted, published>>, Content' = Content,
           KeysOf(principals') = KeysOf(principals), result' \in Returns
    PROVE  Document!DocNext
<1>1. LastUse' = "used"
  BY DEF LastUse, Returns
<1>2. Readers' = Readers /\ Copies' = Copies
  BY DEF Readers, Copies, CopyOf, KeysOf
<1>3. Document!Observe
  BY <1>1, <1>2 DEF Document!Observe
<1> QED BY <1>3 DEF Document!DocNext

LEMMA MaterialiseMaps ==
    ASSUME IInv, HasPlaintext, plaintext' = PlaintextNow
    PROVE  Content' = Content
<1>1. plaintext' # None
  BY MaterialisingKeeps, NoneAssumption
<1> QED BY <1>1 DEF Content, PlaintextNow

LEMMA UnavailableMaps ==
    ASSUME IInv, PlaintextUnavailable PROVE Document!DocNext
<1>1. encoded # None
  BY DEF PlaintextUnavailable, HasPlaintext, IInv, Recoverable
<1>2. KeysOf(principals') = KeysOf(principals)
  BY <1>1, ParsingKeeps DEF PlaintextUnavailable
<1>3. UNCHANGED <<encrypted, published, plaintext, encoded>>
  BY DEF PlaintextUnavailable, forms
<1>4. Content' = Content
  BY <1>3 DEF Content
<1> QED BY <1>2, <1>3, <1>4, DocumentStays DEF PlaintextUnavailable, Returns

LEMMA FromPlaintextMaps ==
    ASSUME NEW p \in Payload, NEW sealed \in BOOLEAN, NEW ps \in [Key -> Access],
           NEW locked \in BOOLEAN, NEW s \in Account \cup {None},
           FromPlaintext(p, sealed, ps, locked, s)
    PROVE  Document!DocNext
<1>1. KeysOf(ps) \in SUBSET Key
  BY DEF KeysOf
<1>2. Content' = p
  BY NoneAssumption DEF FromPlaintext, Content
<1>3. Copies' = Copies
  BY DEF FromPlaintext, Copies
<1>4. Readers' = IF sealed THEN KeysOf(ps) ELSE {}
  BY DEF FromPlaintext, Readers, KeysOf
<1>5. Document!Create
  BY <1>1, <1>2, <1>3, <1>4 DEF Document!Create, FromPlaintext, LastUse
<1> QED BY <1>1, <1>5 DEF Document!DocNext

LEMMA FromEncodedMaps ==
    ASSUME IInv, NEW b \in published, NEW provided \in [Key -> Access],
           FromEncoded(b, provided)
    PROVE  Document!DocNext
<1>1. b \in Blob /\ b.stores \in SUBSET Key /\ b.encrypted \in BOOLEAN
  BY DEF IInv, TypeOK, Blob
<1>2. KeysOf(Merge(b.stores, provided)) = b.stores
  BY <1>1, MergeKeys
<1>3. ~b.encrypted => b.stores = {}
  BY DEF IInv, WellFormed, Blobs
<1>4. Readers' = b.stores
  BY <1>1, <1>2, <1>3 DEF FromEncoded, Readers, KeysOf
<1>5. Content' = b.body /\ Copies' = Copies
  BY DEF FromEncoded, Content, Copies
<1>6. Document!OpenCopy(CopyOf(b))
  BY <1>4, <1>5 DEF Document!OpenCopy, CopyOf, FromEncoded, LastUse
<1> QED BY <1>6 DEF Document!DocNext, Copies

LEMMA SetPlaintextMaps ==
    ASSUME NEW p \in Payload, SetPlaintext(p) PROVE Document!DocNext
<1>1. Content' = p
  BY NoneAssumption DEF SetPlaintext, Content
<1>2. Readers' = Readers /\ Copies' = Copies
  BY DEF SetPlaintext, Readers, Copies, sealing, KeysOf
<1>3. Document!Replace(p)
  BY <1>1, <1>2 DEF Document!Replace, SetPlaintext, sealing, LastUse
<1> QED BY <1>3 DEF Document!DocNext

LEMMA GetPlaintextMaps ==
    ASSUME IInv, GetPlaintext PROVE Document!DocNext
<1>1. CASE PlaintextUnavailable
  BY <1>1, UnavailableMaps
<1>2. CASE /\ HasPlaintext /\ plaintext' = PlaintextNow /\ principals' = PrincipalsNow
           /\ result' \in Returns
           /\ UNCHANGED <<encrypted, mayAccess, signer, encoded, published, spent>>
  BY <1>2, MaterialiseMaps, MaterialisingKeeps, DocumentStays
<1>3. CASE /\ result' = "refused"
           /\ UNCHANGED <<sealing, mayAccess, signer, parsed, forms, published, spent>>
  BY <1>3, DocumentStays DEF sealing, forms, Content, Returns
<1> QED BY <1>1, <1>2, <1>3 DEF GetPlaintext, Returns

\* Listing or dropping one key is Share or Unshare; a refusal is no step.
LEMMA ChangeAccessMaps ==
    ASSUME IInv, NEW k \in Key, NEW access \in Access, ChangeAccess(k, access)
    PROVE  Document!DocNext
<1>1. CASE PlaintextUnavailable
  BY <1>1, UnavailableMaps
<1>2. CASE /\ HasPlaintext /\ plaintext' = PlaintextNow /\ principals' = PrincipalsNow
           /\ result' \in Returns
           /\ UNCHANGED <<encrypted, mayAccess, signer, encoded, published, spent>>
  BY <1>2, MaterialiseMaps, MaterialisingKeeps, DocumentStays
<1>3. CASE /\ encrypted /\ HasPlaintext /\ plaintext' = PlaintextNow
           /\ principals' = Relist(PrincipalsNow, k, access)
           /\ result' \in Returns
           /\ UNCHANGED <<encrypted, mayAccess, signer, published, spent>>
  <2>1. Content' = Content /\ Copies' = Copies
    BY <1>3, MaterialiseMaps DEF Copies
  <2>2. PrincipalsNow \in [Key -> Access] /\ KeysOf(PrincipalsNow) = KeysOf(principals)
    BY <1>3, MaterialisingKeeps
  <2>3. Readers = KeysOf(PrincipalsNow) /\ Readers' = KeysOf(Relist(PrincipalsNow, k, access))
    BY <1>3, <2>2 DEF Readers, KeysOf
  <2>4. CASE access = "absent"
    <3>1. Readers' = Readers \ {k}
      BY <2>2, <2>3, <2>4 DEF KeysOf, Relist
    <3>2. Document!Unshare(k)
      BY <1>3, <2>1, <3>1 DEF Document!Unshare, LastUse, Returns
    <3> QED BY <3>2 DEF Document!DocNext
  <2>5. CASE access # "absent"
    <3>1. Readers' = Readers \cup {k}
      BY <2>2, <2>3, <2>5 DEF KeysOf, Relist
    <3>2. Document!Share(k)
      BY <1>3, <2>1, <3>1 DEF Document!Share, LastUse, Returns
    <3> QED BY <3>2 DEF Document!DocNext
  <2> QED BY <2>4, <2>5
<1> QED BY <1>1, <1>2, <1>3 DEF ChangeAccess, Returns

\* A call that hands out blob b, cached or just computed, is an export.
LEMMA PublishingMaps ==
    ASSUME IInv, NEW b \in Blob, published' = published \cup {b},
           b.encrypted = encrypted, b.body = Content,
           encrypted => b.stores = KeysOf(principals), WellFormed(b) \/ WellFormed(b)',
           Content' = Content, UNCHANGED sealing, result' = "ok"
    PROVE  Document!DocNext
<1>1. encrypted \in BOOLEAN
  BY DEF IInv, TypeOK
<1>2. (b.encrypted => b.stores # {}) /\ (~b.encrypted => b.stores = {})
  BY DEF WellFormed
<1>3. CopyOf(b) = [sealed |-> encrypted, payload |-> Content, readers |-> Readers]
  BY <1>1, <1>2 DEF CopyOf, Readers
<1>4. Copies' = Copies \cup {CopyOf(b)}
  BY DEF Copies, CopyOf
<1>5. Readers' = Readers /\ (encrypted => Readers # {})
  BY <1>2 DEF Readers, sealing, KeysOf
<1>6. Document!Export
  BY <1>3, <1>4, <1>5 DEF Document!Export, sealing, LastUse
<1> QED BY <1>6 DEF Document!DocNext

LEMMA GetEncodedMaps ==
    ASSUME IInv, IInv', GetEncoded
    PROVE  Document!DocNext
<1>1. CASE /\ encoded # None
           /\ published' = published \cup {encoded}
           /\ result' = "ok"
           /\ UNCHANGED <<sealing, mayAccess, signer, parsed, forms, spent>>
  <2>1. encoded \in Blob /\ WellFormed(encoded) /\ encoded.encrypted = encrypted
    BY <1>1 DEF IInv, TypeOK, Blobs, Coherent
  <2>2. encoded.body = Content /\ (encrypted => encoded.stores = KeysOf(principals))
    BY <1>1 DEF IInv, Coherent, Content
  <2>3. Content' = Content
    BY <1>1 DEF Content, forms
  <2> QED BY <1>1, <2>1, <2>2, <2>3, PublishingMaps
<1>2. CASE /\ Encodable
           /\ \E b \in Encodings :
                 /\ encoded' = b
                 /\ published' = published \cup {b}
                 /\ spent' = spent \cup ({b.cek} \ {None})
           /\ result' = "ok"
           /\ UNCHANGED <<sealing, mayAccess, signer, parsed, plaintext>>
  <2>1. PICK b \in Encodings : encoded' = b /\ published' = published \cup {b}
    BY <1>2
  <2>2. /\ b \in Blob /\ b # None /\ b.encrypted = encrypted /\ b.body = plaintext
        /\ encrypted => b.stores = KeysOf(principals)
    BY <1>2, EncodingsFresh
  <2>3. WellFormed(b)'
    BY <2>1, <2>2 DEF IInv, Blobs
  <2>4. b.body = Content /\ Content' = Content
    BY <1>2, <2>2 DEF Content, Encodable
  <2> QED BY <1>2, <2>1, <2>2, <2>3, <2>4, PublishingMaps
<1>3. CASE /\ result' = "refused"
           /\ UNCHANGED <<sealing, mayAccess, signer, parsed, forms, published, spent>>
  BY <1>3, DocumentStays DEF sealing, forms, Content, Returns
<1> QED BY <1>1, <1>2, <1>3 DEF GetEncoded

LEMMA VerifySignatureMaps ==
    ASSUME IInv, IInv', VerifySignature PROVE Document!DocNext
<1>1. ASSUME NEW blob \in Blob, NEW info \in SignerInfo \cup {None},
             blob.encrypted = encrypted, encrypted => blob.stores = KeysOf(principals),
             CheckSignature(blob, info)
      PROVE  KeysOf(principals') = KeysOf(principals) /\ result' \in Returns
  BY <1>1, CheckingKeeps DEF Returns
<1>2. ASSUME encoded # None, NEW info \in {parsed, encoded.sig},
             CheckSignature(encoded, info), UNCHANGED <<encrypted, forms, published>>
      PROVE  Document!DocNext
  <2>1. /\ encoded \in Blob /\ encoded.encrypted = encrypted
        /\ encrypted => encoded.stores = KeysOf(principals)
        /\ info \in SignerInfo \cup {None}
    BY <1>2 DEF IInv, TypeOK, Coherent, Blob
  <2>2. KeysOf(principals') = KeysOf(principals) /\ result' \in Returns
    BY <1>1, <1>2, <2>1
  <2> QED BY <1>2, <2>2, DocumentStays DEF forms, Content
<1>3. ASSUME encoded = None, Encodable, NEW b \in Encodings, encoded' = b,
             CheckSignature(b, b.sig), UNCHANGED <<encrypted, plaintext, published>>
      PROVE  Document!DocNext
  <2>1. /\ b \in Blob /\ b.encrypted = encrypted /\ b.sig \in SignerInfo \cup {None}
        /\ encrypted => b.stores = KeysOf(principals)
    BY <1>3, EncodingsFresh DEF Blob
  <2>2. KeysOf(principals') = KeysOf(principals) /\ result' \in Returns
    BY <1>1, <1>3, <2>1
  <2>3. Content' = Content
    BY <1>3 DEF Content, Encodable
  <2> QED BY <1>3, <2>2, <2>3, DocumentStays
<1>4. CASE /\ result' = "refused"
           /\ UNCHANGED <<sealing, mayAccess, signer, parsed, forms, published, spent>>
  BY <1>4, DocumentStays DEF sealing, forms, Content, Returns
<1> QED BY <1>2, <1>3, <1>4 DEF VerifySignature

LEMMA StepMaps ==
    IInv /\ IInv' /\ [Next]_vars => Document!DocNext \/ UNCHANGED Document!docVars
<1> SUFFICES ASSUME IInv, IInv', [Next]_vars
             PROVE  Document!DocNext \/ UNCHANGED Document!docVars
  OBVIOUS
<1>1. CASE \E p \in Payload, sealed \in BOOLEAN, ps \in [Key -> Access],
              locked \in BOOLEAN, s \in Account \cup {None} :
                 FromPlaintext(p, sealed, ps, locked, s)
  BY <1>1, FromPlaintextMaps
<1>2. CASE \E b \in published, provided \in [Key -> Access] : FromEncoded(b, provided)
  BY <1>2, FromEncodedMaps
<1>3. CASE \E p \in Payload : SetPlaintext(p)
  BY <1>3, SetPlaintextMaps
<1>4. CASE DisablePlaintext \/ TakeSigningAccount
  BY <1>4, DocumentStays
     DEF DisablePlaintext, TakeSigningAccount, sealing, forms, Content, Returns
<1>5. CASE GetPlaintext
  BY <1>5, GetPlaintextMaps
<1>6. CASE GetEncoded
  BY <1>6, GetEncodedMaps
<1>7. CASE \E k \in Key, access \in Access : ChangeAccess(k, access)
  BY <1>7, ChangeAccessMaps
<1>8. CASE VerifySignature
  BY <1>8, VerifySignatureMaps
<1>9. \A k \in Key : /\ RevokeAccess(k) => \E access \in Access : ChangeAccess(k, access)
                     /\ \A access \in Access :
                           GrantAccess(k, access) => ChangeAccess(k, access)
  BY DEF GrantAccess, RevokeAccess, Access
<1>10. CASE UNCHANGED vars
  BY <1>10 DEF vars, Document!docVars, Content, Readers, Copies, CopyOf, LastUse, KeysOf
<1> QED
  BY <1>1, <1>2, <1>3, <1>4, <1>5, <1>6, <1>7, <1>8, <1>9, <1>10 DEF Next

\* The lazily cached, encrypted container implements the plain document: same
\* readers, same content, and only exact copies of it are ever handed out.
THEOREM ContainerImplementsDocument == Spec => ImplementsDocument
BY InitMaps, StepMaps, Invariance, PTL DEF Spec, ImplementsDocument, Document!DocSpec
=============================================================================
