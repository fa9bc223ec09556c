----------------------------- MODULE KycSchema ------------------------------
(***************************************************************************)
(* The value codec of KYC attributes (kyc_schema/codec.rs), the schema     *)
(* driven engine for structured values (kyc_schema/iso20022_engine.rs) and *)
(* the references to external blobs found in them (references.rs).         *)
(*                                                                         *)
(* A semantic value is text, JSON, or bytes that are neither.  JSON and    *)
(* ASN.1 values are tagged tuples; a JSON object is a function of its      *)
(* field names.  DER of a value and the bytes of a semantic value are told *)
(* apart by their tag, as their first bytes are.                           *)
(***************************************************************************)
EXTENDS Results, Sequences, FiniteSets

CONSTANTS
    OidNamed,           \* OID_NAME_TABLE: names mapped to dotted identifiers
    Dotted,             \* dotted identifiers DER can encode, in the table or not
    DigestAlgorithm,    \* those of the digests a reference may carry
    Encryption          \* the names of the one encryption it may

-----------------------------------------------------------------------------
(* Schemas *)

Utf8 == <<"utf8">>
Oid == <<"oid">>
Octets == <<"octets">>
Date == <<"date">>
Context(tag, inner) == <<"context", tag, inner>>
Optional(inner) == <<"optional", inner>>
Choice(alternatives) == <<"choice", alternatives>>
SequenceOf(inner) == <<"sequenceOf", inner>>
Struct(fields) == <<"struct", fields>>
Field(name, schema) == [name |-> name, schema |-> schema]

\* attribute_schema, where only the fields that can be confused are kept: two
\* of one context tag, or optional ones in a row.
SchemeName == Choice(<<Context(0, Utf8), Context(1, Utf8)>>)

Identification == Struct(<<
    Field("id", Context(0, Utf8)),
    Field("issuer", Optional(Context(1, Utf8))),
    Field("schemeName", Optional(SchemeName))>>)

Reference == Struct(<<
    Field("external", Struct(<<Field("url", Utf8), Field("contentType", Utf8)>>)),
    Field("digest", Struct(<<Field("digestAlgorithm", Oid), Field("digest", Octets)>>)),
    Field("encryptionAlgorithm", Oid)>>)

SchemaOf(token) ==
    CASE token = "Address" -> Struct(<<
            Field("addressLines", Optional(Context(0, SequenceOf(Utf8)))),
            Field("addressType", Optional(SchemeName))>>)
      [] token = "EntityType" -> Struct(<<
            Field("organization", Optional(Context(0, SequenceOf(Identification)))),
            Field("person", Optional(Context(1, SequenceOf(Identification))))>>)
      [] token = "Document" -> Struct(<<
            Field("documentNumber", Context(0, Utf8)),
            Field("front", Optional(Context(1, Reference))),
            Field("back", Optional(Context(2, Reference)))>>)
      [] token = "DateAndPlaceOfBirth" -> Struct(<<
            Field("birthDate", Context(0, Date)),
            Field("cityOfBirth", Context(1, Utf8))>>)

IsOptional(schema) == schema[1] = "optional"

\* unwrap_context_tags: the schema of certificates issued before the fields
\* were tagged.
RECURSIVE Untagged(_)
Untagged(schema) ==
    CASE schema[1] = "context" -> Untagged(schema[3])
      [] schema[1] = "optional" -> Optional(Untagged(schema[2]))
      [] schema[1] = "sequenceOf" -> SequenceOf(Untagged(schema[2]))
      [] schema[1] = "choice" -> Choice([i \in DOMAIN schema[2] |-> Untagged(schema[2][i])])
      [] schema[1] = "struct" ->
            Struct([i \in DOMAIN schema[2] |->
                       Field(schema[2][i].name, Untagged(schema[2][i].schema))])
      [] OTHER -> schema

-----------------------------------------------------------------------------
(* JSON to ASN.1 *)

\* Mutant: the last alternative that fits is taken.
LastGood(results) ==
    LET good == {i \in DOMAIN results : ~Failed(results[i])}
    IN  IF good = {} THEN Bad
        ELSE results[CHOOSE i \in good : \A j \in good : i >= j]

\* The alternative encode_choice takes.
Alternative(results) == FirstGood(results)

OidFromName(name) == IF name \in DOMAIN OidNamed THEN OidNamed[name] ELSE name

OidToName(dotted) ==
    IF \E name \in DOMAIN OidNamed : OidNamed[name] = dotted
    THEN CHOOSE name \in DOMAIN OidNamed : OidNamed[name] = dotted
    ELSE dotted

\* A field that is null counts as absent.
Present(object, name) == name \in DOMAIN object /\ object[name][1] # "null"

\* A date is kept to the second; what is no date is marked so.
EncodeDate(text) == IF text[1] = "time" THEN <<"date", text[2]>> ELSE Bad

RECURSIVE EncodeSchema(_, _)

\* encode_struct: absent optional fields are elided, a missing required one is
\* an error, unknown fields are dropped.
EncodeStruct(value, fields) ==
    IF value[1] # "object" THEN Bad
    ELSE LET members == SelectSeq(fields, LAMBDA f : Present(value[2], f.name))
             missing == \E i \in DOMAIN fields :
                           /\ ~Present(value[2], fields[i].name)
                           /\ ~IsOptional(fields[i].schema)
             encoded == AllOrBad([i \in DOMAIN members |->
                           EncodeSchema(value[2][members[i].name], members[i].schema)])
         IN  IF missing \/ Failed(encoded) THEN Bad ELSE <<"sequence", encoded>>

EncodeSequenceOf(value, inner) ==
    IF value[1] # "array" THEN Bad
    ELSE LET encoded == AllOrBad([i \in DOMAIN value[2] |-> EncodeSchema(value[2][i], inner)])
         IN  IF Failed(encoded) THEN Bad ELSE <<"sequence", encoded>>

EncodeSchema(value, schema) ==
    CASE schema[1] = "optional" -> EncodeSchema(value, schema[2])
      [] schema[1] = "context" ->
            LET inner == EncodeSchema(value, schema[3])
            IN  IF Failed(inner) THEN Bad ELSE <<"context", schema[2], inner>>
      [] schema[1] = "choice" ->
            Alternative([i \in DOMAIN schema[2] |-> EncodeSchema(value, schema[2][i])])
      [] schema[1] = "sequenceOf" -> EncodeSequenceOf(value, schema[2])
      [] schema[1] = "struct" -> EncodeStruct(value, schema[2])
      [] schema[1] = "utf8" -> IF value[1] = "string" THEN <<"string", value[2]>> ELSE Bad
      [] schema[1] = "oid" ->
            IF value[1] = "string" /\ OidFromName(value[2]) \in Dotted
            THEN <<"oid", OidFromName(value[2])>> ELSE Bad
      [] schema[1] = "octets" -> IF value[1] = "buffer" THEN <<"octets", value[2]>> ELSE Bad
      [] schema[1] = "date" -> IF value[1] = "string" THEN EncodeDate(value[2]) ELSE Bad

-----------------------------------------------------------------------------
(* ASN.1 to JSON *)

RECURSIVE DecodeSchema(_, _)

\* match_tuple of the ASN.1 library: the components in order, each for a field
\* that accepts it, an optional field left out only if that does not work out.
\* The result names the field of each component.
RECURSIVE MatchTuple(_, _)
MatchTuple(components, fields) ==
    IF fields = <<>> THEN IF components = <<>> THEN <<>> ELSE Bad
    ELSE LET first == Head(fields)
             taken == IF components # <<>>
                         /\ ~Failed(DecodeSchema(Head(components), first.schema))
                      THEN MatchTuple(Tail(components), Tail(fields)) ELSE Bad
         IN  IF ~Failed(taken) THEN <<first>> \o taken
             ELSE IF IsOptional(first.schema) THEN MatchTuple(components, Tail(fields))
             ELSE Bad

DecodeStruct(value, fields) ==
    IF value[1] # "sequence" THEN Bad
    ELSE LET matched == MatchTuple(value[2], fields)
         IN  IF Failed(matched) THEN Bad
             ELSE <<"object",
                    [name \in {matched[i].name : i \in DOMAIN matched} |->
                        LET i == CHOOSE i \in DOMAIN matched : matched[i].name = name
                        IN  DecodeSchema(value[2][i], matched[i].schema)]>>

DecodeSequenceOf(value, inner) ==
    IF value[1] # "sequence" THEN Bad
    ELSE LET decoded == AllOrBad([i \in DOMAIN value[2] |-> DecodeSchema(value[2][i], inner)])
         IN  IF Failed(decoded) THEN Bad ELSE <<"array", decoded>>

DecodeSchema(value, schema) ==
    CASE schema[1] = "optional" -> DecodeSchema(value, schema[2])
      [] schema[1] = "context" ->
            IF value[1] = "context" /\ value[2] = schema[2]
            THEN DecodeSchema(value[3], schema[3]) ELSE Bad
      [] schema[1] = "choice" ->
            FirstGood([i \in DOMAIN schema[2] |-> DecodeSchema(value, schema[2][i])])
      [] schema[1] = "sequenceOf" -> DecodeSequenceOf(value, schema[2])
      [] schema[1] = "struct" -> DecodeStruct(value, schema[2])
      [] schema[1] = "utf8" -> IF value[1] = "string" THEN <<"string", value[2]>> ELSE Bad
      [] schema[1] = "oid" -> IF value[1] = "oid" THEN <<"string", OidToName(value[2])>> ELSE Bad
      [] schema[1] = "octets" -> IF value[1] = "octets" THEN <<"buffer", value[2]>> ELSE Bad
      [] schema[1] = "date" ->
            IF value[1] = "date" THEN <<"string", <<"time", value[2], 0>>>> ELSE Bad

\* decode_structured: the schema, and then the one without tags.
DecodeStructured(token, value) ==
    FirstGood(<<DecodeSchema(value, SchemaOf(token)),
                DecodeSchema(value, Untagged(SchemaOf(token)))>>)

-----------------------------------------------------------------------------
(* codec.rs.  A value's type is <<"utf8">>, <<"time">>, <<"structured", token>>  *)
(* or <<"raw">> for an OID that is not registered.                           *)

Der(asn1) == <<"der", asn1>>

\* A structured value that is no JSON or does not fit its schema is kept as is.
EncodeStructured(token, semantic) ==
    LET asn1 == IF semantic[1] = "json" THEN EncodeSchema(semantic[2], SchemaOf(token)) ELSE Bad
    IN  IF Failed(asn1) THEN semantic ELSE Der(asn1)

\* encode_time: the fraction of a second is not kept.
EncodeTime(semantic) ==
    IF semantic[1] = "text" /\ semantic[2][1] = "time"
    THEN Der(<<"date", semantic[2][2]>>) ELSE Bad

\* encode_value
EncodeValue(type, semantic) ==
    CASE type[1] = "utf8" ->
            IF semantic[1] = "junk" THEN Bad ELSE Der(<<"string", semantic>>)
      [] type[1] = "time" -> EncodeTime(semantic)
      [] type[1] = "structured" -> EncodeStructured(type[2], semantic)
      [] OTHER -> semantic

\* decode_value: bytes that do not decode are handed out as they are.
DecodeValue(type, bytes) ==
    LET decoded ==
        CASE bytes[1] # "der" -> Bad
          [] bytes[1] = "der" /\ type[1] = "utf8" /\ bytes[2][1] = "string" -> bytes[2][2]
          [] bytes[1] = "der" /\ type[1] = "time" /\ bytes[2][1] = "date" ->
                <<"text", <<"time", bytes[2][2], 0>>>>
          [] bytes[1] = "der" /\ type[1] = "structured" ->
                LET json == DecodeStructured(type[2], bytes[2])
                IN  IF Failed(json) THEN Bad ELSE <<"json", json>>
          [] OTHER -> Bad
    IN  IF Failed(decoded) THEN bytes ELSE decoded

-----------------------------------------------------------------------------
(* references.rs *)

Has(object, name, kind) == name \in DOMAIN object /\ object[name][1] = kind

IsReferenceShape(object) == Has(object, "external", "object") /\ Has(object, "digest", "object")

WellFormed(object) ==
    /\ Has(object["external"][2], "url", "string")
    /\ Has(object["external"][2], "contentType", "string")
    /\ Has(object["digest"][2], "digestAlgorithm", "string")
    /\ Has(object["digest"][2], "digest", "buffer")
    /\ Has(object, "encryptionAlgorithm", "string")

\* Mutant: an algorithm is recognised by its dotted identifier only.
DottedAlgorithm(identifier) == identifier

\* digest_algorithm_from_identifier: a symbolic name or a dotted identifier.
AlgorithmOf(identifier) == OidFromName(identifier)

\* The reference an object of that shape is: none when parts are missing, an
\* error when an algorithm is not known.
ParseReference(object) ==
    IF ~WellFormed(object) THEN {}
    ELSE IF /\ AlgorithmOf(object["digest"][2]["digestAlgorithm"][2]) \in DigestAlgorithm
            /\ object["encryptionAlgorithm"][2] \in Encryption
         THEN {object["digest"][2]["digest"][2]} ELSE {Bad}

\* AttributeReference::collect: the digests of the references in a value; an
\* object of their shape is not searched any further.
RECURSIVE References(_)
References(value) ==
    CASE value[1] = "object" ->
            IF IsReferenceShape(value[2]) THEN ParseReference(value[2])
            ELSE UNION {References(value[2][name]) : name \in DOMAIN value[2]}
      [] value[1] = "array" -> UNION {References(value[2][i]) : i \in DOMAIN value[2]}
      [] OTHER -> {}

Collect(value) == IF Bad \in References(value) THEN Bad ELSE References(value)

-----------------------------------------------------------------------------
(* What the codec promises, told without ASN.1: a JSON value fits a schema,  *)
(* and what is left of one that does.                                       *)

RECURSIVE Fits(_, _)
Fits(value, schema) ==
    CASE schema[1] = "optional" -> Fits(value, schema[2])
      [] schema[1] = "context" -> Fits(value, schema[3])
      [] schema[1] = "choice" -> \E i \in DOMAIN schema[2] : Fits(value, schema[2][i])
      [] schema[1] = "sequenceOf" ->
            value[1] = "array" /\ \A i \in DOMAIN value[2] : Fits(value[2][i], schema[2])
      [] schema[1] = "struct" ->
            /\ value[1] = "object"
            /\ \A i \in DOMAIN schema[2] :
                  IF Present(value[2], schema[2][i].name)
                  THEN Fits(value[2][schema[2][i].name], schema[2][i].schema)
                  ELSE IsOptional(schema[2][i].schema)
      [] schema[1] = "oid" -> value[1] = "string" /\ OidFromName(value[2]) \in Dotted
      [] schema[1] = "octets" -> value[1] = "buffer"
      [] schema[1] = "date" -> value[1] = "string" /\ value[2][1] = "time"
      [] OTHER -> value[1] = "string"

\* The blobs a value refers to, or Bad when one is referred to in a way that is
\* not known.
Understood(object) ==
    /\ LET algorithm == object["digest"][2]["digestAlgorithm"][2]
       IN  \/ algorithm \in DigestAlgorithm
           \/ \E name \in DOMAIN OidNamed :
                  name = algorithm /\ OidNamed[name] \in DigestAlgorithm
    /\ object["encryptionAlgorithm"][2] \in Encryption

RECURSIVE BlobsIn(_)
BlobsIn(value) ==
    IF value[1] # "object" THEN {}
    ELSE IF {"external", "digest"} \subseteq DOMAIN value[2]
    THEN {IF Understood(value[2]) THEN value[2]["digest"][2]["digest"][2] ELSE Bad}
    ELSE UNION {BlobsIn(value[2][name]) : name \in DOMAIN value[2]}

RECURSIVE Kept(_, _)
Kept(value, schema) ==
    CASE schema[1] = "optional" -> Kept(value, schema[2])
      [] schema[1] = "context" -> Kept(value, schema[3])
      [] schema[1] = "sequenceOf" ->
            <<"array", [i \in DOMAIN value[2] |-> Kept(value[2][i], schema[2])]>>
      [] schema[1] = "struct" ->
            LET SchemaAt(name) == (CHOOSE f \in {schema[2][i] : i \in DOMAIN schema[2]} :
                                      f.name = name).schema
            IN  <<"object",
                  [name \in {n \in {schema[2][i].name : i \in DOMAIN schema[2]} :
                                Present(value[2], n)} |->
                      Kept(value[2][name], SchemaAt(name))]>>
      [] schema[1] = "oid" -> <<"string", OidToName(OidFromName(value[2]))>>
      [] schema[1] = "date" -> <<"string", <<"time", value[2][2], 0>>>>
      [] OTHER -> value

Encodable(type, semantic) ==
    CASE type[1] = "utf8" -> semantic[1] # "junk"
      [] type[1] = "time" -> semantic[1] = "text" /\ semantic[2][1] = "time"
      [] OTHER -> TRUE

Canonical(type, semantic) ==
    CASE type[1] = "time" -> <<"text", <<"time", semantic[2][2], 0>>>>
      [] type[1] = "structured" ->
            IF semantic[1] = "json" /\ Fits(semantic[2], SchemaOf(type[2]))
            THEN <<"json", Kept(semantic[2], SchemaOf(type[2]))>> ELSE semantic
      [] OTHER -> semantic
=============================================================================
