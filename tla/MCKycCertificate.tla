-------------------------- MODULE MCKycCertificate --------------------------
(* Six names, one of them unknown, with values that fit their schema and    *)
(* values that do not, a subject, somebody else and a key that cannot       *)
(* encrypt; a chain over one intermediate, also signed by a foreign root.   *)
EXTENDS KycCertificate, KycSchema, TLC

CONSTANTS subject, other, network, elsewhere

Word(w) == <<"word", w>>
Text(t) == <<"text", t>>
Json(v) == <<"json", v>>
Str(t) == <<"string", t>>
Object(fields) == <<"object", fields>>

Sha3 == <<"oid", "2.16.840.1.101.3.4.2.8">>
Md5 == <<"oid", "1.2.840.113549.2.5">>
Container == <<"oid", "1.3.6.1.4.1.62675.2">>
ContainerName == Word("KeetaEncryptedContainerV1")

OidNamedValue == <<"name", "sha3-256">> :> Sha3
DottedValue == {Sha3, Md5, Container}
DigestAlgorithmValue == {Sha3}
EncryptionValue == {Container, ContainerName}

Blob(algorithm, encryption) == Object([
    external |-> Object([url |-> Str(Word("u")), contentType |-> Str(Word("png"))]),
    digest |-> Object([digestAlgorithm |-> Str(algorithm), digest |-> <<"buffer", 7>>]),
    encryptionAlgorithm |-> Str(encryption)])

DocumentOf(algorithm, encryption) ==
    Json(Object([documentNumber |-> Str(Word("P1")), front |-> <<"null">>,
                 back |-> Blob(algorithm, encryption)]))

\* A person with a scheme and no issuer; one without the required id; an
\* address whose type has the tag of the lines it lacks.
Person == Json(Object([person |-> <<"array",
                 <<Object([id |-> Str(Word("1")), schemeName |-> Str(Word("x"))])>>>>]))
Nobody == Json(Object([person |-> <<"array", <<Object([issuer |-> Str(Word("x"))])>>>>]))
Home == Json(Object([addressType |-> Str(Word("HOME")), planet |-> Str(Word("Earth"))]))

OfferedValue ==
    [email |-> {Text(Word("a")), <<"junk">>},
     dateOfBirth |-> {Text(<<"time", 5, 250>>), Text(Word("a"))},
     entityType |-> {Person, Nobody},
     address |-> {Home},
     document |-> {DocumentOf(<<"name", "sha3-256">>, Container),
                   DocumentOf(Sha3, ContainerName), DocumentOf(Md5, Container)},
     postalCode |-> {Text(Word("a"))},
     nickname |-> {Text(Word("a"))}]

SensitiveOidValue == [email |-> 1, dateOfBirth |-> 2, entityType |-> 3, document |-> 4,
                      address |-> 5]
PlainOidValue == [postalCode |-> 6]
ValueTypeValue ==
    <<<<"utf8">>, <<"time">>, <<"structured", "EntityType">>, <<"structured", "Document">>,
      <<"structured", "Address">>, <<"raw">>>>

\* No extension; a value of before the codec; one of a schema without tags, the
\* same identifier twice, and a sensitive one left plain; a later version.
ForeignSeal(value) == Seal(subject, elsewhere, value)
ForeignValue ==
    {Bad,
     <<[oid |-> 1, sensitive |-> TRUE, content |-> ForeignSeal(Text(Word("a")))],
       [oid |-> 4, sensitive |-> FALSE,
        content |-> DocumentOf(<<"name", "sha3-256">>, Container)]>>,
     <<[oid |-> 3, sensitive |-> TRUE, content |-> ForeignSeal(Der(<<"sequence", <<
          <<"sequence", <<<<"sequence", <<<<"string", Word("1")>>>>>>>>>>>>>>))],
       [oid |-> 3, sensitive |-> FALSE, content |-> Person]>>,
     <<[oid |-> 1, sensitive |-> TRUE,
        content |-> [ForeignSeal(Text(Word("a"))) EXCEPT !.version = 1]]>>}

\* root is trusted and its own issuer; cross is root's key certified by alien.
CertificateValue == {"leaf", "brief", "stray", "middle", "root", "cross", "alien"}
IssuersValue ==
    [leaf |-> {"middle"}, brief |-> {"root"}, middle |-> {"root", "cross"},
     root |-> {"root"}, cross |-> {"alien"}, alien |-> {"alien"}, stray |-> {"alien"}]
ValidAtValue ==
    [c \in CertificateValue |-> IF c = "brief" THEN {0} ELSE {0, 1}]
Published(certificate, intermediates) ==
    [readable |-> TRUE, certificate |-> certificate, intermediates |-> intermediates]
RecordValue ==
    {Published("leaf", {}), Published("leaf", {"middle"}),
     Published("leaf", {"middle", "cross", "alien"}), Published("brief", {}),
     Published("root", {}), Published("stray", {"alien"}),
     [Published("leaf", {"middle"}) EXCEPT !.readable = FALSE]}
=============================================================================
