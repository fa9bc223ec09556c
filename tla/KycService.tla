------------------------------ MODULE KycService ------------------------------
(***************************************************************************)
(* What a KYC provider publishes and how a client reads it                 *)
(* (resolver/metadata.rs, services/kyc.rs), how it crosses a binding       *)
(* (p1/kyc.rs, p2/kyc.rs), and what its operations send and return.        *)
(*                                                                         *)
(* A country code is a pair of its letters and the way it is written,      *)
(* which is "upper" in the canonical form; a blank text has no letters.    *)
(* An Option that is None has no field.                                    *)
(***************************************************************************)
EXTENDS AssetOutcomes

\* CountryCode::try_from trims and puts in upper case, and refuses a blank.
IsBlank(written) == written[1] = ""
CountryCode(written) == <<written[1], "upper">>

Members(sequence) == {sequence[i] : i \in DOMAIN sequence}

\* canonical_country_codes: one that is blank spoils them all.
CodesRead(written) == \A i \in DOMAIN written : ~IsBlank(written[i])
CanonicalCodes(written) == [i \in DOMAIN written |-> CountryCode(written[i])]

Unwrapped(list) == [i \in DOMAIN list[2] |-> list[2][i][2]]

-----------------------------------------------------------------------------
(* Metadata *)

KycOperation ==
    {"createVerification", "getCertificates", "getVerificationStatus", "checkLocality",
     "getEstimate"}

\* endpoint_url: a URL, or an object that has one.
EndpointUrl == Untagged(Str, Dto([url |-> Needed(Str)]))
UrlOf(endpoint) == IF endpoint[1] = "text" THEN endpoint[2] ELSE endpoint[2].url[2]

KycOperations == [name \in KycOperation |-> Option(EndpointUrl)]

KycProviderJson ==
    [operations |-> Needed(AnyJson), countryCodes |-> Option(Seqs(Str)), ca |-> Needed(Str)]

\* Whether the country codes of an object can be read.
CountriesRead(object) ==
    "countryCodes" \in DOMAIN object => CodesRead(Unwrapped(object.countryCodes))

\* What a provider is known by: its countries are left out when it serves all.
ProviderInfo(id, operations, object) ==
    [name \in {"id", "ca", "operations"} \cup (DOMAIN object \cap {"countryCodes"}) |->
        CASE name = "id" -> id
          [] name = "ca" -> object.ca[2]
          [] name = "operations" -> operations
          [] name = "countryCodes" -> CanonicalCodes(Unwrapped(object.countryCodes))]

\* KycProviderInfo::try_from: one endpoint or country that cannot be read spoils
\* the entry.
EntryRead(entry) == Cleaned(entry, Dto(KycProviderJson))[2]

KycReadable(entry) ==
    /\ Fits(entry, Dto(KycProviderJson))
    /\ Fits(EntryRead(entry).operations, Dto(KycOperations))
    /\ CountriesRead(EntryRead(entry))

KycInfo(id, entry) ==
    LET operations == Cleaned(EntryRead(entry).operations, Dto(KycOperations))[2]
    IN  ProviderInfo(id, [name \in DOMAIN operations |-> UrlOf(operations[name])],
                     EntryRead(entry))

\* KycProviderInfo::serves
ServesAll(info, requested) ==
    "countryCodes" \in DOMAIN info => Members(requested) \subseteq Members(info.countryCodes)

\* KycQuery::parse: an entry that cannot be read is no provider.
KycMatches(id, entry, requested) ==
    KycReadable(entry) /\ ServesAll(KycInfo(id, entry), requested)

\* SupportedCountries::from_iter; the order is left out.
SupportedCountries(infos) ==
    IF \E i \in DOMAIN infos : "countryCodes" \notin DOMAIN infos[i] THEN <<"worldwide">>
    ELSE <<"countries", UNION {Members(infos[i].countryCodes) : i \in DOMAIN infos}>>

-----------------------------------------------------------------------------
(* Across a binding *)

OperationsDto == Dto([name \in KycOperation |-> Option(Str)])

KycProviderDto ==
    [id |-> Needed(Str), ca |-> Needed(Str), operations |-> Needed(OperationsDto),
     countryCodes |-> Option(Seqs(Str))]

ListOfTexts(sequence) == ListOf([i \in DOMAIN sequence |-> Text(sequence[i])])

\* From<KycOperations>
EncodeOperations(operations) ==
    Object([name \in DOMAIN operations |-> Text(operations[name])])

\* From<KycProviderInfo>, a record of the same fields in preview 2.
EncodeKycProvider(info) ==
    Object([name \in DOMAIN info |->
        CASE name \in {"id", "ca"} -> Text(info[name])
          [] name = "operations" -> EncodeOperations(info.operations)
          [] name = "countryCodes" -> ListOfTexts(info.countryCodes)])

ProviderRead(json) == Cleaned(json, Dto(KycProviderDto))[2]

\* What is wrong with a provider a host hands over, or None (parse_provider).
ProviderError(json) ==
    IF ~Fits(json, Dto(KycProviderDto)) THEN "INVALID_INPUT"
    ELSE IF CountriesRead(ProviderRead(json)) THEN None ELSE "INVALID_COUNTRY"

\* provider_from_dto with operations_from_dto, of one that is right.
KycProviderOf(json) ==
    LET dto == ProviderRead(json) IN
    ProviderInfo(dto.id[2],
        [name \in DOMAIN dto.operations[2] |-> dto.operations[2][name][2]], dto)

\* parse_countries with canonical.
CountriesError(json) ==
    IF ~Fits(json, Seqs(Str)) THEN "INVALID_INPUT"
    ELSE IF CodesRead(Unwrapped(json)) THEN None ELSE "INVALID_COUNTRY"

\* In preview 1 an empty text stands for no redirection.
Redirect(binding, url) == IF binding = "p1" /\ url = "" THEN None ELSE url

-----------------------------------------------------------------------------
(* Requests and outcomes *)

\* create_request_fields
CreateRequestFields(countries, redirect) ==
    [name \in {"countryCodes"} \cup (IF redirect = None THEN {} ELSE {"redirectURL"}) |->
        IF name = "countryCodes" THEN ListOfTexts(countries) ELSE Text(redirect)]

ExpectedCost == Dto([min |-> Needed(Str), max |-> Needed(Str), token |-> Needed(Str)])

Verification ==
    [id |-> Needed(Str), webURL |-> Needed(Str), expectedCost |-> Needed(ExpectedCost)]

VerificationStatus == [status |-> Needed(Str), requiresManualVerification |-> Option(Bool)]

Certificate == Dto([certificate |-> Needed(Str), intermediates |-> Default(Seqs(Str))])
Certificates == [results |-> Needed(Seqs(Certificate))]

\* What a call gives: an answer that is not final says when to ask again.
KycOutcome(operation, r) ==
    Classify(Dto(CASE operation = "createVerification" -> Verification
                   [] operation = "getVerificationStatus" -> VerificationStatus
                   [] operation = "getCertificates" -> Certificates), r)

\* VerificationDto: the names of preview 1.
VerificationDto(v) ==
    Object([id |-> v[2].id, webUrl |-> v[2].webURL, expectedCost |-> v[2].expectedCost])

\* The variants of a result as the JSON of preview 1: VerificationOutcomeDto,
\* StatusOutcomeDto and CertificatesOutcomeDto.
OutcomeDto(operation, outcome) ==
    CASE outcome[1] = "retry" ->
            Object([type |-> Text("retry"), afterMs |-> Number(outcome[2])])
      [] outcome[1] = "ready" /\ operation = "createVerification" ->
            Object([type |-> Text("ready"), verification |-> VerificationDto(outcome[2])])
      [] outcome[1] = "ready" /\ operation = "getVerificationStatus" ->
            Object([type |-> Text("ready"), status |-> outcome[2]])
      [] outcome[1] = "ready" /\ operation = "getCertificates" ->
            Object([type |-> Text("ready"), certificates |-> outcome[2]])

\* The variants of preview 2, whose certificates are a list of groups.
OutcomeVariant(operation, outcome) ==
    IF outcome[1] = "ready" /\ operation = "getCertificates"
    THEN <<"ready", outcome[2][2].results>> ELSE outcome

\* What the host of a binding gets; a blocker crosses neither with its content.
KycHanded(binding, operation, outcome) ==
    IF outcome[1] \notin {"ready", "retry"} THEN Lifted(outcome)
    ELSE IF binding = "p1" THEN <<"json", OutcomeDto(operation, outcome)>>
    ELSE OutcomeVariant(operation, outcome)
=============================================================================
