----------------------------- MODULE AnchorClients -----------------------------
(***************************************************************************)
(* A client over an AnchorContext, of KYC providers (services/kyc.rs) or   *)
(* of asset movement (module AssetMovement), between the roots' metadata,  *)
(* the host of a binding and a provider.  Both look providers up with the  *)
(* same resolver, give them to the host, take them back with each call,    *)
(* and send signed requests.                                               *)
(***************************************************************************)
EXTENDS AssetMovement, KycService

CONSTANTS
    KycContent,     \* the KYC entries a root may list: the JSON, and its
                    \* operations, account, legal and signed
    KycQueries,     \* what is looked for: [goal, countries], the countries as
                    \* JSON, the goal "providers" or "countries"
    KycStored,      \* providers a host has kept
    KycCalls,       \* pairs of an operation and its argument
    KycResponses,   \* KycResponses[operation], as Responses
    Country         \* letters of countries

\* The signature of an entry covers the operations of its JSON.
ASSUME ContentAssumption ==
    \A entry \in KycContent :
        KycReadable(entry.json) => entry.operations = entry.json[2].operations

\* The supported countries are those of all providers.
ASSUME QueryAssumption ==
    \A query \in KycQueries :
        /\ DOMAIN query = {"goal", "countries"}
        /\ query.goal = "countries" => query.countries = ListOf(<<>>)

ASSUME KycCallAssumption ==
    \A call \in KycCalls :
        call[1] \in {"createVerification", "getCertificates", "getVerificationStatus"}

\* None is no error and no JSON.
ASSUME NoneAssumption ==
    /\ None \notin {"INVALID_INPUT", "INVALID_COUNTRY"}
    /\ None \notin {Error("INVALID_INPUT")} \cup {Failed(variant) : variant \in DOMAIN Code}
    /\ \A id \in Id : /\ \A entry \in Content : EncodeProvider(Info(id, entry)) # None
                      /\ \A entry \in KycContent : KycReadable(entry.json) =>
                            EncodeKycProvider(KycInfo(id, entry.json)) # None

-----------------------------------------------------------------------------
(* Discovery of KYC providers *)

\* keeta_kyc_providers, providers and get_supported_countries: the bindings
\* read the countries first.
KycAsk(query) ==
    /\ service = "kyc" /\ asked = None /\ handle = None
    /\ LET code == CountriesError(query.countries)
       IN  /\ asked' = IF code # None THEN asked
                       ELSE [query EXCEPT !.countries = CanonicalCodes(Unwrapped(@))]
           /\ result' = IF code # None THEN [response |-> None, outcome |-> Error(code)]
                        ELSE None
    /\ UNCHANGED <<vars, service, published, handle, origin, log, waiting>>

\* The verdicts of the signature and of the query on a document's entries.
KycVerdicts(content) ==
    [id \in DOMAIN content |->
        [signatureOk |-> EntrySigned(content[id]),
         matches |-> KycMatches(id, content[id].json, asked.countries)]]

\* A root's document is read.
KycDiscover(content) ==
    /\ service = "kyc" /\ asked # None
    /\ ReadRoot(KycVerdicts(content))
    /\ published' = Append(published, content)
    /\ UNCHANGED <<service, asked, callVars>>

KycInfoOf(listing) ==
    KycInfo(listing.id, published[listing.document][listing.id].json)

\* The host keeps one of the providers.
KycBind(listing) ==
    /\ service = "kyc" /\ pc = "found"
    /\ asked.goal = "providers"
    /\ listing \in {providers[i] : i \in DOMAIN providers}
    /\ handle' = EncodeKycProvider(KycInfoOf(listing))
    /\ origin' = [id |-> listing.id, entry |-> published[listing.document][listing.id]]
    /\ Forget
    /\ UNCHANGED <<log, waiting, result>>

KycSupported == SupportedCountries([i \in DOMAIN providers |-> KycInfoOf(providers[i])])

\* The countries are given, or none of the providers is kept, or there is no
\* document of a root.
KycLeave ==
    /\ service = "kyc" /\ pc \in {"found", "no_metadata"}
    /\ result' = CASE pc = "no_metadata" ->
                        [response |-> None, outcome |-> Error(Code.Resolver)]
                   [] pc = "found" /\ asked.goal = "countries" ->
                        [response |-> None, outcome |-> <<"ready", KycSupported>>]
                   [] OTHER -> None
    /\ Forget
    /\ UNCHANGED <<handle, origin, log, waiting>>

KycRestore(stored) ==
    /\ service = "kyc" /\ asked = None /\ handle = None
    /\ handle' = stored
    /\ UNCHANGED <<vars, lookupVars, origin, log, waiting, result>>

-----------------------------------------------------------------------------
(* Calls of KYC providers *)

KycMethod(operation) == IF operation = "createVerification" THEN "POST" ELSE "GET"

\* The certificates are fetched without a signature; the others cover no more
\* than nonce, timestamp and account.
KycSigned(operation) == IF operation = "getCertificates" THEN None ELSE <<>>

\* What first keeps a call from being sent, or None; endpoint_for comes before
\* the URL, and that before its signature.
KycRefusal(provider, operation) ==
    IF operation \notin DOMAIN provider.operations THEN Failed("UnsupportedOperation")
    ELSE IF provider.operations[operation] \in NoUrl THEN Failed("Url")
    ELSE IF operation = "getVerificationStatus" /\ provider.operations[operation] \in Presigned
    THEN Failed("Request") ELSE None

\* The request of create_verification, get_certificates and
\* get_verification_status.
KycMessage(binding, provider, operation, argument) ==
    [operation |-> operation, url |-> provider.operations[operation],
     id |-> IF operation = "createVerification" THEN None ELSE argument,
     body |-> IF KycMethod(operation) = "GET" THEN None
              ELSE Object(WithAccount(
                       CreateRequestFields(CanonicalCodes(Unwrapped(argument.countries)),
                                           Redirect(binding, argument.redirect)))),
     signed |-> KycSigned(operation)]

KycRefuse(outcome) ==
    /\ result' = [response |-> None, outcome |-> outcome]
    /\ UNCHANGED <<log, waiting>>

\* The provider is read from the host's text, or record, again.
KycCall(binding, operation, argument) ==
    LET provider == KycProviderOf(handle)
        refusal == KycRefusal(provider, operation)
    IN  /\ IF ProviderError(handle) # None THEN KycRefuse(Error(ProviderError(handle)))
           ELSE IF refusal # None THEN KycRefuse(KycHanded(binding, operation, refusal))
           ELSE /\ Len(log) < MaxCalls
                /\ log' = Append(log, KycMessage(binding, provider, operation, argument))
                /\ waiting' = binding
                /\ result' = None
        /\ UNCHANGED <<vars, lookupVars, handle, origin>>

\* The countries are read after the provider, before anything is asked of it.
CreateVerification(binding, argument) ==
    IF ProviderError(handle) = None /\ CountriesError(argument.countries) # None
    THEN /\ KycRefuse(Error(CountriesError(argument.countries)))
         /\ UNCHANGED <<vars, lookupVars, handle, origin>>
    ELSE KycCall(binding, "createVerification", argument)

GetCertificates(binding, id) == KycCall(binding, "getCertificates", id)

GetVerificationStatus(binding, id) == KycCall(binding, "getVerificationStatus", id)

Dispatch(binding, call) ==
    CASE call[1] = "createVerification" -> CreateVerification(binding, call[2])
      [] call[1] = "getCertificates" -> GetCertificates(binding, call[2])
      [] call[1] = "getVerificationStatus" -> GetVerificationStatus(binding, call[2])

\* An export of the preview 1 module: every argument is a text.
KycExport(call) ==
    /\ service = "kyc" /\ handle # None /\ waiting = None
    /\ call[1] = "createVerification" => call[2].redirect # None
    /\ Dispatch("p1", call)

\* A method of the preview 2 component, whose arguments have the right types.
KycComponentMethod(call) ==
    /\ service = "kyc" /\ handle # None /\ waiting = None
    /\ ProviderError(handle) # "INVALID_INPUT"
    /\ call[1] = "createVerification" => CountriesError(call[2].countries) # "INVALID_INPUT"
    /\ Dispatch("p2", call)

KycAnswer(r) ==
    /\ service = "kyc" /\ waiting # None
    /\ r \in KycResponses[Current]
    /\ result' = [response |-> r, binding |-> waiting,
                  outcome |-> KycHanded(waiting, Current, KycOutcome(Current, r))]
    /\ waiting' = None
    /\ UNCHANGED <<vars, lookupVars, handle, origin, log>>

-----------------------------------------------------------------------------
KycNext ==
    \/ \E query \in KycQueries : KycAsk(query)
    \/ \E ids \in SUBSET Id : \E content \in [ids -> KycContent] : KycDiscover(content)
    \/ \E listing \in [document : 1..Roots, id : Id] : KycBind(listing)
    \/ KycLeave
    \/ \E stored \in KycStored : KycRestore(stored)
    \/ \E call \in KycCalls : KycExport(call) \/ KycComponentMethod(call)
    \/ \E operation \in DOMAIN KycResponses : \E r \in KycResponses[operation] : KycAnswer(r)

\* Looking up and a transport that fails are the same for both clients.
ClientsNext == MovementNext \/ KycNext

ClientsSpec == MovementInit /\ [][ClientsNext]_allVars
-----------------------------------------------------------------------------
(* Properties *)

\* What the JSON of an entry has to be, member by member, for a client to use it.
Given(object, name) == name \in DOMAIN object /\ object[name] # Null

WellFormed(json) ==
    /\ json[1] = "object" /\ {"operations", "ca"} \subseteq DOMAIN json[2]
    /\ json[2].ca[1] = "text"
    /\ json[2].operations[1] = "object"
    /\ \A name \in KycOperation : Given(json[2].operations[2], name) =>
          LET endpoint == json[2].operations[2][name] IN
          \/ endpoint[1] = "text"
          \/ /\ endpoint[1] = "object" /\ "url" \in DOMAIN endpoint[2]
             /\ endpoint[2].url[1] = "text"
    /\ Given(json[2], "countryCodes") =>
          /\ json[2].countryCodes[1] = "list"
          /\ \A i \in DOMAIN json[2].countryCodes[2] :
                LET code == json[2].countryCodes[2][i] IN code[1] = "text" /\ code[2][1] # ""

\* An entry without countries serves all; how a code is written does not matter.
ServesCountry(json, letters) ==
    Given(json[2], "countryCodes") =>
        \E i \in DOMAIN json[2].countryCodes[2] : json[2].countryCodes[2][i][2][1] = letters

\* The ids whose entry, at the highest root that lists them, can be used and
\* serves the countries.
ServedBy(countries) ==
    {id \in {x \in Id : Ranks(x) # {}} :
        LET entry == published[Winner(id)][id] IN
        /\ Genuine(entry)
        /\ WellFormed(entry.json)
        /\ \A code \in Members(countries) : ServesCountry(entry.json, code[1])}

\* A country is supported when someone who asks for it finds a provider.
CountriesFound ==
    \A letters \in Country :
        (KycSupported = <<"worldwide">> \/ <<letters, "upper">> \in KycSupported[2])
            <=> ServedBy(<<<<letters, "upper">>>>) # {}

\* Whoever asks, the host of a binding or a Rust caller, and however, gets the
\* same providers: every wanted one, from the highest root that lists it and
\* from no other, genuine, in the order of the roots and of the ids; by id or by
\* account, the first of them.  The countries that are supported are those of
\* the providers that would be found.
FoundByHighestRoot ==
    pc = "found" =>
        IF service = "asset" THEN OffersWanted
        ELSE /\ \A i, j \in DOMAIN providers : i < j => Before(providers[i], providers[j])
             /\ Members(providers) = Listings(ServedBy(asked.countries))
             /\ asked.goal = "countries" => CountriesFound

\* What the entry of a KYC provider says of an operation.
UrlPublished(entry, operation) ==
    LET endpoint == entry.operations[2][operation]
    IN  IF endpoint[1] = "text" THEN endpoint[2] ELSE endpoint[2].url[2]

\* Going out to the host and coming back takes nothing from a provider: what is
\* asked of it goes where the highest root's genuine entry says, and is signed
\* where that entry wants it and always for the status of the account or of a
\* verification.  A verification is asked for in countries by their codes.
AsAdvertised ==
    origin # None =>
        /\ Genuine(origin.entry)
        /\ \A i \in DOMAIN log :
              IF service = "asset" THEN GoesAsEntrySays(log[i], origin.entry)
              ELSE /\ log[i].url = UrlPublished(origin.entry, log[i].operation)
                   /\ log[i].operation = "createVerification" =>
                        \A code \in Members(Unwrapped(log[i].body[2].countryCodes)) :
                            code[1] # "" /\ code = <<code[1], "upper">>

\* What a host gets of a response of the KYC client: the value of a success in
\* the terms of its binding, when to ask again, or the code of a failure.
KycOutcomeIsMeant ==
    LET means == result.response.means
        outcome == result.outcome
    IN  CASE means[1] = "done" -> outcome = means[2][result.binding]
          [] means[1] = "pending" ->
                IF result.binding = "p2" THEN outcome = <<"retry", means[2]>>
                ELSE outcome = <<"json", Object([type |-> Text("retry"),
                                                 afterMs |-> Number(means[2])])>>
          [] means[1] = "failed" -> outcome = Error(means[2])

\* The host gets what the provider means: the value of a success, the code of
\* the blocker a failure reports (with its content from preview 1), all blockers
\* of an account in their order, and an error for everything else.  An answer
\* that is not final is an error of asset movement and says when to ask again of
\* KYC.  Only the status of an account is taken from a failure that does not say
\* `ok: false`.
OutcomeIsMeant ==
    IF result = None THEN TRUE
    ELSE IF result.response = None THEN TRUE
    ELSE IF service = "asset" THEN AssetOutcomeIsMeant ELSE KycOutcomeIsMeant

-----------------------------------------------------------------------------
(* Behind the properties *)

\* Behind FoundByHighestRoot: between lookups nothing is left of one, none runs
\* while the host holds a provider, and what is merged is what the client's
\* query says of the entries that were read.
LookupInv ==
    /\ service \in {"asset", "kyc"}
    /\ asked = None => Init /\ published = <<>>
    /\ handle # None => asked = None
    /\ log # <<>> => handle # None
    /\ published \in Seq(Members(published)) /\ Len(published) = Len(documents)
    /\ \A i \in DOMAIN published :
          /\ published[i] \in [DOMAIN published[i] ->
                                IF service = "asset" THEN Content ELSE KycContent]
          /\ documents[i] = IF service = "asset" THEN Verdicts(published[i])
                            ELSE KycVerdicts(published[i])

\* Countries are looked for by their codes, and all providers for the countries
\* that are supported.
AskedInv ==
    service = "kyc" /\ asked # None =>
        /\ \A code \in Members(asked.countries) : code = <<code[1], "upper">>
        /\ asked.goal = "countries" => asked.countries = <<>>

\* Behind AsAdvertised: what the host holds is what the client gave it of a
\* genuine entry.
HandleInv ==
    origin # None =>
        /\ origin.id \in Id /\ Genuine(origin.entry)
        /\ IF service = "asset"
           THEN /\ origin.entry \in Content
                /\ handle = EncodeProvider(Info(origin.id, origin.entry))
           ELSE /\ origin.entry \in KycContent /\ KycReadable(origin.entry.json)
                /\ handle = EncodeKycProvider(KycInfo(origin.id, origin.entry.json))

\* Behind SignedAlike: a payload was made of the call the rest of the message was
\* made of.
MadeOf(message, call) ==
    LET request == Requests[call] IN
    /\ request # None /\ Payload(call[1], request) # None
    /\ message.operation = call[1]
    /\ message.id = UrlId(call[1], request)
    /\ message.body = IF Method(call[1]) = "GET" THEN None
                      ELSE Object(WithAccount(Fields(call[1], request)))
    /\ message.signed = Payload(call[1], request)

LogInv ==
    /\ log \in Seq(Members(log))
    /\ \A i \in DOMAIN log :
          log[i].signed \notin {None, <<>>} => \E call \in Calls : MadeOf(log[i], call)

ClientsInv == MergeInv /\ LookupInv /\ AskedInv /\ HandleInv /\ LogInv /\ AsAdvertised
=============================================================================
