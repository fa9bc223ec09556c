---------------------------- MODULE AssetMovement ----------------------------
(***************************************************************************)
(* The asset-movement client (services/asset_movement/client.rs) between   *)
(* the metadata of the root accounts (module Resolver), the host of a      *)
(* binding (modules AssetJson and AssetOutcomes) and a provider: providers *)
(* are looked for, one goes out to the host as JSON, and comes back with   *)
(* each operation that is asked of it.                                     *)
(*                                                                         *)
(* What a root's document lists is chosen when it is read, what a provider *)
(* answers when it is asked.  How often a request is sent, and polling for *)
(* a share, are the subjects of ServiceCalls and PromisePoll.              *)
(***************************************************************************)
EXTENDS Resolver, AssetOutcomes

CONSTANTS
    Content,    \* the entries a root may list: operations, supported assets,
                \* legal, account and what was signed, [by, over] or None
    Queries,    \* what is looked for: [via, filter, search], the search as JSON
    Stored,     \* providers a host has kept from earlier sessions
    Calls,      \* pairs of an operation and its argument
    Responses,  \* Responses[operation]: what a provider may answer, with what
                \* it means by it
    NoUrl,      \* texts that are no URL
    Presigned,  \* URLs that carry a signature parameter
    Signer,     \* the account of the client
    MaxCalls    \* bound on requests sent

VARIABLES
    service,    \* whose client the session is of, "asset" or "kyc"
    asked,      \* the query under way, its search read, or None
    published,  \* the entries of the documents, parallel to documents
    handle,     \* the provider the host holds, as JSON, or None
    origin,     \* history: the id and the entry it was found in, or None
    log,        \* history: requests sent
    waiting,    \* the binding that waits for an answer, or None
    result      \* what the last call gave: the response and the outcome, or None

lookupVars == <<service, asked, published>>
callVars == <<handle, origin, log, waiting, result>>
allVars == <<vars, lookupVars, callVars>>

\* Calls are of operations there are, and a published endpoint is one of the
\* three that ProviderSearch names.
ASSUME CallAssumption == \A call \in Calls : call[1] \in Operation
ASSUME EndpointAssumption ==
    \A entry \in Content : \A name \in DOMAIN entry.operations :
        LET endpoint == entry.operations[name] IN
        endpoint = CASE endpoint[1] = "bare" -> <<"bare", endpoint[2]>>
                     [] endpoint[1] = "object" -> <<"object", endpoint[2], endpoint[3]>>
                     [] OTHER -> <<"other">>

NoFilter == [id |-> None, account |-> None]

-----------------------------------------------------------------------------
(* Discovery *)

\* signed_fields: what an entry's signature covers.
SignedFields(entry) ==
    <<entry.account, entry.operations, IF entry.legal = Null THEN None ELSE entry.legal>>

\* entry_signature_ok: account, operations and legal are signed by the account;
\* an entry without both is taken as it is.
EntrySigned(entry) ==
    IF entry.account = None \/ entry.signed = None
    THEN entry.account = None /\ entry.signed = None
    ELSE /\ entry.signed.by = entry.account
         /\ entry.signed.over = SignedFields(entry)

\* providers, providers_for_transfer, provider_by_id, provider_by_account; a
\* binding reads its search before.
Ask(query) ==
    /\ service = "asset" /\ asked = None /\ handle = None
    /\ LET search == IF query.search = None THEN None ELSE ParseSearch(query.search)
           invalid == query.search # None /\ search = None
       IN  /\ asked' = IF invalid THEN asked ELSE [query EXCEPT !.search = search]
           /\ result' = IF invalid
                        THEN [response |-> None, outcome |-> Error("INVALID_INPUT")] ELSE None
    /\ UNCHANGED <<vars, service, published, handle, origin, log, waiting>>

\* What the resolver's query filters by: the bindings look for all providers
\* and filter afterwards.
Criteria == IF asked.via = "rust" THEN asked.filter ELSE NoFilter

\* The verdicts of the signature and of the query on a document's entries.
Verdicts(content) ==
    [id \in DOMAIN content |->
        [signatureOk |-> EntrySigned(content[id]),
         matches |-> FilterAccepts(Criteria, Info(id, content[id]))]]

\* A root's document is read.
Discover(content) ==
    /\ service = "asset" /\ asked # None
    /\ ReadRoot(Verdicts(content))
    /\ published' = Append(published, content)
    /\ UNCHANGED <<service, asked, callVars>>

\* The other steps of lookup.
LookUp ==
    /\ asked # None
    /\ SkipRoot \/ AllRead \/ (\E id \in Id : TakeEntry(id)) \/ NextDocument \/ Return
    /\ UNCHANGED <<lookupVars, callVars>>

InfoOf(listing) == Info(listing.id, published[listing.document][listing.id])

\* providers and providers_for_transfer of the client, and what a binding
\* filters out of them: as places in what was found, whose order is kept.
Searched ==
    {i \in DOMAIN providers :
        asked.search = None \/ Accepts(asked.search, InfoOf(providers[i]))}
Filtered ==
    {i \in Searched : asked.via = "rust" \/ FilterKeeps(asked.filter, InfoOf(providers[i]))}

\* What the caller gets: a lookup by id or account takes the first.
Offered ==
    {i \in Filtered : asked.filter = NoFilter \/ \A j \in Filtered : i <= j}

Forget ==
    /\ asked' = None /\ published' = <<>> /\ UNCHANGED service
    /\ pc' = "reading" /\ root' = 0 /\ documents' = <<>>
    /\ seen' = {} /\ visited' = {} /\ rank' = 1 /\ providers' = <<>>

\* The host keeps one of the providers, and the lookup is gone.
Bind(listing) ==
    /\ service = "asset" /\ pc = "found"
    /\ listing \in {providers[i] : i \in Offered}
    /\ handle' = EncodeProvider(InfoOf(listing))
    /\ origin' = [id |-> listing.id, entry |-> published[listing.document][listing.id]]
    /\ Forget
    /\ UNCHANGED <<log, waiting, result>>

\* None of them is kept, or there is no document of a root.
Leave ==
    /\ service = "asset" /\ pc \in {"found", "no_metadata"}
    /\ result' = IF pc = "found" THEN None
                 ELSE [response |-> None, outcome |-> Error(Code.Resolver)]
    /\ Forget
    /\ UNCHANGED <<handle, origin, log, waiting>>

\* The host takes up a provider it has kept.
Restore(stored) ==
    /\ service = "asset" /\ asked = None /\ handle = None
    /\ handle' = stored
    /\ UNCHANGED <<vars, lookupVars, origin, log, waiting, result>>

-----------------------------------------------------------------------------
(* Calls *)

Method(operation) == IF operation = "getTransferStatus" THEN "GET" ELSE "POST"

\* Each call's request, or None; no call changes what another reads.
Requests == [call \in Calls |-> Request(call[1], call[2])]

\* The outcome of what first keeps a call from being sent, or None.
Refusal(provider, operation, request) ==
    IF provider = None \/ request = None THEN Error("INVALID_INPUT")
    ELSE IF operation = "initiateTransfer" /\ "recipient" \notin DOMAIN request.to[2]
    THEN Failed("Body")
    ELSE IF operation \notin DOMAIN provider.operations THEN Failed("UnsupportedOperation")
    ELSE IF Payload(operation, request) = None THEN Failed("Signing")
    ELSE IF provider.operations[operation].url \in NoUrl THEN Failed("Url")
    ELSE IF /\ Method(operation) = "GET"
            /\ provider.operations[operation].url \in Presigned
            /\ SignsFor(provider.operations[operation].auth)
    THEN Failed("Request") ELSE None

WithAccount(fields) ==
    [name \in {"account"} \cup DOMAIN fields |->
        IF name = "account" THEN Text(Signer) ELSE fields[name]]

\* post, get and account_status: the request with the payload its signature
\* covers, beside nonce, timestamp and account.
Message(operation, endpoint, request) ==
    [operation |-> operation, url |-> endpoint.url, id |-> UrlId(operation, request),
     body |-> IF Method(operation) = "GET" THEN None
              ELSE Object(WithAccount(Fields(operation, request))),
     signed |-> IF SignsFor(endpoint.auth) THEN Payload(operation, request) ELSE None]

\* A call of a binding gives an error, or a request is sent and waited for.
Call(binding, provider, operation, request) ==
    LET refusal == Refusal(provider, operation, request)
    IN  /\ IF refusal # None
           THEN /\ result' = [response |-> None,
                              outcome |-> Handed(binding, operation, refusal)]
                /\ UNCHANGED <<log, waiting>>
           ELSE /\ Len(log) < MaxCalls
                /\ log' = Append(log, Message(operation, provider.operations[operation],
                                              request))
                /\ waiting' = binding
                /\ result' = None
        /\ UNCHANGED <<vars, lookupVars, handle, origin>>

TransferOperations ==
    {"simulateTransfer", "initiateTransfer", "executeTransfer", "getTransferStatus"}
ForwardingOperations ==
    {"initiatePersistentForwardingTemplate", "createPersistentForwardingTemplate",
     "listPersistentForwardingTemplate", "createPersistentForwarding",
     "listPersistentForwarding"}

\* The exports of the preview 1 module: for transfers and the account's status...
TransferExport(provider, call) ==
    /\ call[1] \in TransferOperations \cup {"getAccountStatus"}
    /\ Call("p1", provider, call[1], Requests[call])

\* ...for persistent forwarding...
ForwardingExport(provider, call) ==
    /\ call[1] \in ForwardingOperations
    /\ Call("p1", provider, call[1], Requests[call])

\* ...and for deactivation, the history and the attributes that are shared.
RecordExport(provider, call) ==
    /\ call[1] \notin TransferOperations \cup ForwardingOperations \cup {"getAccountStatus"}
    /\ Call("p1", provider, call[1], Requests[call])

\* A method of the preview 2 component.
CallMethod(provider, call) == Call("p2", provider, call[1], Requests[call])

\* Each call reads the provider from the host's text again.
CallAny ==
    /\ service = "asset" /\ handle # None /\ waiting = None
    /\ \E provider \in {ParseProvider(handle)} : \E call \in Calls :
          \/ TransferExport(provider, call)
          \/ ForwardingExport(provider, call)
          \/ RecordExport(provider, call)
          \/ CallMethod(provider, call)

Current == log[Len(log)].operation

\* The response is decoded and handed to the host.
Answer(r) ==
    /\ service = "asset" /\ waiting # None
    /\ r \in Responses[Current]
    /\ result' = [response |-> r, outcome |-> Handed(waiting, Current, Outcome(Current, r))]
    /\ waiting' = None
    /\ UNCHANGED <<vars, lookupVars, handle, origin, log>>

FailTransport ==
    /\ waiting # None
    /\ result' = [response |-> None, outcome |-> Handed(waiting, Current, Failed("Transport"))]
    /\ waiting' = None
    /\ UNCHANGED <<vars, lookupVars, handle, origin, log>>

-----------------------------------------------------------------------------
MovementInit ==
    /\ Init
    /\ service \in {"asset", "kyc"}
    /\ asked = None /\ published = <<>>
    /\ handle = None /\ origin = None
    /\ log = <<>> /\ waiting = None /\ result = None

MovementNext ==
    \/ \E query \in Queries : Ask(query)
    \/ \E ids \in SUBSET Id : \E content \in [ids -> Content] : Discover(content)
    \/ LookUp
    \/ \E listing \in [document : 1..Roots, id : Id] : Bind(listing)
    \/ Leave
    \/ \E stored \in Stored : Restore(stored)
    \/ CallAny
    \/ \E operation \in DOMAIN Responses : \E r \in Responses[operation] : Answer(r)
    \/ FailTransport
-----------------------------------------------------------------------------
(* Properties *)

\* An entry that names an account is that account's own, which signs for its
\* operations and for the legal terms it states; one that names none carries no
\* signature.
Genuine(entry) ==
    IF entry.account = None THEN entry.signed = None
    ELSE /\ entry.signed # None
         /\ entry.signed.by = entry.account
         /\ entry.signed.over =
                <<entry.account, entry.operations,
                  IF entry.legal \in {None, Null} THEN None ELSE entry.legal>>

\* One of the entry's paths between two endpoints leads, in one of its
\* directions, where the search wants to go.
Serves(entry, search) ==
    \E paths \in entry.supported : \E path \in {p \in paths : Len(p) = 2} :
        \E i \in {1, 2} : OrientationMatches(search, path[i], path[3 - i])

\* The ids whose entry, at the highest root that lists them, is what is wanted.
Wanted ==
    {id \in {x \in Id : Ranks(x) # {}} :
        LET entry == published[Winner(id)][id] IN
        /\ Genuine(entry)
        /\ asked.filter.id \in {None, id}
        /\ asked.filter.account \in {None, entry.account}
        /\ asked.search = None \/ Serves(entry, asked.search)}

Listings(ids) == {[document |-> Winner(id), id |-> id] : id \in ids}

\* Every provider that is wanted is offered; by id or by account, the first.
OffersWanted ==
    LET wanted == Listings(Wanted)
        offered == {providers[i] : i \in Offered}
    IN  /\ \A i, j \in Offered : i < j => Before(providers[i], providers[j])
        /\ IF asked.filter = NoFilter THEN offered = wanted
           ELSE offered = {l \in wanted : \A other \in wanted \ {l} : Before(l, other)}

\* What a request asks its provider to do, without what no signature covers: the
\* rails allowed and the account that pays in a transfer, the filters of a list
\* and the attributes that are shared.  Templates read one asset as the pair of
\* it with itself.
Essence(message) ==
    LET body == IF Method(message.operation) = "GET" THEN Empty
                ELSE Without(message.body[2], {"account"})
        transfer == {"simulateTransfer", "initiateTransfer"}
        template == {"initiatePersistentForwardingTemplate",
                     "createPersistentForwardingTemplate"}
        Paired(asset) == IF asset[1] = "object" THEN asset
                         ELSE Object([from |-> asset, to |-> asset])
    IN  [kind |-> IF message.operation \in transfer THEN transfer ELSE {message.operation},
         id |-> message.id,
         body |->
            CASE message.operation \in transfer ->
                    [Without(body, {"allowedRails"}) EXCEPT
                        !.from = Object(Without(@[2], {"source"}))]
              [] message.operation \in template /\ "asset" \in DOMAIN body ->
                    [body EXCEPT !.asset = Paired(@)]
              [] message.operation \in {"listPersistentForwardingTemplate", "shareKYC",
                                        "listPersistentForwarding", "listTransactions"} -> Empty
              [] OTHER -> body]

\* A signature is worth what it tells apart: two requests with the same signed
\* payload ask for the same thing, as far as signatures are meant to cover it.
\* The signature of a simulation is good for the transfer itself.
SignedAlike ==
    \A i, j \in DOMAIN log :
        log[i].signed \notin {None, <<>>} /\ log[i].signed = log[j].signed
            => Essence(log[i]) = Essence(log[j])

\* A request of the asset-movement client goes where the entry says, and is
\* signed where it wants that, and always for the status of the account.
GoesAsEntrySays(message, entry) ==
    LET endpoint == entry.operations[message.operation]
    IN  /\ message.url = endpoint[2]
        /\ message.signed = None
              <=> /\ message.operation # "getAccountStatus"
                  /\ \A auth \in {"required", "optional"} :
                        endpoint # <<"object", endpoint[2], auth>>

\* A status tells its errors in "ok", which the envelope of a gateway lacks.
Unmarked(r) == Current = "getAccountStatus" /\ ~SaysNotOk(r.body) /\ r.body # None

\* What a host gets of a response of the asset-movement client.
AssetOutcomeIsMeant ==
    LET means == result.response.means
        outcome == result.outcome
    IN  CASE means[1] = "done" -> outcome = <<"ready", means[2]>>
          [] means[1] = "blocked" ->
                /\ outcome[1] = "error" /\ outcome[2] = means[2]
                /\ Len(outcome) = 3 => outcome[3] = means[3]
          [] means[1] = "status" -> outcome = <<"ready", Object([
                actionRequired |-> <<"bool", TRUE>>, blockers |-> ListOf(means[2])])>>
          [] means[1] = "failed" -> outcome[1] = "error" \/ Unmarked(result.response)
=============================================================================
