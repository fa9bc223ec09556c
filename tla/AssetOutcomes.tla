---------------------------- MODULE AssetOutcomes ----------------------------
(***************************************************************************)
(* What becomes of a provider's response: the results of the operations    *)
(* (services/asset_movement/response.rs), the blockers it reports          *)
(* (error.rs), the status of an account (client.rs) and the errors the     *)
(* bindings hand to their hosts.                                           *)
(*                                                                         *)
(* A response is its status, its body, which is None when it is no JSON,   *)
(* and the delay of its Retry-After header, or None.                       *)
(***************************************************************************)
EXTENDS AssetJson

CONSTANT DefaultRetryMs     \* DEFAULT_RETRY_MS

-----------------------------------------------------------------------------
(* Results *)

AssetKind == Untagged(Str, Dto([from |-> Needed(Str), to |-> Needed(Str)]))

\* AssetOrAssetWithLocation
LocatedAsset == Untagged(Str, Dto([id |-> Needed(Str), location |-> Needed(Str)]))

FeeLineItem ==
    Open([purpose |-> Needed(Str), value |-> Option(Str), basisPoints |-> Option(Numeric),
          asset |-> Option(LocatedAsset), details |-> Option(AnyJson)])

FeeBreakdown ==
    Open([lineItems |-> Default(Seqs(FeeLineItem)), total |-> Option(Str),
          totalPricedIn |-> Option(LocatedAsset)])

MinimumTransferValue == Dto([asset |-> Needed(Str), value |-> Needed(Str)])

ForwardingAddress ==
    [id |-> Option(Str), address |-> Needed(AnyJson), depositMessage |-> Option(AnyJson),
     asset |-> Option(AssetKind), sourceLocation |-> Option(AnyJson),
     destinationLocation |-> Option(AnyJson), destinationAddress |-> Option(AnyJson),
     outgoingRail |-> Option(Str), incomingRail |-> Option(Seqs(Str)),
     minimumTransferValue |-> Option(MinimumTransferValue), fees |-> Option(FeeBreakdown)]

SimulatedTransfer == [instructionChoices |-> Default(Seqs(AnyJson))]
Transfer == [id |-> Needed(Str), instructionChoices |-> Default(Seqs(AnyJson))]
TransferStatus == [transaction |-> Needed(AnyJson)]
TemplateSession == [id |-> Needed(Str), expiresAt |-> Needed(Str), data |-> Needed(AnyJson)]

ForwardingTemplate ==
    [id |-> Needed(Str), location |-> Needed(AnyJson), asset |-> Needed(AnyJson),
     address |-> Needed(AnyJson)]

\* TemplatePage, AddressPage and TransactionPage
Page(name, kind) ==
    [n \in {name, "total"} |-> Default(IF n = "total" THEN Str ELSE Seqs(kind))]

ShareKycOutcome == [isPending |-> Default(Bool), promiseURL |-> Option(Str)]

\* The kind each operation decodes a successful body into; a deactivation
\* reads any value.
ResultKind(operation) ==
    CASE operation = "simulateTransfer" -> Dto(SimulatedTransfer)
      [] operation = "initiateTransfer" -> Dto(Transfer)
      [] operation \in {"executeTransfer", "getTransferStatus"} -> Dto(TransferStatus)
      [] operation = "initiatePersistentForwardingTemplate" -> Dto(TemplateSession)
      [] operation = "createPersistentForwardingTemplate" -> Dto(ForwardingTemplate)
      [] operation = "createPersistentForwarding" -> Open(ForwardingAddress)
      [] operation = "listPersistentForwardingTemplate" -> Dto(Page("templates", AnyJson))
      [] operation = "listPersistentForwarding" ->
            Dto(Page("addresses", Open(ForwardingAddress)))
      [] operation = "listTransactions" -> Dto(Page("transactions", AnyJson))
      [] operation = "shareKYC" -> Dto(ShareKycOutcome)
      [] operation \in {"deactivatePersistentForwardingTemplate",
                        "deactivatePersistentForwarding"} -> AnyJson

-----------------------------------------------------------------------------
(* Blockers *)

\* The member of an object that is there and no null, or None (field).
Member(v, name) ==
    IF v = None THEN None
    ELSE IF v[1] # "object" THEN None
    ELSE IF name \notin DOMAIN v[2] THEN None
    ELSE IF v[2][name] = Null THEN None ELSE v[2][name]

\* The same, read as a text or as a list.
TextMember(v, name) ==
    LET m == Member(v, name) IN IF m = None THEN None ELSE IF m[1] = "text" THEN m[2] ELSE None
ListMember(v, name) ==
    LET m == Member(v, name) IN IF m = None THEN None ELSE IF m[1] = "list" THEN m[2] ELSE None

Texts(list) ==
    LET IsText(v) == v[1] = "text" IN IF list = None THEN None ELSE SelectSeq(list, IsText)

\* array_field
Items(list) == IF list = None THEN <<>> ELSE list

KycShareNeeded(data) ==
    [code |-> "KYC_SHARE_NEEDED", tosFlow |-> Member(data, "tosFlow"),
     neededAttributes |-> Texts(ListMember(data, "neededAttributes")),
     shareWithPrincipals |-> Texts(Items(ListMember(data, "shareWithPrincipals"))),
     acceptedIssuers |-> Member(data, "acceptedIssuers")]

TextOr(text, default) == IF text = None THEN default ELSE text

\* AssetMovementBlocker::from_transport; codes are named without their prefix.
FromTransport(entry) ==
    LET code == TextMember(entry, "code")
        data == Member(entry, "data")
    IN  CASE code = "KYC_SHARE_NEEDED" -> KycShareNeeded(data)
          [] code = "ADDITIONAL_KYC_NEEDED" ->
                [code |-> code, toCompleteFlow |-> Member(data, "toCompleteFlow")]
          [] code = "OPERATION_NOT_SUPPORTED" ->
                [code |-> code, forAsset |-> Member(data, "forAsset"),
                 forRail |-> TextMember(data, "forRail")]
          [] code = "USER_ACTION_NEEDED" ->
                [code |-> code, actionsNeeded |-> Items(ListMember(data, "actionsNeeded"))]
          [] OTHER ->
                [code |-> "SERVICE", given |-> code,
                 name |-> TextOr(TextMember(entry, "name"), ""),
                 message |-> TextOr(TextMember(entry, "error"), "")]

\* is_recognized: the variant Other has no code of its own.
IsRecognized(blocker) == blocker.code # "SERVICE"

OrNull(v) == IF v = None THEN Null ELSE v
TextOrNull(text) == IF text = None THEN Null ELSE Text(text)

\* to_json: what a host reads of a blocker, told apart by "type".
ToJson(blocker) ==
    CASE blocker.code = "KYC_SHARE_NEEDED" ->
            Object([type |-> Text("kycShareNeeded"), tosFlow |-> OrNull(blocker.tosFlow),
                    neededAttributes |-> IF blocker.neededAttributes = None THEN Null
                                         ELSE ListOf(blocker.neededAttributes),
                    shareWithPrincipals |-> ListOf(blocker.shareWithPrincipals),
                    acceptedIssuers |-> OrNull(blocker.acceptedIssuers)])
      [] blocker.code = "ADDITIONAL_KYC_NEEDED" ->
            Object([type |-> Text("additionalKycNeeded"),
                    toCompleteFlow |-> OrNull(blocker.toCompleteFlow)])
      [] blocker.code = "OPERATION_NOT_SUPPORTED" ->
            Object([type |-> Text("operationNotSupported"),
                    forAsset |-> OrNull(blocker.forAsset),
                    forRail |-> TextOrNull(blocker.forRail)])
      [] blocker.code = "USER_ACTION_NEEDED" ->
            Object([type |-> Text("userActionNeeded"),
                    actionsNeeded |-> ListOf(blocker.actionsNeeded)])
      [] OTHER ->
            Object([type |-> Text("other"), name |-> Text(blocker.name),
                    code |-> TextOrNull(blocker.given), message |-> Text(blocker.message)])

-----------------------------------------------------------------------------
(* Outcomes of the client: <<"ready", value>>, <<"blocker", blocker>> or     *)
(* <<"failed", variant>>, of AnchorClientError; a host gets <<"error", code>> *)

Failed(variant) == <<"failed", variant>>
Error(code) == <<"error", code>>

\* AnchorClientError::code, of the variants met here.
Code ==
    [Transport |-> "TRANSPORT", Resolver |-> "RESOLVER", Url |-> "INVALID_URL",
     Signing |-> "SIGNING", Request |-> "REQUEST", Body |-> "INVALID_BODY",
     Service |-> "SERVICE", UnsupportedOperation |-> "UNSUPPORTED_OPERATION"]

\* The envelope, which defaults when one of its members is of another kind.
Envelope(body) ==
    LET read == IF body = None THEN None
                ELSE Parse(body, [ok |-> Option(Bool), retryAfter |-> Option(Count)])
    IN  IF read = None THEN Empty ELSE read

\* retry_delay: when to ask again, in milliseconds, or None for a settled answer.
RetryDelay(r) ==
    CASE "retryAfter" \in DOMAIN Envelope(r.body) -> Envelope(r.body).retryAfter[2]
      [] "retryAfter" \notin DOMAIN Envelope(r.body) /\ r.header # None -> r.header
      [] OTHER -> IF r.status \in {202, 404} THEN DefaultRetryMs ELSE None

SaysNotOk(body) == "ok" \in DOMAIN Envelope(body) /\ Envelope(body).ok = <<"bool", FALSE>>

\* failure
Failure(r) ==
    LET blocker == FromTransport(r.body)
    IN  IF IsRecognized(blocker) THEN <<"blocker", blocker>> ELSE Failed("Service")

\* Mutant: a failure is read as a result when the body fits.
DecodeBodyFirst(operation, r) ==
    CASE RetryDelay(r) # None \/ r.body = None -> Failed("Body")
      [] OTHER -> IF Fits(r.body, ResultKind(operation))
                  THEN <<"ready", Cleaned(r.body, ResultKind(operation))>> ELSE Failure(r)

\* classify: <<"retry", delay>> for an answer that is not final.
Classify(kind, r) ==
    IF RetryDelay(r) # None THEN <<"retry", RetryDelay(r)>>
    ELSE IF r.status \notin 200..299 \/ SaysNotOk(r.body) THEN Failure(r)
    ELSE IF r.body = None THEN Failed("Body")
    ELSE IF Fits(r.body, kind) THEN <<"ready", Cleaned(r.body, kind)>> ELSE Failed("Body")

\* expect_ready: here such an answer is an error.
Decode(operation, r) ==
    LET outcome == Classify(ResultKind(operation), r)
    IN  IF outcome[1] = "retry" THEN Failed("Body") ELSE outcome

IsTrue(v) == v = <<"bool", TRUE>>

\* resolve_account_status: the blockers of the account, of which a Ready one has
\* none.  The status of the response says only which error it is.
AccountStatus(r) ==
    IF r.body = None THEN Failed("Body")
    ELSE IF Member(r.body, "ok") = <<"bool", FALSE>>
    THEN LET blocker == FromTransport(r.body)
         IN  IF IsRecognized(blocker) THEN <<"ready", <<"actionRequired", <<blocker>>>>>>
             ELSE Failed("Service")
    ELSE IF ~IsTrue(Member(r.body, "actionRequired")) THEN <<"ready", <<"ready">>>>
    ELSE LET errors == Items(ListMember(r.body, "errors"))
         IN  <<"ready", <<"actionRequired",
                          [i \in DOMAIN errors |-> FromTransport(errors[i])]>>>>

Outcome(operation, r) ==
    IF operation = "getAccountStatus" THEN AccountStatus(r) ELSE Decode(operation, r)

\* account_status_json
StatusJson(status) ==
    Object(IF status[1] = "ready" THEN [actionRequired |-> <<"bool", FALSE>>]
           ELSE [actionRequired |-> <<"bool", TRUE>>,
                 blockers |-> ListOf([i \in DOMAIN status[2] |-> ToJson(status[2][i])])])

\* What a result is to a host: that of a deactivation is not its response
\* (encode_ack), and the status of an account lists its blockers.
Encoded(operation, outcome) ==
    IF outcome[1] # "ready" THEN outcome
    ELSE CASE operation \in {"deactivatePersistentForwardingTemplate",
                             "deactivatePersistentForwarding"} -> <<"ready", Object(Empty)>>
           [] operation = "getAccountStatus" -> <<"ready", StatusJson(outcome[2])>>
           [] OTHER -> outcome

\* The error of a preview 1 binding (coded): a blocker crosses with its content.
Coded(outcome) ==
    CASE outcome[1] = "blocker" -> <<"error", outcome[2].code, ToJson(outcome[2])>>
      [] outcome[1] = "failed" -> Error(Code[outcome[2]])
      [] OTHER -> outcome

\* The error of a preview 2 binding (From<AnchorClientError>): only its code.
Lifted(outcome) ==
    CASE outcome[1] = "blocker" -> Error(outcome[2].code)
      [] outcome[1] = "failed" -> Error(Code[outcome[2]])
      [] OTHER -> outcome

\* What the host of a binding gets.
Handed(binding, operation, outcome) ==
    LET done == Encoded(operation, outcome)
    IN  IF binding = "p1" THEN Coded(done) ELSE Lifted(done)
=============================================================================
