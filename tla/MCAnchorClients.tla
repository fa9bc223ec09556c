--------------------------- MODULE MCAnchorClients ---------------------------
(* Two roots listing two providers: alice's, one signed by bob in her name, *)
(* one whose operations she did not sign, bob's with bare endpoints, and    *)
(* one of nobody.  A few inputs of every operation, some of them unfit, and *)
(* the answers of a provider and of a gateway before it.                    *)
EXTENDS AnchorClients, CanonicalJson

CONSTANTS alice, bob, client

T(t) == Text(t)
Usd == <<"cur", "USD">>
Evm == <<"evm", "a", "checksum">>
EvmLow == <<"evm", "a", "lower">>
Pair(a, b) == Object([from |-> T(a), to |-> T(b)])

-----------------------------------------------------------------------------
(* What roots list *)

Rails(in, out) == [inbound |-> in, outbound |-> out, common |-> {}]
End(id, location, rails) == [id |-> id, location |-> location, rails |-> rails]

\* Dollars at a bank become tokens on a chain and tokens dollars, over a rail for
\* each direction.
Ramp == <<End(Usd, "bank", Rails({"ach"}, {"wire"})),
          End(EvmLow, "chain", Rails({"keeta"}, {"keeta"}))>>
NoRails == <<End(Usd, "bank", Rails({}, {})), End(Evm, "chain", Rails({}, {}))>>
Half == <<End(Usd, "bank", Rails({"ach"}, {"ach"}))>>
Anywhere == <<End(None, "bank", Rails({"ach"}, {})), End(Evm, "chain", Rails({}, {"keeta"}))>>

Signing(over) == [operation \in over |->
    IF operation = "shareKYC" THEN <<"object", "https://share", "optional">>
    ELSE IF operation = "getAccountStatus" THEN <<"bare", "https://status">>
    ELSE <<"object", "https://signed", "required">>]

Bare == [operation \in Operation |->
    CASE operation = "simulateTransfer" -> <<"object", "https://open", "later">>
      [] operation = "getTransferStatus" -> <<"object", "https://signed?sig", "required">>
      [] operation = "executeTransfer" -> <<"other">>
      [] operation = "listTransactions" -> <<"object", "nonsense", "none">>
      [] OTHER -> <<"bare", "https://open">>]

Full == Signing(Operation)
Advertised(operations, paths, account, by, over) ==
    [operations |-> operations, supported |-> {paths}, legal |-> None, account |-> account,
     signed |-> IF by = None THEN None ELSE [by |-> by, over |-> <<account, over, None>>]]

ContentValue ==
    {Advertised(Full, {Ramp}, alice, alice, Full),
     Advertised(Full, {Ramp, Half}, alice, bob, Full),
     Advertised(Full, {Anywhere}, alice, alice, Bare),
     [Advertised(Bare, {NoRails, Anywhere}, bob, bob, Bare) EXCEPT !.legal = Null],
     Advertised(Signing({"simulateTransfer", "shareKYC"}), {NoRails, Half}, None, None, Full)}

Search(fields) == Object(fields)
Query(via, filter, search) == [via |-> via, filter |-> filter, search |-> search]
ById(id) == [id |-> id, account |-> None]
ByAccount(account) == [id |-> None, account |-> account]

QueriesValue ==
    {Query(via, filter, None) : via \in {"rust", "host"},
        filter \in {NoFilter, ById(1), ByAccount(alice)}}
    \cup {Query("host", NoFilter, search) : search \in
        {Search([asset |-> T(Evm), from |-> T("chain"),
                 outboundRails |-> ListOf(<<T("wire")>>)]),
         Search([asset |-> Pair(EvmLow, Usd), from |-> Null]),
         Search([asset |-> Pair(Usd, Evm), inboundRails |-> ListOf(<<T("ach"), T("sepa")>>)]),
         Search([asset |-> Null, from |-> T("bank"), outboundRails |-> ListOf(<<T("keeta")>>)]),
         Search([asset |-> ListOf(<<>>)])}}

\* One provider of an earlier version of the contract, one without its auth.
Kept(endpoint) == Object([id |-> T(1), legal |-> Null, version |-> T("x"),
    operations |-> Object([simulateTransfer |-> Object(endpoint)])])
StoredValue ==
    {Kept([url |-> T("https://kept"), auth |-> T("required")]),
     Kept([url |-> T("https://kept")])}

-----------------------------------------------------------------------------
(* Inputs *)

Big == Number(MaxSafeInteger + 1)
Fraction == <<"float", "0.5">>
Deep == ListOf([i \in 1..MaxNodes |-> Null])

At(location) == Object([location |-> T(location)])
To(recipient) == Object([location |-> T("chain"), recipient |-> recipient])
TransferArg(asset, from, to, value, rails) ==
    Object([asset |-> asset, from |-> from, to |-> to, value |-> value, allowedRails |-> rails])

TransferArgs ==
    {TransferArg(T(EvmLow), At("bank"), To(T("r")), T("5"), ListOf(<<>>)),
     TransferArg(T(Evm), Object([location |-> T("bank"), source |-> T("s")]), To(T("r")),
                 Number(5), ListOf(<<T("ach")>>)),
     TransferArg(T(Evm), At("bank"), To(T("q")), T("5"), ListOf(<<>>)),
     TransferArg(Pair(Evm, Evm), At("bank"),
                 Object([location |-> T("chain"), recipient |-> T("r"),
                         depositMessage |-> T("m")]), T("5"), ListOf(<<>>)),
     TransferArg(T(Evm), At("bank"), To(Big), T("5"), ListOf(<<>>)),
     TransferArg(T(Evm), At("bank"), To(Deep), T("5"), ListOf(<<>>)),
     TransferArg(T(Evm), At("bank"), At("chain"), T("5"), ListOf(<<>>)),
     TransferArg(T(Evm), At("bank"), To(T("r")), Null, ListOf(<<>>))}

AddressArg(fields) ==
    Object([sourceLocation |-> T("bank"), asset |-> T(Usd)] @@ fields)

Arguments(operation) ==
    CASE operation \in {"simulateTransfer", "initiateTransfer"} -> TransferArgs
      [] operation = "executeTransfer" ->
            {Object([id |-> T(id), instruction |-> i]) :
                id \in {"1", "2"}, i \in {T("go"), Fraction}}
      [] operation = "initiatePersistentForwardingTemplate" ->
            {Object([asset |-> a, location |-> T("bank")]) :
                a \in {T(Usd), Pair(Usd, Usd), ListOf(<<>>)}}
      [] operation = "createPersistentForwardingTemplate" ->
            {Object([id |-> T("1"), data |-> T("d"), location |-> T("bank")]),
             Object([id |-> T("2"), data |-> T("d")]),
             Object([id |-> T("1"), asset |-> T(Usd), location |-> T("bank"),
                     address |-> T("x")]),
             Object([asset |-> T(Usd), address |-> T("x")])}
      [] operation = "listPersistentForwardingTemplate" ->
            {Object([asset |-> ListOf(<<T("USD")>>)]), Object([asset |-> T("USD")])}
      [] operation = "createPersistentForwarding" ->
            {AddressArg([destinationLocation |-> T("chain"), destinationAddress |-> T("x"),
                         persistentAddressTemplateId |-> T("1"), incomingRail |-> Null]),
             AddressArg([destinationLocation |-> T("chain"),
                         persistentAddressTemplateId |-> T("1")]),
             AddressArg([destinationAddress |-> T("x")])}
      [] operation = "listPersistentForwarding" ->
            {Object([search |-> ListOf(<<Object([asset |-> a])>>),
                     pagination |-> Object([limit |-> Number(n)])]) :
                a \in {Pair(Usd, Evm), ListOf(<<>>)}, n \in {MaxU32, MaxU32 + 1}}
            \cup {Object(Empty)}
      [] operation = "listTransactions" ->
            {Object([from |-> At("bank"), transactions |-> Null]), Object([from |-> T("bank")])}
      [] operation = "shareKYC" ->
            {Object([attributes |-> T("a")]),
             Object([attributes |-> T("b"), tosAgreement |-> Object([agreed |-> T("yes")])])}
      [] operation = "getAccountStatus" -> {None}
      [] OTHER -> {"1", "2"}

CallsValue == UNION {{<<operation, a>> : a \in Arguments(operation)} : operation \in Operation}

-----------------------------------------------------------------------------
(* Answers *)

Body(operation) ==
    CASE operation = "simulateTransfer" -> [expired |-> T("x")]
      [] operation = "initiateTransfer" ->
            [id |-> T("1"), instructionChoices |-> ListOf(<<T("pay")>>)]
      [] operation \in {"executeTransfer", "getTransferStatus"} ->
            [transaction |-> T("t"), id |-> T("1")]
      [] operation = "initiatePersistentForwardingTemplate" ->
            [id |-> T("1"), expiresAt |-> T("z"), data |-> Null]
      [] operation = "createPersistentForwardingTemplate" ->
            [id |-> T("1"), location |-> T("bank"), asset |-> T("USD"), address |-> T("x")]
      [] operation = "createPersistentForwarding" ->
            [address |-> T("x"), fees |-> Object([lineItems |-> ListOf(<<Object(
                [purpose |-> T("RAIL"), asset |-> T("USD"), rate |-> Number(1)])>>)]),
             asset |-> Object([from |-> T("USD"), to |-> T("EUR")]), memo |-> T("kept")]
      [] operation = "listPersistentForwardingTemplate" -> [templates |-> ListOf(<<T("1")>>)]
      [] operation = "listPersistentForwarding" ->
            [addresses |-> ListOf(<<Object([address |-> T("x"), id |-> Null])>>),
             total |-> T("1")]
      [] operation = "listTransactions" -> [total |-> T("0"), ok |-> <<"bool", TRUE>>]
      [] operation = "shareKYC" ->
            [isPending |-> <<"bool", TRUE>>, promiseURL |-> T("https://promise")]
      [] operation = "getAccountStatus" -> [actionRequired |-> <<"bool", FALSE>>]
      [] OTHER -> [ok |-> <<"bool", TRUE>>]

\* What the body says, written out.
Value(operation) ==
    CASE operation = "simulateTransfer" -> Object([instructionChoices |-> ListOf(<<>>)])
      [] operation \in {"executeTransfer", "getTransferStatus"} ->
            Object([transaction |-> T("t")])
      [] operation = "listPersistentForwardingTemplate" ->
            Object([templates |-> ListOf(<<T("1")>>), total |-> T("")])
      [] operation = "listPersistentForwarding" ->
            Object([addresses |-> ListOf(<<Object([address |-> T("x")])>>), total |-> T("1")])
      [] operation = "listTransactions" ->
            Object([transactions |-> ListOf(<<>>), total |-> T("0")])
      [] operation = "getAccountStatus" -> Object([actionRequired |-> <<"bool", FALSE>>])
      [] operation \in {"deactivatePersistentForwardingTemplate",
                        "deactivatePersistentForwarding"} -> Object(Empty)
      [] OTHER -> Object(Body(operation))

Response(status, body, header, means) ==
    [status |-> status, body |-> body, header |-> header, means |-> means]

\* A blocker as the service writes it and as the host should see it.
Failing(code, data) ==
    [ok |-> <<"bool", FALSE>>, code |-> T(code), error |-> T("no"), data |-> Object(data)]

ShareNeeded == Failing("KYC_SHARE_NEEDED",
    [neededAttributes |-> ListOf(<<T("email"), Number(1)>>), tosFlow |-> Null,
     acceptedIssuers |-> ListOf(<<>>)])
Share == Object([type |-> T("kycShareNeeded"), tosFlow |-> Null,
                 neededAttributes |-> ListOf(<<T("email")>>),
                 shareWithPrincipals |-> ListOf(<<>>), acceptedIssuers |-> ListOf(<<>>)])

More == Failing("ADDITIONAL_KYC_NEEDED", [toCompleteFlow |-> T("f")])
Action == Failing("USER_ACTION_NEEDED", [actionsNeeded |-> ListOf(<<T("call")>>)])
Unsupported == Failing("OPERATION_NOT_SUPPORTED", [forRail |-> T("ach")])
Odd == Failing("SOMETHING", Empty)

Blocked(operation) ==
    CASE operation = "executeTransfer" ->
            <<More, "ADDITIONAL_KYC_NEEDED",
              Object([type |-> T("additionalKycNeeded"), toCompleteFlow |-> T("f")])>>
      [] operation = "initiateTransfer" ->
            <<Unsupported, "OPERATION_NOT_SUPPORTED",
              Object([type |-> T("operationNotSupported"), forAsset |-> Null,
                      forRail |-> T("ach")])>>
      [] operation = "createPersistentForwarding" ->
            <<Action, "USER_ACTION_NEEDED",
              Object([type |-> T("userActionNeeded"), actionsNeeded |-> ListOf(<<T("call")>>)])>>
      [] OTHER -> <<ShareNeeded, "KYC_SHARE_NEEDED", Share>>

\* Members with a default, which may be missing but not null.
Defaulted == {"instructionChoices", "isPending", "transactions", "addresses"}

StatusResponses ==
    {Response(200, Object([actionRequired |-> <<"bool", TRUE>>,
                           errors |-> ListOf(<<Object(Odd), Object(ShareNeeded)>>)]), None,
        <<"status", <<Object([type |-> T("other"), name |-> T(""), code |-> T("SOMETHING"),
                              message |-> T("no")]), Share>>>>),
     Response(403, Object(ShareNeeded), None, <<"status", <<Share>>>>)}

ResponsesOf(operation) ==
    {Response(200, Object(Body(operation)), None, <<"done", Value(operation)>>),
     Response(503, Object([message |-> T("busy")]), None, <<"failed">>),
     Response(200, Object(Odd), None, <<"failed">>),
     Response(200, None, None, <<"failed">>)}
    \cup
    (IF operation = "getAccountStatus" THEN StatusResponses
     ELSE {Response(403, Object(Blocked(operation)[1]), None,
                    <<"blocked", Blocked(operation)[2], Blocked(operation)[3]>>),
           Response(200, Object(Body(operation)), 5, <<"failed">>),
           Response(200, Object([ok |-> <<"bool", FALSE>>] @@ Body(operation)), None,
                    <<"failed">>)})
    \cup {Response(200, Object([name \in Defaulted |-> Null]), None, <<"failed">>) :
            x \in {operation} \cap {"simulateTransfer", "initiateTransfer", "shareKYC",
                                   "listTransactions", "listPersistentForwarding"}}

ResponsesValue == [operation \in Operation |-> ResponsesOf(operation)]

-----------------------------------------------------------------------------
(* KYC *)

CountryValue == {"US", "CA", "DE"}
Us == <<"US", "upper">>
UsLow == <<"US", "lower">>
CaPadded == <<"CA", "padded">>
Blank == <<"", "padded">>

Codes(codes) == ListOfTexts(codes)

\* Endpoints: bare, as an object, missing, null, and of no kind.
KycEndpoints ==
    Object([createVerification |-> T("https://create"),
            getVerificationStatus |-> Object([url |-> T("https://state"), options |-> Null]),
            getCertificates |-> T("https://certs")])
Poor ==
    Object([createVerification |-> T("nonsense"), getCertificates |-> Null,
            getVerificationStatus |-> T("https://signed?sig")])
Broken == Object([createVerification |-> Object([uri |-> T("https://create")])])

KycListed(members, account, by) ==
    [json |-> Object(members), operations |-> members.operations, legal |-> None, account |-> account,
     signed |-> IF by = None THEN None
                ELSE [by |-> by, over |-> <<account, members.operations, None>>]]

Serving(operations, codes) ==
    [operations |-> operations, countryCodes |-> codes, ca |-> T("pem")]

KycContentValue ==
    {KycListed(Serving(KycEndpoints, Codes(<<UsLow, CaPadded>>)), alice, alice),
     KycListed(Serving(KycEndpoints, Null), alice, bob),
     KycListed(Serving(Poor, Codes(<<Us>>)), None, None),
     KycListed(Serving(KycEndpoints, Codes(<<Us, Blank>>)), bob, bob),
     KycListed(Serving(Broken, Null), None, None),
     KycListed([operations |-> KycEndpoints, ca |-> T("pem")], bob, bob)}

KycQueriesValue ==
    {[goal |-> "providers", countries |-> c] :
        c \in {Codes(<<>>), Codes(<<UsLow>>), Codes(<<Us, CaPadded>>), Codes(<<Blank>>), T(Us)}}
    \cup {[goal |-> "countries", countries |-> Codes(<<>>)]}

KycKept(ca, code) ==
    Object([id |-> T(1), ca |-> ca, operations |-> Poor, countryCodes |-> Codes(<<code>>)])
KycStoredValue ==
    {KycKept(T("pem"), UsLow), KycKept(T("pem"), Blank), KycKept(Null, UsLow)}

KycCallsValue ==
    {<<"createVerification", [countries |-> c, redirect |-> r]>> :
        c \in {Codes(<<UsLow, CaPadded>>), Codes(<<Us, Blank>>), T(Us)},
        r \in {None, "", "https://back"}}
    \cup {<<operation, id>> : operation \in {"getCertificates", "getVerificationStatus"},
                             id \in {"1", "2"}}

Cost == [min |-> T("1"), max |-> T("2"), token |-> T("t")]
KycBody(operation) ==
    CASE operation = "createVerification" ->
            [id |-> T("1"), webURL |-> T("https://web"), expectedCost |-> Object(Cost)]
      [] operation = "getVerificationStatus" ->
            [status |-> T("pending"), requiresManualVerification |-> Null]
      [] operation = "getCertificates" ->
            [results |-> ListOf(<<Object([certificate |-> T("leaf")])>>)]

Group == Object([certificate |-> T("leaf"), intermediates |-> ListOf(<<>>)])
State == Object([status |-> T("pending")])

\* What a body says, in the terms of each binding.
KycValue(operation) ==
    CASE operation = "createVerification" ->
            [p1 |-> <<"json", Object([type |-> T("ready"), verification |->
                Object([id |-> T("1"), webUrl |-> T("https://web"),
                        expectedCost |-> Object(Cost)])])>>,
             p2 |-> <<"ready", Object(KycBody(operation))>>]
      [] operation = "getVerificationStatus" ->
            [p1 |-> <<"json", Object([type |-> T("ready"), status |-> State])>>,
             p2 |-> <<"ready", State>>]
      [] operation = "getCertificates" ->
            [p1 |-> <<"json", Object([type |-> T("ready"), certificates |->
                Object([results |-> ListOf(<<Group>>)])])>>,
             p2 |-> <<"ready", ListOf(<<Group>>)>>]

KycResponsesOf(operation) ==
    {Response(200, Object(KycBody(operation)), None, <<"done", KycValue(operation)>>),
     Response(200, Object([retryAfter |-> Number(7)]), 5, <<"pending", 7>>),
     Response(202, None, None, <<"pending", DefaultRetryMs>>),
     Response(404, Object(Odd), 5, <<"pending", 5>>),
     Response(200, Object([name \in DOMAIN KycBody(operation) |-> T("x")]), None,
              <<"failed", "INVALID_BODY">>),
     Response(503, Object([message |-> T("busy")]), None, <<"failed", "SERVICE">>),
     Response(200, Object([ok |-> <<"bool", FALSE>>] @@ KycBody(operation)), None,
              <<"failed", "SERVICE">>),
     Response(403, Object(More), None, <<"failed", "ADDITIONAL_KYC_NEEDED">>)}

KycResponsesValue ==
    [operation \in {"createVerification", "getVerificationStatus", "getCertificates"} |->
        KycResponsesOf(operation)]
=============================================================================
