--------------------------- MODULE AssetRequests ---------------------------
(***************************************************************************)
(* The requests of the asset-movement client                               *)
(* (services/asset_movement/request.rs): for each operation the fields its *)
(* body carries and the payload that is signed (signing/canonical.rs).     *)
(*                                                                         *)
(* A JSON value is <<"null">>, <<"bool", b>>, <<"text", t>>,               *)
(* <<"number", n>> for an integer, <<"float", t>> for another number,      *)
(* <<"list", sequence>> or <<"object", function>>.  A request is a         *)
(* function from the names of the fields it has to their values; an Option *)
(* that is None has no field.  Its asset is an AssetOrPair.                *)
(***************************************************************************)
EXTENDS ProviderSearch, Integers

CONSTANT Signable(_)    \* whether an object has a canonical text

Operation ==
    {"simulateTransfer", "initiateTransfer", "executeTransfer", "getTransferStatus",
     "initiatePersistentForwardingTemplate", "createPersistentForwardingTemplate",
     "listPersistentForwardingTemplate", "deactivatePersistentForwardingTemplate",
     "createPersistentForwarding", "listPersistentForwarding",
     "deactivatePersistentForwarding", "listTransactions", "shareKYC", "getAccountStatus"}

Null == <<"null">>
Text(t) == <<"text", t>>
Number(n) == <<"number", n>>
ListOf(s) == <<"list", s>>
Object(f) == <<"object", f>>

Empty == [name \in {} |-> Null]
Only(f, names) == [name \in DOMAIN f \cap names |-> f[name]]
Without(f, names) == Only(f, DOMAIN f \ names)

\* to_canonical_value
AssetValue(asset) ==
    IF Len(asset) = 1 THEN Text(Canonical(asset[1]))
    ELSE Object([from |-> Text(Canonical(asset[1])), to |-> Text(Canonical(asset[2]))])

\* to_pair_value
PairValue(asset) ==
    Object([from |-> Text(Canonical(asset[1])), to |-> Text(Canonical(asset[Len(asset)]))])

WithAsset(r) == [r EXCEPT !.asset = AssetValue(@)]
WithPair(r) == [r EXCEPT !.asset = PairValue(@)]

-----------------------------------------------------------------------------
(* Payloads *)

\* object_to_signable, or None: the canonical text of two objects is equal only
\* if they are, whatever the order of their members.
ObjectToSignable(object) ==
    IF Signable(object) THEN <<<<"canonical", object>>>> ELSE None

Literal(tag) == <<<<"literal", tag>>>>

\* id_literal
IdLiteral(tag, id) == Literal(tag) \o <<<<"id", id>>>>

-----------------------------------------------------------------------------
(* Transfers *)

\* TransferRequest::transport_fields
TransferFields(r) ==
    WithAsset(IF r.allowedRails = ListOf(<<>>) THEN Without(r, {"allowedRails"}) ELSE r)

\* Mutant: the deposit message and the recipient are left out.
SignsLocationsOnly(r) ==
    ObjectToSignable(
        [asset |-> AssetValue(r.asset), value |-> r.value,
         from |-> Object(Only(r.from[2], {"location"})),
         to |-> Object(Only(r.to[2], {"location"}))])

\* TransferRequest::signable: neither the allowed rails nor the address that is
\* debited is signed.
TransferPayload(r) ==
    ObjectToSignable(
        [asset |-> AssetValue(r.asset), value |-> r.value,
         from |-> Object(Only(r.from[2], {"location"})), to |-> r.to])

\* ExecuteTransferRequest: the id travels in the URL and is signed.
ExecuteFields(r) == Only(r, {"instruction"})
ExecutePayload(r) == ObjectToSignable([r EXCEPT !.id = Text(@)])

-----------------------------------------------------------------------------
(* Persistent forwarding *)

\* InitiatePersistentForwardingTemplateRequest
SessionFields(r) == WithAsset(r)
SessionPayload(r) == ObjectToSignable(WithPair(r))

\* CreatePersistentForwardingTemplateRequest; a completion has data.
Completes(r) == "data" \in DOMAIN r
TemplateFields(r) == IF Completes(r) THEN r ELSE WithAsset(r)
TemplatePayload(r) ==
    ObjectToSignable(IF Completes(r) THEN r ELSE WithPair(r))

\* CreatePersistentForwardingAddressRequest
ForwardingFields(r) == WithAsset(r)
ForwardingPayload(r) == ObjectToSignable(WithAsset(r))

-----------------------------------------------------------------------------
(* Lists, whose filters are not signed *)

\* Pagination::to_value is None without bounds.
Paged(r) == IF r.pagination = Object(Empty) THEN Without(r, {"pagination"}) ELSE r

\* ForwardingAddressFilter::to_value; the asset of a filter is an AssetOrPair.
FilterValue(filter) == Object(IF "asset" \in DOMAIN filter THEN WithAsset(filter) ELSE filter)

\* ListForwardingAddressesRequest::transport_fields
ListAddressesFields(r) ==
    Paged(IF "search" \in DOMAIN r
          THEN [r EXCEPT !.search = ListOf([i \in DOMAIN @ |-> FilterValue(@[i])])] ELSE r)

\* ListTransactionsRequest::transport_fields, with the filters' to_value.
ListTransactionsFields(r) == Paged(r)

-----------------------------------------------------------------------------
(* All operations *)

\* transport_fields, without the account.
Fields(operation, r) ==
    CASE operation \in {"simulateTransfer", "initiateTransfer"} -> TransferFields(r)
      [] operation = "executeTransfer" -> ExecuteFields(r)
      [] operation = "initiatePersistentForwardingTemplate" -> SessionFields(r)
      [] operation = "createPersistentForwardingTemplate" -> TemplateFields(r)
      [] operation = "createPersistentForwarding" -> ForwardingFields(r)
      [] operation = "listPersistentForwarding" -> ListAddressesFields(r)
      [] operation = "listTransactions" -> ListTransactionsFields(r)
      [] operation \in {"listPersistentForwardingTemplate", "shareKYC"} -> r
      [] OTHER -> Empty

\* signable, or the literals of the operations without one; None when it fails.
Payload(operation, r) ==
    CASE operation \in {"simulateTransfer", "initiateTransfer"} -> TransferPayload(r)
      [] operation = "executeTransfer" -> ExecutePayload(r)
      [] operation = "initiatePersistentForwardingTemplate" -> SessionPayload(r)
      [] operation = "createPersistentForwardingTemplate" -> TemplatePayload(r)
      [] operation = "createPersistentForwarding" -> ForwardingPayload(r)
      [] operation = "listPersistentForwardingTemplate" -> Literal("list-templates")
      [] operation = "listPersistentForwarding" ->
            Literal("list-persistent-forwarding-addresses")
      [] operation = "listTransactions" -> Literal("list-transactions")
      [] operation = "shareKYC" -> Literal("share-kyc")
      [] operation = "getAccountStatus" -> Literal("get-account-status")
      [] operation = "getTransferStatus" -> IdLiteral("get-transaction", r.id)
      [] operation = "deactivatePersistentForwardingTemplate" ->
            IdLiteral("deactivate-persistent-forwarding-template", r.id)
      [] operation = "deactivatePersistentForwarding" ->
            IdLiteral("deactivate-persistent-forwarding-address", r.id)

\* The {id} of the URL.
UrlId(operation, r) ==
    IF operation \in {"executeTransfer", "getTransferStatus", "deactivatePersistentForwarding",
                      "deactivatePersistentForwardingTemplate"}
    THEN r.id ELSE None
=============================================================================
