------------------------------ MODULE AssetJson ------------------------------
(***************************************************************************)
(* The JSON contract of the asset-movement bindings                        *)
(* (keetanetwork-anchor-client-wasi/src/asset_json.rs): how the text a     *)
(* host hands over becomes a request of the client, and how a provider     *)
(* goes out to the host and comes back.                                    *)
(*                                                                         *)
(* A value read without success is None and becomes INVALID_INPUT.  An     *)
(* object written as the list of its members, which serde accepts too, is  *)
(* not modelled.                                                           *)
(***************************************************************************)
EXTENDS AssetRequests, TLC

CONSTANT MaxU32     \* u32::MAX

-----------------------------------------------------------------------------
(* Deserializing: the shape of a DTO gives each field a kind and says        *)
(* whether it must be there ("needed"), is an Option, or has a default       *)

AnyJson == <<"any">>
Str == <<"text">>
Count == <<"count">>     \* a u32
Numeric == <<"number">>
Bool == <<"bool">>
Seqs(kind) == <<"list", kind>>
Dto(shape) == <<"object", shape>>
Open(shape) == <<"open", shape>>    \* members that are not known are kept
Map(kind) == <<"map", kind>>
OneOf(names) == <<"enum", names>>
Untagged(first, second) == <<"untagged", first, second>>

Needed(kind) == [mode |-> "needed", kind |-> kind]
Option(kind) == [mode |-> "option", kind |-> kind]
Default(kind) == [mode |-> "default", kind |-> kind]

\* A field that is not there, or is the null of an Option.
Absent(object, name, field) ==
    IF name \in DOMAIN object THEN field.mode = "option" /\ object[name] = Null ELSE TRUE

\* Whether serde reads v as a kind without parts.
FitsFlat(v, kind) ==
    CASE kind[1] = "any" -> TRUE
      [] kind[1] \in {"text", "bool"} -> v[1] = kind[1]
      [] kind[1] = "number" -> v[1] \in {"number", "float"}
      [] kind[1] = "count" -> v[1] = "number" /\ v[2] \in 0..MaxU32
      [] kind[1] = "enum" -> v[1] = "text" /\ v[2] \in kind[2]

\* Of the two untagged kinds, the first without parts, the one serde reads v as.
Chosen(v, kind) ==
    IF kind[1] # "untagged" THEN kind ELSE IF FitsFlat(v, kind[2]) THEN kind[2] ELSE kind[3]

\* Kinds of a list or an object; where a value has parts, and of which kind.
HasParts(kind) == kind[1] \in {"list", "map", "object", "open"}
JsonTag(kind) == IF kind[1] = "list" THEN "list" ELSE "object"

Parts(v, kind) ==
    IF kind[1] \in {"list", "map"} THEN DOMAIN v[2]
    ELSE {name \in DOMAIN kind[2] : ~Absent(v[2], name, kind[2][name])}

PartKind(kind, place) ==
    IF kind[1] \in {"list", "map"} THEN kind[2] ELSE kind[2][place].kind

\* A needed value may be null, a missing one may not; unknown members are ignored.
NothingMissing(v, kind) ==
    kind[1] \in {"object", "open"} =>
        \A name \in DOMAIN kind[2] : kind[2][name].mode = "needed" => name \in DOMAIN v[2]

\* Whether serde reads v as any kind, Reads being whether it reads the parts.
FitsBy(Reads(_, _), v, kind) ==
    LET chosen == Chosen(v, kind) IN
    IF ~HasParts(chosen) THEN FitsFlat(v, chosen)
    ELSE /\ v[1] = JsonTag(chosen)
         /\ NothingMissing(v, chosen)
         /\ \A place \in Parts(v, chosen) : Reads(v[2][place], PartKind(chosen, place))

\* No kind of the contract has parts of parts more than eight deep.
Fits1(v, kind) == FitsBy(FitsFlat, v, kind)
Fits2(v, kind) == FitsBy(Fits1, v, kind)
Fits3(v, kind) == FitsBy(Fits2, v, kind)
Fits4(v, kind) == FitsBy(Fits3, v, kind)
Fits5(v, kind) == FitsBy(Fits4, v, kind)
Fits6(v, kind) == FitsBy(Fits5, v, kind)
Fits7(v, kind) == FitsBy(Fits6, v, kind)
Fits(v, kind) == FitsBy(Fits7, v, kind)

DefaultOf(kind) ==
    CASE kind[1] = "list" -> ListOf(<<>>)
      [] kind[1] = "text" -> Text("")
      [] kind[1] = "bool" -> <<"bool", FALSE>>
      [] OTHER -> Object(Empty)

\* The members that are kept of an object: those of the shape that are there or
\* have a default, and in an open one the unknown ones.
Unknown(v, kind) == IF kind[1] = "open" THEN DOMAIN v[2] \ DOMAIN kind[2] ELSE {}
Known(v, kind) ==
    {name \in DOMAIN kind[2] :
        Absent(v[2], name, kind[2][name]) => kind[2][name].mode = "default"}

MembersRead(v, kind) ==
    IF kind[1] \in {"list", "map"} THEN DOMAIN v[2] ELSE Unknown(v, kind) \cup Known(v, kind)

\* What is read of a value, Part being what is read of its parts.
CleanedBy(Part(_, _), v, kind) ==
    LET chosen == Chosen(v, kind) IN
    IF ~HasParts(chosen) THEN v
    ELSE <<JsonTag(chosen), [place \in MembersRead(v, chosen) |->
              IF place \in Parts(v, chosen) THEN Part(v[2][place], PartKind(chosen, place))
              ELSE IF place \in DOMAIN v[2] THEN v[2][place]
              ELSE DefaultOf(PartKind(chosen, place))]>>

AsIs(v, kind) == v
Cleaned1(v, kind) == CleanedBy(AsIs, v, kind)
Cleaned2(v, kind) == CleanedBy(Cleaned1, v, kind)
Cleaned3(v, kind) == CleanedBy(Cleaned2, v, kind)
Cleaned4(v, kind) == CleanedBy(Cleaned3, v, kind)
Cleaned5(v, kind) == CleanedBy(Cleaned4, v, kind)
Cleaned6(v, kind) == CleanedBy(Cleaned5, v, kind)
Cleaned7(v, kind) == CleanedBy(Cleaned6, v, kind)
Cleaned(v, kind) == CleanedBy(Cleaned7, v, kind)

\* parse: the members of an object read as the shape, or None.
Parse(json, shape) == IF Fits(json, Dto(shape)) THEN Cleaned(json, Dto(shape))[2] ELSE None

-----------------------------------------------------------------------------
(* Assets and values *)

\* asset_or_pair: an AssetOrPair, or None; other members are ignored.
AssetOrPair(v) ==
    CASE v[1] = "text" -> <<v[2]>>
      [] v[1] = "object" ->
            IF {"from", "to"} \subseteq DOMAIN v[2]
            THEN IF v[2].from[1] = "text" /\ v[2].to[1] = "text"
                 THEN <<v[2].from[2], v[2].to[2]>> ELSE None
            ELSE None
      [] OTHER -> None

\* value_string: a number is written in decimal.
ValueString(v) ==
    CASE v[1] \in {"text", "float"} -> Text(v[2])
      [] v[1] = "number" -> Text(ToString(v[2]))
      [] OTHER -> None

\* A request with its asset read, or None.
ReadAsset(r) ==
    IF AssetOrPair(r.asset) = None THEN None ELSE [r EXCEPT !.asset = AssetOrPair(@)]

PaginationDto == Dto([limit |-> Option(Count), offset |-> Option(Count)])

-----------------------------------------------------------------------------
(* Transfers *)

SourceDto == Dto([location |-> Needed(Str), source |-> Option(AnyJson)])

DestinationDto ==
    Dto([location |-> Needed(Str), recipient |-> Option(AnyJson),
         depositMessage |-> Option(Str)])

TransferReqDto ==
    [asset |-> Needed(AnyJson), from |-> Needed(SourceDto), to |-> Needed(DestinationDto),
     value |-> Needed(AnyJson), allowedRails |-> Default(Seqs(Str))]

TransferRequest(dto) ==
    IF ValueString(dto.value) = None THEN None
    ELSE ReadAsset([dto EXCEPT !.value = ValueString(@)])

ExecuteReqDto == [id |-> Needed(Str), instruction |-> Needed(AnyJson)]

\* The id of a request is no JSON value.
ExecuteRequest(dto) == [id |-> dto.id[2], instruction |-> dto.instruction]

-----------------------------------------------------------------------------
(* Persistent forwarding *)

InitiateTemplateDto == [asset |-> Needed(AnyJson), location |-> Needed(Str)]

CreateTemplateDto ==
    [asset |-> Option(AnyJson), location |-> Option(Str), address |-> Option(AnyJson),
     id |-> Option(Str), data |-> Option(AnyJson)]

\* Data makes it a completion, whatever else is there.
CreateTemplateRequest(dto) ==
    CASE "data" \in DOMAIN dto -> Only(dto, {"id", "data"})
      [] "data" \notin DOMAIN dto /\ {"asset", "location", "address"} \subseteq DOMAIN dto ->
            ReadAsset(Without(dto, {"id"}))
      [] OTHER -> None

ListTemplatesDto == [asset |-> Option(Seqs(Str)), location |-> Option(Seqs(Str))]

CreateAddressDto ==
    [sourceLocation |-> Needed(Str), asset |-> Needed(AnyJson), outgoingRail |-> Option(Str),
     incomingRail |-> Option(Str), destinationLocation |-> Option(Str),
     destinationAddress |-> Option(AnyJson), persistentAddressTemplateId |-> Option(Str)]

\* A location and an address go before a template.
CreateAddressRequest(dto) ==
    CASE {"destinationLocation", "destinationAddress"} \subseteq DOMAIN dto ->
            ReadAsset(Without(dto, {"persistentAddressTemplateId"}))
      [] ~({"destinationLocation", "destinationAddress"} \subseteq DOMAIN dto)
           /\ "persistentAddressTemplateId" \in DOMAIN dto ->
            ReadAsset(Without(dto, {"destinationLocation", "destinationAddress"}))
      [] OTHER -> None

-----------------------------------------------------------------------------
(* Lists *)

AddressFilterDto ==
    Dto([sourceLocation |-> Option(Str), destinationLocation |-> Option(Str),
         asset |-> Option(AnyJson), destinationAddress |-> Option(Str),
         persistentAddressTemplateId |-> Option(Str)])

ListAddressesDto ==
    [search |-> Option(Seqs(AddressFilterDto)), pagination |-> Default(PaginationDto)]

\* ForwardingAddressFilter::try_from
AddressFilter(filter) == IF "asset" \in DOMAIN filter THEN ReadAsset(filter) ELSE filter

ListAddressesRequest(dto) ==
    IF "search" \notin DOMAIN dto THEN dto
    ELSE LET filters == [i \in DOMAIN dto.search[2] |-> AddressFilter(dto.search[2][i][2])]
         IN  IF \E i \in DOMAIN filters : filters[i] = None THEN None
             ELSE [dto EXCEPT !.search = filters]

PersistentAddressFilterDto ==
    Dto([location |-> Needed(Str), persistentAddress |-> Option(Str),
         persistentAddressTemplate |-> Option(Str)])

EndpointFilterDto ==
    Dto([location |-> Needed(Str), userAddress |-> Option(Str), asset |-> Option(Str)])

TransactionRefDto == Dto([location |-> Needed(Str), transaction |-> Needed(AnyJson)])

ListTransactionsDto ==
    [persistentAddresses |-> Option(Seqs(PersistentAddressFilterDto)),
     from |-> Option(EndpointFilterDto), to |-> Option(EndpointFilterDto),
     transactions |-> Option(Seqs(TransactionRefDto)), pagination |-> Default(PaginationDto)]

ShareKycDto == [attributes |-> Needed(Str), tosAgreement |-> Option(AnyJson)]

-----------------------------------------------------------------------------
(* All requests *)

\* The shape of an operation's argument; the others take an id or nothing.
Shape(operation) ==
    CASE operation \in {"simulateTransfer", "initiateTransfer"} -> TransferReqDto
      [] operation = "executeTransfer" -> ExecuteReqDto
      [] operation = "initiatePersistentForwardingTemplate" -> InitiateTemplateDto
      [] operation = "createPersistentForwardingTemplate" -> CreateTemplateDto
      [] operation = "listPersistentForwardingTemplate" -> ListTemplatesDto
      [] operation = "createPersistentForwarding" -> CreateAddressDto
      [] operation = "listPersistentForwarding" -> ListAddressesDto
      [] operation = "listTransactions" -> ListTransactionsDto
      [] operation = "shareKYC" -> ShareKycDto

\* into_core
IntoCore(operation, dto) ==
    CASE operation \in {"simulateTransfer", "initiateTransfer"} -> TransferRequest(dto)
      [] operation = "executeTransfer" -> ExecuteRequest(dto)
      [] operation = "initiatePersistentForwardingTemplate" -> ReadAsset(dto)
      [] operation = "createPersistentForwardingTemplate" -> CreateTemplateRequest(dto)
      [] operation = "createPersistentForwarding" -> CreateAddressRequest(dto)
      [] operation = "listPersistentForwarding" -> ListAddressesRequest(dto)
      [] operation \in {"listPersistentForwardingTemplate", "listTransactions", "shareKYC"} ->
            dto

TakesId == {"getTransferStatus", "deactivatePersistentForwardingTemplate",
            "deactivatePersistentForwarding"}

\* The request an argument stands for, or None.
Request(operation, argument) ==
    CASE operation \in TakesId -> [id |-> argument]
      [] operation = "getAccountStatus" -> Empty
      [] OTHER ->
            LET dto == Parse(argument, Shape(operation))
            IN  IF dto = None THEN None ELSE IntoCore(operation, dto)

-----------------------------------------------------------------------------
(* Providers *)

Opaque(v) == <<"opaque", v>>

AuthDto == OneOf({"none", "optional", "required"})
EndpointDto == Dto([url |-> Needed(Str), auth |-> Needed(AuthDto)])

ProviderDto ==
    [id |-> Needed(Str), operations |-> Needed(Map(EndpointDto)),
     supportedAssets |-> Default(Seqs(AnyJson)), legal |-> Option(AnyJson),
     account |-> Option(Str)]

\* Mutant: what an operation asks for does not go out to the host.
EncodeUnauthenticated(info) ==
    Object([id |-> Text(info.id),
            operations |-> Object([name \in DOMAIN info.operations |->
                Object([url |-> Text(info.operations[name].url), auth |-> Text("none")])]),
            supportedAssets |-> ListOf(<<Opaque(info.supported)>>)])

\* encode_provider with From<AssetMovementProviderInfo>: the Options that are
\* None are left out.
EncodeProvider(info) ==
    Object([name \in {"id", "operations", "supportedAssets"}
                     \cup (IF info.legal = None THEN {} ELSE {"legal"})
                     \cup (IF info.account = None THEN {} ELSE {"account"}) |->
        CASE name = "id" -> Text(info.id)
          [] name = "operations" ->
                Object([op \in DOMAIN info.operations |->
                    Object([url |-> Text(info.operations[op].url),
                            auth |-> Text(info.operations[op].auth)])])
          [] name = "supportedAssets" -> ListOf(<<Opaque(info.supported)>>)
          [] name = "legal" -> info.legal
          [] name = "account" -> Text(info.account)])

\* parse_provider with From<ProviderDto>, as far as calls use it: the
\* operations, or None.
ParseProvider(json) ==
    LET dto == Parse(json, ProviderDto) IN
    IF dto = None THEN None
    ELSE [id |-> dto.id[2],
          account |-> IF "account" \in DOMAIN dto THEN dto.account[2] ELSE None,
          operations |-> [op \in DOMAIN dto.operations[2] |->
              [url |-> dto.operations[2][op][2].url[2],
               auth |-> dto.operations[2][op][2].auth[2]]]]

\* filter_providers, with accepts: whether it keeps a provider.
FilterKeeps(filter, info) ==
    /\ filter.id = None \/ filter.id = info.id
    /\ filter.account = None \/ filter.account = info.account

-----------------------------------------------------------------------------
(* Searches *)

ProviderSearchDto ==
    [asset |-> Option(AnyJson), from |-> Option(Str), to |-> Option(Str),
     inboundRails |-> Default(Seqs(Str)), outboundRails |-> Default(Seqs(Str))]

Names(list) == {list[2][i][2] : i \in DOMAIN list[2]}
TextOrNone(dto, name) == IF name \in DOMAIN dto THEN dto[name][2] ELSE None

\* parse_provider_search, or None.
ParseSearch(json) ==
    LET dto == Parse(json, ProviderSearchDto)
        asset == IF "asset" \in DOMAIN dto THEN AssetOrPair(dto.asset) ELSE <<>>
    IN  IF dto = None THEN None
        ELSE IF asset = None THEN None
        ELSE [asset |-> asset, from |-> TextOrNone(dto, "from"), to |-> TextOrNone(dto, "to"),
              inbound |-> Names(dto.inboundRails), outbound |-> Names(dto.outboundRails)]
=============================================================================
