--------------------------- MODULE ProviderSearch ---------------------------
(***************************************************************************)
(* What an asset-movement provider publishes and how a client reads it     *)
(* (services/asset_movement/metadata.rs, asset.rs): the endpoints of its   *)
(* operations with their authentication, and the search for a provider     *)
(* that can move an asset between two locations over given rails.          *)
(*                                                                         *)
(* An asset is a pair or triple whose first member is its kind; the third  *)
(* member of an "evm" asset is the casing of its address, which is         *)
(* "checksum" in the canonical form.  An AssetOrPair is a sequence of one  *)
(* or two assets, and the empty sequence for none.                         *)
(***************************************************************************)
EXTENDS Sequences

CONSTANT None       \* the absent Option

\* canonicalize_asset with eip55_checksum.
Canonical(asset) == IF asset[1] = "evm" THEN [asset EXCEPT ![3] = "checksum"] ELSE asset

-----------------------------------------------------------------------------
(* Operations: a published endpoint is <<"bare", url>>, an object            *)
(* <<"object", url, authentication type>>, or <<"other">>                    *)

Url(published) == IF published[1] = "other" THEN None ELSE published[2]

\* parse_endpoint with auth_override and parse_auth_type: an unknown type asks
\* for nothing.
Auth(name, published) ==
    CASE name = "getAccountStatus" -> "required"
      [] name # "getAccountStatus" /\ published[1] = "object"
           /\ published[3] \in {"required", "optional"} -> published[3]
      [] OTHER -> "none"

\* AssetMovementOperations::from_entry: endpoints without a URL are skipped.
Operations(published) ==
    [name \in {n \in DOMAIN published : Url(published[n]) # None} |->
        [url |-> Url(published[name]), auth |-> Auth(name, published[name])]]

\* EndpointAuth::signs
SignsFor(auth) == auth \in {"optional", "required"}

\* AssetMovementProviderInfo::from_entry
Info(id, entry) ==
    [id |-> id, operations |-> Operations(entry.operations),
     supported |-> entry.supported, legal |-> entry.legal, account |-> entry.account]

\* ProviderFilter::accepts; a filter that is None in both accepts all.
FilterAccepts(filter, info) ==
    /\ filter.id \in {None, info.id}
    /\ filter.account \in {None, info.account}

-----------------------------------------------------------------------------
(* ProviderSearch: a path is the sequence of its endpoints, a supported      *)
(* asset the set of its paths                                                *)

\* endpoint_asset_id
EndpointAsset(endpoint) ==
    IF endpoint.id = None THEN None ELSE Canonical(endpoint.id)

\* asset_matches: a single asset is looked for at both ends.
AssetMatches(asset, source, dest) ==
    CASE Len(asset) = 0 -> TRUE
      [] Len(asset) = 1 ->
            Canonical(asset[1]) \in {EndpointAsset(source), EndpointAsset(dest)}
      [] Len(asset) = 2 ->
            /\ EndpointAsset(source) = Canonical(asset[1])
            /\ EndpointAsset(dest) = Canonical(asset[2])

LocationMatches(wanted, endpoint) == wanted \in {None, endpoint.location}

\* endpoint_rails, with rail_names: entries without a name are not there.
EndpointRails(endpoint, direction) ==
    endpoint.rails[direction] \cup endpoint.rails.common

RailPoolMatches(wanted, pool) == wanted = {} \/ wanted \cap pool # {}

\* rails_orientation_matches
RailsMatch(search, source, dest) ==
    LET inbound == EndpointRails(source, "inbound")
        outbound == EndpointRails(dest, "outbound")
    IN  /\ inbound \cup outbound # {}
        /\ RailPoolMatches(search.inbound, inbound)
        /\ RailPoolMatches(search.outbound, outbound)

\* orientation_matches
OrientationMatches(search, source, dest) ==
    /\ AssetMatches(search.asset, source, dest)
    /\ LocationMatches(search.from, source)
    /\ LocationMatches(search.to, dest)
    /\ RailsMatch(search, source, dest)

\* path_matches: a path has two endpoints and leads both ways.
PathMatches(search, path) ==
    IF Len(path) = 2
    THEN \/ OrientationMatches(search, path[1], path[2])
         \/ OrientationMatches(search, path[2], path[1])
    ELSE FALSE

\* ProviderSearch::accepts with entry_matches
Accepts(search, info) ==
    \E paths \in info.supported : \E path \in paths : PathMatches(search, path)
=============================================================================
