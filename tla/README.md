# A verification development for anchor-rs

TLA+ models of the parts of `anchor-rs` that keep state over several calls, with
TLC configurations that check them on small instances and TLAPS proofs of what
matters most for every value of the constants. Paths below are relative to the
root of the repository.

- [The system](#the-system): components, state, interactions, hard behaviour
- [The modules](#the-modules): what each models and how it maps to the code
- [The runs](#the-runs): what is checked, bounds, fairness
- [The proofs](#the-proofs)
- [What the code does that its documentation does not say](#disagreements-and-remarks)
- [What is not modelled](#what-is-not-modelled)
- [Plan](#plan)

`PROJECT.json` lists the same facts in a form for tools: components, runs, one
plausible bug per property that the property detects, the lines each definition
models, hazards and theorems.

## The system

anchor-rs is a client library for KeetaNet anchors: services that move assets or
verify customers. A client resolves which providers exist from metadata that root
accounts publish on the network, calls a provider with signed requests over HTTP,
and exchanges customer data in encrypted containers. Four crates build it up:
`keetanetwork-anchor` (data and cryptography), `keetanetwork-anchor-client`
(resolver, HTTP, services), `keetanetwork-anchor-bindings` (facades for foreign
code) and `keetanetwork-anchor-client-wasi` (the WASI module and its C# host).

| Component | State | Operations | Works with | Hard behaviour | What makes it correct |
|---|---|---|---|---|---|
| Encrypted container, `keetanetwork-anchor/src/encrypted_container` | principals, plaintext and encoded form (each a cache of the other), parsed signature, signer | from_plaintext, from_encoded, from_encrypted, set_plaintext, disable_plaintext, get_plaintext, get_encoded, grant_access, revoke_access, verify_signature, signing_account | containers elsewhere, through blobs | stale caches, a failing step in a method, long chains of open, change, export | an export holds the current content for exactly the current principals; content is never lost; revocation is effective |
| Sharable attributes, `.../sharable_attributes` | a container and the validated attributes (computed on first access) | from_certificate, from_encoded, grant_access, revoke_access, export, attribute access, reference blobs | container, certificate, external blobs | contents written by other implementations; the throw-away account of a new bundle; the cache of attributes | only values of the certificate are shown; recipients can read what was collected; nothing leaves in the clear |
| Certificates and sensitive attributes, `.../certificates`, `.../sensitive_attributes` | the builder's attributes and its remembered errors | with_attribute, build, get and decrypt an attribute, to_proof, validate_proof, external_references | KYC schema, sharable attributes | names with two identifiers, attributes put twice, errors met in the middle of a chain of calls, proofs carried to other certificates | a certificate reads as what was put last; a proof binds one attribute of one certificate |
| KYC schema, `.../kyc_schema` | none | encode and decode a value, find references | certificates | fallbacks for documents that do not fit, choices with overlapping tags | a round trip, references that survive it |
| Signing, `.../signing` | none | sign, verify, signature parameters of URLs and bodies | service calls, resolver | clock skew, parameters of a URL's own, canonical forms | verification of what was signed, within the window |
| Trust, `.../trust`, `keetanetwork-anchor-client/src/trust.rs` | none | evaluate a chain, evaluate what an account published | certificates, the ledger | records that do not parse, several chains, cross-signing | no trust without a chain to a root; a trusted issuer stays trusted |
| Resilience, `keetanetwork-anchor-client/src/resilience` | token bucket, per-call attempt and budget | get, post, try_take, available | every HTTP request | concurrent callers with stale clock readings, retries against a budget, Retry-After | rate bound; every call returns; hints are kept; one late request at most |
| Resolver, `.../resolver` | none between lookups; a document and a stack of paths within one | lookup, read, expand | network accounts, HTTP, signing | cyclic and shared references, failing reads, priority of roots | the right expansion; a higher root decides an id |
| Service calls, `.../service` | signer, transport | invoke, send | signing, resilience, services | lost and late copies, signatures that age, classification of pending, failed and blocked answers | carried out for the signer and fresh; the outcome is what the service meant; every call returns |
| Asset movement, `.../services/asset_movement` | the provider a caller keeps; per call: the elapsed time of a poll | search, transfers, forwarding, deactivation, history, status, share and wait | service calls, resolver, bindings | what a signature covers, partly readable metadata, the provider's round trip through a host, polling against a deadline while the provider settles | the right provider; requests where and signed as advertised; the outcome reported is the provider's; a bounded number of polls |
| KYC, `.../services/kyc.rs` | the provider a caller keeps | search by country, supported countries, create verification, get certificates, get status | service calls, resolver, bindings | one bad country or endpoint in an entry, pending answers | as asset movement |
| Fetching of references, `.../sharable.rs` | the blobs fetched so far | fetch_external_blobs, sharable_with_references | sharable attributes, HTTP | one of several that fails, two encodings of the answer | all blobs reach the bundle, or there is none |
| Handle registry, `keetanetwork-anchor-bindings/src/registry.rs` | counter, table | store, with, with_mut, remove | every object foreign code holds | stale handles, the counter wrapping around | a handle never names another live object |
| WASI modules and C# host, `keetanetwork-anchor-client-wasi` | handle tables, argument and result buffers, last error, one pending response; wrappers and their flags | exported functions; host fetch, take, sleep; methods and disposal of wrappers | client crates, handle registry | the two-step exchange, two-step errors, thread confinement, ownership of buffers, disposal | a call returns its own answer or its own error; buffers are given back; a wrapper keeps its object |

Calls go down the table of layers: a service client resolves its provider, forms a
`Call`, the caller signs it and hands it to an `AnchorHttpTransport`, which is
usually a `ResilientTransport` around the real one. A host in a foreign language
does the same through one of two bindings, preview 1 (handles and JSON) or preview 2
(resources and typed records), and keeps the provider itself between two calls. The only state shared by
concurrent tasks is the token bucket, behind a lock that is never held over an
await. Containers and bundles are values with one owner (`&mut self`); they meet
only through the blobs they hand out.

## The modules

| Module | Source | Composes |
|---|---|---|
| `AccessDocument` | what a container promises: a document, its readers, its exports | |
| `EncryptedContainer` | `encrypted_container/mod.rs`, `codec.rs` | implements `AccessDocument` |
| `SharableAttributes` | `sharable_attributes/mod.rs`, `contents.rs`, the client's `sharable.rs` | extends `EncryptedContainer` |
| `TokenBucket` | `resilience/rate_limit.rs` with the clock reading of `transport.rs` | |
| `Resilience` | `resilience/transport.rs`, `retry.rs`, `backoff.rs`, `error.rs` | extends `TokenBucket` |
| `ServiceCalls` | `service/endpoint.rs`, `caller.rs`, `envelope.rs`, `signing/mod.rs`, `request.rs`, the calls of `services/kyc.rs` | extends `Resilience` |
| `Results` | the `Result` of the codec's and the certificates' functions | |
| `KycSchema` | `kyc_schema/codec.rs`, `iso20022_engine.rs`, `references.rs` | extends `Results` |
| `TrustChain` | `trust/mod.rs`, the client's `trust.rs` | |
| `KycCertificate` | `certificates/builder.rs`, `certificates/mod.rs`, `sensitive_attributes/*.rs` | extends `Results`, `TrustChain`; its codec is a parameter, which `MCKycCertificate` gives as `KycSchema` |
| `PromisePoll` | `services/asset_movement/client.rs`, `service/envelope.rs` | |
| `MetadataExpansion` | `resolve_external_urls` in `resolver/mod.rs`, `decode.rs`, `read.rs` | |
| `Resolver` | `lookup` in `resolver/mod.rs` | its documents are what `MetadataExpansion` leaves |
| `ProviderSearch` | `services/asset_movement/metadata.rs`, `asset.rs` | |
| `AssetRequests` | `services/asset_movement/request.rs` | extends `ProviderSearch`; which objects have a canonical text is a parameter, which `MCAnchorClients` gives as `CanonicalJson` |
| `CanonicalJson` | `signing/canonical.rs` | |
| `AssetJson` | `asset_json.rs` of the WASI crate | extends `AssetRequests` |
| `AssetOutcomes` | `services/asset_movement/response.rs`, `error.rs`, `service/envelope.rs`, `error.rs` | extends `AssetJson` |
| `AssetMovement` | `services/asset_movement/client.rs`, `p1/asset_movement.rs`, `p2/asset_movement.rs` | extends `Resolver`, `AssetOutcomes` |
| `KycService` | `resolver/metadata.rs`, `services/kyc.rs`, the JSON of `p1/kyc.rs`, `p2/kyc.rs` | extends `AssetOutcomes` |
| `AnchorClients` | `services/kyc.rs`, the exports of `p1/kyc.rs`, `p2/kyc.rs` | extends `AssetMovement`, `KycService` |
| `HandleRegistry` | `keetanetwork-anchor-bindings/src/registry.rs` | |
| `WasmHost` | `p1/*.rs` of the WASI crate, the C# `WasmRuntime` and its wrappers | extends `HandleRegistry` |

`MC...` modules fix the small instance of a run; `...Proofs` modules hold the
theorems.

**EncryptedContainer.** One live container and the pool `published` of all blobs
handed out. Running a constructor replaces the live container, so one behaviour
covers the sender that seals a payload, each holder that opens one of the blobs
with the accounts it has, and everything they do afterwards. Each public method is
one action, with its order of steps: `ChangeAccess` computes the plaintext, checks
that access is managed, edits the list and drops the encoding, and fails in between
as the code does. `VerifySignature` keeps the order of copying the signature and
parsing the encoding. `principals` maps a key to the best access an entry of the
list has, because decryption tries every entry and revocation removes them all. A
blob names the keys its body key is wrapped to, the body key, the payload and the
signature; DER, zlib and AES are left out. Body keys are drawn fresh
(`CipherMaterial::random`), and whoever was ever given one is taken to keep it:
`Openers` is the set of keys that open a blob with all they learnt.

**AccessDocument.** No caches and no keys: a payload, a set of readers, exports that
record both. `EncryptedContainer!Document` maps the container to it: the content is
whichever form is there, the readers are the principals.

**SharableAttributes.** The payload of the container is a map from attribute names
to entries: flag, plain or proof, value, inlined reference. Values are told apart as
the certificate's bytes, what they decrypt to, and anything else. `FromCertificate`
seals to the throw-away account, opens, and revokes that account, as the code does,
and fails where the code can. `SharableWithReferences` fetches the blobs of the names
first, from a `data:` URL or from an answer, plain or in the wrapper of the storage
service; a fetch that fails ends it. Its URLs and answers are any of `Web`. `supplied`
remembers whose blob was there when the bundle was built. `Foreign` are containers of other implementations, in
circulation from the start, with contents this code never writes.

**TokenBucket.** Callers read the clock and lock later, with anything happening in
between, so `Granted` and `Withheld` may run with a stale `reading`. Time is in
milliseconds, tokens are `Unit` millitokens. `grants` is a history variable.

**Resilience.** Each caller makes one call: acquire (read, take or wait, again after
the wait), the first request, and the loop of `RetryPolicy::run`. Answers take any
time, sleeps may end late, and a jittered delay is any value `Jitter::apply` can
return. A
transient answer may carry a Retry-After. A call that is not rate limited starts at
`admitted`.

**ServiceCalls.** Each caller makes one call with an account of its own: the template
of the endpoint is filled or the call fails locally (`FailLocally`), the request is
signed once (`Invoke`), then the steps of `Resilience` throttle, send and resend it.
`wire` holds every copy that was sent and not yet lost or carried out, also of
attempts the client gave up: `Serve` carries out a copy the service verified,
`Refuse` refuses one, in any order and at any time. `Classify` decodes the last answer.
Client and service read one clock, so the window of a signature is about waiting.

**KycSchema.** The codec and the engine as operators over tagged tuples: `EncodeSchema`
and `DecodeSchema` follow the schema with its choices, optional and untagged fields,
`EncodeValue` and `DecodeValue` the fallbacks of the codec. Schemas keep the fields
that can be confused. `References` walks a value for references to blobs.

**TrustChain.** `EvaluateCertificateChain` over every chain the X.509 library may build
(`ChainEnds`, a function on certificates and the intermediates left); the operators
yield the set of verdicts. `Publish` adds a record of an account.

**KycCertificate.** One builder with its attributes and remembered errors, the
certificates there are (built here, or `Foreign`), the proofs made of them and the
records an account published. `WithAttribute` and `Build` are the builder's steps;
reading is operators, evaluated in every state by the properties. A hash is the tuple
of what is hashed, and what is encrypted carries its key. The codec is given by constant
operators (`Encode`, `Decode`, `ReferencesIn` and what values mean: `Accepts`, `Reads`,
`Mentions`), so that what is proved of certificates holds for every codec; the run
instantiates them with `KycSchema`.

**AssetMovement, AnchorClients.** One session of a client, of KYC providers or of asset
movement. `Ask` starts a lookup of a Rust caller or of a host, the steps of `Resolver`
read the roots and merge them, with the verdicts of `EntrySigned` and of the query
computed from what the entries say, `Bind` lets the host keep one provider as JSON
(`Restore`: one it had kept from before), and each call reads that JSON again, reads
its own arguments, and gives an error or sends a request (`log`). `Answer` decodes a
response and hands it on in the terms of the binding. `ProviderSearch` is the search,
`AssetRequests` the fields of each request and what its signature covers,
`AssetJson` how serde reads and writes the texts of a host, `AssetOutcomes` the results,
blockers and error codes; `KycService` the same for KYC. JSON values are tagged tuples;
a reader follows the kinds of the contract, which nest at most eight deep (`Fits`,
`Cleaned`), and only `CanonicalJson` walks JSON of any depth. What a lookup finds is
compared with definitions of their own (`WellFormed`, `ServesCountry`, `ServedBy`,
`Genuine`, `Wanted`), which say what the readers and filters decide without their steps;
what a message must tell its provider is `Essence`. One transport call stands for a call
here; its retries are in `ServiceCalls`.

**PromisePoll.** The call, the provider that settles or fails a share at any time,
and a gateway that may answer for it. `Response` has what the client looks at: the
status class, the hints of body and header, `ok: false`, a blocker code, what the
body decodes to. `Pass` lets time go by during a request and during a pause.

**MetadataExpansion.** A document is a function from paths to nodes, `pending` the
stack of visits, each with the URLs above it. `Graft` is `set_at`. What a URL serves
is fixed for one expansion. `Expansion` is the recursive definition the result is
compared with.

**Resolver.** Reading the roots in turn, then the merge over the documents in
priority order. A document is chosen when it is read. Entries carry two verdicts:
of their signature and of the query.

**HandleRegistry.** `Fresh` describes where the loop of `store` stops, as the first
free handle in counting order; `metSince` is history. Foreign code presents any
integer.

**WasmHost.** Each thread makes one call at a time: arguments are written one by one
(`WriteText` checks the thread, `WriteBytes` does not), the export is invoked, works on
the object behind a handle, fetches and takes if it is networked, and answers or fails;
the host then takes the result or reads code and message of the error, and frees the
arguments whatever happened (`Unwind`). Wrappers are disposed of at any time, also by
other threads; a second time does nothing; so is the runtime. One table stands for all
tables of the module, and the value behind a handle is the wrapper it was made for.
Responses, errors and their tags are identified by thread, relative to the calls in
progress (`Aged`), which keeps the model finite. A buffer of the module is named by the
thread whose call it serves and its place there (`allocated`). Allocating, registering
and filling a buffer is one step with an outcome for each place where the code throws:
nothing is allocated (`NotAllocated`), `Write` has registered the buffer when the copy
throws (`CopyThrows`), `WriteBytes` has not (`CopyThrowsUnregistered`). The buffer is
then in no list; one `Stranded` stands for any number of them, until the runtime goes.
Reading a byte result may throw as well, and frees it all the same. A constructor with
one further object stands for all exports that take handles as arguments. The runtime is
not disposed of while an export runs in it.

## The runs

| Run | Question | Bounds | Distinct states |
|---|---|---|---|
| `container` | caches, access, revocation, signatures, and the refinement of `AccessDocument` | 2 keys, 2 payloads, 2 body keys, 2 published blobs | 149 k |
| `container_stale_verdict` | is a `false` of verify_signature always about the current encoding? (no) | as above | |
| `container_signature_lost` | does a signature survive re-encryption? (no) | as above | |
| `sharable_attributes` | bundles from their creation, with and without fetching, to reading elsewhere, next to foreign containers | 2 users, the throw-away key, 3 names, 5 body keys, 13 answers of the web | 35 k |
| `resilience` | the bucket under stale readings; retries, budget, hints, tokens; every call returns | 2 callers, capacity 1, refill 2/3 token per ms, budget 3 ms, 2 retries, 7 ms | 774 k |
| `service_calls` | calls over retries, a network that loses and delays copies, and a service that verifies each; every call returns although no token is refilled | 2 callers with an account each, 1 token, 1 retry, a window of 1 ms, 4 ms | 180 k |
| `kyc_certificate` | what a subject reads, proves and finds referred to; who is trusted | 6 names, 3 keys, 3 inputs, 1 proof | 180 k |
| `promise_poll` | when the client polls, gives up and what it reports | all intervals 0..5 and timeouts 0..4, hints 0, 2, 5, counter up to 5 | 66 k |
| `metadata_expansion` | the expansion, its termination | 2 URLs, 2 keys, everything they can serve | 47 k |
| `anchor_clients` | who is found, what is sent where under which signature, what the host gets | 2 roots, 2 ids, a handful of entries of each service, 2 calls for a provider, every operation, both bindings | 253 k |
| `wasm_host` | calls of a host from two threads: whose answer, whose error, whose buffer, whose object | 2 threads, 2 wrappers, 2 handles, 1 argument per call | 2.6 M |
| `wasm_confined` | do other threads' arguments stay out of the module? (no) | as above | |

*Why the bounds are enough.* Two body keys let a container be encoded, changed and
encoded again, which is what a stale cache or a reused key needs to show; two
published blobs, that one is opened while another exists; two keys, that one stays
while the other is revoked. The budget of three milliseconds against
delays of one and two makes budget, schedule and hint each the shortest in some
behaviour. In `promise_poll` every sum that leaves the counter's width does occur. Two URLs
make circles of one and of two, and references shared by siblings. Two roots and
two ids are enough for an entry that is hidden by a bad one of the same id above it, and
two calls for a pair of requests one signature might serve; the entries, requests and
answers of `anchor_clients` are chosen so that each early return of the code is taken.
One retry and a window of one millisecond let a copy arrive fresh, late, and after its
successor. Bounds that do not
come from the code (`MaxPublished`, `MaxTime`, `StartBy`, `MaxSends`, `MaxPolls`, `MaxCalls`, `MaxInputs`, `MaxProofs`) are
commented where they are declared. `MaxPolls` cuts no behaviour where the interval
counts: a poll needs at least a millisecond of the timeout (`PollsAreBounded`, proved),
so five polls is the most there can be. Two handles make the counter of `wasm_host`
come around all the time, and an object that was never released use one up; three
give the same answer over 23 million states.

*Deadlock.* Where a run turns the deadlock check off, the modelled call ends by
returning (polls, lookups, expansions, calls) or a bounded clock stops (buckets).

*Fairness.* `Resilience` assumes that time passes, that the executor polls a task
whose sleep is over or which is ready (weak fairness of `Proceed`), and that each
request is answered or fails, since the wrapped transport has its own timeouts
(`Answer`). It assumes nothing of the order in which callers take tokens; that a
waiting caller is not starved follows from the finitely many calls of the instance.
`ServiceCalls` (`CallSpec`) assumes the same and nothing of the network or the service:
a copy may be lost, and the transport then reports a failure (`Disconnect`).
`PromisePoll` assumes the same of requests, pauses and time, and nothing of the
provider, which may work on for ever. `MetadataExpansion` assumes that every read is
answered or fails. The other modules have no liveness.

*Properties.* Every property of a passing run is broken by a plausible bug in the
modelled code; these are the definitions commented `Mutant` in the modules. In the
order of the hazards they are about:

- a stale cache published after a change: `OnlyPrincipalsOpen`, `ImplementsDocument`
  and `Coherent` in `IInv`; a failing step losing content: `Recoverable` in `IInv`; a
  reused body key: `SealedForGood`; a verdict about other content: `ValidIsAuthentic`;
- a bundle that shows what the certificate does not say, or a cache of attributes that
  is not the payload: `ShownIsCertified`; one its recipient cannot use, or that lost a
  fetched blob: `RecipientsRead`; one that leaves open or open to the throw-away
  account: `NeverInTheClear`; steps no document takes: `StepsOfDocument`;
- a certificate that reads otherwise than it was built: `ReadsWhatWasCertified`; a proof
  good for something else: `ProofBinds`; a reference lost in a fallback:
  `ReferencesSurvive`; trust without an anchor: `TrustedIsAnchored`;
- time credited twice by stale readings: `WindowBound`; a wrong wait: `WaitIsExact`;
  budget against retries: `OneLateSend`, `HintOrDeadline`, `GivesUpWhenSpent`; the
  limiter: `TokenPerCall`; progress: `EveryCallReturns`;
- a copy that arrives late or twice: `FreshAndAsSigner`, `CopiesShareNonce`; an honest
  request refused: `RefusedOnlyWhenStale`; an outcome that is not the last answer's:
  `OutcomeIsMeant`; progress: `EveryInvokeReturns`;
- a provider of the wrong root, or one missed: `FoundByHighestRoot`; a signature good
  for two requests: `SignedAlike`; an endpoint or its authentication lost on the way
  through a host: `AsAdvertised`; an answer misread: `OutcomeIsMeant`;
- the poll: `OutcomeIsHonest`, `GivesUpWhenSpent`, `EveryShareReturns`;
- references: `ExpandedRight`, its invariant `ExpansionInv`, `Terminates`;
- handles: `ReusedLast`; somebody else's object, response or error: `ReturnsOwn`;
  buffers kept, or freed twice, after a refusal or a failure: `BuffersOwned`, which leaves
  out only those whose copy throws in `WriteBytes` (see the remarks).

Statements that only the proofs speak of have no run of their own: the invariants behind
the theorems (`BucketInv`, `CallInv`, `ServiceInv`, `HostInv`, `BundleInv`, `MergeInv`, `ClientsInv`,
`CertificateInv`) and some results (`TotalBound`, `StoreKeepsEntries`, `Authentic`,
`RefusalsChangeNothing`, `HigherRootsDecide`, `MergedByPriority`, `PollsApart`). TLC
checked each of them on the instances above before it was proved, as well as the two
hypotheses on the codec of certificates.

## The proofs

All are proved for every number of keys, callers, threads, handles and every value of
capacities, rates and times, from the assumptions of the modules alone; two theorems on
certificates have a hypothesis on the codec besides. Each theorem of the form
`Spec => []P` rests on an invariant that holds initially, is kept by each action and
implies `P`; the lemmas follow the actions, one for each action and each part of the
invariant that it can disturb.

What the assumptions say, beyond the types of the constants, and why the code justifies
it:

| Assumption | It says | Because |
|---|---|---|
| `NoneAssumption`, `UrlAssumption`, `ThreadAssumption`, `BadAssumption` | markers (no value, no node, an error) are none of the values | they are variants of an `Option`, an enum or a `Result` |
| `BundleAssumption` | bundles of other implementations are well-formed containers, not sealed to the throw-away account, each with its own body key | an encrypted container has a key store and a fresh random key; the throw-away account is generated within one call |
| `ServiceAssumption` | query parameters are a sequence; the service's refusal is none of the other answers | the fields of the template of an endpoint |
| `MeaningAssumption` | an answer with a delay means pending, one without a delay or failure means done, a refusal means refused | the protocol of the envelope, which the service keeps: external |
| `FiniteAssumption`, `TrustAssumption`, `KeyAssumption` | an expansion meets finitely many locations, a document finitely many keys; trust is evaluated on finitely many certificates | they come in finite documents and vectors |
| `NameAssumption` | no two names, plain or sensitive, share an identifier | the generated table of the KYC schema has one identifier per attribute and sensitivity |
| `CallAssumption`, `KycCallAssumption` | a call is of an operation the client has | they are its methods |
| `EndpointAssumption` | a published endpoint is a URL, an object of a URL and its authentication, or anything else | what `decode_endpoint` tells apart |
| `ContentAssumption` | the operations a KYC entry's signature covers are those of its JSON | `signed_fields` and the provider are read from one entry |
| `QueryAssumption` | supported countries are asked for without a country | `get_supported_countries` takes none |
| `NoneAssumption` of `AnchorClients` | none of the errors and of the texts of providers is the marker for no value | as above |
| `ForeignAssumption` | certificates from elsewhere have attribute lists, and none of the salts drawn here | salts are 32 random bytes |

**EncryptedContainerProofs.** `Invariance` proves `IInv`: types, `Coherent`,
`Recoverable`, every blob well formed (a body key that is spent, at least one key
store, a signature over its own body), `KeyPerBlob` (no two blobs share a body key),
an unsealed container lists nobody, and an attached signer is the author of what was
parsed. `Coherent` is not inductive alone: that a decoded blob restores the same
principals needs its well-formedness, and that an opened blob gives nobody else access
needs `KeyPerBlob`. From it follow `CachesCoherent`, `ContentRecoverable`,
`PublishedStaySealed`, `RevocationEffective` (an action property) and
`ContainerImplementsDocument`: initial states map to initial states, and every
method maps to a step of the document or to none. `SignaturesAuthentic` shows that all
signatures ever written are correct, which `ValidSignatures` needs for the answer of
`verify_signature`; `RefusalsAreClean` shows of every method that an error leaves the
document as it was. The lemmas about `Merge`, `Relist` and `Encodings` carry all of these.

**SharableAttributesProofs.** Every step of a bundle keeps the container's `IInv`, by
the container's own lemmas (`BundleInvariance`). `BundleInv` adds that a bundle may
always be read, that no principal and no blob has the throw-away account, that every
blob not of another implementation is encrypted, that cached attributes are the
validated ones of the plaintext, and that fetched blobs stay in the payload. Since a body
key opens one blob only (`KeyPerBlob`), `NeverClear` follows; from the other parts
`ShownCertified`, `RecipientsCanRead` and the refinement `BundleIsDocument`.

**ServiceCallsProofs** holds the proofs of three modules that build on each other.
`BucketInvariance` proves the accounting `BucketInv` of the bucket: the tokens held,
together with those granted since any grant, never exceed a burst and the refill of the
time from then to `last_ms`. The pace of grants says nothing of the tokens left, so it
needs this term to be inductive. `WindowsPaced` and `TotalPaced` follow; `WaitsExact`
shows that the rounded-up division is exact. `CallInvariance` proves `CallInv` of
concurrent calls: a call has sent nothing until it is past the limiter, from then on its
attempts count its sends, all of them but the last lie within the budget, and the
callers past the limiter are as many as the grants. It includes `BucketInv`, by the
bucket's lemmas: every step of the transport is a step of the bucket or leaves it alone.
From `CallInv` follow `CallsPaced` (both bounds, for the calls that share a bucket),
`SendsOnceLate`, `PaysPerCall` and the action properties `HintsHonoured` and
`GivesUpLast`. `ServiceInvariance` proves `ServiceInv`: a call that began carries one
signature, made by its client and not in the future; an answer that tells of work has
work behind it; and what was carried out carried that signature, within its window. From
it `ServedFreshAsSigner`, `CopiesAreAlike`, `RefusedWhenStale`, `OutcomesMeant`; and
`ServiceCallsKeepPolicy`, that signed calls keep what was proved of unsigned ones.

**PromisePollProofs.** `Invariance` proves `IInv`: the saturating counter equals the
time slept, because a pause that would saturate is refused first; the pause in
progress is the one asked for; and the pauses made pay for the polls. From it
`OutcomesHonest`, `DeadlineKept`, `PollsKeptApart` and `PollsAreBounded`, for every
width of the counter.

**WasmHostProofs.** `Invariance` proves of the handle registry that whatever the counter
passed since a handle was given out was live at that time. From it `EntriesKept` and
`StaleHandlesLast`, for every size of the table. `HostInvariance` proves `HostInv`: a
wrapper that was not disposed of owns a live object; a thread past `Invoke` is the owner
of the runtime and finds its own error, response and result there; a wrapper being made
is named by no other call; and the guest holds for each call the buffers it is going to
free (`BuffersOwned`). `HostReusesLast`, `OwnAnswers` and `BuffersFreed` follow, and
`OnlyFailedCopiesLeak`: what is left between calls are buffers into which `WriteBytes`
failed to copy. That one response slot and one error
slot are enough needs the confinement, and that a wrapper keeps its object while handles
are given out again needs that the registry never gives out a live one.

**MetadataExpansionProofs.** `Invariance` proves that the stack holds a visit to, or
above, every reference still in the document: this needs that a document is rooted
(above every node are objects, so that nothing lies below a reference, and a visit
that is replaced by visits to the children of its node loses nobody) and that
`Children` enumerates all keys (`NthKey`, by counting). `NoReferenceLeft` follows for
the finished document, for any finite set of keys, any locations and anything they serve.
`ExpandsRight` proves that the result is the one of the recursive definition `Expansion`:
`ExpansionInv` says that the document, with each pending visit replaced by the expansion
foretold for it (`Foretold`), is the expansion of the root from the first state to the
last, and that visits lie apart from each other. The definition unfolds because the chain
of URLs grows with each step: that a function with its equation exists is shown by
induction on the URLs left, as a least counterexample, since the library's theorems
on recursive functions take operators as parameters.

**AnchorClientsProofs** holds the proofs of the lookup and of the clients over it.
`Invariance` proves that every id of the documents merged so far is
taken and that no listing's id is in a document of a higher root; `HigherRootsWin`
follows, for any number of roots, ids and documents. `MergesByPriority` proves more, from
`MergeInv`: the result of a lookup has, in the order of documents and of ids in them,
exactly one listing for each id whose highest document has it verified and matching
(`Placed`), which says who is found as well as who is hidden.

`ClientsInvariance` proves `ClientsInv` of the sessions, for any roots, entries, queries,
calls and answers. Every step of a session is a step of the lookup, leaves it alone or ends
it, so that `MergeInv` is kept; the documents merged are the verdicts on the entries
published, for the query under way (`LookupInv`); a query looks for countries by their
codes (`AskedInv`); what the host holds is the JSON of a genuine entry it found
(`HandleInv`); and each signed payload was made of the call the rest of its message was made
of (`LogInv`). The three properties rest on parts of it and on an argument about the code
each:

- `GoesAsAdvertised`: a provider that went to the host as JSON reads back as it was
  (`ProviderBack`, `KycProviderBack`), through what each reader drops, defaults and
  refuses, so that the request of a call has the endpoint and the authentication of the
  entry. That is inductive only together with `HandleInv`.
- `SignaturesTellApart`: the payload of a signature alone tells what matters of its
  message. `Told` recovers the essence from the payload of each operation
  (`EssenceTold`), by the tag it starts with or, of an object in canonical form, by the
  members it has, so that equal payloads are of one essence. A field that was left out of
  a payload, or two operations signed alike, would show in the lemma of the operation.
- `FindsByHighestRoot`: the verdicts that the lookup merged by are those of the
  reference definitions. `Readable` shows it of the reader of KYC entries and
  `AcceptsServes` of their countries, `MatchesMeans` of the search,
  `SignedIsGenuine` of signatures; the filter after the lookup, of an id or of an account,
  leaves what was wanted of it; and `MergesByPriority` gives the order.

**KycCertificateProofs.** `CertificateInvariance` proves `CertificateInv`: the builder's
table has for each name what was put last, unless an error is remembered; a certificate
built here has one attribute for each name put, with the salt of its place and name, and
fits the calls it was built from; one from elsewhere has none of these salts; a proof is
backed: if its salt was drawn here, it has the value that was sealed with that salt.
`ProofsBind` needs the last two parts: salts tell the certificate and the name they were
drawn for, so that a proof is good for no other certificate and no other attribute. `ReadsBack` and
`FindsReferences` have as hypothesis that the codec encodes and decodes a single value
rightly (`CodecRoundTrips`, `CodecKeepsReferences`) and prove that the builder, its
overwriting and its remembered errors, encryption and the two identifiers of a name
add no mistake. The hypotheses are statements about constants; for `KycSchema` and the values of the
run TLC found them true, and the run's own properties include them, since each offered
value may be put and built alone. `TrustAnchored` proves, for every finite set of
certificates, that what a chain ends in lies in every set closed under issuers that
holds its first certificate.

*Model-checked only*:

- liveness (`EveryCallReturns`, `EveryInvokeReturns`, `EveryShareReturns`, `Terminates`),
  which is out of the prover's reach;
- the codec of `KycSchema`, since what a recursive operator computes for every JSON value
  cannot be proved;
- which JSON has a canonical text (`CanonicalJson`), for the same reason; the proofs hold
  whatever has one (`Signable`);
- `OutcomeIsMeant` of `AnchorClients`. What an answer means is given beside each answer of
  the run, since the code has no second statement of it that a proof could compare with.

## Disagreements and remarks

Three runs state what a comment of the source says and end in a violation:

1. `container_stale_verdict`. `verify_signature` takes its copy of the parsed
   signature before the current encoding is parsed. After `from_plaintext` with a
   signer, `verify_signature`, `set_plaintext` and `get_encoded`, the next
   `verify_signature` checks the earlier signature against the new content and answers
   false; asked again it answers true.
2. `container_signature_lost`. The module documentation says that a signature stays
   valid across re-encryption; a container that was opened from a signed blob encodes
   without one, since only an attached signer signs.
3. `wasm_confined`. The remarks on `WasmRuntime` confine it to the thread that created
   it, because the store is thread-affine. `Write` checks the thread before it enters
   the module, `WriteBytes` does not: byte arguments of a call from another thread are
   allocated and written, and freed again, before and after `Invoke` refuses the call.

Remarks, for which no run is kept:

- The bucket's `capacity` bounds a burst on the bucket's own clock (`WindowBound`) and
  in total (`TotalBound`), not within a real millisecond: the clock is read before the
  lock, and callers that were held up in between spend the refill of a past moment
  along with the present one.
- `Dispose` of a wrapper on another thread sets its flag and then throws, so its object
  stays in the module until the runtime goes. `Dispose` of the runtime checks no thread.
- Methods of the wrappers do not look at their own flag: after `Dispose` they present a
  stale handle. It is refused until the counter has come around (`ReusedLast`).
- `Write` registers a buffer before it copies into it, "so a copy failure cannot leak the
  buffer"; `WriteBytes` registers it after the copy, and a copy that throws leaves the
  buffer with the module until the runtime is disposed of. The model has that outcome
  (`Stranded`); that the guest holds nothing between calls is therefore not claimed, and
  `OnlyFailedCopiesLeak` proves that these buffers are all it can hold.
- The getters of times (`InvokeLong`) cannot tell a failure from a time.
- Retries take no token: the limiter bounds first requests, and a failing service
  sees up to `max_retries + 1` requests for each token (`TokenPerCall` is about the
  first request).
- A POST whose answer is lost is sent again. Its copies carry one signature and so one
  nonce (`CopiesShareNonce`); an unsigned one carries nothing by which a service could
  tell.
- A bucket of capacity 0 with a refill never yields a token, and `acquire` sleeps
  for ever.
- Requests are signed before the limiter is waited for and before the retries, so
  the timestamp of a request may be old when it leaves.
- `timeout_ms` of a share counts the pauses, not the time requests take, as its
  comment in `poll_promise` says; with `timeout_ms` at `u32::MAX` the saturated sum
  never exceeds it and a poll has no end.
- A `shareKYC` answered with 202 or with a `retryAfter` becomes a `Body` error, since
  only the promise URL is polled.
- A `retryAfter` that is no u32 makes the whole envelope default, and its `ok: false`
  is then not seen.
- An id is taken in the merge before its entry is verified: an entry with a bad
  signature at a higher root hides the good one of a lower root. The runs take this as
  intended, because priority is given to roots, not to entries.
- An entry flagged sensitive but written in plain form is accepted when it equals the
  certificate's bytes, and is then shown undecrypted; `ShownIsCertified` allows it.
- The number of reads of an expansion has no bound other than the acyclic chains of
  references: locations that refer to each other are read again on each chain.

- `resolve_account_status` (`services/asset_movement/client.rs:660-688`) looks at the
  status of the response only to name an error: a JSON body without `ok`, as a gateway
  sends with a 503, reads as `AccountStatus::Ready`, where the comment of
  `account_status` (lines 367-373) says that a request-level failure still errors.
  `OutcomeIsMeant` leaves this answer out (`Unmarked`) and holds for all others.
- A blocker crosses the preview 1 binding of asset movement with its content
  (`to_json`), the other bindings with its code alone.
- What a signature covers: of a KYC request the account, nonce and timestamp and
  nothing of the request; of a transfer all but `allowedRails` and the source account,
  and the signature of a simulation is good for the transfer itself; of a list not its
  filters; of a share not the attributes; of a metadata entry the account, the
  operations and the legal texts. `Essence` in `AssetMovement` writes this out.
- `rail_pool_matches` says that an empty `wanted` matches any non-empty pool; the code
  lets it match an empty one as well.
- An asset-movement endpoint without a URL is left out of its provider, while one bad
  endpoint or country makes the whole KYC entry unreadable.
- An empty redirect is no redirect to preview 1, and an empty one to preview 2.
- `sharable_with_references` says that blobs in its options are kept; one fetched for
  the same reference takes its place, and a failing fetch fails the call although the
  blob was there.

## What is not modelled

- Formats: DER, PEM, base64, zlib and AES, the text of canonical forms. They are pure
  functions with tests; the models take their results. JSON is modelled as values, not
  as text, without the arrays serde accepts for objects.
- The text of locations (`location.rs`), which are model values; the getters of the
  legal texts and of `locationMetadata`; the byte limit of canonical forms; the X.509
  fields of the certificate builder, which go to the X.509 library as they are.
- How the X.509 library builds chains: any chain it may find is tried. Bytes that parse
  as DER by accident, and hash inputs that collide when concatenated.
- Cryptography: a signature verifies when it is over the same content, and a body
  key is learnt only from a blob it was wrapped in for a key one has.
- The providers and the network. What they answer is any value, except that in
  `PromisePoll` a provider answers by the promise protocol.
- Dropping a future in the middle of a call, and the saturation of u64 clocks.
- Of the preview 2 component, the resources of accounts, containers and certificates,
  which its host manages; the methods of its clients are modelled.
- Disposing of the runtime under a running export.
- A full handle table, on which the loop of `store` does not end: two thousand
  million live objects do not fit the 32-bit memory of the wasm build.
- Scripts, generated code and the test harnesses.

## Plan

Done, in this order: the container with its abstract document and proofs; the token
bucket with proofs; resilience over it; the handle registry with proofs; metadata
expansion and the lookup over it with proofs; sharable attributes over the container; the
share-and-wait poll with proofs; the host protocol of the WASI module over the handle
registry; signed calls over resilience and a lossy network; certificates, their schema
and trust; the asset-movement and the KYC client over the lookup, with both bindings;
the fetching of references.

Also done, proofs: the signatures and refusals of the container and everything checked
of bundles; the safety of calls over the bucket and of signed calls over them; the host
over the registry; the merge of a lookup; the expansion against its definition;
certificates, proofs of them and trust; the clients over the merge, from the entry that is
read to the message that is signed and sent.

Left to TLC: liveness, the recursive readers of values of any depth, and what answers mean
(see *Model-checked only*).
