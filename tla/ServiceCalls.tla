---------------------------- MODULE ServiceCalls ----------------------------
(***************************************************************************)
(* Calls of the KYC client to an anchor service: the operation's endpoint  *)
(* is filled (service/endpoint.rs), the request is signed once             *)
(* (service/caller.rs, signing/), the resilient transport sends it as      *)
(* often as its policy allows (module Resilience), the service verifies    *)
(* each copy that arrives (signing/request.rs) and the last response is    *)
(* decoded into an outcome (service/envelope.rs).                          *)
(*                                                                         *)
(* The network may lose a request or a response, and may deliver a copy    *)
(* after the client has given it up and sent another one.  Client and      *)
(* service read one clock, in milliseconds.                                *)
(***************************************************************************)
EXTENDS Resilience

CONSTANTS
    Signer,      \* Signer[c]: the account the client of call c signs with
    Asked,       \* Asked[c]: what call c may be, pairs of an operation and the
                 \* endpoint the provider publishes for it, or None
    MaxSkew,     \* VerifyOptions.max_skew_ms of the service
    Response,    \* what the service answers, each with the meaning it has
    Refusal,     \* the response to a request that is not authentic
    HttpDate,    \* a Retry-After header that is a date
    MsPerSecond, \* MS_PER_SECOND
    MaxU32       \* u32::MAX

\* A refusal is told from what is answered to an authentic request, and the
\* query of an endpoint is a sequence of pairs.
ASSUME ServiceAssumption ==
    /\ MaxSkew \in Nat
    /\ MsPerSecond \in Nat
    /\ Refusal \notin Response \cup {None}
    /\ \A c \in Caller : \A asked \in Asked[c] : asked[2] # None =>
          LET query == asked[2].query IN query \in Seq({query[i] : i \in DOMAIN query})

VARIABLES
    request,    \* the request of a call, with its signature, or None
    signatures, \* history: signatures made so far
    wire,       \* the sends of a call whose copy is under way
    reply,      \* the response to the last send, or None
    performed,  \* history: what the service did, when and for whom
    outcome     \* what invoke returned

serviceVars == <<request, signatures, wire, reply, performed, outcome>>
allVars == <<vars, serviceVars>>

\* The operations of a KYC provider.
CreateVerification == [method |-> "post", auth |-> "SignedBody"]
GetCertificates == [method |-> "get", auth |-> "None"]
GetVerificationStatus == [method |-> "get", auth |-> "SignedUrl"]

-----------------------------------------------------------------------------
(* Signing *)

\* format_data: the signed bytes.  Every element has a DER tag and a length, so
\* two of them are equal only if all elements are.
FormatData(signer, nonce, timestamp, parts) ==
    <<<<"utf8", nonce>>, <<"utf8", timestamp>>, <<"octets", signer>>>> \o parts

\* sign_with under fresh parameters; the KYC operations sign no parts.
Sign(account, nonce) ==
    [nonce |-> nonce, timestamp |-> now,
     signature |-> [by |-> account, over |-> FormatData(account, nonce, now, <<>>)]]

Skew(timestamp) == IF timestamp > now THEN timestamp - now ELSE now - timestamp

\* Mutant: the age of the signature is not looked at.
VerifyTimeless(account, signed) ==
    signed.signature = [by |-> account,
        over |-> FormatData(account, signed.nonce, signed.timestamp, <<>>)]

\* verify_envelope
Verify(account, signed) ==
    /\ Skew(signed.timestamp) <= MaxSkew
    /\ signed.signature = [by |-> account,
           over |-> FormatData(account, signed.nonce, signed.timestamp, <<>>)]

-----------------------------------------------------------------------------
(* Signed URLs: a query is a sequence of pairs of a key and a value *)

SignedParams == {"signed.nonce", "signed.timestamp", "signed.signature"}

Carries(query, keys) == \E i \in DOMAIN query : query[i][1] \in keys

\* add_signature_to_url, when no signed parameter is in the template.
AddSignature(query, account, signed) ==
    query \o <<<<"signed.nonce", signed.nonce>>,
               <<"signed.timestamp", signed.timestamp>>,
               <<"signed.signature", signed.signature>>,
               <<"account", account>>>>

\* Mutant: the first value of a repeated parameter is read.
FirstParam(query, key) ==
    query[CHOOSE i \in DOMAIN query :
        query[i][1] = key /\ \A j \in DOMAIN query : query[j][1] = key => j >= i][2]

\* The value a parameter has for parse_signature_from_url: the last one.
Param(query, key) ==
    query[CHOOSE i \in DOMAIN query :
        query[i][1] = key /\ \A j \in DOMAIN query : query[j][1] = key => j <= i][2]

\* parse_signature_from_url, when every parameter is there.
ParseSignature(query) ==
    [account |-> Param(query, "account"),
     signed |-> [nonce |-> Param(query, "signed.nonce"),
                 timestamp |-> Param(query, "signed.timestamp"),
                 signature |-> Param(query, "signed.signature")]]

VerifyUrl(query) ==
    /\ \A key \in SignedParams \cup {"account"} : Carries(query, {key})
    /\ LET claim == ParseSignature(query) IN Verify(claim.account, claim.signed)

VerifyBody(body) == Verify(body.account, body.signed)

\* The account a request acts as for the service; None for an open operation.
ActsAs(r) ==
    CASE r.op.auth = "SignedUrl" -> ParseSignature(r.query).account
      [] r.op.auth = "SignedBody" -> r.body.account
      [] OTHER -> None

\* The signature a request carries, or None.
Signature(r) ==
    CASE r.op.auth = "SignedUrl" -> ParseSignature(r.query).signed
      [] r.op.auth = "SignedBody" -> r.body.signed
      [] OTHER -> None

Authentic(r) ==
    CASE r.op.auth = "SignedUrl" -> VerifyUrl(r.query)
      [] r.op.auth = "SignedBody" -> VerifyBody(r.body)
      [] OTHER -> TRUE

-----------------------------------------------------------------------------
(* Decoding of the response *)

\* RetryAfter::to_millis of the header, when the result is a u32.
HeaderDelay(header) ==
    IF header \in Nat /\ header * MsPerSecond <= MaxU32
    THEN header * MsPerSecond ELSE None

\* The fields of the envelope; all are absent when one of them has a form that
\* is not expected (a retryAfter that is no u32), or the body is no object.
Ok(r) == IF r.readable THEN r.ok ELSE None
BodyHint(r) == IF r.readable THEN r.hint ELSE None

\* retry_delay: the hint of the body, the header, or DEFAULT_RETRY_MS.
RetryDelay(r) ==
    CASE BodyHint(r) # None -> BodyHint(r)
      [] BodyHint(r) = None /\ HeaderDelay(r.header) # None -> HeaderDelay(r.header)
      [] OTHER -> IF r.status \in {202, 404} THEN 500 ELSE None

IsSuccess(r) == r.status \in 200..299

\* What the service means by a response, in the terms of the protocol: it
\* postpones with a hint or with a status, and fails with a status, with ok or
\* with a body that is not the operation's result.
Postpones(r) ==
    \/ r.readable /\ r.hint # None
    \/ HeaderDelay(r.header) # None
    \/ r.status \in {202, 404}

Fails(r) == ~IsSuccess(r) \/ (r.readable /\ r.ok = FALSE) \/ ~r.decodes

ASSUME MeaningAssumption ==
    /\ \A r \in Response \cup {Refusal} :
          /\ Postpones(r) => r.means = "pending"
          /\ ~Postpones(r) /\ ~Fails(r) => r.means = "done"
    /\ Refusal.means = "refused"

\* Mutant: ok: false is taken for a success when the status is one.
ClassifyByStatus(r) ==
    CASE RetryDelay(r) # None -> "retry"
      [] RetryDelay(r) = None /\ ~IsSuccess(r) -> "service"
      [] OTHER -> IF r.decodes THEN "ready" ELSE "body"

\* classify, for a response whose body decodes into the operation's result or
\* does not; failure() yields a Service error here.
Classify(r) ==
    CASE RetryDelay(r) # None -> "retry"
      [] RetryDelay(r) = None /\ (~IsSuccess(r) \/ Ok(r) = FALSE) -> "service"
      [] OTHER -> IF r.decodes THEN "ready" ELSE "body"

\* retryable_status
RetryableStatus(status) == status \in {408, 429} \cup 500..599

\* The Retry-After header as the retry policy reads it.
PolicyHint(r) == IF r.header \in Nat THEN r.header * MsPerSecond ELSE 0

-----------------------------------------------------------------------------
(* The client *)

Signs(op) == op.auth # "None"

\* What keeps a request from being made: the operation is not offered
\* (endpoint_for), its endpoint is no URL, or it already carries a signature.
Unmade(op, template) ==
    IF template = None THEN TRUE
    ELSE \/ ~template.isUrl
         \/ op.auth = "SignedUrl" /\ Carries(template.query, SignedParams)

\* authenticated_url and request_body.
Shaped(c, op, template) ==
    LET signed == Sign(Signer[c], signatures + 1) IN
    [op |-> op,
     query |-> IF op.auth = "SignedUrl" THEN AddSignature(template.query, Signer[c], signed)
               ELSE template.query,
     body |-> IF op.auth = "SignedBody" THEN [account |-> Signer[c], signed |-> signed]
              ELSE None]

\* The operation fails before anything is signed or sent.
FailLocally(c, op, template) ==
    /\ pc[c] = "idle"
    /\ outcome[c] = None
    /\ Unmade(op, template)
    /\ outcome' = [outcome EXCEPT ![c] = "unmade"]
    /\ UNCHANGED <<vars, request, signatures, wire, reply, performed>>

\* The request is made and signed, and handed to the transport.
Invoke(c, op, template) ==
    /\ outcome[c] = None
    /\ ~Unmade(op, template)
    /\ Begin(c)
    /\ request' = [request EXCEPT ![c] = Shaped(c, op, template)]
    /\ signatures' = IF Signs(op) THEN signatures + 1 ELSE signatures
    /\ UNCHANGED <<wire, reply, performed, outcome>>

\* The limiter lets the call through or sheds it.
Throttle(c) ==
    /\ Read(c) \/ Admit(c) \/ Shed(c) \/ Reacquire(c)
    /\ outcome' = [outcome EXCEPT ![c] = IF pc'[c] = "limited" THEN "limited" ELSE @]
    /\ UNCHANGED <<request, signatures, wire, reply, performed>>

\* Mutant: every send is signed anew.
TransmitSignedAnew(c) ==
    /\ Send(c) \/ Resend(c)
    /\ wire' = [wire EXCEPT ![c] = @ \cup {Len(sent'[c])}]
    /\ request' = [request EXCEPT ![c] = Shaped(c, @.op, [query |-> <<>>])]
    /\ signatures' = signatures + 1
    /\ UNCHANGED <<reply, performed, outcome>>

\* A copy of the request leaves, the first time or again.
Transmit(c) ==
    /\ Send(c) \/ Resend(c)
    /\ wire' = [wire EXCEPT ![c] = @ \cup {Len(sent'[c])}]
    /\ UNCHANGED <<request, signatures, reply, performed, outcome>>

\* The policy's verdict on the response: retried while it may be, and decoded
\* when it is final or nothing is left.
Receive(c) ==
    /\ reply[c] # None
    /\ \/ /\ RetryableStatus(reply[c].status)
          /\ Retry(c, PolicyHint(reply[c]))
          /\ UNCHANGED outcome
       \/ /\ IF RetryableStatus(reply[c].status)
             THEN GiveUp(c, "spent") ELSE Conclude(c, "response")
          /\ outcome' = [outcome EXCEPT ![c] = Classify(reply[c])]
    /\ reply' = [reply EXCEPT ![c] = None]
    /\ UNCHANGED <<request, signatures, wire, performed>>

\* The connection fails: the response, if there is one, is lost.
Disconnect(c) ==
    /\ \/ /\ Retry(c, 0)
          /\ UNCHANGED outcome
       \/ /\ GiveUp(c, "exhausted") \/ Conclude(c, "error")
          /\ outcome' = [outcome EXCEPT ![c] = "transport"]
    /\ reply' = [reply EXCEPT ![c] = None]
    /\ UNCHANGED <<request, signatures, wire, performed>>

-----------------------------------------------------------------------------
(* The service and the network (outside the repository) *)

Answering(c, copy, r) ==
    reply' = [reply EXCEPT ![c] =
        IF pc[c] = "calling" /\ copy = Len(sent[c]) THEN r ELSE @]

\* A copy arrives, is verified, and is carried out, unless the service fails.
Serve(c, copy, r) ==
    /\ copy \in wire[c]
    /\ Authentic(request[c])
    /\ r \in Response
    /\ wire' = [wire EXCEPT ![c] = @ \ {copy}]
    /\ performed' = IF r.means = "failed" THEN performed ELSE performed \cup
           {[call |-> c, at |-> now, actsAs |-> ActsAs(request[c]),
             signed |-> Signature(request[c])]}
    /\ Answering(c, copy, r)
    /\ UNCHANGED <<vars, request, signatures, outcome>>

Refuse(c, copy) ==
    /\ copy \in wire[c]
    /\ ~Authentic(request[c])
    /\ wire' = [wire EXCEPT ![c] = @ \ {copy}]
    /\ Answering(c, copy, Refusal)
    /\ UNCHANGED <<vars, request, signatures, performed, outcome>>

Elapse == Pass /\ UNCHANGED serviceVars

-----------------------------------------------------------------------------
CallInit ==
    /\ Init
    /\ request = [c \in Caller |-> None]
    /\ signatures = 0
    /\ wire = [c \in Caller |-> {}]
    /\ reply = [c \in Caller |-> None]
    /\ performed = {}
    /\ outcome = [c \in Caller |-> None]

\* What the executor and the transport owe a call.
Advance(c) == Throttle(c) \/ Transmit(c)

CallNext ==
    \/ Elapse
    \/ \E c \in Caller : \E asked \in Asked[c] :
          \/ FailLocally(c, asked[1], asked[2])
          \/ Invoke(c, asked[1], asked[2])
    \/ \E c \in Caller : Advance(c) \/ Receive(c) \/ Disconnect(c)
    \/ \E c \in Caller, copy \in 1..MaxSends : Refuse(c, copy)
    \/ \E c \in Caller, copy \in 1..MaxSends, r \in Response : Serve(c, copy, r)

\* Time passes, the executor polls what is ready, and the transport hands over
\* a response or reports a failure.  The network owes nothing.
CallSpec ==
    /\ CallInit
    /\ [][CallNext]_allVars
    /\ WF_allVars(Elapse)
    /\ \A c \in Caller : WF_allVars(Advance(c)) /\ WF_allVars(Receive(c) \/ Disconnect(c))
-----------------------------------------------------------------------------
(* Properties *)

\* However long a request waited for the limiter, slept between retries or was
\* delayed on the way, the service carries it out only for the account whose
\* client signed it, and only while that signature is fresh.
FreshAndAsSigner ==
    \A p \in performed : p.signed # None =>
        /\ p.actsAs = Signer[p.call]
        /\ p.at <= p.signed.timestamp + MaxSkew

\* The transport sends a POST again when its answer is lost.  However often a
\* call is carried out, the service sees the same signature each time, so one
\* that keeps the nonces it has seen can tell a copy from a new request.
CopiesShareNonce ==
    \A p, q \in performed : p.call = q.call => p.signed = q.signed

\* An honest request is refused only because it came too late: a template's
\* own parameters never spoil the signature that is put beside them.
RefusedStale(c) ==
    reply[c] # Refusal /\ reply'[c] = Refusal =>
        now > Signature(request[c]).timestamp + MaxSkew

RefusedOnlyWhenStale == [][\A c \in Caller : RefusedStale(c)]_allVars

\* The inductive invariant behind them: a call that began carries one
\* signature, made by its client and not in the future, and the service acted
\* on nothing else.
SignedBy(account, signed, time) ==
    /\ signed.timestamp \in 0..time
    /\ signed.signature = [by |-> account,
           over |-> FormatData(account, signed.nonce, signed.timestamp, <<>>)]

HonestRequest(r, account, time) ==
    /\ r.op.auth \in {"SignedUrl", "SignedBody"} =>
          ActsAs(r) = account /\ SignedBy(account, Signature(r), time)
    /\ r.op.auth = "SignedUrl" =>
          \A key \in SignedParams \cup {"account"} : Carries(r.query, {key})
    /\ r.op.auth \notin {"SignedUrl", "SignedBody"} => Signature(r) = None

Honest(c) == HonestRequest(request[c], Signer[c], now)

ActedUpon(p) ==
    /\ p.call \in Caller
    /\ pc[p.call] # "idle"
    /\ p.signed = Signature(request[p.call])
    /\ request[p.call].op.auth \in {"SignedUrl", "SignedBody"} =>
          p.actsAs = Signer[p.call] /\ p.at <= p.signed.timestamp + MaxSkew

Answered(c) ==
    reply[c] # None =>
        /\ reply[c] \in Response \cup {Refusal}
        /\ reply[c].means \in {"done", "pending"} => \E p \in performed : p.call = c

ServiceInv ==
    /\ CallInv
    /\ DOMAIN request = Caller /\ DOMAIN reply = Caller /\ DOMAIN outcome = Caller
    /\ wire \in [Caller -> SUBSET Nat]
    /\ \A c \in Caller : pc[c] # "idle" => Honest(c)
    /\ \A c \in Caller : wire[c] # {} => pc[c] \notin Unstarted
    /\ \A c \in Caller : Answered(c)
    /\ \A p \in performed : ActedUpon(p)

\* The outcome is what the service meant by its last answer, and a call that
\* failed before it was sent is never carried out, not even later.
Meant(c) ==
    outcome'[c] # outcome[c] =>
        /\ outcome'[c] = "ready" =>
              reply[c].means = "done" /\ \E p \in performed : p.call = c
        /\ outcome'[c] = "retry" => reply[c].means = "pending"
        /\ outcome'[c] \in {"unmade", "limited"} => wire[c] = {}

OutcomeIsMeant == [][\A c \in Caller : Meant(c)]_allVars

\* Every request handed to the transport comes back with an outcome, although
\* the network loses what it likes and no token may ever be refilled.
EveryInvokeReturns ==
    \A c \in Caller : request[c] # None ~> outcome[c] # None
=============================================================================
