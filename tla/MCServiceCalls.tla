--------------------------- MODULE MCServiceCalls ---------------------------
(* Two calls, of two accounts, over one transport whose only token is never *)
(* refilled.                                                               *)
EXTENDS ServiceCalls, TLC

CONSTANTS c1, c2, alice, bob

SignerValue == (c1 :> alice) @@ (c2 :> bob)

\* An endpoint without a query, one that names an account of its own, one that
\* carries a signature parameter, and one that is no URL.
Endpoint(query) == [isUrl |-> TRUE, query |-> query]

TemplateValue ==
    {Endpoint(<<>>), Endpoint(<<<<"account", bob>>>>),
     Endpoint(<<<<"signed.nonce", 9>>>>), [isUrl |-> FALSE, query |-> <<>>], None}

AskedValue ==
    (c1 :> ({CreateVerification, GetVerificationStatus} \X TemplateValue)) @@
    (c2 :> ({GetCertificates} \X {Endpoint(<<>>), None}))

Answer200 ==
    [status |-> 200, readable |-> TRUE, ok |-> TRUE, hint |-> None, header |-> None,
     decodes |-> TRUE, means |-> "done"]

\* The last one's retryAfter is no u32, and its body lacks the result's fields.
ResponseValue == {
    Answer200,
    [Answer200 EXCEPT !.hint = 1, !.ok = FALSE, !.means = "pending"],
    [Answer200 EXCEPT !.status = 202, !.readable = FALSE, !.header = HttpDate,
                      !.decodes = FALSE, !.means = "pending"],
    [Answer200 EXCEPT !.status = 503, !.ok = None, !.header = 1, !.means = "pending"],
    [Answer200 EXCEPT !.status = 503, !.ok = None, !.header = 3, !.means = "failed"],
    [Answer200 EXCEPT !.ok = FALSE, !.means = "failed"],
    [Answer200 EXCEPT !.readable = FALSE, !.ok = FALSE, !.decodes = FALSE,
                      !.means = "failed"] }

RefusalValue == [Answer200 EXCEPT !.status = 401, !.ok = FALSE, !.means = "refused"]
=============================================================================
