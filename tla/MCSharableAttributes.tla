------------------------ MODULE MCSharableAttributes ------------------------
(* A certificate with a sensitive attribute that refers to a blob and a plain *)
(* one; bundles for one or both; containers another implementation made.      *)
EXTENDS SharableAttributes, TLC

CONSTANTS alice, bob, transient, m0, m1, m2, m3, m4, email, country, unknown

MCKey == {alice, bob, transient}
MCCipherKey == {m0, m1, m2, m3, m4}
MCName == {email, country, unknown}
MCRequest == {{email}, {email, country, unknown}}

Item(sensitive, form, value, inlined) ==
    [sensitive |-> sensitive, form |-> form, value |-> value, inlined |-> inlined]

\* Contents only another implementation writes, right and wrong.
Others ==
    {email :> Item(TRUE, "plain", "raw", "wrong"),
     email :> Item(TRUE, "proof", "other", "none"),
     country :> Item(FALSE, "plain", "other", "none"),
     country :> Item(TRUE, "plain", "raw", "none"),
     unknown :> Item(FALSE, "plain", "raw", "none")}

MCPayload ==
    {Collected(names, [n \in {email} |-> brought]) :
        names \in MCRequest, brought \in {"missing", "right"}} \cup Others

Sealed(contents) ==
    [encrypted |-> TRUE, stores |-> {alice}, cek |-> m0, body |-> contents, sig |-> None]
Open(contents) ==
    [encrypted |-> FALSE, stores |-> {}, cek |-> None, body |-> contents, sig |-> None]

MCForeign ==
    {Sealed(email :> Item(TRUE, "plain", "raw", "wrong"))}
    \cup {Open(contents) : contents \in Others}

\* Data URLs and answers of a storage: the blob itself, wrapped, or lost.
MCWeb ==
    {[url |-> "data", data |-> data] :
        data \in {<<"base64", "stored">>, <<"base64", "invalid">>, <<"plain", "other">>,
                  <<"no comma">>}}
    \cup {[url |-> "https", status |-> 404, body |-> <<"bytes", "stored">>]}
    \cup {[url |-> "https", status |-> 200, body |-> body] :
        body \in {<<"bytes", "stored">>, <<"bytes", "other">>}
                 \cup {<<"object", [data |-> data, mimeType |-> "text"]>> :
                        data \in {"stored", "other", "invalid", "number"}}
                 \cup {<<"object", [data |-> "stored", mimeType |-> "number"]>>,
                       <<"object",
                         [data |-> "stored", mimeType |-> "text", size |-> "number"]>>}}

Interchangeable == Permutations({m1, m2, m3, m4})
=============================================================================
