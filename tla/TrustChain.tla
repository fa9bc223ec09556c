----------------------------- MODULE TrustChain -----------------------------
(***************************************************************************)
(* Whether the certificates an account published chain to a trusted issuer *)
(* (keetanetwork-anchor/src/trust/mod.rs, keetanetwork-anchor-client/src/  *)
(* trust.rs).  A published record is a certificate and the intermediates   *)
(* that help to chain it, and is readable when all of them parse.          *)
(***************************************************************************)
EXTENDS Naturals, FiniteSets

CONSTANTS
    Certificate,    \* X.509 certificates
    Issuers,        \* the certificates whose key a certificate's signature verifies with
    ValidAt,        \* the moments a certificate is valid at
    Record,         \* what the account may publish
    Trusted,        \* trusted_issuers
    Moment          \* the moments trust may be evaluated at

\* An evaluation is given finitely many certificates.
ASSUME TrustAssumption ==
    /\ IsFiniteSet(Certificate)
    /\ Issuers \in [Certificate -> SUBSET Certificate]
    /\ Record \subseteq [readable : BOOLEAN, certificate : Certificate,
                          intermediates : SUBSET Certificate]
    /\ Trusted \subseteq Certificate

VARIABLE published  \* the account's published records

-----------------------------------------------------------------------------
(* Certificate::verify_chain of the X.509 library: an issuer of the last     *)
(* certificate of the chain is added as long as one is left.  The library   *)
(* decides which, so every end of such a chain is possible.                 *)
NextIn(certificate, available) == Issuers[certificate] \cap available

\* The ends from one certificate, given those from the next ones.
EndsFrom(ends, certificate, available) ==
    IF NextIn(certificate, available) = {} THEN {certificate}
    ELSE UNION {ends[<<issuer, available \ {issuer}>>] :
                   issuer \in NextIn(certificate, available)}

ChainEnds[place \in Certificate \X SUBSET Certificate] ==
    EndsFrom(ChainEnds, place[1], place[2])

\* Mutant: the intermediates of a record count as anchors.
IntermediatesToo(record, trusted) == trusted \cup record.intermediates

\* Only a trusted issuer is an anchor.
Anchors(record, trusted) == trusted

\* record_chains_to_root, with the outcomes it may have: the certificate is
\* valid at the moment and is an anchor or begins a chain that ends at one.
RecordChainsToRoot(record, trusted, moment) ==
    LET roots == Anchors(record, trusted)
        ends == ChainEnds[<<record.certificate, record.intermediates \cup trusted>>]
    IN  IF moment \notin ValidAt[record.certificate] THEN {FALSE}
        ELSE IF record.certificate \in roots THEN {TRUE}
        ELSE {(end \in roots) : end \in ends}

\* evaluate_certificate_chain, with the statuses it may return.
EvaluateCertificateChain(records, trusted, moment) ==
    IF records = {} THEN {"NoCerts"}
    ELSE IF trusted = {} THEN {"Untrusted"}
    ELSE {status \in {"Trusted", "Untrusted"} :
             IF status = "Trusted"
             THEN \E r \in records : TRUE \in RecordChainsToRoot(r, trusted, moment)
             ELSE \A r \in records : FALSE \in RecordChainsToRoot(r, trusted, moment)}

\* evaluate_published_chain: a record that does not parse is skipped, and still
\* counts as published.
EvaluatePublishedChain(records, trusted, moment) ==
    IF records = {} THEN {"NoCerts"}
    ELSE LET parsed == {r \in records : r.readable}
         IN  IF parsed = {} THEN {"Untrusted"}
             ELSE EvaluateCertificateChain(parsed, trusted, moment)

\* assert_certificate_chain: what is wrong with an account, or "Ok".
AssertCertificateChain(status) ==
    CASE status = "Trusted" -> "Ok"
      [] status = "NoCerts" -> "Missing"
      [] status = "Untrusted" -> "Untrusted"

\* The account publishes a record: external.
Publish(record) == published' = published \cup {record}

-----------------------------------------------------------------------------
(* Trust told without a chain: every set that holds the certificate and,     *)
(* with a certificate, its issuers at hand, holds a trusted one.            *)

Anchored(record, trusted, moment) ==
    /\ moment \in ValidAt[record.certificate]
    /\ \A certificates \in SUBSET Certificate :
          (/\ record.certificate \in certificates
           /\ \A c \in certificates :
                 Issuers[c] \cap (record.intermediates \cup trusted) \subseteq certificates)
          => certificates \cap trusted # {}

\* trust/mod.rs, trust.rs: an account is trusted only for a certificate that is
\* valid and can be chained to a trusted issuer, no intermediate being one; a
\* certificate of a trusted issuer is trusted whatever else was published; and
\* only an account that published nothing is asked for a certificate.
TrustedIsAnchored ==
    \A moment \in Moment : \A status \in EvaluatePublishedChain(published, Trusted, moment) :
        /\ AssertCertificateChain(status) = "Ok" =>
              \E r \in published : r.readable /\ Anchored(r, Trusted, moment)
        /\ (\E r \in published : /\ r.readable /\ r.certificate \in Trusted
                                 /\ moment \in ValidAt[r.certificate])
              => AssertCertificateChain(status) = "Ok"
        /\ AssertCertificateChain(status) = "Missing" <=> published = {}
=============================================================================
