------------------------------ MODULE Results ------------------------------
(***************************************************************************)
(* The Result of a fallible function, as far as the KYC codec and the      *)
(* certificates tell them apart: a value, or the one error Bad.            *)
(***************************************************************************)
EXTENDS Naturals

CONSTANT Bad        \* the error

Failed(result) == result = Bad

\* All of a sequence of results, or the error.
AllOrBad(results) ==
    IF \E i \in DOMAIN results : Failed(results[i]) THEN Bad ELSE results

\* The first result that is none of the errors.
FirstGood(results) ==
    LET good == {i \in DOMAIN results : ~Failed(results[i])}
    IN  IF good = {} THEN Bad
        ELSE results[CHOOSE i \in good : \A j \in good : i <= j]
=============================================================================
