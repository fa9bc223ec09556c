--------------------------- MODULE CanonicalJson ---------------------------
(***************************************************************************)
(* Which JSON values have a canonical text (signing/canonical.rs): the     *)
(* meaning of the parameter Signable of AssetRequests.  JSON is written as *)
(* there.                                                                  *)
(***************************************************************************)
EXTENDS Integers, FiniteSetsExt

CONSTANTS
    MaxSafeInteger,     \* MAX_SAFE_INTEGER
    MaxNodes            \* MAX_NODES

\* write_number: only integers every reader of JSON agrees on.
SafeNumber(v) == v[1] = "number" /\ v[2] \in (-MaxSafeInteger)..MaxSafeInteger

\* expand: whether all numbers of a value can be written.
RECURSIVE Writable(_)
Writable(v) ==
    CASE v[1] \in {"number", "float"} -> SafeNumber(v)
      [] v[1] \in {"list", "object"} -> \A i \in DOMAIN v[2] : Writable(v[2][i])
      [] OTHER -> TRUE

\* The nodes canonicalize_into visits.
RECURSIVE Nodes(_)
Nodes(v) ==
    IF v[1] \in {"list", "object"}
    THEN 1 + FoldSet(LAMBDA i, n : n + Nodes(v[2][i]), 0, DOMAIN v[2])
    ELSE 1

\* Whether object_to_signable succeeds.
HasCanonicalText(object) ==
    Writable(<<"object", object>>) /\ Nodes(<<"object", object>>) <= MaxNodes
=============================================================================
