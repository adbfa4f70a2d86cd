--------------------------- MODULE MCMockProvider ---------------------------
(* A small instance of MockProvider. *)
EXTENDS MockProvider

CONSTANTS b1, c1, e1, k1, k2, k3, k4, r1

OneBundle == {b1}
OneCandidate == {c1}
OneEvidence == {e1}
FourKeys == {k1, k2, k3, k4}
OneReason == {r1}

\* Callers that expect nothing, the first or the second version; and under one
\* key also those whose base and ETag disagree or that are turned away.
Expects(k, base, etag, gate) ==
  [key |-> k, base |-> base, etag |-> etag, gate |-> gate]
SomeContexts ==
  {Expects(k, n, n, "OK") : k \in Keys, n \in {0, 1, 2}}
    \cup {Expects(k1, 2, 1, "OK"), Expects(k1, 0, 1, "OK"),
          Expects(k1, 0, 0, "UNAVAILABLE"), Expects(k1, 0, 0, "PERMISSION_DENIED")}
=============================================================================
