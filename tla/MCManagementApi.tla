-------------------------- MODULE MCManagementApi --------------------------
(* Small instances of ManagementApi. *)
EXTENDS ManagementApi, TLC

CONSTANTS b1, c1, c2, e1, k1, k2, k3, r1, c, d

OneBundle == {b1}
TwoCandidates == {c1, c2}
OneEvidence == {e1}
ThreeKeys == {k1, k2, k3}
OneReason == {r1}
TwoClients == {c, d}

Call(kind, key, base, etag, subject) ==
  [kind |-> kind, key |-> key, base |-> base, etag |-> etag, subject |-> subject]
Release == Call("release", k1, 1, 1, c1)
Pair(first, second) == [x \in Clients |-> IF x = c THEN first ELSE second]
\* Two processes release one candidate under its key, one of them after a draft
\* without an ETag; both draft.  One releases and deploys by itself: the server
\* may overlap its own attempts.
Alone == Pair(<<Release, Call("deploy", k2, 0, 0, 1)>>, <<>>)
Scenes ==
  {Pair(<<Call("draft", k3, 1, 0, c1), Release>>, <<Release>>),
   Pair(<<Call("draft", k1, 1, 1, c1)>>, <<Call("draft", k2, 1, 1, c2)>>),
   Alone}
SomeStatuses == {404, 504}
AtOnce == {0}
=============================================================================
