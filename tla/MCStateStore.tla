---------------------------- MODULE MCStateStore ----------------------------
(* Small instances of StateStore. *)
EXTENDS StateStore, TLC

CONSTANTS b1, c1, e1, k1, k2, k3, r1, u, v

OneBundle == {b1}
OneCandidate == {c1}
OneEvidence == {e1}
ThreeKeys == {k1, k2, k3}
NoKeys == {}
OneReason == {r1}
OneWriter == {u}
TwoWriters == {u, v}

\* Two processes, or two milliseconds.
OwnNames == [w \in Writers |-> IF w = u THEN ".u.tmp" ELSE ".v.tmp"]

Plain(k) == [key |-> k, base |-> 0, etag |-> 0, gate |-> "OK"]
PlainContexts == {Plain(k) : k \in Keys}
Seeds == {[kind |-> "seed", bundle |-> b] : b \in Bundles}
ReleasesOf(keys) ==
  {[kind |-> "release", context |-> Plain(k), candidate |-> c,
    evidence |-> Evidence] : k \in keys, c \in Candidates}
DeploysOf(keys, environments, outcomes) ==
  {[kind |-> "deploy", context |-> Plain(k), release |-> 1, environment |-> e,
    outcome |-> o] : k \in keys, e \in environments, o \in outcomes}
PollsOf(n) == {[kind |-> "poll", id |-> i] : i \in 1 .. n}
RollbacksOf(keys, n) ==
  {[kind |-> "rollback", context |-> Plain(k), id |-> i, reason |-> r] :
     k \in keys, i \in 1 .. n, r \in Reasons}

\* Every kind of request that can be made of one release.
AllOperations ==
  Seeds \cup {[kind |-> "advance", bundle |-> b] : b \in Bundles}
    \cup {[kind |-> "draft", context |-> Plain(k1), manifest |-> c] :
            c \in Candidates}
    \cup ReleasesOf({k2})
    \cup DeploysOf({k3}, {"development", "staging", "production"},
                     {"healthy", "failed"})
    \cup PollsOf(1) \cup RollbacksOf({k1}, 1)
\* Releases and deployments of two keys, made and polled by two writers.
Contended ==
  Seeds \cup ReleasesOf({k1}) \cup DeploysOf({k2, k3}, {"staging"}, {"healthy"})
    \cup PollsOf(2)
=============================================================================
