--------------------------- MODULE MCReleaseFlow ---------------------------
(* Small instances of ReleaseFlow. *)
EXTENDS ReleaseFlow, TLC

CONSTANTS b1, c1, c2, c3, p, s1, s2

OneBundle == {b1}
OneShell == {p}
AllCommands == [x \in Shells |-> {"test", "release", "deploy"}]
OneSeed == {s1}
TwoSeeds == {s1, s2}

\* Contents to edit between: two that a lock of version 1 belongs to, and one
\* that was pulled from version 2.
ThreeCandidates == {c1, c2, c3}
OneCandidate == {c1}
\* Of the former two, one does not validate.
ValidOnes == {c1, c3}
Bases == [c \in Candidates |-> IF c = c3 THEN 2 ELSE 1]

\* The keys that the commands derive; there is one deployment per release.
DerivedKeys ==
  {<<"rc", c>> : c \in Candidates}
    \cup {<<"dep", n>> : n \in 1 .. Cardinality(Candidates)}
NoReasons == {}
BothWays == {TRUE, FALSE}
Passing == {TRUE}
=============================================================================
