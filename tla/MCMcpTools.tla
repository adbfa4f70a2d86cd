----------------------------- MODULE MCMcpTools -----------------------------
(* Small instances of McpTools. *)
EXTENDS McpTools, TLC

CONSTANTS b1, c1, c2, p, q, s1

OneBundle == {b1}
TwoShells == {p, q}
OneSeed == {s1}
TwoCandidates == {c1, c2}
Alike == Permutations(TwoCandidates)
Bases == [c \in Candidates |-> 1]

\* A developer at the command line, and an agent that calls tools.
McCommands == [x \in Shells |-> IF x = p THEN {"test", "deploy"} ELSE {}]
McTools ==
  [x \in Shells |->
     IF x = p THEN {}
     ELSE {"raia_evaluation_run", "raia_release_create", "raia_context_get",
           "raia_deployment_staging_create", "raia_deployment_get"}]

\* The keys that the commands derive; there is one deployment per release.
DerivedKeys ==
  {<<"rc", c>> : c \in Candidates}
    \cup {<<"dep", n>> : n \in 1 .. Cardinality(Candidates)}
NoReasons == {}
OnlyPass == {TRUE}
OnlyListed == {TRUE}
=============================================================================
