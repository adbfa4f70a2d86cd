------------------------- MODULE MCEvaluationRuns -------------------------
(* A small instance of EvaluationRuns. *)
EXTENDS EvaluationRuns, TLC

CONSTANTS prompt, edited, bad, rest

\* Every reference is written as its normalized path.
PlainReferences ==
  [r \in {"evals/smoke", "evals/more", "evals/copy", "fixtures/1",
          "fixtures/2", "policy", "prompt"} |-> r]

Turn(role, content, fixture) ==
  [role |-> role, content |-> content, fixtureRef |-> fixture]
Text(type, target, accepted, critical) ==
  [type |-> type, target |-> target, accepts |-> {accepted},
   critical |-> critical]
Tool(type, name) ==
  [type |-> type, target |-> "run", tool |-> name, critical |-> FALSE]
Measured(type, maximum) ==
  [type |-> type, target |-> "run", maximum |-> maximum, critical |-> TRUE]
Rubric == [type |-> "rubric", target |-> "conversation", critical |-> FALSE]

Case(id, criticality, turns, forbidden, states, assertions) ==
  [id |-> id, criticality |-> criticality, tags |-> {id}, turns |-> turns,
   allowed |-> {{"lookup", "refund"}}, forbidden |-> forbidden,
   expectedStates |-> states, assertions |-> assertions]

Ask == Turn("user", "ask", {"fixtures/1"})
Tell == Turn("assistant", "tell", {})
More == Turn("user", "more", {"fixtures/2"})

\* A case that must not fail, and one that is not counted but must be harmless.
Smoke ==
  <<Case("safe", "blocking", {<<Ask>>}, {}, {},
         {Text("contains", "last-assistant-message", <<"yes">>, FALSE)}),
    Case("quiet", "informational", {<<Ask, Tell, More>>}, {{"refund"}}, {},
         {Tool("tool-call", "lookup")})>>
\* A critical assertion on what was said and how long it took; a simulator.
Extra ==
  <<Case("exact", "standard", {<<Ask, More>>}, {}, {"done"},
         {Text("exact", "conversation",
               <<<<"user", "ask">>, <<"user", "more">>, <<"assistant", "yes">>>>,
               TRUE),
          Measured("latency", 2), Rubric}),
    Case("sim", "high", {}, {}, {}, {Tool("tool-not-called", "refund")})>>

Fixture(message, tools, final, latency) ==
  [message |-> message, tools |-> tools, stateTransitions |-> {},
   finalState |-> final, latency |-> latency, cost |-> {}]
Good == Fixture("yes", {"lookup"}, {"done"}, {1})
\* As good, but with something the secret scan finds.
Leaky == Fixture("yes", {"lookup"}, {"done"}, {0})
Leaks == {Leaky}

Policy(suites, rate, regressions, approvals) ==
  [requireSchema |-> TRUE, requireSecretScan |-> TRUE, requireNoDrift |-> TRUE,
   maximumRisk |-> "medium", requiredSuites |-> suites, requiredTags |-> {"safe"},
   minimumPassRate |-> rate, blockOnCriticalFailure |-> TRUE,
   maximumRegressionCount |-> regressions, stagingApprovals |-> approvals]

Manifest ==
  [files |-> {"prompt"}, suites |-> <<"evals/smoke", "evals/more">>,
   policy |-> {"policy"}, rest |-> rest]

McFiles ==
  LET without == [p \in {MANIFEST_FILE_NAME, "evals/smoke", "evals/more",
                         "evals/copy", "fixtures/1", "fixtures/2", "policy",
                         "prompt"} |->
        CASE p = MANIFEST_FILE_NAME -> Manifest
          [] p \in {"evals/smoke", "evals/copy"} -> Smoke
          [] p = "evals/more" -> Extra
          [] p = "policy" -> Policy({"evals/smoke"}, {}, {0}, 0)
          [] p = "prompt" -> prompt
          [] OTHER -> Good]
  IN  without @@ (LOCK_FILE_NAME :>
        [manifestSha256 |-> manifestSha256(without), base |-> 1,
         generatedAt |-> 1])

Edit(path, content) == [path |-> path, content |-> content]
McEdits ==
  {Edit("fixtures/1", Fixture("no", {}, {"done"}, {1})),
   Edit("fixtures/2", Fixture("yes", {"lookup", "refund"}, {"done"}, {1})),
   Edit("fixtures/2", Fixture("yes", {"lookup"}, {}, {3})),
   Edit("fixtures/2", bad), Edit("fixtures/2", Leaky),
   Edit("policy", Policy({"evals/smoke"}, {10000}, {}, 0)),
   Edit("evals/more", SubSeq(Extra, 1, 1)),
   Edit("prompt", edited)}

Command(mode, suites, repetitions, compare) ==
  [mode |-> mode, suites |-> suites, repetitions |-> repetitions,
   compare |-> compare]
\* Everything once and against a baseline; one suite and its copy, which the
\* manifest does not name; live, the first suite twice and both once.
McCommands ==
  {Command("fixture", <<>>, 0, FALSE), Command("fixture", <<>>, 2, TRUE),
   Command("fixture", <<"evals/smoke">>, 1, FALSE),
   Command("fixture", <<"evals/copy">>, 1, FALSE),
   Command("live", <<"evals/smoke">>, 2, FALSE), Command("live", <<>>, 1, TRUE)}
=============================================================================
