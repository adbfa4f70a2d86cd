----------------------------- MODULE Evaluation -----------------------------
(***************************************************************************)
(* packages/eval-engine and packages/core/src/policy: what a run makes of  *)
(* the observations it gets, how two runs compare, and what the release    *)
(* policy makes of a run.                                                  *)
(*                                                                         *)
(* An observation (FixtureData) has a message, the names of the tools      *)
(* called, the states passed through and, as sets of at most one, final    *)
(* state, latency and cost.  A case has its turns (a set of at most one    *)
(* sequence; none for a simulator), what tools it allows and forbids,      *)
(* expected states and assertions.  An assertion on text carries the set   *)
(* of texts it accepts, which is empty for a pattern or schema that is     *)
(* refused.                                                                *)
(***************************************************************************)
EXTENDS Integers, Sequences, FiniteSets, SequencesExt

TextAssertions == {"exact", "contains", "regex", "json-schema"}
NoText == "nothing"

\* The executor's answer for a case it cannot run.
Skipped == {}

-----------------------------------------------------------------------------
(* Assertions *)

FinalState(obs) ==
  IF obs.finalState = {} THEN NoText ELSE CHOOSE s \in obs.finalState : TRUE

\* The text an assertion looks at, as the sequence of its lines.
targetText(assertion, case, obs) ==
  CASE assertion.target = "conversation" ->
         FlattenSeq(SetToSeq(
           {[i \in DOMAIN turns |-> <<turns[i].role, turns[i].content>>] :
              turns \in case.turns})) \o <<<<"assistant", obs.message>>>>
    [] assertion.target = "final-state" -> <<FinalState(obs)>>
    [] OTHER -> <<obs.message>>

Within(measured, maximum) == \E x \in measured : x <= maximum

\* Whether an assertion that is evaluated holds.
Satisfied(assertion, case, obs) ==
  CASE assertion.type \in TextAssertions ->
         targetText(assertion, case, obs) \in assertion.accepts
    [] assertion.type = "tool-call" -> assertion.tool \in obs.tools
    [] assertion.type = "tool-not-called" -> assertion.tool \notin obs.tools
    [] assertion.type = "latency" -> Within(obs.latency, assertion.maximum)
    [] assertion.type = "cost" -> Within(obs.cost, assertion.maximum)
    [] assertion.type = "conversation-state" ->
         FinalState(obs) = assertion.expected
    [] OTHER -> FALSE

Outcome(type, holds, critical) ==
  [type |-> type, status |-> IF holds THEN "passed" ELSE "failed",
   critical |-> critical]

\* No rubric evaluator is configured by the commands.
evaluateAssertion(assertion, case, obs) ==
  IF assertion.type = "rubric"
  THEN [type |-> "rubric", status |-> "skipped", critical |-> assertion.critical]
  ELSE Outcome(assertion.type, Satisfied(assertion, case, obs),
               assertion.critical)

\* Tool policy and expected states are critical assertions of every case that
\* declares them.
implicitAssertions(case, obs) ==
  {Outcome("tool-policy", obs.tools \subseteq s, TRUE) : s \in case.allowed}
    \cup {Outcome("tool-policy", obs.tools \cap s = {}, TRUE) :
            s \in case.forbidden}
    \cup IF case.expectedStates = {} THEN {}
         ELSE {Outcome("conversation-state",
                       case.expectedStates
                         \subseteq obs.stateTransitions \cup {FinalState(obs)},
                       TRUE)}

-----------------------------------------------------------------------------
(* Repetitions and cases *)

\* The last turn that refers to a fixture.
lastFixtureRef(case) ==
  LET turns == UNION {ToSet(s) : s \in case.turns}
      referring(s) == {i \in DOMAIN s : s[i].fixtureRef # {}}
  IN  UNION {UNION {s[i].fixtureRef :
                      i \in {j \in referring(s) :
                               \A k \in referring(s) : k <= j}} :
               s \in case.turns}

\* The fixtures are keyed by path, and looked up by the reference as written.
defaultExecutor(suite, case) ==
  {suite.fixtures[ref] : ref \in lastFixtureRef(case) \cap DOMAIN suite.fixtures}

\* The record of one repetition.  `executed` is kept to state properties of
\* what was observed; a report has only what follows from it.
Repetition(case, executed) ==
  LET obs == CHOOSE o \in executed : TRUE
      assertions == implicitAssertions(case, obs)
        \cup {evaluateAssertion(a, case, obs) : a \in case.assertions}
  IN  IF executed = Skipped
      THEN [executed |-> executed, status |-> "skipped",
            assertions |-> {[type |-> "execution", status |-> "skipped",
                             critical |-> FALSE]}]
      ELSE [executed |-> executed, assertions |-> assertions,
            status |-> IF \E a \in assertions : a.status = "failed"
                       THEN "failed" ELSE "passed"]

caseStatus(reps) ==
  IF \E i, j \in DOMAIN reps : reps[i].status # reps[j].status
  THEN "flaky" ELSE reps[1].status

criticalFailure(reps) ==
  \E i \in DOMAIN reps :
    \E a \in reps[i].assertions : a.status = "failed" /\ a.critical

\* Mutant: the gate overlooks cases that are not counted.
gateFailureIfCounted(case, reps) ==
  /\ case.criticality # "informational"
  /\ \/ caseStatus(reps) \in {"failed", "flaky"} /\ case.criticality = "blocking"
     \/ criticalFailure(reps)

gateFailure(case, reps) ==
  \/ caseStatus(reps) \in {"failed", "flaky"} /\ case.criticality = "blocking"
  \/ criticalFailure(reps)

CaseResult(suite, case, reps) ==
  [suitePath |-> suite.path, caseId |-> case.id, tags |-> case.tags,
   criticality |-> case.criticality, status |-> caseStatus(reps),
   gateFailure |-> gateFailure(case, reps), repetitions |-> reps]

-----------------------------------------------------------------------------
(* A run has a list of suites with a list of results each.  Here the results
   are a function from positions: the number of the suite and, in the suite, of
   the case. *)

Positions(suites) ==
  UNION {{<<s, c>> : c \in DOMAIN suites[s].cases} : s \in DOMAIN suites}

Before(p, q) == p[1] < q[1] \/ (p[1] = q[1] /\ p[2] < q[2])

gatePassed(results) == \A i \in DOMAIN results : ~results[i].gateFailure

Counted(results) ==
  {i \in DOMAIN results : results[i].criticality # "informational"}

\* In ten-thousandths, rounded as toFixed(4) does.
passRate(results) ==
  LET counted == Cardinality(Counted(results))
      passed == Cardinality({i \in Counted(results) :
                               results[i].status = "passed"})
  IN  IF counted = 0 THEN 10000
      ELSE (20000 * passed + counted) \div (2 * counted)

\* Mutant: the id covers the suite documents only.
runIdOfDocuments(candidate, suites, repetitions) ==
  [candidate |-> candidate, repetitions |-> repetitions,
   suites |-> [i \in DOMAIN suites |-> suites[i].cases]]

\* What the run id is the hash of.  Where a suite was found, the mode and the
\* outcomes are not among it.
runId(candidate, suites, repetitions) ==
  [candidate |-> candidate, repetitions |-> repetitions,
   suites |-> [i \in DOMAIN suites |->
                 [cases |-> suites[i].cases, fixtures |-> suites[i].fixtures]]]

-----------------------------------------------------------------------------
(* Baseline comparison *)

Key(result) == <<result.suitePath, result.caseId>>

\* The status by suite and case id; of several with one id the last.
indexCases(results) ==
  [key \in {Key(results[i]) : i \in DOMAIN results} |->
     results[CHOOSE i \in DOMAIN results :
               /\ Key(results[i]) = key
               /\ \A j \in DOMAIN results :
                    Key(results[j]) = key => ~Before(i, j)].status]

compareRuns(baseline, current) ==
  LET was == indexCases(baseline)
      is == indexCases(current)
      both == DOMAIN was \cap DOMAIN is
      moved(from, to) == {key \in both : was[key] = from /\ is[key] = to}
  IN  [regressions |-> moved("passed", "failed"),
       improvements |-> moved("failed", "passed"),
       unchangedFailures |-> moved("failed", "failed"),
       flaky |-> {key \in both : "flaky" \in {was[key], is[key]}},
       newCases |-> DOMAIN is \ DOMAIN was,
       removedCases |-> DOMAIN was \ DOMAIN is]

-----------------------------------------------------------------------------
(* Release policy *)

RISK_ORDER == [low |-> 0, medium |-> 1, high |-> 2, critical |-> 3]

\* What readiness takes from a report: `regressions` is a set of at most one
\* number, empty without a comparison.
EvidenceOf(run) ==
  [suitesRun |-> {s.path : s \in ToSet(run.suites)},
   executedTags |-> UNION {run.results[i].tags : i \in DOMAIN run.results},
   passRate |-> passRate(run.results), gatePassed |-> gatePassed(run.results),
   regressions |-> {Cardinality(c.regressions) : c \in run.comparison}]

\* The requirements that are not met.
UnmetByEvidence(policy, e) ==
  {r \in {"evaluation.required-suites", "evaluation.required-tags",
          "evaluation.pass-rate", "evaluation.no-critical-failure",
          "evaluation.regressions"} :
     CASE r = "evaluation.required-suites" ->
            ~(policy.requiredSuites \subseteq e.suitesRun)
       [] r = "evaluation.required-tags" ->
            ~(policy.requiredTags \subseteq e.executedTags)
       [] r = "evaluation.pass-rate" ->
            \E m \in policy.minimumPassRate : e.passRate < m
       [] r = "evaluation.no-critical-failure" ->
            policy.blockOnCriticalFailure /\ ~e.gatePassed
       [] r = "evaluation.regressions" ->
            \E m \in policy.maximumRegressionCount, n \in e.regressions : n > m}

UnmetByProject(policy, input) ==
  {r \in {"validation.schema", "validation.secret-scan", "validation.overall",
          "validation.no-drift", "validation.maximum-risk",
          "approval.staging"} :
     CASE r = "validation.schema" ->
            /\ policy.requireSchema /\ ~input.ok
            /\ "SCHEMA_INVALID" \in input.findingCodes
       [] r = "validation.secret-scan" ->
            policy.requireSecretScan /\ "SECRET_DETECTED" \in input.findingCodes
       [] r = "validation.overall" -> ~input.ok
       [] r = "validation.no-drift" ->
            policy.requireNoDrift /\ (input.localDrift \/ input.remoteDrift)
       [] r = "validation.maximum-risk" ->
            RISK_ORDER[input.risk] > RISK_ORDER[policy.maximumRisk]
       [] r = "approval.staging" -> policy.stagingApprovals # 0}

evaluateReleasePolicy(policy, input) ==
  UnmetByProject(policy, input)
    \cup IF input.evaluation = {} THEN {"evaluation.evidence"}
         ELSE UNION {UnmetByEvidence(policy, e) : e \in input.evaluation}
=============================================================================
