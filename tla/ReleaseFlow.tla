---------------------------- MODULE ReleaseFlow ----------------------------
(***************************************************************************)
(* The commands that take a project to a staging deployment: `raia test`,  *)
(* `raia release create` and `raia deploy staging` (packages/cli/src), the *)
(* project they read, the two files they leave (the evaluation report and  *)
(* the workflow state) and the provider they call.                         *)
(*                                                                         *)
(* A command is a sequence of steps, one per access to something shared;   *)
(* what it computes in between is part of the step.  Between any two of    *)
(* them the developer may edit the sources, the remote agent may move on,  *)
(* another command may run, or the command may end early (an error, a      *)
(* lost reply, a missing --yes, a kill): all it then leaves is what it had *)
(* saved.                                                                  *)
(***************************************************************************)
EXTENDS ProviderState, WorkflowState, FiniteSets

CONSTANTS
  Shells,       \* places where commands run, one at a time each
  Commands,     \* the commands that each of them runs
  Seeds,        \* what may tell two evaluations of the same suites apart
  Outcomes,     \* whether evaluations may pass, and fail
  BaseIn,       \* base version in the lock file of each project contents
  Valid,        \* candidates that validate, with a lock that matches them
  Fixtures,     \* how deployments may end at the provider
  OnFirstPage,  \* whether the agent may be, or not be, on the first page
  MaxVersions, MaxEdits,    \* bounds of a run
  MaxPolls      \* polls of one deploy command; 10 in the code

ASSUME CommandsAreKnown ==
  Commands \in [Shells -> SUBSET {"test", "release", "deploy"}]
ASSUME OutcomesAreBoolean == Outcomes \subseteq BOOLEAN
ASSUME FixturesAreKnown == Fixtures \subseteq {"healthy", "failed"}
ASSUME PagesAreBoolean == OnFirstPage \subseteq BOOLEAN
ASSUME BasesAreVersions == BaseIn \in [Candidates -> Nat \ {0}]
ASSUME ValidAreCandidates == Valid \subseteq Candidates
ASSUME CandidatesAreFew == IsFiniteSet(Candidates)
\* The keys that the commands derive.
ASSUME KeysAreDerived ==
  /\ \A c \in Candidates : <<"rc", c>> \in Keys
  /\ \A n \in 1 .. Cardinality(Candidates) : <<"dep", n>> \in Keys

\* An evaluation report: the candidate it is bound to, the contents whose suites
\* ran, and whether the policy is content with the outcome.
Runs == [candidate : Candidates, suites : Candidates, seed : Seeds,
         passed : Outcomes]
ASSUME RunsAreEvidence == Runs \subseteq Evidence

VARIABLES
  sources,      \* contents of the project directory, by its candidate hash
  edits,        \* edits so far
  report,       \* reports/latest/evaluation.json: {} or one run
  workflow,     \* .raia/workflow-state.json: {} or one state
  store,        \* state.json of the provider
  shell         \* the command each shell is in the middle of

vars == <<sources, edits, report, workflow, store, shell>>

Idle == [at |-> "idle"]
At(p, step) == shell[p].at = step
Go(p, command) == shell' = [shell EXCEPT ![p] = command]
Exit(p) == Go(p, Idle)

Init ==
  /\ sources \in {c \in Candidates : BaseIn[c] = 1}
  /\ edits = 0
  /\ report = {}
  /\ workflow = {}
  /\ \E bundle \in Bundles : store = Seed(emptyState, bundle)
  /\ shell = [p \in Shells |-> Idle]

-----------------------------------------------------------------------------
(* raia test *)

MayStart(p, command) == At(p, "idle") /\ command \in Commands[p]

\* validateProject names the candidate ...
BeginTest(p) ==
  /\ Go(p, [at |-> "suites", candidate |-> sources])
  /\ UNCHANGED <<sources, edits, report, workflow, store>>
StartTest(p) == MayStart(p, "test") /\ BeginTest(p)

\* ... loadEvaluationSuite reads what is to be run ...
LoadSuites(p) ==
  /\ At(p, "suites")
  /\ \E seed \in Seeds, passed \in Outcomes :
       Go(p, [at |-> "report",
              run |-> [candidate |-> shell[p].candidate, suites |-> sources,
                       seed |-> seed, passed |-> passed]])
  /\ UNCHANGED <<sources, edits, report, workflow, store>>

\* ... and the report is written last, over the latest one.
WriteReport(p) ==
  /\ At(p, "report")
  /\ report' = {shell[p].run}
  /\ Exit(p)
  /\ UNCHANGED <<sources, edits, workflow, store>>

-----------------------------------------------------------------------------
(* raia release create *)

\* aggregateReadiness reads the lock file, ...
BeginRelease(p) ==
  /\ Go(p, [at |-> "validate", base |-> BaseIn[sources]])
  /\ UNCHANGED <<sources, edits, report, workflow, store>>
StartRelease(p) == MayStart(p, "release") /\ BeginRelease(p)

\* ... validates the project, ...
Validate(p) ==
  /\ At(p, "validate")
  /\ Go(p, [at |-> "remote", base |-> shell[p].base, candidate |-> sources])
  /\ UNCHANGED <<sources, edits, report, workflow, store>>

\* ... exports the base version and looks for a newer one, on the first page of
\* the workspace's agents: it is not seen if the agent is on another ...
CheckRemote(p) ==
  /\ At(p, "remote")
  /\ IF shell[p].base \in 1 .. Current(store)
     THEN \E listed \in OnFirstPage :
            Go(p, [at |-> "evidence", base |-> shell[p].base,
                   candidate |-> shell[p].candidate,
                   drift |-> listed /\ shell[p].base # Current(store)])
     ELSE Exit(p)
  /\ UNCHANGED <<sources, edits, report, workflow, store>>

\* Mutant: a report of another candidate will do.
ReadyOnAnyReport(candidate, drift, run) ==
  /\ candidate \in Valid
  /\ ~drift
  /\ run.passed

\* The release policy asks for a clean validation, no drift (local drift is a
\* lock that does not match), and an evaluation bound to the candidate that
\* passed.
Ready(candidate, drift, run) ==
  /\ candidate \in Valid
  /\ ~drift
  /\ run.candidate = candidate
  /\ run.passed

\* ... and reads the evaluation report.
ReadEvidence(p) ==
  /\ At(p, "evidence")
  /\ \/ \E run \in report :
          /\ Ready(shell[p].candidate, shell[p].drift, run)
          /\ Go(p, [at |-> "load", base |-> shell[p].base,
                    candidate |-> shell[p].candidate, run |-> run])
     \/ /\ ~\E run \in report : Ready(shell[p].candidate, shell[p].drift, run)
        /\ Exit(p)
  /\ UNCHANGED <<sources, edits, report, workflow, store>>

\* The workflow state is loaded, or begun, and reconciled in memory.
Load(p) ==
  /\ At(p, "load")
  /\ LET candidate == shell[p].candidate
         base == shell[p].base
         loaded == IF workflow = {} THEN initialWorkflowState(candidate, base)
                   ELSE CHOOSE w \in workflow : TRUE
         w == reconcileCandidate(loaded, candidate, base)
     IN IF w.stage = "RELEASED" /\ w.release # 0
        THEN Exit(p)
        ELSE Go(p, [at |-> "advance", base |-> base, candidate |-> candidate,
                    run |-> shell[p].run, state |-> w])
  /\ UNCHANGED <<sources, edits, report, workflow, store>>

\* Mutant: the approval stage is forgotten.
stagesButApproval ==
  [DRAFT |-> "PLANNED", PLANNED |-> "VALIDATED", VALIDATED |-> "EVALUATED"]

NextStage ==
  [DRAFT |-> "PLANNED", PLANNED |-> "VALIDATED", VALIDATED |-> "EVALUATED",
   EVALUATED |-> "APPROVED"]
EvidenceFor(stage, candidate, run) ==
  CASE stage = "PLANNED" -> {Attest("plan", candidate, {}, 0, FALSE)}
    [] stage = "VALIDATED" -> {Attest("validation", candidate, {}, 0, FALSE)}
    [] stage = "EVALUATED" -> {Attest("evaluation", candidate, {run}, 0, FALSE)}
    [] stage = "APPROVED" -> {}

\* Each stage that is left is entered and saved.
AdvanceStage(p) ==
  /\ At(p, "advance")
  /\ shell[p].state.stage \in DOMAIN NextStage
  /\ LET w == shell[p].state
         to == NextStage[w.stage]
         evidence == EvidenceFor(to, shell[p].candidate, shell[p].run)
         new == applyTransition(w, to, evidence, 0)
     IN /\ MayMove(w, to, evidence)
        /\ workflow' = {new}
        /\ Go(p, [shell[p] EXCEPT !.state = new])
  /\ UNCHANGED <<sources, edits, report, store>>

\* Mutant: a key per invocation, not per candidate.
keyPerRun(candidate, run) == <<"rc", run>>
\* The idempotency key is derived from the candidate.
releaseKey(candidate, run) == <<"rc", candidate>>

\* The one remote mutation.
Submit(p, gate) ==
  /\ At(p, "advance")
  /\ shell[p].state.stage \notin DOMAIN NextStage
  /\ LET command == shell[p]
         context == [key |-> releaseKey(command.candidate, command.run),
                     base |-> command.base, etag |-> command.base,
                     gate |-> gate]
         outcome == createReleaseCandidate(store, context, command.candidate,
                                           {command.run})
     IN /\ store' = outcome.store
        /\ IF outcome.reply.code = "OK"
           THEN Go(p, [at |-> "finish", candidate |-> command.candidate,
                       state |-> command.state, release |-> outcome.reply.id])
           ELSE Exit(p)
  /\ UNCHANGED <<sources, edits, report, workflow>>

Finish(p) ==
  /\ At(p, "finish")
  /\ LET release == shell[p].release
         evidence == {Attest("release", shell[p].candidate, {}, release, FALSE)}
     IN /\ MayMove(shell[p].state, "RELEASED", evidence)
        /\ workflow' = {applyTransition(shell[p].state, "RELEASED", evidence,
                                        release)}
  /\ Exit(p)
  /\ UNCHANGED <<sources, edits, report, store>>

-----------------------------------------------------------------------------
(* raia deploy staging *)

\* Only a workflow that has a release is deployed ...
BeginDeploy(p) ==
  /\ \E w \in workflow :
       /\ w.release # 0
       /\ Go(p, [at |-> "check", state |-> w])
  /\ UNCHANGED <<sources, edits, report, workflow, store>>
StartDeploy(p) == MayStart(p, "deploy") /\ BeginDeploy(p)

\* ... from sources that still are its candidate; otherwise the workflow is
\* invalidated, with the identity of the old candidate beside the new hash.
CheckSources(p) ==
  /\ At(p, "check")
  /\ LET w == shell[p].state IN
     IF sources = w.candidate
     THEN Go(p, [at |-> "deploy", state |-> w])
     ELSE Go(p, [at |-> "invalidate",
                 state |-> reconcileCandidate(w, sources, w.base)])
  /\ UNCHANGED <<sources, edits, report, workflow, store>>

SaveInvalidated(p) ==
  /\ At(p, "invalidate")
  /\ workflow' = {shell[p].state}
  /\ Exit(p)
  /\ UNCHANGED <<sources, edits, report, store>>

deploymentKey(release) == <<"dep", release>>

Deploy(p) ==
  /\ At(p, "deploy")
  /\ \E gate \in Gates, fixture \in Fixtures :
       LET release == shell[p].state.release
           context == [key |-> deploymentKey(release), base |-> 0, etag |-> 0,
                       gate |-> gate]
           outcome == createDeployment(store, context, release, "staging",
                                       fixture)
       IN /\ store' = outcome.store
          /\ IF outcome.reply.code = "OK"
             THEN Go(p, [at |-> "poll", state |-> shell[p].state,
                         id |-> outcome.reply.id, seen |-> outcome.reply.state,
                         polls |-> 0])
             ELSE Exit(p)
  /\ UNCHANGED <<sources, edits, report, workflow>>

Settled == {"HEALTHY", "FAILED", "ROLLED_BACK", "SUPERSEDED"}
Waiting(p) == shell[p].seen \notin Settled /\ shell[p].polls < MaxPolls

\* Polling moves the deployment, until it settles or patience ends.
PollDeployment(p) ==
  /\ At(p, "poll")
  /\ Waiting(p)
  /\ \E gate \in Gates :
       LET outcome == getDeployment(store, gate, shell[p].id) IN
       /\ store' = outcome.store
       /\ IF outcome.reply.code = "OK"
          THEN Go(p, [shell[p] EXCEPT !.seen = outcome.reply.state,
                                      !.polls = @ + 1])
          ELSE Exit(p)
  /\ UNCHANGED <<sources, edits, report, workflow>>

\* Mutant: anything but a failure counts as success.
notFailed(seen) == seen # "FAILED"
isHealthy(seen) == seen = "HEALTHY"

\* What was seen last is recorded, in the workflow as it was at the start.
RecordDeployment(p) ==
  /\ At(p, "poll")
  /\ ~Waiting(p)
  /\ LET w == shell[p].state
         id == shell[p].id
         item == Attest("deployment", w.candidate, {}, id,
                        isHealthy(shell[p].seen))
     IN workflow' = {[w EXCEPT !.deployments = @ \cup {id},
                               !.evidence = @ \cup {item}]}
  /\ Exit(p)
  /\ UNCHANGED <<sources, edits, report, store>>

-----------------------------------------------------------------------------
(* Everything else *)

\* A command ends early, by itself or not.
EndEarly(p) ==
  /\ ~At(p, "idle")
  /\ Exit(p)
  /\ UNCHANGED <<sources, edits, report, workflow, store>>

\* The developer edits the project, or pulls the remote's current version.
EditSources ==
  /\ edits < MaxEdits
  /\ \E c \in Candidates \ {sources} :
       /\ BaseIn[c] <= Current(store)
       /\ sources' = c
  /\ edits' = edits + 1
  /\ UNCHANGED <<report, workflow, store, shell>>

\* Somebody changes the agent at the provider.
RemoteAdvances ==
  /\ Current(store) < MaxVersions
  /\ \E bundle \in Bundles : store' = Advance(store, bundle)
  /\ UNCHANGED <<sources, edits, report, workflow, shell>>

Test(p) == StartTest(p) \/ LoadSuites(p) \/ WriteReport(p)
ReleaseStep(p) ==
  Validate(p) \/ CheckRemote(p) \/ ReadEvidence(p) \/ Load(p)
    \/ AdvanceStage(p) \/ (\E gate \in Gates : Submit(p, gate)) \/ Finish(p)
DeployStep(p) ==
  CheckSources(p) \/ SaveInvalidated(p) \/ Deploy(p) \/ PollDeployment(p)
    \/ RecordDeployment(p)

Next ==
  \/ \E p \in Shells :
       \/ Test(p)
       \/ StartRelease(p) \/ ReleaseStep(p)
       \/ StartDeploy(p) \/ DeployStep(p)
       \/ EndEarly(p)
  \/ EditSources
  \/ RemoteAdvances

Spec == Init /\ [][Next]_vars

-----------------------------------------------------------------------------
(* What the commands promise *)

\* Whatever was interrupted, edited or run at the same time, the saved workflow
\* moved through the lifecycle step by step, carries no evidence of another
\* candidate, and from EVALUATED on rests on a passed evaluation of its own
\* (reconcileCandidate, applyTransition, runReleaseCreate).
WorkflowSound ==
  \A w \in workflow : HistoryIsLegal(w) /\ EvidenceSupports(w)

\* What the workflow says of the provider is so: it is RELEASED when and only
\* when it names a release, which exists and is of its candidate, and the
\* deployments it lists are of that release and recorded as healthy only if they
\* became HEALTHY or were rolled back, however few polls were left (release.ts:185,
\* deploy.ts:86-119).
RecordIsTrue(s, w) ==
  /\ w.release # 0 <=> w.stage = "RELEASED"
  /\ w.release # 0 =>
       /\ w.release \in DOMAIN s.releases
       /\ s.releases[w.release].candidate = w.candidate
  /\ \A id \in w.deployments :
       /\ id \in DOMAIN s.deployments
       /\ s.deployments[id].release = w.release
  /\ \A item \in w.evidence :
       item.type = "deployment" /\ item.healthy =>
         /\ item.id \in DOMAIN s.deployments
         /\ s.deployments[item.id].state \in HasBeenHealthy
RecordsAreTrue == \A w \in workflow : RecordIsTrue(store, w)

\* However often commands are retried, cut short or run side by side, a
\* candidate has one release and a release has one staging deployment
\* (release.ts:161, deploy.ts:82).
MadeOnce ==
  /\ \A i, j \in DOMAIN store.releases :
       store.releases[i].candidate = store.releases[j].candidate => i = j
  /\ \A i, j \in DOMAIN store.deployments :
       store.deployments[i].release = store.deployments[j].release => i = j

\* A release was requested with a passed evaluation bound to its candidate,
\* which validates (readiness.ts:88, release.ts:56).
ReleasesWereEvaluated ==
  \A k \in DOMAIN store.idempotency :
    LET request == store.idempotency[k].request IN
    request.operation = "createReleaseCandidate" =>
      /\ request.candidate \in Valid
      /\ \A run \in request.evidence :
           run.candidate = request.candidate /\ run.passed

\* One command at a time never rewrites what earlier ones did: the history only
\* grows ("History is preserved", workflow-state.ts:65).
HistoryPreserved ==
  [][\A old \in workflow, new \in workflow' :
       /\ Len(old.history) <= Len(new.history)
       /\ SubSeq(new.history, 1, Len(old.history)) = old.history]_vars

-----------------------------------------------------------------------------
(* Progress *)

Released == \E w \in workflow : w.stage = "RELEASED" /\ w.candidate = sources

\* Nothing of the developer's stands in the way of a release.
Releasable ==
  /\ sources \in Valid
  /\ BaseIn[sources] = Current(store)
  /\ \E run \in report : run.candidate = sources /\ run.passed

\* A developer who wants the release runs the command again and again; a started
\* command goes on; the provider is available now and then.
Fairness ==
  \A p \in Shells :
    /\ SF_vars(StartRelease(p))
    /\ WF_vars(Test(p) \/ ReleaseStep(p) \/ DeployStep(p))
    /\ SF_vars(Submit(p, "OK"))
FairSpec == Spec /\ Fairness

\* The provider has bound the key of these sources to a release request with an
\* evaluation other than the one in the report.
BoundToOtherEvidence ==
  \E run \in report :
    LET key == releaseKey(sources, run) IN
    /\ key \in DOMAIN store.idempotency
    /\ store.idempotency[key].request # ReleaseRequest(sources, {run})

\* The step that comes next may end the command with a refusal: the base or the
\* deployment is unknown, the policy is not content, or the provider answers with
\* an error.
MayBeRefused(p) ==
  \/ At(p, "remote") /\ shell[p].base \notin 1 .. Current(store)
  \/ At(p, "evidence")
       /\ ~\E run \in report : Ready(shell[p].candidate, shell[p].drift, run)
  \/ At(p, "advance") /\ shell[p].state.stage \notin DOMAIN NextStage
  \/ At(p, "deploy") \/ At(p, "poll")
CutShort(p) == EndEarly(p) /\ ~MayBeRefused(p)
NoLongerCutShort == <>[][\A p \in Shells : ~CutShort(p)]_vars

\* From whatever stage earlier commands were interrupted at, the release is
\* completed once sources, report and remote stay ready and commands end by
\* themselves, refused ones included.  One way to be stuck is left: the key of
\* the candidate stays bound to a request with other evidence (release.ts:139-192,
\* ADR 0004 section 1).
ReleaseCompletes ==
  <>[](Releasable /\ ~BoundToOtherEvidence) /\ NoLongerCutShort => <>Released

\* "Retrying the same logical operation therefore replays to the same result"
\* (ADR 0004 section 2): without that exception.  The release of a candidate that
\* was submitted, cut short and evaluated again is refused with
\* IDEMPOTENCY_MISMATCH at every retry (release.ts:161-181).
RetriesReplay ==
  <>[]Releasable /\ NoLongerCutShort /\ <>[][report' = report]_vars => <>Released
=============================================================================
