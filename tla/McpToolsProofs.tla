-------------------------- MODULE McpToolsProofs --------------------------
(***************************************************************************)
(* Theorems about ReleaseFlow and McpTools.                                *)
(*                                                                         *)
(* Of the commands, for any number of shells that run any of them side by  *)
(* side, any candidates and any number of edits and polls.  The argument:  *)
(* every workflow state that is saved, and every copy of one that a        *)
(* command holds, is good (Good), whatever other copies there are, and     *)
(* stays good as the provider's state goes on (GoodStays); a command makes *)
(* good states of good ones.                                               *)
(*                                                                         *)
(* Of the tools: what is proved of the commands holds with the tools       *)
(* beside them, since a tool runs the same steps; what the status tells is *)
(* true; and a tool works on what was named, or its call was overtaken.    *)
(***************************************************************************)
EXTENDS McpTools, ProviderStateProofs, FiniteSetTheorems

-----------------------------------------------------------------------------
(* Good workflow states *)

Moves ==
  [from : ChangeStates \cup {"NONE"}, to : ChangeStates, candidate : Candidates]

WorkflowFields ==
  {"stage", "candidate", "base", "evidence", "release", "deployments", "history"}

\* w has the shape of its schema.
WorkflowTyped(w) ==
  /\ DOMAIN w = WorkflowFields
  /\ w.stage \in ChangeStates /\ w.candidate \in Candidates /\ w.base \in Nat
  /\ w.release \in Nat
  /\ w.history \in Seq(Moves) /\ w.history # << >>

\* w may be saved beside the provider's state s.
Good(s, w) ==
  /\ WorkflowTyped(w)
  /\ HistoryIsLegal(w)
  /\ EvidenceSupports(w)
  /\ RecordIsTrue(s, w)

LEMMA HasBeenHealthyStays ==
  ASSUME NEW a \in HasBeenHealthy, NEW b,
         b = a \/ decideDeploymentTransition(a, b)
  PROVE  b \in HasBeenHealthy
  BY DEF HasBeenHealthy, decideDeploymentTransition, DEPLOYMENT_TRANSITIONS

LEMMA GoodStays ==
  ASSUME NEW s, NEW t, StoreFollows(s, t), NEW w, Good(s, w)
  PROVE  Good(t, w)
  <1>1. RecordIsTrue(t, w)
    <2>1. \A i \in DOMAIN s.releases :
            i \in DOMAIN t.releases /\ t.releases[i] = s.releases[i]
      BY DEF StoreFollows, Extends
    <2>2. \A i \in DOMAIN s.deployments :
            /\ i \in DOMAIN t.deployments
            /\ t.deployments[i].release = s.deployments[i].release
            /\ s.deployments[i].state \in HasBeenHealthy =>
                 t.deployments[i].state \in HasBeenHealthy
      BY HasBeenHealthyStays DEF StoreFollows, Follows
    <2> QED BY <2>1, <2>2 DEF Good, RecordIsTrue
  <1> QED BY <1>1 DEF Good

\* A history that goes on by one legal move is legal.
LEMMA HistoryGoesOn ==
  ASSUME NEW w, WorkflowTyped(w), HistoryIsLegal(w), NEW v, NEW move \in Moves,
         v.history = Append(w.history, move),
         v.stage = move.to, v.candidate = move.candidate,
         move.from = w.stage,
         \/ /\ move.candidate = w.candidate
            /\ decideChangeTransition(move.from, move.to)
         \/ /\ move.candidate # w.candidate
            /\ move.to = "DRAFT"
  PROVE  /\ HistoryIsLegal(v)
         /\ v.history \in Seq(Moves) /\ v.history # << >>
  <1> DEFINE h == w.history
             g == v.history
             n == Len(h)
  <1>1. h \in Seq(Moves) /\ h # << >>
    BY DEF WorkflowTyped
  <1>2. /\ n \in Nat /\ n >= 1 /\ Len(g) = n + 1 /\ g[n + 1] = move
        /\ \A i \in 1 .. n : g[i] = h[i]
        /\ g \in Seq(Moves) /\ g # << >>
    BY <1>1
  <1>3. /\ h[1] = Moved("NONE", "DRAFT", h[1].candidate)
        /\ \A i \in 2 .. n :
             /\ h[i].from = h[i - 1].to
             /\ \/ /\ h[i].candidate = h[i - 1].candidate
                   /\ decideChangeTransition(h[i].from, h[i].to)
                \/ /\ h[i].candidate # h[i - 1].candidate
                   /\ h[i].to = "DRAFT"
        /\ h[n].to = w.stage /\ h[n].candidate = w.candidate
    BY DEF HistoryIsLegal
  <1> HIDE DEF h, g, n
  <1>4. ASSUME NEW i \in 2 .. n + 1
        PROVE  /\ g[i].from = g[i - 1].to
               /\ \/ /\ g[i].candidate = g[i - 1].candidate
                     /\ decideChangeTransition(g[i].from, g[i].to)
                  \/ /\ g[i].candidate # g[i - 1].candidate
                     /\ g[i].to = "DRAFT"
    <2>1. CASE i = n + 1
      <3>1. i - 1 = n /\ n \in 1 .. n
        BY <1>2, <2>1
      <3> QED BY <1>2, <1>3, <2>1, <3>1
    <2>2. CASE i # n + 1
      <3>1. i \in 2 .. n /\ i \in 1 .. n /\ i - 1 \in 1 .. n
        BY <1>2, <2>2
      <3> QED BY <1>2, <1>3, <3>1
    <2> QED BY <2>1, <2>2
  <1>5. g[1] = Moved("NONE", "DRAFT", g[1].candidate)
    BY <1>2, <1>3
  <1> QED BY <1>2, <1>4, <1>5 DEF HistoryIsLegal, g

-----------------------------------------------------------------------------
(* What the functions of WorkflowState make is good *)

LEMMA InitialGood ==
  ASSUME NEW s, NEW candidate \in Candidates, NEW base \in Nat
  PROVE  /\ Good(s, initialWorkflowState(candidate, base))
         /\ initialWorkflowState(candidate, base).candidate = candidate
  <1> DEFINE w == initialWorkflowState(candidate, base)
             first == Moved("NONE", "DRAFT", candidate)
  <1>1. /\ first \in Moves /\ first.to = "DRAFT"
        /\ first.candidate = candidate
    BY DEF Moved, Moves, ChangeStates
  <1>2. /\ w.stage = "DRAFT" /\ w.candidate = candidate /\ w.base = base
        /\ w.evidence = {} /\ w.release = 0 /\ w.deployments = {}
        /\ w.history = <<first>>
    BY DEF initialWorkflowState
  <1>3. WorkflowTyped(w)
    <2>1. DOMAIN w = WorkflowFields
      <3> HIDE DEF first
      <3> QED BY DEF initialWorkflowState, WorkflowFields
    <2> HIDE DEF w, first
    <2> QED BY <1>1, <1>2, <2>1 DEF WorkflowTyped, ChangeStates
  <1>4. HistoryIsLegal(w)
    <2>1. Len(w.history) = 1 /\ w.history[1] = first
      BY <1>2
    <2>2. first = Moved("NONE", "DRAFT", first.candidate)
      BY <1>1
    <2> HIDE DEF w, first
    <2> QED BY <1>1, <1>2, <2>1, <2>2 DEF HistoryIsLegal
  <1> HIDE DEF w
  <1>5. EvidenceSupports(w) /\ RecordIsTrue(s, w)
    BY <1>2 DEF EvidenceSupports, RecordIsTrue
  <1> QED BY <1>2, <1>3, <1>4, <1>5 DEF Good, w

LEMMA ReconcileGood ==
  ASSUME NEW s, NEW w, Good(s, w), NEW candidate \in Candidates,
         NEW base \in Nat
  PROVE  /\ Good(s, reconcileCandidate(w, candidate, base))
         /\ reconcileCandidate(w, candidate, base).candidate = candidate
  <1> DEFINE v == reconcileCandidate(w, candidate, base)
             move == Moved(w.stage, "DRAFT", candidate)
  <1>1. CASE w.candidate = candidate
    BY <1>1 DEF reconcileCandidate
  <1>2. CASE w.candidate # candidate
    <2>1. WorkflowTyped(w) /\ HistoryIsLegal(w)
      BY DEF Good
    <2>2. /\ v.stage = "DRAFT" /\ v.candidate = candidate /\ v.base = base
          /\ v.evidence = {} /\ v.release = 0 /\ v.deployments = {}
          /\ v.history = Append(w.history, move)
          /\ DOMAIN v = WorkflowFields
      BY <1>2, <2>1, SMTT(30)
         DEF reconcileCandidate, WorkflowTyped, WorkflowFields
    <2>3. /\ move \in Moves /\ move.to = "DRAFT" /\ move.from = w.stage
          /\ move.candidate = candidate
      BY <2>1 DEF Moved, Moves, ChangeStates, WorkflowTyped
    <2> HIDE DEF v, move
    <2>4. HistoryIsLegal(v) /\ v.history \in Seq(Moves) /\ v.history # << >>
      BY <1>2, <2>1, <2>2, <2>3, HistoryGoesOn
    <2>5. WorkflowTyped(v)
      BY <2>2, <2>4 DEF WorkflowTyped, ChangeStates
    <2>6. EvidenceSupports(v) /\ RecordIsTrue(s, v)
      BY <2>2 DEF EvidenceSupports, RecordIsTrue
    <2> QED BY <2>2, <2>4, <2>5, <2>6 DEF Good, v
  <1> QED BY <1>1, <1>2

\* A release that s has, of the candidate.
HasRelease(s, release, candidate) ==
  /\ release \in DOMAIN s.releases
  /\ s.releases[release].candidate = candidate

\* A state that is not RELEASED lists no deployments: the provider has none of
\* release 0.
LEMMA NothingDeployed ==
  ASSUME NEW s, StoreSound(s), NEW w, Good(s, w), w.release = 0
  PROVE  w.deployments = {}
  <1>1. \A id \in DOMAIN s.deployments :
          s.deployments[id].release \in DOMAIN s.releases
    BY DEF StoreSound, DeploymentsCreatedOnce
  <1>2. 0 \notin DOMAIN s.releases
    <2>1. s.releases \in Seq(Releases)
      BY DEF StoreSound, IsMockState
    <2> QED BY <2>1
  <1> QED BY <1>1, <1>2 DEF Good, RecordIsTrue

LEMMA TransitionGood ==
  ASSUME NEW s, StoreSound(s), NEW w, Good(s, w), NEW to \in ChangeStates,
         NEW evidence, MayMove(w, to, evidence), NEW release \in Nat,
         \A item \in evidence : item.type # "deployment",
         to = "EVALUATED" =>
           \E item \in evidence :
             /\ item.type = "evaluation"
             /\ \E run \in item.run : run.candidate = w.candidate /\ run.passed,
         to = "RELEASED" => HasRelease(s, release, w.candidate),
         to # "RELEASED" => release = 0
  PROVE  /\ Good(s, applyTransition(w, to, evidence, release))
         /\ applyTransition(w, to, evidence, release).candidate = w.candidate
  <1> DEFINE v == applyTransition(w, to, evidence, release)
             move == Moved(w.stage, to, w.candidate)
  <1>1. WorkflowTyped(w) /\ HistoryIsLegal(w) /\ EvidenceSupports(w)
          /\ RecordIsTrue(s, w)
    BY DEF Good
  <1>2. /\ decideChangeTransition(w.stage, to)
        /\ \A item \in evidence : item.candidate = w.candidate
    BY DEF MayMove
  <1>3. /\ v.stage = to /\ v.candidate = w.candidate /\ v.base = w.base
        /\ v.evidence = w.evidence \cup evidence
        /\ v.release = IF release = 0 THEN w.release ELSE release
        /\ v.deployments = w.deployments
        /\ v.history = Append(w.history, move)
        /\ DOMAIN v = WorkflowFields
    BY <1>1, SMTT(30) DEF applyTransition, WorkflowTyped, WorkflowFields
  <1>4. /\ move \in Moves /\ move.to = to /\ move.from = w.stage
        /\ move.candidate = w.candidate
    BY <1>1 DEF Moved, Moves, WorkflowTyped
  <1>5. /\ w.stage # "RELEASED"
        /\ to = "APPROVED" => w.stage = "EVALUATED"
        /\ to = "RELEASED" => w.stage = "APPROVED"
    BY <1>1, <1>2 DEF decideChangeTransition, CHANGE_TRANSITIONS,
                      ChangeStates, WorkflowTyped
  <1> HIDE DEF v, move
  <1>6. HistoryIsLegal(v) /\ v.history \in Seq(Moves) /\ v.history # << >>
    BY <1>1, <1>2, <1>3, <1>4, HistoryGoesOn
  <1>7. WorkflowTyped(v)
    BY <1>1, <1>3, <1>6 DEF WorkflowTyped
  <1>8. EvidenceSupports(v)
    BY <1>1, <1>2, <1>3, <1>5 DEF EvidenceSupports
  <1>9. RecordIsTrue(s, v)
    <2>1. w.release = 0 /\ w.deployments = {}
      BY <1>1, <1>5, NothingDeployed DEF RecordIsTrue
    <2>2. to = "RELEASED" => release # 0
      <3>1. s.releases \in Seq(Releases)
        BY DEF StoreSound, IsMockState
      <3> QED BY <3>1 DEF HasRelease
    <2>3. \A item \in v.evidence :
            item.type = "deployment" /\ item.healthy =>
              /\ item.id \in DOMAIN s.deployments
              /\ s.deployments[item.id].state \in HasBeenHealthy
      BY <1>1, <1>3 DEF RecordIsTrue
    <2> QED BY <1>3, <2>1, <2>2, <2>3 DEF RecordIsTrue, HasRelease
  <1> QED BY <1>3, <1>6, <1>7, <1>8, <1>9 DEF Good, v

LEMMA RecordGood ==
  ASSUME NEW s, NEW w, Good(s, w), NEW id \in DOMAIN s.deployments,
         s.deployments[id].release = w.release, NEW healthy,
         healthy => s.deployments[id].state \in HasBeenHealthy
  PROVE  LET item == Attest("deployment", w.candidate, {}, id, healthy) IN
         Good(s, [w EXCEPT !.deployments = @ \cup {id},
                           !.evidence = @ \cup {item}])
  <1> DEFINE item == Attest("deployment", w.candidate, {}, id, healthy)
             v == [w EXCEPT !.deployments = @ \cup {id},
                            !.evidence = @ \cup {item}]
  <1>1. WorkflowTyped(w) /\ HistoryIsLegal(w) /\ EvidenceSupports(w)
          /\ RecordIsTrue(s, w)
    BY DEF Good
  <1>2. /\ v.stage = w.stage /\ v.candidate = w.candidate /\ v.base = w.base
        /\ v.evidence = w.evidence \cup {item}
        /\ v.release = w.release
        /\ v.deployments = w.deployments \cup {id}
        /\ v.history = w.history
        /\ DOMAIN v = WorkflowFields
    <2> HIDE DEF item
    <2> QED BY <1>1, SMTT(30) DEF WorkflowTyped, WorkflowFields
  <1>3. /\ item.type = "deployment" /\ item.candidate = w.candidate
        /\ item.id = id /\ item.healthy = healthy
    BY DEF Attest
  <1> HIDE DEF v, item
  <1>4. WorkflowTyped(v)
    BY <1>1, <1>2 DEF WorkflowTyped
  <1>5. HistoryIsLegal(v)
    BY <1>1, <1>2 DEF HistoryIsLegal
  <1>6. EvidenceSupports(v)
    BY <1>1, <1>2, <1>3 DEF EvidenceSupports
  <1>7. RecordIsTrue(s, v)
    BY <1>1, <1>2, <1>3 DEF RecordIsTrue
  <1> QED BY <1>4, <1>5, <1>6, <1>7 DEF Good, v, item

-----------------------------------------------------------------------------
(* The inductive invariant *)

\* Every request came from a command: it was made under the key that the command
\* derives, and of a release, with a passed evaluation of its candidate.
RequestsSound(s) ==
  \A k \in DOMAIN s.idempotency :
    LET request == s.idempotency[k].request IN
    /\ request.operation = "createReleaseCandidate" =>
         /\ k = <<"rc", request.candidate>>
         /\ request.candidate \in Valid
         /\ \A run \in request.evidence :
              run.candidate = request.candidate /\ run.passed
    /\ request.operation = "createDeployment" =>
         k = <<"dep", request.release>>

\* run may be the evidence of a release of candidate.
Approved(candidate, run) ==
  /\ candidate \in Valid
  /\ run \in Runs /\ run.candidate = candidate /\ run.passed

AdvanceFields == {"at", "base", "candidate", "run", "state"}
PollFields == {"at", "state", "id", "seen", "polls"}

\* What a command in the middle of its steps relies on, beside the provider's
\* state s.
CommandSound(s, c) ==
  /\ c.at = "suites" => c.candidate \in Candidates
  /\ c.at = "report" => c.run \in Runs
  /\ c.at = "validate" => c.base \in Nat
  /\ c.at \in {"remote", "evidence"} =>
       c.base \in Nat /\ c.candidate \in Candidates
  /\ c.at = "load" => c.base \in Nat /\ Approved(c.candidate, c.run)
  /\ c.at = "advance" =>
       /\ DOMAIN c = AdvanceFields
       /\ c.base \in Nat /\ Approved(c.candidate, c.run)
       /\ Good(s, c.state) /\ c.state.candidate = c.candidate
  /\ c.at = "finish" =>
       /\ Good(s, c.state) /\ c.state.candidate = c.candidate
       /\ HasRelease(s, c.release, c.candidate)
  /\ c.at \in {"check", "deploy"} => Good(s, c.state) /\ c.state.release # 0
  /\ c.at = "invalidate" => Good(s, c.state)
  /\ c.at = "poll" =>
       /\ DOMAIN c = PollFields
       /\ Good(s, c.state)
       /\ c.id \in DOMAIN s.deployments
       /\ s.deployments[c.id].release = c.state.release
       /\ c.seen = "HEALTHY" => s.deployments[c.id].state \in HasBeenHealthy

Inv ==
  /\ sources \in Candidates
  /\ report \subseteq Runs
  /\ StoreSound(store) /\ RequestsSound(store)
  /\ \A w \in workflow : Good(store, w)
  /\ DOMAIN shell = Shells
  /\ \A p \in Shells : CommandSound(store, shell[p])

LEMMA CommandStays ==
  ASSUME NEW s, NEW t, StoreFollows(s, t), NEW c, CommandSound(s, c)
  PROVE  CommandSound(t, c)
  <1>1. Good(s, c.state) => Good(t, c.state)
    BY GoodStays
  <1>2. c.at = "finish" => HasRelease(t, c.release, c.candidate)
    BY DEF CommandSound, HasRelease, StoreFollows, Extends
  <1>3. c.at = "poll" =>
          /\ c.id \in DOMAIN t.deployments
          /\ t.deployments[c.id].release = c.state.release
          /\ c.seen = "HEALTHY" => t.deployments[c.id].state \in HasBeenHealthy
    BY HasBeenHealthyStays DEF CommandSound, StoreFollows, Follows
  <1> QED BY <1>1, <1>2, <1>3 DEF CommandSound

LEMMA IdleSound ==
  ASSUME NEW s
  PROVE  CommandSound(s, Idle)
  BY DEF CommandSound, Idle

\* Requests that were sound stay so when a sound one is added.
LEMMA RequestsStay ==
  ASSUME NEW s, RequestsSound(s), NEW t, NEW key, NEW request,
         KeysFollow(s, key, request, t),
         request.operation = "createReleaseCandidate" =>
           /\ key = <<"rc", request.candidate>>
           /\ request.candidate \in Valid
           /\ \A run \in request.evidence :
                run.candidate = request.candidate /\ run.passed,
         request.operation = "createDeployment" =>
           key = <<"dep", request.release>>
  PROVE  RequestsSound(t)
  BY DEF RequestsSound, KeysFollow

\* What a step leaves to show: what was good stays good by itself.
LEMMA StepSound ==
  ASSUME Inv, sources' \in Candidates, report' \subseteq Runs,
         StoreSound(store'), RequestsSound(store'),
         StoreFollows(store, store'),
         \A w \in workflow' : w \in workflow \/ Good(store', w),
         \/ shell' = shell
         \/ \E p \in Shells : \E c : /\ shell' = [shell EXCEPT ![p] = c]
                                     /\ CommandSound(store', c)
  PROVE  Inv' /\ StoreFollows(store, store')
  <1>1. \A w \in workflow : Good(store', w)
    BY GoodStays DEF Inv
  <1>2. \A p \in Shells : CommandSound(store', shell[p])
    BY CommandStays DEF Inv
  <1>3. DOMAIN shell' = Shells
    BY DEF Inv
  <1>4. \A p \in Shells : CommandSound(store', shell'[p])
    BY <1>2 DEF Inv
  <1> QED BY <1>1, <1>3, <1>4 DEF Inv

\* A step of a command that only reads.
LEMMA ReadingStep ==
  ASSUME Inv, NEW p \in Shells, NEW c, Go(p, c), CommandSound(store, c),
         UNCHANGED <<sources, edits, report, workflow, store>>
  PROVE  Inv' /\ StoreFollows(store, store')
  <1>1. /\ StoreSound(store) /\ RequestsSound(store)
        /\ sources \in Candidates /\ report \subseteq Runs
    BY DEF Inv
  <1>2. StoreFollows(store, store')
    BY FollowsSelf
  <1> QED BY <1>1, <1>2, StepSound DEF Go

LEMMA InitSound == Init => Inv
  <1> SUFFICES ASSUME Init PROVE Inv
    OBVIOUS
  <1>1. StoreSound(store) /\ RequestsSound(store)
    <2>1. PICK bundle \in Bundles : store = Seed(emptyState, bundle)
      BY DEF Init
    <2>2. StoreSound(store) /\ store.idempotency = emptyState.idempotency
      BY <2>1, EmptySound, VersionsPromise
    <2>3. DOMAIN store.idempotency = {}
      BY <2>2 DEF emptyState
    <2> QED BY <2>2, <2>3 DEF RequestsSound
  <1>2. DOMAIN shell = Shells /\ \A p \in Shells : shell[p] = Idle
    BY DEF Init
  <1>3. \A p \in Shells : CommandSound(store, shell[p])
    BY <1>2, IdleSound
  <1> QED BY <1>1, <1>2, <1>3 DEF Init, Inv

-----------------------------------------------------------------------------
(* What a command does first *)

LEMMA BeginSound ==
  ASSUME Inv, NEW p \in Shells,
         BeginTest(p) \/ BeginRelease(p) \/ BeginDeploy(p)
  PROVE  Inv' /\ StoreFollows(store, store')
  <1>1. CASE BeginTest(p)
    <2> DEFINE c == [at |-> "suites", candidate |-> sources]
    <2>1. CommandSound(store, c)
      BY DEF CommandSound, Inv
    <2> QED BY <1>1, <2>1, ReadingStep DEF BeginTest
  <1>2. CASE BeginRelease(p)
    <2> DEFINE c == [at |-> "validate", base |-> BaseIn[sources]]
    <2>1. CommandSound(store, c)
      BY BasesAreVersions DEF CommandSound, Inv
    <2> QED BY <1>2, <2>1, ReadingStep DEF BeginRelease
  <1>3. CASE BeginDeploy(p)
    <2>1. PICK w \in workflow :
            w.release # 0 /\ Go(p, [at |-> "check", state |-> w])
      BY <1>3 DEF BeginDeploy
    <2> DEFINE c == [at |-> "check", state |-> w]
    <2>2. CommandSound(store, c)
      BY <2>1 DEF CommandSound, Inv
    <2>3. UNCHANGED <<sources, edits, report, workflow, store>>
      BY <1>3 DEF BeginDeploy
    <2> QED BY <2>1, <2>2, <2>3, ReadingStep
  <1> QED BY <1>1, <1>2, <1>3

-----------------------------------------------------------------------------
(* raia test *)

LEMMA TestSound ==
  ASSUME Inv, NEW p \in Shells, Test(p)
  PROVE  Inv' /\ StoreFollows(store, store')
  <1>1. CASE StartTest(p)
    BY <1>1, BeginSound DEF StartTest
  <1>2. CASE LoadSuites(p)
    <2>1. PICK seed \in Seeds, passed \in Outcomes :
            Go(p, [at |-> "report",
                   run |-> [candidate |-> shell[p].candidate,
                            suites |-> sources, seed |-> seed,
                            passed |-> passed]])
      BY <1>2 DEF LoadSuites
    <2> DEFINE run == [candidate |-> shell[p].candidate, suites |-> sources,
                       seed |-> seed, passed |-> passed]
               c == [at |-> "report", run |-> run]
    <2>2. shell[p].candidate \in Candidates /\ sources \in Candidates
      BY <1>2 DEF LoadSuites, At, Inv, CommandSound
    <2>3. run \in Runs
      BY <2>2 DEF Runs
    <2>4. CommandSound(store, c)
      <3> HIDE DEF run
      <3> QED BY <2>3 DEF CommandSound
    <2> QED BY <1>2, <2>1, <2>4, ReadingStep DEF LoadSuites
  <1>3. CASE WriteReport(p)
    <2>1. /\ report' = {shell[p].run} /\ Exit(p)
          /\ UNCHANGED <<sources, edits, workflow, store>>
      BY <1>3 DEF WriteReport
    <2>2. shell[p].run \in Runs
      BY <1>3 DEF WriteReport, At, Inv, CommandSound
    <2>3. CommandSound(store', Idle) /\ StoreFollows(store, store')
      BY <2>1, IdleSound, FollowsSelf
    <2> QED BY <2>1, <2>2, <2>3, StepSound DEF Exit, Go, Inv
  <1> QED BY <1>1, <1>2, <1>3 DEF Test

-----------------------------------------------------------------------------
(* raia release create *)

\* Between two stages of the workflow, up to APPROVED.
LEMMA StageGood ==
  ASSUME NEW s, StoreSound(s), NEW w, Good(s, w), w.stage \in DOMAIN NextStage,
         NEW run, Approved(w.candidate, run),
         MayMove(w, NextStage[w.stage],
                 EvidenceFor(NextStage[w.stage], w.candidate, run))
  PROVE  LET to == NextStage[w.stage]
             new == applyTransition(w, to, EvidenceFor(to, w.candidate, run), 0)
         IN Good(s, new) /\ new.candidate = w.candidate
  <1> DEFINE to == NextStage[w.stage]
             evidence == EvidenceFor(to, w.candidate, run)
  <1>1. to \in {"PLANNED", "VALIDATED", "EVALUATED", "APPROVED"}
    BY DEF NextStage
  <1>2. \A item \in evidence : item.type # "deployment"
    BY <1>1 DEF EvidenceFor, Attest
  <1>3. to = "EVALUATED" =>
          \E item \in evidence :
            /\ item.type = "evaluation"
            /\ \E r \in item.run : r.candidate = w.candidate /\ r.passed
    <2> DEFINE item == Attest("evaluation", w.candidate, {run}, 0, FALSE)
    <2>1. /\ item.type = "evaluation" /\ item.run = {run}
          /\ run.candidate = w.candidate /\ run.passed
      BY DEF Attest, Approved
    <2>2. to = "EVALUATED" => evidence = {item}
      BY DEF EvidenceFor
    <2> HIDE DEF item, to, evidence
    <2> QED BY <2>1, <2>2
  <1>4. to \in ChangeStates /\ to # "RELEASED"
    BY <1>1 DEF ChangeStates
  <1> HIDE DEF to, evidence
  <1> QED BY <1>2, <1>3, <1>4, TransitionGood DEF to, evidence

LEMMA LoadSound ==
  ASSUME Inv, NEW p \in Shells, Load(p)
  PROVE  Inv' /\ StoreFollows(store, store')
  <1> DEFINE candidate == shell[p].candidate
             base == shell[p].base
             run == shell[p].run
             loaded == IF workflow = {}
                       THEN initialWorkflowState(candidate, base)
                       ELSE CHOOSE w \in workflow : TRUE
             w == reconcileCandidate(loaded, candidate, base)
             c == [at |-> "advance", base |-> base, candidate |-> candidate,
                   run |-> run, state |-> w]
  <1>1. /\ base \in Nat /\ Approved(candidate, run) /\ candidate \in Candidates
    BY ValidAreCandidates DEF Load, At, Inv, CommandSound, Approved
  <1>2. Good(store, loaded)
    <2>1. CASE workflow = {}
      BY <1>1, <2>1, InitialGood
    <2>2. CASE workflow # {}
      BY <2>2 DEF Inv
    <2> QED BY <2>1, <2>2
  <1>3. Good(store, w) /\ w.candidate = candidate
    <2> HIDE DEF loaded, candidate, base
    <2> QED BY <1>1, <1>2, ReconcileGood
  <1>4. CommandSound(store, c)
    <2> HIDE DEF w, base, run, candidate
    <2>1. DOMAIN c = AdvanceFields
      BY DEF AdvanceFields
    <2> QED BY <1>1, <1>3, <2>1 DEF CommandSound
  <1>5. \/ Go(p, c)
        \/ Exit(p)
    BY DEF Load
  <1>6. UNCHANGED <<sources, edits, report, workflow, store>>
    BY DEF Load
  <1> HIDE DEF c
  <1> QED BY <1>4, <1>5, <1>6, IdleSound, ReadingStep DEF Exit

LEMMA AdvanceStageSound ==
  ASSUME Inv, NEW p \in Shells, AdvanceStage(p)
  PROVE  Inv' /\ StoreFollows(store, store')
  <1> DEFINE command == shell[p]
             w == command.state
             to == NextStage[w.stage]
             evidence == EvidenceFor(to, command.candidate, command.run)
             new == applyTransition(w, to, evidence, 0)
             c == [command EXCEPT !.state = new]
  <1>1. /\ command.at = "advance" /\ DOMAIN command = AdvanceFields
        /\ command.base \in Nat /\ Approved(command.candidate, command.run)
        /\ Good(store, w) /\ w.candidate = command.candidate
    BY DEF AdvanceStage, At, Inv, CommandSound
  <1>2. /\ w.stage \in DOMAIN NextStage
        /\ MayMove(w, to, evidence)
        /\ workflow' = {new}
        /\ Go(p, c)
        /\ UNCHANGED <<sources, edits, report, store>>
    BY DEF AdvanceStage
  <1>3. StoreSound(store)
    BY DEF Inv
  <1>4. Good(store, new) /\ new.candidate = command.candidate
    <2> HIDE DEF command
    <2> QED BY <1>1, <1>2, <1>3, StageGood
  <1>5. /\ c.at = "advance" /\ DOMAIN c = AdvanceFields /\ c.state = new
        /\ c.base = command.base /\ c.candidate = command.candidate
        /\ c.run = command.run
    <2> HIDE DEF new, command
    <2> QED BY <1>1 DEF AdvanceFields
  <1> HIDE DEF c, new
  <1>6. CommandSound(store', c)
    BY <1>1, <1>2, <1>4, <1>5 DEF CommandSound
  <1>7. StoreFollows(store, store')
    BY <1>2, FollowsSelf
  <1> QED BY <1>2, <1>4, <1>6, <1>7, StepSound DEF Go, Inv

LEMMA SubmitSound ==
  ASSUME Inv, NEW p \in Shells, NEW gate \in Gates, Submit(p, gate)
  PROVE  Inv' /\ StoreFollows(store, store')
  <1> DEFINE command == shell[p]
             key == releaseKey(command.candidate, command.run)
             context == [key |-> key, base |-> command.base,
                         etag |-> command.base, gate |-> gate]
             request == ReleaseRequest(command.candidate, {command.run})
             outcome == createReleaseCandidate(store, context,
                                               command.candidate, {command.run})
             c == [at |-> "finish", candidate |-> command.candidate,
                   state |-> command.state, release |-> outcome.reply.id]
  <1>1. /\ command.base \in Nat /\ Approved(command.candidate, command.run)
        /\ Good(store, command.state)
        /\ command.state.candidate = command.candidate
    BY DEF Submit, At, Inv, CommandSound
  <1>2. /\ store' = outcome.store
        /\ \/ outcome.reply.code = "OK" /\ Go(p, c)
           \/ Exit(p)
        /\ UNCHANGED <<sources, edits, report, workflow>>
    BY DEF Submit
  <1>3. /\ command.candidate \in Candidates
        /\ {command.run} \in SUBSET Evidence
        /\ key = <<"rc", command.candidate>> /\ key \in Keys
    BY <1>1, ValidAreCandidates, RunsAreEvidence, KeysAreDerived
       DEF Approved, releaseKey
  <1>4. context \in MutationContexts /\ context.key = key
    <2> HIDE DEF key, command
    <2> QED BY <1>1, <1>3 DEF MutationContexts
  <1>5. /\ StoreSound(store') /\ StoreFollows(store, store')
        /\ KeysFollow(store, key, request, store')
        /\ outcome.reply.code = "OK" =>
             HasRelease(store', outcome.reply.id, command.candidate)
    <2>1. StoreSound(store)
      BY DEF Inv
    <2> HIDE DEF context, key, command
    <2> QED BY <1>2, <1>3, <1>4, <2>1, ReleasePromise DEF HasRelease
  <1>6. RequestsSound(store')
    <2>1. /\ request.operation = "createReleaseCandidate"
          /\ request.candidate = command.candidate
          /\ request.evidence = {command.run}
      BY DEF ReleaseRequest
    <2>2. RequestsSound(store)
      BY DEF Inv
    <2> HIDE DEF request, key, command
    <2> QED BY <1>1, <1>3, <1>5, <2>1, <2>2, RequestsStay DEF Approved
  <1>7. outcome.reply.code = "OK" => CommandSound(store', c)
    <2> DEFINE id == outcome.reply.id
    <2> HIDE DEF id, command
    <2> SUFFICES ASSUME outcome.reply.code = "OK" PROVE CommandSound(store', c)
      OBVIOUS
    <2>1. HasRelease(store', id, command.candidate)
      BY <1>5 DEF id
    <2>2. Good(store', command.state)
      BY <1>1, <1>5, GoodStays
    <2>3. /\ c.at = "finish" /\ c.candidate = command.candidate
          /\ c.state = command.state /\ c.release = id
      BY DEF id
    <2> HIDE DEF c
    <2> QED BY <1>1, <2>1, <2>2, <2>3 DEF CommandSound
  <1> HIDE DEF c, outcome
  <1>8. PICK d : shell' = [shell EXCEPT ![p] = d] /\ CommandSound(store', d)
    BY <1>2, <1>7, IdleSound DEF Exit, Go
  <1> QED BY <1>2, <1>5, <1>6, <1>8, StepSound DEF Inv

LEMMA FinishSound ==
  ASSUME Inv, NEW p \in Shells, Finish(p)
  PROVE  Inv' /\ StoreFollows(store, store')
  <1> DEFINE w == shell[p].state
             candidate == shell[p].candidate
             release == shell[p].release
             item == Attest("release", candidate, {}, release, FALSE)
             new == applyTransition(w, "RELEASED", {item}, release)
  <1>1. /\ Good(store, w) /\ w.candidate = candidate
        /\ HasRelease(store, release, candidate)
    BY DEF Finish, At, Inv, CommandSound
  <1>2. /\ MayMove(w, "RELEASED", {item})
        /\ workflow' = {new} /\ Exit(p)
        /\ UNCHANGED <<sources, edits, report, store>>
    BY DEF Finish
  <1>3. StoreSound(store)
    BY DEF Inv
  <1>4. release \in Nat
    <2>1. store.releases \in Seq(Releases)
      BY <1>3 DEF StoreSound, IsMockState
    <2> QED BY <1>1, <2>1 DEF HasRelease
  <1>5. item.type # "deployment" /\ "RELEASED" \in ChangeStates
    BY DEF Attest, ChangeStates
  <1>6. Good(store, new)
    <2> HIDE DEF w, candidate, release, item
    <2> QED BY <1>1, <1>2, <1>3, <1>4, <1>5, TransitionGood
  <1> HIDE DEF new
  <1>7. CommandSound(store', Idle) /\ StoreFollows(store, store')
    BY <1>2, IdleSound, FollowsSelf
  <1> QED BY <1>2, <1>6, <1>7, StepSound DEF Exit, Go, Inv

LEMMA ReleaseStepSound ==
  ASSUME Inv, NEW p \in Shells, StartRelease(p) \/ ReleaseStep(p)
  PROVE  Inv' /\ StoreFollows(store, store')
  <1>1. CASE StartRelease(p)
    BY <1>1, BeginSound DEF StartRelease
  <1>2. CASE Validate(p)
    <2> DEFINE c == [at |-> "remote", base |-> shell[p].base,
                     candidate |-> sources]
    <2>1. CommandSound(store, c)
      BY <1>2 DEF Validate, At, CommandSound, Inv
    <2> QED BY <1>2, <2>1, ReadingStep DEF Validate
  <1>3. CASE CheckRemote(p)
    <2> DEFINE c(listed) ==
          [at |-> "evidence", base |-> shell[p].base,
           candidate |-> shell[p].candidate,
           drift |-> listed /\ shell[p].base # Current(store)]
    <2>1. \A listed : CommandSound(store, c(listed))
      BY <1>3 DEF CheckRemote, At, CommandSound, Inv
    <2>2. PICK d : Go(p, d) /\ CommandSound(store, d)
      BY <1>3, <2>1, IdleSound DEF CheckRemote, Exit
    <2>3. UNCHANGED <<sources, edits, report, workflow, store>>
      BY <1>3 DEF CheckRemote
    <2> QED BY <2>2, <2>3, ReadingStep
  <1>4. CASE ReadEvidence(p)
    <2> DEFINE c(run) == [at |-> "load", base |-> shell[p].base,
                          candidate |-> shell[p].candidate, run |-> run]
    <2>1. shell[p].base \in Nat
      BY <1>4 DEF ReadEvidence, At, CommandSound, Inv
    <2>2. \A run \in report : Ready(shell[p].candidate, shell[p].drift, run) =>
            Approved(shell[p].candidate, run)
      BY DEF Ready, Approved, Inv
    <2>3. \A run : Approved(shell[p].candidate, run) =>
            CommandSound(store, c(run))
      BY <2>1 DEF CommandSound
    <2>4. PICK d : Go(p, d) /\ CommandSound(store, d)
      BY <1>4, <2>2, <2>3, IdleSound DEF ReadEvidence, Exit
    <2>5. UNCHANGED <<sources, edits, report, workflow, store>>
      BY <1>4 DEF ReadEvidence
    <2> QED BY <2>4, <2>5, ReadingStep
  <1> QED BY <1>1, <1>2, <1>3, <1>4, LoadSound, AdvanceStageSound, SubmitSound,
             FinishSound DEF ReleaseStep

-----------------------------------------------------------------------------
(* raia deploy staging *)

\* Of one candidate there is one release: its key is derived from the candidate
\* and was answered once.
LEMMA OneRelease ==
  ASSUME NEW s, StoreSound(s), RequestsSound(s),
         NEW i \in DOMAIN s.releases, NEW j \in DOMAIN s.releases,
         s.releases[i].candidate = s.releases[j].candidate
  PROVE  i = j
  <1>1. ASSUME NEW n \in DOMAIN s.releases
        PROVE  /\ <<"rc", s.releases[n].candidate>> \in DOMAIN s.idempotency
               /\ s.idempotency[<<"rc", s.releases[n].candidate>>].response.id = n
    <2>1. PICK k \in Keys : Created(s, "createReleaseCandidate", k, n)
      BY DEF StoreSound, ReleasesCreatedOnce
    <2>2. /\ k \in DOMAIN s.idempotency
          /\ s.idempotency[k].request.operation = "createReleaseCandidate"
          /\ s.idempotency[k].response.id = n
      BY <2>1 DEF Created
    <2>3. s.releases[n].candidate = s.idempotency[k].request.candidate
      BY <2>1, <2>2 DEF StoreSound, ReleasesCreatedOnce
    <2>4. k = <<"rc", s.idempotency[k].request.candidate>>
      BY <2>2 DEF RequestsSound
    <2> QED BY <2>2, <2>3, <2>4
  <1> QED BY <1>1

LEMMA OneDeployment ==
  ASSUME NEW s, StoreSound(s), RequestsSound(s),
         NEW i \in DOMAIN s.deployments, NEW j \in DOMAIN s.deployments,
         s.deployments[i].release = s.deployments[j].release
  PROVE  i = j
  <1>1. ASSUME NEW n \in DOMAIN s.deployments
        PROVE  /\ <<"dep", s.deployments[n].release>> \in DOMAIN s.idempotency
               /\ s.idempotency[<<"dep", s.deployments[n].release>>].response.id
                    = n
    <2>1. PICK k \in Keys : Created(s, "createDeployment", k, n)
      BY DEF StoreSound, DeploymentsCreatedOnce
    <2>2. /\ k \in DOMAIN s.idempotency
          /\ s.idempotency[k].request.operation = "createDeployment"
          /\ s.idempotency[k].response.id = n
      BY <2>1 DEF Created
    <2>3. s.deployments[n].release = s.idempotency[k].request.release
      BY <2>1, <2>2 DEF StoreSound, DeploymentsCreatedOnce
    <2>4. k = <<"dep", s.idempotency[k].request.release>>
      BY <2>2 DEF RequestsSound
    <2> QED BY <2>2, <2>3, <2>4
  <1> QED BY <1>1

\* Candidates have one release each, so that there are no more releases than
\* candidates, and keys for the deployments of all.
LEMMA ReleasesAreFew ==
  ASSUME NEW s, StoreSound(s), RequestsSound(s)
  PROVE  DOMAIN s.releases \subseteq 1 .. Cardinality(Candidates)
  <1> DEFINE n == Len(s.releases)
             f == [i \in 1 .. n |-> s.releases[i].candidate]
  <1>1. /\ s.releases \in Seq(Releases) /\ n \in Nat
        /\ DOMAIN s.releases = 1 .. n
    BY DEF StoreSound, IsMockState
  <1>2. \A i \in 1 .. n : s.releases[i].candidate \in Candidates
    <2>1. \A i \in 1 .. n : s.releases[i] \in Releases
      BY <1>1
    <2> QED BY <2>1 DEF Releases
  <1>3. ASSUME NEW i \in 1 .. n, NEW j \in 1 .. n,
               s.releases[i].candidate = s.releases[j].candidate
        PROVE  i = j
    BY <1>1, <1>3, OneRelease
  <1> HIDE DEF n
  <1>4. f \in Injection(1 .. n, Candidates)
    BY <1>2, <1>3 DEF Injection, IsInjective
  <1>5. /\ Cardinality(1 .. n) <= Cardinality(Candidates)
        /\ Cardinality(Candidates) \in Nat
    BY <1>4, CandidatesAreFew, FS_Injection, FS_CardinalityType
  <1>6. Cardinality(1 .. n) = n
    BY <1>1, FS_Interval
  <1> QED BY <1>1, <1>5, <1>6

LEMMA CheckSourcesSound ==
  ASSUME Inv, NEW p \in Shells, CheckSources(p)
  PROVE  Inv' /\ StoreFollows(store, store')
  <1> DEFINE w == shell[p].state
             v == reconcileCandidate(w, sources, w.base)
             c == [at |-> "deploy", state |-> w]
             d == [at |-> "invalidate", state |-> v]
  <1>1. /\ Good(store, w) /\ w.release # 0 /\ w.base \in Nat
        /\ sources \in Candidates
    BY DEF CheckSources, At, Inv, CommandSound, Good, WorkflowTyped
  <1>2. Good(store, v)
    <2> HIDE DEF w
    <2> QED BY <1>1, ReconcileGood
  <1>3. Go(p, c) \/ Go(p, d)
    BY DEF CheckSources
  <1>4. UNCHANGED <<sources, edits, report, workflow, store>>
    BY DEF CheckSources
  <1> HIDE DEF w, v
  <1>5. CommandSound(store, c) /\ CommandSound(store, d)
    BY <1>1, <1>2 DEF CommandSound
  <1> QED BY <1>3, <1>4, <1>5, ReadingStep

LEMMA DeploySound ==
  ASSUME Inv, NEW p \in Shells, Deploy(p)
  PROVE  Inv' /\ StoreFollows(store, store')
  <1> DEFINE w == shell[p].state
             release == w.release
             key == deploymentKey(release)
             request == DeployRequest(release, "staging")
  <1>1. PICK gate \in Gates, fixture \in Fixtures :
          LET context == [key |-> key, base |-> 0, etag |-> 0, gate |-> gate]
              outcome == createDeployment(store, context, release, "staging",
                                          fixture)
          IN /\ store' = outcome.store
             /\ IF outcome.reply.code = "OK"
                THEN Go(p, [at |-> "poll", state |-> w,
                            id |-> outcome.reply.id,
                            seen |-> outcome.reply.state, polls |-> 0])
                ELSE Exit(p)
    BY DEF Deploy
  <1> DEFINE context == [key |-> key, base |-> 0, etag |-> 0, gate |-> gate]
             outcome == createDeployment(store, context, release, "staging",
                                         fixture)
             c == [at |-> "poll", state |-> w, id |-> outcome.reply.id,
                   seen |-> outcome.reply.state, polls |-> 0]
  <1>2. /\ store' = outcome.store
        /\ \/ outcome.reply.code = "OK" /\ Go(p, c)
           \/ Exit(p)
    BY <1>1
  <1>3. UNCHANGED <<sources, edits, report, workflow>>
    BY DEF Deploy
  <1>4. /\ Good(store, w) /\ release # 0
        /\ StoreSound(store) /\ RequestsSound(store)
    BY DEF Deploy, At, Inv, CommandSound
  <1>5. release \in Nat /\ release \in DOMAIN store.releases
    BY <1>4 DEF Good, WorkflowTyped, RecordIsTrue
  <1>6. key = <<"dep", release>> /\ key \in Keys
    BY <1>4, <1>5, ReleasesAreFew, KeysAreDerived DEF deploymentKey
  <1>7. context \in MutationContexts /\ context.key = key
    <2> HIDE DEF key
    <2> QED BY <1>6 DEF MutationContexts
  <1>8. /\ StoreSound(store') /\ StoreFollows(store, store')
        /\ KeysFollow(store, key, request, store')
        /\ outcome.reply.code = "OK" =>
             /\ outcome.reply.id \in DOMAIN store'.deployments
             /\ store'.deployments[outcome.reply.id].release = release
             /\ outcome.reply.state = "QUEUED"
    <2> HIDE DEF context, key, w
    <2> QED BY <1>2, <1>4, <1>5, <1>7, DeployPromise
  <1>9. RequestsSound(store')
    <2>1. /\ request.operation = "createDeployment"
          /\ request.release = release
      BY DEF DeployRequest
    <2> HIDE DEF request, key, w
    <2> QED BY <1>4, <1>6, <1>8, <2>1, RequestsStay
  <1>10. outcome.reply.code = "OK" => CommandSound(store', c)
    <2> SUFFICES ASSUME outcome.reply.code = "OK" PROVE CommandSound(store', c)
      OBVIOUS
    <2> DEFINE reply == outcome.reply
    <2> HIDE DEF reply, w
    <2>1. /\ reply.id \in DOMAIN store'.deployments
          /\ store'.deployments[reply.id].release = w.release
          /\ reply.state = "QUEUED"
      BY <1>8 DEF reply
    <2>2. Good(store', w)
      BY <1>4, <1>8, GoodStays
    <2>3. /\ c.at = "poll" /\ c.state = w /\ c.id = reply.id
          /\ c.seen = reply.state /\ DOMAIN c = PollFields
      BY DEF PollFields, reply
    <2> HIDE DEF c
    <2> QED BY <2>1, <2>2, <2>3 DEF CommandSound
  <1> HIDE DEF c, outcome
  <1>11. PICK d : shell' = [shell EXCEPT ![p] = d] /\ CommandSound(store', d)
    BY <1>2, <1>10, IdleSound DEF Exit, Go
  <1> QED BY <1>3, <1>8, <1>9, <1>11, StepSound DEF Inv

LEMMA PollSound ==
  ASSUME Inv, NEW p \in Shells, PollDeployment(p)
  PROVE  Inv' /\ StoreFollows(store, store')
  <1> DEFINE command == shell[p]
  <1>1. PICK gate \in Gates :
          LET outcome == getDeployment(store, gate, command.id) IN
          /\ store' = outcome.store
          /\ IF outcome.reply.code = "OK"
             THEN Go(p, [command EXCEPT !.seen = outcome.reply.state,
                                        !.polls = @ + 1])
             ELSE Exit(p)
    BY DEF PollDeployment
  <1> DEFINE outcome == getDeployment(store, gate, command.id)
             c == [command EXCEPT !.seen = outcome.reply.state,
                                  !.polls = @ + 1]
  <1>2. /\ store' = outcome.store
        /\ \/ outcome.reply.code = "OK" /\ Go(p, c)
           \/ Exit(p)
    BY <1>1
  <1>3. UNCHANGED <<sources, edits, report, workflow>>
    BY DEF PollDeployment
  <1>4. /\ command.at = "poll" /\ DOMAIN command = PollFields
        /\ Good(store, command.state)
        /\ command.id \in DOMAIN store.deployments
        /\ store.deployments[command.id].release = command.state.release
        /\ StoreSound(store) /\ RequestsSound(store)
    BY DEF PollDeployment, At, Inv, CommandSound
  <1>5. command.id \in Nat
    <2>1. store.deployments \in Seq(StoredDeployments)
      BY <1>4 DEF StoreSound, IsMockState
    <2> HIDE DEF command
    <2> QED BY <1>4, <2>1
  <1>6. /\ StoreSound(store') /\ StoreFollows(store, store')
        /\ store'.idempotency = store.idempotency
        /\ outcome.reply.code = "OK" =>
             store'.deployments[command.id].state = outcome.reply.state
    <2> HIDE DEF command
    <2> QED BY <1>2, <1>4, <1>5, PollPromise
  <1>7. RequestsSound(store')
    BY <1>4, <1>6 DEF RequestsSound
  <1>8. outcome.reply.code = "OK" => CommandSound(store', c)
    <2> SUFFICES ASSUME outcome.reply.code = "OK" PROVE CommandSound(store', c)
      OBVIOUS
    <2> DEFINE seen == outcome.reply.state
    <2> HIDE DEF seen, command
    <2>1. store'.deployments[command.id].state = seen
      BY <1>6 DEF seen
    <2>2. CommandSound(store', command)
      BY <1>6, CommandStays DEF Inv, command
    <2>3. /\ c.at = "poll" /\ DOMAIN c = PollFields
          /\ c.state = command.state /\ c.id = command.id /\ c.seen = seen
      BY <1>4 DEF PollFields, seen
    <2>4. "HEALTHY" \in HasBeenHealthy
      BY DEF HasBeenHealthy
    <2> HIDE DEF c
    <2> QED BY <1>4, <2>1, <2>2, <2>3, <2>4 DEF CommandSound
  <1> HIDE DEF c, outcome
  <1>9. PICK d : shell' = [shell EXCEPT ![p] = d] /\ CommandSound(store', d)
    BY <1>2, <1>8, IdleSound DEF Exit, Go
  <1> QED BY <1>3, <1>6, <1>7, <1>9, StepSound DEF Inv

LEMMA RecordSound ==
  ASSUME Inv, NEW p \in Shells, RecordDeployment(p)
  PROVE  Inv' /\ StoreFollows(store, store')
  <1> DEFINE w == shell[p].state
             id == shell[p].id
             healthy == isHealthy(shell[p].seen)
             item == Attest("deployment", w.candidate, {}, id, healthy)
             new == [w EXCEPT !.deployments = @ \cup {id},
                              !.evidence = @ \cup {item}]
  <1>1. /\ Good(store, w) /\ id \in DOMAIN store.deployments
        /\ store.deployments[id].release = w.release
        /\ healthy => store.deployments[id].state \in HasBeenHealthy
    BY DEF RecordDeployment, At, Inv, CommandSound, isHealthy
  <1>2. /\ workflow' = {new} /\ Exit(p)
        /\ UNCHANGED <<sources, edits, report, store>>
    BY DEF RecordDeployment
  <1>3. Good(store, new)
    <2> HIDE DEF w, id, healthy
    <2> QED BY <1>1, RecordGood
  <1> HIDE DEF new
  <1>4. CommandSound(store', Idle) /\ StoreFollows(store, store')
    BY <1>2, IdleSound, FollowsSelf
  <1> QED BY <1>2, <1>3, <1>4, StepSound DEF Exit, Go, Inv

LEMMA DeployStepSound ==
  ASSUME Inv, NEW p \in Shells, StartDeploy(p) \/ DeployStep(p)
  PROVE  Inv' /\ StoreFollows(store, store')
  <1>1. CASE StartDeploy(p)
    BY <1>1, BeginSound DEF StartDeploy
  <1>2. CASE SaveInvalidated(p)
    <2>1. /\ workflow' = {shell[p].state} /\ Exit(p)
          /\ UNCHANGED <<sources, edits, report, store>>
      BY <1>2 DEF SaveInvalidated
    <2>2. Good(store, shell[p].state)
      BY <1>2 DEF SaveInvalidated, At, Inv, CommandSound
    <2>3. CommandSound(store', Idle) /\ StoreFollows(store, store')
      BY <2>1, IdleSound, FollowsSelf
    <2> QED BY <2>1, <2>2, <2>3, StepSound DEF Exit, Go, Inv
  <1> QED BY <1>1, <1>2, CheckSourcesSound, DeploySound, PollSound, RecordSound
          DEF DeployStep

-----------------------------------------------------------------------------
(* The theorems *)

LEMMA NextSound ==
  ASSUME Inv, [Next]_vars
  PROVE  Inv' /\ StoreFollows(store, store')
  <1>1. ASSUME NEW p \in Shells, EndEarly(p)
        PROVE  Inv' /\ StoreFollows(store, store')
    <2>1. Go(p, Idle) /\ UNCHANGED <<sources, edits, report, workflow, store>>
      BY <1>1 DEF EndEarly, Exit
    <2> QED BY <2>1, IdleSound, ReadingStep
  <1>2. CASE EditSources
    <2>1. /\ sources' \in Candidates
          /\ UNCHANGED <<report, workflow, store, shell>>
      BY <1>2 DEF EditSources
    <2>2. StoreFollows(store, store')
      BY <2>1, FollowsSelf
    <2> QED BY <2>1, <2>2, StepSound DEF Inv
  <1>3. CASE RemoteAdvances
    <2>1. PICK bundle \in Bundles : store' = Advance(store, bundle)
      BY <1>3 DEF RemoteAdvances
    <2>2. /\ StoreSound(store') /\ StoreFollows(store, store')
          /\ store'.idempotency = store.idempotency
      BY <2>1, VersionsPromise DEF Inv
    <2>3. RequestsSound(store')
      BY <2>2 DEF Inv, RequestsSound
    <2>4. UNCHANGED <<sources, edits, report, workflow, shell>>
      BY <1>3 DEF RemoteAdvances
    <2> QED BY <2>2, <2>3, <2>4, StepSound DEF Inv
  <1>4. CASE UNCHANGED vars
    BY <1>4, FollowsSelf DEF vars, Inv
  <1> QED BY <1>1, <1>2, <1>3, <1>4, TestSound, ReleaseStepSound,
             DeployStepSound DEF Next

LEMMA InvAlways == Spec => []Inv
  BY InitSound, NextSound, PTL DEF Spec

\* Whatever commands run side by side, are cut short or overtaken by edits, the
\* saved workflow moved through the lifecycle step by step and rests on a passed
\* evaluation of its own candidate from EVALUATED on (workflow-state.ts:62-110).
THEOREM WorkflowSoundAlways == Spec => []WorkflowSound
  <1>1. Inv => WorkflowSound
    BY DEF Inv, Good, WorkflowSound
  <1> QED BY <1>1, InvAlways, PTL

\* The saved workflow says nothing of releases and deployments that the provider
\* would not confirm (release.ts:147-195, deploy.ts:86-119).
THEOREM RecordsTrueAlways == Spec => []RecordsAreTrue
  <1>1. Inv => RecordsAreTrue
    BY DEF Inv, Good, RecordsAreTrue
  <1> QED BY <1>1, InvAlways, PTL

\* However many commands try, a candidate gets one release and a release one
\* staging deployment: both keys are derived (release.ts:161, deploy.ts:82).
THEOREM MadeOnceAlways == Spec => []MadeOnce
  <1>1. ASSUME Inv PROVE MadeOnce
    <2>1. StoreSound(store) /\ RequestsSound(store)
      BY <1>1 DEF Inv
    <2> QED BY <2>1, OneRelease, OneDeployment DEF MadeOnce
  <1> QED BY <1>1, InvAlways, PTL

\* Every release was requested on a passed evaluation of its candidate, whatever
\* happened between the evaluation, the check and the request (readiness.ts:88).
THEOREM EvaluatedAlways == Spec => []ReleasesWereEvaluated
  <1>1. Inv => ReleasesWereEvaluated
    BY DEF Inv, RequestsSound, ReleasesWereEvaluated
  <1> QED BY <1>1, InvAlways, PTL

-----------------------------------------------------------------------------
(* One release or deployment at a time: the history is only extended *)

\* Of the commands that write the workflow file, one runs at a time; tests may
\* run beside it.  Two would save what they loaded before the other saved.
OneWriter ==
  \A p, q \in Shells :
    p = q \/ Commands[p] \subseteq {"test"} \/ Commands[q] \subseteq {"test"}

\* The steps at which a command holds a workflow, and those of a test.
Holding == {"advance", "finish", "check", "deploy", "invalidate", "poll"}
Testing == {"idle", "suites", "report"}

\* History h begins with history g.
Continues(g, h) == Len(g) <= Len(h) /\ \A i \in 1 .. Len(g) : h[i] = g[i]

\* What a command holds goes on from what is in the file.
HeldContinues(file, c) ==
  c.at \in Holding =>
    \A w \in file : Continues(w.history, c.state.history)

HistoryInv ==
  /\ \A v, w \in workflow : v = w
  /\ \A p \in Shells :
       /\ shell[p].at \in Testing \/ ~ (Commands[p] \subseteq {"test"})
       /\ HeldContinues(workflow, shell[p])

\* No step shortens or rewrites the history in the file.
FileContinues ==
  \A old \in workflow, new \in workflow' : Continues(old.history, new.history)

LEMMA ContinuesSelf ==
  ASSUME NEW g \in Seq(Moves)
  PROVE  Continues(g, g)
  BY DEF Continues

LEMMA ContinuesOn ==
  ASSUME NEW g \in Seq(Moves), NEW h \in Seq(Moves), NEW k,
         Continues(g, h), Continues(h, k)
  PROVE  Continues(g, k)
  BY DEF Continues

LEMMA ContinuesAppended ==
  ASSUME NEW g \in Seq(Moves), NEW move
  PROVE  /\ Continues(g, Append(g, move))
         /\ Continues(Append(g, move), Append(g, move))
  <1>1. PICK M : M = Moves \cup {move}
    OBVIOUS
  <1>2. g \in Seq(M) /\ move \in M
    BY <1>1
  <1> QED BY <1>2 DEF Continues

\* A workflow begins with the history of the one it was made of.
LEMMA ReconcileContinues ==
  ASSUME NEW w, WorkflowTyped(w), NEW candidate, NEW base
  PROVE  Continues(w.history, reconcileCandidate(w, candidate, base).history)
  <1> DEFINE v == reconcileCandidate(w, candidate, base)
  <1>1. w.history \in Seq(Moves) /\ "history" \in DOMAIN w
    BY DEF WorkflowTyped, WorkflowFields
  <1>2. v = w \/ \E move : v.history = Append(w.history, move)
    BY <1>1 DEF reconcileCandidate
  <1> QED BY <1>1, <1>2, ContinuesSelf, ContinuesAppended

LEMMA TransitionContinues ==
  ASSUME NEW w, WorkflowTyped(w), NEW to, NEW evidence, NEW release
  PROVE  LET v == applyTransition(w, to, evidence, release) IN
         /\ Continues(w.history, v.history)
         /\ Continues(v.history, v.history)
  <1> DEFINE v == applyTransition(w, to, evidence, release)
  <1>1. w.history \in Seq(Moves) /\ "history" \in DOMAIN w
    BY DEF WorkflowTyped, WorkflowFields
  <1>2. v.history = Append(w.history, Moved(w.stage, to, w.candidate))
    BY <1>1 DEF applyTransition
  <1> QED BY <1>1, <1>2, ContinuesAppended

\* A command that holds a workflow is the only one.
LEMMA OnlyHolder ==
  ASSUME OneWriter, HistoryInv, NEW p \in Shells, NEW q \in Shells, p # q,
         shell[p].at \in Holding
  PROVE  shell[q].at \notin Holding
  BY DEF OneWriter, HistoryInv, Holding, Testing

\* A step of a command that leaves the file alone.
LEMMA LookingStep ==
  ASSUME Inv, HistoryInv, NEW p \in Shells, NEW c, Go(p, c),
         c.at \in Testing \/ ~ (Commands[p] \subseteq {"test"}),
         HeldContinues(workflow, c), UNCHANGED workflow
  PROVE  HistoryInv' /\ FileContinues
  <1>1. FileContinues
    BY ContinuesSelf DEF FileContinues, HistoryInv, Inv, Good, WorkflowTyped
  <1>2. shell' = [shell EXCEPT ![p] = c] /\ DOMAIN shell = Shells
    BY DEF Go, Inv
  <1>3. \A q \in Shells : shell'[q] = IF q = p THEN c ELSE shell[q]
    BY <1>2
  <1>4. ASSUME NEW q \in Shells
        PROVE  /\ shell'[q].at \in Testing \/ ~ (Commands[q] \subseteq {"test"})
               /\ HeldContinues(workflow, shell'[q])
    BY <1>3 DEF HistoryInv
  <1> QED BY <1>1, <1>4 DEF HistoryInv

\* A step of a command that saves what it holds, or what it made of it.
LEMMA SavingStep ==
  ASSUME OneWriter, Inv, HistoryInv, NEW p \in Shells,
         shell[p].at \in Holding, NEW new, workflow' = {new}, NEW c, Go(p, c),
         Continues(shell[p].state.history, new.history),
         c.at \in Holding => Continues(new.history, c.state.history),
         c.at \in Holding \cup {"idle"}
  PROVE  HistoryInv' /\ FileContinues
  <1>1. shell[p].state.history \in Seq(Moves)
    BY DEF Inv, CommandSound, Holding, Good, WorkflowTyped
  <1>2. \A old \in workflow : old.history \in Seq(Moves)
    BY DEF Inv, Good, WorkflowTyped
  <1>3. \A old \in workflow : Continues(old.history, shell[p].state.history)
    BY DEF HistoryInv, HeldContinues
  <1>4. FileContinues
    BY <1>1, <1>2, <1>3, ContinuesOn DEF FileContinues
  <1>5. shell' = [shell EXCEPT ![p] = c] /\ DOMAIN shell = Shells
    BY DEF Go, Inv
  <1>6. \A q \in Shells : shell'[q] = IF q = p THEN c ELSE shell[q]
    BY <1>5
  <1>7. HeldContinues({new}, c)
    BY DEF HeldContinues
  <1>8. c.at \in Testing \/ ~ (Commands[p] \subseteq {"test"})
    BY DEF HistoryInv, Holding, Testing
  <1>9. ASSUME NEW q \in Shells
        PROVE  /\ shell'[q].at \in Testing \/ ~ (Commands[q] \subseteq {"test"})
               /\ HeldContinues({new}, shell'[q])
    <2>1. CASE q = p
      BY <1>6, <1>7, <1>8, <2>1
    <2>2. CASE q # p
      <3>1. shell[q].at \notin Holding
        BY <2>2, OnlyHolder
      <3>2. HeldContinues({new}, shell[q])
        BY <3>1 DEF HeldContinues
      <3> QED BY <1>6, <2>2, <3>2 DEF HistoryInv
    <2> QED BY <2>1, <2>2
  <1> QED BY <1>4, <1>9 DEF HistoryInv

\* A step of no command.
LEMMA AsideStep ==
  ASSUME Inv, HistoryInv, UNCHANGED <<workflow, shell>>
  PROVE  HistoryInv' /\ FileContinues
  <1>1. FileContinues
    BY ContinuesSelf DEF FileContinues, HistoryInv, Inv, Good, WorkflowTyped
  <1> QED BY <1>1 DEF HistoryInv

\* A step of a command that comes to hold no workflow and saves none.
LEMMA FarStep ==
  ASSUME Inv, HistoryInv, NEW p \in Shells, NEW c, Go(p, c),
         c.at \notin Holding, UNCHANGED workflow,
         c.at \in Testing \/ ~ (Commands[p] \subseteq {"test"})
  PROVE  HistoryInv' /\ FileContinues
  BY LookingStep DEF HeldContinues

\* Whoever is at a step of a release or a deployment runs such commands.
LEMMA NotTesting ==
  ASSUME HistoryInv, NEW p \in Shells, shell[p].at \notin Testing
  PROVE  ~ (Commands[p] \subseteq {"test"})
  BY DEF HistoryInv

LEMMA ReleaseContinues ==
  ASSUME OneWriter, Inv, HistoryInv, NEW p \in Shells,
         StartRelease(p) \/ ReleaseStep(p)
  PROVE  HistoryInv' /\ FileContinues
  <1>1. CASE StartRelease(p)
    <2>1. ~ (Commands[p] \subseteq {"test"})
      BY <1>1 DEF StartRelease, MayStart
    <2> QED BY <1>1, <2>1, FarStep DEF StartRelease, BeginRelease, Holding
  <1>2. CASE Validate(p)
    <2>1. ~ (Commands[p] \subseteq {"test"})
      BY <1>2, NotTesting DEF Validate, At, Testing
    <2> QED BY <1>2, <2>1, FarStep DEF Validate, Holding
  <1>3. CASE CheckRemote(p)
    <2>1. ~ (Commands[p] \subseteq {"test"})
      BY <1>3, NotTesting DEF CheckRemote, At, Testing
    <2> DEFINE c(drift) == [at |-> "evidence", base |-> shell[p].base,
                            candidate |-> shell[p].candidate, drift |-> drift]
    <2>2. UNCHANGED workflow /\ ((\E drift : Go(p, c(drift))) \/ Go(p, Idle))
      BY <1>3 DEF CheckRemote, Exit
    <2>3. Idle.at \notin Holding /\ \A drift : c(drift).at \notin Holding
      BY DEF Idle, Holding
    <2> HIDE DEF c
    <2> QED BY <2>1, <2>2, <2>3, FarStep
  <1>4. CASE ReadEvidence(p)
    <2>1. ~ (Commands[p] \subseteq {"test"})
      BY <1>4, NotTesting DEF ReadEvidence, At, Testing
    <2> DEFINE c(run) == [at |-> "load", base |-> shell[p].base,
                          candidate |-> shell[p].candidate, run |-> run]
    <2>2. UNCHANGED workflow /\ ((\E run : Go(p, c(run))) \/ Go(p, Idle))
      BY <1>4 DEF ReadEvidence, Exit
    <2>3. Idle.at \notin Holding /\ \A run : c(run).at \notin Holding
      BY DEF Idle, Holding
    <2> HIDE DEF c
    <2> QED BY <2>1, <2>2, <2>3, FarStep
  <1>5. CASE Load(p)
    <2> DEFINE candidate == shell[p].candidate
               base == shell[p].base
               loaded == IF workflow = {}
                         THEN initialWorkflowState(candidate, base)
                         ELSE CHOOSE w \in workflow : TRUE
               w == reconcileCandidate(loaded, candidate, base)
               c == [at |-> "advance", base |-> base, candidate |-> candidate,
                     run |-> shell[p].run, state |-> w]
    <2>1. ~ (Commands[p] \subseteq {"test"})
      BY <1>5, NotTesting DEF Load, At, Testing
    <2>2. Go(p, c) \/ Go(p, Idle)
      BY <1>5 DEF Load, Exit
    <2>3. UNCHANGED workflow
      BY <1>5 DEF Load
    <2>4. c.at = "advance" /\ c.state = w
      OBVIOUS
    <2>5. \A old \in workflow : Continues(old.history, w.history)
      <3> SUFFICES ASSUME NEW old \in workflow
                   PROVE  Continues(old.history, w.history)
        OBVIOUS
      <3>1. loaded = old
        BY DEF HistoryInv
      <3>2. WorkflowTyped(old)
        BY DEF Inv, Good
      <3> HIDE DEF loaded, candidate, base
      <3> QED BY <3>1, <3>2, ReconcileContinues
    <2> HIDE DEF c, w
    <2>6. HeldContinues(workflow, c) /\ HeldContinues(workflow, Idle)
      BY <2>4, <2>5 DEF HeldContinues, Idle, Holding
    <2> QED BY <2>1, <2>2, <2>3, <2>6, LookingStep
  <1>6. CASE AdvanceStage(p)
    <2> DEFINE command == shell[p]
               to == NextStage[command.state.stage]
               evidence == EvidenceFor(to, command.candidate, command.run)
               new == applyTransition(command.state, to, evidence, 0)
               c == [command EXCEPT !.state = new]
    <2>1. /\ command.at = "advance" /\ DOMAIN command = AdvanceFields
          /\ WorkflowTyped(command.state)
      BY <1>6 DEF AdvanceStage, At, Inv, CommandSound, Good
    <2>2. workflow' = {new} /\ Go(p, c)
      BY <1>6 DEF AdvanceStage
    <2>3. /\ Continues(command.state.history, new.history)
          /\ Continues(new.history, new.history)
      <3> HIDE DEF command, to, evidence
      <3> QED BY <2>1, TransitionContinues
    <2>4. c.at = "advance" /\ c.state = new
      <3> HIDE DEF command, new
      <3> QED BY <2>1 DEF AdvanceFields
    <2> HIDE DEF c, new
    <2>5. command.at \in Holding
      BY <2>1 DEF Holding
    <2> QED BY <2>2, <2>3, <2>4, <2>5, SavingStep DEF Holding
  <1>7. CASE \E gate \in Gates : Submit(p, gate)
    <2>1. shell[p].at = "advance" /\ UNCHANGED workflow
      BY <1>7 DEF Submit, At
    <2>2. PICK c : /\ Go(p, c)
                   /\ c.at = "idle" \/ (c.at = "finish"
                                         /\ c.state = shell[p].state)
      BY <1>7 DEF Submit, Exit, Idle
    <2>3. HeldContinues(workflow, c)
      BY <2>1, <2>2 DEF HistoryInv, HeldContinues, Holding
    <2>4. ~ (Commands[p] \subseteq {"test"})
      BY <2>1, NotTesting DEF Testing
    <2> QED BY <2>1, <2>2, <2>3, <2>4, LookingStep
  <1>8. CASE Finish(p)
    <2> DEFINE w == shell[p].state
               release == shell[p].release
               evidence == {Attest("release", shell[p].candidate, {}, release,
                                   FALSE)}
               new == applyTransition(w, "RELEASED", evidence, release)
    <2>1. shell[p].at = "finish" /\ WorkflowTyped(w)
      BY <1>8 DEF Finish, At, Inv, CommandSound, Good
    <2>2. workflow' = {new} /\ Go(p, Idle)
      BY <1>8 DEF Finish, Exit
    <2>3. Continues(w.history, new.history)
      <3> HIDE DEF w, evidence, release
      <3> QED BY <2>1, TransitionContinues
    <2> HIDE DEF new
    <2>4. Idle.at = "idle"
      BY DEF Idle
    <2> QED BY <2>1, <2>2, <2>3, <2>4, SavingStep DEF Holding
  <1> QED BY <1>1, <1>2, <1>3, <1>4, <1>5, <1>6, <1>7, <1>8 DEF ReleaseStep

LEMMA DeployContinues ==
  ASSUME OneWriter, Inv, HistoryInv, NEW p \in Shells,
         StartDeploy(p) \/ DeployStep(p)
  PROVE  HistoryInv' /\ FileContinues
  <1>1. CASE StartDeploy(p)
    <2>1. ~ (Commands[p] \subseteq {"test"}) /\ UNCHANGED workflow
      BY <1>1 DEF StartDeploy, BeginDeploy, MayStart
    <2>2. PICK w \in workflow : Go(p, [at |-> "check", state |-> w])
      BY <1>1 DEF StartDeploy, BeginDeploy
    <2>3. Continues(w.history, w.history) /\ \A v \in workflow : v = w
      BY ContinuesSelf DEF HistoryInv, Inv, Good, WorkflowTyped
    <2>4. HeldContinues(workflow, [at |-> "check", state |-> w])
      BY <2>3 DEF HeldContinues
    <2> QED BY <2>1, <2>2, <2>4, LookingStep
  <1>2. CASE CheckSources(p)
    <2> DEFINE w == shell[p].state
               v == reconcileCandidate(w, sources, w.base)
    <2>1. /\ shell[p].at = "check" /\ UNCHANGED workflow
          /\ WorkflowTyped(w)
      BY <1>2 DEF CheckSources, At, Inv, CommandSound, Good
    <2>2. ~ (Commands[p] \subseteq {"test"})
      BY <2>1, NotTesting DEF Testing
    <2>3. \A old \in workflow : Continues(old.history, w.history)
      BY <2>1 DEF HistoryInv, HeldContinues, Holding
    <2>4. Continues(w.history, v.history)
      <3> HIDE DEF w
      <3> QED BY <2>1, ReconcileContinues
    <2>5. \/ Go(p, [at |-> "deploy", state |-> w])
          \/ Go(p, [at |-> "invalidate", state |-> v])
      BY <1>2 DEF CheckSources
    <2> HIDE DEF w, v
    <2>6. \A old \in workflow : Continues(old.history, v.history)
      <3>1. \A old \in workflow : old.history \in Seq(Moves)
        BY DEF Inv, Good, WorkflowTyped
      <3> QED BY <2>1, <2>3, <2>4, <3>1, ContinuesOn DEF WorkflowTyped
    <2>7. /\ HeldContinues(workflow, [at |-> "deploy", state |-> w])
          /\ HeldContinues(workflow, [at |-> "invalidate", state |-> v])
      BY <2>3, <2>6 DEF HeldContinues
    <2> QED BY <2>1, <2>2, <2>5, <2>7, LookingStep
  <1>3. CASE SaveInvalidated(p)
    <2>1. /\ shell[p].at = "invalidate" /\ workflow' = {shell[p].state}
          /\ Go(p, Idle)
      BY <1>3 DEF SaveInvalidated, At, Exit
    <2>2. Continues(shell[p].state.history, shell[p].state.history)
      BY <2>1, ContinuesSelf DEF Inv, CommandSound, Good, WorkflowTyped
    <2>3. Idle.at = "idle"
      BY DEF Idle
    <2> QED BY <2>1, <2>2, <2>3, SavingStep DEF Holding
  <1>4. CASE Deploy(p)
    <2>1. shell[p].at = "deploy" /\ UNCHANGED workflow
      BY <1>4 DEF Deploy, At
    <2>2. PICK c : /\ Go(p, c)
                   /\ c.at = "idle" \/ (c.at = "poll"
                                         /\ c.state = shell[p].state)
      BY <1>4 DEF Deploy, Exit, Idle
    <2>3. HeldContinues(workflow, c)
      BY <2>1, <2>2 DEF HistoryInv, HeldContinues, Holding
    <2>4. ~ (Commands[p] \subseteq {"test"})
      BY <2>1, NotTesting DEF Testing
    <2> QED BY <2>1, <2>2, <2>3, <2>4, LookingStep
  <1>5. CASE PollDeployment(p)
    <2>1. /\ shell[p].at = "poll" /\ DOMAIN shell[p] = PollFields
          /\ UNCHANGED workflow
      BY <1>5 DEF PollDeployment, At, Inv, CommandSound
    <2>2. PICK c : /\ Go(p, c)
                   /\ c.at = "idle" \/ (c.at = "poll"
                                         /\ c.state = shell[p].state)
      <3> DEFINE command == shell[p]
      <3> DEFINE next(seen) == [command EXCEPT !.seen = seen, !.polls = @ + 1]
      <3>1. ASSUME NEW seen
            PROVE  next(seen).at = "poll" /\ next(seen).state = command.state
        <4> DEFINE c == [command EXCEPT !.seen = seen, !.polls = @ + 1]
        <4>1. command.at = "poll" /\ DOMAIN command = PollFields
          BY <2>1
        <4> HIDE DEF command
        <4>2. c.at = "poll" /\ c.state = command.state
          BY <4>1 DEF PollFields
        <4> QED BY <4>2
      <3>2. (\E seen : Go(p, next(seen))) \/ Go(p, Idle)
        BY <1>5 DEF PollDeployment, Exit
      <3>3. Idle.at = "idle"
        BY DEF Idle
      <3>4. CASE Go(p, Idle)
        <4> QED BY <3>3, <3>4
      <3>5. CASE \E seen : Go(p, next(seen))
        <4>1. PICK seen : Go(p, next(seen))
          BY <3>5
        <4>2. PICK d : d = next(seen)
          OBVIOUS
        <4>3. Go(p, d) /\ d.at = "poll" /\ d.state = shell[p].state
          BY <3>1, <4>1, <4>2
        <4> HIDE DEF next, command
        <4> QED BY <4>3
      <3> QED BY <3>2, <3>4, <3>5
    <2>3. HeldContinues(workflow, c)
      BY <2>1, <2>2 DEF HistoryInv, HeldContinues, Holding
    <2>4. ~ (Commands[p] \subseteq {"test"})
      BY <2>1, NotTesting DEF Testing
    <2> QED BY <2>1, <2>2, <2>3, <2>4, LookingStep
  <1>6. CASE RecordDeployment(p)
    <2> DEFINE w == shell[p].state
               new(item) == [w EXCEPT !.deployments = @ \cup {shell[p].id},
                                      !.evidence = @ \cup {item}]
    <2>1. shell[p].at = "poll" /\ WorkflowTyped(w)
      BY <1>6 DEF RecordDeployment, At, Inv, CommandSound, Good
    <2>2. (\E item : workflow' = {new(item)}) /\ Go(p, Idle)
      BY <1>6 DEF RecordDeployment, Exit
    <2>3. \A item : new(item).history = w.history
      <3> HIDE DEF w
      <3> QED BY <2>1 DEF WorkflowTyped, WorkflowFields
    <2>4. Continues(w.history, w.history)
      BY <2>1, ContinuesSelf DEF WorkflowTyped
    <2>5. Idle.at = "idle"
      BY DEF Idle
    <2>6. PICK v : workflow' = {v} /\ v.history = w.history
      BY <2>2, <2>3
    <2> QED BY <2>1, <2>2, <2>4, <2>5, <2>6, SavingStep DEF Holding
  <1> QED BY <1>1, <1>2, <1>3, <1>4, <1>5, <1>6 DEF DeployStep

LEMMA HistoryStep ==
  ASSUME OneWriter, Inv, HistoryInv, [Next]_vars
  PROVE  HistoryInv' /\ FileContinues
  <1>1. ASSUME NEW p \in Shells, Test(p)
        PROVE  HistoryInv' /\ FileContinues
    <2> DEFINE begun == [at |-> "suites", candidate |-> sources]
               done(run) == [at |-> "report", run |-> run]
    <2>1. /\ UNCHANGED workflow
          /\ \/ Go(p, begun) \/ Go(p, Idle)
             \/ \E run : Go(p, done(run))
      BY <1>1 DEF Test, StartTest, BeginTest, LoadSuites, WriteReport, Exit
    <2>2. /\ begun.at = "suites" /\ Idle.at = "idle"
          /\ \A run : done(run).at = "report"
      BY DEF Idle
    <2> HIDE DEF begun, done
    <2> QED BY <2>1, <2>2, FarStep DEF Testing, Holding
  <1>2. ASSUME NEW p \in Shells, EndEarly(p)
        PROVE  HistoryInv' /\ FileContinues
    <2>1. Go(p, Idle) /\ UNCHANGED workflow
      BY <1>2 DEF EndEarly, Exit
    <2>2. Idle.at = "idle"
      BY DEF Idle
    <2> QED BY <2>1, <2>2, FarStep DEF Testing, Holding
  <1>3. CASE EditSources \/ RemoteAdvances \/ UNCHANGED vars
    BY <1>3, AsideStep DEF EditSources, RemoteAdvances, vars
  <1> QED BY <1>1, <1>2, <1>3, ReleaseContinues, DeployContinues DEF Next

\* As long as one release or deployment runs at a time, and however often it is
\* cut short, what the workflow file remembers is only added to ("History is
\* preserved", workflow-state.ts:65).
THEOREM HistoryPreservedAlways ==
  ASSUME OneWriter
  PROVE  Spec => HistoryPreserved
  <1>1. Init => HistoryInv
    BY DEF Init, HistoryInv, HeldContinues, Idle, Holding, Testing
  <1>2. Inv /\ HistoryInv /\ [Next]_vars => HistoryInv'
    BY HistoryStep
  <1>3. Inv /\ Inv' /\ HistoryInv /\ [Next]_vars =>
          [\A old \in workflow, new \in workflow' :
             /\ Len(old.history) <= Len(new.history)
             /\ SubSeq(new.history, 1, Len(old.history)) = old.history]_vars
    <2> SUFFICES ASSUME Inv, Inv', FileContinues,
                        NEW old \in workflow, NEW new \in workflow'
                 PROVE  /\ Len(old.history) <= Len(new.history)
                        /\ SubSeq(new.history, 1, Len(old.history))
                             = old.history
      BY HistoryStep
    <2>1. old.history \in Seq(Moves) /\ new.history \in Seq(Moves)
      BY DEF Inv, Good, WorkflowTyped
    <2>2. Continues(old.history, new.history)
      BY DEF FileContinues
    <2> QED BY <2>1, <2>2 DEF Continues
  <1> QED BY <1>1, <1>2, <1>3, InvAlways, PTL DEF Spec, HistoryPreserved

-----------------------------------------------------------------------------
(* The tools leave files and provider as good as the commands do *)

\* What raia_context_get relies on while it reads.
ReadingSound(s, c) ==
  /\ c.at = "reading" => c.candidate \in Candidates
  /\ c.at = "told" => StatusHolds(s, c.status)

ToolInv == Inv /\ \A p \in Shells : ReadingSound(store, shell[p])

LEMMA ReadingStays ==
  ASSUME NEW s, NEW t, StoreFollows(s, t), NEW c, ReadingSound(s, c)
  PROVE  ReadingSound(t, c)
  BY DEF ReadingSound, StatusHolds, StoreFollows, Extends, Follows

LEMMA StatusOfGood ==
  ASSUME NEW s, NEW w, Good(s, w), NEW candidate
  PROVE  StatusHolds(s, status(candidate, w))
  <1> DEFINE told == status(candidate, w)
  <1>1. CASE w.candidate = candidate
    <2>1. /\ told.candidate = w.candidate /\ told.stage = w.stage
          /\ told.release = w.release /\ told.deployments = w.deployments
      BY <1>1 DEF status
    <2> HIDE DEF told
    <2>2. StatusHolds(s, told)
      BY <2>1 DEF StatusHolds, Good, RecordIsTrue
    <2> QED BY <2>2 DEF told
  <1>2. CASE w.candidate # candidate
    <2>1. told.stage = "DRAFT" /\ told.release = 0 /\ told.deployments = {}
      BY <1>2 DEF status
    <2> HIDE DEF told
    <2>2. StatusHolds(s, told)
      BY <2>1 DEF StatusHolds
    <2> QED BY <2>2 DEF told
  <1> QED BY <1>1, <1>2

\* The steps of the commands are at places of their own.
CommandPlaces ==
  {"idle", "suites", "report", "validate", "remote", "evidence", "load",
   "advance", "finish", "check", "invalidate", "deploy", "poll"}

LEMMA ReadingElsewhere ==
  ASSUME NEW s, NEW c, c.at \in CommandPlaces
  PROVE  ReadingSound(s, c)
  BY DEF ReadingSound, CommandPlaces

\* Wherever a command goes, it is no place of raia_context_get.
LEMMA CommandGoes ==
  ASSUME Inv, [Next]_vars
  PROVE  \/ shell' = shell
         \/ \E p \in Shells : \E c : Go(p, c) /\ c.at \in CommandPlaces
  <1>0. Idle.at \in CommandPlaces
    BY DEF Idle, CommandPlaces
  <1>1. ASSUME NEW p \in Shells, Test(p)
        PROVE  \E c : Go(p, c) /\ c.at \in CommandPlaces
    <2>1. CASE StartTest(p)
      BY <2>1 DEF StartTest, BeginTest, CommandPlaces
    <2>2. CASE LoadSuites(p)
      <3>1. PICK run : Go(p, [at |-> "report", run |-> run])
        BY <2>2 DEF LoadSuites
      <3> QED BY <3>1 DEF CommandPlaces
    <2>3. CASE WriteReport(p)
      BY <1>0, <2>3 DEF WriteReport, Exit
    <2> QED BY <1>1, <2>1, <2>2, <2>3 DEF Test
  <1>2. ASSUME NEW p \in Shells, StartRelease(p) \/ ReleaseStep(p)
        PROVE  \E c : Go(p, c) /\ c.at \in CommandPlaces
    <2>1. CASE StartRelease(p) \/ Validate(p)
      BY <2>1 DEF StartRelease, BeginRelease, Validate, CommandPlaces
    <2>2. CASE CheckRemote(p)
      <3>1. PICK drift :
              Exit(p) \/ Go(p, [at |-> "evidence", base |-> shell[p].base,
                                candidate |-> shell[p].candidate,
                                drift |-> drift])
        BY <2>2 DEF CheckRemote
      <3> QED BY <1>0, <3>1 DEF Exit, CommandPlaces
    <2>3. CASE ReadEvidence(p)
      <3>1. PICK run :
              Exit(p) \/ Go(p, [at |-> "load", base |-> shell[p].base,
                                candidate |-> shell[p].candidate, run |-> run])
        BY <2>3 DEF ReadEvidence
      <3> QED BY <1>0, <3>1 DEF Exit, CommandPlaces
    <2>4. CASE Load(p)
      BY <1>0, <2>4 DEF Load, Exit, CommandPlaces
    <2>5. CASE AdvanceStage(p)
      <3>1. PICK new : Go(p, [shell[p] EXCEPT !.state = new])
        BY <2>5 DEF AdvanceStage
      <3> DEFINE c == [shell[p] EXCEPT !.state = new]
      <3>2. shell[p].at = "advance" /\ DOMAIN shell[p] = AdvanceFields
        BY <2>5 DEF AdvanceStage, At, Inv, CommandSound
      <3>3. c.at = "advance"
        BY <3>2 DEF AdvanceFields
      <3> HIDE DEF c
      <3> QED BY <3>1, <3>3 DEF CommandPlaces, c
    <2>6. CASE \E gate \in Gates : Submit(p, gate)
      BY <1>0, <2>6 DEF Submit, Exit, CommandPlaces
    <2>7. CASE Finish(p)
      BY <1>0, <2>7 DEF Finish, Exit
    <2> QED BY <1>2, <2>1, <2>2, <2>3, <2>4, <2>5, <2>6, <2>7 DEF ReleaseStep
  <1>3. ASSUME NEW p \in Shells, StartDeploy(p) \/ DeployStep(p)
        PROVE  \E c : Go(p, c) /\ c.at \in CommandPlaces
    <2>1. CASE StartDeploy(p) \/ CheckSources(p)
      <3>1. PICK w : \/ Go(p, [at |-> "check", state |-> w])
                     \/ Go(p, [at |-> "deploy", state |-> w])
                     \/ Go(p, [at |-> "invalidate", state |-> w])
        BY <2>1 DEF StartDeploy, BeginDeploy, CheckSources
      <3> QED BY <3>1 DEF CommandPlaces
    <2>2. CASE SaveInvalidated(p) \/ RecordDeployment(p)
      BY <1>0, <2>2 DEF SaveInvalidated, RecordDeployment, Exit
    <2>3. CASE Deploy(p)
      BY <1>0, <2>3 DEF Deploy, Exit, CommandPlaces
    <2>4. CASE PollDeployment(p)
      <3>1. Exit(p) \/ \E seen : Go(p, [shell[p] EXCEPT !.seen = seen,
                                                        !.polls = @ + 1])
        BY <2>4 DEF PollDeployment
      <3>2. shell[p].at = "poll" /\ DOMAIN shell[p] = PollFields
        BY <2>4 DEF PollDeployment, At, Inv, CommandSound
      <3>3. \A seen : [shell[p] EXCEPT !.seen = seen, !.polls = @ + 1].at = "poll"
        BY <3>2 DEF PollFields
      <3> QED BY <1>0, <3>1, <3>3 DEF Exit, CommandPlaces
    <2> QED BY <1>3, <2>1, <2>2, <2>3, <2>4 DEF DeployStep
  <1>4. ASSUME NEW p \in Shells, EndEarly(p)
        PROVE  \E c : Go(p, c) /\ c.at \in CommandPlaces
    BY <1>0, <1>4 DEF EndEarly, Exit
  <1>5. CASE EditSources \/ RemoteAdvances \/ UNCHANGED vars
    BY <1>5 DEF EditSources, RemoteAdvances, vars
  <1> QED BY <1>1, <1>2, <1>3, <1>4, <1>5 DEF Next

\* A tool that goes on to a place of its own, having read or not.
LEMMA ToolGoes ==
  ASSUME ToolInv, NEW p \in Shells, NEW c, Go(p, c),
         CommandSound(store, c), ReadingSound(store, c),
         UNCHANGED <<sources, edits, report, workflow, store>>
  PROVE  ToolInv'
  <1>1. Inv'
    BY ReadingStep DEF ToolInv
  <1>2. \A q \in Shells : ReadingSound(store', shell'[q])
    BY DEF Go, ToolInv, Inv
  <1> QED BY <1>1, <1>2 DEF ToolInv

\* The same steps as those of a command.
LEMMA CommandStep ==
  ASSUME ToolInv, Inv' /\ StoreFollows(store, store'),
         \/ shell' = shell
         \/ \E p \in Shells : \E c : Go(p, c) /\ c.at \in CommandPlaces
  PROVE  ToolInv'
  <1>1. \A q \in Shells : ReadingSound(store', shell[q])
    BY ReadingStays DEF ToolInv
  <1>2. \A q \in Shells : ReadingSound(store', shell'[q])
    BY <1>1, ReadingElsewhere DEF Go, ToolInv, Inv
  <1> QED BY <1>2 DEF ToolInv

LEMMA ToolSound ==
  ASSUME ToolInv, NEW p \in Shells, Tool(p)
  PROVE  ToolInv'
  <1> DEFINE Plain == {"called", "compared", "run"}
  <1>1. \A at \in Plain : /\ CommandSound(store, [at |-> at])
                          /\ ReadingSound(store, [at |-> at])
    BY DEF CommandSound, ReadingSound
  <1>2. CommandSound(store, Idle) /\ ReadingSound(store, Idle)
    BY IdleSound, ReadingElsewhere DEF Idle, CommandPlaces
  <1>3. ASSUME NEW match, NEW next \in Plain, Compared(p, match, next)
        PROVE  ToolInv'
    <2>1. PICK c : Go(p, c) /\ CommandSound(store, c) /\ ReadingSound(store, c)
      BY <1>1, <1>2, <1>3 DEF Compared, Exit
    <2>2. UNCHANGED <<sources, edits, report, workflow, store>>
      BY <1>3 DEF Compared
    <2> QED BY <2>1, <2>2, ToolGoes
  <1>4. ASSUME BeginTest(p) \/ BeginRelease(p) \/ BeginDeploy(p)
        PROVE  ToolInv'
    <2>1. Inv' /\ StoreFollows(store, store')
      BY <1>4, BeginSound DEF ToolInv
    <2>2. \E c : Go(p, c) /\ c.at \in CommandPlaces
      <3>1. PICK x : \/ Go(p, [at |-> "suites", candidate |-> x])
                     \/ Go(p, [at |-> "validate", base |-> x])
                     \/ Go(p, [at |-> "check", state |-> x])
        BY <1>4 DEF BeginTest, BeginRelease, BeginDeploy
      <3> QED BY <3>1 DEF CommandPlaces
    <2> QED BY <2>1, <2>2, CommandStep
  <1>5. CASE raia_evaluation_run(p)
    BY <1>3, <1>4, <1>5 DEF raia_evaluation_run
  <1>6. CASE raia_release_create(p)
    BY <1>3, <1>4, <1>6 DEF raia_release_create
  <1>7. CASE raia_deployment_staging_create(p)
    BY <1>3, <1>4, <1>7 DEF raia_deployment_staging_create
  <1>8. CASE raia_deployment_get(p)
    <2>1. PICK id \in DOMAIN store.deployments :
            store' = getDeployment(store, "OK", id).store
      BY <1>8 DEF raia_deployment_get
    <2>2. UNCHANGED <<sources, edits, report, workflow, shell>>
      BY <1>8 DEF raia_deployment_get
    <2>3. StoreSound(store) /\ RequestsSound(store)
      BY DEF ToolInv, Inv
    <2>4. id \in Nat
      <3>1. store.deployments \in Seq(StoredDeployments)
        BY <2>3 DEF StoreSound, IsMockState
      <3> QED BY <3>1
    <2>5. /\ StoreSound(store') /\ StoreFollows(store, store')
          /\ store'.idempotency = store.idempotency
      BY <2>1, <2>3, <2>4, PollPromise
    <2>6. RequestsSound(store')
      BY <2>3, <2>5 DEF RequestsSound
    <2>7. Inv' /\ StoreFollows(store, store')
      BY <2>2, <2>5, <2>6, StepSound DEF ToolInv, Inv
    <2> QED BY <2>2, <2>7, CommandStep
  <1>9. CASE raia_context_get(p)
    <2>1. UNCHANGED <<sources, edits, report, workflow, store>>
      BY <1>9 DEF raia_context_get
    <2> DEFINE read == [at |-> "reading", candidate |-> sources]
               told(w) == [at |-> "told",
                           status |-> status(shell[p].candidate, w)]
    <2>2. CommandSound(store, read) /\ ReadingSound(store, read)
      BY DEF CommandSound, ReadingSound, ToolInv, Inv
    <2>3. ASSUME NEW w \in workflow
          PROVE  CommandSound(store, told(w)) /\ ReadingSound(store, told(w))
      BY <2>3, StatusOfGood DEF CommandSound, ReadingSound, ToolInv, Inv
    <2>4. PICK c : Go(p, c) /\ CommandSound(store, c) /\ ReadingSound(store, c)
      BY <1>2, <1>9, <2>2, <2>3 DEF raia_context_get, Exit
    <2> QED BY <2>1, <2>4, ToolGoes
  <1> QED BY <1>5, <1>6, <1>7, <1>8, <1>9 DEF Tool

LEMMA ToolNextSound ==
  ASSUME ToolInv, [ToolNext]_toolVars
  PROVE  ToolInv'
  <1>1. ASSUME NEW p \in Shells, CallTool(p) PROVE ToolInv'
    <2>1. /\ Go(p, [at |-> "called"])
          /\ UNCHANGED <<sources, edits, report, workflow, store>>
      BY <1>1 DEF CallTool, Call
    <2>2. /\ CommandSound(store, [at |-> "called"])
          /\ ReadingSound(store, [at |-> "called"])
      BY DEF CommandSound, ReadingSound
    <2> QED BY <2>1, <2>2, ToolGoes
  <1>2. CASE [Next]_vars
    <2>1. Inv
      BY DEF ToolInv
    <2> QED BY <1>2, <2>1, NextSound, CommandGoes, CommandStep
  <1>3. CASE UNCHANGED toolVars
    BY <1>2, <1>3 DEF toolVars
  <1> QED BY <1>1, <1>2, <1>3, ToolSound DEF ToolNext

LEMMA ToolInvAlways == ToolSpec => []ToolInv
  <1>1. ToolInit => ToolInv
    <2> SUFFICES ASSUME ToolInit PROVE ToolInv
      OBVIOUS
    <2>1. \A p \in Shells : shell[p] = Idle
      BY DEF ToolInit, Init
    <2>2. \A p \in Shells : ReadingSound(store, shell[p])
      BY <2>1, ReadingElsewhere DEF Idle, CommandPlaces
    <2> QED BY <2>2, InitSound DEF ToolInit, ToolInv
  <1> QED BY <1>1, ToolNextSound, PTL DEF ToolSpec

-----------------------------------------------------------------------------
(* A tool keeps to what was named *)

AtMostOne(S) == \A a, b \in S : a = b

CallTyped(c) ==
  /\ {"tool", "overtaken"} \subseteq DOMAIN c /\ c.overtaken \in BOOLEAN
  /\ c.tool = "raia_evaluation_run" => "candidate" \in DOMAIN c
  /\ c.tool = "raia_release_create" => {"candidate", "evidence"} \subseteq DOMAIN c
  /\ c.tool = "raia_deployment_staging_create" => "release" \in DOMAIN c

\* The call c, which has come to d, is still about what it named.
KeepsTo(c, d, srcs, reports, workflows) ==
  /\ c.tool = "raia_evaluation_run" =>
       /\ d.at \in {"run", "suites"} => c.candidate = srcs
       /\ d.at = "suites" => d.candidate = c.candidate
       /\ d.at = "report" =>
            d.run.candidate = c.candidate /\ d.run.suites = c.candidate
  /\ c.tool = "raia_release_create" =>
       /\ d.at \in {"compared", "run", "validate"} => c.candidate = srcs
       /\ d.at \in {"run", "validate", "remote", "evidence"} =>
            c.evidence \subseteq reports
       /\ d.at \in {"remote", "evidence", "load", "advance", "finish"} =>
            d.candidate = c.candidate
       /\ d.at \in {"load", "advance"} => c.evidence \subseteq {d.run}
  /\ c.tool = "raia_deployment_staging_create" =>
       /\ d.at = "run" => \E w \in workflows : w.release = c.release
       /\ d.at \in {"check", "deploy", "poll"} => d.state.release = c.release

CallsSound ==
  /\ AtMostOne(report) /\ AtMostOne(workflow)
  /\ DOMAIN call = Shells
  /\ \A p \in Shells :
       /\ At(p, "idle") => shell[p] = Idle /\ call[p] = {}
       /\ AtMostOne(call[p])
       /\ \A c \in call[p] :
            /\ CallTyped(c)
            /\ c.overtaken \/ KeepsTo(c, shell[p], sources, report, workflow)

\* The step of place p brings its call further along.
Carried(p) ==
  /\ \A q \in Shells \ {p} : shell'[q] = shell[q]
  /\ \/ shell'[p] = Idle
     \/ /\ shell'[p].at # "idle"
        /\ \A c \in call[p] :
             KeepsTo(c, shell[p], sources, report, workflow) =>
               KeepsTo(c, shell'[p], sources, report, workflow)

LEMMA CarriedTo ==
  ASSUME Inv, NEW p \in Shells, NEW e, Go(p, e),
         \/ e = Idle
         \/ /\ e.at # "idle"
            /\ \A c \in call[p] :
                 KeepsTo(c, shell[p], sources, report, workflow) =>
                   KeepsTo(c, e, sources, report, workflow)
  PROVE  Carried(p)
  <1>1. /\ shell'[p] = e
        /\ \A q \in Shells \ {p} : shell'[q] = shell[q]
    BY DEF Go, Inv
  <1> QED BY <1>1 DEF Carried

LEMMA ExitCarries ==
  ASSUME Inv, NEW p \in Shells, Exit(p)
  PROVE  Carried(p)
  BY CarriedTo DEF Exit

\* Nothing is carried from a place that is idle.
LEMMA StartCarries ==
  ASSUME Inv, CallsSound, NEW p \in Shells, At(p, "idle"),
         NEW e, Go(p, e), e.at # "idle"
  PROVE  Carried(p)
  <1>1. call[p] = {}
    BY DEF CallsSound
  <1> QED BY <1>1, CarriedTo

LEMMA TestCarries ==
  ASSUME Inv, CallsSound, NEW p \in Shells, Test(p)
  PROVE  Carried(p)
  <1>1. CASE StartTest(p)
    <2> DEFINE e == [at |-> "suites", candidate |-> sources]
    <2>1. At(p, "idle") /\ Go(p, e) /\ e.at # "idle"
      BY <1>1 DEF StartTest, MayStart, BeginTest
    <2> QED BY <2>1, StartCarries
  <1>2. CASE LoadSuites(p)
    <2>1. PICK seed, passed :
            Go(p, [at |-> "report",
                   run |-> [candidate |-> shell[p].candidate,
                            suites |-> sources, seed |-> seed,
                            passed |-> passed]])
      BY <1>2 DEF LoadSuites
    <2> DEFINE run == [candidate |-> shell[p].candidate, suites |-> sources,
                       seed |-> seed, passed |-> passed]
               e == [at |-> "report", run |-> run]
    <2>2. shell[p].at = "suites"
      BY <1>2 DEF LoadSuites, At
    <2>3. /\ e.at = "report" /\ e.run.candidate = shell[p].candidate
          /\ e.run.suites = sources /\ Go(p, e)
      BY <2>1
    <2> HIDE DEF e
    <2> QED BY <2>2, <2>3, CarriedTo DEF KeepsTo
  <1>3. CASE WriteReport(p)
    BY <1>3, ExitCarries DEF WriteReport
  <1> QED BY <1>1, <1>2, <1>3 DEF Test

LEMMA ReleaseCarries ==
  ASSUME Inv, CallsSound, NEW p \in Shells, StartRelease(p) \/ ReleaseStep(p)
  PROVE  Carried(p)
  <1>1. CASE StartRelease(p)
    <2> DEFINE e == [at |-> "validate", base |-> BaseIn[sources]]
    <2>1. At(p, "idle") /\ Go(p, e) /\ e.at # "idle"
      BY <1>1 DEF StartRelease, MayStart, BeginRelease
    <2> QED BY <2>1, StartCarries
  <1>2. CASE Validate(p)
    <2> DEFINE e == [at |-> "remote", base |-> shell[p].base,
                     candidate |-> sources]
    <2>1. shell[p].at = "validate" /\ Go(p, e)
      BY <1>2 DEF Validate, At
    <2>2. e.at = "remote" /\ e.candidate = sources
      OBVIOUS
    <2> HIDE DEF e
    <2> QED BY <2>1, <2>2, CarriedTo DEF KeepsTo
  <1>3. CASE CheckRemote(p)
    <2>1. PICK drift :
            Exit(p) \/ Go(p, [at |-> "evidence", base |-> shell[p].base,
                              candidate |-> shell[p].candidate,
                              drift |-> drift])
      BY <1>3 DEF CheckRemote
    <2> DEFINE e == [at |-> "evidence", base |-> shell[p].base,
                     candidate |-> shell[p].candidate, drift |-> drift]
    <2>2. shell[p].at = "remote" /\ (Exit(p) \/ Go(p, e))
      BY <1>3, <2>1 DEF CheckRemote, At
    <2>3. e.at = "evidence" /\ e.candidate = shell[p].candidate
      OBVIOUS
    <2> HIDE DEF e
    <2> QED BY <2>2, <2>3, CarriedTo, ExitCarries DEF KeepsTo
  <1>4. CASE ReadEvidence(p)
    <2>1. PICK run :
            \/ Exit(p)
            \/ /\ run \in report
               /\ Go(p, [at |-> "load", base |-> shell[p].base,
                         candidate |-> shell[p].candidate, run |-> run])
      BY <1>4 DEF ReadEvidence
    <2> DEFINE e == [at |-> "load", base |-> shell[p].base,
                     candidate |-> shell[p].candidate, run |-> run]
    <2>2. /\ shell[p].at = "evidence"
          /\ Exit(p) \/ (run \in report /\ Go(p, e))
      BY <1>4, <2>1 DEF ReadEvidence, At
    <2>3. e.at = "load" /\ e.candidate = shell[p].candidate /\ e.run = run
      OBVIOUS
    <2>4. run \in report => report = {run}
      BY DEF CallsSound, AtMostOne
    <2> HIDE DEF e
    <2> QED BY <2>2, <2>3, <2>4, CarriedTo, ExitCarries DEF KeepsTo
  <1>5. CASE Load(p)
    <2>1. PICK w :
            Exit(p) \/ Go(p, [at |-> "advance", base |-> shell[p].base,
                              candidate |-> shell[p].candidate,
                              run |-> shell[p].run, state |-> w])
      BY <1>5 DEF Load
    <2> DEFINE e == [at |-> "advance", base |-> shell[p].base,
                     candidate |-> shell[p].candidate,
                     run |-> shell[p].run, state |-> w]
    <2>2. shell[p].at = "load" /\ (Exit(p) \/ Go(p, e))
      BY <1>5, <2>1 DEF Load, At
    <2>3. /\ e.at = "advance" /\ e.candidate = shell[p].candidate
          /\ e.run = shell[p].run
      OBVIOUS
    <2> HIDE DEF e
    <2> QED BY <2>2, <2>3, CarriedTo, ExitCarries DEF KeepsTo
  <1>6. CASE AdvanceStage(p)
    <2>1. PICK new : Go(p, [shell[p] EXCEPT !.state = new])
      BY <1>6 DEF AdvanceStage
    <2> DEFINE e == [shell[p] EXCEPT !.state = new]
    <2>2. shell[p].at = "advance" /\ DOMAIN shell[p] = AdvanceFields
      BY <1>6 DEF AdvanceStage, At, Inv, CommandSound
    <2>3. /\ e.at = "advance" /\ e.candidate = shell[p].candidate
          /\ e.run = shell[p].run
      BY <2>2 DEF AdvanceFields
    <2>4. Go(p, e)
      BY <2>1
    <2> HIDE DEF e
    <2> QED BY <2>2, <2>3, <2>4, CarriedTo DEF KeepsTo
  <1>7. CASE \E gate \in Gates : Submit(p, gate)
    <2>1. PICK release :
            Exit(p) \/ Go(p, [at |-> "finish", candidate |-> shell[p].candidate,
                              state |-> shell[p].state, release |-> release])
      BY <1>7 DEF Submit
    <2> DEFINE e == [at |-> "finish", candidate |-> shell[p].candidate,
                     state |-> shell[p].state, release |-> release]
    <2>2. shell[p].at = "advance" /\ (Exit(p) \/ Go(p, e))
      BY <1>7, <2>1 DEF Submit, At
    <2>3. e.at = "finish" /\ e.candidate = shell[p].candidate
      OBVIOUS
    <2> HIDE DEF e
    <2> QED BY <2>2, <2>3, CarriedTo, ExitCarries DEF KeepsTo
  <1>8. CASE Finish(p)
    BY <1>8, ExitCarries DEF Finish
  <1> QED BY <1>1, <1>2, <1>3, <1>4, <1>5, <1>6, <1>7, <1>8 DEF ReleaseStep

LEMMA DeployCarries ==
  ASSUME Inv, CallsSound, NEW p \in Shells, StartDeploy(p) \/ DeployStep(p)
  PROVE  Carried(p)
  <1>1. CASE StartDeploy(p)
    <2>1. PICK w : Go(p, [at |-> "check", state |-> w])
      BY <1>1 DEF StartDeploy, BeginDeploy
    <2>2. At(p, "idle")
      BY <1>1 DEF StartDeploy, MayStart
    <2> QED BY <2>1, <2>2, StartCarries
  <1>2. CASE CheckSources(p)
    <2>1. PICK w : \/ Go(p, [at |-> "deploy", state |-> shell[p].state])
                   \/ Go(p, [at |-> "invalidate", state |-> w])
      BY <1>2 DEF CheckSources
    <2> DEFINE e == [at |-> "deploy", state |-> shell[p].state]
               f == [at |-> "invalidate", state |-> w]
    <2>2. shell[p].at = "check" /\ (Go(p, e) \/ Go(p, f))
      BY <1>2, <2>1 DEF CheckSources, At
    <2>3. e.at = "deploy" /\ e.state = shell[p].state /\ f.at = "invalidate"
      OBVIOUS
    <2> HIDE DEF e, f
    <2> QED BY <2>2, <2>3, CarriedTo DEF KeepsTo
  <1>3. CASE Deploy(p)
    <2>1. PICK id, seen :
            Exit(p) \/ Go(p, [at |-> "poll", state |-> shell[p].state,
                              id |-> id, seen |-> seen, polls |-> 0])
      BY <1>3 DEF Deploy
    <2> DEFINE e == [at |-> "poll", state |-> shell[p].state, id |-> id,
                     seen |-> seen, polls |-> 0]
    <2>2. shell[p].at = "deploy" /\ (Exit(p) \/ Go(p, e))
      BY <1>3, <2>1 DEF Deploy, At
    <2>3. e.at = "poll" /\ e.state = shell[p].state
      OBVIOUS
    <2> HIDE DEF e
    <2> QED BY <2>2, <2>3, CarriedTo, ExitCarries DEF KeepsTo
  <1>4. CASE PollDeployment(p)
    <2>1. PICK seen : Exit(p) \/ Go(p, [shell[p] EXCEPT !.seen = seen,
                                                        !.polls = @ + 1])
      BY <1>4 DEF PollDeployment
    <2> DEFINE e == [shell[p] EXCEPT !.seen = seen, !.polls = @ + 1]
    <2>2. shell[p].at = "poll" /\ DOMAIN shell[p] = PollFields
      BY <1>4 DEF PollDeployment, At, Inv, CommandSound
    <2>3. e.at = "poll" /\ e.state = shell[p].state
      BY <2>2 DEF PollFields
    <2>4. Exit(p) \/ Go(p, e)
      BY <2>1
    <2> HIDE DEF e
    <2> QED BY <2>2, <2>3, <2>4, CarriedTo, ExitCarries DEF KeepsTo
  <1>5. CASE SaveInvalidated(p) \/ RecordDeployment(p)
    BY <1>5, ExitCarries DEF SaveInvalidated, RecordDeployment
  <1> QED BY <1>1, <1>2, <1>3, <1>4, <1>5 DEF DeployStep

\* The call in a place is the one that a step of its tool looks at.
LEMMA TheCall ==
  ASSUME CallsSound, NEW p \in Shells, NEW tool, NEW step,
         Called(p, tool, step), NEW c \in call[p]
  PROVE  shell[p].at = step /\ c = Named(p) /\ c.tool = tool
  <1>1. call[p] = {c}
    BY DEF CallsSound, AtMostOne
  <1> QED BY <1>1 DEF Called, At, Named

\* A comparison that only lets pass what keeps to the call.
LEMMA ComparedCarries ==
  ASSUME Inv, NEW p \in Shells, NEW match, NEW next, next # "idle",
         Compared(p, match, next),
         \A c \in call[p] : match => \A e :
           e.at = next /\ KeepsTo(c, shell[p], sources, report, workflow) =>
             KeepsTo(c, e, sources, report, workflow)
  PROVE  Carried(p)
  <1> DEFINE e == [at |-> next]
  <1>1. e.at = next /\ (Exit(p) \/ (match /\ Go(p, e)))
    BY DEF Compared
  <1> HIDE DEF e
  <1> QED BY <1>1, CarriedTo, ExitCarries

LEMMA ToolCarries ==
  ASSUME Inv, CallsSound, NEW p \in Shells, Tool(p), ~raia_deployment_get(p)
  PROVE  Carried(p)
  <1>2. CASE raia_evaluation_run(p)
    <2> DEFINE tool == "raia_evaluation_run"
               match == isCurrentCandidate(Named(p).candidate)
    <2>1. CASE Called(p, tool, "called") /\ Compared(p, match, "run")
      <3>1. ASSUME NEW c \in call[p], match, NEW e, e.at = "run"
            PROVE  KeepsTo(c, e, sources, report, workflow)
        <4>1. c = Named(p) /\ c.tool = tool
          BY <2>1, TheCall
        <4> QED BY <3>1, <4>1 DEF KeepsTo, isCurrentCandidate
      <3> HIDE DEF match
      <3>2. \A c \in call[p] : match => \A e :
              e.at = "run" /\ KeepsTo(c, shell[p], sources, report, workflow) =>
                KeepsTo(c, e, sources, report, workflow)
        BY <3>1
      <3>3. Compared(p, match, "run") /\ "run" # "idle"
        BY <2>1
      <3> QED BY <3>2, <3>3, ComparedCarries
    <2>2. CASE Called(p, tool, "run") /\ BeginTest(p)
      <3> DEFINE e == [at |-> "suites", candidate |-> sources]
      <3>1. Go(p, e) /\ e.at = "suites" /\ e.candidate = sources
        BY <2>2 DEF BeginTest
      <3> HIDE DEF e
      <3>2. \A c \in call[p] : shell[p].at = "run" /\ c.tool = tool
        BY <2>2, TheCall
      <3> QED BY <3>1, <3>2, CarriedTo DEF KeepsTo
    <2> QED BY <1>2, <2>1, <2>2 DEF raia_evaluation_run
  <1>3. CASE raia_release_create(p)
    <2> DEFINE tool == "raia_release_create"
               match == isCurrentCandidate(Named(p).candidate)
               same == isCurrentEvidence(Named(p).evidence)
    <2>1. CASE Called(p, tool, "called") /\ Compared(p, match, "compared")
      <3>1. ASSUME NEW c \in call[p], match, NEW e, e.at = "compared"
            PROVE  KeepsTo(c, e, sources, report, workflow)
        <4>1. c = Named(p) /\ c.tool = tool
          BY <2>1, TheCall
        <4> QED BY <3>1, <4>1 DEF KeepsTo, isCurrentCandidate
      <3> HIDE DEF match
      <3>2. \A c \in call[p] : match => \A e :
              e.at = "compared"
                /\ KeepsTo(c, shell[p], sources, report, workflow) =>
                KeepsTo(c, e, sources, report, workflow)
        BY <3>1
      <3>3. Compared(p, match, "compared") /\ "compared" # "idle"
        BY <2>1
      <3> QED BY <3>2, <3>3, ComparedCarries
    <2>2. CASE Called(p, tool, "compared") /\ Compared(p, same, "run")
      <3>1. ASSUME NEW c \in call[p], same, NEW e, e.at = "run",
                   KeepsTo(c, shell[p], sources, report, workflow)
            PROVE  KeepsTo(c, e, sources, report, workflow)
        <4>1. /\ c = Named(p) /\ c.tool = tool
              /\ shell[p].at = "compared"
          BY <2>2, TheCall
        <4> QED BY <3>1, <4>1 DEF KeepsTo, isCurrentEvidence
      <3> HIDE DEF same
      <3>2. \A c \in call[p] : same => \A e :
              e.at = "run" /\ KeepsTo(c, shell[p], sources, report, workflow) =>
                KeepsTo(c, e, sources, report, workflow)
        BY <3>1
      <3>3. Compared(p, same, "run") /\ "run" # "idle"
        BY <2>2
      <3> QED BY <3>2, <3>3, ComparedCarries
    <2>3. CASE Called(p, tool, "run") /\ BeginRelease(p)
      <3> DEFINE e == [at |-> "validate", base |-> BaseIn[sources]]
      <3>1. Go(p, e) /\ e.at = "validate"
        BY <2>3 DEF BeginRelease
      <3> HIDE DEF e
      <3>2. \A c \in call[p] : shell[p].at = "run" /\ c.tool = tool
        BY <2>3, TheCall
      <3> QED BY <3>1, <3>2, CarriedTo DEF KeepsTo
    <2> QED BY <1>3, <2>1, <2>2, <2>3 DEF raia_release_create
  <1>4. CASE raia_deployment_staging_create(p)
    <2> DEFINE tool == "raia_deployment_staging_create"
               match == \E w \in workflow : isCurrentRelease(w, Named(p).release)
    <2>1. CASE Called(p, tool, "called") /\ Compared(p, match, "run")
      <3>1. ASSUME NEW c \in call[p], match, NEW e, e.at = "run"
            PROVE  KeepsTo(c, e, sources, report, workflow)
        <4>1. c = Named(p) /\ c.tool = tool
          BY <2>1, TheCall
        <4> QED BY <3>1, <4>1 DEF KeepsTo, isCurrentRelease
      <3> HIDE DEF match
      <3>2. \A c \in call[p] : match => \A e :
              e.at = "run" /\ KeepsTo(c, shell[p], sources, report, workflow) =>
                KeepsTo(c, e, sources, report, workflow)
        BY <3>1
      <3>3. Compared(p, match, "run") /\ "run" # "idle"
        BY <2>1
      <3> QED BY <3>2, <3>3, ComparedCarries
    <2>2. CASE Called(p, tool, "run") /\ BeginDeploy(p)
      <3>1. PICK w \in workflow : Go(p, [at |-> "check", state |-> w])
        BY <2>2 DEF BeginDeploy
      <3> DEFINE e == [at |-> "check", state |-> w]
      <3>2. Go(p, e) /\ e.at = "check" /\ e.state = w
        BY <3>1
      <3> HIDE DEF e
      <3>3. \A c \in call[p] : shell[p].at = "run" /\ c.tool = tool
        BY <2>2, TheCall
      <3>4. workflow = {w}
        BY DEF CallsSound, AtMostOne
      <3> QED BY <3>2, <3>3, <3>4, CarriedTo DEF KeepsTo
    <2> QED BY <1>4, <2>1, <2>2 DEF raia_deployment_staging_create
  <1>5. CASE raia_context_get(p)
    <2>1. PICK x, y : \/ Go(p, [at |-> "reading", candidate |-> x])
                      \/ Go(p, [at |-> "told", status |-> y])
                      \/ Exit(p)
      BY <1>5 DEF raia_context_get
    <2>2. \A c \in call[p] : c.tool = "raia_context_get"
      BY <1>5, TheCall DEF raia_context_get
    <2>3. \A c \in call[p] : \A e : KeepsTo(c, e, sources, report, workflow)
      BY <2>2 DEF KeepsTo
    <2> DEFINE e == [at |-> "reading", candidate |-> x]
               f == [at |-> "told", status |-> y]
    <2>4. /\ e.at = "reading" /\ f.at = "told"
          /\ Go(p, e) \/ Go(p, f) \/ Exit(p)
      BY <2>1
    <2> HIDE DEF e, f
    <2> QED BY <2>3, <2>4, CarriedTo, ExitCarries
  <1> QED BY <1>2, <1>3, <1>4, <1>5 DEF Tool

\* The report and the workflow are replaced, never added to.
LEMMA FilesAreSingle ==
  ASSUME CallsSound, [Next]_vars \/ \E p \in Shells : Tool(p)
  PROVE  AtMostOne(report') /\ AtMostOne(workflow')
  <1>1. AtMostOne(report) /\ AtMostOne(workflow)
    BY DEF CallsSound
  <1>2. \A x : AtMostOne({x})
    BY DEF AtMostOne
  <1>3. ASSUME NEW p \in Shells, Tool(p)
        PROVE  report' = report /\ workflow' = workflow
    BY <1>3 DEF Tool, raia_evaluation_run, raia_release_create,
                raia_deployment_staging_create, raia_deployment_get,
                raia_context_get, Compared, BeginTest, BeginRelease, BeginDeploy
  <1>4. ASSUME NEW p \in Shells,
               Test(p) \/ StartRelease(p) \/ StartDeploy(p) \/ EndEarly(p)
        PROVE  /\ report' = report \/ \E x : report' = {x}
               /\ workflow' = workflow
    BY <1>4 DEF Test, StartTest, BeginTest, LoadSuites, WriteReport,
                StartRelease, BeginRelease, StartDeploy, BeginDeploy, EndEarly
  <1>5. ASSUME NEW p \in Shells, ReleaseStep(p)
        PROVE  /\ report' = report
               /\ workflow' = workflow \/ \E x : workflow' = {x}
    BY <1>5 DEF ReleaseStep, Validate, CheckRemote, ReadEvidence, Load,
                AdvanceStage, Submit, Finish
  <1>6. ASSUME NEW p \in Shells, DeployStep(p)
        PROVE  /\ report' = report
               /\ workflow' = workflow \/ \E x : workflow' = {x}
    BY <1>6 DEF DeployStep, CheckSources, SaveInvalidated, Deploy,
                PollDeployment, RecordDeployment
  <1>7. CASE EditSources \/ RemoteAdvances \/ UNCHANGED vars
    BY <1>1, <1>7 DEF EditSources, RemoteAdvances, vars
  <1>8. /\ report' = report \/ \E x : report' = {x}
        /\ workflow' = workflow \/ \E x : workflow' = {x}
    BY <1>3, <1>4, <1>5, <1>6, <1>7 DEF Next, EditSources, RemoteAdvances, vars
  <1> QED BY <1>1, <1>2, <1>8

\* A call that a step of some place carries on, or that nobody carries, and that
\* the step does not overtake, keeps to what it named.
LEMMA FollowKeeps ==
  ASSUME Inv, CallsSound, Follow, AtMostOne(report'), AtMostOne(workflow'),
         shell' = shell \/ \E p \in Shells : Carried(p)
  PROVE  CallsSound'
  <1>1. DOMAIN call' = Shells
    BY DEF Follow
  <1>2. ASSUME NEW q \in Shells
        PROVE  /\ shell'[q] = Idle \/ shell'[q].at # "idle"
               /\ shell'[q] # Idle => \A c \in call[q] :
                    KeepsTo(c, shell[q], sources, report, workflow) =>
                      KeepsTo(c, shell'[q], sources, report, workflow)
    BY DEF Carried, CallsSound, At
  <1>3. ASSUME NEW q \in Shells, shell'[q].at = "idle"
        PROVE  shell'[q] = Idle /\ call'[q] = {}
    BY <1>2, <1>3 DEF Follow
  <1>4. ASSUME NEW q \in Shells, shell'[q] # Idle
        PROVE  /\ AtMostOne(call'[q])
               /\ \A d \in call'[q] : /\ CallTyped(d)
                                      /\ \/ d.overtaken
                                         \/ KeepsTo(d, shell'[q], sources',
                                                    report', workflow')
    <2> DEFINE new(c) == [c EXCEPT !.overtaken = @ \/ Overtaken(c.tool)]
    <2>1. call'[q] = {new(c) : c \in call[q]}
      BY <1>4 DEF Follow
    <2>2. AtMostOne(call[q])
      BY DEF CallsSound
    <2>3. AtMostOne(call'[q])
      BY <2>1, <2>2 DEF AtMostOne
    <2>4. ASSUME NEW c \in call[q]
          PROVE  /\ CallTyped(new(c))
                 /\ \/ new(c).overtaken
                    \/ KeepsTo(new(c), shell'[q], sources', report', workflow')
      <3>1. CallTyped(c) /\ (c.overtaken \/ KeepsTo(c, shell[q], sources, report,
                                                    workflow))
        BY DEF CallsSound
      <3>2. Overtaken(c.tool) \in BOOLEAN
        BY DEF Overtaken
      <3> DEFINE d == new(c)
                 over == c.overtaken \/ Overtaken(c.tool)
      <3>3. /\ DOMAIN d = DOMAIN c /\ d.overtaken = over
            /\ \A x \in DOMAIN c : x # "overtaken" => d[x] = c[x]
        <4> HIDE DEF over
        <4>1. d = [c EXCEPT !.overtaken = over]
          BY DEF over
        <4> QED BY <3>1, <4>1 DEF CallTyped
      <3>4. over \in BOOLEAN
        BY <3>1, <3>2 DEF CallTyped
      <3> HIDE DEF d
      <3>5. d.tool = c.tool /\ CallTyped(d)
        <4> HIDE DEF over
        <4> QED BY <3>1, <3>3, <3>4 DEF CallTyped
      <3>6. ASSUME ~over
            PROVE  KeepsTo(d, shell'[q], sources', report', workflow')
        <4>1. KeepsTo(c, shell'[q], sources, report, workflow)
          BY <1>2, <1>4, <3>1, <3>6
        <4>2. /\ c.tool = "raia_evaluation_run" => sources' = sources
              /\ c.tool = "raia_release_create" =>
                   sources' = sources /\ report' = report
              /\ c.tool = "raia_deployment_staging_create" =>
                   workflow' = workflow
          BY <3>6 DEF Overtaken
        <4>3. KeepsTo(c, shell'[q], sources', report', workflow')
          BY <4>1, <4>2 DEF KeepsTo
        <4>4. /\ c.tool = "raia_evaluation_run" => d.candidate = c.candidate
              /\ c.tool = "raia_release_create" =>
                   d.candidate = c.candidate /\ d.evidence = c.evidence
              /\ c.tool = "raia_deployment_staging_create" =>
                   d.release = c.release
          BY <3>1, <3>3 DEF CallTyped
        <4> QED BY <3>5, <4>3, <4>4 DEF KeepsTo
      <3> QED BY <3>3, <3>5, <3>6 DEF d
    <2> QED BY <2>1, <2>3, <2>4
  <1>5. ASSUME NEW q \in Shells, shell'[q] = Idle PROVE call'[q] = {}
    BY <1>5 DEF Follow
  <1>6. \A q \in Shells :
          /\ At(q, "idle")' => shell'[q] = Idle /\ call'[q] = {}
          /\ AtMostOne(call'[q])
          /\ \A d \in call'[q] : /\ CallTyped(d)
                                 /\ \/ d.overtaken
                                    \/ KeepsTo(d, shell'[q], sources', report',
                                               workflow')
    BY <1>3, <1>4, <1>5 DEF At, AtMostOne
  <1> QED BY <1>1, <1>6 DEF CallsSound

LEMMA CallsNext ==
  ASSUME ToolInv, CallsSound, [ToolNext]_toolVars
  PROVE  CallsSound'
  <1>0. Inv
    BY DEF ToolInv
  <1>1. ASSUME NEW p \in Shells, CallTool(p) PROVE CallsSound'
    <2>1. PICK c : /\ Call(p, c)
                   /\ CallTyped(c)
      <3>1. ASSUME NEW candidate
            PROVE  CallTyped([tool |-> "raia_evaluation_run",
                              candidate |-> candidate, overtaken |-> FALSE])
        BY DEF CallTyped
      <3>2. ASSUME NEW candidate, NEW evidence
            PROVE  CallTyped([tool |-> "raia_release_create",
                              candidate |-> candidate, evidence |-> evidence,
                              overtaken |-> FALSE])
        BY DEF CallTyped
      <3>3. ASSUME NEW release
            PROVE  CallTyped([tool |-> "raia_deployment_staging_create",
                              release |-> release, overtaken |-> FALSE])
        BY DEF CallTyped
      <3>4. CallTyped([tool |-> "raia_context_get", overtaken |-> FALSE])
        BY DEF CallTyped
      <3> QED BY <1>1, <3>1, <3>2, <3>3, <3>4 DEF CallTool
    <2> DEFINE e == [at |-> "called"]
    <2>2. /\ call' = [call EXCEPT ![p] = {c}]
          /\ shell' = [shell EXCEPT ![p] = e] /\ e.at = "called"
          /\ UNCHANGED <<sources, report, workflow>>
      BY <2>1 DEF Call, Go
    <2> HIDE DEF e
    <2>3. KeepsTo(c, e, sources, report, workflow)
      BY <2>2 DEF KeepsTo
    <2>4. /\ DOMAIN call' = Shells
          /\ call'[p] = {c} /\ shell'[p] = e
          /\ \A q \in Shells \ {p} : call'[q] = call[q] /\ shell'[q] = shell[q]
      BY <1>0, <2>2 DEF CallsSound, Inv
    <2> QED BY <2>1, <2>2, <2>3, <2>4 DEF CallsSound, AtMostOne, At
  <1>2. ASSUME NEW p \in Shells, Tool(p), Follow PROVE CallsSound'
    <2>1. AtMostOne(report') /\ AtMostOne(workflow')
      BY <1>2, FilesAreSingle
    <2>2. shell' = shell \/ Carried(p)
      <3>1. CASE raia_deployment_get(p)
        BY <3>1 DEF raia_deployment_get
      <3>2. CASE ~raia_deployment_get(p)
        BY <1>0, <1>2, <3>2, ToolCarries
      <3> QED BY <3>1, <3>2
    <2> QED BY <1>0, <1>2, <2>1, <2>2, FollowKeeps
  <1>3. ASSUME Next, Follow PROVE CallsSound'
    <2>1. AtMostOne(report') /\ AtMostOne(workflow')
      BY <1>3, FilesAreSingle
    <2>2. shell' = shell \/ \E p \in Shells : Carried(p)
      <3>1. ASSUME NEW p \in Shells, EndEarly(p) PROVE Carried(p)
        BY <1>0, <3>1, ExitCarries DEF EndEarly
      <3>2. CASE EditSources \/ RemoteAdvances
        BY <3>2 DEF EditSources, RemoteAdvances
      <3> QED BY <1>0, <1>3, <3>1, <3>2, TestCarries, ReleaseCarries,
                 DeployCarries DEF Next
    <2> QED BY <1>0, <1>3, <2>1, <2>2, FollowKeeps
  <1>4. CASE UNCHANGED toolVars
    BY <1>4 DEF toolVars, vars, CallsSound, At
  <1> QED BY <1>1, <1>2, <1>3, <1>4 DEF ToolNext

LEMMA CallsAlways == ToolSpec => []CallsSound
  <1>1. ToolInit => CallsSound
    BY DEF ToolInit, Init, CallsSound, AtMostOne, At
  <1>2. ToolInv /\ CallsSound /\ [ToolNext]_toolVars => CallsSound'
    BY CallsNext
  <1> QED BY <1>1, <1>2, ToolInvAlways, PTL DEF ToolSpec

-----------------------------------------------------------------------------
(* The theorems *)

\* With the tools beside the commands, too, the saved workflow is sound
\* (handlers.ts:226-345 runs the CLI's runners).
THEOREM ToolsKeepWorkflow == ToolSpec => []WorkflowSound
  <1>1. ToolInv => WorkflowSound
    BY DEF ToolInv, Inv, Good, WorkflowSound
  <1> QED BY <1>1, ToolInvAlways, PTL

\* Nor do the tools make the workflow say what the provider would not confirm,
\* although raia_deployment_get moves deployments beside it (handlers.ts:352).
THEOREM ToolsKeepRecords == ToolSpec => []RecordsAreTrue
  <1>1. ToolInv => RecordsAreTrue
    BY DEF ToolInv, Inv, Good, RecordsAreTrue
  <1> QED BY <1>1, ToolInvAlways, PTL

\* A tool and a command at work on one candidate make one release and one
\* deployment between them (handlers.ts:282, 318).
THEOREM ToolsMakeOnce == ToolSpec => []MadeOnce
  <1>1. ASSUME ToolInv PROVE MadeOnce
    BY <1>1, OneRelease, OneDeployment DEF ToolInv, Inv, MadeOnce
  <1> QED BY <1>1, ToolInvAlways, PTL

\* The candidate, release and deployments that raia_context_get tells belong
\* together and are the provider's when they are told, whatever was written since
\* its first read (status.ts:61-70).
THEOREM StatusTrueAlways == ToolSpec => []StatusIsTrue
  <1>1. ToolInv => StatusIsTrue
    BY DEF ToolInv, ReadingSound, StatusIsTrue, At
  <1> QED BY <1>1, ToolInvAlways, PTL

\* The comparison that a tool throws away is enough unless something it compared
\* was changed in the middle of the call (handlers.ts:243, 282, 318).
THEOREM NamedAlways == ToolSpec => []NamedOrOvertaken
  <1>1. ASSUME CallsSound PROVE NamedOrOvertaken
    <2> SUFFICES ASSUME NEW p \in Shells, NEW c \in call[p], ~c.overtaken
                 PROVE  /\ c.tool = "raia_evaluation_run" /\ At(p, "report") =>
                             /\ shell[p].run.candidate = c.candidate
                             /\ shell[p].run.suites = c.candidate
                        /\ c.tool = "raia_release_create"
                             /\ shell[p].at \in {"advance", "finish"} =>
                             /\ shell[p].candidate = c.candidate
                             /\ At(p, "advance") =>
                                  c.evidence \subseteq {shell[p].run}
                        /\ c.tool = "raia_deployment_staging_create"
                             /\ shell[p].at \in {"deploy", "poll"} =>
                             shell[p].state.release = c.release
      BY DEF NamedOrOvertaken
    <2>1. KeepsTo(c, shell[p], sources, report, workflow)
      BY <1>1 DEF CallsSound
    <2> QED BY <2>1 DEF KeepsTo, At
  <1> QED BY <1>1, CallsAlways, PTL
=============================================================================
