--------------------------- MODULE ProviderState ---------------------------
(***************************************************************************)
(* The state.json of the mock management provider                          *)
(* (packages/provider-mock/src/state.ts) and its request handlers          *)
(* (packages/provider-mock/src/mock-provider.ts), each as a function from  *)
(* the state it read and the request to the state it writes and the reply. *)
(* That is the shape of the code: a handler is the `mutate` argument of    *)
(* StateStore.update.  MockProvider runs the handlers atomically; the      *)
(* modules that interleave the read and the write reuse them unchanged.    *)
(*                                                                         *)
(* One agent is kept.  It is unknown while `versions` is empty; version    *)
(* "v<n>" is index n, and the ETag, which the code derives from the        *)
(* version id (mock-provider.ts:125 and :164), is the same index.  Drafts, *)
(* releases and deployments are never deleted and take the next number of  *)
(* their counter, so each map is a sequence indexed by that number.        *)
(***************************************************************************)
EXTENDS Lifecycle, Naturals, Sequences

CONSTANTS
  Bundles,      \* contents an agent version may have
  Candidates,   \* candidate hashes (they determine manifest and lock hashes)
  Evidence,     \* evidence references a release request may carry
  Keys,         \* idempotency keys
  Reasons       \* non-blank rollback reasons

\* The `reason` that reason.trim() empties.
CONSTANT Blank
ASSUME BlankIsNoReason == Blank \notin Reasons

-----------------------------------------------------------------------------
(* Data *)

Environments == {"development", "staging"}   \* "production" is refused

\* The progressions a stored deployment can be given.
Plans == {<<"DEPLOYING", "HEALTHY">>, <<"DEPLOYING", "FAILED">>,
          <<"ROLLED_BACK">>}

Drafts == [manifest : Candidates, base : Nat]
Releases == [candidate : Candidates, base : Nat]
\* `target` is rollbackTargetId, 0 when the field is absent.
StoredDeployments ==
  [release : Nat, environment : Environments, state : DeploymentStates,
   target : Nat, plan : Plans, planIndex : 0 .. 2]

\* The canonical request a key is bound to (its hash, in the code).
Requests ==
  [operation : {"createDraft"}, manifest : Candidates]
    \cup [operation : {"createReleaseCandidate"}, candidate : Candidates,
          evidence : SUBSET Evidence]
    \cup [operation : {"createDeployment"}, release : Nat,
          environment : Environments]
    \cup [operation : {"rollbackDeployment"}, deployment : Nat,
          reason : Reasons]

ErrorCodes ==
  {"NOT_FOUND", "STALE_BASE", "IDEMPOTENCY_MISMATCH", "POLICY_FAILED",
   "PERMISSION_DENIED", "UNAVAILABLE", "INVALID_TRANSITION",
   "VALIDATION_FAILED"}
Replies ==
  [code : {"OK"} \cup ErrorCodes, id : Nat,
   state : DeploymentStates \cup {"DRAFT", "RELEASED", "NONE"}]

IdempotencyRecords == [request : Requests, response : Replies]

\* s has the fields of MockState (counters, workspaces and traces left out).
IsMockState(s) ==
  /\ s = [versions |-> s.versions, drafts |-> s.drafts,
          releases |-> s.releases, deployments |-> s.deployments,
          idempotency |-> s.idempotency]
  /\ s.versions \in Seq(Bundles)
  /\ s.drafts \in Seq(Drafts)
  /\ s.releases \in Seq(Releases)
  /\ s.deployments \in Seq(StoredDeployments)
  /\ DOMAIN s.idempotency \subseteq Keys
  /\ s.idempotency \in [DOMAIN s.idempotency -> IdempotencyRecords]

emptyState ==
  [versions |-> << >>, drafts |-> << >>, releases |-> << >>,
   deployments |-> << >>, idempotency |-> [k \in {} |-> {}]]

-----------------------------------------------------------------------------
(* Outcomes: what a handler leaves in the store and what it answers. *)

Reply(code, id, state) == [code |-> code, id |-> id, state |-> state]
Outcome(s, reply) == [store |-> s, reply |-> reply]
Refuse(s, code) == Outcome(s, Reply(code, 0, "NONE"))

\* What checkAvailable and requireScope say of the caller, by the fixtures the
\* provider was built with.  Both come before anything else.
Gates == {"OK", "UNAVAILABLE", "PERMISSION_DENIED"}
Gated(s, gate, outcome) == IF gate = "OK" THEN outcome ELSE Refuse(s, gate)

\* MutationContext: a key, and the base version and ETag the caller expects, 0 for
\* neither.
MutationContexts == [key : Keys, base : Nat, etag : Nat, gate : Gates]

Current(s) == Len(s.versions)

\* Mutant: one of base and ETag in step is taken for both.
StaleOnlyIfBoth(s, context) ==
  /\ context.base # 0 /\ context.base # Current(s)
  /\ context.etag # 0 /\ context.etag # Current(s)

StaleBase(s, context) ==
  \/ context.base # 0 /\ context.base # Current(s)
  \/ context.etag # 0 /\ context.etag # Current(s)

BaseOf(s, context) == IF context.base = 0 THEN Current(s) ELSE context.base

\* The map f with k bound to v.
Bind(f, k, v) == [x \in DOMAIN f \cup {k} |-> IF x = k THEN v ELSE f[x]]

\* Mutant: a mismatching request is executed instead of refused.
IdempotentByRequest(s, key, request, effect) ==
  IF key \in DOMAIN s.idempotency /\ s.idempotency[key].request = request
  THEN Outcome(s, s.idempotency[key].response)
  ELSE IF effect.reply.code = "OK"
       THEN Outcome([effect.store EXCEPT
                       !.idempotency = Bind(@, key,
                          [request |-> request, response |-> effect.reply])],
                    effect.reply)
       ELSE effect

(***************************************************************************)
(* The idempotency envelope.  `effect` is the outcome of executing the     *)
(* request on s.  A known key replays its response or is refused, before   *)
(* any check of the handler; a refused request records nothing.            *)
(***************************************************************************)
Idempotent(s, key, request, effect) ==
  IF key \in DOMAIN s.idempotency
  THEN IF s.idempotency[key].request = request
       THEN Outcome(s, s.idempotency[key].response)
       ELSE Refuse(s, "IDEMPOTENCY_MISMATCH")
  ELSE IF effect.reply.code = "OK"
       THEN Outcome([effect.store EXCEPT
                       !.idempotency = Bind(@, key,
                          [request |-> request, response |-> effect.reply])],
                    effect.reply)
       ELSE effect

-----------------------------------------------------------------------------
(* Agent versions *)

\* Mutant: seeding starts from an empty store.
SeedAfresh(s, bundle) == [emptyState EXCEPT !.versions = <<bundle>>]

\* Seeding an agent again restarts it at "v1" and keeps everything else.
Seed(s, bundle) == [s EXCEPT !.versions = <<bundle>>]

\* The remote moves on, which is what drift is.
Advance(s, bundle) == [s EXCEPT !.versions = Append(@, bundle)]

-----------------------------------------------------------------------------
(* Drafts and releases *)

DraftEffect(s, context, manifest) ==
  IF Current(s) = 0 THEN Refuse(s, "NOT_FOUND")
  ELSE IF StaleBase(s, context) THEN Refuse(s, "STALE_BASE")
  ELSE Outcome([s EXCEPT !.drafts =
                  Append(@, [manifest |-> manifest,
                             base |-> BaseOf(s, context)])],
               Reply("OK", Len(s.drafts) + 1, "DRAFT"))

DraftRequest(manifest) ==
  [operation |-> "createDraft", manifest |-> manifest]

createDraft(s, context, manifest) ==
  Gated(s, context.gate,
        Idempotent(s, context.key, DraftRequest(manifest),
                   DraftEffect(s, context, manifest)))

ReleaseEffect(s, context, candidate, evidence) ==
  IF Current(s) = 0 THEN Refuse(s, "NOT_FOUND")
  ELSE IF StaleBase(s, context) THEN Refuse(s, "STALE_BASE")
  ELSE Outcome([s EXCEPT !.releases =
                  Append(@, [candidate |-> candidate,
                             base |-> BaseOf(s, context)])],
               Reply("OK", Len(s.releases) + 1, "RELEASED"))

ReleaseRequest(candidate, evidence) ==
  [operation |-> "createReleaseCandidate", candidate |-> candidate,
   evidence |-> evidence]

\* Mutant: the base is checked before the key is looked up.
createReleaseCandidateStaleFirst(s, context, candidate, evidence) ==
  Gated(s, context.gate,
        IF evidence = {} THEN Refuse(s, "POLICY_FAILED")
        ELSE IF StaleBase(s, context) THEN Refuse(s, "STALE_BASE")
        ELSE Idempotent(s, context.key, ReleaseRequest(candidate, evidence),
                        ReleaseEffect(s, context, candidate, evidence)))

createReleaseCandidate(s, context, candidate, evidence) ==
  Gated(s, context.gate,
        IF evidence = {} THEN Refuse(s, "POLICY_FAILED")
        ELSE Idempotent(s, context.key, ReleaseRequest(candidate, evidence),
                        ReleaseEffect(s, context, candidate, evidence)))

-----------------------------------------------------------------------------
(* Deployments *)

HealthyIn(s, environment) ==
  {i \in DOMAIN s.deployments :
     /\ s.deployments[i].environment = environment
     /\ s.deployments[i].state = "HEALTHY"}

\* Mutant: the newest deployment of the environment, whatever became of it.
NewestTarget(s, environment) ==
  LET older == {i \in DOMAIN s.deployments :
                  s.deployments[i].environment = environment}
  IN IF older = {} THEN 0
     ELSE CHOOSE i \in older : \A j \in older : j <= i

\* The last of the environment's HEALTHY deployments, 0 when it has none.
\* The code sorts by id as text ("dep_10" before "dep_2"); which one is last
\* matters only if an environment could have two (see MockProvider).
RollbackTarget(s, environment) ==
  IF HealthyIn(s, environment) = {} THEN 0
  ELSE CHOOSE i \in HealthyIn(s, environment) : TRUE

PlanFor(outcome) ==
  IF outcome = "failed" THEN <<"DEPLOYING", "FAILED">>
  ELSE <<"DEPLOYING", "HEALTHY">>

DeployEffect(s, release, environment, outcome) ==
  IF release \notin DOMAIN s.releases THEN Refuse(s, "NOT_FOUND")
  ELSE Outcome([s EXCEPT !.deployments =
                  Append(@, [release |-> release, environment |-> environment,
                             state |-> "QUEUED",
                             target |-> RollbackTarget(s, environment),
                             plan |-> PlanFor(outcome), planIndex |-> 0])],
               Reply("OK", Len(s.deployments) + 1, "QUEUED"))

DeployRequest(release, environment) ==
  [operation |-> "createDeployment", release |-> release,
   environment |-> environment]

\* Mutant: production is not refused.
createDeploymentAnywhere(s, context, release, environment, outcome) ==
  Gated(s, context.gate,
        Idempotent(s, context.key, DeployRequest(release, environment),
                   DeployEffect(s, release, environment, outcome)))

createDeployment(s, context, release, environment, outcome) ==
  Gated(s, context.gate,
        IF environment \notin Environments THEN Refuse(s, "PERMISSION_DENIED")
        ELSE Idempotent(s, context.key, DeployRequest(release, environment),
                        DeployEffect(s, release, environment, outcome)))

\* The step a poll of deployment d would take.
NextStep(d) == d.plan[d.planIndex + 1]

\* Mutant: the last step of a plan is never due.
StepIsDueButLast(d) ==
  /\ d.planIndex + 1 < Len(d.plan)
  /\ decideDeploymentTransition(d.state, NextStep(d))

StepIsDue(d) ==
  /\ d.planIndex < Len(d.plan)
  /\ decideDeploymentTransition(d.state, NextStep(d))

\* Mutant: only the polled deployment changes.
PolledAlone(s, id) ==
  [s.deployments EXCEPT ![id].state = NextStep(s.deployments[id]),
                        ![id].planIndex = @ + 1]

\* Mutant: whatever else the environment has is superseded.
PolledOverAll(s, id) ==
  LET next == NextStep(s.deployments[id])
      environment == s.deployments[id].environment
  IN [i \in DOMAIN s.deployments |->
        IF i = id THEN [s.deployments[i] EXCEPT !.state = next,
                                                !.planIndex = @ + 1]
        ELSE IF next = "HEALTHY" /\ s.deployments[i].environment = environment
             THEN [s.deployments[i] EXCEPT !.state = "SUPERSEDED"]
             ELSE s.deployments[i]]

\* Every poll takes one step; reaching HEALTHY supersedes the environment's
\* other HEALTHY deployments.
Polled(s, id) ==
  LET next == NextStep(s.deployments[id])
      superseded ==
        IF next = "HEALTHY"
        THEN HealthyIn(s, s.deployments[id].environment) \ {id}
        ELSE {}
  IN [i \in DOMAIN s.deployments |->
        IF i = id THEN [s.deployments[i] EXCEPT !.state = next,
                                                !.planIndex = @ + 1]
        ELSE IF i \in superseded
             THEN [s.deployments[i] EXCEPT !.state = "SUPERSEDED"]
             ELSE s.deployments[i]]

PollEffect(s, id) ==
  IF id \notin DOMAIN s.deployments THEN Refuse(s, "NOT_FOUND")
  ELSE IF StepIsDue(s.deployments[id])
       THEN Outcome([s EXCEPT !.deployments = Polled(s, id)],
                    Reply("OK", id, NextStep(s.deployments[id])))
       ELSE Outcome(s, Reply("OK", id, s.deployments[id].state))

getDeployment(s, gate, id) == Gated(s, gate, PollEffect(s, id))

\* Mutant: the old plan is kept.
RollbackOnOldPlan(s, id) ==
  IF id \notin DOMAIN s.deployments THEN Refuse(s, "NOT_FOUND")
  ELSE IF ~decideDeploymentTransition(s.deployments[id].state, "ROLLING_BACK")
       THEN Refuse(s, "INVALID_TRANSITION")
       ELSE Outcome([s EXCEPT !.deployments[id].state = "ROLLING_BACK"],
                    Reply("OK", id, "ROLLING_BACK"))

RollbackEffect(s, id) ==
  IF id \notin DOMAIN s.deployments THEN Refuse(s, "NOT_FOUND")
  ELSE IF ~decideDeploymentTransition(s.deployments[id].state, "ROLLING_BACK")
       THEN Refuse(s, "INVALID_TRANSITION")
       ELSE Outcome([s EXCEPT !.deployments[id] =
                       [@ EXCEPT !.state = "ROLLING_BACK",
                                 !.plan = <<"ROLLED_BACK">>,
                                 !.planIndex = 0]],
                    Reply("OK", id, "ROLLING_BACK"))

RollbackRequest(id, reason) ==
  [operation |-> "rollbackDeployment", deployment |-> id, reason |-> reason]

rollbackDeployment(s, context, id, reason) ==
  Gated(s, context.gate,
        IF reason = Blank THEN Refuse(s, "VALIDATION_FAILED")
        ELSE Idempotent(s, context.key, RollbackRequest(id, reason),
                        RollbackEffect(s, id)))

-----------------------------------------------------------------------------
(* What every handler preserves, as predicates of one stored state. *)

\* The deployment that becomes HEALTHY supersedes the one before it.
OneHealthy(s) ==
  \A i, j \in DOMAIN s.deployments :
    /\ s.deployments[i].state = "HEALTHY"
    /\ s.deployments[j].state = "HEALTHY"
    /\ s.deployments[i].environment = s.deployments[j].environment
    => i = j

\* A deployment has a step due, one the table allows, exactly while it is in
\* flight.  A plan out of step with the state would make polls repeat for ever.
InFlight == {"QUEUED", "DEPLOYING", "ROLLING_BACK"}
PlansAgree(s) ==
  \A i \in DOMAIN s.deployments :
    StepIsDue(s.deployments[i]) <=> s.deployments[i].state \in InFlight

\* The states of a deployment that was HEALTHY at some time, as far as a state
\* tells: one that failed may be rolled back as well.
HasBeenHealthy == {"HEALTHY", "SUPERSEDED", "ROLLING_BACK", "ROLLED_BACK"}
TargetsSound(s) ==
  \A i \in DOMAIN s.deployments :
    LET target == s.deployments[i].target IN
    target # 0 =>
      /\ target \in DOMAIN s.deployments
      /\ target < i
      /\ s.deployments[target].environment = s.deployments[i].environment
      /\ s.deployments[target].state \in HasBeenHealthy

\* Key k was answered with the creation of object id by the operation.
Created(s, operation, k, id) ==
  /\ k \in DOMAIN s.idempotency
  /\ s.idempotency[k].request.operation = operation
  /\ s.idempotency[k].response.id = id

ReleasesCreatedOnce(s) ==
  LET By(k, id) == Created(s, "createReleaseCandidate", k, id) IN
  /\ \A id \in DOMAIN s.releases : \E k \in Keys : By(k, id)
  /\ \A k \in DOMAIN s.idempotency :
       LET id == s.idempotency[k].response.id IN
       By(k, id) =>
         /\ id \in DOMAIN s.releases
         /\ s.releases[id].candidate = s.idempotency[k].request.candidate
         /\ \A other \in Keys : By(other, id) => other = k

DeploymentsCreatedOnce(s) ==
  LET By(k, id) == Created(s, "createDeployment", k, id) IN
  /\ \A id \in DOMAIN s.deployments :
       /\ s.deployments[id].release \in DOMAIN s.releases
       /\ \E k \in Keys : By(k, id)
  /\ \A k \in DOMAIN s.idempotency :
       LET id == s.idempotency[k].response.id IN
       By(k, id) =>
         /\ id \in DOMAIN s.deployments
         /\ s.deployments[id].release = s.idempotency[k].request.release
         /\ s.deployments[id].environment
              = s.idempotency[k].request.environment
         /\ \A other \in Keys : By(other, id) => other = k
=============================================================================
