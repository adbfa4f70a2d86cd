------------------------ MODULE ProviderStateProofs ------------------------
(***************************************************************************)
(* What each handler of ProviderState makes of a store, for any keys,      *)
(* candidates and contexts: lemmas about operators, cited by the theorems  *)
(* about the specifications that run the handlers (MockProviderProofs,     *)
(* McpToolsProofs, StateStoreProofs, ManagementApiProofs).                 *)
(***************************************************************************)
EXTENDS ProviderState, SequenceTheorems, TLAPS

-----------------------------------------------------------------------------
(* Type correctness *)

LEMMA EmptyTyped == IsMockState(emptyState)
  BY DEF IsMockState, emptyState

\* A handler that refuses leaves the store alone.
LEMMA RefuseFacts ==
  ASSUME NEW s, NEW code
  PROVE  /\ Refuse(s, code).store = s
         /\ Refuse(s, code).reply.code = code
  BY DEF Refuse, Outcome, Reply

LEMMA GatedFacts ==
  ASSUME NEW s, NEW gate, NEW outcome
  PROVE  Gated(s, gate, outcome).store \in {s, outcome.store}
  BY RefuseFacts DEF Gated

\* Replacing one field leaves the others alone, and keeps the store typed when
\* the new value has the field's type.
Fields(s) ==
  [versions |-> s.versions, drafts |-> s.drafts, releases |-> s.releases,
   deployments |-> s.deployments, idempotency |-> s.idempotency]

LEMMA SetVersions ==
  ASSUME NEW s, s = Fields(s), NEW new
  PROVE  /\ [s EXCEPT !.versions = new] = Fields([s EXCEPT !.versions = new])
         /\ [s EXCEPT !.versions = new].versions = new
         /\ [s EXCEPT !.versions = new].drafts = s.drafts
         /\ [s EXCEPT !.versions = new].releases = s.releases
         /\ [s EXCEPT !.versions = new].deployments = s.deployments
         /\ [s EXCEPT !.versions = new].idempotency = s.idempotency
  BY SMTT(30) DEF Fields

LEMMA NewVersions ==
  ASSUME NEW s, IsMockState(s), NEW new \in Seq(Bundles)
  PROVE  /\ IsMockState([s EXCEPT !.versions = new])
         /\ [s EXCEPT !.versions = new].versions = new
         /\ [s EXCEPT !.versions = new].drafts = s.drafts
         /\ [s EXCEPT !.versions = new].releases = s.releases
         /\ [s EXCEPT !.versions = new].deployments = s.deployments
         /\ [s EXCEPT !.versions = new].idempotency = s.idempotency
  <1> DEFINE t == [s EXCEPT !.versions = new]
  <1>1. s = Fields(s)
    BY DEF IsMockState, Fields
  <1>2. /\ t = Fields(t)
        /\ t.versions = new
        /\ t.drafts = s.drafts
        /\ t.releases = s.releases
        /\ t.deployments = s.deployments
        /\ t.idempotency = s.idempotency
    BY <1>1, SetVersions
  <1>3. IsMockState(t)
    <2> HIDE DEF t
    <2> QED BY <1>2 DEF IsMockState, Fields
  <1> QED BY <1>2, <1>3

LEMMA SetDrafts ==
  ASSUME NEW s, s = Fields(s), NEW new
  PROVE  /\ [s EXCEPT !.drafts = new] = Fields([s EXCEPT !.drafts = new])
         /\ [s EXCEPT !.drafts = new].versions = s.versions
         /\ [s EXCEPT !.drafts = new].drafts = new
         /\ [s EXCEPT !.drafts = new].releases = s.releases
         /\ [s EXCEPT !.drafts = new].deployments = s.deployments
         /\ [s EXCEPT !.drafts = new].idempotency = s.idempotency
  BY SMTT(30) DEF Fields

LEMMA NewDrafts ==
  ASSUME NEW s, IsMockState(s), NEW new \in Seq(Drafts)
  PROVE  /\ IsMockState([s EXCEPT !.drafts = new])
         /\ [s EXCEPT !.drafts = new].versions = s.versions
         /\ [s EXCEPT !.drafts = new].drafts = new
         /\ [s EXCEPT !.drafts = new].releases = s.releases
         /\ [s EXCEPT !.drafts = new].deployments = s.deployments
         /\ [s EXCEPT !.drafts = new].idempotency = s.idempotency
  <1> DEFINE t == [s EXCEPT !.drafts = new]
  <1>1. s = Fields(s)
    BY DEF IsMockState, Fields
  <1>2. /\ t = Fields(t)
        /\ t.versions = s.versions
        /\ t.drafts = new
        /\ t.releases = s.releases
        /\ t.deployments = s.deployments
        /\ t.idempotency = s.idempotency
    BY <1>1, SetDrafts
  <1>3. IsMockState(t)
    <2> HIDE DEF t
    <2> QED BY <1>2 DEF IsMockState, Fields
  <1> QED BY <1>2, <1>3

LEMMA SetReleases ==
  ASSUME NEW s, s = Fields(s), NEW new
  PROVE  /\ [s EXCEPT !.releases = new] = Fields([s EXCEPT !.releases = new])
         /\ [s EXCEPT !.releases = new].versions = s.versions
         /\ [s EXCEPT !.releases = new].drafts = s.drafts
         /\ [s EXCEPT !.releases = new].releases = new
         /\ [s EXCEPT !.releases = new].deployments = s.deployments
         /\ [s EXCEPT !.releases = new].idempotency = s.idempotency
  BY SMTT(30) DEF Fields

LEMMA NewReleases ==
  ASSUME NEW s, IsMockState(s), NEW new \in Seq(Releases)
  PROVE  /\ IsMockState([s EXCEPT !.releases = new])
         /\ [s EXCEPT !.releases = new].versions = s.versions
         /\ [s EXCEPT !.releases = new].drafts = s.drafts
         /\ [s EXCEPT !.releases = new].releases = new
         /\ [s EXCEPT !.releases = new].deployments = s.deployments
         /\ [s EXCEPT !.releases = new].idempotency = s.idempotency
  <1> DEFINE t == [s EXCEPT !.releases = new]
  <1>1. s = Fields(s)
    BY DEF IsMockState, Fields
  <1>2. /\ t = Fields(t)
        /\ t.versions = s.versions
        /\ t.drafts = s.drafts
        /\ t.releases = new
        /\ t.deployments = s.deployments
        /\ t.idempotency = s.idempotency
    BY <1>1, SetReleases
  <1>3. IsMockState(t)
    <2> HIDE DEF t
    <2> QED BY <1>2 DEF IsMockState, Fields
  <1> QED BY <1>2, <1>3

LEMMA SetDeployments ==
  ASSUME NEW s, s = Fields(s), NEW new
  PROVE  /\ [s EXCEPT !.deployments = new] = Fields([s EXCEPT !.deployments = new])
         /\ [s EXCEPT !.deployments = new].versions = s.versions
         /\ [s EXCEPT !.deployments = new].drafts = s.drafts
         /\ [s EXCEPT !.deployments = new].releases = s.releases
         /\ [s EXCEPT !.deployments = new].deployments = new
         /\ [s EXCEPT !.deployments = new].idempotency = s.idempotency
  BY SMTT(30) DEF Fields

LEMMA NewDeployments ==
  ASSUME NEW s, IsMockState(s), NEW new \in Seq(StoredDeployments)
  PROVE  /\ IsMockState([s EXCEPT !.deployments = new])
         /\ [s EXCEPT !.deployments = new].versions = s.versions
         /\ [s EXCEPT !.deployments = new].drafts = s.drafts
         /\ [s EXCEPT !.deployments = new].releases = s.releases
         /\ [s EXCEPT !.deployments = new].deployments = new
         /\ [s EXCEPT !.deployments = new].idempotency = s.idempotency
  <1> DEFINE t == [s EXCEPT !.deployments = new]
  <1>1. s = Fields(s)
    BY DEF IsMockState, Fields
  <1>2. /\ t = Fields(t)
        /\ t.versions = s.versions
        /\ t.drafts = s.drafts
        /\ t.releases = s.releases
        /\ t.deployments = new
        /\ t.idempotency = s.idempotency
    BY <1>1, SetDeployments
  <1>3. IsMockState(t)
    <2> HIDE DEF t
    <2> QED BY <1>2 DEF IsMockState, Fields
  <1> QED BY <1>2, <1>3

LEMMA SetIdempotency ==
  ASSUME NEW s, s = Fields(s), NEW new
  PROVE  /\ [s EXCEPT !.idempotency = new] = Fields([s EXCEPT !.idempotency = new])
         /\ [s EXCEPT !.idempotency = new].versions = s.versions
         /\ [s EXCEPT !.idempotency = new].drafts = s.drafts
         /\ [s EXCEPT !.idempotency = new].releases = s.releases
         /\ [s EXCEPT !.idempotency = new].deployments = s.deployments
         /\ [s EXCEPT !.idempotency = new].idempotency = new
  BY SMTT(30) DEF Fields

LEMMA NewIdempotency ==
  ASSUME NEW s, IsMockState(s), NEW new,
         DOMAIN new \subseteq Keys, new \in [DOMAIN new -> IdempotencyRecords]
  PROVE  /\ IsMockState([s EXCEPT !.idempotency = new])
         /\ [s EXCEPT !.idempotency = new].versions = s.versions
         /\ [s EXCEPT !.idempotency = new].drafts = s.drafts
         /\ [s EXCEPT !.idempotency = new].releases = s.releases
         /\ [s EXCEPT !.idempotency = new].deployments = s.deployments
         /\ [s EXCEPT !.idempotency = new].idempotency = new
  <1> DEFINE t == [s EXCEPT !.idempotency = new]
  <1>1. s = Fields(s)
    BY DEF IsMockState, Fields
  <1>2. /\ t = Fields(t)
        /\ t.versions = s.versions
        /\ t.drafts = s.drafts
        /\ t.releases = s.releases
        /\ t.deployments = s.deployments
        /\ t.idempotency = new
    BY <1>1, SetIdempotency
  <1>3. IsMockState(t)
    <2> HIDE DEF t
    <2> QED BY <1>2 DEF IsMockState, Fields
  <1> QED BY <1>2, <1>3

\* t is what a request leaves that executed under a fresh key.
Executed(s, key, request, effect, t) ==
  /\ key \notin DOMAIN s.idempotency
  /\ effect.reply.code = "OK"
  /\ t.versions = effect.store.versions
  /\ t.drafts = effect.store.drafts
  /\ t.releases = effect.store.releases
  /\ t.deployments = effect.store.deployments
  /\ t.idempotency = Bind(s.idempotency, key,
                          [request |-> request, response |-> effect.reply])

\* The envelope either changes nothing or executes the effect under a fresh key.
LEMMA Envelope ==
  ASSUME NEW s, IsMockState(s), NEW key \in Keys, NEW request \in Requests,
         NEW effect, IsMockState(effect.store), effect.reply \in Replies,
         effect.store.idempotency = s.idempotency,
         effect.reply.code # "OK" => effect.store = s
  PROVE  LET t == Idempotent(s, key, request, effect).store IN
         /\ IsMockState(t)
         /\ t = s \/ Executed(s, key, request, effect, t)
  <1> DEFINE t == Idempotent(s, key, request, effect).store
             rec == [request |-> request, response |-> effect.reply]
             e == effect.store
             bound == Bind(e.idempotency, key, rec)
             u == [e EXCEPT !.idempotency = bound]
  <1>1. CASE key \in DOMAIN s.idempotency
    BY <1>1, RefuseFacts DEF Idempotent, Outcome
  <1>2. CASE key \notin DOMAIN s.idempotency /\ effect.reply.code # "OK"
    BY <1>2 DEF Idempotent
  <1>3. CASE key \notin DOMAIN s.idempotency /\ effect.reply.code = "OK"
    <2>1. t = u
      BY <1>3 DEF Idempotent, Outcome
    <2>2. rec \in IdempotencyRecords
      BY DEF IdempotencyRecords
    <2>3. /\ DOMAIN bound \subseteq Keys
          /\ bound \in [DOMAIN bound -> IdempotencyRecords]
      BY <2>2 DEF Bind, IsMockState
    <2>4. /\ IsMockState(u) /\ u.idempotency = bound
          /\ u.versions = e.versions /\ u.drafts = e.drafts
          /\ u.releases = e.releases /\ u.deployments = e.deployments
      <3> HIDE DEF bound, e
      <3> QED BY <2>3, NewIdempotency DEF e
    <2>5. Executed(s, key, request, effect, u)
      <3> HIDE DEF u
      <3> QED BY <1>3, <2>4 DEF Executed
    <2> QED BY <2>1, <2>4, <2>5
  <1> QED BY <1>1, <1>2, <1>3

-----------------------------------------------------------------------------
(* The effects: what a request does once nothing stands in its way *)

\* What every effect owes the envelope.
FitsEnvelope(s, effect) ==
  /\ IsMockState(effect.store)
  /\ effect.reply \in Replies
  /\ effect.store.idempotency = s.idempotency
  /\ effect.reply.code # "OK" => effect.store = s

LEMMA RefusalFits ==
  ASSUME NEW s, IsMockState(s), NEW code \in ErrorCodes
  PROVE  FitsEnvelope(s, Refuse(s, code))
  BY DEF FitsEnvelope, Refuse, Outcome, Reply, Replies, ErrorCodes

LEMMA BaseTyped ==
  ASSUME NEW s, IsMockState(s), NEW context \in MutationContexts
  PROVE  BaseOf(s, context) \in Nat
  <1>1. Current(s) \in Nat
    BY DEF IsMockState, Current
  <1> QED BY <1>1 DEF BaseOf, MutationContexts

LEMMA DraftFits ==
  ASSUME NEW s, IsMockState(s), NEW context \in MutationContexts,
         NEW manifest \in Candidates
  PROVE  /\ FitsEnvelope(s, DraftEffect(s, context, manifest))
         /\ DraftEffect(s, context, manifest).store.releases = s.releases
         /\ DraftEffect(s, context, manifest).store.deployments = s.deployments
  <1> DEFINE effect == DraftEffect(s, context, manifest)
             draft == [manifest |-> manifest, base |-> BaseOf(s, context)]
             new == Append(s.drafts, draft)
             t == [s EXCEPT !.drafts = new]
             reply == Reply("OK", Len(s.drafts) + 1, "DRAFT")
  <1>1. effect = Outcome(t, reply) \/ effect = Refuse(s, "NOT_FOUND")
          \/ effect = Refuse(s, "STALE_BASE")
    BY DEF DraftEffect
  <1>2. new \in Seq(Drafts) /\ reply \in Replies /\ reply.code = "OK"
    <2>1. draft \in Drafts
      BY BaseTyped DEF Drafts
    <2>2. s.drafts \in Seq(Drafts)
      BY DEF IsMockState
    <2>3. new \in Seq(Drafts) /\ Len(s.drafts) + 1 \in Nat
      BY <2>1, <2>2
    <2> QED BY <2>3 DEF Reply, Replies
  <1>3. /\ IsMockState(t) /\ t.idempotency = s.idempotency
        /\ t.releases = s.releases /\ t.deployments = s.deployments
    <2> HIDE DEF new
    <2> QED BY <1>2, NewDrafts
  <1>4. Outcome(t, reply).store = t /\ Outcome(t, reply).reply = reply
    BY DEF Outcome
  <1>5. "NOT_FOUND" \in ErrorCodes /\ "STALE_BASE" \in ErrorCodes
    BY DEF ErrorCodes
  <1>6. /\ FitsEnvelope(s, effect)
        /\ effect.store.releases = s.releases
        /\ effect.store.deployments = s.deployments
    <2>1. CASE effect = Outcome(t, reply)
      <3> HIDE DEF effect, t, reply
      <3> QED BY <2>1, <1>2, <1>3, <1>4 DEF FitsEnvelope
    <2>2. CASE effect = Refuse(s, "NOT_FOUND") \/ effect = Refuse(s, "STALE_BASE")
      <3> HIDE DEF effect
      <3> QED BY <2>2, <1>5, RefusalFits, RefuseFacts
    <2> QED BY <1>1, <2>1, <2>2
  <1> QED BY <1>6

\* An effect e that adds a release, numbered next, or nothing.
AddsRelease(s, context, candidate, e) ==
  /\ e.store.deployments = s.deployments
  /\ e.reply.code = "OK" =>
       /\ e.reply.id = Len(s.releases) + 1
       /\ e.store.releases
            = Append(s.releases, [candidate |-> candidate,
                                  base |-> BaseOf(s, context)])

LEMMA ReleaseFits ==
  ASSUME NEW s, IsMockState(s), NEW context \in MutationContexts,
         NEW candidate \in Candidates, NEW evidence
  PROVE  LET effect == ReleaseEffect(s, context, candidate, evidence) IN
         /\ FitsEnvelope(s, effect)
         /\ AddsRelease(s, context, candidate, effect)
  <1> DEFINE effect == ReleaseEffect(s, context, candidate, evidence)
             release == [candidate |-> candidate, base |-> BaseOf(s, context)]
             new == Append(s.releases, release)
             t == [s EXCEPT !.releases = new]
             reply == Reply("OK", Len(s.releases) + 1, "RELEASED")
             Goal(e) == /\ FitsEnvelope(s, e)
                        /\ AddsRelease(s, context, candidate, e)
  <1>1. effect = Outcome(t, reply) \/ effect = Refuse(s, "NOT_FOUND")
          \/ effect = Refuse(s, "STALE_BASE")
    BY DEF ReleaseEffect
  <1>2. /\ new \in Seq(Releases) /\ reply \in Replies
        /\ reply.code = "OK" /\ reply.id = Len(s.releases) + 1
    <2>1. release \in Releases
      BY BaseTyped DEF Releases
    <2>2. s.releases \in Seq(Releases)
      BY DEF IsMockState
    <2>3. new \in Seq(Releases) /\ Len(s.releases) + 1 \in Nat
      BY <2>1, <2>2
    <2> QED BY <2>3 DEF Reply, Replies
  <1>3. /\ IsMockState(t) /\ t.idempotency = s.idempotency
        /\ t.releases = new /\ t.deployments = s.deployments
    <2> HIDE DEF new
    <2> QED BY <1>2, NewReleases
  <1>4. Goal(Outcome(t, reply))
    <2>1. Outcome(t, reply).store = t /\ Outcome(t, reply).reply = reply
      BY DEF Outcome
    <2> HIDE DEF t, reply
    <2> QED BY <2>1, <1>2, <1>3 DEF FitsEnvelope, AddsRelease
  <1>5. Goal(Refuse(s, "NOT_FOUND")) /\ Goal(Refuse(s, "STALE_BASE"))
    <2>1. "NOT_FOUND" \in ErrorCodes /\ "STALE_BASE" \in ErrorCodes
      BY DEF ErrorCodes
    <2> QED BY <2>1, RefusalFits, RefuseFacts DEF AddsRelease
  <1> QED BY <1>1, <1>4, <1>5

LEMMA ReleaseKeepsDeployments ==
  ASSUME NEW s, IsMockState(s), NEW context \in MutationContexts,
         NEW candidate \in Candidates, NEW evidence
  PROVE  ReleaseEffect(s, context, candidate, evidence).store.deployments
           = s.deployments
  <1>1. AddsRelease(s, context, candidate,
                    ReleaseEffect(s, context, candidate, evidence))
    BY ReleaseFits
  <1> QED BY <1>1 DEF AddsRelease

\* An effect e that adds a deployment, numbered next, or nothing.
AddsDeployment(s, release, environment, outcome, e) ==
  /\ e.store.releases = s.releases
  /\ e.reply.code = "OK" =>
       /\ release \in DOMAIN s.releases
       /\ e.reply.id = Len(s.deployments) + 1
       /\ e.store.deployments
            = Append(s.deployments,
                [release |-> release, environment |-> environment,
                 state |-> "QUEUED",
                 target |-> RollbackTarget(s, environment),
                 plan |-> PlanFor(outcome), planIndex |-> 0])

LEMMA DeployFits ==
  ASSUME NEW s, IsMockState(s), NEW release \in Nat,
         NEW environment \in Environments, NEW outcome
  PROVE  LET effect == DeployEffect(s, release, environment, outcome) IN
         /\ FitsEnvelope(s, effect)
         /\ AddsDeployment(s, release, environment, outcome, effect)
  <1> DEFINE effect == DeployEffect(s, release, environment, outcome)
             deployment ==
               [release |-> release, environment |-> environment,
                state |-> "QUEUED", target |-> RollbackTarget(s, environment),
                plan |-> PlanFor(outcome), planIndex |-> 0]
             new == Append(s.deployments, deployment)
             t == [s EXCEPT !.deployments = new]
             reply == Reply("OK", Len(s.deployments) + 1, "QUEUED")
             Goal(e) ==
               /\ FitsEnvelope(s, e)
               /\ AddsDeployment(s, release, environment, outcome, e)
  <1>1. \/ effect = Outcome(t, reply) /\ release \in DOMAIN s.releases
        \/ effect = Refuse(s, "NOT_FOUND")
    BY DEF DeployEffect
  <1>2. /\ new \in Seq(StoredDeployments) /\ reply \in Replies
        /\ reply.code = "OK" /\ reply.id = Len(s.deployments) + 1
    <2>1. RollbackTarget(s, environment) \in Nat
      <3>1. HealthyIn(s, environment) \subseteq Nat
        BY DEF HealthyIn, IsMockState
      <3> QED BY <3>1 DEF RollbackTarget
    <2>2. PlanFor(outcome) \in Plans
      BY DEF PlanFor, Plans
    <2>3. deployment \in StoredDeployments
      <3> HIDE DEF Plans
      <3> QED BY <2>1, <2>2 DEF StoredDeployments, DeploymentStates
    <2>4. s.deployments \in Seq(StoredDeployments)
      BY DEF IsMockState
    <2>5. new \in Seq(StoredDeployments) /\ Len(s.deployments) + 1 \in Nat
      <3> HIDE DEF deployment
      <3> QED BY <2>3, <2>4
    <2> QED BY <2>5 DEF Reply, Replies, DeploymentStates
  <1>3. /\ IsMockState(t) /\ t.idempotency = s.idempotency
        /\ t.releases = s.releases /\ t.deployments = new
    <2> HIDE DEF new
    <2> QED BY <1>2, NewDeployments
  <1>4. release \in DOMAIN s.releases => Goal(Outcome(t, reply))
    <2>1. Outcome(t, reply).store = t /\ Outcome(t, reply).reply = reply
      BY DEF Outcome
    <2> HIDE DEF t, reply
    <2> QED BY <2>1, <1>2, <1>3 DEF FitsEnvelope, AddsDeployment
  <1>5. Goal(Refuse(s, "NOT_FOUND"))
    <2>1. "NOT_FOUND" \in ErrorCodes
      BY DEF ErrorCodes
    <2> QED BY <2>1, RefusalFits, RefuseFacts DEF AddsDeployment
  <1> QED BY <1>1, <1>4, <1>5

LEMMA DeployKeepsReleases ==
  ASSUME NEW s, IsMockState(s), NEW release \in Nat,
         NEW environment \in Environments, NEW outcome
  PROVE  DeployEffect(s, release, environment, outcome).store.releases
           = s.releases
  <1>1. AddsDeployment(s, release, environment, outcome,
                       DeployEffect(s, release, environment, outcome))
    BY DeployFits
  <1> QED BY <1>1 DEF AddsDeployment

LEMMA DeploymentTyped ==
  ASSUME NEW s, IsMockState(s), NEW i \in DOMAIN s.deployments
  PROVE  /\ s.deployments[i] \in StoredDeployments
         /\ i \in 1 .. Len(s.deployments)
         /\ Len(s.deployments) \in Nat
         /\ DOMAIN s.deployments = 1 .. Len(s.deployments)
  <1>1. s.deployments \in Seq(StoredDeployments)
    BY DEF IsMockState
  <1> QED BY <1>1

LEMMA RollbackFits ==
  ASSUME NEW s, IsMockState(s), NEW id \in Nat
  PROVE  LET effect == RollbackEffect(s, id) IN
         /\ FitsEnvelope(s, effect)
         /\ effect.store.releases = s.releases
         /\ effect.reply.code = "OK" =>
              /\ id \in DOMAIN s.deployments
              /\ s.deployments[id].state \in {"HEALTHY", "FAILED"}
              /\ effect.store.deployments
                   = [s.deployments EXCEPT ![id] =
                        [@ EXCEPT !.state = "ROLLING_BACK",
                                  !.plan = <<"ROLLED_BACK">>,
                                  !.planIndex = 0]]
  <1> DEFINE effect == RollbackEffect(s, id)
             changed == [s.deployments[id] EXCEPT !.state = "ROLLING_BACK",
                                                  !.plan = <<"ROLLED_BACK">>,
                                                  !.planIndex = 0]
             new == [s.deployments EXCEPT ![id] = changed]
             t == [s EXCEPT !.deployments = new]
             reply == Reply("OK", id, "ROLLING_BACK")
             May == /\ id \in DOMAIN s.deployments
                    /\ s.deployments[id].state \in {"HEALTHY", "FAILED"}
             Goal(e) ==
               /\ FitsEnvelope(s, e)
               /\ e.store.releases = s.releases
               /\ e.reply.code = "OK" => May /\ e.store.deployments = new
  <1>1. \/ effect = Outcome(t, reply) /\ May
        \/ effect = Refuse(s, "NOT_FOUND")
        \/ effect = Refuse(s, "INVALID_TRANSITION")
    <2>1. id \in DOMAIN s.deployments =>
            s.deployments[id].state \in DeploymentStates
      BY DeploymentTyped DEF StoredDeployments
    <2>2. ASSUME id \in DOMAIN s.deployments,
                 decideDeploymentTransition(s.deployments[id].state,
                                            "ROLLING_BACK")
          PROVE  s.deployments[id].state \in {"HEALTHY", "FAILED"}
      BY <2>1, <2>2 DEF decideDeploymentTransition, DEPLOYMENT_TRANSITIONS,
                        DeploymentStates
    <2> QED BY <2>2 DEF RollbackEffect
  <1>2. /\ reply \in Replies /\ reply.code = "OK"
        /\ May => new \in Seq(StoredDeployments)
    <2>1. <<"ROLLED_BACK">> \in Plans
      BY DEF Plans
    <2>2. May => changed \in StoredDeployments
      <3>1. May => s.deployments[id] \in StoredDeployments
        BY DeploymentTyped
      <3>2. "ROLLING_BACK" \in DeploymentStates /\ 0 \in 0 .. 2
        BY DEF DeploymentStates
      <3> QED BY <2>1, <3>1, <3>2 DEF StoredDeployments
    <2>3. s.deployments \in Seq(StoredDeployments)
      BY DEF IsMockState
    <2>4. May => new \in Seq(StoredDeployments)
      <3> HIDE DEF changed
      <3> QED BY <2>2, <2>3
    <2> QED BY <2>4 DEF Reply, Replies, DeploymentStates
  <1>3. May => /\ IsMockState(t) /\ t.idempotency = s.idempotency
               /\ t.releases = s.releases /\ t.deployments = new
    <2> HIDE DEF new
    <2> QED BY <1>2, NewDeployments
  <1>4. May => Goal(Outcome(t, reply))
    <2>1. Outcome(t, reply).store = t /\ Outcome(t, reply).reply = reply
      BY DEF Outcome
    <2> HIDE DEF t, reply, new, May
    <2> QED BY <2>1, <1>2, <1>3 DEF FitsEnvelope
  <1>5. Goal(Refuse(s, "NOT_FOUND")) /\ Goal(Refuse(s, "INVALID_TRANSITION"))
    <2>1. "NOT_FOUND" \in ErrorCodes /\ "INVALID_TRANSITION" \in ErrorCodes
      BY DEF ErrorCodes
    <2> QED BY <2>1, RefusalFits, RefuseFacts
  <1> QED BY <1>1, <1>4, <1>5

\* A due step, spelled out: where a deployment may be and where it goes.
LEMMA DueSteps ==
  ASSUME NEW d \in StoredDeployments, StepIsDue(d)
  PROVE  /\ NextStep(d) \in DeploymentStates
         /\ NextStep(d) \in DEPLOYMENT_TRANSITIONS[d.state]
         /\ d.planIndex + 1 \in 0 .. Len(d.plan)
         /\ d.planIndex + 1 \in 0 .. 2
         /\ NextStep(d) # "QUEUED" /\ NextStep(d) # "SUPERSEDED"
  <1>1. d.plan \in Plans /\ d.planIndex \in 0 .. 2 /\ d.planIndex < Len(d.plan)
    BY DEF StoredDeployments, StepIsDue
  <1>2. NextStep(d) \in {"DEPLOYING", "HEALTHY", "FAILED", "ROLLED_BACK"}
    BY <1>1 DEF Plans, NextStep
  <1>3. Len(d.plan) \in {1, 2}
    BY <1>1 DEF Plans
  <1>4. d.planIndex + 1 \in 0 .. Len(d.plan) /\ d.planIndex + 1 \in 0 .. 2
    <2> DEFINE n == Len(d.plan)
               x == d.planIndex
    <2>1. n \in {1, 2} /\ x \in 0 .. 2 /\ x < n
      BY <1>1, <1>3
    <2> HIDE DEF n, x
    <2>2. x + 1 \in 0 .. n /\ x + 1 \in 0 .. 2
      BY <2>1
    <2> QED BY <2>2 DEF n, x
  <1>5. NextStep(d) \in DEPLOYMENT_TRANSITIONS[d.state]
    BY DEF StepIsDue, decideDeploymentTransition
  <1> QED BY <1>2, <1>4, <1>5 DEF DeploymentStates

LEMMA PollFits ==
  ASSUME NEW s, IsMockState(s), NEW id \in Nat
  PROVE  LET t == PollEffect(s, id).store IN
         /\ IsMockState(t)
         /\ t.releases = s.releases /\ t.idempotency = s.idempotency
         /\ \/ t = s
            \/ /\ id \in DOMAIN s.deployments
               /\ StepIsDue(s.deployments[id])
               /\ t.deployments = Polled(s, id)
  <1> DEFINE t == [s EXCEPT !.deployments = Polled(s, id)]
             Due == /\ id \in DOMAIN s.deployments
                    /\ StepIsDue(s.deployments[id])
  <1>1. PollEffect(s, id).store = s \/ (Due /\ PollEffect(s, id).store = t)
    BY RefuseFacts DEF PollEffect, Outcome
  <1>2. ASSUME Due PROVE Polled(s, id) \in Seq(StoredDeployments)
    <2>1. /\ s.deployments \in Seq(StoredDeployments)
          /\ s.deployments[id] \in StoredDeployments
      BY <1>2 DEF IsMockState
    <2>2. /\ NextStep(s.deployments[id]) \in DeploymentStates
          /\ s.deployments[id].planIndex + 1 \in 0 .. 2
      BY <1>2, <2>1, DueSteps
    <2> DEFINE P(i) == IF i = id
                       THEN [s.deployments[i] EXCEPT
                               !.state = NextStep(s.deployments[id]),
                               !.planIndex = @ + 1]
                       ELSE [s.deployments[i] EXCEPT !.state = "SUPERSEDED"]
    <2>3. ASSUME NEW i \in DOMAIN s.deployments
          PROVE  /\ s.deployments[i] \in StoredDeployments
                 /\ P(i) \in StoredDeployments
      <3>1. s.deployments[i] \in StoredDeployments
        BY <2>1
      <3>2. "SUPERSEDED" \in DeploymentStates
        BY DEF DeploymentStates
      <3> HIDE DEF Plans, DeploymentStates
      <3> QED BY <3>1, <3>2, <2>2 DEF StoredDeployments
    <2>4. \A i \in DOMAIN s.deployments :
            Polled(s, id)[i] \in {s.deployments[i], P(i)}
      BY <1>2 DEF Polled
    <2>5. /\ Len(s.deployments) \in Nat
          /\ DOMAIN s.deployments = 1 .. Len(s.deployments)
      BY <1>2, DeploymentTyped
    <2>6. Polled(s, id) \in [1 .. Len(s.deployments) -> StoredDeployments]
      <3>1. \A i \in DOMAIN s.deployments :
              Polled(s, id)[i] \in StoredDeployments
        <4> HIDE DEF P
        <4> QED BY <2>3, <2>4
      <3> DEFINE p == Polled(s, id)
      <3>2. p = [i \in DOMAIN s.deployments |-> p[i]]
        BY DEF Polled
      <3> HIDE DEF p
      <3>3. \A i \in 1 .. Len(s.deployments) : p[i] \in StoredDeployments
        BY <3>1, <2>5 DEF p
      <3>4. p \in [1 .. Len(s.deployments) -> StoredDeployments]
        BY <3>2, <3>3, <2>5
      <3> QED BY <3>4 DEF p
    <2> QED BY <2>5, <2>6, SeqDef
  <1>3. ASSUME Due PROVE /\ IsMockState(t) /\ t.idempotency = s.idempotency
                         /\ t.releases = s.releases
                         /\ t.deployments = Polled(s, id)
    BY <1>2, <1>3, NewDeployments
  <1> QED BY <1>1, <1>3

-----------------------------------------------------------------------------
(* What one request leaves *)

\* A mutation that went through the envelope.
LEMMA ThroughEnvelope ==
  ASSUME NEW s, IsMockState(s), NEW context \in MutationContexts,
         NEW request \in Requests, NEW effect, FitsEnvelope(s, effect),
         NEW outcome,
         outcome = Gated(s, context.gate,
                         Idempotent(s, context.key, request, effect))
  PROVE  /\ IsMockState(outcome.store)
         /\ \/ outcome.store = s
            \/ Executed(s, context.key, request, effect, outcome.store)
  <1> DEFINE inner == Idempotent(s, context.key, request, effect)
  <1>1. context.key \in Keys
    BY DEF MutationContexts
  <1>2. /\ IsMockState(inner.store)
        /\ \/ inner.store = s
           \/ Executed(s, context.key, request, effect, inner.store)
    BY <1>1, Envelope DEF FitsEnvelope
  <1> HIDE DEF inner
  <1>3. outcome.store \in {s, inner.store}
    BY GatedFacts DEF inner
  <1> QED BY <1>2, <1>3

LEMMA DraftLeaves ==
  ASSUME NEW s, IsMockState(s), NEW context \in MutationContexts,
         NEW manifest \in Candidates
  PROVE  LET t == createDraft(s, context, manifest).store
             effect == DraftEffect(s, context, manifest) IN
         /\ IsMockState(t)
         /\ \/ t = s
            \/ Executed(s, context.key, DraftRequest(manifest), effect, t)
  <1>1. DraftRequest(manifest) \in Requests
    BY DEF DraftRequest, Requests
  <1> QED BY <1>1, DraftFits, ThroughEnvelope DEF createDraft

LEMMA ReleaseLeaves ==
  ASSUME NEW s, IsMockState(s), NEW context \in MutationContexts,
         NEW candidate \in Candidates, NEW evidence \in SUBSET Evidence
  PROVE  LET t == createReleaseCandidate(s, context, candidate, evidence).store
             effect == ReleaseEffect(s, context, candidate, evidence) IN
         /\ IsMockState(t)
         /\ \/ t = s
            \/ Executed(s, context.key, ReleaseRequest(candidate, evidence),
                        effect, t)
  <1> DEFINE request == ReleaseRequest(candidate, evidence)
             effect == ReleaseEffect(s, context, candidate, evidence)
             t == createReleaseCandidate(s, context, candidate, evidence).store
  <1>1. request \in Requests
    BY DEF ReleaseRequest, Requests
  <1>2. FitsEnvelope(s, effect)
    BY ReleaseFits
  <1>3. CASE evidence = {}
    <2>1. t = s
      BY <1>3, RefuseFacts DEF createReleaseCandidate, Gated
    <2> QED BY <2>1
  <1>4. CASE evidence # {}
    BY <1>1, <1>2, <1>4, ThroughEnvelope DEF createReleaseCandidate
  <1> QED BY <1>3, <1>4

LEMMA DeployLeaves ==
  ASSUME NEW s, IsMockState(s), NEW context \in MutationContexts,
         NEW release \in Nat, NEW environment, NEW outcome
  PROVE  LET t == createDeployment(s, context, release, environment,
                                   outcome).store
             effect == DeployEffect(s, release, environment, outcome) IN
         /\ IsMockState(t)
         /\ \/ t = s
            \/ /\ environment \in Environments
               /\ Executed(s, context.key, DeployRequest(release, environment),
                           effect, t)
  <1> DEFINE request == DeployRequest(release, environment)
             effect == DeployEffect(s, release, environment, outcome)
             t == createDeployment(s, context, release, environment,
                                   outcome).store
  <1>1. CASE environment \notin Environments
    <2>1. t = s
      BY <1>1, RefuseFacts DEF createDeployment, Gated
    <2> QED BY <2>1
  <1>2. CASE environment \in Environments
    <2>1. request \in Requests
      BY <1>2 DEF DeployRequest, Requests
    <2>2. FitsEnvelope(s, effect)
      BY <1>2, DeployFits
    <2> QED BY <1>2, <2>1, <2>2, ThroughEnvelope DEF createDeployment
  <1> QED BY <1>1, <1>2

LEMMA RollbackLeaves ==
  ASSUME NEW s, IsMockState(s), NEW context \in MutationContexts,
         NEW id \in Nat, NEW reason \in Reasons \cup {Blank}
  PROVE  LET t == rollbackDeployment(s, context, id, reason).store
             effect == RollbackEffect(s, id) IN
         /\ IsMockState(t)
         /\ \/ t = s
            \/ Executed(s, context.key, RollbackRequest(id, reason), effect, t)
  <1> DEFINE request == RollbackRequest(id, reason)
             effect == RollbackEffect(s, id)
             t == rollbackDeployment(s, context, id, reason).store
  <1>1. CASE reason = Blank
    <2>1. t = s
      BY <1>1, RefuseFacts DEF rollbackDeployment, Gated
    <2> QED BY <2>1
  <1>2. CASE reason # Blank
    <2>1. request \in Requests
      BY <1>2 DEF RollbackRequest, Requests
    <2>2. FitsEnvelope(s, effect)
      BY RollbackFits
    <2> QED BY <1>2, <2>1, <2>2, ThroughEnvelope DEF rollbackDeployment
  <1> QED BY <1>1, <1>2

LEMMA PollLeaves ==
  ASSUME NEW s, IsMockState(s), NEW gate, NEW id \in Nat
  PROVE  LET t == getDeployment(s, gate, id).store IN
         /\ IsMockState(t)
         /\ t.releases = s.releases /\ t.idempotency = s.idempotency
         /\ \/ t = s
            \/ /\ id \in DOMAIN s.deployments
               /\ StepIsDue(s.deployments[id])
               /\ t.deployments = Polled(s, id)
  <1> DEFINE t == getDeployment(s, gate, id).store
  <1>1. t \in {s, PollEffect(s, id).store}
    BY GatedFacts DEF getDeployment
  <1> QED BY <1>1, PollFits

-----------------------------------------------------------------------------
(* Deployments *)

\* The three predicates of a store that only its deployments decide.
DeploymentsSound(s) == OneHealthy(s) /\ PlansAgree(s) /\ TargetsSound(s)

LEMMA SoundUnchanged ==
  ASSUME NEW s, NEW t, t.deployments = s.deployments, DeploymentsSound(s)
  PROVE  DeploymentsSound(t)
  BY DEF DeploymentsSound, OneHealthy, PlansAgree, TargetsSound

LEMMA TargetFacts ==
  ASSUME NEW s, NEW environment
  PROVE  \/ RollbackTarget(s, environment) = 0
         \/ RollbackTarget(s, environment) \in HealthyIn(s, environment)
  BY DEF RollbackTarget

LEMMA FreshPlanDue ==
  ASSUME NEW d, NEW outcome, d.state = "QUEUED", d.plan = PlanFor(outcome),
         d.planIndex = 0
  PROVE  StepIsDue(d)
  BY DEF StepIsDue, NextStep, PlanFor, decideDeploymentTransition,
         DEPLOYMENT_TRANSITIONS

\* A new deployment is QUEUED and its target is the HEALTHY one, if any.
LEMMA SoundDeploy ==
  ASSUME NEW s, IsMockState(s), DeploymentsSound(s), NEW t,
         NEW release \in Nat, NEW environment \in Environments, NEW outcome,
         t.deployments = Append(s.deployments,
             [release |-> release, environment |-> environment,
              state |-> "QUEUED", target |-> RollbackTarget(s, environment),
              plan |-> PlanFor(outcome), planIndex |-> 0])
  PROVE  DeploymentsSound(t)
  <1> DEFINE deployment ==
               [release |-> release, environment |-> environment,
                state |-> "QUEUED", target |-> RollbackTarget(s, environment),
                plan |-> PlanFor(outcome), planIndex |-> 0]
             n == Len(s.deployments)
  <1>1. /\ s.deployments \in Seq(StoredDeployments) /\ n \in Nat
        /\ DOMAIN s.deployments = 1 .. n
    BY DEF IsMockState
  <1>2. /\ deployment.state = "QUEUED"
        /\ deployment.environment = environment
        /\ deployment.target = RollbackTarget(s, environment)
        /\ StepIsDue(deployment)
    <2>1. deployment.plan = PlanFor(outcome) /\ deployment.planIndex = 0
      OBVIOUS
    <2> QED BY <2>1, FreshPlanDue
  <1>3. /\ t.deployments = Append(s.deployments, deployment)
    OBVIOUS
  <1> HIDE DEF deployment
  <1>4. /\ DOMAIN t.deployments = 1 .. n + 1
        /\ \A i \in 1 .. n : t.deployments[i] = s.deployments[i]
        /\ t.deployments[n + 1] = deployment
    BY <1>1, <1>3
  <1>5. OneHealthy(t)
    BY <1>1, <1>2, <1>4 DEF DeploymentsSound, OneHealthy
  <1>6. PlansAgree(t)
    BY <1>1, <1>2, <1>4 DEF DeploymentsSound, PlansAgree, InFlight
  <1>7. TargetsSound(t)
    <2> SUFFICES ASSUME NEW i \in 1 .. n + 1,
                        t.deployments[i].target # 0
                 PROVE  LET target == t.deployments[i].target IN
                        /\ target \in 1 .. n + 1 /\ target < i
                        /\ t.deployments[target].environment
                             = t.deployments[i].environment
                        /\ t.deployments[target].state \in HasBeenHealthy
      BY <1>4 DEF TargetsSound
    <2>1. CASE i \in 1 .. n
      <3> DEFINE target == s.deployments[i].target
      <3>1. t.deployments[i] = s.deployments[i] /\ target # 0
        BY <1>4, <2>1
      <3>2. /\ target \in 1 .. n /\ target < i
            /\ s.deployments[target].environment = s.deployments[i].environment
            /\ s.deployments[target].state \in HasBeenHealthy
        BY <1>1, <2>1, <3>1 DEF DeploymentsSound, TargetsSound
      <3> HIDE DEF target
      <3>3. target \in 1 .. n + 1 /\ t.deployments[target] = s.deployments[target]
        BY <1>1, <1>4, <3>2
      <3> QED BY <3>1, <3>2, <3>3 DEF target
    <2>2. CASE i = n + 1
      <3>1. t.deployments[i].target \in HealthyIn(s, environment)
        BY <1>2, <1>4, <2>2, TargetFacts
      <3> DEFINE target == t.deployments[i].target
      <3>2. /\ target \in 1 .. n
            /\ s.deployments[target].environment = environment
            /\ s.deployments[target].state = "HEALTHY"
        BY <1>1, <3>1 DEF HealthyIn
      <3> HIDE DEF target
      <3>3. /\ target \in 1 .. n + 1 /\ target < n + 1
            /\ t.deployments[target] = s.deployments[target]
        BY <1>1, <1>4, <3>2
      <3> QED BY <1>2, <1>4, <2>2, <3>2, <3>3 DEF HasBeenHealthy, target
    <2> QED BY <1>1, <2>1, <2>2
  <1> QED BY <1>5, <1>6, <1>7 DEF DeploymentsSound

\* A plan stays in step when a due step is taken.
LEMMA StepTaken ==
  ASSUME NEW d \in StoredDeployments, StepIsDue(d),
         NEW e, e.state = NextStep(d), e.plan = d.plan,
         e.planIndex = d.planIndex + 1
  PROVE  StepIsDue(e) <=> e.state \in InFlight
  <1>1. d.plan \in Plans /\ d.planIndex \in 0 .. 2 /\ d.planIndex < Len(d.plan)
    BY DEF StoredDeployments, StepIsDue
  <1>2. CASE d.plan = <<"ROLLED_BACK">>
    <2>1. d.planIndex = 0
      BY <1>1, <1>2
    <2> QED BY <1>2, <2>1 DEF StepIsDue, NextStep, InFlight
  <1>3. CASE d.plan = <<"DEPLOYING", "HEALTHY">>
    <2>1. d.planIndex \in {0, 1}
      BY <1>1, <1>3
    <2> QED BY <1>3, <2>1 DEF StepIsDue, NextStep, InFlight,
                 decideDeploymentTransition, DEPLOYMENT_TRANSITIONS
  <1>4. CASE d.plan = <<"DEPLOYING", "FAILED">>
    <2>1. d.planIndex \in {0, 1}
      BY <1>1, <1>4
    <2> QED BY <1>4, <2>1 DEF StepIsDue, NextStep, InFlight,
                 decideDeploymentTransition, DEPLOYMENT_TRANSITIONS
  <1> QED BY <1>1, <1>2, <1>3, <1>4 DEF Plans

\* What a poll makes of each deployment: its own one takes the step, the others
\* of the environment are superseded if that step is HEALTHY.
LEMMA PolledFacts ==
  ASSUME NEW s, IsMockState(s), NEW id \in DOMAIN s.deployments,
         StepIsDue(s.deployments[id])
  PROVE  LET d == s.deployments
             p == Polled(s, id)
             next == NextStep(d[id]) IN
         /\ DOMAIN p = DOMAIN d
         /\ p[id].state = next
         /\ p[id].plan = d[id].plan
         /\ p[id].planIndex = d[id].planIndex + 1
         /\ \A i \in DOMAIN d :
              /\ p[i].environment = d[i].environment
              /\ p[i].target = d[i].target
              /\ p[i].release = d[i].release
              /\ i # id => /\ p[i].plan = d[i].plan
                           /\ p[i].planIndex = d[i].planIndex
              /\ i # id /\ p[i].state # d[i].state =>
                   d[i].state = "HEALTHY" /\ p[i].state = "SUPERSEDED"
              /\ i # id /\ next = "HEALTHY" /\ d[i].state = "HEALTHY"
                   /\ d[i].environment = d[id].environment
                   => p[i].state = "SUPERSEDED"
  <1> DEFINE d == s.deployments
             p == Polled(s, id)
             next == NextStep(d[id])
             superseded == IF next = "HEALTHY"
                           THEN HealthyIn(s, d[id].environment) \ {id}
                           ELSE {}
  <1>1. \A i \in DOMAIN d : d[i] \in StoredDeployments
    BY DeploymentTyped
  <1>2. DOMAIN p = DOMAIN d
    BY DEF Polled
  <1>3. p[id] = [d[id] EXCEPT !.state = next, !.planIndex = @ + 1]
    BY DEF Polled
  <1>4. /\ p[id].state = next /\ p[id].plan = d[id].plan
        /\ p[id].planIndex = d[id].planIndex + 1
        /\ p[id].environment = d[id].environment
        /\ p[id].target = d[id].target /\ p[id].release = d[id].release
    <2> DEFINE x == d[id]
    <2>1. x \in StoredDeployments
      BY <1>1
    <2>2. p[id] = [x EXCEPT !.state = next, !.planIndex = @ + 1]
      BY <1>3
    <2> HIDE DEF x, p, next
    <2> QED BY <2>1, <2>2 DEF StoredDeployments, x
  <1>5. ASSUME NEW i \in DOMAIN d, i # id
        PROVE  /\ p[i].environment = d[i].environment
               /\ p[i].target = d[i].target /\ p[i].release = d[i].release
               /\ p[i].plan = d[i].plan /\ p[i].planIndex = d[i].planIndex
               /\ i \in superseded => p[i].state = "SUPERSEDED"
               /\ i \notin superseded => p[i].state = d[i].state
    <2> DEFINE x == d[i]
    <2>1. x \in StoredDeployments
      BY <1>1
    <2>2. p[i] = IF i \in superseded THEN [x EXCEPT !.state = "SUPERSEDED"]
                                     ELSE x
      BY <1>5 DEF Polled
    <2> HIDE DEF x, p, superseded
    <2> QED BY <2>1, <2>2 DEF StoredDeployments, x
  <1>6. \A i \in DOMAIN d : i \in superseded <=>
          /\ next = "HEALTHY" /\ i # id /\ d[i].state = "HEALTHY"
          /\ d[i].environment = d[id].environment
    BY DEF HealthyIn
  <1> HIDE DEF p, next, superseded
  <1>7. \A i \in DOMAIN d :
          /\ p[i].environment = d[i].environment
          /\ p[i].target = d[i].target
          /\ p[i].release = d[i].release
          /\ i # id => /\ p[i].plan = d[i].plan
                       /\ p[i].planIndex = d[i].planIndex
          /\ i # id /\ p[i].state # d[i].state =>
               d[i].state = "HEALTHY" /\ p[i].state = "SUPERSEDED"
          /\ i # id /\ next = "HEALTHY" /\ d[i].state = "HEALTHY"
               /\ d[i].environment = d[id].environment
               => p[i].state = "SUPERSEDED"
    BY <1>4, <1>5, <1>6
  <1> QED BY <1>2, <1>4, <1>7 DEF p, next

LEMMA SoundPoll ==
  ASSUME NEW s, IsMockState(s), DeploymentsSound(s),
         NEW id \in DOMAIN s.deployments, StepIsDue(s.deployments[id]),
         NEW t, t.deployments = Polled(s, id)
  PROVE  DeploymentsSound(t)
  <1> DEFINE d == s.deployments
             p == t.deployments
             next == NextStep(d[id])
  <1>1. /\ DOMAIN p = DOMAIN d
        /\ p[id].state = next
        /\ p[id].plan = d[id].plan
        /\ p[id].planIndex = d[id].planIndex + 1
        /\ \A i \in DOMAIN d :
             /\ p[i].environment = d[i].environment
             /\ p[i].target = d[i].target
             /\ i # id => /\ p[i].plan = d[i].plan
                          /\ p[i].planIndex = d[i].planIndex
             /\ i # id /\ p[i].state # d[i].state =>
                  d[i].state = "HEALTHY" /\ p[i].state = "SUPERSEDED"
             /\ i # id /\ next = "HEALTHY" /\ d[i].state = "HEALTHY"
                  /\ d[i].environment = d[id].environment
                  => p[i].state = "SUPERSEDED"
    BY PolledFacts
  <1>2. \A i \in DOMAIN d : d[i] \in StoredDeployments
    BY DeploymentTyped
  <1>3. next \in DEPLOYMENT_TRANSITIONS[d[id].state]
    BY <1>2, DueSteps
  <1> HIDE DEF next
  <1>4. OneHealthy(t)
    <2> SUFFICES ASSUME NEW i \in DOMAIN d, NEW j \in DOMAIN d,
                        p[i].state = "HEALTHY", p[j].state = "HEALTHY",
                        p[i].environment = p[j].environment
                 PROVE  i = j
      BY <1>1 DEF OneHealthy
    <2>1. CASE i = id \/ j = id
      BY <1>1, <2>1
    <2>2. CASE i # id /\ j # id
      <3>1. d[i].state = "HEALTHY" /\ d[j].state = "HEALTHY"
        BY <1>1, <2>2
      <3> QED BY <1>1, <3>1 DEF DeploymentsSound, OneHealthy
    <2> QED BY <2>1, <2>2
  <1>5. PlansAgree(t)
    <2> SUFFICES ASSUME NEW i \in DOMAIN d
                 PROVE  StepIsDue(p[i]) <=> p[i].state \in InFlight
      BY <1>1 DEF PlansAgree
    <2>1. CASE i = id
      BY <1>1, <1>2, <2>1, StepTaken DEF next
    <2>2. CASE i # id /\ p[i].state = d[i].state
      <3>1. StepIsDue(p[i]) <=> StepIsDue(d[i])
        BY <1>1, <2>2 DEF StepIsDue, NextStep
      <3> QED BY <2>2, <3>1 DEF DeploymentsSound, PlansAgree
    <2>3. CASE i # id /\ p[i].state # d[i].state
      <3>1. p[i].state = "SUPERSEDED"
        BY <1>1, <2>3
      <3> QED BY <3>1 DEF StepIsDue, InFlight, decideDeploymentTransition,
                         DEPLOYMENT_TRANSITIONS
    <2> QED BY <2>1, <2>2, <2>3
  <1>6. TargetsSound(t)
    <2>1. \A i \in DOMAIN d : d[i].state \in HasBeenHealthy
                              => p[i].state \in HasBeenHealthy
      BY <1>1, <1>3 DEF HasBeenHealthy, DEPLOYMENT_TRANSITIONS
    <2> QED BY <1>1, <2>1 DEF DeploymentsSound, TargetsSound
  <1> QED BY <1>4, <1>5, <1>6 DEF DeploymentsSound

LEMMA SoundRollback ==
  ASSUME NEW s, IsMockState(s), DeploymentsSound(s),
         NEW id \in DOMAIN s.deployments, NEW t,
         t.deployments = [s.deployments EXCEPT ![id] =
                            [@ EXCEPT !.state = "ROLLING_BACK",
                                      !.plan = <<"ROLLED_BACK">>,
                                      !.planIndex = 0]]
  PROVE  DeploymentsSound(t)
  <1> DEFINE d == s.deployments
             p == t.deployments
             old == d[id]
             changed == [old EXCEPT !.state = "ROLLING_BACK",
                                    !.plan = <<"ROLLED_BACK">>,
                                    !.planIndex = 0]
  <1>1. old \in StoredDeployments
    BY DeploymentTyped
  <1>2. /\ changed.state = "ROLLING_BACK" /\ changed.plan = <<"ROLLED_BACK">>
        /\ changed.planIndex = 0 /\ changed.environment = old.environment
        /\ changed.target = old.target
    <2> HIDE DEF old
    <2> QED BY <1>1 DEF StoredDeployments
  <1>3. /\ DOMAIN p = DOMAIN d /\ p[id] = changed
        /\ \A i \in DOMAIN d : i # id => p[i] = d[i]
    OBVIOUS
  <1> HIDE DEF changed
  <1>4. OneHealthy(t)
    BY <1>2, <1>3 DEF DeploymentsSound, OneHealthy
  <1>5. PlansAgree(t)
    <2>1. StepIsDue(changed) /\ changed.state \in InFlight
      BY <1>2 DEF StepIsDue, NextStep, InFlight, decideDeploymentTransition,
                  DEPLOYMENT_TRANSITIONS
    <2> QED BY <1>3, <2>1 DEF DeploymentsSound, PlansAgree
  <1>6. TargetsSound(t)
    <2>1. \A i \in DOMAIN d :
            /\ p[i].environment = d[i].environment
            /\ p[i].target = d[i].target
            /\ d[i].state \in HasBeenHealthy => p[i].state \in HasBeenHealthy
      BY <1>2, <1>3 DEF HasBeenHealthy
    <2> QED BY <1>3, <2>1 DEF DeploymentsSound, TargetsSound
  <1> QED BY <1>4, <1>5, <1>6 DEF DeploymentsSound

-----------------------------------------------------------------------------
(* History *)

\* g holds whatever f holds.
Extends(f, g) == \A i \in DOMAIN f : i \in DOMAIN g /\ g[i] = f[i]

\* The deployments e are those of d, each where it was or one move further.
Follows(d, e) ==
  \A i \in DOMAIN d :
    /\ i \in DOMAIN e
    /\ \/ e[i].state = d[i].state
       \/ decideDeploymentTransition(d[i].state, e[i].state)

LEMMA BindExtends ==
  ASSUME NEW f, NEW k, k \notin DOMAIN f, NEW v
  PROVE  Extends(f, Bind(f, k, v))
  BY DEF Extends, Bind

LEMMA AppendExtends ==
  ASSUME NEW S, NEW s \in Seq(S), NEW x \in S
  PROVE  Extends(s, Append(s, x))
  BY DEF Extends

\* What an executed request does to the records of the keys.
LEMMA ExecutedExtends ==
  ASSUME NEW s, NEW key, NEW request, NEW effect, NEW t,
         Executed(s, key, request, effect, t)
  PROVE  Extends(s.idempotency, t.idempotency)
  BY BindExtends DEF Executed

LEMMA ReleaseExtends ==
  ASSUME NEW s, IsMockState(s), NEW context \in MutationContexts,
         NEW candidate \in Candidates, NEW evidence,
         ReleaseEffect(s, context, candidate, evidence).reply.code = "OK"
  PROVE  Extends(s.releases,
                 ReleaseEffect(s, context, candidate, evidence).store.releases)
  <1> DEFINE effect == ReleaseEffect(s, context, candidate, evidence)
             release == [candidate |-> candidate, base |-> BaseOf(s, context)]
  <1>1. effect.store.releases = Append(s.releases, release)
    BY ReleaseFits DEF AddsRelease
  <1>2. s.releases \in Seq(Releases)
    BY DEF IsMockState
  <1>3. Extends(s.releases, Append(s.releases, release))
    <2> HIDE DEF release
    <2> QED BY <1>2 DEF Extends
  <1> QED BY <1>1, <1>3

\* What a poll makes of the deployments follows the table.
LEMMA PollFollows ==
  ASSUME NEW s, IsMockState(s), NEW id \in DOMAIN s.deployments,
         StepIsDue(s.deployments[id])
  PROVE  Follows(s.deployments, Polled(s, id))
  <1> DEFINE d == s.deployments
             p == Polled(s, id)
  <1>1. /\ DOMAIN p = DOMAIN d
        /\ p[id].state = NextStep(d[id])
        /\ \A i \in DOMAIN d :
             i # id /\ p[i].state # d[i].state =>
               d[i].state = "HEALTHY" /\ p[i].state = "SUPERSEDED"
    BY PolledFacts
  <1>2. decideDeploymentTransition(d[id].state, p[id].state)
    BY <1>1 DEF StepIsDue
  <1>3. decideDeploymentTransition("HEALTHY", "SUPERSEDED")
    BY DEF decideDeploymentTransition, DEPLOYMENT_TRANSITIONS
  <1> HIDE DEF p
  <1>4. Follows(d, p)
    BY <1>1, <1>2, <1>3 DEF Follows
  <1> QED BY <1>4 DEF p

\* What a rollback makes of the deployments follows the table.
LEMMA RollbackFollows ==
  ASSUME NEW s, IsMockState(s), NEW id \in DOMAIN s.deployments,
         s.deployments[id].state \in {"HEALTHY", "FAILED"}, NEW t,
         t.deployments = [s.deployments EXCEPT ![id] =
                            [@ EXCEPT !.state = "ROLLING_BACK",
                                      !.plan = <<"ROLLED_BACK">>,
                                      !.planIndex = 0]]
  PROVE  Follows(s.deployments, t.deployments)
  <1> DEFINE d == s.deployments
             old == d[id]
             changed == [old EXCEPT !.state = "ROLLING_BACK",
                                    !.plan = <<"ROLLED_BACK">>,
                                    !.planIndex = 0]
  <1>1. old \in StoredDeployments
    BY DeploymentTyped
  <1>2. changed.state = "ROLLING_BACK"
    <2> HIDE DEF old
    <2> QED BY <1>1 DEF StoredDeployments
  <1>3. decideDeploymentTransition(old.state, "ROLLING_BACK")
    BY DEF decideDeploymentTransition, DEPLOYMENT_TRANSITIONS
  <1>4. t.deployments = [d EXCEPT ![id] = changed]
    OBVIOUS
  <1> HIDE DEF changed
  <1> QED BY <1>2, <1>3, <1>4 DEF Follows

-----------------------------------------------------------------------------
(* Every object was created once, under one key *)

\* t holds the record of one more key than s, and the other records of s.
Records(s, key, request, reply, t) ==
  /\ key \notin DOMAIN s.idempotency
  /\ t.idempotency = Bind(s.idempotency, key,
                          [request |-> request, response |-> reply])

\* The keys that were answered with a creation are those of s and the new one.
LEMMA CreatedThen ==
  ASSUME NEW s, NEW key, NEW request, NEW reply, NEW t,
         Records(s, key, request, reply, t)
  PROVE  /\ DOMAIN t.idempotency = DOMAIN s.idempotency \cup {key}
         /\ t.idempotency[key].request = request
         /\ t.idempotency[key].response = reply
         /\ \A k \in DOMAIN s.idempotency :
              k # key /\ t.idempotency[k] = s.idempotency[k]
         /\ \A operation, k, id :
              Created(t, operation, k, id) <=>
                \/ Created(s, operation, k, id)
                \/ /\ k = key /\ request.operation = operation
                   /\ reply.id = id
  <1> DEFINE rec == [request |-> request, response |-> reply]
  <1>1. rec.request = request /\ rec.response = reply
    OBVIOUS
  <1> HIDE DEF rec
  <1>2. t.idempotency = Bind(s.idempotency, key, rec)
    BY DEF Records, rec
  <1>3. /\ DOMAIN t.idempotency = DOMAIN s.idempotency \cup {key}
        /\ t.idempotency[key] = rec
        /\ \A k \in DOMAIN s.idempotency :
             k # key /\ t.idempotency[k] = s.idempotency[k]
    BY <1>2 DEF Bind, Records
  <1> QED BY <1>1, <1>3 DEF Created, Records

\* Requests of the other operations, and polls, leave the releases their keys.
LEMMA ReleasesOnceKept ==
  ASSUME NEW s, ReleasesCreatedOnce(s), NEW t, t.releases = s.releases,
         \/ t.idempotency = s.idempotency
         \/ \E key, request, reply :
              /\ Records(s, key, request, reply, t)
              /\ request.operation # "createReleaseCandidate"
  PROVE  ReleasesCreatedOnce(t)
  <1>1. CASE t.idempotency = s.idempotency
    BY <1>1 DEF ReleasesCreatedOnce, Created
  <1>2. ASSUME NEW key, NEW request, NEW reply,
               Records(s, key, request, reply, t),
               request.operation # "createReleaseCandidate"
        PROVE  ReleasesCreatedOnce(t)
    <2>1. \A k, id : Created(t, "createReleaseCandidate", k, id)
                       <=> Created(s, "createReleaseCandidate", k, id)
      BY <1>2, CreatedThen
    <2>2. \A k \in DOMAIN s.idempotency : t.idempotency[k] = s.idempotency[k]
      BY <1>2, CreatedThen
    <2>3. \A k, id : Created(s, "createReleaseCandidate", k, id)
                       => k \in DOMAIN s.idempotency
      BY DEF Created
    <2> QED BY <2>1, <2>2, <2>3 DEF ReleasesCreatedOnce
  <1> QED BY <1>1, <1>2

\* A new release takes a number no key was answered with.
LEMMA ReleasesOnceAdded ==
  ASSUME NEW s, s.releases \in Seq(Releases), ReleasesCreatedOnce(s),
         NEW key \in Keys, NEW request, NEW reply, NEW release, NEW t,
         Records(s, key, request, reply, t),
         request.operation = "createReleaseCandidate",
         reply.id = Len(s.releases) + 1,
         release.candidate = request.candidate,
         t.releases = Append(s.releases, release)
  PROVE  ReleasesCreatedOnce(t)
  <1> DEFINE n == Len(s.releases)
             Was(k, id) == Created(s, "createReleaseCandidate", k, id)
             By(k, id) == Created(t, "createReleaseCandidate", k, id)
  <1>1. /\ n \in Nat /\ DOMAIN s.releases = 1 .. n
        /\ DOMAIN t.releases = 1 .. n + 1 /\ t.releases[n + 1] = release
        /\ \A id \in 1 .. n : t.releases[id] = s.releases[id]
    OBVIOUS
  <1>2. \A k, id : By(k, id) <=> Was(k, id) \/ (k = key /\ id = n + 1)
    BY CreatedThen
  <1>3. /\ DOMAIN t.idempotency = DOMAIN s.idempotency \cup {key}
        /\ t.idempotency[key].request = request
        /\ t.idempotency[key].response = reply
        /\ \A k \in DOMAIN s.idempotency :
             k # key /\ t.idempotency[k] = s.idempotency[k]
    BY CreatedThen
  <1>4. \A k, id : Was(k, id) =>
          /\ k \in DOMAIN s.idempotency
          /\ id = s.idempotency[k].response.id
          /\ id \in 1 .. n
          /\ s.releases[id].candidate = s.idempotency[k].request.candidate
          /\ \A other \in Keys : Was(other, id) => other = k
    BY <1>1 DEF Created, ReleasesCreatedOnce
  <1>5. \A id \in 1 .. n : \E k \in Keys : Was(k, id)
    BY <1>1 DEF ReleasesCreatedOnce
  <1> HIDE DEF n, Was
  <1>6. ASSUME NEW id \in DOMAIN t.releases PROVE \E k \in Keys : By(k, id)
    <2>1. CASE id \in 1 .. n
      BY <1>2, <1>5, <2>1
    <2>2. CASE id = n + 1
      BY <1>2, <2>2
    <2> QED BY <1>1, <2>1, <2>2
  <1>7. ASSUME NEW k \in DOMAIN t.idempotency, NEW id, By(k, id)
        PROVE  /\ id \in DOMAIN t.releases
               /\ t.releases[id].candidate = t.idempotency[k].request.candidate
               /\ \A other \in Keys : By(other, id) => other = k
    <2>1. CASE Was(k, id)
      <3>1. /\ id \in 1 .. n /\ id # n + 1 /\ id \in 1 .. n + 1
            /\ k \in DOMAIN s.idempotency
        BY <1>1, <1>4, <2>1
      <3> QED BY <1>1, <1>2, <1>3, <1>4, <2>1, <3>1
    <2>2. CASE k = key /\ id = n + 1
      <3>1. n + 1 \notin 1 .. n /\ n + 1 \in 1 .. n + 1
        BY <1>1
      <3>2. \A other : ~Was(other, id)
        BY <1>4, <2>2, <3>1
      <3> QED BY <1>1, <1>2, <1>3, <2>2, <3>1, <3>2
    <2> QED BY <1>2, <1>7, <2>1, <2>2
  <1> QED BY <1>6, <1>7 DEF ReleasesCreatedOnce

\* e are the deployments d, of the releases and environments they were of.
SameDeployments(d, e) ==
  /\ DOMAIN e = DOMAIN d
  /\ \A i \in DOMAIN d : /\ e[i].release = d[i].release
                         /\ e[i].environment = d[i].environment

\* Requests of the other operations, and polls, leave the deployments their
\* keys.
LEMMA DeploymentsOnceKept ==
  ASSUME NEW s, DeploymentsCreatedOnce(s), NEW t,
         DOMAIN s.releases \subseteq DOMAIN t.releases,
         SameDeployments(s.deployments, t.deployments),
         \/ t.idempotency = s.idempotency
         \/ \E key, request, reply :
              /\ Records(s, key, request, reply, t)
              /\ request.operation # "createDeployment"
  PROVE  DeploymentsCreatedOnce(t)
  <1>1. CASE t.idempotency = s.idempotency
    BY <1>1 DEF DeploymentsCreatedOnce, Created, SameDeployments
  <1>2. ASSUME NEW key, NEW request, NEW reply,
               Records(s, key, request, reply, t),
               request.operation # "createDeployment"
        PROVE  DeploymentsCreatedOnce(t)
    <2>1. \A k, id : Created(t, "createDeployment", k, id)
                       <=> Created(s, "createDeployment", k, id)
      BY <1>2, CreatedThen
    <2>2. \A k \in DOMAIN s.idempotency : t.idempotency[k] = s.idempotency[k]
      BY <1>2, CreatedThen
    <2>3. \A k, id : Created(s, "createDeployment", k, id)
                       => k \in DOMAIN s.idempotency
      BY DEF Created
    <2> QED BY <2>1, <2>2, <2>3 DEF DeploymentsCreatedOnce, SameDeployments
  <1> QED BY <1>1, <1>2

\* A new deployment takes a number no key was answered with.
LEMMA DeploymentsOnceAdded ==
  ASSUME NEW s, s.deployments \in Seq(StoredDeployments),
         DeploymentsCreatedOnce(s),
         NEW key \in Keys, NEW request, NEW reply, NEW deployment, NEW t,
         Records(s, key, request, reply, t),
         request.operation = "createDeployment",
         reply.id = Len(s.deployments) + 1,
         deployment.release = request.release,
         deployment.environment = request.environment,
         deployment.release \in DOMAIN s.releases,
         t.releases = s.releases,
         t.deployments = Append(s.deployments, deployment)
  PROVE  DeploymentsCreatedOnce(t)
  <1> DEFINE n == Len(s.deployments)
             Was(k, id) == Created(s, "createDeployment", k, id)
             By(k, id) == Created(t, "createDeployment", k, id)
  <1>1. /\ n \in Nat /\ DOMAIN s.deployments = 1 .. n
        /\ DOMAIN t.deployments = 1 .. n + 1
        /\ t.deployments[n + 1] = deployment
        /\ \A id \in 1 .. n : t.deployments[id] = s.deployments[id]
    OBVIOUS
  <1>2. \A k, id : By(k, id) <=> Was(k, id) \/ (k = key /\ id = n + 1)
    BY CreatedThen
  <1>3. /\ DOMAIN t.idempotency = DOMAIN s.idempotency \cup {key}
        /\ t.idempotency[key].request = request
        /\ t.idempotency[key].response = reply
        /\ \A k \in DOMAIN s.idempotency :
             k # key /\ t.idempotency[k] = s.idempotency[k]
    BY CreatedThen
  <1>4. \A k, id : Was(k, id) =>
          /\ k \in DOMAIN s.idempotency
          /\ id = s.idempotency[k].response.id
          /\ id \in 1 .. n
          /\ s.deployments[id].release = s.idempotency[k].request.release
          /\ s.deployments[id].environment
               = s.idempotency[k].request.environment
          /\ \A other \in Keys : Was(other, id) => other = k
    BY <1>1 DEF Created, DeploymentsCreatedOnce
  <1>5. \A id \in 1 .. n : /\ s.deployments[id].release \in DOMAIN s.releases
                           /\ \E k \in Keys : Was(k, id)
    BY <1>1 DEF DeploymentsCreatedOnce
  <1> HIDE DEF n, Was
  <1>6. ASSUME NEW id \in DOMAIN t.deployments
        PROVE  /\ t.deployments[id].release \in DOMAIN t.releases
               /\ \E k \in Keys : By(k, id)
    <2>1. CASE id \in 1 .. n
      BY <1>1, <1>2, <1>5, <2>1
    <2>2. CASE id = n + 1
      BY <1>1, <1>2, <2>2
    <2> QED BY <1>1, <2>1, <2>2
  <1>7. ASSUME NEW k \in DOMAIN t.idempotency, NEW id, By(k, id)
        PROVE  /\ id \in DOMAIN t.deployments
               /\ t.deployments[id].release = t.idempotency[k].request.release
               /\ t.deployments[id].environment
                    = t.idempotency[k].request.environment
               /\ \A other \in Keys : By(other, id) => other = k
    <2>1. CASE Was(k, id)
      <3>1. /\ id \in 1 .. n /\ id # n + 1 /\ id \in 1 .. n + 1
            /\ k \in DOMAIN s.idempotency
        BY <1>1, <1>4, <2>1
      <3> QED BY <1>1, <1>2, <1>3, <1>4, <2>1, <3>1
    <2>2. CASE k = key /\ id = n + 1
      <3>1. n + 1 \notin 1 .. n /\ n + 1 \in 1 .. n + 1
        BY <1>1
      <3>2. \A other : ~Was(other, id)
        BY <1>4, <2>2, <3>1
      <3> QED BY <1>1, <1>2, <1>3, <2>2, <3>1, <3>2
    <2> QED BY <1>2, <1>7, <2>1, <2>2
  <1> QED BY <1>6, <1>7 DEF DeploymentsCreatedOnce

LEMMA ExecutedRecords ==
  ASSUME NEW s, NEW key, NEW request, NEW effect, NEW t,
         Executed(s, key, request, effect, t)
  PROVE  Records(s, key, request, effect.reply, t)
  BY DEF Executed, Records

\* A store that differs in neither objects nor keys.
LEMMA CreatedUnchanged ==
  ASSUME NEW s, NEW t, ReleasesCreatedOnce(s), DeploymentsCreatedOnce(s),
         t.releases = s.releases, t.deployments = s.deployments,
         t.idempotency = s.idempotency
  PROVE  ReleasesCreatedOnce(t) /\ DeploymentsCreatedOnce(t)
  BY DEF ReleasesCreatedOnce, DeploymentsCreatedOnce, Created

\* An executed request of an operation that creates neither.
LEMMA CreatedBesides ==
  ASSUME NEW s, NEW t, ReleasesCreatedOnce(s), DeploymentsCreatedOnce(s),
         NEW key, NEW request, NEW effect,
         Executed(s, key, request, effect, t),
         request.operation \in {"createDraft", "rollbackDeployment"},
         t.releases = s.releases,
         SameDeployments(s.deployments, t.deployments)
  PROVE  ReleasesCreatedOnce(t) /\ DeploymentsCreatedOnce(t)
  <1>1. Records(s, key, request, effect.reply, t)
    BY ExecutedRecords
  <1>2. ReleasesCreatedOnce(t)
    BY <1>1, ReleasesOnceKept
  <1>3. DeploymentsCreatedOnce(t)
    BY <1>1, DeploymentsOnceKept
  <1> QED BY <1>2, <1>3

LEMMA CreatedRelease ==
  ASSUME NEW s, IsMockState(s), ReleasesCreatedOnce(s),
         DeploymentsCreatedOnce(s), NEW context \in MutationContexts,
         NEW candidate \in Candidates, NEW evidence \in SUBSET Evidence, NEW t,
         Executed(s, context.key, ReleaseRequest(candidate, evidence),
                  ReleaseEffect(s, context, candidate, evidence), t)
  PROVE  ReleasesCreatedOnce(t) /\ DeploymentsCreatedOnce(t)
  <1> DEFINE effect == ReleaseEffect(s, context, candidate, evidence)
             request == ReleaseRequest(candidate, evidence)
             release == [candidate |-> candidate, base |-> BaseOf(s, context)]
  <1>1. context.key \in Keys /\ s.releases \in Seq(Releases)
    BY DEF IsMockState, MutationContexts
  <1>2. AddsRelease(s, context, candidate, effect)
    BY ReleaseFits
  <1>3. /\ request.operation = "createReleaseCandidate"
        /\ request.candidate = release.candidate
    BY DEF ReleaseRequest
  <1>4. Executed(s, context.key, request, effect, t)
    OBVIOUS
  <1> HIDE DEF effect, request
  <1>5. /\ effect.reply.id = Len(s.releases) + 1
        /\ t.releases = Append(s.releases, release)
        /\ t.deployments = s.deployments
    BY <1>2, <1>4 DEF Executed, AddsRelease
  <1>6. Records(s, context.key, request, effect.reply, t)
    BY <1>4, ExecutedRecords
  <1> HIDE DEF release
  <1>7. ReleasesCreatedOnce(t)
    BY <1>1, <1>3, <1>5, <1>6, ReleasesOnceAdded
  <1>8. DOMAIN s.releases \subseteq DOMAIN t.releases
    BY <1>1, <1>5
  <1>9. DeploymentsCreatedOnce(t)
    BY <1>3, <1>5, <1>6, <1>8, DeploymentsOnceKept DEF SameDeployments
  <1> QED BY <1>7, <1>9

LEMMA CreatedDeployment ==
  ASSUME NEW s, IsMockState(s), ReleasesCreatedOnce(s),
         DeploymentsCreatedOnce(s), NEW context \in MutationContexts,
         NEW release \in Nat, NEW environment \in Environments, NEW outcome,
         NEW t,
         Executed(s, context.key, DeployRequest(release, environment),
                  DeployEffect(s, release, environment, outcome), t)
  PROVE  ReleasesCreatedOnce(t) /\ DeploymentsCreatedOnce(t)
  <1> DEFINE effect == DeployEffect(s, release, environment, outcome)
             request == DeployRequest(release, environment)
             deployment ==
               [release |-> release, environment |-> environment,
                state |-> "QUEUED", target |-> RollbackTarget(s, environment),
                plan |-> PlanFor(outcome), planIndex |-> 0]
  <1>1. /\ context.key \in Keys
        /\ s.deployments \in Seq(StoredDeployments)
    BY DEF IsMockState, MutationContexts
  <1>2. AddsDeployment(s, release, environment, outcome, effect)
    BY DeployFits
  <1>3. /\ request.operation = "createDeployment"
        /\ deployment.release = request.release
        /\ deployment.environment = request.environment
        /\ deployment.release = release
    BY DEF DeployRequest
  <1>4. Executed(s, context.key, request, effect, t)
    OBVIOUS
  <1> HIDE DEF effect, request
  <1>5. /\ release \in DOMAIN s.releases
        /\ effect.reply.id = Len(s.deployments) + 1
        /\ t.releases = s.releases
        /\ t.deployments = Append(s.deployments, deployment)
    BY <1>2, <1>4 DEF Executed, AddsDeployment
  <1>6. Records(s, context.key, request, effect.reply, t)
    BY <1>4, ExecutedRecords
  <1> HIDE DEF deployment
  <1>7. DeploymentsCreatedOnce(t)
    BY <1>1, <1>3, <1>5, <1>6, DeploymentsOnceAdded
  <1>8. ReleasesCreatedOnce(t)
    BY <1>3, <1>5, <1>6, ReleasesOnceKept
  <1> QED BY <1>7, <1>8

LEMMA RollbackKeeps ==
  ASSUME NEW s, IsMockState(s), NEW id \in DOMAIN s.deployments, NEW t,
         t.deployments = [s.deployments EXCEPT ![id] =
                            [@ EXCEPT !.state = "ROLLING_BACK",
                                      !.plan = <<"ROLLED_BACK">>,
                                      !.planIndex = 0]]
  PROVE  SameDeployments(s.deployments, t.deployments)
  <1> DEFINE old == s.deployments[id]
             changed == [old EXCEPT !.state = "ROLLING_BACK",
                                    !.plan = <<"ROLLED_BACK">>,
                                    !.planIndex = 0]
  <1>1. old \in StoredDeployments
    BY DeploymentTyped
  <1>2. /\ changed.release = old.release
        /\ changed.environment = old.environment
    <2> HIDE DEF old
    <2> QED BY <1>1 DEF StoredDeployments
  <1>3. t.deployments = [s.deployments EXCEPT ![id] = changed]
    OBVIOUS
  <1> HIDE DEF changed
  <1> QED BY <1>2, <1>3 DEF SameDeployments

-----------------------------------------------------------------------------
(* Releases are made at the version the agent has *)

\* A context that is not stale names the current version, or none.
LEMMA NotStale ==
  ASSUME NEW s, NEW context, ~StaleBase(s, context)
  PROVE  BaseOf(s, context) = Current(s)
  BY DEF StaleBase, BaseOf

LEMMA ReleaseNotStale ==
  ASSUME NEW s, NEW context, NEW candidate, NEW evidence,
         ReleaseEffect(s, context, candidate, evidence).reply.code = "OK"
  PROVE  ~StaleBase(s, context)
  BY RefuseFacts DEF ReleaseEffect

-----------------------------------------------------------------------------
(* What the caller of a request can rely on *)

\* Only success is on record, and of every deployment that it was QUEUED, which is
\* what a caller that uses its key again is told.
AnswersSound(s) ==
  \A k \in DOMAIN s.idempotency :
    /\ s.idempotency[k].response.code = "OK"
    /\ s.idempotency[k].request.operation = "createDeployment" =>
         s.idempotency[k].response.state = "QUEUED"

\* A store whose objects were all created once.
StoreSound(s) ==
  /\ IsMockState(s)
  /\ ReleasesCreatedOnce(s) /\ DeploymentsCreatedOnce(s)
  /\ AnswersSound(s)

\* t holds the releases and deployments of s, the deployments further on.
StoreFollows(s, t) ==
  /\ Extends(s.releases, t.releases)
  /\ Follows(s.deployments, t.deployments)
  /\ \A i \in DOMAIN s.deployments :
       t.deployments[i].release = s.deployments[i].release

\* The keys of t are those of s and key, if anything, for the request.  Of
\* deployments, the reply is QUEUED.
KeysFollow(s, key, request, t) ==
  \A k \in DOMAIN t.idempotency :
    \/ k \in DOMAIN s.idempotency /\ t.idempotency[k] = s.idempotency[k]
    \/ /\ k = key /\ t.idempotency[k].request = request
       /\ t.idempotency[k].response.code = "OK"
       /\ request.operation = "createDeployment" =>
            t.idempotency[k].response.state = "QUEUED"

\* The reply is on record.
Answered(t, key, request, reply) ==
  /\ key \in DOMAIN t.idempotency
  /\ t.idempotency[key].request = request
  /\ t.idempotency[key].response = reply

LEMMA FollowsSelf ==
  ASSUME NEW s
  PROVE  StoreFollows(s, s)
  BY DEF StoreFollows, Extends, Follows

\* An OK is on record, whether it was given now or earlier.
LEMMA OkIsAnswered ==
  ASSUME NEW s, IsMockState(s), NEW context \in MutationContexts,
         NEW request \in Requests, NEW effect, FitsEnvelope(s, effect),
         NEW outcome,
         outcome = Gated(s, context.gate,
                         Idempotent(s, context.key, request, effect)),
         outcome.reply.code = "OK"
  PROVE  Answered(outcome.store, context.key, request, outcome.reply)
  <1> DEFINE key == context.key
             rec == [request |-> request, response |-> effect.reply]
             e == effect.store
             bound == Bind(e.idempotency, key, rec)
             u == [e EXCEPT !.idempotency = bound]
  <1>1. outcome = Idempotent(s, key, request, effect)
    BY RefuseFacts DEF Gated
  <1>2. CASE key \in DOMAIN s.idempotency
    <2>1. s.idempotency[key].request = request
      BY <1>1, <1>2, RefuseFacts DEF Idempotent
    <2> QED BY <1>1, <1>2, <2>1 DEF Idempotent, Outcome, Answered
  <1>3. CASE key \notin DOMAIN s.idempotency
    <2>1. outcome.store = u /\ outcome.reply = effect.reply
      BY <1>1, <1>3 DEF Idempotent, Outcome
    <2>2. IsMockState(e) /\ key \in Keys /\ rec \in IdempotencyRecords
      BY DEF FitsEnvelope, MutationContexts, IdempotencyRecords
    <2>3. /\ DOMAIN bound \subseteq Keys
          /\ bound \in [DOMAIN bound -> IdempotencyRecords]
          /\ key \in DOMAIN bound /\ bound[key] = rec
      BY <2>2 DEF Bind, IsMockState
    <2>4. u.idempotency = bound
      <3> HIDE DEF bound, e
      <3> QED BY <2>2, <2>3, NewIdempotency
    <2>5. rec.request = request /\ rec.response = effect.reply
      OBVIOUS
    <2> HIDE DEF u, bound, rec
    <2> QED BY <2>1, <2>3, <2>4, <2>5 DEF Answered
  <1> QED BY <1>2, <1>3

LEMMA ExecutedKeys ==
  ASSUME NEW s, NEW key, NEW request, NEW effect, NEW t,
         Executed(s, key, request, effect, t),
         request.operation = "createDeployment" => effect.reply.state = "QUEUED"
  PROVE  KeysFollow(s, key, request, t)
  <1>1. Records(s, key, request, effect.reply, t)
    BY ExecutedRecords
  <1>2. effect.reply.code = "OK"
    BY DEF Executed
  <1> QED BY <1>1, <1>2, CreatedThen DEF KeysFollow

LEMMA AnswersStay ==
  ASSUME NEW s, AnswersSound(s), NEW key, NEW request, NEW t,
         KeysFollow(s, key, request, t)
  PROVE  AnswersSound(t)
  BY DEF AnswersSound, KeysFollow

\* What createReleaseCandidate owes its caller.
LEMMA ReleasePromise ==
  ASSUME NEW s, StoreSound(s), NEW context \in MutationContexts,
         NEW candidate \in Candidates, NEW evidence \in SUBSET Evidence,
         NEW outcome,
         outcome = createReleaseCandidate(s, context, candidate, evidence)
  PROVE  /\ StoreSound(outcome.store)
         /\ StoreFollows(s, outcome.store)
         /\ KeysFollow(s, context.key, ReleaseRequest(candidate, evidence),
                       outcome.store)
         /\ outcome.reply.code = "OK" =>
              /\ outcome.reply.id \in DOMAIN outcome.store.releases
              /\ outcome.store.releases[outcome.reply.id].candidate = candidate
  <1> DEFINE t == outcome.store
             request == ReleaseRequest(candidate, evidence)
             effect == ReleaseEffect(s, context, candidate, evidence)
  <1>1. /\ IsMockState(s)
        /\ ReleasesCreatedOnce(s) /\ DeploymentsCreatedOnce(s)
        /\ AnswersSound(s)
    BY DEF StoreSound
  <1>2. /\ IsMockState(t)
        /\ t = s \/ Executed(s, context.key, request, effect, t)
    BY <1>1, ReleaseLeaves
  <1>3. ReleasesCreatedOnce(t) /\ DeploymentsCreatedOnce(t)
    BY <1>1, <1>2, CreatedRelease
  <1>4. StoreFollows(s, t) /\ KeysFollow(s, context.key, request, t)
    <2>1. CASE t = s
      BY <2>1, FollowsSelf DEF KeysFollow
    <2>2. CASE Executed(s, context.key, request, effect, t)
      <3>1. effect.store.deployments = s.deployments
        BY <1>1, ReleaseKeepsDeployments
      <3>2. Extends(s.releases, effect.store.releases)
        BY <1>1, <2>2, ReleaseExtends DEF Executed
      <3>3. request.operation # "createDeployment"
        BY DEF ReleaseRequest
      <3>4. KeysFollow(s, context.key, request, t)
        BY <2>2, <3>3, ExecutedKeys
      <3> HIDE DEF effect, request
      <3> QED BY <2>2, <3>1, <3>2, <3>4 DEF Executed, StoreFollows, Follows
    <2> QED BY <1>2, <2>1, <2>2
  <1>5. ASSUME outcome.reply.code = "OK"
        PROVE  /\ outcome.reply.id \in DOMAIN t.releases
               /\ t.releases[outcome.reply.id].candidate = candidate
    <2>1. request \in Requests
      BY DEF ReleaseRequest, Requests
    <2>2. FitsEnvelope(s, effect)
      BY <1>1, ReleaseFits
    <2>3. outcome = Gated(s, context.gate,
                          Idempotent(s, context.key, request, effect))
      BY <1>5, RefuseFacts DEF createReleaseCandidate, Gated
    <2>4. Answered(t, context.key, request, outcome.reply)
      BY <1>1, <1>5, <2>1, <2>2, <2>3, OkIsAnswered
    <2>5. /\ request.operation = "createReleaseCandidate"
          /\ request.candidate = candidate
      BY DEF ReleaseRequest
    <2> HIDE DEF request, t
    <2>6. Created(t, "createReleaseCandidate", context.key, outcome.reply.id)
      BY <2>4, <2>5 DEF Answered, Created
    <2> QED BY <1>3, <2>4, <2>5, <2>6 DEF Answered, ReleasesCreatedOnce
  <1>6. StoreSound(t)
    BY <1>1, <1>2, <1>3, <1>4, AnswersStay DEF StoreSound
  <1> QED BY <1>4, <1>5, <1>6

\* What createDeployment to staging owes its caller.
LEMMA DeployPromise ==
  ASSUME NEW s, StoreSound(s), NEW context \in MutationContexts,
         NEW release \in Nat, NEW fixture, NEW outcome,
         outcome = createDeployment(s, context, release, "staging", fixture)
  PROVE  /\ StoreSound(outcome.store)
         /\ StoreFollows(s, outcome.store)
         /\ KeysFollow(s, context.key, DeployRequest(release, "staging"),
                       outcome.store)
         /\ outcome.reply.code = "OK" =>
              /\ outcome.reply.id \in DOMAIN outcome.store.deployments
              /\ outcome.store.deployments[outcome.reply.id].release = release
              /\ outcome.reply.state = "QUEUED"
  <1> DEFINE t == outcome.store
             request == DeployRequest(release, "staging")
             effect == DeployEffect(s, release, "staging", fixture)
  <1>0. "staging" \in Environments
    BY DEF Environments
  <1>1. /\ IsMockState(s)
        /\ ReleasesCreatedOnce(s) /\ DeploymentsCreatedOnce(s)
        /\ AnswersSound(s)
    BY DEF StoreSound
  <1>2. /\ IsMockState(t)
        /\ t = s \/ Executed(s, context.key, request, effect, t)
    BY <1>1, DeployLeaves
  <1>3. ReleasesCreatedOnce(t) /\ DeploymentsCreatedOnce(t)
    BY <1>0, <1>1, <1>2, CreatedDeployment
  <1>4. StoreFollows(s, t) /\ KeysFollow(s, context.key, request, t)
    <2>1. CASE t = s
      BY <2>1, FollowsSelf DEF KeysFollow
    <2>2. CASE Executed(s, context.key, request, effect, t)
      <3>1. AddsDeployment(s, release, "staging", fixture, effect)
        BY <1>0, <1>1, DeployFits
      <3>2. KeysFollow(s, context.key, request, t)
        <4>1. effect.reply.state = "QUEUED"
          BY <2>2, RefuseFacts DEF Executed, DeployEffect, Outcome, Reply
        <4> HIDE DEF effect, request
        <4> QED BY <2>2, <4>1, ExecutedKeys
      <3> DEFINE new == [release |-> release, environment |-> "staging",
                         state |-> "QUEUED",
                         target |-> RollbackTarget(s, "staging"),
                         plan |-> PlanFor(fixture), planIndex |-> 0]
      <3>3. /\ t.releases = s.releases
            /\ t.deployments = Append(s.deployments, new)
        <4> HIDE DEF effect, request
        <4> QED BY <2>2, <3>1 DEF Executed, AddsDeployment
      <3>4. s.deployments \in Seq(StoredDeployments)
        BY <1>1 DEF IsMockState
      <3> HIDE DEF new
      <3>5. Extends(s.deployments, t.deployments)
        BY <3>3, <3>4 DEF Extends
      <3> QED BY <3>2, <3>3, <3>5 DEF StoreFollows, Follows, Extends
    <2> QED BY <1>2, <2>1, <2>2
  <1>5. ASSUME outcome.reply.code = "OK"
        PROVE  /\ outcome.reply.id \in DOMAIN t.deployments
               /\ t.deployments[outcome.reply.id].release = release
               /\ outcome.reply.state = "QUEUED"
    <2>1. request \in Requests
      BY <1>0 DEF DeployRequest, Requests
    <2>2. FitsEnvelope(s, effect)
      BY <1>0, <1>1, DeployFits
    <2>3. outcome = Gated(s, context.gate,
                          Idempotent(s, context.key, request, effect))
      BY <1>0, <1>5, RefuseFacts DEF createDeployment, Gated
    <2>4. Answered(t, context.key, request, outcome.reply)
      BY <1>1, <1>5, <2>1, <2>2, <2>3, OkIsAnswered
    <2>5. /\ request.operation = "createDeployment"
          /\ request.release = release
      BY DEF DeployRequest
    <2> HIDE DEF request, t
    <2>6. Created(t, "createDeployment", context.key, outcome.reply.id)
      BY <2>4, <2>5 DEF Answered, Created
    <2>7. AnswersSound(t)
      BY <1>1, <1>4, AnswersStay
    <2> QED BY <1>3, <2>4, <2>5, <2>6, <2>7
            DEF Answered, DeploymentsCreatedOnce, AnswersSound
  <1>6. StoreSound(t)
    BY <1>1, <1>2, <1>3, <1>4, AnswersStay DEF StoreSound
  <1> QED BY <1>4, <1>5, <1>6

\* What a poll owes its caller: what it tells is so.
LEMMA PollPromise ==
  ASSUME NEW s, StoreSound(s), NEW gate, NEW id \in Nat, NEW outcome,
         outcome = getDeployment(s, gate, id)
  PROVE  /\ StoreSound(outcome.store)
         /\ StoreFollows(s, outcome.store)
         /\ outcome.store.idempotency = s.idempotency
         /\ outcome.reply.code = "OK" =>
              /\ id \in DOMAIN outcome.store.deployments
              /\ outcome.store.deployments[id].state = outcome.reply.state
  <1> DEFINE t == outcome.store
             Moves == /\ id \in DOMAIN s.deployments
                      /\ StepIsDue(s.deployments[id])
                      /\ t.deployments = Polled(s, id)
  <1>1. /\ IsMockState(s)
        /\ ReleasesCreatedOnce(s) /\ DeploymentsCreatedOnce(s)
        /\ AnswersSound(s)
    BY DEF StoreSound
  <1>2. /\ IsMockState(t)
        /\ t.releases = s.releases /\ t.idempotency = s.idempotency
        /\ t = s \/ Moves
    BY <1>1, PollLeaves
  <1>3. ASSUME Moves
        PROVE  /\ SameDeployments(s.deployments, t.deployments)
               /\ Follows(s.deployments, t.deployments)
               /\ t.deployments[id].state = NextStep(s.deployments[id])
    BY <1>1, <1>3, PolledFacts, PollFollows DEF SameDeployments
  <1>4. StoreSound(t)
    <2>1. DOMAIN s.releases \subseteq DOMAIN t.releases
      BY <1>2
    <2>2. CASE t = s
      BY <2>2
    <2>3. CASE Moves
      <3>1. ReleasesCreatedOnce(t) /\ DeploymentsCreatedOnce(t)
        BY <1>1, <1>2, <1>3, <2>1, <2>3, ReleasesOnceKept, DeploymentsOnceKept
      <3> QED BY <1>1, <1>2, <3>1 DEF StoreSound, AnswersSound
    <2> QED BY <1>2, <2>2, <2>3
  <1>5. StoreFollows(s, t)
    <2>1. CASE t = s
      BY <2>1, FollowsSelf
    <2>2. CASE Moves
      BY <1>2, <1>3, <2>2 DEF StoreFollows, Extends, SameDeployments
    <2> QED BY <1>2, <2>1, <2>2
  <1>6. ASSUME outcome.reply.code = "OK"
        PROVE  /\ id \in DOMAIN t.deployments
               /\ t.deployments[id].state = outcome.reply.state
    <2>1. outcome = PollEffect(s, id)
      BY <1>6, RefuseFacts DEF getDeployment, Gated
    <2>2. id \in DOMAIN s.deployments
      BY <1>6, <2>1, RefuseFacts DEF PollEffect
    <2>3. CASE StepIsDue(s.deployments[id])
      <3>1. /\ t = [s EXCEPT !.deployments = Polled(s, id)]
            /\ outcome.reply.state = NextStep(s.deployments[id])
        BY <2>1, <2>2, <2>3 DEF PollEffect, Outcome, Reply
      <3>2. t.deployments = Polled(s, id)
        BY <1>1, <3>1, SetDeployments DEF IsMockState, Fields
      <3> QED BY <1>3, <2>2, <2>3, <3>1, <3>2 DEF SameDeployments
    <2>4. CASE ~StepIsDue(s.deployments[id])
      BY <2>1, <2>2, <2>4 DEF PollEffect, Outcome, Reply
    <2> QED BY <2>3, <2>4
  <1> QED BY <1>2, <1>4, <1>5, <1>6

\* Versions come and go without the releases and deployments.
LEMMA VersionsPromise ==
  ASSUME NEW s, StoreSound(s), NEW bundle \in Bundles, NEW t,
         t \in {Seed(s, bundle), Advance(s, bundle)}
  PROVE  StoreSound(t) /\ StoreFollows(s, t) /\ t.idempotency = s.idempotency
  <1>1. /\ IsMockState(s)
        /\ ReleasesCreatedOnce(s) /\ DeploymentsCreatedOnce(s)
        /\ AnswersSound(s)
    BY DEF StoreSound
  <1>2. PICK new \in Seq(Bundles) : t = [s EXCEPT !.versions = new]
    <2>1. s.versions \in Seq(Bundles)
      BY <1>1 DEF IsMockState
    <2>2. Append(s.versions, bundle) \in Seq(Bundles) /\ <<bundle>> \in Seq(Bundles)
      BY <2>1
    <2> QED BY <2>2 DEF Seed, Advance
  <1>3. /\ IsMockState(t) /\ t.releases = s.releases
        /\ t.deployments = s.deployments /\ t.idempotency = s.idempotency
    BY <1>1, <1>2, NewVersions
  <1>4. StoreSound(t)
    BY <1>1, <1>3, CreatedUnchanged DEF StoreSound, AnswersSound
  <1> QED BY <1>3, <1>4 DEF StoreFollows, Extends, Follows

\* An empty store has nothing that could have been created twice.
LEMMA EmptySound == StoreSound(emptyState)
  BY EmptyTyped DEF StoreSound, ReleasesCreatedOnce, DeploymentsCreatedOnce,
                    AnswersSound, Created, emptyState

-----------------------------------------------------------------------------
(* What each handler owes its caller, in one predicate *)

\* No request but a new version changes which version is current.
LEMMA EffectsKeepVersions ==
  ASSUME NEW s, IsMockState(s)
  PROVE  /\ \A context, manifest :
              DraftEffect(s, context, manifest).store.versions = s.versions
         /\ \A context, candidate, evidence :
              ReleaseEffect(s, context, candidate, evidence).store.versions
                = s.versions
         /\ \A release, environment, outcome :
              DeployEffect(s, release, environment, outcome).store.versions
                = s.versions
         /\ \A id : RollbackEffect(s, id).store.versions = s.versions
         /\ \A id : PollEffect(s, id).store.versions = s.versions
  <1>0. s = Fields(s)
    BY DEF IsMockState, Fields
  <1>1. \A new : [s EXCEPT !.drafts = new].versions = s.versions
    BY <1>0, SetDrafts
  <1>2. \A new : [s EXCEPT !.releases = new].versions = s.versions
    BY <1>0, SetReleases
  <1>3. \A new : [s EXCEPT !.deployments = new].versions = s.versions
    BY <1>0, SetDeployments
  <1>4. ASSUME NEW context, NEW manifest
        PROVE  DraftEffect(s, context, manifest).store.versions = s.versions
    BY <1>1 DEF DraftEffect, Refuse, Outcome
  <1>5. ASSUME NEW context, NEW candidate, NEW evidence
        PROVE  ReleaseEffect(s, context, candidate, evidence).store.versions
                 = s.versions
    BY <1>2 DEF ReleaseEffect, Refuse, Outcome
  <1>6. ASSUME NEW release, NEW environment, NEW outcome
        PROVE  DeployEffect(s, release, environment, outcome).store.versions
                 = s.versions
    BY <1>3 DEF DeployEffect, Refuse, Outcome
  <1>7. ASSUME NEW id
        PROVE  RollbackEffect(s, id).store.versions = s.versions
    BY <1>3 DEF RollbackEffect, Refuse, Outcome
  <1>8. ASSUME NEW id
        PROVE  PollEffect(s, id).store.versions = s.versions
    BY <1>3 DEF PollEffect, Refuse, Outcome
  <1> QED BY <1>4, <1>5, <1>6, <1>7, <1>8

\* What every request under a key owes its caller: the store stays sound and
\* keeps what it had, its versions included, the one key that may be new is
\* bound to the request, and an answer is the one recorded under the key.
Owed(s, key, request, outcome) ==
  /\ StoreSound(outcome.store)
  /\ DeploymentsSound(s) => DeploymentsSound(outcome.store)
  /\ StoreFollows(s, outcome.store)
  /\ outcome.store.versions = s.versions
  /\ Extends(s.idempotency, outcome.store.idempotency)
  /\ KeysFollow(s, key, request, outcome.store)
  /\ outcome.reply.code = "OK" =>
       Answered(outcome.store, key, request, outcome.reply)

\* Requests that go through the envelope answer what they record.
LEMMA OkThroughEnvelope ==
  ASSUME NEW s, IsMockState(s), NEW context \in MutationContexts,
         NEW request \in Requests, NEW effect, FitsEnvelope(s, effect),
         NEW outcome,
         \/ outcome = Gated(s, context.gate,
                            Idempotent(s, context.key, request, effect))
         \/ outcome.reply.code # "OK"
  PROVE  outcome.reply.code = "OK" =>
           Answered(outcome.store, context.key, request, outcome.reply)
  BY OkIsAnswered

LEMMA DraftOwed ==
  ASSUME NEW s, StoreSound(s), NEW context \in MutationContexts,
         NEW manifest \in Candidates
  PROVE  Owed(s, context.key, DraftRequest(manifest),
              createDraft(s, context, manifest))
  <1> DEFINE outcome == createDraft(s, context, manifest)
             t == outcome.store
             request == DraftRequest(manifest)
             effect == DraftEffect(s, context, manifest)
  <1>1. /\ IsMockState(s)
        /\ ReleasesCreatedOnce(s) /\ DeploymentsCreatedOnce(s)
        /\ AnswersSound(s)
    BY DEF StoreSound
  <1>2. /\ IsMockState(t)
        /\ t = s \/ Executed(s, context.key, request, effect, t)
    BY <1>1, DraftLeaves
  <1>3. /\ FitsEnvelope(s, effect)
        /\ effect.store.releases = s.releases
        /\ effect.store.deployments = s.deployments
        /\ effect.store.versions = s.versions
    BY <1>1, DraftFits, EffectsKeepVersions
  <1>4. request.operation = "createDraft" /\ request \in Requests
    BY DEF DraftRequest, Requests
  <1>5. outcome = Gated(s, context.gate,
                        Idempotent(s, context.key, request, effect))
    BY DEF createDraft
  <1>6. outcome.reply.code = "OK" =>
          Answered(t, context.key, request, outcome.reply)
    BY <1>1, <1>3, <1>4, <1>5, OkIsAnswered
  <1> HIDE DEF request, effect, outcome
  <1>7. /\ t.releases = s.releases /\ t.deployments = s.deployments
        /\ t.versions = s.versions
    BY <1>2, <1>3 DEF Executed
  <1>8. SameDeployments(s.deployments, t.deployments)
    BY <1>7 DEF SameDeployments
  <1>9. ReleasesCreatedOnce(t) /\ DeploymentsCreatedOnce(t)
    BY <1>1, <1>2, <1>4, <1>7, <1>8, CreatedBesides
  <1>10. KeysFollow(s, context.key, request, t)
    BY <1>2, <1>4, ExecutedKeys DEF KeysFollow
  <1>11. Extends(s.idempotency, t.idempotency)
    BY <1>2, ExecutedExtends DEF Extends
  <1>12. StoreSound(t)
    BY <1>1, <1>2, <1>9, <1>10, AnswersStay DEF StoreSound
  <1>13. StoreFollows(s, t)
    BY <1>7 DEF StoreFollows, Extends, Follows
  <1> QED BY <1>6, <1>7, <1>10, <1>11, <1>12, <1>13, SoundUnchanged
          DEF Owed, request, outcome

LEMMA ReleaseOwed ==
  ASSUME NEW s, StoreSound(s), NEW context \in MutationContexts,
         NEW candidate \in Candidates, NEW evidence \in SUBSET Evidence
  PROVE  Owed(s, context.key, ReleaseRequest(candidate, evidence),
              createReleaseCandidate(s, context, candidate, evidence))
  <1> DEFINE outcome == createReleaseCandidate(s, context, candidate, evidence)
             t == outcome.store
             request == ReleaseRequest(candidate, evidence)
             effect == ReleaseEffect(s, context, candidate, evidence)
  <1>1. IsMockState(s)
    BY DEF StoreSound
  <1>2. t = s \/ Executed(s, context.key, request, effect, t)
    BY <1>1, ReleaseLeaves
  <1>3. FitsEnvelope(s, effect) /\ effect.store.deployments = s.deployments
        /\ effect.store.versions = s.versions
    BY <1>1, ReleaseFits, ReleaseKeepsDeployments, EffectsKeepVersions
  <1>4. request \in Requests
    BY DEF ReleaseRequest, Requests
  <1>5. \/ outcome = Gated(s, context.gate,
                           Idempotent(s, context.key, request, effect))
        \/ outcome.reply.code # "OK"
    BY RefuseFacts DEF createReleaseCandidate, Gated
  <1>6. outcome.reply.code = "OK" =>
          Answered(t, context.key, request, outcome.reply)
    BY <1>1, <1>3, <1>4, <1>5, OkThroughEnvelope
  <1>7. /\ StoreSound(t) /\ StoreFollows(s, t)
        /\ KeysFollow(s, context.key, request, t)
    BY ReleasePromise
  <1> HIDE DEF request, effect, outcome
  <1>8. t.deployments = s.deployments /\ t.versions = s.versions
    BY <1>2, <1>3 DEF Executed
  <1>9. Extends(s.idempotency, t.idempotency)
    BY <1>2, ExecutedExtends DEF Extends
  <1> QED BY <1>6, <1>7, <1>8, <1>9, SoundUnchanged DEF Owed, request, outcome

LEMMA DeployOwed ==
  ASSUME NEW s, StoreSound(s), NEW context \in MutationContexts,
         NEW release \in Nat, NEW environment, NEW fixture
  PROVE  Owed(s, context.key, DeployRequest(release, environment),
              createDeployment(s, context, release, environment, fixture))
  <1> DEFINE outcome == createDeployment(s, context, release, environment,
                                         fixture)
             t == outcome.store
             request == DeployRequest(release, environment)
             effect == DeployEffect(s, release, environment, fixture)
  <1>1. /\ IsMockState(s)
        /\ ReleasesCreatedOnce(s) /\ DeploymentsCreatedOnce(s)
        /\ AnswersSound(s)
    BY DEF StoreSound
  <1>2. CASE environment \notin Environments
    <2>1. outcome.reply.code # "OK" /\ t = s
      BY <1>2, RefuseFacts DEF createDeployment, Gated
    <2> HIDE DEF outcome
    <2> QED BY <2>1, FollowsSelf DEF Owed, KeysFollow, Extends, outcome
  <1>3. CASE environment \in Environments
    <2>1. FitsEnvelope(s, effect)
          /\ AddsDeployment(s, release, environment, fixture, effect)
      BY <1>1, <1>3, DeployFits
    <2>2. request \in Requests
      BY <1>3 DEF DeployRequest, Requests
    <2>3. outcome = Gated(s, context.gate,
                          Idempotent(s, context.key, request, effect))
      BY <1>3 DEF createDeployment
    <2>4. outcome.reply.code = "OK" =>
            Answered(t, context.key, request, outcome.reply)
      BY <1>1, <2>1, <2>2, <2>3, OkIsAnswered
    <2>5. /\ IsMockState(t)
          /\ t = s \/ Executed(s, context.key, request, effect, t)
      BY <1>1, DeployLeaves
    <2>6. CASE t = s
      <3> HIDE DEF outcome
      <3> QED BY <2>4, <2>6, FollowsSelf DEF Owed, KeysFollow, Extends, outcome
    <2>7. CASE Executed(s, context.key, request, effect, t)
      <3>1. ReleasesCreatedOnce(t) /\ DeploymentsCreatedOnce(t)
        BY <1>1, <1>3, <2>7, CreatedDeployment
      <3>2. effect.reply.state = "QUEUED" /\ effect.store.versions = s.versions
        BY <1>1, <2>7, RefuseFacts, EffectsKeepVersions
           DEF Executed, DeployEffect, Outcome, Reply
      <3> DEFINE new == [release |-> release, environment |-> environment,
                         state |-> "QUEUED",
                         target |-> RollbackTarget(s, environment),
                         plan |-> PlanFor(fixture), planIndex |-> 0]
      <3> HIDE DEF effect, request, outcome
      <3>3. KeysFollow(s, context.key, request, t)
        BY <2>7, <3>2, ExecutedKeys
      <3>4. /\ t.releases = s.releases /\ t.versions = s.versions
            /\ t.deployments = Append(s.deployments, new)
        BY <2>1, <2>7, <3>2 DEF Executed, AddsDeployment
      <3>5. s.deployments \in Seq(StoredDeployments)
        BY <1>1 DEF IsMockState
      <3>6. DeploymentsSound(s) => DeploymentsSound(t)
        BY <1>1, <1>3, <3>4, SoundDeploy
      <3> HIDE DEF new
      <3>7. Extends(s.deployments, t.deployments)
        BY <3>4, <3>5 DEF Extends
      <3>8. StoreFollows(s, t)
        BY <3>4, <3>7 DEF StoreFollows, Follows, Extends
      <3>9. Extends(s.idempotency, t.idempotency)
        BY <2>7, ExecutedExtends
      <3>10. StoreSound(t)
        BY <1>1, <2>5, <3>1, <3>3, AnswersStay DEF StoreSound
      <3> QED BY <2>4, <3>3, <3>4, <3>6, <3>8, <3>9, <3>10 DEF Owed, request, outcome
    <2> QED BY <2>5, <2>6, <2>7
  <1> QED BY <1>2, <1>3

LEMMA RollbackOwed ==
  ASSUME NEW s, StoreSound(s), NEW context \in MutationContexts,
         NEW id \in Nat, NEW reason \in Reasons \cup {Blank}
  PROVE  Owed(s, context.key, RollbackRequest(id, reason),
              rollbackDeployment(s, context, id, reason))
  <1> DEFINE outcome == rollbackDeployment(s, context, id, reason)
             t == outcome.store
             request == RollbackRequest(id, reason)
             effect == RollbackEffect(s, id)
  <1>1. /\ IsMockState(s)
        /\ ReleasesCreatedOnce(s) /\ DeploymentsCreatedOnce(s)
        /\ AnswersSound(s)
    BY DEF StoreSound
  <1>2. /\ IsMockState(t)
        /\ t = s \/ Executed(s, context.key, request, effect, t)
    BY <1>1, RollbackLeaves
  <1>3. outcome.reply.code = "OK" =>
          Answered(t, context.key, request, outcome.reply)
    <2>1. CASE reason = Blank
      BY <2>1, RefuseFacts DEF rollbackDeployment, Gated
    <2>2. CASE reason # Blank
      <3>1. request \in Requests
        BY <2>2 DEF RollbackRequest, Requests
      <3>2. outcome = Gated(s, context.gate,
                            Idempotent(s, context.key, request, effect))
        BY <2>2 DEF rollbackDeployment
      <3>3. FitsEnvelope(s, effect)
        BY <1>1, RollbackFits
      <3> QED BY <1>1, <3>1, <3>2, <3>3, OkIsAnswered
    <2> QED BY <2>1, <2>2
  <1>4. CASE t = s
    <2> HIDE DEF outcome
    <2> QED BY <1>3, <1>4, FollowsSelf DEF Owed, KeysFollow, Extends, outcome
  <1>5. CASE Executed(s, context.key, request, effect, t)
    <2>1. /\ t.releases = s.releases
          /\ id \in DOMAIN s.deployments
          /\ s.deployments[id].state \in {"HEALTHY", "FAILED"}
          /\ t.deployments = [s.deployments EXCEPT ![id] =
               [@ EXCEPT !.state = "ROLLING_BACK",
                         !.plan = <<"ROLLED_BACK">>,
                         !.planIndex = 0]]
      BY <1>1, <1>5, RollbackFits DEF Executed
    <2>2. /\ request.operation = "rollbackDeployment"
          /\ t.versions = s.versions
      BY <1>1, <1>5, EffectsKeepVersions DEF RollbackRequest, Executed
    <2>3. /\ SameDeployments(s.deployments, t.deployments)
          /\ Follows(s.deployments, t.deployments)
      BY <1>1, <2>1, RollbackKeeps, RollbackFollows
    <2>4. DeploymentsSound(s) => DeploymentsSound(t)
      BY <1>1, <2>1, SoundRollback
    <2> HIDE DEF effect, request, outcome
    <2>5. ReleasesCreatedOnce(t) /\ DeploymentsCreatedOnce(t)
      BY <1>1, <1>5, <2>1, <2>2, <2>3, CreatedBesides
    <2>6. KeysFollow(s, context.key, request, t)
      BY <1>5, <2>2, ExecutedKeys
    <2>7. Extends(s.idempotency, t.idempotency)
      BY <1>5, ExecutedExtends
    <2>8. StoreFollows(s, t)
      BY <2>1, <2>3 DEF StoreFollows, Extends, SameDeployments
    <2>9. StoreSound(t)
      BY <1>1, <1>2, <2>5, <2>6, AnswersStay DEF StoreSound
    <2> QED BY <1>3, <2>2, <2>4, <2>6, <2>7, <2>8, <2>9 DEF Owed, request, outcome
  <1> QED BY <1>2, <1>4, <1>5

\* A poll, which has no key, keeps a sound store sound.
LEMMA PollKeepsSound ==
  ASSUME NEW s, StoreSound(s), DeploymentsSound(s), NEW gate, NEW id \in Nat
  PROVE  DeploymentsSound(getDeployment(s, gate, id).store)
  <1>1. IsMockState(s)
    BY DEF StoreSound
  <1> QED BY <1>1, PollLeaves, SoundPoll

\* So does a new version.
LEMMA VersionsSound ==
  ASSUME NEW s, StoreSound(s), DeploymentsSound(s), NEW bundle \in Bundles,
         NEW t, t \in {Seed(s, bundle), Advance(s, bundle)}
  PROVE  DeploymentsSound(t)
  <1>1. IsMockState(s) /\ s.versions \in Seq(Bundles)
    BY DEF StoreSound, IsMockState
  <1>2. Append(s.versions, bundle) \in Seq(Bundles) /\ <<bundle>> \in Seq(Bundles)
    BY <1>1
  <1>3. PICK new \in Seq(Bundles) : t = [s EXCEPT !.versions = new]
    BY <1>2 DEF Seed, Advance
  <1>4. t.deployments = s.deployments
    BY <1>1, <1>3, NewVersions
  <1> QED BY <1>4, SoundUnchanged
=============================================================================
