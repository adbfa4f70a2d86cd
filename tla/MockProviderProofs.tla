------------------------ MODULE MockProviderProofs ------------------------
(***************************************************************************)
(* Theorems about the management provider.  First about MockProvider, for  *)
(* any set of keys, candidates and contexts and without bounds on the      *)
(* counters, with one step per action: what the action's handler makes of  *)
(* the store is a lemma of ProviderStateProofs.  Then about Listings, for  *)
(* any catalogue and any limits: a page is a window of the ordered list,   *)
(* and an item's place in the order (its rank) tells on which side of the  *)
(* cursor it is.                                                           *)
(***************************************************************************)
EXTENDS MockProvider, Listings, ProviderStateProofs, FiniteSetTheorems,
        FunctionTheorems, SequenceTheorems

-----------------------------------------------------------------------------
(* The specification keeps the store typed *)

\* Whatever the callers do, state.json keeps its shape.
THEOREM TypeCorrect == Spec => []TypeOK
  <1>1. Init => TypeOK
    BY EmptyTyped DEF Init, TypeOK
  <1>2. TypeOK /\ [Next]_vars => TypeOK'
    <2> SUFFICES ASSUME TypeOK, [Next]_vars PROVE TypeOK'
      OBVIOUS
    <2> USE DEF TypeOK, Update
    <2>0. Len(store.releases) \in Nat /\ Len(store.deployments) \in Nat
      <3>1. /\ store.releases \in Seq(Releases)
            /\ store.deployments \in Seq(StoredDeployments)
        BY DEF IsMockState
      <3> QED BY <3>1
    <2>1. CASE SeedFromFixture
      <3>1. PICK bundle \in Bundles : store' = Seed(store, bundle)
        BY <2>1 DEF SeedFromFixture
      <3>2. <<bundle>> \in Seq(Bundles)
        OBVIOUS
      <3> QED BY <3>1, <3>2, NewVersions DEF Seed
    <2>2. CASE AdvanceVersion
      <3>1. PICK bundle \in Bundles : store' = Advance(store, bundle)
        BY <2>2 DEF AdvanceVersion
      <3>2. store.versions \in Seq(Bundles)
        BY DEF IsMockState
      <3>3. Append(store.versions, bundle) \in Seq(Bundles)
        BY <3>2
      <3> QED BY <3>1, <3>3, NewVersions DEF Advance
    <2>3. CASE CreateDraft
      BY ContextsAreContexts, <2>3, DraftLeaves DEF CreateDraft
    <2>4. CASE CreateReleaseCandidate
      BY ContextsAreContexts, <2>4, ReleaseLeaves DEF CreateReleaseCandidate
    <2>5. CASE CreateDeployment
      <3>1. 1 .. Len(store.releases) + 1 \subseteq Nat
        BY <2>0
      <3> QED BY ContextsAreContexts, <2>5, <3>1, DeployLeaves
              DEF CreateDeployment
    <2>6. CASE GetDeployment
      <3>1. 1 .. Len(store.deployments) + 1 \subseteq Nat
        BY <2>0
      <3> QED BY <2>6, <3>1, PollLeaves DEF GetDeployment, Poll
    <2>7. CASE RollbackDeployment
      <3>1. 1 .. Len(store.deployments) + 1 \subseteq Nat
        BY <2>0
      <3> QED BY ContextsAreContexts, <2>7, <3>1, RollbackLeaves
              DEF RollbackDeployment
    <2>8. CASE UNCHANGED vars
      BY <2>8 DEF vars
    <2> QED BY <2>1, <2>2, <2>3, <2>4, <2>5, <2>6, <2>7, <2>8 DEF Next
  <1> QED BY <1>1, <1>2, PTL DEF Spec

-----------------------------------------------------------------------------
(* Deployments *)

\* Every step keeps a sound store sound.
LEMMA SoundStep ==
  ASSUME TypeOK, DeploymentsSound(store), [Next]_vars
  PROVE  DeploymentsSound(store')
  <1> USE DEF TypeOK, Update
  <1>0. Len(store.releases) \in Nat /\ Len(store.deployments) \in Nat
    <2>1. /\ store.releases \in Seq(Releases)
          /\ store.deployments \in Seq(StoredDeployments)
      BY DEF IsMockState
    <2> QED BY <2>1
  <1>1. CASE SeedFromFixture
    <2>1. PICK bundle \in Bundles : store' = Seed(store, bundle)
      BY <1>1 DEF SeedFromFixture
    <2>2. <<bundle>> \in Seq(Bundles)
      OBVIOUS
    <2>3. store'.deployments = store.deployments
      BY <2>1, <2>2, NewVersions DEF Seed
    <2> QED BY <2>3, SoundUnchanged
  <1>2. CASE AdvanceVersion
    <2>1. PICK bundle \in Bundles : store' = Advance(store, bundle)
      BY <1>2 DEF AdvanceVersion
    <2>2. store.versions \in Seq(Bundles)
      BY DEF IsMockState
    <2>3. Append(store.versions, bundle) \in Seq(Bundles)
      BY <2>2
    <2>4. store'.deployments = store.deployments
      BY <2>1, <2>3, NewVersions DEF Advance
    <2> QED BY <2>4, SoundUnchanged
  <1>3. CASE CreateDraft
    <2>1. PICK context \in MutationContexts, manifest \in Candidates :
            store' = createDraft(store, context, manifest).store
      BY ContextsAreContexts, <1>3 DEF CreateDraft
    <2> DEFINE effect == DraftEffect(store, context, manifest)
    <2>2. store'.deployments = store.deployments
      <3>1. \/ store' = store
            \/ Executed(store, context.key, DraftRequest(manifest), effect,
                        store')
        BY <2>1, DraftLeaves
      <3>2. effect.store.deployments = store.deployments
        BY DraftFits
      <3> HIDE DEF effect
      <3> QED BY <3>1, <3>2 DEF Executed
    <2> QED BY <2>2, SoundUnchanged
  <1>4. CASE CreateReleaseCandidate
    <2>1. PICK context \in MutationContexts, candidate \in Candidates,
               evidence \in SUBSET Evidence :
            store' = createReleaseCandidate(store, context, candidate,
                                            evidence).store
      BY ContextsAreContexts, <1>4 DEF CreateReleaseCandidate
    <2> DEFINE effect == ReleaseEffect(store, context, candidate, evidence)
    <2>2. store'.deployments = store.deployments
      <3>1. \/ store' = store
            \/ Executed(store, context.key, ReleaseRequest(candidate, evidence),
                        effect, store')
        BY <2>1, ReleaseLeaves
      <3>2. effect.store.deployments = store.deployments
        BY ReleaseKeepsDeployments
      <3> HIDE DEF effect
      <3> QED BY <3>1, <3>2 DEF Executed
    <2> QED BY <2>2, SoundUnchanged
  <1>5. CASE CreateDeployment
    <2>1. 1 .. Len(store.releases) + 1 \subseteq Nat
      BY <1>0
    <2>2. PICK context \in MutationContexts, release \in Nat,
               environment \in Environments \cup {"production"},
               outcome \in {"healthy", "failed"} :
            store' = createDeployment(store, context, release, environment,
                                      outcome).store
      BY ContextsAreContexts, <1>5, <2>1 DEF CreateDeployment
    <2>3. CASE store' = store
      BY <2>3, SoundUnchanged
    <2>4. CASE store' # store
      <3>1. /\ environment \in Environments
            /\ Executed(store, context.key, DeployRequest(release, environment),
                        DeployEffect(store, release, environment, outcome),
                        store')
        BY <2>2, <2>4, DeployLeaves
      <3>2. store'.deployments = Append(store.deployments,
              [release |-> release, environment |-> environment,
               state |-> "QUEUED", target |-> RollbackTarget(store, environment),
               plan |-> PlanFor(outcome), planIndex |-> 0])
        BY <3>1, DeployFits DEF Executed, AddsDeployment
      <3> QED BY <3>1, <3>2, SoundDeploy
    <2> QED BY <2>3, <2>4
  <1>6. CASE GetDeployment
    <2>1. 1 .. Len(store.deployments) + 1 \subseteq Nat
      BY <1>0
    <2>2. PICK id \in Nat, gate \in Gates :
            store' = getDeployment(store, gate, id).store
      BY <1>6, <2>1 DEF GetDeployment, Poll
    <2>3. \/ store' = store
          \/ /\ id \in DOMAIN store.deployments
             /\ StepIsDue(store.deployments[id])
             /\ store'.deployments = Polled(store, id)
      BY <2>2, PollLeaves
    <2> QED BY <2>3, SoundUnchanged, SoundPoll
  <1>7. CASE RollbackDeployment
    <2>1. 1 .. Len(store.deployments) + 1 \subseteq Nat
      BY <1>0
    <2>2. PICK context \in MutationContexts, id \in Nat,
               reason \in Reasons \cup {Blank} :
            store' = rollbackDeployment(store, context, id, reason).store
      BY ContextsAreContexts, <1>7, <2>1 DEF RollbackDeployment
    <2>3. CASE store' = store
      BY <2>3, SoundUnchanged
    <2>4. CASE store' # store
      <3>1. Executed(store, context.key, RollbackRequest(id, reason),
                     RollbackEffect(store, id), store')
        BY <2>2, <2>4, RollbackLeaves
      <3>2. /\ id \in DOMAIN store.deployments
            /\ store'.deployments = [store.deployments EXCEPT ![id] =
                 [@ EXCEPT !.state = "ROLLING_BACK",
                           !.plan = <<"ROLLED_BACK">>,
                           !.planIndex = 0]]
        BY <3>1, RollbackFits DEF Executed
      <3> QED BY <3>2, SoundRollback
    <2> QED BY <2>3, <2>4
  <1>8. CASE UNCHANGED vars
    BY <1>8, SoundUnchanged DEF vars
  <1> QED BY <1>1, <1>2, <1>3, <1>4, <1>5, <1>6, <1>7, <1>8 DEF Next

LEMMA AlwaysSound == Spec => [](TypeOK /\ DeploymentsSound(store))
  <1>1. Init => DeploymentsSound(store)
    BY DEF Init, emptyState, DeploymentsSound, OneHealthy, PlansAgree,
           TargetsSound
  <1>2. TypeOK /\ DeploymentsSound(store) /\ [Next]_vars
          => DeploymentsSound(store)'
    BY SoundStep
  <1> QED BY <1>1, <1>2, TypeCorrect, PTL DEF Spec

\* However many deployments of an environment are polled, in whatever order, at
\* most one of them is HEALTHY.
THEOREM OneHealthyAlways == Spec => []OneHealthyPerEnvironment
  <1>1. DeploymentsSound(store) => OneHealthyPerEnvironment
    BY DEF DeploymentsSound, OneHealthyPerEnvironment
  <1> QED BY <1>1, AlwaysSound, PTL

\* A deployment has a step due exactly while it is in flight, also after a
\* rollback replaced its plan.
THEOREM PlansInStepAlways == Spec => []PlansInStep
  <1>1. DeploymentsSound(store) => PlansInStep
    BY DEF DeploymentsSound, PlansInStep
  <1> QED BY <1>1, AlwaysSound, PTL

\* A rollback target is an older deployment of the environment that has been
\* HEALTHY or was rolled back since, for ever after.
THEOREM TargetsSoundAlways == Spec => []RollbackTargetsSound
  <1>1. DeploymentsSound(store) => RollbackTargetsSound
    BY DEF DeploymentsSound, RollbackTargetsSound
  <1> QED BY <1>1, AlwaysSound, PTL

-----------------------------------------------------------------------------
(* History *)

LEMMA HistoryStep ==
  ASSUME TypeOK, Next
  PROVE  /\ Extends(store.releases, store'.releases)
         /\ Extends(store.idempotency, store'.idempotency)
         /\ Follows(store.deployments, store'.deployments)
  <1> USE DEF TypeOK, Update
  <1>0. /\ Len(store.releases) \in Nat /\ Len(store.deployments) \in Nat
        /\ store.releases \in Seq(Releases)
        /\ store.deployments \in Seq(StoredDeployments)
    <2>1. /\ store.releases \in Seq(Releases)
          /\ store.deployments \in Seq(StoredDeployments)
      BY DEF IsMockState
    <2> QED BY <2>1
  <1>a. \A x, y : x = y => Extends(x, y) /\ Follows(x, y)
    BY DEF Extends, Follows
  <1>1. CASE SeedFromFixture
    <2>1. PICK bundle \in Bundles : store' = Seed(store, bundle)
      BY <1>1 DEF SeedFromFixture
    <2>2. <<bundle>> \in Seq(Bundles)
      OBVIOUS
    <2> QED BY <2>1, <2>2, <1>a, NewVersions DEF Seed
  <1>2. CASE AdvanceVersion
    <2>1. PICK bundle \in Bundles : store' = Advance(store, bundle)
      BY <1>2 DEF AdvanceVersion
    <2>2. store.versions \in Seq(Bundles)
      BY DEF IsMockState
    <2>3. Append(store.versions, bundle) \in Seq(Bundles)
      BY <2>2
    <2> QED BY <2>1, <2>3, <1>a, NewVersions DEF Advance
  <1>3. CASE CreateDraft
    <2>1. PICK context \in MutationContexts, manifest \in Candidates :
            store' = createDraft(store, context, manifest).store
      BY ContextsAreContexts, <1>3 DEF CreateDraft
    <2> DEFINE effect == DraftEffect(store, context, manifest)
    <2>2. \/ store' = store
          \/ Executed(store, context.key, DraftRequest(manifest), effect, store')
      BY <2>1, DraftLeaves
    <2>3. /\ effect.store.releases = store.releases
          /\ effect.store.deployments = store.deployments
      BY DraftFits
    <2> HIDE DEF effect
    <2> QED BY <2>2, <2>3, <1>a, ExecutedExtends DEF Executed
  <1>4. CASE CreateReleaseCandidate
    <2>1. PICK context \in MutationContexts, candidate \in Candidates,
               evidence \in SUBSET Evidence :
            store' = createReleaseCandidate(store, context, candidate,
                                            evidence).store
      BY ContextsAreContexts, <1>4 DEF CreateReleaseCandidate
    <2> DEFINE effect == ReleaseEffect(store, context, candidate, evidence)
    <2>2. \/ store' = store
          \/ Executed(store, context.key, ReleaseRequest(candidate, evidence),
                      effect, store')
      BY <2>1, ReleaseLeaves
    <2>3. effect.store.deployments = store.deployments
      BY ReleaseKeepsDeployments
    <2>4. effect.reply.code = "OK"
            => Extends(store.releases, effect.store.releases)
      BY ReleaseExtends
    <2> HIDE DEF effect
    <2> QED BY <2>2, <2>3, <2>4, <1>a, ExecutedExtends DEF Executed
  <1>5. CASE CreateDeployment
    <2>1. 1 .. Len(store.releases) + 1 \subseteq Nat
      BY <1>0
    <2>2. PICK context \in MutationContexts, release \in Nat,
               environment \in Environments \cup {"production"},
               outcome \in {"healthy", "failed"} :
            store' = createDeployment(store, context, release, environment,
                                      outcome).store
      BY ContextsAreContexts, <1>5, <2>1 DEF CreateDeployment
    <2> DEFINE effect == DeployEffect(store, release, environment, outcome)
    <2>3. CASE store' = store
      BY <2>3, <1>a
    <2>4. CASE store' # store
      <3>1. /\ environment \in Environments
            /\ Executed(store, context.key, DeployRequest(release, environment),
                        effect, store')
        BY <2>2, <2>4, DeployLeaves
      <3>2. effect.store.releases = store.releases
        BY <3>1, DeployKeepsReleases
      <3>5. effect.store.deployments
              = Append(store.deployments,
                  [release |-> release, environment |-> environment,
                   state |-> "QUEUED",
                   target |-> RollbackTarget(store, environment),
                   plan |-> PlanFor(outcome), planIndex |-> 0])
        BY <3>1, DeployFits DEF Executed, AddsDeployment
      <3> HIDE DEF effect
      <3>3. /\ store'.releases = store.releases
            /\ \E x : store'.deployments = Append(store.deployments, x)
        BY <3>1, <3>2, <3>5 DEF Executed
      <3>4. Follows(store.deployments, store'.deployments)
        BY <3>3, <1>0 DEF Follows
      <3> QED BY <3>1, <3>3, <3>4, <1>a, ExecutedExtends
    <2> QED BY <2>3, <2>4
  <1>6. CASE GetDeployment
    <2>1. 1 .. Len(store.deployments) + 1 \subseteq Nat
      BY <1>0
    <2>2. PICK id \in Nat, gate \in Gates :
            store' = getDeployment(store, gate, id).store
      BY <1>6, <2>1 DEF GetDeployment, Poll
    <2>3. /\ store'.releases = store.releases
          /\ store'.idempotency = store.idempotency
          /\ \/ store' = store
             \/ /\ id \in DOMAIN store.deployments
                /\ StepIsDue(store.deployments[id])
                /\ store'.deployments = Polled(store, id)
      BY <2>2, PollLeaves
    <2> QED BY <2>3, <1>a, PollFollows
  <1>7. CASE RollbackDeployment
    <2>1. 1 .. Len(store.deployments) + 1 \subseteq Nat
      BY <1>0
    <2>2. PICK context \in MutationContexts, id \in Nat,
               reason \in Reasons \cup {Blank} :
            store' = rollbackDeployment(store, context, id, reason).store
      BY ContextsAreContexts, <1>7, <2>1 DEF RollbackDeployment
    <2> DEFINE effect == RollbackEffect(store, id)
    <2>3. CASE store' = store
      BY <2>3, <1>a
    <2>4. CASE store' # store
      <3>1. Executed(store, context.key, RollbackRequest(id, reason), effect,
                     store')
        BY <2>2, <2>4, RollbackLeaves
      <3>2. /\ store'.releases = store.releases
            /\ id \in DOMAIN store.deployments
            /\ store.deployments[id].state \in {"HEALTHY", "FAILED"}
            /\ store'.deployments = [store.deployments EXCEPT ![id] =
                 [@ EXCEPT !.state = "ROLLING_BACK",
                           !.plan = <<"ROLLED_BACK">>,
                           !.planIndex = 0]]
        BY <3>1, RollbackFits DEF Executed
      <3>3. Follows(store.deployments, store'.deployments)
        BY <3>2, RollbackFollows
      <3> HIDE DEF effect
      <3> QED BY <3>1, <3>2, <3>3, <1>a, ExecutedExtends
    <2> QED BY <2>3, <2>4
  <1> QED BY <1>1, <1>2, <1>3, <1>4, <1>5, <1>6, <1>7 DEF Next

\* No request and no poll rewrites history: releases and idempotency records are
\* only added to, and every deployment, superseded ones included, moves only
\* along the lifecycle table.
THEOREM HistoryGrows == Spec => HistoryOnlyGrows
  <1>1. TypeOK /\ [Next]_vars => [NothingForgotten /\ StatesFollowTable]_vars
    <2> SUFFICES ASSUME TypeOK, Next
                 PROVE  NothingForgotten /\ StatesFollowTable
      OBVIOUS
    <2> QED BY HistoryStep DEF Extends, Follows, NothingForgotten,
               StatesFollowTable
  <1> QED BY <1>1, TypeCorrect, PTL DEF Spec, HistoryOnlyGrows

-----------------------------------------------------------------------------
(* Every object was created once, under one key *)

\* Every step keeps every object bound to the one key that created it.
LEMMA CreatedStep ==
  ASSUME TypeOK, CreatedOnce, [Next]_vars
  PROVE  CreatedOnce'
  <1> USE DEF TypeOK, CreatedOnce, Update
  <1>0. Len(store.releases) \in Nat /\ Len(store.deployments) \in Nat
    <2>1. /\ store.releases \in Seq(Releases)
          /\ store.deployments \in Seq(StoredDeployments)
      BY DEF IsMockState
    <2> QED BY <2>1
  <1>a. \A d : SameDeployments(d, d)
    BY DEF SameDeployments
  <1>1. CASE SeedFromFixture
    <2>1. PICK bundle \in Bundles : store' = Seed(store, bundle)
      BY <1>1 DEF SeedFromFixture
    <2>2. <<bundle>> \in Seq(Bundles)
      OBVIOUS
    <2>3. /\ store'.releases = store.releases
          /\ store'.deployments = store.deployments
          /\ store'.idempotency = store.idempotency
      BY <2>1, <2>2, NewVersions DEF Seed
    <2> QED BY <2>3, CreatedUnchanged
  <1>2. CASE AdvanceVersion
    <2>1. PICK bundle \in Bundles : store' = Advance(store, bundle)
      BY <1>2 DEF AdvanceVersion
    <2>2. store.versions \in Seq(Bundles)
      BY DEF IsMockState
    <2>3. Append(store.versions, bundle) \in Seq(Bundles)
      BY <2>2
    <2>4. /\ store'.releases = store.releases
          /\ store'.deployments = store.deployments
          /\ store'.idempotency = store.idempotency
      BY <2>1, <2>3, NewVersions DEF Advance
    <2> QED BY <2>4, CreatedUnchanged
  <1>3. CASE CreateDraft
    <2>1. PICK context \in MutationContexts, manifest \in Candidates :
            store' = createDraft(store, context, manifest).store
      BY ContextsAreContexts, <1>3 DEF CreateDraft
    <2> DEFINE effect == DraftEffect(store, context, manifest)
               request == DraftRequest(manifest)
    <2>2. \/ store' = store
          \/ Executed(store, context.key, request, effect, store')
      BY <2>1, DraftLeaves
    <2>3. /\ effect.store.releases = store.releases
          /\ effect.store.deployments = store.deployments
          /\ request.operation = "createDraft"
      BY DraftFits DEF DraftRequest
    <2> HIDE DEF effect, request
    <2>4. CASE store' = store
      BY <2>4, CreatedUnchanged
    <2>5. CASE Executed(store, context.key, request, effect, store')
      <3>1. /\ store'.releases = store.releases
            /\ store'.deployments = store.deployments
        BY <2>3, <2>5 DEF Executed
      <3> QED BY <2>3, <2>5, <3>1, <1>a, CreatedBesides
    <2> QED BY <2>2, <2>4, <2>5
  <1>4. CASE CreateReleaseCandidate
    <2>1. PICK context \in MutationContexts, candidate \in Candidates,
               evidence \in SUBSET Evidence :
            store' = createReleaseCandidate(store, context, candidate,
                                            evidence).store
      BY ContextsAreContexts, <1>4 DEF CreateReleaseCandidate
    <2>2. \/ store' = store
          \/ Executed(store, context.key, ReleaseRequest(candidate, evidence),
                      ReleaseEffect(store, context, candidate, evidence),
                      store')
      BY <2>1, ReleaseLeaves
    <2> QED BY <2>2, CreatedUnchanged, CreatedRelease
  <1>5. CASE CreateDeployment
    <2>1. 1 .. Len(store.releases) + 1 \subseteq Nat
      BY <1>0
    <2>2. PICK context \in MutationContexts, release \in Nat,
               environment \in Environments \cup {"production"},
               outcome \in {"healthy", "failed"} :
            store' = createDeployment(store, context, release, environment,
                                      outcome).store
      BY ContextsAreContexts, <1>5, <2>1 DEF CreateDeployment
    <2>3. \/ store' = store
          \/ /\ environment \in Environments
             /\ Executed(store, context.key, DeployRequest(release, environment),
                         DeployEffect(store, release, environment, outcome),
                         store')
      BY <2>2, DeployLeaves
    <2> QED BY <2>3, CreatedUnchanged, CreatedDeployment
  <1>6. CASE GetDeployment
    <2>1. 1 .. Len(store.deployments) + 1 \subseteq Nat
      BY <1>0
    <2>2. PICK id \in Nat, gate \in Gates :
            store' = getDeployment(store, gate, id).store
      BY <1>6, <2>1 DEF GetDeployment, Poll
    <2>3. /\ store'.releases = store.releases
          /\ store'.idempotency = store.idempotency
          /\ \/ store' = store
             \/ /\ id \in DOMAIN store.deployments
                /\ StepIsDue(store.deployments[id])
                /\ store'.deployments = Polled(store, id)
      BY <2>2, PollLeaves
    <2>4. SameDeployments(store.deployments, store'.deployments)
      BY <2>3, <1>a, PolledFacts DEF SameDeployments
    <2> QED BY <2>3, <2>4, ReleasesOnceKept, DeploymentsOnceKept
  <1>7. CASE RollbackDeployment
    <2>1. 1 .. Len(store.deployments) + 1 \subseteq Nat
      BY <1>0
    <2>2. PICK context \in MutationContexts, id \in Nat,
               reason \in Reasons \cup {Blank} :
            store' = rollbackDeployment(store, context, id, reason).store
      BY ContextsAreContexts, <1>7, <2>1 DEF RollbackDeployment
    <2> DEFINE effect == RollbackEffect(store, id)
               request == RollbackRequest(id, reason)
    <2>3. CASE store' = store
      BY <2>3, CreatedUnchanged
    <2>4. CASE store' # store
      <3>1. Executed(store, context.key, request, effect, store')
        BY <2>2, <2>4, RollbackLeaves
      <3>2. /\ store'.releases = store.releases
            /\ id \in DOMAIN store.deployments
            /\ store'.deployments = [store.deployments EXCEPT ![id] =
                 [@ EXCEPT !.state = "ROLLING_BACK",
                           !.plan = <<"ROLLED_BACK">>,
                           !.planIndex = 0]]
        BY <3>1, RollbackFits DEF Executed
      <3>3. SameDeployments(store.deployments, store'.deployments)
        BY <3>2, RollbackKeeps
      <3>4. request.operation = "rollbackDeployment"
        BY DEF RollbackRequest
      <3> HIDE DEF effect, request
      <3> QED BY <3>1, <3>2, <3>3, <3>4, CreatedBesides
    <2> QED BY <2>3, <2>4
  <1>8. CASE UNCHANGED vars
    BY <1>8, CreatedUnchanged DEF vars
  <1> QED BY <1>1, <1>2, <1>3, <1>4, <1>5, <1>6, <1>7, <1>8 DEF Next

\* However often a request is sent again, under whichever keys: every release
\* and every deployment answers to exactly one key, the one whose request it is.
THEOREM CreatedOnceAlways == Spec => []CreatedOnce
  <1>1. Init => CreatedOnce
    BY DEF Init, emptyState, CreatedOnce, ReleasesCreatedOnce,
           DeploymentsCreatedOnce, Created
  <1>2. TypeOK /\ CreatedOnce /\ [Next]_vars => CreatedOnce'
    BY CreatedStep
  <1> QED BY <1>1, <1>2, TypeCorrect, PTL DEF Spec

-----------------------------------------------------------------------------
(* Releases are made at the version the agent has *)

\* The one action that adds a release.
LEMMA OnlyReleasesAdd ==
  ASSUME TypeOK, Next, store'.releases # store.releases
  PROVE  \E candidate :
           store'.releases
             = Append(store.releases, [candidate |-> candidate,
                                       base |-> Current(store)])
  <1> USE DEF TypeOK, Update
  <1>0. Len(store.releases) \in Nat /\ Len(store.deployments) \in Nat
    <2>1. /\ store.releases \in Seq(Releases)
          /\ store.deployments \in Seq(StoredDeployments)
      BY DEF IsMockState
    <2> QED BY <2>1
  <1>1. ~SeedFromFixture
    <2> SUFFICES ASSUME NEW bundle \in Bundles, store' = Seed(store, bundle)
                 PROVE  FALSE
      BY DEF SeedFromFixture
    <2>1. <<bundle>> \in Seq(Bundles)
      OBVIOUS
    <2> QED BY <2>1, NewVersions DEF Seed
  <1>2. ~AdvanceVersion
    <2> SUFFICES ASSUME NEW bundle \in Bundles, store' = Advance(store, bundle)
                 PROVE  FALSE
      BY DEF AdvanceVersion
    <2>1. store.versions \in Seq(Bundles)
      BY DEF IsMockState
    <2>2. Append(store.versions, bundle) \in Seq(Bundles)
      BY <2>1
    <2> QED BY <2>2, NewVersions DEF Advance
  <1>3. ~CreateDraft
    <2> SUFFICES ASSUME NEW context \in MutationContexts,
                        NEW manifest \in Candidates,
                        store' = createDraft(store, context, manifest).store
                 PROVE  FALSE
      BY ContextsAreContexts DEF CreateDraft
    <2>1. Executed(store, context.key, DraftRequest(manifest),
                   DraftEffect(store, context, manifest), store')
      BY DraftLeaves
    <2> QED BY <2>1, DraftFits DEF Executed
  <1>4. ~CreateDeployment
    <2>1. 1 .. Len(store.releases) + 1 \subseteq Nat
      BY <1>0
    <2> SUFFICES ASSUME NEW context \in MutationContexts, NEW release \in Nat,
                        NEW environment \in Environments \cup {"production"},
                        NEW outcome \in {"healthy", "failed"},
                        store' = createDeployment(store, context, release,
                                                  environment, outcome).store
                 PROVE  FALSE
      BY ContextsAreContexts, <2>1 DEF CreateDeployment
    <2>2. /\ environment \in Environments
          /\ Executed(store, context.key, DeployRequest(release, environment),
                      DeployEffect(store, release, environment, outcome),
                      store')
      BY DeployLeaves
    <2> QED BY <2>2, DeployKeepsReleases DEF Executed
  <1>5. ~GetDeployment
    <2>1. 1 .. Len(store.deployments) + 1 \subseteq Nat
      BY <1>0
    <2> SUFFICES ASSUME NEW id \in Nat, NEW gate \in Gates,
                        store' = getDeployment(store, gate, id).store
                 PROVE  FALSE
      BY <2>1 DEF GetDeployment, Poll
    <2> QED BY PollLeaves
  <1>6. ~RollbackDeployment
    <2>1. 1 .. Len(store.deployments) + 1 \subseteq Nat
      BY <1>0
    <2> SUFFICES ASSUME NEW context \in MutationContexts, NEW id \in Nat,
                        NEW reason \in Reasons \cup {Blank},
                        store' = rollbackDeployment(store, context, id,
                                                    reason).store
                 PROVE  FALSE
      BY ContextsAreContexts, <2>1 DEF RollbackDeployment
    <2>2. Executed(store, context.key, RollbackRequest(id, reason),
                   RollbackEffect(store, id), store')
      BY RollbackLeaves
    <2> QED BY <2>2, RollbackFits DEF Executed
  <1>7. PICK context \in MutationContexts, candidate \in Candidates,
             evidence \in SUBSET Evidence :
          store' = createReleaseCandidate(store, context, candidate,
                                          evidence).store
    BY ContextsAreContexts, <1>1, <1>2, <1>3, <1>4, <1>5, <1>6
       DEF Next, CreateReleaseCandidate
  <1> DEFINE effect == ReleaseEffect(store, context, candidate, evidence)
  <1>8. Executed(store, context.key, ReleaseRequest(candidate, evidence),
                 effect, store')
    BY <1>7, ReleaseLeaves
  <1>9. AddsRelease(store, context, candidate, effect)
    BY ReleaseFits
  <1>10. effect.reply.code = "OK"
    BY <1>8 DEF Executed
  <1>11. BaseOf(store, context) = Current(store)
    BY <1>10, ReleaseNotStale, NotStale
  <1> HIDE DEF effect
  <1> QED BY <1>8, <1>9, <1>10, <1>11 DEF Executed, AddsRelease

\* No release is ever recorded against a version the agent has left: a request
\* with a stale base or ETag adds none.
THEOREM ReleasesAtCurrentBase == Spec => ReleasedAtCurrentBase
  <1>1. TypeOK /\ [Next]_vars
          => [Len(store'.releases) > Len(store.releases)
                => store'.releases[Len(store'.releases)].base
                     = Current(store)]_vars
    <2> SUFFICES ASSUME TypeOK, Next,
                        Len(store'.releases) > Len(store.releases)
                 PROVE  store'.releases[Len(store'.releases)].base
                          = Current(store)
      OBVIOUS
    <2>1. store.releases \in Seq(Releases)
      BY DEF TypeOK, IsMockState
    <2>2. store'.releases # store.releases
      BY <2>1
    <2>3. PICK candidate :
            store'.releases
              = Append(store.releases, [candidate |-> candidate,
                                        base |-> Current(store)])
      BY <2>2, OnlyReleasesAdd
    <2> DEFINE release == [candidate |-> candidate, base |-> Current(store)]
    <2>4. release.base = Current(store)
      OBVIOUS
    <2>5. store'.releases = Append(store.releases, release)
      BY <2>3
    <2> HIDE DEF release
    <2> QED BY <2>1, <2>4, <2>5
  <1> QED BY <1>1, TypeCorrect, PTL DEF Spec, ReleasedAtCurrentBase

-----------------------------------------------------------------------------
(* A list in order *)

IsIds(ids) == IsFiniteSet(ids) /\ ids \subseteq Int

Before(ids, id) == {x \in ids : x < id}
rank(ids, id) == Cardinality(Before(ids, id))

LEMMA RankFacts ==
  ASSUME NEW ids, IsIds(ids), NEW x \in ids
  PROVE  /\ rank(ids, x) \in 0 .. Cardinality(ids) - 1
         /\ \A y \in ids : x < y => rank(ids, x) < rank(ids, y)
  <1>1. IsFiniteSet(ids) /\ ids \subseteq Int /\ x \in Int
    BY DEF IsIds
  <1>2. Cardinality(ids) \in Nat
    BY <1>1, FS_CardinalityType
  <1>3. \A y : Before(ids, y) \in SUBSET ids
    BY DEF Before
  <1>4. \A y : /\ rank(ids, y) \in Nat /\ rank(ids, y) <= Cardinality(ids)
               /\ IsFiniteSet(Before(ids, y))
               /\ Cardinality(ids) = rank(ids, y) => ids = Before(ids, y)
    BY <1>1, <1>3, FS_Subset, FS_CardinalityType DEF rank
  <1>5. x \notin Before(ids, x)
    BY <1>1 DEF Before
  <1>6. rank(ids, x) # Cardinality(ids)
    BY <1>4, <1>5
  <1>7. ASSUME NEW y \in ids, x < y PROVE rank(ids, x) < rank(ids, y)
    <2>1. y \in Int
      BY <1>1
    <2>2. Before(ids, x) \in SUBSET Before(ids, y)
      <3>1. \A z \in ids : z \in Int /\ (z < x => z < y)
        BY <1>1, <1>7, <2>1
      <3> QED BY <3>1 DEF Before
    <2>3. x \in Before(ids, y)
      BY <1>7 DEF Before
    <2>4. /\ Cardinality(Before(ids, x)) <= Cardinality(Before(ids, y))
          /\ Cardinality(Before(ids, y)) = Cardinality(Before(ids, x))
             => Before(ids, y) = Before(ids, x)
      BY <1>4, <2>2, FS_Subset
    <2>5. rank(ids, x) <= rank(ids, y) /\ rank(ids, y) # rank(ids, x)
      BY <1>5, <2>3, <2>4 DEF rank
    <2> QED BY <1>4, <2>5
  <1> QED BY <1>2, <1>4, <1>6, <1>7

LEMMA RankTells ==
  ASSUME NEW ids, IsIds(ids), NEW x \in ids, NEW y \in ids,
         rank(ids, x) = rank(ids, y)
  PROVE  x = y
  <1>1. x \in Int /\ y \in Int
    BY DEF IsIds
  <1>2. rank(ids, x) \in Int
    BY RankFacts
  <1>3. ~(x < y) /\ ~(y < x)
    BY <1>2, RankFacts
  <1> QED BY <1>1, <1>3

\* Each place of the list is taken.
LEMMA RankReaches ==
  ASSUME NEW ids, IsIds(ids), NEW i \in 1 .. Cardinality(ids)
  PROVE  \E x \in ids : rank(ids, x) = i - 1
  <1> DEFINE N == 0 .. Cardinality(ids) - 1
             r == [x \in ids |-> rank(ids, x)]
  <1>1. IsFiniteSet(ids) /\ Cardinality(ids) \in Nat
    BY FS_CardinalityType DEF IsIds
  <1>2. IsFiniteSet(N) /\ Cardinality(N) = Cardinality(ids)
    <2>1. PICK a, b : a = 0 /\ b = Cardinality(ids) - 1
      OBVIOUS
    <2>2. a \in Int /\ b \in Int
      BY <1>1, <2>1
    <2>3. IsFiniteSet(a .. b) /\ Cardinality(a .. b) = IF a > b THEN 0 ELSE b - a + 1
      BY <2>2, FS_Interval
    <2> QED BY <1>1, <2>1, <2>3
  <1>3. r \in [ids -> N]
    BY RankFacts
  <1>4. \A x, y \in ids : r[x] = r[y] => x = y
    BY RankTells
  <1>5. r \in Injection(ids, N)
    <2> HIDE DEF r, N
    <2> QED BY <1>3, <1>4, Fun_IsInj
  <1>6. r \in Surjection(ids, N)
    <2> HIDE DEF r, N
    <2> QED BY <1>2, <1>5, FS_Injection
  <1>7. \A n \in N : \E x \in ids : r[x] = n
    <2> HIDE DEF r, N
    <2> QED BY <1>6, Fun_SurjectionProperties
  <1>8. i - 1 \in N
    BY <1>1
  <1> QED BY <1>7, <1>8

LEMMA SortedFacts ==
  ASSUME NEW ids, IsIds(ids)
  PROVE  /\ Cardinality(ids) \in Nat
         /\ DOMAIN Sorted(ids) = 1 .. Cardinality(ids)
         /\ \A i \in 1 .. Cardinality(ids) :
              Sorted(ids)[i] \in ids /\ rank(ids, Sorted(ids)[i]) = i - 1
  <1>1. Cardinality(ids) \in Nat
    BY FS_CardinalityType DEF IsIds
  <1>2. DOMAIN Sorted(ids) = 1 .. Cardinality(ids)
    BY DEF Sorted
  <1>3. ASSUME NEW i \in 1 .. Cardinality(ids)
        PROVE  Sorted(ids)[i] \in ids /\ rank(ids, Sorted(ids)[i]) = i - 1
    <2>1. Sorted(ids)[i] = CHOOSE x \in ids : rank(ids, x) = i - 1
      BY <1>3 DEF Sorted, rank, Before
    <2>2. \E x \in ids : rank(ids, x) = i - 1
      BY <1>3, RankReaches
    <2> QED BY <2>1, <2>2
  <1> QED BY <1>1, <1>2, <1>3

\* A place only moves back as items leave, and forth as items come.
LEMMA RankMoves ==
  ASSUME NEW old, NEW new, IsIds(old), IsIds(new), old \subseteq new, NEW x
  PROVE  rank(old, x) <= rank(new, x)
  <1>1. Before(old, x) \in SUBSET Before(new, x)
    BY DEF Before
  <1>2. IsFiniteSet(Before(new, x))
    BY FS_Subset DEF Before, IsIds
  <1> QED BY <1>1, <1>2, FS_Subset DEF rank

-----------------------------------------------------------------------------
(* One page *)

\* Cursor and limit are numbers.
IsPage(page) ==
  /\ decodeCursor(page.cursor) \in Int
  /\ pageLimit(page.limit) \in Nat \ {0}

Least(a, b) == IF a < b THEN a ELSE b

\* The page after the first o ids, of at most k.
PageOf(ids, o, k, shown) ==
  /\ o \in Nat /\ k \in Nat \ {0}
  /\ DOMAIN shown.items = 1 .. Least(o + k, Cardinality(ids)) - o
  /\ \A j \in DOMAIN shown.items : shown.items[j].id = Sorted(ids)[o + j]
  /\ shown.nextCursor = IF o + k < Cardinality(ids) THEN {o + k} ELSE {}

AnswersPage(ids, page, a) ==
  \A shown \in a.result :
    PageOf(ids, decodeCursor(page.cursor), pageLimit(page.limit), shown)

\* What a list is answered with; no cursor looks like there being none.
IsAnswer(a) ==
  /\ a = [code |-> a.code, result |-> a.result]
  /\ \A shown \in a.result :
       /\ shown = [items |-> shown.items, nextCursor |-> shown.nextCursor]
       /\ NULL \notin shown.nextCursor

LEMMA ErrorFacts ==
  ASSUME NEW code
  PROVE  /\ ProviderError(code).code = code /\ ProviderError(code).result = {}
         /\ IsAnswer(ProviderError(code))
         /\ \A ids, page : AnswersPage(ids, page, ProviderError(code))
  <1>1. PICK a : a = ProviderError(code)
    OBVIOUS
  <1>2. a = [code |-> code, result |-> {}]
    BY <1>1 DEF ProviderError
  <1>3. a.code = code /\ a.result = {}
    BY <1>2
  <1> QED BY <1>1, <1>2, <1>3 DEF IsAnswer, AnswersPage

LEMMA AnswerFacts ==
  ASSUME NEW x
  PROVE  /\ Answer(x) = [code |-> "OK", result |-> {x}]
         /\ Answer(x).code = "OK" /\ Answer(x).result = {x}
  BY DEF Answer

LEMMA LimitFacts ==
  ASSUME NEW limit, limit \subseteq Int, \A m, n \in limit : m = n
  PROVE  pageLimit(limit) \in Nat \ {0}
  <1>1. DefaultLimit \in Nat /\ MaxLimit \in Nat /\ 1 <= MaxLimit
    BY LimitsArePositive
  <1>2. Or(limit, DefaultLimit) \in Int
    <2>1. CASE limit = {}
      BY <1>1, <2>1 DEF Or
    <2>2. CASE limit # {}
      <3>1. \E x \in limit : TRUE
        BY <2>2
      <3>2. (CHOOSE x \in limit : TRUE) \in limit
        BY <3>1
      <3>3. Or(limit, DefaultLimit) \in limit
        BY <2>2, <3>2 DEF Or
      <3> QED BY <3>3
    <2> QED BY <2>1, <2>2
  <1> QED BY <1>1, <1>2 DEF pageLimit, Clamp

\* What SubSeq cuts out.
LEMMA Window ==
  ASSUME NEW S, NEW items \in Seq(S), NEW o \in Nat, NEW l \in Nat, l <= Len(items)
  PROVE  /\ DOMAIN SubSeq(items, o + 1, l) = 1 .. l - o
         /\ \A j \in 1 .. l - o : /\ SubSeq(items, o + 1, l)[j] = items[o + j]
                                  /\ o + j \in 1 .. Len(items)
  <1>1. PICK b : b = o + 1
    OBVIOUS
  <1>2. b \in Nat \ {0} /\ l - b + 1 = l - o
    BY <1>1
  <1>3. /\ DOMAIN SubSeq(items, b, l) = 1 .. (l - b + 1)
        /\ \A j \in 1 .. (l - b + 1) : SubSeq(items, b, l)[j] = items[b + j - 1]
    BY <1>2
  <1>4. ASSUME NEW j \in 1 .. l - o
        PROVE  b + j - 1 = o + j /\ o + j \in 1 .. Len(items)
    <2>1. j \in Int /\ 1 <= j /\ j <= l - o
      OBVIOUS
    <2>2. Len(items) \in Nat
      OBVIOUS
    <2> QED BY <1>1, <2>1, <2>2
  <1> QED BY <1>1, <1>2, <1>3, <1>4

LEMMA Paginated ==
  ASSUME NEW ids, IsIds(ids), NEW S, NEW items \in [1 .. Cardinality(ids) -> S],
         \A i \in 1 .. Cardinality(ids) : items[i].id = Sorted(ids)[i],
         NEW page, IsPage(page)
  PROVE  IsAnswer(paginate(items, page)) /\ AnswersPage(ids, page, paginate(items, page))
  <1> DEFINE o == decodeCursor(page.cursor)
             k == pageLimit(page.limit)
             n == Cardinality(ids)
             shown == [items |-> SubSeq(items, o + 1, Least(o + k, n)),
                       nextCursor |-> IF o + k < n THEN {o + k} ELSE {}]
  <1>1. o \in Int /\ k \in Nat \ {0} /\ n \in Nat
    BY SortedFacts DEF IsPage
  <1>2. items \in Seq(S) /\ Len(items) = n
    BY <1>1
  <1>3. CASE o < 0
    <2>1. paginate(items, page) = ProviderError("VALIDATION_FAILED")
      BY <1>3 DEF paginate
    <2> QED BY <2>1, ErrorFacts
  <1>4. CASE ~(o < 0)
    <2>1. paginate(items, page) = Answer(shown)
      BY <1>2, <1>4 DEF paginate, encodeCursor, Least
    <2>2. PICK t : t = SubSeq(items, o + 1, Least(o + k, n))
      OBVIOUS
    <2>3. PICK next : next = IF o + k < n THEN {o + k} ELSE {}
      OBVIOUS
    <2>4. PICK p : p = [items |-> t, nextCursor |-> next]
      OBVIOUS
    <2>5. p = shown
      BY <2>2, <2>3, <2>4
    <2>6. p.items = t /\ p.nextCursor = next
      BY <2>4
    <2>7. /\ DOMAIN t = 1 .. Least(o + k, n) - o
          /\ \A j \in DOMAIN t : t[j].id = Sorted(ids)[o + j]
      <3>1. PICK l : l = Least(o + k, n)
        OBVIOUS
      <3>2. l \in Nat /\ l <= n /\ o + 1 \in Nat
        BY <1>1, <1>4, <3>1 DEF Least
      <3>3. /\ DOMAIN SubSeq(items, o + 1, l) = 1 .. l - o
            /\ \A j \in 1 .. l - o :
                 SubSeq(items, o + 1, l)[j] = items[o + j] /\ o + j \in 1 .. n
        BY <1>1, <1>2, <1>4, <3>2, Window
      <3>4. t = SubSeq(items, o + 1, l)
        BY <2>2, <3>1
      <3>5. ASSUME NEW j \in 1 .. l - o PROVE t[j].id = Sorted(ids)[o + j]
        BY <3>3, <3>4, <3>5
      <3> QED BY <3>1, <3>3, <3>4, <3>5
    <2>8. NULL \notin next
      BY <1>1, <1>4, <2>3 DEF NULL
    <2>9. PICK a : a = Answer(p)
      OBVIOUS
    <2>10. a = [code |-> a.code, result |-> a.result] /\ a.result = {p}
      BY <2>9, AnswerFacts
    <2>11. IsAnswer(a)
      BY <2>4, <2>6, <2>8, <2>10 DEF IsAnswer
    <2>12. PageOf(ids, o, k, p)
      BY <1>1, <1>4, <2>3, <2>6, <2>7 DEF PageOf
    <2>13. AnswersPage(ids, page, a)
      BY <2>10, <2>12 DEF AnswersPage
    <2> QED BY <2>1, <2>5, <2>9, <2>11, <2>13
  <1> QED BY <1>1, <1>3, <1>4

LEMMA GatedAnswer ==
  ASSUME NEW gate, NEW a, IsAnswer(a), NEW ids, NEW page, AnswersPage(ids, page, a)
  PROVE  /\ IsAnswer(checkAvailable(gate, a))
         /\ AnswersPage(ids, page, checkAvailable(gate, a))
         /\ IsAnswer(requireScope(gate, a))
         /\ AnswersPage(ids, page, requireScope(gate, a))
  BY ErrorFacts DEF checkAvailable, requireScope

-----------------------------------------------------------------------------
(* A page of each list, from either provider, asked for by anybody *)

\* A page is at the client what it was at the provider.
LEMMA WireKeeps ==
  ASSUME NEW code, NEW result,
         \A shown \in result :
           /\ shown = [items |-> shown.items, nextCursor |-> shown.nextCursor]
           /\ NULL \notin shown.nextCursor
  PROVE  receivePage(sendPage([code |-> code, result |-> result]))
           = [code |-> code, result |-> result]
  <1> DEFINE there(p) ==
               [items |-> p.items,
                nextCursor |-> IF p.nextCursor = {} THEN {NULL} ELSE p.nextCursor]
             here(q) == [items |-> q.items, nextCursor |-> q.nextCursor \ {NULL}]
  <1>1. PICK sent : sent = {there(p) : p \in result}
    OBVIOUS
  <1>2. sendPage([code |-> code, result |-> result]) = [code |-> code, result |-> sent]
    <2>1. PICK a : a = [code |-> code, result |-> result]
      OBVIOUS
    <2>2. a.result = result
      BY <2>1
    <2>3. {there(p) : p \in a.result} = sent
      BY <1>1, <2>2
    <2>4. sendPage(a) = [a EXCEPT !.result = {there(p) : p \in a.result}]
      BY ZenonT(30) DEF sendPage
    <2>5. sendPage(a) = [a EXCEPT !.result = sent]
      BY <2>3, <2>4
    <2>6. [a EXCEPT !.result = sent] = [code |-> code, result |-> sent]
      BY <2>1
    <2> QED BY <2>1, <2>5, <2>6
  <1>3. receivePage([code |-> code, result |-> sent])
          = [code |-> code, result |-> {here(q) : q \in sent}]
    BY DEF receivePage
  <1>4. ASSUME NEW p \in result PROVE here(there(p)) = p
    <2>1. PICK q : q = there(p)
      OBVIOUS
    <2>2. q.items = p.items
      BY <2>1
    <2>3. q.nextCursor = IF p.nextCursor = {} THEN {NULL} ELSE p.nextCursor
      BY <2>1
    <2>4. NULL \notin p.nextCursor
      OBVIOUS
    <2>5. q.nextCursor \ {NULL} = p.nextCursor
      BY <2>3, <2>4
    <2>6. here(q) = [items |-> p.items, nextCursor |-> p.nextCursor]
      BY <2>2, <2>5
    <2> QED BY <2>1, <2>6
  <1>5. {here(q) : q \in sent} = result
    <2> HIDE DEF here, there
    <2>1. ASSUME NEW x \in {here(q) : q \in sent} PROVE x \in result
      BY <1>1, <1>4, <2>1
    <2>2. ASSUME NEW x \in result PROVE x \in {here(q) : q \in sent}
      <3>1. there(x) \in sent
        BY <1>1
      <3>2. here(there(x)) \in {here(q) : q \in sent}
        BY <3>1
      <3> QED BY <1>4, <3>2
    <2> QED BY <2>1, <2>2
  <1> QED BY <1>2, <1>3, <1>5

LEMMA AnswerKept ==
  ASSUME NEW a, IsAnswer(a)
  PROVE  receivePage(sendPage(a)) = a
  <1>1. PICK code, result : code = a.code /\ result = a.result
    OBVIOUS
  <1>2. a = [code |-> code, result |-> result]
    BY <1>1 DEF IsAnswer
  <1>3. \A shown \in result :
          /\ shown = [items |-> shown.items, nextCursor |-> shown.nextCursor]
          /\ NULL \notin shown.nextCursor
    BY <1>1 DEF IsAnswer
  <1>4. receivePage(sendPage([code |-> code, result |-> result]))
          = [code |-> code, result |-> result]
    BY <1>3, WireKeeps
  <1> QED BY <1>2, <1>4

\* The client is given what the provider answered, or the server refused the limit.
LEMMA OverHttpFacts ==
  ASSUME NEW a, IsAnswer(a), NEW page
  PROVE  overHttp(page, a)
           = IF page.limit # {} /\ Or(page.limit, 1) \notin 1 .. WireLimit
             THEN ProviderError("VALIDATION_FAILED") ELSE a
  <1>1. IsAnswer(pageRequest(page, a))
    BY ErrorFacts DEF pageRequest
  <1>2. overHttp(page, a) = pageRequest(page, a)
    BY <1>1, AnswerKept DEF overHttp
  <1> QED BY <1>2 DEF pageRequest

\* A list with its ids, and the page of it that was asked for.
IsPageOf(ids, page, a) == IsAnswer(a) /\ AnswersPage(ids, page, a)

LEMMA PaginatedList ==
  ASSUME NEW ids, IsIds(ids), NEW page, IsPage(page), NEW items,
         items = [i \in DOMAIN Sorted(ids) |-> items[i]],
         \A i \in DOMAIN Sorted(ids) : items[i].id = Sorted(ids)[i]
  PROVE  IsPageOf(ids, page, paginate(items, page))
  <1>1. DOMAIN Sorted(ids) = 1 .. Cardinality(ids)
    BY SortedFacts
  <1>2. PICK S : S = {items[i] : i \in DOMAIN Sorted(ids)}
    OBVIOUS
  <1>3. items \in [1 .. Cardinality(ids) -> S]
    BY <1>1, <1>2
  <1> QED BY <1>1, <1>3, Paginated DEF IsPageOf

LEMMA IsPageOfGated ==
  ASSUME NEW gate, NEW a, NEW ids, NEW page, IsPageOf(ids, page, a)
  PROVE  /\ IsPageOf(ids, page, checkAvailable(gate, a))
         /\ IsPageOf(ids, page, requireScope(gate, a))
         /\ IsPageOf(ids, page, overHttp(page, a))
  BY GatedAnswer, OverHttpFacts, ErrorFacts DEF IsPageOf

LEMMA IsPageOfError ==
  ASSUME NEW ids, NEW page, NEW code
  PROVE  IsPageOf(ids, page, ProviderError(code))
  BY ErrorFacts DEF IsPageOf

\* The catalogue: ids are numbers, there are finitely many, and traces are those
\* of the fixtures.
IsCatalogue(s) ==
  /\ s = [workspaces |-> s.workspaces, agents |-> s.agents, traces |-> s.traces]
  /\ IsIds(s.workspaces) /\ IsIds(DOMAIN s.agents) /\ IsIds(DOMAIN s.traces)
  /\ \A id \in DOMAIN s.traces : /\ id \in DOMAIN TraceFixtures
                                 /\ s.traces[id].events = TraceFixtures[id].events

LEMMA WorkspacesPaged ==
  ASSUME NEW s, IsCatalogue(s), NEW gate, NEW page, IsPage(page)
  PROVE  IsPageOf(s.workspaces, page, listWorkspaces(s, gate, page))
  <1>1. IsIds(s.workspaces)
    BY DEF IsCatalogue
  <1>2. PICK ids : ids = s.workspaces
    OBVIOUS
  <1>3. PICK items : items = [i \in DOMAIN Sorted(ids) |-> Workspace(Sorted(ids)[i])]
    OBVIOUS
  <1>4. \A i \in DOMAIN Sorted(ids) : items[i].id = Sorted(ids)[i]
    BY <1>3 DEF Workspace
  <1>5. items = [i \in DOMAIN Sorted(ids) |-> items[i]]
    BY <1>3
  <1>6. IsPageOf(ids, page, paginate(items, page))
    BY <1>1, <1>2, <1>4, <1>5, PaginatedList
  <1>7. listWorkspaces(s, gate, page) = checkAvailable(gate, paginate(items, page))
    BY <1>2, <1>3 DEF listWorkspaces
  <1> QED BY <1>2, <1>6, <1>7, IsPageOfGated

LEMMA AgentsPaged ==
  ASSUME NEW s, IsCatalogue(s), NEW gate, NEW workspace, NEW page, IsPage(page)
  PROVE  IsPageOf(agentsOf(s, workspace), page, listAgents(s, gate, workspace, page))
  <1>1. IsIds(agentsOf(s, workspace))
    BY FS_Subset DEF IsCatalogue, IsIds, agentsOf
  <1>2. PICK ids : ids = agentsOf(s, workspace)
    OBVIOUS
  <1>3. PICK items : items = [i \in DOMAIN Sorted(ids) |->
                               AgentSummary(Sorted(ids)[i], s.agents[Sorted(ids)[i]])]
    OBVIOUS
  <1>4. \A i \in DOMAIN Sorted(ids) : items[i].id = Sorted(ids)[i]
    BY <1>3 DEF AgentSummary
  <1>5. items = [i \in DOMAIN Sorted(ids) |-> items[i]]
    BY <1>3
  <1>6. IsPageOf(ids, page, paginate(items, page))
    BY <1>1, <1>2, <1>4, <1>5, PaginatedList
  <1>7. listAgents(s, gate, workspace, page)
          = checkAvailable(gate, IF workspace \notin s.workspaces
                                 THEN ProviderError("NOT_FOUND")
                                 ELSE paginate(items, page))
    BY <1>2, <1>3 DEF listAgents
  <1>8. IsPageOf(ids, page, IF workspace \notin s.workspaces
                            THEN ProviderError("NOT_FOUND")
                            ELSE paginate(items, page))
    BY <1>6, IsPageOfError
  <1> QED BY <1>2, <1>7, <1>8, IsPageOfGated

LEMMA TracesPaged ==
  ASSUME NEW s, IsCatalogue(s), NEW gate, NEW agent, NEW outcome, NEW page,
         IsPage(page)
  PROVE  IsPageOf(tracesOf(s, agent, outcome), page,
                  listTraces(s, gate, agent, outcome, page))
  <1>1. IsIds(tracesOf(s, agent, outcome))
    BY FS_Subset DEF IsCatalogue, IsIds, tracesOf
  <1>2. PICK ids : ids = tracesOf(s, agent, outcome)
    OBVIOUS
  <1>3. PICK items : items = [i \in DOMAIN Sorted(ids) |->
                               TraceSummary(Sorted(ids)[i], s.traces[Sorted(ids)[i]])]
    OBVIOUS
  <1>4. \A i \in DOMAIN Sorted(ids) : items[i].id = Sorted(ids)[i]
    BY <1>3 DEF TraceSummary
  <1>5. items = [i \in DOMAIN Sorted(ids) |-> items[i]]
    BY <1>3
  <1>6. IsPageOf(ids, page, paginate(items, page))
    BY <1>1, <1>2, <1>4, <1>5, PaginatedList
  <1>7. listTraces(s, gate, agent, outcome, page)
          = checkAvailable(gate, requireScope(gate,
              IF agent \notin DOMAIN s.agents THEN ProviderError("NOT_FOUND")
              ELSE paginate(items, page)))
    BY <1>2, <1>3 DEF listTraces
  <1>8. IsPageOf(ids, page, IF agent \notin DOMAIN s.agents
                            THEN ProviderError("NOT_FOUND")
                            ELSE paginate(items, page))
    BY <1>6, IsPageOfError
  <1>9. IsPageOf(ids, page, requireScope(gate,
          IF agent \notin DOMAIN s.agents THEN ProviderError("NOT_FOUND")
          ELSE paginate(items, page)))
    BY <1>8, IsPageOfGated
  <1> QED BY <1>2, <1>7, <1>9, IsPageOfGated

LEMMA ListIsOne ==
  ASSUME NEW list \in Lists
  PROVE  list.kind \in {"workspaces", "agents", "traces"}
  BY ListsAreKnown DEF ListsOfAll

LEMMA ListIds ==
  ASSUME NEW s, IsCatalogue(s), NEW list \in Lists, NEW provider
  PROVE  IsIds(listed(s, list, provider))
  <1>1. IsIds(s.workspaces) /\ \A w : IsIds(agentsOf(s, w))
    BY FS_Subset DEF IsCatalogue, IsIds, agentsOf
  <1>2. \A a, o : IsIds(tracesOf(s, a, o))
    BY FS_Subset DEF IsCatalogue, IsIds, tracesOf
  <1> QED BY <1>1, <1>2, ListIsOne DEF listed

LEMMA AskPaged ==
  ASSUME NEW s, IsCatalogue(s), NEW list \in Lists, NEW provider, NEW gate,
         NEW page, IsPage(page)
  PROVE  IsPageOf(listed(s, list, provider), page, ask(s, list, provider, gate, page))
  <1> DEFINE id == reached(list.of, provider)
  <1>1. CASE list.kind = "workspaces"
    <2>1. listed(s, list, provider) = s.workspaces
      BY <1>1 DEF listed
    <2>2. ask(s, list, provider, gate, page)
            = IF provider = "http" THEN overHttp(page, listWorkspaces(s, gate, page))
              ELSE listWorkspaces(s, gate, page)
      BY <1>1 DEF ask, httpListWorkspaces
    <2> QED BY <2>1, <2>2, WorkspacesPaged, IsPageOfGated
  <1>2. CASE list.kind = "agents"
    <2>1. listed(s, list, provider) = agentsOf(s, id)
      BY <1>2 DEF listed
    <2>2. ask(s, list, provider, gate, page)
            = IF provider = "http" THEN overHttp(page, listAgents(s, gate, id, page))
              ELSE listAgents(s, gate, id, page)
      BY <1>2 DEF ask, httpListAgents, reached
    <2> QED BY <2>1, <2>2, AgentsPaged, IsPageOfGated
  <1>3. CASE list.kind = "traces"
    <2>1. listed(s, list, provider) = tracesOf(s, id, list.outcome)
      BY <1>3 DEF listed
    <2>2. ask(s, list, provider, gate, page)
            = IF provider = "http"
              THEN overHttp(page, listTraces(s, gate, id, list.outcome, page))
              ELSE listTraces(s, gate, id, list.outcome, page)
      BY <1>3 DEF ask, httpListTraces, reached
    <2> QED BY <2>1, <2>2, TracesPaged, IsPageOfGated
  <1> QED BY <1>1, <1>2, <1>3, ListIsOne

-----------------------------------------------------------------------------
(* What a page adds *)

Once(seen) == \A i, j \in DOMAIN seen : seen[i] = seen[j] => i = j

\* Of the ids, those before the o-th place have been shown or were not there.
NothingPassed(ids, start, shown, o) ==
  \A x \in start : x \in ids /\ (x \in shown \/ o <= rank(ids, x))
NothingAgain(ids, shown, o) ==
  \A x \in shown \cap ids : rank(ids, x) < o

\* The ids of a page are the next ones of the list.
IsNext(ids, o, k, more) ==
  /\ more \in Seq(Int) /\ Once(more)
  /\ \A i \in DOMAIN more : more[i] \in ids /\ o <= rank(ids, more[i])
  /\ \A x \in ids : o <= rank(ids, x) /\ rank(ids, x) < o + k
                      => x \in ToSet(more)
  /\ \A i \in DOMAIN more : rank(ids, more[i]) < o + k

LEMMA PageIsNext ==
  ASSUME NEW ids, IsIds(ids), NEW o, NEW k, NEW page, PageOf(ids, o, k, page),
         NEW more, more = [i \in DOMAIN page.items |-> page.items[i].id]
  PROVE  /\ IsNext(ids, o, k, more)
         /\ page.nextCursor = {} => \A x \in ids : rank(ids, x) < o + k
         /\ page.nextCursor # {} => page.nextCursor = {o + k}
  <1>1. PICK n : n = Cardinality(ids)
    OBVIOUS
  <1>2. PICK l : l = Least(o + k, n) - o
    OBVIOUS
  <1>3. /\ o \in Nat /\ k \in Nat \ {0} /\ n \in Nat
        /\ DOMAIN page.items = 1 .. l
        /\ \A j \in 1 .. l : page.items[j].id = Sorted(ids)[o + j]
        /\ page.nextCursor = IF o + k < n THEN {o + k} ELSE {}
    BY <1>1, <1>2, SortedFacts DEF PageOf
  <1>4. l \in Int /\ l <= k /\ l <= n - o /\ (l = k \/ l = n - o)
    BY <1>2, <1>3 DEF Least
  <1>5. more = [i \in 1 .. l |-> Sorted(ids)[o + i]]
    BY <1>3
  <1>6. \A i \in 1 .. n : Sorted(ids)[i] \in ids /\ rank(ids, Sorted(ids)[i]) = i - 1
    BY <1>1, SortedFacts
  <1>7. \A i \in 1 .. l : o + i \in 1 .. n /\ i \in Int
    BY <1>3, <1>4
  <1>8. \A i \in 1 .. l : more[i] \in ids /\ rank(ids, more[i]) = o + i - 1
    <2>1. ASSUME NEW i \in 1 .. l
          PROVE  more[i] \in ids /\ rank(ids, more[i]) = o + i - 1
      <3>1. PICK j : j = o + i
        OBVIOUS
      <3>2. j \in 1 .. n /\ j - 1 = o + i - 1
        BY <1>3, <1>7, <3>1
      <3>3. more[i] = Sorted(ids)[j]
        BY <1>5, <3>1
      <3> QED BY <1>6, <3>2, <3>3
    <2> QED BY <2>1
  <1>9. more \in Seq(Int)
    <2>1. \A i \in 1 .. l : more[i] \in Int
      BY <1>8 DEF IsIds
    <2>2. PICK m \in Nat : 1 .. l = 1 .. m
      <3>1. CASE l \in Nat
        BY <3>1
      <3>2. CASE l \notin Nat
        BY <1>4, <3>2
      <3> QED BY <3>1, <3>2
    <2>3. more \in [1 .. m -> Int]
      BY <1>5, <2>1, <2>2
    <2> QED BY <2>3
  <1>10. DOMAIN more = 1 .. l
    BY <1>5
  <1>11. Once(more)
    <2>1. ASSUME NEW i \in 1 .. l, NEW j \in 1 .. l, more[i] = more[j] PROVE i = j
      <3>1. o + i - 1 = o + j - 1
        BY <1>8, <2>1
      <3> QED BY <1>3, <1>7, <3>1
    <2>2. \A i, j \in 1 .. l : more[i] = more[j] => i = j
      BY <2>1
    <2>3. PICK places : places = 1 .. l
      OBVIOUS
    <2>4. \A i, j \in places : more[i] = more[j] => i = j
      BY <2>2, <2>3
    <2>5. DOMAIN more = places
      BY <1>10, <2>3
    <2>6. \A i, j \in DOMAIN more : more[i] = more[j] => i = j
      BY <2>4, <2>5
    <2> QED BY <2>6 DEF Once
  <1>12. ASSUME NEW x \in ids, o <= rank(ids, x), rank(ids, x) < o + k
         PROVE  x \in ToSet(more)
    <2>1. PICK r : r = rank(ids, x)
      OBVIOUS
    <2>2. r \in Int /\ r <= n - 1 /\ o <= r /\ r < o + k
      BY <1>1, <1>3, <1>12, <2>1, RankFacts
    <2>3. PICK j : j = r - o + 1
      OBVIOUS
    <2>4. j \in 1 .. l /\ o + j - 1 = r
      BY <1>3, <1>4, <2>2, <2>3
    <2>5. more[j] \in ids /\ rank(ids, more[j]) = rank(ids, x)
      BY <1>8, <2>1, <2>4
    <2>6. more[j] = x
      BY <2>5, RankTells
    <2> QED BY <1>10, <2>4, <2>6 DEF ToSet
  <1>13. \A i \in 1 .. l : o <= rank(ids, more[i]) /\ rank(ids, more[i]) < o + k
    BY <1>3, <1>4, <1>7, <1>8
  <1>14. ASSUME page.nextCursor = {}, NEW x \in ids PROVE rank(ids, x) < o + k
    <2>1. ~(o + k < n)
      BY <1>3, <1>14
    <2>2. rank(ids, x) \in Int /\ rank(ids, x) <= n - 1
      BY <1>1, <1>3, RankFacts
    <2> QED BY <1>3, <2>1, <2>2
  <1>15. page.nextCursor # {} => page.nextCursor = {o + k}
    BY <1>3
  <1>16. IsNext(ids, o, k, more)
    BY <1>8, <1>9, <1>10, <1>11, <1>12, <1>13 DEF IsNext
  <1> QED BY <1>14, <1>15, <1>16

LEMMA Joined ==
  ASSUME NEW seen \in Seq(Int), NEW more \in Seq(Int), NEW all, all = seen \o more
  PROVE  /\ all \in Seq(Int)
         /\ ToSet(all) = ToSet(seen) \cup ToSet(more)
         /\ Once(seen) /\ Once(more) /\ ToSet(seen) \cap ToSet(more) = {} => Once(all)
  <1>1. PICK a, b : a = Len(seen) /\ b = Len(more)
    OBVIOUS
  <1>2. /\ a \in Nat /\ b \in Nat
        /\ DOMAIN seen = 1 .. a /\ DOMAIN more = 1 .. b
    BY <1>1
  <1>3. /\ all \in Seq(Int) /\ Len(all) = a + b
        /\ \A i \in 1 .. a + b : all[i] = IF i <= a THEN seen[i] ELSE more[i - a]
    BY <1>1, ConcatProperties
  <1>4. DOMAIN all = 1 .. a + b
    BY <1>3
  <1>5. \A i \in 1 .. a : i \in 1 .. a + b /\ all[i] = seen[i]
    BY <1>2, <1>3
  <1>6. \A i \in 1 .. b : i + a \in 1 .. a + b /\ all[i + a] = more[i]
    <2>1. ASSUME NEW i \in 1 .. b
          PROVE  i + a \in 1 .. a + b /\ all[i + a] = more[i]
      <3>1. PICK j : j = i + a
        OBVIOUS
      <3>2. j \in 1 .. a + b /\ ~(j <= a) /\ j - a = i
        BY <1>2, <3>1
      <3>3. all[j] = more[j - a]
        BY <1>3, <3>2
      <3> QED BY <3>1, <3>2, <3>3
    <2> QED BY <2>1
  <1>7. \A i \in 1 .. a + b : i \in 1 .. a \/ (i - a \in 1 .. b /\ i = i - a + a)
    BY <1>2
  <1>8. \A x \in ToSet(all) : x \in ToSet(seen) \/ x \in ToSet(more)
    <2>1. ASSUME NEW i \in 1 .. a + b
          PROVE  all[i] \in ToSet(seen) \/ all[i] \in ToSet(more)
      <3>1. CASE i \in 1 .. a
        BY <1>2, <1>5, <3>1 DEF ToSet
      <3>2. CASE i - a \in 1 .. b /\ i = i - a + a
        <4>1. all[i] = more[i - a]
          BY <1>6, <3>2
        <4> QED BY <1>2, <3>2, <4>1 DEF ToSet
      <3> QED BY <1>7, <3>1, <3>2
    <2> QED BY <1>4, <2>1 DEF ToSet
  <1>9. \A x \in ToSet(seen) \cup ToSet(more) : x \in ToSet(all)
    <2>1. \A i \in 1 .. a : seen[i] \in ToSet(all)
      BY <1>4, <1>5 DEF ToSet
    <2>2. \A i \in 1 .. b : more[i] \in ToSet(all)
      BY <1>4, <1>6 DEF ToSet
    <2> QED BY <1>2, <2>1, <2>2 DEF ToSet
  <1>10. ASSUME Once(seen), Once(more), ToSet(seen) \cap ToSet(more) = {}
         PROVE  Once(all)
    <2>1. \A i \in 1 .. a, j \in 1 .. b : seen[i] # more[j]
      BY <1>2, <1>10 DEF ToSet
    <2>2. \A i, j \in 1 .. a : seen[i] = seen[j] => i = j
      BY <1>2, <1>10 DEF Once
    <2>3. \A i, j \in 1 .. b : more[i] = more[j] => i = j
      BY <1>2, <1>10 DEF Once
    <2>4. ASSUME NEW i \in 1 .. a + b, NEW j \in 1 .. a + b, all[i] = all[j]
          PROVE  i = j
      <3>1. CASE i \in 1 .. a /\ j \in 1 .. a
        BY <1>5, <2>2, <2>4, <3>1
      <3>2. CASE i \in 1 .. a /\ j - a \in 1 .. b /\ j = j - a + a
        <4>1. all[j] = more[j - a]
          BY <1>6, <3>2
        <4> QED BY <1>5, <2>1, <2>4, <3>2, <4>1
      <3>3. CASE j \in 1 .. a /\ i - a \in 1 .. b /\ i = i - a + a
        <4>1. all[i] = more[i - a]
          BY <1>6, <3>3
        <4> QED BY <1>5, <2>1, <2>4, <3>3, <4>1
      <3>4. CASE /\ i - a \in 1 .. b /\ i = i - a + a
                 /\ j - a \in 1 .. b /\ j = j - a + a
        <4>1. all[i] = more[i - a] /\ all[j] = more[j - a]
          BY <1>6, <3>4
        <4>2. i - a = j - a
          BY <2>3, <2>4, <3>4, <4>1
        <4> QED BY <3>4, <4>2
      <3> QED BY <1>7, <3>1, <3>2, <3>3, <3>4
    <2> QED BY <1>4, <2>4 DEF Once
  <1> QED BY <1>3, <1>8, <1>9, <1>10

\* A list without repetition has as many items as it has places.
LEMMA OnceCounts ==
  ASSUME NEW seen \in Seq(Int), Once(seen)
  PROVE  Cardinality(ToSet(seen)) = Len(seen)
  <1>1. PICK n \in Nat : n = Len(seen) /\ DOMAIN seen = 1 .. n
    OBVIOUS
  <1>2. PICK S : S = 1 .. n
    OBVIOUS
  <1>3. seen \in [S -> ToSet(seen)] /\ \A x \in ToSet(seen) : \E i \in S : seen[i] = x
    BY <1>1, <1>2 DEF ToSet
  <1>4. \A i, j \in S : seen[i] = seen[j] => i = j
    BY <1>1, <1>2 DEF Once
  <1>5. seen \in Injection(S, ToSet(seen)) /\ seen \in Surjection(S, ToSet(seen))
    BY <1>3, <1>4, Fun_IsInj, Fun_IsSurj
  <1>6. IsFiniteSet(S) /\ Cardinality(S) = n
    <2>1. PICK a : a = 1
      OBVIOUS
    <2>2. IsFiniteSet(a .. n) /\ Cardinality(a .. n) = IF a > n THEN 0 ELSE n - a + 1
      BY <2>1, FS_Interval
    <2> QED BY <1>1, <1>2, <2>1, <2>2
  <1>7. Cardinality(ToSet(seen)) = Cardinality(S)
    BY <1>5, <1>6, FS_Surjection
  <1> QED BY <1>1, <1>6, <1>7

\* The page shows what comes next, and nothing that was shown before.
LEMMA NextPasses ==
  ASSUME NEW ids, IsIds(ids), NEW o \in Int, NEW k \in Int, NEW more,
         IsNext(ids, o, k, more), NEW shown, NEW start
  PROVE  /\ NothingPassed(ids, start, shown, o)
              => NothingPassed(ids, start, shown \cup ToSet(more), o + k)
         /\ NothingAgain(ids, shown, o)
              => /\ shown \cap ToSet(more) = {}
                 /\ 0 <= k => NothingAgain(ids, shown \cup ToSet(more), o + k)
  <1>1. \A x \in ids : rank(ids, x) \in Int
    BY RankFacts
  <1>2. \A x \in ToSet(more) : x \in ids /\ o <= rank(ids, x) /\ rank(ids, x) < o + k
    BY DEF IsNext, ToSet
  <1>3. ASSUME NothingPassed(ids, start, shown, o)
        PROVE  NothingPassed(ids, start, shown \cup ToSet(more), o + k)
    <2>1. ASSUME NEW x \in start
          PROVE  /\ x \in ids
                 /\ x \in shown \cup ToSet(more) \/ o + k <= rank(ids, x)
      <3>1. x \in ids /\ (x \in shown \/ o <= rank(ids, x))
        BY <1>3 DEF NothingPassed
      <3>2. rank(ids, x) < o + k \/ o + k <= rank(ids, x)
        BY <1>1, <3>1
      <3>3. o <= rank(ids, x) /\ rank(ids, x) < o + k => x \in ToSet(more)
        BY <3>1 DEF IsNext
      <3> QED BY <3>1, <3>2, <3>3
    <2> QED BY <2>1 DEF NothingPassed
  <1>4. ASSUME NothingAgain(ids, shown, o)
        PROVE  /\ shown \cap ToSet(more) = {}
               /\ 0 <= k => NothingAgain(ids, shown \cup ToSet(more), o + k)
    <2>1. \A x \in shown \cap ids : rank(ids, x) < o
      BY <1>4 DEF NothingAgain
    <2>2. ASSUME NEW x \in shown \cap ToSet(more) PROVE FALSE
      <3>1. x \in ids /\ o <= rank(ids, x) /\ rank(ids, x) < o /\ rank(ids, x) \in Int
        BY <1>1, <1>2, <2>1
      <3> QED BY <3>1
    <2>3. ASSUME 0 <= k, NEW x \in (shown \cup ToSet(more)) \cap ids
          PROVE  rank(ids, x) < o + k
      <3>1. CASE x \in shown
        <4>1. rank(ids, x) < o /\ rank(ids, x) \in Int
          BY <1>1, <2>1, <3>1
        <4> QED BY <2>3, <4>1
      <3>2. CASE x \in ToSet(more)
        BY <1>2, <3>2
      <3> QED BY <3>1, <3>2
    <2> QED BY <2>2, <2>3 DEF NothingAgain
  <1> QED BY <1>3, <1>4

\* What comes only moves the others back, what goes only moves them forth.
LEMMA ChangePasses ==
  ASSUME NEW old, NEW new, IsIds(old), IsIds(new), NEW o \in Int, NEW shown, NEW start
  PROVE  /\ NothingPassed(old, start, shown, o) /\ old \subseteq new
              => NothingPassed(new, start, shown, o)
         /\ NothingAgain(old, shown, o) /\ new \subseteq old
              => NothingAgain(new, shown, o)
  <1>1. ASSUME NothingPassed(old, start, shown, o), old \subseteq new
        PROVE  NothingPassed(new, start, shown, o)
    <2>1. ASSUME NEW x \in start
          PROVE  x \in new /\ (x \in shown \/ o <= rank(new, x))
      <3>1. x \in old /\ x \in new /\ (x \in shown \/ o <= rank(old, x))
        BY <1>1 DEF NothingPassed
      <3>2. rank(old, x) <= rank(new, x)
        BY <1>1, RankMoves
      <3>3. rank(old, x) \in Int /\ rank(new, x) \in Int
        BY <3>1, RankFacts
      <3> QED BY <3>1, <3>2, <3>3
    <2> QED BY <2>1 DEF NothingPassed
  <1>2. ASSUME NothingAgain(old, shown, o), new \subseteq old
        PROVE  NothingAgain(new, shown, o)
    <2>1. ASSUME NEW x \in shown \cap new PROVE rank(new, x) < o
      <3>1. x \in old /\ rank(old, x) < o
        BY <1>2 DEF NothingAgain
      <3>2. rank(new, x) <= rank(old, x)
        BY <1>2, RankMoves
      <3>3. rank(old, x) \in Int /\ rank(new, x) \in Int
        BY <3>1, RankFacts
      <3> QED BY <3>1, <3>2, <3>3
    <2> QED BY <2>1 DEF NothingAgain
  <1> QED BY <1>1, <1>2

-----------------------------------------------------------------------------
(* Whoever walks to the end has been shown everything, and nothing twice *)

IsWalk(w) ==
  /\ w = [at |-> "walking", list |-> w.list, provider |-> w.provider,
          tool |-> w.tool, limit |-> w.limit, cursor |-> w.cursor, seen |-> w.seen,
          start |-> w.start, came |-> w.came, left |-> w.left]
  /\ w.list \in Lists /\ w.limit \in Limits
  /\ w.tool => w.list.kind # "workspaces"
  /\ decodeCursor(w.cursor) \in Nat
  /\ w.seen \in Seq(Int)
  /\ ~w.came => Once(w.seen)

IsWalked(w) ==
  /\ w.at = "done"
  /\ w.seen \in Seq(Int)
  /\ ~w.left => w.start \subseteq ToSet(w.seen)
  /\ ~w.came => Once(w.seen)

IsOver(w) == w.at \notin {"walking", "done"}

\* The walk over the ids that are in its list by now.
OnItsWay(w, ids) ==
  /\ IsWalk(w)
  /\ ~w.left => NothingPassed(ids, w.start, ToSet(w.seen), decodeCursor(w.cursor))
  /\ ~w.came => NothingAgain(ids, ToSet(w.seen), decodeCursor(w.cursor))

WalkInv ==
  /\ IsCatalogue(state)
  /\ \/ OnItsWay(walk, listed(state, walk.list, walk.provider))
     \/ IsWalked(walk)
     \/ IsOver(walk)

LEMMA CursorFacts ==
  ASSUME NEW n
  PROVE  decodeCursor({n}) = n /\ decodeCursor({}) = 0
  BY DEF decodeCursor, Or

\* The tool asks as its schema lets it.
LEMMA AskToolPaged ==
  ASSUME NEW s, IsCatalogue(s), NEW list \in Lists, list.kind # "workspaces",
         NEW provider, NEW gate, NEW args, decodeCursor(args.cursor) \in Int
  PROVE  \E page : /\ decodeCursor(page.cursor) = decodeCursor(args.cursor)
                   /\ pageLimit(page.limit) \in Nat \ {0}
                   /\ IsPageOf(listed(s, list, provider), page,
                               askTool(s, list, provider, gate, args))
  <1> DEFINE Proper(page) == /\ decodeCursor(page.cursor) = decodeCursor(args.cursor)
                             /\ pageLimit(page.limit) \in Nat \ {0}
             id == reached(list.of, provider)
  <1>1. ASSUME NEW tool \in {"raia_agent_list", "raia_trace_list"}, NEW page,
               page = applyDefaults(tool, args),
               page.limit \subseteq 1 .. ToolLimits[tool].max
        PROVE  Proper(page) /\ IsPage(page)
    <2>1. page = [cursor |-> args.cursor,
                  limit |-> {Or(args.limit, ToolLimits[tool].default)}]
      BY <1>1 DEF applyDefaults, PageRequest
    <2>2. PICK x : x = Or(args.limit, ToolLimits[tool].default)
      OBVIOUS
    <2>3. page.cursor = args.cursor /\ page.limit = {x}
      BY <2>1, <2>2
    <2>4. 1 .. ToolLimits[tool].max \subseteq Int
      BY LimitsAreNumbers
    <2>5. x \in Int
      BY <1>1, <2>3, <2>4
    <2>6. pageLimit(page.limit) \in Nat \ {0}
      BY <2>3, <2>5, LimitFacts
    <2> QED BY <2>3, <2>6 DEF IsPage
  <1>2. PICK plain : plain = [cursor |-> args.cursor, limit |-> {1}]
    OBVIOUS
  <1>3. Proper(plain)
    <2>1. pageLimit({1}) \in Nat \ {0}
      BY LimitFacts
    <2> QED BY <1>2, <2>1
  <1>4. ASSUME NEW tool \in {"raia_agent_list", "raia_trace_list"}, NEW page,
               page = applyDefaults(tool, args), NEW ids, NEW a,
               IsPage(page) => IsPageOf(ids, page, a)
        PROVE  \E p : Proper(p) /\ IsPageOf(ids, p, validated(tool, page, a))
    <2> HIDE DEF Proper
    <2>1. CASE page.limit \subseteq 1 .. ToolLimits[tool].max
      <3>1. validated(tool, page, a) = a
        BY <2>1 DEF validated
      <3> QED BY <1>1, <1>4, <2>1, <3>1
    <2>2. CASE ~(page.limit \subseteq 1 .. ToolLimits[tool].max)
      <3>1. validated(tool, page, a) = ProviderError("USAGE")
        BY <2>2 DEF validated
      <3> QED BY <1>3, <3>1, IsPageOfError
    <2> QED BY <2>1, <2>2
  <1>5. CASE list.kind = "agents"
    <2>1. PICK page : page = applyDefaults("raia_agent_list", args)
      OBVIOUS
    <2>2. PICK a : a = IF provider = "http"
                       THEN overHttp(page, listAgents(s, gate, id, page))
                       ELSE listAgents(s, gate, id, page)
      OBVIOUS
    <2>3. askTool(s, list, provider, gate, args)
            = validated("raia_agent_list", page, a)
      BY <1>5, <2>1, <2>2 DEF askTool, raia_agent_list, httpListAgents, reached
    <2>4. listed(s, list, provider) = agentsOf(s, id)
      BY <1>5 DEF listed
    <2>5. IsPage(page) => IsPageOf(listed(s, list, provider), page, a)
      BY <2>2, <2>4, AgentsPaged, IsPageOfGated
    <2>6. \E p : Proper(p) /\ IsPageOf(listed(s, list, provider), p,
                                       validated("raia_agent_list", page, a))
      BY <1>4, <2>1, <2>5
    <2> QED BY <2>3, <2>6
  <1>6. CASE list.kind = "traces"
    <2>1. PICK page : page = applyDefaults("raia_trace_list", args)
      OBVIOUS
    <2>2. PICK a : a = IF provider = "http"
                       THEN overHttp(page, listTraces(s, gate, id, list.outcome, page))
                       ELSE listTraces(s, gate, id, list.outcome, page)
      OBVIOUS
    <2>3. askTool(s, list, provider, gate, args)
            = validated("raia_trace_list", page, a)
      BY <1>6, <2>1, <2>2 DEF askTool, raia_trace_list, httpListTraces, reached
    <2>4. listed(s, list, provider) = tracesOf(s, id, list.outcome)
      BY <1>6 DEF listed
    <2>5. IsPage(page) => IsPageOf(listed(s, list, provider), page, a)
      BY <2>2, <2>4, TracesPaged, IsPageOfGated
    <2>6. \E p : Proper(p) /\ IsPageOf(listed(s, list, provider), p,
                                       validated("raia_trace_list", page, a))
      BY <1>4, <2>1, <2>5
    <2> QED BY <2>3, <2>6
  <1> QED BY <1>5, <1>6, ListIsOne

\* Whoever walks is answered with the page at the walk's cursor.
LEMMA WalkPaged ==
  ASSUME NEW s, IsCatalogue(s), NEW w, IsWalk(w), NEW gate, NEW a,
         a = LET page == PageRequest(w.cursor, w.limit) IN
             IF w.tool THEN askTool(s, w.list, w.provider, gate, page)
             ELSE ask(s, w.list, w.provider, gate, page),
         NEW shown \in a.result
  PROVE  \E k \in Nat \ {0} :
           PageOf(listed(s, w.list, w.provider), decodeCursor(w.cursor), k, shown)
  <1>1. PICK page : page = [cursor |-> w.cursor, limit |-> w.limit]
    OBVIOUS
  <1>2. page = PageRequest(w.cursor, w.limit)
    BY <1>1 DEF PageRequest
  <1>3. /\ page.cursor = w.cursor /\ page.limit = w.limit
        /\ decodeCursor(page.cursor) \in Int /\ pageLimit(page.limit) \in Nat \ {0}
    <2>1. page.cursor = w.cursor /\ page.limit = w.limit
      BY <1>1
    <2>2. w.limit \subseteq Int /\ \A m, n \in w.limit : m = n
      BY LimitsAreNumbers DEF IsWalk
    <2>3. decodeCursor(w.cursor) \in Int
      BY DEF IsWalk
    <2> QED BY <2>1, <2>2, <2>3, LimitFacts
  <1>4. IsPage(page)
    BY <1>3 DEF IsPage
  <1>5. \E p : /\ decodeCursor(p.cursor) = decodeCursor(w.cursor)
               /\ pageLimit(p.limit) \in Nat \ {0}
               /\ IsPageOf(listed(s, w.list, w.provider), p, a)
    <2>1. CASE w.tool
      <3>1. a = askTool(s, w.list, w.provider, gate, page)
        BY <1>2, <2>1
      <3>2. w.list \in Lists /\ w.list.kind # "workspaces"
        BY <2>1 DEF IsWalk
      <3> QED BY <1>3, <3>1, <3>2, AskToolPaged
    <2>2. CASE ~w.tool
      <3>1. a = ask(s, w.list, w.provider, gate, page)
        BY <1>2, <2>2
      <3>2. w.list \in Lists
        BY DEF IsWalk
      <3> QED BY <1>3, <1>4, <3>1, <3>2, AskPaged
    <2> QED BY <2>1, <2>2
  <1> QED BY <1>5 DEF IsPageOf, AnswersPage

LEMMA SeededCatalogue ==
  ASSUME NEW s, IsCatalogue(s), NEW workspace \in Workspaces, NEW id \in AgentIds,
         NEW bundle
  PROVE  IsCatalogue(seedFromFixture(s, workspace, id, bundle))
  <1>1. PICK agents : agents = With(s.agents, id, [workspaceId |-> workspace,
                                 currentVersionId |-> 1, versions |-> <<bundle>>])
    OBVIOUS
  <1>2. PICK traces : traces = defaultTraceFixtures(id)
    OBVIOUS
  <1>3. PICK t : t = [workspaces |-> s.workspaces \cup {workspace},
                      agents |-> agents, traces |-> traces]
    OBVIOUS
  <1>4. t = seedFromFixture(s, workspace, id, bundle)
    BY <1>1, <1>2, <1>3 DEF seedFromFixture
  <1>5. /\ t.workspaces = s.workspaces \cup {workspace}
        /\ t.agents = agents /\ t.traces = traces
        /\ t = [workspaces |-> t.workspaces, agents |-> t.agents, traces |-> t.traces]
    BY <1>3
  <1>6. DOMAIN agents = DOMAIN s.agents \cup {id}
    BY <1>1 DEF With
  <1>7. DOMAIN traces = DOMAIN TraceFixtures
    BY <1>2 DEF defaultTraceFixtures
  <1>8. IsIds(s.workspaces \cup {workspace}) /\ IsIds(DOMAIN s.agents \cup {id})
    BY IdsAreNumbers, FS_AddElement DEF IsCatalogue, IsIds
  <1>9. IsIds(DOMAIN TraceFixtures)
    BY IdsAreNumbers DEF IsIds
  <1>10. \A i \in DOMAIN traces : traces[i].events = TraceFixtures[i].events
    BY <1>2 DEF defaultTraceFixtures
  <1> QED BY <1>4, <1>5, <1>6, <1>7, <1>8, <1>9, <1>10 DEF IsCatalogue

LEMMA AdvancedCatalogue ==
  ASSUME NEW s, IsCatalogue(s), NEW id \in DOMAIN s.agents, NEW bundle
  PROVE  IsCatalogue(advanceVersion(s, id, bundle))
  <1>1. PICK w, a, t : w = s.workspaces /\ a = s.agents /\ t = s.traces
    OBVIOUS
  <1>2. s = [workspaces |-> w, agents |-> a, traces |-> t]
    BY <1>1 DEF IsCatalogue
  <1>3. PICK x : x = Append(s.agents[id].versions, bundle)
    OBVIOUS
  <1>4. PICK y : y = Len(s.agents[id].versions) + 1
    OBVIOUS
  <1>5. PICK b : b = [a EXCEPT ![id].versions = x]
    OBVIOUS
  <1>6. PICK c : c = [b EXCEPT ![id].currentVersionId = y]
    OBVIOUS
  <1>7. DOMAIN c = DOMAIN a
    BY <1>5, <1>6
  <1>8. PICK q : q = [s EXCEPT !.agents[id].versions = x]
    OBVIOUS
  <1>9. q = [workspaces |-> w, agents |-> b, traces |-> t]
    BY <1>2, <1>5, <1>8
  <1>10. PICK r : r = [q EXCEPT !.agents[id].currentVersionId = y]
    OBVIOUS
  <1>11. r = [workspaces |-> w, agents |-> c, traces |-> t]
    BY <1>6, <1>9, <1>10
  <1>12. advanceVersion(s, id, bundle) = r
    BY <1>3, <1>4, <1>8, <1>10, Zenon DEF advanceVersion
  <1>13. /\ r.workspaces = w /\ r.agents = c /\ r.traces = t
         /\ r = [workspaces |-> r.workspaces, agents |-> r.agents, traces |-> r.traces]
    BY <1>11
  <1> QED BY <1>1, <1>7, <1>12, <1>13 DEF IsCatalogue

\* v is the walk w with what happened since.
Marked(w, came, left, v) ==
  v = [at |-> "walking", list |-> w.list, provider |-> w.provider,
       tool |-> w.tool, limit |-> w.limit, cursor |-> w.cursor,
       seen |-> w.seen, start |-> w.start, came |-> came, left |-> left]

LEMMA MarkedFacts ==
  ASSUME NEW w, NEW came, NEW left, NEW v, Marked(w, came, left, v)
  PROVE  /\ v.list = w.list /\ v.provider = w.provider /\ v.tool = w.tool
         /\ v.limit = w.limit /\ v.cursor = w.cursor /\ v.seen = w.seen
         /\ v.start = w.start /\ v.came = came /\ v.left = left
  <1>1. PICK l, p, t, m, c, s, b :
          /\ l = w.list /\ p = w.provider /\ t = w.tool /\ m = w.limit
          /\ c = w.cursor /\ s = w.seen /\ b = w.start
    OBVIOUS
  <1>2. v = [at |-> "walking", list |-> l, provider |-> p, tool |-> t, limit |-> m,
             cursor |-> c, seen |-> s, start |-> b, came |-> came, left |-> left]
    BY <1>1, Zenon DEF Marked
  <1>3. /\ v.list = l /\ v.provider = p /\ v.tool = t /\ v.limit = m
        /\ v.cursor = c /\ v.seen = s /\ v.start = b
        /\ v.came = came /\ v.left = left
    BY <1>2, Zenon
  <1> QED BY <1>1, <1>3, Zenon

LEMMA Marking ==
  ASSUME NEW w, IsWalk(w), NEW came, NEW left, NEW v,
         v = [w EXCEPT !.came = came, !.left = left]
  PROVE  Marked(w, came, left, v)
  <1>1. PICK l, p, t, m, c, s, b, x, y :
          /\ l = w.list /\ p = w.provider /\ t = w.tool /\ m = w.limit
          /\ c = w.cursor /\ s = w.seen /\ b = w.start
          /\ x = w.came /\ y = w.left
    OBVIOUS
  <1>2. w = [at |-> "walking", list |-> l, provider |-> p, tool |-> t, limit |-> m,
             cursor |-> c, seen |-> s, start |-> b, came |-> x, left |-> y]
    BY <1>1, Zenon DEF IsWalk
  <1>3. PICK q : q = [w EXCEPT !.came = came]
    OBVIOUS
  <1>4. q = [at |-> "walking", list |-> l, provider |-> p, tool |-> t, limit |-> m,
             cursor |-> c, seen |-> s, start |-> b, came |-> came, left |-> y]
    BY <1>2, <1>3
  <1>5. v = [q EXCEPT !.left = left]
    BY <1>3, Zenon
  <1>6. v = [at |-> "walking", list |-> l, provider |-> p, tool |-> t, limit |-> m,
             cursor |-> c, seen |-> s, start |-> b, came |-> came, left |-> left]
    BY <1>4, <1>5
  <1> QED BY <1>1, <1>6, Zenon DEF Marked

\* A walk goes on while the list changes.
LEMMA Goes ==
  ASSUME NEW old, NEW new, IsIds(old), IsIds(new), NEW w, OnItsWay(w, old), NEW v,
         NEW came, came = (w.came \/ ~(new \subseteq old)),
         NEW left, left = (w.left \/ ~(old \subseteq new)),
         Marked(w, came, left, v)
  PROVE  OnItsWay(v, new) /\ v.list = w.list /\ v.provider = w.provider
  <1>1. IsWalk(w)
    BY DEF OnItsWay
  <1>2. v = [at |-> "walking", list |-> w.list, provider |-> w.provider,
             tool |-> w.tool, limit |-> w.limit, cursor |-> w.cursor,
             seen |-> w.seen, start |-> w.start, came |-> came, left |-> left]
    BY DEF Marked
  <1>3. /\ v.list = w.list /\ v.provider = w.provider /\ v.tool = w.tool
        /\ v.limit = w.limit /\ v.cursor = w.cursor /\ v.seen = w.seen
        /\ v.start = w.start /\ v.came = came /\ v.left = left
    BY MarkedFacts
  <1>4. ~v.came => ~w.came /\ new \subseteq old
    BY <1>3, Zenon
  <1>5. ~v.left => ~w.left /\ old \subseteq new
    BY <1>3, Zenon
  <1>6. IsWalk(v)
    <2>1. v = [at |-> "walking", list |-> v.list, provider |-> v.provider,
               tool |-> v.tool, limit |-> v.limit, cursor |-> v.cursor,
               seen |-> v.seen, start |-> v.start, came |-> v.came, left |-> v.left]
      BY <1>2, <1>3, Zenon
    <2>2. /\ v.list \in Lists /\ v.limit \in Limits
          /\ decodeCursor(v.cursor) \in Nat
          /\ v.seen \in Seq(Int)
      BY <1>1, <1>3 DEF IsWalk
    <2>3. /\ v.tool => v.list.kind # "workspaces"
          /\ ~v.came => Once(v.seen)
      BY <1>1, <1>3, <1>4, Zenon DEF IsWalk
    <2> QED BY <2>1, <2>2, <2>3, Zenon DEF IsWalk
  <1>7. decodeCursor(w.cursor) \in Int
    BY <1>1 DEF IsWalk
  <1>8. ~v.left => NothingPassed(new, w.start, ToSet(w.seen), decodeCursor(w.cursor))
    <2> SUFFICES ASSUME ~v.left
                 PROVE  NothingPassed(new, w.start, ToSet(w.seen), decodeCursor(w.cursor))
      BY Zenon
    <2>1. NothingPassed(old, w.start, ToSet(w.seen), decodeCursor(w.cursor))
      BY <1>5, Zenon DEF OnItsWay
    <2>2. old \subseteq new
      BY <1>5, Zenon
    <2> QED BY <1>7, <2>1, <2>2, ChangePasses
  <1>9. ~v.came => NothingAgain(new, ToSet(w.seen), decodeCursor(w.cursor))
    <2> SUFFICES ASSUME ~v.came
                 PROVE  NothingAgain(new, ToSet(w.seen), decodeCursor(w.cursor))
      BY Zenon
    <2>1. NothingAgain(old, ToSet(w.seen), decodeCursor(w.cursor))
      BY <1>4, Zenon DEF OnItsWay
    <2>2. new \subseteq old
      BY <1>4, Zenon
    <2> QED BY <1>7, <2>1, <2>2, ChangePasses
  <1> QED BY <1>3, <1>6, <1>8, <1>9, Zenon DEF OnItsWay

LEMMA ChangesKeep ==
  ASSUME WalkInv, IsCatalogue(state)', walk' = Watched(state')
  PROVE  WalkInv'
  <1>1. CASE OnItsWay(walk, listed(state, walk.list, walk.provider))
    <2>1. PICK new : new = state'
      OBVIOUS
    <2>2. walk.list \in Lists /\ walk.at = "walking"
      BY <1>1 DEF OnItsWay, IsWalk
    <2>3. /\ IsIds(listed(state, walk.list, walk.provider))
          /\ IsIds(listed(new, walk.list, walk.provider))
      <3>1. IsCatalogue(state)
        BY DEF WalkInv
      <3>2. IsCatalogue(new)
        BY <2>1
      <3> QED BY <2>2, <3>1, <3>2, ListIds
    <2>4. PICK v : v = walk'
      OBVIOUS
    <2>5. v = [walk EXCEPT
                 !.came = @ \/ ~(listed(new, walk.list, walk.provider)
                                   \subseteq listed(state, walk.list, walk.provider)),
                 !.left = @ \/ ~(listed(state, walk.list, walk.provider)
                                   \subseteq listed(new, walk.list, walk.provider))]
      BY <2>1, <2>2, <2>4, Zenon DEF Watched
    <2>6. /\ OnItsWay(v, listed(new, walk.list, walk.provider))
          /\ v.list = walk.list /\ v.provider = walk.provider
      <3>1. PICK w, a, b : w = walk /\ a = listed(state, walk.list, walk.provider)
                           /\ b = listed(new, walk.list, walk.provider)
        OBVIOUS
      <3>2. PICK came, left : /\ came = (w.came \/ ~(b \subseteq a))
                              /\ left = (w.left \/ ~(a \subseteq b))
        OBVIOUS
      <3>3. v = [w EXCEPT !.came = came, !.left = left]
        BY <2>5, <3>1, <3>2, Zenon
      <3>4. OnItsWay(w, a) /\ IsIds(a) /\ IsIds(b)
        BY <1>1, <2>3, <3>1
      <3>5. Marked(w, came, left, v)
        BY <3>3, <3>4, Marking DEF OnItsWay
      <3>6. OnItsWay(v, b) /\ v.list = w.list /\ v.provider = w.provider
        BY <3>2, <3>4, <3>5, Goes
      <3> QED BY <3>1, <3>6
    <2>7. OnItsWay(v, listed(new, v.list, v.provider))
      BY <2>6
    <2> QED BY <2>1, <2>4, <2>7 DEF WalkInv
  <1>2. CASE IsWalked(walk) \/ IsOver(walk)
    <2>1. walk.at # "walking"
      BY <1>2 DEF IsWalked, IsOver
    <2>2. walk' = walk
      BY <2>1 DEF Watched
    <2> QED BY <1>2, <2>2 DEF WalkInv, IsWalked, IsOver
  <1> QED BY <1>1, <1>2 DEF WalkInv

\* A walk begins at the first place.
LEMMA BeginsWalk ==
  ASSUME NEW s, IsCatalogue(s), NEW list \in Lists, NEW provider, NEW tool,
         NEW limit \in Limits, list.kind = "workspaces" => ~tool, NEW w,
         w = [at |-> "walking", list |-> list, provider |-> provider,
              tool |-> tool, limit |-> limit, cursor |-> {}, seen |-> <<>>,
              start |-> listed(s, list, provider), came |-> FALSE, left |-> FALSE]
  PROVE  OnItsWay(w, listed(s, list, provider)) /\ w.list = list /\ w.provider = provider
  <1>1. PICK ids, none : ids = listed(s, list, provider) /\ none = <<>>
    OBVIOUS
  <1>2. /\ w.list = list /\ w.provider = provider /\ w.tool = tool
        /\ w.limit = limit /\ w.cursor = {} /\ w.seen = none /\ w.start = ids
        /\ w.came = FALSE /\ w.left = FALSE
    BY <1>1, Zenon
  <1>3. none \in Seq(Int) /\ DOMAIN none = {}
    BY <1>1
  <1>4. Once(none) /\ ToSet(none) = {}
    BY <1>3 DEF Once, ToSet
  <1>5. decodeCursor({}) = 0
    BY CursorFacts
  <1>6. IsWalk(w)
    <2>1. w = [at |-> "walking", list |-> w.list, provider |-> w.provider,
               tool |-> w.tool, limit |-> w.limit, cursor |-> w.cursor,
               seen |-> w.seen, start |-> w.start, came |-> w.came, left |-> w.left]
      BY <1>1, <1>2, Zenon
    <2>2. w.tool => w.list.kind # "workspaces"
      BY <1>2, Zenon
    <2>3. /\ w.list \in Lists /\ w.limit \in Limits /\ w.seen \in Seq(Int)
          /\ decodeCursor(w.cursor) \in Nat /\ Once(w.seen)
      BY <1>2, <1>3, <1>4, <1>5
    <2> QED BY <2>1, <2>2, <2>3, Zenon DEF IsWalk
  <1>7. \A x \in ids : 0 <= rank(ids, x)
    <2>1. IsIds(ids)
      BY <1>1, ListIds
    <2> QED BY <2>1, RankFacts
  <1>8. NothingPassed(ids, ids, {}, 0) /\ NothingAgain(ids, {}, 0)
    BY <1>7 DEF NothingPassed, NothingAgain
  <1>9. /\ NothingPassed(ids, w.start, ToSet(w.seen), decodeCursor(w.cursor))
        /\ NothingAgain(ids, ToSet(w.seen), decodeCursor(w.cursor))
    BY <1>2, <1>4, <1>5, <1>8
  <1> QED BY <1>1, <1>2, <1>6, <1>9, Zenon DEF OnItsWay

\* What the walk has shown after one more page, which ends before the e-th place.
HasShown(w, ids, e, seen) ==
  /\ seen \in Seq(Int)
  /\ ~w.left => NothingPassed(ids, w.start, ToSet(seen), e)
  /\ ~w.came => Once(seen) /\ NothingAgain(ids, ToSet(seen), e)

LEMMA PageShows ==
  ASSUME NEW ids, IsIds(ids), NEW w, OnItsWay(w, ids), NEW o, NEW k, NEW more,
         o = decodeCursor(w.cursor), k \in Nat, IsNext(ids, o, k, more),
         NEW seen, seen = w.seen \o more
  PROVE  HasShown(w, ids, o + k, seen)
  <1>1. /\ w.seen \in Seq(Int) /\ more \in Seq(Int) /\ o \in Nat /\ Once(more)
        /\ ~w.came => Once(w.seen)
    BY DEF OnItsWay, IsWalk, IsNext
  <1>2. PICK old : old = w.seen
    OBVIOUS
  <1>3. old \in Seq(Int)
    BY <1>1, <1>2
  <1>4. seen = old \o more
    BY <1>2
  <1>5. /\ seen \in Seq(Int)
        /\ ToSet(seen) = ToSet(old) \cup ToSet(more)
        /\ Once(old) /\ Once(more) /\ ToSet(old) \cap ToSet(more) = {} => Once(seen)
    BY <1>1, <1>3, <1>4, Joined
  <1>6. o \in Int /\ k \in Int /\ 0 <= k
    BY <1>1
  <1>7. ASSUME ~w.left PROVE NothingPassed(ids, w.start, ToSet(seen), o + k)
    <2>1. NothingPassed(ids, w.start, ToSet(old), o)
      BY <1>2, <1>7, Zenon DEF OnItsWay
    <2>2. PICK start, shown : start = w.start /\ shown = ToSet(old)
      OBVIOUS
    <2>3. NothingPassed(ids, start, shown, o)
      BY <2>1, <2>2
    <2>4. NothingPassed(ids, start, shown \cup ToSet(more), o + k)
      BY <1>6, <2>3, NextPasses
    <2> QED BY <1>5, <2>2, <2>4
  <1>8. ASSUME ~w.came PROVE Once(seen) /\ NothingAgain(ids, ToSet(seen), o + k)
    <2>1. NothingAgain(ids, ToSet(old), o)
      BY <1>2, <1>8, Zenon DEF OnItsWay
    <2>2. PICK shown : shown = ToSet(old)
      OBVIOUS
    <2>3. NothingAgain(ids, shown, o)
      BY <2>1, <2>2
    <2>4. /\ shown \cap ToSet(more) = {}
          /\ NothingAgain(ids, shown \cup ToSet(more), o + k)
      BY <1>6, <2>3, NextPasses
    <2>5. Once(old)
      BY <1>1, <1>2, <1>8, Zenon
    <2> QED BY <1>1, <1>5, <2>2, <2>4, <2>5
  <1> QED BY <1>5, <1>7, <1>8, Zenon DEF HasShown

Ended(w, seen, v) ==
  v = [at |-> "done", seen |-> seen, start |-> w.start,
       came |-> w.came, left |-> w.left]

\* The walk at its last page.
LEMMA Finishes ==
  ASSUME NEW ids, IsIds(ids), NEW w, NEW e, NEW seen, HasShown(w, ids, e, seen),
         e \in Int, \A x \in ids : rank(ids, x) < e, NEW v, Ended(w, seen, v)
  PROVE  IsWalked(v)
  <1>1. PICK b, x, y : b = w.start /\ x = w.came /\ y = w.left
    OBVIOUS
  <1>2. v = [at |-> "done", seen |-> seen, start |-> b, came |-> x, left |-> y]
    BY <1>1, Zenon DEF Ended
  <1>3. /\ v.at = "done" /\ v.seen = seen /\ v.start = b /\ v.came = x /\ v.left = y
    <2>1. v.at = "done" /\ v.seen = seen
      BY <1>2, Zenon
    <2>2. v.start = b
      BY <1>2, Zenon
    <2>3. v.came = x /\ v.left = y
      BY <1>2, Zenon
    <2> QED BY <2>1, <2>2, <2>3, Zenon
  <1>4. ASSUME NothingPassed(ids, b, ToSet(seen), e) PROVE b \subseteq ToSet(seen)
    <2>1. ASSUME NEW z \in b PROVE z \in ToSet(seen)
      <3>1. z \in ids /\ (z \in ToSet(seen) \/ e <= rank(ids, z))
        BY <1>4 DEF NothingPassed
      <3>2. rank(ids, z) \in Int /\ rank(ids, z) < e
        BY <3>1, RankFacts
      <3> QED BY <3>1, <3>2
    <2> QED BY <2>1
  <1>5. /\ seen \in Seq(Int)
        /\ ~y => b \subseteq ToSet(seen)
        /\ ~x => Once(seen)
    BY <1>1, <1>4, Zenon DEF HasShown
  <1> QED BY <1>3, <1>5, Zenon DEF IsWalked

\* v is the walk w with what has been shown by now, at the next cursor.
Turned(w, seen, cursor, v) ==
  v = [at |-> "walking", list |-> w.list, provider |-> w.provider,
       tool |-> w.tool, limit |-> w.limit, cursor |-> cursor, seen |-> seen,
       start |-> w.start, came |-> w.came, left |-> w.left]

LEMMA Turning ==
  ASSUME NEW w, IsWalk(w), NEW seen, NEW cursor, NEW v,
         v = [w EXCEPT !.seen = seen, !.cursor = cursor]
  PROVE  Turned(w, seen, cursor, v)
  <1>1. PICK l, p, t, m, c, s, b, x, y :
          /\ l = w.list /\ p = w.provider /\ t = w.tool /\ m = w.limit
          /\ c = w.cursor /\ s = w.seen /\ b = w.start
          /\ x = w.came /\ y = w.left
    OBVIOUS
  <1>2. w = [at |-> "walking", list |-> l, provider |-> p, tool |-> t, limit |-> m,
             cursor |-> c, seen |-> s, start |-> b, came |-> x, left |-> y]
    BY <1>1, Zenon DEF IsWalk
  <1>3. PICK q : q = [w EXCEPT !.seen = seen]
    OBVIOUS
  <1>4. q = [at |-> "walking", list |-> l, provider |-> p, tool |-> t, limit |-> m,
             cursor |-> c, seen |-> seen, start |-> b, came |-> x, left |-> y]
    BY <1>2, <1>3
  <1>5. v = [q EXCEPT !.cursor = cursor]
    BY <1>3, Zenon
  <1>6. v = [at |-> "walking", list |-> l, provider |-> p, tool |-> t, limit |-> m,
             cursor |-> cursor, seen |-> seen, start |-> b, came |-> x, left |-> y]
    BY <1>4, <1>5
  <1> QED BY <1>1, <1>6, Zenon DEF Turned

\* The walk at any other page.
LEMMA Continues ==
  ASSUME NEW ids, NEW w, OnItsWay(w, ids), NEW e, e \in Nat, NEW seen,
         HasShown(w, ids, e, seen), NEW cursor, cursor = {e}, NEW v,
         Turned(w, seen, cursor, v)
  PROVE  OnItsWay(v, ids) /\ v.list = w.list /\ v.provider = w.provider
  <1>1. PICK l, p, t, m, b, x, y :
          /\ l = w.list /\ p = w.provider /\ t = w.tool /\ m = w.limit
          /\ b = w.start /\ x = w.came /\ y = w.left
    OBVIOUS
  <1>2. IsWalk(w)
    BY DEF OnItsWay
  <1>3. v = [at |-> "walking", list |-> l, provider |-> p, tool |-> t, limit |-> m,
             cursor |-> cursor, seen |-> seen, start |-> b, came |-> x, left |-> y]
    BY <1>1, Zenon DEF Turned
  <1>4. /\ v.list = l /\ v.provider = p /\ v.tool = t /\ v.limit = m
        /\ v.cursor = cursor /\ v.seen = seen /\ v.start = b
        /\ v.came = x /\ v.left = y
    <2>1. v.list = l /\ v.provider = p /\ v.tool = t
      BY <1>3, Zenon
    <2>2. v.limit = m /\ v.cursor = cursor /\ v.seen = seen
      BY <1>3, Zenon
    <2>3. v.start = b /\ v.came = x /\ v.left = y
      BY <1>3, Zenon
    <2> QED BY <2>1, <2>2, <2>3, Zenon
  <1>5. v = [at |-> "walking", list |-> v.list, provider |-> v.provider,
             tool |-> v.tool, limit |-> v.limit, cursor |-> v.cursor,
             seen |-> v.seen, start |-> v.start, came |-> v.came, left |-> v.left]
    BY <1>3, <1>4, Zenon
  <1>6. decodeCursor(cursor) = e
    BY CursorFacts
  <1>7. /\ v.list \in Lists /\ v.limit \in Limits
        /\ v.tool => v.list.kind # "workspaces"
    BY <1>1, <1>2, <1>4, Zenon DEF IsWalk
  <1>8. decodeCursor(v.cursor) \in Nat /\ v.seen \in Seq(Int)
    BY <1>4, <1>6 DEF HasShown
  <1>9. /\ ~v.came => Once(v.seen) /\ NothingAgain(ids, ToSet(v.seen), e)
        /\ ~v.left => NothingPassed(ids, v.start, ToSet(v.seen), e)
    BY <1>1, <1>4, Zenon DEF HasShown
  <1>10. IsWalk(v)
    BY <1>5, <1>7, <1>8, <1>9, Zenon DEF IsWalk
  <1>11. decodeCursor(v.cursor) = e
    BY <1>4, <1>6
  <1> QED BY <1>1, <1>4, <1>9, <1>10, <1>11, Zenon DEF OnItsWay

LEMMA NextPageKeeps ==
  ASSUME WalkInv, NextPage
  PROVE  WalkInv'
  <1>1. /\ walk.at = "walking" /\ state' = state
        /\ \E answer \in answers("OK") :
             \/ answer.code # "OK" /\ walk' = [at |-> "failed"]
             \/ \E shown \in answer.result :
                  LET seen == walk.seen
                        \o [i \in DOMAIN shown.items |-> shown.items[i].id]
                  IN  IF shown.nextCursor = {}
                      THEN walk' = [at |-> "done", seen |-> seen, start |-> walk.start,
                                    came |-> walk.came, left |-> walk.left]
                      ELSE walk' = [walk EXCEPT !.seen = seen,
                                                !.cursor = shown.nextCursor]
    BY DEF NextPage
  <1>2. PICK s, w, v : s = state /\ w = walk /\ v = walk'
    OBVIOUS
  <1>3. IsCatalogue(s) /\ OnItsWay(w, listed(s, w.list, w.provider))
    BY <1>1, <1>2 DEF WalkInv, IsWalked, IsOver
  <1>4. SUFFICES \/ OnItsWay(v, listed(s, v.list, v.provider))
                 \/ IsWalked(v)
                 \/ IsOver(v)
    BY <1>1, <1>2, <1>3 DEF WalkInv
  <1>5. PICK answer \in answers("OK") :
             \/ answer.code # "OK" /\ walk' = [at |-> "failed"]
             \/ \E shown \in answer.result :
                  LET seen == walk.seen
                        \o [i \in DOMAIN shown.items |-> shown.items[i].id]
                  IN  IF shown.nextCursor = {}
                      THEN walk' = [at |-> "done", seen |-> seen, start |-> walk.start,
                                    came |-> walk.came, left |-> walk.left]
                      ELSE walk' = [walk EXCEPT !.seen = seen,
                                                !.cursor = shown.nextCursor]
    BY <1>1
  <1>6. CASE walk' = [at |-> "failed"]
    <2>1. v.at = "failed"
      BY <1>2, <1>6
    <2> QED BY <2>1 DEF IsOver
  <1>7. CASE \E shown \in answer.result :
               LET seen == walk.seen
                     \o [i \in DOMAIN shown.items |-> shown.items[i].id]
               IN  IF shown.nextCursor = {}
                   THEN walk' = [at |-> "done", seen |-> seen, start |-> walk.start,
                                 came |-> walk.came, left |-> walk.left]
                   ELSE walk' = [walk EXCEPT !.seen = seen,
                                             !.cursor = shown.nextCursor]
    <2>1. PICK page \in answer.result :
            LET seen == walk.seen \o [i \in DOMAIN page.items |-> page.items[i].id]
            IN  IF page.nextCursor = {}
                THEN walk' = [at |-> "done", seen |-> seen, start |-> walk.start,
                              came |-> walk.came, left |-> walk.left]
                ELSE walk' = [walk EXCEPT !.seen = seen, !.cursor = page.nextCursor]
      BY <1>7
    <2>2. PICK more : more = [i \in DOMAIN page.items |-> page.items[i].id]
      OBVIOUS
    <2>3. PICK seen : seen = w.seen \o more
      OBVIOUS
    <2>4. /\ page.nextCursor = {} =>
               v = [at |-> "done", seen |-> seen, start |-> w.start,
                    came |-> w.came, left |-> w.left]
          /\ page.nextCursor # {} =>
               v = [w EXCEPT !.seen = seen, !.cursor = page.nextCursor]
      BY <1>2, <2>1, <2>2, <2>3, Zenon
    <2>5. answer = LET asked == PageRequest(w.cursor, w.limit) IN
                   IF w.tool THEN askTool(s, w.list, w.provider, "OK", asked)
                   ELSE ask(s, w.list, w.provider, "OK", asked)
      BY <1>2, <1>5, Zenon DEF answers
    <2>6. IsWalk(w)
      BY <1>3 DEF OnItsWay
    <2>7. PICK o, ids : o = decodeCursor(w.cursor) /\ ids = listed(s, w.list, w.provider)
      OBVIOUS
    <2>8. \E k \in Nat \ {0} : PageOf(ids, o, k, page)
      BY <1>3, <2>5, <2>6, <2>7, WalkPaged
    <2>9. PICK k \in Nat \ {0} : PageOf(ids, o, k, page)
      BY <2>8
    <2>10. IsIds(ids) /\ o \in Nat
      BY <1>3, <2>6, <2>7, ListIds DEF IsWalk
    <2>11. /\ IsNext(ids, o, k, more)
           /\ page.nextCursor = {} => \A x \in ids : rank(ids, x) < o + k
           /\ page.nextCursor # {} => page.nextCursor = {o + k}
      BY <2>2, <2>9, <2>10, PageIsNext
    <2>12. PICK e : e = o + k
      OBVIOUS
    <2>13. e \in Nat /\ k \in Nat
      BY <2>10, <2>12
    <2>14. OnItsWay(w, ids)
      BY <1>3, <2>7
    <2>15. HasShown(w, ids, e, seen)
      BY <2>3, <2>7, <2>10, <2>11, <2>12, <2>13, <2>14, PageShows
    <2>16. CASE page.nextCursor = {}
      <3>1. \A x \in ids : rank(ids, x) < e
        BY <2>11, <2>12, <2>16
      <3>2. Ended(w, seen, v)
        BY <2>4, <2>16, Zenon DEF Ended
      <3>3. IsWalked(v)
        BY <2>10, <2>13, <2>15, <3>1, <3>2, Finishes
      <3> QED BY <3>3
    <2>17. CASE page.nextCursor # {}
      <3>1. PICK cursor : cursor = page.nextCursor
        OBVIOUS
      <3>2. cursor = {e} /\ v = [w EXCEPT !.seen = seen, !.cursor = cursor]
        BY <2>4, <2>11, <2>12, <2>17, <3>1, Zenon
      <3>3. Turned(w, seen, cursor, v)
        BY <2>6, <3>2, Turning
      <3>4. OnItsWay(v, ids) /\ v.list = w.list /\ v.provider = w.provider
        BY <2>13, <2>14, <2>15, <3>2, <3>3, Continues
      <3> QED BY <2>7, <3>4
    <2> QED BY <2>16, <2>17
  <1> QED BY <1>5, <1>6, <1>7

LEMMA WalkInvShows ==
  ASSUME WalkInv
  PROVE  EachShownOnce
  <1>1. ASSUME walk.at = "done", ~walk.left PROVE walk.start \subseteq Shown
    <2>1. IsWalked(walk)
      BY <1>1 DEF WalkInv, OnItsWay, IsWalk, IsOver
    <2> QED BY <1>1, <2>1, Zenon DEF IsWalked, Shown
  <1>2. ASSUME walk.at \in {"walking", "done"}, ~walk.came
        PROVE  Cardinality(Shown) = Len(walk.seen)
    <2>1. IsWalked(walk) \/ IsWalk(walk)
      BY <1>2 DEF WalkInv, OnItsWay, IsOver
    <2>2. walk.seen \in Seq(Int)
      BY <2>1 DEF IsWalked, IsWalk
    <2>3. Once(walk.seen)
      BY <1>2, <2>1, Zenon DEF IsWalked, IsWalk
    <2> QED BY <2>2, <2>3, OnceCounts DEF Shown
  <1> QED BY <1>1, <1>2, Zenon DEF EachShownOnce

LEMMA WalkInvAlways == WalkSpec => []WalkInv
  <1>1. WalkInit => WalkInv
    <2> SUFFICES ASSUME WalkInit PROVE WalkInv
      OBVIOUS
    <2>1. PICK none : none = <<>>
      OBVIOUS
    <2>2. DOMAIN none = {} /\ IsIds({})
      BY <2>1, FS_EmptySet DEF IsIds
    <2>3. state = [workspaces |-> {}, agents |-> none, traces |-> none]
      BY <2>1 DEF WalkInit, emptyCatalogue
    <2>4. IsCatalogue(state)
      BY <2>2, <2>3 DEF IsCatalogue
    <2>5. IsOver(walk)
      BY DEF WalkInit, Idle, IsOver
    <2> QED BY <2>4, <2>5 DEF WalkInv
  <1>2. WalkInv /\ [WalkNext]_walkVars => WalkInv'
    <2> SUFFICES ASSUME WalkInv, [WalkNext]_walkVars PROVE WalkInv'
      OBVIOUS
    <2>0. IsCatalogue(state)
      BY DEF WalkInv
    <2>1. CASE SeedAgent
      <3>1. IsCatalogue(state)' /\ walk' = Watched(state')
        BY <2>0, <2>1, SeededCatalogue DEF SeedAgent
      <3> QED BY <3>1, ChangesKeep
    <2>2. CASE AddVersion
      <3>1. IsCatalogue(state)' /\ walk' = Watched(state')
        BY <2>0, <2>2, AdvancedCatalogue DEF AddVersion
      <3> QED BY <3>1, ChangesKeep
    <2>3. CASE Begin
      <3>1. PICK list \in Lists, provider \in Providers, tool \in BOOLEAN,
                 limit \in Limits :
              /\ list.kind = "workspaces" => ~tool
              /\ walk' = [at |-> "walking", list |-> list, provider |-> provider,
                          tool |-> tool, limit |-> limit, cursor |-> {}, seen |-> <<>>,
                          start |-> listed(state, list, provider),
                          came |-> FALSE, left |-> FALSE]
        BY <2>3, Zenon DEF Begin
      <3>2. PICK s, w : s = state /\ w = walk'
        OBVIOUS
      <3>3. w = [at |-> "walking", list |-> list, provider |-> provider,
                 tool |-> tool, limit |-> limit, cursor |-> {}, seen |-> <<>>,
                 start |-> listed(s, list, provider), came |-> FALSE, left |-> FALSE]
        BY <3>1, <3>2, Zenon
      <3>4. /\ OnItsWay(w, listed(s, list, provider))
            /\ w.list = list /\ w.provider = provider
        BY <2>0, <3>1, <3>2, <3>3, BeginsWalk
      <3>5. state' = state
        BY <2>3 DEF Begin
      <3> QED BY <2>0, <3>2, <3>4, <3>5 DEF WalkInv
    <2>4. CASE NextPage
      BY <2>4, NextPageKeeps
    <2>5. CASE Refused
      <3>1. state' = state /\ IsOver(walk)'
        BY <2>5 DEF Refused, IsOver
      <3> QED BY <2>0, <3>1 DEF WalkInv
    <2>6. CASE UNCHANGED walkVars
      BY <2>6 DEF walkVars, WalkInv
    <2> QED BY <2>1, <2>2, <2>3, <2>4, <2>5, <2>6 DEF WalkNext
  <1> QED BY <1>1, <1>2, PTL DEF WalkSpec

\* Whoever follows the cursors of mock-provider.ts:75-85 to the end has seen what
\* was in the list when they began, unless something left it, and nothing twice,
\* unless something came: for any catalogue, page size and list, through the
\* provider, the HTTP client or the tools.  What the HTTP client asks for is the
\* list of the encoded id, which is that of the id unless the id needs encoding.
THEOREM EachShownOnceAlways == WalkSpec => []EachShownOnce
  BY WalkInvAlways, WalkInvShows, PTL

-----------------------------------------------------------------------------
(* One provider, here and over HTTP *)

\* The events that fit are counted: there is a first one that does not, or none.
LEMMA FittingFacts ==
  ASSUME NEW S, NEW events \in Seq(S), NEW budget
  PROVE  fitting(events, budget) \in 0 .. Len(events)
  <1> DEFINE fits(m) == used(events, m) <= budget
             Fit(n) == /\ \A m \in 1 .. n : fits(m)
                       /\ n < Len(events) => ~fits(n + 1)
  <1>1. fitting(events, budget) = CHOOSE n \in 0 .. Len(events) : Fit(n)
    BY DEF fitting
  <1>2. \E n \in 0 .. Len(events) : Fit(n)
    <2> HIDE DEF fits
    <2>1. PICK l \in Nat : l = Len(events)
      OBVIOUS
    <2>2. PICK over : over = {m \in 1 .. l : ~fits(m)}
      OBVIOUS
    <2>3. CASE over = {}
      <3>1. \A m \in 1 .. l : fits(m)
        BY <2>2, <2>3
      <3> QED BY <2>1, <3>1
    <2>4. CASE over # {}
      <3>1. IsIds(over)
        <4>1. over \in SUBSET (1 .. l)
          BY <2>2
        <4>2. IsFiniteSet(1 .. l)
          <5>1. PICK a : a = 1
            OBVIOUS
          <5>2. IsFiniteSet(a .. l)
            BY <5>1, FS_Interval
          <5> QED BY <5>1, <5>2
        <4>3. IsFiniteSet(over)
          BY <4>1, <4>2, FS_Subset
        <4>4. over \subseteq Int
          BY <4>1
        <4> QED BY <4>3, <4>4 DEF IsIds
      <3>2. Cardinality(over) \in Nat /\ Cardinality(over) # 0
        BY <2>4, <3>1, FS_EmptySet, FS_CardinalityType DEF IsIds
      <3>3. 1 \in 1 .. Cardinality(over)
        BY <3>2
      <3>4. PICK x \in over : rank(over, x) = 1 - 1
        BY <3>1, <3>3, RankReaches
      <3>5. Before(over, x) = {}
        <4>1. IsFiniteSet(Before(over, x))
          BY <3>1, FS_Subset DEF Before, IsIds
        <4>2. Cardinality(Before(over, x)) = 0
          BY <3>4 DEF rank
        <4> QED BY <4>1, <4>2, FS_EmptySet
      <3>6. x \in 1 .. l /\ ~fits(x) /\ \A m \in 1 .. l : m < x => fits(m)
        BY <2>2, <3>5 DEF Before
      <3>7. PICK n : n = x - 1
        OBVIOUS
      <3>8. n \in 0 .. l /\ n + 1 = x
        BY <2>1, <3>6, <3>7
      <3>9. \A m \in 1 .. n : m \in 1 .. l /\ m < x
        BY <2>1, <3>6, <3>7
      <3>10. \A m \in 1 .. n : fits(m)
        BY <3>6, <3>9
      <3>11. ~fits(n + 1)
        BY <3>6, <3>8
      <3>12. Fit(n)
        BY <3>10, <3>11
      <3> QED BY <2>1, <3>8, <3>12
    <2> QED BY <2>3, <2>4
  <1> QED BY <1>1, <1>2

\* What a trace says in a budget.
TraceIn(s, id, n) ==
  Trace(id, s.traces[id],
        [i \in 1 .. n |-> redactValue(s.traces[id].events[i])],
        UNION {event.secrets : event \in ToSet(s.traces[id].events)},
        n < Len(s.traces[id].events))

LEMMA TracesTell ==
  ASSUME NEW s, NEW id, NEW S, s.traces[id].events \in Seq(S),
         id \in DOMAIN s.traces, NEW budget
  PROVE  \E n \in Nat : getTrace(s, "OK", id, budget) = Answer(TraceIn(s, id, n))
  <1>1. PICK events : events = s.traces[id].events
    OBVIOUS
  <1>2. PICK n : n = fitting(events, Clamp(budget, MinBudget, MaxBudget))
    OBVIOUS
  <1>3. n \in Nat
    BY <1>1, <1>2, FittingFacts
  <1>4. getTrace(s, "OK", id, budget) = Answer(TraceIn(s, id, n))
    BY <1>1, <1>2 DEF getTrace, checkAvailable, requireScope, TraceIn
  <1> QED BY <1>3, <1>4

LEMMA TracesDiffer ==
  ASSUME NEW s, NEW id, NEW m \in Nat, NEW n \in Nat, m # n
  PROVE  Len(TraceIn(s, id, m).events) # Len(TraceIn(s, id, n).events)
  <1>1. ASSUME NEW k \in Nat PROVE Len(TraceIn(s, id, k).events) = k
    <2>1. PICK events : events = [i \in 1 .. k |-> redactValue(s.traces[id].events[i])]
      OBVIOUS
    <2>2. TraceIn(s, id, k).events = events
      BY <2>1 DEF TraceIn, Trace
    <2>3. Len(events) = k
      <3>1. DOMAIN events = 1 .. k
        BY <2>1
      <3> QED BY <2>1, <3>1
    <2> QED BY <2>2, <2>3
  <1> QED BY <1>1

\* What is optional on the wire is there when the provider has sent it.
LEMMA IdentityTheSame ==
  ASSUME NEW s, NEW gate
  PROVE  httpGetIdentity(s, gate) = getIdentity(s, gate)
  <1>1. PICK ids, i : ids = Sorted(s.workspaces) /\ i = Identity(ids)
    OBVIOUS
  <1>2. receiveIdentity(sendIdentity(i)) = i
    <2>1. i = [workspaceIds |-> ids]
      BY <1>1 DEF Identity
    <2>2. sendIdentity(i) = [workspaceIds |-> {ids}]
      BY <2>1 DEF sendIdentity
    <2>3. Or({ids}, <<>>) = ids
      BY DEF Or
    <2> QED BY <1>1, <2>2, <2>3 DEF receiveIdentity
  <1>3. PICK code, result : /\ getIdentity(s, gate) = [code |-> code, result |-> result]
                            /\ result \subseteq {i}
    <2>1. \/ getIdentity(s, gate) = [code |-> "UNAVAILABLE", result |-> {}]
          \/ getIdentity(s, gate) = [code |-> "OK", result |-> {i}]
      BY <1>1 DEF getIdentity, checkAvailable, ProviderError, Answer
    <2> QED BY <2>1
  <1>4. {receiveIdentity(sendIdentity(x)) : x \in result} = result
    BY <1>2, <1>3
  <1>5. PICK answer : answer = getIdentity(s, gate)
    OBVIOUS
  <1>6. httpGetIdentity(s, gate)
          = [answer EXCEPT !.result =
               {receiveIdentity(sendIdentity(x)) : x \in answer.result}]
    BY <1>5, Zenon DEF httpGetIdentity
  <1>7. answer = [code |-> code, result |-> result] /\ answer.result = result
    BY <1>3, <1>5
  <1>8. httpGetIdentity(s, gate) = [answer EXCEPT !.result = result]
    BY <1>4, <1>6, <1>7
  <1> QED BY <1>5, <1>7, <1>8

\* A list is answered the same way, unless the limit is refused.
LEMMA ListsTheSame ==
  ASSUME NEW s, IsCatalogue(s), NEW list \in Lists, NEW gate, NEW page, IsPage(page),
         list.kind = "workspaces" \/ ~NeedsEncoding(list.of)
  PROVE  \/ ask(s, list, "http", gate, page) = ask(s, list, "mock", gate, page)
         \/ /\ page.limit # {} /\ Or(page.limit, 1) \notin 1 .. WireLimit
            /\ ask(s, list, "http", gate, page).code = "VALIDATION_FAILED"
  <1>1. PICK here, there : /\ here = ask(s, list, "mock", gate, page)
                           /\ there = ask(s, list, "http", gate, page)
    OBVIOUS
  <1>2. IsAnswer(here)
    BY <1>1, AskPaged DEF IsPageOf
  <1>3. there = overHttp(page, here)
    <2>1. CASE list.kind = "workspaces"
      BY <1>1, <2>1 DEF ask, httpListWorkspaces
    <2>2. CASE list.kind = "agents"
      BY <1>1, <2>2 DEF ask, httpListAgents, NeedsEncoding
    <2>3. CASE list.kind = "traces"
      BY <1>1, <2>3 DEF ask, httpListTraces, NeedsEncoding
    <2> QED BY <2>1, <2>2, <2>3, ListIsOne
  <1>4. there = IF page.limit # {} /\ Or(page.limit, 1) \notin 1 .. WireLimit
                THEN ProviderError("VALIDATION_FAILED") ELSE here
    BY <1>2, <1>3, OverHttpFacts
  <1> QED BY <1>1, <1>4, ErrorFacts

\* A trace is the same, unless more of it fits into the budget of one side.
TellsTheSame(here, there) ==
  \/ here = there
  \/ \E h \in here.result, t \in there.result :
       h.truncated # t.truncated \/ Len(h.events) # Len(t.events)

LEMMA TracesTheSame ==
  ASSUME NEW s, IsCatalogue(s), NEW gate \in Conditions, NEW id,
         ~NeedsEncoding(id), NEW args
  PROVE  TellsTheSame(raia_trace_get(s, "mock", gate, id, args),
                      raia_trace_get(s, "http", gate, id, args))
  <1>1. PICK budget : budget = Or(args.maxBytes, ToolLimits["raia_trace_get"].default)
    OBVIOUS
  <1>2. PICK here, there : /\ here = raia_trace_get(s, "mock", gate, id, args)
                           /\ there = raia_trace_get(s, "http", gate, id, args)
    OBVIOUS
  <1>3. \/ here = there
        \/ here = getTrace(s, gate, id, budget) /\ there = getTrace(s, gate, id, WireBudget)
    BY <1>1, <1>2 DEF raia_trace_get, httpGetTrace, NeedsEncoding
  <1>4. CASE gate # "OK"
    <2>1. \A b : getTrace(s, gate, id, b)
                  = ProviderError(gate)
      BY <1>4 DEF getTrace, checkAvailable, requireScope, Conditions
    <2> QED BY <1>2, <1>3, <2>1 DEF TellsTheSame
  <1>5. CASE id \notin DOMAIN s.traces
    <2>1. \A b : getTrace(s, gate, id, b)
                  = checkAvailable(gate, requireScope(gate, ProviderError("NOT_FOUND")))
      BY <1>5 DEF getTrace
    <2> QED BY <1>2, <1>3, <2>1 DEF TellsTheSame
  <1>6. CASE /\ gate = "OK" /\ id \in DOMAIN s.traces
             /\ here = getTrace(s, gate, id, budget)
             /\ there = getTrace(s, gate, id, WireBudget)
    <2>1. s.traces[id].events \in Seq(ToSet(s.traces[id].events))
      <3>1. id \in DOMAIN TraceFixtures /\ s.traces[id].events = TraceFixtures[id].events
        BY <1>6 DEF IsCatalogue
      <3> QED BY <3>1, TracesAreSequences
    <2>2. PICK S : S = ToSet(s.traces[id].events)
      OBVIOUS
    <2>3. s.traces[id].events \in Seq(S)
      BY <2>1, <2>2
    <2>4. PICK m \in Nat : here = Answer(TraceIn(s, id, m))
      BY <1>6, <2>3, TracesTell
    <2>5. PICK n \in Nat : there = Answer(TraceIn(s, id, n))
      BY <1>6, <2>3, TracesTell
    <2>6. PICK h, t : h = TraceIn(s, id, m) /\ t = TraceIn(s, id, n)
      OBVIOUS
    <2>7. h \in here.result /\ t \in there.result
      BY <2>4, <2>5, <2>6, AnswerFacts
    <2>8. CASE m = n
      BY <1>2, <2>4, <2>5, <2>8 DEF TellsTheSame
    <2>9. CASE m # n
      <3>1. Len(h.events) # Len(t.events)
        BY <2>6, <2>9, TracesDiffer
      <3> QED BY <1>2, <2>7, <3>1 DEF TellsTheSame
    <2> QED BY <2>8, <2>9
  <1>7. CASE here = there
    BY <1>2, <1>7 DEF TellsTheSame
  <1> QED BY <1>3, <1>4, <1>5, <1>6, <1>7

LEMMA WalkInvTells ==
  ASSUME WalkInv
  PROVE  SameOverTheWire
  <1>1. IsCatalogue(state)
    BY DEF WalkInv
  <1>2. ASSUME NEW page \in Pages PROVE IsPage(page)
    <2>1. PICK n : n = Cardinality(DOMAIN state.agents) + 1
      OBVIOUS
    <2>2. n \in Int
      BY <1>1, <2>1, FS_CardinalityType DEF IsCatalogue, IsIds
    <2>3. PICK c, l : c = page.cursor /\ l = page.limit
      OBVIOUS
    <2>4. c \in Optional(-1 .. n) /\ l \in Optional(0 .. WireLimit + 1)
      BY <1>2, <2>1, <2>3 DEF Pages
    <2>5. -1 .. n \subseteq Int /\ 0 .. WireLimit + 1 \subseteq Int
      BY <2>2, LimitsArePositive
    <2>6. decodeCursor(c) \in Int
      <3>1. c = {} \/ \E x \in -1 .. n : c = {x}
        BY <2>4 DEF Optional
      <3>2. ASSUME NEW x \in -1 .. n, c = {x} PROVE decodeCursor(c) \in Int
        BY <2>5, <3>2, CursorFacts
      <3>3. c = {} => decodeCursor(c) \in Int
        BY DEF decodeCursor, Or
      <3> QED BY <3>1, <3>2, <3>3
    <2>7. l \subseteq Int /\ \A x, y \in l : x = y
      BY <2>4, <2>5 DEF Optional
    <2>8. pageLimit(l) \in Nat \ {0}
      BY <2>7, LimitFacts
    <2> QED BY <2>3, <2>6, <2>8 DEF IsPage
  <1>3. ASSUME NEW gate \in Conditions, NEW list \in Lists,
               list.kind = "workspaces" \/ ~NeedsEncoding(list.of)
        PROVE  ListsAlike(list, gate)
    BY <1>1, <1>2, <1>3, ListsTheSame DEF ListsAlike
  <1>4. ASSUME NEW gate \in Conditions, NEW id \in AgentIds, ~NeedsEncoding(id)
        PROVE  ExportsAlike(id, gate)
    BY <1>4 DEF ExportsAlike, raia_agent_export, httpExportAgent, NeedsEncoding
  <1>5. ASSUME NEW gate \in Conditions, NEW id \in DOMAIN TraceFixtures,
               ~NeedsEncoding(id)
        PROVE  TracesAlike(id, gate)
    <2>1. ASSUME NEW args
          PROVE  TellsTheSame(raia_trace_get(state, "mock", gate, id, args),
                              raia_trace_get(state, "http", gate, id, args))
      BY <1>1, <1>5, TracesTheSame
    <2> QED BY <2>1, Zenon DEF TracesAlike, TellsTheSame
  <1> QED BY <1>3, <1>4, <1>5, IdentityTheSame, Zenon DEF SameOverTheWire

\* Both providers of BUILD_SPEC 18 answer alike, for any catalogue, traces and
\* limits and every id that a path can hold as it is: http-provider.ts behind
\* server.ts is mock-provider.ts, up to the limits that server.ts refuses and to
\* the budget in which it reads a trace.  Ids that need encoding are left out,
\* since the server does not decode what the client encodes.
THEOREM SameOverTheWireAlways == WalkSpec => []SameOverTheWire
  BY WalkInvAlways, WalkInvTells, PTL
=============================================================================
