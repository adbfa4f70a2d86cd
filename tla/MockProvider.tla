---------------------------- MODULE MockProvider ----------------------------
(***************************************************************************)
(* The mock management provider with one request at a time: every          *)
(* operation of MockManagementProvider that may write the store, as an     *)
(* atomic step of the handlers of ProviderState.  Reads that write nothing *)
(* (exportAgent, listAgents, getTrace, ...) are not steps.                 *)
(***************************************************************************)
EXTENDS ProviderState

CONSTANTS
  Contexts,     \* mutation contexts that callers present
  MaxVersions, MaxDrafts, MaxReleases, MaxDeployments   \* bounds of a run

ASSUME ContextsAreContexts == Contexts \subseteq MutationContexts

VARIABLE store      \* the contents of state.json

vars == <<store>>

WithinBounds(s) ==
  /\ Len(s.versions) <= MaxVersions
  /\ Len(s.drafts) <= MaxDrafts
  /\ Len(s.releases) <= MaxReleases
  /\ Len(s.deployments) <= MaxDeployments

\* StateStore.update: what the handler made of the store is written back, even
\* when nothing changed; a handler that throws writes nothing.
Update(outcome) ==
  /\ WithinBounds(outcome.store)
  /\ store' = outcome.store

Init == store = emptyState

SeedFromFixture ==
  \E bundle \in Bundles :
    /\ WithinBounds(Seed(store, bundle))
    /\ store' = Seed(store, bundle)

AdvanceVersion ==
  \E bundle \in Bundles :
    /\ Current(store) # 0
    /\ WithinBounds(Advance(store, bundle))
    /\ store' = Advance(store, bundle)

CreateDraft ==
  \E context \in Contexts, manifest \in Candidates :
    Update(createDraft(store, context, manifest))

CreateReleaseCandidate ==
  \E context \in Contexts, candidate \in Candidates,
     evidence \in SUBSET Evidence :
    Update(createReleaseCandidate(store, context, candidate, evidence))

CreateDeployment ==
  \E context \in Contexts, release \in 1 .. Len(store.releases) + 1,
     environment \in Environments \cup {"production"},
     outcome \in {"healthy", "failed"} :
    Update(createDeployment(store, context, release, environment, outcome))

Poll(id) == \E gate \in Gates : Update(getDeployment(store, gate, id))
GetDeployment == \E id \in 1 .. Len(store.deployments) + 1 : Poll(id)

RollbackDeployment ==
  \E context \in Contexts, id \in 1 .. Len(store.deployments) + 1,
     reason \in Reasons \cup {Blank} :
    Update(rollbackDeployment(store, context, id, reason))

Next ==
  \/ SeedFromFixture
  \/ AdvanceVersion
  \/ CreateDraft
  \/ CreateReleaseCandidate
  \/ CreateDeployment
  \/ GetDeployment
  \/ RollbackDeployment

Spec == Init /\ [][Next]_vars

-----------------------------------------------------------------------------
(* What the provider promises *)

\* The store keeps the shape of MockState (state.ts).
TypeOK == IsMockState(store)

\* An environment never has two HEALTHY deployments, in whatever order the
\* polls of the deployments in flight arrive (getDeployment).
OneHealthyPerEnvironment == OneHealthy(store)

\* No deployment in flight is stuck without a next step, and no settled one has
\* a step left (getDeployment, rollbackDeployment).
PlansInStep == PlansAgree(store)

\* A rollback target is an older deployment of the same environment that has
\* been HEALTHY or was rolled back since: never the deployment itself, one that
\* stays FAILED or one that never finished (createDeployment).
RollbackTargetsSound == TargetsSound(store)

\* Every release and every deployment was created under exactly one key, by the
\* request that key is bound to, and each recorded response names an object that
\* exists: no retry created a second object, no key lost its object (#idempotent,
\* #nextId).
CreatedOnce == ReleasesCreatedOnce(store) /\ DeploymentsCreatedOnce(store)

\* No step rewrites history: releases, deployments and idempotency records are
\* only added to, and a deployment's state moves only along the lifecycle table,
\* also the states that a poll of another deployment changes.
NothingForgotten ==
  /\ \A i \in DOMAIN store.releases :
       /\ i \in DOMAIN store'.releases
       /\ store'.releases[i] = store.releases[i]
  /\ \A k \in DOMAIN store.idempotency :
       /\ k \in DOMAIN store'.idempotency
       /\ store'.idempotency[k] = store.idempotency[k]
StatesFollowTable ==
  \A i \in DOMAIN store.deployments :
    /\ i \in DOMAIN store'.deployments
    /\ \/ store'.deployments[i].state = store.deployments[i].state
       \/ decideDeploymentTransition(store.deployments[i].state,
                                     store'.deployments[i].state)
HistoryOnlyGrows == [][NothingForgotten /\ StatesFollowTable]_vars

\* A release is created against the version the agent has at that moment: a
\* stale base or ETag creates nothing.  (The caller's base version is recorded,
\* so a missing check would record one the remote has left.)
ReleasedAtCurrentBase ==
  [][Len(store'.releases) > Len(store.releases)
       => store'.releases[Len(store'.releases)].base = Current(store)]_vars

-----------------------------------------------------------------------------
(* Progress *)

\* A caller that waits for a deployment polls it until it settles
\* (commands/deploy.ts:88), so a poll that is due is eventually made.
Fairness == \A id \in 1 .. MaxDeployments : WF_vars(Poll(id))
FairSpec == Spec /\ Fairness

\* Polls bring every deployment to rest, rollbacks included.
IsInFlight(id) ==
  /\ id \in DOMAIN store.deployments
  /\ store.deployments[id].state \in InFlight
Settles(id) == IsInFlight(id) ~> ~IsInFlight(id)
DeploymentsSettle == \A id \in 1 .. MaxDeployments : Settles(id)

=============================================================================
