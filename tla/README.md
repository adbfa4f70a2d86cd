# raia Agent DevKit in TLA+

Specifications of the state machines behind the DevKit: the release lifecycle, the mock management
provider and its file store, the HTTP client and server in front of it, what they answer to reads,
the project directory and how it is written, evaluation and its gate, the semantic diff, the CLI
commands that carry a project from evaluation to a staging deployment, and the MCP tools that an
agent does the same with. TLC checks them on small instances; TLAPS proves theorems about the
provider, its file, the HTTP calls, the commands, the tools, evaluation and chains of diffs for every
value of the constants.

Paths below are relative to the repository, `packages/` unless said otherwise.

## 1. The system

| Part | State it keeps | Operations | Talks to |
|---|---|---|---|
| Lifecycle tables (`core/src/lifecycle/lifecycle.ts`) | none | two transition decisions | used by everything below |
| Workflow state (`core/src/lifecycle/workflow-state.ts`) | `.raia/workflow-state.json`: stage, candidate identity, evidence, history, remote references | initial, reconcile, transition, load, save | CLI commands |
| CLI commands (`cli/src/commands`) | reports under `reports/latest`, the workflow file | init, validate, diff, test, review, status, doctor, release create, deploy staging | core, evaluation engine, provider |
| Readiness and release policy (`cli/src/readiness.ts`, `core/src/policy`) | none | aggregate verdict over lock, validation, remote, report | CLI, MCP server |
| Mock management provider (`provider-mock`) | `state.json`: agents and versions, drafts, releases, deployments, idempotency records, counters | seed, advance, drafts, releases, deployments, polls, rollbacks, exports, traces | `StateStore` |
| State store (`provider-mock/src/state.ts`) | the file itself | read, update | file system |
| HTTP provider (`provider-http`) | none across calls | every provider operation with retries | management API server |
| Management API server (`apps/mock-management-api`) | none; one shared provider | routes, status mapping | provider |
| Evaluation engine (`eval-engine`) | none | run, gate, baseline comparison, reports | `raia test`, MCP |
| Conversation client (`conversation-client`) | none | create conversation, send message, live executor | external runtime |
| MCP server (`mcp-server`) | none of its own | tools over the provider and the workflow functions | provider, core |
| Project files (`cli/src/project-files.ts`, `project-writer.ts`) | the project directory | pull: several atomic file writes | init, MCP pull, proposals from traces |
| Validation, manifest, lock, diff, redaction, paths (`core`) | none | pure functions | everybody |

What makes it hard:

* **Everything is a file and nothing is locked.** A command reads, awaits and writes; the sources,
  the report, the workflow file and `state.json` may change at each `await`, by another command,
  an edit or another request to one server.
* **A command can end anywhere.** The lifecycle promises to resume from what was saved.
* **Replies get lost.** The one remote mutation of a release is protected by an idempotency key
  derived from content; the HTTP client retries under that key.
* **Deployments only move when polled**, supersede each other, fail, and are rolled back.
* **Tools compare, then run.** An MCP tool checks what its caller named, throws away what it read,
  and runs the command, which reads everything again.
* **Listings are walked while they change.** A cursor is an offset into a list made anew.
* **Evidence must belong to the candidate.** Hashes of sources bind evaluation, workflow and
  release together, and sources change.

What each part has to guarantee is stated with its module in section 3; `PROJECT.json` lists the
hazards line by line with the properties that cover them.

## 2. Modules

```
Lifecycle ──> ProviderState ──> MockProvider ──────> MockProviderProofs     (theorems)
    │               │  │  │          ^                     ^
    │               │  │  │          │ implemented by      │
    │               │  │  └──> StateStore ─────────────> StateStoreProofs   (theorems)
    │               │  │                                   ^
    │               │  └──────> ProviderStateProofs ───────┤ (lemmas)
    │               │                                      v
    │               ├─────────> ManagementApi ─────────> ManagementApiProofs (theorems)
    │               │                                      ^
    └─> WorkflowState ──> ReleaseFlow ──> McpTools ──> McpToolsProofs       (theorems, of both)

ProviderReads ──> Listings                 (mock, HTTP and tools; reads and pages)
                     └──────────────────> MockProviderProofs                (theorems, of both)
Project ──> ProjectWriter                  (init, pull, proposals, validate, edits, kills)
    │           └──────────────────────────> ProjectWriterProofs            (theorems)
    └─────> EvaluationRuns <── Evaluation  (raia test, live mode, readiness)
                └──────────────────────────> EvaluationRunsProofs           (theorems)
SemanticDiff ──> ReviewedReleases ─────────> ReviewedReleasesProofs         (theorems)
```

`MC*.tla` give the constants values; each `.cfg` is one question.

**Lifecycle** holds the two transition tables and decisions (`lifecycle.ts:9-55`).

**ProviderState** has every handler of `mock-provider.ts` that changes state, as a function from
the stored state and the request to the new state and the reply, exactly the shape of the `mutate`
argument of `StateStore.update`. It can so be run atomically (MockProvider), between a read and a
write (StateStore), behind a network (ManagementApi) and from the commands (ReleaseFlow) without
being written twice. One agent is kept; version `v<n>` and its ETag are the number n; drafts,
releases and deployments are sequences indexed by their counters, since nothing deletes them;
hashes of requests are the requests.

**MockProvider** is the provider as one atomic request at a time: the abstract specification.
`store` is `state.json`. Each action is one handler for any context, key and argument of the
constants, with the fixtures (`unavailable`, missing scopes, failing deployments) chosen freely.

**StateStore** splits an update into read, open, fill, rename, with directory entries and files
apart, so that a rename of a file someone else has open does what the file system does. Writers
crash at every step. The temporary name of each writer is a constant (`TempName`): two may have the
same. `ImplementsProvider` is the refinement: one writer implements
`MockProvider!Spec` with `store <- Contents.state`, every step but a rename stuttering.

**WorkflowState** has `initialWorkflowState`, `reconcileCandidate`, `applyTransition`. The
identity beside the candidate hash (base version, ETag, manifest and lock hash) is one number, the
base version. Evidence keeps its type, candidate and, for evaluations, the run.

**ReleaseFlow** runs `raia test`, `raia release create` and `raia deploy staging` in shells. A
command is a sequence of steps, one per access to something shared, and whatever it computes between
two accesses belongs to the step: read the lock, validate, ask the remote, read the report, load the
workflow, save each stage, submit, save; load, validate, deploy, poll, record. Between any two steps
the sources may be edited (or pulled), the remote may advance, another shell may step, and the
command may end (`EndEarly`: error, lost reply, missing `--yes`, kill, or a refusal, which the
command reports and stops at). `MayBeRefused` names the places where the state itself makes a
command stop; an end anywhere else is `CutShort`. Project contents are their candidate hash;
validation reads them in one step. Drift is looked for on the first page of the agents only, so
`CheckRemote` may find the agent there or not (`OnFirstPage`). A command starts by hand
(`StartTest`) or from a tool (`BeginTest`). A policy verdict is the conjunction the default policy
comes to (`Ready`).

**McpTools** is the agent's way to the same: the tools that evaluate, release, deploy, poll and
report, each called with the candidate, evidence or release that its caller believes in, as a
comparison followed by the command of ReleaseFlow, beside developers who run the commands
themselves. `raia_context_get` reads the sources and, after the provider, the workflow, and
`told` is where it answers. `call` keeps what a caller named, and whether that has changed since it
was compared (`overtaken`); nothing in the code reads it. Of the status, the model has the
candidate, the stage and the references to release and deployment; not the validation, the drift
and the validation report that it also tells.

**ManagementApi** puts the HTTP client in front of the server and the provider. A call
(`client[c]`) is a number of attempts under one key; an attempt is on the `wire`, then `open` at
the server with the store it read and the outcome it computed from it, then written and answered.
The client may give up on an attempt in any of these places (`Fail`: timeout, broken connection, an
answer that is no JSON; `Intercept`: a gateway's status without a problem body) and retry with
backoff, jitter and Retry-After; or end with nothing (`EndWithout`: an answer cut off in its body,
which is read outside the `try` of `transport.ts:63` and so never retried, or an empty success). The
server handles the attempt all the same. `MaxOpen` is how many requests the server has read and not
yet written. Nothing locks the store, neither for them nor for whoever changes the agent
(`RemoteReads`, `RemoteAdvances`), so each writes all of what it read, changed, over whatever came
since. Two history variables remember what that takes away: `erased`, the keys whose record was
lost, and `setBack`, whether the agent went back to an older version. `Scenarios` are the calls each
client makes. A call counts as carried out when its key is bound to the request that the server
hashes of it (`CanonicalRequest`).

**ProviderReads** has every read of the provider as a function from the stored catalogue to an
answer: identity, workspaces, agents, exports, traces with redaction, budget and truncation, and
`paginate` with its cursors and clamped limits; and then the same question as the HTTP client puts
it to the server, with the server's checks of the query, and as a tool puts it, with the defaults
and bounds of its schema. An id that a path cannot hold as it is has a percent-encoded form
(`Encodings`), which the client sends and the server does not decode. **Listings** walks them: a
caller follows the cursors of a list while agents are seeded, moved to another workspace and
advanced between the pages.

**Project** is what is read out of a directory: references and where they resolve, manifest,
artifacts, suites with their fixtures, policy, lock, the findings of validation and the candidate. A
directory is a function from paths to contents; a file whose text differs but parses to the same is
the same here, and a manifest with two parts of one name (`validate.ts:87`) is malformed. A hash is
the thing hashed, so two hashes are equal when what is hashed is equal. How a reference is spelled
is kept (`PosixRelative`), because the code sometimes uses the reference and sometimes the path.

**ProjectWriter** runs init and pull over it. A command seeds or chooses a version, plans its
writes from the lock and `.gitignore` that are there, compares all files, renames them into place
one by one, and loads the result. Edits, a remote advance, a validation or a kill can fall between
any two of these. The comparisons are one step: each looks at its own file, so an edit of another
file in between commutes with them. `Propose` is the trace-to-evaluation tool: it makes a suite
and a fixture of a trace and writes the two, one after the other, where no such file is. There is
one command at a time, the region is fixed, and the seeding of `raia init --fixture` and the export
that follows it are one step.

**Evaluation** has the pure part of `eval-engine` and of the release policy: assertions over an
observation, implicit tool and state checks, statuses of repetitions and cases, gate, pass rate in
ten-thousandths, run id, baseline comparison and every requirement of the policy. Texts are
opaque; a text assertion carries the set of texts it accepts.

**EvaluationRuns** is `raia test` over it: validate and name the candidate, load the suites
(again, from a project that may have changed), then case by case and repetition by repetition, in
fixture mode or by opening a conversation and sending its user turns one by one to a runtime whose
answers may be lost, then the report. Nothing is written before the end. Results are a function from
positions (the number of the suite and of the case in it), added in the order of the engine's loops;
the messages of a conversation carry the turn they came from. `Ready` is what readiness makes of the
report that is there. The observation of a repetition is kept beside the statuses, which is what lets
`ReadyMeansTested` speak of what happened rather than of what was computed. The run id covers the
candidate, the repetitions and, of each suite, its cases and fixtures, but not its path
(`engine.ts:241`, `resources.ts:95`): a copy of a suite under another name gives a run of the same
id, with the same outcomes. That commands have options, manifests list suites and cases meet their
schema is assumed by name (`CommandsAreOptions`, `ManifestsListSuites`, `SuitesMeetTheirSchema`);
`loadEvaluationSuite` refuses the rest.

**SemanticDiff** is `diffManifests` with the severity of every comparison; **ReviewedReleases**
edits a snapshot and releases it again and again, each release diffed against the one before only,
and remembers the highest risk shown, and whether a release put an entry of a list of controls
(blocked topics, policy packs, escalation conditions, destinations) in the place of another
(`exchanged`). The shapes of the parts that the manifest schema fixes are
assumptions of the module (`IsSnapshot` and what it is made of).

## 3. Runs

| Run | Instance | Shows |
|---|---|---|
| `provider` | 2 deployments, 2 environments, 2 versions, 1 draft, 1 release, 4 keys; stale, disagreeing and missing expectations, closed gates; fair polls | type; at most one HEALTHY per environment; a deployment has a due step exactly while in flight; targets sound; states move only along the table; each object has exactly one key; nothing is released at a base the agent has left; every deployment settles |
| `one_writer` | 1 writer, crashes, every kind of request | what was answered is kept, so a retry gets the same; refinement of MockProvider |
| `overlapping_writers` | 2 writers, 2 deployments | the file always parses and is always a sound provider state |
| `release_workflow` | 1 shell, 3 contents of 2 bases, one of them invalid, 3 edits, 1 advance; agent on or off the first page; fair | releases were evaluated; history is only extended; the release completes from wherever it was interrupted or refused, unless its key stays bound to other evidence |
| `release_retested` (violation) | 1 shell, 1 content, 2 seeds | see section 5 |
| `tool_calls` | a developer who tests and deploys beside an agent with all five tools, 2 contents, 1 edit | the workflow is legal, supported by evidence, and true; one release per candidate, one deployment per release; a tool works on what it was told to unless that was changed meanwhile; a status hangs together |
| `api_calls` | 2 clients, 3 scenarios of drafts, releases and a deployment, 2 attempts, 2 requests handled at a time, 1 advance; fair | what callers are told is so, unless a write of an older read erased it; one release per key; STALE_BASE means undone, unless such a write set the remote back; every call ends |
| `reviewed_chain` | every part of a manifest alone, and four groups of parts that are read together; chains of any length | the releases together carry no more risk than one of them has shown; a control is only lost through a high risk, or by an exchange in its list; empty diffs change nothing but added confirmations and files other than the prompt |
| `evaluation_runs` | 4 cases of 2 suites, and a copy of one under another name; 2 commands out of 6, 1 of 8 edits, lost replies | a satisfied policy rests on what was observed; reports are of finished runs; turns are sent once; fixture runs of one id agree |
| `project` | 3 project contents, 2 versions, 1 seeding, proposals from 3 traces, 1 of 4 edits, 1 kill; fair | evidence that counts as current is of these files; half-written projects show; a proposed suite is beside its own fixture and changes no gate; edits survive; re-running is a no-op; forced init converges |
| `spelled_reference` (violation) | the prompt is referred to as `./prompt` | see section 5 |
| `listings` | 2 workspaces, 3 agents, two of whose ids need encoding, 2 traces each; limits 0, 2, 4 and none, pages of at most 2; fair | what stays in a list is shown, and once unless something came; the HTTP client answers what the provider does, about ids that need no encoding; every walk ends |

**Bounds.** `MaxVersions`, `MaxDrafts`, `MaxReleases`, `MaxDeployments` cap what the provider
creates; two deployments are the least with a supersession, and with a rollback of the older while
the newer is in flight; a chain of two supersessions is left to the theorems. `MaxEdits = 3` leaves
a candidate, passes an invalid one and returns; `tool_calls` has one, and with two candidates
whose names nothing tells apart it is checked up to their symmetry, which is sound as the run has
no liveness property. Two writers, and two places where commands and tools run, are enough for
every pairwise race; `MaxPolls = 1` (10 in the code) makes a command give up before a deployment
settles, and running it again lets it settle. `Within` bounds the stores that StateStore's
handlers may make. Where a bounded instance would only stop because the bounds are reached, the
model keeps stepping (replays and polls remain enabled), so deadlock is checked (except in
ManagementApi and EvaluationRuns, below).

In ManagementApi, times are eighths of a second; the cap on waiting lies below the server's
Retry-After so that it bites, a gateway may send Retry-After 0 so that only the count of attempts
ends a call, and two attempts are the least of which one can be late. `MaxOpen = 2` is the least
overlap: one write erases what one other wrote. Polls and rollbacks are calls of the model and of the
theorems, but of no scenario of the run, whose states they would triple. The model stops when the
clients have made their calls.

In EvaluationRuns two commands are the least that a baseline needs, and one edit falls before,
within, between or after them; the four cases are one blocking, one informational with forbidden
tools, one with critical assertions, expected states and a rubric, and a simulator. It stops when
commands and edits are used up. In ProjectWriter the versions differ either in a prompt (the
manifest hash shows it) or in a suite and its fixture only (it does not); one kill leaves every
possible mixture, and one edit every conflict. ReviewedReleases has no bound: its states are
finite. In Listings a list of three with pages of one is the least in which something comes or
goes before, at and after the cursor; the default is 1 of 20 and the maximum 2 of 100, and the
limits named lie at, below and above each.

**Fairness.** `provider`: each deployment is polled again and again (weak fairness of its poll
with an available provider), which is what `deploy` and its re-runs do; nothing is assumed of
requests. `release_workflow`: started commands go on (a process runs), the developer repeats the
command, and the provider, asked again and again, is available now and then (strong fairness of
the start and of the successful submission); the property then assumes that sources, report and
remote stay ready and that, from some moment, commands are no longer cut short. Commands may be
refused for ever, where the state makes them (`MayBeRefused`): that is what the property has to
exclude, and the one such state that the code can be stuck in is its stated exception
(`BoundToOtherEvidence`). `api_calls`: only
clients are fair: an attempt has a timeout (`transport.ts:26`), so it ends whatever server and
network do. `project`: a command that is not killed goes on, and the developer runs `raia init
--force` again and again (strong fairness, as other commands come in between). `listings`: the
caller asks for the next page; agents may be seeded and moved as long as they like.

## 4. Proofs

Each theorem holds for any keys, candidates, contexts, places and bounds that satisfy the named
assumptions of the modules; the runs of section 3 show the same properties on small instances.

`MockProviderProofs`, about every sequence of requests:

* `TypeCorrect`: `Spec => []TypeOK`.
* `OneHealthyAlways`, `PlansInStepAlways`, `TargetsSoundAlways`: the invariants about deployments.
* `HistoryGrows`: `Spec => HistoryOnlyGrows`, an action property of every step, polls included.
* `CreatedOnceAlways`: `Spec => []CreatedOnce`.
* `ReleasesAtCurrentBase`: `Spec => ReleasedAtCurrentBase`, an action property.

And about Listings, for any catalogue, lists of any length, any limits and traces:

* `EachShownOnceAlways`: `WalkSpec => []EachShownOnce`.
* `SameOverTheWireAlways`: `WalkSpec => []SameOverTheWire`, for ids that need no encoding and any
  encoding of the others.

`McpToolsProofs`, about any number of commands of any kind side by side, cut short anywhere,
with any edits, advances and evaluation outcomes. TLC can only interleave two.

* `WorkflowSoundAlways`, `RecordsTrueAlways`: what is saved is legal, rests on evidence, and is
  true of the provider.
* `MadeOnceAlways`: one release per candidate and one deployment per release.
* `EvaluatedAlways`: no release without a passed evaluation of its candidate.
* `HistoryPreservedAlways`: the saved history is only added to, if of the commands that release or
  deploy one runs at a time (`OneWriter`). The hypothesis is needed: of two, one saves what it
  loaded before the other saved.

And about any number of tool calls beside them:

* `ToolsKeepWorkflow`, `ToolsKeepRecords`, `ToolsMakeOnce`: the first three again, with the tools'
  steps.
* `StatusTrueAlways`: `StatusIsTrue`, that the candidate, release and deployment that a status tells
  of belong together.
* `NamedAlways`: `NamedOrOvertaken`.

`StateStoreProofs`, about any number of writers of `state.json`, each dying anywhere:

* `StateFileSoundAlways`: the file always parses and is a sound store, if no two writers share a
  temporary name (`NamesAreOwn`; with one name for two, section 5 says how it tears).
* `AnsweredIsKeptAlways`: what was answered is kept, if one update is under way at a time
  (`OneAtATime`; two lose an answer, section 5).
* `StoreImplementsProvider`: under the same hypothesis, `Spec` implements `MockProvider!Spec`; so
  every theorem of `MockProviderProofs` holds of the file.

`ManagementApiProofs`, about any number of clients, scenarios and attempts:

* `OncePerKeyAlways`: with no hypothesis, however handlers overlap.
* `ToldIsTrueAlways`: likewise; what a write of an older read erased is its stated exception.
* `StaleIsUndoneAlways`: likewise, unless such a write set the remote back, and if callers name the
  version that the remote had at the start, or an older one (`NoFutureBases`). Clients fix their
  calls before the remote moves, and a lock file names only versions that were exported; a version
  that is still to come would be stale at first and not later.

`ReviewedReleasesProofs`, about every snapshot, every set of edits and chains of any length:
`RiskIsCoveredAlways`, `ProtectionKeptAlways` and `SilenceIsSafeAlways`.

`EvaluationRunsProofs`, about every project, edit, suite, policy and command:

* `TurnsSentOnceAlways`, `ReportsAreCompleteAlways`, `SameRunSameResultsAlways`.
* `ReadyMeansTestedAlways`: `Spec => [](FewCases => ReadyMeansTested)`. `FewCases` says that a report
  counts fewer than 20000 cases. It is there because the pass rate is rounded to four digits: with
  one failure in 20000, the code reports 1.0000 and a policy that demands it is satisfied. The schema
  sets no bound on cases.

`ProjectWriterProofs`, about every project, every edit and proposal, any number of versions and
kills. The hypotheses are stated and named at the end of `ProjectWriter`; the instance of the runs
satisfies them (`TheoremsApply`, which TLC evaluates), and below it says why each is needed.

* `CommandAlways`: types, and what a running command has still to write.
* `EvidenceIsCurrentAlways`, if manifests refer to prompts by their normalized path
  (`PromptsAreSpelledOut`; `spelled_reference` shows what happens otherwise).
* `MixturesAreVisibleAlways`, if no reference of a published manifest is to a file that init writes
  itself (`OwnPathsAreKept`) and nobody makes up a lock (`LocksAreMade`).
* `EditsKeptAlways`, under `OwnPathsAreKept`.
* `GatesUntouchedAlways`, with no hypothesis.
* `ProposalsMatchAlways`, under `OwnPathsAreKept`, and if no published project has a proposed suite
  with another answer's fixture (`PublishedWhole`).
* `ReinitIsNoOpAlways`, under `LocksAreMade`, and if developers leave `.gitignore` alone
  (`IgnoreIsLeft`).

**ProviderStateProofs** has no theorem of its own: its lemmas are about one request, and are cited
by four of the modules above. The first
group says what each handler returns (a refusal returns the store it was given, a creation
appends, a poll changes the polled deployment and the superseded ones), and what the envelope
makes of it: the store as it was, or the effect with one fresh key bound (`Executed`). The last
group puts that into three predicates that callers can rely on without knowing the handlers:
`StoreSound` (the inductive invariant of a store), `StoreFollows` (what is there stays, and moves
only along the lifecycle table) and `KeysFollow` (at most one key is added, and it is the
request's). `ReleasePromise`, `DeployPromise`, `PollPromise` and `VersionsPromise` give these for
each handler that the commands call.

*The provider.* The inductive invariant of the deployments is `TypeOK` with `OneHealthy`,
`PlansAgree` and `TargetsSound` (`SoundStep`); none of the three is inductive without the type.
`TargetsSound` needs that no handler takes a deployment out of the states that follow HEALTHY
(`HasBeenHealthy`), which holds because a poll takes only a step the lifecycle table allows and a
rollback starts from HEALTHY or FAILED. `PlansAgree` needs that a plan of `Plans` walked from its
first step stays in the table and ends outside `InFlight` (`StepTaken`). `CreatedOnce` is
inductive with `TypeOK` (`CreatedStep`): a new object takes the number after the last one, and no
key was answered with that number, since every recorded answer names an object that exists; the
other operations bind keys that name no creation. `HistoryOnlyGrows` and `ReleasedAtCurrentBase`
need only the type.

*Listings.* The rank of an id is how many of the list are before it; `Sorted` puts an id in the
place after its rank, so a page at offset o of k items is the ids with ranks from o to o + k - 1
(`PageIsNext`). That the choice in `Sorted` always has something to choose is a counting argument
(`RankReaches`: an injection between sets of one size is onto). `EachShownOnce` is not inductive,
as it says nothing of what is still to be shown. `WalkInv` adds: if nothing left the list, each
item from the start was shown or has a rank at or after the cursor (`NothingPassed`); if nothing
came, each item that was shown and is still there has a rank before it (`NothingAgain`). What
comes only raises ranks and what leaves only lowers them (`RankMoves`), which is why each half
needs its own hypothesis. `SameOverTheWire` needs that no cursor looks like null on the wire
(`IsAnswer`), that ids are finitely many, and that a trace has a number of events that fit
(`FittingFacts`).

*The commands.* None of the properties is inductive: what a command will save depends on what it
loaded, perhaps long ago. `Inv` therefore says of the store that it is sound and that every
request in it was made under the key that the command derives (`RequestsSound`), of every
workflow, saved or held by a command, that it is `Good` (typed, legal, supported, true), and of
every command what it relies on at the place where it is (`CommandSound`). A workflow that was
good stays good in any store that follows (`GoodStays`), and so does a command (`CommandStays`);
this is why overlapping commands do no harm, although one may overwrite what the other saved. A
step of one command then only has to show what it made itself (`StepSound`). `MadeOnce` follows
from `RequestsSound` and the `CreatedOnce` part of `StoreSound`: two releases of one candidate
would answer to one key. Assumed: the keys that the commands derive are keys (`KeysAreDerived`),
an evaluation run can be evidence (`RunsAreEvidence`) and there are finitely many candidates
(`CandidatesAreFew`), from which `ReleasesAreFew` gets that deployment keys suffice.

*The tools.* `ToolInv` adds what `raia_context_get` holds between its reads. A tool's step starts
a command or is a command's step, so that `Inv` carries over. `NamedOrOvertaken` is inductive in
`CallsSound`: at every place a call that was not overtaken holds what its caller named and the
file it was compared with is still the same (`KeepsTo`), and the report and the workflow file are
one each.

`HistoryPreserved` adds `HistoryInv`: the history of whatever workflow a command holds continues the
one in the file. A save by another command breaks that, hence `OneWriter`; tests hold no workflow and
may run beside it.

*The file.* `WritesInv` says where every writer is (`Stages`), that no file has two names, that the
file of a writer has the writer's temporary name until it is renamed and holds the writer's store
once it was filled, and that every store that is published or about to be is safe. The names are what
matters: a writer that opens a file truncates it, so that it must not be the file of another. With
one update at a time, `AloneInv` adds that what the writer is about to publish follows from what is
there; so its rename is a step of the atomic provider and all its other steps stutter.

*Calls.* `CallsTyped` and `StoresSound` carry `OncePerKey`: every store that a handler may still
write is sound, and binds releases to keys that some client chose for their candidate; releases of
one candidate map one to one to those keys. `ToldInv`: a handler that read the store as it is
extends it; one that read an older store either leaves the record of a key as it was, or the key is
in `erased` from then on. `StaleInv`: as long as nothing was `setBack`, no open handler is of a
newer remote than the store, a change under way is to the next version, and a handler of a remote as
new as the store, once that has moved on, leaves the set of calls that were carried out as it is;
one of an older would set the remote back by being written.

*Chains of releases.* `ChainInv` is the properties themselves with the shapes of the snapshots. It is
inductive because severity obeys a triangle inequality (`Covered`): what `o` and `n` differ in at
some severity, `o` and `b` or `b` and `n` already differ in at that severity or a higher one. The
inequality is proved part by part of the manifest, and it is the constraint that every rule of the
diff has to meet. Entries of the lists of controls are outside of severity, which looks at lengths:
a list that is no shorter at the end and lacks an entry was, in some release, no shorter and without
an entry that it had (`DroppedInSteps`), or it was shortened, at high risk.

*Evaluation.* `RunsInv` says that whatever a running command, a report or a baseline holds as the
result of a case is `CaseResult` of repetitions that were all executed, in fixture mode by the
fixture of the suite as it was loaded; so a report determines what was observed, and two fixture runs
of one id, having the same cases and fixtures in the same positions, have the same outcomes.
`ConversationsInv` says that a conversation was opened for one repetition of one run and that its
messages are the user's turns up to the last that was sent; a command has sent what its conversation
has, and one whose answer was lost is over. `Position` and `NextTurn` choose least elements, which
exist by well-foundedness of the naturals. The rest is about operators: a gate that passed leaves no
critical failure in any repetition (`gateFailure`, `criticalFailure`, `caseStatus` unfolded), and a
pass rate of 10000 of fewer than 20000 cases is that of all of them (`FullPassRate`).

*Projects.* `CommandInv` says what every running command has still to do: its pending writes are
those of the bundle or the proposal that it was started for, each path once (`WritesInv`); before
the comparison none is missing (`AllInv`); and without force, a pending write whose file is there
was overtaken by an edit (`FreshInv`). It is the invariant of `EditsKept`, and of `GatesUntouched`,
where it comes to this: a file that a proposal writes was not there, so nothing that loads referred
to it, and loading reads nothing else (`ValidatedLoads`, `CandidateWithin`). Pending writes are a
subsequence of the planned ones (`Selects`), which is what the recursion in `pendingOf` computes;
by well-foundedness of the naturals (`PendingPicks`).

`MixturesAreVisible` adds three parts. `StampInv`: a lock that loads has the shape of one, and the
lock that a command is about to write is of its version. `BaseInv`: the base of the lock is a
version that exists, and while a command that has passed its comparison without a conflict, or is
forced, is under way, the lock's base is not newer than its version; only the write of a lock moves
the base. `PlacedInv`: if the lock's base is the last version, every unedited artifact of that
version is in its place, and a running command has each of its artifacts in place or still to be
written *before the lock*, as `PlannedWrites` orders them. The write of the lock turns the second
into the first. A made-up lock would break `StampInv`. A reference to the lock itself would be
planned twice, once before and once after the other artifacts.

`ProposalsMatch` is not inductive because its two files are written one after the other. `MatchInv`
speaks of what a file will hold when the running command has written all that it has compared
(`WillBe`); no write changes that, so what has to be shown is that a comparison keeps it. For a
proposal, suite and fixture are both pending or both there already, as without force a file that
differs blocks the whole batch. For an export it needs `PublishedWhole`.

`ReinitIsNoOp` needs what was true when the command planned (`FoundInv`): the planned lock is the
one in the file wherever that one differs in its time only, and `.gitignore` is planned only where
there is none. An edit can make a project whole between plan and comparison; the invariant holds
then too, unless the edit makes up a lock or a `.gitignore`. `EvidenceIsCurrent` needs the report to
say what it was made of (`ReportInv`), that manifests are known ones (`ManifestInv`), and that the
files of a project can be read off its candidate (`CandidateTells`), which is where the spelling of
references comes in.

**Only model-checked:** all liveness, which is out of the prover's reach (`DeploymentsSettle`,
`ReleaseCompletes`, `CallsEnd`, `InitConverges`, `WalksEnd`).

## 5. Where code and documents disagree

Two are `violation` runs; `PROJECT.json` quotes the lines.

* `spelled_reference`: artifacts are stored by normalized path and their hashes looked up by the
  reference as written (`load.ts:74`), so the content behind `file: ./prompt.md` is in no hash: it
  can be edited and the candidate, with its validation and evaluation evidence, stays. (The diff's
  `artifactHash` calls such a file missing on both sides.)
* `release_retested`: the release key names the candidate, the request under it also the evaluation
  run (`release.ts:161`). A release that was submitted, cut short before its last save, and evaluated
  again with another seed is refused with IDEMPOTENCY_MISMATCH at every retry, where ADR 0004 section
  2 has retries of one logical operation replay. `RetriesReplay` is `ReleaseCompletes` without the
  exception for this.

The others are observed on the models or are exceptions that a property states, without a run of
their own.

* Two overlapping updates of `state.json` lose an idempotency record, and the retry creates another
  object (`state.ts:96`; BUILD_SPEC:331; `retry.ts:5-6` says that the keys make retries safe). The
  server handles requests side by side (`server.ts:155`), so that a first attempt that is handled late
  does this to a later call of the same client. It is what `ToldIsTrue` excepts as `erased`; without the
  exception TLC finds it in seven steps of `api_calls`, by a change of the agent that was read before.
* The temporary name (process and millisecond) can be shared by two requests to one server, which
  tears `state.json` (`state.ts:91`), where `state.ts:2` says "atomic". With one `TempName` for both
  writers, `overlapping_writers` fails at the first rename.
* Whether a list of controls has shrunk is judged by its length (`semantic-diff.ts:577`, `:617`): a
  blocked topic that is exchanged for another is lost at medium risk, where
  `docs/raia-devkit-spec/AGENT_LIFECYCLE_FRAMEWORK.md:43` has removed guardrails never below high. It
  is the exception `exchanged` of `ProtectionKept`.
* A function's input schema that accepts more than before, by a new optional property or a wider
  pattern or enum, is classified medium, where `semantic-diff.ts:93` calls a schema broadened if it
  accepts strictly more input (`isInputSchemaBroadened`).
* Ids are percent-encoded by the HTTP client (`http-provider.ts:227`) and not decoded by the server
  (`server.ts:159`), so the agent `a b` is NOT_FOUND over HTTP, or is taken for one named `a%20b`.
  `SameOverTheWire` excepts such ids.
* `deploy` enters DRAFT with a new candidate hash and the old base version beside it
  (`deploy.ts:58`).
* The rollback target is computed when a deployment is created (`mock-provider.ts:494`), so with
  two in flight the one that becomes HEALTHY second supersedes the first without naming it (ADR
  0004 section 3).
* `raia test` reads the suites after it named the candidate (`test.ts:98`), so another suite's run
  can be bound to it.
* A fixture referred to as `./fixtures/x.json` is loaded and hashed but not found when the case
  runs (`engine.ts:71`): the case is skipped, and a skipped blocking case passes the gate.
* In live mode tool checks pass on the empty observation, where `live-executor.ts:5-8` says they
  "skip/fail explicitly".
* A critical assertion in an informational case fails the gate, where ADR 0003 section 4 says such
  cases never affect the exit code.
* The pass rate is rounded to four digits (`engine.ts:238`), so that one failure in 20000 cases passes
  for none (`FewCases`).
* The run id does not cover the paths of the suites (`engine.ts:243`): a run of a copy has the id of
  the run of the original, with results under other names.
* Pull never forces and the lock of another version always differs, so by `EditsKept` it can only
  restore missing files; on a clean project behind the remote, the case that
  `skills/pull/SKILL.md` recommends it for, it is refused.
* `.gitignore` is planned where there is none (`project-writer.ts:99`); one that a developer makes
  between plan and comparison is replaced by a forced init. A
  manifest that refers to `raia.agent.yaml`, `raia.lock.json`, `.raia/project.json` or `.gitignore`
  as a prompt makes init plan that file twice; the second write then replaces the first without
  having been compared with it. (Hence `IgnoreIsLeft` and `OwnPathsAreKept`.)
* The content of a brand voice file is compared only if the persona record changed
  (`semantic-diff.ts:183`), that of a handoff message (`:559`) or of a configuration never; the
  exception that `SilenceIsSafe` states.
* Cursors are offsets (`mock-provider.ts:76`), so whoever walks a list that something leaves may
  miss items that stay; `EachShownOnce` promises completeness only of lists that nothing leaves.
* A limit of 0 or above 200 is refused over HTTP (`server.ts:121`) and clamped by the provider;
  101 to 200 pass and are clamped. A trace is read over HTTP in a budget of 262144 bytes whatever
  the caller asks for (`http-provider.ts:366`). `SameOverTheWire` excepts the two.
* `raia_deployment_get` is annotated read-only, and moves a mock deployment one step. The tools'
  `idempotencyKey` arguments are not used by the handlers (ADR 0005 section 5 says so), and a
  truncated trace is made a suite without notice.
* Drift is looked for on the first page of agents (`readiness.ts:74`), so with more agents than a
  page holds a stale candidate reaches the release request, which then refuses it.
* `raia init --fixture` seeds before it asks for `--yes` (`init.ts:53`), so the preview discards
  the agent's versions; and a seeding uses `v1` and its ETag again, so a lock of an earlier one is
  not told apart.

## 6. Not modelled

Text and layout (reports, rendering, argument parsing), YAML, schemas and hashing; string
processing in redaction and in safe paths, of which the models have the outcome; the generated
schemas, which are data. `doctor` and the printing of `diff`, `review` and `status`;
ids that URL normalisation would take out of a path (`.` and `..`), and what an unknown operation is
answered; the validation, drift and validation report in the status; `raia_evaluation_get`, the tool
catalog and the approved roots; reads of messages and uploads of
the conversation client; change plans and remote evaluation runs, which the providers answer
UNAVAILABLE; authentication; the construction of providers and runtimes from configuration. Schema
validation of the workflow file on load and save never refuses what the commands make, so it is no
guard. ReleaseFlow uses its own, smaller notion of a report and of readiness than EvaluationRuns,
so that its commands can be interleaved. Commands and tools are processes of their own: that two
tool calls of one server share the name of a temporary file is not modelled for the project's
files (StateStore has what it does to `state.json`).

## 7. Plan

Done: every module of section 2, and the theorems of section 4.

Next, in order:

1. Two writers of one project directory: two tools of one server that pull and propose at once.
2. A refinement from EvaluationRuns to the report actions of ReleaseFlow.
