------------------------------ MODULE Listings ------------------------------
(***************************************************************************)
(* A caller who reads a listing of the management provider page by page    *)
(* (ProviderReads), with the cursor of one page as the start of the next,  *)
(* while agents are seeded, moved and advanced between any two pages.  A   *)
(* cursor is an offset into a list that is made anew for every page        *)
(* (mock-provider.ts:75-85), so it does not say which items were shown.    *)
(***************************************************************************)
EXTENDS ProviderReads

CONSTANTS
  Workspaces, AgentIds,   \* numbers
  Lists,                  \* what callers list, out of ListsOfAll
  Contents,               \* contents of a version
  Limits,                 \* limits that callers name, {} for none
  Budgets,                \* bytes that callers ask a trace in
  MostVersions            \* bound on the versions of each agent

VARIABLES
  state,   \* the catalogue in state.json
  walk     \* the caller: what is listed, where, and what has been shown

walkVars == <<state, walk>>

Providers == {"mock", "http"}
Conditions == {"OK", "UNAVAILABLE", "PERMISSION_DENIED"}
Outcomes == {TraceFixtures[id].outcome : id \in DOMAIN TraceFixtures}
Optional(S) == {{}} \cup {{x} : x \in S}

ListsOfAll ==
  [kind : {"workspaces"}] \cup [kind : {"agents"}, of : Workspaces]
    \cup [kind : {"traces"}, of : AgentIds, outcome : Optional(Outcomes)]

ASSUME ListsAreKnown == Lists \subseteq ListsOfAll

\* Ids and limits are numbers, and an agent is seeded with finitely many traces.
ASSUME IdsAreNumbers ==
  /\ Workspaces \subseteq Int /\ AgentIds \subseteq Int
  /\ DOMAIN TraceFixtures \subseteq Int /\ IsFiniteSet(DOMAIN TraceFixtures)
ASSUME LimitsAreNumbers ==
  /\ \A limit \in Limits : limit \subseteq Int /\ \A m, n \in limit : m = n
  /\ \A tool \in {"raia_agent_list", "raia_trace_list"} : ToolLimits[tool].max \in Int
ASSUME TracesAreSequences ==
  \A id \in DOMAIN TraceFixtures :
    TraceFixtures[id].events \in Seq(ToSet(TraceFixtures[id].events))

\* One page of a list, from the provider of the project's binding; a tool asks
\* like anybody else, after its schema.
ask(s, list, provider, gate, page) ==
  CASE list.kind = "workspaces" ->
         IF provider = "http" THEN httpListWorkspaces(s, gate, page)
         ELSE listWorkspaces(s, gate, page)
    [] list.kind = "agents" ->
         IF provider = "http" THEN httpListAgents(s, gate, list.of, page)
         ELSE listAgents(s, gate, list.of, page)
    [] list.kind = "traces" ->
         IF provider = "http"
         THEN httpListTraces(s, gate, list.of, list.outcome, page)
         ELSE listTraces(s, gate, list.of, list.outcome, page)

askTool(s, list, provider, gate, args) ==
  IF list.kind = "agents"
  THEN raia_agent_list(s, provider, gate, list.of, args)
  ELSE raia_trace_list(s, provider, gate, list.of, list.outcome, args)

\* The id that the provider is asked for.
reached(id, provider) == IF provider = "http" THEN encodeURIComponent(id) ELSE id

\* The ids in the list that is reached, at this moment.
listed(s, list, provider) ==
  CASE list.kind = "workspaces" -> s.workspaces
    [] list.kind = "agents" -> agentsOf(s, reached(list.of, provider))
    [] list.kind = "traces" ->
         tracesOf(s, reached(list.of, provider), list.outcome)

-----------------------------------------------------------------------------
Idle == [at |-> "idle"]

WalkInit == state = emptyCatalogue /\ walk = Idle

\* `start` is what was in the list when the walk began, `came` and `left` whether
\* something entered or left it since; they are kept to state properties.
Watched(new) ==
  IF walk.at = "walking"
  THEN [walk EXCEPT
          !.came = @ \/ ~(listed(new, walk.list, walk.provider)
                            \subseteq listed(state, walk.list, walk.provider)),
          !.left = @ \/ ~(listed(state, walk.list, walk.provider)
                            \subseteq listed(new, walk.list, walk.provider))]
  ELSE walk

SeedAgent ==
  \E workspace \in Workspaces, id \in AgentIds, bundle \in Contents :
    /\ state' = seedFromFixture(state, workspace, id, bundle)
    /\ walk' = Watched(state')

AddVersion ==
  \E id \in DOMAIN state.agents, bundle \in Contents :
    /\ Len(state.agents[id].versions) < MostVersions[id]
    /\ state' = advanceVersion(state, id, bundle)
    /\ walk' = Watched(state')

Begin ==
  /\ walk.at # "walking"
  /\ \E list \in Lists, provider \in Providers, tool \in BOOLEAN,
        limit \in Limits :
       /\ list.kind = "workspaces" => ~tool
       /\ walk' = [at |-> "walking", list |-> list, provider |-> provider,
                   tool |-> tool, limit |-> limit, cursor |-> {}, seen |-> <<>>,
                   start |-> listed(state, list, provider), came |-> FALSE, left |-> FALSE]
  /\ UNCHANGED state

answers(gate) ==
  LET page == PageRequest(walk.cursor, walk.limit) IN
  {IF walk.tool THEN askTool(state, walk.list, walk.provider, gate, page)
   ELSE ask(state, walk.list, walk.provider, gate, page)}

\* The next page is asked for and answered; an error ends the walk.
NextPage ==
  /\ walk.at = "walking"
  /\ UNCHANGED state
  /\ \E answer \in answers("OK") :
       \/ answer.code # "OK" /\ walk' = [at |-> "failed"]
       \/ \E shown \in answer.result :
            LET seen == walk.seen
                  \o [i \in DOMAIN shown.items |-> shown.items[i].id]
            IN  IF shown.nextCursor = {}
                THEN walk' = [at |-> "done", seen |-> seen, start |-> walk.start,
                              came |-> walk.came, left |-> walk.left]
                ELSE walk' = [walk EXCEPT !.seen = seen,
                                          !.cursor = shown.nextCursor]

\* The provider cannot be reached, or does not let the caller read traces.
Refused ==
  /\ walk.at = "walking"
  /\ \E gate \in Conditions \ {"OK"} : \E answer \in answers(gate) : answer.code = gate
  /\ walk' = [at |-> "failed"]
  /\ UNCHANGED state

WalkNext == SeedAgent \/ AddVersion \/ Begin \/ NextPage \/ Refused

WalkSpec == WalkInit /\ [][WalkNext]_walkVars

\* A caller who has begun asks for the next page.
FairWalkSpec == WalkSpec /\ WF_walkVars(NextPage)

-----------------------------------------------------------------------------
(* Properties *)

Shown == ToSet(walk.seen)

\* Whoever follows the cursors to the end has been shown everything that was in
\* the list when they began, however much was added to it between the pages, and
\* nothing twice unless something was added ("paginates deterministically with
\* opaque cursors", mock-provider.test.ts:100).  Only if something left the list,
\* by an agent that is seeded again elsewhere or another one that takes its traces,
\* may anything be missed.  The list is the one that is reached: SameOverTheWire
\* says when that is the one that is meant.
EachShownOnce ==
  /\ walk.at = "done" /\ ~walk.left => walk.start \subseteq Shown
  /\ walk.at \in {"walking", "done"} /\ ~walk.came =>
       Cardinality(Shown) = Len(walk.seen)

Pages == [cursor : Optional(-1 .. Cardinality(DOMAIN state.agents) + 1),
          limit : Optional(0 .. WireLimit + 1)]

NeedsEncoding(id) == encodeURIComponent(id) # id

\* Every answer of the HTTP client to a question about the id is what the
\* provider behind the server answers, up to the limits that the server refuses
\* where the provider clamps them, and to its own budget for traces.
ListsAlike(list, gate) ==
  \A page \in Pages :
    \/ ask(state, list, "http", gate, page) = ask(state, list, "mock", gate, page)
    \/ /\ page.limit # {} /\ Or(page.limit, 1) \notin 1 .. WireLimit
       /\ ask(state, list, "http", gate, page).code = "VALIDATION_FAILED"

ExportsAlike(id, gate) ==
  \A version \in Optional(1 .. MostVersions[id] + 1) :
    raia_agent_export(state, "http", gate, id, version)
      = raia_agent_export(state, "mock", gate, id, version)

TracesAlike(id, gate) ==
  \A args \in [maxBytes : Optional(Budgets)] :
    LET here == raia_trace_get(state, "mock", gate, id, args)
        there == raia_trace_get(state, "http", gate, id, args)
    IN  \/ here = there
        \/ \E h \in here.result, t \in there.result :
             h.truncated # t.truncated \/ Len(h.events) # Len(t.events)

\* The HTTP client and the provider of the mock implement one contract
\* (BUILD_SPEC 18): null cursors, optional workspace ids, filters and versions
\* come out alike in every state, for every id that a path can hold as it is.
\* For an id that needs encoding they do not: the client encodes it for the path
\* (http-provider.ts:227, 239, 360) and the server looks for it as it came
\* (server.ts:159).  Every catalogue is there before the first walk, so it is
\* looked at then only.
SameOverTheWire ==
  walk = Idle => \A gate \in Conditions :
    /\ httpGetIdentity(state, gate) = getIdentity(state, gate)
    /\ \A list \in Lists :
         list.kind = "workspaces" \/ ~NeedsEncoding(list.of) => ListsAlike(list, gate)
    /\ \A id \in AgentIds : ~NeedsEncoding(id) => ExportsAlike(id, gate)
    /\ \A id \in DOMAIN TraceFixtures : ~NeedsEncoding(id) => TracesAlike(id, gate)

\* A walk ends, whatever limit the caller names and whatever is added: every
\* page that is not the last moves the cursor (mock-provider.ts:77-82).
WalksEnd == walk.at = "walking" ~> walk.at # "walking"
=============================================================================
