---------------------------- MODULE ProviderReads ----------------------------
(***************************************************************************)
(* What can be read from the management provider, and what it looks like   *)
(* from where it is read: the mock itself (provider-mock/src/              *)
(* mock-provider.ts), the HTTP client through the management API server    *)
(* (provider-http/src/http-provider.ts, apps/mock-management-api/src/      *)
(* server.ts), and the MCP tools over either (mcp-server/src/handlers.ts). *)
(* The types are those of contracts/src/provider-contract.ts.              *)
(*                                                                         *)
(* A question is answered from one state of state.json.  Ids are numbers,  *)
(* in the order in which localeCompare puts them; version "v<n>" and its   *)
(* ETag are n; something optional is a set of at most one.                 *)
(***************************************************************************)
EXTENDS Integers, Sequences, SequencesExt, FiniteSets

CONSTANTS
  DefaultLimit,   \* items of a page when the caller names no limit; 20
  MaxLimit,       \* items of the largest page; 100
  WireLimit,      \* the largest limit the server lets pass; 200
  ToolLimits,     \* what the catalog lets pass, per tool: [max, default]
  MinBudget, MaxBudget,   \* bytes of the smallest and largest trace
  WireBudget,     \* bytes of a trace that is read over HTTP
  Encodings,      \* the ids with characters that a path cannot hold as they are
                  \* ("a b"), each with its percent-encoded form ("a%20b")
  TraceFixtures   \* the traces that an agent is seeded with, by id

ASSUME LimitsArePositive ==
  /\ DefaultLimit \in Nat /\ MaxLimit \in Nat /\ WireLimit \in Nat
  /\ 1 <= DefaultLimit /\ DefaultLimit <= MaxLimit /\ MaxLimit <= WireLimit

\* An encoded id may be an id of its own, and then needs encoding itself.
ASSUME EncodingsDiffer ==
  \A id \in DOMAIN Encodings :
    /\ Encodings[id] # id
    /\ \A other \in DOMAIN Encodings : Encodings[other] = Encodings[id] => other = id

Clamp(n, low, high) == IF n < low THEN low ELSE IF n > high THEN high ELSE n
Or(optional, default) == IF optional = {} THEN default ELSE CHOOSE x \in optional : TRUE

-----------------------------------------------------------------------------
(* Types *)

PageRequest(cursor, limit) == [cursor |-> cursor, limit |-> limit]
Identity(workspaces) == [workspaceIds |-> workspaces]
Workspace(id) == [id |-> id]
AgentSummary(id, agent) ==
  [id |-> id, workspaceId |-> agent.workspaceId,
   currentVersionId |-> agent.currentVersionId]
AgentExport(id, agent, version) ==
  [agentId |-> id, workspaceId |-> agent.workspaceId, versionId |-> version,
   bundle |-> agent.versions[version]]
TraceSummary(id, trace) ==
  [id |-> id, agentId |-> trace.agentId, versionId |-> trace.versionId,
   outcome |-> trace.outcome]
Trace(id, trace, events, redactions, truncated) ==
  [summary |-> TraceSummary(id, trace), events |-> events,
   redactions |-> redactions, truncated |-> truncated]

\* A ProviderError carries a code, anything else a result.
Answer(result) == [code |-> "OK", result |-> {result}]
ProviderError(code) == [code |-> code, result |-> {}]

-----------------------------------------------------------------------------
(* The catalogue: workspaces, agents and traces of state.json *)

emptyCatalogue == [workspaces |-> {}, agents |-> <<>>, traces |-> <<>>]

With(f, id, x) == [i \in DOMAIN f \cup {id} |-> IF i = id THEN x ELSE f[i]]
\* The ids in order: the one before which there are i - 1 others is the i-th.
Sorted(ids) ==
  [i \in 1 .. Cardinality(ids) |->
     CHOOSE id \in ids : Cardinality({x \in ids : x < id}) = i - 1]

\* The ids of the fixtures are constants, so an agent that is seeded takes them
\* from the agent that had them.
defaultTraceFixtures(agent) ==
  [id \in DOMAIN TraceFixtures |->
     [agentId |-> agent, versionId |-> 1, outcome |-> TraceFixtures[id].outcome,
      events |-> TraceFixtures[id].events]]

\* An agent that is there starts again at v1, in the workspace that its fixture
\* names.
seedFromFixture(s, workspace, id, bundle) ==
  [workspaces |-> s.workspaces \cup {workspace},
   agents |-> With(s.agents, id,
                   [workspaceId |-> workspace, currentVersionId |-> 1,
                    versions |-> <<bundle>>]),
   traces |-> defaultTraceFixtures(id)]

advanceVersion(s, id, bundle) ==
  [s EXCEPT !.agents[id].versions = Append(@, bundle),
            !.agents[id].currentVersionId = Len(s.agents[id].versions) + 1]

-----------------------------------------------------------------------------
(* Pages *)

\* A cursor is an offset; what does not parse as a number counts as -1, which
\* is refused as well.
decodeCursor(cursor) == Or(cursor, 0)

encodeCursor(offset) == offset

\* Mutant: the limit is only bounded from above.
clampAbove(limit) == IF Or(limit, DefaultLimit) > MaxLimit THEN MaxLimit
                     ELSE Or(limit, DefaultLimit)
pageLimit(limit) == Clamp(Or(limit, DefaultLimit), 1, MaxLimit)

\* Mutant: the next page starts where the caller's own limit would have ended.
paginateUnclamped(items, page) ==
  LET offset == decodeCursor(page.cursor)
      next == offset + pageLimit(page.limit)
      asked == offset + Or(page.limit, DefaultLimit)
  IN  IF offset < 0 THEN ProviderError("VALIDATION_FAILED")
      ELSE Answer([items |-> SubSeq(items, offset + 1,
                               IF next < Len(items) THEN next ELSE Len(items)),
                   nextCursor |-> IF asked < Len(items)
                                  THEN {encodeCursor(asked)} ELSE {}])

paginate(items, page) ==
  LET offset == decodeCursor(page.cursor)
      next == offset + pageLimit(page.limit)
  IN  IF offset < 0 THEN ProviderError("VALIDATION_FAILED")
      ELSE Answer([items |-> SubSeq(items, offset + 1,
                               IF next < Len(items) THEN next ELSE Len(items)),
                   nextCursor |-> IF next < Len(items)
                                  THEN {encodeCursor(next)} ELSE {}])

-----------------------------------------------------------------------------
(* MockManagementProvider *)

\* How the provider was built: reachable or not, with or without trace:read.
checkAvailable(gate, answer) ==
  IF gate = "UNAVAILABLE" THEN ProviderError("UNAVAILABLE") ELSE answer
requireScope(gate, answer) ==
  IF gate = "PERMISSION_DENIED" THEN ProviderError("PERMISSION_DENIED")
  ELSE answer

getIdentity(s, gate) ==
  checkAvailable(gate, Answer(Identity(Sorted(s.workspaces))))

listWorkspaces(s, gate, page) ==
  LET ids == Sorted(s.workspaces) IN
  checkAvailable(gate, paginate([i \in DOMAIN ids |-> Workspace(ids[i])], page))

agentsOf(s, workspace) ==
  {id \in DOMAIN s.agents : s.agents[id].workspaceId = workspace}

listAgents(s, gate, workspace, page) ==
  LET ids == Sorted(agentsOf(s, workspace)) IN
  checkAvailable(gate,
    IF workspace \notin s.workspaces THEN ProviderError("NOT_FOUND")
    ELSE paginate([i \in DOMAIN ids |-> AgentSummary(ids[i], s.agents[ids[i]])],
                  page))

exportAgent(s, gate, id, versionId) ==
  checkAvailable(gate,
    IF id \notin DOMAIN s.agents THEN ProviderError("NOT_FOUND")
    ELSE LET version == Or(versionId, s.agents[id].currentVersionId) IN
         IF version \notin DOMAIN s.agents[id].versions
         THEN ProviderError("NOT_FOUND")
         ELSE Answer(AgentExport(id, s.agents[id], version)))

\* Traces are of v1 all, so the filter by version is left out.
tracesOf(s, agent, outcome) ==
  {id \in DOMAIN s.traces : /\ s.traces[id].agentId = agent
                            /\ outcome = {} \/ s.traces[id].outcome \in outcome}

listTraces(s, gate, agent, outcome, page) ==
  LET ids == Sorted(tracesOf(s, agent, outcome)) IN
  checkAvailable(gate, requireScope(gate,
    IF agent \notin DOMAIN s.agents THEN ProviderError("NOT_FOUND")
    ELSE paginate([i \in DOMAIN ids |-> TraceSummary(ids[i], s.traces[ids[i]])],
                  page)))

\* Bytes of the first n events: two brackets, and each event with a comma.
used(events, n) ==
  2 + FoldLeft(LAMBDA sum, event : sum + event.size + 1, 0, SubSeq(events, 1, n))

\* The events that fit, up to the first that does not.
fitting(events, budget) ==
  LET fits(m) == used(events, m) <= budget IN
  CHOOSE n \in 0 .. Len(events) :
    /\ \A m \in 1 .. n : fits(m)
    /\ n < Len(events) => ~fits(n + 1)

\* Secrets are taken out of every event; which rules found some is told, for the
\* events that are cut off as well.
redactValue(event) == [event EXCEPT !.secrets = {}]
getTrace(s, gate, id, maxBytes) ==
  checkAvailable(gate, requireScope(gate,
    IF id \notin DOMAIN s.traces THEN ProviderError("NOT_FOUND")
    ELSE LET stored == s.traces[id]
             budget == Clamp(maxBytes, MinBudget, MaxBudget)
             n == fitting(stored.events, budget)
         IN  Answer(Trace(id, stored,
                [i \in 1 .. n |-> redactValue(stored.events[i])],
                UNION {event.secrets : event \in ToSet(stored.events)},
                n < Len(stored.events)))))

-----------------------------------------------------------------------------
(* The same over HTTP *)

\* The server refuses limits that the provider would have clamped.
pageRequest(page, answer) ==
  IF page.limit # {} /\ Or(page.limit, 1) \notin 1 .. WireLimit
  THEN ProviderError("VALIDATION_FAILED") ELSE answer

\* There being no next page is null on the wire and absence at the client.
NULL == -1
sendPage(answer) ==
  [answer EXCEPT !.result =
     {[items |-> page.items,
       nextCursor |-> IF page.nextCursor = {} THEN {NULL} ELSE page.nextCursor] :
        page \in answer.result}]

receivePage(answer) ==
  [answer EXCEPT !.result =
     {[items |-> page.items, nextCursor |-> page.nextCursor \ {NULL}] :
        page \in answer.result}]

overHttp(page, answer) == receivePage(sendPage(pageRequest(page, answer)))

\* The client encodes an id for the path; the server splits the path and hands
\* the segment on as it came, so this is the id that the provider is asked for.
encodeURIComponent(id) == IF id \in DOMAIN Encodings THEN Encodings[id] ELSE id

\* On the wire workspaceIds is optional, for the caller it is not.
sendIdentity(identity) == [workspaceIds |-> {identity.workspaceIds}]
receiveIdentity(sent) == Identity(Or(sent.workspaceIds, <<>>))

httpGetIdentity(s, gate) ==
  LET answer == getIdentity(s, gate) IN
  [answer EXCEPT !.result = {receiveIdentity(sendIdentity(i)) : i \in answer.result}]

httpListWorkspaces(s, gate, page) ==
  overHttp(page, listWorkspaces(s, gate, page))

\* Mutant: the client puts the outcome it was asked for nowhere.
httpListTracesOfAll(s, gate, agent, outcome, page) ==
  overHttp(page, listTraces(s, gate, encodeURIComponent(agent), {}, page))

httpListAgents(s, gate, workspace, page) ==
  overHttp(page, listAgents(s, gate, encodeURIComponent(workspace), page))
httpExportAgent(s, gate, id, versionId) ==
  exportAgent(s, gate, encodeURIComponent(id), versionId)
httpListTraces(s, gate, agent, outcome, page) ==
  overHttp(page, listTraces(s, gate, encodeURIComponent(agent), outcome, page))

\* The budget is the server's own, whatever the caller's.
httpGetTrace(s, gate, id, maxBytes) ==
  getTrace(s, gate, encodeURIComponent(id), WireBudget)

-----------------------------------------------------------------------------
(* The same as MCP tools, over the provider that the project is bound to *)

\* The catalog's schema fills in the default ...
applyDefaults(tool, args) ==
  PageRequest(args.cursor, {Or(args.limit, ToolLimits[tool].default)})
\* ... and bounds the limit.
validated(tool, page, answer) ==
  IF page.limit \subseteq 1 .. ToolLimits[tool].max THEN answer
  ELSE ProviderError("USAGE")

raia_agent_list(s, provider, gate, workspace, args) ==
  LET page == applyDefaults("raia_agent_list", args) IN
  validated("raia_agent_list", page,
    IF provider = "http" THEN httpListAgents(s, gate, workspace, page)
    ELSE listAgents(s, gate, workspace, page))

raia_agent_export(s, provider, gate, id, versionId) ==
  IF provider = "http" THEN httpExportAgent(s, gate, id, versionId)
  ELSE exportAgent(s, gate, id, versionId)

raia_trace_list(s, provider, gate, agent, outcome, args) ==
  LET page == applyDefaults("raia_trace_list", args) IN
  validated("raia_trace_list", page,
    IF provider = "http" THEN httpListTraces(s, gate, agent, outcome, page)
    ELSE listTraces(s, gate, agent, outcome, page))

raia_trace_get(s, provider, gate, id, args) ==
  LET maxBytes == Or(args.maxBytes, ToolLimits["raia_trace_get"].default) IN
  IF maxBytes \notin MinBudget .. ToolLimits["raia_trace_get"].max
  THEN ProviderError("USAGE")
  ELSE IF provider = "http" THEN httpGetTrace(s, gate, id, maxBytes)
       ELSE getTrace(s, gate, id, maxBytes)
=============================================================================
