------------------------------ MODULE McpTools ------------------------------
(***************************************************************************)
(* The tools of the MCP server that evaluate, release, deploy and report   *)
(* on a project (mcp-server/src/handlers.ts), beside the commands of       *)
(* ReleaseFlow.  A tool is told by its caller what it is to work on.  It   *)
(* reads the project, compares, and then runs the CLI's runner, which      *)
(* reads everything again.  The server answers requests as they come, so   *)
(* between any two steps another tool, a command or the developer may have *)
(* changed what was compared.                                              *)
(***************************************************************************)
EXTENDS ReleaseFlow

CONSTANT Tools   \* the tools that are called in each place

ASSUME ToolsAreKnown ==
  Tools \in [Shells -> SUBSET {"raia_evaluation_run", "raia_release_create",
                               "raia_deployment_staging_create",
                               "raia_deployment_get", "raia_context_get"}]

VARIABLE call   \* what the caller named, in each place: {} or one call

toolVars == <<vars, call>>

ToolInit == Init /\ call = [p \in Shells |-> {}]

\* What a tool compared may be something else by now.  `overtaken` is kept to
\* state properties.
Overtaken(tool) ==
  CASE tool = "raia_evaluation_run" -> sources' # sources
    [] tool = "raia_release_create" -> sources' # sources \/ report' # report
    [] tool = "raia_deployment_staging_create" -> workflow' # workflow
    [] OTHER -> FALSE

\* A call is over when its place is idle again.
Follow ==
  call' = [p \in Shells |->
             IF shell'[p] = Idle THEN {}
             ELSE {[c EXCEPT !.overtaken = @ \/ Overtaken(c.tool)] : c \in call[p]}]

Called(p, tool, step) == At(p, step) /\ \E c \in call[p] : c.tool = tool
Named(p) == CHOOSE c \in call[p] : TRUE

-----------------------------------------------------------------------------
(* Calls *)

Call(p, c) ==
  /\ At(p, "idle")
  /\ c.tool \in Tools[p]
  /\ call' = [call EXCEPT ![p] = {c}]
  /\ Go(p, [at |-> "called"])
  /\ UNCHANGED <<sources, edits, report, workflow, store>>

\* What the schemas ask the caller to name.  Of the evidence of a release there
\* is one piece at least, which may be that of the validation alone.
CallTool(p) ==
  \/ \E candidate \in Candidates :
       Call(p, [tool |-> "raia_evaluation_run", candidate |-> candidate,
                overtaken |-> FALSE])
  \/ \E candidate \in Candidates, evidence \in {{}, report} :
       Call(p, [tool |-> "raia_release_create", candidate |-> candidate,
                evidence |-> evidence, overtaken |-> FALSE])
  \/ \E release \in DOMAIN store.releases :
       Call(p, [tool |-> "raia_deployment_staging_create", release |-> release,
                overtaken |-> FALSE])
  \/ Call(p, [tool |-> "raia_context_get", overtaken |-> FALSE])

Compared(p, match, next) ==
  /\ IF match THEN Go(p, [at |-> next]) ELSE Exit(p)
  /\ UNCHANGED <<sources, edits, report, workflow, store>>

\* Mutant: only that there is a candidate is looked at.
isAnyCandidate(named) == named \in Candidates
isCurrentCandidate(named) == named = sources
isCurrentRelease(w, named) == w.release = named
\* Evidence that is not named is not asked for.
isCurrentEvidence(named) == named \subseteq report

raia_evaluation_run(p) ==
  \/ /\ Called(p, "raia_evaluation_run", "called")
     /\ Compared(p, isCurrentCandidate(Named(p).candidate), "run")
  \/ Called(p, "raia_evaluation_run", "run") /\ BeginTest(p)

\* aggregateReadiness is made for the comparison, thrown away, and made again.
raia_release_create(p) ==
  \/ /\ Called(p, "raia_release_create", "called")
     /\ Compared(p, isCurrentCandidate(Named(p).candidate), "compared")
  \/ /\ Called(p, "raia_release_create", "compared")
     /\ Compared(p, isCurrentEvidence(Named(p).evidence), "run")
  \/ Called(p, "raia_release_create", "run") /\ BeginRelease(p)

raia_deployment_staging_create(p) ==
  \/ /\ Called(p, "raia_deployment_staging_create", "called")
     /\ Compared(p, \E w \in workflow : isCurrentRelease(w, Named(p).release),
                 "run")
  \/ Called(p, "raia_deployment_staging_create", "run") /\ BeginDeploy(p)

\* The provider is asked at once; asking moves the deployment.
raia_deployment_get(p) ==
  /\ At(p, "idle")
  /\ "raia_deployment_get" \in Tools[p]
  /\ \E id \in DOMAIN store.deployments :
       store' = getDeployment(store, "OK", id).store
  /\ UNCHANGED <<sources, edits, report, workflow, shell>>

-----------------------------------------------------------------------------
(* raia_context_get: raia status *)

\* Mutant: the workflow is told as it is.
statusAsSaved(candidate, w) ==
  [candidate |-> candidate, stage |-> w.stage, release |-> w.release,
   deployments |-> w.deployments]

\* A workflow of another candidate reads as DRAFT, without being changed.  Of
\* deployments the last is told.
status(candidate, w) ==
  IF w.candidate = candidate
  THEN [candidate |-> candidate, stage |-> w.stage, release |-> w.release,
        deployments |-> w.deployments]
  ELSE [candidate |-> candidate, stage |-> "DRAFT", release |-> 0,
        deployments |-> {}]

\* The sources are read first and the workflow last, after the provider; without
\* a workflow there is nothing to tell of it.
raia_context_get(p) ==
  /\ \/ /\ Called(p, "raia_context_get", "called")
        /\ Go(p, [at |-> "reading", candidate |-> sources])
     \/ /\ Called(p, "raia_context_get", "reading")
        /\ \E w \in workflow :
             Go(p, [at |-> "told", status |-> status(shell[p].candidate, w)])
     \/ Called(p, "raia_context_get", "reading") /\ workflow = {} /\ Exit(p)
     \/ Called(p, "raia_context_get", "told") /\ Exit(p)
  /\ UNCHANGED <<sources, edits, report, workflow, store>>

-----------------------------------------------------------------------------

Tool(p) ==
  \/ raia_evaluation_run(p)
  \/ raia_release_create(p)
  \/ raia_deployment_staging_create(p)
  \/ raia_deployment_get(p)
  \/ raia_context_get(p)

ToolNext ==
  \/ \E p \in Shells : CallTool(p)
  \/ (\E p \in Shells : Tool(p)) /\ Follow
  \/ Next /\ Follow

ToolSpec == ToolInit /\ [][ToolNext]_toolVars

-----------------------------------------------------------------------------
(* What the tools promise *)

\* A tool evaluates, releases and deploys what its caller named, and on the
\* evidence that was named, unless it was changed in the middle of the call: what
\* was compared is thrown away and read again (handlers.ts:243, 282, 318).
NamedOrOvertaken ==
  \A p \in Shells : \A c \in call[p] : c.overtaken \/
    /\ c.tool = "raia_evaluation_run" /\ At(p, "report") =>
         shell[p].run.candidate = c.candidate /\ shell[p].run.suites = c.candidate
    /\ c.tool = "raia_release_create" /\ shell[p].at \in {"advance", "finish"} =>
         /\ shell[p].candidate = c.candidate
         /\ At(p, "advance") => c.evidence \subseteq {shell[p].run}
    /\ c.tool = "raia_deployment_staging_create"
         /\ shell[p].at \in {"deploy", "poll"} =>
         shell[p].state.release = c.release

\* The references that the status tells belong together, although they were read
\* at different times and others wrote in between: a release is of the candidate
\* that is told with it and a deployment of that release (status.ts:61-70).  What
\* it tells of validation, drift and the validation report is not modelled.
StatusHolds(s, told) ==
  /\ told.stage = "RELEASED" <=> told.release # 0
  /\ told.release # 0 =>
       /\ told.release \in DOMAIN s.releases
       /\ s.releases[told.release].candidate = told.candidate
  /\ \A id \in told.deployments :
       /\ id \in DOMAIN s.deployments
       /\ s.deployments[id].release = told.release
StatusIsTrue ==
  \A p \in Shells : At(p, "told") => StatusHolds(store, shell[p].status)
=============================================================================
