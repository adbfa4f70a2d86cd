--------------------------- MODULE WorkflowState ---------------------------
(***************************************************************************)
(* The local record of one change, .raia/workflow-state.json, and the      *)
(* functions of packages/core/src/lifecycle/workflow-state.ts that make    *)
(* the next one from it.  Reading and writing the file is up to the        *)
(* commands (ReleaseFlow).                                                 *)
(***************************************************************************)
EXTENDS Lifecycle, Naturals, Sequences

\* A piece of evidence and the candidate it is bound to.  `run` holds the
\* evaluation run it attests, `id` the remote object it names.
Attest(type, candidate, run, id, healthy) ==
  [type |-> type, candidate |-> candidate, run |-> run, id |-> id,
   healthy |-> healthy]

Moved(from, to, candidate) == [from |-> from, to |-> to, candidate |-> candidate]

\* `base` stands for the identity recorded beside the candidate hash: base
\* version, ETag, manifest and lock hash.  `release` is remote.releaseCandidateId
\* (0 when absent), `deployments` is remote.deploymentIds.
initialWorkflowState(candidate, base) ==
  [stage |-> "DRAFT", candidate |-> candidate, base |-> base, evidence |-> {},
   release |-> 0, deployments |-> {},
   history |-> <<Moved("NONE", "DRAFT", candidate)>>]

\* Mutant: prior evidence is carried forward.
reconcileKeepingEvidence(w, candidate, base) ==
  IF w.candidate = candidate THEN w
  ELSE [w EXCEPT !.stage = "DRAFT", !.candidate = candidate, !.base = base,
                 !.release = 0, !.deployments = {},
                 !.history = Append(@, Moved(w.stage, "DRAFT", candidate))]

\* Mutant: the history starts again.
reconcileAfresh(w, candidate, base) ==
  IF w.candidate = candidate THEN w ELSE initialWorkflowState(candidate, base)

\* A changed candidate returns the workflow to DRAFT with nothing but its
\* history.
reconcileCandidate(w, candidate, base) ==
  IF w.candidate = candidate THEN w
  ELSE [w EXCEPT !.stage = "DRAFT", !.candidate = candidate, !.base = base,
                 !.evidence = {}, !.release = 0, !.deployments = {},
                 !.history = Append(@, Moved(w.stage, "DRAFT", candidate))]

\* INVALID_TRANSITION and EVIDENCE_MISMATCH are thrown otherwise.
MayMove(w, to, evidence) ==
  /\ decideChangeTransition(w.stage, to)
  /\ \A item \in evidence : item.candidate = w.candidate

\* `release` is the remote reference that the caller adds, 0 for none.
applyTransition(w, to, evidence, release) ==
  [w EXCEPT !.stage = to, !.evidence = @ \cup evidence,
            !.release = IF release = 0 THEN @ ELSE release,
            !.history = Append(@, Moved(w.stage, to, w.candidate))]

-----------------------------------------------------------------------------
(* A workflow that can be trusted, as predicates of one file. *)

\* Every step of the history is one the lifecycle allows or a return to DRAFT
\* with another candidate, and the history ends where the workflow is.
HistoryIsLegal(w) ==
  LET h == w.history IN
  /\ h[1] = Moved("NONE", "DRAFT", h[1].candidate)
  /\ \A i \in 2 .. Len(h) :
       /\ h[i].from = h[i - 1].to
       /\ \/ /\ h[i].candidate = h[i - 1].candidate
             /\ decideChangeTransition(h[i].from, h[i].to)
          \/ /\ h[i].candidate # h[i - 1].candidate
             /\ h[i].to = "DRAFT"
  /\ h[Len(h)].to = w.stage
  /\ h[Len(h)].candidate = w.candidate

\* The stages from EVALUATED on rest on an evaluation of this very candidate
\* that passed, and all evidence is of this candidate.
EvidenceSupports(w) ==
  /\ \A item \in w.evidence : item.candidate = w.candidate
  /\ w.stage \in {"EVALUATED", "APPROVED", "RELEASED"} =>
       \E item \in w.evidence :
         /\ item.type = "evaluation"
         /\ \E run \in item.run : run.candidate = w.candidate /\ run.passed
=============================================================================
