----------------------------- MODULE Lifecycle -----------------------------
(***************************************************************************)
(* The two lifecycles of packages/core/src/lifecycle/lifecycle.ts, as the  *)
(* tables the code keeps: a local change moves from DRAFT to RELEASED one  *)
(* stage at a time and may be REJECTED on the way; a deployment is a       *)
(* separate aggregate that the provider moves from QUEUED.  The functions  *)
(* are pure: a transition that the table lacks changes nothing.            *)
(***************************************************************************)

ChangeStates ==
  {"DRAFT", "PLANNED", "VALIDATED", "EVALUATED", "APPROVED", "REJECTED",
   "RELEASED"}

CHANGE_TRANSITIONS ==
  [DRAFT     |-> {"PLANNED", "REJECTED"},
   PLANNED   |-> {"VALIDATED", "REJECTED"},
   VALIDATED |-> {"EVALUATED", "REJECTED"},
   EVALUATED |-> {"APPROVED", "REJECTED"},
   APPROVED  |-> {"RELEASED", "REJECTED"},
   REJECTED  |-> {},
   RELEASED  |-> {}]

DeploymentStates ==
  {"QUEUED", "DEPLOYING", "HEALTHY", "FAILED", "ROLLING_BACK", "ROLLED_BACK",
   "SUPERSEDED"}

DEPLOYMENT_TRANSITIONS ==
  [QUEUED       |-> {"DEPLOYING"},
   DEPLOYING    |-> {"HEALTHY", "FAILED"},
   HEALTHY      |-> {"SUPERSEDED", "ROLLING_BACK"},
   FAILED       |-> {"ROLLING_BACK"},
   ROLLING_BACK |-> {"ROLLED_BACK"},
   ROLLED_BACK  |-> {},
   SUPERSEDED   |-> {}]

(* The decision functions, by their `ok` field. *)
decideChangeTransition(from, to) == to \in CHANGE_TRANSITIONS[from]
decideDeploymentTransition(from, to) == to \in DEPLOYMENT_TRANSITIONS[from]
=============================================================================
