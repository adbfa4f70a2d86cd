---------------------------- MODULE SemanticDiff ----------------------------
(***************************************************************************)
(* packages/core/src/diff/semantic-diff.ts: what changed between two       *)
(* agent manifests, and how risky it is.                                   *)
(*                                                                         *)
(* A snapshot is a record with a field per part of the manifest that the   *)
(* code compares, and `files`, the contents of the local artifacts by      *)
(* path.  An optional part is a set of at most one value.  A name-keyed    *)
(* collection is a function from the names it has: the code puts it into a *)
(* Map and looks at nothing but the names and whether two items are equal. *)
(* Lists of which only equality and length matter are sequences; whatever  *)
(* is compared as a whole is one opaque value.                             *)
(***************************************************************************)
EXTENDS Naturals, Sequences

MetadataKeys ==
  {"name", "description", "workspaceId", "agentId", "labels", "annotations"}
ModelParameters ==
  {"temperature", "maxOutputTokens", "reasoning", "responseFormat"}

SEVERITY_ORDER ==
  [info |-> 0, low |-> 1, medium |-> 2, high |-> 3, critical |-> 4]
RiskLevels == {"low", "medium", "high", "critical"}

\* One entry of the diff.  `breaking` is kept because a release plan shows it;
\* before, after and the wording of the reason are not.
Change(path, operation, severity, breaking) ==
  [path |-> path, operation |-> operation, severity |-> severity,
   breaking |-> breaking]

OperationOn(b, a) ==
  IF b = {} THEN "add" ELSE IF a = {} THEN "remove" ELSE "replace"

\* The changes in S when `condition`, else none.
When(condition, S) == IF condition THEN S ELSE {}

\* The highest severity; nothing, or nothing but info, is low.
maxRisk(changes) ==
  CHOOSE r \in RiskLevels :
    /\ r = "low" \/ \E c \in changes : c.severity = r
    /\ \A c \in changes : SEVERITY_ORDER[c.severity] <= SEVERITY_ORDER[r]

-----------------------------------------------------------------------------
(* Artifacts: inline text, a remote reference, or a local file. *)

artifactHash(files, source) ==
  {IF s.kind = "file"
   THEN <<s.kind, s.ref, IF s.ref \in DOMAIN files THEN {files[s.ref]} ELSE {}>>
   ELSE <<s.kind, s.ref, {}>> : s \in source}

Traits(persona) == UNION {p.traits : p \in persona}
Voice(persona) == UNION {p.brandVoice : p \in persona}

DiffMetadata(b, a) ==
  {Change(<<"metadata", k>>, OperationOn(b.metadata[k], a.metadata[k]),
          "info", FALSE) :
     k \in {key \in MetadataKeys : b.metadata[key] # a.metadata[key]}}

\* The outer comparison does not see the content of a brandVoice file.
DiffPersona(b, a) ==
  When(/\ b.persona # a.persona
       /\ \/ artifactHash(b.files, Voice(b.persona))
               # artifactHash(a.files, Voice(a.persona))
          \/ Traits(b.persona) # Traits(a.persona),
       {Change(<<"persona">>, OperationOn(b.persona, a.persona), "low", FALSE)})

\* Mutant: an edited prompt file behind the same reference is overlooked.
DiffInstructionsByReference(b, a) ==
  When(b.instructions # a.instructions,
       {Change(<<"instructions">>, "replace", "medium", FALSE)})

DiffInstructions(b, a) ==
  When(artifactHash(b.files, {b.instructions})
         # artifactHash(a.files, {a.instructions}),
       {Change(<<"instructions">>, "replace", "medium", FALSE)})

DiffModel(b, a) ==
  When(b.modelId # a.modelId,
       {Change(<<"model", "modelId">>, "replace", "high", TRUE)})
  \cup {Change(<<"model", k>>, "replace", "medium", FALSE) :
          k \in {key \in ModelParameters : b.model[key] # a.model[key]}}

-----------------------------------------------------------------------------
(* Name-keyed collections. *)

\* What a collection's handlers answer.
Outcome(severity, breaking) == [severity |-> severity, breaking |-> breaking]

SkillHandlers ==
  [onAdd |-> Outcome("medium", FALSE), onRemove |-> Outcome("medium", TRUE),
   onReplace |-> Outcome("medium", FALSE)]
KnowledgeHandlers ==
  [onAdd |-> Outcome("medium", FALSE), onRemove |-> Outcome("high", TRUE),
   onReplace |-> Outcome("medium", FALSE)]
\* Mutant: an integration may be removed and added anew at medium risk.
IntegrationHandlersMildAdd ==
  [onAdd |-> Outcome("medium", FALSE), onRemove |-> Outcome("medium", TRUE),
   onReplace |-> Outcome("high", FALSE)]
IntegrationHandlers ==
  [onAdd |-> Outcome("high", FALSE), onRemove |-> Outcome("medium", TRUE),
   onReplace |-> Outcome("high", FALSE)]

diffNamedCollection(base, b, a, handlers) ==
  LET changed(names, operation, outcome) ==
        {Change(<<base, n>>, operation, outcome.severity, outcome.breaking) :
           n \in names}
      both == DOMAIN b \cap DOMAIN a
  IN  changed(DOMAIN b \ DOMAIN a, "remove", handlers.onRemove)
        \cup changed({n \in both : b[n] # a[n]}, "replace", handlers.onReplace)
        \cup changed(DOMAIN a \ DOMAIN b, "add", handlers.onAdd)

-----------------------------------------------------------------------------
(* Functions.  An input schema has the required fields, the constraints of
   the declared properties (pattern and enum, each optional), and whether
   other properties are accepted (additionalProperties !== false). *)

isInputSchemaBroadened(b, a) ==
  \/ b.required \ a.required # {}
  \/ ~b.additional /\ a.additional
  \/ \E n \in DOMAIN b.properties \cap DOMAIN a.properties :
       \/ b.properties[n].pattern # {} /\ a.properties[n].pattern = {}
       \/ b.properties[n].enum # {} /\ a.properties[n].enum = {}

isInputSchemaIncompatible(b, a) ==
  \/ a.required \ b.required # {}
  \/ DOMAIN b.properties \ DOMAIN a.properties # {}

InputSchemaSeverity(b, a) ==
  IF isInputSchemaBroadened(b, a) \/ isInputSchemaIncompatible(b, a)
  THEN Outcome("high", TRUE) ELSE Outcome("medium", FALSE)

DiffFunction(n, b, a) ==
  LET schema == InputSchemaSeverity(b.inputSchema, a.inputSchema) IN
  When(b.inputSchema # a.inputSchema,
       {Change(<<"functions", n, "inputSchema">>, "replace", schema.severity,
               schema.breaking)})
  \cup When(b.requiresConfirmation /\ ~a.requiresConfirmation,
            {Change(<<"functions", n, "requiresConfirmation">>, "replace",
                    "high", TRUE)})
  \cup When(b.handler # a.handler,
            {Change(<<"functions", n, "handler">>, "replace", "high", FALSE)})
  \cup When(b.residual # a.residual,
            {Change(<<"functions", n>>, "replace", "medium", FALSE)})

diffFunctions(b, a) ==
  {Change(<<"functions", n>>, "remove", "medium", TRUE) :
     n \in DOMAIN b \ DOMAIN a}
  \cup (UNION {DiffFunction(n, b[n], a[n]) : n \in DOMAIN b \cap DOMAIN a})
  \cup {Change(<<"functions", n>>, "add", "high", FALSE) :
          n \in DOMAIN a \ DOMAIN b}

-----------------------------------------------------------------------------
(* Escalation and guardrails.  An absent list has length 0. *)

LengthIn(part, list) ==
  IF part = {} THEN 0 ELSE Len((CHOOSE p \in part : TRUE)[list])

EscalationRemoved(b, a) ==
  \/ b # {} /\ a = {}
  \/ \E old \in b, new \in a : old.enabled /\ ~new.enabled

ConditionsShrunk(b, a) ==
  \E list \in {"conditions", "destinations"} :
    LengthIn(b, list) > LengthIn(a, list)

\* The handoff message is compared as part of the record, its file is not read.
diffEscalation(b, a) ==
  LET severe == EscalationRemoved(b, a) \/ ConditionsShrunk(b, a) IN
  When(b # a,
       {Change(<<"escalation">>, OperationOn(b, a),
               IF severe THEN "high" ELSE "medium", severe)})

GUARDRAIL_PII_ORDER == [deny |-> 2, redact |-> 1, allow |-> 0]

\* "allow-by-policy" is the default; "strict" is one of two defenses.
PiiOrder(part) ==
  IF part = {} THEN 0 ELSE GUARDRAIL_PII_ORDER[(CHOOSE p \in part : TRUE).pii]
Strict(part) == \E p \in part : p.strict

\* Mutant: only the lists are compared.
ListsShortened(b, a) ==
  \E list \in {"policyPacks", "blockedTopics"} :
    LengthIn(b, list) > LengthIn(a, list)

GuardrailsWeakened(b, a) ==
  \/ LengthIn(b, "policyPacks") > LengthIn(a, "policyPacks")
  \/ LengthIn(b, "blockedTopics") > LengthIn(a, "blockedTopics")
  \/ PiiOrder(b) > PiiOrder(a)
  \/ Strict(b) /\ ~Strict(a)

diffGuardrails(b, a) ==
  LET severe == (b # {} /\ a = {}) \/ GuardrailsWeakened(b, a) IN
  When(b # a,
       {Change(<<"guardrails">>, OperationOn(b, a),
               IF severe THEN "high" ELSE "medium", severe)})

-----------------------------------------------------------------------------

DiffDeployment(b, a) ==
  When(b.environment # a.environment,
       {Change(<<"deployment", "defaultEnvironment">>, "replace", "medium",
               FALSE)})
  \cup When(b.releasePolicy # a.releasePolicy,
            {Change(<<"deployment", "releasePolicy">>, "replace", "high",
                    FALSE)})

diffManifests(b, a) ==
  DiffMetadata(b, a) \cup DiffPersona(b, a) \cup DiffInstructions(b, a)
    \cup DiffModel(b, a)
    \cup diffNamedCollection("skills", b.skills, a.skills, SkillHandlers)
    \cup diffFunctions(b.functions, a.functions)
    \cup diffNamedCollection("knowledge", b.knowledge, a.knowledge,
                             KnowledgeHandlers)
    \cup diffNamedCollection("integrations", b.integrations, a.integrations,
                             IntegrationHandlers)
    \cup diffEscalation(b.escalation, a.escalation)
    \cup diffGuardrails(b.guardrails, a.guardrails)
    \cup When(b.evaluations # a.evaluations,
              {Change(<<"evaluations">>,
                      OperationOn(b.evaluations, a.evaluations), "medium",
                      FALSE)})
    \cup DiffDeployment(b, a)

risk(b, a) == maxRisk(diffManifests(b, a))
=============================================================================
