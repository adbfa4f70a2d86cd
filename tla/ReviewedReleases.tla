-------------------------- MODULE ReviewedReleases --------------------------
(***************************************************************************)
(* A chain of releases of one agent, each reviewed by its diff against the *)
(* base version alone: `raia review` and the release gate classify the     *)
(* risk of what separates the working tree from the version it was pulled  *)
(* from (packages/cli/src/readiness.ts:68-73), never of what separates it  *)
(* from the first one.                                                     *)
(***************************************************************************)
EXTENDS SemanticDiff

CONSTANTS
  Default,       \* a snapshot
  Alternatives,  \* per part of a snapshot, the values it is edited between
  Focuses        \* sets of parts that are edited together

\* The shape of a snapshot, as the schema of the manifest has it.
Parts ==
  {"metadata", "persona", "instructions", "modelId", "model", "skills",
   "functions", "knowledge", "integrations", "escalation", "guardrails",
   "evaluations", "environment", "releasePolicy", "files"}

Optional(part) == \A x, y \in part : x = y
Collection(part) == part = [n \in DOMAIN part |-> part[n]]

IsSource(s) == s = [kind |-> s.kind, ref |-> s.ref]

IsPersona(p) ==
  /\ p = [traits |-> p.traits, brandVoice |-> p.brandVoice]
  /\ Optional(p.brandVoice)
  /\ \A s \in p.brandVoice : IsSource(s)

IsFunction(f) ==
  /\ f = [inputSchema |-> f.inputSchema, handler |-> f.handler,
          requiresConfirmation |-> f.requiresConfirmation,
          residual |-> f.residual]
  /\ f.requiresConfirmation \in BOOLEAN
  /\ f.inputSchema.additional \in BOOLEAN

IsEscalation(e) ==
  /\ e.enabled \in BOOLEAN
  /\ Len(e.conditions) \in Nat
  /\ Len(e.destinations) \in Nat
  /\ Optional(e.handoffMessage)
  /\ \A s \in e.handoffMessage : IsSource(s)

IsGuardrails(g) ==
  /\ Len(g.policyPacks) \in Nat
  /\ Len(g.blockedTopics) \in Nat
  /\ g.pii \in DOMAIN GUARDRAIL_PII_ORDER
  /\ g.strict \in BOOLEAN

\* Whether a part may have the value; the parts that are not named here are
\* opaque.
Fits(part, value) ==
  /\ part \in {"metadata", "model", "skills", "functions", "knowledge",
               "integrations"} => Collection(value)
  /\ part = "metadata" => DOMAIN value = MetadataKeys
  /\ part = "model" => DOMAIN value = ModelParameters
  /\ part = "functions" => \A f \in DOMAIN value : IsFunction(value[f])
  /\ part \in {"persona", "escalation", "guardrails"} => Optional(value)
  /\ part = "persona" => \A p \in value : IsPersona(p)
  /\ part = "instructions" => IsSource(value)
  /\ part = "escalation" => \A e \in value : IsEscalation(e)
  /\ part = "guardrails" => \A g \in value : IsGuardrails(g)

IsSnapshot(s) ==
  /\ s = [part \in Parts |-> s[part]]
  /\ \A part \in Parts : Fits(part, s[part])

ASSUME DefaultIsSnapshot == IsSnapshot(Default)
ASSUME AlternativesFit ==
  \A part \in DOMAIN Alternatives :
    part \in Parts /\ \A v \in Alternatives[part] : Fits(part, v)
ASSUME FocusesAreParts ==
  \A parts \in Focuses : parts \subseteq DOMAIN Alternatives

VARIABLES
  focus,     \* the parts being edited
  origin,    \* the version the chain began with
  base,      \* the version the project is bound to
  local,     \* the working tree
  accepted,  \* history: the highest severity that a release has shown
  exchanged  \* history: a release put one entry of a list of controls in the
             \* place of another

vars == <<focus, origin, base, local, accepted, exchanged>>

Init ==
  /\ focus \in Focuses
  /\ \E part \in focus : \E v \in Alternatives[part] :
       origin = [Default EXCEPT ![part] = v]
  /\ base = origin
  /\ local = origin
  /\ accepted = 0
  /\ exchanged = FALSE

\* The developer edits the manifest or an artifact.
Edit ==
  /\ \E part \in focus : \E v \in Alternatives[part] :
       local' = [local EXCEPT ![part] = v]
  /\ UNCHANGED <<focus, origin, base, accepted, exchanged>>

\* Nothing reported is 0, and nothing but metadata is still low.
Shown(b, a) ==
  IF diffManifests(b, a) = {} THEN 0 ELSE SEVERITY_ORDER[risk(b, a)]

Higher(m, n) == IF m > n THEN m ELSE n

\* The lists of controls, of which the diff compares the lengths.
ControlLists ==
  [escalation |-> {"conditions", "destinations"},
   guardrails |-> {"policyPacks", "blockedTopics"}]

Entries(part, list) == UNION {{p[list][i] : i \in DOMAIN p[list]} : p \in part}

\* `n` lacks an entry of the list that `o` had.
Drops(o, n, part, list) == ~ (Entries(o[part], list) \subseteq Entries(n[part], list))

Exchanges(o, n) ==
  \E part \in DOMAIN ControlLists : \E list \in ControlLists[part] :
    /\ Drops(o, n, part, list)
    /\ LengthIn(n[part], list) >= LengthIn(o[part], list)

\* What is released becomes the version to compare with.  Whether a policy
\* accepts the risk is not restricted here: `accepted` remembers it.
Release ==
  /\ accepted' = Higher(accepted, Shown(base, local))
  /\ exchanged' = (exchanged \/ Exchanges(base, local))
  /\ base' = local
  /\ UNCHANGED <<focus, origin, local>>

Next == Edit \/ Release

Spec == Init /\ [][Next]_vars

-----------------------------------------------------------------------------
(* What may not get lost on the way. *)

\* The risk of all releases together is one that some release has shown: a
\* high-risk change cannot be split into steps of lower risk.
RiskIsCovered == Shown(origin, base) <= accepted

WeakerFunctions(o, n) ==
  \E f \in DOMAIN n :
    \/ f \notin DOMAIN o
    \/ o[f].requiresConfirmation /\ ~n[f].requiresConfirmation
    \/ o[f].handler # n[f].handler
    \/ o[f].inputSchema.required \ n[f].inputSchema.required # {}

\* `n` lacks a safety control that `o` had, or reaches further.  Knowledge is
\* meant by name: what a name stands for may be edited.
Weaker(o, n) ==
  \/ o.modelId # n.modelId
  \/ o.releasePolicy # n.releasePolicy
  \/ WeakerFunctions(o.functions, n.functions)
  \/ ~ (DOMAIN o.knowledge \subseteq DOMAIN n.knowledge)
  \/ \E i \in DOMAIN n.integrations :
       i \notin DOMAIN o.integrations \/ o.integrations[i] # n.integrations[i]
  \/ \E e \in o.escalation :
       e.enabled /\ ~ \E m \in n.escalation : m.enabled
  \/ \E g \in o.guardrails :
       ~ \E m \in n.guardrails :
           /\ GUARDRAIL_PII_ORDER[m.pii] >= GUARDRAIL_PII_ORDER[g.pii]
           /\ g.strict => m.strict

\* One of the lists of controls lacks an entry.
ControlDropped(o, n) ==
  \E part \in DOMAIN ControlLists : \E list \in ControlLists[part] :
    Drops(o, n, part, list)

\* A chain of releases of which none showed a high risk takes no safety control
\* away, however long it is (the high-risk floor that semantic-diff.ts:5-8
\* names).  The one exception is said by its name: a release that puts a
\* blocked topic, a policy pack, an escalation condition or a destination in
\* the place of another is a medium risk, and only after such a release can an
\* entry of these lists be missing.
ProtectionKept ==
  accepted < SEVERITY_ORDER["high"] =>
    /\ ~Weaker(origin, base)
    /\ ControlDropped(origin, base) => exchanged

\* The functions are the same but for confirmations that were added.
OnlyConfirmed(o, n) ==
  /\ DOMAIN o = DOMAIN n
  /\ \A f \in DOMAIN o :
       /\ [o[f] EXCEPT !.requiresConfirmation = FALSE]
            = [n[f] EXCEPT !.requiresConfirmation = FALSE]
       /\ o[f].requiresConfirmation => n[f].requiresConfirmation

\* Releases whose diffs were all empty have changed nothing in the manifest but
\* confirmations that were added, and nothing in the prompt file.  The content
\* of every other file that the manifest refers to is outside: the diff does not
\* look at the file of an unchanged brand voice or handoff message (or at one
\* that a configuration names), so a release may change it in silence.
SilenceIsSafe ==
  accepted = 0 =>
    /\ OnlyConfirmed(origin.functions, base.functions)
    /\ artifactHash(origin.files, {origin.instructions})
         = artifactHash(base.files, {base.instructions})
    /\ Traits(origin.persona) = Traits(base.persona)
    /\ Voice(origin.persona) = Voice(base.persona)
    /\ \A part \in DOMAIN origin \ {"functions", "files", "instructions",
                                    "persona"} :
         origin[part] = base[part]
=============================================================================
