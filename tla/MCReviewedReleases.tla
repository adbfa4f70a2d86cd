------------------------- MODULE MCReviewedReleases -------------------------
(* Small instances of ReviewedReleases. *)
EXTENDS ReviewedReleases, TLC

Absent == <<>>                       \* a collection without names
Only(n, v) == n :> v
Collections(n, v) ==                 \* over a name and two values
  {Absent} \cup {Only(n, x) : x \in v}

Source(kind, ref) == [kind |-> kind, ref |-> ref]
Prompt == Source("file", "prompt")
Handoff == Source("file", "handoff")
Sources == {Prompt, Source("inline", "prompt"), Source("remote", "prompt")}

Lists == {<<>>, <<"x">>, <<"y">>, <<"x", "y">>}

Constraint(pattern, enum) == [pattern |-> pattern, enum |-> enum]
Schema(required, properties, additional) ==
  [required |-> required, properties |-> properties,
   additional |-> additional]
Function(schema, handler, confirmed, residual) ==
  [inputSchema |-> schema, handler |-> handler,
   requiresConfirmation |-> confirmed, residual |-> residual]
PlainSchema == Schema({"f"}, Only("f", Constraint({{"1"}}, {})), FALSE)
\* Functions that differ in one respect or in several, and pairs of them.
Definitions ==
  {Function(s, "h", TRUE, "r") :
     s \in {PlainSchema, Schema({}, Absent, FALSE), Schema({}, Absent, TRUE)}}
    \cup {Function(PlainSchema, h, c, r) :
            h \in {"h", "i"}, c \in BOOLEAN, r \in {"r", "s"}}

Escalations ==
  {{}} \cup {{[enabled |-> e, conditions |-> c, destinations |-> d,
               handoffMessage |-> h]} :
               e \in BOOLEAN, c \in {<<>>, <<"x">>}, d \in Lists,
               h \in {{}, {Handoff}}}
Guardrails ==
  {{}} \cup {{[policyPacks |-> k, blockedTopics |-> t, pii |-> i,
               strict |-> s]} :
               k \in {<<>>, <<"x">>}, t \in {<<>>, <<"x">>, <<"y">>},
               i \in {"deny", "redact", "allow"}, s \in BOOLEAN}

Choices == {{}, {"x"}, {"y"}}

McDefault ==
  [metadata |-> [k \in MetadataKeys |-> {}], persona |-> {},
   instructions |-> Prompt, modelId |-> "m1",
   model |-> [k \in ModelParameters |-> {}],
   skills |-> Absent, functions |-> Absent, knowledge |-> Absent,
   integrations |-> Absent,
   escalation |-> {[enabled |-> TRUE, conditions |-> <<>>,
                    destinations |-> <<>>, handoffMessage |-> {Handoff}]},
   guardrails |-> {},
   evaluations |-> {}, environment |-> {}, releasePolicy |-> {},
   files |-> Only("prompt", "v1") @@ Only("handoff", "v1")]

McAlternatives ==
  [metadata |-> {[McDefault.metadata EXCEPT !["labels"] = x] : x \in Choices},
   persona |-> {{}} \cup {{[traits |-> t, brandVoice |-> v]} :
                  t \in {{}, {"kind"}}, v \in {{}, {Prompt}}},
   instructions |-> Sources,
   modelId |-> {"m1", "m2"},
   model |-> {[McDefault.model EXCEPT !["temperature"] = x] : x \in Choices},
   skills |-> Collections("s", {"1", "2"}),
   functions |-> Collections("f", Definitions),
   knowledge |-> Collections("k", {"1", "2"}),
   integrations |-> Collections("i", {"1", "2"}),
   escalation |-> Escalations,
   guardrails |-> Guardrails,
   evaluations |-> Choices,
   environment |-> Choices,
   releasePolicy |-> Choices,
   files |-> {Only("handoff", "v1"), Only("prompt", "v2"),
              Only("prompt", "v1") @@ Only("handoff", "v1"),
              Only("prompt", "v1") @@ Only("handoff", "v2")}]

\* Every part alone, and the parts that are read together.
McFocuses ==
  {{part} : part \in DOMAIN McAlternatives}
    \cup {{"persona", "instructions", "files"}, {"skills", "knowledge"},
          {"integrations", "modelId"}, {"functions", "metadata"}}
=============================================================================
