-------------------------- MODULE MCProjectWriter --------------------------
(* Small instances of ProjectWriter. *)
EXTENDS ProjectWriter, TLC

CONSTANTS p1, p2, p3, f1, f2, bad, leak, binding, ignore

\* The paths of the project, and a reference that is not spelled as its path.
PlainReferences ==
  [r \in {"evals/suite", "fixtures/1", "policy", "prompt"} |-> r]
SpelledReferences == PlainReferences @@ ("./prompt" :> "prompt")

McUnrelated == (BINDING :> binding) @@ (GITIGNORE :> ignore)

\* A suite of one case, with its turn.
Suite(role) == <<[turns |-> {<<[role |-> role, fixtureRef |-> {"fixtures/1"}]>>}]>>

Dir(reference, prompt, suite, fixture) ==
  (MANIFEST_FILE_NAME :> [files |-> {reference}, suites |-> <<"evals/suite">>,
                          policy |-> {"policy"}, rest |-> {}])
    @@ ("prompt" :> prompt) @@ ("evals/suite" :> suite)
    @@ ("fixtures/1" :> fixture) @@ ("policy" :> p1)

\* The same manifest with other suites, and with another prompt.
First == Dir("prompt", p1, Suite("user"), f1)
OtherSuite == Dir("prompt", p1, Suite("assistant"), f2)
OtherPrompt == Dir("prompt", p2, Suite("user"), f1)
OneFixture == {First}
TwoAdvances == {OtherSuite, OtherPrompt}

Edit(path, content) == [path |-> path, content |-> content]
McEdits ==
  {Edit("prompt", p3), Edit("fixtures/1", f2), Edit("fixtures/1", leak),
   Edit(LOCK_FILE_NAME, bad)}

\* Two traces, one of them seen in full and cut off, that are proposed under one
\* id; also where the project's own suite is.
Event(type, content) == [type |-> type, content |-> content]
Talk == <<Event("user-message", "ask"), Event("assistant-message", "refuse"),
          Event("state-transition", "closed")>>
LongTalk == <<Event("assistant-message", "greet"), Event("user-message", "ask"),
              Event("tool-call", "look up"), Event("assistant-message", "tell")>>
McProposals ==
  [events : {Talk}, destination : {"evals/suite", "evals/new"},
   fixture : {"fixtures/new"}]
    \cup [events : {LongTalk, SubSeq(LongTalk, 1, 2)},
          destination : {"evals/other"}, fixture : {"fixtures/new"}]
NoProposals == {}

\* A manifest that spells the reference in another way.
Spelled == Dir("./prompt", p1, Suite("user"), f1)
SpelledFixture == {Spelled}
NoAdvances == {}
PromptEdits == {Edit("prompt", p3)}

\* The instances are ones that the theorems are about; spelling the reference in
\* another way is what the run `spelled` is for.
ASSUME TheoremsApply ==
  /\ OwnPathsAreKept /\ LocksAreMade /\ IgnoreIsLeft /\ PublishedWhole
  /\ PromptsAreSpelledOut <=> Fixtures # SpelledFixture
=============================================================================
