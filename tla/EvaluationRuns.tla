--------------------------- MODULE EvaluationRuns ---------------------------
(***************************************************************************)
(* `raia test` (packages/cli/src/commands/test.ts) over the evaluation     *)
(* engine (eval-engine/src/engine.ts), in fixture mode and, through the    *)
(* live executor and the conversation client (packages/conversation-       *)
(* client/src), against a conversation runtime; and what readiness         *)
(* (cli/src/readiness.ts) makes of the report, while the project changes.  *)
(*                                                                         *)
(* A command reads the project twice, to name the candidate and to load    *)
(* the suites; then it runs case by case, repetition by repetition, and    *)
(* writes the report when it has run them all.  An error of the runtime    *)
(* ends the command, as a kill does.                                       *)
(***************************************************************************)
EXTENDS Project, Evaluation

CONSTANTS
  InitialFiles,  \* the project as it is found
  Edits,         \* what a developer writes: [path, content]
  Commands,      \* the options of `raia test`: mode, selected suites (<<>> for
                 \* those the manifest names), repetitions, compare
  Replies,       \* what the runtime may answer
  Latencies,     \* what a conversation may take
  MaxRuns,       \* bound on the commands started
  MaxEdits       \* bound on the edits

VARIABLES
  files,         \* the project directory
  test,          \* the running command, a set of at most one
  report,        \* reports/latest/evaluation.json, a set of at most one
  baseline,      \* a report that the developer has kept, likewise
  conversations, \* what the runtime has, in the order of creation
  runs, edits    \* commands started, edits made

vars == <<files, test, report, baseline, conversations, runs, edits>>

-----------------------------------------------------------------------------
(* What the schemas of manifest and suite say of the documents that meet them,
   as far as the engine relies on it.                                        *)

IsSequence(s) == s \in Seq({s[i] : i \in DOMAIN s})
Optional(S) == \A x, y \in S : x = y

\* A case has a list of turns or none, a turn a fixture or none.
IsCase(case) ==
  /\ Optional(case.turns)
  /\ \A turns \in case.turns :
       IsSequence(turns) /\ \A i \in DOMAIN turns : Optional(turns[i].fixtureRef)

IsSuite(cases) ==
  IsSequence(cases) /\ \A i \in DOMAIN cases : IsCase(cases[i])

\* All that the file at a path may come to hold.
Contents(path) ==
  {InitialFiles[p] : p \in {path} \cap DOMAIN InitialFiles}
    \cup {e.content : e \in {x \in Edits : x.path = path}}

Manifests == Contents(MANIFEST_FILE_NAME) \ Malformed

\* The suites that a command or a manifest names.
SuiteRefs ==
  (UNION {ToSet(c.suites) : c \in Commands})
    \cup {PosixRelative[ref] :
            ref \in DOMAIN PosixRelative
                     \cap UNION {ToSet(m.suites) : m \in Manifests}}

ASSUME CommandsAreOptions ==
  \A c \in Commands : IsSequence(c.suites) /\ c.repetitions \in Int

ASSUME ManifestsListSuites == \A m \in Manifests : IsSequence(m.suites)

ASSUME SuitesMeetTheirSchema ==
  \A ref \in SuiteRefs \cap DOMAIN PosixRelative :
    \A document \in Contents(PosixRelative[ref]) \ Malformed : IsSuite(document)

-----------------------------------------------------------------------------
(* The order of work *)

\* The first of the cases that are not done: suite by suite, case by case.
Left(t) == Positions(t.suites) \ DOMAIN t.results
InProgress(t) == t.phase = "run" /\ Left(t) # {}
Position(t) ==
  CHOOSE p \in Left(t) : \A q \in Left(t) : p = q \/ Before(p, q)

SuiteAt(suites, p) == suites[p[1]]
CaseAt(suites, p) == suites[p[1]].cases[p[2]]
CurrentSuite(t) == SuiteAt(t.suites, Position(t))
CurrentCase(t) == CaseAt(t.suites, Position(t))

\* Mutant: a failed repetition is the last.
RepetitionsDoneAtFailure(t, reps) ==
  Len(reps) = t.repetitions \/ reps[Len(reps)].status = "failed"

RepetitionsDone(t, reps) == Len(reps) = t.repetitions

\* The record of a repetition is added, and after the last one the case's.
Recorded(t, executed) ==
  LET reps == Append(t.reps, Repetition(CurrentCase(t), executed))
      next == [t EXCEPT !.conversation = {}, !.sent = 0, !.reply = {}]
  IN  IF RepetitionsDone(t, reps)
      THEN [next EXCEPT !.reps = <<>>,
              !.results = [p \in DOMAIN @ \cup {Position(t)} |->
                 IF p = Position(t)
                 THEN CaseResult(CurrentSuite(t), CurrentCase(t), reps)
                 ELSE @[p]]]
      ELSE [next EXCEPT !.reps = reps]

\* Between 1 and 20, whatever was asked for.
Clamped(n) == IF n < 1 THEN 1 ELSE IF n > 20 THEN 20 ELSE n

-----------------------------------------------------------------------------
Init ==
  /\ files = InitialFiles
  /\ test = {} /\ report = {} /\ baseline = {}
  /\ conversations = <<>>
  /\ runs = 0 /\ edits = 0

\* Validate the project, name the candidate, choose the suites.
StartTest ==
  /\ test = {} /\ runs < MaxRuns
  /\ ManifestLoads(files)
  /\ \E c \in Commands :
       LET configured ==
             SetToSeq({PosixRelative[ref] : ref \in LoadedSuites(files)})
           chosen == IF c.suites = <<>> THEN configured ELSE c.suites
       IN  /\ chosen # <<>>
           /\ test' = {[phase |-> "load", mode |-> c.mode,
                        candidate |-> candidateSha256(files),
                        suites |-> chosen,
                        repetitions |-> Clamped(c.repetitions),
                        compare |-> c.compare, results |-> <<>>, reps |-> <<>>,
                        conversation |-> {}, sent |-> 0, reply |-> {}]}
  /\ runs' = runs + 1
  /\ UNCHANGED <<files, report, baseline, conversations, edits>>

\* The suites are read again, from the project as it is by now.
LoadSuites ==
  \E t \in test :
    /\ t.phase = "load"
    /\ IF \A i \in DOMAIN t.suites : SuiteLoads(files, t.suites[i])
       THEN test' = {[t EXCEPT !.phase = "run",
                               !.suites = [i \in DOMAIN t.suites |->
                                  loadEvaluationSuite(files, t.suites[i])]]}
       ELSE test' = {}
    /\ UNCHANGED <<files, report, baseline, conversations, runs, edits>>

RunFixture ==
  \E t \in test :
    /\ InProgress(t) /\ t.mode = "fixture"
    /\ test' = {Recorded(t, defaultExecutor(CurrentSuite(t), CurrentCase(t)))}
    /\ UNCHANGED <<files, report, baseline, conversations, runs, edits>>

-----------------------------------------------------------------------------
(* Live mode: one conversation per repetition, one message per user turn *)

\* The numbers of the turns that are sent.
userTurns(turns) == {i \in DOMAIN turns : turns[i].role = "user"}

\* The turns of a case, if some of them are sent.
Conversation(case) == {turns \in case.turns : userTurns(turns) # {}}

\* What is left to send of a conversation, and the next of it.
Unsent(t, c) == {i \in userTurns(conversations[c].turns) : i > t.sent}
NextTurn(t, c) == CHOOSE i \in Unsent(t, c) : \A j \in Unsent(t, c) : i <= j

Live(t) == InProgress(t) /\ t.mode = "live"

SkipLive ==
  \E t \in test :
    /\ Live(t) /\ Conversation(CurrentCase(t)) = {}
    /\ test' = {Recorded(t, Skipped)}
    /\ UNCHANGED <<files, report, baseline, conversations, runs, edits>>

\* The runtime makes a conversation; its answer arrives, or the client throws
\* and with it the command.  `turns` is what the conversation is opened for.
OpenConversation ==
  \E t \in test :
    /\ Live(t) /\ t.conversation = {}
    /\ \E turns \in Conversation(CurrentCase(t)), arrives \in BOOLEAN :
         /\ conversations' = Append(conversations,
              [turns |-> turns, messages |-> <<>>,
               by |-> <<runs, Position(t), Len(t.reps)>>])
         /\ test' = IF arrives
                    THEN {[t EXCEPT !.conversation = {Len(conversations')}]}
                    ELSE {}
    /\ UNCHANGED <<files, report, baseline, runs, edits>>

\* Mutant: a message without an answer is sent again.
SendAgain(t) == {t}

\* The runtime processes a message.  No operation is retried.  `turn` of a
\* message and `by` of a conversation are not in a request: they tell which one
\* it was.
AfterLostReply(t) == {}

SendMessage ==
  \E t \in test : \E c \in t.conversation :
    /\ Live(t) /\ Unsent(t, c) # {}
    /\ LET i == NextTurn(t, c) IN
       /\ conversations' = [conversations EXCEPT ![c].messages =
            Append(@, [turn |-> i, content |-> conversations[c].turns[i].content])]
       /\ \/ \E reply \in Replies :
               test' = {[t EXCEPT !.sent = i, !.reply = {reply}]}
          \/ test' = AfterLostReply(t)
    /\ UNCHANGED <<files, report, baseline, runs, edits>>

\* Nothing but the last reply and the time it took is observed.
Observe ==
  \E t \in test : \E c \in t.conversation :
    /\ Live(t) /\ Unsent(t, c) = {}
    /\ \E reply \in t.reply, latency \in Latencies :
         test' = {Recorded(t,
           {[message |-> reply, tools |-> {}, stateTransitions |-> {},
             finalState |-> {}, latency |-> {latency}, cost |-> {}]})}
    /\ UNCHANGED <<files, report, baseline, conversations, runs, edits>>

-----------------------------------------------------------------------------
\* All cases are run; with --baseline there must be a baseline to compare to.
RunOf(t) ==
  [mode |-> t.mode, candidate |-> t.candidate, suites |-> t.suites,
   repetitions |-> t.repetitions, results |-> t.results,
   runId |-> runId(t.candidate, t.suites, t.repetitions),
   comparison |-> IF t.compare
                  THEN {compareRuns(b.results, t.results) : b \in baseline}
                  ELSE {}]

WriteReport ==
  \E t \in test :
    /\ t.phase = "run" /\ ~InProgress(t)
    /\ report' = IF t.compare /\ baseline = {} THEN report ELSE {RunOf(t)}
    /\ test' = {}
    /\ UNCHANGED <<files, baseline, conversations, runs, edits>>

\* An error of the client, an unreadable file, a kill.
Interrupt ==
  /\ test # {}
  /\ test' = {}
  /\ UNCHANGED <<files, report, baseline, conversations, runs, edits>>

KeepBaseline ==
  /\ report # {} /\ baseline # report
  /\ baseline' = report
  /\ UNCHANGED <<files, test, report, conversations, runs, edits>>

EditProject ==
  /\ edits < MaxEdits
  /\ \E e \in Edits :
       files' = [p \in DOMAIN files \cup {e.path} |->
                   IF p = e.path THEN e.content ELSE files[p]]
  /\ edits' = edits + 1
  /\ UNCHANGED <<test, report, baseline, conversations, runs>>

Next ==
  \/ StartTest \/ LoadSuites \/ RunFixture
  \/ SkipLive \/ OpenConversation \/ SendMessage \/ Observe
  \/ WriteReport \/ Interrupt \/ KeepBaseline \/ EditProject

Spec == Init /\ [][Next]_vars

-----------------------------------------------------------------------------
(* Readiness *)

PolicyOf ==
  files[CHOOSE p \in {PosixRelative[r] : r \in manifestOf(files).policy} : TRUE]

\* The verdict on the project with the report that is there, for a risk and a
\* state of the remote; a report of another candidate is a blocker.
Ready(risk, remoteDrift) ==
  /\ ManifestLoads(files) /\ Holds(files, LOCK_FILE_NAME)
  /\ \E ref \in manifestOf(files).policy : PolicyLoads(files, ref)
  /\ \A run \in report : run.candidate = candidateSha256(files)
  /\ evaluateReleasePolicy(PolicyOf,
       [ok |-> validationOk(files), findingCodes |-> findingCodes(files),
        localDrift |-> checkLockDrift(files), remoteDrift |-> remoteDrift,
        risk |-> risk, evaluation |-> {EvidenceOf(run) : run \in report}]) = {}

-----------------------------------------------------------------------------
(* Properties *)

\* What a repetition of a run observed, with the case it is of.
Observed(run) ==
  UNION {{[case |-> CaseAt(run.suites, i),
           obs |-> run.results[i].repetitions[j].executed] :
            j \in DOMAIN run.results[i].repetitions} :
           i \in DOMAIN run.results}

Harmless(case, obs) ==
  /\ \A s \in case.allowed : obs.tools \subseteq s
  /\ \A s \in case.forbidden : obs.tools \cap s = {}
  /\ case.expectedStates \subseteq obs.stateTransitions \cup {FinalState(obs)}

\* What a satisfied policy rests on, in terms of what was seen (BUILD_SPEC 21:
\* "A blocking case or critical deterministic assertion failure always fails
\* the gate"; engine.ts:181-205 with policy.ts:97-160 and readiness.ts:81-104).
\* If the policy blocks on critical failures, then in no repetition of any
\* case, however unimportant the case, was a tool policy or an expected state
\* violated or a critical assertion false, and no assertion of a blocking case
\* was false.  If it demands the full pass rate, every counted case passed.
ReadyMeansTested ==
  \A risk \in DOMAIN RISK_ORDER, remoteDrift \in BOOLEAN :
    Ready(risk, remoteDrift) =>
      \E run \in report :
        /\ run.candidate = candidateSha256(files)
        /\ PolicyOf.requiredSuites \subseteq {s.path : s \in ToSet(run.suites)}
        /\ PolicyOf.blockOnCriticalFailure =>
             \A o \in Observed(run) : \A obs \in o.obs :
               /\ Harmless(o.case, obs)
               /\ \A a \in o.case.assertions :
                    a.critical \/ o.case.criticality = "blocking" =>
                      a.type = "rubric" \/ Satisfied(a, o.case, obs)
        /\ 10000 \in PolicyOf.minimumPassRate =>
             \A i \in DOMAIN run.results :
               run.results[i].criticality # "informational" =>
                 \A j \in 1 .. run.repetitions :
                   run.results[i].repetitions[j].status = "passed"

\* A report is of a run that was finished: every case of every suite it names,
\* in its place, with every repetition, although commands end at any time
\* (test.ts:85-139, engine.ts:140-178).
ReportsAreComplete ==
  \A run \in report \cup baseline :
    /\ DOMAIN run.results = Positions(run.suites)
    /\ \A i \in DOMAIN run.results :
         /\ Key(run.results[i]) = <<SuiteAt(run.suites, i).path,
                                   CaseAt(run.suites, i).id>>
         /\ Len(run.results[i].repetitions) = run.repetitions

\* Each repetition has a conversation of its own, and the messages of a
\* conversation are the user's turns from the first on, each sent once and in
\* order, whatever gets lost (client.ts:8-10: "No operation is retried
\* automatically: message sends may incur model cost").
TurnsSentOnce ==
  \A c \in DOMAIN conversations :
    LET turns == conversations[c].turns
        messages == conversations[c].messages
    IN  /\ \A d \in DOMAIN conversations :
             conversations[c].by = conversations[d].by => c = d
        /\ \A m \in DOMAIN messages :
             /\ messages[m].turn \in userTurns(turns)
             /\ messages[m].content = turns[messages[m].turn].content
             /\ \A n \in DOMAIN messages :
                  m < n => messages[m].turn < messages[n].turn
             /\ \A i \in userTurns(turns) :
                  i < messages[m].turn =>
                    \E n \in DOMAIN messages : messages[n].turn = i

\* What came of a run, wherever its suites were found.
Outcomes(run) ==
  [i \in DOMAIN run.results |-> [run.results[i] EXCEPT !.suitePath = ""]]

\* Fixture mode is deterministic: two runs with one run id come out the same,
\* whatever was edited in between (ADR 0003 section 6, engine.ts:241); only the
\* paths of their suites may differ.
SameRunSameResults ==
  \A r \in report, b \in baseline :
    r.mode = "fixture" /\ b.mode = "fixture" /\ r.runId = b.runId =>
      Outcomes(r) = Outcomes(b)
=============================================================================
