----------------------------- MODULE StateStore -----------------------------
(***************************************************************************)
(* StateStore.update (packages/provider-mock/src/state.ts) step by step:   *)
(* read state.json, run the handler on what was read, write a temporary    *)
(* file beside it, rename that into place.  No lock is held over these     *)
(* steps, and each `await` between them lets another update in: that of    *)
(* another command, or of another request to the same management server.   *)
(* A writer may also die between any two of them.                          *)
(*                                                                         *)
(* Files are kept as the file system keeps them, names in a directory and  *)
(* contents apart: a rename moves the name, and a writer that opened a     *)
(* file goes on writing to it wherever its name has gone.                  *)
(***************************************************************************)
EXTENDS ProviderState, FiniteSets

CONSTANTS
  Writers,      \* concurrent updates: commands, or requests to one server
  TempName,     \* the temporary name each computes: process id and millisecond
  Operations,   \* requests that may arrive
  Contexts,     \* mutation contexts that callers present
  Watched,      \* keys whose callers' answers are kept for comparison
  MaxVersions, MaxDrafts, MaxReleases, MaxDeployments   \* bounds of a run

\* Requests the store is updated for, as callers can make them.
UpdateRequests ==
  [kind : {"seed", "advance"}, bundle : Bundles]
    \cup [kind : {"draft"}, context : Contexts, manifest : Candidates]
    \cup [kind : {"release"}, context : Contexts, candidate : Candidates,
          evidence : SUBSET Evidence]
    \cup [kind : {"deploy"}, context : Contexts, release : Nat,
          environment : Environments \cup {"production"},
          outcome : {"healthy", "failed"}]
    \cup [kind : {"poll"}, id : Nat]
    \cup [kind : {"rollback"}, context : Contexts, id : Nat,
          reason : Reasons \cup {Blank}]

ASSUME WritersAreFew == IsFiniteSet(Writers)
ASSUME TempNamesAreBeside ==
  /\ TempName \in [Writers -> STRING]
  /\ \A w \in Writers : TempName[w] # "state.json"
ASSUME ContextsAreContexts == Contexts \subseteq MutationContexts
ASSUME OperationsAreRequests == Operations \subseteq UpdateRequests

VARIABLES
  directory,    \* the file each name stands for, NoFile if none
  files,        \* contents of the files that have been written
  writer,       \* progress of each update
  answered      \* what callers were told their keys created: <<key, id>>

vars == <<directory, files, writer, answered>>

-----------------------------------------------------------------------------
(* The handlers *)

\* What operation op makes of the store s and what it answers.
Apply(s, op) ==
  CASE op.kind = "seed" -> Outcome(Seed(s, op.bundle), Reply("OK", 0, "NONE"))
    [] op.kind = "advance" ->
         IF Current(s) = 0 THEN Refuse(s, "NOT_FOUND")
         ELSE Outcome(Advance(s, op.bundle), Reply("OK", 0, "NONE"))
    [] op.kind = "draft" -> createDraft(s, op.context, op.manifest)
    [] op.kind = "release" ->
         createReleaseCandidate(s, op.context, op.candidate, op.evidence)
    [] op.kind = "deploy" ->
         createDeployment(s, op.context, op.release, op.environment, op.outcome)
    [] op.kind = "poll" -> getDeployment(s, "OK", op.id)
    [] op.kind = "rollback" ->
         rollbackDeployment(s, op.context, op.id, op.reason)

\* What the caller will learn of its key.
Answer(op, reply) ==
  IF op.kind \in {"seed", "advance", "poll"} THEN {}
  ELSE {<<op.context.key, reply.id>>} \cap (Watched \X Nat)

-----------------------------------------------------------------------------
(* Files *)

StateFile == "state.json"
Names == {StateFile} \cup {TempName[w] : w \in Writers}
NoFile == 0
\* Enough files for one open per writer beside those that have names.
FileIds == 1 .. Cardinality(Names) + Cardinality(Writers)

\* A file that was truncated and not rewritten, or written by two writers at
\* once, holds no JSON.
Torn == [whole |-> FALSE, state |-> emptyState]
Whole(s) == [whole |-> TRUE, state |-> s]

Idle == [at |-> "idle"]

\* Mutant: a temporary file left behind is taken for the newer state.
ContentsOrLeftover ==
  LET leftover == {n \in Names \ {StateFile} :
                     directory[n] # NoFile /\ files[directory[n]].whole}
      name == IF leftover = {} THEN StateFile ELSE CHOOSE n \in leftover : TRUE
  IN IF directory[name] = NoFile THEN Whole(emptyState)
     ELSE files[directory[name]]

\* read(): a missing file is the empty state.
Contents ==
  IF directory[StateFile] = NoFile THEN Whole(emptyState)
  ELSE files[directory[StateFile]]

\* Mutant: the state file is rewritten in place.
InPlace(w) == StateFile
TempFile(w) == TempName[w]

\* The files that writers at w have open.
OpenFiles(w) ==
  {w[v].file : v \in {v \in Writers : w[v].at \in {"filling", "renaming"}}}
Unused == FileIds \ ({directory[n] : n \in Names} \cup OpenFiles(writer))

\* The contents that matter once the directory is d and the writers are at w: of
\* the state file, of files being written, and of a temporary file that another
\* writer's rename may yet move.  The rest is unlinked, or left to be truncated.
Remembered(d, w, contents) ==
  LET shared == {TempName[v] : v \in {v \in Writers :
                   \E other \in Writers \ {v} : TempName[other] = TempName[v]}}
      kept == {d[n] : n \in {StateFile} \cup shared} \cup OpenFiles(w)
  IN [f \in FileIds |-> IF f \in kept THEN contents[f] ELSE Torn]

\* The provider that takes one request at a time.
Provider == INSTANCE MockProvider WITH store <- Contents.state

Init ==
  /\ directory = [n \in Names |-> NoFile]
  /\ files = [f \in FileIds |-> Torn]
  /\ writer = [w \in Writers |-> Idle]
  /\ answered = {}

\* Only JSON can be read; a handler that refuses writes nothing.
Read(w) ==
  /\ writer[w].at = "idle"
  /\ Contents.whole
  /\ \E op \in Operations :
       LET outcome == Apply(Contents.state, op) IN
       /\ outcome.reply.code = "OK"
       /\ Provider!WithinBounds(outcome.store)
       /\ writer' = [writer EXCEPT ![w] =
                       [at |-> "opening", store |-> outcome.store,
                        answer |-> Answer(op, outcome.reply)]]
  /\ UNCHANGED <<directory, files, answered>>

\* writeFile opens the temporary file, which truncates one that is there.
Open(w) ==
  /\ writer[w].at = "opening"
  /\ LET name == TempFile(w)
         file == IF directory[name] # NoFile THEN directory[name]
                 ELSE CHOOSE f \in Unused : TRUE
     IN /\ directory' = [directory EXCEPT ![name] = file]
        /\ files' = [files EXCEPT ![file] = Torn]
        /\ writer' = [writer EXCEPT ![w] =
                        [at |-> "filling", store |-> writer[w].store,
                         answer |-> writer[w].answer, file |-> file]]
  /\ UNCHANGED answered

\* ... and writes the state to it.  Over another writer's text the shorter of
\* the two may leave the tail of the longer.
Fill(w) ==
  /\ writer[w].at = "filling"
  /\ LET file == writer[w].file
         mine == Whole(writer[w].store)
     IN \E text \in {mine} \cup (IF files[file].whole THEN {Torn} ELSE {}) :
          files' = [files EXCEPT ![file] = text]
  /\ writer' = [writer EXCEPT ![w].at = "renaming"]
  /\ UNCHANGED <<directory, answered>>

\* rename moves the temporary name over the state file; it fails when another
\* writer moved the name before.
Rename(w) ==
  /\ writer[w].at = "renaming"
  /\ writer' = [writer EXCEPT ![w] = Idle]
  /\ LET name == TempFile(w) IN
     \/ /\ directory[name] = NoFile
        /\ UNCHANGED <<directory, answered>>
     \/ /\ directory[name] # NoFile
        /\ directory' = [directory EXCEPT ![name] = NoFile,
                                          ![StateFile] = directory[name]]
        /\ answered' = answered \cup writer[w].answer
  /\ files' = Remembered(directory', writer', files)

\* The process ends, and its caller hears nothing.
Crash(w) ==
  /\ writer[w].at # "idle"
  /\ writer' = [writer EXCEPT ![w] = Idle]
  /\ files' = Remembered(directory, writer', files)
  /\ UNCHANGED <<directory, answered>>

Next ==
  \E w \in Writers : Read(w) \/ Open(w) \/ Fill(w) \/ Rename(w) \/ Crash(w)

Spec == Init /\ [][Next]_vars

-----------------------------------------------------------------------------
(* What the store promises *)

\* state.json can always be read back, whoever is in the middle of a write or
\* died there (state.ts:1-4, "atomic").  Updates that overlap lose each other's
\* work (see AnsweredIsKept), but what is in the file is always some handler's
\* output for a state that was in the file: it has at most one HEALTHY deployment
\* per environment, plans in step, rollback targets that exist, and a key for every
\* object.
StateFileSound ==
  /\ Contents.whole
  /\ OneHealthy(Contents.state)
  /\ PlansAgree(Contents.state)
  /\ TargetsSound(Contents.state)
  /\ ReleasesCreatedOnce(Contents.state)
  /\ DeploymentsCreatedOnce(Contents.state)

\* What was answered is in the file, so that every caller of a key is told of the
\* same object: a retry gets the original response (mock-provider.ts:273-277).
AnsweredIsKept ==
  \A a \in answered :
    /\ a[1] \in DOMAIN Contents.state.idempotency
    /\ Contents.state.idempotency[a[1]].response.id = a[2]

\* One update at a time is the atomic provider, wherever it is cut short: a
\* rename is one request of MockProvider, and every other step and every crash
\* leaves the provider's store as it was.
ImplementsProvider == Provider!Spec
=============================================================================
