---------------------------- MODULE ProjectWriter ----------------------------
(***************************************************************************)
(* How a project directory comes to be and stays what it is: `raia init`   *)
(* (packages/cli/src/commands/init.ts) and the MCP pull                    *)
(* (mcp-server/src/handlers.ts) write an exported version of the agent     *)
(* into it (cli/src/project-writer.ts), file by file                       *)
(* (cli/src/project-files.ts), while developers edit it, the remote agent  *)
(* advances and commands are killed.                                       *)
(*                                                                         *)
(* Each file is replaced by a rename, the project as a whole is not: what  *)
(* tells a project that was written in part from a whole one are the hash  *)
(* of the manifest and the base version in the lock.                       *)
(***************************************************************************)
EXTENDS Project, FiniteSets

CONSTANTS
  Fixtures,     \* project directories to seed the mock provider from
  Advances,     \* project directories that later versions are made of
  Edits,        \* what a developer writes: [path, content]
  Unrelated,    \* the contents of the binding and of .gitignore
  Proposals,    \* [events, destination, fixture]: the events of a trace that is
                \* made a suite, and where suite and fixture go
  Times,        \* what the clock may show
  MaxSeeds,     \* bound on the seedings
  MaxVersions,  \* bound on the versions of the agent
  MaxEdits,     \* bound on the edits
  MaxKills      \* bound on the kills

VARIABLES
  files,        \* the project directory
  remote,       \* the versions of the agent, oldest first
  command,      \* the running init or pull, a set of at most one
  report,       \* reports/latest/validation.json, a set of at most one
  seeds, kills,
  edited        \* the paths that developers have written, one by one

vars == <<files, remote, command, report, seeds, kills, edited>>

BINDING == ".raia/project.json"
GITIGNORE == ".gitignore"

\* The catalog's pattern of destinationPath is evals/*.eval.yaml, and the fixture
\* goes to fixtures/proposed-*.json.
ASSUME ProposalsElsewhere ==
  \A p, q \in Proposals :
    /\ p.destination # q.fixture
    /\ {p.destination, p.fixture} \cap
         {MANIFEST_FILE_NAME, LOCK_FILE_NAME, BINDING, GITIGNORE} = {}

-----------------------------------------------------------------------------
(* Bundles *)

\* Every file of the fixture directory that the manifest, its suites or its
\* policy refer to.
BundleFiles(dir) ==
  LET suites == {loadEvaluationSuite(dir, ref) :
                   ref \in ToSet(manifestOf(dir).suites)}
  IN  DOMAIN artifacts(dir)
        \cup {s.path : s \in suites}
        \cup (UNION {DOMAIN s.fixtures : s \in suites})
        \cup {PosixRelative[ref] : ref \in manifestOf(dir).policy}

Loads(dir) ==
  /\ ManifestLoads(dir)
  /\ \A ref \in ToSet(manifestOf(dir).suites) : SuiteLoads(dir, ref)
  /\ \A ref \in manifestOf(dir).policy : PolicyLoads(dir, ref)

buildBundleFromFixture(dir) ==
  [manifest |-> manifestOf(dir), manifestSha256 |-> manifestSha256(dir),
   artifacts |-> [p \in BundleFiles(dir) |-> dir[p]]]

Projects == {dir \in Fixtures \cup Advances : Loads(dir)}
ASSUME ProjectsAreFinite == \A dir \in Projects : IsFiniteSet(BundleFiles(dir))

\* releasePolicy of a manifest is one path, or not there.
Manifests ==
  {manifestOf(dir) : dir \in Projects}
    \cup {e.content : e \in {x \in Edits : x.path = MANIFEST_FILE_NAME}}
ASSUME OnePolicy ==
  \A m \in Manifests \ Malformed : \A p, q \in m.policy : p = q

-----------------------------------------------------------------------------
(* The plan of a command *)

stampedLock(version, now) ==
  [manifestSha256 |-> remote[version].manifestSha256, base |-> version,
   generatedAt |-> now]

\* Mutant: any other lock is replaced.
SameButForTime(old, new) == old = new
\* Mutant: a lock of the same manifest will do.
SameManifest(old, new) == old.manifestSha256 = new.manifestSha256

SameLock(old, new) == lockSha256(old) = lockSha256(new)

\* An existing lock is kept if only the time would change.
LockContent(version, now) ==
  LET stamped == stampedLock(version, now)
  IN  IF /\ Holds(files, LOCK_FILE_NAME)
         /\ SameLock(files[LOCK_FILE_NAME], stamped)
      THEN files[LOCK_FILE_NAME] ELSE stamped

Write(path, content) == [path |-> path, content |-> content]

\* Mutant: the lock goes first.
LockFirst(version, now) ==
  LET bundle == remote[version]
      paths == SetToSeq(DOMAIN bundle.artifacts)
  IN  <<Write(LOCK_FILE_NAME, LockContent(version, now)),
        Write(MANIFEST_FILE_NAME, bundle.manifest)>>
        \o [i \in DOMAIN paths |-> Write(paths[i], bundle.artifacts[paths[i]])]
        \o <<Write(BINDING, Unrelated[BINDING])>>

\* The manifest, the artifacts in a fixed order, the lock, the binding, and
\* .gitignore if there is none.
PlannedWrites(version, now) ==
  LET bundle == remote[version]
      paths == SetToSeq(DOMAIN bundle.artifacts)
  IN  <<Write(MANIFEST_FILE_NAME, bundle.manifest)>>
        \o [i \in DOMAIN paths |-> Write(paths[i], bundle.artifacts[paths[i]])]
        \o <<Write(LOCK_FILE_NAME, LockContent(version, now)),
             Write(BINDING, Unrelated[BINDING])>>
        \o IF GITIGNORE \in DOMAIN files THEN <<>>
           ELSE <<Write(GITIGNORE, Unrelated[GITIGNORE])>>

Put(path, content) ==
  [p \in DOMAIN files \cup {path} |-> IF p = path THEN content ELSE files[p]]

Unchanged(write) ==
  write.path \in DOMAIN files /\ files[write.path] = write.content

\* Mutant: only the lock is compared.
ConflictsInLock(c) ==
  {w \in ToSet(c.writes) : w.path = LOCK_FILE_NAME /\ ~Unchanged(w)}

\* The files that are there with another content.
Conflicts(c) ==
  {w \in ToSet(c.writes) : w.path \in DOMAIN files /\ ~Unchanged(w)}

\* Mutant: what can be written is written.
applyWritesThatCan(c) ==
  {SelectSeq(c.writes, LAMBDA w : c.force \/ w.path \notin DOMAIN files)}

\* What remains to be written of the first n writes, for each n.
pendingOf(writes) ==
  LET pending[n \in 0 .. Len(writes)] ==
        IF n = 0 THEN <<>>
        ELSE IF Unchanged(writes[n]) THEN pending[n - 1]
        ELSE Append(pending[n - 1], writes[n])
  IN  pending

\* One conflict blocks the whole batch; what remains to be written otherwise.
applyWrites(c) ==
  IF Conflicts(c) # {} /\ ~c.force THEN {}
  ELSE {pendingOf(c.writes)[Len(c.writes)]}

-----------------------------------------------------------------------------
(* A suite out of a trace *)

EventsOf(events, type) == SelectSeq(events, LAMBDA e : e.type = type)
hasExchange(events) ==
  /\ EventsOf(events, "user-message") # <<>>
  /\ EventsOf(events, "assistant-message") # <<>>

lastAnswer(events) == Last(EventsOf(events, "assistant-message")).content

\* One case: the first question, answered by the fixture, is to contain the
\* last answer.
proposedSuite(events, fixturePath) ==
  <<[turns |-> {<<[role |-> "user",
                   content |-> Head(EventsOf(events, "user-message")).content,
                   fixtureRef |-> {fixturePath}]>>},
     expected |-> lastAnswer(events)]>>

proposedFixture(events) ==
  LET states == EventsOf(events, "state-transition") IN
  [assistantMessage |-> lastAnswer(events),
   toolCalls |-> EventsOf(events, "tool-call"),
   finalState |-> IF states = <<>> THEN "resolved" ELSE Last(states).content]

-----------------------------------------------------------------------------
Init ==
  /\ files = <<>> /\ remote = <<>>
  /\ command = {} /\ report = {}
  /\ seeds = 0 /\ kills = 0 /\ edited = <<>>

\* `late` has the files edited after the command has looked at them; it is kept
\* to state properties.
Started(version, force) ==
  [phase |-> "plan", version |-> version, force |-> force, writes |-> <<>>,
   late |-> {}]

\* `raia init --fixture`: the mock is seeded anew, its current version exported.
\* Without --yes the command ends there.
InitFromFixture(force, yes) ==
  /\ command = {} /\ seeds < MaxSeeds
  /\ \E dir \in Fixtures :
       /\ Loads(dir)
       /\ remote' = <<buildBundleFromFixture(dir)>>
  /\ command' = IF yes THEN {Started(1, force)} ELSE {}
  /\ seeds' = seeds + 1
  /\ UNCHANGED <<files, report, kills, edited>>

\* `raia init --agent`: the current version.
InitFromAgent(force) ==
  /\ command = {} /\ remote # <<>>
  /\ command' = {Started(Len(remote), force)}
  /\ UNCHANGED <<files, remote, report, seeds, kills, edited>>

\* raia_project_pull: any version, never with force; the caller knows the
\* candidate that is there and the version that it asks for.
Pull ==
  /\ command = {} /\ BINDING \in DOMAIN files /\ ManifestLoads(files)
  /\ \E version \in DOMAIN remote : command' = {Started(version, FALSE)}
  /\ UNCHANGED <<files, remote, report, seeds, kills, edited>>

\* raia_trace_to_eval_candidate: a trace is read, in the budget that the caller
\* gives, and what came of it, whole or cut off, is made a suite and its fixture.
Propose ==
  /\ command = {} /\ BINDING \in DOMAIN files
  /\ \E proposal \in Proposals :
       /\ hasExchange(proposal.events)
       /\ command' =
            {[phase |-> "check", version |-> 0, force |-> FALSE, late |-> {},
              writes |->
                <<Write(proposal.destination,
                        proposedSuite(proposal.events, proposal.fixture)),
                  Write(proposal.fixture, proposedFixture(proposal.events))>>]}
  /\ UNCHANGED <<files, remote, report, seeds, kills, edited>>

\* The bundle, the lock that is there and .gitignore decide the writes.
Plan ==
  \E c \in command, now \in Times :
    /\ c.phase = "plan"
    /\ command' = {[c EXCEPT !.phase = "check",
                             !.writes = PlannedWrites(c.version, now)]}
    /\ UNCHANGED <<files, remote, report, seeds, kills, edited>>

\* applyWrites compares every file before it writes the first one.  An edit of
\* one file that falls between the comparisons of others commutes with them.
Check ==
  \E c \in command :
    /\ c.phase = "check"
    /\ command' = {[c EXCEPT !.phase = "write", !.writes = pending] :
                     pending \in applyWrites(c)}
    /\ UNCHANGED <<files, remote, report, seeds, kills, edited>>

WriteNext ==
  \E c \in command :
    /\ c.phase = "write" /\ c.writes # <<>>
    /\ files' = Put(Head(c.writes).path, Head(c.writes).content)
    /\ command' = {[c EXCEPT !.writes = Tail(@)]}
    /\ UNCHANGED <<remote, report, seeds, kills, edited>>

\* The manifest is loaded again and its hash compared; the command is over
\* either way.
Finish ==
  \E c \in command :
    /\ c.phase = "write" /\ c.writes = <<>>
    /\ command' = {}
    /\ UNCHANGED <<files, remote, report, seeds, kills, edited>>

\* What the files of a manifest, its suites and its policy say.
Referenced(dir) == [p \in BundleFiles(dir) |-> dir[p]]

\* `raia validate` leaves its evidence.  `of` is what it has passed, kept to
\* state properties.
Validate ==
  /\ report' = {[ok |-> validationOk(files),
                 candidate |-> IF ManifestLoads(files)
                               THEN {candidateSha256(files)} ELSE {},
                 of |-> IF validationOk(files) THEN Referenced(files) ELSE <<>>]}
  /\ UNCHANGED <<files, remote, command, seeds, kills, edited>>

-----------------------------------------------------------------------------
(* The environment *)

Advance ==
  /\ remote # <<>> /\ Len(remote) < MaxVersions
  /\ \E dir \in Advances :
       Loads(dir) /\ remote' = Append(remote, buildBundleFromFixture(dir))
  /\ UNCHANGED <<files, command, report, seeds, kills, edited>>

EditFile ==
  /\ Len(edited) < MaxEdits
  /\ \E e \in Edits :
       /\ files' = Put(e.path, e.content) /\ files' # files
       /\ command' = {[c EXCEPT !.late = IF c.phase = "write" THEN @ \cup {e.path}
                                         ELSE @] : c \in command}
       /\ edited' = Append(edited, e.path)
  /\ UNCHANGED <<remote, report, seeds, kills>>

Kill ==
  /\ command # {} /\ kills < MaxKills
  /\ command' = {}
  /\ kills' = kills + 1
  /\ UNCHANGED <<files, remote, report, seeds, edited>>

ForcedInit == InitFromFixture(TRUE, TRUE) \/ InitFromAgent(TRUE)

Next ==
  \/ \E force, yes \in BOOLEAN : InitFromFixture(force, yes)
  \/ \E force \in BOOLEAN : InitFromAgent(force)
  \/ Pull \/ Propose \/ Plan \/ Check \/ WriteNext \/ Finish
  \/ Validate \/ Advance \/ EditFile \/ Kill

Spec == Init /\ [][Next]_vars

\* A command that is not killed goes on, and a developer whose project is not
\* whole sooner or later runs `raia init --force` again.
FairSpec ==
  Spec /\ WF_vars(Plan) /\ WF_vars(Check) /\ WF_vars(WriteNext)
       /\ WF_vars(Finish) /\ SF_vars(ForcedInit)

-----------------------------------------------------------------------------
(* Properties *)

\* The project is the export of a version, whenever it was generated.
Whole(version) ==
  LET bundle == remote[version]
      is(path, content) == path \in DOMAIN files /\ files[path] = content
  IN  /\ is(MANIFEST_FILE_NAME, bundle.manifest)
      /\ \A p \in DOMAIN bundle.artifacts : is(p, bundle.artifacts[p])
      /\ Holds(files, LOCK_FILE_NAME)
      /\ lockSha256(files[LOCK_FILE_NAME]) = lockSha256(stampedLock(version, 0))
      /\ is(BINDING, Unrelated[BINDING]) /\ GITIGNORE \in DOMAIN files

\* "A change to any referenced prompt, fixture, suite, policy, or lock content
\* changes the candidate hash" (candidate.ts:3-5): evidence that status calls
\* current (status.ts:39-44) is of the files as they are.
EvidenceIsCurrent ==
  \A r \in report :
    /\ r.ok /\ ManifestLoads(files)
    /\ r.candidate = {candidateSha256(files)}
    => Referenced(files) = r.of

\* A pull or init that was killed cannot be mistaken for one that was not
\* (project-writer.ts:89-97 writes the lock after the files that it describes):
\* if validation passes and there is neither local nor remote drift, every file
\* that nobody has edited is that of the current version.  It is stated for one
\* seeding, as another one uses the version numbers again.
MixturesAreVisible ==
  /\ seeds = 1 /\ command = {}
  /\ ManifestLoads(files) /\ Holds(files, LOCK_FILE_NAME) /\ validationOk(files)
  /\ files[LOCK_FILE_NAME].base = Len(remote)
  => LET artifact == remote[Len(remote)].artifacts
     IN  \A p \in DOMAIN artifact \ ToSet(edited) : files[p] = artifact[p]

\* Without force a command never replaces what a file has held since it looked
\* at it, and one refused file refuses them all (BUILD_SPEC 20: "pull MUST
\* refuse to overwrite modified project files"; project-files.ts:49-87).
EditsKept ==
  [][\A c \in command :
       WriteNext /\ ~c.force =>
         \A p \in DOMAIN files : files'[p] # files[p] => p \in c.late]_vars

\* A proposal "cannot join a release gate without human action" (ADR 0005 section
\* 6): it leaves the candidate of a project that validates what it is, unless
\* somebody made the file that it then replaced.
GatesUntouched ==
  [][\A c \in command :
       /\ c.version = 0 /\ WriteNext
       /\ ManifestLoads(files) /\ validationOk(files)
       => \/ candidateSha256(files') = candidateSha256(files)
          \/ Head(c.writes).path \in c.late]_vars

\* The suite of a proposal and its fixture are of the same trace, whatever else
\* was proposed under the same id: they are written both or not at all
\* (handlers.ts:465-475), if nobody kills the tool in between or writes there
\* himself.
ProposalsMatch ==
  kills = 0 /\ command = {} =>
    \A proposal \in Proposals :
      LET suite == proposedSuite(proposal.events, proposal.fixture) IN
      /\ {proposal.destination, proposal.fixture} \cap ToSet(edited) = {}
      /\ proposal.destination \in DOMAIN files
      /\ files[proposal.destination] = suite
      => /\ proposal.fixture \in DOMAIN files
         /\ files[proposal.fixture].assistantMessage = suite[1].expected

\* "Re-running stays a no-op" (project-writer.ts:74-76): a command over a
\* project that is whole has nothing to write.
ReinitIsNoOp ==
  [][\A c \in command, d \in command' :
       c.version # 0 /\ Whole(c.version) /\ c.phase = "check" /\ d.phase = "write"
         => d.writes = <<>>]_vars

\* Whatever was killed, edited or advanced, forced init gets the project whole
\* in the end, and it stays so (init.ts:62-76).
InitConverges == <>[](remote # <<>> /\ Whole(Len(remote)))

-----------------------------------------------------------------------------
(* What some of the theorems need of the constants.  Nothing in the code sees *)
(* to it; where it does not hold, the property may fail.                      *)

\* No reference of a published manifest is to a file that init writes itself:
\* such a file would be planned twice.
OwnPaths == {MANIFEST_FILE_NAME, LOCK_FILE_NAME, BINDING, GITIGNORE}
OwnPathsAreKept == \A dir \in Projects : BundleFiles(dir) \cap OwnPaths = {}

\* Developers may break a lock, they do not make one up.
LocksAreMade ==
  \A e \in Edits : e.path = LOCK_FILE_NAME => e.content \in Malformed

\* Developers leave .gitignore alone: one that appears after the plan, which
\* writes it only where there is none, is replaced by a forced init.
IgnoreIsLeft == \A e \in Edits : e.path # GITIGNORE

\* A manifest refers to a prompt by its normalized path.
PromptsAreSpelledOut ==
  \A m \in Manifests \ Malformed :
    \A ref \in m.files : ref \in DOMAIN PosixRelative => PosixRelative[ref] = ref

\* A project that is published with the suite of a proposal has its fixture,
\* and none has the fixture alone.
PublishedWhole ==
  \A dir \in Projects, q \in Proposals :
    /\ q.destination \in BundleFiles(dir)
       /\ dir[q.destination] = proposedSuite(q.events, q.fixture)
       => /\ q.fixture \in BundleFiles(dir)
          /\ dir[q.fixture].assistantMessage = lastAnswer(q.events)
    /\ q.fixture \in BundleFiles(dir) => q.destination \in BundleFiles(dir)
=============================================================================
