------------------------------ MODULE Project ------------------------------
(***************************************************************************)
(* packages/core: what the DevKit reads out of a project directory         *)
(* (manifest/load.ts, evals/resources.ts, lock/lock.ts, candidate.ts,      *)
(* validation/validate.ts).                                                *)
(*                                                                         *)
(* A directory is a function from the paths of its files to their          *)
(* contents.  The manifest is a record of the references it makes: `files` *)
(* (prompt and voice sources), `suites`, `policy` (a set of at most one)   *)
(* and `rest`, everything else.  A suite is the sequence of its cases, a   *)
(* lock a record.  The hash of something is the thing that is hashed.      *)
(***************************************************************************)
EXTENDS Naturals, Sequences, SequencesExt

CONSTANTS
  PosixRelative,  \* the path of each reference that stays inside the project
  Malformed,      \* contents that do not parse or violate their schema
  Secret          \* contents in which the secret scan finds something

MANIFEST_FILE_NAME == "raia.agent.yaml"
LOCK_FILE_NAME == "raia.lock.json"

\* resolveProjectPath: inside the project, and there.
Resolves(files, ref) ==
  ref \in DOMAIN PosixRelative /\ PosixRelative[ref] \in DOMAIN files

Holds(files, path) == path \in DOMAIN files /\ files[path] \notin Malformed

-----------------------------------------------------------------------------
(* Manifest and artifacts *)

manifestOf(files) == files[MANIFEST_FILE_NAME]

ManifestLoads(files) ==
  /\ Holds(files, MANIFEST_FILE_NAME)
  /\ \A ref \in manifestOf(files).files : Resolves(files, ref)

\* Keyed by the normalized path.
artifacts(files) ==
  [path \in {PosixRelative[ref] : ref \in manifestOf(files).files} |->
     files[path]]

\* Looked up by the reference as it is written; an artifact that is not found
\* has no contentSha256.
embedArtifactHashes(files) ==
  [ref \in manifestOf(files).files |->
     IF ref \in DOMAIN artifacts(files) THEN {artifacts(files)[ref]} ELSE {}]

manifestSha256(files) ==
  [manifest |-> manifestOf(files), contents |-> embedArtifactHashes(files)]

-----------------------------------------------------------------------------
(* Suites and policy *)

collectFixtureRefs(cases) ==
  UNION {UNION {t.fixtureRef : t \in UNION {ToSet(s) : s \in c.turns}} :
           c \in ToSet(cases)}

\* The suite document and every fixture that its turns refer to.
SuiteLoads(files, ref) ==
  /\ Resolves(files, ref)
  /\ files[PosixRelative[ref]] \notin Malformed
  /\ \A f \in collectFixtureRefs(files[PosixRelative[ref]]) :
       Resolves(files, f) /\ files[PosixRelative[f]] \notin Malformed

loadEvaluationSuite(files, ref) ==
  LET path == PosixRelative[ref]
      fixturePaths == {PosixRelative[f] : f \in collectFixtureRefs(files[path])}
  IN  [path |-> path, cases |-> files[path],
       fixtures |-> [p \in fixturePaths |-> files[p]]]

PolicyLoads(files, ref) ==
  Resolves(files, ref) /\ files[PosixRelative[ref]] \notin Malformed

LoadedSuites(files) ==
  {ref \in ToSet(manifestOf(files).suites) : SuiteLoads(files, ref)}

-----------------------------------------------------------------------------
(* Lock *)

lockSha256(lock) == [lock EXCEPT !.generatedAt = 0]

checkLockDrift(files) ==
  files[LOCK_FILE_NAME].manifestSha256 # manifestSha256(files)

-----------------------------------------------------------------------------
(* validateProject *)

\* What the secret scan reads: manifest, artifacts, and fixtures of the suites
\* that load.
Scanned(files) ==
  {manifestOf(files)}
    \cup {files[path] : path \in DOMAIN artifacts(files)}
    \cup UNION {LET s == loadEvaluationSuite(files, ref)
                IN  {s.fixtures[p] : p \in DOMAIN s.fixtures} :
                  ref \in LoadedSuites(files)}

LockFindings(files) ==
  IF LOCK_FILE_NAME \notin DOMAIN files THEN {"LOCK_MISSING"}
  ELSE IF files[LOCK_FILE_NAME] \in Malformed THEN {"LOCK_INVALID"}
  ELSE IF checkLockDrift(files) THEN {"LOCK_DRIFT"} ELSE {}

\* The codes of the findings.  Missing and escaping references and malformed
\* files are one code here; all of them are errors.
findingCodes(files) ==
  IF ~ManifestLoads(files) THEN {"SCHEMA_INVALID"}
  ELSE LockFindings(files)
    \cup (IF Scanned(files) \cap Secret # {} THEN {"SECRET_DETECTED"} ELSE {})
    \cup (IF \E ref \in ToSet(manifestOf(files).suites) : ~SuiteLoads(files, ref)
          THEN {"SCHEMA_INVALID"} ELSE {})
    \cup (IF \E ref \in manifestOf(files).policy : ~PolicyLoads(files, ref)
          THEN {"SCHEMA_INVALID"} ELSE {})

\* Every finding but a missing lock is an error.
validationOk(files) == findingCodes(files) \subseteq {"LOCK_MISSING"}

\* Mutant: the suites count by their documents.
candidateOfDocuments(files) ==
  [manifest |-> manifestSha256(files),
   lock |-> IF Holds(files, LOCK_FILE_NAME)
            THEN {lockSha256(files[LOCK_FILE_NAME])} ELSE {},
   suites |-> {files[PosixRelative[ref]] : ref \in LoadedSuites(files)},
   policy |-> {files[PosixRelative[ref]] :
                 ref \in {r \in manifestOf(files).policy :
                            PolicyLoads(files, r)}}]

\* The hash over manifest, lock, suites and policy; parts that do not load are
\* left out.
candidateSha256(files) ==
  [manifest |-> manifestSha256(files),
   lock |-> IF Holds(files, LOCK_FILE_NAME)
            THEN {lockSha256(files[LOCK_FILE_NAME])} ELSE {},
   suites |-> {loadEvaluationSuite(files, ref) : ref \in LoadedSuites(files)},
   policy |-> {files[PosixRelative[ref]] :
                 ref \in {r \in manifestOf(files).policy :
                            PolicyLoads(files, r)}}]
=============================================================================
