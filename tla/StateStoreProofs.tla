-------------------------- MODULE StateStoreProofs --------------------------
(***************************************************************************)
(* Theorems about StateStore: what its read, open, fill and rename steps   *)
(* do to state.json, for any writers, requests and bounds, with crashes    *)
(* wherever the model allows them.                                         *)
(***************************************************************************)
EXTENDS StateStore, ProviderStateProofs, FiniteSetTheorems

\* Writers are of different processes or milliseconds.  Without this,
\* state.json may be read half-written (state.ts:91).
NamesAreOwn == \A v, w \in Writers : TempName[v] = TempName[w] => v = w

\* At most one update is under way.
OneAtATime == \A v, w \in Writers : v = w

-----------------------------------------------------------------------------
(* The inductive invariant *)

SafeStore(s) == StoreSound(s) /\ DeploymentsSound(s)

\* Each stage of a write has the fields it needs.
Stages ==
  /\ directory \in [Names -> FileIds \cup {NoFile}]
  /\ files = [f \in FileIds |-> files[f]]
  /\ writer = [w \in Writers |-> writer[w]]
  /\ \A w \in Writers :
       \/ writer[w] = Idle
       \/ writer[w] = [at |-> "opening", store |-> writer[w].store,
                       answer |-> writer[w].answer]
       \/ /\ writer[w].at \in {"filling", "renaming"}
          /\ writer[w] = [at |-> writer[w].at, store |-> writer[w].store,
                          answer |-> writer[w].answer,
                          file |-> writer[w].file]

\* No file has two names.
NamedOnce ==
  \A m, n \in Names :
    directory[m] = directory[n] /\ directory[m] # NoFile => m = n

Writing(w) == writer[w].at \in {"filling", "renaming"}

\* A writer's file has its temporary name until the writer renames it.
FilesAreNamed ==
  \A w \in Writers :
    Writing(w) =>
      /\ writer[w].file \in FileIds
      /\ directory[TempName[w]] = writer[w].file

\* ... and holds the writer's store once it was filled.
FilesAreFilled ==
  \A w \in Writers :
    /\ writer[w].at = "filling" => files[writer[w].file] = Torn
    /\ writer[w].at = "renaming" =>
         files[writer[w].file] = Whole(writer[w].store)

\* What any writer is about to publish is sound, as is what was published.
StoresAreSafe ==
  /\ Contents.whole /\ SafeStore(Contents.state)
  /\ \A w \in Writers : writer[w].at # "idle" => SafeStore(writer[w].store)

WritesInv ==
  Stages /\ NamedOnce /\ FilesAreNamed /\ FilesAreFilled /\ StoresAreSafe

-----------------------------------------------------------------------------
(* Handlers *)

\* The requests by their kinds, and the handler that each reaches.
LEMMA ApplyByKind ==
  ASSUME NEW s, NEW op \in Operations
  PROVE
    \/ /\ op.kind = "seed" /\ op.bundle \in Bundles
       /\ Apply(s, op) = Outcome(Seed(s, op.bundle), Reply("OK", 0, "NONE"))
    \/ /\ op.kind = "advance" /\ op.bundle \in Bundles
       /\ Apply(s, op) =
            IF Current(s) = 0 THEN Refuse(s, "NOT_FOUND")
            ELSE Outcome(Advance(s, op.bundle), Reply("OK", 0, "NONE"))
    \/ /\ op.kind = "draft" /\ op.context \in Contexts
       /\ op.manifest \in Candidates
       /\ Apply(s, op) = createDraft(s, op.context, op.manifest)
    \/ /\ op.kind = "release" /\ op.context \in Contexts
       /\ op.candidate \in Candidates /\ op.evidence \in SUBSET Evidence
       /\ Apply(s, op) =
            createReleaseCandidate(s, op.context, op.candidate, op.evidence)
    \/ /\ op.kind = "deploy" /\ op.context \in Contexts
       /\ op.release \in Nat /\ op.environment \in Environments \cup {"production"}
       /\ op.outcome \in {"healthy", "failed"}
       /\ Apply(s, op) = createDeployment(s, op.context, op.release,
                                          op.environment, op.outcome)
    \/ /\ op.kind = "poll" /\ op.id \in Nat
       /\ Apply(s, op) = getDeployment(s, "OK", op.id)
    \/ /\ op.kind = "rollback" /\ op.context \in Contexts /\ op.id \in Nat
       /\ op.reason \in Reasons \cup {Blank}
       /\ Apply(s, op) = rollbackDeployment(s, op.context, op.id, op.reason)
  <1>0. op \in UpdateRequests
    BY OperationsAreRequests
  <1>1. CASE op \in [kind : {"seed", "advance"}, bundle : Bundles]
    BY <1>1 DEF Apply
  <1>2. CASE op \in [kind : {"draft"}, context : Contexts,
                     manifest : Candidates]
    BY <1>2 DEF Apply
  <1>3. CASE op \in [kind : {"release"}, context : Contexts,
                     candidate : Candidates, evidence : SUBSET Evidence]
    BY <1>3 DEF Apply
  <1>4. CASE op \in [kind : {"deploy"}, context : Contexts, release : Nat,
                     environment : Environments \cup {"production"},
                     outcome : {"healthy", "failed"}]
    BY <1>4 DEF Apply
  <1>5. CASE op \in [kind : {"poll"}, id : Nat]
    BY <1>5 DEF Apply
  <1>6. CASE op \in [kind : {"rollback"}, context : Contexts, id : Nat,
                     reason : Reasons \cup {Blank}]
    BY <1>6 DEF Apply
  <1> QED BY <1>0, <1>1, <1>2, <1>3, <1>4, <1>5, <1>6 DEF UpdateRequests

\* What a handler makes of a safe store is safe and forgets no key, and what it
\* answers of a key is what the store has under that key.
LEMMA ApplySafe ==
  ASSUME NEW s, SafeStore(s), NEW op \in Operations,
         NEW outcome, outcome = Apply(s, op)
  PROVE  /\ SafeStore(outcome.store)
         /\ Extends(s.idempotency, outcome.store.idempotency)
         /\ outcome.reply.code = "OK" =>
              \A a \in Answer(op, outcome.reply) :
                /\ a[1] \in DOMAIN outcome.store.idempotency
                /\ outcome.store.idempotency[a[1]].response.id = a[2]
  <1> DEFINE Kept(o) == /\ SafeStore(o.store)
                        /\ Extends(s.idempotency, o.store.idempotency)
             Told(o) == \A a \in Answer(op, o.reply) :
                          /\ a[1] \in DOMAIN o.store.idempotency
                          /\ o.store.idempotency[a[1]].response.id = a[2]
  <1>0. StoreSound(s) /\ DeploymentsSound(s)
    BY DEF SafeStore
  <1>a. ASSUME NEW key, NEW request, NEW o, Owed(s, key, request, o),
               key = op.context.key
        PROVE  Kept(o) /\ (o.reply.code = "OK" => Told(o))
    BY <1>0, <1>a DEF Owed, SafeStore, Answered, Answer
  <1>b. ASSUME NEW t, t = s
        PROVE  SafeStore(t) /\ Extends(s.idempotency, t.idempotency)
    BY <1>b DEF Extends
  <1>c. op.kind \in {"seed", "advance", "poll"} => Told(outcome)
    BY DEF Answer
  <1> SUFFICES Kept(outcome) /\ (outcome.reply.code = "OK" => Told(outcome))
    BY DEF Kept, Told
  <1> HIDE DEF Told, Kept
  <1>1. CASE op.kind = "seed" /\ op.bundle \in Bundles
             /\ outcome = Outcome(Seed(s, op.bundle), Reply("OK", 0, "NONE"))
    <2>1. outcome.store = Seed(s, op.bundle)
      BY <1>1 DEF Outcome
    <2> QED BY <1>0, <1>1, <1>c, <2>1, VersionsPromise, VersionsSound
            DEF Kept, SafeStore, Extends
  <1>2. CASE op.kind = "advance" /\ op.bundle \in Bundles
             /\ outcome =
                  IF Current(s) = 0 THEN Refuse(s, "NOT_FOUND")
                  ELSE Outcome(Advance(s, op.bundle), Reply("OK", 0, "NONE"))
    <2>1. outcome.store \in {s, Advance(s, op.bundle)}
      BY <1>2, RefuseFacts DEF Outcome
    <2> QED BY <1>0, <1>2, <1>b, <1>c, <2>1, VersionsPromise, VersionsSound
            DEF Kept, SafeStore, Extends
  <1>3. CASE op.kind = "draft" /\ op.context \in Contexts
             /\ op.manifest \in Candidates
             /\ outcome = createDraft(s, op.context, op.manifest)
    <2>1. Owed(s, op.context.key, DraftRequest(op.manifest), outcome)
      BY <1>0, <1>3, ContextsAreContexts, DraftOwed
    <2> QED BY <2>1, <1>a
  <1>4. CASE op.kind = "release" /\ op.context \in Contexts
             /\ op.candidate \in Candidates /\ op.evidence \in SUBSET Evidence
             /\ outcome = createReleaseCandidate(s, op.context, op.candidate,
                                                 op.evidence)
    <2>1. Owed(s, op.context.key, ReleaseRequest(op.candidate, op.evidence),
               outcome)
      BY <1>0, <1>4, ContextsAreContexts, ReleaseOwed
    <2> QED BY <2>1, <1>a
  <1>5. CASE op.kind = "deploy" /\ op.context \in Contexts
             /\ op.release \in Nat
             /\ outcome = createDeployment(s, op.context, op.release,
                                           op.environment, op.outcome)
    <2>1. Owed(s, op.context.key, DeployRequest(op.release, op.environment),
               outcome)
      BY <1>0, <1>5, ContextsAreContexts, DeployOwed
    <2> QED BY <2>1, <1>a
  <1>6. CASE op.kind = "poll" /\ op.id \in Nat
             /\ outcome = getDeployment(s, "OK", op.id)
    <2> QED BY <1>0, <1>6, <1>c, PollPromise, PollKeepsSound
            DEF Kept, SafeStore, Extends
  <1>7. CASE op.kind = "rollback" /\ op.context \in Contexts /\ op.id \in Nat
             /\ op.reason \in Reasons \cup {Blank}
             /\ outcome = rollbackDeployment(s, op.context, op.id, op.reason)
    <2>1. Owed(s, op.context.key, RollbackRequest(op.id, op.reason), outcome)
      BY <1>0, <1>7, ContextsAreContexts, RollbackOwed
    <2> QED BY <2>1, <1>a
  <1> QED BY <1>1, <1>2, <1>3, <1>4, <1>5, <1>6, <1>7, ApplyByKind

\* The empty store is safe.
LEMMA EmptySafe == SafeStore(emptyState)
  BY EmptySound DEF SafeStore, DeploymentsSound, OneHealthy, PlansAgree,
                    TargetsSound, emptyState

-----------------------------------------------------------------------------
(* Files *)

LEMMA NamesAreFew ==
  /\ IsFiniteSet(Names)
  /\ Cardinality(Names) \in Nat /\ Cardinality(Writers) \in Nat
  <1> DEFINE Temps == {TempName[w] : w \in Writers}
  <1>1. TempName \in Surjection(Writers, Temps)
    BY TempNamesAreBeside DEF Surjection
  <1>2. IsFiniteSet(Temps)
    BY <1>1, WritersAreFew, FS_Surjection
  <1>3. IsFiniteSet(Names)
    BY <1>2, FS_Singleton, FS_Union DEF Names
  <1> QED BY <1>3, WritersAreFew, FS_CardinalityType

\* While a writer's temporary name stands for nothing, there is a file to open.
LEMMA FileToOpen ==
  ASSUME Stages, FilesAreNamed, NEW w \in Writers
  PROVE  (CHOOSE f \in Unused : TRUE) \in Unused
  <1> DEFINE used == {directory[n] : n \in Names}
  <1>1. OpenFiles(writer) \subseteq used
    BY DEF FilesAreNamed, OpenFiles, Writing, Names
  <1>2. directory \in Surjection(Names, used)
    BY DEF Stages, Surjection
  <1>3. IsFiniteSet(used) /\ Cardinality(used) <= Cardinality(Names)
    BY <1>2, NamesAreFew, FS_Surjection
  <1>4. Cardinality(Writers) > 0
    BY NamesAreFew, WritersAreFew, FS_EmptySet
  <1>5. IsFiniteSet(FileIds)
        /\ Cardinality(FileIds) = Cardinality(Names) + Cardinality(Writers)
    <2> DEFINE n == Cardinality(Names) + Cardinality(Writers)
    <2>1. n \in Nat
      BY NamesAreFew
    <2>2. FileIds = 1 .. n
      BY DEF FileIds
    <2> HIDE DEF n
    <2>3. IsFiniteSet(1 .. n) /\ Cardinality(1 .. n) = n
      BY <2>1, FS_Interval
    <2> QED BY <2>2, <2>3 DEF n
  <1>6. ~(FileIds \subseteq used)
    <2> SUFFICES ASSUME FileIds \subseteq used PROVE FALSE
      OBVIOUS
    <2>1. Cardinality(FileIds) <= Cardinality(used)
      BY <1>3, FS_Subset
    <2> QED BY <1>3, <1>4, <1>5, <2>1, NamesAreFew, FS_CardinalityType
  <1> QED BY <1>1, <1>6 DEF Unused

\* What a rename or a death forgets is of no file that is named state.json or open.
LEMMA KeptFiles ==
  ASSUME NEW d, NEW w, NEW contents, NEW f \in FileIds,
         f = d[StateFile] \/ f \in OpenFiles(w)
  PROVE  Remembered(d, w, contents)[f] = contents[f]
  BY DEF Remembered

-----------------------------------------------------------------------------
(* Each step of a write keeps the invariant *)

LEMMA InitWrites == Init => WritesInv
  <1> SUFFICES ASSUME Init PROVE WritesInv
    OBVIOUS
  <1>1. Contents = Whole(emptyState)
    BY DEF Init, Contents, Names, NoFile
  <1> QED BY <1>1, EmptySafe
          DEF Init, WritesInv, Stages, NamedOnce, FilesAreNamed, FilesAreFilled,
              StoresAreSafe, Writing, Idle, Names, NoFile, Whole, FileIds

LEMMA ReadKeeps ==
  ASSUME WritesInv, NEW w \in Writers, Read(w)
  PROVE  WritesInv'
  <1>1. PICK op \in Operations :
          /\ Apply(Contents.state, op).reply.code = "OK"
          /\ writer' = [writer EXCEPT ![w] =
                          [at |-> "opening",
                           store |-> Apply(Contents.state, op).store,
                           answer |-> Answer(op,
                             Apply(Contents.state, op).reply)]]
    BY DEF Read
  <1>2. UNCHANGED <<directory, files>>
    BY DEF Read
  <1>3. SafeStore(Apply(Contents.state, op).store)
    BY ApplySafe DEF WritesInv, StoresAreSafe
  <1> DEFINE new == [at |-> "opening",
                     store |-> Apply(Contents.state, op).store,
                     answer |-> Answer(op, Apply(Contents.state, op).reply)]
  <1>4. /\ new.at = "opening" /\ SafeStore(new.store)
        /\ new = [at |-> "opening", store |-> new.store, answer |-> new.answer]
    BY <1>3
  <1>5. writer' = [writer EXCEPT ![w] = new]
    BY <1>1
  <1> HIDE DEF new
  <1>6. writer'[w] = new /\ \A v \in Writers \ {w} : writer'[v] = writer[v]
    BY <1>5 DEF WritesInv, Stages
  <1>7. Stages'
    BY <1>2, <1>4, <1>5, <1>6 DEF WritesInv, Stages, FileIds, Names
  <1>8. Contents' = Contents
    BY <1>2 DEF Contents
  <1> QED BY <1>2, <1>4, <1>6, <1>7, <1>8
          DEF WritesInv, NamedOnce, FilesAreNamed, FilesAreFilled,
              StoresAreSafe, Writing

LEMMA OpenKeeps ==
  ASSUME NamesAreOwn, WritesInv, NEW w \in Writers, Open(w)
  PROVE  /\ WritesInv'
         /\ Contents' = Contents
         /\ writer'[w].store = writer[w].store
         /\ writer'[w].answer = writer[w].answer
  <1> DEFINE name == TempName[w]
             file == IF directory[name] # NoFile THEN directory[name]
                     ELSE CHOOSE f \in Unused : TRUE
             new == [at |-> "filling", store |-> writer[w].store,
                     answer |-> writer[w].answer, file |-> file]
  <1>1. /\ directory' = [directory EXCEPT ![name] = file]
        /\ files' = [files EXCEPT ![file] = Torn]
        /\ writer' = [writer EXCEPT ![w] = new]
        /\ writer[w].at = "opening"
    BY DEF Open, TempFile
  <1>2. name \in Names /\ name # StateFile
    BY TempNamesAreBeside DEF Names, StateFile
  <1>3. /\ file \in FileIds
        /\ \A n \in Names \ {name} : directory[n] # file
    <2>1. CASE directory[name] # NoFile
      BY <1>2, <2>1 DEF WritesInv, Stages, NamedOnce
    <2>2. CASE directory[name] = NoFile
      <3>1. file \in Unused
        BY <2>2, FileToOpen DEF WritesInv
      <3> QED BY <3>1 DEF Unused
    <2> QED BY <2>1, <2>2
  <1>4. /\ new.at = "filling" /\ new.file = file
        /\ new.store = writer[w].store /\ new.answer = writer[w].answer
        /\ new = [at |-> new.at, store |-> new.store, answer |-> new.answer,
                  file |-> new.file]
    OBVIOUS
  <1> HIDE DEF file, new
  <1>5. writer'[w] = new /\ \A v \in Writers \ {w} : writer'[v] = writer[v]
    BY <1>1 DEF WritesInv, Stages
  <1>6. /\ directory'[name] = file
        /\ \A n \in Names \ {name} : directory'[n] = directory[n]
    BY <1>1, <1>2 DEF WritesInv, Stages
  <1>7. /\ files'[file] = Torn
        /\ \A f \in FileIds \ {file} : files'[f] = files[f]
    BY <1>1, <1>3 DEF WritesInv, Stages
  <1>8. \A v \in Writers \ {w} : TempName[v] \in Names \ {name}
    BY DEF NamesAreOwn, Names
  <1>9. Stages'
    BY <1>1, <1>2, <1>3, <1>4, <1>5 DEF WritesInv, Stages, FileIds, Names
  <1>10. NamedOnce'
    BY <1>2, <1>3, <1>6 DEF WritesInv, NamedOnce, Names
  <1>11. FilesAreNamed'
    BY <1>3, <1>4, <1>5, <1>6, <1>8
       DEF WritesInv, FilesAreNamed, Writing, FileIds, Names
  <1>12. FilesAreFilled'
    <2>1. ASSUME NEW v \in Writers \ {w}, Writing(v)
          PROVE  writer[v].file \in FileIds \ {file}
      BY <1>3, <1>8, <2>1 DEF WritesInv, FilesAreNamed
    <2> QED BY <1>4, <1>5, <1>7, <2>1 DEF WritesInv, FilesAreFilled, Writing
  <1>13. Contents' = Contents
    <2>1. directory'[StateFile] = directory[StateFile]
      BY <1>2, <1>6 DEF Names
    <2>2. directory[StateFile] # NoFile
            => directory[StateFile] \in FileIds \ {file}
      BY <1>2, <1>3 DEF WritesInv, Stages, Names
    <2> QED BY <1>7, <2>1, <2>2 DEF Contents
  <1>14. StoresAreSafe'
    BY <1>1, <1>4, <1>5, <1>13 DEF WritesInv, StoresAreSafe
  <1> QED BY <1>4, <1>5, <1>9, <1>10, <1>11, <1>12, <1>13, <1>14 DEF WritesInv

LEMMA FillKeeps ==
  ASSUME NamesAreOwn, WritesInv, NEW w \in Writers, Fill(w)
  PROVE  /\ WritesInv'
         /\ Contents' = Contents
         /\ writer'[w].store = writer[w].store
         /\ writer'[w].answer = writer[w].answer
  <1> DEFINE file == writer[w].file
             new == [writer[w] EXCEPT !.at = "renaming"]
  <1>1. /\ writer[w].at = "filling"
        /\ directory' = directory
        /\ writer' = [writer EXCEPT ![w] = new]
    BY DEF Fill
  <1>2. /\ file \in FileIds /\ files[file] = Torn
        /\ directory[TempName[w]] = file
    BY <1>1 DEF WritesInv, FilesAreNamed, FilesAreFilled, Writing
  <1>3. files' = [files EXCEPT ![file] = Whole(writer[w].store)]
    BY <1>2 DEF Fill, Torn
  <1>4. /\ new.at = "renaming" /\ new.file = file
        /\ new.store = writer[w].store /\ new.answer = writer[w].answer
        /\ new = [at |-> new.at, store |-> new.store, answer |-> new.answer,
                  file |-> new.file]
    <2>1. writer[w] = [at |-> writer[w].at, store |-> writer[w].store,
                       answer |-> writer[w].answer, file |-> writer[w].file]
      BY <1>1 DEF WritesInv, Stages, Idle
    <2> QED BY <2>1
  <1>5. TempName[w] \in Names \ {StateFile}
    BY TempNamesAreBeside DEF Names, StateFile
  <1> HIDE DEF new
  <1>6. writer'[w] = new /\ \A v \in Writers \ {w} : writer'[v] = writer[v]
    BY <1>1 DEF WritesInv, Stages
  <1>7. /\ files'[file] = Whole(writer[w].store)
        /\ \A f \in FileIds \ {file} : files'[f] = files[f]
    BY <1>2, <1>3 DEF WritesInv, Stages
  <1>8. \A n \in Names \ {TempName[w]} : directory[n] # file
    BY <1>2, <1>5 DEF WritesInv, NamedOnce, FileIds, NoFile
  <1>9. Stages'
    BY <1>1, <1>3, <1>4, <1>6 DEF WritesInv, Stages, FileIds, Names
  <1>10. FilesAreNamed'
    BY <1>1, <1>2, <1>4, <1>6 DEF WritesInv, FilesAreNamed, Writing, FileIds
  <1>11. FilesAreFilled'
    <2>1. ASSUME NEW v \in Writers \ {w}, Writing(v)
          PROVE  writer[v].file \in FileIds \ {file}
      <3>1. TempName[v] \in Names \ {TempName[w]}
        BY DEF NamesAreOwn, Names
      <3> QED BY <1>8, <2>1, <3>1 DEF WritesInv, FilesAreNamed
    <2> QED BY <1>4, <1>6, <1>7, <2>1 DEF WritesInv, FilesAreFilled, Writing
  <1>12. Contents' = Contents
    <2>1. directory[StateFile] # NoFile
            => directory[StateFile] \in FileIds \ {file}
      BY <1>5, <1>8 DEF WritesInv, Stages, Names
    <2> QED BY <1>1, <1>7, <2>1 DEF Contents
  <1>13. StoresAreSafe'
    BY <1>1, <1>4, <1>6, <1>12 DEF WritesInv, StoresAreSafe
  <1>14. NamedOnce'
    BY <1>1 DEF WritesInv, NamedOnce, Names
  <1> QED BY <1>4, <1>6, <1>9, <1>10, <1>11, <1>12, <1>13, <1>14 DEF WritesInv

\* The rename publishes what this writer filled, and nothing else.
LEMMA RenamePublishes ==
  ASSUME NamesAreOwn, WritesInv, NEW w \in Writers, Rename(w)
  PROVE  /\ Contents' = Whole(writer[w].store)
         /\ SafeStore(writer[w].store)
         /\ answered' = answered \cup writer[w].answer
         /\ directory' = [directory EXCEPT ![TempName[w]] = NoFile,
                                           ![StateFile] = directory[TempName[w]]]
         /\ files' = Remembered(directory', writer', files)
         /\ writer' = [writer EXCEPT ![w] = Idle]
  <1>1. writer[w].at = "renaming"
    BY DEF Rename
  <1>2. /\ writer[w].file \in FileIds
        /\ directory[TempName[w]] = writer[w].file
        /\ files[writer[w].file] = Whole(writer[w].store)
        /\ SafeStore(writer[w].store)
    BY <1>1 DEF WritesInv, FilesAreNamed, FilesAreFilled, StoresAreSafe, Writing
  <1>3. directory[TempName[w]] # NoFile
    BY <1>2 DEF FileIds, NoFile
  <1>4. /\ directory' = [directory EXCEPT ![TempName[w]] = NoFile,
                                          ![StateFile] = directory[TempName[w]]]
        /\ answered' = answered \cup writer[w].answer
        /\ files' = Remembered(directory', writer', files)
        /\ writer' = [writer EXCEPT ![w] = Idle]
    BY <1>3 DEF Rename, TempFile
  <1>5. directory'[StateFile] = writer[w].file
    BY <1>2, <1>4 DEF WritesInv, Stages, Names
  <1>6. files'[writer[w].file] = Whole(writer[w].store)
    <2>1. Remembered(directory', writer', files)[writer[w].file]
            = files[writer[w].file]
      BY <1>2, <1>5, KeptFiles
    <2> QED BY <1>2, <1>4, <2>1
  <1>7. Contents' = Whole(writer[w].store)
    BY <1>2, <1>3, <1>5, <1>6 DEF Contents
  <1> QED BY <1>2, <1>4, <1>7

LEMMA RenameKeeps ==
  ASSUME NamesAreOwn, WritesInv, NEW w \in Writers, Rename(w)
  PROVE  WritesInv'
  <1> DEFINE name == TempName[w]
  <1>1. /\ Contents' = Whole(writer[w].store)
        /\ SafeStore(writer[w].store)
        /\ directory' = [directory EXCEPT ![name] = NoFile,
                                          ![StateFile] = directory[name]]
        /\ files' = Remembered(directory', writer', files)
        /\ writer' = [writer EXCEPT ![w] = Idle]
    BY RenamePublishes
  <1>2. name \in Names /\ name # StateFile
    BY TempNamesAreBeside DEF Names, StateFile
  <1>3. writer'[w] = Idle /\ \A v \in Writers \ {w} : writer'[v] = writer[v]
    BY <1>1 DEF WritesInv, Stages
  <1>4. /\ directory'[StateFile] = directory[name]
        /\ directory'[name] = NoFile
        /\ \A n \in Names \ {name, StateFile} : directory'[n] = directory[n]
    BY <1>1, <1>2 DEF WritesInv, Stages, Names
  <1>5. \A v \in Writers \ {w} : TempName[v] \in Names \ {name, StateFile}
    BY TempNamesAreBeside DEF NamesAreOwn, Names, StateFile
  <1>6. Stages'
    <2>1. directory' \in [Names -> FileIds \cup {NoFile}]
      BY <1>1, <1>2 DEF WritesInv, Stages
    <2>2. files' = [f \in FileIds |-> files'[f]]
      BY <1>1 DEF Remembered
    <2>3. writer' = [v \in Writers |-> writer'[v]]
      BY <1>1 DEF WritesInv, Stages
    <2> QED BY <1>3, <2>1, <2>2, <2>3
            DEF WritesInv, Stages, FileIds, Names
  <1>7. NamedOnce'
    BY <1>2, <1>4 DEF WritesInv, NamedOnce, Names
  <1>8. FilesAreNamed'
    BY <1>3, <1>4, <1>5 DEF WritesInv, FilesAreNamed, Writing, FileIds, Idle
  <1>9. FilesAreFilled'
    <2>1. ASSUME NEW v \in Writers \ {w}, Writing(v)
          PROVE  files'[writer[v].file] = files[writer[v].file]
      <3>1. writer[v].file \in FileIds
        BY <2>1 DEF WritesInv, FilesAreNamed
      <3>2. writer[v].file \in OpenFiles(writer')
        BY <1>3, <2>1 DEF OpenFiles, Writing
      <3> QED BY <1>1, <3>1, <3>2, KeptFiles
    <2> QED BY <1>3, <2>1 DEF WritesInv, FilesAreFilled, Writing, Idle
  <1>10. StoresAreSafe'
    BY <1>1, <1>3 DEF WritesInv, StoresAreSafe, Whole, Idle
  <1> QED BY <1>6, <1>7, <1>8, <1>9, <1>10 DEF WritesInv

\* Death of a writer: the state file is what it was.
LEMMA CrashKeeps ==
  ASSUME WritesInv, NEW w \in Writers, Crash(w)
  PROVE  WritesInv' /\ Contents' = Contents
  <1>1. /\ directory' = directory
        /\ files' = Remembered(directory, writer', files)
        /\ writer' = [writer EXCEPT ![w] = Idle]
    BY DEF Crash
  <1>2. writer'[w] = Idle /\ \A v \in Writers \ {w} : writer'[v] = writer[v]
    BY <1>1 DEF WritesInv, Stages
  <1>3. Contents' = Contents
    <2>1. StateFile \in Names
      BY DEF Names
    <2>2. CASE directory[StateFile] = NoFile
      BY <1>1, <2>2 DEF Contents
    <2>3. CASE directory[StateFile] # NoFile
      <3>1. directory[StateFile] \in FileIds
        BY <2>1, <2>3 DEF WritesInv, Stages
      <3> QED BY <1>1, <2>3, <3>1, KeptFiles DEF Contents
    <2> QED BY <2>2, <2>3
  <1>4. Stages'
    <2>1. files' = [f \in FileIds |-> files'[f]]
      BY <1>1 DEF Remembered
    <2>2. writer' = [v \in Writers |-> writer'[v]]
      BY <1>1 DEF WritesInv, Stages
    <2> QED BY <1>1, <1>2, <2>1, <2>2 DEF WritesInv, Stages, FileIds, Names
  <1>5. FilesAreNamed'
    BY <1>1, <1>2 DEF WritesInv, FilesAreNamed, Writing, FileIds, Idle
  <1>6. FilesAreFilled'
    <2>1. ASSUME NEW v \in Writers \ {w}, Writing(v)
          PROVE  files'[writer[v].file] = files[writer[v].file]
      <3>1. writer[v].file \in FileIds
        BY <2>1 DEF WritesInv, FilesAreNamed
      <3>2. writer[v].file \in OpenFiles(writer')
        BY <1>2, <2>1 DEF OpenFiles, Writing
      <3> QED BY <1>1, <3>1, <3>2, KeptFiles
    <2> QED BY <1>2, <2>1 DEF WritesInv, FilesAreFilled, Writing, Idle
  <1>7. StoresAreSafe'
    BY <1>2, <1>3 DEF WritesInv, StoresAreSafe, Idle
  <1> QED BY <1>1, <1>3, <1>4, <1>5, <1>6, <1>7 DEF WritesInv, NamedOnce, Names

LEMMA WritesStep ==
  ASSUME NamesAreOwn, WritesInv, [Next]_vars
  PROVE  WritesInv'
  <1>1. CASE UNCHANGED vars
    BY <1>1 DEF vars, WritesInv, Stages, NamedOnce, FilesAreNamed,
                FilesAreFilled, StoresAreSafe, Writing, Contents, FileIds, Names
  <1>2. ASSUME NEW w \in Writers,
               Read(w) \/ Open(w) \/ Fill(w) \/ Rename(w) \/ Crash(w)
        PROVE  WritesInv'
    BY <1>2, ReadKeeps, OpenKeeps, FillKeeps, RenameKeeps, CrashKeeps
  <1> QED BY <1>1, <1>2 DEF Next

LEMMA WritesAlways ==
  ASSUME NamesAreOwn
  PROVE  Spec => []WritesInv
  <1>1. WritesInv /\ [Next]_vars => WritesInv'
    BY WritesStep
  <1> QED BY <1>1, InitWrites, PTL DEF Spec

\* state.json can be read back at any moment and is sound, however many writers
\* overlap and wherever they die, as long as no two share a temporary name.
THEOREM StateFileSoundAlways ==
  ASSUME NamesAreOwn
  PROVE  Spec => []StateFileSound
  <1>1. WritesInv => StateFileSound
    BY DEF WritesInv, StoresAreSafe, SafeStore, StoreSound, DeploymentsSound,
           StateFileSound
  <1> QED BY <1>1, WritesAlways, PTL

-----------------------------------------------------------------------------
(* One update at a time *)

LEMMA AloneNamesAreOwn ==
  ASSUME OneAtATime PROVE NamesAreOwn
  BY DEF OneAtATime, NamesAreOwn

\* The store a writer is about to publish is what some request makes of the one
\* in the file, and what will be answered is in it.
Publishes(s, w) ==
  \E op \in Operations :
    LET outcome == Apply(s, op) IN
    /\ outcome.reply.code = "OK"
    /\ Provider!WithinBounds(outcome.store)
    /\ writer[w].store = outcome.store
    /\ writer[w].answer = Answer(op, outcome.reply)

AloneInv ==
  /\ \A w \in Writers : writer[w].at # "idle" => Publishes(Contents.state, w)
  /\ AnsweredIsKept

LEMMA AloneStep ==
  ASSUME OneAtATime, WritesInv, AloneInv, [Next]_vars
  PROVE  AloneInv'
  <1>a. NamesAreOwn
    BY AloneNamesAreOwn
  <1>1. CASE UNCHANGED vars
    BY <1>1 DEF vars, AloneInv, AnsweredIsKept, Publishes, Contents
  <1>2. ASSUME NEW w \in Writers, Read(w)
        PROVE  AloneInv'
    <2>1. Contents' = Contents /\ answered' = answered
      BY <1>2 DEF Read, Contents
    <2>2. Publishes(Contents.state, w)'
      <3>1. PICK op \in Operations :
              LET outcome == Apply(Contents.state, op) IN
              /\ outcome.reply.code = "OK"
              /\ Provider!WithinBounds(outcome.store)
              /\ writer' = [writer EXCEPT ![w] =
                              [at |-> "opening", store |-> outcome.store,
                               answer |-> Answer(op, outcome.reply)]]
        BY <1>2 DEF Read
      <3> DEFINE outcome == Apply(Contents.state, op)
                 answer == Answer(op, outcome.reply)
      <3>2. writer' = [writer EXCEPT ![w] =
                         [at |-> "opening", store |-> outcome.store,
                          answer |-> answer]]
        BY <3>1
      <3>3. /\ outcome.reply.code = "OK"
            /\ Provider!WithinBounds(outcome.store)
        BY <3>1
      <3> HIDE DEF outcome, answer
      <3>4. writer'[w].store = outcome.store /\ writer'[w].answer = answer
        BY <3>2 DEF WritesInv, Stages
      <3> QED BY <2>1, <3>3, <3>4 DEF Publishes, outcome, answer
    <2> QED BY <2>1, <2>2 DEF AloneInv, AnsweredIsKept, OneAtATime
  <1>3. ASSUME NEW w \in Writers, Open(w) \/ Fill(w)
        PROVE  AloneInv'
    <2>1. /\ Contents' = Contents
          /\ writer'[w].store = writer[w].store
          /\ writer'[w].answer = writer[w].answer
      BY <1>a, <1>3, OpenKeeps, FillKeeps
    <2>2. answered' = answered /\ writer[w].at # "idle"
      BY <1>3 DEF Open, Fill
    <2> QED BY <2>1, <2>2 DEF AloneInv, AnsweredIsKept, OneAtATime, Publishes
  <1>4. ASSUME NEW w \in Writers, Rename(w)
        PROVE  AloneInv'
    <2>1. /\ Contents' = Whole(writer[w].store)
          /\ answered' = answered \cup writer[w].answer
          /\ writer' = [writer EXCEPT ![w] = Idle]
          /\ writer[w].at # "idle"
      BY <1>a, <1>4, RenamePublishes DEF Rename
    <2>2. \A v \in Writers : writer'[v] = Idle
      BY <2>1 DEF OneAtATime, WritesInv, Stages
    <2>3. Contents'.state = writer[w].store
      BY <2>1 DEF Whole
    <2>4. PICK op \in Operations :
            LET outcome == Apply(Contents.state, op) IN
            /\ outcome.reply.code = "OK"
            /\ writer[w].store = outcome.store
            /\ writer[w].answer = Answer(op, outcome.reply)
      BY <2>1 DEF AloneInv, Publishes
    <2>5. /\ Extends(Contents.state.idempotency, writer[w].store.idempotency)
          /\ \A a \in writer[w].answer :
               /\ a[1] \in DOMAIN writer[w].store.idempotency
               /\ writer[w].store.idempotency[a[1]].response.id = a[2]
      BY <2>4, ApplySafe DEF WritesInv, StoresAreSafe
    <2>6. AnsweredIsKept'
      BY <2>1, <2>3, <2>5 DEF AloneInv, AnsweredIsKept, Extends
    <2> QED BY <2>2, <2>6 DEF AloneInv, Idle
  <1>5. ASSUME NEW w \in Writers, Crash(w)
        PROVE  AloneInv'
    <2>1. Contents' = Contents
      BY <1>5, CrashKeeps
    <2>2. answered' = answered /\ writer' = [writer EXCEPT ![w] = Idle]
      BY <1>5 DEF Crash
    <2>3. \A v \in Writers : writer'[v] = Idle
      BY <2>2 DEF OneAtATime, WritesInv, Stages
    <2> QED BY <2>1, <2>2, <2>3 DEF AloneInv, AnsweredIsKept, Idle
  <1> QED BY <1>1, <1>2, <1>3, <1>4, <1>5 DEF Next

LEMMA AloneAlways ==
  ASSUME OneAtATime
  PROVE  Spec => [](WritesInv /\ AloneInv)
  <1>1. Init => AloneInv
    BY DEF Init, AloneInv, AnsweredIsKept, Idle
  <1>2. WritesInv /\ AloneInv /\ [Next]_vars => AloneInv'
    BY AloneStep
  <1>3. NamesAreOwn
    BY AloneNamesAreOwn
  <1> QED BY <1>1, <1>2, <1>3, WritesAlways, PTL DEF Spec

\* Whatever a caller was answered under a key stays in the file with that answer,
\* through later updates and deaths at any moment, while updates do not overlap.
THEOREM AnsweredIsKeptAlways ==
  ASSUME OneAtATime
  PROVE  Spec => []AnsweredIsKept
  <1>1. AloneInv => AnsweredIsKept
    BY DEF AloneInv
  <1> QED BY <1>1, AloneAlways, PTL

-----------------------------------------------------------------------------
(* One update at a time is the atomic provider *)

\* The provider's handlers are this module's.
LEMMA SameVersions ==
  ASSUME NEW s, NEW bundle
  PROVE  /\ Provider!Seed(s, bundle) = Seed(s, bundle)
         /\ Provider!Advance(s, bundle) = Advance(s, bundle)
         /\ Provider!Current(s) = Current(s)
  BY DEF Seed, Advance, Current, Provider!Seed, Provider!Advance,
         Provider!Current

LEMMA SameDraft ==
  ASSUME NEW s, NEW context, NEW manifest
  PROVE  Provider!createDraft(s, context, manifest)
           = createDraft(s, context, manifest)
  BY DEF createDraft, Gated, Idempotent, DraftRequest, DraftEffect, Refuse,
         Outcome, Reply, Current, StaleBase, BaseOf, Bind,
         Provider!createDraft, Provider!Gated, Provider!Idempotent,
         Provider!DraftRequest, Provider!DraftEffect, Provider!Refuse,
         Provider!Outcome, Provider!Reply, Provider!Current,
         Provider!StaleBase, Provider!BaseOf, Provider!Bind

LEMMA SameRelease ==
  ASSUME NEW s, NEW context, NEW candidate, NEW evidence
  PROVE  Provider!createReleaseCandidate(s, context, candidate, evidence)
           = createReleaseCandidate(s, context, candidate, evidence)
  BY DEF createReleaseCandidate, Gated, Idempotent, ReleaseRequest,
         ReleaseEffect, Refuse, Outcome, Reply, Current, StaleBase, BaseOf,
         Bind,
         Provider!createReleaseCandidate, Provider!Gated, Provider!Idempotent,
         Provider!ReleaseRequest, Provider!ReleaseEffect, Provider!Refuse,
         Provider!Outcome, Provider!Reply, Provider!Current,
         Provider!StaleBase, Provider!BaseOf, Provider!Bind

LEMMA SameDeploy ==
  ASSUME NEW s, NEW context, NEW release, NEW environment, NEW outcome
  PROVE  Provider!createDeployment(s, context, release, environment, outcome)
           = createDeployment(s, context, release, environment, outcome)
  BY DEF createDeployment, Gated, Idempotent, DeployRequest, DeployEffect,
         Refuse, Outcome, Reply, Bind, Environments, RollbackTarget, HealthyIn,
         PlanFor,
         Provider!createDeployment, Provider!Gated, Provider!Idempotent,
         Provider!DeployRequest, Provider!DeployEffect, Provider!Refuse,
         Provider!Outcome, Provider!Reply, Provider!Bind,
         Provider!Environments, Provider!RollbackTarget, Provider!HealthyIn,
         Provider!PlanFor

LEMMA SamePoll ==
  ASSUME NEW s, NEW gate, NEW id
  PROVE  Provider!getDeployment(s, gate, id) = getDeployment(s, gate, id)
  BY DEF getDeployment, Gated, PollEffect, Refuse, Outcome, Reply, StepIsDue,
         NextStep, Polled, HealthyIn, decideDeploymentTransition,
         DEPLOYMENT_TRANSITIONS, DeploymentStates,
         Provider!getDeployment, Provider!Gated, Provider!PollEffect,
         Provider!Refuse, Provider!Outcome, Provider!Reply,
         Provider!StepIsDue, Provider!NextStep, Provider!Polled,
         Provider!HealthyIn, Provider!decideDeploymentTransition,
         Provider!DEPLOYMENT_TRANSITIONS, Provider!DeploymentStates

LEMMA SameRollback ==
  ASSUME NEW s, NEW context, NEW id, NEW reason
  PROVE  Provider!rollbackDeployment(s, context, id, reason)
           = rollbackDeployment(s, context, id, reason)
  BY DEF rollbackDeployment, Gated, Idempotent, RollbackRequest,
         RollbackEffect, Refuse, Outcome, Reply, Bind,
         decideDeploymentTransition, DEPLOYMENT_TRANSITIONS, DeploymentStates,
         Provider!rollbackDeployment, Provider!Gated, Provider!Idempotent,
         Provider!RollbackRequest, Provider!RollbackEffect, Provider!Refuse,
         Provider!Outcome, Provider!Reply, Provider!Bind,
         Provider!decideDeploymentTransition,
         Provider!DEPLOYMENT_TRANSITIONS, Provider!DeploymentStates

\* A request that is answered is a step of the provider or changes nothing.
LEMMA RequestRefines ==
  ASSUME StoreSound(Contents.state), NEW op \in Operations,
         NEW outcome, outcome = Apply(Contents.state, op),
         outcome.reply.code = "OK",
         Provider!WithinBounds(outcome.store),
         Contents'.state = outcome.store
  PROVE  Provider!Next \/ Contents'.state = Contents.state
  <1> DEFINE s == Contents.state
             t == Contents'.state
  <1>0. /\ IsMockState(s)
        /\ Len(s.releases) \in Nat /\ Len(s.deployments) \in Nat
        /\ DOMAIN s.releases = 1 .. Len(s.releases)
        /\ DOMAIN s.deployments = 1 .. Len(s.deployments)
    <2>1. IsMockState(s)
      BY DEF StoreSound
    <2>2. /\ s.releases \in Seq(Releases)
          /\ s.deployments \in Seq(StoredDeployments)
      BY <2>1 DEF IsMockState
    <2> QED BY <2>1, <2>2
  <1>1. CASE op.bundle \in Bundles
             /\ outcome = Outcome(Seed(s, op.bundle), Reply("OK", 0, "NONE"))
    <2>1. t = Provider!Seed(s, op.bundle)
      BY <1>1, SameVersions DEF Outcome
    <2> QED BY <1>1, <2>1 DEF Provider!Next, Provider!SeedFromFixture
  <1>2. CASE op.bundle \in Bundles
             /\ outcome =
                  IF Current(s) = 0 THEN Refuse(s, "NOT_FOUND")
                  ELSE Outcome(Advance(s, op.bundle), Reply("OK", 0, "NONE"))
    <2>1. Current(s) # 0 /\ t = Advance(s, op.bundle)
      BY <1>2, RefuseFacts DEF Outcome
    <2>2. Provider!Current(s) # 0 /\ t = Provider!Advance(s, op.bundle)
      BY <2>1, SameVersions
    <2> QED BY <1>2, <2>2 DEF Provider!Next, Provider!AdvanceVersion
  <1>3. CASE op.context \in Contexts /\ op.manifest \in Candidates
             /\ outcome = createDraft(s, op.context, op.manifest)
    <2>1. outcome = Provider!createDraft(s, op.context, op.manifest)
      BY <1>3, SameDraft
    <2> QED BY <1>3, <2>1
            DEF Provider!Next, Provider!CreateDraft, Provider!Update
  <1>4. CASE op.context \in Contexts /\ op.candidate \in Candidates
             /\ op.evidence \in SUBSET Evidence
             /\ outcome = createReleaseCandidate(s, op.context, op.candidate,
                                                 op.evidence)
    <2>1. outcome = Provider!createReleaseCandidate(s, op.context,
                                                    op.candidate, op.evidence)
      BY <1>4, SameRelease
    <2> QED BY <1>4, <2>1
            DEF Provider!Next, Provider!CreateReleaseCandidate, Provider!Update
  <1>5. CASE /\ op.context \in Contexts /\ op.release \in Nat
             /\ op.environment \in Environments \cup {"production"}
             /\ op.outcome \in {"healthy", "failed"}
             /\ outcome = createDeployment(s, op.context, op.release,
                                           op.environment, op.outcome)
    <2>1. CASE t = s
      BY <2>1
    <2>2. CASE t # s
      <3>1. op.environment \in Environments
            /\ Executed(s, op.context.key,
                        DeployRequest(op.release, op.environment),
                        DeployEffect(s, op.release, op.environment, op.outcome),
                        t)
        BY <1>0, <1>5, <2>2, ContextsAreContexts, DeployLeaves
      <3>2. op.release \in DOMAIN s.releases
        BY <3>1, RefuseFacts DEF Executed, DeployEffect
      <3>3. op.release \in 1 .. Len(s.releases) + 1
        BY <1>0, <3>2
      <3>4. outcome = Provider!createDeployment(s, op.context, op.release,
                                                op.environment, op.outcome)
        BY <1>5, SameDeploy
      <3>5. op.environment \in Provider!Environments \cup {"production"}
        BY <1>5 DEF Environments, Provider!Environments
      <3> QED BY <1>5, <3>3, <3>4, <3>5
              DEF Provider!Next, Provider!CreateDeployment, Provider!Update
    <2> QED BY <2>1, <2>2
  <1>6. CASE op.id \in Nat /\ outcome = getDeployment(s, "OK", op.id)
    <2>1. CASE t = s
      BY <2>1
    <2>2. CASE t # s
      <3>1. op.id \in DOMAIN s.deployments
        BY <1>0, <1>6, <2>2, PollLeaves
      <3>2. op.id \in 1 .. Len(s.deployments) + 1
        BY <1>0, <3>1
      <3>3. outcome = Provider!getDeployment(s, "OK", op.id)
        BY <1>6, SamePoll
      <3> QED BY <3>2, <3>3
              DEF Provider!Next, Provider!GetDeployment, Provider!Poll,
                  Provider!Gates, Provider!Update
    <2> QED BY <2>1, <2>2
  <1>7. CASE /\ op.context \in Contexts /\ op.id \in Nat
             /\ op.reason \in Reasons \cup {Blank}
             /\ outcome = rollbackDeployment(s, op.context, op.id, op.reason)
    <2>1. CASE t = s
      BY <2>1
    <2>2. CASE t # s
      <3>1. Executed(s, op.context.key, RollbackRequest(op.id, op.reason),
                     RollbackEffect(s, op.id), t)
        BY <1>0, <1>7, <2>2, ContextsAreContexts, RollbackLeaves
      <3>2. op.id \in DOMAIN s.deployments
        BY <3>1, RefuseFacts DEF Executed, RollbackEffect
      <3>3. op.id \in 1 .. Len(s.deployments) + 1
        BY <1>0, <3>2
      <3>4. outcome = Provider!rollbackDeployment(s, op.context, op.id,
                                                  op.reason)
        BY <1>7, SameRollback
      <3> QED BY <1>7, <3>3, <3>4
              DEF Provider!Next, Provider!RollbackDeployment, Provider!Update
    <2> QED BY <2>1, <2>2
  <1> QED BY <1>1, <1>2, <1>3, <1>4, <1>5, <1>6, <1>7, ApplyByKind

LEMMA RefinesStep ==
  ASSUME OneAtATime, WritesInv, AloneInv, [Next]_vars
  PROVE  [Provider!Next]_(Provider!vars)
  <1>a. NamesAreOwn
    BY AloneNamesAreOwn
  <1>1. CASE UNCHANGED vars
    BY <1>1 DEF vars, Provider!vars, Contents
  <1>2. ASSUME NEW w \in Writers, Read(w) \/ Open(w) \/ Fill(w) \/ Crash(w)
        PROVE  UNCHANGED Provider!vars
    <2>1. Contents' = Contents
      <3>1. CASE Read(w)
        BY <3>1 DEF Read, Contents
      <3> QED BY <1>a, <1>2, <3>1, OpenKeeps, FillKeeps, CrashKeeps
    <2> QED BY <2>1 DEF Provider!vars
  <1>3. ASSUME NEW w \in Writers, Rename(w)
        PROVE  Provider!Next \/ UNCHANGED Provider!vars
    <2>1. Contents'.state = writer[w].store
      BY <1>a, <1>3, RenamePublishes DEF Whole
    <2>2. PICK op \in Operations :
            /\ Apply(Contents.state, op).reply.code = "OK"
            /\ Provider!WithinBounds(Apply(Contents.state, op).store)
            /\ writer[w].store = Apply(Contents.state, op).store
      BY <1>3 DEF AloneInv, Publishes, Rename
    <2>3. StoreSound(Contents.state)
      BY DEF WritesInv, StoresAreSafe, SafeStore
    <2>4. Provider!Next \/ Contents'.state = Contents.state
      BY <2>1, <2>2, <2>3, RequestRefines
    <2> QED BY <2>4 DEF Provider!vars
  <1> QED BY <1>1, <1>2, <1>3 DEF Next

\* With one update at a time, killed between any two of its steps or not, what
\* state.json goes through is a behaviour of the atomic provider: all that is
\* proved of MockProvider holds of the file.
THEOREM StoreImplementsProvider ==
  ASSUME OneAtATime
  PROVE  Spec => ImplementsProvider
  <1>1. Init => Provider!Init
    BY DEF Init, Contents, Names, NoFile, Whole, Provider!Init, emptyState,
           Provider!emptyState
  <1>2. WritesInv /\ AloneInv /\ [Next]_vars => [Provider!Next]_(Provider!vars)
    BY RefinesStep
  <1> QED BY <1>1, <1>2, AloneAlways, PTL DEF Spec, ImplementsProvider,
             Provider!Spec
=============================================================================
