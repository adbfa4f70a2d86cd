------------------------ MODULE EvaluationRunsProofs ------------------------
(***************************************************************************)
(* Theorems about `raia test` and what readiness makes of its reports,     *)
(* proved for every project, every edit of it, every command and any       *)
(* number of them.                                                         *)
(*                                                                         *)
(* The induction rests on one invariant, RunsInv: whatever a running       *)
(* command, a report or a baseline holds as the result of a case is what   *)
(* the engine makes of repetitions that were all observed, in fixture mode *)
(* of the fixture of the suite as it was loaded; and a conversation was    *)
(* opened for one repetition, of which the messages are the user's turns   *)
(* up to the last that was sent.                                           *)
(***************************************************************************)
EXTENDS EvaluationRuns, FiniteSetTheorems, SequenceTheorems,
        WellFoundedInduction, TLAPS

-----------------------------------------------------------------------------
(* Sequences and least elements *)

\* A sequence is a function on the first natural numbers.
LEMMA SequenceFacts ==
  ASSUME NEW s, IsSequence(s)
  PROVE  /\ Len(s) \in Nat /\ DOMAIN s = 1 .. Len(s) /\ DOMAIN s \subseteq Nat
         /\ s = [i \in DOMAIN s |-> s[i]]
<1>1. PICK R : R = {s[i] : i \in DOMAIN s}
  OBVIOUS
<1>2. s \in Seq(R)
  BY <1>1 DEF IsSequence
<1> QED
  BY <1>2

\* Whatever is in a set of sequences is a sequence of its own elements.
LEMMA SequencesAre ==
  ASSUME NEW S, NEW s \in Seq(S)
  PROVE  IsSequence(s)
<1>1. PICK R : R = {s[i] : i \in DOMAIN s}
  OBVIOUS
<1>2. Len(s) \in Nat /\ DOMAIN s = 1 .. Len(s) /\ s \in [1 .. Len(s) -> S]
  OBVIOUS
<1>3. s \in [1 .. Len(s) -> R]
  BY <1>1, <1>2
<1>4. s \in Seq(R)
  BY <1>2, <1>3
<1> QED
  BY <1>1, <1>4 DEF IsSequence

\* Appending leaves what there is and adds one at the end.
LEMMA Appending ==
  ASSUME NEW s, IsSequence(s), NEW e
  PROVE  /\ IsSequence(Append(s, e))
         /\ Len(Append(s, e)) = Len(s) + 1
         /\ DOMAIN Append(s, e) = DOMAIN s \cup {Len(s) + 1}
         /\ Len(s) + 1 \notin DOMAIN s
         /\ \A i \in DOMAIN s : Append(s, e)[i] = s[i]
         /\ Append(s, e)[Len(s) + 1] = e
<1>1. PICK R : R = {s[i] : i \in DOMAIN s} \cup {e}
  OBVIOUS
<1>2. Len(s) \in Nat /\ DOMAIN s = 1 .. Len(s)
      /\ s = [i \in DOMAIN s |-> s[i]]
  BY SequenceFacts
<1>3. s \in [1 .. Len(s) -> R] /\ e \in R
  BY <1>1, <1>2
<1>4. s \in Seq(R)
  BY <1>2, <1>3
<1>5. Append(s, e) \in Seq(R)
  BY <1>3, <1>4
<1>6. IsSequence(Append(s, e))
  BY <1>5, SequencesAre
<1>7. /\ Len(Append(s, e)) = Len(s) + 1
      /\ \A i \in 1 .. Len(s) : Append(s, e)[i] = s[i]
      /\ Append(s, e)[Len(s) + 1] = e
  BY <1>3, <1>4, AppendProperties
<1>8. DOMAIN Append(s, e) = 1 .. Len(s) + 1
  BY <1>6, <1>7, SequenceFacts
<1>9. 1 .. Len(s) + 1 = 1 .. Len(s) \cup {Len(s) + 1}
  BY <1>2
<1> QED
  BY <1>2, <1>6, <1>7, <1>8, <1>9

\* Sequences of one length with the same elements are equal.
LEMMA SequencesEqual ==
  ASSUME NEW s, NEW t, IsSequence(s), IsSequence(t), Len(s) = Len(t),
         \A i \in DOMAIN s : s[i] = t[i]
  PROVE  s = t
<1>1. DOMAIN s = DOMAIN t
  BY SequenceFacts
<1>2. s = [i \in DOMAIN s |-> s[i]]
  BY SequenceFacts
<1>3. t = [i \in DOMAIN t |-> t[i]]
  BY SequenceFacts
<1>4. [i \in DOMAIN s |-> s[i]] = [i \in DOMAIN t |-> t[i]]
  BY <1>1
<1> QED
  BY <1>2, <1>3, <1>4

\* The elements of a sequence are finitely many.
LEMMA FiniteRange ==
  ASSUME NEW s, IsSequence(s)
  PROVE  IsFiniteSet(ToSet(s))
<1>1. Len(s) \in Nat /\ DOMAIN s = 1 .. Len(s)
      /\ s = [i \in DOMAIN s |-> s[i]]
  BY SequenceFacts
<1>2. IsFiniteSet(DOMAIN s)
  BY <1>1, FS_Interval
<1>3. s \in [DOMAIN s -> ToSet(s)]
  BY <1>1 DEF ToSet
<1>4. s \in Surjection(DOMAIN s, ToSet(s))
  BY <1>3 DEF Surjection, ToSet
<1> QED
  BY <1>2, <1>4, FS_Surjection

LEMMA LeastNatural ==
  ASSUME NEW S, S \subseteq Nat, S # {}
  PROVE  \E m \in S : \A k \in S : m <= k
<1> DEFINE R == OpToRel(<, Nat)
<1>1. IsWellFoundedOn(R, Nat)
  BY NatLessThanWellFounded
<1>2. \A k, m \in Nat : k < m => <<k, m>> \in R
  BY DEF OpToRel
<1> HIDE DEF R
<1>3. PICK m \in S : \A k \in S : ~ (<<k, m>> \in R)
  BY <1>1, WFMin
<1>4. ASSUME NEW k \in S
      PROVE  m <= k
  <2>1. k \in Nat /\ m \in Nat
    OBVIOUS
  <2>2. ~ (k < m)
    BY <1>2, <1>3, <2>1
  <2> QED
    BY <2>1, <2>2
<1> QED
  BY <1>4

\* Some position comes before all others.
LEMMA LeastPosition ==
  ASSUME NEW S, S \subseteq Nat \X Nat, S # {}
  PROVE  \E p \in S : \A q \in S : p = q \/ Before(p, q)
<1>1. PICK A : A = {p[1] : p \in S}
  OBVIOUS
<1>2. A \subseteq Nat /\ A # {}
  BY <1>1
<1>3. PICK a \in A : \A b \in A : a <= b
  BY <1>2, LeastNatural
<1>4. PICK C : C = {p[2] : p \in {q \in S : q[1] = a}}
  OBVIOUS
<1>5. C \subseteq Nat /\ C # {}
  BY <1>1, <1>3, <1>4
<1>6. PICK c \in C : \A d \in C : c <= d
  BY <1>5, LeastNatural
<1>7. PICK p \in S : p[1] = a /\ p[2] = c
  BY <1>4, <1>6
<1>8. ASSUME NEW q \in S
      PROVE  p = q \/ Before(p, q)
  <2>1. /\ p = <<p[1], p[2]>> /\ q = <<q[1], q[2]>>
        /\ p[1] \in Nat /\ p[2] \in Nat /\ q[1] \in Nat /\ q[2] \in Nat
    OBVIOUS
  <2>2. p[1] <= q[1]
    BY <1>1, <1>3, <1>7
  <2>3. CASE p[1] = q[1]
    <3>1. q[2] \in C
      BY <1>4, <1>7, <2>3
    <3>2. p[2] <= q[2]
      BY <1>6, <1>7, <3>1
    <3>3. CASE p[2] = q[2]
      BY <2>1, <2>3, <3>3
    <3>4. CASE p[2] # q[2]
      <4>1. p[2] < q[2]
        BY <2>1, <3>2, <3>4
      <4> QED
        BY <2>3, <4>1 DEF Before
    <3> QED
      BY <3>3, <3>4
  <2>4. CASE p[1] # q[1]
    <3>1. p[1] < q[1]
      BY <2>1, <2>2, <2>4
    <3> QED
      BY <3>1 DEF Before
  <2> QED
    BY <2>3, <2>4
<1> QED
  BY <1>8

-----------------------------------------------------------------------------
(* The invariant *)

\* Every file is as it was found or as it was written.
FilesFit == \A p \in DOMAIN files : files[p] \in Contents(p)

SuitesFit(suites) ==
  DOMAIN suites \subseteq Nat /\ \A s \in DOMAIN suites : IsSuite(suites[s].cases)

\* What may be executed for the case at p.
Executes(run, p, executed) ==
  /\ Optional(executed)
  /\ run.mode = "fixture" =>
       executed = defaultExecutor(SuiteAt(run.suites, p), CaseAt(run.suites, p))

\* Repetitions of the case at p follow from what was executed.
RepetitionsFit(run, p, reps) ==
  /\ IsSequence(reps)
  /\ \A j \in DOMAIN reps :
       /\ Executes(run, p, reps[j].executed)
       /\ reps[j] = Repetition(CaseAt(run.suites, p), reps[j].executed)

ResultFits(run, p) ==
  LET reps == run.results[p].repetitions
  IN  /\ RepetitionsFit(run, p, reps) /\ Len(reps) = run.repetitions
      /\ run.results[p] = CaseResult(SuiteAt(run.suites, p),
                                     CaseAt(run.suites, p), reps)

ResultsFit(run) ==
  /\ SuitesFit(run.suites)
  /\ DOMAIN run.results \subseteq Positions(run.suites)
  /\ IsFiniteSet(DOMAIN run.results)
  /\ \A p \in DOMAIN run.results : ResultFits(run, p)

IsTest(t) ==
  /\ t = [phase |-> t.phase, mode |-> t.mode, candidate |-> t.candidate,
          suites |-> t.suites, repetitions |-> t.repetitions,
          compare |-> t.compare, results |-> t.results, reps |-> t.reps,
          conversation |-> t.conversation, sent |-> t.sent, reply |-> t.reply]
  /\ t.phase \in {"load", "run"} /\ t.repetitions \in 1 .. 20
  /\ Optional(t.conversation) /\ t.sent \in Nat
  /\ t.conversation = {} => t.sent = 0

\* A command that has yet to load its suites has nothing but their names.
Loading(t) ==
  /\ DOMAIN t.suites \subseteq Nat
  /\ \A i \in DOMAIN t.suites : t.suites[i] \in SuiteRefs
  /\ DOMAIN t.results = {} /\ t.reps = <<>> /\ t.conversation = {}

TestFits(t) ==
  /\ IsTest(t)
  /\ t.phase = "load" => Loading(t)
  /\ t.phase = "run" =>
       ResultsFit(t) /\ RepetitionsFit(t, Position(t), t.reps)

ReportFits(run) ==
  /\ ResultsFit(run) /\ DOMAIN run.results = Positions(run.suites)
  /\ run.repetitions \in 1 .. 20
  /\ run.runId = runId(run.candidate, run.suites, run.repetitions)

\* The messages of a conversation are the user's turns up to one of them.
MessagesFit(turns, messages) ==
  \A m \in DOMAIN messages :
    /\ messages[m].turn \in userTurns(turns)
    /\ messages[m].content = turns[messages[m].turn].content
    /\ \A n \in DOMAIN messages :
         m < n => messages[m].turn < messages[n].turn
    /\ \A i \in userTurns(turns) :
         i < messages[m].turn =>
           \E n \in DOMAIN messages : messages[n].turn = i

SentUpTo(turns, messages, sent) ==
  /\ \A m \in DOMAIN messages : messages[m].turn <= sent
  /\ \A i \in userTurns(turns) :
       i <= sent => \E m \in DOMAIN messages : messages[m].turn = i

ConversationFits(c) ==
  /\ conversations[c] = [turns |-> conversations[c].turns,
                         messages |-> conversations[c].messages,
                         by |-> conversations[c].by]
  /\ IsSequence(conversations[c].turns) /\ IsSequence(conversations[c].messages)
  /\ MessagesFit(conversations[c].turns, conversations[c].messages)
  /\ conversations[c].by[1] \in 0 .. runs

\* The conversations of the running command are those of the repetitions that
\* it has recorded, and the one that it has open.
OpenedBy(t) ==
  \A c \in DOMAIN conversations :
    LET by == conversations[c].by IN
    by[1] = runs =>
      \/ by[2] \in DOMAIN t.results
      \/ /\ InProgress(t) /\ by[2] = Position(t)
         /\ by[3] \in Nat
         /\ by[3] < Len(t.reps) \/ (by[3] = Len(t.reps) /\ c \in t.conversation)

SentBy(t) ==
  \A c \in t.conversation :
    /\ c \in DOMAIN conversations
    /\ SentUpTo(conversations[c].turns, conversations[c].messages, t.sent)

RunsInv ==
  /\ FilesFit /\ runs \in Nat
  /\ \A t \in test : TestFits(t)
  /\ \A run \in report \cup baseline : ReportFits(run)

ConversationsInv ==
  /\ IsSequence(conversations)
  /\ \A c \in DOMAIN conversations : ConversationFits(c)
  /\ \A c, d \in DOMAIN conversations :
       conversations[c].by = conversations[d].by => c = d
  /\ \A t \in test : OpenedBy(t) /\ SentBy(t)

-----------------------------------------------------------------------------
(* The operators of the engine *)

\* A position is the number of a suite and of a case in it.
LEMMA PositionFacts ==
  ASSUME NEW suites, SuitesFit(suites), NEW p \in Positions(suites)
  PROVE  /\ p \in Nat \X Nat
         /\ p[1] \in DOMAIN suites /\ p[2] \in DOMAIN suites[p[1]].cases
         /\ IsCase(CaseAt(suites, p))
<1>1. PICK s \in DOMAIN suites : p \in {<<s, c>> : c \in DOMAIN suites[s].cases}
  BY DEF Positions
<1>2. PICK c \in DOMAIN suites[s].cases : p = <<s, c>>
  BY <1>1
<1>3. s \in Nat /\ IsSequence(suites[s].cases)
  BY DEF SuitesFit, IsSuite
<1>4. c \in Nat
  BY <1>3, SequenceFacts
<1>5. IsCase(suites[s].cases[c])
  BY DEF SuitesFit, IsSuite
<1> QED
  BY <1>2, <1>3, <1>4, <1>5 DEF CaseAt

\* While a case is left, one of those left is the next.
LEMMA NextIsLeft ==
  ASSUME NEW t, SuitesFit(t.suites), InProgress(t)
  PROVE  Position(t) \in Left(t)
<1>1. PICK L : L = Left(t)
  OBVIOUS
<1>2. L \subseteq Nat \X Nat
  BY <1>1, PositionFacts DEF Left
<1>3. L # {}
  BY <1>1 DEF InProgress
<1>4. \E p \in L : \A q \in L : p = q \/ Before(p, q)
  BY <1>2, <1>3, LeastPosition
<1>5. Position(t) = CHOOSE p \in L : \A q \in L : p = q \/ Before(p, q)
  BY <1>1 DEF Position
<1> QED
  BY <1>1, <1>4, <1>5

\* A case refers to one fixture at most, and is executed on one at most.
LEMMA FixtureAtMostOne ==
  ASSUME NEW suite, NEW case, IsCase(case)
  PROVE  Optional(defaultExecutor(suite, case))
<1>1. ASSUME NEW x \in lastFixtureRef(case), NEW y \in lastFixtureRef(case)
      PROVE  x = y
  <2> DEFINE referring(s) == {i \in DOMAIN s : s[i].fixtureRef # {}}
             last(s) == {j \in referring(s) : \A k \in referring(s) : k <= j}
  <2>1. lastFixtureRef(case)
          = UNION {UNION {s[i].fixtureRef : i \in last(s)} : s \in case.turns}
    BY DEF lastFixtureRef
  <2>2. PICK s \in case.turns : \E i \in last(s) : x \in s[i].fixtureRef
    BY <2>1
  <2>3. PICK i \in last(s) : x \in s[i].fixtureRef
    BY <2>2
  <2>4. PICK r \in case.turns : \E j \in last(r) : y \in r[j].fixtureRef
    BY <2>1
  <2>5. PICK j \in last(r) : y \in r[j].fixtureRef
    BY <2>4
  <2>6. r = s /\ IsSequence(s)
        /\ \A k \in DOMAIN s : Optional(s[k].fixtureRef)
    BY DEF IsCase, Optional
  <2>7. DOMAIN s \subseteq Nat
    BY <2>6, SequenceFacts
  <2>8. i \in Nat /\ j \in Nat /\ i <= j /\ j <= i /\ i \in DOMAIN s
    BY <2>3, <2>5, <2>6, <2>7
  <2>9. i = j
    BY <2>8
  <2> QED
    BY <2>3, <2>5, <2>6, <2>8, <2>9 DEF Optional
<1> QED
  BY <1>1 DEF defaultExecutor, Optional

\* Between one and twenty repetitions.
LEMMA ClampedFacts == \A n \in Int : Clamped(n) \in 1 .. 20
  BY DEF Clamped

\* A suite that loads has met its schema.
LEMMA LoadedSuiteFits ==
  ASSUME FilesFit, NEW ref \in SuiteRefs, SuiteLoads(files, ref)
  PROVE  IsSuite(loadEvaluationSuite(files, ref).cases)
<1>1. /\ ref \in DOMAIN PosixRelative
      /\ PosixRelative[ref] \in DOMAIN files
      /\ files[PosixRelative[ref]] \notin Malformed
  BY DEF SuiteLoads, Resolves
<1>2. files[PosixRelative[ref]] \in Contents(PosixRelative[ref])
  BY <1>1 DEF FilesFit
<1>3. IsSuite(files[PosixRelative[ref]])
  BY <1>1, <1>2, SuitesMeetTheirSchema
<1>4. loadEvaluationSuite(files, ref).cases = files[PosixRelative[ref]]
  BY DEF loadEvaluationSuite
<1> QED
  BY <1>3, <1>4

\* The suites that a manifest names, in some order.
LEMMA ConfiguredSuites ==
  ASSUME FilesFit, ManifestLoads(files), NEW configured,
         configured
           = SetToSeq({PosixRelative[ref] : ref \in LoadedSuites(files)})
  PROVE  /\ DOMAIN configured \subseteq Nat
         /\ \A i \in DOMAIN configured : configured[i] \in SuiteRefs
<1>1. PICK m : m = manifestOf(files)
  OBVIOUS
<1>2. m \in Manifests
  BY <1>1 DEF ManifestLoads, Holds, manifestOf, FilesFit, Manifests
<1>3. PICK L : L = LoadedSuites(files)
  OBVIOUS
<1>4. L \subseteq ToSet(m.suites) /\ L \subseteq DOMAIN PosixRelative
  BY <1>1, <1>3 DEF LoadedSuites, SuiteLoads, Resolves
<1>5. IsFiniteSet(L)
  <2>1. IsFiniteSet(ToSet(m.suites))
    BY <1>2, ManifestsListSuites, FiniteRange
  <2> QED
    BY <1>4, <2>1, FS_Subset
<1>6. PICK S : S = {PosixRelative[ref] : ref \in L}
  OBVIOUS
<1>7. S \subseteq SuiteRefs
  <2>1. \A ref \in L : ref \in DOMAIN PosixRelative
                                 \cap UNION {ToSet(n.suites) : n \in Manifests}
    BY <1>2, <1>4
  <2> QED
    BY <1>6, <2>1 DEF SuiteRefs
<1>8. IsFiniteSet(S)
  <2>1. PICK g : g = [ref \in L |-> PosixRelative[ref]]
    OBVIOUS
  <2>2. g \in Surjection(L, S)
    BY <1>6, <2>1 DEF Surjection
  <2> QED
    BY <1>5, <2>2, FS_Surjection
<1>9. PICK n : n = Cardinality(S)
  OBVIOUS
<1>10. n \in Nat /\ \E f : f \in Bijection(1 .. n, S)
  BY <1>8, <1>9, FS_CardinalityType DEF ExistsBijection
<1>11. PICK f : f \in Bijection(1 .. n, S)
  BY <1>10
<1>12. f \in [1 .. n -> S] /\ IsInjective(f)
  BY <1>11 DEF Bijection, Injection, IsInjective
<1>13. configured = CHOOSE g \in [1 .. n -> S] : IsInjective(g)
  BY <1>3, <1>6, <1>9 DEF SetToSeq
<1>14. configured \in [1 .. n -> S]
  BY <1>12, <1>13
<1>15. DOMAIN configured = 1 .. n /\ \A i \in 1 .. n : configured[i] \in S
  BY <1>14
<1>16. DOMAIN configured \subseteq Nat
  <2>1. 1 .. n \subseteq Nat
    OBVIOUS
  <2>2. DOMAIN configured = 1 .. n
    BY <1>15
  <2> QED
    BY <2>1, <2>2
<1>17. \A i \in DOMAIN configured : configured[i] \in SuiteRefs
  BY <1>7, <1>15
<1> QED
  BY <1>16, <1>17

-----------------------------------------------------------------------------
(* What recording a repetition does *)

OneMore(run, p, reps, executed) ==
  Append(reps, Repetition(CaseAt(run.suites, p), executed))

\* With one more repetition the record of a case still fits.
LEMMA OneMoreFits ==
  ASSUME NEW t, NEW p, NEW reps, RepetitionsFit(t, p, reps),
         NEW executed, Executes(t, p, executed),
         NEW more, more = OneMore(t, p, reps, executed)
  PROVE  RepetitionsFit(t, p, more) /\ Len(more) = Len(reps) + 1
<1>1. PICK e : e = Repetition(CaseAt(t.suites, p), executed)
  OBVIOUS
<1>2. /\ IsSequence(more) /\ Len(more) = Len(reps) + 1
      /\ DOMAIN more = DOMAIN reps \cup {Len(reps) + 1}
      /\ \A i \in DOMAIN reps : more[i] = reps[i]
      /\ more[Len(reps) + 1] = e
  BY <1>1, Appending DEF RepetitionsFit, OneMore
<1>3. e.executed = executed
  BY <1>1 DEF Repetition
<1>4. ASSUME NEW j \in DOMAIN more
      PROVE  /\ Executes(t, p, more[j].executed)
             /\ more[j] = Repetition(CaseAt(t.suites, p), more[j].executed)
  <2>1. CASE j \in DOMAIN reps
    BY <1>2, <2>1 DEF RepetitionsFit
  <2>2. CASE j = Len(reps) + 1
    <3>1. more[j] = e
      BY <1>2, <2>2
    <3> QED
      BY <1>1, <1>3, <3>1
  <2> QED
    BY <1>2, <2>1, <2>2
<1> QED
  BY <1>2, <1>4 DEF RepetitionsFit

\* Before its first repetition, the record of a case fits.
LEMMA NoneFits ==
  ASSUME NEW t, NEW p
  PROVE  RepetitionsFit(t, p, <<>>)
<1>1. <<>> \in Seq({}) /\ DOMAIN <<>> = {}
  OBVIOUS
<1>2. IsSequence(<<>>)
  BY <1>1, SequencesAre
<1> QED
  BY <1>1, <1>2 DEF RepetitionsFit

\* A command that has recorded a repetition goes on with the case, or has its
\* result and goes on with the next.
LEMMA RecordedFits ==
  ASSUME NEW t, TestFits(t), InProgress(t),
         NEW executed, Executes(t, Position(t), executed),
         NEW r, r = Recorded(t, executed)
  PROVE  /\ TestFits(r) /\ r.conversation = {} /\ r.phase = "run"
         /\ \/ /\ r.results = t.results /\ Len(r.reps) = Len(t.reps) + 1
               /\ InProgress(r) /\ Position(r) = Position(t)
            \/ DOMAIN r.results = DOMAIN t.results \cup {Position(t)}
<1>1. /\ IsTest(t) /\ t.phase = "run" /\ ResultsFit(t)
      /\ RepetitionsFit(t, Position(t), t.reps)
  BY DEF TestFits, InProgress
<1>2. PICK p : p = Position(t)
  OBVIOUS
<1>3. p \in Positions(t.suites) /\ p \notin DOMAIN t.results
  BY <1>1, <1>2, NextIsLeft DEF ResultsFit, Left
<1>4. PICK reps : reps = OneMore(t, p, t.reps, executed)
  OBVIOUS
<1>5. RepetitionsFit(t, p, reps) /\ Len(reps) = Len(t.reps) + 1
  <2>1. RepetitionsFit(t, p, t.reps)
    BY <1>1, <1>2
  <2> QED
    <3>1. Executes(t, p, executed)
      BY <1>2
    <3>2. RepetitionsFit(t, p, reps)
      BY <1>4, <2>1, <3>1, OneMoreFits
    <3>3. Len(reps) = Len(t.reps) + 1
      BY <1>4, <2>1, <3>1, OneMoreFits
    <3> QED
      BY <3>2, <3>3
<1>6. PICK n : n = [t EXCEPT !.conversation = {}, !.sent = 0, !.reply = {}]
  OBVIOUS
<1>7. n = [phase |-> t.phase, mode |-> t.mode, candidate |-> t.candidate,
           suites |-> t.suites, repetitions |-> t.repetitions,
           compare |-> t.compare, results |-> t.results, reps |-> t.reps,
           conversation |-> {}, sent |-> 0, reply |-> {}]
  BY <1>1, <1>6 DEF IsTest
<1>8. r = IF Len(reps) = t.repetitions
          THEN [n EXCEPT !.reps = <<>>,
                  !.results = [q \in DOMAIN n.results \cup {p} |->
                     IF q = p
                     THEN CaseResult(SuiteAt(t.suites, p), CaseAt(t.suites, p),
                                     reps)
                     ELSE n.results[q]]]
          ELSE [n EXCEPT !.reps = reps]
  BY <1>2, <1>4, <1>6
     DEF OneMore, Recorded, RepetitionsDone, CurrentSuite, CurrentCase
<1>9. CASE Len(reps) # t.repetitions
  <2>1. r = [phase |-> t.phase, mode |-> t.mode, candidate |-> t.candidate,
             suites |-> t.suites, repetitions |-> t.repetitions,
             compare |-> t.compare, results |-> t.results, reps |-> reps,
             conversation |-> {}, sent |-> 0, reply |-> {}]
    BY <1>7, <1>8, <1>9
  <2>2. /\ r.phase = "run" /\ r.mode = t.mode /\ r.suites = t.suites
        /\ r.repetitions = t.repetitions /\ r.results = t.results
        /\ r.reps = reps /\ r.conversation = {} /\ r.sent = 0
    BY <1>1, <2>1
  <2>3. IsTest(r)
    BY <1>1, <2>1 DEF IsTest, Optional
  <2>4. Left(r) = Left(t)
    BY <2>2 DEF Left
  <2>5. Position(r) = p /\ InProgress(r)
    BY <1>2, <2>2, <2>4 DEF Position, InProgress
  <2>6. ResultsFit(r)
    BY <1>1, <2>2 DEF ResultsFit, ResultFits, RepetitionsFit, Executes
  <2>7. RepetitionsFit(r, Position(r), r.reps)
    BY <1>5, <2>2, <2>5 DEF RepetitionsFit, Executes
  <2> QED
    BY <1>2, <1>5, <2>2, <2>3, <2>5, <2>6, <2>7 DEF TestFits
<1>10. CASE Len(reps) = t.repetitions
  <2>1. PICK results :
          results = [q \in DOMAIN t.results \cup {p} |->
             IF q = p
             THEN CaseResult(SuiteAt(t.suites, p), CaseAt(t.suites, p), reps)
             ELSE t.results[q]]
    OBVIOUS
  <2>2. r = [phase |-> t.phase, mode |-> t.mode, candidate |-> t.candidate,
             suites |-> t.suites, repetitions |-> t.repetitions,
             compare |-> t.compare, results |-> results, reps |-> <<>>,
             conversation |-> {}, sent |-> 0, reply |-> {}]
    <3>1. n.results = t.results
      BY <1>7
    <3>2. r = [n EXCEPT !.reps = <<>>, !.results = results]
      BY <1>8, <1>10, <2>1, <3>1
    <3> QED
      BY <1>7, <3>2
  <2>3. /\ r.phase = "run" /\ r.mode = t.mode /\ r.suites = t.suites
        /\ r.repetitions = t.repetitions /\ r.results = results
        /\ r.reps = <<>> /\ r.conversation = {} /\ r.sent = 0
    BY <1>1, <2>2
  <2>4. IsTest(r)
    BY <1>1, <2>2 DEF IsTest, Optional
  <2>5. DOMAIN results = DOMAIN t.results \cup {p}
    BY <2>1
  <2>6. IsFiniteSet(DOMAIN results)
    BY <1>1, <2>5, FS_AddElement DEF ResultsFit
  <2>7. DOMAIN results \subseteq Positions(r.suites)
    BY <1>1, <1>3, <2>3, <2>5 DEF ResultsFit
  <2>8. ASSUME NEW q \in DOMAIN results
        PROVE  ResultFits(r, q)
    <3>1. CASE q # p
      <4>1. q \in DOMAIN t.results /\ results[q] = t.results[q]
        BY <2>1, <2>5, <3>1
      <4>2. ResultFits(t, q)
        BY <1>1, <4>1 DEF ResultsFit
      <4> QED
        BY <2>3, <4>1, <4>2 DEF ResultFits, RepetitionsFit, Executes
    <3>2. CASE q = p
      <4>1. results[q] = CaseResult(SuiteAt(t.suites, p), CaseAt(t.suites, p),
                                    reps)
        BY <2>1, <3>2
      <4>2. results[q].repetitions = reps
        BY <4>1 DEF CaseResult
      <4> QED
        BY <1>5, <1>10, <2>3, <3>2, <4>1, <4>2
          DEF ResultFits, RepetitionsFit, Executes
    <3> QED
      BY <3>1, <3>2
  <2>9. ResultsFit(r)
    BY <1>1, <2>3, <2>6, <2>7, <2>8 DEF ResultsFit
  <2> QED
    BY <1>2, <2>3, <2>4, <2>5, <2>9, NoneFits DEF TestFits
<1> QED
  BY <1>9, <1>10

-----------------------------------------------------------------------------
(* Commands and reports keep their shape *)

\* In fixture mode the case in progress is executed on its fixture.
LEMMA FixtureExecutes ==
  ASSUME NEW t, TestFits(t), InProgress(t)
  PROVE  Executes(t, Position(t),
                  defaultExecutor(CurrentSuite(t), CurrentCase(t)))
<1>1. PICK p : p = Position(t)
  OBVIOUS
<1>2. SuitesFit(t.suites)
  BY DEF TestFits, InProgress, ResultsFit
<1>3. p \in Positions(t.suites)
  BY <1>1, <1>2, NextIsLeft DEF Left
<1>4. IsCase(CaseAt(t.suites, p))
  BY <1>2, <1>3, PositionFacts
<1>5. Optional(defaultExecutor(SuiteAt(t.suites, p), CaseAt(t.suites, p)))
  BY <1>4, FixtureAtMostOne
<1> QED
  BY <1>1, <1>5 DEF Executes, CurrentSuite, CurrentCase

\* Live, it is skipped or executed on what was observed.
LEMMA LiveExecutes ==
  ASSUME NEW t, NEW p, t.mode = "live"
  PROVE  Executes(t, p, Skipped) /\ \A x : Executes(t, p, {x})
BY DEF Executes, Optional, Skipped

Talking(t, c, n, a) == [t EXCEPT !.conversation = c, !.sent = n, !.reply = a]

\* Talking to the runtime concerns nothing but the open conversation.
LEMMA TalkingFits ==
  ASSUME NEW t, TestFits(t), t.phase = "run",
         NEW c, Optional(c), NEW n \in Nat, c = {} => n = 0, NEW a,
         NEW r, r = Talking(t, c, n, a)
  PROVE  /\ TestFits(r) /\ r.conversation = c /\ r.sent = n
         /\ r.results = t.results /\ r.reps = t.reps
         /\ Position(r) = Position(t) /\ (InProgress(t) => InProgress(r))
<1>1. IsTest(t) /\ ResultsFit(t) /\ RepetitionsFit(t, Position(t), t.reps)
  BY DEF TestFits
<1>2. r = [phase |-> t.phase, mode |-> t.mode, candidate |-> t.candidate,
           suites |-> t.suites, repetitions |-> t.repetitions,
           compare |-> t.compare, results |-> t.results, reps |-> t.reps,
           conversation |-> c, sent |-> n, reply |-> a]
  BY <1>1 DEF IsTest, Talking
<1>3. /\ r.phase = "run" /\ r.mode = t.mode /\ r.suites = t.suites
      /\ r.repetitions = t.repetitions /\ r.results = t.results
      /\ r.reps = t.reps /\ r.conversation = c /\ r.sent = n
  BY <1>2
<1>4. IsTest(r)
  BY <1>1, <1>2, <1>3 DEF IsTest
<1>5. Left(r) = Left(t)
  BY <1>3 DEF Left
<1>6. Position(r) = Position(t) /\ (InProgress(t) => InProgress(r))
  BY <1>3, <1>5 DEF Position, InProgress
<1>7. ResultsFit(r)
  BY <1>1, <1>3 DEF ResultsFit, ResultFits, RepetitionsFit, Executes
<1>8. RepetitionsFit(r, Position(r), r.reps)
  BY <1>1, <1>3, <1>6 DEF RepetitionsFit, Executes
<1> QED
  BY <1>3, <1>4, <1>6, <1>7, <1>8 DEF TestFits

\* A command that starts is about to load suites that it was told to load, or
\* that the manifest names.
LEMMA StartFits ==
  ASSUME RunsInv, StartTest, NEW t \in test'
  PROVE  TestFits(t) /\ DOMAIN t.results = {} /\ t.conversation = {}
<1>1. FilesFit /\ ManifestLoads(files)
  BY DEF RunsInv, StartTest
<1>2. PICK c, configured, chosen :
        /\ c \in Commands
        /\ configured
             = SetToSeq({PosixRelative[ref] : ref \in LoadedSuites(files)})
        /\ chosen = IF c.suites = <<>> THEN configured ELSE c.suites
        /\ test' = {[phase |-> "load", mode |-> c.mode,
                     candidate |-> candidateSha256(files),
                     suites |-> chosen,
                     repetitions |-> Clamped(c.repetitions),
                     compare |-> c.compare, results |-> <<>>, reps |-> <<>>,
                     conversation |-> {}, sent |-> 0, reply |-> {}]}
  BY DEF StartTest
<1>3. /\ DOMAIN chosen \subseteq Nat
      /\ \A i \in DOMAIN chosen : chosen[i] \in SuiteRefs
  <2>1. CASE c.suites = <<>>
    BY <1>1, <1>2, <2>1, ConfiguredSuites
  <2>2. CASE c.suites # <<>>
    <3>1. IsSequence(c.suites)
      BY <1>2, CommandsAreOptions
    <3>2. DOMAIN c.suites \subseteq Nat
      BY <3>1, SequenceFacts
    <3>3. \A i \in DOMAIN c.suites : c.suites[i] \in SuiteRefs
      BY <1>2 DEF SuiteRefs, ToSet
    <3> QED
      BY <1>2, <2>2, <3>2, <3>3
  <2> QED
    BY <2>1, <2>2
<1>4. Clamped(c.repetitions) \in 1 .. 20
  BY <1>2, CommandsAreOptions, ClampedFacts
<1>5. PICK k, n : k = candidateSha256(files) /\ n = Clamped(c.repetitions)
  OBVIOUS
<1>6. t = [phase |-> "load", mode |-> c.mode, candidate |-> k,
           suites |-> chosen, repetitions |-> n,
           compare |-> c.compare, results |-> <<>>, reps |-> <<>>,
           conversation |-> {}, sent |-> 0, reply |-> {}]
  BY <1>2, <1>5
<1>7. IsTest(t)
  BY <1>4, <1>5, <1>6 DEF IsTest, Optional
<1>8. t.phase = "load" /\ DOMAIN t.results = {} /\ t.conversation = {}
  BY <1>6
<1>9. Loading(t)
  BY <1>3, <1>6 DEF Loading
<1> QED
  BY <1>7, <1>8, <1>9 DEF TestFits

\* A command that has loaded its suites has nothing but them.
LEMMA LoadFits ==
  ASSUME RunsInv, LoadSuites, NEW r \in test'
  PROVE  /\ TestFits(r) /\ DOMAIN r.results = {} /\ r.reps = <<>>
         /\ r.conversation = {}
<1>1. PICK t \in test :
        /\ t.phase = "load"
        /\ IF \A i \in DOMAIN t.suites : SuiteLoads(files, t.suites[i])
           THEN test' = {[t EXCEPT !.phase = "run",
                                   !.suites = [i \in DOMAIN t.suites |->
                                      loadEvaluationSuite(files, t.suites[i])]]}
           ELSE test' = {}
  BY DEF LoadSuites
<1>2. /\ \A i \in DOMAIN t.suites : SuiteLoads(files, t.suites[i])
      /\ r = [t EXCEPT !.phase = "run",
                       !.suites = [i \in DOMAIN t.suites |->
                          loadEvaluationSuite(files, t.suites[i])]]
  BY <1>1
<1>3. FilesFit /\ IsTest(t) /\ Loading(t)
  BY <1>1 DEF RunsInv, TestFits
<1>4. PICK suites : suites = [i \in DOMAIN t.suites |->
                                loadEvaluationSuite(files, t.suites[i])]
  OBVIOUS
<1>5. r = [phase |-> "run", mode |-> t.mode, candidate |-> t.candidate,
           suites |-> suites, repetitions |-> t.repetitions,
           compare |-> t.compare, results |-> t.results, reps |-> t.reps,
           conversation |-> t.conversation, sent |-> t.sent, reply |-> t.reply]
  BY <1>2, <1>3, <1>4 DEF IsTest
<1>6. /\ r.phase = "run" /\ r.suites = suites /\ DOMAIN r.results = {}
      /\ r.reps = <<>> /\ r.conversation = {} /\ r.sent = t.sent
      /\ r.repetitions = t.repetitions
  BY <1>3, <1>5 DEF Loading
<1>7. IsTest(r)
  BY <1>3, <1>5, <1>6 DEF IsTest, Loading
<1>8. SuitesFit(suites)
  <2>1. DOMAIN suites = DOMAIN t.suites /\ DOMAIN suites \subseteq Nat
    BY <1>3, <1>4 DEF Loading
  <2>2. ASSUME NEW i \in DOMAIN suites
        PROVE  IsSuite(suites[i].cases)
    <3>1. t.suites[i] \in SuiteRefs /\ SuiteLoads(files, t.suites[i])
      BY <1>2, <1>3, <2>1 DEF Loading
    <3>2. IsSuite(loadEvaluationSuite(files, t.suites[i]).cases)
      BY <1>3, <3>1, LoadedSuiteFits
    <3> QED
      BY <1>4, <2>1, <3>2
  <2> QED
    BY <2>1, <2>2 DEF SuitesFit
<1>9. ResultsFit(r)
  BY <1>6, <1>8, FS_EmptySet DEF ResultsFit
<1> QED
  BY <1>6, <1>7, <1>9, NoneFits DEF TestFits

\* Whatever is recorded, by whichever action.
LEMMA RecordingFits ==
  ASSUME RunsInv, RunFixture \/ SkipLive \/ Observe
  PROVE  \E t \in test : \E executed :
           /\ InProgress(t) /\ Executes(t, Position(t), executed)
           /\ test' = {Recorded(t, executed)}
<1>1. CASE RunFixture
  <2>1. PICK t \in test :
          /\ InProgress(t)
          /\ test' = {Recorded(t, defaultExecutor(CurrentSuite(t),
                                                  CurrentCase(t)))}
    BY <1>1 DEF RunFixture
  <2> QED
    BY <2>1, FixtureExecutes DEF RunsInv
<1>2. CASE SkipLive
  <2>1. PICK t \in test : Live(t) /\ test' = {Recorded(t, Skipped)}
    BY <1>2 DEF SkipLive
  <2>2. InProgress(t) /\ t.mode = "live"
    BY <2>1 DEF Live
  <2> QED
    BY <2>1, <2>2, LiveExecutes
<1>3. CASE Observe
  <2>1. PICK t \in test : Live(t) /\ \E x : test' = {Recorded(t, {x})}
    BY <1>3 DEF Observe
  <2>2. InProgress(t) /\ t.mode = "live"
    BY <2>1 DEF Live
  <2> QED
    BY <2>1, <2>2, LiveExecutes
<1> QED
  BY <1>1, <1>2, <1>3

\* A report is written of what has been run to the end.
LEMMA WrittenFits ==
  ASSUME RunsInv, WriteReport, NEW run \in report'
  PROVE  ReportFits(run)
<1>1. PICK t \in test :
        /\ t.phase = "run" /\ ~InProgress(t)
        /\ report' = IF t.compare /\ baseline = {} THEN report ELSE {RunOf(t)}
  BY DEF WriteReport
<1>2. TestFits(t) /\ IsTest(t) /\ ResultsFit(t) /\ Left(t) = {}
  BY <1>1 DEF RunsInv, TestFits, InProgress
<1>3. CASE run \in report
  BY <1>3 DEF RunsInv
<1>4. CASE run = RunOf(t)
  <2>1. /\ run.mode = t.mode /\ run.candidate = t.candidate
        /\ run.suites = t.suites /\ run.repetitions = t.repetitions
        /\ run.results = t.results
        /\ run.runId = runId(t.candidate, t.suites, t.repetitions)
    BY <1>4 DEF RunOf
  <2>2. ResultsFit(run)
    BY <1>2, <2>1 DEF ResultsFit, ResultFits, RepetitionsFit, Executes
  <2>3. DOMAIN run.results = Positions(run.suites)
    BY <1>2, <2>1 DEF ResultsFit, Left
  <2>4. run.repetitions \in 1 .. 20
    BY <1>2, <2>1 DEF IsTest
  <2> QED
    BY <2>1, <2>2, <2>3, <2>4 DEF ReportFits
<1> QED
  BY <1>1, <1>3, <1>4

LEMMA RunsInit == Init => RunsInv
<1> SUFFICES ASSUME Init
             PROVE  RunsInv
  OBVIOUS
<1>1. FilesFit
  BY DEF Init, FilesFit, Contents
<1> QED
  BY <1>1 DEF Init, RunsInv

\* The next turn is the first of the user's that was not sent.
LEMMA NextTurnFacts ==
  ASSUME NEW t, NEW c, ConversationFits(c), Unsent(t, c) # {}
  PROVE  /\ NextTurn(t, c) \in Unsent(t, c) /\ NextTurn(t, c) \in Nat
         /\ \A j \in Unsent(t, c) : NextTurn(t, c) <= j
<1>1. PICK U : U = Unsent(t, c)
  OBVIOUS
<1>2. DOMAIN conversations[c].turns \subseteq Nat
  BY SequenceFacts DEF ConversationFits
<1>3. U \subseteq Nat /\ U # {}
  BY <1>1, <1>2 DEF Unsent, userTurns
<1>4. \E i \in U : \A j \in U : i <= j
  BY <1>3, LeastNatural
<1>5. NextTurn(t, c) = CHOOSE i \in U : \A j \in U : i <= j
  BY <1>1 DEF NextTurn
<1> QED
  BY <1>1, <1>3, <1>4, <1>5

\* No step puts a command or a report out of shape.
LEMMA RunsNext == RunsInv /\ ConversationsInv /\ [Next]_vars => RunsInv'
<1> SUFFICES ASSUME RunsInv, ConversationsInv, [Next]_vars
             PROVE  RunsInv'
  OBVIOUS
<1> DEFINE TestsFit == \A t \in test' : TestFits(t)
           ReportsFit == \A run \in report' \cup baseline' : ReportFits(run)
<1>1. CASE files' = files /\ runs' \in Nat /\ TestsFit /\ ReportsFit
  BY <1>1 DEF RunsInv, FilesFit
<1>2. /\ runs \in Nat /\ \A t \in test : TestFits(t)
      /\ \A run \in report \cup baseline : ReportFits(run)
  BY DEF RunsInv
<1>3. CASE StartTest
  <2>1. TestsFit
    BY <1>3, StartFits
  <2> QED
    BY <1>1, <1>2, <1>3, <2>1 DEF StartTest
<1>4. CASE LoadSuites
  <2>1. TestsFit
    BY <1>4, LoadFits
  <2> QED
    BY <1>1, <1>2, <1>4, <2>1 DEF LoadSuites
<1>5. CASE RunFixture \/ SkipLive \/ Observe
  <2>1. PICK t \in test : \E executed :
          /\ InProgress(t) /\ Executes(t, Position(t), executed)
          /\ test' = {Recorded(t, executed)}
    BY <1>5, RecordingFits
  <2>2. TestsFit
    BY <1>2, <2>1, RecordedFits
  <2>3. UNCHANGED <<files, report, baseline, runs>>
    BY <1>5 DEF RunFixture, SkipLive, Observe
  <2> QED
    BY <1>1, <1>2, <2>2, <2>3
<1>6. CASE OpenConversation
  <2>1. PICK t \in test :
          /\ Live(t) /\ t.conversation = {}
          /\ \/ test' = {[t EXCEPT !.conversation = {Len(conversations')}]}
             \/ test' = {}
    BY <1>6 DEF OpenConversation
  <2>2. TestsFit
    <3> SUFFICES ASSUME NEW r \in test'
                 PROVE  TestFits(r)
      OBVIOUS
    <3>1. TestFits(t) /\ t.phase = "run"
      BY <1>2, <2>1 DEF Live, InProgress
    <3>2. PICK c : c = {Len(conversations')}
      OBVIOUS
    <3>3. IsTest(t) /\ t.sent \in Nat /\ Optional(c) /\ c # {}
      BY <3>1, <3>2 DEF TestFits, IsTest, Optional
    <3>4. r = Talking(t, c, t.sent, t.reply)
      <4>1. r = [t EXCEPT !.conversation = c]
        BY <2>1, <3>2
      <4> QED
        BY <3>3, <4>1 DEF IsTest, Talking
    <3> QED
      BY <3>1, <3>3, <3>4, TalkingFits
  <2> QED
    BY <1>1, <1>2, <1>6, <2>2 DEF OpenConversation
<1>7. CASE SendMessage
  <2>1. PICK t \in test : \E c \in t.conversation :
          /\ Live(t) /\ Unsent(t, c) # {}
          /\ \/ \E a :
                  test' = {[t EXCEPT !.sent = NextTurn(t, c), !.reply = {a}]}
             \/ test' = {}
    BY <1>7 DEF SendMessage, AfterLostReply
  <2>2. PICK c \in t.conversation :
          /\ Live(t) /\ Unsent(t, c) # {}
          /\ \/ \E a :
                  test' = {[t EXCEPT !.sent = NextTurn(t, c), !.reply = {a}]}
             \/ test' = {}
    BY <2>1
  <2>3. TestsFit
    <3> SUFFICES ASSUME NEW r \in test'
                 PROVE  TestFits(r)
      OBVIOUS
    <3>1. TestFits(t) /\ t.phase = "run" /\ IsTest(t)
      BY <1>2, <2>2 DEF Live, InProgress, TestFits
    <3>2. PICK n : n = NextTurn(t, c)
      OBVIOUS
    <3>3. n \in Nat
      <4>1. ConversationFits(c)
        BY <2>2 DEF ConversationsInv, SentBy
      <4> QED
        BY <2>2, <3>2, <4>1, NextTurnFacts
    <3>4. PICK o : o = t.conversation
      OBVIOUS
    <3>5. Optional(o) /\ o # {}
      BY <2>2, <3>1, <3>4 DEF IsTest
    <3>6. PICK a : r = [t EXCEPT !.sent = n, !.reply = {a}]
      BY <2>2, <3>2
    <3>7. r = Talking(t, o, n, {a})
      BY <3>1, <3>4, <3>6 DEF IsTest, Talking
    <3> QED
      BY <3>1, <3>3, <3>5, <3>7, TalkingFits
  <2> QED
    BY <1>1, <1>2, <1>7, <2>3 DEF SendMessage
<1>8. CASE WriteReport
  <2>1. test' = {} /\ \A run \in report' : ReportFits(run)
    BY <1>8, WrittenFits DEF WriteReport
  <2>2. TestsFit /\ ReportsFit
    BY <1>2, <1>8, <2>1 DEF WriteReport
  <2> QED
    BY <1>1, <1>2, <1>8, <2>2 DEF WriteReport
<1>9. CASE Interrupt
  BY <1>1, <1>2, <1>9 DEF Interrupt
<1>10. CASE KeepBaseline
  BY <1>1, <1>2, <1>10 DEF KeepBaseline
<1>11. CASE EditProject
  <2>1. PICK e \in Edits :
          files' = [p \in DOMAIN files \cup {e.path} |->
                      IF p = e.path THEN e.content ELSE files[p]]
    BY <1>11 DEF EditProject
  <2>2. FilesFit'
    BY <2>1 DEF RunsInv, FilesFit, Contents
  <2> QED
    BY <1>2, <1>11, <2>2 DEF EditProject, RunsInv
<1>12. CASE UNCHANGED vars
  BY <1>1, <1>2, <1>12 DEF vars
<1> QED
  BY <1>3, <1>4, <1>5, <1>6, <1>7, <1>8, <1>9, <1>10, <1>11, <1>12 DEF Next

-----------------------------------------------------------------------------
(* Conversations keep theirs *)

\* Replacing an element of a sequence leaves the others.
LEMMA Replacing ==
  ASSUME NEW s, IsSequence(s), NEW c \in DOMAIN s, NEW v,
         NEW r, r = [k \in DOMAIN s |-> IF k = c THEN v ELSE s[k]]
  PROVE  IsSequence(r)
<1>1. PICK R : R = {s[i] : i \in DOMAIN s} \cup {v}
  OBVIOUS
<1>2. Len(s) \in Nat /\ DOMAIN s = 1 .. Len(s)
  BY SequenceFacts
<1>3. r \in [1 .. Len(s) -> R]
  BY <1>1, <1>2
<1>4. r \in Seq(R)
  BY <1>2, <1>3
<1> QED
  BY <1>4, SequencesAre

Message(i, content) == [turn |-> i, content |-> content]
OneMessage(messages, i, content) == Append(messages, Message(i, content))

\* The next of the user's turns, sent once the earlier ones are.
LEMMA OneMessageMore ==
  ASSUME NEW turns, IsSequence(turns), NEW messages, IsSequence(messages),
         MessagesFit(turns, messages),
         NEW sent \in Nat, SentUpTo(turns, messages, sent),
         NEW i \in userTurns(turns), i > sent,
         \A j \in userTurns(turns) : j > sent => i <= j,
         NEW more, more = OneMessage(messages, i, turns[i].content)
  PROVE  /\ IsSequence(more) /\ MessagesFit(turns, more)
         /\ SentUpTo(turns, more, i)
<1>1. PICK x : x = Message(i, turns[i].content)
  OBVIOUS
<1>2. x.turn = i /\ x.content = turns[i].content
  BY <1>1 DEF Message
<1>3. PICK l : l = Len(messages) + 1
  OBVIOUS
<1>4. /\ IsSequence(more) /\ DOMAIN more = DOMAIN messages \cup {l}
      /\ l \notin DOMAIN messages
      /\ \A m \in DOMAIN messages : more[m] = messages[m]
      /\ more[l] = x
  BY <1>1, <1>3, Appending DEF OneMessage
<1>5. /\ Len(messages) \in Nat /\ DOMAIN messages = 1 .. Len(messages)
  BY SequenceFacts
<1>6. l \in Nat /\ \A m \in DOMAIN messages : m \in Nat /\ m < l
  BY <1>3, <1>5
<1>7. userTurns(turns) \subseteq Nat
  BY SequenceFacts DEF userTurns
<1>8. \A m \in DOMAIN messages :
        messages[m].turn \in Nat /\ messages[m].turn <= sent
  BY <1>7 DEF MessagesFit, SentUpTo
<1>9. \A j \in userTurns(turns) :
        j < i => \E n \in DOMAIN more : more[n].turn = j
  <2> SUFFICES ASSUME NEW j \in userTurns(turns), j < i
               PROVE  \E n \in DOMAIN more : more[n].turn = j
    OBVIOUS
  <2>1. j \in Nat /\ i \in Nat /\ j <= sent
    BY <1>7
  <2>2. PICK n \in DOMAIN messages : messages[n].turn = j
    BY <2>1 DEF SentUpTo
  <2> QED
    BY <1>4, <2>2
<1>10. ASSUME NEW m \in DOMAIN more
       PROVE  /\ more[m].turn \in userTurns(turns)
              /\ more[m].content = turns[more[m].turn].content
              /\ \A n \in DOMAIN more : m < n => more[m].turn < more[n].turn
              /\ \A j \in userTurns(turns) :
                   j < more[m].turn => \E n \in DOMAIN more : more[n].turn = j
              /\ more[m].turn <= i
  <2>1. CASE m = l
    <3>1. more[m].turn = i /\ more[m].content = turns[i].content
      BY <1>2, <1>4, <2>1
    <3>2. \A n \in DOMAIN more : ~ (m < n)
      BY <1>4, <1>6, <2>1
    <3>3. i <= i
      BY <1>7
    <3> QED
      BY <1>9, <3>1, <3>2, <3>3
  <2>2. CASE m \in DOMAIN messages
    <3>1. more[m] = messages[m]
      BY <1>4, <2>2
    <3>2. /\ messages[m].turn \in userTurns(turns)
          /\ messages[m].content = turns[messages[m].turn].content
      BY <2>2 DEF MessagesFit
    <3>3. messages[m].turn < i /\ messages[m].turn <= i
      BY <1>7, <1>8, <2>2
    <3>4. ASSUME NEW n \in DOMAIN more, m < n
          PROVE  more[m].turn < more[n].turn
      <4>1. CASE n = l
        BY <1>2, <1>4, <3>1, <3>3, <4>1
      <4>2. CASE n \in DOMAIN messages
        <5>1. more[n] = messages[n]
          BY <1>4, <4>2
        <5>2. messages[m].turn < messages[n].turn
          BY <2>2, <3>4, <4>2 DEF MessagesFit
        <5> QED
          BY <3>1, <5>1, <5>2
      <4> QED
        BY <1>4, <4>1, <4>2
    <3>5. \A j \in userTurns(turns) : j < more[m].turn => j < i
      BY <1>7, <1>8, <2>2, <3>1, <3>3
    <3> QED
      BY <1>9, <3>1, <3>2, <3>3, <3>4, <3>5
  <2> QED
    BY <1>4, <2>1, <2>2
<1>11. \A j \in userTurns(turns) :
         j <= i => \E n \in DOMAIN more : more[n].turn = j
  <2>1. \A j \in userTurns(turns) : j <= i => j < i \/ j = i
    BY <1>7
  <2>2. l \in DOMAIN more /\ more[l].turn = i
    BY <1>2, <1>4
  <2> QED
    BY <1>9, <2>1, <2>2
<1>12. MessagesFit(turns, more)
  BY <1>10 DEF MessagesFit
<1>13. SentUpTo(turns, more, i)
  BY <1>10, <1>11 DEF SentUpTo
<1> QED
  BY <1>4, <1>12, <1>13

LEMMA ConversationsInit == Init => ConversationsInv
<1> SUFFICES ASSUME Init
             PROVE  ConversationsInv
  OBVIOUS
<1>1. <<>> \in Seq({}) /\ DOMAIN <<>> = {}
  OBVIOUS
<1>2. IsSequence(<<>>)
  BY <1>1, SequencesAre
<1> QED
  BY <1>1, <1>2 DEF Init, ConversationsInv

\* A new conversation is of a repetition that had none.
LEMMA OpeningKeeps ==
  ASSUME RunsInv, ConversationsInv, OpenConversation
  PROVE  ConversationsInv'
<1>1. PICK t \in test :
        /\ Live(t) /\ t.conversation = {}
        /\ \E turns \in Conversation(CurrentCase(t)), arrives \in BOOLEAN :
             /\ conversations' = Append(conversations,
                  [turns |-> turns, messages |-> <<>>,
                   by |-> <<runs, Position(t), Len(t.reps)>>])
             /\ test' = IF arrives
                        THEN {[t EXCEPT !.conversation = {Len(conversations')}]}
                        ELSE {}
  BY DEF OpenConversation
<1>2. PICK turns \in Conversation(CurrentCase(t)) : \E arrives \in BOOLEAN :
        /\ conversations' = Append(conversations,
             [turns |-> turns, messages |-> <<>>,
              by |-> <<runs, Position(t), Len(t.reps)>>])
        /\ test' = IF arrives
                   THEN {[t EXCEPT !.conversation = {Len(conversations')}]}
                   ELSE {}
  BY <1>1
<1>3. PICK p, j : p = Position(t) /\ j = Len(t.reps)
  OBVIOUS
<1>4. /\ TestFits(t) /\ IsTest(t) /\ InProgress(t) /\ t.phase = "run"
      /\ SuitesFit(t.suites) /\ t.sent = 0
  BY <1>1 DEF RunsInv, TestFits, ResultsFit, IsTest, Live, InProgress
<1>5. p \in Positions(t.suites) /\ p \notin DOMAIN t.results
  BY <1>3, <1>4, NextIsLeft DEF Left
<1>6. IsSequence(turns)
  <2>1. IsCase(CaseAt(t.suites, p))
    BY <1>4, <1>5, PositionFacts
  <2> QED
    BY <1>3, <2>1 DEF Conversation, CurrentCase, IsCase
<1>7. j \in Nat
  BY <1>3, <1>4, SequenceFacts DEF TestFits, RepetitionsFit
<1>8. PICK new : new = [turns |-> turns, messages |-> <<>>, by |-> <<runs, p, j>>]
  OBVIOUS
<1>9. new.turns = turns /\ new.messages = <<>> /\ new.by = <<runs, p, j>>
  BY <1>8
<1>10. PICK n : n = Len(conversations')
  OBVIOUS
<1>11. IsSequence(conversations)
  BY DEF ConversationsInv
<1>12. conversations' = Append(conversations, new)
  BY <1>2, <1>3, <1>8
<1>13. /\ IsSequence(conversations')
       /\ n \notin DOMAIN conversations
       /\ DOMAIN conversations' = DOMAIN conversations \cup {n}
       /\ \A c \in DOMAIN conversations : conversations'[c] = conversations[c]
       /\ conversations'[n] = new
  BY <1>10, <1>11, <1>12, Appending
<1>14. runs \in Nat /\ runs' = runs
  BY DEF RunsInv, OpenConversation
<1>15. OpenedBy(t) /\ \A c \in DOMAIN conversations : ConversationFits(c)
  BY DEF ConversationsInv
<1>16. ASSUME NEW c \in DOMAIN conversations
       PROVE  conversations[c].by # <<runs, p, j>>
  <2>1. ASSUME conversations[c].by = <<runs, p, j>>
        PROVE  FALSE
    <3>1. /\ conversations[c].by[1] = runs /\ conversations[c].by[2] = p
          /\ conversations[c].by[3] = j
      BY <2>1
    <3>2. conversations[c].by[3] < Len(t.reps)
      BY <1>1, <1>5, <1>15, <3>1 DEF OpenedBy
    <3> QED
      BY <1>3, <1>7, <3>1, <3>2
  <2> QED
    BY <2>1
<1>17. DOMAIN <<>> = {} /\ IsSequence(<<>>)
  <2>1. <<>> \in Seq({}) /\ DOMAIN <<>> = {}
    OBVIOUS
  <2> QED
    BY <2>1, SequencesAre
<1>18. ASSUME NEW c \in DOMAIN conversations'
       PROVE  ConversationFits(c)'
  <2>1. CASE c \in DOMAIN conversations
    BY <1>13, <1>14, <1>15, <2>1 DEF ConversationFits
  <2>2. CASE c = n
    <3>1. conversations'[c] = [turns |-> conversations'[c].turns,
                               messages |-> conversations'[c].messages,
                               by |-> conversations'[c].by]
      BY <1>8, <1>13, <2>2
    <3>2. MessagesFit(turns, <<>>)
      BY <1>17 DEF MessagesFit
    <3>3. runs \in 0 .. runs
      BY <1>14
    <3>4. new.by[1] = runs
      BY <1>9
    <3> QED
      BY <1>6, <1>9, <1>13, <1>14, <1>17, <2>2, <3>1, <3>2, <3>3, <3>4
         DEF ConversationFits
  <2> QED
    BY <1>13, <2>1, <2>2
<1>19. ASSUME NEW c \in DOMAIN conversations', NEW d \in DOMAIN conversations',
              conversations'[c].by = conversations'[d].by
       PROVE  c = d
  <2>1. CASE c \in DOMAIN conversations /\ d \in DOMAIN conversations
    BY <1>13, <1>19, <2>1 DEF ConversationsInv
  <2>2. CASE c \in DOMAIN conversations /\ d = n
    BY <1>9, <1>13, <1>16, <1>19, <2>2
  <2>3. CASE c = n /\ d \in DOMAIN conversations
    BY <1>9, <1>13, <1>16, <1>19, <2>3
  <2> QED
    BY <1>13, <2>1, <2>2, <2>3
<1>20. ASSUME NEW r \in test'
       PROVE  OpenedBy(r)' /\ SentBy(r)'
  <2>1. r = [t EXCEPT !.conversation = {n}]
    BY <1>2, <1>10
  <2>2. PICK o : o = {n}
    OBVIOUS
  <2>3. r = Talking(t, o, t.sent, t.reply)
    BY <1>4, <2>1, <2>2 DEF Talking, IsTest
  <2>4. Optional(o) /\ o # {} /\ t.sent \in Nat
    BY <1>4, <2>2 DEF Optional
  <2>5. /\ r.conversation = {n} /\ r.sent = 0 /\ r.results = t.results
        /\ r.reps = t.reps /\ Position(r) = p /\ InProgress(r)
    BY <1>3, <1>4, <2>2, <2>3, <2>4, TalkingFits
  <2>6. ASSUME NEW c \in DOMAIN conversations', conversations'[c].by[1] = runs'
        PROVE  \/ conversations'[c].by[2] \in DOMAIN r.results
               \/ /\ InProgress(r) /\ conversations'[c].by[2] = Position(r)
                  /\ conversations'[c].by[3] \in Nat
                  /\ \/ conversations'[c].by[3] < Len(r.reps)
                     \/ /\ conversations'[c].by[3] = Len(r.reps)
                        /\ c \in r.conversation
    <3>1. CASE c = n
      <4>1. conversations'[c].by = <<runs, p, j>>
        BY <1>9, <1>13, <3>1
      <4>2. conversations'[c].by[2] = p /\ conversations'[c].by[3] = j
        BY <4>1
      <4> QED
        BY <1>3, <1>7, <2>5, <3>1, <4>2
    <3>2. CASE c \in DOMAIN conversations
      <4>1. conversations'[c] = conversations[c] /\ conversations[c].by[1] = runs
        BY <1>13, <1>14, <2>6, <3>2
      <4>2. \/ conversations[c].by[2] \in DOMAIN t.results
            \/ /\ conversations[c].by[2] = p
               /\ conversations[c].by[3] \in Nat
               /\ conversations[c].by[3] < Len(t.reps)
        BY <1>1, <1>3, <1>15, <3>2, <4>1 DEF OpenedBy
      <4> QED
        BY <2>5, <4>1, <4>2
    <3> QED
      BY <1>13, <3>1, <3>2
  <2>7. OpenedBy(r)'
    BY <2>6 DEF OpenedBy
  <2>8. SentUpTo(turns, <<>>, 0)
    <3>1. \A i \in userTurns(turns) : ~ (i <= 0)
      BY <1>6, SequenceFacts DEF userTurns
    <3> QED
      BY <1>17, <3>1 DEF SentUpTo
  <2>9. SentBy(r)'
    BY <1>9, <1>13, <2>5, <2>8 DEF SentBy
  <2> QED
    BY <2>7, <2>9
<1> QED
  BY <1>13, <1>18, <1>19, <1>20 DEF ConversationsInv

\* A message goes to the open conversation, and its turn is the next.
LEMMA SendingKeeps ==
  ASSUME RunsInv, ConversationsInv, SendMessage
  PROVE  ConversationsInv'
<1>1. PICK t \in test : \E c \in t.conversation :
        /\ Live(t) /\ Unsent(t, c) # {}
        /\ conversations' = [conversations EXCEPT ![c].messages =
             Append(@, [turn |-> NextTurn(t, c),
                        content |->
                          conversations[c].turns[NextTurn(t, c)].content])]
        /\ \/ \E a : test' = {[t EXCEPT !.sent = NextTurn(t, c), !.reply = {a}]}
           \/ test' = {}
  BY DEF SendMessage, AfterLostReply
<1>2. PICK c \in t.conversation :
        /\ Live(t) /\ Unsent(t, c) # {}
        /\ conversations' = [conversations EXCEPT ![c].messages =
             Append(@, [turn |-> NextTurn(t, c),
                        content |->
                          conversations[c].turns[NextTurn(t, c)].content])]
        /\ \/ \E a : test' = {[t EXCEPT !.sent = NextTurn(t, c), !.reply = {a}]}
           \/ test' = {}
  BY <1>1
<1>3. /\ OpenedBy(t) /\ SentBy(t) /\ IsSequence(conversations)
      /\ \A d \in DOMAIN conversations : ConversationFits(d)
  BY DEF ConversationsInv
<1>4. /\ c \in DOMAIN conversations
      /\ SentUpTo(conversations[c].turns, conversations[c].messages, t.sent)
  BY <1>2, <1>3 DEF SentBy
<1>5. TestFits(t) /\ IsTest(t) /\ t.phase = "run" /\ InProgress(t)
      /\ t.sent \in Nat /\ Optional(t.conversation)
  BY <1>2 DEF RunsInv, TestFits, IsTest, Live, InProgress
<1>6. PICK i : i = NextTurn(t, c)
  OBVIOUS
<1>7. PICK turns, messages, by :
        /\ turns = conversations[c].turns
        /\ messages = conversations[c].messages /\ by = conversations[c].by
  OBVIOUS
<1>8. /\ i \in userTurns(turns) /\ i \in Nat /\ i > t.sent
      /\ \A j \in userTurns(turns) : j > t.sent => i <= j
  BY <1>2, <1>3, <1>4, <1>6, <1>7, NextTurnFacts DEF Unsent
<1>9. PICK more : more = OneMessage(messages, i, turns[i].content)
  OBVIOUS
<1>10. /\ IsSequence(turns) /\ IsSequence(messages)
       /\ MessagesFit(turns, messages) /\ SentUpTo(turns, messages, t.sent)
       /\ conversations[c] = [turns |-> turns, messages |-> messages, by |-> by]
       /\ by[1] \in 0 .. runs
  BY <1>3, <1>4, <1>7 DEF ConversationFits
<1>11. /\ IsSequence(more) /\ MessagesFit(turns, more)
       /\ SentUpTo(turns, more, i)
  BY <1>5, <1>8, <1>9, <1>10, OneMessageMore
<1>12. PICK new : new = [turns |-> turns, messages |-> more, by |-> by]
  OBVIOUS
<1>13. new = [conversations[c] EXCEPT !.messages = more]
  BY <1>10, <1>12
<1>14. conversations' = [conversations EXCEPT ![c] =
                           [conversations[c] EXCEPT !.messages = more]]
  BY <1>2, <1>6, <1>7, <1>9 DEF OneMessage, Message
<1>15. conversations' = [d \in DOMAIN conversations |->
                           IF d = c THEN new ELSE conversations[d]]
  BY <1>3, <1>13, <1>14, SequenceFacts
<1>16. /\ DOMAIN conversations' = DOMAIN conversations
       /\ conversations'[c] = new
       /\ \A d \in DOMAIN conversations :
            d # c => conversations'[d] = conversations[d]
  BY <1>4, <1>15
<1>17. new.turns = turns /\ new.messages = more /\ new.by = by
  BY <1>12
<1>18. \A d \in DOMAIN conversations : conversations'[d].by = conversations[d].by
  BY <1>7, <1>16, <1>17
<1>19. runs' = runs
  BY DEF SendMessage
<1>20. IsSequence(conversations')
  BY <1>3, <1>4, <1>15, Replacing
<1>21. ASSUME NEW d \in DOMAIN conversations'
       PROVE  ConversationFits(d)'
  <2>1. CASE d = c
    <3>1. conversations'[d] = [turns |-> conversations'[d].turns,
                               messages |-> conversations'[d].messages,
                               by |-> conversations'[d].by]
      BY <1>12, <1>16, <2>1
    <3> QED
      BY <1>10, <1>11, <1>16, <1>17, <1>19, <2>1, <3>1 DEF ConversationFits
  <2>2. CASE d # c
    BY <1>3, <1>16, <1>19, <2>2 DEF ConversationFits
  <2> QED
    BY <2>1, <2>2
<1>22. \A d, e \in DOMAIN conversations' :
         conversations'[d].by = conversations'[e].by => d = e
  BY <1>16, <1>18 DEF ConversationsInv
<1>23. ASSUME NEW r \in test'
       PROVE  OpenedBy(r)' /\ SentBy(r)'
  <2>1. PICK a : r = [t EXCEPT !.sent = i, !.reply = {a}]
    BY <1>2, <1>6
  <2>2. PICK o : o = t.conversation
    OBVIOUS
  <2>3. r = Talking(t, o, i, {a})
    BY <1>5, <2>1, <2>2 DEF Talking, IsTest
  <2>4. Optional(o) /\ o # {}
    BY <1>2, <1>5, <2>2
  <2>5. /\ r.conversation = t.conversation /\ r.sent = i /\ r.results = t.results
        /\ r.reps = t.reps /\ Position(r) = Position(t) /\ InProgress(r)
    BY <1>5, <1>8, <2>2, <2>3, <2>4, TalkingFits
  <2>6. OpenedBy(r)'
    BY <1>3, <1>5, <1>16, <1>18, <1>19, <2>5 DEF OpenedBy
  <2>7. r.conversation = {c}
    BY <1>2, <1>5, <2>5 DEF Optional
  <2>8. SentBy(r)'
    BY <1>4, <1>11, <1>16, <1>17, <2>5, <2>7 DEF SentBy
  <2> QED
    BY <2>6, <2>8
<1> QED
  BY <1>20, <1>21, <1>22, <1>23 DEF ConversationsInv

\* A repetition that is recorded has no conversation open any more.
LEMMA RecordingKeeps ==
  ASSUME RunsInv, ConversationsInv, RunFixture \/ SkipLive \/ Observe
  PROVE  ConversationsInv'
<1>1. PICK t \in test : \E executed :
        /\ InProgress(t) /\ Executes(t, Position(t), executed)
        /\ test' = {Recorded(t, executed)}
  BY RecordingFits
<1>2. PICK executed :
        /\ InProgress(t) /\ Executes(t, Position(t), executed)
        /\ test' = {Recorded(t, executed)}
  BY <1>1
<1>3. conversations' = conversations /\ runs' = runs
  BY DEF RunFixture, SkipLive, Observe
<1>4. TestFits(t) /\ OpenedBy(t)
  BY DEF RunsInv, ConversationsInv
<1>5. PICK r : r = Recorded(t, executed)
  OBVIOUS
<1>6. /\ r.conversation = {}
      /\ \/ /\ r.results = t.results /\ Len(r.reps) = Len(t.reps) + 1
            /\ InProgress(r) /\ Position(r) = Position(t)
         \/ DOMAIN r.results = DOMAIN t.results \cup {Position(t)}
  BY <1>2, <1>4, <1>5, RecordedFits
<1>7. Len(t.reps) \in Nat
  BY <1>2, <1>4, SequenceFacts DEF TestFits, RepetitionsFit, InProgress
<1>8. ASSUME NEW c \in DOMAIN conversations, conversations[c].by[1] = runs
      PROVE  \/ conversations[c].by[2] \in DOMAIN r.results
             \/ /\ InProgress(r) /\ conversations[c].by[2] = Position(r)
                /\ conversations[c].by[3] \in Nat
                /\ conversations[c].by[3] < Len(r.reps)
  <2>1. \/ conversations[c].by[2] \in DOMAIN t.results
        \/ /\ conversations[c].by[2] = Position(t)
           /\ conversations[c].by[3] \in Nat
           /\ \/ conversations[c].by[3] < Len(t.reps)
              \/ conversations[c].by[3] = Len(t.reps)
    BY <1>4, <1>8 DEF OpenedBy
  <2> QED
    BY <1>6, <1>7, <2>1
<1>9. OpenedBy(r)'
  BY <1>3, <1>8 DEF OpenedBy
<1>10. SentBy(r)'
  BY <1>6 DEF SentBy
<1>11. \A c \in DOMAIN conversations : ConversationFits(c)'
  BY <1>3 DEF ConversationsInv, ConversationFits
<1> QED
  BY <1>2, <1>3, <1>5, <1>9, <1>10, <1>11 DEF ConversationsInv

LEMMA ConversationsNext ==
  RunsInv /\ ConversationsInv /\ [Next]_vars => ConversationsInv'
<1> SUFFICES ASSUME RunsInv, ConversationsInv, [Next]_vars
             PROVE  ConversationsInv'
  OBVIOUS
<1>1. ASSUME conversations' = conversations, runs' \in {runs, runs + 1},
             \A t \in test' : OpenedBy(t)' /\ SentBy(t)'
      PROVE  ConversationsInv'
  <2>1. runs \in Nat
    BY DEF RunsInv
  <2>2. \A c \in DOMAIN conversations : ConversationFits(c)'
    BY <1>1, <2>1 DEF ConversationsInv, ConversationFits
  <2> QED
    BY <1>1, <2>2 DEF ConversationsInv
<1>2. ASSUME conversations' = conversations, runs' = runs,
             test' \subseteq test
      PROVE  ConversationsInv'
  BY <1>1, <1>2 DEF ConversationsInv, OpenedBy, SentBy
<1>3. CASE StartTest
  <2>1. conversations' = conversations /\ runs' = runs + 1 /\ runs \in Nat
    BY <1>3 DEF StartTest, RunsInv
  <2>2. ASSUME NEW t \in test'
        PROVE  OpenedBy(t)' /\ SentBy(t)'
    <3>1. t.conversation = {}
      BY <1>3, StartFits
    <3>2. \A c \in DOMAIN conversations : conversations[c].by[1] # runs'
      BY <2>1 DEF ConversationsInv, ConversationFits
    <3> QED
      BY <2>1, <3>1, <3>2 DEF OpenedBy, SentBy
  <2> QED
    BY <1>1, <2>1, <2>2
<1>4. CASE LoadSuites
  <2>1. conversations' = conversations /\ runs' = runs
    BY <1>4 DEF LoadSuites
  <2>2. ASSUME NEW r \in test'
        PROVE  OpenedBy(r)' /\ SentBy(r)'
    <3>1. r.conversation = {}
      BY <1>4, LoadFits
    <3>2. PICK t \in test : t.phase = "load"
      BY <1>4 DEF LoadSuites
    <3>3. DOMAIN t.results = {} /\ OpenedBy(t) /\ ~InProgress(t)
      BY <3>2 DEF RunsInv, TestFits, Loading, ConversationsInv, InProgress
    <3>4. \A c \in DOMAIN conversations : conversations[c].by[1] # runs
      BY <3>3 DEF OpenedBy
    <3> QED
      BY <2>1, <3>1, <3>4 DEF OpenedBy, SentBy
  <2> QED
    BY <1>1, <2>1, <2>2
<1>5. CASE RunFixture \/ SkipLive \/ Observe
  BY <1>5, RecordingKeeps
<1>6. CASE OpenConversation
  BY <1>6, OpeningKeeps
<1>7. CASE SendMessage
  BY <1>7, SendingKeeps
<1>8. CASE WriteReport \/ Interrupt \/ KeepBaseline \/ EditProject
           \/ UNCHANGED vars
  <2>1. conversations' = conversations /\ runs' = runs /\ test' \subseteq test
    BY <1>8 DEF WriteReport, Interrupt, KeepBaseline, EditProject, vars
  <2> QED
    BY <1>2, <2>1
<1> QED
  BY <1>3, <1>4, <1>5, <1>6, <1>7, <1>8 DEF Next

LEMMA Invariance == Spec => [](RunsInv /\ ConversationsInv)
<1>1. Init => RunsInv /\ ConversationsInv
  BY RunsInit, ConversationsInit
<1>2. RunsInv /\ ConversationsInv /\ [Next]_vars => RunsInv' /\ ConversationsInv'
  BY RunsNext, ConversationsNext
<1> QED
  BY <1>1, <1>2, PTL DEF Spec

-----------------------------------------------------------------------------
(* What holds always *)

\* However many commands run, one after the other, and wherever they are cut
\* short: each repetition has one conversation, in which each of the user's
\* turns was sent at most once, in order (conversation-client/src/client.ts).
THEOREM TurnsSentOnceAlways == Spec => []TurnsSentOnce
<1>1. ConversationsInv => TurnsSentOnce
  <2> SUFFICES ASSUME ConversationsInv, NEW c \in DOMAIN conversations
               PROVE  /\ \A d \in DOMAIN conversations :
                           conversations[c].by = conversations[d].by => c = d
                      /\ MessagesFit(conversations[c].turns,
                                     conversations[c].messages)
    BY DEF TurnsSentOnce, MessagesFit
  <2> QED
    BY DEF ConversationsInv, ConversationFits
<1> QED
  BY <1>1, Invariance, PTL

\* A report is of a finished run: every case of every suite, with all of its
\* repetitions (cli/src/commands/test.ts, eval-engine/src/engine.ts).
THEOREM ReportsAreCompleteAlways == Spec => []ReportsAreComplete
<1>1. RunsInv => ReportsAreComplete
  <2> SUFFICES ASSUME RunsInv, NEW run \in report \cup baseline
               PROVE  /\ DOMAIN run.results = Positions(run.suites)
                      /\ \A i \in DOMAIN run.results :
                           /\ Key(run.results[i])
                                = <<SuiteAt(run.suites, i).path,
                                    CaseAt(run.suites, i).id>>
                           /\ Len(run.results[i].repetitions) = run.repetitions
    BY DEF ReportsAreComplete
  <2>1. ResultsFit(run) /\ DOMAIN run.results = Positions(run.suites)
    BY DEF RunsInv, ReportFits
  <2>2. ASSUME NEW i \in DOMAIN run.results
        PROVE  /\ Key(run.results[i]) = <<SuiteAt(run.suites, i).path,
                                          CaseAt(run.suites, i).id>>
               /\ Len(run.results[i].repetitions) = run.repetitions
    <3>1. ResultFits(run, i)
      BY <2>1 DEF ResultsFit
    <3>2. PICK suite, case, reps :
            /\ suite = SuiteAt(run.suites, i) /\ case = CaseAt(run.suites, i)
            /\ reps = run.results[i].repetitions
      OBVIOUS
    <3>3. /\ run.results[i] = CaseResult(suite, case, reps)
          /\ Len(reps) = run.repetitions
      BY <3>1, <3>2 DEF ResultFits
    <3>4. Key(CaseResult(suite, case, reps)) = <<suite.path, case.id>>
      BY DEF Key, CaseResult
    <3> QED
      BY <3>2, <3>3, <3>4
  <2> QED
    BY <2>1, <2>2
<1> QED
  BY <1>1, Invariance, PTL

\* In fixture mode the run id decides what comes of a run, but for the places
\* its suites were found in (eval-engine/src/engine.ts, ADR 0003 section 6).
THEOREM SameRunSameResultsAlways == Spec => []SameRunSameResults
<1>1. ASSUME NEW r, NEW b, ReportFits(r), ReportFits(b), r.mode = "fixture",
             b.mode = "fixture", r.runId = b.runId
      PROVE  Outcomes(r) = Outcomes(b)
  <2>1. PICK rs, bs : rs = r.suites /\ bs = b.suites
    OBVIOUS
  <2>2. runId(r.candidate, rs, r.repetitions)
          = runId(b.candidate, bs, b.repetitions)
    BY <1>1, <2>1 DEF ReportFits
  <2>3. /\ r.repetitions = b.repetitions
        /\ [i \in DOMAIN rs |->
              [cases |-> rs[i].cases, fixtures |-> rs[i].fixtures]]
             = [i \in DOMAIN bs |->
                  [cases |-> bs[i].cases, fixtures |-> bs[i].fixtures]]
    BY <2>2 DEF runId
  <2>4. DOMAIN rs = DOMAIN bs
    BY <2>3
  <2>5. \A i \in DOMAIN rs :
          rs[i].cases = bs[i].cases /\ rs[i].fixtures = bs[i].fixtures
    BY <2>3, <2>4
  <2>6. Positions(rs) = Positions(bs)
    BY <2>4, <2>5 DEF Positions
  <2>7. /\ ResultsFit(r) /\ DOMAIN r.results = Positions(rs)
        /\ ResultsFit(b) /\ DOMAIN b.results = Positions(rs)
    BY <1>1, <2>1, <2>6 DEF ReportFits
  <2>8. ASSUME NEW p \in Positions(rs)
        PROVE  [r.results[p] EXCEPT !.suitePath = ""]
                 = [b.results[p] EXCEPT !.suitePath = ""]
    <3>1. PICK suite, twin, case, reps, again :
            /\ suite = SuiteAt(rs, p) /\ twin = SuiteAt(bs, p)
            /\ case = CaseAt(rs, p)
            /\ reps = r.results[p].repetitions
            /\ again = b.results[p].repetitions
      OBVIOUS
    <3>2. p[1] \in DOMAIN rs
      BY <2>1, <2>7, PositionFacts DEF ResultsFit
    <3>3. case = CaseAt(bs, p) /\ suite.fixtures = twin.fixtures
      BY <2>5, <3>1, <3>2 DEF CaseAt, SuiteAt
    <3>4. defaultExecutor(suite, case) = defaultExecutor(twin, case)
      BY <3>3 DEF defaultExecutor
    <3>5. /\ RepetitionsFit(r, p, reps) /\ Len(reps) = r.repetitions
          /\ r.results[p] = CaseResult(suite, case, reps)
      BY <2>1, <2>7, <3>1 DEF ResultsFit, ResultFits
    <3>6. /\ RepetitionsFit(b, p, again) /\ Len(again) = b.repetitions
          /\ b.results[p] = CaseResult(twin, case, again)
      BY <2>1, <2>7, <3>1, <3>3 DEF ResultsFit, ResultFits
    <3>7. PICK once : once = Repetition(case, defaultExecutor(suite, case))
      OBVIOUS
    <3>8. IsSequence(reps) /\ \A j \in DOMAIN reps : reps[j] = once
      BY <1>1, <2>1, <3>1, <3>5, <3>7 DEF RepetitionsFit, Executes
    <3>9. IsSequence(again) /\ \A j \in DOMAIN again : again[j] = once
      BY <1>1, <2>1, <3>1, <3>3, <3>4, <3>6, <3>7 DEF RepetitionsFit, Executes
    <3>10. reps = again
      <4>1. Len(reps) = Len(again)
        BY <2>3, <3>5, <3>6
      <4>2. DOMAIN reps = DOMAIN again
        BY <3>8, <3>9, <4>1, SequenceFacts
      <4>3. \A j \in DOMAIN reps : reps[j] = again[j]
        BY <3>8, <3>9, <4>2
      <4> QED
        BY <3>8, <3>9, <4>1, <4>3, SequencesEqual
    <3>11. PICK x, y :
             x = CaseResult(suite, case, reps) /\ y = CaseResult(twin, case, reps)
      OBVIOUS
    <3>12. PICK from, to, i, t, c, st, g :
             /\ x = [suitePath |-> from, caseId |-> i, tags |-> t,
                     criticality |-> c, status |-> st, gateFailure |-> g,
                     repetitions |-> reps]
             /\ y = [suitePath |-> to, caseId |-> i, tags |-> t,
                     criticality |-> c, status |-> st, gateFailure |-> g,
                     repetitions |-> reps]
      BY <3>11, Zenon DEF CaseResult
    <3>13. r.results[p] = x /\ b.results[p] = y
      BY <3>5, <3>6, <3>10, <3>11
    <3>14. [x EXCEPT !.suitePath = ""] = [y EXCEPT !.suitePath = ""]
      <4>1. PICK v, w : v = [x EXCEPT !.suitePath = ""]
                        /\ w = [y EXCEPT !.suitePath = ""]
        OBVIOUS
      <4>2. v = [suitePath |-> "", caseId |-> i, tags |-> t,
                 criticality |-> c, status |-> st, gateFailure |-> g,
                 repetitions |-> reps]
        BY <3>12, <4>1
      <4>3. w = [suitePath |-> "", caseId |-> i, tags |-> t,
                 criticality |-> c, status |-> st, gateFailure |-> g,
                 repetitions |-> reps]
        BY <3>12, <4>1
      <4> QED
        BY <4>1, <4>2, <4>3
    <3> QED
      BY <3>13, <3>14
  <2> QED
    BY <2>7, <2>8 DEF Outcomes
<1>2. RunsInv => SameRunSameResults
  BY <1>1 DEF RunsInv, SameRunSameResults
<1> QED
  BY <1>2, Invariance, PTL

-----------------------------------------------------------------------------
(* What a satisfied policy rests on *)

\* A repetition that was executed has the outcomes of its one observation.
LEMMA ExecutedRepetition ==
  ASSUME NEW case, NEW executed, Optional(executed), NEW obs \in executed,
         NEW rep, rep = Repetition(case, executed)
  PROVE  /\ rep.assertions
              = implicitAssertions(case, obs)
                  \cup {evaluateAssertion(a, case, obs) : a \in case.assertions}
         /\ (\E a \in rep.assertions : a.status = "failed")
              => rep.status = "failed"
<1>1. executed # Skipped
  BY DEF Skipped
<1>2. (CHOOSE o \in executed : TRUE) = obs
  BY DEF Optional
<1>3. PICK A : A = implicitAssertions(case, obs)
                     \cup {evaluateAssertion(a, case, obs) :
                             a \in case.assertions}
  OBVIOUS
<1>4. rep = [executed |-> executed, assertions |-> A,
             status |-> IF \E a \in A : a.status = "failed"
                        THEN "failed" ELSE "passed"]
  BY <1>1, <1>2, <1>3 DEF Repetition
<1>5. rep.assertions = A
  BY <1>4
<1>6. ASSUME \E a \in A : a.status = "failed"
      PROVE  rep.status = "failed"
  BY <1>4, <1>6
<1> QED
  BY <1>3, <1>5, <1>6

\* What is violated fails, critically.
LEMMA ViolationsFail ==
  ASSUME NEW case, NEW obs, ~ Harmless(case, obs)
  PROVE  \E a \in implicitAssertions(case, obs) :
           a.status = "failed" /\ a.critical
<1>1. \A type : LET a == Outcome(type, FALSE, TRUE)
                IN  a.status = "failed" /\ a.critical
  BY DEF Outcome
<1>2. CASE \E s \in case.allowed : ~ (obs.tools \subseteq s)
  <2>1. PICK s \in case.allowed : (obs.tools \subseteq s) = FALSE
    BY <1>2
  <2>2. Outcome("tool-policy", obs.tools \subseteq s, TRUE)
          \in implicitAssertions(case, obs)
    BY DEF implicitAssertions
  <2>3. Outcome("tool-policy", FALSE, TRUE) \in implicitAssertions(case, obs)
    BY <2>1, <2>2
  <2> QED
    BY <1>1, <2>3
<1>3. CASE \E s \in case.forbidden : obs.tools \cap s # {}
  <2>1. PICK s \in case.forbidden : (obs.tools \cap s = {}) = FALSE
    BY <1>3
  <2>2. Outcome("tool-policy", obs.tools \cap s = {}, TRUE)
          \in implicitAssertions(case, obs)
    BY DEF implicitAssertions
  <2>3. Outcome("tool-policy", FALSE, TRUE) \in implicitAssertions(case, obs)
    BY <2>1, <2>2
  <2> QED
    BY <1>1, <2>3
<1>4. CASE ~ (case.expectedStates
                \subseteq obs.stateTransitions \cup {FinalState(obs)})
  <2>1. case.expectedStates # {}
    BY <1>4
  <2>2. Outcome("conversation-state",
                case.expectedStates
                  \subseteq obs.stateTransitions \cup {FinalState(obs)}, TRUE)
          \in implicitAssertions(case, obs)
    BY <2>1 DEF implicitAssertions
  <2>3. (case.expectedStates
           \subseteq obs.stateTransitions \cup {FinalState(obs)}) = FALSE
    BY <1>4
  <2>4. Outcome("conversation-state", FALSE, TRUE)
          \in implicitAssertions(case, obs)
    BY <2>2, <2>3
  <2> QED
    BY <1>1, <2>4
<1> QED
  BY <1>2, <1>3, <1>4 DEF Harmless

\* An assertion that is false fails, and is as critical as it says.
LEMMA FalseAssertionFails ==
  ASSUME NEW a, NEW case, NEW obs, a.type # "rubric", ~ Satisfied(a, case, obs)
  PROVE  /\ evaluateAssertion(a, case, obs).status = "failed"
         /\ a.critical => evaluateAssertion(a, case, obs).critical
<1>1. evaluateAssertion(a, case, obs)
        = Outcome(a.type, Satisfied(a, case, obs), a.critical)
  BY DEF evaluateAssertion
<1>2. /\ Outcome(a.type, Satisfied(a, case, obs), a.critical).status = "failed"
      /\ Outcome(a.type, Satisfied(a, case, obs), a.critical).critical
           = a.critical
  BY DEF Outcome
<1> QED
  BY <1>1, <1>2

\* If the gate passed, nothing observed was harmful, no critical assertion was
\* false, and none of a blocking case.
LEMMA GateMeansHarmless ==
  ASSUME NEW run, ReportFits(run), gatePassed(run.results),
         NEW i \in DOMAIN run.results, NEW case, case = CaseAt(run.suites, i),
         NEW j \in DOMAIN run.results[i].repetitions,
         NEW obs \in run.results[i].repetitions[j].executed
  PROVE  /\ Harmless(case, obs)
         /\ \A a \in case.assertions :
              a.critical \/ case.criticality = "blocking" =>
                a.type = "rubric" \/ Satisfied(a, case, obs)
<1>1. PICK suite, reps, rep : /\ suite = SuiteAt(run.suites, i)
                              /\ reps = run.results[i].repetitions
                              /\ rep = reps[j]
  OBVIOUS
<1>2. ResultFits(run, i) /\ run.repetitions \in 1 .. 20
  BY DEF ReportFits, ResultsFit
<1>3. /\ RepetitionsFit(run, i, reps) /\ Len(reps) = run.repetitions
      /\ run.results[i] = CaseResult(suite, case, reps)
  BY <1>1, <1>2 DEF ResultFits
<1>4. ~ gateFailure(case, reps)
  <2>1. CaseResult(suite, case, reps).gateFailure = gateFailure(case, reps)
    BY DEF CaseResult
  <2>2. ~ run.results[i].gateFailure
    BY DEF gatePassed
  <2> QED
    BY <1>3, <2>1, <2>2
<1>5. PICK executed : executed = rep.executed
  OBVIOUS
<1>6. Optional(executed) /\ rep = Repetition(case, executed) /\ obs \in executed
  BY <1>1, <1>3, <1>5 DEF RepetitionsFit, Executes
<1>7. /\ rep.assertions
           = implicitAssertions(case, obs)
               \cup {evaluateAssertion(a, case, obs) : a \in case.assertions}
      /\ (\E a \in rep.assertions : a.status = "failed") => rep.status = "failed"
  BY <1>6, ExecutedRepetition
<1>8. j \in DOMAIN reps
  BY <1>1
<1>9. \A a \in rep.assertions : ~ (a.status = "failed" /\ a.critical)
  BY <1>1, <1>4, <1>8 DEF gateFailure, criticalFailure
<1>10. Harmless(case, obs)
  BY <1>7, <1>9, ViolationsFail
<1>11. ASSUME NEW a \in case.assertions, a.type # "rubric",
              ~ Satisfied(a, case, obs)
       PROVE  ~ a.critical /\ case.criticality # "blocking"
  <2>1. PICK e : e = evaluateAssertion(a, case, obs)
    OBVIOUS
  <2>2. e \in rep.assertions
    BY <1>7, <2>1
  <2>3. e.status = "failed" /\ (a.critical => e.critical)
    BY <1>11, <2>1, FalseAssertionFails
  <2>4. ~ a.critical
    BY <1>9, <2>2, <2>3
  <2>5. reps[j].status = "failed"
    BY <1>1, <1>7, <2>2, <2>3
  <2>6. DOMAIN reps = 1 .. Len(reps) /\ 1 \in DOMAIN reps
    <3>1. IsSequence(reps)
      BY <1>3 DEF RepetitionsFit
    <3> QED
      BY <1>2, <1>3, <3>1, SequenceFacts
  <2>7. caseStatus(reps) \in {"failed", "flaky"}
    BY <1>8, <2>5, <2>6 DEF caseStatus
  <2> QED
    BY <1>4, <2>4, <2>7 DEF gateFailure
<1> QED
  BY <1>10, <1>11

\* A pass rate of 1 that is not merely rounded means that every case passed.
LEMMA FullPassRate ==
  ASSUME NEW run, ReportFits(run), Cardinality(Counted(run.results)) < 20000,
         ~ (passRate(run.results) < 10000),
         NEW i \in Counted(run.results)
  PROVE  run.results[i].status = "passed"
<1>1. PICK C : C = Counted(run.results)
  OBVIOUS
<1> DEFINE Passed == {k \in C : run.results[k].status = "passed"}
<1>2. Passed \subseteq C
  OBVIOUS
<1> HIDE DEF Passed
<1>3. PICK P : P = Passed
  OBVIOUS
<1>4. IsFiniteSet(C)
  <2>1. C \subseteq DOMAIN run.results
    BY <1>1 DEF Counted
  <2>2. IsFiniteSet(DOMAIN run.results)
    BY DEF ReportFits, ResultsFit
  <2> QED
    BY <2>1, <2>2, FS_Subset
<1>5. PICK c, p : c = Cardinality(C) /\ p = Cardinality(P)
  OBVIOUS
<1>6. /\ c \in Nat /\ p \in Nat /\ p <= c
      /\ p = c => P = C
  BY <1>2, <1>3, <1>4, <1>5, FS_CardinalityType, FS_Subset
<1>7. c # 0
  BY <1>1, <1>4, <1>5, FS_EmptySet
<1>8. passRate(run.results) = (20000 * p + c) \div (2 * c)
  BY <1>1, <1>3, <1>5, <1>7 DEF passRate, Passed
<1>9. c < 20000
  BY <1>1, <1>5
<1>10. p = c
  <2>1. ASSUME p < c
        PROVE  FALSE
    <3>1. PICK d : d = 2 * c
      OBVIOUS
    <3>2. d \in Nat /\ d > 0
      BY <1>6, <1>7, <3>1
    <3>3. PICK n : n = 20000 * p + c
      OBVIOUS
    <3>4. n \in Nat /\ n < 10000 * d
      BY <1>6, <1>9, <2>1, <3>1, <3>3
    <3>5. n \div d < 10000
      BY <3>2, <3>4
    <3> QED
      BY <1>8, <3>1, <3>3, <3>5
  <2> QED
    BY <1>6, <2>1
<1> QED
  BY <1>1, <1>3, <1>6, <1>10 DEF Passed

\* A case passed only if every repetition did.
LEMMA PassedEachTime ==
  ASSUME NEW run, ReportFits(run), NEW i \in DOMAIN run.results,
         run.results[i].status = "passed", NEW j \in 1 .. run.repetitions
  PROVE  run.results[i].repetitions[j].status = "passed"
<1>1. PICK reps : reps = run.results[i].repetitions
  OBVIOUS
<1>2. ResultFits(run, i) /\ run.repetitions \in 1 .. 20
  BY DEF ReportFits, ResultsFit
<1>3. /\ RepetitionsFit(run, i, reps) /\ Len(reps) = run.repetitions
      /\ run.results[i] = CaseResult(SuiteAt(run.suites, i),
                                     CaseAt(run.suites, i), reps)
  BY <1>1, <1>2 DEF ResultFits
<1>4. caseStatus(reps) = "passed"
  BY <1>3 DEF CaseResult
<1>5. DOMAIN reps = 1 .. run.repetitions /\ 1 \in DOMAIN reps
  <2>1. IsSequence(reps)
    BY <1>3 DEF RepetitionsFit
  <2> QED
    BY <1>2, <1>3, <2>1, SequenceFacts
<1> QED
  BY <1>1, <1>4, <1>5 DEF caseStatus

\* What a policy finds nothing to be missing in.
LEMMA NothingUnmet ==
  ASSUME NEW policy, NEW e, UnmetByEvidence(policy, e) = {}
  PROVE  /\ policy.requiredSuites \subseteq e.suitesRun
         /\ \A m \in policy.minimumPassRate : ~ (e.passRate < m)
         /\ policy.blockOnCriticalFailure => e.gatePassed
<1>1. "evaluation.required-suites" \notin UnmetByEvidence(policy, e)
  OBVIOUS
<1>2. "evaluation.pass-rate" \notin UnmetByEvidence(policy, e)
  OBVIOUS
<1>3. "evaluation.no-critical-failure" \notin UnmetByEvidence(policy, e)
  OBVIOUS
<1>4. policy.requiredSuites \subseteq e.suitesRun
  BY <1>1 DEF UnmetByEvidence
<1>5. \A m \in policy.minimumPassRate : ~ (e.passRate < m)
  BY <1>2 DEF UnmetByEvidence
<1>6. policy.blockOnCriticalFailure => e.gatePassed
  BY <1>3 DEF UnmetByEvidence
<1> QED
  BY <1>4, <1>5, <1>6

\* A report that counts so many cases rounds a single failure away (engine.ts
\* keeps four digits of the pass rate).
FewCases == \A run \in report : Cardinality(Counted(run.results)) < 20000

\* A policy that is satisfied rests on what was seen: with a gate, nothing
\* harmful in any repetition of any case; with the full pass rate, as long as
\* it is not a rounded one, every counted case passed each time
\* (eval-engine/src/engine.ts, core/src/policy, cli/src/readiness.ts).
THEOREM ReadyMeansTestedAlways == Spec => [](FewCases => ReadyMeansTested)
<1>1. RunsInv => (FewCases => ReadyMeansTested)
  <2> SUFFICES ASSUME RunsInv, FewCases, NEW risk \in DOMAIN RISK_ORDER,
                      NEW remoteDrift \in BOOLEAN, Ready(risk, remoteDrift)
               PROVE  \E run \in report :
        /\ run.candidate = candidateSha256(files)
        /\ PolicyOf.requiredSuites \subseteq {s.path : s \in ToSet(run.suites)}
        /\ PolicyOf.blockOnCriticalFailure =>
             \A o \in Observed(run) : \A obs \in o.obs :
               /\ Harmless(o.case, obs)
               /\ \A a \in o.case.assertions :
                    a.critical \/ o.case.criticality = "blocking" =>
                      a.type = "rubric" \/ Satisfied(a, o.case, obs)
        /\ 10000 \in PolicyOf.minimumPassRate =>
             \A i \in DOMAIN run.results :
               run.results[i].criticality # "informational" =>
                 \A j \in 1 .. run.repetitions :
                   run.results[i].repetitions[j].status = "passed"
    BY DEF ReadyMeansTested
  <2>1. PICK policy : policy = PolicyOf
    OBVIOUS
  <2>2. PICK evidence : evidence = {EvidenceOf(run) : run \in report}
    OBVIOUS
  <2>3. /\ evidence # {}
        /\ \A e \in evidence : UnmetByEvidence(policy, e) = {}
    <3>1. PICK input :
            /\ input = [ok |-> validationOk(files),
                        findingCodes |-> findingCodes(files),
                        localDrift |-> checkLockDrift(files),
                        remoteDrift |-> remoteDrift, risk |-> risk,
                        evaluation |-> {EvidenceOf(run) : run \in report}]
            /\ evaluateReleasePolicy(PolicyOf, input) = {}
      BY Zenon DEF Ready
    <3>2. input.evaluation = evidence
      BY <2>2, <3>1, Zenon
    <3>3. evaluateReleasePolicy(policy, input) = {}
      BY <2>1, <3>1
    <3> QED
      BY <3>2, <3>3 DEF evaluateReleasePolicy
  <2>4. PICK run \in report : run.candidate = candidateSha256(files)
    BY <2>2, <2>3 DEF Ready
  <2>5. ReportFits(run) /\ Cardinality(Counted(run.results)) < 20000
    BY DEF RunsInv, FewCases
  <2>6. PICK e : e = EvidenceOf(run)
    OBVIOUS
  <2>7. UnmetByEvidence(policy, e) = {}
    BY <2>2, <2>3, <2>6
  <2>8. /\ policy.requiredSuites \subseteq e.suitesRun
        /\ \A m \in policy.minimumPassRate : ~ (e.passRate < m)
        /\ policy.blockOnCriticalFailure => e.gatePassed
    BY <2>7, NothingUnmet
  <2>9. /\ e.suitesRun = {s.path : s \in ToSet(run.suites)}
        /\ e.passRate = passRate(run.results)
        /\ e.gatePassed => gatePassed(run.results)
    BY <2>6, Zenon DEF EvidenceOf
  <2>10. ASSUME policy.blockOnCriticalFailure,
                NEW o \in Observed(run), NEW obs \in o.obs
         PROVE  /\ Harmless(o.case, obs)
                /\ \A a \in o.case.assertions :
                     a.critical \/ o.case.criticality = "blocking" =>
                       a.type = "rubric" \/ Satisfied(a, o.case, obs)
    <3>1. PICK i \in DOMAIN run.results :
            o \in {[case |-> CaseAt(run.suites, i),
                    obs |-> run.results[i].repetitions[j].executed] :
                     j \in DOMAIN run.results[i].repetitions}
      BY DEF Observed
    <3>2. PICK j \in DOMAIN run.results[i].repetitions :
            o = [case |-> CaseAt(run.suites, i),
                 obs |-> run.results[i].repetitions[j].executed]
      BY <3>1
    <3>3. /\ o.case = CaseAt(run.suites, i)
          /\ obs \in run.results[i].repetitions[j].executed
      BY <3>2
    <3>4. gatePassed(run.results)
      BY <2>8, <2>9, <2>10
    <3> QED
      BY <2>5, <3>3, <3>4, GateMeansHarmless
  <2>11. ASSUME 10000 \in policy.minimumPassRate,
                NEW i \in DOMAIN run.results,
                run.results[i].criticality # "informational",
                NEW j \in 1 .. run.repetitions
         PROVE  run.results[i].repetitions[j].status = "passed"
    <3>1. ~ (passRate(run.results) < 10000)
      BY <2>8, <2>9, <2>11
    <3>2. i \in Counted(run.results)
      BY <2>11 DEF Counted
    <3>3. run.results[i].status = "passed"
      BY <2>5, <3>1, <3>2, FullPassRate
    <3> QED
      BY <2>5, <3>3, PassedEachTime
  <2> QED
    BY <2>1, <2>4, <2>8, <2>9, <2>10, <2>11
<1> QED
  BY <1>1, Invariance, PTL
=============================================================================
