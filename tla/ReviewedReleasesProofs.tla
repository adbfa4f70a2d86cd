----------------------- MODULE ReviewedReleasesProofs -----------------------
(***************************************************************************)
(* A chain of reviewed releases, of any length and over any manifests: a   *)
(* risk that separates the last version from the first one was shown by    *)
(* one of the reviews.                                                     *)
(*                                                                         *)
(* The invariant is inductive as it stands, because severity obeys a       *)
(* triangle inequality: what o and n differ in at some severity, o and b   *)
(* or b and n already differ in at that severity or a higher one.  It      *)
(* holds part by part (`Covered`), and is the design constraint that every *)
(* rule of the diff must meet; a rule that rates adding an integration     *)
(* lower than replacing it breaks it.                                      *)
(***************************************************************************)
EXTENDS ReviewedReleases, TLAPS

Severities == {"info", "low", "medium", "high"}

NoHigh(S) == \A c \in S : c.severity # "high"
NoMedium(S) == \A c \in S : c.severity \in {"info", "low"}
Rated(S) == \A c \in S : c.severity \in Severities

Rank(S) == IF S = {} THEN 0 ELSE SEVERITY_ORDER[maxRisk(S)]

\* What S shows, T or U shows.
Covered(S, T, U) ==
  /\ NoHigh(T) /\ NoHigh(U) => NoHigh(S)
  /\ NoMedium(T) /\ NoMedium(U) => NoMedium(S)
  /\ T = {} /\ U = {} => S = {}

-----------------------------------------------------------------------------
(* Ranks. *)

\* The highest severity is one that was found, or low.
LEMMA MaxRiskIs ==
  ASSUME NEW S, Rated(S)
  PROVE  /\ maxRisk(S) \in RiskLevels
         /\ maxRisk(S) = "low" \/ \E c \in S : c.severity = maxRisk(S)
         /\ \A c \in S : SEVERITY_ORDER[c.severity] <= SEVERITY_ORDER[maxRisk(S)]
<1> DEFINE P(r) == /\ r = "low" \/ \E c \in S : c.severity = r
                   /\ \A c \in S : SEVERITY_ORDER[c.severity] <= SEVERITY_ORDER[r]
<1>1. \E r \in RiskLevels : P(r)
  <2>1. CASE \E c \in S : c.severity = "high"
    <3>1. P("high")
      BY <2>1 DEF Rated, Severities, SEVERITY_ORDER
    <3> QED
      BY <3>1 DEF RiskLevels
  <2>2. CASE /\ ~ \E c \in S : c.severity = "high"
             /\ \E c \in S : c.severity = "medium"
    <3>1. P("medium")
      BY <2>2 DEF Rated, Severities, SEVERITY_ORDER
    <3> QED
      BY <3>1 DEF RiskLevels
  <2>3. CASE ~ \E c \in S : c.severity \in {"high", "medium"}
    <3>1. P("low")
      BY <2>3 DEF Rated, Severities, SEVERITY_ORDER
    <3> QED
      BY <3>1 DEF RiskLevels
  <2> QED
    BY <2>1, <2>2, <2>3
<1>2. maxRisk(S) = CHOOSE r \in RiskLevels : P(r)
  BY DEF maxRisk
<1> HIDE DEF P
<1>3. maxRisk(S) \in RiskLevels /\ P(maxRisk(S))
  BY <1>1, <1>2
<1> QED
  BY <1>3 DEF P

\* The number of a rank says what the changes are.
LEMMA RankIs ==
  ASSUME NEW S, Rated(S)
  PROVE  /\ Rank(S) \in Nat
         /\ Rank(S) <= 3
         /\ Rank(S) < 3 <=> NoHigh(S)
         /\ Rank(S) < 2 <=> NoMedium(S)
         /\ Rank(S) < 1 <=> S = {}
<1>1. CASE S = {}
  BY <1>1 DEF Rank, NoHigh, NoMedium
<1>2. CASE S # {}
  <2> DEFINE r == maxRisk(S)
  <2>1. /\ r \in RiskLevels
        /\ r = "low" \/ \E c \in S : c.severity = r
        /\ \A c \in S : SEVERITY_ORDER[c.severity] <= SEVERITY_ORDER[r]
    BY MaxRiskIs
  <2>2. Rank(S) = SEVERITY_ORDER[r]
    BY <1>2 DEF Rank
  <2> HIDE DEF r
  <2>3. r \in {"low", "medium", "high"}
    BY <2>1 DEF RiskLevels, Rated, Severities
  <2>4. /\ SEVERITY_ORDER["info"] = 0 /\ SEVERITY_ORDER["low"] = 1
        /\ SEVERITY_ORDER["medium"] = 2 /\ SEVERITY_ORDER["high"] = 3
    BY DEF SEVERITY_ORDER
  <2>5. CASE r = "low"
    <3>1. \A c \in S : c.severity \in {"info", "low"}
      BY <2>1, <2>4, <2>5 DEF Rated, Severities
    <3> QED
      BY <1>2, <2>2, <2>4, <2>5, <3>1 DEF NoHigh, NoMedium
  <2>6. CASE r = "medium"
    <3>1. \A c \in S : c.severity # "high"
      BY <2>1, <2>4, <2>6 DEF Rated, Severities
    <3>2. \E c \in S : c.severity = "medium"
      BY <2>1, <2>6
    <3> QED
      BY <1>2, <2>2, <2>4, <2>6, <3>1, <3>2 DEF NoHigh, NoMedium
  <2>7. CASE r = "high"
    <3>1. \E c \in S : c.severity = "high"
      BY <2>1, <2>7
    <3> QED
      BY <1>2, <2>2, <2>4, <2>7, <3>1 DEF NoHigh, NoMedium
  <2> QED
    BY <2>3, <2>5, <2>6, <2>7
<1> QED
  BY <1>1, <1>2

\* The triangle inequality, from the three thresholds.
LEMMA RankTriangle ==
  ASSUME NEW S, NEW T, NEW U, Rated(S), Rated(T), Rated(U), Covered(S, T, U)
  PROVE  Rank(S) <= Higher(Rank(T), Rank(U))
<1>1. /\ Rank(S) \in Nat /\ Rank(S) <= 3
      /\ Rank(S) < 3 <=> NoHigh(S)
      /\ Rank(S) < 2 <=> NoMedium(S)
      /\ Rank(S) < 1 <=> S = {}
  BY RankIs
<1>2. /\ Rank(T) \in Nat /\ Rank(T) <= 3
      /\ Rank(T) < 3 <=> NoHigh(T)
      /\ Rank(T) < 2 <=> NoMedium(T)
      /\ Rank(T) < 1 <=> T = {}
  BY RankIs
<1>3. /\ Rank(U) \in Nat /\ Rank(U) <= 3
      /\ Rank(U) < 3 <=> NoHigh(U)
      /\ Rank(U) < 2 <=> NoMedium(U)
      /\ Rank(U) < 1 <=> U = {}
  BY RankIs
<1> QED
  BY <1>1, <1>2, <1>3 DEF Covered, Higher

\* Parts are covered one by one.
LEMMA CoveredTogether ==
  ASSUME NEW S, NEW T, NEW U, Covered(S, T, U),
         NEW X, NEW Y, NEW Z, Covered(X, Y, Z)
  PROVE  Covered(S \cup X, T \cup Y, U \cup Z)
BY DEF Covered, NoHigh, NoMedium

LEMMA RatedTogether ==
  ASSUME NEW S, NEW T, Rated(S), Rated(T)
  PROVE  Rated(S \cup T)
BY DEF Rated

-----------------------------------------------------------------------------
(* The parts that have one change at most, of one severity. *)

\* A comparison that tells apart what one of two others tells apart.
LEMMA WhenCovered ==
  ASSUME NEW P, NEW Q, NEW R, P => Q \/ R,
         NEW c, NEW d, NEW e, NEW severity \in Severities,
         c.severity = severity, d.severity = severity, e.severity = severity
  PROVE  /\ Covered(When(P, {c}), When(Q, {d}), When(R, {e}))
         /\ Rated(When(P, {c}))
BY DEF Covered, Rated, When, NoHigh, NoMedium

\* Metadata are compared key by key, and a difference is only information.
LEMMA MetadataCovered ==
  ASSUME NEW o, NEW b, NEW n
  PROVE  /\ Covered(DiffMetadata(o, n), DiffMetadata(o, b), DiffMetadata(b, n))
         /\ Rated(DiffMetadata(o, n))
<1>1. ASSUME NEW x, NEW y, NEW c \in DiffMetadata(x, y)
      PROVE  c.severity = "info"
  BY <1>1 DEF DiffMetadata, Change
<1>2. ASSUME NEW x, NEW y
      PROVE  DiffMetadata(x, y) = {}
               <=> \A k \in MetadataKeys : x.metadata[k] = y.metadata[k]
  BY DEF DiffMetadata
<1> QED
  BY <1>1, <1>2 DEF Covered, Rated, NoHigh, NoMedium, Severities

\* A hash names its source.
LEMMA HashNamesSource ==
  ASSUME NEW f, NEW g, NEW A, NEW B,
         \A s \in A \cup B : IsSource(s),
         artifactHash(f, A) = artifactHash(g, B)
  PROVE  A = B
<1> DEFINE H(h, s) ==
             IF s.kind = "file"
             THEN <<s.kind, s.ref,
                    IF s.ref \in DOMAIN h THEN {h[s.ref]} ELSE {}>>
             ELSE <<s.kind, s.ref, {}>>
<1>1. ASSUME NEW h, NEW s
      PROVE  H(h, s)[1] = s.kind /\ H(h, s)[2] = s.ref
  OBVIOUS
<1>2. {H(f, s) : s \in A} = {H(g, s) : s \in B}
  BY DEF artifactHash
<1> HIDE DEF H
<1>3. ASSUME NEW s \in A PROVE s \in B
  <2>1. PICK t \in B : H(f, s) = H(g, t)
    BY <1>2
  <2>2. s.kind = t.kind /\ s.ref = t.ref
    BY <1>1, <2>1
  <2> QED
    BY <2>2 DEF IsSource
<1>4. ASSUME NEW s \in B PROVE s \in A
  <2>1. PICK t \in A : H(g, s) = H(f, t)
    BY <1>2
  <2>2. s.kind = t.kind /\ s.ref = t.ref
    BY <1>1, <2>1
  <2> QED
    BY <2>2 DEF IsSource
<1> QED
  BY <1>3, <1>4

\* What two personas have in common that agree in traits and in a voice.
LEMMA PersonaIs ==
  ASSUME NEW o, NEW n, Fits("persona", o), Fits("persona", n),
         Traits(o) = Traits(n), Voice(o) = Voice(n)
  PROVE  o = n \/ Voice(o) = {}
<1>1. /\ Optional(o) /\ \A p \in o : IsPersona(p)
      /\ Optional(n) /\ \A p \in n : IsPersona(p)
  BY DEF Fits
<1>2. SUFFICES ASSUME Voice(o) # {} PROVE o = n
  OBVIOUS
<1>3. PICK p \in o : p.brandVoice # {}
  BY <1>2 DEF Voice
<1>4. PICK q \in n : q.brandVoice # {}
  BY <1>2 DEF Voice
<1>5. o = {p} /\ n = {q}
  BY <1>1, <1>3, <1>4 DEF Optional
<1>6. p.traits = q.traits /\ p.brandVoice = q.brandVoice
  <2>1. \A x : x \in Traits(o) <=> x \in p.traits
    BY <1>5 DEF Traits
  <2>2. \A x : x \in Traits(n) <=> x \in q.traits
    BY <1>5 DEF Traits
  <2>3. \A x : x \in Voice(o) <=> x \in p.brandVoice
    BY <1>5 DEF Voice
  <2>4. \A x : x \in Voice(n) <=> x \in q.brandVoice
    BY <1>5 DEF Voice
  <2>5. Traits(o) = p.traits /\ Traits(n) = q.traits
    <3>1. Traits(o) \subseteq p.traits /\ p.traits \subseteq Traits(o)
      BY <2>1
    <3>2. Traits(n) \subseteq q.traits /\ q.traits \subseteq Traits(n)
      BY <2>2
    <3> QED
      BY <3>1, <3>2, Zenon
  <2>6. Voice(o) = p.brandVoice /\ Voice(n) = q.brandVoice
    <3>1. Voice(o) \subseteq p.brandVoice /\ p.brandVoice \subseteq Voice(o)
      BY <2>3
    <3>2. Voice(n) \subseteq q.brandVoice /\ q.brandVoice \subseteq Voice(n)
      BY <2>4
    <3> QED
      BY <3>1, <3>2, Zenon
  <2> QED
    BY <2>5, <2>6
<1>7. p = q
  BY <1>1, <1>5, <1>6 DEF IsPersona
<1> QED
  BY <1>5, <1>7

LEMMA VoiceIsSource ==
  ASSUME NEW o, Fits("persona", o)
  PROVE  \A s \in Voice(o) : IsSource(s)
BY DEF Fits, IsPersona, Voice

\* The comparison of personas overlooks the content of a voice that both have,
\* but it overlooks it everywhere alike.
LEMMA PersonaCovered ==
  ASSUME NEW o, NEW b, NEW n, Fits("persona", o.persona),
         Fits("persona", b.persona), Fits("persona", n.persona)
  PROVE  /\ Covered(DiffPersona(o, n), DiffPersona(o, b), DiffPersona(b, n))
         /\ Rated(DiffPersona(o, n))
<1> DEFINE Differ(x, y) ==
             /\ x.persona # y.persona
             /\ \/ artifactHash(x.files, Voice(x.persona))
                     # artifactHash(y.files, Voice(y.persona))
                \/ Traits(x.persona) # Traits(y.persona)
<1>1. ASSUME NEW x, NEW y, Fits("persona", x.persona),
             Fits("persona", y.persona), ~Differ(x, y)
      PROVE  Traits(x.persona) = Traits(y.persona)
               /\ Voice(x.persona) = Voice(y.persona)
  <2>1. CASE x.persona = y.persona
    BY <2>1
  <2>2. CASE artifactHash(x.files, Voice(x.persona))
               = artifactHash(y.files, Voice(y.persona))
    <3>1. \A s \in Voice(x.persona) \cup Voice(y.persona) : IsSource(s)
      BY <1>1, VoiceIsSource
    <3>2. Voice(x.persona) = Voice(y.persona)
      BY <2>2, <3>1, HashNamesSource
    <3> QED
      BY <1>1, <3>2
  <2> QED
    BY <1>1, <2>1, <2>2
<1>2. ASSUME ~Differ(o, b), ~Differ(b, n) PROVE ~Differ(o, n)
  <2>1. /\ Traits(o.persona) = Traits(n.persona)
        /\ Voice(o.persona) = Voice(n.persona)
    <3>1. /\ Traits(o.persona) = Traits(b.persona)
          /\ Voice(o.persona) = Voice(b.persona)
      BY <1>1, <1>2
    <3>2. /\ Traits(b.persona) = Traits(n.persona)
          /\ Voice(b.persona) = Voice(n.persona)
      BY <1>1, <1>2
    <3> QED
      BY <3>1, <3>2
  <2>2. o.persona = n.persona \/ Voice(o.persona) = {}
    BY <2>1, PersonaIs
  <2>3. CASE o.persona = n.persona
    BY <2>3
  <2>4. CASE Voice(o.persona) = {}
    <3>1. /\ artifactHash(o.files, Voice(o.persona)) = {}
          /\ artifactHash(n.files, Voice(n.persona)) = {}
      BY <2>1, <2>4 DEF artifactHash
    <3> QED
      BY <2>1, <3>1
  <2> QED
    BY <2>2, <2>3, <2>4
<1> DEFINE C(x, y) == Change(<<"persona">>, OperationOn(x.persona, y.persona),
                             "low", FALSE)
<1>3. ASSUME NEW x, NEW y
      PROVE  DiffPersona(x, y) = When(Differ(x, y), {C(x, y)})
  BY DEF DiffPersona
<1>4. ASSUME NEW x, NEW y PROVE C(x, y).severity = "low"
  BY DEF Change
<1> HIDE DEF Differ, C
<1> QED
  BY <1>2, <1>3, <1>4, WhenCovered DEF Severities

LEMMA InstructionsCovered ==
  ASSUME NEW o, NEW b, NEW n
  PROVE  /\ Covered(DiffInstructions(o, n), DiffInstructions(o, b),
                    DiffInstructions(b, n))
         /\ Rated(DiffInstructions(o, n))
<1> DEFINE C == Change(<<"instructions">>, "replace", "medium", FALSE)
           H(x) == artifactHash(x.files, {x.instructions})
<1>1. C.severity = "medium"
  BY DEF Change
<1>2. ASSUME NEW x, NEW y
      PROVE  DiffInstructions(x, y) = When(H(x) # H(y), {C})
  BY DEF DiffInstructions
<1> HIDE DEF C, H
<1> QED
  BY <1>1, <1>2, WhenCovered DEF Severities

LEMMA ModelCovered ==
  ASSUME NEW o, NEW b, NEW n
  PROVE  /\ Covered(DiffModel(o, n), DiffModel(o, b), DiffModel(b, n))
         /\ Rated(DiffModel(o, n))
<1> DEFINE C == Change(<<"model", "modelId">>, "replace", "high", TRUE)
           D(k) == Change(<<"model", k>>, "replace", "medium", FALSE)
           I(x, y) == When(x.modelId # y.modelId, {C})
           K(x, y) == {D(k) : k \in {key \in ModelParameters :
                                       x.model[key] # y.model[key]}}
<1>1. C.severity = "high" /\ \A k : D(k).severity = "medium"
  BY DEF Change
<1>2. ASSUME NEW x, NEW y PROVE DiffModel(x, y) = I(x, y) \cup K(x, y)
  BY DEF DiffModel
<1>3. Covered(I(o, n), I(o, b), I(b, n)) /\ Rated(I(o, n))
  <2> HIDE DEF C
  <2> QED
    BY <1>1, WhenCovered DEF Severities
<1>4. Covered(K(o, n), K(o, b), K(b, n)) /\ Rated(K(o, n))
  <2>1. ASSUME NEW x, NEW y
        PROVE  /\ \A c \in K(x, y) : c.severity = "medium"
               /\ K(x, y) = {}
                    <=> \A k \in ModelParameters : x.model[k] = y.model[k]
    <3> HIDE DEF D
    <3> QED
      BY <1>1
  <2> HIDE DEF K
  <2> QED
    BY <2>1 DEF Covered, Rated, NoHigh, NoMedium, Severities
<1> HIDE DEF I, K
<1> QED
  BY <1>2, <1>3, <1>4, CoveredTogether, RatedTogether

LEMMA EvaluationsCovered ==
  ASSUME NEW o, NEW b, NEW n
  PROVE  LET D(x, y) == When(x.evaluations # y.evaluations,
                             {Change(<<"evaluations">>,
                                     OperationOn(x.evaluations, y.evaluations),
                                     "medium", FALSE)})
         IN  Covered(D(o, n), D(o, b), D(b, n)) /\ Rated(D(o, n))
<1> DEFINE C(x, y) == Change(<<"evaluations">>,
                             OperationOn(x.evaluations, y.evaluations),
                             "medium", FALSE)
<1>1. ASSUME NEW x, NEW y PROVE C(x, y).severity = "medium"
  BY DEF Change
<1> HIDE DEF C
<1>2. LET D(x, y) == When(x.evaluations # y.evaluations, {C(x, y)})
      IN  Covered(D(o, n), D(o, b), D(b, n)) /\ Rated(D(o, n))
  BY <1>1, WhenCovered DEF Severities
<1> QED
  BY <1>2 DEF C

LEMMA DeploymentCovered ==
  ASSUME NEW o, NEW b, NEW n
  PROVE  /\ Covered(DiffDeployment(o, n), DiffDeployment(o, b),
                    DiffDeployment(b, n))
         /\ Rated(DiffDeployment(o, n))
<1> DEFINE C == Change(<<"deployment", "defaultEnvironment">>, "replace",
                       "medium", FALSE)
           D == Change(<<"deployment", "releasePolicy">>, "replace", "high",
                       FALSE)
           E(x, y) == When(x.environment # y.environment, {C})
           R(x, y) == When(x.releasePolicy # y.releasePolicy, {D})
<1>1. C.severity = "medium" /\ D.severity = "high"
  BY DEF Change
<1>2. ASSUME NEW x, NEW y PROVE DiffDeployment(x, y) = E(x, y) \cup R(x, y)
  BY DEF DiffDeployment
<1> HIDE DEF C, D
<1>3. Covered(E(o, n), E(o, b), E(b, n)) /\ Rated(E(o, n))
  BY <1>1, WhenCovered DEF Severities
<1>4. Covered(R(o, n), R(o, b), R(b, n)) /\ Rated(R(o, n))
  BY <1>1, WhenCovered DEF Severities
<1> HIDE DEF E, R
<1> QED
  BY <1>2, <1>3, <1>4, CoveredTogether, RatedTogether

-----------------------------------------------------------------------------
(* Name-keyed collections. *)

\* The severities that a comparison of two collections keeps to.
LEMMA CollectionIs ==
  ASSUME NEW name, NEW x, NEW y, NEW handlers, NEW L
  PROVE  (\A c \in diffNamedCollection(name, x, y, handlers) : c.severity \in L)
           <=> /\ \/ handlers.onRemove.severity \in L
                  \/ DOMAIN x \subseteq DOMAIN y
               /\ \/ handlers.onReplace.severity \in L
                  \/ \A k \in DOMAIN x \cap DOMAIN y : x[k] = y[k]
               /\ \/ handlers.onAdd.severity \in L
                  \/ DOMAIN y \subseteq DOMAIN x
<1> DEFINE C(k, operation, outcome) ==
             Change(<<name, k>>, operation, outcome.severity, outcome.breaking)
           removed == {C(k, "remove", handlers.onRemove) :
                         k \in DOMAIN x \ DOMAIN y}
           replaced == {C(k, "replace", handlers.onReplace) :
                          k \in {k \in DOMAIN x \cap DOMAIN y : x[k] # y[k]}}
           added == {C(k, "add", handlers.onAdd) :
                       k \in DOMAIN y \ DOMAIN x}
<1>1. \A k, operation, outcome :
        C(k, operation, outcome).severity = outcome.severity
  BY DEF Change
<1>2. diffNamedCollection(name, x, y, handlers)
        = removed \cup replaced \cup added
  BY DEF diffNamedCollection
<1> HIDE DEF C
<1>3. (\A c \in removed : c.severity \in L)
        <=> handlers.onRemove.severity \in L \/ DOMAIN x \subseteq DOMAIN y
  BY <1>1
<1>4. (\A c \in replaced : c.severity \in L)
        <=> \/ handlers.onReplace.severity \in L
            \/ \A k \in DOMAIN x \cap DOMAIN y : x[k] = y[k]
  BY <1>1
<1>5. (\A c \in added : c.severity \in L)
        <=> handlers.onAdd.severity \in L \/ DOMAIN y \subseteq DOMAIN x
  BY <1>1
<1> HIDE DEF removed, replaced, added
<1> QED
  BY <1>2, <1>3, <1>4, <1>5

\* Where a replacement counts, so must removing an item or adding it: else it
\* could be replaced in two steps that nobody counts.
LEMMA CollectionCovered ==
  ASSUME NEW name, NEW o, NEW b, NEW n, NEW handlers,
         handlers.onRemove.severity \in Severities,
         handlers.onReplace.severity \in Severities,
         handlers.onAdd.severity \in Severities,
         \A L \in {{"info", "low", "medium"}, {"info", "low"}} :
           handlers.onReplace.severity \notin L
             => \/ handlers.onRemove.severity \notin L
                \/ handlers.onAdd.severity \notin L
  PROVE  /\ Covered(diffNamedCollection(name, o, n, handlers),
                    diffNamedCollection(name, o, b, handlers),
                    diffNamedCollection(name, b, n, handlers))
         /\ Rated(diffNamedCollection(name, o, n, handlers))
<1> DEFINE D(x, y) == diffNamedCollection(name, x, y, handlers)
           Keeps(x, y, L) == \A c \in D(x, y) : c.severity \in L
<1>1. ASSUME NEW L,
             handlers.onReplace.severity \notin L
               => \/ handlers.onRemove.severity \notin L
                  \/ handlers.onAdd.severity \notin L,
             Keeps(o, b, L), Keeps(b, n, L)
      PROVE  Keeps(o, n, L)
  <2>1. /\ \/ handlers.onRemove.severity \in L
           \/ DOMAIN o \subseteq DOMAIN b
        /\ \/ handlers.onReplace.severity \in L
           \/ \A k \in DOMAIN o \cap DOMAIN b : o[k] = b[k]
        /\ \/ handlers.onAdd.severity \in L
           \/ DOMAIN b \subseteq DOMAIN o
    BY <1>1, CollectionIs
  <2>2. /\ \/ handlers.onRemove.severity \in L
           \/ DOMAIN b \subseteq DOMAIN n
        /\ \/ handlers.onReplace.severity \in L
           \/ \A k \in DOMAIN b \cap DOMAIN n : b[k] = n[k]
        /\ \/ handlers.onAdd.severity \in L
           \/ DOMAIN n \subseteq DOMAIN b
    BY <1>1, CollectionIs
  <2>3. /\ \/ handlers.onRemove.severity \in L
           \/ DOMAIN o \subseteq DOMAIN n
        /\ \/ handlers.onAdd.severity \in L
           \/ DOMAIN n \subseteq DOMAIN o
    BY <2>1, <2>2
  <2>4. \/ handlers.onReplace.severity \in L
        \/ \A k \in DOMAIN o \cap DOMAIN n : o[k] = n[k]
    BY <1>1, <2>1, <2>2
  <2> QED
    BY <2>3, <2>4, CollectionIs
<1>2. ASSUME NEW x, NEW y
      PROVE  /\ \A c \in D(x, y) : c.severity \in Severities
             /\ NoHigh(D(x, y)) <=> Keeps(x, y, {"info", "low", "medium"})
             /\ NoMedium(D(x, y)) <=> Keeps(x, y, {"info", "low"})
             /\ D(x, y) = {} <=> Keeps(x, y, {})
  <2>1. \A c \in D(x, y) : c.severity \in Severities
    BY CollectionIs
  <2> HIDE DEF D
  <2> QED
    BY <2>1 DEF NoHigh, NoMedium, Severities
<1> HIDE DEF D, Keeps
<1>3. NoHigh(D(o, b)) /\ NoHigh(D(b, n)) => NoHigh(D(o, n))
  BY <1>1, <1>2
<1>4. NoMedium(D(o, b)) /\ NoMedium(D(b, n)) => NoMedium(D(o, n))
  BY <1>1, <1>2
<1>5. D(o, b) = {} /\ D(b, n) = {} => D(o, n) = {}
  BY <1>1, <1>2
<1> QED
  BY <1>2, <1>3, <1>4, <1>5 DEF Covered, Rated, D

LEMMA SkillsCovered ==
  ASSUME NEW o, NEW b, NEW n
  PROVE  LET D(x, y) == diffNamedCollection("skills", x, y, SkillHandlers)
         IN  Covered(D(o, n), D(o, b), D(b, n)) /\ Rated(D(o, n))
<1>1. /\ SkillHandlers.onRemove.severity = "medium"
      /\ SkillHandlers.onReplace.severity = "medium"
      /\ SkillHandlers.onAdd.severity = "medium"
  BY DEF SkillHandlers, Outcome
<1> QED
  BY <1>1, CollectionCovered DEF Severities

LEMMA KnowledgeCovered ==
  ASSUME NEW o, NEW b, NEW n
  PROVE  LET D(x, y) == diffNamedCollection("knowledge", x, y, KnowledgeHandlers)
         IN  Covered(D(o, n), D(o, b), D(b, n)) /\ Rated(D(o, n))
<1>1. /\ KnowledgeHandlers.onRemove.severity = "high"
      /\ KnowledgeHandlers.onReplace.severity = "medium"
      /\ KnowledgeHandlers.onAdd.severity = "medium"
  BY DEF KnowledgeHandlers, Outcome
<1> QED
  BY <1>1, CollectionCovered DEF Severities

LEMMA IntegrationsCovered ==
  ASSUME NEW o, NEW b, NEW n
  PROVE  LET D(x, y) == diffNamedCollection("integrations", x, y,
                                            IntegrationHandlers)
         IN  Covered(D(o, n), D(o, b), D(b, n)) /\ Rated(D(o, n))
<1>1. /\ IntegrationHandlers.onRemove.severity = "medium"
      /\ IntegrationHandlers.onReplace.severity = "high"
      /\ IntegrationHandlers.onAdd.severity = "high"
  BY DEF IntegrationHandlers, Outcome
<1> QED
  BY <1>1, CollectionCovered DEF Severities

-----------------------------------------------------------------------------
(* Functions. *)

SchemaSevere(x, y) ==
  isInputSchemaBroadened(x, y) \/ isInputSchemaIncompatible(x, y)

\* What the comparison of two functions says below a severity.
FunctionKeeps(f, g) ==
  /\ f.inputSchema = g.inputSchema \/ ~SchemaSevere(f.inputSchema, g.inputSchema)
  /\ f.requiresConfirmation => g.requiresConfirmation
  /\ f.handler = g.handler

FunctionStays(f, g) ==
  /\ f.inputSchema = g.inputSchema
  /\ f.requiresConfirmation => g.requiresConfirmation
  /\ f.handler = g.handler
  /\ f.residual = g.residual

LEMMA FunctionIs ==
  ASSUME NEW k, NEW f, NEW g, IsFunction(f), IsFunction(g)
  PROVE  /\ Rated(DiffFunction(k, f, g))
         /\ NoHigh(DiffFunction(k, f, g)) <=> FunctionKeeps(f, g)
         /\ NoMedium(DiffFunction(k, f, g)) <=> FunctionStays(f, g)
         /\ DiffFunction(k, f, g) = {} <=> FunctionStays(f, g)
<1> DEFINE schema == InputSchemaSeverity(f.inputSchema, g.inputSchema)
           A == Change(<<"functions", k, "inputSchema">>, "replace",
                       schema.severity, schema.breaking)
           B == Change(<<"functions", k, "requiresConfirmation">>, "replace",
                       "high", TRUE)
           C == Change(<<"functions", k, "handler">>, "replace", "high", FALSE)
           D == Change(<<"functions", k>>, "replace", "medium", FALSE)
<1>1. A.severity = schema.severity /\ B.severity = "high"
        /\ C.severity = "high" /\ D.severity = "medium"
  BY DEF Change
<1>2. schema.severity
        = IF SchemaSevere(f.inputSchema, g.inputSchema) THEN "high" ELSE "medium"
  BY DEF InputSchemaSeverity, SchemaSevere, Outcome
<1>3. DiffFunction(k, f, g)
        = When(f.inputSchema # g.inputSchema, {A})
            \cup When(f.requiresConfirmation /\ ~g.requiresConfirmation, {B})
            \cup When(f.handler # g.handler, {C})
            \cup When(f.residual # g.residual, {D})
  BY DEF DiffFunction
<1>4. f.requiresConfirmation \in BOOLEAN /\ g.requiresConfirmation \in BOOLEAN
  BY DEF IsFunction
<1> HIDE DEF schema, A, B, C, D
<1>5. Rated(DiffFunction(k, f, g))
  BY <1>1, <1>2, <1>3 DEF When, Rated, Severities
<1>6. NoHigh(DiffFunction(k, f, g)) <=> FunctionKeeps(f, g)
  BY <1>1, <1>2, <1>3, <1>4 DEF When, NoHigh, FunctionKeeps
<1>7. NoMedium(DiffFunction(k, f, g)) <=> FunctionStays(f, g)
  BY <1>1, <1>2, <1>3, <1>4 DEF When, NoMedium, FunctionStays
<1>8. DiffFunction(k, f, g) = {} <=> FunctionStays(f, g)
  BY <1>1, <1>2, <1>3, <1>4 DEF When, FunctionStays
<1> QED
  BY <1>5, <1>6, <1>7, <1>8

\* A schema that is broadened or made incompatible in two steps is so in one of
\* them.
LEMMA SchemaSteps ==
  ASSUME NEW x, NEW y, NEW z, x.additional \in BOOLEAN,
         y.additional \in BOOLEAN, z.additional \in BOOLEAN,
         x = y \/ ~SchemaSevere(x, y), y = z \/ ~SchemaSevere(y, z)
  PROVE  x = z \/ ~SchemaSevere(x, z)
<1>1. CASE x = y \/ y = z
  BY <1>1
<1>2. CASE ~SchemaSevere(x, y) /\ ~SchemaSevere(y, z)
  BY <1>2 DEF SchemaSevere, isInputSchemaBroadened, isInputSchemaIncompatible
<1> QED
  BY <1>1, <1>2

LEMMA FunctionSteps ==
  ASSUME NEW f, NEW g, NEW h, IsFunction(f), IsFunction(g), IsFunction(h)
  PROVE  /\ FunctionKeeps(f, g) /\ FunctionKeeps(g, h) => FunctionKeeps(f, h)
         /\ FunctionStays(f, g) /\ FunctionStays(g, h) => FunctionStays(f, h)
<1>1. /\ f.inputSchema.additional \in BOOLEAN
      /\ g.inputSchema.additional \in BOOLEAN
      /\ h.inputSchema.additional \in BOOLEAN
  BY DEF IsFunction
<1>2. FunctionKeeps(f, g) /\ FunctionKeeps(g, h) => FunctionKeeps(f, h)
  BY <1>1, SchemaSteps DEF FunctionKeeps
<1>3. FunctionStays(f, g) /\ FunctionStays(g, h) => FunctionStays(f, h)
  BY DEF FunctionStays
<1> QED
  BY <1>2, <1>3

LEMMA FunctionsAre ==
  ASSUME NEW x, NEW y, Fits("functions", x), Fits("functions", y)
  PROVE  /\ Rated(diffFunctions(x, y))
         /\ NoHigh(diffFunctions(x, y))
              <=> /\ DOMAIN y \subseteq DOMAIN x
                  /\ \A k \in DOMAIN y : FunctionKeeps(x[k], y[k])
         /\ NoMedium(diffFunctions(x, y))
              <=> /\ DOMAIN y = DOMAIN x
                  /\ \A k \in DOMAIN y : FunctionStays(x[k], y[k])
         /\ diffFunctions(x, y) = {}
              <=> /\ DOMAIN y = DOMAIN x
                  /\ \A k \in DOMAIN y : FunctionStays(x[k], y[k])
<1> DEFINE C(k) == Change(<<"functions", k>>, "remove", "medium", TRUE)
           E(k) == Change(<<"functions", k>>, "add", "high", FALSE)
           removed == {C(k) : k \in DOMAIN x \ DOMAIN y}
           replaced == UNION {DiffFunction(k, x[k], y[k]) :
                                k \in DOMAIN x \cap DOMAIN y}
           added == {E(k) : k \in DOMAIN y \ DOMAIN x}
<1>1. diffFunctions(x, y) = removed \cup replaced \cup added
  BY DEF diffFunctions
<1>2. \A k : C(k).severity = "medium" /\ E(k).severity = "high"
  BY DEF Change
<1>3. ASSUME NEW k \in DOMAIN x \cap DOMAIN y
      PROVE  /\ Rated(DiffFunction(k, x[k], y[k]))
             /\ NoHigh(DiffFunction(k, x[k], y[k]))
                  <=> FunctionKeeps(x[k], y[k])
             /\ NoMedium(DiffFunction(k, x[k], y[k]))
                  <=> FunctionStays(x[k], y[k])
             /\ DiffFunction(k, x[k], y[k]) = {} <=> FunctionStays(x[k], y[k])
  <2>1. IsFunction(x[k]) /\ IsFunction(y[k])
    BY DEF Fits
  <2> QED
    BY <2>1, FunctionIs
<1> HIDE DEF C, E
<1>4. /\ \A c \in removed : c.severity = "medium"
      /\ removed = {} <=> DOMAIN x \subseteq DOMAIN y
  BY <1>2
<1>5. /\ \A c \in added : c.severity = "high"
      /\ added = {} <=> DOMAIN y \subseteq DOMAIN x
  BY <1>2
<1>6. /\ Rated(replaced)
      /\ NoHigh(replaced) <=> \A k \in DOMAIN x \cap DOMAIN y :
                               FunctionKeeps(x[k], y[k])
      /\ NoMedium(replaced) <=> \A k \in DOMAIN x \cap DOMAIN y :
                               FunctionStays(x[k], y[k])
      /\ replaced = {} <=> \A k \in DOMAIN x \cap DOMAIN y :
                               FunctionStays(x[k], y[k])
  BY <1>3 DEF Rated, NoHigh, NoMedium
<1> HIDE DEF removed, replaced, added
<1>7. Rated(diffFunctions(x, y))
  BY <1>1, <1>4, <1>5, <1>6 DEF Rated, Severities
<1>8. NoHigh(diffFunctions(x, y))
        <=> /\ DOMAIN y \subseteq DOMAIN x
            /\ \A k \in DOMAIN y : FunctionKeeps(x[k], y[k])
  <2>1. NoHigh(diffFunctions(x, y)) <=> added = {} /\ NoHigh(replaced)
    BY <1>1, <1>4, <1>5 DEF NoHigh
  <2> QED
    BY <1>5, <1>6, <2>1
<1>9. NoMedium(diffFunctions(x, y))
        <=> /\ DOMAIN y = DOMAIN x
            /\ \A k \in DOMAIN y : FunctionStays(x[k], y[k])
  <2>1. NoMedium(diffFunctions(x, y))
          <=> removed = {} /\ added = {} /\ NoMedium(replaced)
    BY <1>1, <1>4, <1>5 DEF NoMedium
  <2> QED
    BY <1>4, <1>5, <1>6, <2>1
<1>10. diffFunctions(x, y) = {}
        <=> /\ DOMAIN y = DOMAIN x
            /\ \A k \in DOMAIN y : FunctionStays(x[k], y[k])
  <2>1. diffFunctions(x, y) = {}
          <=> removed = {} /\ added = {} /\ replaced = {}
    BY <1>1
  <2> QED
    BY <1>4, <1>5, <1>6, <2>1
<1> QED
  BY <1>7, <1>8, <1>9, <1>10

LEMMA FunctionsCovered ==
  ASSUME NEW o, NEW b, NEW n, Fits("functions", o), Fits("functions", b),
         Fits("functions", n)
  PROVE  /\ Covered(diffFunctions(o, n), diffFunctions(o, b),
                    diffFunctions(b, n))
         /\ Rated(diffFunctions(o, n))
<1>1. /\ \A k \in DOMAIN o : IsFunction(o[k])
      /\ \A k \in DOMAIN b : IsFunction(b[k])
      /\ \A k \in DOMAIN n : IsFunction(n[k])
  BY DEF Fits
<1>2. NoHigh(diffFunctions(o, b)) /\ NoHigh(diffFunctions(b, n))
        => NoHigh(diffFunctions(o, n))
  BY <1>1, FunctionsAre, FunctionSteps
<1>3. NoMedium(diffFunctions(o, b)) /\ NoMedium(diffFunctions(b, n))
        => NoMedium(diffFunctions(o, n))
  BY <1>1, FunctionsAre, FunctionSteps
<1>4. diffFunctions(o, b) = {} /\ diffFunctions(b, n) = {}
        => diffFunctions(o, n) = {}
  BY <1>1, FunctionsAre, FunctionSteps
<1>5. Rated(diffFunctions(o, n))
  BY FunctionsAre
<1> QED
  BY <1>2, <1>3, <1>4, <1>5 DEF Covered

-----------------------------------------------------------------------------
(* Escalation and guardrails. *)

LEMMA EscalationCovered ==
  ASSUME NEW o, NEW b, NEW n, Fits("escalation", o), Fits("escalation", b),
         Fits("escalation", n)
  PROVE  /\ Covered(diffEscalation(o, n), diffEscalation(o, b),
                    diffEscalation(b, n))
         /\ Rated(diffEscalation(o, n))
<1> DEFINE S(x, y) == EscalationRemoved(x, y) \/ ConditionsShrunk(x, y)
           C(x, y) == Change(<<"escalation">>, OperationOn(x, y),
                             IF S(x, y) THEN "high" ELSE "medium", S(x, y))
<1>1. ASSUME NEW x, NEW y
      PROVE  /\ C(x, y).severity = IF S(x, y) THEN "high" ELSE "medium"
             /\ diffEscalation(x, y) = When(x # y, {C(x, y)})
  <2>1. diffEscalation(x, y) = When(x # y, {C(x, y)})
    BY DEF diffEscalation
  <2> QED
    BY <2>1 DEF Change
<1>2. ASSUME NEW x, Fits("escalation", x), NEW list \in {"conditions", "destinations"}
      PROVE  LengthIn(x, list) \in Nat
  BY <1>2 DEF Fits, IsEscalation, LengthIn
<1>3. \A list \in {"conditions", "destinations"} :
        LengthIn(o, list) > LengthIn(n, list)
          => \/ LengthIn(o, list) > LengthIn(b, list)
             \/ LengthIn(b, list) > LengthIn(n, list)
  BY <1>2
<1>4. S(o, n) => S(o, b) \/ S(b, n)
  BY <1>3 DEF EscalationRemoved, ConditionsShrunk
<1>5. ASSUME NEW x, Fits("escalation", x) PROVE ~S(x, x)
  <2>1. ~ConditionsShrunk(x, x)
    BY <1>2, <1>5 DEF ConditionsShrunk
  <2>2. ~EscalationRemoved(x, x)
    BY <1>5 DEF EscalationRemoved, Fits, Optional
  <2> QED
    BY <2>1, <2>2
<1>6. o # n => (o # b /\ S(o, b)) \/ (b # n /\ S(b, n)) \/ ~S(o, n)
  BY <1>4, <1>5
<1>7. ASSUME NEW x, NEW y PROVE S(x, y) \in BOOLEAN
  BY DEF EscalationRemoved, ConditionsShrunk
<1> HIDE DEF S, C
<1>8. /\ Covered(When(o # n, {C(o, n)}), When(o # b, {C(o, b)}),
                 When(b # n, {C(b, n)}))
      /\ Rated(When(o # n, {C(o, n)}))
  <2>1. ASSUME NEW x, NEW y
        PROVE  /\ C(x, y).severity \in {"medium", "high"}
               /\ C(x, y).severity = "high" <=> S(x, y)
    BY <1>1, <1>7
  <2>2. o # n /\ C(o, n).severity = "high"
          => \/ o # b /\ C(o, b).severity = "high"
             \/ b # n /\ C(b, n).severity = "high"
    BY <1>6, <2>1
  <2>3. PICK c, d, e : c = C(o, n) /\ d = C(o, b) /\ e = C(b, n)
    OBVIOUS
  <2>4. /\ c.severity \in {"medium", "high"}
        /\ d.severity \in {"medium", "high"}
        /\ e.severity \in {"medium", "high"}
        /\ o # n /\ c.severity = "high"
             => \/ o # b /\ d.severity = "high"
                \/ b # n /\ e.severity = "high"
    BY <2>1, <2>2, <2>3
  <2>5. /\ Covered(When(o # n, {c}), When(o # b, {d}), When(b # n, {e}))
        /\ Rated(When(o # n, {c}))
    BY <2>4 DEF Covered, Rated, NoHigh, NoMedium, When, Severities
  <2> QED
    BY <2>3, <2>5
<1> QED
  BY <1>1, <1>8

LEMMA GuardrailsCovered ==
  ASSUME NEW o, NEW b, NEW n, Fits("guardrails", o), Fits("guardrails", b),
         Fits("guardrails", n)
  PROVE  /\ Covered(diffGuardrails(o, n), diffGuardrails(o, b),
                    diffGuardrails(b, n))
         /\ Rated(diffGuardrails(o, n))
<1> DEFINE S(x, y) == (x # {} /\ y = {}) \/ GuardrailsWeakened(x, y)
           C(x, y) == Change(<<"guardrails">>, OperationOn(x, y),
                             IF S(x, y) THEN "high" ELSE "medium", S(x, y))
<1>1. ASSUME NEW x, NEW y
      PROVE  /\ C(x, y).severity = IF S(x, y) THEN "high" ELSE "medium"
             /\ diffGuardrails(x, y) = When(x # y, {C(x, y)})
  <2>1. diffGuardrails(x, y) = When(x # y, {C(x, y)})
    BY DEF diffGuardrails
  <2> QED
    BY <2>1 DEF Change
<1>2. ASSUME NEW x, Fits("guardrails", x)
      PROVE  /\ LengthIn(x, "policyPacks") \in Nat
             /\ LengthIn(x, "blockedTopics") \in Nat
             /\ PiiOrder(x) \in Nat
  <2>1. \A g \in x : GUARDRAIL_PII_ORDER[g.pii] \in Nat
    BY <1>2 DEF Fits, IsGuardrails, GUARDRAIL_PII_ORDER
  <2>2. LengthIn(x, "policyPacks") \in Nat /\ LengthIn(x, "blockedTopics") \in Nat
    BY <1>2 DEF Fits, IsGuardrails, LengthIn
  <2> QED
    BY <2>1, <2>2 DEF PiiOrder
<1>3. GuardrailsWeakened(o, n)
        => GuardrailsWeakened(o, b) \/ GuardrailsWeakened(b, n)
  BY <1>2 DEF GuardrailsWeakened
<1>4. S(o, n) => S(o, b) \/ S(b, n)
  BY <1>3
<1>5. ASSUME NEW x, Fits("guardrails", x) PROVE ~S(x, x)
  BY <1>2, <1>5 DEF GuardrailsWeakened
<1>6. o # n => (o # b /\ S(o, b)) \/ (b # n /\ S(b, n)) \/ ~S(o, n)
  BY <1>4, <1>5
<1>7. ASSUME NEW x, NEW y PROVE S(x, y) \in BOOLEAN
  BY DEF GuardrailsWeakened, Strict
<1> HIDE DEF S, C
<1>8. /\ Covered(When(o # n, {C(o, n)}), When(o # b, {C(o, b)}),
                 When(b # n, {C(b, n)}))
      /\ Rated(When(o # n, {C(o, n)}))
  <2>1. ASSUME NEW x, NEW y
        PROVE  /\ C(x, y).severity \in {"medium", "high"}
               /\ C(x, y).severity = "high" <=> S(x, y)
    BY <1>1, <1>7
  <2>2. o # n /\ C(o, n).severity = "high"
          => \/ o # b /\ C(o, b).severity = "high"
             \/ b # n /\ C(b, n).severity = "high"
    BY <1>6, <2>1
  <2>3. PICK c, d, e : c = C(o, n) /\ d = C(o, b) /\ e = C(b, n)
    OBVIOUS
  <2>4. /\ c.severity \in {"medium", "high"}
        /\ d.severity \in {"medium", "high"}
        /\ e.severity \in {"medium", "high"}
        /\ o # n /\ c.severity = "high"
             => \/ o # b /\ d.severity = "high"
                \/ b # n /\ e.severity = "high"
    BY <2>1, <2>2, <2>3
  <2>5. /\ Covered(When(o # n, {c}), When(o # b, {d}), When(b # n, {e}))
        /\ Rated(When(o # n, {c}))
    BY <2>4 DEF Covered, Rated, NoHigh, NoMedium, When, Severities
  <2> QED
    BY <2>3, <2>5
<1> QED
  BY <1>1, <1>8

-----------------------------------------------------------------------------
(* All parts together. *)

LEMMA DiffCovered ==
  ASSUME NEW o, NEW b, NEW n, IsSnapshot(o), IsSnapshot(b), IsSnapshot(n)
  PROVE  /\ Covered(diffManifests(o, n), diffManifests(o, b),
                    diffManifests(b, n))
         /\ Rated(diffManifests(o, n))
<1> DEFINE D1(x, y) == DiffMetadata(x, y)
           D2(x, y) == DiffPersona(x, y)
           D3(x, y) == DiffInstructions(x, y)
           D4(x, y) == DiffModel(x, y)
           D5(x, y) == diffNamedCollection("skills", x.skills, y.skills,
                                           SkillHandlers)
           D6(x, y) == diffFunctions(x.functions, y.functions)
           D7(x, y) == diffNamedCollection("knowledge", x.knowledge,
                                           y.knowledge, KnowledgeHandlers)
           D8(x, y) == diffNamedCollection("integrations", x.integrations,
                                           y.integrations, IntegrationHandlers)
           D9(x, y) == diffEscalation(x.escalation, y.escalation)
           D10(x, y) == diffGuardrails(x.guardrails, y.guardrails)
           D11(x, y) == When(x.evaluations # y.evaluations,
                             {Change(<<"evaluations">>,
                                     OperationOn(x.evaluations, y.evaluations),
                                     "medium", FALSE)})
           D12(x, y) == DiffDeployment(x, y)
<1>1. \A x, y : diffManifests(x, y)
                  = D1(x, y) \cup D2(x, y) \cup D3(x, y) \cup D4(x, y)
                      \cup D5(x, y) \cup D6(x, y) \cup D7(x, y) \cup D8(x, y)
                      \cup D9(x, y) \cup D10(x, y) \cup D11(x, y)
                      \cup D12(x, y)
  BY DEF diffManifests
<1>2. ASSUME NEW s, IsSnapshot(s)
      PROVE  /\ Fits("persona", s.persona)
             /\ Fits("functions", s.functions)
             /\ Fits("escalation", s.escalation)
             /\ Fits("guardrails", s.guardrails)
  BY <1>2 DEF IsSnapshot, Parts
<1>c1. Covered(D1(o, n), D1(o, b), D1(b, n)) /\ Rated(D1(o, n))
  BY MetadataCovered
<1>c2. Covered(D2(o, n), D2(o, b), D2(b, n)) /\ Rated(D2(o, n))
  BY <1>2, PersonaCovered
<1>c3. Covered(D3(o, n), D3(o, b), D3(b, n)) /\ Rated(D3(o, n))
  BY InstructionsCovered
<1>c4. Covered(D4(o, n), D4(o, b), D4(b, n)) /\ Rated(D4(o, n))
  BY ModelCovered
<1>c5. Covered(D5(o, n), D5(o, b), D5(b, n)) /\ Rated(D5(o, n))
  BY SkillsCovered
<1>c6. Covered(D6(o, n), D6(o, b), D6(b, n)) /\ Rated(D6(o, n))
  BY <1>2, FunctionsCovered
<1>c7. Covered(D7(o, n), D7(o, b), D7(b, n)) /\ Rated(D7(o, n))
  BY KnowledgeCovered
<1>c8. Covered(D8(o, n), D8(o, b), D8(b, n)) /\ Rated(D8(o, n))
  BY IntegrationsCovered
<1>c9. Covered(D9(o, n), D9(o, b), D9(b, n)) /\ Rated(D9(o, n))
  BY <1>2, EscalationCovered
<1>c10. Covered(D10(o, n), D10(o, b), D10(b, n)) /\ Rated(D10(o, n))
  BY <1>2, GuardrailsCovered
<1>c11. Covered(D11(o, n), D11(o, b), D11(b, n)) /\ Rated(D11(o, n))
  BY EvaluationsCovered
<1>c12. Covered(D12(o, n), D12(o, b), D12(b, n)) /\ Rated(D12(o, n))
  BY DeploymentCovered
<1> DEFINE E2(x, y) == D1(x, y) \cup D2(x, y)
           E3(x, y) == E2(x, y) \cup D3(x, y)
           E4(x, y) == E3(x, y) \cup D4(x, y)
           E5(x, y) == E4(x, y) \cup D5(x, y)
           E6(x, y) == E5(x, y) \cup D6(x, y)
           E7(x, y) == E6(x, y) \cup D7(x, y)
           E8(x, y) == E7(x, y) \cup D8(x, y)
           E9(x, y) == E8(x, y) \cup D9(x, y)
           E10(x, y) == E9(x, y) \cup D10(x, y)
           E11(x, y) == E10(x, y) \cup D11(x, y)
           E12(x, y) == E11(x, y) \cup D12(x, y)
<1>3. \A x, y : diffManifests(x, y) = E12(x, y)
  BY <1>1
<1> HIDE DEF D1, D2, D3, D4, D5, D6, D7, D8, D9, D10, D11, D12
<1>e2. Covered(E2(o, n), E2(o, b), E2(b, n)) /\ Rated(E2(o, n))
  BY <1>c1, <1>c2, CoveredTogether, RatedTogether
<1> HIDE DEF E2
<1>e3. Covered(E3(o, n), E3(o, b), E3(b, n)) /\ Rated(E3(o, n))
  BY <1>e2, <1>c3, CoveredTogether, RatedTogether
<1> HIDE DEF E3
<1>e4. Covered(E4(o, n), E4(o, b), E4(b, n)) /\ Rated(E4(o, n))
  BY <1>e3, <1>c4, CoveredTogether, RatedTogether
<1> HIDE DEF E4
<1>e5. Covered(E5(o, n), E5(o, b), E5(b, n)) /\ Rated(E5(o, n))
  BY <1>e4, <1>c5, CoveredTogether, RatedTogether
<1> HIDE DEF E5
<1>e6. Covered(E6(o, n), E6(o, b), E6(b, n)) /\ Rated(E6(o, n))
  BY <1>e5, <1>c6, CoveredTogether, RatedTogether
<1> HIDE DEF E6
<1>e7. Covered(E7(o, n), E7(o, b), E7(b, n)) /\ Rated(E7(o, n))
  BY <1>e6, <1>c7, CoveredTogether, RatedTogether
<1> HIDE DEF E7
<1>e8. Covered(E8(o, n), E8(o, b), E8(b, n)) /\ Rated(E8(o, n))
  BY <1>e7, <1>c8, CoveredTogether, RatedTogether
<1> HIDE DEF E8
<1>e9. Covered(E9(o, n), E9(o, b), E9(b, n)) /\ Rated(E9(o, n))
  BY <1>e8, <1>c9, CoveredTogether, RatedTogether
<1> HIDE DEF E9
<1>e10. Covered(E10(o, n), E10(o, b), E10(b, n)) /\ Rated(E10(o, n))
  BY <1>e9, <1>c10, CoveredTogether, RatedTogether
<1> HIDE DEF E10
<1>e11. Covered(E11(o, n), E11(o, b), E11(b, n)) /\ Rated(E11(o, n))
  BY <1>e10, <1>c11, CoveredTogether, RatedTogether
<1> HIDE DEF E11
<1>e12. Covered(E12(o, n), E12(o, b), E12(b, n)) /\ Rated(E12(o, n))
  BY <1>e11, <1>c12, CoveredTogether, RatedTogether
<1> HIDE DEF E12
<1> QED
  BY <1>3, <1>e12

LEMMA ShownIs ==
  ASSUME NEW x, NEW y
  PROVE  Shown(x, y) = Rank(diffManifests(x, y))
BY DEF Shown, Rank, risk

\* The risk of two changes one after the other is that of the worse one, at
\* most.
LEMMA ShownTriangle ==
  ASSUME NEW o, NEW b, NEW n, IsSnapshot(o), IsSnapshot(b), IsSnapshot(n)
  PROVE  Shown(o, n) <= Higher(Shown(o, b), Shown(b, n))
<1>1. /\ Rated(diffManifests(o, n))
      /\ Rated(diffManifests(o, b))
      /\ Rated(diffManifests(b, n))
      /\ Covered(diffManifests(o, n), diffManifests(o, b), diffManifests(b, n))
  BY DiffCovered
<1> QED
  BY <1>1, RankTriangle, ShownIs

LEMMA ShownInRange ==
  ASSUME NEW x, NEW y, IsSnapshot(x), IsSnapshot(y)
  PROVE  /\ Shown(x, y) \in Nat
         /\ Shown(x, y) < 3 => NoHigh(diffManifests(x, y))
         /\ Shown(x, y) < 1 => diffManifests(x, y) = {}
         /\ diffManifests(x, y) = {} => Shown(x, y) = 0
<1>1. Rated(diffManifests(x, y))
  BY DiffCovered
<1>2. diffManifests(x, y) = {} => Shown(x, y) = 0
  BY DEF Shown
<1> QED
  BY <1>1, <1>2, RankIs, ShownIs

-----------------------------------------------------------------------------
(* The chain. *)

Snapshots == IsSnapshot(origin) /\ IsSnapshot(base) /\ IsSnapshot(local)

ChainInv ==
  /\ focus \in Focuses
  /\ Snapshots
  /\ accepted \in Nat
  /\ RiskIsCovered

\* A part of a snapshot gets another value that fits.
LEMMA EditFits ==
  ASSUME NEW s, IsSnapshot(s), NEW parts \in Focuses, NEW part \in parts,
         NEW v \in Alternatives[part]
  PROVE  IsSnapshot([s EXCEPT ![part] = v])
<1>1. part \in Parts /\ Fits(part, v)
  BY AlternativesFit, FocusesAreParts
<1> DEFINE t == [s EXCEPT ![part] = v]
<1>2. /\ s = [q \in Parts |-> s[q]]
      /\ \A q \in Parts : Fits(q, s[q])
  BY DEF IsSnapshot
<1>3. t = [q \in Parts |-> IF q = part THEN v ELSE s[q]]
  BY <1>1, <1>2
<1> HIDE DEF t
<1>4. t = [q \in Parts |-> t[q]]
  BY <1>3
<1>5. ASSUME NEW q \in Parts PROVE Fits(q, t[q])
  <2>1. CASE q = part
    BY <1>1, <1>3, <2>1
  <2>2. CASE q # part
    <3>1. t[q] = s[q]
      BY <1>3, <2>2
    <3> QED
      BY <1>2, <3>1
  <2> QED
    BY <2>1, <2>2
<1>6. IsSnapshot(t)
  BY <1>4, <1>5 DEF IsSnapshot
<1> QED
  BY <1>6 DEF t

\* Nothing separates a snapshot from itself.
LEMMA ShownNothing ==
  ASSUME NEW s, IsSnapshot(s)
  PROVE  Shown(s, s) = 0
<1>1. DiffMetadata(s, s) = {} /\ DiffModel(s, s) = {}
  BY DEF DiffMetadata, DiffModel, When
<1>2. DiffPersona(s, s) = {} /\ DiffInstructions(s, s) = {}
        /\ DiffDeployment(s, s) = {}
  BY DEF DiffPersona, DiffInstructions, DiffDeployment, When
<1>3. diffEscalation(s.escalation, s.escalation) = {}
        /\ diffGuardrails(s.guardrails, s.guardrails) = {}
  BY DEF diffEscalation, diffGuardrails, When
<1>4. ASSUME NEW name, NEW part, NEW handlers
      PROVE  diffNamedCollection(name, part, part, handlers) = {}
  BY DEF diffNamedCollection
<1>5. diffFunctions(s.functions, s.functions) = {}
  <2>1. Fits("functions", s.functions)
    BY DEF IsSnapshot, Parts
  <2>2. \A k \in DOMAIN s.functions :
          FunctionStays(s.functions[k], s.functions[k])
    BY DEF FunctionStays
  <2> QED
    BY <2>1, <2>2, FunctionsAre
<1>6. When(s.evaluations # s.evaluations,
           {Change(<<"evaluations">>, OperationOn(s.evaluations, s.evaluations),
                   "medium", FALSE)}) = {}
  BY DEF When
<1>7. diffManifests(s, s) = {}
  BY <1>1, <1>2, <1>3, <1>4, <1>5, <1>6 DEF diffManifests
<1> QED
  BY <1>7, ShownInRange

LEMMA ChainInit == Init => ChainInv
<1> SUFFICES ASSUME Init PROVE ChainInv
  OBVIOUS
<1>1. /\ focus \in Focuses /\ accepted = 0
      /\ base = origin /\ local = origin
  BY DEF Init
<1>2. PICK part \in focus :
        \E v \in Alternatives[part] : origin = [Default EXCEPT ![part] = v]
  BY DEF Init
<1>3. IsSnapshot(origin)
  <2>1. PICK v \in Alternatives[part] : origin = [Default EXCEPT ![part] = v]
    BY <1>2
  <2>2. IsSnapshot([Default EXCEPT ![part] = v])
    BY <1>1, DefaultIsSnapshot, EditFits
  <2> QED
    BY <2>1, <2>2
<1>4. Shown(origin, base) = 0
  BY <1>1, <1>3, ShownNothing
<1> QED
  BY <1>1, <1>3, <1>4 DEF ChainInv, Snapshots, RiskIsCovered

LEMMA ChainStep == ChainInv /\ [Next]_vars => ChainInv'
<1> SUFFICES ASSUME ChainInv, [Next]_vars PROVE ChainInv'
  OBVIOUS
<1>1. CASE Edit
  <2>1. PICK part \in focus :
          \E v \in Alternatives[part] : local' = [local EXCEPT ![part] = v]
    BY <1>1 DEF Edit
  <2>2. IsSnapshot(local')
    <3>1. PICK v \in Alternatives[part] : local' = [local EXCEPT ![part] = v]
      BY <2>1
    <3>2. IsSnapshot([local EXCEPT ![part] = v])
      BY EditFits DEF ChainInv, Snapshots
    <3> QED
      BY <3>1, <3>2
  <2>3. UNCHANGED <<focus, origin, base, accepted>>
    BY <1>1 DEF Edit
  <2>4. Shown(origin, base)' = Shown(origin, base)
    BY <2>3
  <2> QED
    BY <2>2, <2>3, <2>4 DEF ChainInv, Snapshots, RiskIsCovered
<1>2. CASE Release
  <2>1. /\ accepted' = Higher(accepted, Shown(base, local))
        /\ base' = local
        /\ UNCHANGED <<focus, origin, local>>
    BY <1>2 DEF Release
  <2>2. Shown(origin, local) <= Higher(Shown(origin, base), Shown(base, local))
    BY ShownTriangle DEF ChainInv, Snapshots
  <2>3. /\ Shown(origin, base) \in Nat
        /\ Shown(base, local) \in Nat
        /\ Shown(origin, local) \in Nat
    BY ShownInRange DEF ChainInv, Snapshots
  <2>4. Shown(origin, local) <= Higher(accepted, Shown(base, local))
    BY <2>2, <2>3 DEF ChainInv, RiskIsCovered, Higher
  <2>5. Shown(origin, base)' = Shown(origin, local)
    BY <2>1
  <2>6. accepted' \in Nat
    BY <2>1, <2>3 DEF ChainInv, Higher
  <2> QED
    BY <2>1, <2>4, <2>5, <2>6 DEF ChainInv, Snapshots, RiskIsCovered
<1>3. CASE UNCHANGED vars
  <2>1. UNCHANGED <<focus, origin, base, local, accepted>>
    BY <1>3 DEF vars
  <2>2. Shown(origin, base)' = Shown(origin, base)
    BY <2>1
  <2> QED
    BY <2>1, <2>2 DEF ChainInv, Snapshots, RiskIsCovered
<1> QED
  BY <1>1, <1>2, <1>3 DEF Next

LEMMA ChainAlways == Spec => []ChainInv
<1>1. Init => ChainInv
  BY ChainInit
<1>2. ChainInv /\ [Next]_vars => ChainInv'
  BY ChainStep
<1> QED
  BY <1>1, <1>2, PTL DEF Spec

\* The risk of all releases of a chain together is one that some review showed,
\* for every manifest and every number of edits and releases: reviewing each
\* release against its base version alone (packages/cli/src/readiness.ts) hides
\* no risk that a review against the first version would show.
THEOREM RiskIsCoveredAlways == Spec => []RiskIsCovered
<1>1. ChainInv => RiskIsCovered
  BY DEF ChainInv
<1> QED
  BY <1>1, ChainAlways, PTL

-----------------------------------------------------------------------------
(* What a chain of mild releases leaves in place. *)

LEMMA FunctionsKept ==
  ASSUME NEW o, NEW n, Fits("functions", o), Fits("functions", n),
         NoHigh(diffFunctions(o, n))
  PROVE  ~WeakerFunctions(o, n)
<1>1. /\ DOMAIN n \subseteq DOMAIN o
      /\ \A k \in DOMAIN n : FunctionKeeps(o[k], n[k])
  BY FunctionsAre
<1>2. ASSUME NEW k \in DOMAIN n
      PROVE  o[k].inputSchema.required \ n[k].inputSchema.required = {}
  BY <1>1 DEF FunctionKeeps, SchemaSevere, isInputSchemaBroadened
<1> QED
  BY <1>1, <1>2 DEF FunctionKeeps, WeakerFunctions

LEMMA EscalationKept ==
  ASSUME NEW o, NEW n, Fits("escalation", o), Fits("escalation", n),
         NoHigh(diffEscalation(o, n)), NEW e \in o, e.enabled
  PROVE  \E m \in n : m.enabled
<1>1. /\ \A x \in o : IsEscalation(x)
      /\ \A x \in n : IsEscalation(x)
  BY DEF Fits
<1>2. CASE o = n
  BY <1>2
<1>3. CASE ~ (EscalationRemoved(o, n) \/ ConditionsShrunk(o, n))
  <2>1. PICK m \in n : TRUE
    BY <1>3 DEF EscalationRemoved
  <2>2. m.enabled
    BY <1>1, <1>3 DEF EscalationRemoved, IsEscalation
  <2> QED
    BY <2>2
<1>4. o = n \/ ~ (EscalationRemoved(o, n) \/ ConditionsShrunk(o, n))
  BY DEF diffEscalation, When, NoHigh, Change
<1> QED
  BY <1>2, <1>3, <1>4

LEMMA GuardrailsKept ==
  ASSUME NEW o, NEW n, Fits("guardrails", o), Fits("guardrails", n),
         NoHigh(diffGuardrails(o, n)), NEW g \in o
  PROVE  \E m \in n :
           /\ GUARDRAIL_PII_ORDER[m.pii] >= GUARDRAIL_PII_ORDER[g.pii]
           /\ g.strict => m.strict
<1>1. /\ Optional(o) /\ \A x \in o : IsGuardrails(x)
      /\ Optional(n) /\ \A x \in n : IsGuardrails(x)
  BY DEF Fits
<1>2. \A x \in o \cup n : GUARDRAIL_PII_ORDER[x.pii] \in Nat
  BY <1>1 DEF IsGuardrails, GUARDRAIL_PII_ORDER
<1>3. CASE o = n
  BY <1>1, <1>2, <1>3 DEF IsGuardrails
<1>4. CASE ~ ((o # {} /\ n = {}) \/ GuardrailsWeakened(o, n))
  <2>1. PICK m \in n : TRUE
    BY <1>4
  <2>2. (CHOOSE p \in o : TRUE) = g /\ (CHOOSE p \in n : TRUE) = m
    BY <1>1 DEF Optional
  <2>3. /\ PiiOrder(o) = GUARDRAIL_PII_ORDER[g.pii]
        /\ PiiOrder(n) = GUARDRAIL_PII_ORDER[m.pii]
    BY <2>2 DEF PiiOrder
  <2>4. g.strict => m.strict
    BY <1>1, <1>4 DEF GuardrailsWeakened, Strict, Optional
  <2>5. ~ (GUARDRAIL_PII_ORDER[g.pii] > GUARDRAIL_PII_ORDER[m.pii])
    BY <1>4, <2>3 DEF GuardrailsWeakened
  <2>6. /\ GUARDRAIL_PII_ORDER[g.pii] \in Nat
        /\ GUARDRAIL_PII_ORDER[m.pii] \in Nat
    BY <1>2
  <2> QED
    BY <2>4, <2>5, <2>6
<1>5. o = n \/ ~ ((o # {} /\ n = {}) \/ GuardrailsWeakened(o, n))
  BY DEF diffGuardrails, When, NoHigh, Change
<1> QED
  BY <1>3, <1>4, <1>5

LEMMA MildCollection ==
  ASSUME NEW name, NEW x, NEW y, NEW handlers,
         Rated(diffNamedCollection(name, x, y, handlers)),
         NoHigh(diffNamedCollection(name, x, y, handlers))
  PROVE  /\ handlers.onRemove.severity = "high" => DOMAIN x \subseteq DOMAIN y
         /\ handlers.onReplace.severity = "high"
              => \A k \in DOMAIN x \cap DOMAIN y : x[k] = y[k]
         /\ handlers.onAdd.severity = "high" => DOMAIN y \subseteq DOMAIN x
<1>1. PICK L : L = {"info", "low", "medium"}
  OBVIOUS
<1>2. \A c \in diffNamedCollection(name, x, y, handlers) : c.severity \in L
  BY <1>1 DEF Rated, NoHigh, Severities
<1>3. /\ handlers.onRemove.severity \in L \/ DOMAIN x \subseteq DOMAIN y
      /\ \/ handlers.onReplace.severity \in L
         \/ \A k \in DOMAIN x \cap DOMAIN y : x[k] = y[k]
      /\ handlers.onAdd.severity \in L \/ DOMAIN y \subseteq DOMAIN x
  BY <1>2, CollectionIs
<1> QED
  BY <1>1, <1>3

\* A diff without a high change weakens no control outside the lists.
LEMMA MildKeepsProtection ==
  ASSUME NEW o, NEW n, IsSnapshot(o), IsSnapshot(n),
         NoHigh(diffManifests(o, n))
  PROVE  ~Weaker(o, n)
<1>1. /\ NoHigh(DiffModel(o, n))
      /\ NoHigh(diffFunctions(o.functions, n.functions))
      /\ NoHigh(diffNamedCollection("knowledge", o.knowledge, n.knowledge,
                                    KnowledgeHandlers))
      /\ NoHigh(diffNamedCollection("integrations", o.integrations,
                                    n.integrations, IntegrationHandlers))
      /\ NoHigh(diffEscalation(o.escalation, n.escalation))
      /\ NoHigh(diffGuardrails(o.guardrails, n.guardrails))
      /\ NoHigh(DiffDeployment(o, n))
  BY DEF diffManifests, NoHigh
<1>2. /\ Fits("functions", o.functions) /\ Fits("functions", n.functions)
      /\ Fits("escalation", o.escalation) /\ Fits("escalation", n.escalation)
      /\ Fits("guardrails", o.guardrails) /\ Fits("guardrails", n.guardrails)
  BY DEF IsSnapshot, Parts
<1>3. o.modelId = n.modelId
  <2> DEFINE C == Change(<<"model", "modelId">>, "replace", "high", TRUE)
  <2>1. C.severity = "high"
    BY DEF Change
  <2>2. When(o.modelId # n.modelId, {C}) \subseteq DiffModel(o, n)
    BY DEF DiffModel
  <2> HIDE DEF C
  <2> QED
    BY <1>1, <2>1, <2>2 DEF When, NoHigh
<1>4. o.releasePolicy = n.releasePolicy
  <2> DEFINE C == Change(<<"deployment", "releasePolicy">>, "replace", "high",
                         FALSE)
  <2>1. C.severity = "high"
    BY DEF Change
  <2>2. When(o.releasePolicy # n.releasePolicy, {C}) \subseteq DiffDeployment(o, n)
    BY DEF DiffDeployment
  <2> HIDE DEF C
  <2> QED
    BY <1>1, <2>1, <2>2 DEF When, NoHigh
<1>5. ~WeakerFunctions(o.functions, n.functions)
  BY <1>1, <1>2, FunctionsKept
<1>6. DOMAIN o.knowledge \subseteq DOMAIN n.knowledge
  <2>1. KnowledgeHandlers.onRemove.severity = "high"
    BY DEF KnowledgeHandlers, Outcome
  <2>2. Rated(diffNamedCollection("knowledge", o.knowledge, n.knowledge,
                                  KnowledgeHandlers))
    BY KnowledgeCovered
  <2> QED
    BY <1>1, <2>1, <2>2, MildCollection
<1>7. \A i \in DOMAIN n.integrations :
        i \in DOMAIN o.integrations /\ o.integrations[i] = n.integrations[i]
  <2>1. /\ IntegrationHandlers.onAdd.severity = "high"
        /\ IntegrationHandlers.onReplace.severity = "high"
    BY DEF IntegrationHandlers, Outcome
  <2>2. Rated(diffNamedCollection("integrations", o.integrations,
                                  n.integrations, IntegrationHandlers))
    BY IntegrationsCovered
  <2> QED
    BY <1>1, <2>1, <2>2, MildCollection
<1>8. \A e \in o.escalation :
        e.enabled => \E m \in n.escalation : m.enabled
  BY <1>1, <1>2, EscalationKept
<1>9. \A g \in o.guardrails :
        \E m \in n.guardrails :
          /\ GUARDRAIL_PII_ORDER[m.pii] >= GUARDRAIL_PII_ORDER[g.pii]
          /\ g.strict => m.strict
  BY <1>1, <1>2, GuardrailsKept
<1> QED
  BY <1>3, <1>4, <1>5, <1>6, <1>7, <1>8, <1>9 DEF Weaker

\* Below high, a list loses an entry only in exchange for another one.
LEMMA MildExchanges ==
  ASSUME NEW o, NEW n, IsSnapshot(o), IsSnapshot(n),
         NoHigh(diffManifests(o, n)), ControlDropped(o, n)
  PROVE  Exchanges(o, n)
<1>1. /\ Fits("escalation", o.escalation) /\ Fits("escalation", n.escalation)
      /\ Fits("guardrails", o.guardrails) /\ Fits("guardrails", n.guardrails)
  BY DEF IsSnapshot, Parts
<1>2. /\ NoHigh(diffEscalation(o.escalation, n.escalation))
      /\ NoHigh(diffGuardrails(o.guardrails, n.guardrails))
  BY DEF diffManifests, NoHigh
<1>3. PICK part \in DOMAIN ControlLists :
        \E list \in ControlLists[part] : Drops(o, n, part, list)
  BY DEF ControlDropped
<1>4. PICK list \in ControlLists[part] : Drops(o, n, part, list)
  BY <1>3
<1>5. o[part] # n[part]
  BY <1>4 DEF Drops
<1>6. CASE part = "escalation"
  <2>1. list \in {"conditions", "destinations"}
    BY <1>6 DEF ControlLists
  <2>2. ~ConditionsShrunk(o.escalation, n.escalation)
    BY <1>2, <1>5, <1>6 DEF diffEscalation, When, NoHigh, Change
  <2>3. ~ (LengthIn(o.escalation, list) > LengthIn(n.escalation, list))
    BY <2>1, <2>2 DEF ConditionsShrunk
  <2>4. /\ LengthIn(o.escalation, list) \in Nat
        /\ LengthIn(n.escalation, list) \in Nat
    BY <1>1, <2>1 DEF Fits, IsEscalation, LengthIn
  <2>5. LengthIn(n[part], list) >= LengthIn(o[part], list)
    BY <1>6, <2>3, <2>4
  <2> QED
    BY <1>4, <2>5 DEF Exchanges
<1>7. CASE part = "guardrails"
  <2>1. list \in {"policyPacks", "blockedTopics"}
    BY <1>7 DEF ControlLists
  <2>2. ~GuardrailsWeakened(o.guardrails, n.guardrails)
    BY <1>2, <1>5, <1>7 DEF diffGuardrails, When, NoHigh, Change
  <2>3. ~ (LengthIn(o.guardrails, list) > LengthIn(n.guardrails, list))
    BY <2>1, <2>2 DEF GuardrailsWeakened
  <2>4. /\ LengthIn(o.guardrails, list) \in Nat
        /\ LengthIn(n.guardrails, list) \in Nat
    BY <1>1, <2>1 DEF Fits, IsGuardrails, LengthIn
  <2>5. LengthIn(n[part], list) >= LengthIn(o[part], list)
    BY <1>7, <2>3, <2>4
  <2> QED
    BY <1>4, <2>5 DEF Exchanges
<1> QED
  BY <1>3, <1>6, <1>7 DEF ControlLists

\* What is dropped in two steps was dropped in one of them.
LEMMA DroppedInSteps ==
  ASSUME NEW o, NEW b, NEW n, ControlDropped(o, n)
  PROVE  ControlDropped(o, b) \/ ControlDropped(b, n)
BY DEF ControlDropped, Drops

\* An entry is missing only after a release that exchanged one.
ExchangedFirst == accepted < 3 /\ ControlDropped(origin, base) => exchanged

LEMMA ExchangedFirstInit == Init => ExchangedFirst
BY DEF Init, ExchangedFirst, ControlDropped, Drops

LEMMA ExchangedFirstStep ==
  ChainInv /\ ExchangedFirst /\ [Next]_vars => ExchangedFirst'
<1> SUFFICES ASSUME ChainInv, ExchangedFirst, [Next]_vars
             PROVE  ExchangedFirst'
  OBVIOUS
<1>1. CASE Edit
  <2>1. UNCHANGED <<origin, base, accepted, exchanged>>
    BY <1>1 DEF Edit
  <2>2. ControlDropped(origin, base)' = ControlDropped(origin, base)
    BY <2>1
  <2> QED
    BY <2>1, <2>2 DEF ExchangedFirst
<1>2. CASE Release
  <2>1. /\ accepted' = Higher(accepted, Shown(base, local))
        /\ base' = local /\ origin' = origin
    BY <1>2 DEF Release
  <2>2. exchanged' = (exchanged \/ Exchanges(base, local))
    BY <1>2 DEF Release
  <2>3. SUFFICES ASSUME accepted' < 3, ControlDropped(origin, local)
                 PROVE  exchanged'
    <3>1. ControlDropped(origin, base)' = ControlDropped(origin, local)
      BY <2>1
    <3> QED
      BY <2>3, <3>1 DEF ExchangedFirst
  <2>4. IsSnapshot(base) /\ IsSnapshot(local) /\ accepted \in Nat
    BY DEF ChainInv, Snapshots
  <2>5. accepted < 3 /\ Shown(base, local) < 3
    BY <2>1, <2>3, <2>4, ShownInRange DEF Higher
  <2>6. CASE ControlDropped(origin, base)
    <3>1. exchanged
      BY <2>5, <2>6 DEF ExchangedFirst
    <3> QED
      BY <2>2, <3>1, Zenon
  <2>7. CASE ControlDropped(base, local)
    <3>1. Exchanges(base, local)
      BY <2>4, <2>5, <2>7, ShownInRange, MildExchanges
    <3> QED
      BY <2>2, <3>1, Zenon
  <2> QED
    BY <2>3, <2>6, <2>7, DroppedInSteps
<1>3. CASE UNCHANGED vars
  <2>1. UNCHANGED <<origin, base, accepted, exchanged>>
    BY <1>3 DEF vars
  <2>2. ControlDropped(origin, base)' = ControlDropped(origin, base)
    BY <2>1
  <2> QED
    BY <2>1, <2>2 DEF ExchangedFirst
<1> QED
  BY <1>1, <1>2, <1>3 DEF Next

LEMMA ExchangedFirstAlways == Spec => []ExchangedFirst
<1>1. ChainInv /\ ExchangedFirst /\ [Next]_vars => ExchangedFirst'
  BY ExchangedFirstStep
<1>2. Init => ExchangedFirst
  BY ExchangedFirstInit
<1> QED
  BY <1>1, <1>2, ChainAlways, PTL DEF Spec

\* However long a chain of releases is, as long as none of them showed a high
\* risk no safety control is weaker than the chain began with; and an entry of
\* a list of controls is missing only if one of the releases, a medium risk,
\* put another in the place of one.
THEOREM ProtectionKeptAlways == Spec => []ProtectionKept
<1>1. ChainInv /\ ExchangedFirst => ProtectionKept
  <2> SUFFICES ASSUME ChainInv, ExchangedFirst,
                      accepted < SEVERITY_ORDER["high"]
               PROVE  /\ ~Weaker(origin, base)
                      /\ ControlDropped(origin, base) => exchanged
    BY DEF ProtectionKept
  <2>1. IsSnapshot(origin) /\ IsSnapshot(base) /\ accepted \in Nat
          /\ Shown(origin, base) <= accepted
    BY DEF ChainInv, Snapshots, RiskIsCovered
  <2>2. accepted < 3
    BY DEF SEVERITY_ORDER
  <2>3. Shown(origin, base) < 3
    BY <2>1, <2>2, ShownInRange
  <2>4. ~Weaker(origin, base)
    BY <2>1, <2>3, ShownInRange, MildKeepsProtection
  <2> QED
    BY <2>2, <2>4 DEF ExchangedFirst
<1> QED
  BY <1>1, ChainAlways, ExchangedFirstAlways, PTL

-----------------------------------------------------------------------------
(* What a chain of empty diffs leaves unchanged. *)

LEMMA CollectionStays ==
  ASSUME NEW name, NEW x, NEW y, NEW handlers, Collection(x), Collection(y),
         diffNamedCollection(name, x, y, handlers) = {}
  PROVE  x = y
<1>1. /\ DOMAIN x \subseteq DOMAIN y
      /\ DOMAIN y \subseteq DOMAIN x
      /\ \A k \in DOMAIN x \cap DOMAIN y : x[k] = y[k]
  BY CollectionIs
<1> QED
  BY <1>1 DEF Collection

LEMMA FunctionsStay ==
  ASSUME NEW x, NEW y, Fits("functions", x), Fits("functions", y),
         diffFunctions(x, y) = {}
  PROVE  OnlyConfirmed(x, y)
<1>1. /\ DOMAIN x = DOMAIN y
      /\ \A k \in DOMAIN x : FunctionStays(x[k], y[k])
  BY FunctionsAre
<1>2. ASSUME NEW k \in DOMAIN x
      PROVE  [x[k] EXCEPT !.requiresConfirmation = FALSE]
               = [y[k] EXCEPT !.requiresConfirmation = FALSE]
  <2>1. IsFunction(x[k]) /\ IsFunction(y[k])
    BY <1>1 DEF Fits
  <2> DEFINE F(i, h, r) ==
               [inputSchema |-> i, handler |-> h,
                requiresConfirmation |-> FALSE, residual |-> r]
  <2>2. ASSUME NEW f, IsFunction(f)
        PROVE  [f EXCEPT !.requiresConfirmation = FALSE]
                 = F(f.inputSchema, f.handler, f.residual)
    <3>1. PICK i, h, c, r :
            f = [inputSchema |-> i, handler |-> h, requiresConfirmation |-> c,
                 residual |-> r]
      BY <2>2 DEF IsFunction
    <3>2. f.inputSchema = i /\ f.handler = h /\ f.residual = r
      BY <3>1
    <3>3. ASSUME NEW w
          PROVE  [[inputSchema |-> i, handler |-> h, requiresConfirmation |-> c,
                   residual |-> r] EXCEPT !.requiresConfirmation = w]
                   = [inputSchema |-> i, handler |-> h,
                      requiresConfirmation |-> w, residual |-> r]
      OBVIOUS
    <3>4. [f EXCEPT !.requiresConfirmation = FALSE] = F(i, h, r)
      BY <3>1, <3>3
    <3> QED
      BY <3>2, <3>4
  <2> HIDE DEF F
  <2>3. /\ x[k].inputSchema = y[k].inputSchema
        /\ x[k].handler = y[k].handler
        /\ x[k].residual = y[k].residual
    BY <1>1 DEF FunctionStays
  <2> QED
    BY <2>1, <2>2, <2>3
<1> QED
  BY <1>1, <1>2 DEF OnlyConfirmed, FunctionStays

LEMMA SilenceStays ==
  ASSUME NEW o, NEW n, IsSnapshot(o), IsSnapshot(n), diffManifests(o, n) = {}
  PROVE  /\ OnlyConfirmed(o.functions, n.functions)
         /\ artifactHash(o.files, {o.instructions})
              = artifactHash(n.files, {n.instructions})
         /\ Traits(o.persona) = Traits(n.persona)
         /\ Voice(o.persona) = Voice(n.persona)
         /\ \A part \in Parts \ {"functions", "files", "instructions",
                                  "persona"} : o[part] = n[part]
<1>1. /\ DiffMetadata(o, n) = {} /\ DiffPersona(o, n) = {}
      /\ DiffInstructions(o, n) = {} /\ DiffModel(o, n) = {}
      /\ diffNamedCollection("skills", o.skills, n.skills, SkillHandlers) = {}
      /\ diffFunctions(o.functions, n.functions) = {}
      /\ diffNamedCollection("knowledge", o.knowledge, n.knowledge,
                             KnowledgeHandlers) = {}
      /\ diffNamedCollection("integrations", o.integrations, n.integrations,
                             IntegrationHandlers) = {}
      /\ diffEscalation(o.escalation, n.escalation) = {}
      /\ diffGuardrails(o.guardrails, n.guardrails) = {}
      /\ o.evaluations = n.evaluations
      /\ DiffDeployment(o, n) = {}
  BY DEF diffManifests, When
<1>2. \A part \in Parts : Fits(part, o[part]) /\ Fits(part, n[part])
  BY DEF IsSnapshot
<1>3. OnlyConfirmed(o.functions, n.functions)
  BY <1>1, <1>2, FunctionsStay DEF Parts
<1>4. artifactHash(o.files, {o.instructions})
        = artifactHash(n.files, {n.instructions})
  BY <1>1 DEF DiffInstructions, When
<1>5. Traits(o.persona) = Traits(n.persona) /\ Voice(o.persona) = Voice(n.persona)
  <2>1. CASE o.persona = n.persona
    BY <2>1
  <2>2. CASE /\ artifactHash(o.files, Voice(o.persona))
                  = artifactHash(n.files, Voice(n.persona))
             /\ Traits(o.persona) = Traits(n.persona)
    <3>1. \A s \in Voice(o.persona) \cup Voice(n.persona) : IsSource(s)
      BY <1>2, VoiceIsSource DEF Parts
    <3>2. Voice(o.persona) = Voice(n.persona)
      BY <2>2, <3>1, HashNamesSource
    <3> QED
      BY <2>2, <3>2
  <2> QED
    BY <1>1, <2>1, <2>2 DEF DiffPersona, When
<1>6. o.metadata = n.metadata
  <2>1. \A k \in MetadataKeys : o.metadata[k] = n.metadata[k]
    BY <1>1 DEF DiffMetadata
  <2> QED
    BY <1>2, <2>1 DEF Fits, Collection, Parts
<1>7. o.modelId = n.modelId /\ o.model = n.model
  <2>1. o.modelId = n.modelId
    BY <1>1 DEF DiffModel, When
  <2>2. \A k \in ModelParameters : o.model[k] = n.model[k]
    BY <1>1 DEF DiffModel
  <2> QED
    BY <1>2, <2>1, <2>2 DEF Fits, Collection, Parts
<1>8. /\ o.skills = n.skills
      /\ o.knowledge = n.knowledge
      /\ o.integrations = n.integrations
  <2>1. /\ Collection(o.skills) /\ Collection(n.skills)
        /\ Collection(o.knowledge) /\ Collection(n.knowledge)
        /\ Collection(o.integrations) /\ Collection(n.integrations)
    BY <1>2 DEF Fits, Parts
  <2> QED
    BY <1>1, <2>1, CollectionStays
<1>9. /\ o.escalation = n.escalation
      /\ o.guardrails = n.guardrails
  BY <1>1 DEF diffEscalation, diffGuardrails, When
<1>10. /\ o.environment = n.environment
       /\ o.releasePolicy = n.releasePolicy
  BY <1>1 DEF DiffDeployment, When
<1>11. \A part \in Parts \ {"functions", "files", "instructions", "persona"} :
         o[part] = n[part]
  BY <1>1, <1>6, <1>7, <1>8, <1>9, <1>10 DEF Parts
<1> QED
  BY <1>3, <1>4, <1>5, <1>11

\* Releases that all showed nothing have changed nothing in the manifest but
\* confirmations that were added, and nothing in the prompt file; what other
\* files hold is not said.
THEOREM SilenceIsSafeAlways == Spec => []SilenceIsSafe
<1>1. ChainInv => SilenceIsSafe
  <2> SUFFICES ASSUME ChainInv PROVE SilenceIsSafe
    OBVIOUS
  <2>1. IsSnapshot(origin) /\ IsSnapshot(base)
          /\ Shown(origin, base) <= accepted
    BY DEF ChainInv, Snapshots, RiskIsCovered
  <2>2. accepted = 0 => diffManifests(origin, base) = {}
    BY <2>1, ShownInRange
  <2>3. DOMAIN origin = Parts
    BY <2>1 DEF IsSnapshot
  <2> QED
    BY <2>1, <2>2, <2>3, SilenceStays DEF SilenceIsSafe
<1> QED
  BY <1>1, ChainAlways, PTL
=============================================================================
