------------------------ MODULE ProjectWriterProofs ------------------------
(***************************************************************************)
(* Theorems about ProjectWriter, for any projects, edits, proposals and    *)
(* bounds.  Every property but the first two is about what a directory     *)
(* that was written in part may look like, so the invariants say, for      *)
(* every write that is still pending, what is in its place and what it     *)
(* will leave there.                                                       *)
(***************************************************************************)
EXTENDS ProjectWriter, FiniteSetTheorems, SequenceTheorems,
        WellFoundedInduction, TLAPS

-----------------------------------------------------------------------------
(* Sequences *)

IsSequence(s) == \E S : s \in Seq(S)

LEMMA SequenceFacts ==
  ASSUME NEW s, IsSequence(s)
  PROVE  /\ Len(s) \in Nat /\ DOMAIN s = 1 .. Len(s)
         /\ s = [i \in DOMAIN s |-> s[i]]
  <1>1. PICK S : s \in Seq(S)
    BY DEF IsSequence
  <1> QED BY <1>1

LEMMA TailFacts ==
  ASSUME NEW s, IsSequence(s), s # <<>>
  PROVE  /\ IsSequence(Tail(s)) /\ 1 \in DOMAIN s /\ Head(s) = s[1]
         /\ Len(Tail(s)) = Len(s) - 1
         /\ \A i \in DOMAIN Tail(s) : i + 1 \in DOMAIN s /\ Tail(s)[i] = s[i + 1]
         /\ \A i \in DOMAIN s : i # 1 => i - 1 \in DOMAIN Tail(s)
  <1>1. PICK S : s \in Seq(S)
    BY DEF IsSequence
  <1>2. Tail(s) \in Seq(S)
    BY <1>1
  <1>3. IsSequence(Tail(s))
    BY <1>2 DEF IsSequence
  <1>4. Len(s) \in Nat /\ DOMAIN s = 1 .. Len(s) /\ Len(s) # 0
    BY <1>1
  <1>5. Len(Tail(s)) = Len(s) - 1 /\ DOMAIN Tail(s) = 1 .. (Len(s) - 1)
    BY <1>1, <1>2, <1>4
  <1>6. \A i \in 1 .. (Len(s) - 1) : Tail(s)[i] = s[i + 1]
    BY <1>1, <1>4
  <1> QED BY <1>3, <1>4, <1>5, <1>6, <1>1

LEMMA LeastNumber ==
  ASSUME NEW S, S \subseteq Nat, S # {}
  PROVE  \E m \in S : \A k \in S : m <= k
  <1> DEFINE R == OpToRel(<, Nat)
  <1>1. IsWellFoundedOn(R, Nat)
    BY NatLessThanWellFounded
  <1>2. \A k, m \in Nat : k < m => <<k, m>> \in R
    BY DEF OpToRel
  <1> HIDE DEF R
  <1>3. PICK m \in S : \A k \in S : ~ (<<k, m>> \in R)
    BY <1>1, WFMin
  <1>4. \A k \in S : ~ (k < m)
    BY <1>2, <1>3
  <1> QED BY <1>3, <1>4

-----------------------------------------------------------------------------
(* What applyWrites leaves to be written *)

\* f says where in the first m writes of s each write of p comes from.
Picks(s, p, m, f) ==
  /\ f \in [1 .. Len(p) -> 1 .. m]
  /\ \A k \in 1 .. Len(p) : p[k] = s[f[k]] /\ ~Unchanged(s[f[k]])
  /\ \A i \in 1 .. m : ~Unchanged(s[i]) => \E k \in 1 .. Len(p) : f[k] = i
  /\ \A k, l \in 1 .. Len(p) : k < l => f[k] < f[l]

\* The loop of applyWrites: the next write is left out or goes last.
LEMMA PicksOne ==
  ASSUME NEW S, NEW s \in Seq(S), NEW m \in 1 .. Len(s), NEW p \in Seq(S),
         NEW f, Picks(s, p, m - 1, f),
         NEW q, q = IF Unchanged(s[m]) THEN p ELSE Append(p, s[m])
  PROVE  q \in Seq(S) /\ \E g : Picks(s, q, m, g)
  <1>0. /\ Len(p) \in Nat /\ m \in Nat /\ m >= 1 /\ Len(s) \in Nat
        /\ s[m] \in S /\ 1 .. (m - 1) \subseteq 1 .. m
    OBVIOUS
  <1>a. /\ f \in [1 .. Len(p) -> 1 .. (m - 1)]
        /\ \A k \in 1 .. Len(p) : p[k] = s[f[k]] /\ ~Unchanged(s[f[k]])
        /\ \A i \in 1 .. (m - 1) :
             ~Unchanged(s[i]) => \E k \in 1 .. Len(p) : f[k] = i
        /\ \A k, l \in 1 .. Len(p) : k < l => f[k] < f[l]
    BY DEF Picks
  <1>1. CASE Unchanged(s[m])
    <2>1. q = p
      BY <1>1
    <2>2. f \in [1 .. Len(p) -> 1 .. m]
      BY <1>0, <1>a
    <2>3. \A i \in 1 .. m : ~Unchanged(s[i]) =>
            \E k \in 1 .. Len(p) : f[k] = i
      <3>1. \A i \in 1 .. m : i = m \/ i \in 1 .. (m - 1)
        BY <1>0
      <3> QED BY <3>1, <1>1, <1>a
    <2>4. Picks(s, p, m, f)
      BY <2>2, <2>3, <1>a DEF Picks
    <2> QED BY <2>1, <2>4
  <1>2. CASE ~Unchanged(s[m])
    <2> DEFINE n == Len(p) + 1
               g == [k \in 1 .. n |-> IF k = n THEN m ELSE f[k]]
    <2>1. q = Append(p, s[m])
      BY <1>2
    <2>2. /\ q \in Seq(S) /\ Len(q) = n /\ q[n] = s[m]
          /\ \A k \in 1 .. Len(p) : q[k] = p[k]
      BY <2>1, <1>0
    <2>3. \A k \in 1 .. n : k = n \/ k \in 1 .. Len(p)
      BY <1>0
    <2>4. g[n] = m /\ \A k \in 1 .. Len(p) : g[k] = f[k]
      BY <1>0
    <2>5. g \in [1 .. n -> 1 .. m]
      BY <1>0, <2>3, <1>a
    <2> HIDE DEF g
    <2>6. \A k \in 1 .. n : q[k] = s[g[k]] /\ ~Unchanged(s[g[k]])
      BY <2>2, <2>3, <2>4, <1>a, <1>2
    <2>7. \A i \in 1 .. m : ~Unchanged(s[i]) => \E k \in 1 .. n : g[k] = i
      <3>1. \A i \in 1 .. m : i = m \/ i \in 1 .. (m - 1)
        BY <1>0
      <3>2. n \in 1 .. n /\ \A k \in 1 .. Len(p) : k \in 1 .. n
        BY <1>0
      <3>3. ASSUME NEW i \in 1 .. (m - 1), ~Unchanged(s[i])
            PROVE  \E k \in 1 .. n : g[k] = i
        <4>1. PICK k \in 1 .. Len(p) : f[k] = i
          BY <3>3, <1>a
        <4> QED BY <4>1, <3>2, <2>4
      <3> QED BY <3>1, <3>2, <3>3, <2>4
    <2>8. ASSUME NEW k \in 1 .. n, NEW l \in 1 .. n, k < l
          PROVE  g[k] < g[l]
      <3>1. k \in 1 .. Len(p)
        BY <2>8, <1>0
      <3>2. CASE l = n
        <4>1. g[k] \in 1 .. (m - 1)
          BY <3>1, <2>4, <1>a
        <4> QED BY <4>1, <3>2, <2>4, <1>0
      <3>3. CASE l \in 1 .. Len(p)
        BY <3>1, <3>3, <2>4, <2>8, <1>a
      <3> QED BY <3>2, <3>3, <2>3
    <2>9. Picks(s, q, m, g)
      BY <2>2, <2>5, <2>6, <2>7, <2>8 DEF Picks
    <2> QED BY <2>2, <2>9
  <1> QED BY <1>1, <1>2

\* pendingOf goes through the writes one by one.
LEMMA PendingStep ==
  ASSUME NEW s, Len(s) \in Nat
  PROVE  /\ pendingOf(s)[0] = <<>>
         /\ \A m \in 1 .. Len(s) :
              pendingOf(s)[m] = IF Unchanged(s[m]) THEN pendingOf(s)[m - 1]
                                ELSE Append(pendingOf(s)[m - 1], s[m])
  <1> DEFINE After(f, n) == IF n = 0 THEN <<>>
                            ELSE IF Unchanged(s[n]) THEN f[n - 1]
                            ELSE Append(f[n - 1], s[n])
             Is(f, m) == f = [n \in 0 .. m |-> After(f, n)]
             Without == {m \in 0 .. Len(s) : ~ \E f : Is(f, m)}
  <1>1. ASSUME Without # {} PROVE FALSE
    <2>1. Without \subseteq Nat
      OBVIOUS
    <2>2. PICK m \in Without : \A k \in Without : m <= k
      BY <2>1, <1>1, LeastNumber
    <2>3. m \in 0 .. Len(s) /\ ~ \E f : Is(f, m)
      BY <2>2
    <2>4. CASE m = 0
      <3> DEFINE f == [n \in 0 .. 0 |-> <<>>]
      <3>1. \A n \in 0 .. 0 : n = 0
        OBVIOUS
      <3>2. Is(f, 0)
        BY <3>1
      <3> QED BY <3>2, <2>3, <2>4
    <2>5. CASE m # 0
      <3>1. m \in 1 .. Len(s) /\ m - 1 \in 0 .. Len(s) /\ m \in Nat
        BY <2>3, <2>5
      <3>a. ~(m <= m - 1)
        BY <3>1
      <3>2. m - 1 \notin Without
        <4> HIDE DEF Without
        <4> QED BY <2>2, <3>a
      <3>3. PICK f : Is(f, m - 1)
        <4> HIDE DEF Is
        <4> QED BY <3>1, <3>2
      <3> DEFINE q == IF Unchanged(s[m]) THEN f[m - 1]
                      ELSE Append(f[m - 1], s[m])
                 g == [n \in 0 .. m |-> IF n = m THEN q ELSE f[n]]
      <3>4. \A n \in 0 .. m : n = m \/ n \in 0 .. (m - 1)
        BY <3>1
      <3>5. g[m] = q /\ \A n \in 0 .. (m - 1) : g[n] = f[n]
        BY <3>1
      <3>6. \A n \in 0 .. (m - 1) : f[n] = After(f, n)
        BY <3>3
      <3>7. ASSUME NEW n \in 0 .. m PROVE g[n] = After(g, n)
        <4>1. CASE n = m
          <5>1. g[m - 1] = f[m - 1]
            BY <3>5, <3>1
          <5> QED BY <4>1, <5>1, <3>5, <3>1
        <4>2. CASE n \in 0 .. (m - 1) /\ n # 0
          <5>1. n - 1 \in 0 .. (m - 1)
            BY <4>2, <3>1
          <5>2. g[n - 1] = f[n - 1] /\ g[n] = f[n]
            BY <3>5, <5>1, <4>2
          <5>3. f[n] = After(f, n)
            BY <4>2, <3>6
          <5> QED BY <5>2, <5>3, <4>2
        <4>3. CASE n = 0 /\ n # m
          <5>1. 0 \in 0 .. (m - 1)
            BY <4>3, <3>1
          <5> QED BY <5>1, <4>3, <3>5, <3>6
        <4> QED BY <4>1, <4>2, <4>3, <3>4
      <3>8. Is(g, m)
        <4>1. g = [n \in 0 .. m |-> g[n]]
          OBVIOUS
        <4> HIDE DEF g
        <4> QED BY <4>1, <3>7
      <3> HIDE DEF Is, g, q
      <3> QED BY <3>8, <2>3
    <2> QED BY <2>4, <2>5
  <1>2. \E f : Is(f, Len(s))
    BY <1>1
  <1> DEFINE g == pendingOf(s)
  <1>3. Is(g, Len(s))
    BY <1>2 DEF pendingOf
  <1> HIDE DEF g
  <1>4. \A n \in 0 .. Len(s) : g[n] = After(g, n)
    BY <1>3
  <1>5. 0 \in 0 .. Len(s) /\ \A m \in 1 .. Len(s) : m \in 0 .. Len(s) /\ m # 0
    OBVIOUS
  <1>6. g[0] = <<>>
    BY <1>4, <1>5
  <1>7. ASSUME NEW m \in 1 .. Len(s)
        PROVE  g[m] = IF Unchanged(s[m]) THEN g[m - 1] ELSE Append(g[m - 1], s[m])
    <2>1. g[m] = After(g, m)
      BY <1>4, <1>5
    <2> QED BY <2>1, <1>5
  <1> QED BY <1>6, <1>7 DEF g

\* applyWrites leaves the writes that would change something, in their order.
LEMMA PendingPicks ==
  ASSUME NEW S, NEW s \in Seq(S)
  PROVE  /\ pendingOf(s)[Len(s)] \in Seq(S)
         /\ \E f : Picks(s, pendingOf(s)[Len(s)], Len(s), f)
  <1>0. Len(s) \in Nat
    OBVIOUS
  <1>1. PICK g : g = pendingOf(s)
    OBVIOUS
  <1>2. /\ g[0] = <<>>
        /\ \A m \in 1 .. Len(s) :
             g[m] = IF Unchanged(s[m]) THEN g[m - 1] ELSE Append(g[m - 1], s[m])
    BY <1>0, <1>1, PendingStep
  <1> DEFINE Sound(m) == g[m] \in Seq(S) /\ \E f : Picks(s, g[m], m, f)
             Unsound == {m \in 0 .. Len(s) : ~Sound(m)}
  <1>3. ASSUME Unsound # {} PROVE FALSE
    <2>1. Unsound \subseteq Nat
      BY <1>0
    <2>2. PICK m \in Unsound : \A k \in Unsound : m <= k
      BY <2>1, <1>3, LeastNumber
    <2>3. m \in 0 .. Len(s) /\ ~Sound(m)
      BY <2>2
    <2>4. CASE m = 0
      <3>1. Picks(s, <<>>, 0, <<>>)
        BY DEF Picks
      <3>2. g[0] = <<>> /\ <<>> \in Seq(S)
        BY <1>2
      <3>3. Sound(0)
        BY <3>1, <3>2
      <3> HIDE DEF Sound
      <3> QED BY <3>3, <2>3, <2>4
    <2>5. CASE m # 0
      <3>1. m \in 1 .. Len(s) /\ m - 1 \in 0 .. Len(s)
        BY <2>3, <2>5, <1>0
      <3>2. ~(m <= m - 1)
        BY <2>3, <1>0
      <3>3. Sound(m - 1)
        BY <2>2, <3>1, <3>2
      <3>4. PICK f : Picks(s, g[m - 1], m - 1, f)
        BY <3>3
      <3>5. PICK p : p = g[m - 1]
        OBVIOUS
      <3>6. PICK q : q = g[m]
        OBVIOUS
      <3>7. q = IF Unchanged(s[m]) THEN p ELSE Append(p, s[m])
        BY <1>2, <3>1, <3>5, <3>6
      <3>8. p \in Seq(S) /\ Picks(s, p, m - 1, f)
        BY <3>3, <3>4, <3>5
      <3>9. q \in Seq(S) /\ \E h : Picks(s, q, m, h)
        BY <3>1, <3>7, <3>8, PicksOne
      <3> QED BY <3>9, <3>6, <2>3
    <2> QED BY <2>4, <2>5
  <1>4. Len(s) \in 0 .. Len(s)
    BY <1>0
  <1>5. Sound(Len(s))
    BY <1>3, <1>4
  <1> QED BY <1>5, <1>1

-----------------------------------------------------------------------------
(* What PlannedWrites lists *)

\* The artifacts have some order, in which each of them comes once.
LEMMA OrderedOnce ==
  ASSUME NEW D, IsFiniteSet(D)
  PROVE  /\ Cardinality(D) \in Nat
         /\ SetToSeq(D) \in [1 .. Cardinality(D) -> D]
         /\ \A i, j \in 1 .. Cardinality(D) :
              SetToSeq(D)[i] = SetToSeq(D)[j] => i = j
         /\ \A x \in D : \E i \in 1 .. Cardinality(D) : SetToSeq(D)[i] = x
  <1> DEFINE n == Cardinality(D)
             p == SetToSeq(D)
  <1>1. n \in Nat /\ ExistsBijection(1 .. n, D)
    BY FS_CardinalityType
  <1>2. \E f \in [1 .. n -> D] : IsInjective(f)
    BY <1>1 DEF ExistsBijection, Bijection, Injection
  <1>3. p \in [1 .. n -> D] /\ IsInjective(p)
    BY <1>2 DEF SetToSeq
  <1> HIDE DEF p
  <1>4. p \in Injection(1 .. n, D)
    BY <1>3 DEF Injection
  <1>5. IsFiniteSet(1 .. n) /\ Cardinality(1 .. n) = n
    BY <1>1, FS_Interval
  <1>6. p \in Surjection(1 .. n, D)
    BY <1>4, <1>5, FS_Injection
  <1>7. \A x \in D : \E i \in 1 .. n : p[i] = x
    BY <1>6 DEF Surjection
  <1>8. \A i, j \in 1 .. n : p[i] = p[j] => i = j
    BY <1>3 DEF IsInjective
  <1> QED BY <1>1, <1>3, <1>7, <1>8 DEF p

Join(a, b) == a \o b

LEMMA Joined ==
  ASSUME NEW a, NEW b, IsSequence(a), IsSequence(b)
  PROVE  /\ IsSequence(Join(a, b)) /\ Len(Join(a, b)) = Len(a) + Len(b)
         /\ \A i \in 1 .. Len(a) : Join(a, b)[i] = a[i]
         /\ \A i \in 1 .. Len(b) : Join(a, b)[Len(a) + i] = b[i]
  <1>a. PICK A : a \in Seq(A)
    BY DEF IsSequence
  <1>b. PICK B : b \in Seq(B)
    BY DEF IsSequence
  <1> DEFINE W == A \cup B
  <1>0. a \in Seq(W) /\ b \in Seq(W)
    BY <1>a, <1>b
  <1> HIDE DEF W
  <1>1. Len(a) \in Nat /\ Len(b) \in Nat
    BY <1>0
  <1>2. PICK s : s = Join(a, b)
    OBVIOUS
  <1>3. /\ s \in Seq(W) /\ Len(s) = Len(a) + Len(b)
        /\ \A i \in 1 .. (Len(a) + Len(b)) :
             s[i] = IF i <= Len(a) THEN a[i] ELSE b[i - Len(a)]
    <2>1. s = a \o b
      BY <1>2 DEF Join
    <2>2. /\ a \o b \in Seq(W) /\ Len(a \o b) = Len(a) + Len(b)
          /\ \A i \in 1 .. (Len(a) + Len(b)) :
               (a \o b)[i] = IF i <= Len(a) THEN a[i] ELSE b[i - Len(a)]
      BY <1>0, ConcatProperties
    <2> QED BY <2>1, <2>2
  <1>4. \A i \in 1 .. Len(a) : i \in 1 .. (Len(a) + Len(b)) /\ i <= Len(a)
    BY <1>1
  <1>5. \A i \in 1 .. Len(b) :
          /\ Len(a) + i \in 1 .. (Len(a) + Len(b)) /\ ~(Len(a) + i <= Len(a))
          /\ (Len(a) + i) - Len(a) = i
    BY <1>1
  <1>6. \A i \in 1 .. Len(a) : s[i] = a[i]
    BY <1>3, <1>4
  <1>7. \A i \in 1 .. Len(b) : s[Len(a) + i] = b[i]
    BY <1>3, <1>5
  <1>8. IsSequence(s)
    BY <1>3 DEF IsSequence
  <1> QED BY <1>2, <1>3, <1>6, <1>7, <1>8

LEMMA Layout ==
  ASSUME NEW n \in Nat, NEW h, NEW f, NEW e, NEW d,
         IsSequence(h), IsSequence(f), IsSequence(e), IsSequence(d),
         Len(h) = 1, Len(f) = n, Len(e) = 2,
         NEW t, t = Join(h, f), NEW u, u = Join(t, e), NEW s, s = Join(u, d)
  PROVE  /\ IsSequence(s) /\ Len(s) = n + 3 + Len(d) /\ Len(d) \in Nat
         /\ s[1] = h[1] /\ s[n + 2] = e[1] /\ s[n + 3] = e[2]
         /\ \A i \in 1 .. n : s[i + 1] = f[i]
         /\ \A i \in 1 .. Len(d) : s[n + 3 + i] = d[i]
  <1>1. /\ IsSequence(t) /\ Len(t) = Len(h) + Len(f)
        /\ \A i \in 1 .. Len(h) : t[i] = h[i]
        /\ \A i \in 1 .. Len(f) : t[Len(h) + i] = f[i]
    BY ONLY IsSequence(h), IsSequence(f), t = Join(h, f), Joined
  <1>2. /\ IsSequence(u) /\ Len(u) = Len(t) + Len(e)
        /\ \A i \in 1 .. Len(t) : u[i] = t[i]
        /\ \A i \in 1 .. Len(e) : u[Len(t) + i] = e[i]
    <2>1. IsSequence(t) /\ IsSequence(e)
      BY <1>1
    <2> QED BY ONLY <2>1, u = Join(t, e), Joined
  <1>3. /\ IsSequence(s) /\ Len(s) = Len(u) + Len(d)
        /\ \A i \in 1 .. Len(u) : s[i] = u[i]
        /\ \A i \in 1 .. Len(d) : s[Len(u) + i] = d[i]
    <2>1. IsSequence(u) /\ IsSequence(d)
      BY <1>2
    <2> QED BY ONLY <2>1, s = Join(u, d), Joined
  <1>4. Len(t) = n + 1 /\ Len(u) = n + 3 /\ Len(d) \in Nat
    BY <1>1, <1>2, SequenceFacts
  <1>5. /\ 1 \in 1 .. Len(h) /\ 1 \in 1 .. Len(t) /\ 1 \in 1 .. Len(u)
        /\ n + 2 \in 1 .. Len(u) /\ n + 3 \in 1 .. Len(u)
        /\ 1 \in 1 .. Len(e) /\ 2 \in 1 .. Len(e)
        /\ Len(t) + 1 = n + 2 /\ Len(t) + 2 = n + 3
    BY <1>4
  <1>6. \A i \in 1 .. n :
          /\ i \in 1 .. Len(f) /\ i + 1 = Len(h) + i
          /\ i + 1 \in 1 .. Len(t) /\ i + 1 \in 1 .. Len(u)
    BY <1>4
  <1>7. s[1] = h[1]
    BY <1>1, <1>2, <1>3, <1>5
  <1>8. s[n + 2] = e[1] /\ s[n + 3] = e[2]
    BY <1>2, <1>3, <1>5
  <1>9. \A i \in 1 .. n : s[i + 1] = f[i]
    <2> TAKE i \in 1 .. n
    <2>1. t[i + 1] = f[i]
      BY <1>1, <1>6
    <2>2. s[i + 1] = t[i + 1]
      BY <1>2, <1>3, <1>6
    <2> QED BY <2>1, <2>2
  <1> QED BY <1>3, <1>4, <1>7, <1>8, <1>9

\* Places of the writes: the manifest, n artifacts, the lock, the binding, and
\* .gitignore if there is none.
Planned(v, now, s, n, p) ==
  /\ n \in Nat /\ Len(s) \in {n + 3, n + 4}
  /\ s[1] = Write(MANIFEST_FILE_NAME, remote[v].manifest)
  /\ \A i \in 1 .. n : /\ p[i] \in DOMAIN remote[v].artifacts
                       /\ s[i + 1] = Write(p[i], remote[v].artifacts[p[i]])
  /\ s[n + 2] = Write(LOCK_FILE_NAME, LockContent(v, now))
  /\ s[n + 3] = Write(BINDING, Unrelated[BINDING])
  /\ Len(s) = n + 4 => /\ s[n + 4] = Write(GITIGNORE, Unrelated[GITIGNORE])
                       /\ GITIGNORE \notin DOMAIN files
  /\ \A i, j \in 1 .. n : p[i] = p[j] => i = j
  /\ \A q \in DOMAIN remote[v].artifacts : \E i \in 1 .. n : p[i] = q

LEMMA PlannedPlaces ==
  ASSUME NEW v, IsFiniteSet(DOMAIN remote[v].artifacts), NEW now,
         NEW s, s = PlannedWrites(v, now)
  PROVE  IsSequence(s) /\ \E n, p : Planned(v, now, s, n, p)
  <1>1. PICK b : b = remote[v]
    OBVIOUS
  <1>2. PICK p : p = SetToSeq(DOMAIN b.artifacts)
    OBVIOUS
  <1>3. PICK n : n = Cardinality(DOMAIN b.artifacts)
    OBVIOUS
  <1>4. /\ n \in Nat /\ p \in [1 .. n -> DOMAIN b.artifacts]
        /\ \A i, j \in 1 .. n : p[i] = p[j] => i = j
        /\ \A q \in DOMAIN b.artifacts : \E i \in 1 .. n : p[i] = q
    BY <1>1, <1>2, <1>3, OrderedOnce
  <1>5. PICK m : m = Write(MANIFEST_FILE_NAME, b.manifest)
    OBVIOUS
  <1>6. PICK l : l = Write(LOCK_FILE_NAME, LockContent(v, now))
    OBVIOUS
  <1>7. PICK c : c = Write(BINDING, Unrelated[BINDING])
    OBVIOUS
  <1>8. PICK g : g = Write(GITIGNORE, Unrelated[GITIGNORE])
    OBVIOUS
  <1>9. PICK f : f = [i \in 1 .. n |-> Write(p[i], b.artifacts[p[i]])]
    OBVIOUS
  <1>10. PICK d : d = IF GITIGNORE \in DOMAIN files THEN <<>> ELSE <<g>>
    OBVIOUS
  <1>a. PICK h : h = <<m>>
    OBVIOUS
  <1>e. PICK e : e = <<l, c>>
    OBVIOUS
  <1>11. DOMAIN p = 1 .. n
    BY <1>4
  <1>12. s = Join(Join(Join(h, f), e), d)
    <2>1. s = <<m>> \o f \o <<l, c>> \o d
      BY <1>1, <1>2, <1>5, <1>6, <1>7, <1>8, <1>9, <1>10, <1>11
         DEF PlannedWrites
    <2> QED BY <2>1, <1>a, <1>e DEF Join
  <1> DEFINE W == {m, l, c, g} \cup {f[i] : i \in 1 .. n}
  <1>13. /\ m \in W /\ l \in W /\ c \in W /\ g \in W /\ f \in [1 .. n -> W]
         /\ \A i \in 1 .. n : f[i] = Write(p[i], b.artifacts[p[i]])
    BY <1>9
  <1> HIDE DEF W
  <1>14. d \in Seq(W)
    <2>1. <<>> \in Seq(W) /\ <<g>> \in Seq(W)
      BY <1>13
    <2> QED BY <2>1, <1>10
  <1>15. /\ IsSequence(s) /\ Len(s) = n + 3 + Len(d) /\ Len(d) \in Nat
         /\ s[1] = m /\ s[n + 2] = l /\ s[n + 3] = c
         /\ \A i \in 1 .. n : s[i + 1] = f[i]
         /\ \A i \in 1 .. Len(d) : s[n + 3 + i] = d[i]
    <2>1. n \in Nat
      BY <1>4
    <2>2. h \in Seq({m}) /\ Len(h) = 1 /\ h[1] = m
      BY <1>a
    <2>3. e \in Seq({l, c}) /\ Len(e) = 2 /\ e[1] = l /\ e[2] = c
      BY <1>e
    <2>4. f \in Seq(W) /\ Len(f) = n
      BY <2>1, <1>13
    <2>5. IsSequence(h) /\ IsSequence(f) /\ IsSequence(e) /\ IsSequence(d)
      BY <2>2, <2>3, <2>4, <1>14 DEF IsSequence
    <2>6. PICK t : t = Join(h, f)
      OBVIOUS
    <2>7. PICK u : u = Join(t, e)
      OBVIOUS
    <2>8. s = Join(u, d)
      BY <1>12, <2>6, <2>7
    <2>9. /\ IsSequence(s) /\ Len(s) = n + 3 + Len(d) /\ Len(d) \in Nat
          /\ s[1] = h[1] /\ s[n + 2] = e[1] /\ s[n + 3] = e[2]
          /\ \A i \in 1 .. n : s[i + 1] = f[i]
          /\ \A i \in 1 .. Len(d) : s[n + 3 + i] = d[i]
      BY <2>1, <2>2, <2>3, <2>4, <2>5, <2>6, <2>7, <2>8, Layout
    <2> QED BY <2>2, <2>3, <2>9
  <1>16. IsSequence(s)
    BY <1>15
  <1>17. CASE GITIGNORE \in DOMAIN files
    <2>1. d = <<>> /\ Len(d) = 0
      BY <1>17, <1>10
    <2>2. Len(s) = n + 3 /\ Len(s) # n + 4
      BY <2>1, <1>15, <1>4
    <2>3. Planned(v, now, s, n, p)
      BY <2>2, <1>1, <1>4, <1>5, <1>6, <1>7, <1>13, <1>15 DEF Planned
    <2> QED BY <2>3, <1>16
  <1>18. CASE GITIGNORE \notin DOMAIN files
    <2>1. d = <<g>> /\ Len(d) = 1 /\ d[1] = g
      BY <1>18, <1>10
    <2>2. Len(s) = n + 4 /\ 1 \in 1 .. Len(d) /\ n + 3 + 1 = n + 4
      BY <2>1, <1>15, <1>4
    <2>3. s[n + 4] = g
      BY <2>1, <2>2, <1>15
    <2>4. Planned(v, now, s, n, p)
      BY <2>2, <2>3, <1>1, <1>4, <1>5, <1>6, <1>7, <1>8, <1>13, <1>15, <1>18
         DEF Planned
    <2> QED BY <2>4, <1>16
  <1> QED BY <1>17, <1>18

-----------------------------------------------------------------------------
(* The invariant *)

SuiteOf(q) == proposedSuite(q.events, q.fixture)
FixtureOf(q) == proposedFixture(q.events)

Bundles == {buildBundleFromFixture(dir) : dir \in Projects}
Fields == {"phase", "version", "force", "writes", "late"}

CommandTyped(c) ==
  /\ DOMAIN c = Fields /\ c.phase \in {"plan", "check", "write"}
  /\ c.version \in 0 .. Len(remote)
  /\ c.version = 0 => c.phase # "plan" /\ ~c.force
  /\ IsSequence(c.writes)

TypeInv ==
  /\ seeds \in Nat /\ kills \in Nat
  /\ remote \in Seq(Bundles) /\ IsSequence(edited)
  /\ \A c, d \in command : c = d
  /\ \A c \in command : CommandTyped(c)

Distinct(s) == \A i, j \in DOMAIN s : s[i].path = s[j].path => i = j

ExportWrite(b, w) ==
  \/ w = Write(MANIFEST_FILE_NAME, b.manifest)
  \/ \E p \in DOMAIN b.artifacts : w = Write(p, b.artifacts[p])
  \/ w.path = LOCK_FILE_NAME
  \/ w = Write(BINDING, Unrelated[BINDING])
  \/ w = Write(GITIGNORE, Unrelated[GITIGNORE])

SuiteWrite(q) == Write(q.destination, SuiteOf(q))
FixtureWrite(q) == Write(q.fixture, FixtureOf(q))

KnownWrites(v, b, s) ==
  /\ v # 0 => \A i \in DOMAIN s : ExportWrite(b, s[i])
  /\ v = 0 => \E q \in Proposals :
                \A i \in DOMAIN s : s[i] \in {SuiteWrite(q), FixtureWrite(q)}
  /\ (v = 0 \/ OwnPathsAreKept) => Distinct(s)

\* Where the pending writes come from.
WritesInv ==
  \A c \in command : KnownWrites(c.version, remote[c.version], c.writes)

\* Before the comparison nothing has been left out.
AllInv ==
  \A c \in command : c.phase = "check" =>
    /\ c.version = 0 =>
         \E q \in Proposals : c.writes = <<SuiteWrite(q), FixtureWrite(q)>>
    /\ c.version # 0 =>
         \A p \in DOMAIN remote[c.version].artifacts :
           \E i \in DOMAIN c.writes : c.writes[i].path = p

\* What a command without force has still to write was not there when it
\* looked.
FreshInv ==
  \A c \in command :
    /\ c.late \subseteq ToSet(edited)
    /\ c.phase = "write" /\ ~c.force /\ (c.version = 0 \/ OwnPathsAreKept)
       => \A i \in DOMAIN c.writes :
            c.writes[i].path \in DOMAIN files => c.writes[i].path \in c.late

-----------------------------------------------------------------------------
(* The steps, by what they do to the running command *)

Begun(d, v) ==
  /\ DOMAIN d = Fields /\ d.phase = "plan" /\ d.version = v
  /\ d.writes = <<>> /\ d.late = {}

Follows(d, c) ==
  /\ DOMAIN d = Fields /\ d.version = c.version /\ d.force = c.force

Seeding ==
  /\ command = {} /\ seeds' = seeds + 1
  /\ \E b \in Bundles : remote' = <<b>>
  /\ \A c, d \in command' : c = d
  /\ \A d \in command' : Begun(d, 1)
  /\ UNCHANGED <<files, report, kills, edited>>

Beginning ==
  /\ command = {}
  /\ \E v \in 1 .. Len(remote) : \E d :
       command' = {d} /\ Begun(d, v) /\ (d.force => v = Len(remote))
  /\ UNCHANGED <<files, remote, report, seeds, kills, edited>>

Proposed(q, d) ==
  /\ command' = {d}
  /\ DOMAIN d = Fields /\ d.phase = "check" /\ d.version = 0
  /\ ~d.force /\ d.late = {}
  /\ d.writes = <<SuiteWrite(q), FixtureWrite(q)>>

Proposing ==
  /\ command = {}
  /\ \E q \in Proposals : \E d : Proposed(q, d)
  /\ UNCHANGED <<files, remote, report, seeds, kills, edited>>

PlannedTo(c, now, d) ==
  /\ c.phase = "plan" /\ command' = {d} /\ Follows(d, c)
  /\ d.phase = "check" /\ d.late = c.late
  /\ d.writes = PlannedWrites(c.version, now)

Planning ==
  /\ \E c \in command, now \in Times : \E d : PlannedTo(c, now, d)
  /\ UNCHANGED <<files, remote, report, seeds, kills, edited>>

CheckedTo(c, d) ==
  /\ c.phase = "check" /\ (c.force \/ Conflicts(c) = {})
  /\ command' = {d} /\ Follows(d, c)
  /\ d.phase = "write" /\ d.late = c.late
  /\ d.writes = pendingOf(c.writes)[Len(c.writes)]

Checking ==
  /\ \E c \in command : \E d : CheckedTo(c, d)
  /\ UNCHANGED <<files, remote, report, seeds, kills, edited>>

WroteTo(c, d) ==
  /\ c.phase = "write" /\ c.writes # <<>>
  /\ files' = Put(Head(c.writes).path, Head(c.writes).content)
  /\ command' = {d} /\ Follows(d, c)
  /\ d.phase = "write" /\ d.late = c.late /\ d.writes = Tail(c.writes)

Writing ==
  /\ \E c \in command : \E d : WroteTo(c, d)
  /\ UNCHANGED <<remote, report, seeds, kills, edited>>

Ending ==
  /\ command' = {}
  /\ \/ kills' = kills + 1
     \/ /\ kills' = kills
        /\ \A c \in command : c.phase = "write" => c.writes = <<>>
  /\ UNCHANGED <<files, remote, report, seeds, edited>>

Advancing ==
  /\ remote # <<>>
  /\ \E b \in Bundles : remote' = Append(remote, b)
  /\ UNCHANGED <<files, command, report, seeds, kills, edited>>

Touched(d, c, p) ==
  /\ Follows(d, c) /\ d.phase = c.phase /\ d.writes = c.writes
  /\ d.late = IF c.phase = "write" THEN c.late \cup {p} ELSE c.late

Editing ==
  /\ \E e \in Edits :
       /\ files' = Put(e.path, e.content) /\ edited' = Append(edited, e.path)
       /\ \A d \in command' : \E c \in command : Touched(d, c, e.path)
       /\ \A c \in command : \E d \in command' : Touched(d, c, e.path)
       /\ \A c, d \in command' : c = d
  /\ UNCHANGED <<remote, report, seeds, kills>>

Stepping ==
  \/ Seeding \/ Beginning \/ Proposing \/ Planning \/ Checking \/ Writing
  \/ Ending \/ Validate \/ Advancing \/ Editing

LEMMA StartedFacts ==
  ASSUME NEW v, NEW force
  PROVE  Begun(Started(v, force), v) /\ (Started(v, FALSE).force => FALSE)
  BY DEF Begun, Started, Fields

LEMMA Steps ==
  ASSUME TypeInv, Next
  PROVE  Stepping
  <1>0. \A c \in command : CommandTyped(c)
    BY DEF TypeInv
  <1>a. \A c \in command : DOMAIN c = Fields
    BY <1>0 DEF CommandTyped
  <1>1. ASSUME NEW force \in BOOLEAN, NEW yes \in BOOLEAN,
               InitFromFixture(force, yes)
        PROVE  Stepping
    <2>1. PICK dir \in Fixtures :
            Loads(dir) /\ remote' = <<buildBundleFromFixture(dir)>>
      BY <1>1 DEF InitFromFixture
    <2>2. buildBundleFromFixture(dir) \in Bundles
      BY <2>1 DEF Bundles, Projects
    <2>3. \A d \in command' : d = Started(1, force)
      BY <1>1 DEF InitFromFixture
    <2>4. \A d \in command' : Begun(d, 1)
      BY <2>3, StartedFacts
    <2>5. \A c, d \in command' : c = d
      BY <2>3
    <2>6. /\ command = {} /\ seeds' = seeds + 1
          /\ UNCHANGED <<files, report, kills, edited>>
      BY <1>1 DEF InitFromFixture
    <2>7. Seeding
      BY <2>1, <2>2, <2>4, <2>5, <2>6 DEF Seeding
    <2> QED BY <2>7 DEF Stepping
  <1>2. ASSUME NEW force \in BOOLEAN, InitFromAgent(force)
        PROVE  Stepping
    <2>1. /\ command = {} /\ remote # <<>>
          /\ command' = {Started(Len(remote), force)}
          /\ UNCHANGED <<files, remote, report, seeds, kills, edited>>
      BY <1>2 DEF InitFromAgent
    <2>2. Len(remote) \in 1 .. Len(remote)
      BY <2>1 DEF TypeInv
    <2>3. Beginning
      BY <2>1, <2>2, StartedFacts DEF Beginning
    <2> QED BY <2>3 DEF Stepping
  <1>3. CASE Pull
    <2>1. PICK v \in DOMAIN remote : command' = {Started(v, FALSE)}
      BY <1>3 DEF Pull
    <2>2. v \in 1 .. Len(remote)
      BY DEF TypeInv
    <2>3. command = {} /\ UNCHANGED <<files, remote, report, seeds, kills, edited>>
      BY <1>3 DEF Pull
    <2>4. Beginning
      BY <2>1, <2>2, <2>3, StartedFacts DEF Beginning
    <2> QED BY <2>4 DEF Stepping
  <1>4. CASE Propose
    <2>1. command = {} /\ UNCHANGED <<files, remote, report, seeds, kills, edited>>
      BY <1>4 DEF Propose
    <2>2. PICK q \in Proposals :
            command' =
              {[phase |-> "check", version |-> 0, force |-> FALSE, late |-> {},
                writes |-> <<SuiteWrite(q), FixtureWrite(q)>>]}
      BY <1>4 DEF Propose, SuiteWrite, FixtureWrite, SuiteOf, FixtureOf
    <2>3. PICK w : w = <<SuiteWrite(q), FixtureWrite(q)>>
      OBVIOUS
    <2>4. PICK d : d = [phase |-> "check", version |-> 0, force |-> FALSE,
                        late |-> {}, writes |-> w]
      OBVIOUS
    <2>5. /\ DOMAIN d = Fields /\ d.phase = "check" /\ d.version = 0
          /\ ~d.force /\ d.late = {} /\ d.writes = w
      BY <2>4 DEF Fields
    <2>6. command' = {d}
      BY <2>2, <2>3, <2>4
    <2>7. Proposing
      BY <2>1, <2>3, <2>5, <2>6 DEF Proposing, Proposed
    <2> QED BY <2>7 DEF Stepping
  <1>5. CASE Plan
    <2>1. PICK c \in command, now \in Times :
            /\ c.phase = "plan"
            /\ command' = {[c EXCEPT !.phase = "check",
                                     !.writes = PlannedWrites(c.version, now)]}
      BY <1>5 DEF Plan
    <2>2. PICK w : w = PlannedWrites(c.version, now)
      OBVIOUS
    <2>3. PICK d : d = [c EXCEPT !.phase = "check", !.writes = w]
      OBVIOUS
    <2>4. Follows(d, c) /\ d.phase = "check" /\ d.late = c.late /\ d.writes = w
      BY <2>3, <1>a DEF Fields, Follows
    <2>5. command' = {d}
      BY <2>1, <2>2, <2>3
    <2>6. UNCHANGED <<files, remote, report, seeds, kills, edited>>
      BY <1>5 DEF Plan
    <2>7. Planning
      BY <2>1, <2>2, <2>4, <2>5, <2>6 DEF Planning, PlannedTo
    <2> QED BY <2>7 DEF Stepping
  <1>6. CASE Check
    <2>1. PICK c \in command :
            /\ c.phase = "check"
            /\ command' = {[c EXCEPT !.phase = "write", !.writes = pending] :
                             pending \in applyWrites(c)}
      BY <1>6 DEF Check
    <2>2. UNCHANGED <<files, remote, report, seeds, kills, edited>>
      BY <1>6 DEF Check
    <2>3. CASE Conflicts(c) # {} /\ ~c.force
      <3>1. applyWrites(c) = {}
        BY <2>3 DEF applyWrites
      <3>2. command' = {}
        BY <2>1, <3>1
      <3>3. \A x \in command : x = c
        BY DEF TypeInv
      <3>4. Ending
        BY <3>2, <3>3, <2>1, <2>2 DEF Ending
      <3> QED BY <3>4 DEF Stepping
    <2>4. CASE Conflicts(c) = {} \/ c.force
      <3>1. PICK w : w = pendingOf(c.writes)[Len(c.writes)]
        OBVIOUS
      <3>2. applyWrites(c) = {w}
        BY <2>4, <3>1 DEF applyWrites
      <3>3. PICK d : d = [c EXCEPT !.phase = "write", !.writes = w]
        OBVIOUS
      <3>4. Follows(d, c) /\ d.phase = "write" /\ d.late = c.late /\ d.writes = w
        BY <3>3, <1>a DEF Fields, Follows
      <3>5. command' = {d}
        BY <2>1, <3>2, <3>3
      <3>6. Checking
        BY <2>1, <2>2, <2>4, <3>1, <3>4, <3>5 DEF Checking, CheckedTo
      <3> QED BY <3>6 DEF Stepping
    <2> QED BY <2>3, <2>4
  <1>7. CASE WriteNext
    <2>1. PICK c \in command :
            /\ c.phase = "write" /\ c.writes # <<>>
            /\ files' = Put(Head(c.writes).path, Head(c.writes).content)
            /\ command' = {[c EXCEPT !.writes = Tail(@)]}
      BY <1>7 DEF WriteNext
    <2>2. PICK d : d = [c EXCEPT !.writes = Tail(@)]
      OBVIOUS
    <2>3. /\ Follows(d, c) /\ d.phase = c.phase /\ d.late = c.late
          /\ d.writes = Tail(c.writes)
      BY <2>2, <1>a DEF Fields, Follows
    <2>4. UNCHANGED <<remote, report, seeds, kills, edited>>
      BY <1>7 DEF WriteNext
    <2>5. Writing
      BY <2>1, <2>2, <2>3, <2>4 DEF Writing, WroteTo
    <2> QED BY <2>5 DEF Stepping
  <1>8. CASE Finish
    <2>1. \A c, d \in command : c = d
      BY DEF TypeInv
    <2>2. Ending
      BY <1>8, <2>1 DEF Finish, Ending
    <2> QED BY <2>2 DEF Stepping
  <1>9. CASE Validate
    BY <1>9 DEF Stepping
  <1>10. CASE Advance
    <2>1. PICK dir \in Advances :
            Loads(dir) /\ remote' = Append(remote, buildBundleFromFixture(dir))
      BY <1>10 DEF Advance
    <2>2. buildBundleFromFixture(dir) \in Bundles
      BY <2>1 DEF Bundles, Projects
    <2>3. /\ remote # <<>>
          /\ UNCHANGED <<files, command, report, seeds, kills, edited>>
      BY <1>10 DEF Advance
    <2>4. Advancing
      BY <2>1, <2>2, <2>3 DEF Advancing
    <2> QED BY <2>4 DEF Stepping
  <1>11. CASE EditFile
    <2>1. PICK e \in Edits :
            /\ files' = Put(e.path, e.content)
            /\ command' = {[c EXCEPT !.late = IF c.phase = "write"
                                              THEN @ \cup {e.path}
                                              ELSE @] : c \in command}
            /\ edited' = Append(edited, e.path)
      BY <1>11 DEF EditFile
    <2> DEFINE New(c) == [c EXCEPT !.late = IF c.phase = "write"
                                            THEN @ \cup {e.path} ELSE @]
    <2>2. ASSUME NEW c \in command PROVE Touched(New(c), c, e.path)
      <3>1. PICK l : l = IF c.phase = "write" THEN c.late \cup {e.path} ELSE c.late
        OBVIOUS
      <3>2. PICK d : d = [c EXCEPT !.late = l]
        OBVIOUS
      <3>3. d = New(c)
        BY <3>1, <3>2
      <3>4. /\ DOMAIN d = Fields /\ d.version = c.version /\ d.force = c.force
            /\ d.phase = c.phase /\ d.writes = c.writes /\ d.late = l
        BY <3>2, <1>a DEF Fields
      <3>5. Touched(d, c, e.path)
        BY <3>1, <3>4 DEF Touched, Follows
      <3> QED BY <3>3, <3>5
    <2>3. command' = {New(c) : c \in command}
      BY <2>1
    <2> HIDE DEF New
    <2>4. /\ \A d \in command' : \E c \in command : Touched(d, c, e.path)
          /\ \A c \in command : \E d \in command' : Touched(d, c, e.path)
      BY <2>2, <2>3
    <2>5. \A c, d \in command' : c = d
      <3>1. \A c, d \in command : c = d
        BY DEF TypeInv
      <3> QED BY <2>3, <3>1
    <2>6. UNCHANGED <<remote, report, seeds, kills>>
      BY <1>11 DEF EditFile
    <2>7. Editing
      BY <2>1, <2>4, <2>5, <2>6 DEF Editing
    <2> QED BY <2>7 DEF Stepping
  <1>12. CASE Kill
    <2>1. Ending
      BY <1>12 DEF Kill, Ending
    <2> QED BY <2>1 DEF Stepping
  <1> QED
    BY <1>1, <1>2, <1>3, <1>4, <1>5, <1>6, <1>7, <1>8, <1>9, <1>10, <1>11,
       <1>12 DEF Next

-----------------------------------------------------------------------------
(* Type correctness *)

\* A bundle is made of the files of a project.
LEMMA BundleFacts ==
  ASSUME NEW b \in Bundles
  PROVE  \E dir \in Projects :
           /\ b.manifest = manifestOf(dir) /\ DOMAIN b.artifacts = BundleFiles(dir)
           /\ \A p \in BundleFiles(dir) : b.artifacts[p] = dir[p]
  <1>1. PICK dir \in Projects : b = buildBundleFromFixture(dir)
    BY DEF Bundles
  <1>2. PICK a : a = [p \in BundleFiles(dir) |-> dir[p]]
    OBVIOUS
  <1>3. b.manifest = manifestOf(dir) /\ b.artifacts = a
    BY <1>1, <1>2 DEF buildBundleFromFixture
  <1> QED BY <1>2, <1>3

LEMMA FiniteArtifacts ==
  ASSUME NEW b \in Bundles
  PROVE  IsFiniteSet(DOMAIN b.artifacts)
  BY BundleFacts, ProjectsAreFinite

LEMMA TypeInit == Init => TypeInv
  <1>1. IsSequence(<<>>) /\ <<>> \in Seq(Bundles)
    <2>1. <<>> \in Seq({})
      OBVIOUS
    <2> QED BY <2>1 DEF IsSequence
  <1> QED BY <1>1 DEF Init, TypeInv

\* Adding to a sequence.
LEMMA AppendFacts ==
  ASSUME NEW s, IsSequence(s), NEW x, NEW t, t = Append(s, x)
  PROVE  /\ IsSequence(t) /\ Len(t) = Len(s) + 1
         /\ \A i \in DOMAIN s : i \in DOMAIN t /\ t[i] = s[i]
         /\ ToSet(t) = ToSet(s) \cup {x}
  <1>1. PICK S : s \in Seq(S)
    BY DEF IsSequence
  <1> DEFINE W == S \cup {x}
  <1>2. s \in Seq(W) /\ x \in W
    BY <1>1
  <1> HIDE DEF W
  <1>3. /\ t \in Seq(W) /\ Len(t) = Len(s) + 1 /\ t[Len(s) + 1] = x
        /\ \A i \in 1 .. Len(s) : t[i] = s[i]
    BY <1>2
  <1>4. /\ Len(s) \in Nat /\ DOMAIN s = 1 .. Len(s)
        /\ DOMAIN t = 1 .. (Len(s) + 1)
    BY <1>2, <1>3
  <1>5. \A i \in DOMAIN t : i \in DOMAIN s \/ i = Len(s) + 1
    BY <1>4
  <1>6. Len(s) + 1 \in DOMAIN t /\ \A i \in DOMAIN s : i \in DOMAIN t
    BY <1>4
  <1>7. ToSet(t) = ToSet(s) \cup {x}
    BY <1>3, <1>4, <1>5, <1>6 DEF ToSet
  <1>8. IsSequence(t)
    BY <1>3 DEF IsSequence
  <1> QED BY <1>3, <1>4, <1>6, <1>7, <1>8

\* A published version stays what it is.
LEMMA VersionsStay ==
  ASSUME TypeInv, Advancing
  PROVE  /\ remote' \in Seq(Bundles) /\ Len(remote') = Len(remote) + 1
         /\ Len(remote) \in Nat
         /\ \A v \in 1 .. Len(remote) : remote'[v] = remote[v]
  <1>1. PICK b \in Bundles : remote' = Append(remote, b)
    BY DEF Advancing
  <1>2. remote \in Seq(Bundles)
    BY DEF TypeInv
  <1> QED BY <1>1, <1>2

LEMMA TypedAgain ==
  ASSUME NEW c, CommandTyped(c), NEW d, Follows(d, c),
         d.phase \in {"check", "write"} \/ d.phase = c.phase,
         IsSequence(d.writes), remote' = remote
  PROVE  CommandTyped(d)'
  BY DEF CommandTyped, Follows

LEMMA BegunTyped ==
  ASSUME NEW d, NEW v \in 1 .. Len(remote'), Begun(d, v), Len(remote') \in Nat
  PROVE  CommandTyped(d)'
  <1>1. <<>> \in Seq({})
    OBVIOUS
  <1>2. IsSequence(d.writes)
    BY <1>1 DEF Begun, IsSequence
  <1> QED BY <1>2 DEF CommandTyped, Begun

LEMMA TypeNext ==
  ASSUME TypeInv, Stepping
  PROVE  TypeInv'
  <1>0. /\ seeds \in Nat /\ kills \in Nat
        /\ remote \in Seq(Bundles) /\ IsSequence(edited)
        /\ \A c, d \in command : c = d
        /\ \A c \in command : CommandTyped(c)
    BY DEF TypeInv
  <1>a. Len(remote) \in Nat
    BY <1>0
  <1>1. CASE Seeding
    <2>1. PICK b \in Bundles : remote' = <<b>>
      BY <1>1 DEF Seeding
    <2>2. remote' \in Seq(Bundles) /\ Len(remote') = 1
      BY <2>1
    <2>3. ASSUME NEW d \in command' PROVE CommandTyped(d)'
      <3>1. Begun(d, 1)
        BY <1>1, <2>3 DEF Seeding
      <3>2. 1 \in 1 .. Len(remote') /\ Len(remote') \in Nat
        BY <2>2
      <3> QED BY <3>1, <3>2, BegunTyped
    <2> QED BY <1>0, <1>1, <2>2, <2>3 DEF Seeding, TypeInv
  <1>2. CASE Beginning
    <2>1. PICK v \in 1 .. Len(remote) : \E d : command' = {d} /\ Begun(d, v)
      BY <1>2 DEF Beginning
    <2>2. PICK d : command' = {d} /\ Begun(d, v)
      BY <2>1
    <2>3. remote' = remote
      BY <1>2 DEF Beginning
    <2>4. CommandTyped(d)'
      BY <2>2, <2>3, <1>a, BegunTyped
    <2> QED BY <1>0, <1>2, <2>2, <2>4 DEF Beginning, TypeInv
  <1>3. CASE Proposing
    <2>1. PICK q \in Proposals : \E d : Proposed(q, d)
      BY <1>3 DEF Proposing
    <2>2. PICK d : Proposed(q, d)
      BY <2>1
    <2>a. /\ command' = {d}
          /\ DOMAIN d = Fields /\ d.phase = "check" /\ d.version = 0
          /\ ~d.force /\ d.late = {}
          /\ d.writes = <<SuiteWrite(q), FixtureWrite(q)>>
      BY <2>2 DEF Proposed
    <2>3. d.writes \in Seq({SuiteWrite(q), FixtureWrite(q)})
      BY <2>a
    <2>4. IsSequence(d.writes)
      BY <2>3 DEF IsSequence
    <2>5. remote' = remote
      BY <1>3 DEF Proposing
    <2>6. CommandTyped(d)'
      BY <2>a, <2>4, <2>5, <1>a DEF CommandTyped
    <2> QED BY <1>0, <1>3, <2>a, <2>6 DEF Proposing, TypeInv
  <1>4. CASE Planning
    <2>1. PICK c \in command, now \in Times : \E d : PlannedTo(c, now, d)
      BY <1>4 DEF Planning
    <2>a. PICK d : PlannedTo(c, now, d)
      BY <2>1
    <2>2. /\ c.phase = "plan" /\ command' = {d} /\ Follows(d, c)
          /\ d.phase = "check" /\ d.writes = PlannedWrites(c.version, now)
      BY <2>a DEF PlannedTo
    <2>3. c.version \in 1 .. Len(remote)
      BY <1>0, <1>a, <2>2 DEF CommandTyped
    <2>4. remote[c.version] \in Bundles
      BY <1>0, <2>3
    <2>5. IsSequence(d.writes)
      BY <2>2, <2>4, FiniteArtifacts, PlannedPlaces
    <2>6. remote' = remote
      BY <1>4 DEF Planning
    <2>7. CommandTyped(d)'
      BY <1>0, <2>2, <2>5, <2>6, TypedAgain
    <2> QED BY <1>0, <1>4, <2>2, <2>7 DEF Planning, TypeInv
  <1>5. CASE Checking
    <2>1. PICK c \in command : \E d : CheckedTo(c, d)
      BY <1>5 DEF Checking
    <2>a. PICK d : CheckedTo(c, d)
      BY <2>1
    <2>2. /\ command' = {d} /\ Follows(d, c) /\ d.phase = "write"
          /\ d.writes = pendingOf(c.writes)[Len(c.writes)]
      BY <2>a DEF CheckedTo
    <2>3. IsSequence(c.writes)
      BY <1>0 DEF CommandTyped
    <2>4. PICK S : c.writes \in Seq(S)
      BY <2>3 DEF IsSequence
    <2>5. d.writes \in Seq(S)
      BY <2>2, <2>4, PendingPicks
    <2>6. IsSequence(d.writes)
      BY <2>5 DEF IsSequence
    <2>7. remote' = remote
      BY <1>5 DEF Checking
    <2>8. CommandTyped(d)'
      BY <1>0, <2>2, <2>6, <2>7, TypedAgain
    <2> QED BY <1>0, <1>5, <2>2, <2>8 DEF Checking, TypeInv
  <1>6. CASE Writing
    <2>1. PICK c \in command : \E d : WroteTo(c, d)
      BY <1>6 DEF Writing
    <2>a. PICK d : WroteTo(c, d)
      BY <2>1
    <2>2. /\ c.writes # <<>> /\ command' = {d} /\ Follows(d, c)
          /\ d.phase = "write" /\ d.writes = Tail(c.writes)
      BY <2>a DEF WroteTo
    <2>3. IsSequence(c.writes) /\ c.writes # <<>>
      BY <1>0, <2>2 DEF CommandTyped
    <2>4. IsSequence(d.writes)
      BY <2>2, <2>3, TailFacts
    <2>5. remote' = remote
      BY <1>6 DEF Writing
    <2>6. CommandTyped(d)'
      BY <1>0, <2>2, <2>4, <2>5, TypedAgain
    <2> QED BY <1>0, <1>6, <2>2, <2>6 DEF Writing, TypeInv
  <1>7. CASE Ending
    BY <1>0, <1>7 DEF Ending, TypeInv
  <1>8. CASE Validate
    BY <1>0, <1>8 DEF Validate, TypeInv, CommandTyped
  <1>9. CASE Advancing
    <2>1. /\ remote' \in Seq(Bundles) /\ Len(remote') = Len(remote) + 1
      BY <1>9, VersionsStay
    <2>2. command' = command
      BY <1>9 DEF Advancing
    <2>3. ASSUME NEW c \in command PROVE CommandTyped(c)'
      <3>1. CommandTyped(c)
        BY <1>0
      <3>2. c.version \in 0 .. Len(remote')
        BY <3>1, <2>1, <1>a DEF CommandTyped
      <3> QED BY <3>1, <3>2 DEF CommandTyped
    <2> QED BY <1>0, <1>9, <2>1, <2>2, <2>3 DEF Advancing, TypeInv
  <1>10. CASE Editing
    <2>1. PICK e \in Edits :
            /\ edited' = Append(edited, e.path)
            /\ \A d \in command' : \E c \in command : Touched(d, c, e.path)
            /\ \A c, d \in command' : c = d
      BY <1>10 DEF Editing
    <2>2. IsSequence(edited')
      BY <1>0, <2>1, AppendFacts
    <2>3. remote' = remote
      BY <1>10 DEF Editing
    <2>4. ASSUME NEW d \in command' PROVE CommandTyped(d)'
      <3>1. PICK c \in command : Touched(d, c, e.path)
        BY <2>1, <2>4
      <3>2. Follows(d, c) /\ d.phase = c.phase /\ d.writes = c.writes
        BY <3>1 DEF Touched
      <3>3. CommandTyped(c) /\ IsSequence(d.writes)
        BY <1>0, <3>2 DEF CommandTyped
      <3> QED BY <2>3, <3>2, <3>3, TypedAgain
    <2> QED BY <1>0, <1>10, <2>1, <2>2, <2>3, <2>4 DEF Editing, TypeInv
  <1> QED
    BY <1>1, <1>2, <1>3, <1>4, <1>5, <1>6, <1>7, <1>8, <1>9, <1>10 DEF Stepping

LEMMA TypeStays == TypeInv /\ UNCHANGED vars => TypeInv'
  BY DEF TypeInv, vars, CommandTyped

-----------------------------------------------------------------------------
(* Pending writes stem from planned ones *)

LEMMA WriteFacts ==
  ASSUME NEW p, NEW x
  PROVE  Write(p, x).path = p /\ Write(p, x).content = x
  BY DEF Write

LEMMA OwnPathsDiffer ==
  /\ MANIFEST_FILE_NAME # LOCK_FILE_NAME /\ MANIFEST_FILE_NAME # BINDING
  /\ MANIFEST_FILE_NAME # GITIGNORE /\ LOCK_FILE_NAME # BINDING
  /\ LOCK_FILE_NAME # GITIGNORE /\ BINDING # GITIGNORE
  /\ MANIFEST_FILE_NAME \in OwnPaths /\ LOCK_FILE_NAME \in OwnPaths
  /\ BINDING \in OwnPaths /\ GITIGNORE \in OwnPaths
  BY DEF OwnPaths, MANIFEST_FILE_NAME, LOCK_FILE_NAME, BINDING, GITIGNORE

\* The writes t are some of s, in their order.
Selects(t, s, f) ==
  /\ f \in [DOMAIN t -> DOMAIN s]
  /\ \A k \in DOMAIN t : t[k] = s[f[k]]
  /\ \A k, l \in DOMAIN t : k < l => f[k] < f[l]

LEMMA SelectedOnce ==
  ASSUME NEW t, NEW s, NEW f, IsSequence(t), IsSequence(s), Selects(t, s, f)
  PROVE  \A k, l \in DOMAIN t : f[k] = f[l] => k = l
  <1>1. DOMAIN t \subseteq Nat /\ DOMAIN s \subseteq Nat
    BY SequenceFacts
  <1>2. \A k \in DOMAIN t : f[k] \in Nat
    BY <1>1 DEF Selects
  <1>3. \A k, l \in DOMAIN t : k < l \/ l < k \/ k = l
    BY <1>1
  <1>4. \A k, l \in DOMAIN t : k < l => f[k] # f[l]
    BY <1>2 DEF Selects
  <1> QED BY <1>3, <1>4

LEMMA SameSelects ==
  ASSUME NEW s, NEW t, t = s
  PROVE  \E f : Selects(t, s, f)
  <1> DEFINE f == [k \in DOMAIN s |-> k]
  <1>1. Selects(t, s, f)
    BY DEF Selects
  <1> QED BY <1>1

\* WriteNext: the first write is done, the others remain.
LEMMA WrittenRest ==
  ASSUME NEW c, NEW d, IsSequence(c.writes), WroteTo(c, d)
  PROVE  \E f : /\ Selects(d.writes, c.writes, f)
                /\ \A k \in DOMAIN d.writes : f[k] # 1
                /\ \A i \in DOMAIN c.writes :
                     i # 1 => \E k \in DOMAIN d.writes : f[k] = i
  <1>1. PICK s, t : s = c.writes /\ t = d.writes
    OBVIOUS
  <1>2. IsSequence(s) /\ s # <<>> /\ t = Tail(s)
    BY <1>1 DEF WroteTo
  <1>3. /\ IsSequence(t)
        /\ \A i \in DOMAIN t : i + 1 \in DOMAIN s /\ t[i] = s[i + 1]
        /\ \A i \in DOMAIN s : i # 1 => i - 1 \in DOMAIN t
    BY <1>2, TailFacts
  <1>4. DOMAIN t \subseteq Nat /\ DOMAIN s \subseteq Nat /\ 0 \notin DOMAIN t
    BY <1>2, <1>3, SequenceFacts
  <1> DEFINE f == [k \in DOMAIN t |-> k + 1]
  <1>5. Selects(t, s, f)
    BY <1>3, <1>4 DEF Selects
  <1>6. \A k \in DOMAIN t : f[k] # 1
    BY <1>4
  <1>7. ASSUME NEW i \in DOMAIN s, i # 1
        PROVE  \E k \in DOMAIN t : f[k] = i
    <2>1. i - 1 \in DOMAIN t /\ i \in Nat
      BY <1>3, <1>4, <1>7
    <2>2. f[i - 1] = i
      BY <2>1
    <2> HIDE DEF f
    <2> QED BY <2>1, <2>2
  <1> QED BY <1>1, <1>5, <1>6, <1>7

\* The comparison selects the writes that would change something.
Compared(t, s, f) ==
  /\ Selects(t, s, f)
  /\ \A k \in DOMAIN t : ~Unchanged(t[k])
  /\ \A i \in DOMAIN s : ~Unchanged(s[i]) => \E k \in DOMAIN t : f[k] = i

LEMMA CheckSelects ==
  ASSUME NEW s, IsSequence(s), NEW t, t = pendingOf(s)[Len(s)]
  PROVE  \E f : Compared(t, s, f)
  <1>1. PICK S : s \in Seq(S)
    BY DEF IsSequence
  <1>2. t \in Seq(S) /\ \E f : Picks(s, t, Len(s), f)
    BY <1>1, PendingPicks
  <1>3. PICK f : Picks(s, t, Len(s), f)
    BY <1>2
  <1>4. DOMAIN t = 1 .. Len(t) /\ DOMAIN s = 1 .. Len(s)
    BY <1>1, <1>2
  <1>5. Selects(t, s, f)
    BY <1>3, <1>4 DEF Picks, Selects
  <1>6. \A k \in DOMAIN t : ~Unchanged(t[k])
    BY <1>3, <1>4 DEF Picks
  <1>7. \A i \in DOMAIN s : ~Unchanged(s[i]) => \E k \in DOMAIN t : f[k] = i
    BY <1>3, <1>4 DEF Picks
  <1> QED BY <1>5, <1>6, <1>7 DEF Compared

LEMMA KnownKept ==
  ASSUME NEW s, NEW t, IsSequence(s), IsSequence(t), NEW f, Selects(t, s, f),
         NEW v, NEW b, KnownWrites(v, b, s), NEW a, v # 0 => a = b
  PROVE  KnownWrites(v, a, t)
  <1>1. \A k \in DOMAIN t : f[k] \in DOMAIN s /\ t[k] = s[f[k]]
    BY DEF Selects
  <1>2. v # 0 => \A k \in DOMAIN t : ExportWrite(a, t[k])
    BY <1>1 DEF KnownWrites
  <1>3. ASSUME v = 0
        PROVE  \E q \in Proposals :
                 \A i \in DOMAIN t : t[i] \in {SuiteWrite(q), FixtureWrite(q)}
    <2>1. PICK q \in Proposals :
            \A i \in DOMAIN s : s[i] \in {SuiteWrite(q), FixtureWrite(q)}
      BY <1>3 DEF KnownWrites
    <2> QED BY <2>1, <1>1
  <1>4. ASSUME Distinct(s) PROVE Distinct(t)
    BY <1>1, <1>4, SelectedOnce DEF Distinct
  <1> QED BY <1>2, <1>3, <1>4 DEF KnownWrites

LEMMA ArtifactsElsewhere ==
  ASSUME NEW b \in Bundles, OwnPathsAreKept
  PROVE  DOMAIN b.artifacts \cap OwnPaths = {}
  <1>1. PICK dir \in Projects : DOMAIN b.artifacts = BundleFiles(dir)
    BY BundleFacts
  <1> QED BY <1>1 DEF OwnPathsAreKept

\* What each of the planned writes is.
PlannedWrite(v, now, w) ==
  \/ w = Write(MANIFEST_FILE_NAME, remote[v].manifest)
  \/ \E q \in DOMAIN remote[v].artifacts : w = Write(q, remote[v].artifacts[q])
  \/ w = Write(LOCK_FILE_NAME, LockContent(v, now))
  \/ w = Write(BINDING, Unrelated[BINDING])
  \/ w = Write(GITIGNORE, Unrelated[GITIGNORE]) /\ GITIGNORE \notin DOMAIN files

\* Of what an export writes, every path is written once.
LEMMA PlannedKnown ==
  ASSUME NEW v, v # 0, remote[v] \in Bundles, NEW now, NEW s, NEW n, NEW p,
         IsSequence(s), Planned(v, now, s, n, p)
  PROVE  /\ KnownWrites(v, remote[v], s)
         /\ \A i \in DOMAIN s : PlannedWrite(v, now, s[i])
  <1>1. PICK b : b = remote[v]
    OBVIOUS
  <1>2. /\ n \in Nat /\ Len(s) \in {n + 3, n + 4} /\ DOMAIN s = 1 .. Len(s)
        /\ Len(s) \in Nat
    BY SequenceFacts DEF Planned
  <1>3. \A i \in DOMAIN s : \/ i = 1 \/ i = n + 2 \/ i = n + 3
                            \/ i = n + 4 /\ Len(s) = n + 4
                            \/ i - 1 \in 1 .. n /\ i = (i - 1) + 1
    <2> TAKE i \in DOMAIN s
    <2>1. n \in Nat /\ i \in Nat /\ i >= 1 /\ i <= Len(s)
      <3>1. PICK m \in Nat : m = Len(s)
        BY <1>2
      <3>2. i \in 1 .. m
        BY <1>2, <3>1
      <3>3. i \in Nat /\ i >= 1 /\ i <= m
        BY <3>1, <3>2
      <3>4. n \in Nat
        BY <1>2
      <3> QED BY <3>1, <3>3, <3>4
    <2>2. Len(s) = n + 3 \/ Len(s) = n + 4
      BY <1>2
    <2>3. i <= n + 1 \/ i = n + 2 \/ i = n + 3 \/ (i = n + 4 /\ Len(s) = n + 4)
      BY <2>1, <2>2
    <2>4. i <= n + 1 /\ i # 1 => i - 1 \in 1 .. n /\ i = (i - 1) + 1
      BY <2>1
    <2> QED BY <2>3, <2>4
  <1>4. /\ s[1] = Write(MANIFEST_FILE_NAME, b.manifest)
        /\ s[n + 2] = Write(LOCK_FILE_NAME, LockContent(v, now))
        /\ s[n + 3] = Write(BINDING, Unrelated[BINDING])
        /\ Len(s) = n + 4 => /\ s[n + 4] = Write(GITIGNORE, Unrelated[GITIGNORE])
                             /\ GITIGNORE \notin DOMAIN files
    BY <1>1 DEF Planned
  <1>5. \A i \in 1 .. n : /\ p[i] \in DOMAIN b.artifacts
                          /\ s[i + 1] = Write(p[i], b.artifacts[p[i]])
    BY <1>1 DEF Planned
  <1>a. \A i \in DOMAIN s : PlannedWrite(v, now, s[i])
    <2> TAKE i \in DOMAIN s
    <2>1. CASE i = 1
      BY <2>1, <1>1, <1>4 DEF PlannedWrite
    <2>2. CASE i = n + 2
      BY <2>2, <1>4 DEF PlannedWrite
    <2>3. CASE i = n + 3
      BY <2>3, <1>4 DEF PlannedWrite
    <2>4. CASE i = n + 4 /\ Len(s) = n + 4
      BY <2>4, <1>4 DEF PlannedWrite
    <2>5. CASE i - 1 \in 1 .. n /\ i = (i - 1) + 1
      <3>1. PICK k \in 1 .. n : i = k + 1
        BY <2>5
      <3> QED BY <3>1, <1>1, <1>5 DEF PlannedWrite
    <2> QED BY <2>1, <2>2, <2>3, <2>4, <2>5, <1>3
  <1>6. \A i \in DOMAIN s : ExportWrite(b, s[i])
    BY <1>a, <1>1, WriteFacts DEF PlannedWrite, ExportWrite
  <1>7. ASSUME OwnPathsAreKept PROVE Distinct(s)
    <2>1. \A i \in 1 .. n : p[i] \notin OwnPaths
      BY <1>1, <1>5, <1>7, ArtifactsElsewhere
    <2>2. /\ s[1].path = MANIFEST_FILE_NAME /\ s[n + 2].path = LOCK_FILE_NAME
          /\ s[n + 3].path = BINDING
          /\ Len(s) = n + 4 => s[n + 4].path = GITIGNORE
      BY <1>4, WriteFacts
    <2>3. \A i \in 1 .. n : s[i + 1].path = p[i]
      BY <1>5, WriteFacts
    <2>4. \A i, j \in 1 .. n : p[i] = p[j] => i = j
      BY DEF Planned
    <2>5. ASSUME NEW i \in DOMAIN s, NEW j \in DOMAIN s, s[i].path = s[j].path
          PROVE  i = j
      <3>1. CASE i - 1 \in 1 .. n /\ i = (i - 1) + 1
        <4>1. s[i].path = p[i - 1] /\ p[i - 1] \notin OwnPaths
          BY <3>1, <2>1, <2>3
        <4>2. j - 1 \in 1 .. n /\ j = (j - 1) + 1
          BY <4>1, <2>2, <2>5, <1>3, OwnPathsDiffer
        <4>3. s[j].path = p[j - 1]
          BY <4>2, <2>3
        <4>4. i - 1 = j - 1
          BY <4>1, <4>2, <4>3, <3>1, <2>4, <2>5
        <4> QED BY <4>4, <4>2, <3>1
      <3>2. CASE j - 1 \in 1 .. n /\ j = (j - 1) + 1
        <4>1. s[j].path = p[j - 1] /\ p[j - 1] \notin OwnPaths
          BY <3>2, <2>1, <2>3
        <4>2. i - 1 \in 1 .. n /\ i = (i - 1) + 1
          BY <4>1, <2>2, <2>5, <1>3, OwnPathsDiffer
        <4> QED BY <4>2, <3>1
      <3>3. CASE /\ i \in {1, n + 2, n + 3} \/ (i = n + 4 /\ Len(s) = n + 4)
                 /\ j \in {1, n + 2, n + 3} \/ (j = n + 4 /\ Len(s) = n + 4)
        BY <3>3, <2>2, <2>5, OwnPathsDiffer
      <3>4. /\ \/ i \in {1, n + 2, n + 3} \/ (i = n + 4 /\ Len(s) = n + 4)
               \/ i - 1 \in 1 .. n /\ i = (i - 1) + 1
            /\ \/ j \in {1, n + 2, n + 3} \/ (j = n + 4 /\ Len(s) = n + 4)
               \/ j - 1 \in 1 .. n /\ j = (j - 1) + 1
        BY <1>3
      <3> QED BY <3>1, <3>2, <3>3, <3>4
    <2> QED BY <2>5 DEF Distinct
  <1> QED BY <1>1, <1>a, <1>6, <1>7 DEF KnownWrites

LEMMA ProposedKnown ==
  ASSUME NEW q \in Proposals, NEW b,
         NEW s, s = <<SuiteWrite(q), FixtureWrite(q)>>
  PROVE  KnownWrites(0, b, s)
  <1>1. DOMAIN s = {1, 2} /\ s[1] = SuiteWrite(q) /\ s[2] = FixtureWrite(q)
    OBVIOUS
  <1>2. s[1].path = q.destination /\ s[2].path = q.fixture
    BY <1>1, WriteFacts DEF SuiteWrite, FixtureWrite
  <1>3. q.destination # q.fixture
    BY ProposalsElsewhere
  <1>4. Distinct(s)
    BY <1>1, <1>2, <1>3 DEF Distinct
  <1> QED BY <1>1, <1>4 DEF KnownWrites

LEMMA WritesNext ==
  ASSUME TypeInv, WritesInv, Stepping
  PROVE  WritesInv'
  <1>0. /\ remote \in Seq(Bundles) /\ Len(remote) \in Nat
        /\ \A c \in command : CommandTyped(c) /\ IsSequence(c.writes)
        /\ \A c \in command : KnownWrites(c.version, remote[c.version], c.writes)
    BY DEF TypeInv, CommandTyped, WritesInv
  <1>n. ASSUME NEW v, v # 0, NEW b PROVE KnownWrites(v, b, <<>>)
    BY <1>n DEF KnownWrites, Distinct
  <1>1. CASE Seeding
    <2>1. ASSUME NEW d \in command'
          PROVE  KnownWrites(d.version, remote'[d.version], d.writes)
      <3>1. d.version = 1 /\ d.writes = <<>>
        BY <1>1, <2>1 DEF Seeding, Begun
      <3> QED BY <3>1, <1>n
    <2> QED BY <2>1 DEF WritesInv
  <1>2. CASE Beginning
    <2>1. ASSUME NEW d \in command'
          PROVE  KnownWrites(d.version, remote'[d.version], d.writes)
      <3>1. d.version \in 1 .. Len(remote) /\ d.writes = <<>>
        BY <1>2, <2>1 DEF Beginning, Begun
      <3>2. d.version # 0
        BY <3>1
      <3> QED BY <3>1, <3>2, <1>n
    <2> QED BY <2>1 DEF WritesInv
  <1>3. CASE Proposing
    <2>1. PICK q \in Proposals : \E d : Proposed(q, d)
      BY <1>3 DEF Proposing
    <2>2. PICK d : Proposed(q, d)
      BY <2>1
    <2>3. /\ command' = {d} /\ d.version = 0
          /\ d.writes = <<SuiteWrite(q), FixtureWrite(q)>>
      BY <2>2 DEF Proposed
    <2>4. KnownWrites(d.version, remote'[d.version], d.writes)
      BY <2>3, ProposedKnown
    <2> QED BY <2>3, <2>4 DEF WritesInv
  <1>4. CASE Planning
    <2>1. PICK c \in command, now \in Times : \E d : PlannedTo(c, now, d)
      BY <1>4 DEF Planning
    <2>2. PICK d : PlannedTo(c, now, d)
      BY <2>1
    <2>3. /\ command' = {d} /\ d.version = c.version /\ c.phase = "plan"
          /\ d.writes = PlannedWrites(c.version, now) /\ remote' = remote
      BY <2>2, <1>4 DEF Planning, PlannedTo, Follows
    <2>4. c.version \in 1 .. Len(remote) /\ c.version # 0
      BY <1>0, <2>3 DEF CommandTyped
    <2>5. remote[c.version] \in Bundles
      BY <1>0, <2>4
    <2>6. IsSequence(d.writes) /\ \E n, p : Planned(c.version, now, d.writes, n, p)
      BY <2>3, <2>5, FiniteArtifacts, PlannedPlaces
    <2>7. KnownWrites(c.version, remote[c.version], d.writes)
      BY <2>4, <2>5, <2>6, PlannedKnown
    <2> QED BY <2>3, <2>7 DEF WritesInv
  <1>5. CASE Checking
    <2>1. PICK c \in command : \E d : CheckedTo(c, d)
      BY <1>5 DEF Checking
    <2>2. PICK d : CheckedTo(c, d)
      BY <2>1
    <2>3. /\ command' = {d} /\ d.version = c.version /\ remote' = remote
          /\ d.writes = pendingOf(c.writes)[Len(c.writes)]
      BY <2>2, <1>5 DEF Checking, CheckedTo, Follows
    <2>4. PICK f : Selects(d.writes, c.writes, f)
      BY <1>0, <2>3, CheckSelects DEF Compared
    <2>5. IsSequence(d.writes)
      BY <2>3, TypeNext DEF TypeInv, CommandTyped
    <2>6. KnownWrites(c.version, remote[c.version], d.writes)
      BY <1>0, <2>4, <2>5, KnownKept
    <2> QED BY <2>3, <2>6 DEF WritesInv
  <1>6. CASE Writing
    <2>1. PICK c \in command : \E d : WroteTo(c, d)
      BY <1>6 DEF Writing
    <2>2. PICK d : WroteTo(c, d)
      BY <2>1
    <2>3. /\ command' = {d} /\ d.version = c.version /\ remote' = remote
          /\ c.writes # <<>> /\ d.writes = Tail(c.writes)
      BY <2>2, <1>6 DEF Writing, WroteTo, Follows
    <2>4. PICK f : Selects(d.writes, c.writes, f)
      BY <1>0, <2>2, WrittenRest
    <2>5. IsSequence(d.writes)
      BY <1>0, <2>3, TailFacts
    <2>6. KnownWrites(c.version, remote[c.version], d.writes)
      BY <1>0, <2>4, <2>5, KnownKept
    <2> QED BY <2>3, <2>6 DEF WritesInv
  <1>7. CASE Ending
    BY <1>7 DEF Ending, WritesInv
  <1>8. CASE Validate
    BY <1>8 DEF Validate, WritesInv
  <1>9. CASE Advancing
    <2>1. command' = command
      BY <1>9 DEF Advancing
    <2>2. ASSUME NEW c \in command
          PROVE  KnownWrites(c.version, remote'[c.version], c.writes)
      <3>1. c.version # 0 => c.version \in 1 .. Len(remote)
        BY <1>0 DEF CommandTyped
      <3>2. c.version # 0 => remote'[c.version] = remote[c.version]
        BY <3>1, <1>9, VersionsStay
      <3>3. PICK f : Selects(c.writes, c.writes, f)
        BY SameSelects
      <3> QED BY <1>0, <3>2, <3>3, KnownKept
    <2> QED BY <2>1, <2>2 DEF WritesInv
  <1>10. CASE Editing
    <2>1. remote' = remote
      BY <1>10 DEF Editing
    <2>2. ASSUME NEW d \in command'
          PROVE  KnownWrites(d.version, remote'[d.version], d.writes)
      <3>1. PICK c \in command : d.version = c.version /\ d.writes = c.writes
        BY <1>10, <2>2 DEF Editing, Touched, Follows
      <3> QED BY <1>0, <2>1, <3>1
    <2> QED BY <2>2 DEF WritesInv
  <1> QED
    BY <1>1, <1>2, <1>3, <1>4, <1>5, <1>6, <1>7, <1>8, <1>9, <1>10 DEF Stepping

LEMMA AllNext ==
  ASSUME TypeInv, AllInv, Stepping
  PROVE  AllInv'
  <1>0. /\ remote \in Seq(Bundles) /\ Len(remote) \in Nat
        /\ \A c \in command : CommandTyped(c)
    BY DEF TypeInv
  <1>1. CASE Seeding
    BY <1>1 DEF Seeding, Begun, AllInv
  <1>2. CASE Beginning
    BY <1>2 DEF Beginning, Begun, AllInv
  <1>3. CASE Proposing
    <2>1. PICK q \in Proposals : \E d : Proposed(q, d)
      BY <1>3 DEF Proposing
    <2>2. PICK d : Proposed(q, d)
      BY <2>1
    <2> QED BY <2>2 DEF Proposed, AllInv
  <1>4. CASE Planning
    <2>1. PICK c \in command, now \in Times : \E d : PlannedTo(c, now, d)
      BY <1>4 DEF Planning
    <2>2. PICK d : PlannedTo(c, now, d)
      BY <2>1
    <2>3. /\ command' = {d} /\ d.version = c.version /\ c.phase = "plan"
          /\ d.writes = PlannedWrites(c.version, now) /\ remote' = remote
      BY <2>2, <1>4 DEF Planning, PlannedTo, Follows
    <2>4. c.version \in 1 .. Len(remote) /\ c.version # 0
      BY <1>0, <2>3 DEF CommandTyped
    <2>5. remote[c.version] \in Bundles
      BY <1>0, <2>4
    <2>6. IsSequence(d.writes) /\ \E n, p : Planned(c.version, now, d.writes, n, p)
      BY <2>3, <2>5, FiniteArtifacts, PlannedPlaces
    <2>7. PICK n, p : Planned(c.version, now, d.writes, n, p)
      BY <2>6
    <2>8. ASSUME NEW q \in DOMAIN remote[c.version].artifacts
          PROVE  \E i \in DOMAIN d.writes : d.writes[i].path = q
      <3>1. PICK i \in 1 .. n : p[i] = q
        BY <2>7, <2>8 DEF Planned
      <3>2. d.writes[i + 1] =
              Write(p[i], remote[c.version].artifacts[p[i]])
        BY <3>1, <2>7 DEF Planned
      <3>a. d.writes[i + 1].path = q
        BY <3>1, <3>2, WriteFacts
      <3>3. i + 1 \in DOMAIN d.writes
        <4>1. n \in Nat /\ Len(d.writes) \in {n + 3, n + 4}
          BY <2>7 DEF Planned
        <4> QED BY <4>1, <2>6, <3>1, SequenceFacts
      <3> QED BY <3>a, <3>3
    <2> QED BY <2>3, <2>4, <2>8 DEF AllInv
  <1>5. CASE Checking
    BY <1>5 DEF Checking, CheckedTo, AllInv
  <1>6. CASE Writing
    BY <1>6 DEF Writing, WroteTo, AllInv
  <1>7. CASE Ending
    BY <1>7 DEF Ending, AllInv
  <1>8. CASE Validate
    BY <1>8 DEF Validate, AllInv
  <1>9. CASE Advancing
    <2>1. command' = command
      BY <1>9 DEF Advancing
    <2>2. ASSUME NEW c \in command, c.version # 0
          PROVE  remote'[c.version] = remote[c.version]
      <3>1. c.version \in 1 .. Len(remote)
        BY <1>0, <2>2 DEF CommandTyped
      <3> QED BY <3>1, <1>9, VersionsStay
    <2> QED BY <2>1, <2>2 DEF AllInv
  <1>10. CASE Editing
    <2>1. remote' = remote
      BY <1>10 DEF Editing
    <2>2. \A d \in command' : \E c \in command :
            d.version = c.version /\ d.writes = c.writes /\ d.phase = c.phase
      BY <1>10 DEF Editing, Touched, Follows
    <2> QED BY <2>1, <2>2 DEF AllInv
  <1> QED
    BY <1>1, <1>2, <1>3, <1>4, <1>5, <1>6, <1>7, <1>8, <1>9, <1>10 DEF Stepping

-----------------------------------------------------------------------------
(* Edits are kept *)

LEMMA PutFacts ==
  ASSUME NEW p, NEW x, files' = Put(p, x)
  PROVE  /\ DOMAIN files' = DOMAIN files \cup {p} /\ files'[p] = x
         /\ \A q \in DOMAIN files : q # p => files'[q] = files[q]
  BY DEF Put

\* WriteNext: the file of the first write is there, the others are as they were.
LEMMA WrittenHead ==
  ASSUME NEW c, NEW d, IsSequence(c.writes), WroteTo(c, d)
  PROVE  /\ 1 \in DOMAIN c.writes /\ IsSequence(d.writes)
         /\ DOMAIN files' = DOMAIN files \cup {c.writes[1].path}
         /\ files'[c.writes[1].path] = c.writes[1].content
         /\ \A q \in DOMAIN files :
              q # c.writes[1].path => files'[q] = files[q]
  <1>1. /\ c.writes # <<>> /\ d.writes = Tail(c.writes)
        /\ files' = Put(Head(c.writes).path, Head(c.writes).content)
    BY DEF WroteTo
  <1>2. IsSequence(d.writes) /\ 1 \in DOMAIN c.writes /\ Head(c.writes) = c.writes[1]
    BY <1>1, TailFacts
  <1>3. PICK p, x : p = c.writes[1].path /\ x = c.writes[1].content
    OBVIOUS
  <1>4. files' = Put(p, x)
    BY <1>1, <1>2, <1>3
  <1>5. /\ DOMAIN files' = DOMAIN files \cup {p} /\ files'[p] = x
        /\ \A q \in DOMAIN files : q # p => files'[q] = files[q]
    BY <1>4, PutFacts
  <1> QED BY <1>2, <1>3, <1>5

\* Without a conflict, what is there with another content is not written.
LEMMA NoConflict ==
  ASSUME NEW c, Conflicts(c) = {}, IsSequence(c.writes),
         NEW i \in DOMAIN c.writes, c.writes[i].path \in DOMAIN files
  PROVE  Unchanged(c.writes[i])
  <1>1. c.writes[i] \in ToSet(c.writes)
    BY DEF ToSet
  <1> QED BY <1>1 DEF Conflicts

LEMMA FreshNext ==
  ASSUME TypeInv, WritesInv, FreshInv, Stepping
  PROVE  FreshInv'
  <1>0. /\ \A c \in command : CommandTyped(c) /\ IsSequence(c.writes)
        /\ \A c \in command : c.late \subseteq ToSet(edited)
        /\ IsSequence(edited)
    BY DEF TypeInv, CommandTyped, FreshInv
  <1>1. CASE Seeding
    BY <1>1 DEF Seeding, Begun, FreshInv
  <1>2. CASE Beginning
    BY <1>2 DEF Beginning, Begun, FreshInv
  <1>3. CASE Proposing
    BY <1>3 DEF Proposing, Proposed, FreshInv
  <1>4. CASE Planning
    BY <1>0, <1>4 DEF Planning, PlannedTo, FreshInv
  <1>5. CASE Checking
    <2>1. PICK c \in command : \E d : CheckedTo(c, d)
      BY <1>5 DEF Checking
    <2>2. PICK d : CheckedTo(c, d)
      BY <2>1
    <2>3. /\ command' = {d} /\ d.late = c.late /\ d.force = c.force
          /\ d.writes = pendingOf(c.writes)[Len(c.writes)]
          /\ c.force \/ Conflicts(c) = {}
      BY <2>2 DEF CheckedTo, Follows
    <2>4. PICK f : /\ Selects(d.writes, c.writes, f)
                   /\ \A k \in DOMAIN d.writes : ~Unchanged(d.writes[k])
      BY <1>0, <2>3, CheckSelects DEF Compared
    <2>5. ASSUME ~d.force, NEW k \in DOMAIN d.writes
          PROVE  d.writes[k].path \notin DOMAIN files
      <3>1. f[k] \in DOMAIN c.writes /\ d.writes[k] = c.writes[f[k]]
        BY <2>4 DEF Selects
      <3>2. Conflicts(c) = {}
        BY <2>3, <2>5
      <3> QED BY <1>0, <2>4, <3>1, <3>2, NoConflict
    <2>6. files' = files /\ edited' = edited
      BY <1>5 DEF Checking
    <2> QED BY <1>0, <2>3, <2>5, <2>6 DEF FreshInv
  <1>6. CASE Writing
    <2>1. PICK c \in command : \E d : WroteTo(c, d)
      BY <1>6 DEF Writing
    <2>2. PICK d : WroteTo(c, d)
      BY <2>1
    <2>3. /\ command' = {d} /\ d.late = c.late /\ d.force = c.force
          /\ d.version = c.version /\ c.phase = "write" /\ edited' = edited
      BY <1>6, <2>2 DEF Writing, WroteTo, Follows
    <2>4. /\ 1 \in DOMAIN c.writes
          /\ DOMAIN files' = DOMAIN files \cup {c.writes[1].path}
      BY <1>0, <2>2, WrittenHead
    <2>a. PICK f : /\ Selects(d.writes, c.writes, f)
                   /\ \A k \in DOMAIN d.writes : f[k] # 1
      BY <1>0, <2>2, WrittenRest
    <2>5. ASSUME ~d.force, d.version = 0 \/ OwnPathsAreKept,
                 NEW i \in DOMAIN d.writes, d.writes[i].path \in DOMAIN files'
          PROVE  d.writes[i].path \in d.late
      <3>1. f[i] \in DOMAIN c.writes /\ d.writes[i] = c.writes[f[i]] /\ f[i] # 1
        BY <2>a DEF Selects
      <3>2. Distinct(c.writes)
        BY <2>3, <2>5 DEF WritesInv, KnownWrites
      <3>3. d.writes[i].path # c.writes[1].path
        BY <2>4, <3>1, <3>2 DEF Distinct
      <3>4. d.writes[i].path \in DOMAIN files
        BY <2>4, <2>5, <3>3
      <3> QED BY <2>3, <2>5, <3>1, <3>4 DEF FreshInv
    <2> QED BY <1>0, <2>3, <2>5 DEF FreshInv
  <1>7. CASE Ending
    BY <1>7 DEF Ending, FreshInv
  <1>8. CASE Validate
    BY <1>8 DEF Validate, FreshInv
  <1>9. CASE Advancing
    BY <1>9 DEF Advancing, FreshInv
  <1>10. CASE Editing
    <2>1. PICK e \in Edits :
            /\ files' = Put(e.path, e.content)
            /\ edited' = Append(edited, e.path)
            /\ \A d \in command' : \E c \in command : Touched(d, c, e.path)
      BY <1>10 DEF Editing
    <2>2. ToSet(edited') = ToSet(edited) \cup {e.path}
      <3>1. PICK x, t : x = e.path /\ t = Append(edited, x)
        OBVIOUS
      <3>2. ToSet(t) = ToSet(edited) \cup {x}
        BY <1>0, <3>1, AppendFacts
      <3> QED BY <2>1, <3>1, <3>2
    <2>3. DOMAIN files' = DOMAIN files \cup {e.path}
      BY <2>1, PutFacts
    <2>4. ASSUME NEW d \in command'
          PROVE  /\ d.late \subseteq ToSet(edited')
                 /\ d.phase = "write" /\ ~d.force
                    /\ (d.version = 0 \/ OwnPathsAreKept)
                    => \A i \in DOMAIN d.writes :
                         d.writes[i].path \in DOMAIN files'
                           => d.writes[i].path \in d.late
      <3>1. PICK c \in command : Touched(d, c, e.path)
        BY <2>1, <2>4
      <3>2. /\ d.phase = c.phase /\ d.force = c.force /\ d.version = c.version
            /\ d.writes = c.writes
            /\ d.late = IF c.phase = "write" THEN c.late \cup {e.path} ELSE c.late
        BY <3>1 DEF Touched, Follows
      <3>3. d.late \subseteq ToSet(edited')
        BY <1>0, <2>2, <3>2
      <3>4. ASSUME d.phase = "write", ~d.force, d.version = 0 \/ OwnPathsAreKept,
                   NEW i \in DOMAIN d.writes, d.writes[i].path \in DOMAIN files'
            PROVE  d.writes[i].path \in d.late
        BY <2>3, <3>2, <3>4 DEF FreshInv
      <3> QED BY <3>3, <3>4
    <2> QED BY <2>4 DEF FreshInv
  <1> QED
    BY <1>1, <1>2, <1>3, <1>4, <1>5, <1>6, <1>7, <1>8, <1>9, <1>10 DEF Stepping

CommandInv == TypeInv /\ WritesInv /\ AllInv /\ FreshInv

LEMMA CommandStays == CommandInv /\ UNCHANGED vars => CommandInv'
  BY TypeStays DEF CommandInv, WritesInv, AllInv, FreshInv, vars

LEMMA CommandInit == Init => CommandInv
  BY TypeInit DEF Init, CommandInv, WritesInv, AllInv, FreshInv

\* Type correctness, and what a running command has still to do, of any project
\* (init.ts, project-writer.ts, project-files.ts).
THEOREM CommandAlways == Spec => []CommandInv
  <1>1. CommandInv /\ Next => CommandInv'
    BY Steps, TypeNext, WritesNext, AllNext, FreshNext DEF CommandInv
  <1>2. CommandInv /\ [Next]_vars => CommandInv'
    BY <1>1, CommandStays
  <1> QED BY CommandInit, <1>2, PTL DEF Spec

\* Without force a pull or init never replaces what a file has held since it
\* was compared (project-files.ts:49-87).
THEOREM EditsKeptAlways ==
  ASSUME OwnPathsAreKept
  PROVE  Spec => EditsKept
  <1>1. ASSUME CommandInv, WriteNext, NEW c \in command, ~c.force,
               NEW p \in DOMAIN files, files'[p] # files[p]
        PROVE  p \in c.late
    <2>1. /\ \A x \in command : IsSequence(x.writes) /\ DOMAIN x = Fields
          /\ \A x, y \in command : x = y
      BY <1>1 DEF CommandInv, TypeInv, CommandTyped
    <2>2. /\ c.phase = "write" /\ c.writes # <<>>
          /\ files' = Put(Head(c.writes).path, Head(c.writes).content)
      BY <1>1, <2>1 DEF WriteNext
    <2>3. 1 \in DOMAIN c.writes /\ Head(c.writes) = c.writes[1]
      BY <2>1, <2>2, TailFacts
    <2>4. p = c.writes[1].path
      BY <1>1, <2>2, <2>3, PutFacts
    <2> QED BY <1>1, <2>2, <2>3, <2>4 DEF CommandInv, FreshInv
  <1> DEFINE Kept ==
        \A c \in command :
          WriteNext /\ ~c.force =>
            \A p \in DOMAIN files : files'[p] # files[p] => p \in c.late
  <1>2. CommandInv => [Kept]_vars
    BY <1>1
  <1> QED BY CommandAlways, <1>2, PTL DEF EditsKept

-----------------------------------------------------------------------------
(* What a candidate says of a directory *)

\* A directory that validates has loaded everything that its manifest names.
LEMMA ValidatedLoads ==
  ASSUME NEW g, validationOk(g)
  PROVE  /\ ManifestLoads(g)
         /\ \A ref \in ToSet(manifestOf(g).suites) : SuiteLoads(g, ref)
         /\ \A ref \in manifestOf(g).policy : PolicyLoads(g, ref)
         /\ LoadedSuites(g) = ToSet(manifestOf(g).suites)
  <1>1. "SCHEMA_INVALID" \notin findingCodes(g)
    BY DEF validationOk
  <1>2. ManifestLoads(g)
    BY <1>1 DEF findingCodes
  <1>3. \A ref \in ToSet(manifestOf(g).suites) : SuiteLoads(g, ref)
    BY <1>1, <1>2 DEF findingCodes
  <1>4. \A ref \in manifestOf(g).policy : PolicyLoads(g, ref)
    BY <1>1, <1>2 DEF findingCodes
  <1>5. LoadedSuites(g) = ToSet(manifestOf(g).suites)
    BY <1>3 DEF LoadedSuites
  <1> QED BY <1>2, <1>3, <1>4, <1>5

\* g's files are in h, as they are.
Within(g, h) == \A q \in DOMAIN g : q \in DOMAIN h /\ h[q] = g[q]

LEMMA SuiteWithin ==
  ASSUME NEW g, NEW h, Within(g, h), NEW ref, SuiteLoads(g, ref)
  PROVE  SuiteLoads(h, ref) /\ loadEvaluationSuite(h, ref) = loadEvaluationSuite(g, ref)
  <1>1. PICK x : x = PosixRelative[ref]
    OBVIOUS
  <1>2. /\ ref \in DOMAIN PosixRelative /\ x \in DOMAIN g /\ g[x] \notin Malformed
        /\ \A f \in collectFixtureRefs(g[x]) :
             /\ f \in DOMAIN PosixRelative /\ PosixRelative[f] \in DOMAIN g
             /\ g[PosixRelative[f]] \notin Malformed
    BY <1>1 DEF SuiteLoads, Resolves
  <1>3. x \in DOMAIN h /\ h[x] = g[x]
    BY <1>2 DEF Within
  <1>4. \A f \in collectFixtureRefs(g[x]) :
          /\ PosixRelative[f] \in DOMAIN h
          /\ h[PosixRelative[f]] = g[PosixRelative[f]]
    BY <1>2 DEF Within
  <1>5. SuiteLoads(h, ref)
    BY <1>1, <1>2, <1>3, <1>4 DEF SuiteLoads, Resolves
  <1>6. PICK P : P = {PosixRelative[f] : f \in collectFixtureRefs(g[x])}
    OBVIOUS
  <1>7. [p \in P |-> h[p]] = [p \in P |-> g[p]]
    BY <1>4, <1>6
  <1>8. /\ loadEvaluationSuite(g, ref) =
             [path |-> x, cases |-> g[x], fixtures |-> [p \in P |-> g[p]]]
        /\ loadEvaluationSuite(h, ref) =
             [path |-> x, cases |-> g[x], fixtures |-> [p \in P |-> h[p]]]
    BY <1>1, <1>3, <1>6 DEF loadEvaluationSuite
  <1> QED BY <1>5, <1>7, <1>8

\* A file more does not change the candidate of a directory that validates.
LEMMA CandidateWithin ==
  ASSUME NEW g, NEW h, Within(g, h), validationOk(g),
         LOCK_FILE_NAME \in DOMAIN h => LOCK_FILE_NAME \in DOMAIN g
  PROVE  candidateSha256(h) = candidateSha256(g)
  <1>1. /\ ManifestLoads(g)
        /\ \A ref \in ToSet(manifestOf(g).suites) : SuiteLoads(g, ref)
        /\ \A ref \in manifestOf(g).policy : PolicyLoads(g, ref)
        /\ LoadedSuites(g) = ToSet(manifestOf(g).suites)
    BY ValidatedLoads
  <1>2. PICK m : m = manifestOf(g)
    OBVIOUS
  <1>3. manifestOf(h) = m
    BY <1>1, <1>2 DEF ManifestLoads, Holds, manifestOf, Within
  <1>4. manifestSha256(h) = manifestSha256(g)
    <2>1. \A ref \in m.files : PosixRelative[ref] \in DOMAIN g
      BY <1>1, <1>2 DEF ManifestLoads, Resolves
    <2>2. PICK P : P = {PosixRelative[ref] : ref \in m.files}
      OBVIOUS
    <2>3. [path \in P |-> h[path]] = [path \in P |-> g[path]]
      BY <2>1, <2>2 DEF Within
    <2>4. artifacts(h) = artifacts(g)
      BY <2>2, <2>3, <1>2, <1>3 DEF artifacts
    <2>5. embedArtifactHashes(h) = embedArtifactHashes(g)
      BY <2>4, <1>2, <1>3 DEF embedArtifactHashes
    <2> QED BY <2>5, <1>2, <1>3 DEF manifestSha256
  <1>5. /\ Holds(h, LOCK_FILE_NAME) <=> Holds(g, LOCK_FILE_NAME)
        /\ Holds(g, LOCK_FILE_NAME) => h[LOCK_FILE_NAME] = g[LOCK_FILE_NAME]
    BY DEF Holds, Within
  <1>6. PICK S : S = ToSet(m.suites)
    OBVIOUS
  <1>7. \A ref \in S : /\ SuiteLoads(h, ref)
                       /\ loadEvaluationSuite(h, ref) = loadEvaluationSuite(g, ref)
    BY <1>1, <1>2, <1>6, SuiteWithin
  <1>8. LoadedSuites(h) = S /\ LoadedSuites(g) = S
    BY <1>1, <1>2, <1>3, <1>6, <1>7 DEF LoadedSuites
  <1>9. {loadEvaluationSuite(h, ref) : ref \in LoadedSuites(h)}
          = {loadEvaluationSuite(g, ref) : ref \in LoadedSuites(g)}
    BY <1>7, <1>8
  <1>10. \A ref \in m.policy :
           /\ PolicyLoads(g, ref) /\ PolicyLoads(h, ref)
           /\ h[PosixRelative[ref]] = g[PosixRelative[ref]]
    BY <1>1, <1>2 DEF PolicyLoads, Resolves, Within
  <1>11. {h[PosixRelative[ref]] :
            ref \in {r \in manifestOf(h).policy : PolicyLoads(h, r)}}
           = {g[PosixRelative[ref]] :
                ref \in {r \in manifestOf(g).policy : PolicyLoads(g, r)}}
    BY <1>2, <1>3, <1>10
  <1> QED BY <1>4, <1>5, <1>9, <1>11 DEF candidateSha256

\* What trace_to_eval writes leaves the candidate of a project that validates
\* what it is, if nobody writes there in between (handlers.ts:465-475,
\* candidate.ts).
THEOREM GatesUntouchedAlways == Spec => GatesUntouched
  <1>1. ASSUME CommandInv, NEW c \in command, c.version = 0, WriteNext,
               ManifestLoads(files), validationOk(files)
        PROVE  \/ candidateSha256(files') = candidateSha256(files)
               \/ Head(c.writes).path \in c.late
    <2>1. /\ CommandTyped(c) /\ IsSequence(c.writes)
          /\ \A x, y \in command : x = y
      BY <1>1 DEF CommandInv, TypeInv, CommandTyped
    <2>2. /\ c.phase = "write" /\ c.writes # <<>>
          /\ files' = Put(Head(c.writes).path, Head(c.writes).content)
      BY <1>1, <2>1 DEF WriteNext
    <2>3. 1 \in DOMAIN c.writes /\ Head(c.writes) = c.writes[1]
      BY <2>1, <2>2, TailFacts
    <2>4. PICK p : p = c.writes[1].path
      OBVIOUS
    <2>5. CASE p \in DOMAIN files
      <3>1. ~c.force
        BY <1>1, <2>1 DEF CommandTyped
      <3> QED BY <1>1, <2>2, <2>3, <2>4, <2>5, <3>1 DEF CommandInv, FreshInv
    <2>6. CASE p \notin DOMAIN files
      <3>1. PICK q \in Proposals : c.writes[1] \in {SuiteWrite(q), FixtureWrite(q)}
        BY <1>1, <2>3 DEF CommandInv, WritesInv, KnownWrites
      <3>2. p \in {q.destination, q.fixture}
        BY <2>4, <3>1, WriteFacts DEF SuiteWrite, FixtureWrite
      <3>3. p # LOCK_FILE_NAME
        BY <3>2, ProposalsElsewhere
      <3>4. /\ DOMAIN files' = DOMAIN files \cup {p}
            /\ \A q2 \in DOMAIN files : q2 # p => files'[q2] = files[q2]
        BY <2>2, <2>3, <2>4, PutFacts
      <3>5. Within(files, files')
        BY <2>6, <3>4 DEF Within
      <3>6. LOCK_FILE_NAME \in DOMAIN files' => LOCK_FILE_NAME \in DOMAIN files
        BY <3>3, <3>4
      <3> QED BY <1>1, <3>5, <3>6, CandidateWithin
    <2> QED BY <2>5, <2>6
  <1> DEFINE Untouched ==
        \A c \in command :
          /\ c.version = 0 /\ WriteNext
          /\ ManifestLoads(files) /\ validationOk(files)
          => \/ candidateSha256(files') = candidateSha256(files)
             \/ Head(c.writes).path \in c.late
  <1>2. CommandInv => [Untouched]_vars
    BY <1>1
  <1> QED BY CommandAlways, <1>2, PTL DEF GatesUntouched

-----------------------------------------------------------------------------
(* Evidence is of the files as they are *)

LEMMA LoadedFields ==
  ASSUME NEW g, NEW ref
  PROVE  /\ loadEvaluationSuite(g, ref).path = PosixRelative[ref]
         /\ loadEvaluationSuite(g, ref).cases = g[PosixRelative[ref]]
         /\ \A p \in DOMAIN loadEvaluationSuite(g, ref).fixtures :
              loadEvaluationSuite(g, ref).fixtures[p] = g[p]
  <1>1. PICK x : x = PosixRelative[ref]
    OBVIOUS
  <1>2. PICK P : P = {PosixRelative[f] : f \in collectFixtureRefs(g[x])}
    OBVIOUS
  <1>3. PICK F : F = [p \in P |-> g[p]]
    OBVIOUS
  <1>4. loadEvaluationSuite(g, ref) = [path |-> x, cases |-> g[x], fixtures |-> F]
    BY <1>1, <1>2, <1>3 DEF loadEvaluationSuite
  <1> QED BY <1>1, <1>3, <1>4

\* A suite is looked up by its path alone.
LEMMA SuiteByPath ==
  ASSUME NEW h, NEW ref, NEW ref2, PosixRelative[ref2] = PosixRelative[ref]
  PROVE  loadEvaluationSuite(h, ref2) = loadEvaluationSuite(h, ref)
  BY DEF loadEvaluationSuite

LEMMA CandidateParts ==
  ASSUME NEW g, NEW h, candidateSha256(h) = candidateSha256(g)
  PROVE  /\ manifestOf(h) = manifestOf(g)
         /\ embedArtifactHashes(h) = embedArtifactHashes(g)
         /\ {loadEvaluationSuite(h, ref) : ref \in LoadedSuites(h)}
              = {loadEvaluationSuite(g, ref) : ref \in LoadedSuites(g)}
         /\ {h[PosixRelative[ref]] :
               ref \in {r \in manifestOf(h).policy : PolicyLoads(h, r)}}
              = {g[PosixRelative[ref]] :
                   ref \in {r \in manifestOf(g).policy : PolicyLoads(g, r)}}
  <1>1. /\ candidateSha256(h).manifest = manifestSha256(h)
        /\ candidateSha256(g).manifest = manifestSha256(g)
    BY DEF candidateSha256
  <1>2. /\ manifestSha256(h).manifest = manifestOf(h)
        /\ manifestSha256(h).contents = embedArtifactHashes(h)
        /\ manifestSha256(g).manifest = manifestOf(g)
        /\ manifestSha256(g).contents = embedArtifactHashes(g)
    BY DEF manifestSha256
  <1>3. /\ candidateSha256(h).suites =
             {loadEvaluationSuite(h, ref) : ref \in LoadedSuites(h)}
        /\ candidateSha256(g).suites =
             {loadEvaluationSuite(g, ref) : ref \in LoadedSuites(g)}
    BY DEF candidateSha256
  <1>4. /\ candidateSha256(h).policy =
             {h[PosixRelative[ref]] :
                ref \in {r \in manifestOf(h).policy : PolicyLoads(h, r)}}
        /\ candidateSha256(g).policy =
             {g[PosixRelative[ref]] :
                ref \in {r \in manifestOf(g).policy : PolicyLoads(g, r)}}
    BY DEF candidateSha256
  <1> QED BY <1>1, <1>2, <1>3, <1>4

\* Directories of the same candidate have the same referenced files, if one of
\* them validates.
LEMMA CandidateTells ==
  ASSUME PromptsAreSpelledOut, NEW g, validationOk(g),
         manifestOf(g) \in Manifests \ Malformed,
         NEW h, candidateSha256(h) = candidateSha256(g)
  PROVE  Referenced(h) = Referenced(g)
  <1>1. /\ ManifestLoads(g)
        /\ \A ref \in ToSet(manifestOf(g).suites) : SuiteLoads(g, ref)
        /\ \A ref \in manifestOf(g).policy : PolicyLoads(g, ref)
        /\ LoadedSuites(g) = ToSet(manifestOf(g).suites)
    BY ValidatedLoads
  <1>2. PICK m : m = manifestOf(g)
    OBVIOUS
  <1>3. manifestOf(h) = m
    BY <1>2, CandidateParts
  <1>4. PICK A : A = {PosixRelative[ref] : ref \in m.files}
    OBVIOUS
  <1>5. \A ref \in m.files : PosixRelative[ref] = ref
    BY <1>1, <1>2 DEF ManifestLoads, Resolves, PromptsAreSpelledOut
  <1>6. A = m.files
    BY <1>4, <1>5
  <1>7. artifacts(g) = [p \in A |-> g[p]] /\ artifacts(h) = [p \in A |-> h[p]]
    BY <1>2, <1>3, <1>4 DEF artifacts
  <1>8. \A p \in A : h[p] = g[p]
    <2> TAKE p \in A
    <2>1. embedArtifactHashes(g)[p] = {g[p]} /\ embedArtifactHashes(h)[p] = {h[p]}
      BY <1>2, <1>3, <1>6, <1>7 DEF embedArtifactHashes
    <2> QED BY <2>1, CandidateParts
  <1>9. \A ref \in ToSet(m.suites) :
          loadEvaluationSuite(h, ref) = loadEvaluationSuite(g, ref)
    <2> TAKE ref \in ToSet(m.suites)
    <2>1. loadEvaluationSuite(g, ref)
            \in {loadEvaluationSuite(h, r) : r \in LoadedSuites(h)}
      BY <1>1, <1>2, CandidateParts
    <2>2. PICK ref2 : loadEvaluationSuite(h, ref2) = loadEvaluationSuite(g, ref)
      BY <2>1
    <2>3. PosixRelative[ref2] = PosixRelative[ref]
      BY <2>2, LoadedFields
    <2> QED BY <2>2, <2>3, SuiteByPath
  <1>10. \A ref \in m.policy : h[PosixRelative[ref]] = g[PosixRelative[ref]]
    <2> TAKE ref \in m.policy
    <2>1. g[PosixRelative[ref]] \in
            {h[PosixRelative[r]] : r \in {x \in m.policy : PolicyLoads(h, x)}}
      BY <1>1, <1>2, <1>3, CandidateParts
    <2>2. PICK r \in m.policy : g[PosixRelative[ref]] = h[PosixRelative[r]]
      BY <2>1
    <2>3. r = ref
      BY <1>2, <2>2, OnePolicy
    <2> QED BY <2>2, <2>3
  <1> DEFINE U(dir) == {loadEvaluationSuite(dir, ref) : ref \in ToSet(m.suites)}
  <1>11. U(h) = U(g)
    BY <1>9
  <1>12. /\ DOMAIN artifacts(g) = A /\ DOMAIN artifacts(h) = A
    BY <1>7
  <1> DEFINE Files(u) == A \cup {s.path : s \in u}
                           \cup (UNION {DOMAIN s.fixtures : s \in u})
                           \cup {PosixRelative[ref] : ref \in m.policy}
  <1>13. BundleFiles(g) = Files(U(g)) /\ BundleFiles(h) = Files(U(h))
    BY <1>2, <1>3, <1>12 DEF BundleFiles
  <1>14. BundleFiles(h) = BundleFiles(g)
    BY <1>11, <1>13
  <1>15. ASSUME NEW p \in BundleFiles(g) PROVE h[p] = g[p]
    <2>1. CASE p \in A
      BY <1>8, <2>1
    <2>2. CASE p \in {s.path : s \in U(g)}
      <3>1. PICK ref \in ToSet(m.suites) : p = loadEvaluationSuite(g, ref).path
        BY <2>2
      <3>2. loadEvaluationSuite(h, ref) = loadEvaluationSuite(g, ref)
        BY <1>9, <3>1
      <3> QED BY <3>1, <3>2, LoadedFields
    <2>3. CASE p \in UNION {DOMAIN s.fixtures : s \in U(g)}
      <3>1. PICK ref \in ToSet(m.suites) :
              p \in DOMAIN loadEvaluationSuite(g, ref).fixtures
        BY <2>3
      <3>2. loadEvaluationSuite(h, ref) = loadEvaluationSuite(g, ref)
        BY <1>9, <3>1
      <3>3. loadEvaluationSuite(g, ref).fixtures[p] = g[p]
        BY <3>1, LoadedFields
      <3>4. loadEvaluationSuite(h, ref).fixtures[p] = h[p]
        BY <3>1, <3>2, LoadedFields
      <3> QED BY <3>2, <3>3, <3>4
    <2>4. CASE p \in {PosixRelative[ref] : ref \in m.policy}
      BY <1>10, <2>4
    <2> QED BY <2>1, <2>2, <2>3, <2>4, <1>13
  <1> QED BY <1>14, <1>15 DEF Referenced

ManifestInv ==
  MANIFEST_FILE_NAME \in DOMAIN files => files[MANIFEST_FILE_NAME] \in Manifests

ReportInv ==
  \A r \in report : r.ok =>
    \E g : /\ validationOk(g)
           /\ r.candidate = {candidateSha256(g)} /\ r.of = Referenced(g)

\* Whatever wrote the manifest, it is one of those that there are.
LEMMA ManifestNext ==
  ASSUME CommandInv, ManifestInv, Stepping
  PROVE  ManifestInv'
  <1>1. CASE Writing
    <2>1. PICK c \in command : \E d : WroteTo(c, d)
      BY <1>1 DEF Writing
    <2>2. PICK d : WroteTo(c, d)
      BY <2>1
    <2>3. IsSequence(c.writes) /\ CommandTyped(c)
      BY DEF CommandInv, TypeInv, CommandTyped
    <2>4. PICK w : w = c.writes[1]
      OBVIOUS
    <2>5. /\ 1 \in DOMAIN c.writes
          /\ DOMAIN files' = DOMAIN files \cup {w.path}
          /\ files'[w.path] = w.content
          /\ \A q \in DOMAIN files : q # w.path => files'[q] = files[q]
      BY <2>2, <2>3, <2>4, WrittenHead
    <2>6. ASSUME w.path = MANIFEST_FILE_NAME PROVE w.content \in Manifests
      <3>1. CASE c.version = 0
        <4>1. PICK q \in Proposals : w \in {SuiteWrite(q), FixtureWrite(q)}
          BY <2>4, <2>5, <3>1 DEF CommandInv, WritesInv, KnownWrites
        <4>2. w.path \in {q.destination, q.fixture}
          BY <4>1, WriteFacts DEF SuiteWrite, FixtureWrite
        <4> QED BY <2>6, <4>2, ProposalsElsewhere
      <3>2. CASE c.version # 0
        <4>1. c.version \in 1 .. Len(remote)
          BY <2>3, <3>2 DEF CommandTyped, CommandInv, TypeInv
        <4>2. PICK b \in Bundles : b = remote[c.version]
          BY <4>1 DEF CommandInv, TypeInv
        <4>3. ExportWrite(b, w)
          BY <2>4, <2>5, <3>2, <4>2 DEF CommandInv, WritesInv, KnownWrites
        <4>4. PICK dir \in Projects :
                /\ b.manifest = manifestOf(dir)
                /\ DOMAIN b.artifacts = BundleFiles(dir)
                /\ \A p \in BundleFiles(dir) : b.artifacts[p] = dir[p]
          BY BundleFacts
        <4>5. manifestOf(dir) \in Manifests
          BY DEF Manifests
        <4>6. CASE w = Write(MANIFEST_FILE_NAME, b.manifest)
          BY <4>4, <4>5, <4>6, WriteFacts
        <4>7. CASE \E p \in DOMAIN b.artifacts : w = Write(p, b.artifacts[p])
          <5>1. PICK p \in DOMAIN b.artifacts : w = Write(p, b.artifacts[p])
            BY <4>7
          <5>2. p = MANIFEST_FILE_NAME /\ w.content = dir[p]
            BY <2>6, <4>4, <5>1, WriteFacts
          <5> QED BY <5>2, <4>5 DEF manifestOf
        <4> QED
          BY <2>6, <4>3, <4>6, <4>7, WriteFacts, OwnPathsDiffer DEF ExportWrite
      <3> QED BY <3>1, <3>2
    <2> QED BY <2>5, <2>6 DEF ManifestInv
  <1>2. CASE Editing
    <2>1. PICK e \in Edits : files' = Put(e.path, e.content)
      BY <1>2 DEF Editing
    <2>2. PICK p, x : p = e.path /\ x = e.content
      OBVIOUS
    <2>3. /\ DOMAIN files' = DOMAIN files \cup {p} /\ files'[p] = x
          /\ \A q \in DOMAIN files : q # p => files'[q] = files[q]
      BY <2>1, <2>2, PutFacts
    <2>4. p = MANIFEST_FILE_NAME => x \in Manifests
      BY <2>2 DEF Manifests
    <2> QED BY <2>3, <2>4 DEF ManifestInv
  <1>3. CASE files' = files
    BY <1>3 DEF ManifestInv
  <1> QED
    BY <1>1, <1>2, <1>3
       DEF Stepping, Seeding, Beginning, Proposing, Planning, Checking, Ending,
           Validate, Advancing

LEMMA ReportNext ==
  ASSUME ReportInv, Stepping
  PROVE  ReportInv'
  <1>1. CASE Validate
    <2> DEFINE r == [ok |-> validationOk(files),
                     candidate |-> IF ManifestLoads(files)
                                   THEN {candidateSha256(files)} ELSE {},
                     of |-> IF validationOk(files) THEN Referenced(files)
                            ELSE <<>>]
    <2>1. report' = {r}
      BY <1>1 DEF Validate
    <2>2. ASSUME r.ok
          PROVE  /\ validationOk(files)
                 /\ r.candidate = {candidateSha256(files)}
                 /\ r.of = Referenced(files)
      <3>1. r.ok = validationOk(files)
        BY Zenon
      <3>2. validationOk(files)
        BY <2>2, <3>1, Zenon
      <3>3. ManifestLoads(files)
        BY <3>2, ValidatedLoads
      <3>4. r.candidate = {candidateSha256(files)}
        BY <3>3, Zenon
      <3>5. r.of = Referenced(files)
        BY <3>2, Zenon
      <3> QED BY <3>2, <3>4, <3>5
    <2> HIDE DEF r
    <2> QED BY <2>1, <2>2 DEF ReportInv
  <1>2. CASE report' = report
    BY <1>2 DEF ReportInv
  <1> QED
    BY <1>1, <1>2
       DEF Stepping, Seeding, Beginning, Proposing, Planning, Checking, Writing,
           Ending, Advancing, Editing

EvidenceInv == CommandInv /\ ManifestInv /\ ReportInv

\* Evidence of the current candidate is of the referenced files as they are:
\* no prompt, suite, fixture or policy changes without changing the candidate
\* (candidate.ts:3-5, status.ts:39-44).
THEOREM EvidenceIsCurrentAlways ==
  ASSUME PromptsAreSpelledOut
  PROVE  Spec => []EvidenceIsCurrent
  <1>1. Init => EvidenceInv
    BY CommandInit DEF Init, EvidenceInv, ManifestInv, ReportInv
  <1>2. EvidenceInv /\ Next => EvidenceInv'
    <2> SUFFICES ASSUME EvidenceInv, Next PROVE EvidenceInv'
      OBVIOUS
    <2>1. TypeInv /\ WritesInv /\ AllInv /\ FreshInv /\ Stepping
      BY Steps DEF EvidenceInv, CommandInv
    <2>2. CommandInv'
      BY <2>1, TypeNext, WritesNext, AllNext, FreshNext DEF CommandInv
    <2> QED BY <2>1, <2>2, ManifestNext, ReportNext DEF EvidenceInv
  <1>3. EvidenceInv /\ UNCHANGED vars => EvidenceInv'
    BY CommandStays DEF EvidenceInv, ManifestInv, ReportInv, vars
  <1>4. EvidenceInv => EvidenceIsCurrent
    <2> SUFFICES ASSUME EvidenceInv, NEW r \in report, r.ok,
                        ManifestLoads(files),
                        r.candidate = {candidateSha256(files)}
                 PROVE  Referenced(files) = r.of
      BY DEF EvidenceIsCurrent
    <2>1. PICK g : /\ validationOk(g)
                   /\ r.candidate = {candidateSha256(g)} /\ r.of = Referenced(g)
      BY DEF EvidenceInv, ReportInv
    <2>2. candidateSha256(files) = candidateSha256(g)
      BY <2>1
    <2>3. manifestOf(files) \in Manifests \ Malformed
      BY DEF EvidenceInv, ManifestInv, ManifestLoads, Holds, manifestOf
    <2>4. manifestOf(g) = manifestOf(files)
      BY <2>2, CandidateParts
    <2> QED BY <2>1, <2>2, <2>3, <2>4, CandidateTells
  <1> QED BY <1>1, <1>2, <1>3, <1>4, PTL DEF Spec

-----------------------------------------------------------------------------
(* What a lock says of the files around it *)

Locked == Holds(files, LOCK_FILE_NAME)

Shaped(l) ==
  l = [manifestSha256 |-> l.manifestSha256, base |-> l.base,
       generatedAt |-> l.generatedAt]

\* Every lock is the stamp of a version.
StampInv ==
  /\ Locked => Shaped(files[LOCK_FILE_NAME])
  /\ \A c \in command : c.version # 0 =>
       \A i \in DOMAIN c.writes : c.writes[i].path = LOCK_FILE_NAME =>
         \E t : c.writes[i].content = stampedLock(c.version, t)

\* No command writes a lock of an earlier version than the one that is there.
BaseInv ==
  /\ seeds = 0 => ~Locked /\ remote = <<>>
  /\ seeds = 1 /\ Locked =>
       /\ files[LOCK_FILE_NAME].base \in 1 .. Len(remote)
       /\ \A c \in command : c.version # 0 /\ (c.force \/ c.phase = "write")
            => files[LOCK_FILE_NAME].base <= c.version

Placed(b, p) == p \in DOMAIN files /\ files[p] = b.artifacts[p]
Unedited(b) == DOMAIN b.artifacts \ ToSet(edited)
HasLock(s) == \E i \in DOMAIN s : s[i].path = LOCK_FILE_NAME
BeforeLock(s, p) ==
  \E i \in DOMAIN s :
    /\ s[i].path = p
    /\ \A j \in DOMAIN s : s[j].path = LOCK_FILE_NAME => i < j

\* The artifacts that a lock describes are there when it is written.
PlacedInv ==
  /\ seeds = 1 /\ Locked /\ files[LOCK_FILE_NAME].base = Len(remote)
     => \A p \in Unedited(remote[Len(remote)]) : Placed(remote[Len(remote)], p)
  /\ \A c \in command : c.version # 0 /\ c.phase = "check" =>
       /\ HasLock(c.writes)
       /\ \A p \in DOMAIN remote[c.version].artifacts : BeforeLock(c.writes, p)
  /\ \A c \in command : c.version # 0 /\ c.phase = "write" =>
       \A p \in Unedited(remote[c.version]) :
         Placed(remote[c.version], p) \/ BeforeLock(c.writes, p)

LEMMA StampFacts ==
  ASSUME NEW v, NEW t
  PROVE  Shaped(stampedLock(v, t)) /\ stampedLock(v, t).base = v
  BY DEF Shaped, stampedLock

LEMMA SameStamp ==
  ASSUME NEW l, Shaped(l), NEW v, NEW now, SameLock(l, stampedLock(v, now))
  PROVE  l = stampedLock(v, l.generatedAt)
  <1>1. PICK k : k = stampedLock(v, now)
    OBVIOUS
  <1>2. Shaped(k) /\ k.base = v /\ k.manifestSha256 = remote[v].manifestSha256
    BY <1>1, StampFacts DEF stampedLock
  <1>3. /\ lockSha256(l).base = l.base
        /\ lockSha256(l).manifestSha256 = l.manifestSha256
    BY DEF lockSha256, Shaped
  <1>4. /\ lockSha256(k).base = k.base
        /\ lockSha256(k).manifestSha256 = k.manifestSha256
    BY <1>2 DEF lockSha256, Shaped
  <1>5. lockSha256(l) = lockSha256(k)
    BY <1>1 DEF SameLock
  <1>6. l.base = v /\ l.manifestSha256 = remote[v].manifestSha256
    BY <1>2, <1>3, <1>4, <1>5
  <1> QED BY <1>6 DEF Shaped, stampedLock

LEMMA SelectedOrder ==
  ASSUME NEW t, NEW s, NEW f, IsSequence(t), IsSequence(s), Selects(t, s, f)
  PROVE  \A k, l \in DOMAIN t : f[k] < f[l] => k < l
  <1>1. DOMAIN t \subseteq Nat /\ DOMAIN s \subseteq Nat
    BY SequenceFacts
  <1>2. \A k \in DOMAIN t : f[k] \in Nat
    BY <1>1 DEF Selects
  <1>3. \A k, l \in DOMAIN t : k < l \/ l < k \/ k = l
    BY <1>1
  <1>4. ASSUME NEW k \in DOMAIN t, NEW l \in DOMAIN t, f[k] < f[l] PROVE k < l
    <2>1. CASE l < k
      <3>1. f[l] < f[k]
        BY <2>1 DEF Selects
      <3> QED BY <3>1, <1>2, <1>4
    <2>2. CASE k = l
      BY <2>2, <1>2, <1>4
    <2> QED BY <2>1, <2>2, <1>3
  <1> QED BY <1>4

\* What is before the lock in s is before it in t, if it is still in t.
LEMMA StillBefore ==
  ASSUME NEW t, NEW s, NEW f, IsSequence(t), IsSequence(s), Selects(t, s, f),
         NEW k \in DOMAIN t,
         \A j \in DOMAIN s : s[j].path = LOCK_FILE_NAME => f[k] < j
  PROVE  BeforeLock(t, t[k].path)
  <1>1. \A l \in DOMAIN t : f[l] \in DOMAIN s /\ t[l] = s[f[l]]
    BY DEF Selects
  <1>2. ASSUME NEW l \in DOMAIN t, t[l].path = LOCK_FILE_NAME PROVE k < l
    <2>1. f[k] < f[l]
      BY <1>1, <1>2
    <2> QED BY <2>1, SelectedOrder
  <1> QED BY <1>2 DEF BeforeLock

\* project-writer.ts:89-97: the lock comes after the artifacts.
LEMMA PlannedLock ==
  ASSUME OwnPathsAreKept, NEW v, v # 0, remote[v] \in Bundles, NEW now,
         NEW s, IsSequence(s), \E n, p : Planned(v, now, s, n, p)
  PROVE  /\ HasLock(s)
         /\ \A j \in DOMAIN s :
              s[j].path = LOCK_FILE_NAME => s[j].content = LockContent(v, now)
         /\ \A q \in DOMAIN remote[v].artifacts : BeforeLock(s, q)
  <1>1. PICK n, p : Planned(v, now, s, n, p)
    OBVIOUS
  <1>2. Distinct(s)
    BY <1>1, PlannedKnown DEF KnownWrites
  <1>a. n \in Nat /\ (Len(s) = n + 3 \/ Len(s) = n + 4) /\ DOMAIN s = 1 .. Len(s)
    BY <1>1, SequenceFacts DEF Planned
  <1>3. n \in Nat /\ 1 .. (n + 2) \subseteq DOMAIN s
    <2>1. PICK m : m = Len(s)
      OBVIOUS
    <2>2. n \in Nat /\ (m = n + 3 \/ m = n + 4)
      BY <1>a, <2>1
    <2>3. 1 .. (n + 2) \subseteq 1 .. m
      BY <2>2
    <2> QED BY <1>a, <2>1, <2>3
  <1>4. PICK l : l = n + 2
    OBVIOUS
  <1>5. s[l] = Write(LOCK_FILE_NAME, LockContent(v, now))
    BY <1>1, <1>4 DEF Planned
  <1>6. l \in DOMAIN s
    BY <1>3, <1>4
  <1>7. s[l].path = LOCK_FILE_NAME /\ s[l].content = LockContent(v, now)
    BY <1>5, WriteFacts
  <1>8. \A j \in DOMAIN s : s[j].path = LOCK_FILE_NAME => j = l
    BY <1>2, <1>6, <1>7 DEF Distinct
  <1>9. ASSUME NEW q \in DOMAIN remote[v].artifacts PROVE BeforeLock(s, q)
    <2>1. PICK i \in 1 .. n : p[i] = q
      BY <1>1, <1>9 DEF Planned
    <2>2. PICK k : k = i + 1
      OBVIOUS
    <2>3. k \in DOMAIN s /\ k < l
      BY <2>1, <2>2, <1>3, <1>4
    <2>4. s[k] = Write(p[i], remote[v].artifacts[p[i]])
      BY <1>1, <2>1, <2>2 DEF Planned
    <2>5. s[k].path = q
      BY <2>1, <2>4, WriteFacts
    <2> QED BY <2>3, <2>5, <1>8 DEF BeforeLock
  <1>10. HasLock(s)
    BY <1>6, <1>7 DEF HasLock
  <1> QED BY <1>7, <1>8, <1>9, <1>10

\* The facts about a running export that the following proofs use.
LEMMA ExportFacts ==
  ASSUME CommandInv, OwnPathsAreKept, NEW c \in command, c.version # 0
  PROVE  /\ c.version \in 1 .. Len(remote) /\ remote[c.version] \in Bundles
         /\ IsSequence(c.writes) /\ Distinct(c.writes)
         /\ \A i \in DOMAIN c.writes : ExportWrite(remote[c.version], c.writes[i])
         /\ DOMAIN remote[c.version].artifacts \cap OwnPaths = {}
  <1>1. c.version \in 1 .. Len(remote)
    BY DEF CommandInv, TypeInv, CommandTyped
  <1>2. remote[c.version] \in Bundles
    BY <1>1 DEF CommandInv, TypeInv
  <1>3. IsSequence(c.writes)
    BY DEF CommandInv, TypeInv, CommandTyped
  <1>4. KnownWrites(c.version, remote[c.version], c.writes)
    BY DEF CommandInv, WritesInv
  <1>5. /\ Distinct(c.writes)
        /\ \A i \in DOMAIN c.writes : ExportWrite(remote[c.version], c.writes[i])
    BY <1>4 DEF KnownWrites
  <1> QED BY <1>1, <1>2, <1>3, <1>5, ArtifactsElsewhere

LEMMA ArtifactWrite ==
  ASSUME NEW b, DOMAIN b.artifacts \cap OwnPaths = {}, NEW w, ExportWrite(b, w),
         w.path \in DOMAIN b.artifacts
  PROVE  w.content = b.artifacts[w.path]
  <1>1. w.path \notin OwnPaths
    OBVIOUS
  <1>2. PICK p \in DOMAIN b.artifacts : w = Write(p, b.artifacts[p])
    BY <1>1, WriteFacts, OwnPathsDiffer DEF ExportWrite
  <1> QED BY <1>2, WriteFacts

\* A proposal writes no lock, and nothing that was there unedited.
LEMMA ProposalFacts ==
  ASSUME CommandInv, NEW c \in command, c.version = 0,
         NEW i \in DOMAIN c.writes
  PROVE  /\ c.writes[i].path \notin OwnPaths
         /\ c.phase = "write" /\ c.writes[i].path \in DOMAIN files
            => c.writes[i].path \in ToSet(edited)
  <1>1. KnownWrites(c.version, remote[c.version], c.writes)
    BY DEF CommandInv, WritesInv
  <1>2. PICK q \in Proposals : c.writes[i] \in {SuiteWrite(q), FixtureWrite(q)}
    BY <1>1 DEF KnownWrites
  <1>3. c.writes[i].path \in {q.destination, q.fixture}
    BY <1>2, WriteFacts DEF SuiteWrite, FixtureWrite
  <1>4. c.writes[i].path \notin OwnPaths
    BY <1>3, ProposalsElsewhere DEF OwnPaths
  <1>5. ~c.force
    BY DEF CommandInv, TypeInv, CommandTyped
  <1>6. c.phase = "write" /\ c.writes[i].path \in DOMAIN files
        => c.writes[i].path \in ToSet(edited)
    BY <1>5 DEF CommandInv, FreshInv
  <1> QED BY <1>4, <1>6

\* An edit of the lock leaves one that does not parse, other edits leave it.
LEMMA EditedLock ==
  ASSUME LocksAreMade, NEW e \in Edits, files' = Put(e.path, e.content)
  PROVE  /\ Locked' => Locked /\ files'[LOCK_FILE_NAME] = files[LOCK_FILE_NAME]
         /\ \A q \in DOMAIN files :
              q # e.path => q \in DOMAIN files' /\ files'[q] = files[q]
  <1>1. PICK p, x : p = e.path /\ x = e.content
    OBVIOUS
  <1>2. /\ DOMAIN files' = DOMAIN files \cup {p} /\ files'[p] = x
        /\ \A q \in DOMAIN files : q # p => files'[q] = files[q]
    BY <1>1, PutFacts
  <1>3. p = LOCK_FILE_NAME => x \in Malformed
    BY <1>1 DEF LocksAreMade
  <1>4. Locked' => LOCK_FILE_NAME \in DOMAIN files' /\ files'[LOCK_FILE_NAME] \notin Malformed
    BY DEF Locked, Holds
  <1>5. Locked' => LOCK_FILE_NAME # p
    BY <1>2, <1>3, <1>4
  <1>6. ASSUME Locked'
        PROVE  Locked /\ files'[LOCK_FILE_NAME] = files[LOCK_FILE_NAME]
    BY <1>2, <1>4, <1>5, <1>6 DEF Locked, Holds
  <1> QED BY <1>1, <1>2, <1>6

\* WriteNext of another file leaves the lock.
LEMMA WrittenLock ==
  ASSUME NEW c, NEW d, IsSequence(c.writes), WroteTo(c, d),
         c.writes[1].path # LOCK_FILE_NAME
  PROVE  Locked' <=> Locked /\ files'[LOCK_FILE_NAME] = files[LOCK_FILE_NAME]
  <1>1. PICK p : p = c.writes[1].path
    OBVIOUS
  <1>2. /\ DOMAIN files' = DOMAIN files \cup {p}
        /\ \A q \in DOMAIN files : q # p => files'[q] = files[q]
    BY <1>1, WrittenHead
  <1> QED BY <1>1, <1>2 DEF Locked, Holds

LEMMA StampNext ==
  ASSUME CommandInv, OwnPathsAreKept, LocksAreMade, StampInv, Stepping
  PROVE  StampInv'
  <1>0. /\ Locked => Shaped(files[LOCK_FILE_NAME])
        /\ \A c \in command : c.version # 0 =>
             \A i \in DOMAIN c.writes : c.writes[i].path = LOCK_FILE_NAME =>
               \E t : c.writes[i].content = stampedLock(c.version, t)
    BY DEF StampInv
  <1>1. CASE Seeding
    BY <1>0, <1>1 DEF Seeding, Begun, StampInv, Locked, Holds
  <1>2. CASE Beginning
    BY <1>0, <1>2 DEF Beginning, Begun, StampInv, Locked, Holds
  <1>3. CASE Proposing
    BY <1>0, <1>3 DEF Proposing, Proposed, StampInv, Locked, Holds
  <1>4. CASE Planning
    <2>1. PICK c \in command, now \in Times : \E d : PlannedTo(c, now, d)
      BY <1>4 DEF Planning
    <2>2. PICK d : PlannedTo(c, now, d)
      BY <2>1
    <2>3. /\ command' = {d} /\ d.version = c.version /\ c.phase = "plan"
          /\ d.writes = PlannedWrites(c.version, now)
          /\ remote' = remote /\ files' = files
      BY <2>2, <1>4 DEF Planning, PlannedTo, Follows
    <2>4. c.version # 0
      BY <2>3 DEF CommandInv, TypeInv, CommandTyped
    <2>5. remote[c.version] \in Bundles
      BY <2>4, ExportFacts
    <2>6. IsSequence(d.writes) /\ \E n, p : Planned(c.version, now, d.writes, n, p)
      BY <2>3, <2>5, FiniteArtifacts, PlannedPlaces
    <2>7. \A j \in DOMAIN d.writes : d.writes[j].path = LOCK_FILE_NAME
            => d.writes[j].content = LockContent(c.version, now)
      BY <2>4, <2>5, <2>6, PlannedLock
    <2>8. \E t : LockContent(c.version, now) = stampedLock(c.version, t)
      <3>1. CASE Locked /\ SameLock(files[LOCK_FILE_NAME],
                                    stampedLock(c.version, now))
        <4>1. LockContent(c.version, now) = files[LOCK_FILE_NAME]
          BY <3>1 DEF LockContent, Locked
        <4> QED BY <1>0, <3>1, <4>1, SameStamp
      <3>2. CASE ~(Locked /\ SameLock(files[LOCK_FILE_NAME],
                                      stampedLock(c.version, now)))
        BY <3>2 DEF LockContent, Locked
      <3> QED BY <3>1, <3>2
    <2>9. (Locked => Shaped(files[LOCK_FILE_NAME]))'
      BY <1>0, <2>3 DEF Locked, Holds
    <2>11. \A t : stampedLock(c.version, t)' = stampedLock(c.version, t)
      BY <2>3 DEF stampedLock
    <2> QED BY <2>3, <2>7, <2>8, <2>9, <2>11 DEF StampInv
  <1>5. CASE Checking
    <2>1. PICK c \in command : \E d : CheckedTo(c, d)
      BY <1>5 DEF Checking
    <2>2. PICK d : CheckedTo(c, d)
      BY <2>1
    <2>3. /\ command' = {d} /\ d.version = c.version
          /\ d.writes = pendingOf(c.writes)[Len(c.writes)]
          /\ remote' = remote /\ files' = files
      BY <2>2, <1>5 DEF Checking, CheckedTo, Follows
    <2>4. IsSequence(c.writes)
      BY DEF CommandInv, TypeInv, CommandTyped
    <2>5. PICK f : Selects(d.writes, c.writes, f)
      BY <2>3, <2>4, CheckSelects DEF Compared
    <2>6. \A k \in DOMAIN d.writes : f[k] \in DOMAIN c.writes
                                     /\ d.writes[k] = c.writes[f[k]]
      BY <2>5 DEF Selects
    <2>7. \A t : stampedLock(c.version, t)' = stampedLock(c.version, t)
      BY <2>3 DEF stampedLock
    <2>8. (Locked => Shaped(files[LOCK_FILE_NAME]))'
      BY <1>0, <2>3 DEF Locked, Holds
    <2> QED BY <1>0, <2>3, <2>6, <2>7, <2>8 DEF StampInv
  <1>6. CASE Writing
    <2>1. PICK c \in command : \E d : WroteTo(c, d)
      BY <1>6 DEF Writing
    <2>2. PICK d : WroteTo(c, d)
      BY <2>1
    <2>3. /\ command' = {d} /\ d.version = c.version /\ remote' = remote
      BY <2>2, <1>6 DEF Writing, WroteTo, Follows
    <2>4. IsSequence(c.writes)
      BY DEF CommandInv, TypeInv, CommandTyped
    <2>5. PICK f : Selects(d.writes, c.writes, f)
      BY <2>2, <2>4, WrittenRest
    <2>6. \A k \in DOMAIN d.writes : f[k] \in DOMAIN c.writes
                                     /\ d.writes[k] = c.writes[f[k]]
      BY <2>5 DEF Selects
    <2>7. \A t : stampedLock(c.version, t)' = stampedLock(c.version, t)
      BY <2>3 DEF stampedLock
    <2>8. 1 \in DOMAIN c.writes /\ files'[c.writes[1].path] = c.writes[1].content
      BY <2>2, <2>4, WrittenHead
    <2>9. CASE c.writes[1].path = LOCK_FILE_NAME
      <3>1. c.version # 0
        BY <2>8, <2>9, ProposalFacts, OwnPathsDiffer
      <3>2. \E t : files'[LOCK_FILE_NAME] = stampedLock(c.version, t)
        BY <1>0, <2>8, <2>9, <3>1
      <3>3. Shaped(files'[LOCK_FILE_NAME])
        BY <3>2, StampFacts
      <3> QED BY <1>0, <2>3, <2>6, <2>7, <3>3 DEF StampInv
    <2>10. CASE c.writes[1].path # LOCK_FILE_NAME
      <3>1. Locked' => Shaped(files'[LOCK_FILE_NAME])
        BY <1>0, <2>2, <2>4, <2>10, WrittenLock
      <3> QED BY <1>0, <2>3, <2>6, <2>7, <3>1 DEF StampInv
    <2> QED BY <2>9, <2>10
  <1>7. CASE Ending
    BY <1>0, <1>7 DEF Ending, StampInv, Locked, Holds
  <1>8. CASE Validate
    BY <1>0, <1>8 DEF Validate, StampInv, Locked, Holds, stampedLock
  <1>9. CASE Advancing
    <2>1. command' = command /\ files' = files
      BY <1>9 DEF Advancing
    <2>2. ASSUME NEW c \in command, c.version # 0, NEW t
          PROVE  stampedLock(c.version, t)' = stampedLock(c.version, t)
      <3>1. c.version \in 1 .. Len(remote)
        BY <2>2 DEF CommandInv, TypeInv, CommandTyped
      <3>2. remote'[c.version] = remote[c.version]
        BY <3>1, <1>9, VersionsStay DEF CommandInv
      <3> QED BY <3>2 DEF stampedLock
    <2>3. (Locked => Shaped(files[LOCK_FILE_NAME]))'
      BY <1>0, <2>1 DEF Locked, Holds
    <2> QED BY <1>0, <2>1, <2>2, <2>3 DEF StampInv
  <1>10. CASE Editing
    <2>1. PICK e \in Edits : files' = Put(e.path, e.content)
      BY <1>10 DEF Editing
    <2>2. remote' = remote
      BY <1>10 DEF Editing
    <2>3. Locked' => Shaped(files'[LOCK_FILE_NAME])
      BY <1>0, <2>1, EditedLock
    <2>4. \A d \in command' : \E c \in command :
            d.version = c.version /\ d.writes = c.writes
      BY <1>10 DEF Editing, Touched, Follows
    <2>5. \A v, t : stampedLock(v, t)' = stampedLock(v, t)
      BY <2>2 DEF stampedLock
    <2> QED BY <1>0, <2>3, <2>4, <2>5 DEF StampInv
  <1> QED
    BY <1>1, <1>2, <1>3, <1>4, <1>5, <1>6, <1>7, <1>8, <1>9, <1>10 DEF Stepping

LEMMA BaseNext ==
  ASSUME CommandInv, OwnPathsAreKept, LocksAreMade, StampInv, BaseInv, PlacedInv,
         Stepping
  PROVE  BaseInv'
  <1>0. /\ seeds = 0 => ~Locked /\ remote = <<>>
        /\ seeds = 1 /\ Locked =>
             /\ files[LOCK_FILE_NAME].base \in 1 .. Len(remote)
             /\ \A c \in command : c.version # 0 /\ (c.force \/ c.phase = "write")
                  => files[LOCK_FILE_NAME].base <= c.version
    BY DEF BaseInv
  <1>a. seeds \in Nat /\ Len(remote) \in Nat /\ remote \in Seq(Bundles)
    BY DEF CommandInv, TypeInv
  <1>1. CASE Seeding
    <2>1. seeds' = seeds + 1 /\ files' = files
      BY <1>1 DEF Seeding
    <2>2. seeds' # 0 /\ (seeds' = 1 => seeds = 0)
      BY <1>a, <2>1
    <2>3. seeds' = 1 => ~Locked'
      BY <1>0, <2>1, <2>2 DEF Locked, Holds
    <2> QED BY <2>2, <2>3 DEF BaseInv
  <1>2. CASE Beginning
    <2>1. PICK v \in 1 .. Len(remote) : \E d :
            command' = {d} /\ Begun(d, v) /\ (d.force => v = Len(remote))
      BY <1>2 DEF Beginning
    <2>2. PICK d : command' = {d} /\ Begun(d, v) /\ (d.force => v = Len(remote))
      BY <2>1
    <2>3. files' = files /\ remote' = remote /\ seeds' = seeds
      BY <1>2 DEF Beginning
    <2>4. d.phase # "write" /\ d.version = v
      BY <2>2 DEF Begun
    <2>5. Locked' <=> Locked
      BY <2>3 DEF Locked, Holds
    <2>6. seeds = 1 /\ Locked /\ d.force => files[LOCK_FILE_NAME].base <= d.version
      BY <1>0, <1>a, <2>2, <2>4
    <2> QED BY <1>0, <2>2, <2>3, <2>4, <2>5, <2>6 DEF BaseInv
  <1>3. CASE Proposing
    <2>1. \A d \in command' : d.version = 0
      BY <1>3 DEF Proposing, Proposed
    <2>2. files' = files /\ remote' = remote /\ seeds' = seeds
      BY <1>3 DEF Proposing
    <2>3. Locked' <=> Locked
      BY <2>2 DEF Locked, Holds
    <2> QED BY <1>0, <2>1, <2>2, <2>3 DEF BaseInv
  <1>4. CASE Planning
    <2>1. \A d \in command' : /\ d.phase # "write"
                              /\ \E c \in command : d.version = c.version
                                                    /\ d.force = c.force
      BY <1>4 DEF Planning, PlannedTo, Follows
    <2>2. files' = files /\ remote' = remote /\ seeds' = seeds
      BY <1>4 DEF Planning
    <2>3. Locked' <=> Locked
      BY <2>2 DEF Locked, Holds
    <2> QED BY <1>0, <2>1, <2>2, <2>3 DEF BaseInv
  <1>5. CASE Checking
    <2>1. PICK c \in command : \E d : CheckedTo(c, d)
      BY <1>5 DEF Checking
    <2>2. PICK d : CheckedTo(c, d)
      BY <2>1
    <2>3. /\ command' = {d} /\ d.version = c.version /\ d.force = c.force
          /\ c.phase = "check" /\ (c.force \/ Conflicts(c) = {})
      BY <2>2, <1>5 DEF Checking, CheckedTo, Follows
    <2>4. files' = files /\ remote' = remote /\ seeds' = seeds
      BY <1>5 DEF Checking
    <2>5. Locked' <=> Locked
      BY <2>4 DEF Locked, Holds
    <2>6. ASSUME seeds = 1, Locked, d.version # 0
          PROVE  files[LOCK_FILE_NAME].base <= d.version
      <3>1. CASE c.force
        BY <1>0, <2>3, <2>6, <3>1
      <3>2. CASE ~c.force
        <4>1. PICK i \in DOMAIN c.writes : c.writes[i].path = LOCK_FILE_NAME
          BY <2>3, <2>6 DEF PlacedInv, HasLock
        <4>2. IsSequence(c.writes) /\ c.version \in 1 .. Len(remote)
          BY <2>3, <2>6, ExportFacts
        <4>3. Unchanged(c.writes[i])
          BY <2>3, <2>6, <3>2, <4>1, <4>2, NoConflict DEF Locked, Holds
        <4>4. files[LOCK_FILE_NAME] = c.writes[i].content
          BY <4>1, <4>3 DEF Unchanged
        <4>5. PICK t : c.writes[i].content = stampedLock(c.version, t)
          BY <2>3, <2>6, <4>1 DEF StampInv
        <4>6. files[LOCK_FILE_NAME].base = c.version
          BY <4>4, <4>5, StampFacts
        <4> QED BY <2>3, <4>2, <4>6
      <3> QED BY <3>1, <3>2
    <2> QED BY <1>0, <2>3, <2>4, <2>5, <2>6 DEF BaseInv
  <1>6. CASE Writing
    <2>1. PICK c \in command : \E d : WroteTo(c, d)
      BY <1>6 DEF Writing
    <2>2. PICK d : WroteTo(c, d)
      BY <2>1
    <2>3. /\ command' = {d} /\ d.version = c.version /\ d.force = c.force
          /\ c.phase = "write"
      BY <2>2 DEF WroteTo, Follows
    <2>4. remote' = remote /\ seeds' = seeds
      BY <1>6 DEF Writing
    <2>5. IsSequence(c.writes)
      BY DEF CommandInv, TypeInv, CommandTyped
    <2>6. 1 \in DOMAIN c.writes /\ files'[c.writes[1].path] = c.writes[1].content
      BY <2>2, <2>5, WrittenHead
    <2>7. CASE c.writes[1].path = LOCK_FILE_NAME
      <3>1. c.version # 0
        BY <2>6, <2>7, ProposalFacts, OwnPathsDiffer
      <3>2. c.version \in 1 .. Len(remote)
        BY <3>1, ExportFacts
      <3>3. seeds # 0
        <4>1. seeds = 0 => Len(remote) = 0
          BY <1>0
        <4> QED BY <3>2, <4>1
      <3>4. PICK t : files'[LOCK_FILE_NAME] = stampedLock(c.version, t)
        BY <2>6, <2>7, <3>1 DEF StampInv
      <3>5. files'[LOCK_FILE_NAME].base = c.version
        BY <3>4, StampFacts
      <3>6. c.version <= c.version
        BY <3>2
      <3> QED BY <2>3, <2>4, <3>2, <3>3, <3>5, <3>6 DEF BaseInv
    <2>8. CASE c.writes[1].path # LOCK_FILE_NAME
      <3>1. Locked' => Locked /\ files'[LOCK_FILE_NAME] = files[LOCK_FILE_NAME]
        BY <2>2, <2>5, <2>8, WrittenLock
      <3> QED BY <1>0, <2>3, <2>4, <3>1 DEF BaseInv
    <2> QED BY <2>7, <2>8
  <1>7. CASE Ending
    BY <1>0, <1>7 DEF Ending, BaseInv, Locked, Holds
  <1>8. CASE Validate
    BY <1>0, <1>8 DEF Validate, BaseInv, Locked, Holds
  <1>9. CASE Advancing
    <2>1. /\ command' = command /\ files' = files /\ seeds' = seeds
          /\ remote # <<>>
      BY <1>9 DEF Advancing
    <2>2. Len(remote') = Len(remote) + 1
      BY <1>9, VersionsStay DEF CommandInv
    <2>3. Locked' <=> Locked
      BY <2>1 DEF Locked, Holds
    <2>4. seeds # 0
      BY <1>0, <2>1
    <2>5. 1 .. Len(remote) \subseteq 1 .. Len(remote')
      BY <1>a, <2>2
    <2> QED BY <1>0, <2>1, <2>3, <2>4, <2>5 DEF BaseInv
  <1>10. CASE Editing
    <2>1. PICK e \in Edits : files' = Put(e.path, e.content)
      BY <1>10 DEF Editing
    <2>2. remote' = remote /\ seeds' = seeds
      BY <1>10 DEF Editing
    <2>3. Locked' => Locked /\ files'[LOCK_FILE_NAME] = files[LOCK_FILE_NAME]
      BY <2>1, EditedLock
    <2>4. \A d \in command' : \E c \in command :
            d.version = c.version /\ d.force = c.force /\ d.phase = c.phase
      BY <1>10 DEF Editing, Touched, Follows
    <2> QED BY <1>0, <2>2, <2>3, <2>4 DEF BaseInv
  <1> QED
    BY <1>1, <1>2, <1>3, <1>4, <1>5, <1>6, <1>7, <1>8, <1>9, <1>10 DEF Stepping

\* WriteNext of an export: its artifacts are in place or still to come.
LEMMA WrittenPlaced ==
  ASSUME CommandInv, OwnPathsAreKept, PlacedInv,
         NEW c \in command, NEW d, WroteTo(c, d), c.version # 0,
         NEW p \in Unedited(remote[c.version])
  PROVE  \/ p \in DOMAIN files' /\ files'[p] = remote[c.version].artifacts[p]
         \/ BeforeLock(d.writes, p)
  <1>1. PICK b : b = remote[c.version]
    OBVIOUS
  <1>2. /\ IsSequence(c.writes) /\ DOMAIN b.artifacts \cap OwnPaths = {}
        /\ \A i \in DOMAIN c.writes : ExportWrite(b, c.writes[i])
    BY <1>1, ExportFacts
  <1>3. PICK w : w = c.writes[1]
    OBVIOUS
  <1>4. /\ 1 \in DOMAIN c.writes /\ IsSequence(d.writes)
        /\ DOMAIN files' = DOMAIN files \cup {w.path}
        /\ files'[w.path] = w.content
        /\ \A q \in DOMAIN files : q # w.path => files'[q] = files[q]
    BY <1>2, <1>3, WrittenHead
  <1>5. p \in DOMAIN b.artifacts
    BY <1>1 DEF Unedited
  <1>6. CASE p = w.path
    <2>1. ExportWrite(b, w)
      BY <1>2, <1>3, <1>4
    <2>2. w.content = b.artifacts[p]
      BY <1>2, <1>5, <1>6, <2>1, ArtifactWrite
    <2> QED BY <1>1, <1>4, <1>6, <2>2
  <1>7. CASE p # w.path
    <2>1. Placed(b, p) \/ BeforeLock(c.writes, p)
      BY <1>1 DEF PlacedInv, WroteTo
    <2>2. CASE Placed(b, p)
      BY <1>1, <1>4, <1>7, <2>2 DEF Placed
    <2>3. CASE BeforeLock(c.writes, p)
      <3>1. PICK i \in DOMAIN c.writes :
              /\ c.writes[i].path = p
              /\ \A j \in DOMAIN c.writes :
                   c.writes[j].path = LOCK_FILE_NAME => i < j
        BY <2>3 DEF BeforeLock
      <3>2. i # 1
        BY <1>3, <1>7, <3>1
      <3>3. PICK f : /\ Selects(d.writes, c.writes, f)
                     /\ \A x \in DOMAIN c.writes :
                          x # 1 => \E k \in DOMAIN d.writes : f[k] = x
        BY <1>2, WrittenRest
      <3>4. PICK k \in DOMAIN d.writes : f[k] = i
        BY <3>1, <3>2, <3>3
      <3>5. d.writes[k].path = p
        BY <3>1, <3>3, <3>4 DEF Selects
      <3>6. BeforeLock(d.writes, d.writes[k].path)
        BY <1>2, <1>4, <3>1, <3>3, <3>4, StillBefore
      <3> QED BY <3>5, <3>6
    <2> QED BY <2>1, <2>2, <2>3
  <1> QED BY <1>6, <1>7

\* WriteNext and the current version: its lock goes last, and nothing else
\* replaces its artifacts.
LEMMA WrittenCurrent ==
  ASSUME CommandInv, OwnPathsAreKept, StampInv, BaseInv, PlacedInv,
         NEW c \in command, NEW d, WroteTo(c, d), seeds = 1,
         Locked', files'[LOCK_FILE_NAME].base = Len(remote),
         NEW p \in Unedited(remote[Len(remote)])
  PROVE  p \in DOMAIN files' /\ files'[p] = remote[Len(remote)].artifacts[p]
  <1>1. PICK b : b = remote[Len(remote)]
    OBVIOUS
  <1>2. p \in DOMAIN b.artifacts /\ p \notin ToSet(edited)
    BY <1>1 DEF Unedited
  <1>3. IsSequence(c.writes)
    BY DEF CommandInv, TypeInv, CommandTyped
  <1>4. PICK w : w = c.writes[1]
    OBVIOUS
  <1>5. /\ 1 \in DOMAIN c.writes
        /\ DOMAIN files' = DOMAIN files \cup {w.path}
        /\ files'[w.path] = w.content
        /\ \A q \in DOMAIN files : q # w.path => files'[q] = files[q]
    BY <1>3, <1>4, WrittenHead
  <1>6. CASE w.path = LOCK_FILE_NAME
    <2>1. c.version # 0
      BY <1>4, <1>5, <1>6, ProposalFacts, OwnPathsDiffer
    <2>2. PICK t : files'[LOCK_FILE_NAME] = stampedLock(c.version, t)
      BY <1>4, <1>5, <1>6, <2>1 DEF StampInv
    <2>3. c.version = Len(remote)
      BY <2>2, StampFacts
    <2>4. DOMAIN b.artifacts \cap OwnPaths = {}
      BY <1>1, <2>1, <2>3, ExportFacts
    <2>5. Placed(b, p) \/ BeforeLock(c.writes, p)
      BY <1>1, <2>1, <2>3 DEF PlacedInv, WroteTo
    <2>6. ~BeforeLock(c.writes, p)
      <3>1. \A i \in DOMAIN c.writes : ~(i < 1)
        <4>1. DOMAIN c.writes = 1 .. Len(c.writes) /\ Len(c.writes) \in Nat
          BY <1>3, SequenceFacts
        <4> QED BY <4>1
      <3> QED BY <1>4, <1>5, <1>6, <3>1 DEF BeforeLock
    <2>7. Placed(b, p)
      BY <2>5, <2>6
    <2>8. p # LOCK_FILE_NAME
      BY <1>2, <2>4, OwnPathsDiffer
    <2> QED BY <1>1, <1>5, <1>6, <2>7, <2>8 DEF Placed
  <1>7. CASE w.path # LOCK_FILE_NAME
    <2>1. Locked /\ files'[LOCK_FILE_NAME] = files[LOCK_FILE_NAME]
      BY <1>3, <1>4, <1>7, WrittenLock
    <2>2. Placed(b, p)
      BY <1>1, <2>1 DEF PlacedInv
    <2>3. CASE p # w.path
      BY <1>1, <1>5, <2>2, <2>3 DEF Placed
    <2>4. CASE p = w.path /\ c.version = 0
      BY <1>2, <1>4, <1>5, <2>2, <2>4, ProposalFacts DEF Placed, WroteTo
    <2>5. CASE p = w.path /\ c.version # 0
      <3>1. /\ c.version \in 1 .. Len(remote)
            /\ DOMAIN remote[c.version].artifacts \cap OwnPaths = {}
            /\ ExportWrite(remote[c.version], w)
        BY <1>4, <1>5, <2>5, ExportFacts
      <3>2. Len(remote) <= c.version
        BY <2>1, <2>5 DEF BaseInv, WroteTo
      <3>3. Len(remote) \in Nat
        BY DEF CommandInv, TypeInv
      <3>4. c.version = Len(remote)
        BY <3>1, <3>2, <3>3
      <3>5. w.content = b.artifacts[p]
        BY <1>1, <1>2, <2>5, <3>1, <3>4, ArtifactWrite
      <3> QED BY <1>1, <1>5, <2>5, <3>5
    <2> QED BY <2>3, <2>4, <2>5
  <1> QED BY <1>6, <1>7

LEMMA PlacedNext ==
  ASSUME CommandInv, OwnPathsAreKept, LocksAreMade, StampInv, BaseInv, PlacedInv,
         Stepping
  PROVE  PlacedInv'
  <1>0. /\ seeds = 1 /\ Locked /\ files[LOCK_FILE_NAME].base = Len(remote)
           => \A p \in Unedited(remote[Len(remote)]) :
                Placed(remote[Len(remote)], p)
        /\ \A c \in command : c.version # 0 /\ c.phase = "check" =>
             /\ HasLock(c.writes)
             /\ \A p \in DOMAIN remote[c.version].artifacts :
                  BeforeLock(c.writes, p)
        /\ \A c \in command : c.version # 0 /\ c.phase = "write" =>
             \A p \in Unedited(remote[c.version]) :
               Placed(remote[c.version], p) \/ BeforeLock(c.writes, p)
    BY DEF PlacedInv
  <1>a. seeds \in Nat /\ Len(remote) \in Nat /\ remote \in Seq(Bundles)
        /\ IsSequence(edited)
    BY DEF CommandInv, TypeInv
  \* The first conjunct stays where no file, version, edit or seeding changes.
  <1>b. ASSUME UNCHANGED <<files, remote, seeds, edited>>
        PROVE  (seeds = 1 /\ Locked /\ files[LOCK_FILE_NAME].base = Len(remote)
                => \A p \in Unedited(remote[Len(remote)]) :
                     Placed(remote[Len(remote)], p))'
    BY <1>0, <1>b DEF Locked, Holds, Unedited, Placed
  <1>1. CASE Seeding
    <2>1. seeds' = seeds + 1 /\ files' = files
      BY <1>1 DEF Seeding
    <2>2. seeds' = 1 => ~Locked'
      <3>1. seeds' = 1 => seeds = 0
        BY <1>a, <2>1
      <3> QED BY <2>1, <3>1 DEF BaseInv, Locked, Holds
    <2>3. \A d \in command' : d.phase = "plan"
      BY <1>1 DEF Seeding, Begun
    <2> QED BY <2>2, <2>3 DEF PlacedInv
  <1>2. CASE Beginning
    <2>1. \A d \in command' : d.phase = "plan"
      BY <1>2 DEF Beginning, Begun
    <2>2. UNCHANGED <<files, remote, seeds, edited>>
      BY <1>2 DEF Beginning
    <2> QED BY <1>b, <2>1, <2>2 DEF PlacedInv
  <1>3. CASE Proposing
    <2>1. \A d \in command' : d.version = 0
      BY <1>3 DEF Proposing, Proposed
    <2>2. UNCHANGED <<files, remote, seeds, edited>>
      BY <1>3 DEF Proposing
    <2> QED BY <1>b, <2>1, <2>2 DEF PlacedInv
  <1>4. CASE Planning
    <2>1. PICK c \in command, now \in Times : \E d : PlannedTo(c, now, d)
      BY <1>4 DEF Planning
    <2>2. PICK d : PlannedTo(c, now, d)
      BY <2>1
    <2>3. /\ command' = {d} /\ d.version = c.version /\ c.phase = "plan"
          /\ d.phase = "check"
          /\ d.writes = PlannedWrites(c.version, now)
          /\ UNCHANGED <<files, remote, seeds, edited>>
      BY <2>2, <1>4 DEF Planning, PlannedTo, Follows
    <2>4. c.version # 0
      BY <2>3 DEF CommandInv, TypeInv, CommandTyped
    <2>5. remote[c.version] \in Bundles
      BY <2>4, ExportFacts
    <2>6. IsSequence(d.writes) /\ \E n, p : Planned(c.version, now, d.writes, n, p)
      BY <2>3, <2>5, FiniteArtifacts, PlannedPlaces
    <2>7. HasLock(d.writes)
      BY <2>4, <2>5, <2>6, PlannedLock
    <2>8. \A q \in DOMAIN remote[c.version].artifacts : BeforeLock(d.writes, q)
      BY <2>4, <2>5, <2>6, PlannedLock
    <2> QED BY <1>b, <2>3, <2>7, <2>8 DEF PlacedInv
  <1>5. CASE Checking
    <2>1. PICK c \in command : \E d : CheckedTo(c, d)
      BY <1>5 DEF Checking
    <2>2. PICK d : CheckedTo(c, d)
      BY <2>1
    <2>3. /\ command' = {d} /\ d.version = c.version /\ c.phase = "check"
          /\ d.phase = "write"
          /\ d.writes = pendingOf(c.writes)[Len(c.writes)]
          /\ UNCHANGED <<files, remote, seeds, edited>>
      BY <2>2, <1>5 DEF Checking, CheckedTo, Follows
    <2>4. ASSUME d.version # 0, NEW p \in Unedited(remote[d.version])
          PROVE  Placed(remote[d.version], p) \/ BeforeLock(d.writes, p)
      <3>1. PICK b : b = remote[c.version]
        OBVIOUS
      <3>2. /\ IsSequence(c.writes) /\ DOMAIN b.artifacts \cap OwnPaths = {}
            /\ \A i \in DOMAIN c.writes : ExportWrite(b, c.writes[i])
        BY <2>3, <2>4, <3>1, ExportFacts
      <3>3. p \in DOMAIN b.artifacts
        BY <2>3, <2>4, <3>1 DEF Unedited
      <3>4. PICK i \in DOMAIN c.writes :
              /\ c.writes[i].path = p
              /\ \A j \in DOMAIN c.writes :
                   c.writes[j].path = LOCK_FILE_NAME => i < j
        BY <1>0, <2>3, <2>4, <3>1, <3>3 DEF BeforeLock
      <3>5. CASE Unchanged(c.writes[i])
        <4>1. c.writes[i].content = b.artifacts[p]
          BY <3>2, <3>3, <3>4, ArtifactWrite
        <4> QED BY <2>3, <3>1, <3>4, <3>5, <4>1 DEF Unchanged, Placed
      <3>6. CASE ~Unchanged(c.writes[i])
        <4>1. PICK f : /\ Selects(d.writes, c.writes, f)
                       /\ \A x \in DOMAIN c.writes : ~Unchanged(c.writes[x])
                            => \E k \in DOMAIN d.writes : f[k] = x
          BY <2>3, <3>2, CheckSelects DEF Compared
        <4>2. PICK k \in DOMAIN d.writes : f[k] = i
          BY <3>6, <4>1
        <4>3. d.writes[k].path = p
          BY <3>4, <4>1, <4>2 DEF Selects
        <4>4. IsSequence(d.writes)
          BY <2>3, TypeNext DEF CommandInv, TypeInv, CommandTyped
        <4>5. BeforeLock(d.writes, d.writes[k].path)
          BY <3>2, <3>4, <4>1, <4>2, <4>4, StillBefore
        <4> QED BY <4>3, <4>5
      <3> QED BY <3>5, <3>6
    <2>5. ASSUME d.version # 0, NEW p \in Unedited(remote[d.version])'
          PROVE  Placed(remote[d.version], p)' \/ BeforeLock(d.writes, p)
      <3>1. p \in Unedited(remote[d.version])
        BY <2>3, <2>5 DEF Unedited
      <3>2. Placed(remote[d.version], p)' <=> Placed(remote[d.version], p)
        BY <2>3 DEF Placed
      <3> QED BY <2>4, <2>5, <3>1, <3>2
    <2> QED BY <1>b, <2>3, <2>5 DEF PlacedInv
  <1>6. CASE Writing
    <2>1. PICK c \in command : \E d : WroteTo(c, d)
      BY <1>6 DEF Writing
    <2>2. PICK d : WroteTo(c, d)
      BY <2>1
    <2>3. /\ command' = {d} /\ d.version = c.version /\ d.phase = "write"
          /\ UNCHANGED <<remote, seeds, edited>>
      BY <2>2, <1>6 DEF Writing, WroteTo, Follows
    <2>4. ASSUME d.version # 0, NEW p \in Unedited(remote[d.version])'
          PROVE  Placed(remote[d.version], p)' \/ BeforeLock(d.writes, p)
      <3>1. p \in Unedited(remote[c.version])
        BY <2>3, <2>4 DEF Unedited
      <3>2. \/ p \in DOMAIN files' /\ files'[p] = remote[c.version].artifacts[p]
            \/ BeforeLock(d.writes, p)
        BY <2>2, <2>3, <2>4, <3>1, WrittenPlaced
      <3> QED BY <2>3, <3>2 DEF Placed
    <2>5. ASSUME seeds' = 1, Locked', files'[LOCK_FILE_NAME].base = Len(remote'),
                 NEW p \in Unedited(remote[Len(remote)])'
          PROVE  Placed(remote[Len(remote)], p)'
      <3>1. p \in Unedited(remote[Len(remote)])
        BY <2>3, <2>5 DEF Unedited
      <3>2. p \in DOMAIN files' /\ files'[p] = remote[Len(remote)].artifacts[p]
        BY <2>2, <2>3, <2>5, <3>1, WrittenCurrent
      <3> QED BY <2>3, <3>2 DEF Placed
    <2> QED BY <2>3, <2>4, <2>5 DEF PlacedInv
  <1>7. CASE Ending
    <2>1. command' = {} /\ UNCHANGED <<files, remote, seeds, edited>>
      BY <1>7 DEF Ending
    <2> QED BY <1>b, <2>1 DEF PlacedInv
  <1>8. CASE Validate
    BY <1>0, <1>8 DEF Validate, PlacedInv, Locked, Holds, Unedited, Placed
  <1>9. CASE Advancing
    <2>1. command' = command /\ UNCHANGED <<files, seeds, edited>>
      BY <1>9 DEF Advancing
    <2>2. /\ Len(remote') = Len(remote) + 1
          /\ \A v \in 1 .. Len(remote) : remote'[v] = remote[v]
      BY <1>9, VersionsStay DEF CommandInv
    <2>3. ~(seeds' = 1 /\ Locked' /\ files'[LOCK_FILE_NAME].base = Len(remote'))
      <3>1. seeds = 1 /\ Locked => files[LOCK_FILE_NAME].base \in 1 .. Len(remote)
        BY DEF BaseInv
      <3>2. Locked' <=> Locked
        BY <2>1 DEF Locked, Holds
      <3>3. Len(remote) + 1 \notin 1 .. Len(remote)
        BY <1>a
      <3> QED BY <2>1, <2>2, <3>1, <3>2, <3>3
    <2>4. ASSUME NEW c \in command, c.version # 0
          PROVE  remote'[c.version] = remote[c.version]
      BY <2>2, <2>4, ExportFacts
    <2>5. \A b, p : Placed(b, p)' <=> Placed(b, p)
      BY <2>1 DEF Placed
    <2>6. \A b : Unedited(b)' = Unedited(b)
      BY <2>1 DEF Unedited
    <2> QED BY <1>0, <2>1, <2>3, <2>4, <2>5, <2>6 DEF PlacedInv
  <1>10. CASE Editing
    <2>1. PICK e \in Edits :
            /\ files' = Put(e.path, e.content)
            /\ edited' = Append(edited, e.path)
            /\ \A d \in command' : \E c \in command : Touched(d, c, e.path)
      BY <1>10 DEF Editing
    <2>2. remote' = remote /\ seeds' = seeds
      BY <1>10 DEF Editing
    <2>3. ToSet(edited') = ToSet(edited) \cup {e.path}
      <3>1. PICK x, t : x = e.path /\ t = Append(edited, x)
        OBVIOUS
      <3>2. ToSet(t) = ToSet(edited) \cup {x}
        BY <1>a, <3>1, AppendFacts
      <3> QED BY <2>1, <3>1, <3>2
    <2>4. /\ Locked' => Locked /\ files'[LOCK_FILE_NAME] = files[LOCK_FILE_NAME]
          /\ \A q \in DOMAIN files :
               q # e.path => q \in DOMAIN files' /\ files'[q] = files[q]
      BY <2>1, EditedLock
    <2>5. ASSUME NEW b, NEW p, p \in Unedited(b)'
          PROVE  p \in Unedited(b) /\ (Placed(b, p) => Placed(b, p)')
      BY <2>3, <2>4, <2>5 DEF Unedited, Placed
    <2>6. \A d \in command' : \E c \in command :
            d.version = c.version /\ d.phase = c.phase /\ d.writes = c.writes
      BY <2>1 DEF Touched, Follows
    <2>7. (seeds = 1 /\ Locked /\ files[LOCK_FILE_NAME].base = Len(remote)
           => \A p \in Unedited(remote[Len(remote)]) :
                Placed(remote[Len(remote)], p))'
      BY <1>0, <2>2, <2>4, <2>5
    <2>8. ASSUME NEW d \in command', d.version # 0
          PROVE  /\ d.phase = "check" =>
                      /\ HasLock(d.writes)
                      /\ \A p \in DOMAIN remote'[d.version].artifacts :
                           BeforeLock(d.writes, p)
                 /\ d.phase = "write" =>
                      \A p \in Unedited(remote[d.version])' :
                        Placed(remote[d.version], p)' \/ BeforeLock(d.writes, p)
      <3>1. PICK c \in command :
              d.version = c.version /\ d.phase = c.phase /\ d.writes = c.writes
        BY <2>6, <2>8
      <3> QED BY <1>0, <2>2, <2>5, <2>8, <3>1
    <2> QED BY <2>7, <2>8 DEF PlacedInv
  <1> QED
    BY <1>1, <1>2, <1>3, <1>4, <1>5, <1>6, <1>7, <1>8, <1>9, <1>10 DEF Stepping

LockInv == CommandInv /\ StampInv /\ BaseInv /\ PlacedInv

\* A pull or init that was killed cannot be mistaken for one that was not: where
\* the lock is of the current version, every artifact that nobody has edited is
\* (project-writer.ts:89-97).
THEOREM MixturesAreVisibleAlways ==
  ASSUME OwnPathsAreKept, LocksAreMade
  PROVE  Spec => []MixturesAreVisible
  <1>1. Init => LockInv
    BY CommandInit
       DEF Init, LockInv, StampInv, BaseInv, PlacedInv, Locked, Holds
  <1>2. LockInv /\ Next => LockInv'
    <2> SUFFICES ASSUME LockInv, Next PROVE LockInv'
      OBVIOUS
    <2>1. TypeInv /\ WritesInv /\ AllInv /\ FreshInv /\ Stepping
      BY Steps DEF LockInv, CommandInv
    <2>2. CommandInv'
      BY <2>1, TypeNext, WritesNext, AllNext, FreshNext DEF CommandInv
    <2> QED BY <2>1, <2>2, StampNext, BaseNext, PlacedNext DEF LockInv
  <1>3. LockInv /\ UNCHANGED vars => LockInv'
    BY CommandStays
       DEF LockInv, StampInv, BaseInv, PlacedInv, Locked, Holds, Unedited,
           Placed, stampedLock, vars
  <1>4. LockInv => MixturesAreVisible
    BY DEF LockInv, PlacedInv, MixturesAreVisible, Locked, Unedited, Placed
  <1> QED BY <1>1, <1>2, <1>3, <1>4, PTL DEF Spec

-----------------------------------------------------------------------------
(* A project that is whole stays as it is *)

\* What a write was planned as, and that the lock and .gitignore are still as
\* the plan found them.
AsFound(v, w) ==
  \/ w = Write(MANIFEST_FILE_NAME, remote[v].manifest)
  \/ \E p \in DOMAIN remote[v].artifacts : w = Write(p, remote[v].artifacts[p])
  \/ w = Write(BINDING, Unrelated[BINDING])
  \/ /\ w.path = LOCK_FILE_NAME
     /\ Locked /\ SameLock(files[LOCK_FILE_NAME], stampedLock(v, 0))
        => w.content = files[LOCK_FILE_NAME]
  \/ w.path = GITIGNORE /\ GITIGNORE \notin DOMAIN files

FoundInv ==
  \A c \in command : c.version # 0 /\ c.phase = "check" =>
    \A i \in DOMAIN c.writes : AsFound(c.version, c.writes[i])

LEMMA AnyTime ==
  ASSUME NEW v, NEW s, NEW t
  PROVE  lockSha256(stampedLock(v, s)) = lockSha256(stampedLock(v, t))
  <1>1. PICK x, y : x = stampedLock(v, s) /\ y = stampedLock(v, t)
    OBVIOUS
  <1>2. PICK m : m = remote[v].manifestSha256
    OBVIOUS
  <1>3. /\ x = [manifestSha256 |-> m, base |-> v, generatedAt |-> s]
        /\ y = [manifestSha256 |-> m, base |-> v, generatedAt |-> t]
    BY <1>1, <1>2 DEF stampedLock
  <1>4. /\ [x EXCEPT !.generatedAt = 0]
             = [manifestSha256 |-> m, base |-> v, generatedAt |-> 0]
        /\ [y EXCEPT !.generatedAt = 0]
             = [manifestSha256 |-> m, base |-> v, generatedAt |-> 0]
    BY <1>3
  <1> QED BY <1>1, <1>4 DEF lockSha256

LEMMA PlannedFound ==
  ASSUME NEW v, NEW now, NEW w, PlannedWrite(v, now, w)
  PROVE  AsFound(v, w)
  <1>1. CASE w = Write(LOCK_FILE_NAME, LockContent(v, now))
    <2>1. w.path = LOCK_FILE_NAME /\ w.content = LockContent(v, now)
      BY <1>1, WriteFacts
    <2>2. ASSUME Locked, SameLock(files[LOCK_FILE_NAME], stampedLock(v, 0))
          PROVE  LockContent(v, now) = files[LOCK_FILE_NAME]
      <3>1. SameLock(files[LOCK_FILE_NAME], stampedLock(v, now))
        BY <2>2, AnyTime DEF SameLock
      <3> QED BY <2>2, <3>1 DEF LockContent, Locked
    <2> QED BY <2>1, <2>2 DEF AsFound
  <1> QED BY <1>1, WriteFacts DEF PlannedWrite, AsFound

LEMMA FoundNext ==
  ASSUME CommandInv, LocksAreMade, IgnoreIsLeft, FoundInv, Stepping
  PROVE  FoundInv'
  <1>1. CASE Seeding
    BY <1>1 DEF Seeding, Begun, FoundInv
  <1>2. CASE Beginning
    BY <1>2 DEF Beginning, Begun, FoundInv
  <1>3. CASE Proposing
    BY <1>3 DEF Proposing, Proposed, FoundInv
  <1>4. CASE Planning
    <2>1. PICK c \in command, now \in Times : \E d : PlannedTo(c, now, d)
      BY <1>4 DEF Planning
    <2>2. PICK d : PlannedTo(c, now, d)
      BY <2>1
    <2>3. /\ command' = {d} /\ d.version = c.version /\ c.phase = "plan"
          /\ d.writes = PlannedWrites(c.version, now)
          /\ remote' = remote /\ files' = files
      BY <2>2, <1>4 DEF Planning, PlannedTo, Follows
    <2>4. c.version # 0 /\ c.version \in 1 .. Len(remote)
      BY <2>3 DEF CommandInv, TypeInv, CommandTyped
    <2>5. remote[c.version] \in Bundles
      BY <2>4 DEF CommandInv, TypeInv
    <2>6. IsSequence(d.writes) /\ \E n, p : Planned(c.version, now, d.writes, n, p)
      BY <2>3, <2>5, FiniteArtifacts, PlannedPlaces
    <2>7. \A i \in DOMAIN d.writes : PlannedWrite(c.version, now, d.writes[i])
      BY <2>4, <2>5, <2>6, PlannedKnown
    <2>8. \A i \in DOMAIN d.writes : AsFound(c.version, d.writes[i])
      BY <2>7, PlannedFound
    <2>9. \A w : AsFound(c.version, w)' <=> AsFound(c.version, w)
      BY <2>3 DEF AsFound, Locked, Holds, stampedLock
    <2> QED BY <2>3, <2>8, <2>9 DEF FoundInv
  <1>5. CASE Checking
    BY <1>5 DEF Checking, CheckedTo, FoundInv
  <1>6. CASE Writing
    BY <1>6 DEF Writing, WroteTo, FoundInv
  <1>7. CASE Ending
    BY <1>7 DEF Ending, FoundInv
  <1>8. CASE Validate
    <2>1. command' = command /\ files' = files /\ remote' = remote
      BY <1>8 DEF Validate
    <2>2. \A v, w : AsFound(v, w)' <=> AsFound(v, w)
      BY <2>1 DEF AsFound, Locked, Holds, stampedLock
    <2> QED BY <2>1, <2>2 DEF FoundInv
  <1>9. CASE Advancing
    <2>1. command' = command /\ files' = files
      BY <1>9 DEF Advancing
    <2>2. ASSUME NEW c \in command, c.version # 0, NEW w
          PROVE  AsFound(c.version, w)' <=> AsFound(c.version, w)
      <3>1. c.version \in 1 .. Len(remote)
        BY <2>2 DEF CommandInv, TypeInv, CommandTyped
      <3>2. remote'[c.version] = remote[c.version]
        BY <3>1, <1>9, VersionsStay DEF CommandInv
      <3> QED BY <2>1, <3>2 DEF AsFound, Locked, Holds, stampedLock
    <2> QED BY <2>1, <2>2 DEF FoundInv
  <1>10. CASE Editing
    <2>1. PICK e \in Edits :
            /\ files' = Put(e.path, e.content)
            /\ \A d \in command' : \E c \in command : Touched(d, c, e.path)
      BY <1>10 DEF Editing
    <2>2. remote' = remote
      BY <1>10 DEF Editing
    <2>3. Locked' => Locked /\ files'[LOCK_FILE_NAME] = files[LOCK_FILE_NAME]
      BY <2>1, EditedLock
    <2>4. GITIGNORE \in DOMAIN files' => GITIGNORE \in DOMAIN files
      <3>1. PICK p, x : p = e.path /\ x = e.content
        OBVIOUS
      <3>2. DOMAIN files' = DOMAIN files \cup {p}
        BY <2>1, <3>1, PutFacts
      <3>3. p # GITIGNORE
        BY <3>1 DEF IgnoreIsLeft
      <3> QED BY <3>2, <3>3
    <2>5. ASSUME NEW v, NEW w, AsFound(v, w) PROVE AsFound(v, w)'
      <3>1. stampedLock(v, 0)' = stampedLock(v, 0)
        BY <2>2 DEF stampedLock
      <3>2. CASE \/ w = Write(MANIFEST_FILE_NAME, remote[v].manifest)
                 \/ \E p \in DOMAIN remote[v].artifacts :
                      w = Write(p, remote[v].artifacts[p])
                 \/ w = Write(BINDING, Unrelated[BINDING])
        BY <2>2, <3>2 DEF AsFound
      <3>3. CASE /\ w.path = LOCK_FILE_NAME
                 /\ Locked /\ SameLock(files[LOCK_FILE_NAME], stampedLock(v, 0))
                    => w.content = files[LOCK_FILE_NAME]
        BY <2>3, <3>1, <3>3 DEF AsFound, SameLock
      <3>4. CASE w.path = GITIGNORE /\ GITIGNORE \notin DOMAIN files
        BY <2>4, <3>4 DEF AsFound
      <3> QED BY <2>5, <3>2, <3>3, <3>4 DEF AsFound
    <2>6. \A d \in command' : \E c \in command :
            d.version = c.version /\ d.phase = c.phase /\ d.writes = c.writes
      BY <2>1 DEF Touched, Follows
    <2> QED BY <2>5, <2>6 DEF FoundInv
  <1> QED
    BY <1>1, <1>2, <1>3, <1>4, <1>5, <1>6, <1>7, <1>8, <1>9, <1>10 DEF Stepping

\* Over a whole project there is nothing to write.
LEMMA WholeUnchanged ==
  ASSUME NEW v, Whole(v), NEW w, AsFound(v, w)
  PROVE  Unchanged(w)
  <1>1. /\ MANIFEST_FILE_NAME \in DOMAIN files
        /\ files[MANIFEST_FILE_NAME] = remote[v].manifest
        /\ \A p \in DOMAIN remote[v].artifacts :
             p \in DOMAIN files /\ files[p] = remote[v].artifacts[p]
        /\ BINDING \in DOMAIN files /\ files[BINDING] = Unrelated[BINDING]
        /\ GITIGNORE \in DOMAIN files
    BY DEF Whole
  <1>2. Locked /\ SameLock(files[LOCK_FILE_NAME], stampedLock(v, 0))
    BY DEF Whole, Locked, SameLock
  <1>3. LOCK_FILE_NAME \in DOMAIN files
    BY <1>2 DEF Locked, Holds
  <1>4. CASE w = Write(MANIFEST_FILE_NAME, remote[v].manifest)
    BY <1>1, <1>4, WriteFacts DEF Unchanged
  <1>5. CASE \E p \in DOMAIN remote[v].artifacts :
               w = Write(p, remote[v].artifacts[p])
    BY <1>1, <1>5, WriteFacts DEF Unchanged
  <1>6. CASE w = Write(BINDING, Unrelated[BINDING])
    BY <1>1, <1>6, WriteFacts DEF Unchanged
  <1>7. CASE w.path = LOCK_FILE_NAME /\ w.content = files[LOCK_FILE_NAME]
    BY <1>3, <1>7 DEF Unchanged
  <1> QED BY <1>1, <1>2, <1>4, <1>5, <1>6, <1>7 DEF AsFound

NoOpInv == CommandInv /\ FoundInv

\* "Re-running stays a no-op" (project-writer.ts:74-76): a command that compares
\* a whole project of its version has nothing to write.
THEOREM ReinitIsNoOpAlways ==
  ASSUME LocksAreMade, IgnoreIsLeft
  PROVE  Spec => ReinitIsNoOp
  <1> DEFINE NoOp ==
        \A c \in command, d \in command' :
          c.version # 0 /\ Whole(c.version) /\ c.phase = "check"
            /\ d.phase = "write" => d.writes = <<>>
  <1>1. Init => NoOpInv
    BY CommandInit DEF Init, FoundInv, NoOpInv
  <1>2. ASSUME NoOpInv, Next PROVE NoOpInv' /\ NoOp
    <2>1. TypeInv /\ WritesInv /\ AllInv /\ FreshInv /\ Stepping
      BY <1>2, Steps DEF NoOpInv, CommandInv
    <2>2. CommandInv'
      BY <2>1, TypeNext, WritesNext, AllNext, FreshNext DEF CommandInv
    <2>3. FoundInv'
      BY <1>2, <2>1, FoundNext DEF NoOpInv
    <2>4. ASSUME NEW c \in command, NEW d \in command', c.version # 0,
                 Whole(c.version), c.phase = "check", d.phase = "write"
          PROVE  d.writes = <<>>
      <3>1. \A x \in command : x = c
        BY <1>2 DEF NoOpInv, CommandInv, TypeInv
      <3>2. Checking
        BY <2>1, <2>4, <3>1
           DEF Stepping, Seeding, Beginning, Proposing, Planning, PlannedTo,
               Writing, WroteTo, Ending, Validate, Advancing, Editing, Touched
      <3>3. d.writes = pendingOf(c.writes)[Len(c.writes)]
        BY <2>4, <3>1, <3>2 DEF Checking, CheckedTo
      <3>4. IsSequence(c.writes) /\ IsSequence(d.writes)
        BY <1>2, <2>2, <2>4 DEF NoOpInv, CommandInv, TypeInv, CommandTyped
      <3>5. \A i \in DOMAIN c.writes : Unchanged(c.writes[i])
        BY <1>2, <2>4, WholeUnchanged DEF NoOpInv, FoundInv
      <3>6. PICK f : /\ Selects(d.writes, c.writes, f)
                     /\ \A k \in DOMAIN d.writes : ~Unchanged(d.writes[k])
        BY <3>3, <3>4, CheckSelects DEF Compared
      <3>7. DOMAIN d.writes = {}
        BY <3>5, <3>6 DEF Selects
      <3>8. PICK S : d.writes \in Seq(S)
        BY <3>4 DEF IsSequence
      <3>9. Len(d.writes) = 0
        <4>1. DOMAIN d.writes = 1 .. Len(d.writes) /\ Len(d.writes) \in Nat
          BY <3>4, SequenceFacts
        <4>2. 1 \notin 1 .. Len(d.writes)
          BY <3>7, <4>1
        <4> QED BY <4>1, <4>2
      <3> QED BY <3>8, <3>9
    <2> QED BY <2>2, <2>3, <2>4 DEF NoOpInv
  <1>3. ASSUME NoOpInv, UNCHANGED vars PROVE NoOpInv'
    BY <1>3, CommandStays
       DEF NoOpInv, FoundInv, AsFound, Locked, Holds, stampedLock, vars
  <1>4. NoOpInv /\ [Next]_vars => NoOpInv'
    BY <1>2, <1>3
  <1>5. NoOpInv /\ [Next]_vars => [NoOp]_vars
    BY <1>2
  <1> QED BY <1>1, <1>4, <1>5, PTL DEF Spec, ReinitIsNoOp

-----------------------------------------------------------------------------
(* A proposal is written with its fixture *)

Has(p, x) == p \in DOMAIN files /\ files[p] = x

\* The command is about to write x there.
Owes(c, p, x) ==
  /\ c.phase = "write"
  /\ \E i \in DOMAIN c.writes :
       c.writes[i].path = p /\ c.writes[i].content = x

\* What a file holds once the command has written all that it has compared.
WillBe(p, x) ==
  \/ \E c \in command : Owes(c, p, x)
  \/ Has(p, x) /\ \A c \in command : \A y : ~Owes(c, p, y)

\* The same of a command that is about to compare.
Goes(c, p, x) ==
  \/ \E i \in DOMAIN c.writes :
       c.writes[i].path = p /\ c.writes[i].content = x
  \/ Has(p, x) /\ \A i \in DOMAIN c.writes : c.writes[i].path # p

Answers(p, q) ==
  \E y : WillBe(p, y) /\ y.assistantMessage = lastAnswer(q.events)

MatchAt(q) == WillBe(q.destination, SuiteOf(q)) => Answers(q.fixture, q)

MatchInv ==
  kills = 0 =>
    \A q \in Proposals :
      {q.destination, q.fixture} \cap ToSet(edited) = {} => MatchAt(q)

\* A suite tells which fixture it is for and what it expects.
LEMMA SuiteTells ==
  ASSUME NEW a, NEW b, SuiteOf(a) = SuiteOf(b)
  PROVE  a.fixture = b.fixture /\ lastAnswer(a.events) = lastAnswer(b.events)
  <1> DEFINE Turn(q) ==
        [role |-> "user",
         content |-> Head(EventsOf(q.events, "user-message")).content,
         fixtureRef |-> {q.fixture}]
  <1>1. PICK s, t : s = Turn(a) /\ t = Turn(b)
    OBVIOUS
  <1>2. PICK x, y : /\ x = [turns |-> {<<s>>}, expected |-> lastAnswer(a.events)]
                    /\ y = [turns |-> {<<t>>}, expected |-> lastAnswer(b.events)]
    OBVIOUS
  <1>3. SuiteOf(a) = <<x>> /\ SuiteOf(b) = <<y>>
    BY <1>1, <1>2 DEF SuiteOf, proposedSuite
  <1>4. x = y
    <2>1. <<x>>[1] = x /\ <<y>>[1] = y
      OBVIOUS
    <2>2. <<x>> = <<y>>
      BY <1>3
    <2> QED BY <2>1, <2>2
  <1>5. {<<s>>} = {<<t>>} /\ lastAnswer(a.events) = lastAnswer(b.events)
    BY <1>2, <1>4
  <1>6. s = t
    <2>1. <<s>> = <<t>>
      BY <1>5
    <2> QED BY <2>1
  <1>7. s.fixtureRef = {a.fixture} /\ t.fixtureRef = {b.fixture}
    BY <1>1
  <1> QED BY <1>5, <1>6, <1>7

LEMMA SuiteExpects ==
  ASSUME NEW q
  PROVE  proposedSuite(q.events, q.fixture)[1].expected = lastAnswer(q.events)
  BY DEF proposedSuite

LEMMA FixtureAnswers ==
  ASSUME NEW q
  PROVE  FixtureOf(q).assistantMessage = lastAnswer(q.events)
  BY DEF FixtureOf, proposedFixture

\* A step that neither begins nor ends to write.
LEMMA QuietWill ==
  ASSUME files' = files, \A c \in command : \A p, x : ~Owes(c, p, x),
         \A d \in command' : \A p, x : ~Owes(d, p, x),
         NEW p, NEW x
  PROVE  WillBe(p, x)' <=> WillBe(p, x)
  BY DEF WillBe, Has, Owes

LEMMA CheckedWill ==
  ASSUME NEW c, NEW d, CheckedTo(c, d), files' = files, IsSequence(c.writes),
         Distinct(c.writes), NEW p, NEW x
  PROVE  WillBe(p, x)' <=> Goes(c, p, x)
  <1>1. /\ command' = {d} /\ d.phase = "write"
        /\ d.writes = pendingOf(c.writes)[Len(c.writes)]
    BY DEF CheckedTo
  <1>2. PICK f : /\ Selects(d.writes, c.writes, f)
                 /\ \A k \in DOMAIN d.writes : ~Unchanged(d.writes[k])
                 /\ \A i \in DOMAIN c.writes :
                      ~Unchanged(c.writes[i])
                        => \E k \in DOMAIN d.writes : f[k] = i
    <2>1. \E f : Compared(d.writes, c.writes, f)
      BY <1>1, CheckSelects
    <2>2. PICK f : Compared(d.writes, c.writes, f)
      BY <2>1
    <2> QED BY <2>2 DEF Compared
  <1>3. \A k \in DOMAIN d.writes : f[k] \in DOMAIN c.writes /\ d.writes[k] = c.writes[f[k]]
    BY <1>2 DEF Selects
  <1>4. WillBe(p, x)' <=> \/ Owes(d, p, x)
                          \/ Has(p, x) /\ \A y : ~Owes(d, p, y)
    BY <1>1 DEF WillBe, Has, Owes
  <1>5. (\A y : ~Owes(d, p, y)) <=> \A k \in DOMAIN d.writes : d.writes[k].path # p
    BY <1>1 DEF Owes
  <1>6. ASSUME Owes(d, p, x) PROVE Goes(c, p, x)
    BY <1>3, <1>6 DEF Owes, Goes
  <1>7. ASSUME Has(p, x), \A k \in DOMAIN d.writes : d.writes[k].path # p
        PROVE  Goes(c, p, x)
    <2>1. CASE \A i \in DOMAIN c.writes : c.writes[i].path # p
      BY <1>7, <2>1 DEF Goes
    <2>2. ASSUME NEW i \in DOMAIN c.writes, c.writes[i].path = p
          PROVE  Goes(c, p, x)
      <3>1. Unchanged(c.writes[i])
        BY <1>2, <1>3, <1>7, <2>2
      <3>2. c.writes[i].content = x
        BY <1>7, <2>2, <3>1 DEF Unchanged, Has
      <3> QED BY <2>2, <3>2 DEF Goes
    <2> QED BY <2>1, <2>2
  <1>8. ASSUME NEW i \in DOMAIN c.writes,
               c.writes[i].path = p, c.writes[i].content = x
        PROVE  \/ Owes(d, p, x)
               \/ Has(p, x) /\ \A k \in DOMAIN d.writes : d.writes[k].path # p
    <2>1. CASE Unchanged(c.writes[i])
      <3>1. Has(p, x)
        BY <1>8, <2>1 DEF Unchanged, Has
      <3>2. ASSUME NEW k \in DOMAIN d.writes, d.writes[k].path = p
            PROVE  FALSE
        <4>1. f[k] = i
          BY <1>3, <1>8, <3>2 DEF Distinct
        <4> QED BY <1>2, <1>3, <2>1, <3>2, <4>1
      <3> QED BY <3>1, <3>2
    <2>2. CASE ~Unchanged(c.writes[i])
      BY <1>1, <1>2, <1>3, <1>8, <2>2 DEF Owes
    <2> QED BY <2>1, <2>2
  <1>9. ASSUME Has(p, x), \A i \in DOMAIN c.writes : c.writes[i].path # p
        PROVE  \A k \in DOMAIN d.writes : d.writes[k].path # p
    BY <1>3, <1>9
  <1> QED BY <1>4, <1>5, <1>6, <1>7, <1>8, <1>9 DEF Goes

LEMMA WrittenWill ==
  ASSUME NEW c, NEW d, command = {c}, WroteTo(c, d), IsSequence(c.writes),
         Distinct(c.writes), NEW p, NEW x
  PROVE  WillBe(p, x)' <=> WillBe(p, x)
  <1>1. command' = {d} /\ d.phase = "write" /\ c.phase = "write"
    BY DEF WroteTo
  <1>2. PICK f : /\ Selects(d.writes, c.writes, f)
                 /\ \A k \in DOMAIN d.writes : f[k] # 1
                 /\ \A i \in DOMAIN c.writes :
                      i # 1 => \E k \in DOMAIN d.writes : f[k] = i
    BY WrittenRest
  <1>3. \A k \in DOMAIN d.writes : f[k] \in DOMAIN c.writes /\ d.writes[k] = c.writes[f[k]]
    BY <1>2 DEF Selects
  <1>4. PICK h, z : h = c.writes[1].path /\ z = c.writes[1].content
    OBVIOUS
  <1>5. /\ 1 \in DOMAIN c.writes
        /\ DOMAIN files' = DOMAIN files \cup {h} /\ files'[h] = z
        /\ \A r \in DOMAIN files : r # h => files'[r] = files[r]
    BY <1>4, WrittenHead
  <1>6. WillBe(p, x) <=> \/ Owes(c, p, x)
                         \/ Has(p, x) /\ \A i \in DOMAIN c.writes : c.writes[i].path # p
    BY <1>1 DEF WillBe, Owes
  <1>7. WillBe(p, x)' <=> \/ Owes(d, p, x)
                          \/ /\ Has(p, x)'
                             /\ \A k \in DOMAIN d.writes : d.writes[k].path # p
    BY <1>1 DEF WillBe, Owes
  <1>8. CASE p = h
    <2>1. Has(p, x)' <=> x = z
      BY <1>5, <1>8 DEF Has
    <2>2. \A k \in DOMAIN d.writes : d.writes[k].path # p
      BY <1>2, <1>3, <1>4, <1>5, <1>8 DEF Distinct
    <2>3. ~Owes(d, p, x)
      BY <2>2 DEF Owes
    <2>4. Owes(c, p, x) <=> x = z
      BY <1>1, <1>4, <1>5, <1>8 DEF Owes, Distinct
    <2>5. ~\A i \in DOMAIN c.writes : c.writes[i].path # p
      BY <1>4, <1>5, <1>8
    <2> QED BY <1>6, <1>7, <2>1, <2>2, <2>3, <2>4, <2>5
  <1>9. CASE p # h
    <2>1. Has(p, x)' <=> Has(p, x)
      BY <1>5, <1>9 DEF Has
    <2>2. \A i \in DOMAIN c.writes : c.writes[i].path = p => i # 1
      BY <1>4, <1>9
    <2>3. Owes(c, p, x) <=> Owes(d, p, x)
      BY <1>1, <1>2, <1>3, <2>2 DEF Owes
    <2>4. (\A i \in DOMAIN c.writes : c.writes[i].path # p)
            <=> \A k \in DOMAIN d.writes : d.writes[k].path # p
      BY <1>2, <1>3, <2>2
    <2> QED BY <1>6, <1>7, <2>1, <2>3, <2>4
  <1> QED BY <1>8, <1>9

LEMMA EditedWill ==
  ASSUME NEW p, NEW r, NEW z, p # r, files' = Put(r, z),
         \A d \in command' : \E c \in command : Touched(d, c, r),
         \A c \in command : \E d \in command' : Touched(d, c, r),
         NEW x
  PROVE  WillBe(p, x)' <=> WillBe(p, x)
  <1>1. Has(p, x)' <=> Has(p, x)
    <2>1. /\ DOMAIN files' = DOMAIN files \cup {r}
          /\ \A u \in DOMAIN files : u # r => files'[u] = files[u]
      BY PutFacts
    <2> QED BY <2>1 DEF Has
  <1>2. ASSUME NEW c, NEW d, Touched(d, c, r), NEW y
        PROVE  Owes(d, p, y) <=> Owes(c, p, y)
    BY <1>2 DEF Touched, Owes
  <1>3. \A y : (\E d \in command' : Owes(d, p, y))
                 <=> \E c \in command : Owes(c, p, y)
    BY <1>2
  <1>4. \A d : \A y : Owes(d, p, y)' <=> Owes(d, p, y)
    BY DEF Owes
  <1> QED BY <1>1, <1>3, <1>4 DEF WillBe

\* The suite and the fixture that a comparison leaves or writes match, if those
\* that it finds do.
LEMMA ProposalGoes ==
  ASSUME NEW c, c.version = 0, IsSequence(c.writes), Conflicts(c) = {},
         NEW a \in Proposals, c.writes = <<SuiteWrite(a), FixtureWrite(a)>>,
         NEW q \in Proposals, Goes(c, q.destination, SuiteOf(q)),
         Has(q.destination, SuiteOf(q))
           => \E y : Has(q.fixture, y) /\ y.assistantMessage = lastAnswer(q.events)
  PROVE  \E y : /\ Goes(c, q.fixture, y)
                /\ y.assistantMessage = lastAnswer(q.events)
  <1>1. /\ DOMAIN c.writes = {1, 2}
        /\ c.writes[1] = SuiteWrite(a) /\ c.writes[2] = FixtureWrite(a)
    OBVIOUS
  <1>2. /\ c.writes[1].path = a.destination /\ c.writes[1].content = SuiteOf(a)
        /\ c.writes[2].path = a.fixture /\ c.writes[2].content = FixtureOf(a)
    BY <1>1, WriteFacts DEF SuiteWrite, FixtureWrite
  <1>3. a.fixture # q.destination
    BY ProposalsElsewhere
  <1>4. CASE a.destination = q.destination /\ SuiteOf(a) = SuiteOf(q)
    <2>1. a.fixture = q.fixture /\ lastAnswer(a.events) = lastAnswer(q.events)
      BY <1>4, SuiteTells
    <2>2. Goes(c, q.fixture, FixtureOf(a))
      BY <1>1, <1>2, <2>1 DEF Goes
    <2> QED BY <2>1, <2>2, FixtureAnswers
  <1>5. CASE Has(q.destination, SuiteOf(q))
    <2>1. PICK y : Has(q.fixture, y) /\ y.assistantMessage = lastAnswer(q.events)
      BY <1>5
    <2>2. ASSUME NEW i \in DOMAIN c.writes, c.writes[i].path = q.fixture
          PROVE  c.writes[i].content = y
      <3>1. Unchanged(c.writes[i])
        BY <2>1, <2>2, NoConflict DEF Has
      <3> QED BY <2>1, <2>2, <3>1 DEF Unchanged, Has
    <2>3. Goes(c, q.fixture, y)
      BY <2>1, <2>2 DEF Goes
    <2> QED BY <2>1, <2>3
  <1> QED BY <1>1, <1>2, <1>3, <1>4, <1>5 DEF Goes

LEMMA ExportGoes ==
  ASSUME OwnPathsAreKept, PublishedWhole, NEW c, NEW b \in Bundles,
         \A i \in DOMAIN c.writes : ExportWrite(b, c.writes[i]),
         \A p \in DOMAIN b.artifacts : \E i \in DOMAIN c.writes : c.writes[i].path = p,
         NEW q \in Proposals, Goes(c, q.destination, SuiteOf(q)),
         Has(q.destination, SuiteOf(q))
           => \E y : Has(q.fixture, y) /\ y.assistantMessage = lastAnswer(q.events)
  PROVE  \E y : /\ Goes(c, q.fixture, y)
                /\ y.assistantMessage = lastAnswer(q.events)
  <1>1. DOMAIN b.artifacts \cap OwnPaths = {}
    BY ArtifactsElsewhere
  <1>2. q.destination \notin OwnPaths /\ q.fixture \notin OwnPaths
    BY ProposalsElsewhere DEF OwnPaths
  <1>3. ASSUME NEW i \in DOMAIN c.writes, c.writes[i].path \notin OwnPaths
        PROVE  /\ c.writes[i].path \in DOMAIN b.artifacts
               /\ c.writes[i].content = b.artifacts[c.writes[i].path]
    <2>1. PICK p \in DOMAIN b.artifacts : c.writes[i] = Write(p, b.artifacts[p])
      BY <1>3, WriteFacts, OwnPathsDiffer DEF ExportWrite
    <2> QED BY <2>1, WriteFacts
  <1>4. PICK dir \in Projects :
          /\ DOMAIN b.artifacts = BundleFiles(dir)
          /\ \A p \in BundleFiles(dir) : b.artifacts[p] = dir[p]
    BY BundleFacts
  <1>5. CASE /\ q.destination \in DOMAIN b.artifacts
             /\ b.artifacts[q.destination] = SuiteOf(q)
    <2>1. /\ q.fixture \in DOMAIN b.artifacts
          /\ b.artifacts[q.fixture].assistantMessage = lastAnswer(q.events)
      BY <1>4, <1>5 DEF PublishedWhole, SuiteOf
    <2>2. PICK i \in DOMAIN c.writes : c.writes[i].path = q.fixture
      BY <2>1
    <2>3. c.writes[i].content = b.artifacts[q.fixture]
      BY <1>2, <1>3, <2>2
    <2> QED BY <2>1, <2>2, <2>3 DEF Goes
  <1>6. CASE /\ Has(q.destination, SuiteOf(q))
             /\ \A i \in DOMAIN c.writes : c.writes[i].path # q.destination
    <2>1. PICK y : Has(q.fixture, y) /\ y.assistantMessage = lastAnswer(q.events)
      BY <1>6
    <2>2. q.destination \notin DOMAIN b.artifacts
      BY <1>6
    <2>3. q.fixture \notin DOMAIN b.artifacts
      BY <1>4, <2>2 DEF PublishedWhole
    <2>4. \A i \in DOMAIN c.writes : c.writes[i].path # q.fixture
      BY <1>2, <1>3, <2>3
    <2> QED BY <2>1, <2>4 DEF Goes
  <1>7. ASSUME NEW i \in DOMAIN c.writes, c.writes[i].path = q.destination,
               c.writes[i].content = SuiteOf(q)
        PROVE  /\ q.destination \in DOMAIN b.artifacts
               /\ b.artifacts[q.destination] = SuiteOf(q)
    BY <1>2, <1>3, <1>7
  <1> QED BY <1>5, <1>6, <1>7 DEF Goes

LEMMA MatchNext ==
  ASSUME CommandInv, OwnPathsAreKept, PublishedWhole, MatchInv, Stepping
  PROVE  MatchInv'
  <1>0. /\ kills \in Nat /\ \A c, d \in command : c = d
        /\ \A c \in command : CommandTyped(c) /\ IsSequence(c.writes)
        /\ \A c \in command : Distinct(c.writes)
        /\ remote \in Seq(Bundles)
    BY DEF CommandInv, TypeInv, CommandTyped, WritesInv, KnownWrites
  <1>q. ASSUME kills' = kills, edited' = edited,
               \A p, x : WillBe(p, x)' <=> WillBe(p, x)
        PROVE  MatchInv'
    BY <1>q DEF MatchInv, MatchAt, Answers
  <1>n. ASSUME NEW c, c.phase = "write" => c.writes = <<>>
        PROVE  \A p, x : ~Owes(c, p, x)
    BY <1>n DEF Owes
  <1>1. CASE Seeding
    BY <1>1, <1>n, <1>q, QuietWill DEF Seeding, Begun
  <1>2. CASE Beginning
    BY <1>2, <1>n, <1>q, QuietWill DEF Beginning, Begun
  <1>3. CASE Proposing
    BY <1>3, <1>n, <1>q, QuietWill DEF Proposing, Proposed
  <1>4. CASE Planning
    BY <1>0, <1>4, <1>n, <1>q, QuietWill DEF Planning, PlannedTo
  <1>5. CASE Checking
    <2>1. PICK c \in command : \E d : CheckedTo(c, d)
      BY <1>5 DEF Checking
    <2>2. PICK d : CheckedTo(c, d)
      BY <2>1
    <2>3. /\ c.phase = "check" /\ files' = files
          /\ kills' = kills /\ edited' = edited
          /\ c.force \/ Conflicts(c) = {}
      BY <1>5, <2>2 DEF Checking, CheckedTo
    <2>4. \A p, x : WillBe(p, x)' <=> Goes(c, p, x)
      BY <1>0, <2>2, <2>3, CheckedWill
    <2>5. \A p, x : Has(p, x) => WillBe(p, x)
      BY <1>0, <2>3 DEF WillBe, Owes
    <2>6. \A p, x : WillBe(p, x) => Has(p, x)
      BY <1>0, <2>3 DEF WillBe, Owes
    <2>7. ASSUME kills = 0, NEW q \in Proposals,
                 {q.destination, q.fixture} \cap ToSet(edited) = {},
                 Goes(c, q.destination, SuiteOf(q))
          PROVE  \E y : /\ Goes(c, q.fixture, y)
                        /\ y.assistantMessage = lastAnswer(q.events)
      <3>1. Has(q.destination, SuiteOf(q))
              => \E y : /\ Has(q.fixture, y)
                        /\ y.assistantMessage = lastAnswer(q.events)
        BY <2>5, <2>6, <2>7 DEF MatchInv, MatchAt, Answers
      <3>2. CASE c.version = 0
        <4>1. PICK a \in Proposals :
                c.writes = <<SuiteWrite(a), FixtureWrite(a)>>
          BY <2>3, <3>2 DEF CommandInv, AllInv
        <4>2. Conflicts(c) = {}
          BY <1>0, <2>3, <3>2 DEF CommandTyped
        <4> QED BY <1>0, <2>7, <3>1, <3>2, <4>1, <4>2, ProposalGoes
      <3>3. CASE c.version # 0
        <4>1. c.version \in 1 .. Len(remote)
          BY <1>0, <3>3 DEF CommandTyped
        <4>2. PICK b \in Bundles : b = remote[c.version]
          BY <1>0, <4>1
        <4>3. \A i \in DOMAIN c.writes : ExportWrite(b, c.writes[i])
          BY <3>3, <4>2 DEF CommandInv, WritesInv, KnownWrites
        <4>4. \A p \in DOMAIN b.artifacts :
                \E i \in DOMAIN c.writes : c.writes[i].path = p
          BY <2>3, <3>3, <4>2 DEF CommandInv, AllInv
        <4> QED BY <2>7, <3>1, <4>3, <4>4, ExportGoes
      <3> QED BY <3>2, <3>3
    <2> QED BY <2>3, <2>4, <2>7 DEF MatchInv, MatchAt, Answers
  <1>6. CASE Writing
    <2>1. PICK c \in command : \E d : WroteTo(c, d)
      BY <1>6 DEF Writing
    <2>2. PICK d : WroteTo(c, d)
      BY <2>1
    <2>3. command = {c}
      BY <1>0
    <2>4. kills' = kills /\ edited' = edited
      BY <1>6 DEF Writing
    <2>5. \A p, x : WillBe(p, x)' <=> WillBe(p, x)
      BY <1>0, <2>2, <2>3, WrittenWill
    <2> QED BY <1>q, <2>4, <2>5
  <1>7. CASE Ending
    <2>1. CASE kills' = kills + 1
      BY <1>0, <2>1 DEF MatchInv
    <2>2. CASE kills' = kills /\ \A c \in command : c.phase = "write" => c.writes = <<>>
      BY <1>7, <1>n, <1>q, <2>2, QuietWill DEF Ending
    <2> QED BY <1>7, <2>1, <2>2 DEF Ending
  <1>8. CASE Validate
    <2>1. UNCHANGED <<files, command, kills, edited>>
      BY <1>8 DEF Validate
    <2> QED BY <1>q, <2>1 DEF WillBe, Has, Owes
  <1>9. CASE Advancing
    <2>1. UNCHANGED <<files, command, kills, edited>>
      BY <1>9 DEF Advancing
    <2> QED BY <1>q, <2>1 DEF WillBe, Has, Owes
  <1>10. CASE Editing
    <2>1. PICK e \in Edits :
            /\ files' = Put(e.path, e.content)
            /\ edited' = Append(edited, e.path)
            /\ \A d \in command' : \E c \in command : Touched(d, c, e.path)
            /\ \A c \in command : \E d \in command' : Touched(d, c, e.path)
      BY <1>10 DEF Editing
    <2>2. PICK r, z, t : r = e.path /\ z = e.content /\ t = Append(edited, r)
      OBVIOUS
    <2>3. ToSet(edited') = ToSet(edited) \cup {r}
      <3>1. ToSet(t) = ToSet(edited) \cup {r}
        BY <2>2, AppendFacts DEF CommandInv, TypeInv
      <3> QED BY <2>1, <2>2, <3>1
    <2>4. ASSUME NEW p, p # r
          PROVE  \A x : WillBe(p, x)' <=> WillBe(p, x)
      BY <2>1, <2>2, <2>4, EditedWill
    <2>5. kills' = kills
      BY <1>10 DEF Editing
    <2>6. ASSUME kills = 0, NEW q \in Proposals,
                 {q.destination, q.fixture} \cap ToSet(edited') = {}
          PROVE  MatchAt(q)'
      <3>1. q.destination # r /\ q.fixture # r
        BY <2>3, <2>6
      <3>2. MatchAt(q)
        BY <2>3, <2>6 DEF MatchInv
      <3> QED BY <2>4, <3>1, <3>2 DEF MatchAt, Answers
    <2> QED BY <2>5, <2>6 DEF MatchInv
  <1> QED
    BY <1>1, <1>2, <1>3, <1>4, <1>5, <1>6, <1>7, <1>8, <1>9, <1>10 DEF Stepping

\* A suite made of a trace and its fixture are of the same trace, whatever else
\* was proposed, exported or pulled (handlers.ts:465-475).
THEOREM ProposalsMatchAlways ==
  ASSUME OwnPathsAreKept, PublishedWhole
  PROVE  Spec => []ProposalsMatch
  <1> DEFINE Inv == CommandInv /\ MatchInv
  <1>1. Init => Inv
    BY CommandInit DEF Init, MatchInv, MatchAt, WillBe, Has
  <1>2. ASSUME Inv, Next PROVE Inv'
    <2>1. TypeInv /\ WritesInv /\ AllInv /\ FreshInv /\ Stepping
      BY <1>2, Steps DEF CommandInv
    <2>2. CommandInv'
      BY <2>1, TypeNext, WritesNext, AllNext, FreshNext DEF CommandInv
    <2> QED BY <1>2, <2>1, <2>2, MatchNext
  <1>3. ASSUME Inv, UNCHANGED vars PROVE Inv'
    <2>1. CommandInv'
      BY <1>3, CommandStays
    <2>2. MatchInv'
      BY <1>3 DEF MatchInv, MatchAt, Answers, WillBe, Has, Owes, vars
    <2> QED BY <2>1, <2>2
  <1>4. Inv /\ [Next]_vars => Inv'
    BY <1>2, <1>3
  <1>5. Inv => ProposalsMatch
    <2>1. SUFFICES ASSUME MatchInv, kills = 0, command = {},
                          NEW q \in Proposals,
                          {q.destination, q.fixture} \cap ToSet(edited) = {},
                          Has(q.destination, SuiteOf(q))
                   PROVE  \E y : /\ Has(q.fixture, y)
                                 /\ y.assistantMessage = lastAnswer(q.events)
      BY SuiteExpects DEF ProposalsMatch, Has, SuiteOf
    <2>2. \A p, x : WillBe(p, x) <=> Has(p, x)
      BY <2>1 DEF WillBe
    <2> QED BY <2>1, <2>2 DEF MatchInv, MatchAt, Answers
  <1> HIDE DEF Inv
  <1> QED BY <1>1, <1>4, <1>5, PTL DEF Spec

=============================================================================
