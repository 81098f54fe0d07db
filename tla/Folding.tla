------------------------------- MODULE Folding -------------------------------
(***************************************************************************)
(* What FoldLeft computes, entry by entry. A projection of an event stream *)
(* is a fold of the stream's events; its proofs need that folding one more *)
(* event is one more step, whatever the step Op is. Modules with a         *)
(* projection or a filter to prove about instantiate this one with their   *)
(* own step.                                                               *)
(***************************************************************************)
EXTENDS Naturals, Sequences, SequencesExt, WellFoundedInduction, TLAPS

CONSTANT Op(_, _, _)    \* what the whole fold shares, what is folded so far, an entry

Folding(p, base, s) == FoldLeft(LAMBDA a, e : Op(p, a, e), base, s)

-----------------------------------------------------------------------------
(* The least number of a set *)

LEMMA LeastNumber ==
    ASSUME NEW T \in SUBSET Nat, T # {}
    PROVE  \E n \in T : \A m \in T : n <= m
<1>1. PICK n \in T : \A m \in T : <<m, n>> \notin OpToRel(<, Nat)
  BY WFMin, NatLessThanWellFounded, Zenon
<1>2. \A m \in T : ~(m < n)
  BY <1>1, Zenon DEF OpToRel
<1>3. QED  BY <1>2

-----------------------------------------------------------------------------
(* The function FoldLeft chooses, on the sets of positions up to n *)

IsFold(p, base, s, n, f) ==
    f = [S \in SUBSET (1 .. n) |->
            IF S = {} THEN base ELSE Op(p, f[S \ {Max(S)}], s[Max(S)])]

LEMMA ChosenFold ==
    ASSUME NEW p, NEW base, NEW D, NEW s \in Seq(D)
    PROVE  Folding(p, base, s) = (CHOOSE f : IsFold(p, base, s, Len(s), f))[1 .. Len(s)]
<1>1. DOMAIN s = 1 .. Len(s)
  OBVIOUS
<1>2. QED  BY <1>1 DEF Folding, FoldLeft, MapThenFoldSet, IsFold

\* Of the sets of positions up to n, those with n have it as their maximum.
LEMMA LastPosition ==
    ASSUME NEW n \in Nat \ {0}, NEW S \in SUBSET (1 .. n)
    PROVE  /\ n \in S => Max(S) = n
           /\ n \notin S => S \in SUBSET (1 .. (n - 1))
           /\ S \ {n} \in SUBSET (1 .. (n - 1))
<1>1. ASSUME n \in S PROVE Max(S) = n
  <2>1. \A y \in S : n >= y
    OBVIOUS
  <2>2. \A x \in S : (\A y \in S : x >= y) => x = n
    BY <1>1
  <2>3. QED  BY <1>1, <2>1, <2>2 DEF Max
<1>2. QED  BY <1>1

LEMMA FoldUnique ==
    ASSUME NEW p, NEW base, NEW s, NEW u, NEW n \in Nat, NEW f, NEW g,
           IsFold(p, base, s, n, f), IsFold(p, base, u, n + 1, g),
           \A i \in 1 .. n : s[i] = u[i]
    PROVE  f[1 .. n] = g[1 .. n]
<1> DEFINE Bad == {k \in 0 .. n : \E S \in SUBSET (1 .. k) : f[S] # g[S]}
<1>1. SUFFICES ASSUME Bad # {} PROVE FALSE
  <2>1. n \notin Bad
    BY <1>1
  <2>2. QED  BY <2>1
<1>2. PICK k \in Bad : \A j \in Bad : k <= j
  <2>1. Bad \in SUBSET Nat
    OBVIOUS
  <2> HIDE DEF Bad
  <2>2. QED  BY <1>1, <2>1, LeastNumber
<1>3. PICK S \in SUBSET (1 .. k) : f[S] # g[S]
  OBVIOUS
<1> HIDE DEF Bad
<1>4. k \in 0 .. n /\ S \in SUBSET (1 .. n) /\ S \in SUBSET (1 .. (n + 1))
  BY DEF Bad
<1>5. /\ f[S] = IF S = {} THEN base ELSE Op(p, f[S \ {Max(S)}], s[Max(S)])
      /\ g[S] = IF S = {} THEN base ELSE Op(p, g[S \ {Max(S)}], u[Max(S)])
  BY <1>4 DEF IsFold
<1>6. S # {} /\ k # 0
  BY <1>3, <1>5
<1>7. \A T \in SUBSET (1 .. (k - 1)) : f[T] = g[T]
  <2>1. k - 1 \in 0 .. n /\ k - 1 \notin Bad
    BY <1>2, <1>4, <1>6
  <2>2. QED  BY <2>1 DEF Bad
<1>8. k \in S
  BY <1>3, <1>4, <1>6, <1>7, LastPosition
<1>9. Max(S) = k /\ S \ {k} \in SUBSET (1 .. (k - 1))
  BY <1>4, <1>6, <1>8, LastPosition
<1>10. s[k] = u[k] /\ f[S \ {k}] = g[S \ {k}]
  BY <1>4, <1>6, <1>7, <1>9
<1>11. QED  BY <1>3, <1>5, <1>6, <1>9, <1>10

LEMMA FoldExists ==
    ASSUME NEW p, NEW base, NEW s, NEW n \in Nat
    PROVE  \E f : IsFold(p, base, s, n, f)
<1> DEFINE Bad == {k \in Nat : ~ \E f : IsFold(p, base, s, k, f)}
<1>1. SUFFICES ASSUME Bad # {} PROVE FALSE
  OBVIOUS
<1>2. PICK k \in Bad : \A j \in Bad : k <= j
  BY <1>1, LeastNumber
<1>3. CASE k = 0
  <2>1. SUBSET (1 .. 0) = {{}}
    OBVIOUS
  <2>2. IsFold(p, base, s, 0, [S \in SUBSET (1 .. 0) |-> base])
    BY <2>1 DEF IsFold
  <2>3. QED  BY <1>3, <2>2
<1>4. CASE k # 0
  <2>1. k - 1 \in Nat /\ k - 1 \notin Bad /\ k \in Nat \ {0}
    BY <1>2, <1>4
  <2>2. PICK f : IsFold(p, base, s, k - 1, f)
    BY <2>1
  <2> DEFINE g == [S \in SUBSET (1 .. k) |->
                      IF k \in S THEN Op(p, f[S \ {k}], s[k]) ELSE f[S]]
  <2>3. \A S \in SUBSET (1 .. (k - 1)) : S \in SUBSET (1 .. k) /\ k \notin S
    BY <2>1
  <2>4. \A S \in SUBSET (1 .. (k - 1)) : g[S] = f[S]
    BY <2>3
  <2>5. ASSUME NEW S \in SUBSET (1 .. k)
        PROVE  g[S] = IF S = {} THEN base ELSE Op(p, g[S \ {Max(S)}], s[Max(S)])
    <3>1. CASE k \in S
      <4>1. Max(S) = k /\ S \ {k} \in SUBSET (1 .. (k - 1))
        BY <2>1, <3>1, LastPosition
      <4>2. g[S] = Op(p, f[S \ {k}], s[k])
        BY <3>1
      <4>3. g[S \ {k}] = f[S \ {k}]
        BY <2>4, <4>1
      <4> HIDE DEF g
      <4>4. QED  BY <3>1, <4>1, <4>2, <4>3
    <3>2. CASE k \notin S
      <4>1. S \in SUBSET (1 .. (k - 1))
        BY <2>1, <3>2, LastPosition
      <4>2. f[S] = IF S = {} THEN base ELSE Op(p, f[S \ {Max(S)}], s[Max(S)])
        BY <2>2, <4>1 DEF IsFold
      <4>3. S \ {Max(S)} \in SUBSET (1 .. (k - 1))
        BY <4>1
      <4>4. g[S] = f[S] /\ g[S \ {Max(S)}] = f[S \ {Max(S)}]
        BY <2>4, <4>1, <4>3
      <4> HIDE DEF g
      <4>5. QED  BY <4>2, <4>4
    <3>3. QED  BY <3>1, <3>2
  <2>6. IsFold(p, base, s, k, g)
    <3>1. g = [S \in SUBSET (1 .. k) |-> g[S]]
      OBVIOUS
    <3> HIDE DEF g
    <3>2. QED  BY <2>5, <3>1 DEF IsFold
  <2>7. QED  BY <2>6
<1>5. QED  BY <1>3, <1>4

-----------------------------------------------------------------------------
(* Folding an entry more is a step more *)

\* Folding the empty sequence leaves the base.
LEMMA FoldsNothing ==
    ASSUME NEW p, NEW base
    PROVE  Folding(p, base, << >>) = base
<1>1. PICK f : IsFold(p, base, << >>, 0, f)
  BY FoldExists
<1> DEFINE c == CHOOSE h : IsFold(p, base, << >>, 0, h)
<1>2. IsFold(p, base, << >>, 0, c)
  BY <1>1
<1>3. Folding(p, base, << >>) = c[1 .. 0]
  <2>1. << >> \in Seq({}) /\ Len(<< >>) = 0
    OBVIOUS
  <2>2. QED  BY <2>1, ChosenFold
<1> HIDE DEF c
<1>4. 1 .. 0 = {}
  OBVIOUS
<1>5. QED  BY <1>2, <1>3, <1>4 DEF IsFold

\* Folding one entry more takes one step more.
THEOREM FoldsOneMore ==
    ASSUME NEW p, NEW base, NEW D, NEW s \in Seq(D), NEW e \in D
    PROVE  Folding(p, base, Append(s, e)) = Op(p, Folding(p, base, s), e)
<1> DEFINE n == Len(s)
           u == Append(s, e)
           f == CHOOSE h : IsFold(p, base, s, n, h)
           g == CHOOSE h : IsFold(p, base, u, n + 1, h)
<1>1. n \in Nat /\ u \in Seq(D) /\ Len(u) = n + 1 /\ u[n + 1] = e /\ \A i \in 1 .. n : s[i] = u[i]
  OBVIOUS
<1> HIDE DEF n, u
<1>2. Folding(p, base, s) = f[1 .. n] /\ Folding(p, base, u) = g[1 .. (n + 1)]
  BY <1>1, ChosenFold DEF n
<1>3. IsFold(p, base, s, n, f) /\ IsFold(p, base, u, n + 1, g)
  <2>1. n \in Nat /\ n + 1 \in Nat
    BY <1>1
  <2>2. (\E h : IsFold(p, base, s, n, h)) /\ (\E h : IsFold(p, base, u, n + 1, h))
    BY <2>1, FoldExists, Zenon
  <2>3. QED  BY <2>2, Zenon
<1> HIDE DEF f, g
<1>4. /\ 1 .. (n + 1) # {} /\ n + 1 \in 1 .. (n + 1) /\ (n + 1) - 1 = n
      /\ (1 .. (n + 1)) \ {n + 1} = 1 .. n
  BY <1>1, SMTT(30)
<1>5. Max(1 .. (n + 1)) = n + 1
  BY <1>1, <1>4, LastPosition
<1>6. g[1 .. (n + 1)] = Op(p, g[1 .. n], u[n + 1])
  BY <1>1, <1>3, <1>4, <1>5, ZenonT(60) DEF IsFold
<1>7. f[1 .. n] = g[1 .. n]
  BY <1>1, <1>3, FoldUnique
<1>8. QED  BY <1>1, <1>2, <1>6, <1>7 DEF u

\* What every step keeps, the fold of every sequence has.
LEMMA FoldsInto ==
    ASSUME NEW p, NEW T, NEW D, NEW base \in T, NEW s \in Seq(D),
           \A a \in T : \A e \in D : Op(p, a, e) \in T
    PROVE  Folding(p, base, s) \in T
<1> DEFINE Bad == {k \in Nat : \E u \in Seq(D) : Len(u) = k /\ Folding(p, base, u) \notin T}
<1>1. SUFFICES ASSUME Bad # {} PROVE FALSE
  <2>1. Len(s) \in Nat /\ Len(s) \notin Bad
    BY <1>1
  <2>2. QED  BY <2>1
<1>2. PICK k \in Bad : \A j \in Bad : k <= j
  BY <1>1, LeastNumber
<1>3. PICK u \in Seq(D) : Len(u) = k /\ Folding(p, base, u) \notin T
  OBVIOUS
<1>4. k \in Nat
  OBVIOUS
<1> DEFINE v == [i \in 1 .. (k - 1) |-> u[i]]
<1>5. k # 0
  <2>1. k = 0 => u = << >>
    BY <1>3
  <2>2. QED  BY <1>3, <2>1, FoldsNothing
<1>6. v \in Seq(D) /\ Len(v) = k - 1 /\ u[k] \in D /\ u = Append(v, u[k])
  BY <1>3, <1>4, <1>5
<1>7. Folding(p, base, v) \in T
  <2>1. k - 1 \in Nat /\ k - 1 \notin Bad
    BY <1>2, <1>4, <1>5
  <2>2. QED  BY <1>6, <2>1
<1> HIDE DEF v
<1>8. Folding(p, base, u) = Op(p, Folding(p, base, v), u[k])
  <2>1. Folding(p, base, Append(v, u[k])) = Op(p, Folding(p, base, v), u[k])
    BY <1>6, FoldsOneMore
  <2>2. QED  BY <1>6, <2>1
<1>9. QED  BY <1>3, <1>6, <1>7, <1>8

\* The first n entries of a sequence.
Prefix(s, n) == [i \in 1 .. n |-> s[i]]

LEMMA PrefixGrows ==
    ASSUME NEW D, NEW s \in Seq(D), NEW n \in 1 .. Len(s)
    PROVE  /\ n - 1 \in 0 .. Len(s) /\ s[n] \in D
           /\ Prefix(s, n - 1) \in Seq(D) /\ Prefix(s, n) = Append(Prefix(s, n - 1), s[n])
<1>1. n \in Nat /\ n <= Len(s) /\ Len(s) \in Nat /\ n - 1 \in Nat /\ \A i \in 1 .. n : s[i] \in D
  OBVIOUS
<1>2. Prefix(s, n - 1) \in Seq(D) /\ Len(Prefix(s, n - 1)) = n - 1
  BY <1>1 DEF Prefix
<1>3. Prefix(s, n) \in Seq(D) /\ Len(Prefix(s, n)) = n
  BY <1>1 DEF Prefix
<1>4. Prefix(s, n) = Append(Prefix(s, n - 1), s[n])
  BY <1>1, <1>2, <1>3 DEF Prefix
<1>5. QED  BY <1>1, <1>2, <1>4

\* Induction along a sequence: if every entry leads from its set to the next one, the
\* fold ends in the last.
LEMMA FoldsAlong ==
    ASSUME NEW p, NEW D, NEW base, NEW s \in Seq(D), NEW Q, base \in Q[0],
           \A n \in 1 .. Len(s) : \A a \in Q[n - 1] : Op(p, a, s[n]) \in Q[n]
    PROVE  Folding(p, base, s) \in Q[Len(s)]
<1> DEFINE Bad == {n \in 0 .. Len(s) : Folding(p, base, Prefix(s, n)) \notin Q[n]}
<1>1. Len(s) \in Nat /\ Len(s) \in 0 .. Len(s) /\ Prefix(s, Len(s)) = s
  BY DEF Prefix
<1>2. SUFFICES ASSUME Bad # {} PROVE FALSE
  BY <1>1
<1>3. PICK n \in Bad : \A m \in Bad : n <= m
  <2>1. Bad \in SUBSET Nat
    OBVIOUS
  <2> HIDE DEF Bad
  <2>2. QED  BY <1>2, <2>1, LeastNumber
<1>4. n # 0
  <2>1. Prefix(s, 0) = << >>
    BY DEF Prefix
  <2>2. Folding(p, base, Prefix(s, 0)) = base
    BY <2>1, FoldsNothing
  <2>3. QED  BY <2>2
<1>5. n \in 1 .. Len(s) /\ n \in Nat
  BY <1>4
<1>6. /\ n - 1 \in 0 .. Len(s) /\ s[n] \in D /\ Prefix(s, n - 1) \in Seq(D)
      /\ Prefix(s, n) = Append(Prefix(s, n - 1), s[n])
  BY <1>5, PrefixGrows
<1>7. Folding(p, base, Prefix(s, n - 1)) \in Q[n - 1]
  <2>1. n - 1 \notin Bad
    BY <1>3, <1>5
  <2>2. QED  BY <1>6, <2>1
<1>8. Folding(p, base, Prefix(s, n)) = Op(p, Folding(p, base, Prefix(s, n - 1)), s[n])
  <2>1. Folding(p, base, Append(Prefix(s, n - 1), s[n]))
           = Op(p, Folding(p, base, Prefix(s, n - 1)), s[n])
    BY <1>6, FoldsOneMore
  <2>2. QED  BY <1>6, <2>1
<1>9. QED  BY <1>5, <1>7, <1>8

\* Folding two sequences in a row is folding the second from where the first ended.
LEMMA FoldsInTurn ==
    ASSUME NEW p, NEW base, NEW D, NEW s \in Seq(D), NEW t \in Seq(D)
    PROVE  Folding(p, base, s \o t) = Folding(p, Folding(p, base, s), t)
<1> DEFINE Q == [n \in 0 .. Len(t) |-> {Folding(p, base, s \o Prefix(t, n))}]
           mid == Folding(p, base, s)
<1>1. Len(t) \in Nat /\ Prefix(t, Len(t)) = t /\ Prefix(t, 0) = << >> /\ s \o << >> = s
  BY DEF Prefix
<1>2. mid \in Q[0]
  <2>1. s \o Prefix(t, 0) = s
    BY <1>1
  <2>2. 0 \in 0 .. Len(t)
    BY <1>1
  <2>3. Q[0] = {Folding(p, base, s)}
    BY <2>1, <2>2
  <2>4. QED  BY <2>3
<1>3. ASSUME NEW n \in 1 .. Len(t), NEW a \in Q[n - 1]
      PROVE  Op(p, a, t[n]) \in Q[n]
  <2>1. /\ n - 1 \in 0 .. Len(t) /\ n \in 0 .. Len(t) /\ t[n] \in D /\ Prefix(t, n - 1) \in Seq(D)
        /\ Prefix(t, n) = Append(Prefix(t, n - 1), t[n])
    BY PrefixGrows
  <2>2. a = Folding(p, base, s \o Prefix(t, n - 1))
    BY <2>1
  <2> DEFINE u == s \o Prefix(t, n - 1)
  <2>3. u \in Seq(D) /\ s \o Prefix(t, n) = Append(u, t[n])
    BY <2>1
  <2> HIDE DEF u
  <2>4. Folding(p, base, Append(u, t[n])) = Op(p, Folding(p, base, u), t[n])
    BY <2>1, <2>3, FoldsOneMore
  <2>5. Op(p, a, t[n]) = Folding(p, base, s \o Prefix(t, n))
    BY <2>2, <2>3, <2>4 DEF u
  <2>6. QED  BY <2>1, <2>5
<1>4. Q[Len(t)] = {Folding(p, base, s \o t)}
  BY <1>1
<1> HIDE DEF Q, mid
<1>5. Folding(p, mid, t) \in Q[Len(t)]
  BY <1>2, <1>3, FoldsAlong
<1>6. QED  BY <1>4, <1>5 DEF mid

\* What one entry brings about and every later one keeps, the fold has.
LEMMA FoldsReach ==
    ASSUME NEW p, NEW T, NEW U, NEW D, NEW base \in U, NEW s \in Seq(D), NEW k \in 1 .. Len(s),
           \A a \in U : \A e \in D : Op(p, a, e) \in U,
           \A a \in U : Op(p, a, s[k]) \in T,
           \A a \in T : \A e \in D : Op(p, a, e) \in T
    PROVE  Folding(p, base, s) \in T
<1> DEFINE Q == [n \in 0 .. Len(s) |-> IF n < k THEN U ELSE T]
<1>1. Len(s) \in Nat /\ k \in Nat /\ 0 < k /\ k <= Len(s)
  OBVIOUS
<1>2. base \in Q[0]
  BY <1>1
<1>3. ASSUME NEW n \in 1 .. Len(s), NEW a \in Q[n - 1]
      PROVE  Op(p, a, s[n]) \in Q[n]
  <2>1. n - 1 \in 0 .. Len(s) /\ n \in 0 .. Len(s) /\ s[n] \in D /\ n \in Nat
    BY PrefixGrows
  <2>2. CASE n < k
    BY <1>1, <2>1, <2>2
  <2>3. CASE n = k
    BY <1>1, <2>1, <2>3
  <2>4. CASE n > k
    <3>1. a \in T
      BY <1>1, <2>1, <2>4
    <3>2. QED  BY <1>1, <2>1, <2>4, <3>1
  <2>5. QED  BY <1>1, <2>1, <2>2, <2>3, <2>4
<1>4. Q[Len(s)] = T
  BY <1>1
<1> HIDE DEF Q
<1>5. QED  BY <1>2, <1>3, <1>4, FoldsAlong

=============================================================================
