--------------------------- MODULE SeqFilterProofs ---------------------------
(***************************************************************************)
(* What Only returns, by induction: an induction theorem of the library    *)
(* takes the property as an operator, so induction is used here in the     *)
(* form "a set of natural numbers that is not empty has a least element",  *)
(* which takes a set.                                                      *)
(***************************************************************************)
EXTENDS SeqFilter, TLAPS, SequenceTheorems, WellFoundedInduction

LEMMA LeastNatural ==
  ASSUME NEW T \in SUBSET Nat, T # {}
  PROVE  \E n \in T : \A m \in T : n <= m
<1> DEFINE R == {ss \in Nat \X Nat : ss[1] < ss[2]}
<1>1. IsWellFoundedOn(R, Nat)
  BY NatLessThanWellFounded DEF OpToRel
<1> HIDE DEF R
<1>2. PICK n \in T : \A m \in T : ~(<<m, n>> \in R)
  BY <1>1, WFMin
<1>3. \A m \in T : ~(m < n)
  BY <1>2 DEF R
<1>4. QED BY <1>3

(* Induction from 0 for the members of a set. *)
LEMMA Induction ==
  ASSUME NEW P \in SUBSET Nat, 0 \in P, \A n \in P : n + 1 \in P
  PROVE  P = Nat
<1> SUFFICES ASSUME Nat \ P # {} PROVE FALSE
  OBVIOUS
<1>1. PICK n \in Nat \ P : \A m \in Nat \ P : n <= m
  BY LeastNatural
<1>2. n # 0 /\ n - 1 \in Nat
  BY <1>1
<1>3. n - 1 \in P
  BY <1>1, <1>2
<1>4. QED BY <1>1, <1>3

(* kept, the function that Only is the last value of. *)
Step(f, s, S, n) ==
  IF n = 0 THEN <<>>
  ELSE IF s[n] \in S THEN Append(f[n - 1], s[n])
  ELSE f[n - 1]

Keeps(f, s, S, N) == f = [n \in 0..N |-> Step(f, s, S, n)]

LEMMA KeepsStep ==
  ASSUME NEW f, NEW s, NEW S, NEW N, Keeps(f, s, S, N), NEW n \in 0..N
  PROVE  f[n] = Step(f, s, S, n)
<1> DEFINE g == [m \in 0..N |-> Step(f, s, S, m)]
<1>1. g[n] = Step(f, s, S, n)
  OBVIOUS
<1>2. f = g
  BY DEF Keeps
<1> HIDE DEF g
<1>3. QED BY <1>1, <1>2

LEMMA KeepsExists ==
  ASSUME NEW s, NEW S
  PROVE  \A N \in Nat : \E f : Keeps(f, s, S, N)
<1> DEFINE P == {N \in Nat : \E f : Keeps(f, s, S, N)}
<1>1. 0 \in P
  <2>1. Keeps([n \in 0..0 |-> <<>>], s, S, 0)
    BY DEF Keeps, Step
  <2>2. QED BY <2>1
<1>2. ASSUME NEW N \in P PROVE N + 1 \in P
  <2>1. PICK f : Keeps(f, s, S, N)
    BY <1>2
  <2> DEFINE g == [n \in 0..(N + 1) |-> IF n = N + 1 THEN Step(f, s, S, n) ELSE f[n]]
  <2>2. \A n \in 0..(N + 1) : n # 0 => g[n - 1] = f[n - 1]
    OBVIOUS
  <2>3. \A n \in 0..(N + 1) : Step(g, s, S, n) = Step(f, s, S, n)
    BY <2>2 DEF Step
  <2>4. \A n \in 0..N : f[n] = Step(f, s, S, n)
    BY <2>1, KeepsStep
  <2>5. \A n \in 0..(N + 1) : g[n] = Step(g, s, S, n)
    BY <2>3, <2>4
  <2>6. Keeps(g, s, S, N + 1)
    <3>1. g = [n \in 0..(N + 1) |-> g[n]]
      OBVIOUS
    <3> HIDE DEF g
    <3>2. QED BY <2>5, <3>1 DEF Keeps
  <2>7. QED BY <2>6
<1>3. P = Nat
  <2> HIDE DEF P
  <2>1. QED BY <1>1, <1>2, Induction DEF P
<1>4. QED BY <1>3

(* Two such functions agree as long as their sequences do. *)
LEMMA KeepsAgree ==
  ASSUME NEW s, NEW t, NEW S, NEW M \in Nat, NEW N \in Nat, M <= N,
         NEW f, Keeps(f, s, S, M), NEW g, Keeps(g, t, S, N),
         \A n \in 1..M : s[n] = t[n]
  PROVE  f[M] = g[M]
<1> DEFINE P == {n \in Nat : n <= M => f[n] = g[n]}
<1>1. \A n \in 0..M : f[n] = Step(f, s, S, n) /\ g[n] = Step(g, t, S, n)
  BY KeepsStep
<1>2. 0 \in P
  BY <1>1 DEF Step
<1>3. ASSUME NEW n \in P PROVE n + 1 \in P
  <2> SUFFICES ASSUME n + 1 <= M PROVE f[n + 1] = g[n + 1]
    OBVIOUS
  <2>1. f[n] = g[n] /\ n + 1 \in 1..M /\ n + 1 # 0 /\ (n + 1) - 1 = n
    BY <1>3
  <2>2. s[n + 1] = t[n + 1]
    BY <2>1
  <2>3. QED BY <1>1, <2>1, <2>2 DEF Step
<1>4. P = Nat
  <2> HIDE DEF P
  <2>1. QED BY <1>2, <1>3, Induction DEF P
<1>5. QED BY <1>4

(* Only is the last value of such a function. *)
LEMMA OnlyIsKept ==
  ASSUME NEW s, Len(s) \in Nat, NEW S, NEW f, Keeps(f, s, S, Len(s))
  PROVE  Only(s, S) = f[Len(s)]
<1> DEFINE g == CHOOSE h : Keeps(h, s, S, Len(s))
<1>1. Keeps(g, s, S, Len(s))
  OBVIOUS
<1>2. Only(s, S) = g[Len(s)]
  BY DEF Only, Keeps, Step
<1> HIDE DEF g
<1>3. g[Len(s)] = f[Len(s)]
  BY <1>1, KeepsAgree
<1>4. QED BY <1>2, <1>3

-----------------------------------------------------------------------------
(* The equations of Only. *)
LEMMA OnlyEmpty ==
  ASSUME NEW S
  PROVE  Only(<<>>, S) = <<>>
<1>1. PICK f : Keeps(f, <<>>, S, 0)
  BY KeepsExists
<1>2. f[0] = <<>>
  BY <1>1, KeepsStep DEF Step
<1>3. QED BY <1>1, <1>2, OnlyIsKept

LEMMA OnlyAppend ==
  ASSUME NEW T, NEW s \in Seq(T), NEW e \in T, NEW S
  PROVE  Only(Append(s, e), S) = IF e \in S THEN Append(Only(s, S), e) ELSE Only(s, S)
<1> DEFINE t == Append(s, e)
           N == Len(s)
<1>1. /\ N \in Nat /\ Len(t) = N + 1 /\ t[N + 1] = e
      /\ \A n \in 1..N : s[n] = t[n]
  BY AppendProperties, LenProperties
<1> HIDE DEF t, N
<1>2. PICK f : Keeps(f, s, S, N)
  BY <1>1, KeepsExists
<1>3. PICK g : Keeps(g, t, S, N + 1)
  <2>1. N + 1 \in Nat
    BY <1>1
  <2>2. QED BY <2>1, KeepsExists
<1>4. f[N] = g[N]
  BY <1>1, <1>2, <1>3, KeepsAgree
<1>5. Only(s, S) = f[N]
  BY <1>1, <1>2, OnlyIsKept DEF N
<1>6. Only(t, S) = g[N + 1]
  BY <1>1, <1>3, OnlyIsKept
<1>7. g[N + 1] = Step(g, t, S, N + 1)
  BY <1>1, <1>3, KeepsStep
<1>8. QED BY <1>1, <1>4, <1>5, <1>6, <1>7 DEF Step, t

(* It is a sequence of elements of both, no longer than the one it is      *)
(* taken from.                                                             *)
LEMMA OnlyType ==
  ASSUME NEW T, NEW s \in Seq(T), NEW S
  PROVE  /\ Only(s, S) \in Seq(S \cap T)
         /\ Len(Only(s, S)) <= Len(s)
<1> DEFINE N == Len(s)
<1>1. N \in Nat /\ \A n \in 1..N : s[n] \in T
  BY LenProperties, ElementOfSeq
<1>2. PICK f : Keeps(f, s, S, N)
  BY <1>1, KeepsExists
<1> DEFINE Good(n) == f[n] \in Seq(S \cap T) /\ Len(f[n]) <= n
           P == {n \in Nat : n <= N => Good(n)}
<1>3. \A n \in 0..N : f[n] = Step(f, s, S, n)
  BY <1>2, KeepsStep
<1>4. 0 \in P
  <2>1. f[0] = <<>>
    BY <1>1, <1>3 DEF Step
  <2>2. <<>> \in Seq(S \cap T) /\ Len(<<>>) = 0
    BY EmptySeq
  <2>3. Good(0)
    BY <2>1, <2>2
  <2> HIDE DEF Good
  <2>4. QED BY <2>3
<1>5. ASSUME NEW n \in P PROVE n + 1 \in P
  <2> SUFFICES ASSUME n + 1 <= N PROVE Good(n + 1)
    OBVIOUS
  <2>1. n \in 0..N /\ n + 1 \in 1..N /\ n + 1 \in 0..N /\ n + 1 # 0 /\ (n + 1) - 1 = n
    BY <1>1, <1>5
  <2>2. f[n] \in Seq(S \cap T) /\ Len(f[n]) <= n /\ Len(f[n]) \in Nat
    BY <1>5, <2>1, LenProperties
  <2>3. f[n + 1] = IF s[n + 1] \in S THEN Append(f[n], s[n + 1]) ELSE f[n]
    BY <1>3, <2>1 DEF Step
  <2>4. CASE s[n + 1] \in S
    <3>1. s[n + 1] \in S \cap T
      BY <1>1, <2>1, <2>4
    <3>2. f[n + 1] \in Seq(S \cap T) /\ Len(f[n + 1]) = Len(f[n]) + 1
      BY <2>2, <2>3, <2>4, <3>1, AppendProperties
    <3>3. QED BY <2>1, <2>2, <3>2
  <2>5. CASE s[n + 1] \notin S
    BY <2>1, <2>2, <2>3, <2>5
  <2>6. QED BY <2>4, <2>5
<1>6. P = Nat
  <2> HIDE DEF P
  <2>1. QED BY <1>4, <1>5, Induction DEF P
<1>7. Good(N)
  BY <1>1, <1>6
<1>8. Only(s, S) = f[N]
  BY <1>1, <1>2, OnlyIsKept
<1>9. QED BY <1>7, <1>8
=============================================================================
