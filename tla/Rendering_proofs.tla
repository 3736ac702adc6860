--------------------------- MODULE Rendering_proofs ---------------------------
(***************************************************************************)
(* Theorems about what a log page shows, for any streams and lines: the    *)
(* reference of Rendering against the steps of LogStream.                  *)
(*                                                                         *)
(* The reference and FlattenSeq are recursive, so what they compute is     *)
(* proved by induction over their input.  The induction is stated over     *)
(* sets and functions of a measure, never over an operator.                *)
(***************************************************************************)
EXTENDS Rendering, LogStream_proofs

-----------------------------------------------------------------------------
(* Induction and recursion, with sets and functions for the predicates and *)
(* the steps.                                                              *)

LEMMA UpFromZero ==
    ASSUME NEW T, 0 \in T, \A n \in Nat : n \in T => n + 1 \in T
    PROVE  \A n \in Nat : n \in T
<1> SUFFICES ASSUME Nat \ T # {}  PROVE FALSE
  OBVIOUS
<1> DEFINE D == Nat \ T
<1>1. D \in SUBSET Nat /\ D # {} /\ \A n \in Nat : n \in D <=> n \notin T
  OBVIOUS
<1> HIDE DEF D
<1>2. PICK n \in D : \A k \in D : n =< k
  BY <1>1, FirstPosition
<1>3. n \in Nat /\ n \notin T
  BY <1>1
<1>4. n # 0
  BY <1>3
<1>5. n - 1 \in Nat /\ ~(n =< n - 1) /\ (n - 1) + 1 = n
  BY <1>3, <1>4
<1>6. n - 1 \in T
  BY <1>1, <1>2, <1>5
<1> QED BY <1>3, <1>5, <1>6

LEMMA UpTheMeasure ==
    ASSUME NEW S, NEW m \in [S -> Nat], NEW T,
           \A x \in S : (\A y \in S : m[y] < m[x] => y \in T) => x \in T
    PROVE  \A x \in S : x \in T
<1> SUFFICES ASSUME NEW z \in S, z \notin T  PROVE FALSE
  OBVIOUS
<1> DEFINE V == {m[x] : x \in S \ T}
<1>1. V \in SUBSET Nat /\ m[z] \in V
  OBVIOUS
<1>2. PICK v \in V : \A w \in V : v =< w
  <2> HIDE DEF V
  <2> QED BY <1>1, FirstPosition
<1>3. PICK x \in S \ T : v = m[x]
  BY <1>2
<1>4. \A y \in S \ T : m[x] =< m[y]
  BY <1>2, <1>3
<1>5. ASSUME NEW y \in S, m[y] < m[x]  PROVE y \in T
  <2>1. m[y] \in Nat /\ m[x] \in Nat
    OBVIOUS
  <2>2. ~(m[x] =< m[y])
    BY <1>5, <2>1
  <2> QED BY <1>4, <2>2
<1> QED BY <1>3, <1>5

(* The recursion goes from x to next[x] until it is at one of the ends, and *)
(* each turn is to a value of lower measure.                               *)
Decreasing(S, ends, next, m) ==
    /\ ends \in SUBSET S /\ next \in [S -> S] /\ m \in [S -> Nat]
    /\ \A x \in S \ ends : m[next[x]] < m[x]

(* A solution, on the values of S of measure less than n, of the equation  *)
(* f[x] = x at the ends of the recursion and f[next[x]] elsewhere.         *)
Below(S, m, n) == {x \in S : m[x] < n}
Solves(f, S, ends, next, m, n) ==
    /\ f \in [Below(S, m, n) -> S]
    /\ \A x \in Below(S, m, n) : f[x] = IF x \in ends THEN x ELSE f[next[x]]

LEMMA SolutionsExist ==
    ASSUME NEW S, NEW ends, NEW next, NEW m, Decreasing(S, ends, next, m)
    PROVE  \A n \in Nat : \E f : Solves(f, S, ends, next, m, n)
<1>   /\ ends \in SUBSET S /\ next \in [S -> S] /\ m \in [S -> Nat]
      /\ \A x \in S \ ends : m[next[x]] < m[x]
  BY DEF Decreasing
<1> DEFINE T == {n \in Nat : \E f : Solves(f, S, ends, next, m, n)}
<1>1. 0 \in T
  <2>1. Below(S, m, 0) = {}
    BY DEF Below
  <2>2. Solves([x \in {} |-> x], S, ends, next, m, 0)
    BY <2>1 DEF Solves
  <2> QED BY <2>2
<1>2. ASSUME NEW n \in Nat, n \in T  PROVE n + 1 \in T
  <2>1. PICK f : Solves(f, S, ends, next, m, n)
    BY <1>2
  <2> DEFINE g == [x \in Below(S, m, n + 1) |-> IF x \in ends THEN x ELSE f[next[x]]]
  <2>2. ASSUME NEW x \in Below(S, m, n + 1), x \notin ends
        PROVE  next[x] \in Below(S, m, n)
    <3>1. x \in S /\ m[x] < n + 1
      BY DEF Below
    <3>2. next[x] \in S /\ m[next[x]] < m[x]
      BY <2>2, <3>1
    <3>3. m[x] \in Nat /\ m[next[x]] \in Nat
      BY <3>1, <3>2
    <3>4. m[next[x]] < n
      BY <3>1, <3>2, <3>3
    <3> QED BY <3>2, <3>4 DEF Below
  <2>3. \A x \in Below(S, m, n) : x \in Below(S, m, n + 1)
    BY DEF Below
  <2>4. f \in [Below(S, m, n) -> S]
        /\ \A x \in Below(S, m, n) : f[x] = IF x \in ends THEN x ELSE f[next[x]]
    BY <2>1 DEF Solves
  <2>5. \A x \in Below(S, m, n + 1) : x \in S
    BY DEF Below
  <2>6. g \in [Below(S, m, n + 1) -> S]
    BY <2>2, <2>4, <2>5
  <2>7. \A x \in Below(S, m, n) : g[x] = f[x]
    BY <2>3, <2>4
  <2>8. \A x \in Below(S, m, n + 1) : g[x] = IF x \in ends THEN x ELSE f[next[x]]
    OBVIOUS
  <2> HIDE DEF g
  <2>9. \A x \in Below(S, m, n + 1) : g[x] = IF x \in ends THEN x ELSE g[next[x]]
    BY <2>2, <2>7, <2>8
  <2>10. Solves(g, S, ends, next, m, n + 1)
    BY <2>6, <2>9 DEF Solves
  <2> QED BY <2>10
<1>3. \A n \in Nat : n \in T
  <2> HIDE DEF T
  <2> QED BY <1>1, <1>2, UpFromZero
<1> QED BY <1>3

LEMMA SolutionsAgree ==
    ASSUME NEW S, NEW ends, NEW next, NEW m, Decreasing(S, ends, next, m),
           NEW n \in Nat, NEW k \in Nat, NEW f, NEW g,
           Solves(f, S, ends, next, m, n), Solves(g, S, ends, next, m, k)
    PROVE  \A x \in S : m[x] < n /\ m[x] < k => f[x] = g[x]
<1>   /\ ends \in SUBSET S /\ next \in [S -> S] /\ m \in [S -> Nat]
      /\ \A x \in S \ ends : m[next[x]] < m[x]
  BY DEF Decreasing
<1> DEFINE T == {x \in S : m[x] < n /\ m[x] < k => f[x] = g[x]}
<1>1. ASSUME NEW x \in S, \A y \in S : m[y] < m[x] => y \in T, m[x] < n, m[x] < k
      PROVE  f[x] = g[x]
  <2>1. x \in Below(S, m, n) /\ x \in Below(S, m, k)
    BY <1>1 DEF Below
  <2>2. f[x] = (IF x \in ends THEN x ELSE f[next[x]]) /\ g[x] = IF x \in ends THEN x ELSE g[next[x]]
    BY <2>1 DEF Solves
  <2>3. ASSUME x \notin ends  PROVE f[next[x]] = g[next[x]]
    <3>1. next[x] \in S /\ m[next[x]] < m[x] /\ m[x] \in Nat /\ m[next[x]] \in Nat
      BY <2>3
    <3>2. m[next[x]] < n /\ m[next[x]] < k
      BY <1>1, <3>1
    <3> QED BY <1>1, <3>1, <3>2
  <2> QED BY <2>2, <2>3
<1>2. \A x \in S : (\A y \in S : m[y] < m[x] => y \in T) => x \in T
  BY <1>1
<1>3. \A x \in S : x \in T
  <2> HIDE DEF T
  <2> QED BY <1>2, UpTheMeasure
<1> QED BY <1>3

Solved(S, ends, next) ==
    \E f \in [S -> S] : \A x \in S : f[x] = IF x \in ends THEN x ELSE f[next[x]]

LEMMA SolutionExists ==
    ASSUME NEW S, NEW ends, NEW next, NEW m, Decreasing(S, ends, next, m)
    PROVE  Solved(S, ends, next)
<1>   /\ ends \in SUBSET S /\ next \in [S -> S] /\ m \in [S -> Nat]
      /\ \A x \in S \ ends : m[next[x]] < m[x]
  BY DEF Decreasing
<1> DEFINE g(n) == CHOOSE f : Solves(f, S, ends, next, m, n)
<1>1. ASSUME NEW n \in Nat  PROVE Solves(g(n), S, ends, next, m, n)
  BY SolutionsExist, Zenon
<1> DEFINE f == [x \in S |-> g(m[x] + 1)[x]]
<1>2. ASSUME NEW x \in S
      PROVE  /\ m[x] \in Nat /\ m[x] + 1 \in Nat /\ m[x] < m[x] + 1
             /\ x \in Below(S, m, m[x] + 1)
  BY DEF Below
<1> HIDE DEF g
<1>3. f \in [S -> S]
  BY <1>1, <1>2 DEF Solves
<1>4. ASSUME NEW x \in S  PROVE f[x] = IF x \in ends THEN x ELSE g(m[x] + 1)[next[x]]
  BY <1>1, <1>2 DEF Solves
<1>5. ASSUME NEW x \in S, x \notin ends  PROVE g(m[x] + 1)[next[x]] = f[next[x]]
  <2> DEFINE y == next[x]
  <2>1. y \in S /\ m[y] < m[x]
    BY <1>5
  <2>2. m[y] < m[x] + 1
    BY <1>2, <2>1
  <2> HIDE DEF y
  <2>3. Solves(g(m[x] + 1), S, ends, next, m, m[x] + 1) /\ Solves(g(m[y] + 1), S, ends, next, m, m[y] + 1)
    BY <1>1, <1>2, <2>1
  <2>4. g(m[x] + 1)[y] = g(m[y] + 1)[y]
    BY <1>2, <2>1, <2>2, <2>3, SolutionsAgree
  <2>5. f[y] = g(m[y] + 1)[y]
    BY <2>1
  <2> QED BY <2>4, <2>5 DEF y
<1> QED
  <2> HIDE DEF f
  <2> QED BY <1>3, <1>4, <1>5 DEF Solved

-----------------------------------------------------------------------------
(* FlattenSeq.                                                             *)

Flattens(f, s) == f = [i \in 1..Len(s) |-> IF i = 1 THEN s[i] ELSE f[i-1] \o s[i]]

LEMMA FlattenExists ==
    ASSUME NEW T, NEW s \in Seq(Seq(T))  PROVE \E f : Flattens(f, s)
<1> DEFINE Up(n, f) == /\ f \in [1..n -> Seq(T)]
                       /\ \A i \in 1..n : f[i] = IF i = 1 THEN s[i] ELSE f[i-1] \o s[i]
           D == {n \in Nat : n =< Len(s) => \E f : Up(n, f)}
<1>1. Len(s) \in Nat /\ \A i \in 1..Len(s) : s[i] \in Seq(T)
  BY LenProperties, ElementOfSeq
<1>2. 0 \in D
  <2>1. 1..0 = {}
    OBVIOUS
  <2>2. Up(0, [i \in 1..0 |-> s])
    BY <2>1
  <2> QED BY <2>2
<1>3. ASSUME NEW n \in Nat, n \in D, n + 1 =< Len(s)  PROVE \E f : Up(n + 1, f)
  <2>1. n =< Len(s) /\ n + 1 \in 1..Len(s)
    BY <1>1, <1>3
  <2>2. PICK f : Up(n, f)
    BY <1>3, <2>1
  <2> DEFINE last == IF n = 0 THEN s[n + 1] ELSE f[n] \o s[n + 1]
             g == [i \in 1..n + 1 |-> IF i = n + 1 THEN last ELSE f[i]]
  <2>3. last \in Seq(T)
    <3>1. s[n + 1] \in Seq(T)
      BY <1>1, <2>1
    <3>2. n # 0 => f[n] \in Seq(T)
      BY <2>2
    <3> QED BY <3>1, <3>2, ConcatProperties
  <2> HIDE DEF last
  <2>4. \A i \in 1..n + 1 : i # n + 1 => i \in 1..n
    BY <1>1
  <2>5. g \in [1..n + 1 -> Seq(T)]
    BY <2>2, <2>3, <2>4
  <2>6. \A i \in 1..n : g[i] = f[i]
    OBVIOUS
  <2>7. g[n + 1] = last
    OBVIOUS
  <2> HIDE DEF g
  <2>8. ASSUME NEW i \in 1..n + 1  PROVE g[i] = IF i = 1 THEN s[i] ELSE g[i-1] \o s[i]
    <3>1. CASE i = n + 1
      <4>1. n # 0 => g[n] = f[n]
        BY <2>6
      <4>2. (n = 0 <=> i = 1) /\ i - 1 = n
        BY <3>1
      <4>3. g[i] = IF n = 0 THEN s[i] ELSE f[n] \o s[i]
        BY <2>7, <3>1 DEF last
      <4> QED BY <4>1, <4>2, <4>3
    <3>2. CASE i # n + 1
      <4>1. i \in 1..n /\ (i # 1 => i - 1 \in 1..n)
        BY <2>4, <3>2
      <4> QED BY <2>2, <2>6, <4>1
    <3> QED BY <3>1, <3>2
  <2> QED BY <2>5, <2>8
<1>4. \A n \in Nat : n \in D
  <2>1. ASSUME NEW n \in Nat, n \in D  PROVE n + 1 \in D
    <3>1. n + 1 =< Len(s) => \E f : Up(n + 1, f)
      BY <1>3, <2>1
    <3> HIDE DEF Up
    <3> QED BY <3>1
  <2> HIDE DEF D
  <2> QED BY <1>2, <2>1, UpFromZero
<1>5. PICK f : Up(Len(s), f)
  <2>1. Len(s) \in D
    BY <1>1, <1>4
  <2> HIDE DEF Up
  <2> QED BY <1>1, <2>1
<1> QED BY <1>5 DEF Flattens

LEMMA FlattenValue ==
    ASSUME NEW T, NEW s \in Seq(Seq(T)), s # <<>>
    PROVE  \E f : Flattens(f, s) /\ FlattenSeq(s) = f[Len(s)]
<1>1. Len(s) # 0
  BY EmptySeq
<1> DEFINE f == CHOOSE g : Flattens(g, s)
<1>2. Flattens(f, s)
  <2>1. \E g : Flattens(g, s)
    BY FlattenExists
  <2> QED BY <2>1, Zenon
<1>3. FlattenSeq(s) = f[Len(s)]
  BY <1>1, Zenon DEF FlattenSeq, Flattens
<1> QED BY <1>2, <1>3

LEMMA FlattenTurn ==
    ASSUME NEW s, NEW f, Flattens(f, s), NEW i \in 1..Len(s)
    PROVE  f[i] = IF i = 1 THEN s[i] ELSE f[i-1] \o s[i]
BY DEF Flattens

LEMMA FlattenEmpty == FlattenSeq(<<>>) = <<>>
<1>1. Len(<<>>) = 0
  OBVIOUS
<1> QED BY <1>1, Zenon DEF FlattenSeq

LEMMA FlattenAppend ==
    ASSUME NEW T, NEW s \in Seq(Seq(T)), NEW x \in Seq(T), FlattenSeq(s) \in Seq(T)
    PROVE  /\ FlattenSeq(Append(s, x)) = FlattenSeq(s) \o x
           /\ FlattenSeq(Append(s, x)) \in Seq(T)
<1> DEFINE t == Append(s, x)
<1>1. /\ t \in Seq(Seq(T)) /\ Len(t) = Len(s) + 1 /\ Len(s) \in Nat
      /\ \A i \in 1..Len(s) : t[i] = s[i]
      /\ t[Len(s) + 1] = x
  BY AppendProperties, LenProperties
<1> HIDE DEF t
<1>2. t # <<>>
  BY <1>1, EmptySeq
<1>3. PICK g : Flattens(g, t) /\ FlattenSeq(t) = g[Len(t)]
  BY <1>1, <1>2, FlattenValue
<1>4. \A i \in 1..Len(t) : g[i] = IF i = 1 THEN t[i] ELSE g[i-1] \o t[i]
  BY <1>3, FlattenTurn
<1>5. FlattenSeq(t) = FlattenSeq(s) \o x
  <2>1. CASE s = <<>>
    <3>1. Len(s) = 0 /\ FlattenSeq(s) = <<>>
      BY <2>1, FlattenEmpty
    <3>2. FlattenSeq(t) = x
      BY <1>1, <1>3, <1>4, <3>1
    <3> QED BY <3>1, <3>2, ConcatEmptySeq
  <2>2. CASE s # <<>>
    <3>1. PICK f : Flattens(f, s) /\ FlattenSeq(s) = f[Len(s)]
      BY <2>2, FlattenValue
    <3>2. \A i \in 1..Len(s) : f[i] = IF i = 1 THEN s[i] ELSE f[i-1] \o s[i]
      BY <3>1, FlattenTurn
    <3> DEFINE D == {n \in Nat : n + 1 =< Len(s) => f[n + 1] = g[n + 1]}
    <3>3. 0 \in D
      <4>1. ASSUME 1 =< Len(s)  PROVE f[1] = g[1]
        <5>1. 1 \in 1..Len(s) /\ 1 \in 1..Len(t)
          BY <1>1, <4>1
        <5> QED BY <1>1, <1>4, <3>2, <5>1
      <4> QED BY <4>1
    <3>4. ASSUME NEW n \in Nat, n \in D, (n + 1) + 1 =< Len(s)
          PROVE  f[(n + 1) + 1] = g[(n + 1) + 1]
      <4> DEFINE k == (n + 1) + 1
      <4>1. k \in 1..Len(s) /\ k \in 1..Len(t) /\ k # 1 /\ k - 1 = n + 1 /\ n + 1 =< Len(s)
        BY <1>1, <3>4
      <4>2. f[n + 1] = g[n + 1]
        BY <3>4, <4>1
      <4> HIDE DEF k
      <4>3. f[k] = f[n + 1] \o s[k] /\ g[k] = g[n + 1] \o t[k]
        BY <1>4, <3>2, <4>1
      <4>4. f[k] = g[k]
        BY <1>1, <4>1, <4>2, <4>3
      <4> QED BY <4>4 DEF k
    <3>5. \A n \in Nat : n \in D
      <4>1. ASSUME NEW n \in Nat, n \in D  PROVE n + 1 \in D
        <5>1. (n + 1) + 1 =< Len(s) => f[(n + 1) + 1] = g[(n + 1) + 1]
          BY <3>4, <4>1
        <5>2. n + 1 \in Nat
          OBVIOUS
        <5> QED BY <5>1, <5>2
      <4> HIDE DEF D
      <4> QED BY <3>3, <4>1, UpFromZero
    <3>6. Len(s) >= 1 /\ Len(s) - 1 \in Nat /\ (Len(s) - 1) + 1 = Len(s)
      BY <1>1, <2>2, EmptySeq
    <3>7. f[Len(s)] = g[Len(s)]
      <4> DEFINE k == Len(s) - 1
      <4>1. k \in Nat /\ k + 1 = Len(s) /\ k + 1 =< Len(s)
        BY <1>1, <3>6
      <4>2. k \in D
        BY <3>5, <4>1
      <4> HIDE DEF k
      <4>3. f[k + 1] = g[k + 1]
        BY <4>1, <4>2
      <4> QED BY <4>1, <4>3
    <3>8. Len(t) \in 1..Len(t) /\ Len(t) # 1 /\ Len(t) - 1 = Len(s)
      BY <1>1, <3>6
    <3>9. g[Len(t)] = g[Len(s)] \o t[Len(t)]
      BY <1>4, <3>8
    <3> QED BY <1>1, <1>3, <3>1, <3>7, <3>9
  <2> QED BY <2>1, <2>2
<1>6. FlattenSeq(t) \in Seq(T)
  BY <1>5, ConcatProperties
<1> QED BY <1>5, <1>6 DEF t

LEMMA FlattenType ==
    ASSUME NEW T, NEW s \in Seq(Seq(T))  PROVE FlattenSeq(s) \in Seq(T)
<1> DEFINE D == {n \in Nat : \A t \in Seq(Seq(T)) : Len(t) = n => FlattenSeq(t) \in Seq(T)}
<1>1. 0 \in D
  <2>1. \A t \in Seq(Seq(T)) : Len(t) = 0 => t = <<>>
    BY EmptySeq
  <2>2. <<>> \in Seq(T)
    BY EmptySeq
  <2> QED BY <2>1, <2>2, FlattenEmpty
<1>2. ASSUME NEW n \in Nat, n \in D, NEW t \in Seq(Seq(T)), Len(t) = n + 1
      PROVE  FlattenSeq(t) \in Seq(T)
  <2>1. t # <<>>
    BY <1>2, EmptySeq
  <2>2. PICK r \in Seq(Seq(T)), x \in Seq(T) : t = Append(r, x)
    BY <2>1, SequenceEmptyOrAppend
  <2>3. Len(t) = Len(r) + 1 /\ Len(r) \in Nat
    BY <2>2, AppendProperties, LenProperties
  <2>4. Len(r) = n
    BY <1>2, <2>3
  <2>5. FlattenSeq(r) \in Seq(T)
    BY <1>2, <2>4
  <2> QED BY <2>2, <2>5, FlattenAppend
<1>3. \A n \in Nat : n \in D
  <2>1. \A n \in Nat : n \in D => n + 1 \in D
    BY <1>2
  <2> HIDE DEF D
  <2> QED BY <1>1, <2>1, UpFromZero
<1> QED BY <1>3, LenProperties

-----------------------------------------------------------------------------
(* The cells of blocks.                                                    *)

LEMMA SeqOfFunction ==
    ASSUME NEW S, NEW n \in Nat, NEW f \in [1..n -> S]
    PROVE  f \in Seq(S) /\ Len(f) = n
OBVIOUS

LEMMA ConcatAt ==
    ASSUME NEW S, NEW p \in Seq(S), NEW q \in Seq(S)
    PROVE  /\ p \o q \in Seq(S) /\ Len(p \o q) = Len(p) + Len(q)
           /\ Len(p) \in Nat /\ Len(q) \in Nat
           /\ \A i \in 1..Len(p) : (p \o q)[i] = p[i]
           /\ \A i \in 1..Len(q) : (p \o q)[Len(p) + i] = q[i]
<1>1. Len(p) \in Nat /\ Len(q) \in Nat
  BY LenProperties
<1>2. /\ p \o q \in Seq(S) /\ Len(p \o q) = Len(p) + Len(q)
      /\ \A i \in 1..Len(p) : (p \o q)[i] = p[i]
  BY ConcatProperties
<1>3. ASSUME NEW i \in 1..Len(q)  PROVE (p \o q)[Len(p) + i] = q[i]
  <2>1. Len(p) + i \in 1..Len(p) + Len(q) /\ ~(Len(p) + i =< Len(p)) /\ (Len(p) + i) - Len(p) = i
    BY <1>1
  <2> QED BY <2>1, ConcatProperties
<1> QED BY <1>1, <1>2, <1>3

LEMMA CellsOfType ==
    ASSUME NEW x \in Block
    PROVE  /\ CellsOf(x) \in Seq(Cell) /\ Len(CellsOf(x)) = Len(x.text)
           /\ \A j \in 1..Len(x.text) : CellsOf(x)[j] = <<x.text[j], x.style, x.url>>
<1>1. x.text \in Seq(Html) /\ x.style \in Style /\ x.url \in Seq(Char)
  BY DEF Block
<1>2. Len(x.text) \in Nat /\ DOMAIN x.text = 1..Len(x.text) /\ \A j \in 1..Len(x.text) : x.text[j] \in Html
  BY <1>1, LenProperties, ElementOfSeq
<1>3. \A j \in 1..Len(x.text) : <<x.text[j], x.style, x.url>> \in Cell
  BY <1>1, <1>2 DEF Cell
<1>4. CellsOf(x) = [j \in 1..Len(x.text) |-> <<x.text[j], x.style, x.url>>]
  BY <1>2 DEF CellsOf
<1>5. CellsOf(x) \in [1..Len(x.text) -> Cell]
  BY <1>3, <1>4
<1>6. CellsOf(x) \in Seq(Cell) /\ Len(CellsOf(x)) = Len(x.text)
  BY <1>2, <1>5, SeqOfFunction
<1> QED BY <1>4, <1>6

ListOf(bs) == [i \in DOMAIN bs |-> CellsOf(bs[i])]

LEMMA ListOfType ==
    ASSUME NEW bs \in Seq(Block)
    PROVE  /\ ListOf(bs) \in Seq(Seq(Cell)) /\ Len(ListOf(bs)) = Len(bs)
           /\ \A i \in 1..Len(bs) : ListOf(bs)[i] = CellsOf(bs[i])
<1>1. Len(bs) \in Nat /\ DOMAIN bs = 1..Len(bs) /\ \A i \in 1..Len(bs) : bs[i] \in Block
  BY LenProperties, ElementOfSeq
<1>2. ListOf(bs) = [i \in 1..Len(bs) |-> CellsOf(bs[i])]
  BY <1>1 DEF ListOf
<1>3. \A i \in 1..Len(bs) : CellsOf(bs[i]) \in Seq(Cell)
  BY <1>1, CellsOfType
<1>4. ListOf(bs) \in [1..Len(bs) -> Seq(Cell)]
  BY <1>2, <1>3
<1>5. ListOf(bs) \in Seq(Seq(Cell)) /\ Len(ListOf(bs)) = Len(bs)
  BY <1>1, <1>4, SeqOfFunction
<1> QED BY <1>2, <1>5

LEMMA CellsType ==
    ASSUME NEW bs \in Seq(Block)  PROVE Cells(bs) \in Seq(Cell)
<1>1. Cells(bs) = FlattenSeq(ListOf(bs))
  BY DEF Cells, ListOf
<1> QED BY <1>1, ListOfType, FlattenType

LEMMA CellsEmpty == Cells(<<>>) = <<>>
<1>1. ListOf(<<>>) \in Seq(Seq(Cell)) /\ Len(ListOf(<<>>)) = Len(<<>>)
  BY ListOfType, EmptySeq
<1>2. ListOf(<<>>) = <<>>
  BY <1>1, EmptySeq
<1> QED BY <1>2, FlattenEmpty DEF Cells, ListOf

LEMMA CellsAppend ==
    ASSUME NEW bs \in Seq(Block), NEW x \in Block
    PROVE  Cells(Append(bs, x)) = Cells(bs) \o CellsOf(x)
<1> DEFINE cs == Append(bs, x)
<1>1. /\ cs \in Seq(Block) /\ Len(cs) = Len(bs) + 1 /\ Len(bs) \in Nat
      /\ \A i \in 1..Len(bs) : cs[i] = bs[i]
      /\ cs[Len(bs) + 1] = x
  BY AppendProperties, LenProperties
<1> HIDE DEF cs
<1> DEFINE s == ListOf(bs)
           y == CellsOf(x)
           t == ListOf(cs)
<1>2. /\ s \in Seq(Seq(Cell)) /\ Len(s) = Len(bs)
      /\ \A i \in 1..Len(bs) : s[i] = CellsOf(bs[i])
  BY ListOfType
<1>3. /\ t \in Seq(Seq(Cell)) /\ Len(t) = Len(bs) + 1
      /\ \A i \in 1..Len(bs) + 1 : t[i] = CellsOf(cs[i])
  BY <1>1, ListOfType
<1>4. y \in Seq(Cell)
  BY CellsOfType
<1>5. \A i \in 1..Len(bs) : t[i] = s[i]
  BY <1>1, <1>2, <1>3
<1>6. t[Len(bs) + 1] = y
  BY <1>1, <1>3
<1> HIDE DEF s, t, y
<1>7. t = Append(s, y)
  <2> DEFINE u == Append(s, y)
  <2>1. /\ u \in Seq(Seq(Cell)) /\ Len(u) = Len(s) + 1
        /\ \A i \in 1..Len(s) : u[i] = s[i]
        /\ u[Len(s) + 1] = y
    BY <1>2, <1>4, AppendProperties
  <2> HIDE DEF u
  <2>2. \A i \in 1..Len(u) : i \in 1..Len(bs) \/ i = Len(bs) + 1
    BY <1>1, <1>2, <2>1
  <2>3. \A i \in 1..Len(t) : t[i] = u[i]
    BY <1>2, <1>3, <1>5, <1>6, <2>1, <2>2
  <2>4. Len(t) = Len(u)
    BY <1>2, <1>3, <2>1
  <2>5. t = u
    BY <1>3, <2>1, <2>3, <2>4, SeqEqual
  <2> QED BY <2>5 DEF u
<1>8. FlattenSeq(t) = FlattenSeq(s) \o y
  BY <1>2, <1>4, <1>7, FlattenType, FlattenAppend
<1>9. Cells(cs) = FlattenSeq(t) /\ Cells(bs) = FlattenSeq(s)
  BY DEF Cells, ListOf, s, t
<1> QED BY <1>8, <1>9 DEF cs, y

LEMMA CellsOne ==
    ASSUME NEW x \in Block  PROVE Cells(<<x>>) = CellsOf(x)
<1>1. Append(<<>>, x) = <<x>>
  BY AppendIsConcat, ConcatEmptySeq, EmptySeq
<1>2. Cells(<<x>>) = Cells(<<>>) \o CellsOf(x)
  BY <1>1, CellsAppend, EmptySeq
<1> QED BY <1>2, CellsEmpty, CellsOfType, ConcatEmptySeq

TextCells(s, t) == CellsOf(TransformToHtml(s, t))

LEMMA TextCellsType ==
    ASSUME NEW s \in Style, NEW t \in Seq(Char)
    PROVE  /\ TextCells(s, t) \in Seq(Cell) /\ Len(TextCells(s, t)) = Len(t)
           /\ \A j \in 1..Len(t) : TextCells(s, t)[j] = <<EscapeTxtForHtml(t)[j], s, <<>> >>
<1> DEFINE x == TransformToHtml(s, t)
<1>1. x \in Block
  BY TextBlock
<1>2. x.text = EscapeTxtForHtml(t) /\ x.style = s /\ x.url = <<>>
  BY DEF TransformToHtml
<1>3. Len(EscapeTxtForHtml(t)) = Len(t)
  <2>1. Len(t) \in Nat /\ DOMAIN t = 1..Len(t)
    BY LenProperties
  <2>2. EscapeTxtForHtml(t) \in Seq(Html)
    BY EscapedType
  <2>3. DOMAIN EscapeTxtForHtml(t) = 1..Len(t)
    BY <2>1 DEF EscapeTxtForHtml
  <2> HIDE DEF x
  <2> QED BY <2>1, <2>2, <2>3, LenProperties
<1> HIDE DEF x
<1>4. /\ CellsOf(x) \in Seq(Cell) /\ Len(CellsOf(x)) = Len(x.text)
      /\ \A j \in 1..Len(x.text) : CellsOf(x)[j] = <<x.text[j], x.style, x.url>>
  BY <1>1, CellsOfType
<1> QED BY <1>2, <1>3, <1>4 DEF TextCells, x

LEMMA EscapedAlike ==
    ASSUME NEW t \in Seq(Char), NEW u \in Seq(Char), NEW i \in 1..Len(t), NEW j \in 1..Len(u),
           t[i] = u[j]
    PROVE  EscapeTxtForHtml(t)[i] = EscapeTxtForHtml(u)[j]
<1>1. i \in DOMAIN t /\ j \in DOMAIN u
  BY LenProperties
<1> QED BY <1>1, Zenon DEF EscapeTxtForHtml

(* A text that is cut gives the same cells as its parts.                   *)
LEMMA TextJoin ==
    ASSUME NEW s \in Style, NEW t \in Seq(Char), NEW u \in Seq(Char)
    PROVE  TextCells(s, t \o u) = TextCells(s, t) \o TextCells(s, u)
<1> DEFINE v == t \o u
           w == TextCells(s, t) \o TextCells(s, u)
<1>1. /\ v \in Seq(Char) /\ Len(v) = Len(t) + Len(u) /\ Len(t) \in Nat /\ Len(u) \in Nat
      /\ \A i \in 1..Len(t) : v[i] = t[i]
      /\ \A i \in 1..Len(u) : v[Len(t) + i] = u[i]
  BY ConcatAt
<1>2. /\ TextCells(s, t) \in Seq(Cell) /\ Len(TextCells(s, t)) = Len(t)
      /\ \A j \in 1..Len(t) : TextCells(s, t)[j] = <<EscapeTxtForHtml(t)[j], s, <<>> >>
  BY TextCellsType
<1>3. /\ TextCells(s, u) \in Seq(Cell) /\ Len(TextCells(s, u)) = Len(u)
      /\ \A j \in 1..Len(u) : TextCells(s, u)[j] = <<EscapeTxtForHtml(u)[j], s, <<>> >>
  BY TextCellsType
<1> HIDE DEF v
<1>4. /\ TextCells(s, v) \in Seq(Cell) /\ Len(TextCells(s, v)) = Len(v)
      /\ \A j \in 1..Len(v) : TextCells(s, v)[j] = <<EscapeTxtForHtml(v)[j], s, <<>> >>
  BY <1>1, TextCellsType
<1>5. /\ w \in Seq(Cell) /\ Len(w) = Len(t) + Len(u)
      /\ \A i \in 1..Len(t) : w[i] = TextCells(s, t)[i]
      /\ \A i \in 1..Len(u) : w[Len(t) + i] = TextCells(s, u)[i]
  <2>1. PICK p \in Seq(Cell), q \in Seq(Cell) : p = TextCells(s, t) /\ q = TextCells(s, u)
    BY <1>2, <1>3
  <2>2. w = p \o q
    BY <2>1
  <2>3. /\ p \o q \in Seq(Cell) /\ Len(p \o q) = Len(p) + Len(q)
        /\ \A i \in 1..Len(p) : (p \o q)[i] = p[i]
        /\ \A i \in 1..Len(q) : (p \o q)[Len(p) + i] = q[i]
    BY ConcatAt
  <2>4. Len(p) = Len(t) /\ Len(q) = Len(u)
    BY <1>2, <1>3, <2>1
  <2> HIDE DEF w
  <2> QED BY <2>1, <2>2, <2>3, <2>4
<1> HIDE DEF w
<1>6. ASSUME NEW i \in 1..Len(t)  PROVE TextCells(s, v)[i] = w[i]
  <2>1. i \in 1..Len(v)
    BY <1>1
  <2>2. EscapeTxtForHtml(v)[i] = EscapeTxtForHtml(t)[i]
    BY <1>1, <2>1, EscapedAlike
  <2> QED BY <1>2, <1>4, <1>5, <2>1, <2>2
<1>7. ASSUME NEW i \in 1..Len(u)  PROVE TextCells(s, v)[Len(t) + i] = w[Len(t) + i]
  <2>1. Len(t) + i \in 1..Len(v)
    BY <1>1
  <2>2. EscapeTxtForHtml(v)[Len(t) + i] = EscapeTxtForHtml(u)[i]
    BY <1>1, <2>1, EscapedAlike
  <2> QED BY <1>3, <1>4, <1>5, <2>1, <2>2
<1>8. ASSUME NEW i \in 1..Len(v)  PROVE TextCells(s, v)[i] = w[i]
  <2>1. CASE i =< Len(t)
    BY <1>1, <1>6, <2>1
  <2>2. CASE i > Len(t)
    <3>1. i - Len(t) \in 1..Len(u) /\ i = Len(t) + (i - Len(t))
      BY <1>1, <2>2
    <3> QED BY <1>7, <3>1
  <2> QED BY <1>1, <2>1, <2>2
<1>9. TextCells(s, v) = w
  BY <1>1, <1>4, <1>5, <1>8, SeqEqual
<1> QED BY <1>9 DEF v, w

-----------------------------------------------------------------------------
(* One turn of the reference.                                              *)

LEMMA ConvFields ==
    ASSUME NEW t, NEW s, NEW c, NEW w
    PROVE  /\ Conv(t, s, c, w).buffer = t /\ Conv(t, s, c, w).style = s
           /\ Conv(t, s, c, w).cmds = c /\ Conv(t, s, c, w).cells = w
BY DEF Conv

LEMMA ConvType ==
    ASSUME NEW t \in Seq(Char), NEW s \in Style, NEW c, Commands(c), NEW w \in Seq(Cell)
    PROVE  Conv(t, s, c, w) \in Conversion
<1>1. c \in {d \in Seq(Param) : Commands(d)}
  BY CommandsLen
<1> QED BY <1>1 DEF Conv, Conversion

LEMMA ConversionIsConv ==
    ASSUME NEW x \in Conversion
    PROVE  \E t \in Seq(Char), s \in Style, c \in Seq(Param), w \in Seq(Cell) :
              Commands(c) /\ x = Conv(t, s, c, w)
<1>1. /\ x.buffer \in Seq(Char) /\ x.style \in Style /\ x.cells \in Seq(Cell)
      /\ x.cmds \in {d \in Seq(Param) : Commands(d)}
      /\ x = [buffer |-> x.buffer, style |-> x.style, cmds |-> x.cmds, cells |-> x.cells]
  BY DEF Conversion
<1>2. x.cmds \in Seq(Param) /\ Commands(x.cmds)
  BY <1>1
<1>3. x = Conv(x.buffer, x.style, x.cmds, x.cells)
  BY <1>1, Zenon DEF Conv
<1> QED BY <1>1, <1>2, <1>3

LEMMA NoCommands == Commands(<<>>)
BY EmptySeq DEF Commands

LEMMA EndedConv ==
    ASSUME NEW t, NEW s, NEW c, NEW w
    PROVE  Ended(Conv(t, s, c, w)) <=> c = <<>> /\ (t = <<>> \/ Incomplete(t))
BY ConvFields DEF Ended

(* The alternatives of Advanced, for the packet the input begins with.     *)
LEMMA AdvancedCommand ==
    ASSUME NEW t, NEW s, NEW c, NEW w, c # <<>>
    PROVE  Advanced(Conv(t, s, c, w)) = Conv(t, Sgr(s, c).style, Sgr(s, c).cmds, w)
<1> DEFINE x == Conv(t, s, c, w)
<1>1. x.buffer = t /\ x.style = s /\ x.cmds = c /\ x.cells = w
  BY ConvFields
<1> HIDE DEF x
<1>2. Advanced(x) = AfterCommand(x)
  BY <1>1, Zenon DEF Advanced
<1>3. AfterCommand(x) = Conv(t, Sgr(s, c).style, Sgr(s, c).cmds, w)
  BY <1>1, Zenon DEF AfterCommand
<1> QED BY <1>2, <1>3 DEF x

LEMMA AdvancedPacket ==
    ASSUME NEW t, NEW s, NEW w
    PROVE  Advanced(Conv(t, s, <<>>, w)) =
             CASE t[1] # ESC    -> AfterChar(Conv(t, s, <<>>, w))
               [] Dropped(t)    -> AfterEsc(Conv(t, s, <<>>, w))
               [] Csi(t) # {}   -> AfterCsi(Conv(t, s, <<>>, w), CHOOSE n \in Csi(t) : TRUE)
               [] Links(t) # {} -> AfterLink(Conv(t, s, <<>>, w), CHOOSE m \in Links(t) : TRUE)
<1> DEFINE x == Conv(t, s, <<>>, w)
<1>1. x.buffer = t /\ x.cmds = <<>>
  BY ConvFields
<1> HIDE DEF x
<1>2. Advanced(x) =
             CASE x.buffer[1] # ESC    -> AfterChar(x)
               [] Dropped(x.buffer)    -> AfterEsc(x)
               [] Csi(x.buffer) # {}   -> AfterCsi(x, CHOOSE n \in Csi(x.buffer) : TRUE)
               [] Links(x.buffer) # {} -> AfterLink(x, CHOOSE m \in Links(x.buffer) : TRUE)
  BY <1>1, Zenon DEF Advanced
<1> QED BY <1>1, <1>2 DEF x

LEMMA AdvancedChar ==
    ASSUME NEW t \in Seq(Char), NEW s \in Style, NEW w, t # <<>>, t[1] # ESC
    PROVE  Advanced(Conv(t, s, <<>>, w)) =
              Conv(Rest(t, 1), s, <<>>, w \o TextCells(s, SubSeq(t, 1, 1)))
<1> DEFINE x == Conv(t, s, <<>>, w)
           u == SubSeq(t, 1, 1)
<1>1. x.buffer = t /\ x.style = s /\ x.cmds = <<>> /\ x.cells = w
  BY ConvFields
<1>2. ~Dropped(t) /\ Csi(t) = {} /\ Links(t) = {}
  BY TextUpToEsc, OnePacket
<1>3. Advanced(x) = AfterChar(x)
  BY <1>2, AdvancedPacket
<1> HIDE DEF x
<1>4. AfterChar(x) = Conv(Rest(t, 1), s, <<>>, w \o Cells(<<TransformToHtml(s, u)>>))
  BY <1>1, Zenon DEF AfterChar, u
<1>5. TransformToHtml(s, u) \in Block
  <2>1. Len(t) \in Nat /\ Len(t) >= 1
    BY Nonempty
  <2>2. u \in Seq(Char)
    BY <2>1, PartType
  <2> QED BY <2>2, TextBlock
<1>6. Cells(<<TransformToHtml(s, u)>>) = TextCells(s, u)
  BY <1>5, CellsOne DEF TextCells
<1> QED BY <1>3, <1>4, <1>6 DEF x, u

LEMMA AdvancedEsc ==
    ASSUME NEW t \in Seq(Char), NEW s, NEW w, Dropped(t)
    PROVE  Advanced(Conv(t, s, <<>>, w)) = Conv(Rest(t, 1), s, <<>>, w)
<1> DEFINE x == Conv(t, s, <<>>, w)
<1>1. x.buffer = t /\ x.style = s /\ x.cmds = <<>> /\ x.cells = w
  BY ConvFields
<1>2. t[1] = ESC /\ Csi(t) = {} /\ Links(t) = {}
  BY DEF Dropped
<1>3. Advanced(x) = AfterEsc(x)
  BY <1>2, AdvancedPacket
<1> HIDE DEF x
<1>4. AfterEsc(x) = Conv(Rest(t, 1), s, <<>>, w)
  BY <1>1, Zenon DEF AfterEsc
<1> QED BY <1>3, <1>4 DEF x

LEMMA AdvancedCsi ==
    ASSUME NEW t \in Seq(Char), NEW s, NEW w, NEW n \in Csi(t)
    PROVE  Advanced(Conv(t, s, <<>>, w)) = Conv(Rest(t, n), s, CommandsOf(t, n), w)
<1> DEFINE x == Conv(t, s, <<>>, w)
           k == CHOOSE k \in Csi(t) : TRUE
<1>1. x.buffer = t /\ x.style = s /\ x.cmds = <<>> /\ x.cells = w
  BY ConvFields
<1>2. t # <<>> /\ t[1] = ESC
  BY DEF Csi, Starts
<1>3. ~Dropped(t) /\ Links(t) = {} /\ \A i, j \in Csi(t) : i = j
  BY <1>2, OnePacket
<1>4. k = n
  <2>1. k \in Csi(t)
    OBVIOUS
  <2> QED BY <1>3, <2>1
<1>5. Advanced(x) = AfterCsi(x, k)
  BY <1>2, <1>3, AdvancedPacket
<1> HIDE DEF x, k
<1>6. AfterCsi(x, k) = Conv(Rest(t, k), s, CommandsOf(t, k), w)
  BY <1>1, Zenon DEF AfterCsi
<1> QED BY <1>4, <1>5, <1>6 DEF x

LEMMA AdvancedLink ==
    ASSUME NEW t \in Seq(Char), NEW s, NEW w, NEW m \in Links(t)
    PROVE  Advanced(Conv(t, s, <<>>, w)) =
              Conv(Rest(t, After(t, m[3]) - 1), s, <<>>, w \o Cells(LinkOf(t, m)))
<1> DEFINE x == Conv(t, s, <<>>, w)
           k == CHOOSE k \in Links(t) : TRUE
<1>1. x.buffer = t /\ x.style = s /\ x.cmds = <<>> /\ x.cells = w
  BY ConvFields
<1>2. t # <<>> /\ t[1] = ESC
  <2>1. Starts(t, "]")
    BY DEF Links, IsLinkStart
  <2> QED BY <2>1 DEF Starts
<1>3. ~Dropped(t) /\ Csi(t) = {} /\ \A i, j \in Links(t) : i = j
  BY <1>2, OnePacket
<1>4. k = m
  <2>1. k \in Links(t)
    OBVIOUS
  <2> QED BY <1>3, <2>1
<1>5. Advanced(x) = AfterLink(x, k)
  BY <1>2, <1>3, AdvancedPacket
<1> HIDE DEF x, k
<1>6. AfterLink(x, k) = Conv(Rest(t, After(t, k[3]) - 1), s, <<>>, w \o Cells(LinkOf(t, k)))
  BY <1>1, Zenon DEF AfterLink
<1> QED BY <1>4, <1>5, <1>6 DEF x

-----------------------------------------------------------------------------
(* The parts of a packet.                                                  *)

LEMMA CommandsOfType ==
    ASSUME NEW t \in Seq(Char), NEW n \in Csi(t)
    PROVE  /\ n \in Nat /\ 3 =< n /\ n =< Len(t) /\ Len(t) \in Nat
           /\ Commands(CommandsOf(t, n)) /\ Len(CommandsOf(t, n)) < n
<1>1. n \in Nat /\ 3 =< n /\ n =< Len(t) /\ Len(t) \in Nat
  <2>1. n \in 3..Len(t) /\ Len(t) \in Nat
    BY LenProperties DEF Csi
  <2> QED BY <2>1
<1>2. CASE ~IsSgr(t, n)
  <2>1. CommandsOf(t, n) = <<>> /\ Len(<<>>) = 0
    BY <1>2 DEF CommandsOf
  <2> QED BY <1>1, <2>1, NoCommands
<1>3. CASE IsSgr(t, n)
  <2> DEFINE u == SubSeq(t, 3, n - 1)
  <2>1. \A i \in 3..n - 1 : t[i] \in Param
    BY <1>3 DEF IsSgr
  <2>2. 3 \in Int /\ n - 1 \in Int
    BY <1>1
  <2>3. u \in Seq(Param)
    BY <2>1, <2>2, SubSeqProperties
  <2>4. Len(u) = IF 3 =< n - 1 THEN n - 3 ELSE 0
    <3>1. n - 1 \in Int /\ n - 1 =< Len(t) /\ 3 \in Nat \ {0}
      BY <1>1
    <3>2. Len(u) = IF 3 =< n - 1 THEN (n - 1) - 3 + 1 ELSE 0
      BY <3>1, PartType
    <3> HIDE DEF u
    <3> QED BY <1>1, <3>2
  <2>5. ";" \in Param
    BY DEF Param
  <2> HIDE DEF u
  <2>6. /\ Append(u, ";") \in Seq(Param) /\ Len(Append(u, ";")) = Len(u) + 1
        /\ Append(u, ";")[Len(u) + 1] = ";"
    BY <2>3, <2>5, AppendProperties
  <2>7. Commands(Append(u, ";"))
    BY <2>6 DEF Commands
  <2>8. CommandsOf(t, n) = Append(u, ";")
    BY <1>3 DEF CommandsOf, u
  <2>9. Len(u) + 1 < n
    BY <1>1, <2>4
  <2> QED BY <1>1, <2>6, <2>7, <2>8, <2>9
<1> QED BY <1>2, <1>3

LEMMA LinkParts ==
    ASSUME NEW t \in Seq(Char), NEW m \in Links(t)
    PROVE  /\ m = <<m[1], m[2], m[3]>>
           /\ m[1] \in 5..Len(t) /\ m[2] \in 1..Len(t) /\ m[3] \in 2..Len(t) /\ Len(t) \in Nat
           /\ StopAt(t, m[2]) /\ StopAt(t, m[3])
           /\ After(t, m[2]) \in Nat \ {0}
           /\ After(t, m[3]) - 1 \in 1..Len(t)
<1>1. m = <<m[1], m[2], m[3]>> /\ Link(t, m[1], m[2], m[3])
  BY DEF Links
<1>2. PICK k, i, j : k = m[1] /\ i = m[2] /\ j = m[3] /\ <<k, i, j>> \in Links(t)
  BY <1>1
<1>3. /\ k \in 5..Len(t) /\ i \in 1..Len(t) /\ j \in 2..Len(t)
      /\ After(t, i) \in 2..Len(t) + 2 /\ After(t, j) \in 3..Len(t) + 2
  BY <1>2, LinkPositions
<1>4. Len(t) \in Nat
  BY LenProperties
<1>5. Terminator(t, i) /\ Terminator(t, j)
  BY <1>1, <1>2 DEF Link
<1>6. StopAt(t, i) /\ StopAt(t, j)
  BY <1>5 DEF StopAt
<1>7. After(t, j) - 1 \in 1..Len(t)
  <2>1. CASE t[j] = ESC
    <3>1. j < Len(t)
      BY <1>5, <2>1 DEF Terminator, ESC, BEL
    <3>2. After(t, j) = j + 2
      BY <2>1 DEF After
    <3> QED BY <1>3, <1>4, <3>1, <3>2
  <2>2. CASE t[j] # ESC
    <3>1. After(t, j) = j + 1
      BY <2>2 DEF After
    <3> QED BY <1>3, <1>4, <3>1
  <2> QED BY <2>1, <2>2
<1>8. After(t, i) \in Nat \ {0}
  BY <1>3, <1>4
<1> QED BY <1>1, <1>2, <1>3, <1>4, <1>6, <1>7, <1>8

LEMMA LinkOfType ==
    ASSUME NEW t \in Seq(Char), NEW m \in Links(t)
    PROVE  LinkOf(t, m) = <<>> \/ \E x \in Block : LinkOf(t, m) = <<x>>
<1>1. /\ m[1] \in 5..Len(t) /\ m[2] \in 1..Len(t) /\ m[3] \in 2..Len(t) /\ Len(t) \in Nat
      /\ After(t, m[2]) \in Nat \ {0}
  BY LinkParts
<1> DEFINE url == SubSeq(t, m[1] + 1, m[2] - 1)
           u == SubSeq(t, After(t, m[2]), m[3] - 6)
<1>2. /\ m[1] + 1 \in Nat \ {0} /\ m[2] - 1 \in Int /\ m[2] - 1 =< Len(t)
      /\ m[3] - 6 \in Int /\ m[3] - 6 =< Len(t)
  BY <1>1
<1>3. url \in Seq(Char) /\ u \in Seq(Char)
  BY <1>1, <1>2, PartType
<1>4. LinkOf(t, m) = ProcessHyperlink(url, u)
  BY Zenon DEF LinkOf
<1> HIDE DEF url, u
<1>5. EscapeTxtForHtml(u) \in Seq(Html)
  BY <1>3, EscapedType
<1>6. NoStyle \in Style
  BY DEF NoStyle, Style, Color
<1> DEFINE x == [kind |-> "link", style |-> NoStyle, text |-> EscapeTxtForHtml(u), url |-> url]
<1>7. x \in Block
  BY <1>3, <1>5, <1>6 DEF Block
<1>8. ProcessHyperlink(url, u) = <<x>> \/ ProcessHyperlink(url, u) = <<>>
  BY DEF ProcessHyperlink
<1> HIDE DEF x
<1> QED BY <1>4, <1>7, <1>8

LEMMA LinkCells ==
    ASSUME NEW t \in Seq(Char), NEW m \in Links(t), NEW bs \in Seq(Block)
    PROVE  /\ Cells(LinkOf(t, m)) \in Seq(Cell)
           /\ bs \o LinkOf(t, m) \in Seq(Block)
           /\ Cells(bs \o LinkOf(t, m)) = Cells(bs) \o Cells(LinkOf(t, m))
<1>1. CASE LinkOf(t, m) = <<>>
  <2>1. Cells(bs) \in Seq(Cell) /\ bs \o <<>> = bs /\ Cells(bs) \o <<>> = Cells(bs)
    BY CellsType, ConcatEmptySeq
  <2> QED BY <1>1, <2>1, CellsEmpty, EmptySeq
<1>2. ASSUME NEW x \in Block, LinkOf(t, m) = <<x>>
      PROVE  /\ Cells(LinkOf(t, m)) \in Seq(Cell)
             /\ bs \o LinkOf(t, m) \in Seq(Block)
             /\ Cells(bs \o LinkOf(t, m)) = Cells(bs) \o Cells(LinkOf(t, m))
  <2>1. bs \o <<x>> = Append(bs, x) /\ Append(bs, x) \in Seq(Block)
    BY AppendIsConcat, AppendProperties
  <2>2. Cells(<<x>>) = CellsOf(x) /\ CellsOf(x) \in Seq(Cell)
    BY CellsOne, CellsOfType
  <2>3. Cells(Append(bs, x)) = Cells(bs) \o CellsOf(x)
    BY CellsAppend
  <2> QED BY <1>2, <2>1, <2>2, <2>3, Zenon
<1> QED BY <1>1, <1>2, LinkOfType

(* A packet does not change when more input comes behind it.               *)
LEMMA RestConcat ==
    ASSUME NEW t \in Seq(Char), NEW u \in Seq(Char), NEW n \in Nat, n =< Len(t)
    PROVE  Rest(t \o u, n) = Rest(t, n) \o u
<1> DEFINE v == t \o u
           p == Rest(v, n)
<1>1. /\ v \in Seq(Char) /\ Len(v) = Len(t) + Len(u) /\ Len(t) \in Nat /\ Len(u) \in Nat
      /\ \A i \in 1..Len(t) : v[i] = t[i]
      /\ \A i \in 1..Len(u) : v[Len(t) + i] = u[i]
  BY ConcatAt
<1> HIDE DEF v
<1>2. PICK r \in Seq(Char) :
        r = Rest(t, n) /\ Len(r) = Len(t) - n /\ \A i \in 1..Len(t) - n : r[i] = t[n + i]
  BY RestType
<1> DEFINE q == r \o u
<1>3. n =< Len(v)
  BY <1>1
<1>4. p \in Seq(Char) /\ Len(p) = Len(v) - n /\ \A i \in 1..Len(v) - n : p[i] = v[n + i]
  BY <1>1, <1>3, RestType
<1>5. /\ q \in Seq(Char) /\ Len(q) = Len(r) + Len(u)
      /\ \A i \in 1..Len(r) : q[i] = r[i]
      /\ \A i \in 1..Len(u) : q[Len(r) + i] = u[i]
  BY ConcatAt
<1> HIDE DEF p, q
<1>6. Len(p) = Len(q)
  BY <1>1, <1>2, <1>4, <1>5
<1>7. ASSUME NEW i \in 1..Len(p)  PROVE p[i] = q[i]
  <2>1. p[i] = v[n + i]
    BY <1>4
  <2>2. CASE i =< Len(t) - n
    <3>1. i \in 1..Len(t) - n /\ i \in 1..Len(r) /\ n + i \in 1..Len(t)
      BY <1>1, <1>2, <1>4, <2>2
    <3> QED BY <1>1, <1>2, <1>5, <2>1, <3>1
  <2>3. CASE i > Len(t) - n
    <3> DEFINE k == i - (Len(t) - n)
    <3>1. k \in 1..Len(u) /\ n + i = Len(t) + k /\ i = Len(r) + k
      BY <1>1, <1>2, <1>4, <2>3
    <3> HIDE DEF k
    <3>2. v[Len(t) + k] = u[k] /\ q[Len(r) + k] = u[k]
      BY <1>1, <1>5, <3>1
    <3> QED BY <2>1, <3>1, <3>2
  <2> QED BY <1>1, <1>4, <2>2, <2>3
<1>8. p = q
  BY <1>4, <1>5, <1>6, <1>7, SeqEqual
<1> QED BY <1>2, <1>8 DEF p, q, v

LEMMA BeginsConcat ==
    ASSUME NEW t \in Seq(Char), NEW u \in Seq(Char)
    PROVE  t \o u \in Seq(Char) /\ Begins(t, t \o u)
<1>1. /\ t \o u \in Seq(Char) /\ Len(t \o u) = Len(t) + Len(u) /\ Len(t) \in Nat /\ Len(u) \in Nat
      /\ \A i \in 1..Len(t) : (t \o u)[i] = t[i]
  BY ConcatAt
<1>2. Len(t) =< Len(t \o u)
  BY <1>1
<1> QED BY <1>1, <1>2 DEF Begins

LEMMA CommandsOfStay ==
    ASSUME NEW t \in Seq(Char), NEW u \in Seq(Char), Begins(t, u), NEW n \in Csi(t)
    PROVE  CommandsOf(u, n) = CommandsOf(t, n)
<1>1. n \in Nat /\ 3 =< n /\ n =< Len(t) /\ Len(t) \in Nat
  BY CommandsOfType
<1>2. \A i \in 1..Len(t) : u[i] = t[i]
  BY DEF Begins
<1>3. n \in 1..Len(t) /\ \A i \in 3..n - 1 : i \in 1..Len(t)
  BY <1>1
<1>4. IsSgr(u, n) <=> IsSgr(t, n)
  BY <1>2, <1>3 DEF IsSgr
<1>5. SubSeq(u, 3, n - 1) = SubSeq(t, 3, n - 1)
  <2>1. n - 1 \in Nat /\ n - 1 =< Len(t) /\ 3 \in Nat \ {0}
    BY <1>1
  <2> QED BY <2>1, PartStays
<1> QED BY <1>4, <1>5 DEF CommandsOf

LEMMA LinkOfStays ==
    ASSUME NEW t \in Seq(Char), NEW u \in Seq(Char), Begins(t, u), NEW m \in Links(t)
    PROVE  LinkOf(u, m) = LinkOf(t, m) /\ After(u, m[3]) = After(t, m[3])
<1>1. /\ m[1] \in 5..Len(t) /\ m[2] \in 1..Len(t) /\ m[3] \in 2..Len(t) /\ Len(t) \in Nat
      /\ After(t, m[2]) \in Nat \ {0}
  BY LinkParts
<1>2. m[3] \in 1..Len(t)
  BY <1>1
<1>3. After(u, m[2]) = After(t, m[2]) /\ After(u, m[3]) = After(t, m[3])
  BY <1>1, <1>2, StopStays
<1>4. Link(t, m[1], m[2], m[3])
  BY DEF Links
<1>5. After(t, m[2]) =< m[3] - 6
  BY <1>4 DEF Link
<1>6. /\ m[1] + 1 \in Nat \ {0} /\ m[2] - 1 \in Nat /\ m[2] - 1 =< Len(t)
      /\ m[3] - 6 \in Nat /\ m[3] - 6 =< Len(t)
  BY <1>1, <1>5
<1>7. /\ SubSeq(u, m[1] + 1, m[2] - 1) = SubSeq(t, m[1] + 1, m[2] - 1)
      /\ SubSeq(u, After(t, m[2]), m[3] - 6) = SubSeq(t, After(t, m[2]), m[3] - 6)
  BY <1>1, <1>6, PartStays
<1> QED BY <1>3, <1>7, Zenon DEF LinkOf

-----------------------------------------------------------------------------
(* A turn of the reference, without and with more input behind.            *)

AtItsEnd(t, c) == c = <<>> /\ (t = <<>> \/ Incomplete(t))

(* A turn takes t and c to t2 and c2, which are less.                      *)
Less(t, c, t2, c2) ==
    /\ t2 \in Seq(Char) /\ Commands(c2)
    /\ Len(t) + Len(c) \in Nat /\ Len(t2) + Len(c2) \in Nat
    /\ Len(t2) + Len(c2) < Len(t) + Len(c)

TurnTo(t, s, c, w, u, t2, s2, c2, w2) ==
    /\ s2 \in Style /\ w2 \in Seq(Cell) /\ Less(t, c, t2, c2)
    /\ Advanced(Conv(t, s, c, w)) = Conv(t2, s2, c2, w2)
    /\ Advanced(Conv(t \o u, s, c, w)) = Conv(t2 \o u, s2, c2, w2)
    /\ ~AtItsEnd(t \o u, c)

LEMMA LessRest ==
    ASSUME NEW t \in Seq(Char), NEW n \in Nat, 1 =< n, n =< Len(t), NEW c, Commands(c), Len(c) < n
    PROVE  Less(t, <<>>, Rest(t, n), c)
<1>1. Len(t) \in Nat /\ Len(c) \in Nat /\ Len(<<>>) = 0
  BY LenProperties, CommandsLen
<1>2. Rest(t, n) \in Seq(Char) /\ Len(Rest(t, n)) = Len(t) - n
  BY RestType
<1>3. /\ Len(t) + Len(<<>>) \in Nat /\ Len(Rest(t, n)) + Len(c) \in Nat
      /\ Len(Rest(t, n)) + Len(c) < Len(t) + Len(<<>>)
  BY <1>1, <1>2
<1> QED BY <1>2, <1>3 DEF Less

LEMMA NotAtItsEnd ==
    ASSUME NEW t \in Seq(Char), NEW u \in Seq(Char), t # <<>>, ~Incomplete(t \o u)
    PROVE  ~AtItsEnd(t \o u, <<>>)
<1>1. t \o u # <<>>
  <2>1. Len(t) \in Nat /\ Len(t) >= 1 /\ Len(u) \in Nat /\ Len(t \o u) = Len(t) + Len(u)
    BY Nonempty, ConcatAt
  <2>2. Len(t \o u) # Len(<<>>)
    BY <2>1
  <2> QED BY <2>2, Zenon
<1> QED BY <1>1 DEF AtItsEnd

LEMMA TurnOfCommand ==
    ASSUME NEW t \in Seq(Char), NEW s \in Style, NEW c, Commands(c), NEW w \in Seq(Cell),
           NEW u \in Seq(Char), c # <<>>
    PROVE  TurnTo(t, s, c, w, u, t, Sgr(s, c).style, Sgr(s, c).cmds, w)
<1>1. Turn(Sgr(s, c), c)
  BY SgrTurn
<1> DEFINE s2 == Sgr(s, c).style
           c2 == Sgr(s, c).cmds
<1>2. s2 \in Style /\ Commands(c2) /\ Len(c2) < Len(c)
  BY <1>1 DEF Turn
<1>3. Advanced(Conv(t, s, c, w)) = Conv(t, s2, c2, w)
  BY AdvancedCommand
<1>4. Advanced(Conv(t \o u, s, c, w)) = Conv(t \o u, s2, c2, w)
  BY AdvancedCommand
<1> HIDE DEF s2, c2
<1>5. Len(t) \in Nat /\ Len(c) \in Nat /\ Len(c2) \in Nat
  BY <1>2, CommandsLen, LenProperties
<1>6. Len(t) + Len(c) \in Nat /\ Len(t) + Len(c2) \in Nat /\ Len(t) + Len(c2) < Len(t) + Len(c)
  BY <1>2, <1>5
<1>7. Less(t, c, t, c2)
  BY <1>2, <1>6 DEF Less
<1>8. ~AtItsEnd(t \o u, c)
  BY DEF AtItsEnd
<1>9. TurnTo(t, s, c, w, u, t, s2, c2, w)
  BY <1>2, <1>3, <1>4, <1>7, <1>8 DEF TurnTo
<1> QED BY <1>9 DEF s2, c2

LEMMA TurnOfChar ==
    ASSUME NEW t \in Seq(Char), NEW s \in Style, NEW w \in Seq(Cell), NEW u \in Seq(Char),
           t # <<>>, t[1] # ESC
    PROVE  TurnTo(t, s, <<>>, w, u,
                  Rest(t, 1), s, <<>>, w \o TextCells(s, SubSeq(t, 1, 1)))
<1> DEFINE v == t \o u
           d == SubSeq(t, 1, 1)
           w2 == w \o TextCells(s, d)
<1>1. Len(t) \in Nat /\ Len(t) >= 1 /\ Len(<<>>) = 0
  BY Nonempty
<1>2. v \in Seq(Char) /\ Begins(t, v)
  BY BeginsConcat
<1>3. v[1] = t[1] /\ Len(v) >= 1
  <2>1. 1 \in 1..Len(t) /\ Len(t) =< Len(v) /\ \A i \in 1..Len(t) : v[i] = t[i]
    BY <1>1, <1>2 DEF Begins
  <2>2. Len(v) \in Nat
    BY <1>2, LenProperties
  <2> HIDE DEF v
  <2> QED BY <1>1, <2>1, <2>2
<1>4. ~Incomplete(v)
  BY <1>2, <1>3, IncompleteApart
<1>5. ~AtItsEnd(v, <<>>)
  BY <1>4, NotAtItsEnd
<1>6. v # <<>>
  BY <1>5 DEF AtItsEnd
<1>7. SubSeq(v, 1, 1) = d
  BY <1>1, <1>2, PartStays
<1>8. Rest(v, 1) = Rest(t, 1) \o u
  BY <1>1, RestConcat
<1>9. Advanced(Conv(t, s, <<>>, w)) = Conv(Rest(t, 1), s, <<>>, w2)
  BY AdvancedChar
<1>10. Advanced(Conv(v, s, <<>>, w)) = Conv(Rest(t, 1) \o u, s, <<>>, w2)
  <2>1. Advanced(Conv(v, s, <<>>, w)) =
          Conv(Rest(v, 1), s, <<>>, w \o TextCells(s, SubSeq(v, 1, 1)))
    BY <1>2, <1>3, <1>6, AdvancedChar
  <2> QED BY <1>7, <1>8, <2>1
<1>11. d \in Seq(Char)
  BY <1>1, PartType
<1>12. w2 \in Seq(Cell)
  BY <1>11, TextCellsType, ConcatProperties
<1>13. Less(t, <<>>, Rest(t, 1), <<>>)
  BY <1>1, NoCommands, LessRest
<1> HIDE DEF w2
<1>14. TurnTo(t, s, <<>>, w, u, Rest(t, 1), s, <<>>, w2)
  BY <1>5, <1>9, <1>10, <1>12, <1>13 DEF TurnTo
<1> QED BY <1>14 DEF w2, d

LEMMA TurnOfEsc ==
    ASSUME NEW t \in Seq(Char), NEW s \in Style, NEW w \in Seq(Cell), NEW u \in Seq(Char),
           Dropped(t)
    PROVE  TurnTo(t, s, <<>>, w, u, Rest(t, 1), s, <<>>, w)
<1>1. t # <<>> /\ t[1] = ESC /\ ~Incomplete(t)
  BY DEF Dropped
<1>2. Len(t) \in Nat /\ Len(t) >= 1 /\ Len(<<>>) = 0
  BY <1>1, Nonempty
<1>3. t \o u \in Seq(Char) /\ ~Incomplete(t \o u) /\ Dropped(t \o u)
  BY <1>1, DecidedPacketsStay, BeginsConcat
<1>4. ~AtItsEnd(t \o u, <<>>)
  BY <1>1, <1>3, NotAtItsEnd
<1>5. Rest(t \o u, 1) = Rest(t, 1) \o u
  BY <1>2, RestConcat
<1>6. Advanced(Conv(t, s, <<>>, w)) = Conv(Rest(t, 1), s, <<>>, w)
  BY AdvancedEsc
<1>7. Advanced(Conv(t \o u, s, <<>>, w)) = Conv(Rest(t, 1) \o u, s, <<>>, w)
  BY <1>3, <1>5, AdvancedEsc
<1>8. Less(t, <<>>, Rest(t, 1), <<>>)
  BY <1>2, NoCommands, LessRest
<1> QED BY <1>4, <1>6, <1>7, <1>8 DEF TurnTo

LEMMA TurnOfCsi ==
    ASSUME NEW t \in Seq(Char), NEW s \in Style, NEW w \in Seq(Cell), NEW u \in Seq(Char),
           NEW n \in Csi(t)
    PROVE  TurnTo(t, s, <<>>, w, u, Rest(t, n), s, CommandsOf(t, n), w)
<1>1. t # <<>> /\ t[1] = ESC
  BY DEF Csi, Starts
<1>2. ~Incomplete(t)
  BY IncompleteApart
<1>3. /\ n \in Nat /\ 3 =< n /\ n =< Len(t) /\ Len(t) \in Nat
      /\ Commands(CommandsOf(t, n)) /\ Len(CommandsOf(t, n)) < n
  BY CommandsOfType
<1>4. t \o u \in Seq(Char) /\ Begins(t, t \o u) /\ ~Incomplete(t \o u) /\ Csi(t \o u) = Csi(t)
  BY <1>1, <1>2, DecidedPacketsStay, BeginsConcat
<1>5. ~AtItsEnd(t \o u, <<>>)
  BY <1>1, <1>4, NotAtItsEnd
<1>6. Rest(t \o u, n) = Rest(t, n) \o u
  BY <1>3, RestConcat
<1>7. CommandsOf(t \o u, n) = CommandsOf(t, n)
  BY <1>4, CommandsOfStay
<1>8. Advanced(Conv(t, s, <<>>, w)) = Conv(Rest(t, n), s, CommandsOf(t, n), w)
  BY AdvancedCsi
<1>9. Advanced(Conv(t \o u, s, <<>>, w)) = Conv(Rest(t, n) \o u, s, CommandsOf(t, n), w)
  <2>1. PICK v \in Seq(Char) : v = t \o u
    BY <1>4
  <2>2. n \in Csi(v)
    BY <1>4, <2>1, Zenon
  <2>3. Advanced(Conv(v, s, <<>>, w)) = Conv(Rest(v, n), s, CommandsOf(v, n), w)
    BY <2>2, AdvancedCsi
  <2> QED BY <1>6, <1>7, <2>1, <2>3, Zenon
<1>10. Less(t, <<>>, Rest(t, n), CommandsOf(t, n))
  BY <1>3, LessRest
<1> QED BY <1>5, <1>8, <1>9, <1>10 DEF TurnTo

LEMMA TurnOfLink ==
    ASSUME NEW t \in Seq(Char), NEW s \in Style, NEW w \in Seq(Cell), NEW u \in Seq(Char),
           NEW m \in Links(t)
    PROVE  TurnTo(t, s, <<>>, w, u,
                  Rest(t, After(t, m[3]) - 1), s, <<>>, w \o Cells(LinkOf(t, m)))
<1>1. t # <<>> /\ t[1] = ESC
  <2>1. Starts(t, "]")
    BY DEF Links, IsLinkStart
  <2> QED BY <2>1 DEF Starts
<1>2. ~Incomplete(t)
  BY IncompleteApart
<1>3. PICK n \in Nat : n = After(t, m[3]) - 1 /\ 1 =< n /\ n =< Len(t)
  <2>1. After(t, m[3]) - 1 \in 1..Len(t) /\ Len(t) \in Nat
    BY LinkParts
  <2> QED BY <2>1
<1>4. t \o u \in Seq(Char) /\ Begins(t, t \o u) /\ ~Incomplete(t \o u) /\ Links(t \o u) = Links(t)
  BY <1>1, <1>2, DecidedPacketsStay, BeginsConcat
<1>5. ~AtItsEnd(t \o u, <<>>)
  BY <1>1, <1>4, NotAtItsEnd
<1>6. Rest(t \o u, n) = Rest(t, n) \o u
  BY <1>3, RestConcat
<1>7. LinkOf(t \o u, m) = LinkOf(t, m) /\ After(t \o u, m[3]) = After(t, m[3])
  BY <1>4, LinkOfStays
<1> DEFINE w2 == w \o Cells(LinkOf(t, m))
<1>8. Advanced(Conv(t, s, <<>>, w)) = Conv(Rest(t, n), s, <<>>, w2)
  BY <1>3, AdvancedLink
<1>9. Advanced(Conv(t \o u, s, <<>>, w)) = Conv(Rest(t, n) \o u, s, <<>>, w2)
  <2>1. PICK v \in Seq(Char) : v = t \o u
    BY <1>4
  <2>2. m \in Links(v)
    BY <1>4, <2>1, Zenon
  <2>3. Advanced(Conv(v, s, <<>>, w)) =
          Conv(Rest(v, After(v, m[3]) - 1), s, <<>>, w \o Cells(LinkOf(v, m)))
    BY <2>2, AdvancedLink
  <2> QED BY <1>3, <1>6, <1>7, <2>1, <2>3, Zenon
<1>10. Less(t, <<>>, Rest(t, n), <<>>)
  <2>1. Len(<<>>) = 0
    OBVIOUS
  <2>2. Len(<<>>) < n
    BY <1>3, <2>1
  <2> QED BY <1>3, <2>2, NoCommands, LessRest
<1>11. w2 \in Seq(Cell)
  <2>1. Cells(LinkOf(t, m)) \in Seq(Cell)
    BY LinkCells, EmptySeq
  <2> QED BY <2>1, ConcatProperties
<1> HIDE DEF w2
<1>12. TurnTo(t, s, <<>>, w, u, Rest(t, n), s, <<>>, w2)
  BY <1>5, <1>8, <1>9, <1>10, <1>11 DEF TurnTo
<1> QED BY <1>3, <1>12 DEF w2

LEMMA SomeTurn ==
    ASSUME NEW t \in Seq(Char), NEW s \in Style, NEW c, Commands(c), NEW w \in Seq(Cell),
           NEW u \in Seq(Char), ~AtItsEnd(t, c)
    PROVE  \E t2, s2, c2, w2 : TurnTo(t, s, c, w, u, t2, s2, c2, w2)
<1>1. CASE c # <<>>
  BY <1>1, TurnOfCommand
<1>2. ASSUME c = <<>>  PROVE \E t2, s2, c2, w2 : TurnTo(t, s, <<>>, w, u, t2, s2, c2, w2)
  <2>1. t # <<>> /\ ~Incomplete(t)
    BY <1>2 DEF AtItsEnd
  <2>2. t[1] # ESC \/ Dropped(t) \/ Csi(t) # {} \/ Links(t) # {}
    BY <2>1, OnePacket, TextUpToEsc
  <2> QED BY <2>1, <2>2, TurnOfChar, TurnOfEsc, TurnOfCsi, TurnOfLink
<1> QED BY <1>1, <1>2

-----------------------------------------------------------------------------
(* The recursion of the reference ends for every input, so that its        *)
(* equation holds.                                                         *)

Size == [x \in Conversion |-> Len(x.buffer) + Len(x.cmds)]

LEMMA SizeConv ==
    ASSUME NEW t \in Seq(Char), NEW s \in Style, NEW c, Commands(c), NEW w \in Seq(Cell)
    PROVE  Size[Conv(t, s, c, w)] = Len(t) + Len(c) /\ Size[Conv(t, s, c, w)] \in Nat
<1>1. PICK x \in Conversion : x = Conv(t, s, c, w)
  BY ConvType
<1>2. Size[x] = Len(x.buffer) + Len(x.cmds)
  BY DEF Size
<1>3. x.buffer = t /\ x.cmds = c
  BY <1>1, ConvFields
<1>4. Len(t) \in Nat /\ Len(c) \in Nat
  BY CommandsLen, LenProperties
<1>5. Size[x] = Len(t) + Len(c) /\ Size[x] \in Nat
  BY <1>2, <1>3, <1>4
<1> QED BY <1>1, <1>5

LEMMA SizeType == Size \in [Conversion -> Nat]
<1>1. ASSUME NEW x \in Conversion  PROVE Len(x.buffer) + Len(x.cmds) \in Nat
  <2>1. PICK t \in Seq(Char), s \in Style, c \in Seq(Param), w \in Seq(Cell) :
          Commands(c) /\ x = Conv(t, s, c, w)
    BY ConversionIsConv
  <2>2. x.buffer = t /\ x.cmds = c
    BY <2>1, ConvFields
  <2>3. Len(t) \in Nat /\ Len(c) \in Nat
    BY LenProperties
  <2> QED BY <2>2, <2>3
<1> QED BY <1>1 DEF Size

LEMMA TurnIsLess ==
    ASSUME NEW x \in Conversion, ~Ended(x)
    PROVE  Advanced(x) \in Conversion /\ Size[Advanced(x)] < Size[x]
<1>1. PICK t \in Seq(Char), s \in Style, c \in Seq(Param), w \in Seq(Cell) :
        Commands(c) /\ x = Conv(t, s, c, w)
  BY ConversionIsConv
<1>2. ~AtItsEnd(t, c)
  BY <1>1, EndedConv DEF AtItsEnd
<1>3. PICK t2, s2, c2, w2 : TurnTo(t, s, c, w, <<>>, t2, s2, c2, w2)
  BY <1>1, <1>2, SomeTurn, EmptySeq
<1>4. /\ t2 \in Seq(Char) /\ s2 \in Style /\ Commands(c2) /\ w2 \in Seq(Cell)
      /\ Len(t2) + Len(c2) < Len(t) + Len(c)
      /\ Advanced(x) = Conv(t2, s2, c2, w2)
  BY <1>1, <1>3 DEF TurnTo, Less
<1>5. Size[Conv(t2, s2, c2, w2)] = Len(t2) + Len(c2) /\ Size[x] = Len(t) + Len(c)
  BY <1>1, <1>4, SizeConv
<1>6. Conv(t2, s2, c2, w2) \in Conversion
  BY <1>4, ConvType
<1> QED BY <1>4, <1>5, <1>6

IsConverted(f) == f = [x \in Conversion |-> IF Ended(x) THEN x ELSE f[Advanced(x)]]

LEMMA ConvertedExists == IsConverted(Converted)
<1> DEFINE ends == {x \in Conversion : Ended(x)}
           next == [x \in Conversion |-> IF Ended(x) THEN x ELSE Advanced(x)]
<1>1. ends \in SUBSET Conversion /\ \A x \in Conversion : x \in ends <=> Ended(x)
  OBVIOUS
<1>2. next \in [Conversion -> Conversion]
  BY TurnIsLess
<1>3. \A x \in Conversion : ~Ended(x) => next[x] = Advanced(x)
  OBVIOUS
<1> HIDE DEF ends, next
<1>4. \A x \in Conversion \ ends : Size[next[x]] < Size[x]
  BY <1>1, <1>3, TurnIsLess
<1>5. PICK f \in [Conversion -> Conversion] :
        \A x \in Conversion : f[x] = IF x \in ends THEN x ELSE f[next[x]]
  <2>1. Decreasing(Conversion, ends, next, Size)
    BY <1>1, <1>2, <1>4, SizeType DEF Decreasing
  <2>2. Solved(Conversion, ends, next)
    BY <2>1, SolutionExists, Zenon
  <2> QED BY <2>2 DEF Solved
<1>6. \A x \in Conversion : f[x] = IF Ended(x) THEN x ELSE f[Advanced(x)]
  BY <1>1, <1>3, <1>5
<1>7. IsConverted(f)
  BY <1>5, <1>6 DEF IsConverted
<1>8. Converted = CHOOSE g : IsConverted(g)
  BY Zenon DEF Converted, IsConverted
<1>9. \E g : IsConverted(g)
  BY <1>7
<1> QED BY <1>8, <1>9, Zenon

LEMMA ConvertedEnd ==
    ASSUME NEW x \in Conversion, Ended(x)  PROVE Converted[x] = x
<1>1. PICK f : f = Converted /\ f = [y \in Conversion |-> IF Ended(y) THEN y ELSE f[Advanced(y)]]
  BY ConvertedExists DEF IsConverted
<1> QED BY <1>1

LEMMA ConvertedOn ==
    ASSUME NEW x \in Conversion, ~Ended(x)  PROVE Converted[x] = Converted[Advanced(x)]
<1>1. PICK f : f = Converted /\ f = [y \in Conversion |-> IF Ended(y) THEN y ELSE f[Advanced(y)]]
  BY ConvertedExists DEF IsConverted
<1> QED BY <1>1

LEMMA ConvertedType == \A x \in Conversion : Converted[x] \in Conversion
<1> DEFINE T == {x \in Conversion : Converted[x] \in Conversion}
<1>1. ASSUME NEW x \in Conversion, \A y \in Conversion : Size[y] < Size[x] => y \in T
      PROVE  x \in T
  <2>1. CASE Ended(x)
    BY <2>1, ConvertedEnd
  <2>2. CASE ~Ended(x)
    BY <1>1, <2>2, ConvertedOn, TurnIsLess
  <2> QED BY <2>1, <2>2
<1>2. \A x \in Conversion : x \in T
  <2> HIDE DEF T
  <2> QED BY <1>1, SizeType, UpTheMeasure
<1> QED BY <1>2

-----------------------------------------------------------------------------
(* A cut anywhere.                                                         *)

With(x, u) == Conv(x.buffer \o u, x.style, x.cmds, x.cells)

LEMMA WithConv ==
    ASSUME NEW t, NEW s, NEW c, NEW w, NEW u
    PROVE  With(Conv(t, s, c, w), u) = Conv(t \o u, s, c, w)
<1>1. PICK x : x = Conv(t, s, c, w)
  OBVIOUS
<1>2. x.buffer = t /\ x.style = s /\ x.cmds = c /\ x.cells = w
  BY <1>1, ConvFields
<1> QED BY <1>1, <1>2, Zenon DEF With

(* A conversion may stop at any place of its input, at the end of a line,  *)
(* and go on from what it holds when more input has come: the result is    *)
(* that of the whole input in one go, for all inputs.  (ansi_up.js, the    *)
(* loop of ansi_to_html and the _buffer it keeps.)                         *)
THEOREM CutAnywhere ==
    ASSUME NEW x \in Conversion, NEW u \in Seq(Char)
    PROVE  Converted[With(x, u)] = Converted[With(Converted[x], u)]
<1> DEFINE T == {y \in Conversion : Converted[With(y, u)] = Converted[With(Converted[y], u)]}
<1>1. ASSUME NEW y \in Conversion, \A z \in Conversion : Size[z] < Size[y] => z \in T
      PROVE  y \in T
  <2>1. CASE Ended(y)
    BY <2>1, ConvertedEnd
  <2>2. CASE ~Ended(y)
    <3>1. PICK t \in Seq(Char), s \in Style, c \in Seq(Param), w \in Seq(Cell) :
            Commands(c) /\ y = Conv(t, s, c, w)
      BY ConversionIsConv
    <3>2. ~AtItsEnd(t, c)
      BY <2>2, <3>1, EndedConv DEF AtItsEnd
    <3>3. PICK t2, s2, c2, w2 : TurnTo(t, s, c, w, u, t2, s2, c2, w2)
      BY <3>1, <3>2, SomeTurn
    <3>4. /\ Advanced(y) = Conv(t2, s2, c2, w2)
          /\ Advanced(With(y, u)) = With(Advanced(y), u)
      <4>1. /\ Advanced(Conv(t, s, c, w)) = Conv(t2, s2, c2, w2)
            /\ Advanced(Conv(t \o u, s, c, w)) = Conv(t2 \o u, s2, c2, w2)
        BY <3>3 DEF TurnTo
      <4> QED BY <3>1, <4>1, WithConv
    <3>5. With(y, u) \in Conversion /\ ~Ended(With(y, u))
      <4>1. t \o u \in Seq(Char)
        BY ConcatProperties
      <4>2. ~AtItsEnd(t \o u, c)
        BY <3>3 DEF TurnTo
      <4>3. ~Ended(Conv(t \o u, s, c, w))
        BY <4>2, EndedConv DEF AtItsEnd
      <4>4. Conv(t \o u, s, c, w) \in Conversion
        BY <3>1, <4>1, ConvType
      <4> QED BY <3>1, <4>3, <4>4, WithConv
    <3>6. Converted[With(y, u)] = Converted[With(Advanced(y), u)]
      BY <3>4, <3>5, ConvertedOn
    <3>7. Advanced(y) \in T
      BY <1>1, <2>2, TurnIsLess
    <3>8. Converted[y] = Converted[Advanced(y)]
      BY <2>2, ConvertedOn
    <3> QED BY <3>6, <3>7, <3>8
  <2> QED BY <2>1, <2>2
<1>2. \A y \in Conversion : y \in T
  <2> HIDE DEF T
  <2> QED BY <1>1, SizeType, UpTheMeasure
<1> QED BY <1>2

-----------------------------------------------------------------------------
(* A step of the converter is one or more turns of the reference.          *)

LEMMA OneMore ==
    ASSUME NEW t \in Seq(Char), NEW k \in Nat, k < Len(t)
    PROVE  /\ Rest(t, k) \in Seq(Char) /\ Rest(t, k) # <<>> /\ Rest(t, k)[1] = t[k + 1]
           /\ SubSeq(Rest(t, k), 1, 1) \in Seq(Char) /\ SubSeq(t, 1, k) \in Seq(Char)
           /\ Rest(Rest(t, k), 1) = Rest(t, k + 1)
           /\ SubSeq(t, 1, k) \o SubSeq(Rest(t, k), 1, 1) = SubSeq(t, 1, k + 1)
<1>1. Len(t) \in Nat /\ k + 1 \in Nat /\ k + 1 =< Len(t) /\ k \in Int /\ 1 \in Nat \ {0}
  BY LenProperties
<1>2. PICK r \in Seq(Char) :
        r = Rest(t, k) /\ Len(r) = Len(t) - k /\ \A i \in 1..Len(t) - k : r[i] = t[k + i]
  <2>1. /\ Rest(t, k) \in Seq(Char)
        /\ Len(Rest(t, k)) = IF k =< Len(t) THEN Len(t) - k ELSE 0
        /\ \A i \in 1..Len(t) - k : Rest(t, k)[i] = t[k + i]
    BY RestType
  <2>2. Len(Rest(t, k)) = Len(t) - k
    BY <1>1, <2>1
  <2> QED BY <2>1, <2>2
<1>3. r # <<>> /\ r[1] = t[k + 1] /\ 1 =< Len(r)
  <2>1. 1 \in 1..Len(t) - k /\ Len(r) >= 1
    BY <1>1, <1>2
  <2> QED BY <1>2, <2>1, EmptySeq
<1>4. PICK d \in Seq(Char) : d = SubSeq(r, 1, 1) /\ Len(d) = 1 /\ d[1] = r[1]
  <2>1. /\ SubSeq(r, 1, 1) \in Seq(Char)
        /\ Len(SubSeq(r, 1, 1)) = IF 1 =< 1 THEN 1 - 1 + 1 ELSE 0
        /\ \A i \in 1..1 - 1 + 1 : SubSeq(r, 1, 1)[i] = r[1 + i - 1]
    BY <1>3, PartType
  <2>2. Len(SubSeq(r, 1, 1)) = 1 /\ SubSeq(r, 1, 1)[1] = r[1]
    BY <2>1
  <2> QED BY <2>1, <2>2
<1>5. PICK p \in Seq(Char) :
        p = SubSeq(t, 1, k) /\ Len(p) = k /\ \A i \in 1..k : p[i] = t[i]
  <2>1. /\ SubSeq(t, 1, k) \in Seq(Char)
        /\ Len(SubSeq(t, 1, k)) = IF 1 =< k THEN k - 1 + 1 ELSE 0
        /\ \A i \in 1..k - 1 + 1 : SubSeq(t, 1, k)[i] = t[1 + i - 1]
    BY <1>1, PartType
  <2>2. \A i \in 1..k : i \in 1..k - 1 + 1 /\ 1 + i - 1 = i
    OBVIOUS
  <2>3. Len(SubSeq(t, 1, k)) = k
    BY <2>1
  <2> QED BY <2>1, <2>2, <2>3
<1>6. PICK q \in Seq(Char) :
        q = SubSeq(t, 1, k + 1) /\ Len(q) = k + 1 /\ \A i \in 1..k + 1 : q[i] = t[i]
  <2>1. /\ SubSeq(t, 1, k + 1) \in Seq(Char)
        /\ Len(SubSeq(t, 1, k + 1)) = IF 1 =< k + 1 THEN k + 1 - 1 + 1 ELSE 0
        /\ \A i \in 1..k + 1 - 1 + 1 : SubSeq(t, 1, k + 1)[i] = t[1 + i - 1]
    BY <1>1, PartType
  <2>2. \A i \in 1..k + 1 : i \in 1..k + 1 - 1 + 1 /\ 1 + i - 1 = i
    OBVIOUS
  <2>3. Len(SubSeq(t, 1, k + 1)) = k + 1
    BY <2>1
  <2> QED BY <2>1, <2>2, <2>3
<1>7. p \o d = q
  <2>1. /\ p \o d \in Seq(Char) /\ Len(p \o d) = Len(p) + Len(d)
        /\ \A i \in 1..Len(p) : (p \o d)[i] = p[i]
        /\ \A i \in 1..Len(d) : (p \o d)[Len(p) + i] = d[i]
    BY ConcatAt
  <2>2. Len(p \o d) = Len(q) /\ \A i \in 1..Len(q) : i \in 1..k \/ i = k + 1
    BY <1>4, <1>5, <1>6, <2>1
  <2>3. (p \o d)[k + 1] = q[k + 1]
    BY <1>3, <1>4, <1>5, <1>6, <2>1
  <2>4. \A i \in 1..k : (p \o d)[i] = q[i]
    BY <1>5, <1>6, <2>1
  <2>5. \A i \in 1..Len(q) : (p \o d)[i] = q[i]
    BY <2>2, <2>3, <2>4
  <2> QED BY <2>1, <2>2, <2>5, SeqEqual
<1>8. Rest(r, 1) = Rest(t, k + 1)
  <2>1. /\ Rest(r, 1) \in Seq(Char) /\ Len(Rest(r, 1)) = Len(r) - 1
        /\ \A i \in 1..Len(r) - 1 : Rest(r, 1)[i] = r[1 + i]
    BY <1>3, RestType
  <2>2. /\ Rest(t, k + 1) \in Seq(Char) /\ Len(Rest(t, k + 1)) = Len(t) - (k + 1)
        /\ \A i \in 1..Len(t) - (k + 1) : Rest(t, k + 1)[i] = t[k + 1 + i]
    BY <1>1, RestType
  <2>3. \A i \in 1..Len(r) - 1 : /\ i \in 1..Len(t) - (k + 1) /\ 1 + i \in 1..Len(t) - k
                                 /\ k + (1 + i) = k + 1 + i
    BY <1>1, <1>2
  <2>4. ASSUME NEW i \in 1..Len(r) - 1  PROVE Rest(r, 1)[i] = Rest(t, k + 1)[i]
    <3>1. Rest(r, 1)[i] = r[1 + i] /\ r[1 + i] = t[k + (1 + i)]
      BY <1>2, <2>1, <2>3
    <3>2. Rest(t, k + 1)[i] = t[k + 1 + i]
      BY <2>2, <2>3
    <3> QED BY <2>3, <3>1, <3>2
  <2>5. Len(Rest(r, 1)) = Len(Rest(t, k + 1))
    BY <1>1, <1>2, <2>1, <2>2
  <2> QED BY <2>1, <2>2, <2>4, <2>5, SeqEqual
<1> QED BY <1>2, <1>3, <1>4, <1>5, <1>6, <1>7, <1>8

LEMMA NotEndedPacket ==
    ASSUME NEW t \in Seq(Char), NEW s, NEW w,
           \/ t # <<>> /\ t[1] # ESC
           \/ Dropped(t) \/ Csi(t) # {} \/ Links(t) # {}
    PROVE  ~Ended(Conv(t, s, <<>>, w))
<1>1. ~Incomplete(t)
  BY IncompleteApart
<1>2. t # <<>>
  <2>1. Csi(t) # {} => Starts(t, "[")
    BY DEF Csi
  <2>2. Links(t) # {} => Starts(t, "]")
    BY DEF Links, IsLinkStart
  <2>3. t = <<>> => Len(t) = 0
    OBVIOUS
  <2>4. \A x : Starts(t, x) => t # <<>>
    BY <2>3 DEF Starts
  <2>5. Dropped(t) => t # <<>>
    BY DEF Dropped
  <2> QED BY <2>1, <2>2, <2>4, <2>5
<1> QED BY <1>1, <1>2, EndedConv

LEMMA NoText ==
    ASSUME NEW s \in Style, NEW w \in Seq(Cell)  PROVE w \o TextCells(s, <<>>) = w
<1>1. TextCells(s, <<>>) \in Seq(Cell) /\ Len(TextCells(s, <<>>)) = Len(<<>>)
  BY TextCellsType, EmptySeq
<1>2. TextCells(s, <<>>) = <<>>
  BY <1>1, EmptySeq
<1> QED BY <1>2, ConcatEmptySeq

LEMMA CharByChar ==
    ASSUME NEW t \in Seq(Char), NEW s \in Style, NEW w \in Seq(Cell), NEW n, Text(t, n)
    PROVE  Converted[Conv(t, s, <<>>, w)] =
             Converted[Conv(Rest(t, n), s, <<>>, w \o TextCells(s, SubSeq(t, 1, n)))]
<1>1. /\ n \in Nat /\ 1 =< n /\ n =< Len(t) /\ Len(t) \in Nat
      /\ \A i \in 1..n : t[i] # ESC
  <2>1. n \in 1..Len(t) /\ Len(t) \in Nat
    BY LenProperties DEF Text
  <2> QED BY <2>1 DEF Text
<1> DEFINE At(k) == Conv(Rest(t, k), s, <<>>, w \o TextCells(s, SubSeq(t, 1, k)))
           D == {k \in Nat : k =< n => Converted[Conv(t, s, <<>>, w)] = Converted[At(k)]}
<1>2. 0 \in D
  <2>1. Rest(t, 0) = t
    BY SubSeqFull DEF Rest
  <2>2. SubSeq(t, 1, 0) = <<>>
    BY SubSeqEmpty
  <2>3. At(0) = Conv(t, s, <<>>, w)
    BY <2>1, <2>2, NoText
  <2> QED BY <2>3
<1>3. ASSUME NEW k \in Nat, k \in D  PROVE k + 1 \in D
  <2> SUFFICES ASSUME k + 1 =< n
               PROVE  Converted[Conv(t, s, <<>>, w)] = Converted[At(k + 1)]
    OBVIOUS
  <2>1. k =< n /\ k < Len(t) /\ k + 1 \in 1..n
    BY <1>1
  <2>2. PICK r \in Seq(Char), d \in Seq(Char), p \in Seq(Char) :
          /\ r = Rest(t, k) /\ d = SubSeq(r, 1, 1) /\ p = SubSeq(t, 1, k)
          /\ r # <<>> /\ r[1] = t[k + 1]
          /\ Rest(r, 1) = Rest(t, k + 1) /\ p \o d = SubSeq(t, 1, k + 1)
    BY <2>1, OneMore
  <2>3. r[1] # ESC
    BY <1>1, <2>1, <2>2
  <2>4. PICK v \in Seq(Cell) : v = w \o TextCells(s, p)
    BY TextCellsType, ConcatProperties
  <2>5. Conv(r, s, <<>>, v) \in Conversion
    BY NoCommands, ConvType
  <2>6. ~Ended(Conv(r, s, <<>>, v))
    BY <2>2, <2>3, NotEndedPacket
  <2>7. Advanced(Conv(r, s, <<>>, v)) = Conv(Rest(r, 1), s, <<>>, v \o TextCells(s, d))
    BY <2>2, <2>3, AdvancedChar
  <2>8. v \o TextCells(s, d) = w \o TextCells(s, SubSeq(t, 1, k + 1))
    <3>1. PICK x \in Seq(Cell), y \in Seq(Cell) : x = TextCells(s, p) /\ y = TextCells(s, d)
      BY TextCellsType
    <3>2. TextCells(s, p \o d) = TextCells(s, p) \o TextCells(s, d)
      BY TextJoin
    <3>3. (w \o x) \o y = w \o (x \o y)
      BY ConcatAssociative
    <3> QED BY <2>2, <2>4, <3>1, <3>2, <3>3
  <2>9. Advanced(Conv(r, s, <<>>, v)) = At(k + 1)
    BY <2>2, <2>7, <2>8
  <2>10. Converted[Conv(r, s, <<>>, v)] = Converted[At(k + 1)]
    <3>1. Converted[Conv(r, s, <<>>, v)] = Converted[Advanced(Conv(r, s, <<>>, v))]
      BY <2>5, <2>6, ConvertedOn
    <3> QED BY <2>9, <3>1, Zenon
  <2>11. Converted[Conv(t, s, <<>>, w)] = Converted[At(k)]
    BY <1>3, <2>1
  <2>12. At(k) = Conv(r, s, <<>>, v)
    BY <2>2, <2>4
  <2> HIDE DEF At
  <2> QED BY <2>10, <2>11, <2>12
<1>4. \A k \in Nat : k \in D
  <2> HIDE DEF D
  <2> QED BY <1>2, <1>3, UpFromZero
<1>5. Converted[Conv(t, s, <<>>, w)] = Converted[At(n)]
  <2> HIDE DEF At
  <2> QED BY <1>1, <1>4
<1> QED BY <1>5

(* The blocks the line under way has so far come behind those of the lines *)
(* before it.                                                              *)
LEMMA AnsiParts ==
    ASSUME AnsiInv
    PROVE  /\ buffer \in Seq(Char) /\ style \in Style /\ blocks \in Seq(Block)
           /\ Commands(cmds) /\ (conv # "sgr" => cmds = <<>>)
BY DEF AnsiInv, AnsiTypeOK

LEMMA TextStep ==
    ASSUME AnsiInv, TextPacket, NEW bs \in Seq(Block)
    PROVE  Converted[Conv(buffer', style', cmds', Cells(bs \o blocks'))] =
             Converted[Conv(buffer, style, cmds, Cells(bs \o blocks))]
<1>1. PICK n \in DOMAIN buffer :
        /\ Text(buffer, n)
        /\ blocks' = Append(blocks, TransformToHtml(style, SubSeq(buffer, 1, n)))
        /\ buffer' = Rest(buffer, n)
  BY DEF TextPacket
<1>2. style' = style /\ cmds' = <<>> /\ cmds = <<>>
  BY AnsiParts DEF TextPacket
<1>3. PICK t \in Seq(Char), s \in Style, d \in Seq(Char) :
        t = buffer /\ s = style /\ d = SubSeq(t, 1, n)
  <2>1. n \in 1..Len(buffer) /\ Len(buffer) \in Nat
    BY AnsiParts, LenProperties
  <2>2. n \in Int /\ n =< Len(buffer) /\ 1 \in Nat \ {0}
    BY <2>1
  <2> QED BY <2>2, AnsiParts, PartType
<1>4. PICK x \in Block : x = TransformToHtml(s, d)
  BY TextBlock
<1>5. PICK cs \in Seq(Block) : cs = bs \o blocks
  BY AnsiParts, ConcatProperties
<1>6. bs \o blocks' = Append(cs, x)
  <2>1. blocks \in Seq(Block) /\ <<x>> \in Seq(Block)
    BY AnsiParts
  <2>2. Append(blocks, x) = blocks \o <<x>> /\ Append(cs, x) = cs \o <<x>>
    BY <2>1, AppendIsConcat
  <2>3. (bs \o blocks) \o <<x>> = bs \o (blocks \o <<x>>)
    BY <2>1, ConcatAssociative
  <2>4. blocks' = Append(blocks, x)
    BY <1>1, <1>3, <1>4
  <2> QED BY <1>5, <2>2, <2>3, <2>4
<1>7. PICK w \in Seq(Cell) : w = Cells(cs)
  BY CellsType
<1>8. Cells(bs \o blocks') = w \o TextCells(s, d)
  BY <1>4, <1>6, <1>7, CellsAppend DEF TextCells
<1>9. Text(t, n) /\ buffer' = Rest(t, n)
  BY <1>1, <1>3
<1>10. Converted[Conv(t, s, <<>>, w)] = Converted[Conv(Rest(t, n), s, <<>>, w \o TextCells(s, d))]
  BY <1>3, <1>9, CharByChar
<1> QED BY <1>2, <1>3, <1>5, <1>7, <1>8, <1>9, <1>10

LEMMA EscStep ==
    ASSUME AnsiInv, EscPacket, NEW bs \in Seq(Block)
    PROVE  Converted[Conv(buffer', style', cmds', Cells(bs \o blocks'))] =
             Converted[Conv(buffer, style, cmds, Cells(bs \o blocks))]
<1>1. PICK t \in Seq(Char), s \in Style, w \in Seq(Cell) :
        t = buffer /\ s = style /\ w = Cells(bs \o blocks)
  BY AnsiParts, ConcatProperties, CellsType
<1>2. /\ Dropped(t) /\ buffer' = Rest(t, 1) /\ style' = s /\ cmds = <<>> /\ cmds' = <<>>
      /\ blocks' = blocks
  BY <1>1, AnsiParts DEF EscPacket
<1>3. PICK x \in Conversion : x = Conv(t, s, <<>>, w) /\ ~Ended(x)
  BY <1>2, NoCommands, ConvType, NotEndedPacket
<1>4. Advanced(x) = Conv(Rest(t, 1), s, <<>>, w)
  BY <1>2, <1>3, AdvancedEsc
<1>5. Converted[x] = Converted[Advanced(x)]
  BY <1>3, ConvertedOn
<1> QED BY <1>1, <1>2, <1>3, <1>4, <1>5

LEMMA CsiStep ==
    ASSUME AnsiInv, CsiPacket, NEW bs \in Seq(Block)
    PROVE  Converted[Conv(buffer', style', cmds', Cells(bs \o blocks'))] =
             Converted[Conv(buffer, style, cmds, Cells(bs \o blocks))]
<1>1. PICK t \in Seq(Char), s \in Style, w \in Seq(Cell) :
        t = buffer /\ s = style /\ w = Cells(bs \o blocks)
  BY AnsiParts, ConcatProperties, CellsType
<1>2. style' = s /\ cmds = <<>> /\ blocks' = blocks
  BY <1>1, AnsiParts DEF CsiPacket
<1>3. PICK n \in Csi(t) :
        /\ buffer' = Rest(t, n)
        /\ \/ IsSgr(t, n) /\ cmds' = Append(SubSeq(t, 3, n - 1), ";")
           \/ ~IsSgr(t, n) /\ cmds' = cmds
  BY <1>1 DEF CsiPacket
<1>4. cmds' = CommandsOf(t, n)
  BY <1>2, <1>3 DEF CommandsOf
<1>5. PICK x \in Conversion : x = Conv(t, s, <<>>, w) /\ ~Ended(x)
  BY NoCommands, ConvType, NotEndedPacket
<1>6. Advanced(x) = Conv(Rest(t, n), s, CommandsOf(t, n), w)
  BY <1>5, AdvancedCsi
<1>7. Converted[x] = Converted[Advanced(x)]
  BY <1>5, ConvertedOn
<1> QED BY <1>1, <1>2, <1>3, <1>4, <1>5, <1>6, <1>7

LEMMA LinkStep ==
    ASSUME AnsiInv, LinkPacket, NEW bs \in Seq(Block)
    PROVE  Converted[Conv(buffer', style', cmds', Cells(bs \o blocks'))] =
             Converted[Conv(buffer, style, cmds, Cells(bs \o blocks))]
<1>1. PICK t \in Seq(Char), s \in Style, cs \in Seq(Block), w \in Seq(Cell) :
        t = buffer /\ s = style /\ cs = bs \o blocks /\ w = Cells(cs)
  BY AnsiParts, ConcatProperties, CellsType
<1>2. style' = s /\ cmds = <<>> /\ cmds' = <<>>
  BY <1>1, AnsiParts DEF LinkPacket
<1>3. PICK m \in Links(t) :
        /\ blocks' = blocks \o ProcessHyperlink(SubSeq(t, m[1] + 1, m[2] - 1),
                                                SubSeq(t, After(t, m[2]), m[3] - 6))
        /\ buffer' = Rest(t, After(t, m[3]) - 1)
  BY <1>1 DEF LinkPacket
<1>4. blocks' = blocks \o LinkOf(t, m)
  BY <1>3, Zenon DEF LinkOf
<1>5. PICK ls \in Seq(Block) : ls = LinkOf(t, m)
  <2>1. ASSUME NEW x \in Block, LinkOf(t, m) = <<x>>  PROVE LinkOf(t, m) \in Seq(Block)
    BY <2>1
  <2>2. ASSUME LinkOf(t, m) = <<>>  PROVE LinkOf(t, m) \in Seq(Block)
    BY <2>2, EmptySeq
  <2> QED BY <2>1, <2>2, LinkOfType
<1>6. bs \o blocks' = cs \o ls
  <2>1. (bs \o blocks) \o ls = bs \o (blocks \o ls)
    BY AnsiParts, ConcatAssociative
  <2> QED BY <1>1, <1>4, <1>5, <2>1
<1>7. Cells(bs \o blocks') = w \o Cells(LinkOf(t, m))
  <2>1. Cells(cs \o LinkOf(t, m)) = Cells(cs) \o Cells(LinkOf(t, m))
    BY LinkCells, Zenon
  <2> QED BY <1>1, <1>5, <1>6, <2>1, Zenon
<1>8. PICK x \in Conversion : x = Conv(t, s, <<>>, w) /\ ~Ended(x)
  BY NoCommands, ConvType, NotEndedPacket
<1>9. Advanced(x) = Conv(Rest(t, After(t, m[3]) - 1), s, <<>>, w \o Cells(LinkOf(t, m)))
  BY <1>8, AdvancedLink
<1>10. Converted[x] = Converted[Advanced(x)]
  BY <1>8, ConvertedOn
<1> QED BY <1>1, <1>2, <1>3, <1>7, <1>8, <1>9, <1>10

LEMMA CommandStep ==
    ASSUME AnsiInv, SgrCommand, NEW bs \in Seq(Block)
    PROVE  Converted[Conv(buffer', style', cmds', Cells(bs \o blocks'))] =
             Converted[Conv(buffer, style, cmds, Cells(bs \o blocks))]
<1>1. PICK t \in Seq(Char), s \in Style, w \in Seq(Cell) :
        t = buffer /\ s = style /\ w = Cells(bs \o blocks)
  BY AnsiParts, ConcatProperties, CellsType
<1>2. PICK c : c = cmds /\ Commands(c) /\ c # <<>>
  BY AnsiParts DEF SgrCommand
<1>3. buffer' = t /\ blocks' = blocks /\ style' = Sgr(s, c).style /\ cmds' = Sgr(s, c).cmds
  BY <1>1, <1>2 DEF SgrCommand
<1>4. PICK x \in Conversion : x = Conv(t, s, c, w) /\ ~Ended(x)
  BY <1>2, ConvType, EndedConv
<1>5. Advanced(x) = Conv(t, Sgr(s, c).style, Sgr(s, c).cmds, w)
  BY <1>2, <1>4, AdvancedCommand
<1>6. Converted[x] = Converted[Advanced(x)]
  BY <1>4, ConvertedOn
<1> QED BY <1>1, <1>2, <1>3, <1>4, <1>5, <1>6

(* What the converter holds has the same rendering after each of its steps. *)
LEMMA ConvertStep ==
    ASSUME AnsiInv, AnsiStep, NEW bs \in Seq(Block)
    PROVE  Converted[Conv(buffer', style', cmds', Cells(bs \o blocks'))] =
             Converted[Conv(buffer, style, cmds, Cells(bs \o blocks))]
<1>1. CASE TextPacket
  BY <1>1, TextStep
<1>2. CASE EscPacket
  BY <1>2, EscStep
<1>3. CASE CsiPacket
  BY <1>3, CsiStep
<1>4. CASE LinkPacket
  BY <1>4, LinkStep
<1>5. CASE SgrCommand
  BY <1>5, CommandStep
<1>6. CASE SgrEnd
  BY <1>6 DEF SgrEnd
<1> QED BY <1>1, <1>2, <1>3, <1>4, <1>5, <1>6 DEF AnsiStep

-----------------------------------------------------------------------------
(* The two invariants.                                                     *)

(* What is shown, and what is still held, render to what everything heard  *)
(* renders to.                                                             *)
CutInv ==
    Rendered(FlattenSeq(heard)) =
        Converted[Conv(buffer, style, cmds, Cells(FlattenSeq(box) \o blocks))]

(* After lines that end what they begin, each paragraph is the rendering   *)
(* of its own line, and the converter starts the next one afresh.          *)
MixInv ==
    (\A i \in DOMAIN box : heard[i] \in SelfContained) =>
        /\ \A i \in DOMAIN box : Cells(box[i]) = Rendered(heard[i]).cells
        /\ conv = "idle" => (buffer = <<>> /\ style = NoStyle)
        /\ conv # "idle" =>
              Rendered(heard[Len(heard)]) = Converted[Conv(buffer, style, cmds, Cells(blocks))]

LEMMA PageParts ==
    ASSUME LogInv
    PROVE  /\ AnsiInv
           /\ heard \in Seq(Line \cup {NullText}) /\ heard \in Seq(Seq(Char))
           /\ box \in Seq(Seq(Block)) /\ FlattenSeq(box) \in Seq(Block)
           /\ FlattenSeq(heard) \in Seq(Char)
           /\ Len(box) \in Nat /\ Len(heard) \in Nat
           /\ DOMAIN box = 1..Len(box) /\ DOMAIN heard = 1..Len(heard)
           /\ Len(heard) = IF conv = "idle" THEN Len(box) ELSE Len(box) + 1
<1>1. heard \in Seq(Line \cup {NullText}) /\ box \in Seq(Seq(Block)) /\ AnsiInv
  BY DEF LogInv, LogTypeOK
<1>2. /\ Len(box) \in Nat /\ Len(heard) \in Nat
      /\ DOMAIN box = 1..Len(box) /\ DOMAIN heard = 1..Len(heard)
  BY <1>1, LenProperties
<1>3. heard \in Seq(Seq(Char))
  <2>1. \A i \in 1..Len(heard) : heard[i] \in Line \cup {NullText}
    BY <1>1, ElementOfSeq
  <2>2. \A i \in 1..Len(heard) : heard[i] \in Seq(Char)
    BY <2>1, LineType
  <2>3. heard = [i \in 1..Len(heard) |-> heard[i]]
    BY <1>1
  <2> QED BY <1>2, <2>2, <2>3, SeqOfFunction
<1>4. FlattenSeq(box) \in Seq(Block)
  BY <1>1, FlattenType
<1>5. FlattenSeq(heard) \in Seq(Char)
  BY <1>3, FlattenType
<1>6. Len(heard) = IF conv = "idle" THEN Len(box) ELSE Len(box) + 1
  <2>1. Len(box) = IF conv = "idle" THEN Len(heard) ELSE Len(heard) - 1
    BY DEF LogInv, OneParagraphEach
  <2>2. CASE conv = "idle"
    BY <2>1, <2>2
  <2>3. ASSUME conv # "idle"  PROVE Len(heard) = Len(box) + 1
    <3>1. Len(box) = Len(heard) - 1
      BY <2>1, <2>3
    <3> QED BY <1>2, <3>1
  <2> QED BY <2>2, <2>3
<1> QED BY <1>1, <1>2, <1>3, <1>4, <1>5, <1>6

LEMMA NothingShown == Cells(FlattenSeq(<<>>) \o <<>>) = <<>>
<1>1. <<>> \in Seq(Block) /\ <<>> \o <<>> = <<>>
  BY EmptySeq, ConcatEmptySeq
<1> QED BY <1>1, FlattenEmpty, CellsEmpty

LEMMA NothingHeard ==
    /\ LogInit => CutInv /\ MixInv
    /\ LoadPage => CutInv' /\ MixInv'
<1>1. DOMAIN <<>> = {}
  OBVIOUS
<1>2. ASSUME LogInit  PROVE CutInv /\ MixInv
  <2>1. /\ buffer = <<>> /\ style = NoStyle /\ cmds = <<>> /\ blocks = <<>> /\ conv = "idle"
        /\ box = <<>> /\ heard = <<>>
    BY <1>2 DEF LogInit, FreshAnsi
  <2>2. CutInv
    BY <2>1, NothingShown, FlattenEmpty DEF CutInv, Rendered
  <2>3. MixInv
    BY <1>1, <2>1 DEF MixInv
  <2> QED BY <2>2, <2>3
<1>3. ASSUME LoadPage  PROVE CutInv' /\ MixInv'
  <2>1. /\ buffer' = <<>> /\ style' = NoStyle /\ cmds' = <<>> /\ blocks' = <<>> /\ conv' = "idle"
        /\ box' = <<>> /\ heard' = <<>>
    BY <1>3 DEF LoadPage
  <2>2. CutInv'
    BY <2>1, NothingShown, FlattenEmpty DEF CutInv, Rendered
  <2>3. MixInv'
    BY <1>1, <2>1 DEF MixInv
  <2> QED BY <2>2, <2>3
<1> QED BY <1>2, <1>3

LEMMA PageStays ==
    ASSUME UNCHANGED pageVars
    PROVE  (CutInv => CutInv') /\ (MixInv => MixInv')
<1>1. UNCHANGED <<box, heard, buffer, style, cmds, blocks, conv>>
  BY DEF pageVars, ansiVars
<1> QED BY <1>1 DEF CutInv, MixInv, Rendered, SelfContained

(* A line comes: the converter goes on from what it holds.                 *)
LEMMA HeardOneMore ==
    ASSUME LogInv, NEW l \in Seq(Char), AppendBuffer(l), CutInv,
           heard' = Append(heard, l), UNCHANGED box
    PROVE  CutInv'
<1>1. PICK t \in Seq(Char), s \in Style, w \in Seq(Cell), h \in Seq(Char) :
        /\ t = buffer /\ s = style /\ w = Cells(FlattenSeq(box) \o blocks)
        /\ h = FlattenSeq(heard)
  BY PageParts, AnsiParts, ConcatProperties, CellsType
<1>2. conv = "idle" /\ buffer' = t \o l /\ blocks' = <<>> /\ style' = s /\ cmds = <<>> /\ cmds' = <<>>
  BY <1>1, PageParts, AnsiParts DEF AppendBuffer
<1>3. FlattenSeq(heard') = h \o l
  BY <1>1, PageParts, FlattenAppend
<1>4. Cells(FlattenSeq(box') \o blocks') = w
  <2>1. blocks = <<>>
    BY <1>2 DEF LogInv
  <2> QED BY <1>1, <1>2, <2>1
<1>5. NoStyle \in Style /\ <<>> \in Seq(Cell)
  BY EmptySeq DEF NoStyle, Style, Color
<1>6. PICK x \in Conversion : x = Conv(h, NoStyle, <<>>, <<>>)
  BY <1>5, NoCommands, ConvType
<1>7. PICK y \in Conversion : y = Conv(t, s, <<>>, w)
  BY NoCommands, ConvType
<1>8. Converted[x] = Converted[y]
  BY <1>1, <1>2, <1>6, <1>7 DEF CutInv, Rendered
<1>9. Converted[With(x, l)] = Converted[With(y, l)]
  BY <1>8, CutAnywhere
<1>10. With(x, l) = Conv(h \o l, NoStyle, <<>>, <<>>) /\ With(y, l) = Conv(t \o l, s, <<>>, w)
  BY <1>6, <1>7, WithConv
<1> QED BY <1>2, <1>3, <1>4, <1>9, <1>10 DEF CutInv, Rendered

LEMMA HeardOneOfItsOwn ==
    ASSUME LogInv, NEW l \in Seq(Char), AppendBuffer(l), MixInv,
           heard' = Append(heard, l), UNCHANGED box
    PROVE  MixInv'
<1>1. /\ conv = "idle" /\ conv' = "packet" /\ buffer' = buffer \o l /\ blocks' = <<>>
      /\ style' = style /\ cmds = <<>> /\ cmds' = <<>> /\ box' = box
  BY PageParts, AnsiParts DEF AppendBuffer
<1>2. /\ Len(heard) = Len(box) /\ Len(box) \in Nat /\ DOMAIN box = 1..Len(box)
      /\ heard \in Seq(Seq(Char))
  BY <1>1, PageParts
<1>3. /\ \A i \in DOMAIN box : heard'[i] = heard[i]
      /\ Len(heard') = Len(heard) + 1 /\ heard'[Len(heard) + 1] = l
  BY <1>2, AppendProperties
<1>4. ASSUME \A i \in DOMAIN box' : heard'[i] \in SelfContained
      PROVE  /\ \A i \in DOMAIN box' : Cells(box'[i]) = Rendered(heard'[i]).cells
             /\ Rendered(l) = Converted[Conv(buffer', style', cmds', Cells(blocks'))]
  <2>1. \A i \in DOMAIN box : heard[i] \in SelfContained
    BY <1>1, <1>3, <1>4
  <2>2. /\ \A i \in DOMAIN box : Cells(box[i]) = Rendered(heard[i]).cells
        /\ buffer = <<>> /\ style = NoStyle
    BY <1>1, <2>1 DEF MixInv
  <2>3. \A i \in DOMAIN box' : Cells(box'[i]) = Rendered(heard'[i]).cells
    BY <1>1, <1>3, <2>2
  <2>4. buffer' = l
    BY <1>1, <2>2, ConcatEmptySeq
  <2> QED BY <1>1, <2>2, <2>3, <2>4, CellsEmpty DEF Rendered
<1>5. heard'[Len(heard')] = l /\ conv' # "idle"
  BY <1>1, <1>3
<1> QED BY <1>4, <1>5 DEF MixInv

LEMMA ReceiveLogCut ==
    ASSUME LogInv, ReceiveLog
    PROVE  (CutInv => CutInv') /\ (MixInv => MixInv')
<1>1. PICK l : l = Head(wire).log
  OBVIOUS
<1>2. l \in Seq(Char)
  BY <1>1, WireHead DEF ReceiveLog, LogInv, LogTypeOK
<1>3. CASE AppendBuffer(l) /\ heard' = Append(heard, l) /\ UNCHANGED box
  BY <1>2, <1>3, HeardOneMore, HeardOneOfItsOwn
<1>4. CASE UNCHANGED <<ansiVars, heard, box>>
  <2>1. UNCHANGED pageVars
    BY <1>4 DEF pageVars
  <2> QED BY <2>1, PageStays
<1> QED BY <1>1, <1>3, <1>4 DEF ReceiveLog

LEMMA ConvertCut ==
    ASSUME LogInv, Convert
    PROVE  (CutInv => CutInv') /\ (MixInv => MixInv')
<1>1. AnsiStep /\ AnsiInv /\ UNCHANGED <<box, heard>>
  BY PageParts DEF Convert
<1>2. CutInv => CutInv'
  <2>1. PICK bs \in Seq(Block) : bs = FlattenSeq(box)
    BY PageParts
  <2>2. Converted[Conv(buffer', style', cmds', Cells(bs \o blocks'))] =
          Converted[Conv(buffer, style, cmds, Cells(bs \o blocks))]
    BY <1>1, ConvertStep
  <2>3. FlattenSeq(box') = bs /\ FlattenSeq(heard') = FlattenSeq(heard)
    BY <1>1, <2>1
  <2> QED BY <2>1, <2>2, <2>3 DEF CutInv, Rendered
<1>3. MixInv => MixInv'
  <2>1. conv # "idle" /\ conv' # "idle"
    <3>1. conv # "idle"
      BY <1>1 DEF AnsiStep, TextPacket, EscPacket, CsiPacket, LinkPacket, SgrCommand, SgrEnd
    <3>2. conv' \in {"packet", "sgr"}
      BY <1>1, AnsiStepInv
    <3> QED BY <3>1, <3>2
  <2>2. Converted[Conv(buffer', style', cmds', Cells(<<>> \o blocks'))] =
          Converted[Conv(buffer, style, cmds, Cells(<<>> \o blocks))]
    BY <1>1, EmptySeq, ConvertStep
  <2>3. <<>> \o blocks = blocks /\ <<>> \o blocks' = blocks'
    <3>1. AnsiInv'
      BY <1>1, AnsiStepInv
    <3>2. blocks \in Seq(Block) /\ blocks' \in Seq(Block)
      BY <1>1, <3>1 DEF AnsiInv, AnsiTypeOK
    <3> QED BY <3>2, ConcatEmptySeq
  <2>4. Converted[Conv(buffer', style', cmds', Cells(blocks'))] =
          Converted[Conv(buffer, style, cmds, Cells(blocks))]
    BY <2>2, <2>3
  <2> QED BY <1>1, <2>1, <2>4 DEF MixInv, Rendered, SelfContained
<1> QED BY <1>2, <1>3

LEMMA AddParagraphCut ==
    ASSUME LogInv, AddParagraph
    PROVE  (CutInv => CutInv') /\ (MixInv => MixInv')
<1>1. /\ box' = Append(box, blocks) /\ UNCHANGED heard
      /\ conv = "packet" /\ conv' = "idle" /\ blocks' = <<>>
      /\ UNCHANGED <<buffer, style, cmds>>
      /\ (buffer = <<>> \/ Incomplete(buffer))
  BY DEF AddParagraph, AnsiEnd, AtEnd
<1>2. blocks \in Seq(Block) /\ cmds = <<>>
  BY <1>1, PageParts, AnsiParts
<1>3. CutInv => CutInv'
  <2>1. FlattenSeq(box') = FlattenSeq(box) \o blocks /\ FlattenSeq(box') \in Seq(Block)
    BY <1>1, <1>2, PageParts, FlattenAppend
  <2>2. FlattenSeq(box') \o blocks' = FlattenSeq(box) \o blocks
    BY <1>1, <2>1, ConcatEmptySeq
  <2> QED BY <1>1, <2>2 DEF CutInv, Rendered
<1>4. ASSUME MixInv, \A i \in DOMAIN box' : heard'[i] \in SelfContained
      PROVE  /\ \A i \in DOMAIN box' : Cells(box'[i]) = Rendered(heard'[i]).cells
             /\ buffer' = <<>> /\ style' = NoStyle
  <2>1. /\ Len(heard) = Len(box) + 1 /\ Len(box) \in Nat /\ DOMAIN box = 1..Len(box)
        /\ box \in Seq(Seq(Block)) /\ heard \in Seq(Line \cup {NullText})
    BY <1>1, PageParts
  <2>2. /\ box' \in Seq(Seq(Block)) /\ Len(box') = Len(box) + 1
        /\ \A i \in 1..Len(box) : box'[i] = box[i]
        /\ box'[Len(box) + 1] = blocks
    BY <1>1, <1>2, <2>1, AppendProperties
  <2>3. DOMAIN box' = 1..Len(box) + 1
    BY <2>2, LenProperties
  <2>4. PICK k : k = Len(heard) /\ k \in DOMAIN box'
    BY <2>1, <2>3
  <2>5. /\ \A i \in DOMAIN box : heard[i] \in SelfContained
        /\ heard[k] \in SelfContained
    <3>1. \A i \in DOMAIN box : i \in DOMAIN box'
      BY <2>1, <2>3
    <3> QED BY <1>1, <1>4, <2>4, <3>1
  <2>6. /\ \A i \in DOMAIN box : Cells(box[i]) = Rendered(heard[i]).cells
        /\ Rendered(heard[k]) = Converted[Conv(buffer, style, cmds, Cells(blocks))]
    BY <1>1, <1>4, <2>4, <2>5 DEF MixInv
  <2>7. PICK x \in Conversion : x = Conv(buffer, style, <<>>, Cells(blocks)) /\ Ended(x)
    <3>1. Ended(Conv(buffer, style, <<>>, Cells(blocks)))
      BY <1>1, EndedConv
    <3> QED BY <3>1, PageParts, AnsiParts, CellsType, NoCommands, ConvType
  <2>8. Rendered(heard[k]) = x /\ x.buffer = buffer /\ x.style = style /\ x.cells = Cells(blocks)
    BY <1>2, <2>6, <2>7, ConvertedEnd, ConvFields
  <2>9. Rendered(heard[k]).buffer = <<>> /\ Rendered(heard[k]).style = NoStyle
    BY <2>5 DEF SelfContained, RenderedLine
  <2>10. ASSUME NEW i \in DOMAIN box'  PROVE Cells(box'[i]) = Rendered(heard'[i]).cells
    <3>1. i \in DOMAIN box \/ i = k
      BY <2>1, <2>3, <2>4
    <3>2. CASE i \in DOMAIN box
      BY <1>1, <2>1, <2>2, <2>6, <3>2
    <3>3. CASE i = k
      BY <1>1, <2>1, <2>2, <2>4, <2>8, <3>3
    <3> QED BY <3>1, <3>2, <3>3
  <2> QED BY <1>1, <2>8, <2>9, <2>10
<1>5. MixInv => MixInv'
  BY <1>1, <1>4 DEF MixInv
<1> QED BY <1>3, <1>5

LEMMA CutMixStep ==
    ASSUME LogInv, [LogNext]_logVars
    PROVE  (CutInv => CutInv') /\ (MixInv => MixInv')
<1>1. CASE \E s \in Stream : StartProcess(s) \/ WriteLine(s) \/ EndOfStream(s)
  <2>1. UNCHANGED pageVars
    BY <1>1 DEF StartProcess, WriteLine, EndOfStream, Send, pageVars
  <2> QED BY <2>1, PageStays
<1>2. CASE LoadPage
  BY <1>2, NothingHeard
<1>3. CASE ConnectionStarts \/ ConnectionLost
  <2>1. UNCHANGED pageVars
    BY <1>3 DEF ConnectionStarts, ConnectionLost
  <2> QED BY <2>1, PageStays
<1>4. CASE ReceiveLog
  BY <1>4, ReceiveLogCut
<1>5. CASE Convert
  BY <1>5, ConvertCut
<1>6. CASE AddParagraph
  BY <1>6, AddParagraphCut
<1>7. CASE UNCHANGED logVars
  <2>1. UNCHANGED pageVars
    BY <1>7 DEF logVars, pageVars
  <2> QED BY <2>1, PageStays
<1> QED BY <1>1, <1>2, <1>3, <1>4, <1>5, <1>6, <1>7 DEF LogNext

LEMMA CutInvAlways == LogSpec => []CutInv
<1>1. LogInit => CutInv
  BY NothingHeard
<1>2. LogInv /\ CutInv /\ [LogNext]_logVars => CutInv'
  BY CutMixStep
<1> QED BY <1>1, <1>2, LogInvAlways, PTL DEF LogSpec

LEMMA MixInvAlways == LogSpec => []MixInv
<1>1. LogInit => MixInv
  BY NothingHeard
<1>2. LogInv /\ MixInv /\ [LogNext]_logVars => MixInv'
  BY CutMixStep
<1> QED BY <1>1, <1>2, LogInvAlways, PTL DEF LogSpec

-----------------------------------------------------------------------------
(* What the page shows does not depend on where lines end: with the style  *)
(* and the buffer it carries from line to line, the converter gives each   *)
(* character the looks it would have had if all lines had come as one, for *)
(* all lines of all processes.  (log.js, the handler of "ReceiveLog";      *)
(* ansi_up.js, _buffer and the style.)                                     *)
THEOREM CutDoesNotMatterAlways == LogSpec => []CutDoesNotMatter
<1>1. LogInv /\ CutInv => CutDoesNotMatter
  <2> SUFFICES ASSUME LogInv, CutInv, conv = "idle"
               PROVE  Conv(buffer, style, <<>>, Cells(FlattenSeq(box))) = Rendered(FlattenSeq(heard))
    BY DEF CutDoesNotMatter
  <2>1. /\ cmds = <<>> /\ blocks = <<>> /\ (buffer = <<>> \/ Incomplete(buffer))
    BY PageParts, AnsiParts DEF LogInv
  <2>2. FlattenSeq(box) \o blocks = FlattenSeq(box)
    BY <2>1, PageParts, ConcatEmptySeq
  <2>3. PICK x \in Conversion : x = Conv(buffer, style, <<>>, Cells(FlattenSeq(box))) /\ Ended(x)
    <3>1. Ended(Conv(buffer, style, <<>>, Cells(FlattenSeq(box))))
      BY <2>1, EndedConv
    <3> QED BY <3>1, PageParts, AnsiParts, CellsType, NoCommands, ConvType
  <2> QED BY <2>1, <2>2, <2>3, ConvertedEnd DEF CutInv
<1> QED BY <1>1, LogInvAlways, CutInvAlways, PTL

(* If every line so far has ended its own sequences and styles, each is    *)
(* shown as if it were the only one, for all lines: what other processes   *)
(* have written before it does not change its looks.  (log.js, the one     *)
(* AnsiUp object of the page.)                                             *)
THEOREM LinesDoNotMixAlways == LogSpec => []LinesDoNotMix
<1>1. LogInv /\ MixInv => LinesDoNotMix
  <2> SUFFICES ASSUME LogInv, MixInv, conv = "idle",
                      \A i \in DOMAIN heard : heard[i] \in SelfContained,
                      NEW i \in DOMAIN heard
               PROVE  Cells(box[i]) = RenderedLine[heard[i]].cells
    BY DEF LinesDoNotMix
  <2>1. DOMAIN box = DOMAIN heard
    BY PageParts
  <2>2. Cells(box[i]) = Rendered(heard[i]).cells
    BY <2>1 DEF MixInv
  <2>3. heard[i] \in Line \cup {NullText}
    BY DEF SelfContained
  <2> QED BY <2>2, <2>3 DEF RenderedLine
<1> QED BY <1>1, LogInvAlways, MixInvAlways, PTL
=============================================================================
