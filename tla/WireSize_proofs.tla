---------------------------- MODULE WireSize_proofs ----------------------------
(***************************************************************************)
(* What sums and concatenations of sequences of any length are, for the    *)
(* proofs about sizes, datagrams and requests.                             *)
(*                                                                         *)
(* They need induction.  The provers cannot instantiate an induction       *)
(* principle over a predicate; here the predicate is replaced by the set   *)
(* of numbers that satisfy it, and the principle follows from the least    *)
(* element of its complement.                                              *)
(***************************************************************************)
EXTENDS WireSize, SequenceTheorems, WellFoundedInduction, TLAPS

-----------------------------------------------------------------------------
(* Induction, and functions defined by iteration.                          *)

\* A set of numbers that has zero and, up to n, every successor has them all.
LEMMA Induction ==
  ASSUME NEW n \in Nat, NEW T, 0 \in T, \A i \in 0 .. n - 1 : i \in T => i + 1 \in T
  PROVE  \A i \in 0 .. n : i \in T
<1> SUFFICES ASSUME NEW k \in 0 .. n, k \notin T PROVE FALSE
  OBVIOUS
<1> DEFINE C == {i \in 0 .. n : i \notin T}
<1>1. C \subseteq Nat /\ C # {}
  OBVIOUS
<1>2. PICK x \in C : \A y \in C : <<y, x>> \notin OpToRel(<, Nat)
  BY <1>1, NatLessThanWellFounded, WFMin
<1>3. x \in 0 .. n /\ x \notin T
  OBVIOUS
<1>4. ASSUME NEW y \in C PROVE ~(y < x)
  BY <1>1, <1>2 DEF OpToRel
<1>5. x # 0 /\ x - 1 \in 0 .. n - 1 /\ (x - 1) + 1 = x /\ x - 1 < x /\ x - 1 \in 0 .. n
  BY <1>3
<1>6. x - 1 \in T
  BY <1>4, <1>5
<1> QED
  BY <1>3, <1>5, <1>6

\* The same from n down to zero.
LEMMA DownwardInduction ==
  ASSUME NEW n \in Nat, NEW T, n \in T, \A i \in 0 .. n - 1 : i + 1 \in T => i \in T
  PROVE  \A i \in 0 .. n : i \in T
<1> DEFINE R == {j \in 0 .. n : n - j \in T}
<1>1. 0 \in R
  OBVIOUS
<1>2. ASSUME NEW j \in 0 .. n - 1, j \in R PROVE j + 1 \in R
  <2>1. n - j - 1 \in 0 .. n - 1 /\ (n - j - 1) + 1 = n - j /\ n - (j + 1) = n - j - 1
    OBVIOUS
  <2> QED
    BY <1>2, <2>1
<1> HIDE DEF R
<1>3. \A j \in 0 .. n : j \in R
  BY <1>1, <1>2, Induction
<1>4. ASSUME NEW i \in 0 .. n PROVE i \in T
  <2>1. n - i \in R /\ n - (n - i) = i
    BY <1>3
  <2> QED
    BY <2>1 DEF R
<1> QED
  BY <1>4

\* f starts with b and takes step i to get to f[i].
Iterates(f, n, V, b, step) ==
  f \in [0 .. n -> V] /\ f[0] = b /\ \A i \in 1 .. n : f[i] = step[i][f[i - 1]]

\* A step for each number from 1 to n defines such a function.
LEMMA Iteration ==
  ASSUME NEW n \in Nat, NEW V, NEW b \in V, NEW step \in [1 .. n -> [V -> V]]
  PROVE  \E f : Iterates(f, n, V, b, step)
<1> DEFINE T == {m \in 0 .. n : \E f : Iterates(f, m, V, b, step)}
<1>1. 0 \in T
  <2>1. Iterates([i \in 0 .. 0 |-> b], 0, V, b, step)
    BY DEF Iterates
  <2> QED
    BY <2>1
<1>2. ASSUME NEW m \in 0 .. n - 1, m \in T PROVE m + 1 \in T
  <2>1. PICK f : Iterates(f, m, V, b, step)
    BY <1>2
  <2>2. f \in [0 .. m -> V] /\ f[0] = b /\ \A i \in 1 .. m : f[i] = step[i][f[i - 1]]
    BY <2>1 DEF Iterates
  <2> DEFINE g == [i \in 0 .. m + 1 |-> IF i <= m THEN f[i] ELSE step[m + 1][f[m]]]
  <2>3. step[m + 1][f[m]] \in V
    BY <2>2
  <2>4. g \in [0 .. m + 1 -> V] /\ g[0] = b
    BY <2>2, <2>3
  <2>5. ASSUME NEW i \in 1 .. m + 1 PROVE g[i] = step[i][g[i - 1]]
    <3>1. CASE i <= m
      BY <2>2, <3>1
    <3>2. CASE i = m + 1
      BY <2>2, <3>2
    <3> QED
      BY <3>1, <3>2
  <2>6. Iterates(g, m + 1, V, b, step)
    BY <2>4, <2>5 DEF Iterates
  <2>7. m + 1 \in 0 .. n
    OBVIOUS
  <2> QED
    BY <2>6, <2>7
<1> HIDE DEF T
<1>3. \A i \in 0 .. n : i \in T
  BY <1>1, <1>2, Induction
<1>4. n \in 0 .. n
  OBVIOUS
<1> QED
  BY <1>3, <1>4 DEF T

\* A function on 1 .. n is a sequence of length n.
LEMMA FunctionIsSequence ==
  ASSUME NEW S, NEW n \in Nat, NEW f \in [1 .. n -> S]
  PROVE  f \in Seq(S) /\ Len(f) = n /\ DOMAIN f = 1 .. n
<1>1. f \in Seq(S)
  BY SeqDef
<1>2. DOMAIN f = 1 .. n /\ DOMAIN f = 1 .. Len(f) /\ Len(f) \in Nat
  BY <1>1, LenProperties
<1> QED
  BY <1>1, <1>2

-----------------------------------------------------------------------------
(* Sums.                                                                   *)

\* The partial sums that Sum computes, and what they are.
Sums(s) == CHOOSE f : f = [i \in 0 .. Len(s) |-> IF i = 0 THEN 0 ELSE f[i - 1] + s[i]]

AreSums(f, s) ==
  f \in [0 .. Len(s) -> Nat] /\ f[0] = 0 /\ \A i \in 1 .. Len(s) : f[i] = f[i - 1] + s[i]

\* They exist, are natural numbers and obey their definition.
LEMMA SumsDefined ==
  ASSUME NEW s \in Seq(Nat)
  PROVE  AreSums(Sums(s), s) /\ Sum(s) = Sums(s)[Len(s)] /\ Sum(s) \in Nat
<1> DEFINE n == Len(s)
           Eq(f) == f = [i \in 0 .. n |-> IF i = 0 THEN 0 ELSE f[i - 1] + s[i]]
           step == [i \in 1 .. n |-> [v \in Nat |-> v + s[i]]]
<1>1. n \in Nat /\ \A i \in 1 .. n : s[i] \in Nat
  BY LenProperties
<1> HIDE DEF n
<1>2. step \in [1 .. n -> [Nat -> Nat]]
  BY <1>1
<1>3. PICK f : Iterates(f, n, Nat, 0, step)
  <2> HIDE DEF step
  <2>1. n \in Nat /\ 0 \in Nat
    BY <1>1
  <2> QED
    BY <1>2, <2>1, Iteration
<1>4. Eq(f) /\ f \in [0 .. n -> Nat]
  <2>1. f \in [0 .. n -> Nat] /\ f[0] = 0 /\ \A i \in 1 .. n : f[i] = step[i][f[i - 1]]
    BY <1>3 DEF Iterates
  <2>2. ASSUME NEW i \in 1 .. n PROVE f[i] = f[i - 1] + s[i]
    <3>1. i - 1 \in 0 .. n /\ f[i - 1] \in Nat
      BY <1>1, <2>1
    <3>2. step[i][f[i - 1]] = f[i - 1] + s[i]
      BY <3>1
    <3> QED
      BY <2>1, <3>2
  <2>3. \A i \in 0 .. n : f[i] = IF i = 0 THEN 0 ELSE f[i - 1] + s[i]
    BY <1>1, <2>1, <2>2
  <2> QED
    BY <2>1, <2>3
<1> DEFINE g == Sums(s)
<1>5. Eq(g)
  BY <1>4 DEF Sums, n
<1> HIDE DEF g
<1>6. g[0] = 0 /\ \A i \in 1 .. n : g[i] = g[i - 1] + s[i]
  BY <1>1, <1>5
<1> DEFINE T == {i \in 0 .. n : g[i] \in Nat}
<1>7. 0 \in T
  BY <1>1, <1>6
<1>8. ASSUME NEW i \in 0 .. n - 1, i \in T PROVE i + 1 \in T
  <2>1. i + 1 \in 1 .. n /\ (i + 1) - 1 = i /\ i + 1 \in 0 .. n
    BY <1>1
  <2>2. g[i + 1] = g[i] + s[i + 1] /\ g[i] \in Nat /\ s[i + 1] \in Nat
    BY <1>1, <1>6, <1>8, <2>1
  <2> QED
    BY <2>1, <2>2
<1>9. \A i \in 0 .. n : i \in T
  <2> HIDE DEF T
  <2> QED
    BY <1>1, <1>7, <1>8, Induction
<1>10. g \in [0 .. n -> Nat]
  BY <1>5, <1>9
<1>11. Sum(s) = g[n] /\ n \in 0 .. n
  BY <1>1 DEF Sum, Sums, g, n
<1> QED
  BY <1>6, <1>10, <1>11 DEF g, n, AreSums

\* Equal beginnings have equal partial sums.
LEMMA SumsPrefix ==
  ASSUME NEW s, NEW t, NEW f, NEW g, AreSums(f, s), AreSums(g, t), Len(s) \in Nat, Len(t) \in Nat,
         NEW n \in Nat, n <= Len(s), n <= Len(t), \A i \in 1 .. n : s[i] = t[i]
  PROVE  f[n] = g[n]
<1> DEFINE T == {i \in 0 .. n : f[i] = g[i]}
<1>1. 0 \in T
  BY DEF AreSums
<1>2. ASSUME NEW i \in 0 .. n - 1, i \in T PROVE i + 1 \in T
  <2>1. i + 1 \in 1 .. Len(s) /\ i + 1 \in 1 .. Len(t) /\ i + 1 \in 1 .. n /\ (i + 1) - 1 = i
    OBVIOUS
  <2>2. f[i + 1] = f[i] + s[i + 1] /\ g[i + 1] = g[i] + t[i + 1]
    BY <2>1 DEF AreSums
  <2> QED
    BY <1>2, <2>1, <2>2
<1>3. \A i \in 0 .. n : i \in T
  <2> HIDE DEF T
  <2> QED
    BY <1>1, <1>2, Induction
<1>4. n \in 0 .. n
  OBVIOUS
<1> QED
  BY <1>3, <1>4

\* One more summand.
LEMMA SumAppend ==
  ASSUME NEW s \in Seq(Nat), NEW t \in Seq(Nat), Len(t) = Len(s) + 1,
         \A i \in 1 .. Len(s) : t[i] = s[i]
  PROVE  Sum(t) = Sum(s) + t[Len(t)]
<1>0. /\ Len(s) \in Nat /\ Len(t) \in Nat /\ Len(s) <= Len(t) /\ Len(s) <= Len(s)
      /\ Len(t) \in 1 .. Len(t) /\ Len(t) - 1 = Len(s)
  BY LenProperties
<1> DEFINE f == Sums(s)
           g == Sums(t)
<1>1. AreSums(f, s) /\ AreSums(g, t) /\ Sum(s) = f[Len(s)] /\ Sum(t) = g[Len(t)]
  BY SumsDefined
<1> HIDE DEF f, g
<1>2. f[Len(s)] = g[Len(s)]
  BY <1>0, <1>1, SumsPrefix, SMTT(30)
<1>3. g[Len(t)] = g[Len(s)] + t[Len(t)]
  BY <1>0, <1>1 DEF AreSums
<1> QED
  BY <1>1, <1>2, <1>3

\* Larger summands, larger sums.
LEMMA SumMonotone ==
  ASSUME NEW s \in Seq(Nat), NEW t \in Seq(Nat), Len(s) = Len(t),
         \A i \in 1 .. Len(s) : s[i] <= t[i]
  PROVE  Sum(s) <= Sum(t)
<1> DEFINE n == Len(s)
           f == Sums(s)
           g == Sums(t)
           T == {i \in 0 .. n : f[i] <= g[i]}
<1>0. n \in Nat /\ \A i \in 1 .. n : s[i] \in Nat /\ t[i] \in Nat /\ s[i] <= t[i]
  BY LenProperties
<1>1. AreSums(f, s) /\ AreSums(g, t) /\ Sum(s) = f[n] /\ Sum(t) = g[n]
  BY SumsDefined
<1> HIDE DEF f, g
<1>2. /\ f \in [0 .. n -> Nat] /\ f[0] = 0 /\ \A i \in 1 .. n : f[i] = f[i - 1] + s[i]
      /\ g \in [0 .. n -> Nat] /\ g[0] = 0 /\ \A i \in 1 .. n : g[i] = g[i - 1] + t[i]
  BY <1>1 DEF AreSums
<1> HIDE DEF n
<1>3. 0 \in T
  BY <1>0, <1>2
<1>4. ASSUME NEW i \in 0 .. n - 1, i \in T PROVE i + 1 \in T
  <2>1. i + 1 \in 1 .. n /\ (i + 1) - 1 = i /\ i + 1 \in 0 .. n /\ i \in 0 .. n
    BY <1>0
  <2>2. f[i + 1] = f[i] + s[i + 1] /\ g[i + 1] = g[i] + t[i + 1] /\ f[i] \in Nat /\ g[i] \in Nat
    BY <1>2, <2>1
  <2>3. s[i + 1] \in Nat /\ t[i + 1] \in Nat /\ s[i + 1] <= t[i + 1] /\ f[i] <= g[i]
    BY <1>0, <1>4, <2>1
  <2> QED
    BY <2>1, <2>2, <2>3
<1>5. \A i \in 0 .. n : i \in T
  <2> HIDE DEF T
  <2> QED
    BY <1>0, <1>3, <1>4, Induction
<1>6. n \in 0 .. n
  BY <1>0
<1> QED
  BY <1>1, <1>5, <1>6

\* A sum of positive numbers is positive.
LEMMA SumPositive ==
  ASSUME NEW s \in Seq(Nat), Len(s) # 0, \A i \in 1 .. Len(s) : s[i] > 0
  PROVE  Sum(s) > 0
<1>1. Len(s) \in 1 .. Len(s) /\ Len(s) - 1 \in 0 .. Len(s) /\ s[Len(s)] \in Nat
  BY LenProperties
<1> DEFINE f == Sums(s)
<1>2. AreSums(f, s) /\ Sum(s) = f[Len(s)]
  BY SumsDefined
<1> HIDE DEF f
<1> QED
  BY <1>1, <1>2 DEF AreSums

-----------------------------------------------------------------------------
(* Concatenations.                                                         *)

\* The concatenations of the first members of ss.
AreFlats(f, ss, X) ==
  f \in [0 .. Len(ss) -> Seq(X)] /\ f[0] = << >> /\ \A i \in 1 .. Len(ss) : f[i] = f[i - 1] \o ss[i]

\* FlattenSeq is the last of them.
LEMMA FlattenDefined ==
  ASSUME NEW X, NEW ss \in Seq(Seq(X))
  PROVE  \E f : AreFlats(f, ss, X) /\ FlattenSeq(ss) = f[Len(ss)]
<1> DEFINE n == Len(ss)
           Eq(g) == g = [i \in 1 .. n |-> IF i = 1 THEN ss[i] ELSE g[i - 1] \o ss[i]]
           step == [i \in 1 .. n |-> [v \in Seq(X) |-> v \o ss[i]]]
<1>1. n \in Nat /\ \A i \in 1 .. n : ss[i] \in Seq(X)
  BY LenProperties
<1>2. FlattenSeq(ss) = IF n = 0 THEN ss ELSE (CHOOSE g : Eq(g))[n]
  BY DEF FlattenSeq
<1>3. n = 0 => ss = << >>
  BY EmptySeq
<1>4. << >> \in Seq(X)
  BY EmptySeq
<1>5. step \in [1 .. n -> [Seq(X) -> Seq(X)]]
  <2>1. ASSUME NEW i \in 1 .. n, NEW v \in Seq(X) PROVE v \o ss[i] \in Seq(X)
    BY <1>1, ConcatProperties
  <2> QED
    BY <2>1
<1>6. PICK f : Iterates(f, n, Seq(X), << >>, step)
  <2> HIDE DEF step, n
  <2> QED
    BY <1>1, <1>4, <1>5, Iteration
<1>7. /\ f \in [0 .. n -> Seq(X)] /\ f[0] = << >>
      /\ \A i \in 1 .. n : f[i] = f[i - 1] \o ss[i]
  <2>1. f \in [0 .. n -> Seq(X)] /\ f[0] = << >> /\ \A i \in 1 .. n : f[i] = step[i][f[i - 1]]
    BY <1>6 DEF Iterates
  <2>2. ASSUME NEW i \in 1 .. n PROVE f[i] = f[i - 1] \o ss[i]
    <3>0. i - 1 \in 0 .. n
      <4> HIDE DEF n
      <4> QED
        BY <1>1
    <3>1. f[i - 1] \in Seq(X)
      <4>1. f \in [0 .. n -> Seq(X)]
        BY <2>1
      <4> HIDE DEF n, step
      <4> QED
        BY <3>0, <4>1
    <3>2. step[i][f[i - 1]] = f[i - 1] \o ss[i]
      BY <3>1
    <3> QED
      BY <2>1, <3>2
  <2> QED
    BY <2>1, <2>2
<1>8. AreFlats(f, ss, X)
  BY <1>7 DEF AreFlats
<1>9. CASE n = 0
  BY <1>2, <1>3, <1>7, <1>8, <1>9
<1>10. CASE n # 0
  <2> DEFINE h == [i \in 1 .. n |-> f[i]]
             g == CHOOSE x : Eq(x)
  <2> HIDE DEF n
  <2>1. ASSUME NEW i \in 1 .. n PROVE h[i] = IF i = 1 THEN ss[i] ELSE h[i - 1] \o ss[i]
    <3>1. CASE i = 1
      <4>0. 1 \in 1 .. n /\ 1 - 1 = 0
        BY <3>1
      <4>1. f[1] = f[0] \o ss[1] /\ ss[1] \in Seq(X)
        BY <1>1, <1>7, <4>0
      <4>2. << >> \o ss[1] = ss[1]
        BY <4>1, ConcatEmptySeq
      <4> QED
        BY <1>7, <3>1, <4>1, <4>2
    <3>2. CASE i # 1
      <4>1. i - 1 \in 1 .. n /\ i - 1 \in 0 .. n
        BY <1>1, <3>2
      <4> QED
        BY <1>7, <3>2, <4>1
    <3> QED
      BY <3>1, <3>2
  <2>2. Eq(h)
    BY <2>1
  <2>3. Eq(g)
    BY <2>2
  <2> HIDE DEF g
  <2> DEFINE T == {i \in 0 .. n : i # 0 => g[i] = f[i]}
  <2>4. 0 \in T
    BY <1>1
  <2>5. ASSUME NEW i \in 0 .. n - 1, i \in T PROVE i + 1 \in T
    <3>1. i + 1 \in 1 .. n /\ (i + 1) - 1 = i /\ i + 1 \in 0 .. n
      BY <1>1
    <3>2. g[i + 1] = IF i + 1 = 1 THEN ss[i + 1] ELSE g[i] \o ss[i + 1]
      BY <2>3, <3>1
    <3>3. h[i + 1] = IF i + 1 = 1 THEN ss[i + 1] ELSE h[i] \o ss[i + 1]
      BY <2>1, <3>1
    <3>4. i # 0 => i \in 1 .. n /\ g[i] = f[i]
      BY <1>1, <2>5
    <3>5. g[i + 1] = f[i + 1]
      BY <3>1, <3>2, <3>3, <3>4
    <3> QED
      BY <3>1, <3>5
  <2>6. \A i \in 0 .. n : i \in T
    <3> HIDE DEF T
    <3> QED
      BY <1>1, <2>4, <2>5, Induction
  <2>7. n \in 0 .. n
    BY <1>1
  <2>8. g[n] = f[n]
    BY <1>10, <2>6, <2>7
  <2> QED
    BY <1>2, <1>8, <1>10, <2>8 DEF g, n
<1> QED
  BY <1>9, <1>10

\* A concatenation is a sequence over the same set.
LEMMA FlattenType ==
  ASSUME NEW X, NEW ss \in Seq(Seq(X))
  PROVE  FlattenSeq(ss) \in Seq(X)
<1>1. PICK f : AreFlats(f, ss, X) /\ FlattenSeq(ss) = f[Len(ss)]
  BY FlattenDefined
<1>2. Len(ss) \in 0 .. Len(ss)
  BY LenProperties
<1> QED
  BY <1>1, <1>2 DEF AreFlats

\* One more member.
LEMMA FlattenAppend ==
  ASSUME NEW X, NEW ss \in Seq(Seq(X)), NEW tt \in Seq(Seq(X)), Len(tt) = Len(ss) + 1,
         \A i \in 1 .. Len(ss) : tt[i] = ss[i]
  PROVE  FlattenSeq(tt) = FlattenSeq(ss) \o tt[Len(tt)]
<1> DEFINE n == Len(ss)
<1>0. n \in Nat /\ Len(tt) = n + 1
  BY LenProperties
<1>1. PICK f : AreFlats(f, ss, X) /\ FlattenSeq(ss) = f[n]
  BY FlattenDefined
<1>2. PICK g : AreFlats(g, tt, X) /\ FlattenSeq(tt) = g[n + 1]
  BY <1>0, FlattenDefined
<1>3. /\ f[0] = << >> /\ \A i \in 1 .. n : f[i] = f[i - 1] \o ss[i]
      /\ g[0] = << >> /\ \A i \in 1 .. n + 1 : g[i] = g[i - 1] \o tt[i]
  BY <1>0, <1>1, <1>2 DEF AreFlats
<1>3a. \A i \in 1 .. n : tt[i] = ss[i]
  OBVIOUS
<1> HIDE DEF n
<1> DEFINE T == {i \in 0 .. n : f[i] = g[i]}
<1>4. 0 \in T
  BY <1>0, <1>3
<1>5. ASSUME NEW i \in 0 .. n - 1, i \in T PROVE i + 1 \in T
  <2>1. i + 1 \in 1 .. n /\ i + 1 \in 1 .. n + 1 /\ (i + 1) - 1 = i /\ i + 1 \in 0 .. n
    BY <1>0, SMTT(30)
  <2>2. f[i + 1] = f[i] \o ss[i + 1] /\ g[i + 1] = g[i] \o tt[i + 1] /\ tt[i + 1] = ss[i + 1]
    BY <1>3, <1>3a, <2>1
  <2> QED
    BY <1>5, <2>1, <2>2
<1>6. \A i \in 0 .. n : i \in T
  <2> HIDE DEF T
  <2> QED
    BY <1>0, <1>4, <1>5, Induction
<1>7. n \in 0 .. n /\ n + 1 \in 1 .. n + 1 /\ (n + 1) - 1 = n
  BY <1>0
<1>8. g[n + 1] = g[n] \o tt[n + 1] /\ f[n] = g[n]
  BY <1>3, <1>6, <1>7
<1> QED
  BY <1>0, <1>1, <1>2, <1>8

\* Their lengths: L[i] is where member i ends.
AreLengths(L, ss) ==
  L \in [0 .. Len(ss) -> Nat] /\ L[0] = 0 /\ \A i \in 1 .. Len(ss) : L[i] = L[i - 1] + Len(ss[i])

\* The concatenation s has the first m members of ss at those places.
Placed(s, ss, L, m) ==
  /\ Len(s) = L[m]
  /\ \A i \in 1 .. m : L[i] <= L[m] /\ \A j \in 1 .. Len(ss[i]) : s[L[i - 1] + j] = ss[i][j]

\* Member i starts after the lengths of those before it.
LEMMA FlattenPositions ==
  ASSUME NEW X, NEW ss \in Seq(Seq(X)), NEW f, AreFlats(f, ss, X), NEW L, AreLengths(L, ss)
  PROVE  \A m \in 0 .. Len(ss) : Placed(f[m], ss, L, m)
<1> DEFINE n == Len(ss)
           P(m) == Placed(f[m], ss, L, m)
           T == {m \in 0 .. n : P(m)}
<1>0. n \in Nat /\ \A i \in 1 .. n : ss[i] \in Seq(X) /\ Len(ss[i]) \in Nat
  BY LenProperties
<1>1. f \in [0 .. n -> Seq(X)] /\ f[0] = << >> /\ \A i \in 1 .. n : f[i] = f[i - 1] \o ss[i]
  BY DEF AreFlats
<1>1a. L \in [0 .. n -> Nat] /\ L[0] = 0 /\ \A i \in 1 .. n : L[i] = L[i - 1] + Len(ss[i])
  BY DEF AreLengths
<1> HIDE DEF n
<1>2. 0 \in T
  <2>1. Len(<< >>) = 0
    BY EmptySeq
  <2> QED
    BY <1>0, <1>1, <1>1a, <2>1 DEF Placed
<1>3. ASSUME NEW m \in 0 .. n - 1, m \in T PROVE m + 1 \in T
  <2>1. m + 1 \in 1 .. n /\ (m + 1) - 1 = m /\ m + 1 \in 0 .. n /\ m \in 0 .. n
    BY <1>0
  <2> DEFINE s == f[m]
             t == ss[m + 1]
             u == f[m + 1]
  <2>2. s \in Seq(X) /\ t \in Seq(X) /\ u = s \o t /\ Len(s) = L[m] /\ L[m] \in Nat /\ Len(t) \in Nat
    BY <1>0, <1>1, <1>1a, <1>3, <2>1 DEF Placed
  <2>3. L[m + 1] = L[m] + Len(t)
    BY <1>1a, <2>1
  <2>4. /\ Len(u) = Len(s) + Len(t)
        /\ \A k \in 1 .. Len(s) + Len(t) : u[k] = IF k <= Len(s) THEN s[k] ELSE t[k - Len(s)]
    <3> HIDE DEF s, t, u
    <3> QED
      BY <2>2, ConcatProperties
  <2>5. ASSUME NEW i \in 1 .. m + 1
        PROVE  L[i] <= L[m + 1] /\ \A j \in 1 .. Len(ss[i]) : u[L[i - 1] + j] = ss[i][j]
    <3>1. CASE i = m + 1
      <4>1. L[i] <= L[m + 1]
        <5>1. L[m + 1] \in Nat
          BY <1>1a, <2>1
        <5> QED
          BY <3>1, <5>1
      <4>2. ASSUME NEW j \in 1 .. Len(ss[i]) PROVE u[L[i - 1] + j] = ss[i][j]
        <5>1. L[i - 1] = Len(s) /\ Len(ss[i]) = Len(t)
          BY <2>1, <2>2, <3>1
        <5> HIDE DEF s, t, u
        <5>2. Len(s) + j \in 1 .. Len(s) + Len(t) /\ ~(Len(s) + j <= Len(s)) /\ (Len(s) + j) - Len(s) = j
          <6>1. Len(s) \in Nat /\ Len(t) \in Nat /\ j \in 1 .. Len(t)
            BY <2>2, <5>1
          <6> QED
            BY <6>1
        <5>3. ss[i] = t
          BY <3>1 DEF t
        <5> QED
          BY <2>4, <5>1, <5>2, <5>3
      <4> QED
        BY <4>1, <4>2
    <3>2. CASE i # m + 1
      <4>1. i \in 1 .. m /\ i \in 1 .. n /\ i \in 0 .. n /\ i - 1 \in 0 .. n
        BY <1>0, <2>1, <3>2
      <4>2. L[i] <= L[m] /\ \A j \in 1 .. Len(ss[i]) : s[L[i - 1] + j] = ss[i][j]
        BY <1>3, <4>1 DEF Placed
      <4>3. L[i] \in Nat /\ L[i - 1] \in Nat /\ L[i] = L[i - 1] + Len(ss[i]) /\ Len(ss[i]) \in Nat
        BY <1>0, <1>1a, <4>1
      <4>4. ASSUME NEW j \in 1 .. Len(ss[i]) PROVE u[L[i - 1] + j] = ss[i][j]
        <5>0. L[i - 1] + j <= L[i] /\ L[i - 1] + j \in Nat \ {0}
          BY <4>3
        <5>1. L[i - 1] + j \in 1 .. Len(s) + Len(t) /\ L[i - 1] + j <= Len(s)
          <6> HIDE DEF s, t, u
          <6>1. L[i] <= L[m]
            BY <4>2
          <6>2. Len(s) = L[m] /\ L[m] \in Nat /\ Len(t) \in Nat /\ L[i] \in Nat
            BY <2>2, <4>3
          <6>3. ASSUME NEW k \in Nat \ {0}, k <= L[i] PROVE k \in 1 .. Len(s) + Len(t) /\ k <= Len(s)
            BY <6>1, <6>2, <6>3
          <6> QED
            BY <5>0, <6>3
        <5>2. u[L[i - 1] + j] = s[L[i - 1] + j]
          <6> HIDE DEF s, u
          <6> QED
            BY <2>4, <5>1
        <5> QED
          BY <4>2, <5>2
      <4>5. L[i] <= L[m + 1]
        <5> HIDE DEF s, t, u
        <5>1. L[i] <= L[m]
          BY <4>2
        <5> QED
          BY <2>2, <2>3, <4>3, <5>1
      <4> QED
        BY <4>4, <4>5
    <3> QED
      BY <3>1, <3>2
  <2>6. P(m + 1)
    BY <2>2, <2>3, <2>4, <2>5 DEF Placed
  <2> HIDE DEF P
  <2> QED
    BY <2>1, <2>6
<1>4. \A m \in 0 .. n : m \in T
  <2> HIDE DEF T
  <2> QED
    BY <1>0, <1>2, <1>3, Induction
<1> QED
  BY <1>4 DEF n

\* So the length of a concatenation is the sum of the lengths.
LEMMA FlattenLength ==
  ASSUME NEW X, NEW ss \in Seq(Seq(X)), NEW lens \in Seq(Nat), Len(lens) = Len(ss),
         \A i \in 1 .. Len(ss) : Len(ss[i]) = lens[i]
  PROVE  Len(FlattenSeq(ss)) = Sum(lens)
<1> DEFINE L == Sums(lens)
<1>1. AreSums(L, lens) /\ Sum(lens) = L[Len(lens)]
  BY SumsDefined
<1> HIDE DEF L
<1>2. AreLengths(L, ss)
  BY <1>1 DEF AreSums, AreLengths
<1>3. PICK f : AreFlats(f, ss, X) /\ FlattenSeq(ss) = f[Len(ss)]
  BY FlattenDefined
<1>4. Len(ss) \in 0 .. Len(ss)
  BY LenProperties
<1>5. Placed(f[Len(ss)], ss, L, Len(ss))
  BY <1>2, <1>3, <1>4, FlattenPositions
<1> QED
  BY <1>1, <1>3, <1>5 DEF Placed

\* Where the members of ss begin in their concatenation.
Offsets(ss) == Sums([i \in DOMAIN ss |-> Len(ss[i])])

\* The members are found at their offsets.
LEMMA FlattenPlaced ==
  ASSUME NEW X, NEW ss \in Seq(Seq(X))
  PROVE  /\ AreLengths(Offsets(ss), ss) /\ Placed(FlattenSeq(ss), ss, Offsets(ss), Len(ss))
         /\ FlattenSeq(ss) \in Seq(X)
<1> DEFINE lens == [i \in DOMAIN ss |-> Len(ss[i])]
           L == Sums(lens)
<1>1. Len(ss) \in Nat /\ DOMAIN ss = 1 .. Len(ss) /\ \A i \in 1 .. Len(ss) : Len(ss[i]) \in Nat
  BY LenProperties
<1>2. lens \in [1 .. Len(ss) -> Nat]
  BY <1>1
<1>3. lens \in Seq(Nat) /\ Len(lens) = Len(ss)
  BY <1>1, <1>2, FunctionIsSequence
<1>4. AreSums(L, lens)
  <2> HIDE DEF lens
  <2> QED
    BY <1>3, SumsDefined
<1>5. \A i \in 1 .. Len(ss) : lens[i] = Len(ss[i])
  BY <1>1
<1>6. AreLengths(L, ss)
  <2> HIDE DEF lens, L
  <2> QED
    BY <1>3, <1>4, <1>5 DEF AreSums, AreLengths
<1>7. PICK f : AreFlats(f, ss, X) /\ FlattenSeq(ss) = f[Len(ss)]
  BY FlattenDefined
<1>8. Len(ss) \in 0 .. Len(ss)
  BY <1>1
<1>9. Placed(f[Len(ss)], ss, L, Len(ss))
  <2> HIDE DEF L
  <2> QED
    BY <1>6, <1>7, <1>8, FlattenPositions
<1>10. L = Offsets(ss)
  BY DEF Offsets
<1> HIDE DEF L
<1> QED
  BY <1>6, <1>7, <1>9, <1>10, FlattenType

\* An offset is the sum of the lengths before it.
LEMMA OffsetIsSum ==
  ASSUME NEW X, NEW ss \in Seq(Seq(X)), NEW m \in 0 .. Len(ss)
  PROVE  Sum([i \in 1 .. m |-> Len(ss[i])]) = Offsets(ss)[m]
<1> DEFINE lens == [i \in DOMAIN ss |-> Len(ss[i])]
           less == [i \in 1 .. m |-> Len(ss[i])]
<1>1. Len(ss) \in Nat /\ DOMAIN ss = 1 .. Len(ss) /\ \A i \in 1 .. Len(ss) : Len(ss[i]) \in Nat
  BY LenProperties
<1>2. m \in Nat /\ m <= Len(ss) /\ lens \in [1 .. Len(ss) -> Nat] /\ less \in [1 .. m -> Nat]
  BY <1>1
<1>3. lens \in Seq(Nat) /\ Len(lens) = Len(ss) /\ less \in Seq(Nat) /\ Len(less) = m
  BY <1>1, <1>2, FunctionIsSequence
<1>4. \A i \in 1 .. m : less[i] = lens[i]
  BY <1>1, <1>2
<1>5. AreSums(Sums(lens), lens) /\ AreSums(Sums(less), less) /\ Sum(less) = Sums(less)[m]
  <2> HIDE DEF lens, less
  <2> QED
    BY <1>3, SumsDefined
<1>6. Sums(less)[m] = Sums(lens)[m]
  <2> DEFINE f == Sums(less)
             g == Sums(lens)
  <2>1. AreSums(f, less) /\ AreSums(g, lens) /\ Len(less) \in Nat /\ Len(lens) \in Nat
    BY <1>1, <1>2, <1>3, <1>5
  <2>2. m \in Nat /\ m <= Len(less) /\ m <= Len(lens) /\ \A i \in 1 .. m : less[i] = lens[i]
    BY <1>2, <1>3, <1>4
  <2>3. f[m] = g[m]
    <3> HIDE DEF lens, less, f, g
    <3> QED
      BY <2>1, <2>2, SumsPrefix
  <2> QED
    BY <2>3
<1> QED
  BY <1>5, <1>6 DEF Offsets

-----------------------------------------------------------------------------
(* Concatenations of images and of parts.                                  *)

\* The concatenations of the first members are what their equations say.
LEMMA FlattenIs ==
  ASSUME NEW X, NEW ss \in Seq(Seq(X)), NEW f, AreFlats(f, ss, X)
  PROVE  FlattenSeq(ss) = f[Len(ss)]
<1> DEFINE n == Len(ss)
<1>0. n \in Nat
  BY LenProperties
<1>1. PICK g : AreFlats(g, ss, X) /\ FlattenSeq(ss) = g[Len(ss)]
  BY FlattenDefined
<1>2. /\ f[0] = << >> /\ \A i \in 1 .. n : f[i] = f[i - 1] \o ss[i]
      /\ g[0] = << >> /\ \A i \in 1 .. n : g[i] = g[i - 1] \o ss[i]
  BY <1>1 DEF AreFlats
<1> HIDE DEF n
<1> DEFINE T == {i \in 0 .. n : f[i] = g[i]}
<1>3. 0 \in T
  BY <1>0, <1>2
<1>4. ASSUME NEW i \in 0 .. n - 1, i \in T PROVE i + 1 \in T
  <2>1. i + 1 \in 1 .. n /\ (i + 1) - 1 = i /\ i + 1 \in 0 .. n
    BY <1>0
  <2>2. f[i + 1] = f[i] \o ss[i + 1] /\ g[i + 1] = g[i] \o ss[i + 1] /\ f[i] = g[i]
    BY <1>2, <1>4, <2>1
  <2> QED
    BY <2>1, <2>2
<1>5. \A i \in 0 .. n : i \in T
  <2> HIDE DEF T
  <2> QED
    BY <1>0, <1>3, <1>4, Induction
<1>6. n \in 0 .. n
  BY <1>0
<1> QED
  BY <1>1, <1>5, <1>6 DEF n

\* A function of sequences that respects the empty one and concatenation.
Homomorphism(h, X, Y) ==
  h \in [Seq(X) -> Seq(Y)] /\ h[<< >>] = << >> /\ \A s, t \in Seq(X) : h[s \o t] = h[s] \o h[t]

\* It may be applied before or after concatenating.
LEMMA FlattenHomomorphism ==
  ASSUME NEW X, NEW Y, NEW h, Homomorphism(h, X, Y), NEW ss \in Seq(Seq(X)),
         NEW tt \in Seq(Seq(Y)), Len(tt) = Len(ss), \A i \in 1 .. Len(ss) : tt[i] = h[ss[i]]
  PROVE  h[FlattenSeq(ss)] = FlattenSeq(tt)
<1> DEFINE n == Len(ss)
<1>0. n \in Nat /\ \A i \in 1 .. n : ss[i] \in Seq(X) /\ tt[i] = h[ss[i]]
  BY LenProperties
<1>1. PICK f : AreFlats(f, ss, X) /\ FlattenSeq(ss) = f[Len(ss)]
  BY FlattenDefined
<1>2. f \in [0 .. n -> Seq(X)] /\ f[0] = << >> /\ \A i \in 1 .. n : f[i] = f[i - 1] \o ss[i]
  BY <1>1 DEF AreFlats
<1>3. h \in [Seq(X) -> Seq(Y)] /\ h[<< >>] = << >> /\ \A s, t \in Seq(X) : h[s \o t] = h[s] \o h[t]
  BY DEF Homomorphism
<1> DEFINE g == [i \in 0 .. n |-> h[f[i]]]
<1>4. AreFlats(g, tt, Y)
  <2>0. Len(tt) = n
    OBVIOUS
  <2> HIDE DEF n
  <2>1. g \in [0 .. n -> Seq(Y)] /\ g[0] = << >>
    BY <1>0, <1>2, <1>3
  <2>2. ASSUME NEW i \in 1 .. n PROVE g[i] = g[i - 1] \o tt[i]
    <3>1. i \in 0 .. n /\ i - 1 \in 0 .. n
      BY <1>0
    <3>2. f[i - 1] \in Seq(X) /\ ss[i] \in Seq(X) /\ f[i] = f[i - 1] \o ss[i] /\ tt[i] = h[ss[i]]
      BY <1>0, <1>2, <3>1
    <3>3. h[f[i]] = h[f[i - 1]] \o h[ss[i]]
      BY <1>3, <3>2
    <3> QED
      BY <3>1, <3>2, <3>3
  <2> HIDE DEF g
  <2> QED
    BY <2>0, <2>1, <2>2 DEF AreFlats
<1>5. g[n] = h[f[n]]
  BY <1>0
<1> HIDE DEF g
<1>6. FlattenSeq(tt) = g[Len(tt)]
  BY <1>4, FlattenIs
<1> QED
  BY <1>1, <1>5, <1>6

\* Concatenating the members of two sequences is concatenating the two concatenations.
LEMMA FlattenConcat ==
  ASSUME NEW X, NEW ss \in Seq(Seq(X)), NEW tt \in Seq(Seq(X))
  PROVE  FlattenSeq(ss \o tt) = FlattenSeq(ss) \o FlattenSeq(tt)
<1> DEFINE m == Len(ss)
           n == Len(tt)
           uu == ss \o tt
<1>0. m \in Nat /\ n \in Nat /\ \A i \in 1 .. n : tt[i] \in Seq(X)
  BY LenProperties
<1>1. /\ uu \in Seq(Seq(X)) /\ Len(uu) = m + n
      /\ \A i \in 1 .. m + n : uu[i] = IF i <= m THEN ss[i] ELSE tt[i - m]
  BY ConcatProperties
<1> HIDE DEF uu
<1>2. PICK f : AreFlats(f, ss, X) /\ FlattenSeq(ss) = f[m]
  BY FlattenDefined
<1>3. PICK g : AreFlats(g, tt, X) /\ FlattenSeq(tt) = g[n]
  BY FlattenDefined
<1>4. /\ f \in [0 .. m -> Seq(X)] /\ f[0] = << >> /\ \A i \in 1 .. m : f[i] = f[i - 1] \o ss[i]
      /\ g \in [0 .. n -> Seq(X)] /\ g[0] = << >> /\ \A i \in 1 .. n : g[i] = g[i - 1] \o tt[i]
  BY <1>2, <1>3 DEF AreFlats
<1> HIDE DEF m, n
<1> DEFINE k == [i \in 0 .. m + n |-> IF i <= m THEN f[i] ELSE f[m] \o g[i - m]]
<1>5. f[m] \in Seq(X) /\ f[m] \o << >> = f[m]
  <2>1. f[m] \in Seq(X)
    BY <1>0, <1>4
  <2> QED
    BY <2>1, ConcatEmptySeq
<1>6. ASSUME NEW i \in 0 .. m + n PROVE k[i] \in Seq(X)
  <2>1. CASE i <= m
    BY <1>0, <1>4, <2>1
  <2>2. CASE ~(i <= m)
    <3>1. i - m \in 0 .. n
      BY <1>0, <2>2
    <3>2. g[i - m] \in Seq(X)
      BY <1>4, <3>1
    <3>3. f[m] \o g[i - m] \in Seq(X)
      BY <1>5, <3>2, ConcatProperties
    <3> QED
      BY <2>2, <3>3
  <2> QED
    BY <2>1, <2>2
<1>7. ASSUME NEW i \in 1 .. m + n PROVE k[i] = k[i - 1] \o uu[i]
  <2>0. i \in 0 .. m + n /\ i - 1 \in 0 .. m + n
    BY <1>0
  <2>1. CASE i <= m
    <3>1. i \in 1 .. m /\ i - 1 <= m /\ i - 1 \in 0 .. m
      BY <1>0, <2>1
    <3>2. k[i] = f[i] /\ k[i - 1] = f[i - 1] /\ uu[i] = ss[i]
      BY <1>1, <2>0, <2>1, <3>1
    <3> QED
      BY <1>4, <3>1, <3>2
  <2>2. CASE ~(i <= m)
    <3> DEFINE j == i - m
    <3>1. j \in 1 .. n /\ j - 1 \in 0 .. n /\ (i - 1) - m = j - 1
      BY <1>0, <2>2
    <3>2. uu[i] = tt[j] /\ k[i] = f[m] \o g[j]
      BY <1>1, <2>0, <2>2
    <3>3. k[i - 1] = f[m] \o g[j - 1]
      <4>1. CASE i - 1 <= m
        <5>1. i - 1 = m /\ j - 1 = 0
          BY <1>0, <2>2, <4>1
        <5> QED
          BY <1>4, <1>5, <2>0, <4>1, <5>1
      <4>2. CASE ~(i - 1 <= m)
        BY <2>0, <3>1, <4>2
      <4> QED
        BY <4>1, <4>2
    <3> HIDE DEF k, j
    <3>4. g[j] = g[j - 1] \o tt[j] /\ g[j - 1] \in Seq(X) /\ tt[j] \in Seq(X)
      BY <1>0, <1>4, <3>1
    <3>5. (f[m] \o g[j - 1]) \o tt[j] = f[m] \o (g[j - 1] \o tt[j])
      <4>1. ASSUME NEW x \in Seq(X), NEW y \in Seq(X), NEW z \in Seq(X) PROVE (x \o y) \o z = x \o (y \o z)
        BY ConcatAssociative, SMTT(30)
      <4> QED
        BY <1>5, <3>4, <4>1
    <3> QED
      BY <3>2, <3>3, <3>4, <3>5
  <2> QED
    BY <2>1, <2>2
<1>8. k[0] = << >> /\ k \in [0 .. m + n -> Seq(X)]
  <2>1. 0 \in 0 .. m + n /\ 0 <= m
    BY <1>0
  <2>2. k[0] = << >>
    BY <1>4, <2>1
  <2> QED
    BY <1>6, <2>2
<1>9. k[m + n] = f[m] \o g[n]
  <2>1. m + n \in 0 .. m + n /\ (m + n) - m = n /\ (m + n <= m => n = 0 /\ m + n = m)
    BY <1>0
  <2>2. CASE m + n <= m
    BY <1>4, <1>5, <2>1, <2>2
  <2>3. CASE ~(m + n <= m)
    BY <2>1, <2>3
  <2> QED
    BY <2>2, <2>3
<1> HIDE DEF k
<1>10. AreFlats(k, uu, X)
  BY <1>1, <1>7, <1>8 DEF AreFlats
<1>11. FlattenSeq(uu) = k[m + n]
  BY <1>1, <1>10, FlattenIs
<1> QED
  BY <1>2, <1>3, <1>9, <1>11 DEF uu

\* A function applied to every member.
Maps(G, X, Y) == G \in [X -> Y]
Image(G, s) == [k \in DOMAIN s |-> G[s[k]]]

LEMMA ImageProperties ==
  ASSUME NEW X, NEW Y, NEW G, Maps(G, X, Y), NEW s \in Seq(X)
  PROVE  Image(G, s) \in Seq(Y) /\ Len(Image(G, s)) = Len(s) /\ \A k \in 1 .. Len(s) : Image(G, s)[k] = G[s[k]]
<1>1. Len(s) \in Nat /\ DOMAIN s = 1 .. Len(s) /\ \A k \in 1 .. Len(s) : s[k] \in X
  BY LenProperties
<1>2. Image(G, s) \in [1 .. Len(s) -> Y] /\ \A k \in 1 .. Len(s) : Image(G, s)[k] = G[s[k]]
  BY <1>1 DEF Image, Maps
<1> QED
  BY <1>1, <1>2, FunctionIsSequence

LEMMA ImageConcat ==
  ASSUME NEW X, NEW Y, NEW G, Maps(G, X, Y), NEW s \in Seq(X), NEW t \in Seq(X)
  PROVE  Image(G, s \o t) = Image(G, s) \o Image(G, t)
<1> DEFINE u == s \o t
           a == Image(G, s)
           b == Image(G, t)
           c == Image(G, u)
<1>1. /\ u \in Seq(X) /\ Len(u) = Len(s) + Len(t)
      /\ \A i \in 1 .. Len(s) + Len(t) : u[i] = IF i <= Len(s) THEN s[i] ELSE t[i - Len(s)]
  BY ConcatProperties
<1> HIDE DEF u
<1>2. /\ a \in Seq(Y) /\ Len(a) = Len(s) /\ \A k \in 1 .. Len(s) : a[k] = G[s[k]]
      /\ b \in Seq(Y) /\ Len(b) = Len(t) /\ \A k \in 1 .. Len(t) : b[k] = G[t[k]]
      /\ c \in Seq(Y) /\ Len(c) = Len(u) /\ \A k \in 1 .. Len(u) : c[k] = G[u[k]]
  <2>1. a \in Seq(Y) /\ Len(a) = Len(s) /\ \A k \in 1 .. Len(s) : a[k] = G[s[k]]
    BY ImageProperties
  <2>2. b \in Seq(Y) /\ Len(b) = Len(t) /\ \A k \in 1 .. Len(t) : b[k] = G[t[k]]
    BY ImageProperties
  <2>3. u \in Seq(X)
    BY <1>1
  <2>4. c \in Seq(Y) /\ Len(c) = Len(u) /\ \A k \in 1 .. Len(u) : c[k] = G[u[k]]
    BY <2>3, ImageProperties
  <2> QED
    BY <2>1, <2>2, <2>4
<1>3. Len(s) \in Nat /\ Len(t) \in Nat
  BY LenProperties
<1> HIDE DEF a, b, c
<1>4. /\ a \o b \in Seq(Y) /\ Len(a \o b) = Len(s) + Len(t)
      /\ \A i \in 1 .. Len(s) + Len(t) : (a \o b)[i] = IF i <= Len(s) THEN a[i] ELSE b[i - Len(s)]
  <2>1. a \in Seq(Y) /\ b \in Seq(Y)
    BY <1>2
  <2>2. /\ a \o b \in Seq(Y) /\ Len(a \o b) = Len(a) + Len(b)
        /\ \A i \in 1 .. Len(a) + Len(b) : (a \o b)[i] = IF i <= Len(a) THEN a[i] ELSE b[i - Len(a)]
    BY <2>1, ConcatProperties
  <2> QED
    BY <1>2, <2>2
<1>5. ASSUME NEW i \in 1 .. Len(c) PROVE c[i] = (a \o b)[i]
  <2>1. i \in 1 .. Len(s) + Len(t) /\ c[i] = G[u[i]]
    BY <1>1, <1>2
  <2>2. CASE i <= Len(s)
    <3>1. i \in 1 .. Len(s)
      BY <1>3, <2>1, <2>2
    <3> QED
      BY <1>1, <1>2, <1>4, <2>1, <2>2, <3>1
  <2>3. CASE ~(i <= Len(s))
    <3>1. i - Len(s) \in 1 .. Len(t)
      BY <1>3, <2>1, <2>3
    <3> QED
      BY <1>1, <1>2, <1>4, <2>1, <2>3, <3>1
  <2> QED
    BY <2>2, <2>3
<1>6. c = a \o b
  <2> DEFINE d == a \o b
  <2>1. c \in Seq(Y) /\ d \in Seq(Y) /\ Len(c) = Len(d) /\ \A i \in 1 .. Len(c) : c[i] = d[i]
    BY <1>1, <1>2, <1>4, <1>5
  <2> HIDE DEF d
  <2>2. c = d
    BY <2>1, SeqEqual
  <2> QED
    BY <2>2 DEF d
<1> QED
  BY <1>6 DEF a, b, c, u

LEMMA ImageOfEmpty ==
  ASSUME NEW G
  PROVE  Image(G, << >>) = << >>
<1> DEFINE G0 == [x \in {} |-> x]
<1>1. Len(<< >>) = 0 /\ DOMAIN << >> = 1 .. 0
  BY EmptySeq
<1>2. Image(G, << >>) \in [1 .. 0 -> {}]
  BY <1>1 DEF Image
<1>3. Image(G, << >>) \in Seq({}) /\ Len(Image(G, << >>)) = 0
  BY <1>2, FunctionIsSequence
<1> QED
  BY <1>3, EmptySeq

LEMMA FlattenOfEmpty == FlattenSeq(<< >>) = << >>
<1>1. << >> \in Seq(Seq({})) /\ Len(<< >>) = 0
  BY EmptySeq
<1>2. PICK f : AreFlats(f, << >>, {}) /\ FlattenSeq(<< >>) = f[Len(<< >>)]
  BY <1>1, FlattenDefined
<1> QED
  BY <1>1, <1>2 DEF AreFlats

\* Applying a function to every member respects concatenation.
LEMMA ImageHomomorphism ==
  ASSUME NEW X, NEW Y, NEW G, Maps(G, X, Y)
  PROVE  Homomorphism([s \in Seq(X) |-> Image(G, s)], X, Y)
<1> DEFINE h == [s \in Seq(X) |-> Image(G, s)]
<1>1. h \in [Seq(X) -> Seq(Y)]
  BY ImageProperties
<1>2. << >> \in Seq(X)
  BY EmptySeq
<1>3. h[<< >>] = << >>
  BY <1>2, ImageOfEmpty
<1>4. ASSUME NEW s \in Seq(X), NEW t \in Seq(X) PROVE h[s \o t] = h[s] \o h[t]
  <2>1. s \o t \in Seq(X)
    BY ConcatProperties
  <2>2. h[s \o t] = Image(G, s \o t)
    BY <2>1
  <2> QED
    BY <2>2, ImageConcat
<1> HIDE DEF h
<1>5. Homomorphism(h, X, Y)
  BY <1>1, <1>3, <1>4 DEF Homomorphism
<1> QED
  BY <1>5 DEF h

\* So does concatenating the images.
LEMMA FlatImageHomomorphism ==
  ASSUME NEW X, NEW Y, NEW G, Maps(G, X, Seq(Y))
  PROVE  Homomorphism([s \in Seq(X) |-> FlattenSeq(Image(G, s))], X, Y)
<1> DEFINE h == [s \in Seq(X) |-> FlattenSeq(Image(G, s))]
<1>0. \A s \in Seq(X) : Image(G, s) \in Seq(Seq(Y))
  BY ImageProperties
<1>1. h \in [Seq(X) -> Seq(Y)]
  BY <1>0, FlattenType
<1>2. << >> \in Seq(X)
  BY EmptySeq
<1>3. h[<< >>] = << >>
  BY <1>2, ImageOfEmpty, FlattenOfEmpty
<1>4. ASSUME NEW s \in Seq(X), NEW t \in Seq(X) PROVE h[s \o t] = h[s] \o h[t]
  <2>1. s \o t \in Seq(X)
    BY ConcatProperties
  <2>2. h[s \o t] = FlattenSeq(Image(G, s \o t))
    BY <2>1
  <2>3. Image(G, s \o t) = Image(G, s) \o Image(G, t)
    BY ImageConcat
  <2>4. FlattenSeq(Image(G, s) \o Image(G, t)) = FlattenSeq(Image(G, s)) \o FlattenSeq(Image(G, t))
    BY <1>0, FlattenConcat
  <2> QED
    BY <2>2, <2>3, <2>4
<1> HIDE DEF h
<1>5. Homomorphism(h, X, Y)
  BY <1>1, <1>3, <1>4 DEF Homomorphism
<1> QED
  BY <1>5 DEF h

\* The members of s whose number, counted from off, is in K.
Options(s, K, off) == [n \in DOMAIN s |-> IF off + n \in K THEN <<s[n]>> ELSE << >>]
Picked(s, K, off)  == FlattenSeq(Options(s, K, off))

LEMMA OptionsProperties ==
  ASSUME NEW X, NEW s \in Seq(X), NEW K, NEW off
  PROVE  /\ Options(s, K, off) \in Seq(Seq(X)) /\ Len(Options(s, K, off)) = Len(s)
         /\ \A n \in 1 .. Len(s) : Options(s, K, off)[n] = IF off + n \in K THEN <<s[n]>> ELSE << >>
<1>1. Len(s) \in Nat /\ DOMAIN s = 1 .. Len(s) /\ \A k \in 1 .. Len(s) : s[k] \in X
  BY LenProperties
<1>2. \A x \in X : <<x>> \in Seq(X)
  OBVIOUS
<1>3. << >> \in Seq(X)
  BY EmptySeq
<1>4. /\ Options(s, K, off) \in [1 .. Len(s) -> Seq(X)]
      /\ \A n \in 1 .. Len(s) : Options(s, K, off)[n] = IF off + n \in K THEN <<s[n]>> ELSE << >>
  BY <1>1, <1>2, <1>3 DEF Options
<1> QED
  BY <1>1, <1>4, FunctionIsSequence

LEMMA PickedConcat ==
  ASSUME NEW X, NEW s \in Seq(X), NEW t \in Seq(X), NEW K, NEW off \in Nat
  PROVE  Picked(s \o t, K, off) = Picked(s, K, off) \o Picked(t, K, off + Len(s))
<1> DEFINE u == s \o t
           a == Options(s, K, off)
           b == Options(t, K, off + Len(s))
           c == Options(u, K, off)
<1>1. /\ u \in Seq(X) /\ Len(u) = Len(s) + Len(t)
      /\ \A i \in 1 .. Len(s) + Len(t) : u[i] = IF i <= Len(s) THEN s[i] ELSE t[i - Len(s)]
  BY ConcatProperties
<1> HIDE DEF u
<1>2. /\ a \in Seq(Seq(X)) /\ Len(a) = Len(s) /\ \A k \in 1 .. Len(s) : a[k] = IF off + k \in K THEN <<s[k]>> ELSE << >>
      /\ b \in Seq(Seq(X)) /\ Len(b) = Len(t)
      /\ \A k \in 1 .. Len(t) : b[k] = IF (off + Len(s)) + k \in K THEN <<t[k]>> ELSE << >>
      /\ c \in Seq(Seq(X)) /\ Len(c) = Len(u) /\ \A k \in 1 .. Len(u) : c[k] = IF off + k \in K THEN <<u[k]>> ELSE << >>
  <2>1. a \in Seq(Seq(X)) /\ Len(a) = Len(s) /\ \A k \in 1 .. Len(s) : a[k] = IF off + k \in K THEN <<s[k]>> ELSE << >>
    BY OptionsProperties
  <2>2. /\ b \in Seq(Seq(X)) /\ Len(b) = Len(t)
        /\ \A k \in 1 .. Len(t) : b[k] = IF (off + Len(s)) + k \in K THEN <<t[k]>> ELSE << >>
    <3>1. ASSUME NEW o \in Nat
          PROVE  /\ Options(t, K, o) \in Seq(Seq(X)) /\ Len(Options(t, K, o)) = Len(t)
                 /\ \A k \in 1 .. Len(t) : Options(t, K, o)[k] = IF o + k \in K THEN <<t[k]>> ELSE << >>
      BY OptionsProperties
    <3> DEFINE o == off + Len(s)
    <3>3. o \in Nat
      BY LenProperties
    <3> HIDE DEF o
    <3>2. /\ Options(t, K, o) \in Seq(Seq(X)) /\ Len(Options(t, K, o)) = Len(t)
          /\ \A k \in 1 .. Len(t) : Options(t, K, o)[k] = IF o + k \in K THEN <<t[k]>> ELSE << >>
      BY <3>1, <3>3
    <3> QED
      BY <3>2 DEF o
  <2>3. u \in Seq(X)
    BY <1>1
  <2>4. c \in Seq(Seq(X)) /\ Len(c) = Len(u) /\ \A k \in 1 .. Len(u) : c[k] = IF off + k \in K THEN <<u[k]>> ELSE << >>
    BY <2>3, OptionsProperties
  <2> QED
    BY <2>1, <2>2, <2>4
<1>3. Len(s) \in Nat /\ Len(t) \in Nat
  BY LenProperties
<1> HIDE DEF a, b, c
<1>4. /\ a \o b \in Seq(Seq(X)) /\ Len(a \o b) = Len(s) + Len(t)
      /\ \A i \in 1 .. Len(s) + Len(t) : (a \o b)[i] = IF i <= Len(s) THEN a[i] ELSE b[i - Len(s)]
  <2>1. a \in Seq(Seq(X)) /\ b \in Seq(Seq(X))
    BY <1>2
  <2>2. /\ a \o b \in Seq(Seq(X)) /\ Len(a \o b) = Len(a) + Len(b)
        /\ \A i \in 1 .. Len(a) + Len(b) : (a \o b)[i] = IF i <= Len(a) THEN a[i] ELSE b[i - Len(a)]
    BY <2>1, ConcatProperties
  <2> QED
    BY <1>2, <2>2
<1>5. ASSUME NEW i \in 1 .. Len(c) PROVE c[i] = (a \o b)[i]
  <2>1. i \in 1 .. Len(s) + Len(t) /\ c[i] = IF off + i \in K THEN <<u[i]>> ELSE << >>
    BY <1>1, <1>2
  <2>2. CASE i <= Len(s)
    <3>1. i \in 1 .. Len(s)
      BY <1>3, <2>1, <2>2
    <3> QED
      BY <1>1, <1>2, <1>4, <2>1, <2>2, <3>1
  <2>3. CASE ~(i <= Len(s))
    <3>1. i - Len(s) \in 1 .. Len(t) /\ (off + Len(s)) + (i - Len(s)) = off + i
      BY <1>3, <2>1, <2>3
    <3> QED
      BY <1>1, <1>2, <1>4, <2>1, <2>3, <3>1
  <2> QED
    BY <2>2, <2>3
<1>6. c = a \o b
  <2> DEFINE d == a \o b
  <2>1. c \in Seq(Seq(X)) /\ d \in Seq(Seq(X)) /\ Len(c) = Len(d) /\ \A i \in 1 .. Len(c) : c[i] = d[i]
    BY <1>1, <1>2, <1>4, <1>5
  <2> HIDE DEF d
  <2>2. c = d
    BY <2>1, SeqEqual
  <2> QED
    BY <2>2 DEF d
<1>7. FlattenSeq(c) = FlattenSeq(a) \o FlattenSeq(b)
  BY <1>2, <1>6, FlattenConcat
<1> QED
  BY <1>7 DEF a, b, c, u, Picked

LEMMA PickedOfEmpty ==
  ASSUME NEW K, NEW off
  PROVE  Picked(<< >>, K, off) = << >>
<1>1. Len(<< >>) = 0 /\ DOMAIN << >> = 1 .. 0
  BY EmptySeq
<1>2. Options(<< >>, K, off) \in [1 .. 0 -> {}]
  BY <1>1 DEF Options
<1>3. Options(<< >>, K, off) \in Seq({}) /\ Len(Options(<< >>, K, off)) = 0
  BY <1>2, FunctionIsSequence
<1>4. Options(<< >>, K, off) = << >>
  BY <1>3, EmptySeq
<1> QED
  BY <1>4, FlattenOfEmpty DEF Picked

\* tt are the members picked from the members of ss, each counted from its own offset.
ArePicked(tt, ss, K, off) == \A i \in 1 .. Len(ss) : tt[i] = Picked(ss[i], K, off + Offsets(ss)[i - 1])

\* Picking from a concatenation is picking from each member at its offset.
LEMMA PickedFlatten ==
  ASSUME NEW X, NEW ss \in Seq(Seq(X)), NEW K, NEW off \in Nat,
         NEW tt \in Seq(Seq(X)), Len(tt) = Len(ss), ArePicked(tt, ss, K, off)
  PROVE  Picked(FlattenSeq(ss), K, off) = FlattenSeq(tt)
<1> DEFINE n == Len(ss)
           L == Offsets(ss)
<1>0. n \in Nat /\ \A i \in 1 .. n : ss[i] \in Seq(X)
  BY LenProperties
<1>1. PICK f : AreFlats(f, ss, X) /\ FlattenSeq(ss) = f[n]
  BY FlattenDefined
<1>2. f \in [0 .. n -> Seq(X)] /\ f[0] = << >> /\ \A i \in 1 .. n : f[i] = f[i - 1] \o ss[i]
  BY <1>1 DEF AreFlats
<1>3. AreLengths(L, ss)
  BY FlattenPlaced
<1>4. ASSUME NEW i \in 0 .. n PROVE Len(f[i]) = L[i]
  <2>1. Placed(f[i], ss, L, i)
    <3> HIDE DEF L
    <3> QED
      BY <1>1, <1>3, FlattenPositions
  <2> QED
    BY <2>1 DEF Placed
<1> DEFINE g == [i \in 0 .. n |-> Picked(f[i], K, off)]
<1>5. ASSUME NEW i \in 0 .. n PROVE Picked(f[i], K, off) \in Seq(X)
  <2>1. f[i] \in Seq(X)
    BY <1>2
  <2>2. Options(f[i], K, off) \in Seq(Seq(X))
    BY <2>1, OptionsProperties
  <2> QED
    BY <2>2, FlattenType DEF Picked
<1>6. Picked(<< >>, K, off) = << >>
  BY PickedOfEmpty
<1>7. ASSUME NEW i \in 1 .. n PROVE g[i] = g[i - 1] \o tt[i]
  <2>1. i \in 0 .. n /\ i - 1 \in 0 .. n
    BY <1>0
  <2>2. f[i - 1] \in Seq(X) /\ ss[i] \in Seq(X) /\ f[i] = f[i - 1] \o ss[i]
    BY <1>0, <1>2, <2>1
  <2>3. Picked(f[i - 1] \o ss[i], K, off) = Picked(f[i - 1], K, off) \o Picked(ss[i], K, off + Len(f[i - 1]))
    BY <2>2, PickedConcat
  <2>4. Len(f[i - 1]) = L[i - 1]
    BY <1>4, <2>1
  <2>5. tt[i] = Picked(ss[i], K, off + L[i - 1])
    BY DEF ArePicked
  <2> QED
    BY <2>1, <2>2, <2>3, <2>4, <2>5
<1>8. AreFlats(g, tt, X)
  <2>1. g \in [0 .. n -> Seq(X)]
    BY <1>5
  <2>2. g[0] = << >>
    BY <1>0, <1>2, <1>6
  <2> HIDE DEF g
  <2> QED
    BY <1>7, <2>1, <2>2 DEF AreFlats
<1>9. g[n] = Picked(f[n], K, off)
  BY <1>0
<1> HIDE DEF g
<1>10. FlattenSeq(tt) = g[Len(tt)]
  BY <1>8, FlattenIs
<1> QED
  BY <1>1, <1>9, <1>10

\* Every position of a concatenation belongs to a member.
LEMMA FlattenMember ==
  ASSUME NEW X, NEW ss \in Seq(Seq(X)), NEW p \in 1 .. Len(FlattenSeq(ss))
  PROVE  \E i \in 1 .. Len(ss) : \E j \in 1 .. Len(ss[i]) :
           p = Offsets(ss)[i - 1] + j /\ FlattenSeq(ss)[p] = ss[i][j]
<1> DEFINE n == Len(ss)
           L == Offsets(ss)
           T == {m \in 0 .. n : p <= L[m] => \E i \in 1 .. n : \E j \in 1 .. Len(ss[i]) : p = L[i - 1] + j}
<1>0. n \in Nat /\ \A i \in 1 .. n : Len(ss[i]) \in Nat
  BY LenProperties
<1>1. AreLengths(L, ss) /\ Placed(FlattenSeq(ss), ss, L, n) /\ FlattenSeq(ss) \in Seq(X)
  BY FlattenPlaced
<1> HIDE DEF L
<1>2. L \in [0 .. n -> Nat] /\ L[0] = 0 /\ \A i \in 1 .. n : L[i] = L[i - 1] + Len(ss[i])
  BY <1>1 DEF AreLengths
<1>3. Len(FlattenSeq(ss)) = L[n] /\ \A i \in 1 .. n : \A j \in 1 .. Len(ss[i]) : FlattenSeq(ss)[L[i - 1] + j] = ss[i][j]
  BY <1>1 DEF Placed
<1>4. p \in Nat \ {0} /\ p <= L[n] /\ n \in 0 .. n
  <2>1. Len(FlattenSeq(ss)) \in Nat
    BY <1>1, LenProperties
  <2> QED
    BY <1>0, <1>3, <2>1
<1> HIDE DEF n
<1>5. 0 \in T
  BY <1>0, <1>2, <1>4
<1>6. ASSUME NEW m \in 0 .. n - 1, m \in T PROVE m + 1 \in T
  <2>1. m + 1 \in 1 .. n /\ m + 1 \in 0 .. n /\ m \in 0 .. n /\ (m + 1) - 1 = m
    BY <1>0
  <2>2. L[m + 1] = L[m] + Len(ss[m + 1]) /\ L[m] \in Nat /\ Len(ss[m + 1]) \in Nat
    BY <1>0, <1>2, <2>1
  <2>3. CASE p <= L[m]
    BY <1>6, <2>1, <2>3
  <2>4. CASE ~(p <= L[m]) /\ p <= L[m + 1]
    <3>1. p - L[m] \in 1 .. Len(ss[m + 1]) /\ p = L[m] + (p - L[m])
      BY <1>4, <2>2, <2>4, SMTT(30)
    <3>2. p = L[(m + 1) - 1] + (p - L[m])
      BY <2>1, <3>1
    <3> QED
      BY <2>1, <3>1, <3>2
  <2>5. CASE ~(p <= L[m + 1])
    BY <2>1, <2>5
  <2> QED
    BY <2>3, <2>4, <2>5
<1>7. n \in T
  <2>1. \A m \in 0 .. n : m \in T
    <3> HIDE DEF T
    <3> QED
      BY <1>0, <1>5, <1>6, Induction
  <2> QED
    BY <1>4, <2>1
<1>8. PICK i \in 1 .. n : \E j \in 1 .. Len(ss[i]) : p = L[i - 1] + j
  BY <1>4, <1>7
<1>9. PICK j \in 1 .. Len(ss[i]) : p = L[i - 1] + j
  BY <1>8
<1>10. FlattenSeq(ss)[p] = ss[i][j]
  BY <1>3, <1>9
<1> QED
  BY <1>9, <1>10 DEF L, n

LEMMA FlattenOfOne ==
  ASSUME NEW X, NEW s \in Seq(X)
  PROVE  FlattenSeq(<<s>>) = s
<1> DEFINE Z == Seq(X)
           ss == <<s>>
<1>1. ss \in Seq(Z) /\ Len(ss) = 1 /\ ss[1] = s
  OBVIOUS
<1>2. ss \in Seq(Seq(X))
  BY <1>1
<1> HIDE DEF ss
<1>3. PICK f : AreFlats(f, ss, X) /\ FlattenSeq(ss) = f[Len(ss)]
  BY <1>2, FlattenDefined
<1>4. f[0] = << >> /\ \A i \in 1 .. Len(ss) : f[i] = f[i - 1] \o ss[i]
  BY <1>3 DEF AreFlats
<1>5. 1 \in 1 .. Len(ss) /\ 1 - 1 = 0
  BY <1>1
<1>6. f[1] = f[0] \o ss[1]
  BY <1>4, <1>5
<1>7. << >> \o s = s
  BY ConcatEmptySeq
<1>8. FlattenSeq(ss) = s
  BY <1>1, <1>3, <1>4, <1>6, <1>7
<1> QED
  BY <1>8 DEF ss

LEMMA ImageOfOne ==
  ASSUME NEW X, NEW Y, NEW G, Maps(G, X, Y), NEW x \in X
  PROVE  Image(G, <<x>>) = <<G[x]>> /\ G[x] \in Y
<1> DEFINE s == <<x>>
           t == <<G[x]>>
<1>1. G[x] \in Y
  BY DEF Maps
<1>2. s \in Seq(X) /\ Len(s) = 1 /\ s[1] = x /\ t \in Seq(Y) /\ Len(t) = 1 /\ t[1] = G[x]
  BY <1>1
<1> HIDE DEF s, t
<1>3. Image(G, s) \in Seq(Y) /\ Len(Image(G, s)) = Len(s) /\ \A k \in 1 .. Len(s) : Image(G, s)[k] = G[s[k]]
  BY <1>2, ImageProperties
<1>4. \A k \in 1 .. Len(t) : Image(G, s)[k] = t[k]
  BY <1>2, <1>3
<1>5. Image(G, s) = t
  BY <1>2, <1>3, <1>4, SeqEqual
<1> QED
  BY <1>1, <1>5 DEF s, t

\* A member that is there, or not.
Optional(o, x) == o = << >> \/ o = <<x>>

\* tt are the images of the optional members oo, as sequences of one or, in the second form, as they are.
OptionImages(oo, tt, xs, X, G) ==
  \A i \in 1 .. Len(oo) : /\ Optional(oo[i], xs[i]) /\ (oo[i] = << >> => tt[i] = << >>)
                          /\ oo[i] # << >> => xs[i] \in X /\ tt[i] = <<G[xs[i]]>>
OptionFlatImages(oo, tt, xs, X, G) ==
  \A i \in 1 .. Len(oo) : /\ Optional(oo[i], xs[i]) /\ (oo[i] = << >> => tt[i] = << >>)
                          /\ oo[i] # << >> => xs[i] \in X /\ tt[i] = G[xs[i]]

\* The images of the optional members that are there.
LEMMA ImageOfOptions ==
  ASSUME NEW X, NEW Y, NEW G, Maps(G, X, Y), NEW oo \in Seq(Seq(X)), NEW tt \in Seq(Seq(Y)), Len(tt) = Len(oo),
         NEW xs, OptionImages(oo, tt, xs, X, G)
  PROVE  Image(G, FlattenSeq(oo)) = FlattenSeq(tt)
<1> DEFINE h == [s \in Seq(X) |-> Image(G, s)]
<1>1. Homomorphism(h, X, Y)
  BY ImageHomomorphism
<1>2. ASSUME NEW i \in 1 .. Len(oo) PROVE tt[i] = h[oo[i]]
  <2>1. oo[i] \in Seq(X)
    BY ElementOfSeq
  <2>2. h[oo[i]] = Image(G, oo[i])
    BY <2>1
  <2>3. CASE oo[i] = << >>
    BY <2>2, <2>3, ImageOfEmpty DEF OptionImages
  <2>4. CASE oo[i] # << >>
    <3> DEFINE x == xs[i]
    <3>1. oo[i] = <<x>> /\ x \in X /\ tt[i] = <<G[x]>>
      BY <2>4 DEF OptionImages, Optional
    <3> HIDE DEF x
    <3>2. Image(G, <<x>>) = <<G[x]>>
      BY <3>1, ImageOfOne
    <3> QED
      BY <2>2, <3>1, <3>2
  <2> QED
    BY <2>3, <2>4
<1>3. FlattenSeq(oo) \in Seq(X)
  BY FlattenType
<1>4. h[FlattenSeq(oo)] = Image(G, FlattenSeq(oo))
  BY <1>3
<1> HIDE DEF h
<1>5. h[FlattenSeq(oo)] = FlattenSeq(tt)
  BY <1>1, <1>2, FlattenHomomorphism
<1> QED
  BY <1>4, <1>5

\* The same for a function to sequences, concatenated.
LEMMA FlatImageOfOptions ==
  ASSUME NEW X, NEW Y, NEW G, Maps(G, X, Seq(Y)), NEW oo \in Seq(Seq(X)), NEW tt \in Seq(Seq(Y)), Len(tt) = Len(oo),
         NEW xs, OptionFlatImages(oo, tt, xs, X, G)
  PROVE  FlattenSeq(Image(G, FlattenSeq(oo))) = FlattenSeq(tt)
<1> DEFINE h == [s \in Seq(X) |-> FlattenSeq(Image(G, s))]
<1>1. Homomorphism(h, X, Y)
  BY FlatImageHomomorphism
<1>2. ASSUME NEW i \in 1 .. Len(oo) PROVE tt[i] = h[oo[i]]
  <2>1. oo[i] \in Seq(X)
    BY ElementOfSeq
  <2>2. h[oo[i]] = FlattenSeq(Image(G, oo[i]))
    BY <2>1
  <2>3. CASE oo[i] = << >>
    BY <2>2, <2>3, ImageOfEmpty, FlattenOfEmpty DEF OptionFlatImages
  <2>4. CASE oo[i] # << >>
    <3> DEFINE x == xs[i]
               Z == Seq(Y)
    <3>1. oo[i] = <<x>> /\ x \in X /\ tt[i] = G[x] /\ Maps(G, X, Z)
      BY <2>4 DEF OptionFlatImages, Optional
    <3> HIDE DEF x, Z
    <3>2. Image(G, <<x>>) = <<G[x]>> /\ G[x] \in Z
      BY <3>1, ImageOfOne
    <3>3. FlattenSeq(<<G[x]>>) = G[x]
      BY <3>2, FlattenOfOne DEF Z
    <3> QED
      BY <2>2, <3>1, <3>2, <3>3
  <2> QED
    BY <2>3, <2>4
<1>3. FlattenSeq(oo) \in Seq(X)
  BY FlattenType
<1>4. h[FlattenSeq(oo)] = FlattenSeq(Image(G, FlattenSeq(oo)))
  BY <1>3
<1> HIDE DEF h
<1>5. \A i \in 1 .. Len(oo) : tt[i] = h[oo[i]]
  BY <1>2
<1>6. h[FlattenSeq(oo)] = FlattenSeq(tt)
  BY <1>1, <1>5, FlattenHomomorphism
<1> QED
  BY <1>4, <1>6

\* The options oo are of the members xs, and the members have names of their own.
AreOptional(oo, xs) == \A i \in 1 .. Len(oo) : Optional(oo[i], xs[i])
AreNamed(xs, n) == \A i, j \in 1 .. n : xs[i].id = xs[j].id => i = j

\* Every member of a concatenation of optional members is one of them, and none is there twice.
LEMMA FlattenOptions ==
  ASSUME NEW X, NEW oo \in Seq(Seq(X)), NEW xs, AreOptional(oo, xs), AreNamed(xs, Len(oo))
  PROVE  LET s == FlattenSeq(oo) IN
         /\ \A p \in DOMAIN s : \E i \in 1 .. Len(oo) : s[p] = xs[i]
         /\ \A p, q \in DOMAIN s : s[p].id = s[q].id => p = q
<1> DEFINE s == FlattenSeq(oo)
           L == Offsets(oo)
<1>0. DOMAIN s = 1 .. Len(s)
  <2>1. s \in Seq(X)
    BY FlattenType
  <2> QED
    BY <2>1, LenProperties
<1>1. ASSUME NEW p \in 1 .. Len(s)
      PROVE  \E i \in 1 .. Len(oo) : s[p] = xs[i] /\ p = L[i - 1] + 1
  <2>1. \E i \in 1 .. Len(oo) : \E j \in 1 .. Len(oo[i]) : p = L[i - 1] + j /\ s[p] = oo[i][j]
    BY FlattenMember
  <2>2. PICK i \in 1 .. Len(oo) : \E j \in 1 .. Len(oo[i]) : p = L[i - 1] + j /\ s[p] = oo[i][j]
    BY <2>1
  <2>3. PICK j \in 1 .. Len(oo[i]) : p = L[i - 1] + j /\ s[p] = oo[i][j]
    BY <2>2
  <2>4. oo[i] # << >>
    <3>1. Len(<< >>) = 0
      BY EmptySeq
    <3> QED
      BY <3>1
  <2>5. oo[i] = <<xs[i]>>
    BY <2>4 DEF AreOptional, Optional
  <2>6. j = 1 /\ oo[i][1] = xs[i]
    BY <2>5
  <2> QED
    BY <2>3, <2>6
<1> HIDE DEF s, L
<1>2. ASSUME NEW p \in 1 .. Len(s), NEW q \in 1 .. Len(s), s[p].id = s[q].id
      PROVE  p = q
  <2>1. PICK i \in 1 .. Len(oo) : s[p] = xs[i] /\ p = L[i - 1] + 1
    BY <1>1
  <2>2. PICK j \in 1 .. Len(oo) : s[q] = xs[j] /\ q = L[j - 1] + 1
    BY <1>1
  <2>3. i = j
    BY <1>2, <2>1, <2>2 DEF AreNamed
  <2> QED
    BY <2>1, <2>2, <2>3
<1> QED
  BY <1>0, <1>1, <1>2 DEF s

LEMMA FlattenOfEmpties ==
  ASSUME NEW X, NEW ss \in Seq(Seq(X)), \A i \in 1 .. Len(ss) : ss[i] = << >>
  PROVE  FlattenSeq(ss) = << >>
<1> DEFINE s == FlattenSeq(ss)
<1>1. s \in Seq(X) /\ Len(s) \in Nat
  BY FlattenType, LenProperties
<1>2. ASSUME Len(s) # 0 PROVE FALSE
  <2>1. 1 \in 1 .. Len(s)
    BY <1>1, <1>2
  <2>2. \E i \in 1 .. Len(ss) : \E j \in 1 .. Len(ss[i]) : 1 = Offsets(ss)[i - 1] + j /\ s[1] = ss[i][j]
    BY <2>1, FlattenMember
  <2>3. Len(<< >>) = 0
    BY EmptySeq
  <2> QED
    BY <2>2, <2>3
<1>3. Len(s) = 0
  BY <1>2
<1> HIDE DEF s
<1>4. s = << >>
  BY <1>1, <1>3, EmptySeq
<1> QED
  BY <1>4 DEF s

LEMMA PickedType ==
  ASSUME NEW X, NEW s \in Seq(X), NEW K, NEW off
  PROVE  Picked(s, K, off) \in Seq(X)
<1>1. Options(s, K, off) \in Seq(Seq(X))
  BY OptionsProperties
<1> QED
  BY <1>1, FlattenType DEF Picked

\* Every group of rows is there with the rows picked from it, and missing when none is.
KeptOptions(oo, xs, X, G, ss, K, off) ==
  \A i \in 1 .. Len(oo) :
    LET picked == Picked(ss[i], K, off + Offsets(ss)[i - 1]) IN
    /\ Optional(oo[i], xs[i]) /\ (oo[i] = << >> => picked = << >>)
    /\ oo[i] # << >> => xs[i] \in X /\ G[xs[i]] = picked

\* Then the rows of the groups that are there are the rows picked from all.
LEMMA KeptGroups ==
  ASSUME NEW Y, NEW ss \in Seq(Seq(Y)), NEW K, NEW off \in Nat, NEW X, NEW G, Maps(G, X, Seq(Y)),
         NEW oo \in Seq(Seq(X)), Len(oo) = Len(ss), NEW xs, KeptOptions(oo, xs, X, G, ss, K, off)
  PROVE  FlattenSeq(Image(G, FlattenSeq(oo))) = Picked(FlattenSeq(ss), K, off)
<1> DEFINE n == Len(ss)
           L == Offsets(ss)
           tt == [i \in 1 .. n |-> Picked(ss[i], K, off + L[i - 1])]
<1> HIDE DEF L
<1>1. n \in Nat /\ \A i \in 1 .. n : ss[i] \in Seq(Y)
  BY LenProperties
<1>2. tt \in [1 .. n -> Seq(Y)] /\ \A i \in 1 .. n : tt[i] = Picked(ss[i], K, off + L[i - 1])
  BY <1>1, PickedType
<1> HIDE DEF tt
<1>3. tt \in Seq(Seq(Y)) /\ Len(tt) = n
  BY <1>1, <1>2, FunctionIsSequence
<1>4. OptionFlatImages(oo, tt, xs, X, G)
  <2> SUFFICES ASSUME NEW i \in 1 .. Len(oo)
               PROVE  /\ Optional(oo[i], xs[i]) /\ (oo[i] = << >> => tt[i] = << >>)
                      /\ oo[i] # << >> => xs[i] \in X /\ tt[i] = G[xs[i]]
    BY DEF OptionFlatImages
  <2>1. tt[i] = Picked(ss[i], K, off + Offsets(ss)[i - 1])
    BY <1>2 DEF L
  <2> QED
    BY <2>1 DEF KeptOptions
<1>5. Len(tt) = Len(oo)
  BY <1>3
<1>6. FlattenSeq(Image(G, FlattenSeq(oo))) = FlattenSeq(tt)
  BY <1>3, <1>4, <1>5, FlatImageOfOptions
<1>7. ArePicked(tt, ss, K, off)
  BY <1>2 DEF L, ArePicked
<1>8. Picked(FlattenSeq(ss), K, off) = FlattenSeq(tt)
  BY <1>3, <1>7, PickedFlatten
<1> QED
  BY <1>6, <1>8
=============================================================================
