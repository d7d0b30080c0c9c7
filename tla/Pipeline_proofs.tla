---------------------------- MODULE Pipeline_proofs ----------------------------
(***************************************************************************)
(* Pipeline for every configuration and requests of any size, in three     *)
(* parts.  The adapter: where the records of a hierarchy are in the order  *)
(* of their ordinals, what the lookup cursor finds and what the returned   *)
(* subset consists of.  The construction: every check of the compiler has  *)
(* a diagnostic, and the constructors accept what compiled.  The mapping   *)
(* of a record: the mapper's budget against the sizes of the wire.         *)
(***************************************************************************)
EXTENDS Pipeline, WireSize_proofs, FiniteSetTheorems

-----------------------------------------------------------------------------
(* Where the records of a hierarchy are.                                   *)

Lists(resource)  == [j \in DOMAIN resource.scopes |-> resource.scopes[j].records]
Groups(logs)     == [i \in DOMAIN logs |-> ResourceRecords(logs[i])]

\* The records before a scope of a resource, and before a resource.
Within(resource) == Offsets(Lists(resource))
Before(logs)     == Offsets(Groups(logs))

\* The scopes before a resource.
Scopes(logs)     == Sums([i \in DOMAIN logs |-> Len(logs[i].scopes)])

\* The domain and the members of a list.
LEMMA SequenceDomain ==
  ASSUME NEW s, IsSequence(s)
  PROVE  Len(s) \in Nat /\ DOMAIN s = 1 .. Len(s) /\ \A i \in 1 .. Len(s) : s[i] \in Range(s)
BY LenProperties DEF IsSequence

\* The place behind the last of n.
LEMMA BehindLast ==
  ASSUME NEW n \in Nat, NEW j \in Nat \ {0}, j <= n + 1, ~(j <= n)
  PROVE  j = n + 1 /\ j > n /\ j \in 1 .. n + 1 /\ j - 1 = n
OBVIOUS

\* The first place is one of n, or the one behind them.
LEMMA FirstPlace ==
  ASSUME NEW n \in Nat
  PROVE  1 <= n + 1
OBVIOUS

\* Counting from zero, and from one.
LEMMA FromOne ==
  ASSUME NEW a \in Nat, NEW b \in Nat, NEW k \in Nat, NEW o, o = a + b + k - 1
  PROVE  o + 1 = (a + b) + k
OBVIOUS

\* Fewer resources, no more scopes and no more records make fewer places.
LEMMA FewerPlaces ==
  ASSUME NEW N \in Nat, NEW P \in Nat, NEW E \in Nat, NEW i \in 1 .. N, NEW S \in Nat, NEW n \in Nat,
         NEW j \in 1 .. n + 1, NEW o \in Nat, S + n <= P, o <= E
  PROVE  (i - 1) + S + (j - 1) + o < N + P + E /\ (i - 1) + S + (j - 1) + o \in Nat
OBVIOUS

\* The scopes of a resource, laid out one after the other.
LaidResource(resource) ==
  LET n == Len(resource.scopes)
      w == Within(resource)
  IN  /\ n \in Nat /\ DOMAIN resource.scopes = 1 .. n
      /\ w \in [0 .. n -> Nat] /\ w[0] = 0 /\ Len(ResourceRecords(resource)) = w[n]
      /\ \A j \in 1 .. n : LET all == resource.scopes[j].records IN
           /\ Len(all) \in Nat /\ DOMAIN all = 1 .. Len(all)
           /\ w[j] = w[j - 1] + Len(all) /\ w[j] <= w[n]
           /\ \A k \in 1 .. Len(all) : ResourceRecords(resource)[w[j - 1] + k] = all[k]

\* The resources of a request likewise.
LaidLogs(logs) ==
  LET n == Len(logs)
      b == Before(logs)
      s == Scopes(logs)
  IN  /\ n \in Nat /\ DOMAIN logs = 1 .. n
      /\ b \in [0 .. n -> Nat] /\ b[0] = 0 /\ Len(Enumerated(logs)) = b[n]
      /\ s \in [0 .. n -> Nat] /\ s[0] = 0 /\ Turns(logs) = n + s[n] + b[n]
      /\ \A i \in 1 .. n :
           /\ LaidResource(logs[i])
           /\ b[i] = b[i - 1] + Within(logs[i])[Len(logs[i].scopes)] /\ b[i] <= b[n]
           /\ s[i] = s[i - 1] + Len(logs[i].scopes) /\ s[i] <= s[n]
           /\ \A k \in 1 .. Len(ResourceRecords(logs[i])) : Enumerated(logs)[b[i - 1] + k] = ResourceRecords(logs[i])[k]

\* Every resource whose scopes are lists is laid out so.
LEMMA ResourceIsLaid ==
  ASSUME NEW X, NEW resource, IsSequence(resource.scopes),
         \A j \in DOMAIN resource.scopes : resource.scopes[j].records \in Seq(X)
  PROVE  /\ LaidResource(resource) /\ ResourceRecords(resource) \in Seq(X)
         /\ Lists(resource) \in Seq(Seq(X)) /\ Len(Lists(resource)) = Len(resource.scopes)
<1> DEFINE ss == Lists(resource)
           w == Offsets(ss)
           n == Len(resource.scopes)
<1>1. n \in Nat /\ DOMAIN resource.scopes = 1 .. n
  BY SequenceDomain
<1>2. ss \in [1 .. n -> Seq(X)] /\ \A j \in 1 .. n : ss[j] = resource.scopes[j].records
  BY <1>1 DEF Lists
<1>3. ss \in Seq(Seq(X)) /\ Len(ss) = n
  BY <1>1, <1>2, FunctionIsSequence
<1>4. AreLengths(w, ss) /\ Placed(FlattenSeq(ss), ss, w, n) /\ FlattenSeq(ss) \in Seq(X)
  <2> HIDE DEF ss
  <2> QED
    BY <1>3, FlattenPlaced
<1>5. FlattenSeq(ss) = ResourceRecords(resource) /\ w = Within(resource)
  BY DEF Lists, ResourceRecords, Within
<1> HIDE DEF ss, w
<1>6. /\ w \in [0 .. n -> Nat] /\ w[0] = 0 /\ Len(ResourceRecords(resource)) = w[n]
      /\ \A j \in 1 .. n : w[j] = w[j - 1] + Len(ss[j]) /\ w[j] <= w[n]
      /\ \A j \in 1 .. n : \A k \in 1 .. Len(ss[j]) : ResourceRecords(resource)[w[j - 1] + k] = ss[j][k]
  BY <1>3, <1>4, <1>5 DEF AreLengths, Placed
<1>7. ASSUME NEW j \in 1 .. n
      PROVE  LET all == resource.scopes[j].records IN
               /\ Len(all) \in Nat /\ DOMAIN all = 1 .. Len(all)
               /\ w[j] = w[j - 1] + Len(all) /\ w[j] <= w[n]
               /\ \A k \in 1 .. Len(all) : ResourceRecords(resource)[w[j - 1] + k] = all[k]
  <2>1. ss[j] = resource.scopes[j].records /\ ss[j] \in Seq(X)
    BY <1>2
  <2>2. Len(ss[j]) \in Nat /\ DOMAIN ss[j] = 1 .. Len(ss[j])
    BY <2>1, LenProperties
  <2> QED
    BY <1>6, <2>1, <2>2
<1>8. Lists(resource) \in Seq(Seq(X)) /\ Len(Lists(resource)) = n
  BY <1>3 DEF ss
<1> QED
  BY <1>1, <1>4, <1>5, <1>6, <1>7, <1>8 DEF LaidResource

RecordsOf(logs) == UNION {UNION {Range(logs[i].scopes[j].records) : j \in DOMAIN logs[i].scopes} : i \in DOMAIN logs}

\* The lists that are laid out.
TypedLogs(logs) ==
  /\ Groups(logs) \in Seq(Seq(RecordsOf(logs))) /\ Len(Groups(logs)) = Len(logs)
  /\ \A i \in 1 .. Len(logs) :
       Lists(logs[i]) \in Seq(Seq(RecordsOf(logs))) /\ Len(Lists(logs[i])) = Len(logs[i].scopes)

\* Every request is.
LEMMA LogsAreLaid ==
  ASSUME NEW logs, IsRequest(logs)
  PROVE  LaidLogs(logs) /\ Enumerated(logs) \in Seq(RecordsOf(logs)) /\ TypedLogs(logs)
<1> DEFINE X == RecordsOf(logs)
           ss == Groups(logs)
           b == Offsets(ss)
           n == Len(logs)
           lens == [i \in DOMAIN logs |-> Len(logs[i].scopes)]
           s == Sums(lens)
<1>1. n \in Nat /\ DOMAIN logs = 1 .. n
  BY SequenceDomain DEF IsRequest
<1>2. ASSUME NEW i \in 1 .. n
      PROVE  /\ LaidResource(logs[i]) /\ ResourceRecords(logs[i]) \in Seq(X)
             /\ Lists(logs[i]) \in Seq(Seq(X)) /\ Len(Lists(logs[i])) = Len(logs[i].scopes)
  <2>1. IsSequence(logs[i].scopes)
    BY <1>1 DEF IsRequest, IsResource
  <2>2. ASSUME NEW j \in DOMAIN logs[i].scopes PROVE logs[i].scopes[j].records \in Seq(X)
    <3>1. IsSequence(logs[i].scopes[j].records)
      BY <1>1 DEF IsRequest, IsResource, IsScope
    <3>2. Range(logs[i].scopes[j].records) \subseteq X
      BY <1>1 DEF RecordsOf
    <3> HIDE DEF X
    <3>3. logs[i].scopes[j].records \in Seq(Range(logs[i].scopes[j].records))
      BY <3>1 DEF IsSequence
    <3> DEFINE r == logs[i].scopes[j].records
               R == Range(r)
    <3>4. r \in Seq(R) /\ R \subseteq X
      BY <3>2, <3>3
    <3> HIDE DEF r, R
    <3>5. r \in Seq(X)
      BY <3>4, SeqMonotonic
    <3> QED
      BY <3>5 DEF r
  <2> HIDE DEF X
  <2> QED
    BY <2>1, <2>2, ResourceIsLaid
<1> HIDE DEF X
<1>3. ss \in [1 .. n -> Seq(X)] /\ \A i \in 1 .. n : ss[i] = ResourceRecords(logs[i])
  BY <1>1, <1>2 DEF Groups
<1>4. ss \in Seq(Seq(X)) /\ Len(ss) = n
  BY <1>1, <1>3, FunctionIsSequence
<1>5. AreLengths(b, ss) /\ Placed(FlattenSeq(ss), ss, b, n) /\ FlattenSeq(ss) \in Seq(X)
  <2> HIDE DEF ss
  <2> QED
    BY <1>4, FlattenPlaced
<1>6. FlattenSeq(ss) = Enumerated(logs) /\ b = Before(logs)
  BY DEF Groups, Enumerated, Before
<1>7. \A i \in 1 .. n : Len(logs[i].scopes) \in Nat /\ Len(ResourceRecords(logs[i])) = Within(logs[i])[Len(logs[i].scopes)]
  BY <1>2 DEF LaidResource
<1>8. lens \in [1 .. n -> Nat] /\ \A i \in 1 .. n : lens[i] = Len(logs[i].scopes)
  BY <1>1, <1>7
<1>9. lens \in Seq(Nat) /\ Len(lens) = n
  BY <1>1, <1>8, FunctionIsSequence
<1>10. AreSums(s, lens) /\ Sum(lens) = s[n]
  <2> HIDE DEF lens
  <2> QED
    BY <1>9, SumsDefined
<1>11. s = Scopes(logs) /\ Turns(logs) = n + Sum(lens) + Len(Enumerated(logs))
  BY DEF Scopes, Turns
<1> HIDE DEF ss, b, lens, s
<1>12. /\ b \in [0 .. n -> Nat] /\ b[0] = 0 /\ Len(Enumerated(logs)) = b[n]
       /\ \A i \in 1 .. n : b[i] = b[i - 1] + Len(ss[i]) /\ b[i] <= b[n]
       /\ \A i \in 1 .. n : \A k \in 1 .. Len(ss[i]) : Enumerated(logs)[b[i - 1] + k] = ss[i][k]
  BY <1>4, <1>5, <1>6 DEF AreLengths, Placed
<1>13. s \in [0 .. n -> Nat] /\ s[0] = 0 /\ \A i \in 1 .. n : s[i] = s[i - 1] + lens[i]
  BY <1>9, <1>10 DEF AreSums
<1>14. \A i \in 1 .. n : s[i] <= s[n]
  <2> DEFINE T == {i \in 0 .. n : s[i] <= s[n]}
  <2> HIDE DEF n
  <2>1. n \in T
    BY <1>1, <1>13
  <2>2. ASSUME NEW i \in 0 .. n - 1, i + 1 \in T PROVE i \in T
    <3>1. i + 1 \in 1 .. n /\ (i + 1) - 1 = i /\ i \in 0 .. n /\ i + 1 \in 0 .. n
      BY <1>1
    <3>2. s[i + 1] = s[i] + lens[i + 1] /\ lens[i + 1] \in Nat /\ s[i] \in Nat /\ s[n] \in Nat /\ s[i + 1] <= s[n]
      BY <1>1, <1>8, <1>13, <2>2, <3>1
    <3> QED
      BY <3>1, <3>2
  <2>3. \A i \in 0 .. n : i \in T
    <3> HIDE DEF T
    <3> QED
      BY <1>1, <2>1, <2>2, DownwardInduction
  <2> QED
    BY <1>1, <2>3
<1>15. ASSUME NEW i \in 1 .. n
       PROVE  /\ LaidResource(logs[i])
              /\ b[i] = b[i - 1] + Within(logs[i])[Len(logs[i].scopes)] /\ b[i] <= b[n]
              /\ s[i] = s[i - 1] + Len(logs[i].scopes) /\ s[i] <= s[n]
              /\ \A k \in 1 .. Len(ResourceRecords(logs[i])) : Enumerated(logs)[b[i - 1] + k] = ResourceRecords(logs[i])[k]
  <2>1. ss[i] = ResourceRecords(logs[i]) /\ lens[i] = Len(logs[i].scopes)
    BY <1>3, <1>8
  <2>2. LaidResource(logs[i])
    BY <1>2
  <2> QED
    BY <1>7, <1>12, <1>13, <1>14, <2>1, <2>2
<1>16. Enumerated(logs) \in Seq(RecordsOf(logs))
  BY <1>5, <1>6 DEF X
<1>17. TypedLogs(logs)
  BY <1>2, <1>4 DEF TypedLogs, X, ss
<1> QED
  BY <1>1, <1>6, <1>10, <1>11, <1>12, <1>13, <1>15, <1>16, <1>17 DEF LaidLogs

-----------------------------------------------------------------------------
(* The cursor of the lookups.                                              *)

\* Before record k of scope j of resource i there are o records; j and k may be one past the end.
StandsAt(logs, i, j, k, o) ==
  /\ i \in 1 .. Len(logs) + 1 /\ j \in Nat \ {0} /\ k \in Nat \ {0} /\ o \in Nat
  /\ i <= Len(logs) =>
       /\ j <= Len(logs[i].scopes) + 1
       /\ j <= Len(logs[i].scopes) => k <= Len(logs[i].scopes[j].records) + 1
       /\ j > Len(logs[i].scopes) => k = 1
       /\ o = Before(logs)[i - 1] + Within(logs[i])[j - 1] + (k - 1)
  /\ i > Len(logs) => j = 1 /\ k = 1 /\ o = Len(Enumerated(logs))

Cursors == [resource : Nat, scope : Nat, record : Nat, ordinal : Nat]

\* The cursor is at such a place.
Standing(logs, c) ==
  /\ c \in Cursors
  /\ StandsAt(logs, c.resource, c.scope, c.record, c.ordinal)

\* How many turns lead to a place from the beginning.
PlaceAt(logs, i, j, o) == (i - 1) + Scopes(logs)[i - 1] + (j - 1) + o
Place(logs, c) == PlaceAt(logs, c.resource, c.scope, c.ordinal)

\* What the layout says of resource i and scope j.
LEMMA LaidAt ==
  ASSUME NEW logs, LaidLogs(logs), NEW i \in 1 .. Len(logs), NEW j \in 1 .. Len(logs[i].scopes) + 1
  PROVE  LET n == Len(logs[i].scopes)
             b == Before(logs)
             s == Scopes(logs)
             w == Within(logs[i])
             all == logs[i].scopes[j].records
         IN  /\ Len(logs) \in Nat /\ n \in Nat /\ Len(Enumerated(logs)) = b[Len(logs)]
             /\ b[i - 1] \in Nat /\ b[i] \in Nat /\ b[Len(logs)] \in Nat
             /\ s[i - 1] \in Nat /\ s[i] \in Nat /\ s[Len(logs)] \in Nat
             /\ w[j - 1] \in Nat /\ w[n] \in Nat /\ w[0] = 0
             /\ b[i] = b[i - 1] + w[n] /\ b[i] <= b[Len(logs)]
             /\ s[i] = s[i - 1] + n /\ s[i] <= s[Len(logs)]
             /\ j <= n => /\ Len(all) \in Nat /\ w[j] \in Nat
                          /\ w[j] = w[j - 1] + Len(all) /\ w[j] <= w[n]
<1> DEFINE N == Len(logs)
           b == Before(logs)
           s == Scopes(logs)
           n == Len(logs[i].scopes)
           w == Within(logs[i])
<1>1. N \in Nat
  BY DEF LaidLogs
<1>2. /\ b \in [0 .. N -> Nat] /\ s \in [0 .. N -> Nat] /\ Len(Enumerated(logs)) = b[N]
      /\ LaidResource(logs[i]) /\ b[i] = b[i - 1] + w[n] /\ b[i] <= b[N] /\ s[i] = s[i - 1] + n /\ s[i] <= s[N]
  BY DEF LaidLogs
<1>3. /\ n \in Nat /\ w \in [0 .. n -> Nat] /\ w[0] = 0
      /\ \A h \in 1 .. n : /\ Len(logs[i].scopes[h].records) \in Nat /\ w[h] <= w[n]
                           /\ w[h] = w[h - 1] + Len(logs[i].scopes[h].records)
  BY <1>2 DEF LaidResource
<1>4. i - 1 \in 0 .. N /\ i \in 0 .. N /\ N \in 0 .. N /\ j - 1 \in 0 .. n /\ n \in 0 .. n /\ (j <= n => j \in 1 .. n /\ j \in 0 .. n)
  BY <1>1, <1>3
<1> HIDE DEF N, b, s, n, w
<1>5. /\ b[i - 1] \in Nat /\ b[i] \in Nat /\ b[N] \in Nat /\ s[i - 1] \in Nat /\ s[i] \in Nat /\ s[N] \in Nat
      /\ w[j - 1] \in Nat /\ w[n] \in Nat /\ (j <= n => w[j] \in Nat)
  BY <1>2, <1>3, <1>4
<1>6. j <= n => /\ Len(logs[i].scopes[j].records) \in Nat /\ w[j] = w[j - 1] + Len(logs[i].scopes[j].records) /\ w[j] <= w[n]
  BY <1>3, <1>4
<1> QED
  BY <1>1, <1>2, <1>3, <1>5, <1>6 DEF N, b, s, n, w

\* What a scope adds to the records before it.
LEMMA LaidScopeAt ==
  ASSUME NEW logs, LaidLogs(logs), NEW i \in 1 .. Len(logs), NEW j \in 1 .. Len(logs[i].scopes)
  PROVE  LET w == Within(logs[i])
             all == logs[i].scopes[j].records
         IN  Len(all) \in Nat /\ w[j] = w[j - 1] + Len(all) /\ w[j] <= w[Len(logs[i].scopes)]
<1>1. LaidResource(logs[i])
  BY DEF LaidLogs
<1> QED
  BY <1>1 DEF LaidResource

\* The next record of a scope.
LEMMA RecordStands ==
  ASSUME NEW logs, LaidLogs(logs), NEW i, NEW j, NEW k, NEW o, StandsAt(logs, i, j, k, o),
         i <= Len(logs), j <= Len(logs[i].scopes), k <= Len(logs[i].scopes[j].records)
  PROVE  StandsAt(logs, i, j, k + 1, o + 1) /\ PlaceAt(logs, i, j, o + 1) = PlaceAt(logs, i, j, o) + 1
<1>1. /\ i \in 1 .. Len(logs) + 1 /\ j \in Nat \ {0} /\ k \in Nat \ {0} /\ o \in Nat
      /\ o = Before(logs)[i - 1] + Within(logs[i])[j - 1] + (k - 1)
  BY DEF StandsAt
<1>2. Len(logs) \in Nat /\ \A h \in 1 .. Len(logs) : Len(logs[h].scopes) \in Nat
  BY DEF LaidLogs, LaidResource
<1>3. i \in 1 .. Len(logs) /\ j \in 1 .. Len(logs[i].scopes) + 1
  BY <1>1, <1>2
<1> DEFINE N == Len(logs)
           n == Len(logs[i].scopes)
           B == Before(logs)[i - 1]
           S == Scopes(logs)[i - 1]
           W == Within(logs[i])[j - 1]
           R == Len(logs[i].scopes[j].records)
<1>4. N \in Nat /\ n \in Nat /\ B \in Nat /\ S \in Nat /\ W \in Nat /\ R \in Nat /\ k <= R /\ j <= n /\ i <= N
  BY <1>3, LaidAt
<1> HIDE DEF N, n, B, S, W, R
<1>5. o = B + W + (k - 1)
  BY <1>1 DEF B, W
<1>6. /\ ~(i > N) /\ k + 1 \in Nat \ {0} /\ o + 1 \in Nat /\ j <= n + 1 /\ ~(j > n) /\ k + 1 <= R + 1
      /\ o + 1 = B + W + ((k + 1) - 1)
  BY <1>1, <1>4, <1>5
<1>7. StandsAt(logs, i, j, k + 1, o + 1)
  BY <1>1, <1>6 DEF StandsAt, N, n, B, W, R
<1>8. (i - 1) + S + (j - 1) + (o + 1) = (i - 1) + S + (j - 1) + o + 1
  BY <1>1, <1>4
<1> QED
  BY <1>7, <1>8 DEF PlaceAt, S

\* The first record of the next scope.
LEMMA ScopeStands ==
  ASSUME NEW logs, LaidLogs(logs), NEW i, NEW j, NEW k, NEW o, StandsAt(logs, i, j, k, o),
         i <= Len(logs), j <= Len(logs[i].scopes), ~(k <= Len(logs[i].scopes[j].records))
  PROVE  StandsAt(logs, i, j + 1, 1, o) /\ PlaceAt(logs, i, j + 1, o) = PlaceAt(logs, i, j, o) + 1
<1>1. /\ i \in 1 .. Len(logs) + 1 /\ j \in Nat \ {0} /\ k \in Nat \ {0} /\ o \in Nat
      /\ o = Before(logs)[i - 1] + Within(logs[i])[j - 1] + (k - 1)
      /\ k <= Len(logs[i].scopes[j].records) + 1
  BY DEF StandsAt
<1>2. Len(logs) \in Nat /\ \A h \in 1 .. Len(logs) : Len(logs[h].scopes) \in Nat
  BY DEF LaidLogs, LaidResource
<1>3. i \in 1 .. Len(logs) /\ j \in 1 .. Len(logs[i].scopes) + 1 /\ j + 1 \in 1 .. Len(logs[i].scopes) + 1
  BY <1>1, <1>2
<1> DEFINE N == Len(logs)
           n == Len(logs[i].scopes)
           B == Before(logs)[i - 1]
           S == Scopes(logs)[i - 1]
           W == Within(logs[i])[j - 1]
           R == Len(logs[i].scopes[j].records)
           V == Within(logs[i])[(j + 1) - 1]
           Q == Len(logs[i].scopes[j + 1].records)
<1>4. N \in Nat /\ n \in Nat /\ B \in Nat /\ S \in Nat /\ W \in Nat /\ R \in Nat /\ k <= R + 1 /\ ~(k <= R) /\ j <= n /\ i <= N
  BY <1>1, <1>3, LaidAt
<1>5. V = W + R
  <2>1. (j + 1) - 1 = j
    BY <1>1
  <2>2. j \in 1 .. n
    BY <1>1, <1>4
  <2>3. Within(logs[i])[j] = W + R
    BY <1>3, <2>2, LaidScopeAt
  <2> QED
    BY <2>1, <2>3
<1>6. j + 1 <= n => Q \in Nat
  BY <1>3, LaidAt
<1> HIDE DEF N, n, B, S, W, R, V, Q
<1>7. o = B + W + (k - 1)
  BY <1>1 DEF B, W
<1>8. /\ ~(i > N) /\ 1 \in Nat \ {0} /\ j + 1 \in Nat \ {0} /\ j + 1 <= n + 1 /\ o = B + V + (1 - 1)
      /\ (j + 1 <= n => 1 <= Q + 1)
  BY <1>1, <1>4, <1>5, <1>6, <1>7
<1>9. StandsAt(logs, i, j + 1, 1, o)
  BY <1>1, <1>8 DEF StandsAt, N, n, B, V, Q
<1>10. (i - 1) + S + ((j + 1) - 1) + o = (i - 1) + S + (j - 1) + o + 1
  BY <1>1, <1>4
<1> QED
  BY <1>9, <1>10 DEF PlaceAt, S

\* The first scope of the next resource.
LEMMA ResourceStands ==
  ASSUME NEW logs, LaidLogs(logs), NEW i, NEW j, NEW k, NEW o, StandsAt(logs, i, j, k, o),
         i <= Len(logs), ~(j <= Len(logs[i].scopes))
  PROVE  k = 1 /\ StandsAt(logs, i + 1, 1, 1, o) /\ PlaceAt(logs, i + 1, 1, o) = PlaceAt(logs, i, j, o) + 1
<1>0. Len(logs) \in Nat /\ \A h \in 1 .. Len(logs) : Len(logs[h].scopes) \in Nat
  BY DEF LaidLogs, LaidResource
<1>1. /\ i \in 1 .. Len(logs) /\ j \in Nat \ {0} /\ k \in Nat \ {0} /\ o \in Nat
      /\ o = Before(logs)[i - 1] + Within(logs[i])[j - 1] + (k - 1)
      /\ j <= Len(logs[i].scopes) + 1
  BY <1>0 DEF StandsAt
<1>2. j = Len(logs[i].scopes) + 1 /\ j > Len(logs[i].scopes) /\ j \in 1 .. Len(logs[i].scopes) + 1 /\ j - 1 = Len(logs[i].scopes)
  <2>1. Len(logs[i].scopes) \in Nat
    BY <1>0, <1>1
  <2> QED BY <1>1, <2>1, BehindLast
<1>3. k = 1
  BY <1>2 DEF StandsAt
<1> DEFINE N == Len(logs)
           n == Len(logs[i].scopes)
           B == Before(logs)[i - 1]
           S == Scopes(logs)[i - 1]
           C == Before(logs)[i]
           P == Scopes(logs)[i]
<1>4. N \in Nat /\ n \in Nat /\ B \in Nat /\ S \in Nat /\ C \in Nat /\ P = S + n /\ Len(Enumerated(logs)) = Before(logs)[N]
  BY <1>1, <1>2, LaidAt
<1>5. o = C
  <2>1. C = B + Within(logs[i])[n] /\ Within(logs[i])[n] \in Nat
    BY <1>1, <1>2, LaidAt
  <2>2. o = B + Within(logs[i])[n] + 0
    BY <1>1, <1>2, <1>3
  <2> HIDE DEF B, C, n
  <2> QED
    BY <1>4, <2>1, <2>2
<1>6. PlaceAt(logs, i + 1, 1, o) = PlaceAt(logs, i, j, o) + 1
  <2>1. PlaceAt(logs, i + 1, 1, o) = i + P + 0 + o
    <3>1. (i + 1) - 1 = i /\ 1 - 1 = 0
      BY <1>1
    <3> QED
      BY <3>1 DEF PlaceAt
  <2>2. PlaceAt(logs, i, j, o) = (i - 1) + S + n + o
    BY <1>2 DEF PlaceAt
  <2> HIDE DEF P, S, n
  <2> QED
    BY <1>1, <1>4, <2>1, <2>2
<1>7. StandsAt(logs, i + 1, 1, 1, o)
  <2>1. i + 1 \in 1 .. N + 1 /\ 1 \in Nat \ {0} /\ (i + 1) - 1 = i /\ (i + 1 > N => i = N)
    BY <1>1, <1>4
  <2>2. CASE i + 1 > N
    <3>1. o = Len(Enumerated(logs)) /\ ~(i + 1 <= N)
      BY <1>4, <1>5, <2>1, <2>2
    <3> QED
      BY <1>1, <2>1, <3>1 DEF StandsAt
  <2>3. CASE ~(i + 1 > N)
    <3> DEFINE e == i + 1
               m == Len(logs[e].scopes)
    <3>1. e \in 1 .. N /\ m \in Nat
      BY <1>0, <1>1, <2>3
    <3>2. 1 \in 1 .. m + 1
      BY <3>1
    <3>3. Within(logs[e])[0] = 0 /\ (1 <= m => Len(logs[e].scopes[1].records) \in Nat)
      BY <3>1, <3>2, LaidAt
    <3>4. 1 <= m => 1 <= Len(logs[e].scopes[1].records) + 1
      BY <3>3, FirstPlace
    <3>5. o = Before(logs)[e - 1] + Within(logs[e])[1 - 1] + (1 - 1)
      <4>1. e - 1 = i /\ 1 - 1 = 0
        BY <1>1
      <4>2. o = C + 0 + 0
        BY <1>4, <1>5
      <4> QED
        BY <3>3, <4>1, <4>2
    <3> HIDE DEF e
    <3>6. 1 <= m + 1
      BY <3>1
    <3>7. e \in 1 .. N + 1 /\ ~(e > N)
      BY <2>1, <2>3 DEF e
    <3>8. StandsAt(logs, e, 1, 1, o)
      BY <1>1, <2>1, <3>4, <3>5, <3>6, <3>7 DEF StandsAt
    <3> QED
      BY <3>8 DEF e
  <2> QED
    BY <2>2, <2>3
<1> QED
  BY <1>3, <1>6, <1>7

\* A turn leads from a cursor to a cursor.
LEMMA TurnIsCursor ==
  ASSUME NEW logs, NEW c \in Cursors
  PROVE  Turn(logs, c) \in Cursors
<1>1. ASSUME NEW d \in Cursors, NEW x \in Nat
      PROVE  /\ [d EXCEPT !.resource = x] \in Cursors /\ [d EXCEPT !.scope = x] \in Cursors
             /\ [d EXCEPT !.record = x] \in Cursors /\ [d EXCEPT !.ordinal = x] \in Cursors
  BY DEF Cursors
<1>2. c.resource + 1 \in Nat /\ c.scope + 1 \in Nat /\ c.record + 1 \in Nat /\ c.ordinal + 1 \in Nat /\ 1 \in Nat
  BY DEF Cursors
<1>3. /\ [c EXCEPT !.record = c.record + 1, !.ordinal = c.ordinal + 1] \in Cursors
      /\ [c EXCEPT !.scope = c.scope + 1, !.record = 1] \in Cursors
      /\ [c EXCEPT !.resource = c.resource + 1, !.scope = 1] \in Cursors
  <2> HIDE DEF Cursors
  <2>1. /\ [c EXCEPT !.record = c.record + 1] \in Cursors /\ [c EXCEPT !.scope = c.scope + 1] \in Cursors
        /\ [c EXCEPT !.resource = c.resource + 1] \in Cursors
    BY <1>1, <1>2
  <2> QED
    BY <1>1, <1>2, <2>1
<1> QED
  BY <1>3 DEF Turn, NextScope

\* A turn leads from one place to the next.
LEMMA TurnStands ==
  ASSUME NEW logs, LaidLogs(logs), NEW c, Standing(logs, c), c.resource <= Len(logs)
  PROVE  LET d == Turn(logs, c) IN
         /\ Standing(logs, d) /\ Place(logs, d) = Place(logs, c) + 1
         /\ d.ordinal = IF AtRecord(logs, c) THEN c.ordinal + 1 ELSE c.ordinal
<1> DEFINE d == Turn(logs, c)
<1>1. c \in Cursors /\ DOMAIN c = {"resource", "scope", "record", "ordinal"}
  BY DEF Standing, Cursors
<1>1a. StandsAt(logs, c.resource, c.scope, c.record, c.ordinal)
  BY DEF Standing
<1>1b. d \in Cursors
  BY <1>1, TurnIsCursor
<1>2. CASE AtRecord(logs, c)
  <2>1. d = [c EXCEPT !.record = c.record + 1, !.ordinal = c.ordinal + 1]
    BY <1>2 DEF Turn
  <2>2. /\ d.resource = c.resource /\ d.scope = c.scope
        /\ d.record = c.record + 1 /\ d.ordinal = c.ordinal + 1
    BY <1>1, <2>1
  <2>3. c.scope <= Len(logs[c.resource].scopes) /\ c.record <= Len(logs[c.resource].scopes[c.scope].records)
    BY <1>2 DEF AtRecord
  <2>4. /\ StandsAt(logs, c.resource, c.scope, c.record + 1, c.ordinal + 1)
        /\ PlaceAt(logs, c.resource, c.scope, c.ordinal + 1) = PlaceAt(logs, c.resource, c.scope, c.ordinal) + 1
    <3> DEFINE i == c.resource
               j == c.scope
               k == c.record
               o == c.ordinal
    <3>1. StandsAt(logs, i, j, k, o) /\ i <= Len(logs) /\ j <= Len(logs[i].scopes) /\ k <= Len(logs[i].scopes[j].records)
      BY <1>1a, <2>3
    <3> HIDE DEF i, j, k, o
    <3>2. StandsAt(logs, i, j, k + 1, o + 1) /\ PlaceAt(logs, i, j, o + 1) = PlaceAt(logs, i, j, o) + 1
      BY <3>1, RecordStands
    <3> QED
      BY <3>2 DEF i, j, k, o
  <2> QED
    BY <1>1b, <1>2, <2>2, <2>4 DEF Standing, Place
<1>3. CASE ~AtRecord(logs, c) /\ c.scope <= Len(logs[c.resource].scopes)
  <2>1. d = [c EXCEPT !.scope = c.scope + 1, !.record = 1]
    BY <1>3 DEF Turn, NextScope
  <2>2. /\ d.resource = c.resource /\ d.scope = c.scope + 1
        /\ d.record = 1 /\ d.ordinal = c.ordinal
    BY <1>1, <2>1
  <2>3. c.scope <= Len(logs[c.resource].scopes) /\ ~(c.record <= Len(logs[c.resource].scopes[c.scope].records))
    BY <1>3 DEF AtRecord
  <2>4. /\ StandsAt(logs, c.resource, c.scope + 1, 1, c.ordinal)
        /\ PlaceAt(logs, c.resource, c.scope + 1, c.ordinal) = PlaceAt(logs, c.resource, c.scope, c.ordinal) + 1
    BY <1>1a, <2>3, ScopeStands
  <2> QED
    BY <1>1b, <1>3, <2>2, <2>4 DEF Standing, Place
<1>4. CASE ~AtRecord(logs, c) /\ ~(c.scope <= Len(logs[c.resource].scopes))
  <2>1. d = [c EXCEPT !.resource = c.resource + 1, !.scope = 1]
    BY <1>4 DEF Turn
  <2>2. /\ d.resource = c.resource + 1 /\ d.scope = 1
        /\ d.record = c.record /\ d.ordinal = c.ordinal
    BY <1>1, <2>1
  <2>3. /\ c.record = 1 /\ StandsAt(logs, c.resource + 1, 1, 1, c.ordinal)
        /\ PlaceAt(logs, c.resource + 1, 1, c.ordinal) = PlaceAt(logs, c.resource, c.scope, c.ordinal) + 1
    BY <1>1a, <1>4, ResourceStands
  <2> QED
    BY <1>1b, <1>4, <2>2, <2>3 DEF Standing, Place
<1> QED
  BY <1>2, <1>3, <1>4

\* A turn from a place, with the count of the turns.
Progress(logs, want, d, n) ==
  Standing(logs, d) /\ d.ordinal <= want /\ (Stops(logs, d, want) \/ Place(logs, d) >= n)

\* The cursors that the loops of logCursor.at pass.
Walk(logs, c, want) ==
  CHOOSE f : f = [n \in 0 .. Turns(logs) |->
                    IF n = 0 THEN c ELSE LET d == f[n - 1] IN IF Stops(logs, d, want) THEN d ELSE Turn(logs, d)]

\* The recursive definition of the walk has a solution, so the walk turns until it stops.
LEMMA WalkDefined ==
  ASSUME NEW logs, Turns(logs) \in Nat, NEW c \in Cursors, NEW want
  PROVE  LET f == Walk(logs, c, want) IN
         /\ f[0] = c
         /\ \A n \in 1 .. Turns(logs) : f[n] = IF Stops(logs, f[n - 1], want) THEN f[n - 1] ELSE Turn(logs, f[n - 1])
<1> DEFINE N == Turns(logs)
           Eq(f) == f = [n \in 0 .. N |-> IF n = 0 THEN c ELSE LET d == f[n - 1] IN IF Stops(logs, d, want) THEN d ELSE Turn(logs, d)]
           on == [d \in Cursors |-> IF Stops(logs, d, want) THEN d ELSE Turn(logs, d)]
           step == [n \in 1 .. N |-> on]
<1>1. on \in [Cursors -> Cursors]
  BY TurnIsCursor
<1>2. step \in [1 .. N -> [Cursors -> Cursors]]
  <2> HIDE DEF on
  <2> QED
    BY <1>1
<1>3. PICK f : Iterates(f, N, Cursors, c, step)
  <2> HIDE DEF step, N
  <2>1. N \in Nat
    BY DEF N
  <2> QED
    BY <1>2, <2>1, Iteration
<1>4. f \in [0 .. N -> Cursors] /\ f[0] = c /\ \A n \in 1 .. N : f[n] = step[n][f[n - 1]]
  BY <1>3 DEF Iterates
<1>5. ASSUME NEW n \in 1 .. N PROVE f[n] = IF Stops(logs, f[n - 1], want) THEN f[n - 1] ELSE Turn(logs, f[n - 1])
  <2>0. n - 1 \in 0 .. N
    <3> HIDE DEF N
    <3>1. N \in Nat
      BY DEF N
    <3> QED
      BY <3>1
  <2>1. f[n - 1] \in Cursors
    <3> HIDE DEF N, step
    <3> QED
      BY <1>4, <2>0
  <2>2. f[n] = on[f[n - 1]]
    <3> HIDE DEF on
    <3> QED
      BY <1>4
  <2> QED
    BY <2>1, <2>2
<1> HIDE DEF N
<1>6. Eq(f)
  BY <1>4, <1>5
<1> DEFINE g == Walk(logs, c, want)
<1>7. Eq(g)
  <2>1. g = CHOOSE x : Eq(x)
    BY DEF Walk, N
  <2> QED
    BY <1>6, <2>1
<1> HIDE DEF g
<1>8. N \in Nat /\ 0 \in 0 .. N
  BY DEF N
<1>9. \A n \in 1 .. N : n \in 0 .. N /\ n # 0
  BY <1>8
<1>10. g[0] = c
  BY <1>7, <1>8
<1>11. \A n \in 1 .. N : g[n] = IF Stops(logs, g[n - 1], want) THEN g[n - 1] ELSE Turn(logs, g[n - 1])
  BY <1>7, <1>9
<1> QED
  BY <1>10, <1>11 DEF g, N

\* Places are before the last turn, as long as there is a resource to look at.
LEMMA PlaceBound ==
  ASSUME NEW logs, LaidLogs(logs), NEW i, NEW j, NEW k, NEW o, StandsAt(logs, i, j, k, o), i <= Len(logs)
  PROVE  PlaceAt(logs, i, j, o) < Turns(logs) /\ PlaceAt(logs, i, j, o) \in Nat
<1> DEFINE N == Len(logs)
           n == Len(logs[i].scopes)
<1>0. N \in Nat /\ \A h \in 1 .. N : Len(logs[h].scopes) \in Nat
  BY DEF LaidLogs, LaidResource
<1>1. /\ i \in 1 .. N /\ j \in 1 .. n + 1 /\ k \in Nat \ {0} /\ o \in Nat
      /\ o = Before(logs)[i - 1] + Within(logs[i])[j - 1] + (k - 1)
      /\ (j <= n => k <= Len(logs[i].scopes[j].records) + 1) /\ (j > n => k = 1)
  BY <1>0 DEF StandsAt
<1> DEFINE B == Before(logs)[i - 1]
           S == Scopes(logs)[i - 1]
           W == Within(logs[i])[j - 1]
           V == Within(logs[i])[n]
           R == Len(logs[i].scopes[j].records)
           E == Before(logs)[N]
           P == Scopes(logs)[N]
<1>2. /\ n \in Nat /\ B \in Nat /\ S \in Nat /\ W \in Nat /\ V \in Nat /\ E \in Nat /\ P \in Nat
      /\ Before(logs)[i] = B + V /\ Before(logs)[i] <= E /\ Scopes(logs)[i] = S + n /\ Scopes(logs)[i] <= P
  BY <1>1, LaidAt
<1>3. W + (k - 1) <= V
  <2>1. CASE j <= n
    <3>1. j \in 1 .. n
      BY <1>1, <1>2, <2>1
    <3>2. R \in Nat /\ Within(logs[i])[j] = W + R /\ Within(logs[i])[j] <= V
      BY <1>1, <3>1, LaidScopeAt
    <3>3. k <= R + 1
      BY <1>1, <2>1
    <3> HIDE DEF W, V, R
    <3> QED
      BY <1>1, <1>2, <3>2, <3>3
  <2>2. CASE ~(j <= n)
    <3> HIDE DEF n
    <3>1. j - 1 = n /\ k = 1
      BY <1>1, <1>2, <2>2
    <3>2. W = V
      BY <3>1
    <3> HIDE DEF W, V
    <3> QED
      BY <1>2, <3>1, <3>2
  <2> QED
    BY <2>1, <2>2
<1>4. Turns(logs) = N + P + E
  BY DEF LaidLogs
<1>5. PlaceAt(logs, i, j, o) = (i - 1) + S + (j - 1) + o
  BY DEF PlaceAt
<1>6. o = B + W + (k - 1)
  BY <1>1
<1> HIDE DEF N, n, B, S, W, V, R, E, P
<1>7. o <= E
  BY <1>1, <1>2, <1>3, <1>6
<1>8. i \in 1 .. N /\ j \in 1 .. n + 1 /\ o \in Nat /\ N \in Nat
  BY <1>0, <1>1
<1>9. S + n <= P /\ n \in Nat /\ S \in Nat /\ P \in Nat /\ E \in Nat
  BY <1>2
<1> QED
  BY <1>4, <1>5, <1>7, <1>8, <1>9, FewerPlaces

\* The number of a record in the order of the ordinals.
Nth(logs, i, j, k) == Before(logs)[i - 1] + Within(logs[i])[j - 1] + k

HasRecord(logs, i, j, k) ==
  i \in 1 .. Len(logs) /\ j \in 1 .. Len(logs[i].scopes) /\ k \in 1 .. Len(logs[i].scopes[j].records)

\* It is the place of the record in the enumeration.
LEMMA RecordAtOrdinal ==
  ASSUME NEW logs, LaidLogs(logs), NEW i, NEW j, NEW k, HasRecord(logs, i, j, k)
  PROVE  /\ Nth(logs, i, j, k) \in 1 .. Len(Enumerated(logs))
         /\ Enumerated(logs)[Nth(logs, i, j, k)] = logs[i].scopes[j].records[k]
<1>0. i \in 1 .. Len(logs) /\ j \in 1 .. Len(logs[i].scopes) /\ k \in 1 .. Len(logs[i].scopes[j].records)
  BY DEF HasRecord
<1> DEFINE n == Len(logs[i].scopes)
           B == Before(logs)[i - 1]
           W == Within(logs[i])[j - 1]
           V == Within(logs[i])[n]
           R == Len(logs[i].scopes[j].records)
           E == Before(logs)[Len(logs)]
<1>1. LaidResource(logs[i])
  BY <1>0 DEF LaidLogs
<1>2. n \in Nat /\ j \in 1 .. n + 1
  BY <1>0, <1>1 DEF LaidResource
<1>3. /\ B \in Nat /\ W \in Nat /\ V \in Nat /\ E \in Nat
      /\ Before(logs)[i] = B + V /\ Before(logs)[i] <= E
  BY <1>0, <1>2, LaidAt
<1>4. R \in Nat /\ Within(logs[i])[j] = W + R /\ Within(logs[i])[j] <= V
  BY <1>0, LaidScopeAt
<1>5. Len(Enumerated(logs)) = E
      /\ \A h \in 1 .. Len(ResourceRecords(logs[i])) : Enumerated(logs)[B + h] = ResourceRecords(logs[i])[h]
  BY <1>0 DEF LaidLogs
<1>6. Len(ResourceRecords(logs[i])) = V /\ ResourceRecords(logs[i])[W + k] = logs[i].scopes[j].records[k]
  BY <1>0, <1>1 DEF LaidResource
<1>6a. k \in 1 .. R
  BY <1>0
<1> HIDE DEF n, B, W, V, R, E
<1>7. W + k \in 1 .. V /\ B + W + k = B + (W + k) /\ B + W + k \in 1 .. E
  BY <1>3, <1>4, <1>6a
<1>8. Enumerated(logs)[B + (W + k)] = ResourceRecords(logs[i])[W + k]
  BY <1>5, <1>6, <1>7
<1> QED
  BY <1>5, <1>6, <1>7, <1>8 DEF B, W, Nth

\* logCursor.at finds the record of the ordinal it is asked for.
LEMMA CursorFinds ==
  ASSUME NEW logs, LaidLogs(logs), NEW c, Standing(logs, c),
         NEW want \in Nat, c.ordinal <= want, want < Len(Enumerated(logs))
  PROVE  LET at == CursorAt(logs, c, want) IN
         /\ Standing(logs, at.cursor) /\ at.cursor.ordinal = want
         /\ at.found = Enumerated(logs)[want + 1]
<1> DEFINE N == Turns(logs)
           f == Walk(logs, c, want)
           T == {n \in 0 .. N : Progress(logs, want, f[n], n)}
<1>1. N \in Nat
  BY DEF LaidLogs
<1>2. c \in Cursors
  BY DEF Standing
<1>3. f[0] = c /\ \A n \in 1 .. N : f[n] = IF Stops(logs, f[n - 1], want) THEN f[n - 1] ELSE Turn(logs, f[n - 1])
  BY <1>1, <1>2, WalkDefined
<1>4. CursorAt(logs, c, want) =
        [cursor |-> f[N],
         found  |-> IF AtRecord(logs, f[N]) /\ f[N].ordinal = want
                    THEN logs[f[N].resource].scopes[f[N].scope].records[f[N].record] ELSE NoRecord]
  BY DEF CursorAt, Walk
<1> HIDE DEF f, N
<1>5. 0 \in T
  <2>1. c.resource <= Len(logs) => Place(logs, c) >= 0
    BY PlaceBound DEF Place, Standing
  <2>2. ~(c.resource <= Len(logs)) => Stops(logs, c, want)
    <3>1. c.resource \in 1 .. Len(logs) + 1 /\ Len(logs) \in Nat
      BY DEF Standing, StandsAt, LaidLogs
    <3> QED
      BY <3>1 DEF Stops
  <2>3. 0 \in 0 .. N
    BY <1>1
  <2> QED
    BY <1>3, <2>1, <2>2, <2>3 DEF Progress
<1>6. ASSUME NEW n \in 0 .. N - 1, n \in T PROVE n + 1 \in T
  <2> DEFINE d == f[n]
             e == f[n + 1]
  <2>1. n + 1 \in 1 .. N /\ n + 1 \in 0 .. N /\ (n + 1) - 1 = n
    BY <1>1
  <2>2. e = IF Stops(logs, d, want) THEN d ELSE Turn(logs, d)
    BY <1>3, <2>1
  <2>3. Progress(logs, want, d, n)
    BY <1>6
  <2> HIDE DEF d, e
  <2>4. CASE Stops(logs, d, want)
    <3>1. Progress(logs, want, e, n + 1)
      BY <2>2, <2>3, <2>4 DEF Progress
    <3> QED
      BY <2>1, <3>1 DEF e
  <2>5. CASE ~Stops(logs, d, want)
    <3>1. Standing(logs, d) /\ d.ordinal <= want /\ Place(logs, d) >= n
      BY <2>3, <2>5 DEF Progress
    <3>2. d.resource <= Len(logs) /\ d.ordinal \in Nat
      <4>1. d.resource \in 1 .. Len(logs) + 1 /\ Len(logs) \in Nat /\ d.ordinal \in Nat
        BY <3>1 DEF Standing, StandsAt, LaidLogs
      <4> QED
        BY <2>5, <4>1 DEF Stops
    <3>3. /\ Standing(logs, e) /\ Place(logs, e) = Place(logs, d) + 1
          /\ e.ordinal = IF AtRecord(logs, d) THEN d.ordinal + 1 ELSE d.ordinal
      BY <2>2, <2>5, <3>1, <3>2, TurnStands
    <3>4. AtRecord(logs, d) => d.ordinal # want
      BY <2>5 DEF Stops
    <3>5. e.ordinal <= want
      BY <3>1, <3>2, <3>3, <3>4
    <3>6. Place(logs, d) \in Nat
      BY <3>1, <3>2, PlaceBound DEF Place, Standing
    <3>7. Place(logs, e) >= n + 1
      BY <3>1, <3>3, <3>6
    <3>8. Progress(logs, want, e, n + 1)
      BY <3>3, <3>5, <3>7 DEF Progress
    <3> QED
      BY <2>1, <3>8 DEF e
  <2> QED
    BY <2>4, <2>5
<1>7. Progress(logs, want, f[N], N)
  <2>1. \A n \in 0 .. N : n \in T
    <3> HIDE DEF T
    <3> QED
      BY <1>1, <1>5, <1>6, Induction
  <2>2. N \in 0 .. N
    BY <1>1
  <2> QED
    BY <2>1, <2>2
<1> DEFINE l == f[N]
<1> HIDE DEF l
<1>8. Standing(logs, l) /\ l.ordinal <= want /\ (Stops(logs, l, want) \/ Place(logs, l) >= N)
  BY <1>7 DEF Progress, l
<1>9. l.ordinal \in Nat /\ (l.resource > Len(logs) => l.ordinal = Len(Enumerated(logs))) /\ l.resource \in Int /\ Len(logs) \in Nat
  BY <1>8 DEF Standing, StandsAt, LaidLogs
<1>10. Len(Enumerated(logs)) \in Nat
  BY DEF LaidLogs
<1>11. l.resource <= Len(logs)
  BY <1>8, <1>9, <1>10
<1>12. Stops(logs, l, want)
  <2>1. Place(logs, l) < N /\ Place(logs, l) \in Nat
    BY <1>8, <1>11, PlaceBound DEF N, Place, Standing
  <2> QED
    BY <1>1, <1>8, <2>1
<1>13. AtRecord(logs, l) /\ l.ordinal = want
  BY <1>8, <1>9, <1>11, <1>12 DEF Stops
<1>14. logs[l.resource].scopes[l.scope].records[l.record] = Enumerated(logs)[want + 1]
  <2> DEFINE i == l.resource
             j == l.scope
             k == l.record
  <2>1. StandsAt(logs, i, j, k, want) /\ i <= Len(logs) /\ j <= Len(logs[i].scopes) /\ k <= Len(logs[i].scopes[j].records)
    BY <1>8, <1>13 DEF Standing, AtRecord
  <2> HIDE DEF i, j, k
  <2>2. /\ i \in 1 .. Len(logs) /\ j \in Nat \ {0} /\ k \in Nat \ {0}
        /\ want = Before(logs)[i - 1] + Within(logs[i])[j - 1] + (k - 1)
    BY <1>9, <2>1 DEF StandsAt
  <2>3. j \in 1 .. Len(logs[i].scopes)
    <3>1. Len(logs[i].scopes) \in Nat
      BY <2>2 DEF LaidLogs, LaidResource
    <3> QED
      BY <2>1, <2>2, <3>1
  <2>4. k \in 1 .. Len(logs[i].scopes[j].records)
    <3>1. Len(logs[i].scopes[j].records) \in Nat
      BY <2>2, <2>3, LaidScopeAt
    <3> QED
      BY <2>1, <2>2, <3>1
  <2> DEFINE B == Before(logs)[i - 1]
             W == Within(logs[i])[j - 1]
  <2>5. Enumerated(logs)[Nth(logs, i, j, k)] = logs[i].scopes[j].records[k]
    <3>1. HasRecord(logs, i, j, k)
      BY <2>2, <2>3, <2>4 DEF HasRecord
    <3> QED
      BY <3>1, RecordAtOrdinal
  <2>6. B \in Nat /\ W \in Nat
    <3>1. j \in 1 .. Len(logs[i].scopes) + 1
      BY <2>2, <2>3 DEF LaidLogs, LaidResource
    <3> QED
      BY <2>2, <3>1, LaidAt
  <2> HIDE DEF B, W
  <2>7. want + 1 = Nth(logs, i, j, k)
    BY <2>2, <2>6 DEF B, W, Nth
  <2> QED
    BY <2>5, <2>7 DEF i, j, k
<1> QED
  BY <1>4, <1>8, <1>13, <1>14 DEF l

-----------------------------------------------------------------------------
(* The lookups serve the record that is being packed.                      *)

\* The invariant behind SameRecord: the request is one of the scenarios', the cursor stands at
\* a record that is not yet consumed, or was the last one.
CursorInv ==
  /\ IsRequest(request) /\ IsSequence(results) /\ Len(results) <= Len(Enumerated(request))
  /\ Standing(request, cursor) /\ cursor.ordinal <= Len(results)
  /\ SameRecord

\* A new cursor stands at the first record, or past the end of an empty request.
LEMMA NewCursorStands ==
  ASSUME NEW logs, LaidLogs(logs)
  PROVE  Standing(logs, NewCursor)
<1>1. NewCursor \in Cursors /\ NewCursor.resource = 1 /\ NewCursor.scope = 1 /\ NewCursor.record = 1 /\ NewCursor.ordinal = 0
  BY DEF NewCursor, Cursors
<1>2. Len(logs) \in Nat /\ 1 \in 1 .. Len(logs) + 1 /\ 1 \in Nat \ {0} /\ 0 \in Nat /\ 1 - 1 = 0
  BY DEF LaidLogs
<1>3. StandsAt(logs, 1, 1, 1, 0)
  <2>1. CASE 1 > Len(logs)
    <3>1. Len(logs) = 0 /\ Len(Enumerated(logs)) = Before(logs)[Len(logs)] /\ Before(logs)[0] = 0 /\ ~(1 <= Len(logs))
      BY <1>2, <2>1 DEF LaidLogs
    <3> QED
      BY <1>2, <3>1 DEF StandsAt
  <2>2. CASE ~(1 > Len(logs))
    <3>1. 1 \in 1 .. Len(logs) /\ Before(logs)[0] = 0
      BY <1>2, <2>2 DEF LaidLogs
    <3>2. LaidResource(logs[1])
      BY <3>1 DEF LaidLogs
    <3>3. /\ Len(logs[1].scopes) \in Nat /\ Within(logs[1])[0] = 0
          /\ \A j \in 1 .. Len(logs[1].scopes) : Len(logs[1].scopes[j].records) \in Nat
      BY <3>2 DEF LaidResource
    <3>4. /\ 1 <= Len(logs[1].scopes) + 1
          /\ 1 <= Len(logs[1].scopes) => 1 <= Len(logs[1].scopes[1].records) + 1
      <4>1. ASSUME 1 <= Len(logs[1].scopes) PROVE 1 \in 1 .. Len(logs[1].scopes)
        BY <3>3, <4>1
      <4>2. ASSUME 1 <= Len(logs[1].scopes) PROVE 1 <= Len(logs[1].scopes[1].records) + 1
        BY <3>3, <4>1, <4>2, FirstPlace
      <4> QED BY <3>3, <4>2, FirstPlace
    <3>5. 0 = Before(logs)[1 - 1] + Within(logs[1])[1 - 1] + (1 - 1)
      BY <1>2, <3>1, <3>3
    <3> QED
      BY <1>2, <2>2, <3>4, <3>5 DEF StandsAt
  <2> QED
    BY <2>1, <2>2
<1> QED
  BY <1>1, <1>3 DEF Standing

\* Initially no record was consumed and the cursor is new.
LEMMA CursorInit == Init => CursorInv
<1> SUFFICES ASSUME Init PROVE CursorInv
  OBVIOUS
<1>1. IsRequest(request) /\ cursor = NewCursor /\ results = <<>>
  BY ScenariosAssumption DEF Init
<1>2. LaidLogs(request)
  BY <1>1, LogsAreLaid
<1>3. Standing(request, cursor) /\ cursor.ordinal = 0
  BY <1>1, <1>2, NewCursorStands DEF NewCursor
<1>4. Len(Enumerated(request)) \in Nat
  BY <1>2 DEF LaidLogs
<1>5. IsSequence(results) /\ Len(results) = 0 /\ DOMAIN results = {}
  BY <1>1, EmptySeq DEF IsSequence
<1> QED
  BY <1>1, <1>3, <1>4, <1>5 DEF CursorInv, SameRecord

\* A sequence over any set is a list.
LEMMA IsSequenceOver ==
  ASSUME NEW X, NEW s \in Seq(X)
  PROVE  IsSequence(s)
<1>1. Len(s) \in Nat /\ s \in [1 .. Len(s) -> X]
  BY LenProperties
<1>2. s \in [1 .. Len(s) -> Range(s)]
  BY <1>1 DEF Range
<1>3. s \in Seq(Range(s))
  <2> DEFINE n == Len(s)
             R == Range(s)
  <2>1. n \in Nat /\ s \in [1 .. n -> R]
    BY <1>1, <1>2
  <2> HIDE DEF n, R
  <2>2. s \in Seq(R)
    BY <2>1, FunctionIsSequence
  <2> QED
    BY <2>2 DEF R
<1> QED
  BY <1>3 DEF IsSequence

\* A list with one more member.
LEMMA AppendIsSequence ==
  ASSUME NEW s, IsSequence(s), NEW e
  PROVE  LET t == Append(s, e) IN
         /\ IsSequence(t) /\ Len(s) \in Nat /\ Len(t) = Len(s) + 1 /\ DOMAIN t = 1 .. Len(s) + 1
         /\ t[Len(s) + 1] = e /\ \A n \in 1 .. Len(s) : t[n] = s[n]
<1> DEFINE X == Range(s) \cup {e}
           t == Append(s, e)
<1>1. s \in Seq(Range(s)) /\ Range(s) \subseteq X /\ e \in X
  BY DEF IsSequence
<1> HIDE DEF X
<1>2. s \in Seq(X)
  BY <1>1, SeqMonotonic
<1>3. t \in Seq(X) /\ Len(s) \in Nat
  BY <1>1, <1>2, AppendProperties, LenProperties
<1>4. Len(t) = Len(s) + 1 /\ t[Len(s) + 1] = e /\ \A n \in 1 .. Len(s) : t[n] = s[n]
  BY <1>1, <1>2, AppendProperties
<1> HIDE DEF t
<1>5. IsSequence(t) /\ DOMAIN t = 1 .. Len(t)
  BY <1>3, IsSequenceOver, LenProperties
<1> QED
  BY <1>3, <1>4, <1>5 DEF t

\* What one record adds to the results.
LEMMA ResultAppended ==
  ASSUME CursorInv, NEW result, results' = Append(results, result), request' = request,
         Len(results) < Len(Enumerated(request)), Standing(request, cursor'), cursor'.ordinal <= Len(results),
         result.found \in {"none", Enumerated(request)[Len(results) + 1].id},
         result.mapped.looked => result.found # "none"
  PROVE  CursorInv'
<1>1. /\ IsSequence(results') /\ Len(results) \in Nat /\ Len(results') = Len(results) + 1
      /\ DOMAIN results' = 1 .. Len(results) + 1
      /\ results'[Len(results) + 1] = result /\ \A n \in 1 .. Len(results) : results'[n] = results[n]
  BY AppendIsSequence DEF CursorInv
<1>2. DOMAIN results = 1 .. Len(results) /\ IsRequest(request) /\ SameRecord
  BY SequenceDomain DEF CursorInv
<1>3. Len(Enumerated(request)) \in Nat
  BY <1>2, LogsAreLaid DEF LaidLogs
<1>4. cursor'.ordinal \in Nat
  BY DEF Standing, StandsAt
<1>5. Len(results') <= Len(Enumerated(request')) /\ cursor'.ordinal <= Len(results')
  BY <1>1, <1>3, <1>4
<1>6. SameRecord'
  <2> SUFFICES ASSUME NEW n \in DOMAIN results'
               PROVE  /\ results'[n].found \in {"none", Enumerated(request)[n].id}
                      /\ results'[n].mapped.looked => results'[n].found # "none"
    BY DEF SameRecord
  <2>1. CASE n = Len(results) + 1
    BY <1>1, <2>1
  <2>2. CASE n # Len(results) + 1
    <3>1. n \in 1 .. Len(results) /\ results'[n] = results[n]
      BY <1>1, <2>2
    <3> QED
      BY <1>2, <3>1 DEF SameRecord
  <2> QED
    BY <2>1, <2>2
<1> QED
  BY <1>1, <1>2, <1>5, <1>6 DEF CursorInv

\* Every step keeps the cursor where the next lookup can find its record.
LEMMA CursorNext == CursorInv /\ [Next]_vars => CursorInv'
<1> SUFFICES ASSUME CursorInv, [Next]_vars PROVE CursorInv'
  OBVIOUS
<1>1. CASE UNCHANGED <<request, cursor, results>>
  BY <1>1 DEF CursorInv, SameRecord
<1>2. CASE ConsumeRecord
  <2> DEFINE ordinal == Len(results)
             source  == Enumerated(request)[ordinal + 1]
             at      == CursorAt(request, cursor, ordinal)
  <2>1. LaidLogs(request) /\ Len(results) \in Nat /\ Standing(request, cursor) /\ cursor.ordinal <= ordinal
    BY LogsAreLaid, SequenceDomain DEF CursorInv
  <2>2. ordinal < Len(Enumerated(request)) /\ request' = request
    BY <1>2 DEF ConsumeRecord
  <2>3. Standing(request, at.cursor) /\ at.cursor.ordinal = ordinal /\ at.found = source
    BY <2>1, <2>2, CursorFinds
  <2>4. source.id # "none"
    <3>1. Enumerated(request) \in Seq(RecordsOf(request)) /\ IsRequest(request)
      BY LogsAreLaid DEF CursorInv
    <3>2. ordinal + 1 \in 1 .. Len(Enumerated(request))
      BY <2>1, <2>2, <3>1, LenProperties
    <3>3. source \in RecordsOf(request)
      BY <3>1, <3>2, ElementOfSeq
    <3>4. ASSUME NEW r \in RecordsOf(request) PROVE r.id # "none"
      BY <3>1 DEF RecordsOf, Range, IsRequest, IsResource, IsScope
    <3> QED
      BY <3>3, <3>4
  <2>5. PICK error \in NormalizeErrors(source) :
           IF error # ""
           THEN results' = Append(results, Result("normalize", RejectionLabel[error], NoMapping, "none")) /\ UNCHANGED cursor
           ELSE LET record == Normalized(source) IN
                AcceptMapped(record, at, MapResult(mapper, record, Answers(at.found)))
    BY <1>2 DEF ConsumeRecord
  <2>6. CASE error # ""
    <3> DEFINE result == Result("normalize", RejectionLabel[error], NoMapping, "none")
    <3>1. results' = Append(results, result) /\ cursor' = cursor
      BY <2>5, <2>6
    <3>2. result.found = "none" /\ result.mapped.looked = FALSE
      BY DEF Result, NoMapping
    <3> HIDE DEF result
    <3> QED
      BY <2>1, <2>2, <3>1, <3>2, ResultAppended
  <2>7. CASE error = ""
    <3> DEFINE record == Normalized(source)
               mapped == MapResult(mapper, record, Answers(at.found))
               found  == IF mapped.looked THEN at.found.id ELSE "none"
               result == IF mapped.ok THEN Verdict(mapper, record, mapped, found)
                         ELSE Result("mapping", RejectionLabel[mapped.reason], mapped, found)
    <3>1. cursor' = (IF mapped.looked THEN at.cursor ELSE cursor) /\ results' = Append(results, result)
      BY <2>5, <2>7 DEF AcceptMapped
    <3> HIDE DEF mapped, found, record
    <3>2. result.found = found /\ result.mapped = mapped
      BY DEF Verdict, Result
    <3>3. found \in {"none", source.id} /\ (mapped.looked => found # "none")
      BY <2>3, <2>4 DEF found
    <3>4. Standing(request, cursor') /\ cursor'.ordinal <= ordinal
      BY <2>1, <2>3, <3>1
    <3> HIDE DEF result
    <3> QED
      BY <2>2, <3>1, <3>2, <3>3, <3>4, ResultAppended
  <2> QED
    BY <2>6, <2>7
<1>3. CASE CheckConfig \/ CompileMapping \/ BuildResolver \/ BuildDialer \/ BuildRuntime \/ ReturnAnswer
  <2>1. UNCHANGED <<request, cursor, results>>
    BY <1>3 DEF CheckConfig, CompileMapping, BuildResolver, BuildDialer, BuildRuntime, ReturnAnswer, Advance
  <2> QED
    BY <1>1, <2>1
<1>4. CASE UNCHANGED vars
  BY <1>1, <1>4 DEF vars
<1> QED
  BY <1>2, <1>3, <1>4 DEF Next

\* The custom values of a record come from that record: for every request, whatever was skipped,
\* the cursor of the lookups and the count of the normalizer name the same record.
THEOREM RecordsAreTheSame == Spec => []SameRecord
<1>1. CursorInv => SameRecord
  BY DEF CursorInv
<1> QED
  BY <1>1, CursorInit, CursorNext, PTL DEF Spec

-----------------------------------------------------------------------------
(* The rows of a request, and the ones to return.                          *)

\* The rows of a scope, of a resource and of a request are as many as their records.
RowsOf(logs) ==
  UNION {UNION {Range(ScopeRows(logs[i], logs[i].scopes[j])) : j \in DOMAIN logs[i].scopes} : i \in DOMAIN logs}

RowLists(resource) == [j \in DOMAIN resource.scopes |-> ScopeRows(resource, resource.scopes[j])]
RowGroups(logs)    == [i \in DOMAIN logs |-> ResourceRows(logs[i])]

\* Lists of the same lengths have the same offsets.
LEMMA SameOffsets ==
  ASSUME NEW X, NEW Y, NEW ss \in Seq(Seq(X)), NEW tt \in Seq(Seq(Y)), Len(tt) = Len(ss),
         \A i \in 1 .. Len(ss) : Len(tt[i]) = Len(ss[i])
  PROVE  Offsets(tt) = Offsets(ss) /\ Len(FlattenSeq(tt)) = Len(FlattenSeq(ss))
<1>1. DOMAIN ss = 1 .. Len(ss) /\ DOMAIN tt = 1 .. Len(ss)
  BY LenProperties
<1>2. [i \in DOMAIN tt |-> Len(tt[i])] = [i \in DOMAIN ss |-> Len(ss[i])]
  BY <1>1
<1>3. Offsets(tt) = Offsets(ss)
  BY <1>2 DEF Offsets
<1>4. Placed(FlattenSeq(ss), ss, Offsets(ss), Len(ss)) /\ Placed(FlattenSeq(tt), tt, Offsets(tt), Len(tt))
  BY FlattenPlaced
<1>5. Len(FlattenSeq(ss)) = Offsets(ss)[Len(ss)] /\ Len(FlattenSeq(tt)) = Offsets(tt)[Len(tt)]
  BY <1>4 DEF Placed
<1> QED
  BY <1>3, <1>5

\* The rows of a resource.
LEMMA ResourceRowsLaid ==
  ASSUME NEW X, NEW Y, NEW resource, IsSequence(resource.scopes),
         Lists(resource) \in Seq(Seq(X)), Len(Lists(resource)) = Len(resource.scopes),
         \A j \in DOMAIN resource.scopes : ScopeRows(resource, resource.scopes[j]) \in Seq(Y)
  PROVE  /\ RowLists(resource) \in Seq(Seq(Y)) /\ Len(RowLists(resource)) = Len(resource.scopes)
         /\ ResourceRows(resource) = FlattenSeq(RowLists(resource)) /\ ResourceRows(resource) \in Seq(Y)
         /\ Offsets(RowLists(resource)) = Within(resource)
         /\ Len(ResourceRows(resource)) = Len(ResourceRecords(resource))
<1> DEFINE n == Len(resource.scopes)
           ss == Lists(resource)
           tt == RowLists(resource)
<1>1. n \in Nat /\ DOMAIN resource.scopes = 1 .. n
  BY SequenceDomain
<1>2. tt \in [1 .. n -> Seq(Y)] /\ \A j \in 1 .. n : tt[j] = ScopeRows(resource, resource.scopes[j])
  BY <1>1 DEF RowLists
<1>3. tt \in Seq(Seq(Y)) /\ Len(tt) = n
  BY <1>1, <1>2, FunctionIsSequence
<1>4. ASSUME NEW j \in 1 .. n PROVE Len(tt[j]) = Len(ss[j])
  <2>1. ss[j] = resource.scopes[j].records
    BY <1>1 DEF Lists
  <2>2. ss[j] \in Seq(X) /\ tt[j] \in Seq(Y)
    BY <1>2, ElementOfSeq
  <2>3. /\ DOMAIN ss[j] = 1 .. Len(ss[j]) /\ Len(ss[j]) \in Nat
        /\ DOMAIN tt[j] = 1 .. Len(tt[j]) /\ Len(tt[j]) \in Nat
    BY <2>2, LenProperties
  <2>4. DOMAIN tt[j] = DOMAIN ss[j]
    BY <1>2, <2>1 DEF ScopeRows
  <2> QED
    BY <2>3, <2>4
<1>5. FlattenSeq(ss) = ResourceRecords(resource) /\ FlattenSeq(tt) = ResourceRows(resource) /\ Offsets(ss) = Within(resource)
  BY DEF Lists, ResourceRecords, RowLists, ResourceRows, Within
<1> HIDE DEF ss, tt
<1>6. Len(ss) = n /\ ss \in Seq(Seq(X))
  BY DEF ss
<1>7. Offsets(tt) = Offsets(ss) /\ Len(FlattenSeq(tt)) = Len(FlattenSeq(ss))
  BY <1>3, <1>4, <1>6, SameOffsets
<1>8. FlattenSeq(tt) \in Seq(Y)
  BY <1>3, FlattenType
<1> QED
  BY <1>3, <1>5, <1>7, <1>8 DEF tt

\* What the rows of a request are.
LaidRows(logs) ==
  LET Y == RowsOf(logs) IN
  /\ RowGroups(logs) \in Seq(Seq(Y)) /\ Len(RowGroups(logs)) = Len(logs)
  /\ Rows(logs) = FlattenSeq(RowGroups(logs)) /\ Rows(logs) \in Seq(Y)
  /\ Offsets(RowGroups(logs)) = Before(logs) /\ Len(Rows(logs)) = Len(Enumerated(logs))
  /\ \A i \in 1 .. Len(logs) :
       /\ RowLists(logs[i]) \in Seq(Seq(Y)) /\ Len(RowLists(logs[i])) = Len(logs[i].scopes)
       /\ ResourceRows(logs[i]) = FlattenSeq(RowLists(logs[i])) /\ ResourceRows(logs[i]) \in Seq(Y)
       /\ Offsets(RowLists(logs[i])) = Within(logs[i])

\* The rows of a request are laid out like its records.
LEMMA RowsAreLaid ==
  ASSUME NEW logs, IsRequest(logs)
  PROVE  LaidRows(logs)
<1> DEFINE X == RecordsOf(logs)
           Y == RowsOf(logs)
           n == Len(logs)
           ss == Groups(logs)
           tt == RowGroups(logs)
<1>1. n \in Nat /\ DOMAIN logs = 1 .. n
  BY SequenceDomain DEF IsRequest
<1>2. TypedLogs(logs)
  BY LogsAreLaid
<1>3. ASSUME NEW i \in 1 .. n
      PROVE  /\ RowLists(logs[i]) \in Seq(Seq(Y)) /\ Len(RowLists(logs[i])) = Len(logs[i].scopes)
             /\ ResourceRows(logs[i]) = FlattenSeq(RowLists(logs[i])) /\ ResourceRows(logs[i]) \in Seq(Y)
             /\ Offsets(RowLists(logs[i])) = Within(logs[i])
             /\ Len(ResourceRows(logs[i])) = Len(ResourceRecords(logs[i]))
  <2> DEFINE resource == logs[i]
  <2>1. IsSequence(resource.scopes)
    BY <1>1 DEF IsRequest, IsResource
  <2>2. Lists(resource) \in Seq(Seq(X)) /\ Len(Lists(resource)) = Len(resource.scopes)
    BY <1>2 DEF TypedLogs
  <2>3. ASSUME NEW j \in DOMAIN resource.scopes PROVE ScopeRows(resource, resource.scopes[j]) \in Seq(Y)
    <3> DEFINE r == resource.scopes[j].records
               t == ScopeRows(resource, resource.scopes[j])
               R == Range(t)
    <3>1. IsSequence(r)
      BY <1>1 DEF IsRequest, IsResource, IsScope
    <3>2. Len(r) \in Nat /\ DOMAIN r = 1 .. Len(r)
      BY <3>1, SequenceDomain
    <3>3. R \subseteq Y
      BY <1>1 DEF RowsOf
    <3>4. t \in [1 .. Len(r) -> R]
      BY <3>2 DEF ScopeRows, Range
    <3> HIDE DEF t, R, Y, r
    <3>5. t \in Seq(R)
      BY <3>2, <3>4, FunctionIsSequence
    <3>6. t \in Seq(Y)
      BY <3>3, <3>5, SeqMonotonic
    <3> QED
      BY <3>6 DEF t
  <2> HIDE DEF resource, X, Y
  <2>4. /\ RowLists(resource) \in Seq(Seq(Y)) /\ Len(RowLists(resource)) = Len(resource.scopes)
        /\ ResourceRows(resource) = FlattenSeq(RowLists(resource)) /\ ResourceRows(resource) \in Seq(Y)
        /\ Offsets(RowLists(resource)) = Within(resource)
        /\ Len(ResourceRows(resource)) = Len(ResourceRecords(resource))
    BY <2>1, <2>2, <2>3, ResourceRowsLaid
  <2> QED
    BY <2>4 DEF resource
<1> HIDE DEF X, Y
<1>4. \A i \in 1 .. n : ResourceRows(logs[i]) \in Seq(Y) /\ Len(ResourceRows(logs[i])) = Len(ResourceRecords(logs[i]))
  BY <1>3
<1>5. tt \in [1 .. n -> Seq(Y)] /\ \A i \in 1 .. n : tt[i] = ResourceRows(logs[i])
  BY <1>1, <1>4 DEF RowGroups
<1>6. tt \in Seq(Seq(Y)) /\ Len(tt) = n
  BY <1>1, <1>5, FunctionIsSequence
<1>7. ss \in Seq(Seq(X)) /\ Len(ss) = n
  BY <1>2 DEF TypedLogs, X
<1>8. \A i \in 1 .. n : ss[i] = ResourceRecords(logs[i])
  BY <1>1 DEF Groups
<1>9. FlattenSeq(ss) = Enumerated(logs) /\ FlattenSeq(tt) = Rows(logs) /\ Offsets(ss) = Before(logs)
  BY DEF Groups, Enumerated, RowGroups, Rows, Before
<1> HIDE DEF ss, tt
<1>10. \A i \in 1 .. Len(ss) : Len(tt[i]) = Len(ss[i])
  BY <1>4, <1>5, <1>7, <1>8
<1>11. Offsets(tt) = Offsets(ss) /\ Len(FlattenSeq(tt)) = Len(FlattenSeq(ss))
  BY <1>6, <1>7, <1>10, SameOffsets
<1>12. FlattenSeq(tt) \in Seq(Y)
  BY <1>6, FlattenType
<1> QED
  BY <1>3, <1>6, <1>9, <1>11, <1>12 DEF LaidRows, tt, Y

\* The numbers of the records to return, and what is kept of the records of a scope.
Chosen(class) == {n \in Nat : class[n] \in ToReturn}
KeptList(all, K, off) == [k \in DOMAIN all |-> IF off + k \in K THEN <<ReturnedRecord(all[k])>> ELSE <<>>]
Kept(all, K, off) == FlattenSeq(KeptList(all, K, off))

\* A list of one member is not empty.
LEMMA OneIsNotEmpty ==
  ASSUME NEW x
  PROVE  <<x>> # << >>
<1>1. Len(<<x>>) = 1 /\ Len(<< >>) = 0
  BY EmptySeq
<1> QED
  BY <1>1

\* The copies of the kept records, and their number.
LEMMA KeptListTyped ==
  ASSUME NEW all, IsSequence(all), NEW K, NEW off
  PROVE  LET X == {ReturnedRecord(r) : r \in Range(all)}
             oo == KeptList(all, K, off)
         IN  /\ oo \in Seq(Seq(X)) /\ Len(oo) = Len(all) /\ Kept(all, K, off) \in Seq(X)
             /\ \A k \in 1 .. Len(all) : oo[k] = IF off + k \in K THEN <<ReturnedRecord(all[k])>> ELSE <<>>
<1> DEFINE X == {ReturnedRecord(r) : r \in Range(all)}
           oo == KeptList(all, K, off)
<1>1. Len(all) \in Nat /\ DOMAIN all = 1 .. Len(all) /\ \A k \in 1 .. Len(all) : all[k] \in Range(all)
  BY SequenceDomain
<1>2. \A k \in 1 .. Len(all) : ReturnedRecord(all[k]) \in X
  BY <1>1
<1> HIDE DEF X
<1>3. \A k \in 1 .. Len(all) : <<ReturnedRecord(all[k])>> \in Seq(X)
  BY <1>2
<1>4. << >> \in Seq(X)
  BY EmptySeq
<1>5. /\ oo \in [1 .. Len(all) -> Seq(X)]
      /\ \A k \in 1 .. Len(all) : oo[k] = IF off + k \in K THEN <<ReturnedRecord(all[k])>> ELSE <<>>
  BY <1>1, <1>3, <1>4 DEF KeptList
<1> HIDE DEF oo
<1>6. oo \in Seq(Seq(X)) /\ Len(oo) = Len(all)
  BY <1>1, <1>5, FunctionIsSequence
<1>7. FlattenSeq(oo) \in Seq(X)
  BY <1>6, FlattenType
<1> QED
  BY <1>5, <1>6, <1>7 DEF Kept, X, oo

\* The rows of the kept records of a scope are the rows picked from it.
LEMMA KeptRows ==
  ASSUME NEW resource, NEW scope, IsSequence(scope.records), NEW Y, ScopeRows(resource, scope) \in Seq(Y), NEW K, NEW off,
         NEW resource2, resource2.id = resource.id, NEW scope2, scope2.id = scope.id,
         scope2.records = Kept(scope.records, K, off)
  PROVE  ScopeRows(resource2, scope2) = Picked(ScopeRows(resource, scope), K, off)
<1> DEFINE all == scope.records
           n == Len(all)
           X == {ReturnedRecord(r) : r \in Range(all)}
           rows == ScopeRows(resource, scope)
           oo == KeptList(all, K, off)
           tt == Options(rows, K, off)
           xs == [k \in 1 .. n |-> ReturnedRecord(all[k])]
           G == [r \in X |-> <<resource.id, scope.id, r.id>>]
<1>1. n \in Nat /\ DOMAIN all = 1 .. n
  BY SequenceDomain
<1>2. /\ oo \in Seq(Seq(X)) /\ Len(oo) = n /\ FlattenSeq(oo) \in Seq(X) /\ FlattenSeq(oo) = scope2.records
      /\ \A k \in 1 .. n : oo[k] = IF off + k \in K THEN <<ReturnedRecord(all[k])>> ELSE <<>>
  <2>1. FlattenSeq(oo) = Kept(all, K, off) /\ Kept(all, K, off) = scope2.records
    BY DEF Kept
  <2>2. /\ oo \in Seq(Seq(X)) /\ Len(oo) = n /\ Kept(all, K, off) \in Seq(X)
        /\ \A k \in 1 .. n : oo[k] = IF off + k \in K THEN <<ReturnedRecord(all[k])>> ELSE <<>>
    <3> HIDE DEF all
    <3>1. IsSequence(all)
      BY DEF all
    <3> QED BY <3>1, KeptListTyped
  <2> HIDE DEF oo, X, n, all
  <2> QED BY <2>1, <2>2
<1>3. Len(rows) = n /\ \A k \in 1 .. n : rows[k] = <<resource.id, scope.id, all[k].id>> /\ rows[k] \in Y
  <2>1. DOMAIN rows = 1 .. n /\ \A k \in 1 .. n : rows[k] = <<resource.id, scope.id, all[k].id>>
    BY <1>1 DEF ScopeRows
  <2>2. DOMAIN rows = 1 .. Len(rows) /\ Len(rows) \in Nat /\ \A k \in 1 .. Len(rows) : rows[k] \in Y
    BY LenProperties
  <2>3. Len(rows) = n
    BY <1>1, <2>1, <2>2
  <2> QED
    BY <2>1, <2>2, <2>3
<1>4. /\ tt \in Seq(Seq(Y)) /\ Len(tt) = n
      /\ \A k \in 1 .. n : tt[k] = IF off + k \in K THEN <<rows[k]>> ELSE <<>>
  <2> HIDE DEF rows
  <2>1. rows \in Seq(Y)
    BY DEF rows
  <2>2. /\ tt \in Seq(Seq(Y)) /\ Len(tt) = Len(rows)
        /\ \A k \in 1 .. Len(rows) : tt[k] = IF off + k \in K THEN <<rows[k]>> ELSE <<>>
    <3>1. ASSUME NEW t \in Seq(Y)
          PROVE  /\ Options(t, K, off) \in Seq(Seq(Y)) /\ Len(Options(t, K, off)) = Len(t)
                 /\ \A k \in 1 .. Len(t) : Options(t, K, off)[k] = IF off + k \in K THEN <<t[k]>> ELSE <<>>
      BY OptionsProperties
    <3> QED
      BY <2>1, <3>1
  <2> QED
    BY <1>3, <2>2
<1>5. \A r : ReturnedRecord(r).id = r.id
  BY DEF ReturnedRecord
<1>6. ASSUME NEW k \in 1 .. n PROVE xs[k] = ReturnedRecord(all[k]) /\ xs[k] \in X /\ G[xs[k]] = rows[k]
  <2>1. xs[k] = ReturnedRecord(all[k]) /\ all[k] \in Range(all)
    BY SequenceDomain
  <2>2. xs[k] \in X
    BY <2>1
  <2>3. G[xs[k]] = <<resource.id, scope.id, xs[k].id>>
    BY <2>2
  <2>4. xs[k].id = all[k].id
    BY <1>5, <2>1
  <2> QED
    BY <1>3, <2>1, <2>2, <2>3, <2>4
<1>7. Maps(G, X, Y)
  <2>1. ASSUME NEW x \in X PROVE G[x] \in Y
    <3>1. PICK k \in 1 .. n : x = ReturnedRecord(all[k])
      BY <1>1 DEF Range
    <3>2. x = xs[k] /\ G[xs[k]] = rows[k] /\ rows[k] \in Y
      BY <1>3, <1>6, <3>1
    <3> QED
      BY <3>2
  <2> QED
    BY <2>1 DEF Maps
<1>8. ASSUME NEW r \in X PROVE G[r] = <<resource.id, scope.id, r.id>>
  OBVIOUS
<1> HIDE DEF oo, tt, xs, G, X, rows
<1>9. OptionImages(oo, tt, xs, X, G)
  <2> SUFFICES ASSUME NEW k \in 1 .. n
               PROVE  /\ Optional(oo[k], xs[k]) /\ (oo[k] = << >> => tt[k] = << >>)
                      /\ oo[k] # << >> => xs[k] \in X /\ tt[k] = <<G[xs[k]]>>
    BY <1>2 DEF OptionImages
  <2>1. xs[k] = ReturnedRecord(all[k]) /\ xs[k] \in X /\ G[xs[k]] = rows[k]
    BY <1>6
  <2>2. CASE off + k \in K
    <3>1. oo[k] = <<xs[k]>> /\ tt[k] = <<rows[k]>>
      BY <1>2, <1>4, <2>1, <2>2
    <3> QED
      BY <2>1, <3>1, OneIsNotEmpty DEF Optional
  <2>3. CASE off + k \notin K
    <3>1. oo[k] = << >> /\ tt[k] = << >>
      BY <1>2, <1>4, <2>3
    <3> QED
      BY <3>1 DEF Optional
  <2> QED
    BY <2>2, <2>3
<1>10. Image(G, FlattenSeq(oo)) = FlattenSeq(tt)
  <2>1. Len(tt) = Len(oo) /\ oo \in Seq(Seq(X)) /\ tt \in Seq(Seq(Y))
    BY <1>2, <1>4
  <2> QED
    BY <1>7, <1>9, <2>1, ImageOfOptions
<1>11. Image(G, scope2.records) = ScopeRows(resource2, scope2)
  <2> DEFINE kept == scope2.records
  <2>1. kept \in Seq(X)
    BY <1>2
  <2>2. \A k \in DOMAIN kept : kept[k] \in X
    BY <2>1, LenProperties
  <2>3. \A k \in DOMAIN kept : G[kept[k]] = <<resource2.id, scope2.id, kept[k].id>>
    BY <1>8, <2>2
  <2> QED
    BY <2>3 DEF Image, ScopeRows
<1> QED
  BY <1>2, <1>10, <1>11 DEF Picked, tt, rows

\* returnedSubset counts the records as the normalizer does.
LEMMA OrdinalIsNth ==
  ASSUME NEW logs, LaidLogs(logs), TypedLogs(logs), NEW i \in 1 .. Len(logs), NEW j \in 1 .. Len(logs[i].scopes), NEW k \in Nat
  PROVE  /\ OrdinalOf(logs, i, j, k) + 1 = (Before(logs)[i - 1] + Within(logs[i])[j - 1]) + k
         /\ Before(logs)[i - 1] \in Nat /\ Within(logs[i])[j - 1] \in Nat
<1> DEFINE X == RecordsOf(logs)
           gg == Groups(logs)
           ll == Lists(logs[i])
           A == Sum([h \in 1 .. i - 1 |-> Len(ResourceRecords(logs[h]))])
           B == Sum([h \in 1 .. j - 1 |-> Len(logs[i].scopes[h].records)])
<1>1. /\ Len(logs) \in Nat /\ DOMAIN logs = 1 .. Len(logs) /\ LaidResource(logs[i])
  BY DEF LaidLogs
<1>2. Len(logs[i].scopes) \in Nat /\ DOMAIN logs[i].scopes = 1 .. Len(logs[i].scopes)
  BY <1>1 DEF LaidResource
<1>3. gg \in Seq(Seq(X)) /\ Len(gg) = Len(logs) /\ ll \in Seq(Seq(X)) /\ Len(ll) = Len(logs[i].scopes)
  BY DEF TypedLogs
<1>4. i - 1 \in 0 .. Len(gg) /\ j - 1 \in 0 .. Len(ll)
  BY <1>1, <1>2, <1>3
<1>5. [h \in 1 .. i - 1 |-> Len(ResourceRecords(logs[h]))] = [h \in 1 .. i - 1 |-> Len(gg[h])]
  BY <1>1 DEF Groups
<1>6. [h \in 1 .. j - 1 |-> Len(logs[i].scopes[h].records)] = [h \in 1 .. j - 1 |-> Len(ll[h])]
  BY <1>2 DEF Lists
<1>7. A = Before(logs)[i - 1]
  <2> HIDE DEF gg, X
  <2>1. Sum([h \in 1 .. i - 1 |-> Len(gg[h])]) = Offsets(gg)[i - 1]
    BY <1>3, <1>4, OffsetIsSum
  <2> QED
    BY <1>5, <2>1 DEF Before, gg
<1>8. B = Within(logs[i])[j - 1]
  <2> HIDE DEF ll, X
  <2>1. Sum([h \in 1 .. j - 1 |-> Len(ll[h])]) = Offsets(ll)[j - 1]
    BY <1>3, <1>4, OffsetIsSum
  <2> QED
    BY <1>6, <2>1 DEF Within, ll
<1>9. OrdinalOf(logs, i, j, k) = A + B + k - 1
  BY DEF OrdinalOf
<1>10. Before(logs)[i - 1] \in Nat /\ Within(logs[i])[j - 1] \in Nat
  <2>1. j \in 1 .. Len(logs[i].scopes) + 1
    BY <1>2
  <2> QED
    BY <2>1, LaidAt
<1> HIDE DEF A, B
<1>11. OrdinalOf(logs, i, j, k) + 1 = (A + B) + k
  <2>1. A \in Nat /\ B \in Nat
    BY <1>7, <1>8, <1>10, Zenon
  <2> QED BY <1>9, <2>1, FromOne
<1>12. (A + B) + k = (Before(logs)[i - 1] + Within(logs[i])[j - 1]) + k
  BY <1>7, <1>8
<1> HIDE DEF OrdinalOf
<1>13. OrdinalOf(logs, i, j, k) + 1 = (Before(logs)[i - 1] + Within(logs[i])[j - 1]) + k
  BY <1>11, <1>12, Zenon
<1> QED
  BY <1>10, <1>13, Zenon

\* So the records returned of a scope are the chosen ones.
LEMMA RecordsKept ==
  ASSUME NEW logs, IsRequest(logs), NEW class, NEW i \in 1 .. Len(logs), NEW j \in 1 .. Len(logs[i].scopes)
  PROVE  ReturnedRecords(logs, class, i, j)
           = Kept(logs[i].scopes[j].records, Chosen(class), Before(logs)[i - 1] + Within(logs[i])[j - 1])
<1> DEFINE all == logs[i].scopes[j].records
           off == Before(logs)[i - 1] + Within(logs[i])[j - 1]
           K == Chosen(class)
<1>1. LaidLogs(logs) /\ TypedLogs(logs)
  BY LogsAreLaid
<1>2. LaidResource(logs[i])
  BY <1>1 DEF LaidLogs
<1>3. DOMAIN all = 1 .. Len(all)
  BY <1>2 DEF LaidResource
<1>4. ASSUME NEW k \in DOMAIN all PROVE (class[OrdinalOf(logs, i, j, k) + 1] \in ToReturn) <=> off + k \in K
  <2>1. k \in Nat
    BY <1>3
  <2>2. OrdinalOf(logs, i, j, k) + 1 = off + k /\ off \in Nat
    <3>1. /\ OrdinalOf(logs, i, j, k) + 1 = (Before(logs)[i - 1] + Within(logs[i])[j - 1]) + k
          /\ Before(logs)[i - 1] \in Nat /\ Within(logs[i])[j - 1] \in Nat
      BY <1>1, <2>1, OrdinalIsNth
    <3> DEFINE b == Before(logs)[i - 1]
               w == Within(logs[i])[j - 1]
    <3>2. b \in Nat /\ w \in Nat
      BY <3>1
    <3> HIDE DEF b, w
    <3>3. b + w \in Nat
      BY <3>2
    <3> QED BY <3>1, <3>3 DEF b, w
  <2> HIDE DEF off
  <2>3. off + k \in Nat
    BY <2>1, <2>2
  <2> QED
    BY <2>2, <2>3 DEF Chosen
<1> HIDE DEF off, K
<1>5. [k \in DOMAIN all |-> IF class[OrdinalOf(logs, i, j, k) + 1] \in ToReturn THEN <<ReturnedRecord(all[k])>> ELSE <<>>]
      = KeptList(all, K, off)
  BY <1>4 DEF KeptList
<1> QED
  BY <1>5 DEF ReturnedRecords, Kept, K, off

\* The copy of a scope and of a resource, made when a record of it is returned.
ScopeCopy(logs, class, i, j) ==
  [id |-> logs[i].scopes[j].id, attrs |-> DetachMap(logs[i].scopes[j].attrs), records |-> ReturnedRecords(logs, class, i, j)]
ResourceCopy(logs, class, i) ==
  [id |-> logs[i].id, attrs |-> DetachMap(logs[i].attrs), scopes |-> ReturnedScopes(logs, class, i)]

ScopeOptions(logs, class, i) ==
  [j \in DOMAIN logs[i].scopes |->
     IF ReturnedRecords(logs, class, i, j) = <<>> THEN <<>> ELSE <<ScopeCopy(logs, class, i, j)>>]
ResourceOptions(logs, class) ==
  [i \in DOMAIN logs |-> IF ReturnedScopes(logs, class, i) = <<>> THEN <<>> ELSE <<ResourceCopy(logs, class, i)>>]

ScopeCopies(logs, class, i) == {ScopeCopy(logs, class, i, j) : j \in 1 .. Len(logs[i].scopes)}
ResourceCopies(logs, class) == {ResourceCopy(logs, class, i) : i \in 1 .. Len(logs)}

\* The returned scopes of a resource are the copies of those that return a record.
LEMMA ScopeOptionsTyped ==
  ASSUME NEW logs, NEW class, NEW i, IsSequence(logs[i].scopes)
  PROVE  LET X == ScopeCopies(logs, class, i)
             oo == ScopeOptions(logs, class, i)
         IN  /\ oo \in Seq(Seq(X)) /\ Len(oo) = Len(logs[i].scopes)
             /\ ReturnedScopes(logs, class, i) = FlattenSeq(oo) /\ FlattenSeq(oo) \in Seq(X)
             /\ \A j \in 1 .. Len(logs[i].scopes) :
                  oo[j] = IF ReturnedRecords(logs, class, i, j) = <<>> THEN <<>> ELSE <<ScopeCopy(logs, class, i, j)>>
<1> DEFINE X == ScopeCopies(logs, class, i)
           oo == ScopeOptions(logs, class, i)
           n == Len(logs[i].scopes)
<1>1. n \in Nat /\ DOMAIN logs[i].scopes = 1 .. n
  BY SequenceDomain
<1>2. \A j \in 1 .. n : ScopeCopy(logs, class, i, j) \in X
  BY DEF ScopeCopies
<1>3. ReturnedScopes(logs, class, i) = FlattenSeq(oo)
  BY DEF ReturnedScopes, ScopeOptions, ScopeCopy
<1> HIDE DEF X
<1>4. << >> \in Seq(X) /\ \A j \in 1 .. n : <<ScopeCopy(logs, class, i, j)>> \in Seq(X)
  BY <1>2, EmptySeq
<1>5. /\ oo \in [1 .. n -> Seq(X)]
      /\ \A j \in 1 .. n :
           oo[j] = IF ReturnedRecords(logs, class, i, j) = <<>> THEN <<>> ELSE <<ScopeCopy(logs, class, i, j)>>
  BY <1>1, <1>4 DEF ScopeOptions
<1> HIDE DEF oo
<1>6. oo \in Seq(Seq(X)) /\ Len(oo) = n
  BY <1>1, <1>5, FunctionIsSequence
<1>7. FlattenSeq(oo) \in Seq(X)
  BY <1>6, FlattenType
<1> QED
  BY <1>3, <1>5, <1>6, <1>7 DEF X, oo

\* The returned resources are the copies of those that return a scope.
LEMMA ResourceOptionsTyped ==
  ASSUME NEW logs, NEW class, IsSequence(logs)
  PROVE  LET X == ResourceCopies(logs, class)
             oo == ResourceOptions(logs, class)
         IN  /\ oo \in Seq(Seq(X)) /\ Len(oo) = Len(logs)
             /\ ReturnedSubset(logs, class) = FlattenSeq(oo) /\ FlattenSeq(oo) \in Seq(X)
             /\ \A i \in 1 .. Len(logs) :
                  oo[i] = IF ReturnedScopes(logs, class, i) = <<>> THEN <<>> ELSE <<ResourceCopy(logs, class, i)>>
<1> DEFINE X == ResourceCopies(logs, class)
           oo == ResourceOptions(logs, class)
           n == Len(logs)
<1>1. n \in Nat /\ DOMAIN logs = 1 .. n
  BY SequenceDomain
<1>2. \A i \in 1 .. n : ResourceCopy(logs, class, i) \in X
  BY DEF ResourceCopies
<1>3. ReturnedSubset(logs, class) = FlattenSeq(oo)
  BY DEF ReturnedSubset, ResourceOptions, ResourceCopy
<1> HIDE DEF X
<1>4. << >> \in Seq(X) /\ \A i \in 1 .. n : <<ResourceCopy(logs, class, i)>> \in Seq(X)
  BY <1>2, EmptySeq
<1>5. /\ oo \in [1 .. n -> Seq(X)]
      /\ \A i \in 1 .. n : oo[i] = IF ReturnedScopes(logs, class, i) = <<>> THEN <<>> ELSE <<ResourceCopy(logs, class, i)>>
  BY <1>1, <1>4 DEF ResourceOptions
<1> HIDE DEF oo
<1>6. oo \in Seq(Seq(X)) /\ Len(oo) = n
  BY <1>1, <1>5, FunctionIsSequence
<1>7. FlattenSeq(oo) \in Seq(X)
  BY <1>6, FlattenType
<1> QED
  BY <1>3, <1>5, <1>6, <1>7 DEF X, oo

\* A scope without records has no rows.
LEMMA ImageOverEmpty ==
  ASSUME NEW scope, scope.records = << >>, NEW resource
  PROVE  ScopeRows(resource, scope) = << >>
<1>1. Len(<< >>) = 0 /\ DOMAIN << >> = 1 .. 0
  BY EmptySeq
<1>2. ScopeRows(resource, scope) \in [1 .. 0 -> {}]
  BY <1>1 DEF ScopeRows
<1>3. ScopeRows(resource, scope) \in Seq({}) /\ Len(ScopeRows(resource, scope)) = 0
  BY <1>2, FunctionIsSequence
<1> QED
  BY <1>3, EmptySeq

\* The rows of a copied scope are the rows picked from the scope.
LEMMA ScopeCopyRows ==
  ASSUME NEW logs, IsRequest(logs), NEW class, NEW i \in 1 .. Len(logs), NEW j \in 1 .. Len(logs[i].scopes),
         NEW resource2, resource2.id = logs[i].id
  PROVE  /\ ScopeRows(resource2, ScopeCopy(logs, class, i, j))
              = Picked(RowLists(logs[i])[j], Chosen(class), Before(logs)[i - 1] + Within(logs[i])[j - 1])
         /\ ScopeRows(resource2, ScopeCopy(logs, class, i, j)) \in Seq(RowsOf(logs))
<1> DEFINE resource == logs[i]
           scope == logs[i].scopes[j]
           scope2 == ScopeCopy(logs, class, i, j)
           K == Chosen(class)
           off == Before(logs)[i - 1] + Within(logs[i])[j - 1]
           Y == RowsOf(logs)
<1>1. DOMAIN logs = 1 .. Len(logs) /\ IsResource(logs[i]) /\ DOMAIN logs[i].scopes = 1 .. Len(logs[i].scopes)
  BY SequenceDomain DEF IsRequest, IsResource
<1>2. IsSequence(scope.records)
  BY <1>1 DEF IsResource, IsScope
<1>3. RowLists(logs[i])[j] = ScopeRows(resource, scope)
  BY <1>1 DEF RowLists
<1>4. ScopeRows(resource, scope) \in Seq(Y)
  <2>1. RowLists(logs[i]) \in Seq(Seq(Y)) /\ Len(RowLists(logs[i])) = Len(logs[i].scopes)
    BY RowsAreLaid DEF LaidRows
  <2>2. RowLists(logs[i])[j] \in Seq(Y)
    BY <2>1, ElementOfSeq
  <2> QED
    BY <1>3, <2>2
<1>5. scope2.id = scope.id /\ scope2.records = ReturnedRecords(logs, class, i, j)
  BY DEF ScopeCopy
<1>6. ReturnedRecords(logs, class, i, j) = Kept(scope.records, K, off)
  BY RecordsKept
<1>7. resource2.id = resource.id
  OBVIOUS
<1> HIDE DEF resource, scope, scope2, K, off, Y
<1>8. ScopeRows(resource2, scope2) = Picked(ScopeRows(resource, scope), K, off)
  BY <1>2, <1>4, <1>5, <1>6, <1>7, KeptRows
<1>9. Picked(ScopeRows(resource, scope), K, off) \in Seq(Y)
  BY <1>4, PickedType
<1> QED
  BY <1>3, <1>8, <1>9 DEF scope2, K, off, Y

\* Members of a resource's copy are rows of its own.
LEMMA ResourceCopyRows ==
  ASSUME NEW logs, IsRequest(logs), NEW class, NEW i \in 1 .. Len(logs)
  PROVE  /\ ResourceRows(ResourceCopy(logs, class, i)) = Picked(RowGroups(logs)[i], Chosen(class), Before(logs)[i - 1])
         /\ ResourceRows(ResourceCopy(logs, class, i)) \in Seq(RowsOf(logs))
<1> DEFINE resource2 == ResourceCopy(logs, class, i)
           n == Len(logs[i].scopes)
           Y == RowsOf(logs)
           K == Chosen(class)
           off == Before(logs)[i - 1]
           X == ScopeCopies(logs, class, i)
           oo == ScopeOptions(logs, class, i)
           ss == RowLists(logs[i])
           xs == [j \in 1 .. n |-> ScopeCopy(logs, class, i, j)]
           G == [x \in X |-> ScopeRows(resource2, x)]
<1>1. DOMAIN logs = 1 .. Len(logs) /\ IsSequence(logs[i].scopes)
  BY SequenceDomain DEF IsRequest, IsResource
<1>2. resource2.id = logs[i].id /\ resource2.scopes = ReturnedScopes(logs, class, i)
  BY DEF ResourceCopy
<1>3. /\ oo \in Seq(Seq(X)) /\ Len(oo) = n /\ resource2.scopes = FlattenSeq(oo) /\ FlattenSeq(oo) \in Seq(X)
      /\ \A j \in 1 .. n :
           oo[j] = IF ReturnedRecords(logs, class, i, j) = <<>> THEN <<>> ELSE <<ScopeCopy(logs, class, i, j)>>
  BY <1>1, <1>2, ScopeOptionsTyped
<1>4. /\ ss \in Seq(Seq(Y)) /\ Len(ss) = n /\ ResourceRows(logs[i]) = FlattenSeq(ss) /\ ResourceRows(logs[i]) \in Seq(Y)
      /\ Offsets(ss) = Within(logs[i])
  BY RowsAreLaid DEF LaidRows
<1>5. RowGroups(logs)[i] = ResourceRows(logs[i])
  BY <1>1 DEF RowGroups
<1>6. LaidLogs(logs) /\ off \in Nat
  <2>1. LaidLogs(logs)
    BY LogsAreLaid
  <2>2. Len(logs) \in Nat /\ Before(logs) \in [0 .. Len(logs) -> Nat]
    BY <2>1 DEF LaidLogs
  <2>3. i - 1 \in 0 .. Len(logs)
    BY <2>2
  <2> QED
    BY <2>1, <2>2, <2>3
<1>7. ASSUME NEW j \in 1 .. n
      PROVE  /\ xs[j] = ScopeCopy(logs, class, i, j) /\ xs[j] \in X
             /\ ScopeRows(resource2, xs[j]) = Picked(ss[j], K, off + Offsets(ss)[j - 1])
             /\ ScopeRows(resource2, xs[j]) \in Seq(Y)
  <2>1. xs[j] = ScopeCopy(logs, class, i, j) /\ xs[j] \in X
    BY DEF ScopeCopies
  <2> HIDE DEF xs, resource2
  <2>2. /\ ScopeRows(resource2, ScopeCopy(logs, class, i, j)) = Picked(ss[j], K, off + Within(logs[i])[j - 1])
        /\ ScopeRows(resource2, ScopeCopy(logs, class, i, j)) \in Seq(Y)
    BY <1>2, ScopeCopyRows
  <2> QED
    BY <1>4, <2>1, <2>2
<1>8. ASSUME NEW x \in X PROVE \E j \in 1 .. n : x = xs[j]
  BY DEF ScopeCopies
<1>9. \A x \in X : G[x] = ScopeRows(resource2, x)
  OBVIOUS
<1>10. Maps(G, X, Seq(Y))
  <2>1. ASSUME NEW x \in X PROVE ScopeRows(resource2, x) \in Seq(Y)
    <3> HIDE DEF xs, X, Y, resource2
    <3> QED
      BY <1>7, <1>8
  <2> QED
    BY <2>1 DEF Maps
<1>11. \A j \in 1 .. n : ScopeCopy(logs, class, i, j).records = ReturnedRecords(logs, class, i, j)
  BY DEF ScopeCopy
<1> HIDE DEF X, oo, ss, xs, G, resource2, Y, K, off
<1>12. KeptOptions(oo, xs, X, G, ss, K, off)
  <2> SUFFICES ASSUME NEW j \in 1 .. n
               PROVE  LET picked == Picked(ss[j], K, off + Offsets(ss)[j - 1]) IN
                      /\ Optional(oo[j], xs[j]) /\ (oo[j] = << >> => picked = << >>)
                      /\ oo[j] # << >> => xs[j] \in X /\ G[xs[j]] = picked
    BY <1>3 DEF KeptOptions
  <2> DEFINE picked == Picked(ss[j], K, off + Offsets(ss)[j - 1])
  <2> HIDE DEF picked
  <2>1. xs[j] \in X /\ ScopeRows(resource2, xs[j]) = picked /\ G[xs[j]] = picked
    BY <1>7, <1>9 DEF picked
  <2>2. CASE ReturnedRecords(logs, class, i, j) = <<>>
    <3>1. oo[j] = << >> /\ xs[j].records = << >>
      BY <1>3, <1>7, <1>11, <2>2
    <3>2. ScopeRows(resource2, xs[j]) = << >>
      BY <3>1, ImageOverEmpty
    <3> QED
      BY <2>1, <3>1, <3>2 DEF Optional, picked
  <2>3. CASE ReturnedRecords(logs, class, i, j) # <<>>
    <3>1. oo[j] = <<xs[j]>>
      BY <1>3, <1>7, <2>3
    <3> QED
      BY <2>1, <3>1, OneIsNotEmpty DEF Optional, picked
  <2> QED
    BY <2>2, <2>3
<1>13. FlattenSeq(Image(G, FlattenSeq(oo))) = Picked(FlattenSeq(ss), K, off)
  <2>1. ss \in Seq(Seq(Y)) /\ off \in Nat /\ oo \in Seq(Seq(X)) /\ Len(oo) = Len(ss)
    BY <1>3, <1>4, <1>6
  <2> QED
    BY <1>10, <1>12, <2>1, KeptGroups
<1>14. FlattenSeq(Image(G, resource2.scopes)) = ResourceRows(resource2)
  <2> DEFINE kept == resource2.scopes
  <2>1. kept \in Seq(X)
    BY <1>3
  <2>2. \A j \in DOMAIN kept : kept[j] \in X
    BY <2>1, LenProperties
  <2>3. \A j \in DOMAIN kept : G[kept[j]] = ScopeRows(resource2, kept[j])
    BY <1>9, <2>2
  <2>4. Image(G, kept) = [j \in DOMAIN kept |-> ScopeRows(resource2, kept[j])]
    BY <2>3 DEF Image
  <2> QED
    BY <2>4 DEF ResourceRows
<1>15. ResourceRows(resource2) = Picked(ResourceRows(logs[i]), K, off)
  BY <1>3, <1>4, <1>13, <1>14
<1>16. Picked(ResourceRows(logs[i]), K, off) \in Seq(Y)
  BY <1>4, PickedType
<1> QED
  BY <1>5, <1>15, <1>16 DEF resource2, K, off, Y

\* The rows of the returned subset are the chosen rows of the request.
LEMMA SubsetRows ==
  ASSUME NEW logs, IsRequest(logs), NEW class
  PROVE  Rows(ReturnedSubset(logs, class)) = Picked(Rows(logs), Chosen(class), 0)
<1> DEFINE n == Len(logs)
           returned == ReturnedSubset(logs, class)
           Y == RowsOf(logs)
           K == Chosen(class)
           X == ResourceCopies(logs, class)
           oo == ResourceOptions(logs, class)
           ss == RowGroups(logs)
           xs == [i \in 1 .. n |-> ResourceCopy(logs, class, i)]
           G == [x \in X |-> ResourceRows(x)]
<1>1. IsSequence(logs)
  BY DEF IsRequest
<1>3. /\ oo \in Seq(Seq(X)) /\ Len(oo) = n /\ returned = FlattenSeq(oo) /\ FlattenSeq(oo) \in Seq(X)
      /\ \A i \in 1 .. n : oo[i] = IF ReturnedScopes(logs, class, i) = <<>> THEN <<>> ELSE <<ResourceCopy(logs, class, i)>>
  BY <1>1, ResourceOptionsTyped
<1>4. ss \in Seq(Seq(Y)) /\ Len(ss) = n /\ Rows(logs) = FlattenSeq(ss) /\ Offsets(ss) = Before(logs)
  BY RowsAreLaid DEF LaidRows
<1>6. ASSUME NEW i \in 1 .. n PROVE Before(logs)[i - 1] \in Nat
  <2>1. LaidLogs(logs)
    BY LogsAreLaid
  <2>2. Len(logs) \in Nat /\ Before(logs) \in [0 .. Len(logs) -> Nat]
    BY <2>1 DEF LaidLogs
  <2>3. i - 1 \in 0 .. Len(logs)
    BY <2>2
  <2> QED
    BY <2>2, <2>3
<1>7. ASSUME NEW i \in 1 .. n
      PROVE  /\ xs[i] = ResourceCopy(logs, class, i) /\ xs[i] \in X
             /\ ResourceRows(xs[i]) = Picked(ss[i], K, 0 + Offsets(ss)[i - 1])
             /\ ResourceRows(xs[i]) \in Seq(Y)
  <2>1. xs[i] = ResourceCopy(logs, class, i) /\ xs[i] \in X
    BY DEF ResourceCopies
  <2> HIDE DEF xs
  <2>2. /\ ResourceRows(ResourceCopy(logs, class, i)) = Picked(ss[i], K, Before(logs)[i - 1])
        /\ ResourceRows(ResourceCopy(logs, class, i)) \in Seq(Y)
    BY ResourceCopyRows
  <2>3. 0 + Offsets(ss)[i - 1] = Before(logs)[i - 1]
    BY <1>4, <1>6
  <2> QED
    BY <2>1, <2>2, <2>3
<1>8. ASSUME NEW x \in X PROVE \E i \in 1 .. n : x = xs[i]
  BY DEF ResourceCopies
<1>9. \A x \in X : G[x] = ResourceRows(x)
  OBVIOUS
<1>10. Maps(G, X, Seq(Y))
  <2>1. ASSUME NEW x \in X PROVE ResourceRows(x) \in Seq(Y)
    <3> HIDE DEF xs, X, Y
    <3> QED
      BY <1>7, <1>8
  <2> QED
    BY <2>1 DEF Maps
<1>11. ASSUME NEW i \in 1 .. n, ReturnedScopes(logs, class, i) = << >>
       PROVE  ResourceRows(ResourceCopy(logs, class, i)) = << >>
  <2> DEFINE r == ResourceCopy(logs, class, i)
  <2>1. r.scopes = << >>
    BY <1>11 DEF ResourceCopy
  <2>2. Len(<< >>) = 0 /\ DOMAIN << >> = 1 .. 0
    BY EmptySeq
  <2> HIDE DEF r
  <2> DEFINE f == [j \in DOMAIN r.scopes |-> ScopeRows(r, r.scopes[j])]
  <2>3. f \in [1 .. 0 -> {}]
    BY <2>1, <2>2
  <2> HIDE DEF f
  <2>4. f \in Seq({}) /\ Len(f) = 0
    BY <2>3, FunctionIsSequence
  <2>5. f = << >>
    BY <2>4, EmptySeq
  <2>6. FlattenSeq(f) = << >>
    BY <2>5, FlattenOfEmpty
  <2> QED
    BY <2>6 DEF f, r, ResourceRows
<1> HIDE DEF X, oo, ss, xs, G, Y, K, returned
<1>12. KeptOptions(oo, xs, X, G, ss, K, 0)
  <2> SUFFICES ASSUME NEW i \in 1 .. n
               PROVE  LET picked == Picked(ss[i], K, 0 + Offsets(ss)[i - 1]) IN
                      /\ Optional(oo[i], xs[i]) /\ (oo[i] = << >> => picked = << >>)
                      /\ oo[i] # << >> => xs[i] \in X /\ G[xs[i]] = picked
    BY <1>3 DEF KeptOptions
  <2> DEFINE picked == Picked(ss[i], K, 0 + Offsets(ss)[i - 1])
  <2> HIDE DEF picked
  <2>1. xs[i] \in X /\ ResourceRows(xs[i]) = picked /\ G[xs[i]] = picked /\ xs[i] = ResourceCopy(logs, class, i)
    BY <1>7, <1>9 DEF picked
  <2>2. CASE ReturnedScopes(logs, class, i) = <<>>
    <3>1. oo[i] = << >> /\ ResourceRows(xs[i]) = << >>
      BY <1>3, <1>11, <2>1, <2>2
    <3> QED
      BY <2>1, <3>1 DEF Optional, picked
  <2>3. CASE ReturnedScopes(logs, class, i) # <<>>
    <3>1. oo[i] = <<xs[i]>>
      BY <1>3, <2>1, <2>3
    <3> QED
      BY <2>1, <3>1, OneIsNotEmpty DEF Optional, picked
  <2> QED
    BY <2>2, <2>3
<1>13. FlattenSeq(Image(G, FlattenSeq(oo))) = Picked(FlattenSeq(ss), K, 0)
  <2>1. ss \in Seq(Seq(Y)) /\ 0 \in Nat /\ oo \in Seq(Seq(X)) /\ Len(oo) = Len(ss)
    BY <1>3, <1>4
  <2> QED
    BY <1>10, <1>12, <2>1, KeptGroups
<1>14. FlattenSeq(Image(G, returned)) = Rows(returned)
  <2>1. returned \in Seq(X)
    BY <1>3
  <2>2. \A i \in DOMAIN returned : returned[i] \in X
    BY <2>1, LenProperties
  <2>3. \A i \in DOMAIN returned : G[returned[i]] = ResourceRows(returned[i])
    BY <1>9, <2>2
  <2>4. Image(G, returned) = [i \in DOMAIN returned |-> ResourceRows(returned[i])]
    BY <2>3 DEF Image
  <2> QED
    BY <2>4 DEF Rows
<1> QED
  BY <1>3, <1>4, <1>13, <1>14 DEF returned, K

-----------------------------------------------------------------------------
(* Every envelope once, and memory of its own.                             *)

\* Every returned scope is a copy of one scope, and each at most once.
LEMMA CopiedScopes ==
  ASSUME NEW logs, IsRequest(logs), NEW class, NEW i \in 1 .. Len(logs)
  PROVE  LET s == ReturnedScopes(logs, class, i) IN
         /\ \A p \in DOMAIN s : \E j \in 1 .. Len(logs[i].scopes) : s[p] = ScopeCopy(logs, class, i, j)
         /\ \A p, q \in DOMAIN s : s[p].id = s[q].id => p = q
<1> DEFINE n == Len(logs[i].scopes)
           X == ScopeCopies(logs, class, i)
           oo == ScopeOptions(logs, class, i)
           s == FlattenSeq(oo)
           xs == [j \in 1 .. n |-> ScopeCopy(logs, class, i, j)]
<1>1. DOMAIN logs = 1 .. Len(logs) /\ IsResource(logs[i]) /\ IsSequence(logs[i].scopes) /\ DOMAIN logs[i].scopes = 1 .. n
  BY SequenceDomain DEF IsRequest, IsResource
<1>2. /\ oo \in Seq(Seq(X)) /\ Len(oo) = n /\ ReturnedScopes(logs, class, i) = s /\ s \in Seq(X)
      /\ \A j \in 1 .. n :
           oo[j] = IF ReturnedRecords(logs, class, i, j) = <<>> THEN <<>> ELSE <<ScopeCopy(logs, class, i, j)>>
  BY <1>1, ScopeOptionsTyped
<1>3. \A j \in 1 .. n : xs[j] = ScopeCopy(logs, class, i, j) /\ xs[j].id = logs[i].scopes[j].id
  BY DEF ScopeCopy
<1>4. \A j, k \in 1 .. n : logs[i].scopes[j].id = logs[i].scopes[k].id => j = k
  BY <1>1 DEF IsResource
<1> HIDE DEF X, oo, xs
<1>5. AreOptional(oo, xs)
  BY <1>2, <1>3 DEF AreOptional, Optional
<1>6. AreNamed(xs, Len(oo))
  BY <1>2, <1>3, <1>4 DEF AreNamed
<1>7. oo \in Seq(Seq(X))
  BY <1>2
<1>8. /\ \A p \in DOMAIN s : \E j \in 1 .. Len(oo) : s[p] = xs[j]
      /\ \A p, q \in DOMAIN s : s[p].id = s[q].id => p = q
  BY <1>5, <1>6, <1>7, FlattenOptions
<1> HIDE DEF s
<1>9. ASSUME NEW p \in DOMAIN s PROVE \E j \in 1 .. n : s[p] = ScopeCopy(logs, class, i, j)
  <2>1. PICK j \in 1 .. Len(oo) : s[p] = xs[j]
    BY <1>8
  <2>2. j \in 1 .. n /\ Len(oo) = n
    BY <1>2
  <2>3. xs[j] = ScopeCopy(logs, class, i, j)
    BY <1>3, <2>2
  <2> QED
    BY <2>1, <2>2, <2>3
<1> QED
  BY <1>2, <1>8, <1>9

\* Every returned resource is a copy of one resource, and each at most once.
LEMMA CopiedResources ==
  ASSUME NEW logs, IsRequest(logs), NEW class
  PROVE  LET s == ReturnedSubset(logs, class) IN
         /\ \A p \in DOMAIN s : \E i \in 1 .. Len(logs) : s[p] = ResourceCopy(logs, class, i)
         /\ \A p, q \in DOMAIN s : s[p].id = s[q].id => p = q
<1> DEFINE n == Len(logs)
           X == ResourceCopies(logs, class)
           oo == ResourceOptions(logs, class)
           s == FlattenSeq(oo)
           xs == [i \in 1 .. n |-> ResourceCopy(logs, class, i)]
<1>1. DOMAIN logs = 1 .. n /\ IsSequence(logs)
  BY SequenceDomain DEF IsRequest
<1>2. /\ oo \in Seq(Seq(X)) /\ Len(oo) = n /\ ReturnedSubset(logs, class) = s /\ s \in Seq(X)
      /\ \A i \in 1 .. n : oo[i] = IF ReturnedScopes(logs, class, i) = <<>> THEN <<>> ELSE <<ResourceCopy(logs, class, i)>>
  BY <1>1, ResourceOptionsTyped
<1>3. \A i \in 1 .. n : xs[i] = ResourceCopy(logs, class, i) /\ xs[i].id = logs[i].id
  BY DEF ResourceCopy
<1>4. \A i, k \in 1 .. n : logs[i].id = logs[k].id => i = k
  BY <1>1 DEF IsRequest
<1> HIDE DEF X, oo, xs
<1>5. AreOptional(oo, xs)
  BY <1>2, <1>3 DEF AreOptional, Optional
<1>6. AreNamed(xs, Len(oo))
  BY <1>2, <1>3, <1>4 DEF AreNamed
<1>7. oo \in Seq(Seq(X))
  BY <1>2
<1>8. /\ \A p \in DOMAIN s : \E i \in 1 .. Len(oo) : s[p] = xs[i]
      /\ \A p, q \in DOMAIN s : s[p].id = s[q].id => p = q
  BY <1>5, <1>6, <1>7, FlattenOptions
<1> HIDE DEF s
<1>9. \A p \in DOMAIN s : \E i \in 1 .. n : s[p] = ResourceCopy(logs, class, i)
  BY <1>2, <1>3, <1>8
<1> QED
  BY <1>2, <1>8, <1>9

\* How often the octets of a map were copied, before and after they get memory of their own.
LEMMA MapCopies ==
  ASSUME NEW attrs, IsMap(attrs)
  PROVE  /\ \A m \in MapBackings(attrs) : m.copies = 0
         /\ \A m \in MapBackings(DetachMap(attrs)) : m.copies = 1
<1>1. ASSUME NEW key \in DOMAIN attrs, NEW m \in Backings(attrs[key]) PROVE m.copies = 0
  BY DEF IsMap, Backings, Range
<1>2. ASSUME NEW key \in DOMAIN attrs, NEW m \in Backings(Detached(attrs[key])) PROVE m.copies = 1
  <2> DEFINE v == attrs[key]
             w == Detached(v)
  <2>1. /\ v.backing.copies = 0 /\ \A p \in DOMAIN v.below : v.below[p].backing.copies = 0
        /\ DOMAIN v.below = IF v.type \in Containers THEN Reached(v.below) ELSE {}
    BY DEF IsMap
  <2> HIDE DEF v
  <2>2. w.type = v.type /\ w.backing = Own(v)
    BY DEF Detached
  <2>3. DOMAIN w.below = DOMAIN v.below
    BY DEF Detached
  <2>4. \A p \in DOMAIN v.below : w.below[p] = [type |-> v.below[p].type, backing |-> Own(v.below[p])]
    BY <2>1 DEF Detached
  <2>5. ASSUME NEW x, x.type = "bytes", x.backing.copies = 0 PROVE Own(x).copies = 1
    BY <2>5 DEF Own, Copied
  <2>6. PICK x \in {w} \cup Range(w.below) : x.type = "bytes" /\ m = x.backing
    BY DEF Backings, v
  <2> HIDE DEF w
  <2>7. CASE x = w
    <3>1. v.type = "bytes" /\ m = Own(v)
      BY <2>2, <2>6, <2>7
    <3> QED
      BY <2>1, <2>5, <3>1
  <2>8. CASE x \in Range(w.below)
    <3>1. PICK p \in DOMAIN w.below : x = w.below[p]
      BY <2>8 DEF Range
    <3> DEFINE y == v.below[p]
    <3>2. p \in DOMAIN v.below /\ x = [type |-> y.type, backing |-> Own(y)] /\ y.backing.copies = 0
      BY <2>1, <2>3, <2>4, <3>1
    <3> HIDE DEF y
    <3>3. y.type = "bytes" /\ m = Own(y)
      BY <2>6, <3>2
    <3> QED
      BY <2>5, <3>2, <3>3
  <2> QED
    BY <2>6, <2>7, <2>8
<1>3. DOMAIN DetachMap(attrs) = DOMAIN attrs /\ \A key \in DOMAIN attrs : DetachMap(attrs)[key] = Detached(attrs[key])
  BY DEF DetachMap
<1> QED
  BY <1>1, <1>2, <1>3 DEF MapBackings

\* The maps of a request were all copied n times.
AllCopied(logs, n) ==
  \A i \in DOMAIN logs :
    /\ \A m \in MapBackings(logs[i].attrs) : m.copies = n
    /\ \A j \in DOMAIN logs[i].scopes :
         /\ \A m \in MapBackings(logs[i].scopes[j].attrs) : m.copies = n
         /\ \A k \in DOMAIN logs[i].scopes[j].records : \A m \in MapBackings(logs[i].scopes[j].records[k].attrs) : m.copies = n

\* Then all memory of a request was copied as often.
LEMMA CopiesCounted ==
  ASSUME NEW logs, NEW n, AllCopied(logs, n), NEW m \in RequestBackings(logs)
  PROVE  m.copies = n
BY DEF AllCopied, RequestBackings

\* Nothing in a request was copied.
LEMMA RequestCopies ==
  ASSUME NEW logs, IsRequest(logs)
  PROVE  AllCopied(logs, 0)
<1> SUFFICES ASSUME NEW i \in DOMAIN logs
             PROVE  /\ \A m \in MapBackings(logs[i].attrs) : m.copies = 0
                    /\ \A j \in DOMAIN logs[i].scopes :
                         /\ \A m \in MapBackings(logs[i].scopes[j].attrs) : m.copies = 0
                         /\ \A k \in DOMAIN logs[i].scopes[j].records :
                              \A m \in MapBackings(logs[i].scopes[j].records[k].attrs) : m.copies = 0
  BY DEF AllCopied
<1>1. IsMap(logs[i].attrs) /\ \A j \in DOMAIN logs[i].scopes : IsScope(logs[i].scopes[j])
  BY DEF IsRequest, IsResource
<1>2. \A m \in MapBackings(logs[i].attrs) : m.copies = 0
  BY <1>1, MapCopies
<1>3. ASSUME NEW j \in DOMAIN logs[i].scopes
      PROVE  /\ \A m \in MapBackings(logs[i].scopes[j].attrs) : m.copies = 0
             /\ \A k \in DOMAIN logs[i].scopes[j].records :
                  \A m \in MapBackings(logs[i].scopes[j].records[k].attrs) : m.copies = 0
  <2> DEFINE scope == logs[i].scopes[j]
  <2>1. IsMap(scope.attrs) /\ \A k \in DOMAIN scope.records : IsMap(scope.records[k].attrs)
    BY <1>1 DEF IsScope
  <2> HIDE DEF scope
  <2>2. \A m \in MapBackings(scope.attrs) : m.copies = 0
    BY <2>1, MapCopies
  <2>3. \A k \in DOMAIN scope.records : \A m \in MapBackings(scope.records[k].attrs) : m.copies = 0
    BY <2>1, MapCopies
  <2> QED
    BY <2>2, <2>3 DEF scope
<1> QED
  BY <1>2, <1>3

\* Everything in what is returned was copied once.
LEMMA SubsetCopies ==
  ASSUME NEW logs, IsRequest(logs), NEW class
  PROVE  AllCopied(ReturnedSubset(logs, class), 1)
<1> DEFINE s == ReturnedSubset(logs, class)
<1> SUFFICES ASSUME NEW p \in DOMAIN s
             PROVE  /\ \A m \in MapBackings(s[p].attrs) : m.copies = 1
                    /\ \A q \in DOMAIN s[p].scopes :
                         /\ \A m \in MapBackings(s[p].scopes[q].attrs) : m.copies = 1
                         /\ \A k \in DOMAIN s[p].scopes[q].records :
                              \A m \in MapBackings(s[p].scopes[q].records[k].attrs) : m.copies = 1
  BY DEF AllCopied
<1>1. PICK i \in 1 .. Len(logs) : s[p] = ResourceCopy(logs, class, i)
  BY CopiedResources
<1> HIDE DEF s
<1>2. s[p].attrs = DetachMap(logs[i].attrs) /\ s[p].scopes = ReturnedScopes(logs, class, i)
  BY <1>1 DEF ResourceCopy
<1>3. IsResource(logs[i])
  BY SequenceDomain DEF IsRequest
<1>4. \A m \in MapBackings(s[p].attrs) : m.copies = 1
  <2>1. IsMap(logs[i].attrs)
    BY <1>3 DEF IsResource
  <2> QED
    BY <1>2, <2>1, MapCopies
<1>5. ASSUME NEW q \in DOMAIN s[p].scopes
      PROVE  /\ \A m \in MapBackings(s[p].scopes[q].attrs) : m.copies = 1
             /\ \A k \in DOMAIN s[p].scopes[q].records :
                  \A m \in MapBackings(s[p].scopes[q].records[k].attrs) : m.copies = 1
  <2> DEFINE t == s[p].scopes[q]
  <2>1. PICK j \in 1 .. Len(logs[i].scopes) : t = ScopeCopy(logs, class, i, j)
    <3>1. \A h \in DOMAIN ReturnedScopes(logs, class, i) :
            \E j \in 1 .. Len(logs[i].scopes) : ReturnedScopes(logs, class, i)[h] = ScopeCopy(logs, class, i, j)
      BY CopiedScopes
    <3> QED
      BY <1>2, <3>1
  <2> HIDE DEF t
  <2> DEFINE scope == logs[i].scopes[j]
  <2>2. t.attrs = DetachMap(scope.attrs) /\ t.records = ReturnedRecords(logs, class, i, j)
    BY <2>1 DEF ScopeCopy
  <2>3. IsScope(scope)
    BY <1>3, SequenceDomain DEF IsResource
  <2>4. t.records = Kept(scope.records, Chosen(class), Before(logs)[i - 1] + Within(logs[i])[j - 1])
    BY <2>2, RecordsKept
  <2> HIDE DEF scope
  <2>5. IsMap(scope.attrs) /\ IsSequence(scope.records) /\ \A k \in DOMAIN scope.records : IsMap(scope.records[k].attrs)
    BY <2>3 DEF IsScope
  <2>6. \A m \in MapBackings(t.attrs) : m.copies = 1
    BY <2>2, <2>5, MapCopies
  <2>7. ASSUME NEW k \in DOMAIN t.records PROVE \A m \in MapBackings(t.records[k].attrs) : m.copies = 1
    <3> DEFINE X == {ReturnedRecord(r) : r \in Range(scope.records)}
    <3>1. t.records \in Seq(X)
      BY <2>4, <2>5, KeptListTyped
    <3>2. t.records[k] \in X
      <4> HIDE DEF X
      <4> QED
        BY <3>1, LenProperties
    <3>3. PICK h \in DOMAIN scope.records : t.records[k] = ReturnedRecord(scope.records[h])
      BY <3>2 DEF Range
    <3>4. t.records[k].attrs = DetachMap(scope.records[h].attrs)
      BY <3>3 DEF ReturnedRecord
    <3> QED
      BY <2>5, <3>4, MapCopies
  <2> QED
    BY <2>6, <2>7 DEF t
<1> QED
  BY <1>4, <1>5

\* What returnedSubset promises, for every classification.
LEMMA ReturnedIsChosen ==
  ASSUME NEW logs, IsRequest(logs), NEW class
  PROVE  LET s == ReturnedSubset(logs, class) IN
         /\ Rows(s) = Picked(Rows(logs), Chosen(class), 0)
         /\ \A i, j \in DOMAIN s : s[i].id = s[j].id => i = j
         /\ \A i \in DOMAIN s : \A j, k \in DOMAIN s[i].scopes : s[i].scopes[j].id = s[i].scopes[k].id => j = k
         /\ RequestBackings(s) \cap RequestBackings(logs) = {}
<1> DEFINE s == ReturnedSubset(logs, class)
<1>1. Rows(s) = Picked(Rows(logs), Chosen(class), 0)
  BY SubsetRows
<1>2. /\ \A p \in DOMAIN s : \E i \in 1 .. Len(logs) : s[p] = ResourceCopy(logs, class, i)
      /\ \A p, q \in DOMAIN s : s[p].id = s[q].id => p = q
  BY CopiedResources
<1>3. ASSUME NEW p \in DOMAIN s
      PROVE  \A j, k \in DOMAIN s[p].scopes : s[p].scopes[j].id = s[p].scopes[k].id => j = k
  <2>1. PICK i \in 1 .. Len(logs) : s[p] = ResourceCopy(logs, class, i)
    BY <1>2
  <2>2. s[p].scopes = ReturnedScopes(logs, class, i)
    BY <2>1 DEF ResourceCopy
  <2> DEFINE t == ReturnedScopes(logs, class, i)
  <2>3. \A j, k \in DOMAIN t : t[j].id = t[k].id => j = k
    BY CopiedScopes
  <2> QED
    BY <2>2, <2>3
<1>4. RequestBackings(s) \cap RequestBackings(logs) = {}
  <2>1. AllCopied(s, 1) /\ AllCopied(logs, 0)
    BY SubsetCopies, RequestCopies
  <2> HIDE DEF s
  <2>2. ASSUME NEW m \in RequestBackings(s), m \in RequestBackings(logs) PROVE FALSE
    <3>1. m.copies = 1
      BY <2>1, CopiesCounted
    <3>2. m.copies = 0
      BY <2>1, <2>2, CopiesCounted
    <3> QED
      BY <3>1, <3>2
  <2> QED
    BY <2>2
<1> HIDE DEF s
<1>5. \A i \in DOMAIN s : \A j, k \in DOMAIN s[i].scopes : s[i].scopes[j].id = s[i].scopes[k].id => j = k
  BY <1>3
<1> QED
  BY <1>1, <1>2, <1>4, <1>5 DEF s

-----------------------------------------------------------------------------
(* The answer is the ledger's.                                             *)

\* No record is worth a retry when every valid one was confirmed.
LEMMA AllConfirmed ==
  ASSUME IsSequence(results), NEW confirmed, NEW handed,
         confirmed = Cardinality({n \in DOMAIN results : results[n].stage = "valid"}),
         NEW n \in DOMAIN results
  PROVE  Classified(confirmed, handed)[n] \notin ToReturn
<1> DEFINE V == {i \in DOMAIN results : results[i].stage = "valid"}
           U == {i \in 1 .. n : results[i].stage = "valid"}
<1>1. Len(results) \in Nat /\ DOMAIN results = 1 .. Len(results)
  BY SequenceDomain
<1>2. U \subseteq V
  BY <1>1
<1>3. IsFiniteSet(V)
  <2>1. IsFiniteSet(1 .. Len(results)) /\ V \subseteq 1 .. Len(results)
    BY <1>1, FS_Interval
  <2> QED
    BY <2>1, FS_Subset
<1>4. Cardinality(U) <= Cardinality(V)
  BY <1>2, <1>3, FS_Subset
<1>5. Classified(confirmed, handed)[n] =
        IF results[n].stage # "valid" THEN "rejected"
        ELSE IF Cardinality(U) <= confirmed THEN "confirmed" ELSE IF Cardinality(U) <= handed THEN "ambiguous" ELSE "unsent"
  BY DEF Classified
<1>6. Cardinality(U) <= confirmed
  BY <1>4
<1>7. Classified(confirmed, handed)[n] \in {"rejected", "confirmed"}
  BY <1>5, <1>6
<1> QED
  BY <1>7 DEF ToReturn

\* The rows that SubsetIsLedger asks for.
Due(logs, class) ==
  LET rows == Rows(logs) IN FlattenSeq([n \in DOMAIN rows |-> IF class[n] \in ToReturn THEN <<rows[n]>> ELSE <<>>])

\* They are the rows at the ordinals to return.
LEMMA DueIsPicked ==
  ASSUME NEW logs, IsRequest(logs), NEW class
  PROVE  Due(logs, class) = Picked(Rows(logs), Chosen(class), 0)
<1> DEFINE rows == Rows(logs)
<1>1. Rows(logs) \in Seq(RowsOf(logs))
  BY RowsAreLaid DEF LaidRows
<1>2. DOMAIN rows = 1 .. Len(rows) /\ Len(rows) \in Nat
  BY <1>1, LenProperties
<1> HIDE DEF rows
<1>3. ASSUME NEW n \in DOMAIN rows PROVE (class[n] \in ToReturn) <=> 0 + n \in Chosen(class)
  <2>1. n \in Nat /\ 0 + n = n
    BY <1>2
  <2> QED
    BY <2>1 DEF Chosen
<1>4. [n \in DOMAIN rows |-> IF class[n] \in ToReturn THEN <<rows[n]>> ELSE <<>>] = Options(rows, Chosen(class), 0)
  BY <1>3 DEF Options
<1> QED
  BY <1>4 DEF Due, Picked, rows

\* Without an ordinal to return nothing is due.
LEMMA NothingDue ==
  ASSUME NEW logs, IsRequest(logs), NEW class, \A n \in 1 .. Len(Enumerated(logs)) : class[n] \notin ToReturn
  PROVE  Due(logs, class) = << >>
<1> DEFINE rows == Rows(logs)
           K == Chosen(class)
           Y == RowsOf(logs)
           oo == Options(rows, K, 0)
<1>1. rows \in Seq(Y) /\ Len(rows) = Len(Enumerated(logs))
  BY RowsAreLaid DEF LaidRows
<1> HIDE DEF rows, Y
<1>2. ASSUME NEW t \in Seq(Y)
      PROVE  /\ Options(t, K, 0) \in Seq(Seq(Y)) /\ Len(Options(t, K, 0)) = Len(t)
             /\ \A n \in 1 .. Len(t) : Options(t, K, 0)[n] = IF 0 + n \in K THEN <<t[n]>> ELSE <<>>
  <2> HIDE DEF K
  <2> QED
    BY OptionsProperties
<1>3. ASSUME NEW n \in 1 .. Len(rows) PROVE oo[n] = << >>
  <2>1. class[n] \notin ToReturn
    BY <1>1
  <2>2. n \in Nat /\ 0 + n = n
    <3>1. Len(rows) \in Nat
      BY <1>1, LenProperties
    <3> QED
      BY <3>1
  <2>3. 0 + n \notin K
    BY <2>1, <2>2 DEF Chosen
  <2> HIDE DEF K
  <2> QED
    BY <1>1, <1>2, <2>3
<1>4. oo \in Seq(Seq(Y)) /\ Len(oo) = Len(rows)
  BY <1>1, <1>2
<1> HIDE DEF oo
<1>5. FlattenSeq(oo) = << >>
  BY <1>3, <1>4, FlattenOfEmpties
<1> QED
  BY <1>5, DueIsPicked DEF Picked, oo, K, rows

\* Nothing in the empty subset.
LEMMA EmptyRequest ==
  /\ DOMAIN << >> = {} /\ Rows(<< >>) = << >>
  /\ \A logs : RequestBackings(<< >>) \cap RequestBackings(logs) = {}
<1>1. Len(<< >>) = 0 /\ DOMAIN << >> = 1 .. 0 /\ 1 .. 0 = {}
  BY EmptySeq
<1>2. RequestBackings(<< >>) = {}
  BY <1>1 DEF RequestBackings
<1> DEFINE f == [i \in DOMAIN << >> |-> ResourceRows(<< >>[i])]
<1>3. f \in [1 .. 0 -> {}]
  BY <1>1
<1> HIDE DEF f
<1>4. f \in Seq({}) /\ Len(f) = 0
  BY <1>3, FunctionIsSequence
<1>5. f = << >>
  BY <1>4, EmptySeq
<1>6. FlattenSeq(f) = << >>
  BY <1>5, FlattenOfEmpty
<1> QED
  BY <1>1, <1>2, <1>6 DEF Rows, f

\* The answer of the exporter is what the ledger has due.
LEMMA AnswerIsLedger ==
  ASSUME CursorInv, ReturnAnswer
  PROVE  SubsetIsLedger'
<1>1. /\ phase = "ready" /\ Len(results) = Len(Enumerated(request)) /\ request' = request
      /\ IsRequest(request) /\ IsSequence(results)
  BY DEF ReturnAnswer, CursorInv
<1> DEFINE valid == Cardinality({n \in DOMAIN results : results[n].stage = "valid"})
<1>2. PICK confirmed \in 0 .. valid : \E handed \in confirmed .. valid :
         /\ classes' = Classified(confirmed, handed)
         /\ subset'  = IF confirmed = valid THEN <<>> ELSE ReturnedSubset(request, Classified(confirmed, handed))
  BY DEF ReturnAnswer
<1>3. PICK handed \in confirmed .. valid :
         /\ classes' = Classified(confirmed, handed)
         /\ subset'  = IF confirmed = valid THEN <<>> ELSE ReturnedSubset(request, Classified(confirmed, handed))
  BY <1>2
<1> DEFINE class == Classified(confirmed, handed)
<1>4. ASSUME /\ Rows(subset') = Due(request, class)
             /\ \A i, j \in DOMAIN subset' : subset'[i].id = subset'[j].id => i = j
             /\ \A i \in DOMAIN subset' : \A j, k \in DOMAIN subset'[i].scopes :
                  subset'[i].scopes[j].id = subset'[i].scopes[k].id => j = k
             /\ RequestBackings(subset') \cap RequestBackings(request) = {}
      PROVE  SubsetIsLedger'
  <2>1. classes' = class /\ request' = request
    BY <1>1, <1>3
  <2> HIDE DEF class
  <2> QED
    BY <1>4, <2>1 DEF SubsetIsLedger, Due
<1>5. CASE confirmed = valid
  <2>1. subset' = << >>
    BY <1>3, <1>5
  <2>2. \A n \in 1 .. Len(Enumerated(request)) : class[n] \notin ToReturn
    <3>1. DOMAIN results = 1 .. Len(Enumerated(request))
      BY <1>1, SequenceDomain
    <3> QED
      BY <1>1, <1>5, <3>1, AllConfirmed
  <2> HIDE DEF class
  <2>3. Due(request, class) = << >>
    BY <1>1, <2>2, NothingDue
  <2> QED
    BY <1>4, <2>1, <2>3, EmptyRequest
<1>6. CASE confirmed # valid
  <2> DEFINE s == ReturnedSubset(request, class)
  <2>1. subset' = s
    BY <1>3, <1>6
  <2> HIDE DEF class
  <2>2. Due(request, class) = Picked(Rows(request), Chosen(class), 0)
    BY <1>1, DueIsPicked
  <2>3. /\ Rows(s) = Picked(Rows(request), Chosen(class), 0)
        /\ \A i, j \in DOMAIN s : s[i].id = s[j].id => i = j
        /\ \A i \in DOMAIN s : \A j, k \in DOMAIN s[i].scopes : s[i].scopes[j].id = s[i].scopes[k].id => j = k
        /\ RequestBackings(s) \cap RequestBackings(request) = {}
    BY <1>1, ReturnedIsChosen
  <2> HIDE DEF s
  <2> QED
    BY <1>4, <2>1, <2>2, <2>3
<1> QED
  BY <1>5, <1>6

\* No other step changes the answer.
LEMMA LedgerNext == CursorInv /\ SubsetIsLedger /\ [Next]_vars => SubsetIsLedger'
<1> SUFFICES ASSUME CursorInv, SubsetIsLedger, [Next]_vars PROVE SubsetIsLedger'
  OBVIOUS
<1>1. CASE ReturnAnswer
  BY <1>1, AnswerIsLedger
<1>2. CASE CheckConfig \/ CompileMapping \/ BuildResolver \/ BuildDialer \/ BuildRuntime \/ ConsumeRecord
  <2>1. phase' # "answered"
    BY <1>2 DEF CheckConfig, CompileMapping, BuildResolver, BuildDialer, BuildRuntime, ConsumeRecord, Advance
  <2> QED
    BY <2>1 DEF SubsetIsLedger
<1>3. CASE UNCHANGED vars
  BY <1>3 DEF vars, SubsetIsLedger
<1> QED
  BY <1>1, <1>2, <1>3 DEF Next

\* What a retry gets is exactly the ambiguous and unsent records: for every request and every
\* classification, returnedSubset keeps their order and their envelopes, each envelope once, and
\* shares no octets with the request.
THEOREM ReturnedIsLedger == Spec => []SubsetIsLedger
<1>1. Init => SubsetIsLedger
  BY DEF Init, SubsetIsLedger
<1> QED
  BY <1>1, CursorInit, CursorNext, LedgerNext, PTL DEF Spec

-----------------------------------------------------------------------------
(* Sequences of checks.                                                    *)

Passes(s) == \A i \in DOMAIN s : ~s[i].bad

\* The first failed place is a failed one.
LEMMA FailedIsBad ==
  ASSUME NEW s, NEW n \in Nat, DOMAIN s = 1 .. n, NEW k \in 1 .. n, s[k].bad
  PROVE  Failed(s) \in 1 .. n /\ s[Failed(s)].bad
<1> DEFINE F == {i \in DOMAIN s : s[i].bad}
<1>1. F \subseteq Nat /\ k \in F
  OBVIOUS
<1>2. PICK i \in F : \A j \in F : <<j, i>> \notin OpToRel(<, Nat)
  BY <1>1, NatLessThanWellFounded, WFMin
<1> HIDE DEF F
<1>3. ASSUME NEW j \in F PROVE i <= j
  <2>1. i \in Nat /\ j \in Nat
    BY <1>1
  <2>2. ~(j < i)
    BY <1>2, <2>1 DEF OpToRel
  <2> QED BY <2>1, <2>2
<1>4. Failed(s) \in F
  BY <1>1, <1>3 DEF Failed, F
<1> QED BY <1>4 DEF F

\* A sequence of which none fails has no first failure, and the other way around.
LEMMA FirstPasses ==
  ASSUME NEW s, NEW n \in Nat, DOMAIN s = 1 .. n, ~First(s).bad
  PROVE  Passes(s)
<1> SUFFICES ASSUME NEW k \in 1 .. n, s[k].bad PROVE FALSE
  BY DEF Passes
<1>1. Failed(s) \in 1 .. n /\ s[Failed(s)].bad
  BY FailedIsBad
<1> QED BY <1>1 DEF First

\* A sequence of checks that pass has nothing to report.
LEMMA PassesFirst ==
  ASSUME NEW s, Passes(s)
  PROVE  Failed(s) = 0 /\ First(s) = Passed
<1>1. Failed(s) = 0
  BY DEF Failed, Passes
<1> QED BY <1>1 DEF First

\* The union of the ranges holds the members of two sequences.
LEMMA OverCommonSet ==
  ASSUME NEW s, NEW t, IsSequence(s), IsSequence(t)
  PROVE  s \in Seq(Range(s) \cup Range(t)) /\ t \in Seq(Range(s) \cup Range(t))
<1> DEFINE S == Range(s) \cup Range(t)
<1>1. s \in Seq(Range(s)) /\ t \in Seq(Range(t)) /\ Range(s) \subseteq S /\ Range(t) \subseteq S
  BY DEF IsSequence
<1> HIDE DEF S
<1>2. ASSUME NEW A, A \subseteq S, NEW u \in Seq(A) PROVE u \in Seq(S)
  BY <1>2
<1>3. s \in Seq(S) /\ t \in Seq(S)
  BY <1>1, <1>2
<1> QED BY <1>3 DEF S

\* A sequence over a set is one over its range.
LEMMA SequenceOver ==
  ASSUME NEW S, NEW s \in Seq(S)
  PROVE  IsSequence(s) /\ DOMAIN s = 1 .. Len(s) /\ Len(s) \in Nat
<1>1. Len(s) \in Nat /\ s \in [1 .. Len(s) -> S]
  BY LenProperties
<1>2. s \in [1 .. Len(s) -> Range(s)]
  BY <1>1 DEF Range
<1>3. s \in Seq(Range(s))
  BY <1>1, <1>2, FunctionIsSequence
<1> QED BY <1>1, <1>3 DEF IsSequence

\* A failed check has a diagnostic of its own.
Tells(x, protocol) ==
  x.bad => x.path \in DiagnosticRules(x.code) /\ (x.path = "templates.id_base" => protocol # "v5")

\* A list of checks with that property.
Reports(s, protocol) == IsSequence(s) /\ \A i \in DOMAIN s : Tells(s[i], protocol)

\* One list of checks after another.
LEMMA ChecksConcat ==
  ASSUME NEW s, NEW t, NEW protocol, Reports(s, protocol), Reports(t, protocol)
  PROVE  Reports(s \o t, protocol) /\ (Passes(s \o t) => Passes(s) /\ Passes(t))
<1> DEFINE u == s \o t
           S == Range(s) \cup Range(t)
<1>0. s \in Seq(S) /\ t \in Seq(S)
  BY OverCommonSet DEF Reports
<1> HIDE DEF S
<1>1. /\ u \in Seq(S) /\ Len(u) = Len(s) + Len(t)
      /\ \A i \in 1 .. Len(s) + Len(t) : u[i] = IF i <= Len(s) THEN s[i] ELSE t[i - Len(s)]
  BY <1>0, ConcatProperties
<1>2. DOMAIN u = 1 .. Len(u) /\ DOMAIN s = 1 .. Len(s) /\ DOMAIN t = 1 .. Len(t) /\ Len(s) \in Nat /\ Len(t) \in Nat
      /\ IsSequence(u)
  BY <1>0, <1>1, SequenceOver
<1> HIDE DEF u
<1>3. ASSUME NEW i \in 1 .. Len(s) PROVE i \in DOMAIN u /\ u[i] = s[i]
  BY <1>1, <1>2
<1>4. ASSUME NEW i \in 1 .. Len(t) PROVE Len(s) + i \in DOMAIN u /\ u[Len(s) + i] = t[i]
  <2>1. Len(s) + i \in 1 .. Len(s) + Len(t) /\ ~(Len(s) + i <= Len(s)) /\ (Len(s) + i) - Len(s) = i
    BY <1>2
  <2> QED BY <1>1, <1>2, <2>1
<1>5. Passes(u) => Passes(s) /\ Passes(t)
  BY <1>2, <1>3, <1>4 DEF Passes
<1>6. ASSUME NEW i \in DOMAIN u PROVE Tells(u[i], protocol)
  <2>1. i \in 1 .. Len(s) + Len(t)
    BY <1>1, <1>2
  <2>2. CASE i <= Len(s)
    <3>1. i \in DOMAIN s /\ u[i] = s[i]
      BY <1>1, <1>2, <2>1, <2>2
    <3> QED BY <3>1 DEF Reports
  <2>3. CASE ~(i <= Len(s))
    <3>1. i - Len(s) \in DOMAIN t /\ u[i] = t[i - Len(s)]
      BY <1>1, <1>2, <2>1, <2>3
    <3> QED BY <3>1 DEF Reports
  <2> QED BY <2>2, <2>3
<1>7. Reports(u, protocol)
  BY <1>2, <1>6 DEF Reports
<1> QED BY <1>5, <1>7 DEF u

\* The same for the lists that the members of another give.
LEMMA ChecksFlatten ==
  ASSUME NEW ss, NEW n \in Nat, NEW protocol, DOMAIN ss = 1 .. n, IsSequence(ss), \A i \in 1 .. n : Reports(ss[i], protocol)
  PROVE  Reports(FlattenSeq(ss), protocol) /\ (Passes(FlattenSeq(ss)) => \A i \in 1 .. n : Passes(ss[i]))
<1> DEFINE X == UNION {Range(ss[i]) : i \in 1 .. n}
           f == FlattenSeq(ss)
<1>0. Len(ss) = n /\ ss \in [1 .. n -> Range(ss)]
  <2>1. Len(ss) \in Nat /\ ss \in [1 .. Len(ss) -> Range(ss)]
    BY LenProperties DEF IsSequence
  <2> QED BY <2>1
<1>1. ss \in Seq(Seq(X))
  <2>1. ASSUME NEW i \in 1 .. n PROVE ss[i] \in Seq(X)
    <3> DEFINE A == Range(ss[i])
    <3>1. ss[i] \in Seq(A) /\ A \subseteq X
      BY DEF Reports, IsSequence
    <3> HIDE DEF A, X
    <3> QED BY <3>1
  <2>2. ss \in [1 .. n -> Seq(X)]
    BY <1>0, <2>1
  <2> QED BY <2>2, FunctionIsSequence
<1> HIDE DEF X
<1>2. AreLengths(Offsets(ss), ss) /\ Placed(f, ss, Offsets(ss), Len(ss)) /\ f \in Seq(X)
  BY <1>1, FlattenPlaced
<1>3. IsSequence(f) /\ DOMAIN f = 1 .. Len(f) /\ Len(f) \in Nat
  BY <1>2, SequenceOver
<1>4. ASSUME NEW p \in DOMAIN f PROVE Tells(f[p], protocol)
  <2>1. p \in 1 .. Len(FlattenSeq(ss))
    BY <1>3
  <2>2. PICK i \in 1 .. Len(ss) : \E j \in 1 .. Len(ss[i]) : p = Offsets(ss)[i - 1] + j /\ FlattenSeq(ss)[p] = ss[i][j]
    BY <1>1, <2>1, FlattenMember
  <2>3. PICK j \in 1 .. Len(ss[i]) : FlattenSeq(ss)[p] = ss[i][j]
    BY <2>2
  <2>4. ss[i] \in Seq(X) /\ Reports(ss[i], protocol)
    BY <1>0, <1>1
  <2>5. j \in DOMAIN ss[i]
    BY <2>4
  <2> QED BY <2>3, <2>4, <2>5 DEF Reports
<1>5. ASSUME Passes(f), NEW i \in 1 .. n PROVE Passes(ss[i])
  <2> DEFINE o == Offsets(ss)[i - 1]
             t == ss[i]
  <2>1. /\ Len(f) = Offsets(ss)[Len(ss)] /\ Offsets(ss)[i] <= Offsets(ss)[Len(ss)]
        /\ \A j \in 1 .. Len(t) : f[o + j] = t[j]
    BY <1>0, <1>2 DEF Placed
  <2>2. Offsets(ss)[i] = o + Len(t) /\ o \in Nat /\ Offsets(ss)[i] \in Nat
    <3>1. i - 1 \in 0 .. Len(ss) /\ i \in 0 .. Len(ss)
      BY <1>0
    <3> QED BY <1>0, <1>2, <3>1 DEF AreLengths
  <2>3. DOMAIN t = 1 .. Len(t) /\ Len(t) \in Nat
    BY <1>0, <1>1
  <2>4. \A k \in 1 .. Len(f) : ~f[k].bad
    BY <1>3, <1>5 DEF Passes
  <2> HIDE DEF f, o, t
  <2>5. ASSUME NEW j \in 1 .. Len(t) PROVE ~t[j].bad
    <3>1. o + j \in 1 .. Len(f)
      BY <1>3, <2>1, <2>2, <2>3
    <3>2. ~f[o + j].bad
      BY <2>4, <3>1
    <3> QED BY <2>1, <3>2
  <2>6. Passes(t)
    BY <2>3, <2>5 DEF Passes
  <2> QED BY <2>6 DEF t
<1> QED BY <1>3, <1>4, <1>5 DEF Reports

\* The error of a list of checks has a diagnostic.
LEMMA FirstTells ==
  ASSUME NEW s, NEW protocol, Reports(s, protocol)
  PROVE  Tells(First(s), protocol) /\ (~First(s).bad => Passes(s))
<1>1. s \in Seq(Range(s))
  BY DEF Reports, IsSequence
<1>2. DOMAIN s = 1 .. Len(s) /\ Len(s) \in Nat
  BY <1>1, SequenceOver
<1>3. CASE Passes(s)
  <2>1. First(s) = Passed
    BY <1>3, PassesFirst
  <2>2. ~Passed.bad
    BY DEF Passed, Check
  <2> QED BY <1>3, <2>1, <2>2 DEF Tells
<1>4. CASE ~Passes(s)
  <2>1. PICK k \in 1 .. Len(s) : s[k].bad
    BY <1>2, <1>4 DEF Passes
  <2>2. Failed(s) \in 1 .. Len(s) /\ s[Failed(s)].bad
    BY <1>2, <2>1, FailedIsBad
  <2>3. First(s) = s[Failed(s)]
    BY <2>2 DEF First
  <2>4. Tells(First(s), protocol) /\ First(s).bad
    BY <1>2, <2>2, <2>3 DEF Reports
  <2> QED BY <2>4
<1> QED BY <1>3, <1>4

-----------------------------------------------------------------------------
(* The compiler's errors.                                                  *)

\* Every code and path the compiler puts together has a rule.
LEMMA Rules ==
  /\ "mapping.schema" \in DiagnosticRules("schema") /\ "mapping.profile" \in DiagnosticRules("profile")
  /\ "mapping.loss_policy" \in DiagnosticRules("policy")
  /\ \A p \in {"mapping.fields", "mapping.selector", "mapping.fields.canonical", "mapping.fields.target"} :
       p \in DiagnosticRules("selector")
  /\ \A p \in {"mapping.protocol_identifiers", "mapping.network_type_versions"} : p \in DiagnosticRules("token")
  /\ \A p \in {"mapping.input_guarantees.flow_io_bytes", "mapping.protocol_identifiers",
               "mapping.network_type_versions", "mapping.uptime_origin"} : p \in DiagnosticRules("provenance")
  /\ \A p \in {"mapping.profile", "mapping.fields"} : p \in DiagnosticRules("unsupported")
  /\ "mapping.fields" \in DiagnosticRules("inapplicable")
  /\ \A p \in {"mapping.fields", "mapping.custom.source"} : p \in DiagnosticRules("collision")
  /\ \A p \in {"mapping.custom", "mapping.custom.source", "mapping.custom.encoding", "mapping.custom.fixed_length",
               "mapping.custom.length", "mapping.custom.max_length"} : p \in DiagnosticRules("custom")
  /\ \A p \in {"mapping.custom", "mapping.custom.pen", "mapping.fields", "mapping.shapes", "mapping.template",
               "mapping.record", "mapping.catalog", "max_datagram_size", "templates.id_base"} : p \in DiagnosticRules("bounds")
  /\ \A p \in {"path_mtu", "max_datagram_size"} : p \in DiagnosticRules("pmtu")
BY DEF DiagnosticRules

\* A list written out is a sequence.
LEMMA TupleIsSequence ==
  ASSUME NEW s, NEW n \in Nat, s = [i \in 1 .. n |-> s[i]]
  PROVE  IsSequence(s) /\ DOMAIN s = 1 .. n
<1>1. DOMAIN s = 1 .. n /\ s \in [1 .. n -> Range(s)]
  BY DEF Range
<1>2. s \in Seq(Range(s))
  BY <1>1, FunctionIsSequence
<1> QED BY <1>1, <1>2 DEF IsSequence

\* A check whose code and path have a rule for every protocol.
Speaks(x) == x.path \in DiagnosticRules(x.code) /\ x.path # "templates.id_base"

\* A check with a rule of its own reports it.
LEMMA SpeaksTells ==
  ASSUME NEW x, NEW protocol, Speaks(x)
  PROVE  Tells(x, protocol)
BY DEF Speaks, Tells

\* A check that does not fail tells nothing.
LEMMA SilentTells ==
  ASSUME NEW b, NEW code, NEW path, NEW protocol, ~b
  PROVE  Tells(Check(b, code, path), protocol)
BY DEF Tells, Check

\* A check of the template identifiers is not made for v5.
LEMMA AllocationTells ==
  ASSUME NEW b, NEW protocol, b => protocol # "v5"
  PROVE  Tells(Check(b, "bounds", "templates.id_base"), protocol)
<1>1. "templates.id_base" \in DiagnosticRules("bounds")
  BY Rules
<1> QED BY <1>1 DEF Tells, Check

\* A literal list of checks that all report.
LEMMA TupleReports ==
  ASSUME NEW s, NEW n \in Nat, s = [i \in 1 .. n |-> s[i]], NEW protocol, \A i \in 1 .. n : Tells(s[i], protocol)
  PROVE  Reports(s, protocol)
BY TupleIsSequence DEF Reports

\* What a check that did not fail shows.
LEMMA NotBad ==
  ASSUME NEW s, Passes(s), NEW i \in DOMAIN s, NEW b, NEW code, NEW path, s[i] = Check(b, code, path)
  PROVE  ~b
BY DEF Passes, Check

\* The selector's checks as a list of twelve.
LEMMA SelectorTuple ==
  ASSUME NEW c
  PROVE  SelectorChecks(c) = [i \in 1 .. 12 |-> SelectorChecks(c)[i]]
BY DEF SelectorChecks

\* Every check of the selector that can fail reports; the one on the protocol never fails.
LEMMA SelectorReports ==
  ASSUME NEW c, c.protocol = "v5" => c.idBase = 0, c.protocol \in {"v5", "v9", "ipfix"}
  PROVE  Reports(SelectorChecks(c), c.protocol)
<1> DEFINE L == SelectorChecks(c)
<1>1. L = [i \in 1 .. 12 |-> L[i]]
  BY SelectorTuple
<1>2. Speaks(L[1]) /\ Speaks(L[2]) /\ Speaks(L[4]) /\ Speaks(L[5]) /\ Speaks(L[6])
  BY Rules DEF SelectorChecks, Check, Speaks
<1>3. Speaks(L[7]) /\ Speaks(L[8]) /\ Speaks(L[9]) /\ Speaks(L[10]) /\ Speaks(L[12])
  BY Rules DEF SelectorChecks, Check, Speaks
<1>4. Tells(L[3], c.protocol)
  BY SilentTells DEF SelectorChecks
<1>5. Tells(L[11], c.protocol)
  BY SilentTells DEF SelectorChecks
<1> HIDE DEF L
<1>6. \A i \in 1 .. 12 : Speaks(L[i]) \/ i \in {3, 11}
  BY <1>2, <1>3
<1>7. \A i \in 1 .. 12 : Tells(L[i], c.protocol)
  BY <1>4, <1>5, <1>6, SpeaksTells
<1>8. Reports(L, c.protocol)
  BY <1>1, <1>7, TupleReports
<1> QED BY <1>8 DEF L

\* The checks of validatePMTU report.
LEMMA PMTUReports ==
  ASSUME NEW c, NEW protocol
  PROVE  Reports(PMTUChecks(c), protocol)
<1> DEFINE L == PMTUChecks(c)
<1>1. L = [i \in 1 .. 3 |-> L[i]]
  BY DEF PMTUChecks
<1>2. Speaks(L[1]) /\ Speaks(L[2]) /\ Speaks(L[3])
  BY Rules DEF PMTUChecks, Check, Speaks
<1> HIDE DEF L
<1>3. \A i \in 1 .. 3 : Speaks(L[i])
  BY <1>2
<1>4. Reports(L, protocol)
  BY <1>1, <1>3, SpeaksTells, TupleReports
<1> QED BY <1>4 DEF L

\* A list of one check.
LEMMA OneReports ==
  ASSUME NEW x, NEW protocol, Tells(x, protocol)
  PROVE  Reports(<<x>>, protocol) /\ (Passes(<<x>>) => ~x.bad)
<1> DEFINE L == <<x>>
<1>1. L = [i \in 1 .. 1 |-> L[i]] /\ L[1] = x /\ 1 \in DOMAIN L
  OBVIOUS
<1> HIDE DEF L
<1>2. \A i \in 1 .. 1 : Tells(L[i], protocol)
  BY <1>1
<1>3. Reports(L, protocol)
  BY <1>1, <1>2, TupleReports
<1>4. Passes(L) => ~x.bad
  BY <1>1 DEF Passes
<1> QED BY <1>3, <1>4 DEF L

\* The checks up to the selections report.
LEMMA HeadReports ==
  ASSUME NEW c, c.protocol = "v5" => c.idBase = 0, c.protocol \in {"v5", "v9", "ipfix"}, ~(c.origin > Max63)
  PROVE  /\ Reports(HeadChecks(c), c.protocol)
         /\ Passes(HeadChecks(c)) => Passes(SelectorChecks(c)) /\ Passes(PMTUChecks(c))
<1> DEFINE late == c.origin > Max63
           x == Check(late, "bounds", "mapping.uptime_origin")
           O == <<x>>
           A == SelectorChecks(c) \o PMTUChecks(c)
<1>0. ~late
  OBVIOUS
<1> HIDE DEF late
<1>1. Tells(x, c.protocol)
  BY <1>0, SilentTells
<1> HIDE DEF x
<1>2. Reports(O, c.protocol)
  BY <1>1, OneReports
<1>3. Reports(SelectorChecks(c), c.protocol) /\ Reports(PMTUChecks(c), c.protocol)
  BY SelectorReports, PMTUReports
<1>4. Reports(A, c.protocol) /\ (Passes(A) => Passes(SelectorChecks(c)) /\ Passes(PMTUChecks(c)))
  BY <1>3, ChecksConcat
<1>5. HeadChecks(c) = A \o O
  BY DEF HeadChecks, x, late
<1> HIDE DEF A, O
<1>6. Reports(A \o O, c.protocol) /\ (Passes(A \o O) => Passes(A) /\ Passes(O))
  BY <1>2, <1>4, ChecksConcat
<1> QED BY <1>4, <1>5, <1>6

\* A literal list of checks with rules of their own.
LEMMA SpeakingReports ==
  ASSUME NEW s, NEW n \in Nat, s = [i \in 1 .. n |-> s[i]], NEW protocol, \A i \in 1 .. n : Speaks(s[i])
  PROVE  Reports(s, protocol)
BY SpeaksTells, TupleReports

\* The lists that the members of a list give, one after the other.
LEMMA EachReports ==
  ASSUME NEW ss, NEW n \in Nat, NEW protocol, ss = [i \in 1 .. n |-> ss[i]], \A i \in 1 .. n : Reports(ss[i], protocol)
  PROVE  Reports(FlattenSeq(ss), protocol) /\ (Passes(FlattenSeq(ss)) => \A i \in 1 .. n : Passes(ss[i]))
<1>1. IsSequence(ss) /\ DOMAIN ss = 1 .. n
  BY TupleIsSequence
<1> QED BY <1>1, ChecksFlatten

\* The checks of one selection report.
LEMMA FieldReports ==
  ASSUME NEW c, NEW i, NEW protocol
  PROVE  /\ Reports(FieldChecks(c, i), protocol)
         /\ Passes(FieldChecks(c, i)) =>
              ~(c.fields.list[i].canonical \in {"flow.start", "flow.end"} /\ c.protocol = "v9" /\ c.origin = Absent)
<1> DEFINE L == FieldChecks(c, i)
           timed == c.fields.list[i].canonical \in {"flow.start", "flow.end"} /\ c.protocol = "v9" /\ c.origin = Absent
<1>1. L = [k \in 1 .. 8 |-> L[k]]
  BY DEF FieldChecks
<1>2. Speaks(L[1]) /\ Speaks(L[2]) /\ Speaks(L[3]) /\ Speaks(L[4])
  BY Rules DEF FieldChecks, Check, Speaks
<1>3. Speaks(L[5]) /\ Speaks(L[6]) /\ Speaks(L[7]) /\ Speaks(L[8])
  BY Rules DEF FieldChecks, Check, Speaks
<1>4. L[8] = Check(timed, "provenance", "mapping.uptime_origin") /\ 8 \in DOMAIN L
  BY DEF FieldChecks
<1> HIDE DEF L, timed
<1>5. \A k \in 1 .. 8 : Speaks(L[k])
  BY <1>2, <1>3
<1>6. Reports(L, protocol)
  BY <1>1, <1>5, SpeakingReports
<1>7. Passes(L) => ~timed
  BY <1>4, NotBad
<1> QED BY <1>6, <1>7 DEF L, timed

\* The checks of compileSelections report.
LEMMA SelectionReports ==
  ASSUME NEW c, NEW protocol, IsSequence(c.fields.list)
  PROVE  /\ Reports(SelectionChecks(c), protocol)
         /\ Passes(SelectionChecks(c)) => \A i \in DOMAIN c.fields.list : Passes(FieldChecks(c, i))
<1> DEFINE n == Len(c.fields.list)
           x == Check(Len(c.fields.list) > MaxFieldsPerShape, "bounds", "mapping.fields")
           O == <<x>>
           ss == [i \in DOMAIN c.fields.list |-> FieldChecks(c, i)]
           A == FlattenSeq(ss)
<1>0. SelectionChecks(c) = O \o A
  BY DEF SelectionChecks
<1>1. n \in Nat /\ DOMAIN c.fields.list = 1 .. n
  BY SequenceDomain
<1>2. Speaks(x)
  BY Rules DEF Check, Speaks
<1> HIDE DEF x, n
<1>3. Reports(O, protocol)
  BY <1>2, SpeaksTells, OneReports
<1>4. ss = [i \in 1 .. n |-> ss[i]] /\ \A i \in 1 .. n : ss[i] = FieldChecks(c, i)
  BY <1>1
<1> HIDE DEF ss
<1>5. \A i \in 1 .. n : Reports(ss[i], protocol)
  BY <1>4, FieldReports
<1>6. Reports(A, protocol) /\ (Passes(A) => \A i \in 1 .. n : Passes(ss[i]))
  BY <1>1, <1>4, <1>5, EachReports
<1> HIDE DEF A, O
<1>7. Reports(O \o A, protocol) /\ (Passes(O \o A) => Passes(O) /\ Passes(A))
  BY <1>3, <1>6, ChecksConcat
<1> QED BY <1>0, <1>1, <1>4, <1>6, <1>7

\* The checks of one token list report.
LEMMA EntryReports ==
  ASSUME NEW entries, NEW vocabulary, NEW path, NEW protocol, IsSequence(entries), path \in DiagnosticRules("token"),
         path # "templates.id_base"
  PROVE  Reports(EntryChecks(entries, vocabulary, path), protocol)
<1> DEFINE L == EntryChecks(entries, vocabulary, path)
           n == Len(entries)
<1>1. n \in Nat /\ DOMAIN entries = 1 .. n
  BY SequenceDomain
<1> HIDE DEF n
<1>2. L = [i \in 1 .. n |-> L[i]]
  BY <1>1 DEF EntryChecks
<1>3. ASSUME NEW i \in 1 .. n PROVE Speaks(L[i])
  <2>1. L[i].code = "token" /\ L[i].path = path
    BY <1>1 DEF EntryChecks, Check
  <2> QED BY <2>1 DEF Speaks
<1> HIDE DEF L
<1>4. Reports(L, protocol)
  BY <1>1, <1>2, <1>3, SpeakingReports
<1> QED BY <1>4 DEF L

\* The checks of compileTokenMaps report.
LEMMA TokenReports ==
  ASSUME NEW c, NEW protocol, IsSequence(c.identifiers.list), IsSequence(c.versions.list)
  PROVE  Reports(TokenChecks(c), protocol)
<1> DEFINE ids == "mapping.protocol_identifiers"
           versions == "mapping.network_type_versions"
           A == <<Check(~TransportActive(c) /\ c.identifiers.set, "provenance", ids),
                  Check(~NetworkActive(c) /\ c.versions.set, "provenance", versions),
                  Check(TransportActive(c) /\ Len(c.identifiers.list) \notin 1 .. 32, "provenance", ids)>>
           B == EntryChecks(c.identifiers.list, ProtocolNumbers, ids)
           C == <<Check(NetworkActive(c) /\ Len(c.versions.list) # 2, "provenance", versions)>>
           D == EntryChecks(c.versions.list, NetworkVersions, versions)
           E == <<Check(NetworkActive(c) /\ Tokens(c.versions.list) # Families, "token", versions),
                  Check(NeededTokens(c) \ Tokens(c.identifiers.list) # {}, "token", ids)>>
<1>0. TokenChecks(c) = A \o B \o C \o D \o E
  BY DEF TokenChecks
<1>1. Reports(A, protocol)
  <2>1. A = [i \in 1 .. 3 |-> A[i]]
    OBVIOUS
  <2>2. Speaks(A[1]) /\ Speaks(A[2]) /\ Speaks(A[3])
    BY Rules DEF Check, Speaks
  <2> HIDE DEF A
  <2>3. \A i \in 1 .. 3 : Speaks(A[i])
    BY <2>2
  <2> QED BY <2>1, <2>3, SpeakingReports
<1>2. Reports(B, protocol)
  <2>1. ids \in DiagnosticRules("token") /\ ids # "templates.id_base"
    BY Rules
  <2> QED BY <2>1, EntryReports
<1>3. Reports(C, protocol)
  <2>1. C = [i \in 1 .. 1 |-> C[i]]
    OBVIOUS
  <2>2. Speaks(C[1])
    BY Rules DEF Check, Speaks
  <2> HIDE DEF C
  <2>3. \A i \in 1 .. 1 : Speaks(C[i])
    BY <2>2
  <2> QED BY <2>1, <2>3, SpeakingReports
<1>4. Reports(D, protocol)
  <2>1. versions \in DiagnosticRules("token") /\ versions # "templates.id_base"
    BY Rules
  <2> QED BY <2>1, EntryReports
<1>5. Reports(E, protocol)
  <2>1. E = [i \in 1 .. 2 |-> E[i]]
    OBVIOUS
  <2>2. Speaks(E[1]) /\ Speaks(E[2])
    BY Rules DEF Check, Speaks
  <2> HIDE DEF E
  <2>3. \A i \in 1 .. 2 : Speaks(E[i])
    BY <2>2
  <2> QED BY <2>1, <2>3, SpeakingReports
<1> HIDE DEF A, B, C, D, E
<1>6. Reports(A \o B, protocol)
  BY <1>1, <1>2, ChecksConcat
<1>7. Reports(A \o B \o C, protocol)
  BY <1>3, <1>6, ChecksConcat
<1>8. Reports(A \o B \o C \o D, protocol)
  BY <1>4, <1>7, ChecksConcat
<1>9. Reports(A \o B \o C \o D \o E, protocol)
  BY <1>5, <1>8, ChecksConcat
<1> QED BY <1>0, <1>9

\* The checks of one custom entry report.
LEMMA CustomEntryReports ==
  ASSUME NEW c, NEW i, NEW protocol
  PROVE  Reports(CustomEntryChecks(c, i), protocol)
<1> DEFINE e == c.custom.list[i]
           A == <<Check(e.source \in {"", LongSource} \cup ReservedSources, "custom", "mapping.custom.source"),
                  Check(e.source \in Selectable, "collision", "mapping.custom.source"),
                  Check(e.encoding \notin CustomEncodings, "custom", "mapping.custom.encoding")>>
           V == V9CustomChecks(e)
           X == IPFIXCustomChecks(e)
           B == IF c.protocol = "v9" THEN V ELSE X
           C == <<Check(c.protocol = "ipfix" /\ Cardinality({c.custom.list[j].pen : j \in 1 .. i}) > MaxPENs,
                        "bounds", "mapping.custom.pen")>>
<1>0. CustomEntryChecks(c, i) = A \o B \o C
  BY DEF CustomEntryChecks
<1> HIDE DEF e
<1>1. Reports(A, protocol)
  <2>1. A = [k \in 1 .. 3 |-> A[k]]
    OBVIOUS
  <2>2. Speaks(A[1]) /\ Speaks(A[2]) /\ Speaks(A[3])
    BY Rules DEF Check, Speaks
  <2> HIDE DEF A
  <2>3. \A k \in 1 .. 3 : Speaks(A[k])
    BY <2>2
  <2> QED BY <2>1, <2>3, SpeakingReports
<1>2. Reports(V, protocol)
  <2>1. V = [k \in 1 .. 2 |-> V[k]]
    BY DEF V9CustomChecks
  <2>2. Speaks(V[1]) /\ Speaks(V[2])
    BY Rules DEF V9CustomChecks, Check, Speaks
  <2> HIDE DEF V
  <2>3. \A k \in 1 .. 2 : Speaks(V[k])
    BY <2>2
  <2> QED BY <2>1, <2>3, SpeakingReports
<1>3. Reports(X, protocol)
  <2>1. X = [k \in 1 .. 5 |-> X[k]]
    BY DEF IPFIXCustomChecks
  <2>2. Speaks(X[1]) /\ Speaks(X[2]) /\ Speaks(X[3]) /\ Speaks(X[4]) /\ Speaks(X[5])
    BY Rules DEF IPFIXCustomChecks, Check, Speaks
  <2> HIDE DEF X
  <2>3. \A k \in 1 .. 5 : Speaks(X[k])
    BY <2>2
  <2> QED BY <2>1, <2>3, SpeakingReports
<1>4. Reports(C, protocol)
  <2>1. C = [k \in 1 .. 1 |-> C[k]]
    OBVIOUS
  <2>2. Speaks(C[1])
    BY Rules DEF Check, Speaks
  <2> HIDE DEF C
  <2>3. \A k \in 1 .. 1 : Speaks(C[k])
    BY <2>2
  <2> QED BY <2>1, <2>3, SpeakingReports
<1> HIDE DEF A, V, X, C
<1>5. Reports(B, protocol)
  BY <1>2, <1>3
<1> HIDE DEF B
<1>6. Reports(A \o B, protocol)
  BY <1>1, <1>5, ChecksConcat
<1>7. Reports(A \o B \o C, protocol)
  BY <1>4, <1>6, ChecksConcat
<1> QED BY <1>0, <1>7

\* The checks of compileCustom report.
LEMMA CustomReports ==
  ASSUME NEW c, NEW protocol, IsSequence(c.custom.list)
  PROVE  Reports(CustomChecks(c), protocol)
<1> DEFINE n == Len(c.custom.list)
           x == Check(Len(c.custom.list) > MaxCustomMappings, "bounds", "mapping.custom")
           O == <<x>>
           ss == [i \in DOMAIN c.custom.list |-> CustomEntryChecks(c, i)]
           A == FlattenSeq(ss)
<1>0. CustomChecks(c) = O \o A
  BY DEF CustomChecks
<1>1. n \in Nat /\ DOMAIN c.custom.list = 1 .. n
  BY SequenceDomain
<1>2. Speaks(x)
  BY Rules DEF Check, Speaks
<1> HIDE DEF x, n
<1>3. Reports(O, protocol)
  BY <1>2, SpeaksTells, OneReports
<1>4. ss = [i \in 1 .. n |-> ss[i]] /\ \A i \in 1 .. n : ss[i] = CustomEntryChecks(c, i)
  BY <1>1
<1> HIDE DEF ss
<1>5. \A i \in 1 .. n : Reports(ss[i], protocol)
  BY <1>4, CustomEntryReports
<1>6. Reports(A, protocol)
  BY <1>1, <1>4, <1>5, EachReports
<1> HIDE DEF A, O
<1>7. Reports(O \o A, protocol)
  BY <1>3, <1>6, ChecksConcat
<1> QED BY <1>0, <1>7

\* The checks of a profile's field report.
LEMMA ProfileFieldReports ==
  ASSUME NEW c, NEW d, NEW protocol
  PROVE  Reports(ProfileFieldChecks(c, d), protocol)
<1> DEFINE L == ProfileFieldChecks(c, d)
<1>1. L = [k \in 1 .. 2 |-> L[k]]
  BY DEF ProfileFieldChecks
<1>2. Speaks(L[1]) /\ Speaks(L[2])
  BY Rules DEF ProfileFieldChecks, Check, Speaks
<1> HIDE DEF L
<1>3. \A k \in 1 .. 2 : Speaks(L[k])
  BY <1>2
<1>4. Reports(L, protocol)
  BY <1>1, <1>3, SpeakingReports
<1> QED BY <1>4 DEF L

\* The checks of a profile's shape report.
LEMMA ProfileShapeReports ==
  ASSUME NEW c, NEW builtin, NEW shapes, NEW i, NEW protocol, IsSequence(builtin[i].fields)
  PROVE  Reports(ProfileShapeChecks(c, builtin, shapes, i), protocol)
<1> DEFINE fields == builtin[i].fields
           n == Len(fields)
           custom == c.custom.list # <<>>
           ss == [j \in DOMAIN fields |-> ProfileFieldChecks(c, fields[j])]
           A == FlattenSeq(ss)
           B == <<Check(~CustomFits(c, builtin[i].family), "custom", "mapping.custom"),
                  Check(custom /\ shapes[i].recordLength > Max16, "bounds", "mapping.custom"),
                  Check(custom /\ shapes[i].templateBytes > MaxTemplateBytes, "bounds", "mapping.custom")>>
<1>0. ProfileShapeChecks(c, builtin, shapes, i) = A \o B
  BY DEF ProfileShapeChecks
<1>1. n \in Nat /\ DOMAIN fields = 1 .. n
  BY SequenceDomain
<1>2. Reports(B, protocol)
  <2>1. B = [k \in 1 .. 3 |-> B[k]]
    OBVIOUS
  <2>2. Speaks(B[1]) /\ Speaks(B[2]) /\ Speaks(B[3])
    BY Rules DEF Check, Speaks
  <2> HIDE DEF B
  <2>3. \A k \in 1 .. 3 : Speaks(B[k])
    BY <2>2
  <2> QED BY <2>1, <2>3, SpeakingReports
<1> HIDE DEF B, fields, n
<1>3. ss = [j \in 1 .. n |-> ss[j]] /\ \A j \in 1 .. n : ss[j] = ProfileFieldChecks(c, fields[j])
  BY <1>1
<1> HIDE DEF ss
<1>4. \A j \in 1 .. n : Reports(ss[j], protocol)
  BY <1>3, ProfileFieldReports
<1>5. Reports(A, protocol)
  BY <1>1, <1>3, <1>4, EachReports
<1> HIDE DEF A
<1>6. Reports(A \o B, protocol)
  BY <1>2, <1>5, ChecksConcat
<1> QED BY <1>0, <1>6

\* The checks of the profile's branch report.
LEMMA ProfileReports ==
  ASSUME NEW c, NEW builtin, NEW shapes, IsSequence(builtin), \A i \in DOMAIN builtin : IsSequence(builtin[i].fields)
  PROVE  /\ Reports(ProfileChecks(c, builtin, shapes), c.protocol)
         /\ Passes(ProfileChecks(c, builtin, shapes)) =>
              ~(c.profile \in {"netflow-v5-fixed-v1", "netflow-v9-timed-v1"} /\ c.origin = Absent)
<1> DEFINE late == c.profile \in {"netflow-v5-fixed-v1", "netflow-v9-timed-v1"} /\ c.origin = Absent
           moved == c.protocol # "v5" /\ c.idBase # 0 /\ (c.idBase < 256 \/ c.idBase + Len(shapes) - 1 > Max16)
           n == Len(builtin)
           A == <<Check(c.protocol = "v5" /\ c.guarantee # "layer3_total_octets", "provenance",
                        "mapping.input_guarantees.flow_io_bytes"),
                  Check(late, "provenance", "mapping.uptime_origin")>>
           ss == [i \in DOMAIN builtin |-> ProfileShapeChecks(c, builtin, shapes, i)]
           B == FlattenSeq(ss)
           x == Check(moved, "bounds", "templates.id_base")
           C == <<x>>
<1>0. ProfileChecks(c, builtin, shapes) = A \o B \o C
  BY DEF ProfileChecks
<1>1. n \in Nat /\ DOMAIN builtin = 1 .. n
  BY SequenceDomain
<1>2. moved => c.protocol # "v5"
  OBVIOUS
<1> HIDE DEF late, moved, n
<1>3. Tells(x, c.protocol)
  BY <1>2, AllocationTells
<1> HIDE DEF x
<1>4. Reports(C, c.protocol)
  BY <1>3, OneReports
<1>5. Reports(A, c.protocol) /\ (Passes(A) => ~late)
  <2>1. A = [k \in 1 .. 2 |-> A[k]] /\ A[2] = Check(late, "provenance", "mapping.uptime_origin") /\ 2 \in DOMAIN A
    OBVIOUS
  <2>2. Speaks(A[1]) /\ Speaks(A[2])
    BY Rules DEF Check, Speaks
  <2> HIDE DEF A
  <2>3. \A k \in 1 .. 2 : Speaks(A[k])
    BY <2>2
  <2>4. Passes(A) => ~late
    BY <2>1, NotBad
  <2> QED BY <2>1, <2>3, <2>4, SpeakingReports
<1>6. ss = [i \in 1 .. n |-> ss[i]] /\ \A i \in 1 .. n : ss[i] = ProfileShapeChecks(c, builtin, shapes, i)
  BY <1>1
<1> HIDE DEF ss
<1>7. \A i \in 1 .. n : Reports(ss[i], c.protocol)
  BY <1>1, <1>6, ProfileShapeReports
<1>8. Reports(B, c.protocol)
  BY <1>1, <1>6, <1>7, EachReports
<1> HIDE DEF A, B, C
<1>9. Reports(A \o B, c.protocol) /\ (Passes(A \o B) => Passes(A))
  BY <1>5, <1>8, ChecksConcat
<1>10. Reports(A \o B \o C, c.protocol) /\ (Passes(A \o B \o C) => Passes(A \o B))
  BY <1>4, <1>9, ChecksConcat
<1> QED BY <1>0, <1>5, <1>9, <1>10 DEF late

\* The checks of compileExplicitShapes report.
LEMMA ExplicitReports ==
  ASSUME NEW c, c.protocol # "v5"
  PROVE  Reports(ExplicitChecks(c), c.protocol)
<1> DEFINE L == ExplicitChecks(c)
<1>1. L = [k \in 1 .. 5 |-> L[k]]
  BY DEF ExplicitChecks
<1>2. Speaks(L[1]) /\ Speaks(L[2]) /\ Speaks(L[4]) /\ Speaks(L[5])
  BY Rules DEF ExplicitChecks, Check, Speaks
<1>3. Tells(L[3], c.protocol)
  BY AllocationTells DEF ExplicitChecks
<1> HIDE DEF L
<1>4. \A k \in 1 .. 5 : Speaks(L[k]) \/ k = 3
  BY <1>2
<1>5. \A k \in 1 .. 5 : Tells(L[k], c.protocol)
  BY <1>3, <1>4, SpeaksTells
<1>6. Reports(L, c.protocol)
  BY <1>1, <1>5, TupleReports
<1> QED BY <1>6 DEF L

\* The checks of the sizes of explicit shapes report.
LEMMA ExplicitSizeReports ==
  ASSUME NEW shapes, NEW protocol, IsSequence(shapes)
  PROVE  Reports(ExplicitSizeChecks(shapes), protocol)
<1> DEFINE n == Len(shapes)
           ss == [i \in DOMAIN shapes |-> ExplicitSizeCheck(shapes[i])]
<1>1. n \in Nat /\ DOMAIN shapes = 1 .. n
  BY SequenceDomain
<1> HIDE DEF n
<1>2. ss = [i \in 1 .. n |-> ss[i]] /\ \A i \in 1 .. n : ss[i] = ExplicitSizeCheck(shapes[i])
  BY <1>1
<1>3. ASSUME NEW shape PROVE Reports(ExplicitSizeCheck(shape), protocol)
  <2> DEFINE L == ExplicitSizeCheck(shape)
  <2>1. L = [k \in 1 .. 2 |-> L[k]]
    BY DEF ExplicitSizeCheck
  <2>2. Speaks(L[1]) /\ Speaks(L[2])
    BY Rules DEF ExplicitSizeCheck, Check, Speaks
  <2> HIDE DEF L
  <2>3. \A k \in 1 .. 2 : Speaks(L[k])
    BY <2>2
  <2>4. Reports(L, protocol)
    BY <2>1, <2>3, SpeakingReports
  <2> QED BY <2>4 DEF L
<1>4. ExplicitSizeChecks(shapes) = FlattenSeq(ss)
  BY DEF ExplicitSizeChecks
<1> HIDE DEF ss
<1>5. \A i \in 1 .. n : Reports(ss[i], protocol)
  BY <1>2, <1>3
<1>6. Reports(FlattenSeq(ss), protocol)
  BY <1>1, <1>2, <1>5, EachReports
<1> QED BY <1>4, <1>6

\* What the compiler's budget leaves of a shape.
WithinBudget(shape, maxDatagram) ==
  /\ ~(shape.protocol # "v5" /\ HeaderLength(shape.protocol) + shape.templateBytes > maxDatagram)
  /\ ~(MappingDataBytesForMinimum(shape.protocol, shape.recordLength, shape.recordLength) > maxDatagram)

\* The checks of one compiled shape report, and passing them all is being within the budget.
LEMMA ShapeReports ==
  ASSUME NEW c, NEW shape, NEW protocol
  PROVE  /\ Reports(ShapeChecks(c, shape), protocol)
         /\ Passes(ShapeChecks(c, shape)) => WithinBudget(shape, c.maxDatagram)
<1> DEFINE A == <<Check(Len(shape.fields) > MaxFieldsPerShape, "bounds", "mapping.fields"),
                  Check(shape.templateBytes > MaxTemplateBytes, "bounds", "mapping.template"),
                  Check(shape.recordLength > Max16, "bounds", "mapping.record"),
                  Check(~UniqueIdentities(shape.fields), "collision", "mapping.fields")>>
           B == ShapeBudget(shape, c.maxDatagram)
           over == shape.protocol # "v5" /\ HeaderLength(shape.protocol) + shape.templateBytes > c.maxDatagram
           wide == MappingDataBytesForMinimum(shape.protocol, shape.recordLength, shape.recordLength) > c.maxDatagram
<1>0. ShapeChecks(c, shape) = A \o B
  BY DEF ShapeChecks
<1>1. Reports(A, protocol)
  <2>1. A = [k \in 1 .. 4 |-> A[k]]
    OBVIOUS
  <2>2. Speaks(A[1]) /\ Speaks(A[2]) /\ Speaks(A[3]) /\ Speaks(A[4])
    BY Rules DEF Check, Speaks
  <2> HIDE DEF A
  <2>3. \A k \in 1 .. 4 : Speaks(A[k])
    BY <2>2
  <2> QED BY <2>1, <2>3, SpeakingReports
<1>2. B = <<Check(over, "bounds", "mapping.template"), Check(wide, "bounds", "mapping.record")>>
  BY DEF ShapeBudget
<1>3. ~over /\ ~wide => WithinBudget(shape, c.maxDatagram)
  BY DEF WithinBudget
<1> HIDE DEF A, B, over, wide
<1>4. Reports(B, protocol)
  <2>1. B = [k \in 1 .. 2 |-> B[k]]
    BY <1>2
  <2>2. Speaks(B[1]) /\ Speaks(B[2])
    BY <1>2, Rules DEF Check, Speaks
  <2>3. \A k \in 1 .. 2 : Speaks(B[k])
    BY <2>2
  <2> QED BY <2>1, <2>3, SpeakingReports
<1>5. Passes(B) => ~over /\ ~wide
  <2>1. /\ 1 \in DOMAIN B /\ B[1] = Check(over, "bounds", "mapping.template")
        /\ 2 \in DOMAIN B /\ B[2] = Check(wide, "bounds", "mapping.record")
    BY <1>2
  <2>2. Passes(B) => ~over
    BY <2>1, NotBad
  <2>3. Passes(B) => ~wide
    BY <2>1, NotBad
  <2> QED BY <2>2, <2>3
<1>6. Reports(A \o B, protocol) /\ (Passes(A \o B) => Passes(B))
  BY <1>1, <1>4, ChecksConcat
<1> QED BY <1>0, <1>3, <1>5, <1>6

\* The checks of the compiled catalog report.
LEMMA CatalogReports ==
  ASSUME NEW c, NEW shapes, NEW protocol, IsSequence(shapes)
  PROVE  /\ Reports(CatalogChecks(c, shapes), protocol)
         /\ Passes(CatalogChecks(c, shapes)) =>
              /\ CatalogOK(c.protocol, IF c.protocol = "v5" THEN 0 ELSE shapes[1].id, shapes)
              /\ \A i \in DOMAIN shapes : WithinBudget(shapes[i], c.maxDatagram)
<1> DEFINE n == Len(shapes)
           good == CatalogOK(c.protocol, IF c.protocol = "v5" THEN 0 ELSE shapes[1].id, shapes)
           x == Check(Len(shapes) \notin 1 .. MaxShapes, "bounds", "mapping.shapes")
           y == Check(~good, "bounds", "mapping.catalog")
           A == <<x>>
           ss == [i \in DOMAIN shapes |-> ShapeChecks(c, shapes[i])]
           B == FlattenSeq(ss)
           C == <<y>>
<1>0. CatalogChecks(c, shapes) = A \o B \o C
  BY DEF CatalogChecks
<1>1. n \in Nat /\ DOMAIN shapes = 1 .. n
  BY SequenceDomain
<1> HIDE DEF n, good
<1>2. Speaks(x) /\ Speaks(y)
  BY Rules DEF Check, Speaks
<1>3. ~y.bad => good
  BY DEF Check
<1> HIDE DEF x, y
<1>4. Reports(A, protocol) /\ Reports(C, protocol) /\ (Passes(C) => ~y.bad)
  BY <1>2, SpeaksTells, OneReports
<1>5. ss = [i \in 1 .. n |-> ss[i]] /\ \A i \in 1 .. n : ss[i] = ShapeChecks(c, shapes[i])
  BY <1>1
<1> HIDE DEF ss
<1>6. \A i \in 1 .. n : Reports(ss[i], protocol) /\ (Passes(ss[i]) => WithinBudget(shapes[i], c.maxDatagram))
  BY <1>5, ShapeReports
<1>7. Reports(B, protocol) /\ (Passes(B) => \A i \in 1 .. n : Passes(ss[i]))
  BY <1>1, <1>5, <1>6, EachReports
<1> HIDE DEF A, B, C
<1>8. Reports(A \o B, protocol) /\ (Passes(A \o B) => Passes(B))
  BY <1>4, <1>7, ChecksConcat
<1>9. Reports(A \o B \o C, protocol) /\ (Passes(A \o B \o C) => Passes(A \o B) /\ Passes(C))
  BY <1>4, <1>8, ChecksConcat
<1>10. Passes(A \o B \o C) => good /\ \A i \in DOMAIN shapes : WithinBudget(shapes[i], c.maxDatagram)
  BY <1>1, <1>3, <1>4, <1>6, <1>7, <1>8, <1>9
<1> QED BY <1>0, <1>9, <1>10 DEF good

-----------------------------------------------------------------------------
(* The stages of the compiler.                                             *)

\* One stage after another.
LEMMA ThenTells ==
  ASSUME NEW error, NEW next, NEW protocol, Tells(error, protocol), ~error.bad => Tells(next, protocol)
  PROVE  Tells(Then(error, next), protocol) /\ (~Then(error, next).bad => ~error.bad /\ ~next.bad)
BY DEF Then

\* A stage that passed has nothing to report.
LEMMA PassedTells ==
  ASSUME NEW protocol
  PROVE  Tells(Passed, protocol) /\ ~Passed.bad
BY DEF Tells, Passed, Check

\* The profile and the protocol of a mapping whose selector was accepted.
LEMMA SelectorPasses ==
  ASSUME NEW c, Passes(SelectorChecks(c))
  PROVE  /\ c.profile # "" => c.profile \in DOMAIN ProfileProtocol /\ ProfileProtocol[c.profile] = c.protocol
         /\ c.profile = "" => c.protocol # "v5"
         /\ c.maxDatagram \in MinDatagram .. MaxDatagram
<1> DEFINE L == SelectorChecks(c)
           b2 == c.profile # "" /\ (c.profile \in DOMAIN ProfileProtocol => ProfileProtocol[c.profile] # c.protocol)
           b8 == c.protocol = "v5" /\ ~(c.profile # "")
           b12 == c.maxDatagram \notin MinDatagram .. MaxDatagram
<1>1. DOMAIN L = 1 .. 12
  BY SelectorTuple, TupleIsSequence
<1>2. Passes(L)
  OBVIOUS
<1>3. ~b2
  <2>1. L[2] = Check(b2, "profile", "mapping.profile")
    BY DEF SelectorChecks
  <2> HIDE DEF L, b2
  <2> QED BY <1>1, <1>2, <2>1, NotBad
<1>4. ~b8
  <2>1. L[8] = Check(b8, "profile", "mapping.profile")
    BY DEF SelectorChecks
  <2> HIDE DEF L, b8
  <2> QED BY <1>1, <1>2, <2>1, NotBad
<1>5. ~b12
  <2>1. L[12] = Check(b12, "bounds", "max_datagram_size")
    BY DEF SelectorChecks
  <2> HIDE DEF L, b12
  <2> QED BY <1>1, <1>2, <2>1, NotBad
<1> QED BY <1>3, <1>4, <1>5 DEF b2, b8, b12

\* The built-in shapes and their fields are lists.
AreShapes(s) ==
  IsSequence(s) /\ DOMAIN s \in {1 .. 1, 1 .. 2} /\ \A i \in DOMAIN s : IsSequence(s[i].fields) /\ "fields" \in DOMAIN s[i]

\* A built-in catalog has one or two shapes.
LEMMA BuiltinSequences ==
  ASSUME NEW profile \in DOMAIN ProfileProtocol
  PROVE  AreShapes(BuiltinCatalog(profile))
<1>1. profile \in {"netflow-v5-fixed-v1", "netflow-v9-core-v1", "netflow-v9-timed-v1", "ipfix-core-v1", "ipfix-general-v1"}
  BY DEF ProfileProtocol
<1>2. IsSequence(V5Fields)
  <2>1. V5Fields = [i \in 1 .. 20 |-> V5Fields[i]]
    BY DEF V5Fields
  <2> QED BY <2>1, TupleIsSequence
<1>3. DOMAIN CoreOrder = 1 .. 18 /\ DOMAIN TimedOrder = 1 .. 20
  BY DEF CoreOrder, TimedOrder
<1>4. ASSUME NEW protocol, NEW order, NEW n \in Nat, DOMAIN order = 1 .. n, NEW times, NEW family
      PROVE  IsSequence(OrderedFields(protocol, order, times, family))
  <2> DEFINE s == OrderedFields(protocol, order, times, family)
  <2>1. s = [i \in 1 .. n |-> s[i]]
    BY <1>4 DEF OrderedFields
  <2> HIDE DEF s
  <2>2. IsSequence(s)
    BY <2>1, TupleIsSequence
  <2> QED BY <2>2 DEF s
<1>5. ASSUME NEW protocol, NEW order, NEW n \in Nat, DOMAIN order = 1 .. n, NEW times, NEW length, NEW bytes
      PROVE  AreShapes(TwoShapes(protocol, order, times, length, bytes))
  <2> DEFINE s == TwoShapes(protocol, order, times, length, bytes)
  <2>1. s = [i \in 1 .. 2 |-> s[i]]
    BY DEF TwoShapes
  <2>2. s[1].fields = OrderedFields(protocol, order, times, "ipv4")
        /\ s[2].fields = OrderedFields(protocol, order, times, "ipv6")
    BY DEF TwoShapes
  <2>7. "fields" \in DOMAIN s[1] /\ "fields" \in DOMAIN s[2]
    BY DEF TwoShapes
  <2> HIDE DEF s
  <2>3. IsSequence(s[1].fields) /\ IsSequence(s[2].fields)
    BY <1>4, <1>5, <2>2
  <2>4. \A i \in 1 .. 2 : IsSequence(s[i].fields) /\ "fields" \in DOMAIN s[i]
    BY <2>3, <2>7
  <2>5. IsSequence(s) /\ DOMAIN s = 1 .. 2
    BY <2>1, TupleIsSequence
  <2>6. AreShapes(s)
    BY <2>4, <2>5 DEF AreShapes
  <2> QED BY <2>6 DEF s
<1>6. CASE profile = "netflow-v5-fixed-v1"
  <2> DEFINE s == BuiltinCatalog(profile)
  <2>1. s = [i \in 1 .. 1 |-> s[i]] /\ s[1].fields = V5Fields /\ "fields" \in DOMAIN s[1]
    BY <1>6 DEF BuiltinCatalog
  <2> HIDE DEF s
  <2>2. IsSequence(s) /\ DOMAIN s = 1 .. 1
    BY <2>1, TupleIsSequence
  <2>3. \A i \in DOMAIN s : IsSequence(s[i].fields) /\ "fields" \in DOMAIN s[i]
    BY <1>2, <2>1, <2>2
  <2>4. AreShapes(s)
    BY <2>2, <2>3 DEF AreShapes
  <2> QED BY <2>4 DEF s
<1>7. CASE profile = "netflow-v9-core-v1"
  <2>1. BuiltinCatalog(profile) = TwoShapes("v9", CoreOrder, "relative", 43, 80)
    BY <1>7 DEF BuiltinCatalog
  <2> QED BY <1>3, <1>5, <2>1
<1>8. CASE profile = "netflow-v9-timed-v1"
  <2>1. BuiltinCatalog(profile) = TwoShapes("v9", TimedOrder, "relative", 51, 88)
    BY <1>8 DEF BuiltinCatalog
  <2> QED BY <1>3, <1>5, <2>1
<1>9. CASE profile = "ipfix-core-v1"
  <2>1. BuiltinCatalog(profile) = TwoShapes("ipfix", TimedOrder, "nanoseconds", 72, 88)
    BY <1>9 DEF BuiltinCatalog
  <2> QED BY <1>3, <1>5, <2>1
<1>10. CASE profile = "ipfix-general-v1"
  <2>1. BuiltinCatalog(profile) = TwoShapes("ipfix", TimedOrder, "milliseconds", 72, 88)
    BY <1>10 DEF BuiltinCatalog
  <2> QED BY <1>3, <1>5, <2>1
<1> QED BY <1>1, <1>6, <1>7, <1>8, <1>9, <1>10

\* So has what the compiler makes of a configuration.
LEMMA CompiledSequences ==
  ASSUME NEW c, Passes(SelectorChecks(c))
  PROVE  IsSequence(CompiledShapes(c)) /\ DOMAIN CompiledShapes(c) \in {1 .. 1, 1 .. 2}
<1> DEFINE s == CompiledShapes(c)
<1>1. CASE c.profile = ""
  <2>1. DOMAIN ShapeFamilies(c) \in {1 .. 1, 1 .. 2}
    BY DEF ShapeFamilies
  <2>2. s = [i \in DOMAIN ShapeFamilies(c) |-> s[i]]
    BY <1>1 DEF CompiledShapes, ExplicitShapes
  <2> HIDE DEF s
  <2>3. PICK n \in 1 .. 2 : DOMAIN ShapeFamilies(c) = 1 .. n
    BY <2>1
  <2>4. IsSequence(s) /\ DOMAIN s = 1 .. n
    BY <2>2, <2>3, TupleIsSequence
  <2>5. DOMAIN s \in {1 .. 1, 1 .. 2}
    BY <2>1, <2>3, <2>4
  <2> QED BY <2>4, <2>5 DEF s
<1>2. CASE c.profile # ""
  <2> DEFINE b == BuiltinCatalog(c.profile)
  <2>1. AreShapes(b)
    BY <1>2, SelectorPasses, BuiltinSequences
  <2>2. DOMAIN b \in {1 .. 1, 1 .. 2}
    BY <2>1 DEF AreShapes
  <2>3. s = [i \in DOMAIN b |-> s[i]]
    BY <1>2 DEF CompiledShapes, ProfileShapes
  <2> HIDE DEF s, b
  <2>4. PICK n \in 1 .. 2 : DOMAIN b = 1 .. n
    BY <2>2
  <2>5. IsSequence(s) /\ DOMAIN s = 1 .. n
    BY <2>3, <2>4, TupleIsSequence
  <2>6. DOMAIN s \in {1 .. 1, 1 .. 2}
    BY <2>2, <2>4, <2>5
  <2> QED BY <2>5, <2>6 DEF s
<1> QED BY <1>1, <1>2

\* What Compile has looked at when it returns a mapper.
Compiled(c) ==
  /\ Passes(SelectorChecks(c)) /\ Passes(PMTUChecks(c))
  /\ c.profile = "" => \A i \in DOMAIN c.fields.list : Passes(FieldChecks(c, i))
  /\ c.profile \in {"netflow-v5-fixed-v1", "netflow-v9-timed-v1"} => c.origin # Absent
  /\ CatalogOK(c.protocol, IF c.protocol = "v5" THEN 0 ELSE CompiledShapes(c)[1].id, CompiledShapes(c))
  /\ \A i \in DOMAIN CompiledShapes(c) : WithinBudget(CompiledShapes(c)[i], c.maxDatagram)

\* Every error of Compile has a diagnostic, and without one all of the checks were passed.
LEMMA CompileTells ==
  ASSUME NEW c, c.protocol = "v5" => c.idBase = 0, c.protocol \in {"v5", "v9", "ipfix"}, ~(c.origin > Max63),
         IsSequence(c.fields.list), IsSequence(c.custom.list), IsSequence(c.identifiers.list), IsSequence(c.versions.list)
  PROVE  Tells(CompileError(c), c.protocol) /\ (~CompileError(c).bad => Compiled(c))
<1> DEFINE shapes == CompiledShapes(c)
           builtin == BuiltinCatalog(c.profile)
           e1 == First(HeadChecks(c))
           e2 == IF c.profile = "" THEN First(SelectionChecks(c)) ELSE Passed
           e3 == First(TokenChecks(c) \o CustomChecks(c))
           e4 == ShapeError(c, shapes)
           e5 == First(CatalogChecks(c, shapes))
           p == c.protocol
<1>1. Tells(e1, p) /\ (~e1.bad => Passes(SelectorChecks(c)) /\ Passes(PMTUChecks(c)))
  <2>1. Reports(HeadChecks(c), p) /\ (Passes(HeadChecks(c)) => Passes(SelectorChecks(c)) /\ Passes(PMTUChecks(c)))
    BY HeadReports
  <2>2. Tells(First(HeadChecks(c)), p) /\ (~First(HeadChecks(c)).bad => Passes(HeadChecks(c)))
    BY <2>1, FirstTells
  <2> QED BY <2>1, <2>2
<1>2. Tells(e2, p) /\ (~e2.bad /\ c.profile = "" => \A i \in DOMAIN c.fields.list : Passes(FieldChecks(c, i)))
  <2>1. CASE c.profile = ""
    <3>1. Reports(SelectionChecks(c), p)
          /\ (Passes(SelectionChecks(c)) => \A i \in DOMAIN c.fields.list : Passes(FieldChecks(c, i)))
      BY SelectionReports
    <3>2. Tells(First(SelectionChecks(c)), p) /\ (~First(SelectionChecks(c)).bad => Passes(SelectionChecks(c)))
      BY <3>1, FirstTells
    <3> QED BY <2>1, <3>1, <3>2
  <2>2. CASE c.profile # ""
    BY <2>2, PassedTells
  <2> QED BY <2>1, <2>2
<1>3. Tells(e3, p)
  <2>1. Reports(TokenChecks(c), p) /\ Reports(CustomChecks(c), p)
    BY TokenReports, CustomReports
  <2>2. Reports(TokenChecks(c) \o CustomChecks(c), p)
    BY <2>1, ChecksConcat
  <2> QED BY <2>2, FirstTells
<1>4. ASSUME ~e1.bad
      PROVE  Tells(e4, p) /\ (~e4.bad => (c.profile \in {"netflow-v5-fixed-v1", "netflow-v9-timed-v1"} => c.origin # Absent))
  <2>0. Passes(SelectorChecks(c))
    BY <1>1, <1>4
  <2>1. CASE c.profile = ""
    <3>1. p # "v5" /\ IsSequence(shapes)
      BY <2>0, <2>1, SelectorPasses, CompiledSequences
    <3>2. Reports(ExplicitChecks(c), p) /\ Reports(ExplicitSizeChecks(shapes), p)
      BY <3>1, ExplicitReports, ExplicitSizeReports
    <3>3. Tells(First(ExplicitChecks(c)), p) /\ Tells(First(ExplicitSizeChecks(shapes)), p)
      BY <3>2, FirstTells
    <3>4. Tells(Then(First(ExplicitChecks(c)), First(ExplicitSizeChecks(shapes))), p)
      BY <3>3, ThenTells
    <3>5. e4 = Then(First(ExplicitChecks(c)), First(ExplicitSizeChecks(shapes)))
      BY <2>1 DEF ShapeError
    <3> QED BY <2>1, <3>4, <3>5
  <2>2. CASE c.profile # ""
    <3>1. AreShapes(builtin)
      BY <2>0, <2>2, SelectorPasses, BuiltinSequences
    <3>2. IsSequence(builtin) /\ \A i \in DOMAIN builtin : IsSequence(builtin[i].fields)
      BY <3>1 DEF AreShapes
    <3>3. e4 = First(ProfileChecks(c, builtin, shapes))
      BY <2>2 DEF ShapeError
    <3> HIDE DEF builtin, shapes
    <3>4. /\ Reports(ProfileChecks(c, builtin, shapes), p)
          /\ Passes(ProfileChecks(c, builtin, shapes)) =>
              ~(c.profile \in {"netflow-v5-fixed-v1", "netflow-v9-timed-v1"} /\ c.origin = Absent)
      BY <3>2, ProfileReports
    <3>5. Tells(e4, p) /\ (~e4.bad => Passes(ProfileChecks(c, builtin, shapes)))
      BY <3>3, <3>4, FirstTells
    <3> QED BY <3>4, <3>5
  <2> QED BY <2>1, <2>2
<1>5. ASSUME ~e1.bad
      PROVE  /\ Tells(e5, p)
             /\ ~e5.bad => /\ CatalogOK(c.protocol, IF c.protocol = "v5" THEN 0 ELSE shapes[1].id, shapes)
                           /\ \A i \in DOMAIN shapes : WithinBudget(shapes[i], c.maxDatagram)
  <2>1. IsSequence(shapes)
    BY <1>1, <1>5, CompiledSequences
  <2> HIDE DEF shapes
  <2>2. /\ Reports(CatalogChecks(c, shapes), p)
        /\ Passes(CatalogChecks(c, shapes)) =>
              /\ CatalogOK(c.protocol, IF c.protocol = "v5" THEN 0 ELSE shapes[1].id, shapes)
              /\ \A i \in DOMAIN shapes : WithinBudget(shapes[i], c.maxDatagram)
    BY <2>1, CatalogReports
  <2>3. Tells(e5, p) /\ (~e5.bad => Passes(CatalogChecks(c, shapes)))
    BY <2>2, FirstTells
  <2> QED BY <2>2, <2>3
<1>6. CompileError(c) = Then(e1, Then(e2, Then(e3, Then(e4, e5))))
  BY DEF CompileError
<1>7. ~e1.bad /\ ~e2.bad /\ ~e3.bad /\ ~e4.bad /\ ~e5.bad => Compiled(c)
  BY <1>1, <1>2, <1>4, <1>5 DEF Compiled
<1> HIDE DEF e1, e2, e3, e4, e5, p, shapes
<1>8. ASSUME ~e1.bad PROVE Tells(Then(e4, e5), p) /\ (~Then(e4, e5).bad => ~e4.bad /\ ~e5.bad)
  BY <1>4, <1>5, <1>8, ThenTells
<1>9. ASSUME ~e1.bad PROVE Tells(Then(e3, Then(e4, e5)), p) /\ (~Then(e3, Then(e4, e5)).bad => ~e3.bad /\ ~e4.bad /\ ~e5.bad)
  BY <1>3, <1>8, <1>9, ThenTells
<1>10. ASSUME ~e1.bad
       PROVE  /\ Tells(Then(e2, Then(e3, Then(e4, e5))), p)
              /\ ~Then(e2, Then(e3, Then(e4, e5))).bad => ~e2.bad /\ ~e3.bad /\ ~e4.bad /\ ~e5.bad
  BY <1>2, <1>9, <1>10, ThenTells
<1>11. /\ Tells(CompileError(c), p)
       /\ ~CompileError(c).bad => ~e1.bad /\ ~e2.bad /\ ~e3.bad /\ ~e4.bad /\ ~e5.bad
  BY <1>1, <1>6, <1>10, ThenTells
<1> QED BY <1>7, <1>11 DEF p

-----------------------------------------------------------------------------
(* Relative times need an origin.                                          *)

\* The field of a selected descriptor is the selected one.
LEMMA DescriptorField ==
  ASSUME NEW protocol, NEW field, NEW target, NEW family
  PROVE  DescriptorFor(protocol, field, target, family).field = field
BY DEF DescriptorFor, PlainDescriptor

\* A custom descriptor has no canonical field.
LEMMA CustomField ==
  ASSUME NEW e, NEW protocol
  PROVE  CustomDescriptor(e, protocol).field = ""
BY DEF CustomDescriptor, PrivateDescriptor, EnterpriseDescriptor, PlainDescriptor, FieldInvalid

\* A shape has the fields it was made from.
LEMMA NewShapeFields ==
  ASSUME NEW protocol, NEW family, NEW id, NEW fields
  PROVE  /\ NewShape(protocol, family, id, fields).fields = fields
         /\ NewShape(protocol, family, id, fields).family = family
         /\ NewShape(protocol, family, id, fields).protocol = protocol
BY DEF NewShape

\* The members of two lists one after the other.
LEMMA ConcatMembers ==
  ASSUME NEW s, NEW t, IsSequence(s), IsSequence(t), NEW j \in DOMAIN (s \o t)
  PROVE  (\E k \in DOMAIN s : (s \o t)[j] = s[k]) \/ (\E k \in DOMAIN t : (s \o t)[j] = t[k])
<1> DEFINE S == Range(s) \cup Range(t)
           u == s \o t
<1>0. s \in Seq(S) /\ t \in Seq(S)
  BY OverCommonSet
<1> HIDE DEF S
<1>1. /\ u \in Seq(S) /\ Len(u) = Len(s) + Len(t)
      /\ \A i \in 1 .. Len(s) + Len(t) : u[i] = IF i <= Len(s) THEN s[i] ELSE t[i - Len(s)]
  BY <1>0, ConcatProperties
<1>2. DOMAIN u = 1 .. Len(u) /\ DOMAIN s = 1 .. Len(s) /\ DOMAIN t = 1 .. Len(t) /\ Len(s) \in Nat /\ Len(t) \in Nat
  BY <1>0, <1>1, SequenceOver
<1>3. j \in DOMAIN u
  OBVIOUS
<1> HIDE DEF u
<1>4. CASE j <= Len(s)
  <2>1. j \in DOMAIN s /\ u[j] = s[j]
    BY <1>1, <1>2, <1>3, <1>4
  <2> QED BY <2>1 DEF u
<1>5. CASE ~(j <= Len(s))
  <2>1. j - Len(s) \in DOMAIN t /\ u[j] = t[j - Len(s)]
    BY <1>1, <1>2, <1>3, <1>5
  <2> QED BY <2>1 DEF u
<1> QED BY <1>4, <1>5

\* The custom fields are a list.
LEMMA CustomFieldsSequence ==
  ASSUME NEW c, IsSequence(c.custom.list)
  PROVE  /\ IsSequence(CustomFields(c))
         /\ \A k \in DOMAIN CustomFields(c) : CustomFields(c)[k] = CustomDescriptor(c.custom.list[k], c.protocol)
<1> DEFINE s == CustomFields(c)
           n == Len(c.custom.list)
<1>1. n \in Nat /\ DOMAIN c.custom.list = 1 .. n
  BY SequenceDomain
<1> HIDE DEF n
<1>2. s = [i \in 1 .. n |-> s[i]] /\ \A i \in 1 .. n : s[i] = CustomDescriptor(c.custom.list[i], c.protocol)
  BY <1>1 DEF CustomFields
<1> HIDE DEF s
<1>3. IsSequence(s) /\ DOMAIN s = 1 .. n
  BY <1>1, <1>2, TupleIsSequence
<1> QED BY <1>1, <1>2, <1>3 DEF s

\* The selected fields are a list.
LEMMA SelectedFieldsSequence ==
  ASSUME NEW c, NEW family, IsSequence(c.fields.list)
  PROVE  /\ IsSequence(SelectedFields(c, family)) /\ DOMAIN SelectedFields(c, family) = DOMAIN c.fields.list
         /\ \A k \in DOMAIN SelectedFields(c, family) :
              SelectedFields(c, family)[k] = DescriptorFor(c.protocol, c.fields.list[k].canonical, c.fields.list[k].target, family)
<1> DEFINE s == SelectedFields(c, family)
           n == Len(c.fields.list)
<1>1. n \in Nat /\ DOMAIN c.fields.list = 1 .. n
  BY SequenceDomain
<1> HIDE DEF n
<1>2. s = [i \in 1 .. n |-> s[i]]
      /\ \A i \in 1 .. n : s[i] = DescriptorFor(c.protocol, c.fields.list[i].canonical, c.fields.list[i].target, family)
  BY <1>1 DEF SelectedFields
<1> HIDE DEF s
<1>3. IsSequence(s) /\ DOMAIN s = 1 .. n
  BY <1>1, <1>2, TupleIsSequence
<1> QED BY <1>1, <1>2, <1>3 DEF s

\* The fields of a built-in shape are a list.
LEMMA OrderedFieldsSequence ==
  ASSUME NEW protocol, NEW order, IsSequence(order), NEW times, NEW family
  PROVE  /\ IsSequence(OrderedFields(protocol, order, times, family))
         /\ DOMAIN OrderedFields(protocol, order, times, family) = DOMAIN order
         /\ \A k \in DOMAIN order : OrderedFields(protocol, order, times, family)[k].field = order[k]
<1> DEFINE s == OrderedFields(protocol, order, times, family)
           n == Len(order)
<1>0. n \in Nat /\ DOMAIN order = 1 .. n
  BY SequenceDomain
<1> HIDE DEF n
<1>1. s = [i \in 1 .. n |-> s[i]]
  BY <1>0 DEF OrderedFields
<1>2. ASSUME NEW k \in 1 .. n PROVE s[k].field = order[k]
  <2> DEFINE target == CASE times = "milliseconds" /\ order[k] = "flow.start" -> "flow_start_milliseconds"
                         [] times = "milliseconds" /\ order[k] = "flow.end"   -> "flow_end_milliseconds"
                         [] OTHER                                             -> ""
  <2>1. s[k] = DescriptorFor(protocol, order[k], target, family)
    BY <1>0 DEF OrderedFields
  <2> HIDE DEF s, target
  <2>2. DescriptorFor(protocol, order[k], target, family).field = order[k]
    BY DescriptorField
  <2> QED BY <2>1, <2>2
<1> HIDE DEF s
<1>3. IsSequence(s) /\ DOMAIN s = 1 .. n
  BY <1>0, <1>1, TupleIsSequence
<1> QED BY <1>0, <1>2, <1>3 DEF s

\* The fields of a compiled shape, of an explicit mapping and of a profile.
LEMMA ExplicitShapeFields ==
  ASSUME NEW c, c.profile = "", NEW i \in DOMAIN CompiledShapes(c)
  PROVE  /\ i \in DOMAIN ShapeFamilies(c)
         /\ CompiledShapes(c)[i].fields = SelectedFields(c, ShapeFamilies(c)[i]) \o CustomFields(c)
         /\ CompiledShapes(c)[i].family = ShapeFamilies(c)[i]
<1> DEFINE family == ShapeFamilies(c)[i]
           fields == SelectedFields(c, family) \o CustomFields(c)
           id == EffectiveIDBase(c) + i - 1
<1>1. i \in DOMAIN ShapeFamilies(c)
  BY DEF CompiledShapes, ExplicitShapes
<1>2. CompiledShapes(c)[i] = NewShape(c.protocol, family, id, fields)
  BY <1>1 DEF CompiledShapes, ExplicitShapes
<1> HIDE DEF family, fields, id
<1>4. NewShape(c.protocol, family, id, fields).fields = fields /\ NewShape(c.protocol, family, id, fields).family = family
  BY DEF NewShape
<1>3. CompiledShapes(c)[i].fields = fields /\ CompiledShapes(c)[i].family = family
  BY <1>2, <1>4
<1> QED BY <1>1, <1>3 DEF family, fields

\* A field of a profile's shape is a built-in or a custom one.
LEMMA ProfileShapeFields ==
  ASSUME NEW c, c.profile # "", AreShapes(BuiltinCatalog(c.profile)), NEW i \in DOMAIN CompiledShapes(c)
  PROVE  /\ i \in DOMAIN BuiltinCatalog(c.profile)
         /\ CompiledShapes(c)[i].fields \in
              {BuiltinCatalog(c.profile)[i].fields, BuiltinCatalog(c.profile)[i].fields \o CustomFields(c)}
<1> DEFINE b == BuiltinCatalog(c.profile)
           id == IF c.protocol # "v5" /\ c.idBase # 0 THEN c.idBase + i - 1 ELSE b[i].id
           G == CustomFields(c)
<1>1. i \in DOMAIN b
  BY DEF CompiledShapes, ProfileShapes
<1>2. CompiledShapes(c)[i] = IF c.custom.list = <<>> THEN [b[i] EXCEPT !.id = id]
                             ELSE NewShape(c.protocol, b[i].family, id, b[i].fields \o G)
  BY <1>1 DEF CompiledShapes, ProfileShapes
<1>3. "fields" \in DOMAIN b[i]
  BY <1>1 DEF AreShapes
<1> HIDE DEF b, id, G
<1>4. CASE c.custom.list = <<>>
  <2> DEFINE r == b[i]
  <2>1. CompiledShapes(c)[i] = [r EXCEPT !.id = id] /\ "fields" \in DOMAIN r
    BY <1>2, <1>3, <1>4
  <2> HIDE DEF r
  <2>2. [r EXCEPT !.id = id].fields = r.fields
    BY <2>1
  <2> QED BY <1>1, <2>1, <2>2 DEF r, b, G
<1>5. CASE c.custom.list # <<>>
  <2> DEFINE fields == b[i].fields \o G
  <2>1. CompiledShapes(c)[i] = NewShape(c.protocol, b[i].family, id, fields)
    BY <1>2, <1>5
  <2> HIDE DEF fields
  <2>2. NewShape(c.protocol, b[i].family, id, fields).fields = fields
    BY DEF NewShape
  <2>3. CompiledShapes(c)[i].fields = fields
    BY <2>1, <2>2
  <2> QED BY <1>1, <2>3 DEF fields, b, G
<1> QED BY <1>1, <1>4, <1>5 DEF b

Timed(d) == d.field \in {"flow.start", "flow.end"}

\* No custom field is a time.
LEMMA CustomUntimed ==
  ASSUME NEW c, IsSequence(c.custom.list), NEW k \in DOMAIN CustomFields(c)
  PROVE  ~Timed(CustomFields(c)[k])
<1>1. CustomFields(c)[k] = CustomDescriptor(c.custom.list[k], c.protocol)
  BY CustomFieldsSequence
<1>2. CustomFields(c)[k].field = ""
  BY <1>1, CustomField
<1> QED BY <1>2 DEF Timed

\* The built-in shapes without relative times have no relative time.
LEMMA CoreUntimed ==
  ASSUME NEW i \in DOMAIN BuiltinCatalog("netflow-v9-core-v1"),
         NEW k \in DOMAIN BuiltinCatalog("netflow-v9-core-v1")[i].fields
  PROVE  ~Timed(BuiltinCatalog("netflow-v9-core-v1")[i].fields[k])
<1> DEFINE b == BuiltinCatalog("netflow-v9-core-v1")
<1>1. b = TwoShapes("v9", CoreOrder, "relative", 43, 80)
  BY DEF BuiltinCatalog
<1> DEFINE t == TwoShapes("v9", CoreOrder, "relative", 43, 80)
<1>7. /\ DOMAIN t = 1 .. 2
      /\ t[1].fields = OrderedFields("v9", CoreOrder, "relative", "ipv4")
      /\ t[2].fields = OrderedFields("v9", CoreOrder, "relative", "ipv6")
  BY DEF TwoShapes
<1> HIDE DEF t
<1>2. /\ DOMAIN b = 1 .. 2
      /\ b[1].fields = OrderedFields("v9", CoreOrder, "relative", "ipv4")
      /\ b[2].fields = OrderedFields("v9", CoreOrder, "relative", "ipv6")
  BY <1>1, <1>7 DEF t
<1>3. IsSequence(CoreOrder) /\ \A l \in DOMAIN CoreOrder : CoreOrder[l] \notin {"flow.start", "flow.end"}
  <2>1. CoreOrder = [l \in 1 .. 18 |-> CoreOrder[l]]
    BY DEF CoreOrder
  <2>2. DOMAIN CoreOrder = 1 .. 18 /\ \A l \in 1 .. 18 : CoreOrder[l] \notin {"flow.start", "flow.end"}
    BY DEF CoreOrder
  <2> QED BY <2>1, <2>2, TupleIsSequence
<1>4. ASSUME NEW family, NEW l \in DOMAIN OrderedFields("v9", CoreOrder, "relative", family)
      PROVE  ~Timed(OrderedFields("v9", CoreOrder, "relative", family)[l])
  <2>1. /\ DOMAIN OrderedFields("v9", CoreOrder, "relative", family) = DOMAIN CoreOrder
        /\ \A m \in DOMAIN CoreOrder : OrderedFields("v9", CoreOrder, "relative", family)[m].field = CoreOrder[m]
    BY <1>3, OrderedFieldsSequence
  <2> QED BY <1>3, <2>1 DEF Timed
<1> HIDE DEF b
<1>5. i \in 1 .. 2 /\ k \in DOMAIN b[i].fields
  BY <1>2 DEF b
<1>6. \A l \in DOMAIN b[i].fields : ~Timed(b[i].fields[l])
  BY <1>2, <1>4, <1>5
<1> QED BY <1>5, <1>6 DEF b

\* A v9 mapping with a time among its fields was compiled with an origin.
LEMMA TimedNeedsOrigin ==
  ASSUME NEW c, Compiled(c), c.protocol = "v9", IsSequence(c.fields.list), IsSequence(c.custom.list),
         NEW i \in DOMAIN CompiledShapes(c), NEW j \in DOMAIN CompiledShapes(c)[i].fields,
         Timed(CompiledShapes(c)[i].fields[j])
  PROVE  c.origin # Absent
<1> DEFINE G == CustomFields(c)
<1>1. IsSequence(G) /\ \A k \in DOMAIN G : ~Timed(G[k])
  BY CustomFieldsSequence, CustomUntimed
<1>2. CASE c.profile = ""
  <2> DEFINE list == c.fields.list
             F == SelectedFields(c, ShapeFamilies(c)[i])
  <2>1. CompiledShapes(c)[i].fields = F \o G
    BY <1>2, ExplicitShapeFields
  <2>2. /\ IsSequence(F) /\ DOMAIN F = DOMAIN list
        /\ \A k \in DOMAIN F : F[k] = DescriptorFor(c.protocol, list[k].canonical, list[k].target, ShapeFamilies(c)[i])
    BY SelectedFieldsSequence
  <2> HIDE DEF F, G
  <2>3. j \in DOMAIN (F \o G) /\ Timed((F \o G)[j])
    BY <2>1
  <2>4. (\E k \in DOMAIN F : (F \o G)[j] = F[k]) \/ (\E k \in DOMAIN G : (F \o G)[j] = G[k])
    BY <1>1, <2>2, <2>3, ConcatMembers
  <2>5. PICK k \in DOMAIN F : (F \o G)[j] = F[k]
    BY <1>1, <2>3, <2>4
  <2>6. F[k].field = list[k].canonical
    <3>1. DescriptorFor(c.protocol, list[k].canonical, list[k].target, ShapeFamilies(c)[i]).field = list[k].canonical
      BY DescriptorField
    <3> QED BY <2>2, <3>1
  <2>7. k \in DOMAIN list /\ list[k].canonical \in {"flow.start", "flow.end"}
    BY <2>2, <2>3, <2>5, <2>6 DEF Timed
  <2>8. Passes(FieldChecks(c, k))
    BY <1>2, <2>7 DEF Compiled
  <2> QED BY <2>7, <2>8, FieldReports
<1>3. CASE c.profile # ""
  <2> DEFINE F == BuiltinCatalog(c.profile)[i].fields
  <2>1. c.profile \in DOMAIN ProfileProtocol /\ ProfileProtocol[c.profile] = "v9"
    BY <1>3, SelectorPasses DEF Compiled
  <2>2. c.profile \in {"netflow-v9-core-v1", "netflow-v9-timed-v1"}
    BY <2>1 DEF ProfileProtocol
  <2>3. CASE c.profile = "netflow-v9-timed-v1"
    BY <2>3 DEF Compiled
  <2>4. CASE c.profile = "netflow-v9-core-v1"
    <3>1. AreShapes(BuiltinCatalog(c.profile))
      BY <2>1, BuiltinSequences
    <3>2. i \in DOMAIN BuiltinCatalog(c.profile) /\ CompiledShapes(c)[i].fields \in {F, F \o G}
      BY <1>3, <3>1, ProfileShapeFields
    <3>3. IsSequence(F)
      BY <3>1, <3>2 DEF AreShapes
    <3>4. \A k \in DOMAIN F : ~Timed(F[k])
      BY <2>4, <3>2, CoreUntimed
    <3> HIDE DEF F, G
    <3>5. CompiledShapes(c)[i].fields # F
      BY <3>4
    <3>6. CompiledShapes(c)[i].fields = F \o G
      BY <3>2, <3>5
    <3>7. j \in DOMAIN (F \o G) /\ Timed((F \o G)[j])
      BY <3>6
    <3>8. (\E k \in DOMAIN F : (F \o G)[j] = F[k]) \/ (\E k \in DOMAIN G : (F \o G)[j] = G[k])
      BY <1>1, <3>3, <3>7, ConcatMembers
    <3> QED BY <1>1, <3>4, <3>7, <3>8
  <2> QED BY <2>2, <2>3, <2>4
<1> QED BY <1>2, <1>3

-----------------------------------------------------------------------------
(* What compiled is accepted by the constructors after the compiler.       *)

\* The condition of a public check that passed is false.
LEMMA NamedNotBad ==
  ASSUME NEW s, Passes(s), NEW i \in DOMAIN s, NEW b, NEW rule, s[i] = Named(b, rule)
  PROVE  ~b
BY DEF Passes, Named, Check

\* The public checks are twenty-eight.
LEMMA ConfigTuple ==
  ASSUME NEW p
  PROVE  DOMAIN ConfigChecks(p) = 1 .. 28
BY DEF ConfigChecks

\* The public checks that the constructors repeat.
PublicOK(p) ==
  /\ ~(p.port = 0)
  /\ ~(p.protocol \notin {"v5", "v9", "ipfix"})
  /\ ~(~IdentityOK(p))
  /\ ~(p.sampling > 3)
  /\ ~(p.origin > Max63)
  /\ ~(p.maxDatagram \notin MinDatagram .. MaxDatagram)
  /\ ~(p.copies \notin 2 .. 8)
  /\ ~(p.refresh \notin 30 * Second .. Day)
  /\ ~(p.timeout \notin 100 .. 30 * Second)
  /\ ~(p.timeout > p.drain)
  /\ ~(p.drain \notin Second .. 30 * Second)
  /\ ~(p.dnsTimeout \notin 100 .. 30 * Second)
  /\ ~(p.dnsTimeout > p.drain)
  /\ ~(p.dnsRefresh \notin Second .. Day)
  /\ ~(p.dnsStale < p.dnsRefresh)
  /\ ~(p.dnsStale > 7 * Day)
  /\ ~(p.maxRecords # Absent /\ p.maxRecords \notin 1 .. (IF p.protocol = "v5" THEN 30 ELSE 1024))
  /\ ~(p.v9Refresh # Absent /\ (p.protocol # "v9" \/ p.v9Refresh \notin 1 .. 1000))
  /\ ~(p.ipfixRefresh # Absent /\ (p.protocol # "ipfix" \/ p.ipfixRefresh \notin 1 .. 1000))

\* The conditions of the public checks that passed are false.
LEMMA ConfigPasses ==
  ASSUME NEW p, Passes(ConfigChecks(p))
  PROVE  PublicOK(p)
<1> DEFINE L == ConfigChecks(p)
           b4 == p.port = 0
           b5 == p.protocol \notin {"v5", "v9", "ipfix"}
           b6 == ~IdentityOK(p)
           b7 == p.sampling > 3
           b8 == p.origin > Max63
           b9 == p.maxDatagram \notin MinDatagram .. MaxDatagram
           b11 == p.copies \notin 2 .. 8
           b12 == p.refresh \notin 30 * Second .. Day
           b13 == p.timeout \notin 100 .. 30 * Second
           b14 == p.timeout > p.drain
           b15 == p.drain \notin Second .. 30 * Second
           b16 == p.dnsTimeout \notin 100 .. 30 * Second
           b17 == p.dnsTimeout > p.drain
           b18 == p.dnsRefresh \notin Second .. Day
           b19 == p.dnsStale < p.dnsRefresh
           b20 == p.dnsStale > 7 * Day
           b21 == p.maxRecords # Absent /\ p.maxRecords \notin 1 .. (IF p.protocol = "v5" THEN 30 ELSE 1024)
           b22 == p.v9Refresh # Absent /\ (p.protocol # "v9" \/ p.v9Refresh \notin 1 .. 1000)
           b23 == p.ipfixRefresh # Absent /\ (p.protocol # "ipfix" \/ p.ipfixRefresh \notin 1 .. 1000)
<1>1. DOMAIN L = 1 .. 28
  BY ConfigTuple
<1>2. Passes(L)
  OBVIOUS
<1>3. ~b4
  <2>1. L[4] = Named(b4, "endpoint")
    BY DEF ConfigChecks
  <2> HIDE DEF L, b4
  <2> QED BY <1>1, <1>2, <2>1, NamedNotBad
<1>4. ~b5
  <2>1. L[5] = Named(b5, "protocol")
    BY DEF ConfigChecks
  <2> HIDE DEF L, b5
  <2> QED BY <1>1, <1>2, <2>1, NamedNotBad
<1>5. ~b6
  <2>1. L[6] = Named(b6, "identity")
    BY DEF ConfigChecks
  <2> HIDE DEF L, b6
  <2> QED BY <1>1, <1>2, <2>1, NamedNotBad
<1>6. ~b7
  <2>1. L[7] = Named(b7, "sampling_mode")
    BY DEF ConfigChecks
  <2> HIDE DEF L, b7
  <2> QED BY <1>1, <1>2, <2>1, NamedNotBad
<1>7. ~b8
  <2>1. L[8] = Named(b8, "uptime_origin")
    BY DEF ConfigChecks
  <2> HIDE DEF L, b8
  <2> QED BY <1>1, <1>2, <2>1, NamedNotBad
<1>8. ~b9
  <2>1. L[9] = Named(b9, "max_datagram")
    BY DEF ConfigChecks
  <2> HIDE DEF L, b9
  <2> QED BY <1>1, <1>2, <2>1, NamedNotBad
<1>9. ~b11
  <2>1. L[11] = Named(b11, "template_copies")
    BY DEF ConfigChecks
  <2> HIDE DEF L, b11
  <2> QED BY <1>1, <1>2, <2>1, NamedNotBad
<1>10. ~b12
  <2>1. L[12] = Named(b12, "template_refresh")
    BY DEF ConfigChecks
  <2> HIDE DEF L, b12
  <2> QED BY <1>1, <1>2, <2>1, NamedNotBad
<1>11. ~b13
  <2>1. L[13] = Named(b13, "timeout")
    BY DEF ConfigChecks
  <2> HIDE DEF L, b13
  <2> QED BY <1>1, <1>2, <2>1, NamedNotBad
<1>12. ~b14
  <2>1. L[14] = Named(b14, "timeout_drain")
    BY DEF ConfigChecks
  <2> HIDE DEF L, b14
  <2> QED BY <1>1, <1>2, <2>1, NamedNotBad
<1>13. ~b15
  <2>1. L[15] = Named(b15, "drain")
    BY DEF ConfigChecks
  <2> HIDE DEF L, b15
  <2> QED BY <1>1, <1>2, <2>1, NamedNotBad
<1>14. ~b16
  <2>1. L[16] = Named(b16, "dns_timeout")
    BY DEF ConfigChecks
  <2> HIDE DEF L, b16
  <2> QED BY <1>1, <1>2, <2>1, NamedNotBad
<1>15. ~b17
  <2>1. L[17] = Named(b17, "dns_timeout_drain")
    BY DEF ConfigChecks
  <2> HIDE DEF L, b17
  <2> QED BY <1>1, <1>2, <2>1, NamedNotBad
<1>16. ~b18
  <2>1. L[18] = Named(b18, "dns_refresh")
    BY DEF ConfigChecks
  <2> HIDE DEF L, b18
  <2> QED BY <1>1, <1>2, <2>1, NamedNotBad
<1>17. ~b19
  <2>1. L[19] = Named(b19, "dns_stale_refresh")
    BY DEF ConfigChecks
  <2> HIDE DEF L, b19
  <2> QED BY <1>1, <1>2, <2>1, NamedNotBad
<1>18. ~b20
  <2>1. L[20] = Named(b20, "dns_stale")
    BY DEF ConfigChecks
  <2> HIDE DEF L, b20
  <2> QED BY <1>1, <1>2, <2>1, NamedNotBad
<1>19. ~b21
  <2>1. L[21] = Named(b21, "record_limit")
    BY DEF ConfigChecks
  <2> HIDE DEF L, b21
  <2> QED BY <1>1, <1>2, <2>1, NamedNotBad
<1>20. ~b22
  <2>1. L[22] = Named(b22, "v9_refresh_packets")
    BY DEF ConfigChecks
  <2> HIDE DEF L, b22
  <2> QED BY <1>1, <1>2, <2>1, NamedNotBad
<1>21. ~b23
  <2>1. L[23] = Named(b23, "ipfix_refresh_packets")
    BY DEF ConfigChecks
  <2> HIDE DEF L, b23
  <2> QED BY <1>1, <1>2, <2>1, NamedNotBad
<1> QED BY <1>3, <1>4, <1>5, <1>6, <1>7, <1>8, <1>9, <1>10, <1>11, <1>12, <1>13, <1>14, <1>15, <1>16, <1>17, <1>18, <1>19, <1>20, <1>21 DEF PublicOK

\* What the mapping configuration and the mapper take over unchanged.
LEMMA MappingKeeps ==
  ASSUME NEW p
  PROVE  LET c == MappingConfig(p) IN
         /\ c.protocol = p.protocol /\ c.maxDatagram = p.maxDatagram /\ c.origin = p.origin /\ c.host = p.host
         /\ c.fields = p.fields /\ c.custom = p.custom /\ c.identifiers = p.identifiers /\ c.versions = p.versions
         /\ c.protocol = "v5" => c.idBase = 0
BY DEF MappingConfig

\* What the mapper takes over from the mapping configuration.
LEMMA MapperKeeps ==
  ASSUME NEW c
  PROVE  LET m == CompiledMapper(c) IN
         m.protocol = c.protocol /\ m.maxDatagram = c.maxDatagram /\ m.origin = c.origin /\ m.shapes = CompiledShapes(c)
BY DEF CompiledMapper, NewMapper

\* What validatePMTU accepts.
LEMMA PMTUPasses ==
  ASSUME NEW c, Passes(PMTUChecks(c)), c.maxDatagram \in Int
  PROVE  IF c.pathMTU = 0 THEN c.maxDatagram <= DefaultDatagram
         ELSE c.pathMTU \in 512 .. Max16 /\ c.maxDatagram + (IF c.host = "literal4" THEN 28 ELSE 48) <= c.pathMTU
<1> DEFINE L == PMTUChecks(c)
           b1 == c.pathMTU = 0 /\ c.maxDatagram > DefaultDatagram
           b2 == c.pathMTU # 0 /\ c.pathMTU \notin 512 .. Max16
           b3 == c.pathMTU # 0 /\ c.maxDatagram + (IF c.host = "literal4" THEN 28 ELSE 48) > c.pathMTU
<1>1. Passes(L)
  OBVIOUS
<1>2. L = <<Check(b1, "pmtu", "path_mtu"), Check(b2, "pmtu", "path_mtu"), Check(b3, "pmtu", "max_datagram_size")>>
  BY DEF PMTUChecks
<1> HIDE DEF L, b1, b2, b3
<1>3. DOMAIN L = 1 .. 3 /\ L[1] = Check(b1, "pmtu", "path_mtu")
      /\ L[2] = Check(b2, "pmtu", "path_mtu") /\ L[3] = Check(b3, "pmtu", "max_datagram_size")
  BY <1>2
<1>4. ~b1
  BY <1>1, <1>3, NotBad
<1>5. ~b2
  BY <1>1, <1>3, NotBad
<1>6. ~b3
  BY <1>1, <1>3, NotBad
<1> QED BY <1>4, <1>5, <1>6, WireAssumption DEF b1, b2, b3, DefaultDatagram

\* The members of an interval.
LEMMA IntervalMember ==
  ASSUME NEW a \in Int, NEW b \in Int, NEW x \in a .. b
  PROVE  x \in Int /\ a <= x /\ x <= b
OBVIOUS

\* The datagram limits are numbers.
LEMMA DatagramBounds == MinDatagram \in Nat /\ MinDatagram >= 128 /\ MaxDatagram \in Nat
BY DEF MinDatagram, MaxDatagram

\* And so is what lies between them.
LEMMA DatagramRange ==
  ASSUME NEW max \in MinDatagram .. MaxDatagram
  PROVE  max \in Int /\ max \in Nat /\ max >= 128
<1>1. max \in Int /\ MinDatagram <= max
  BY DatagramBounds, IntervalMember
<1> QED BY <1>1, DatagramBounds

\* After the public checks NewResolver refuses nothing but the host.
LEMMA ResolverAccepts ==
  ASSUME NEW p, PublicOK(p), p.host \in HostKinds, ~NewResolverOK(p)
  PROVE  p.host \in {"zoned", "badname"}
BY DEF PublicOK, NewResolverOK

\* NewCandidateDialer accepts what passed the public checks and the compiler.
LEMMA DialerAccepts ==
  ASSUME NEW p, PublicOK(p), Compiled(MappingConfig(p))
  PROVE  NewCandidateDialerOK(p, CompiledMapper(MappingConfig(p)))
<1> DEFINE c == MappingConfig(p)
           m == CompiledMapper(c)
<1>1. c.maxDatagram = p.maxDatagram /\ c.host = p.host
  BY MappingKeeps
<1>2. m.maxDatagram = p.maxDatagram
  BY <1>1, MapperKeeps
<1>3. p.maxDatagram \in MinDatagram .. MaxDatagram /\ p.port # 0 /\ p.timeout \in 100 .. 30 * Second
  BY DEF PublicOK
<1>4. p.maxDatagram \in Int
  BY <1>3, DatagramRange
<1>5. Passes(PMTUChecks(c))
  BY DEF Compiled
<1> HIDE DEF c, m
<1>6. IF c.pathMTU = 0 THEN p.maxDatagram <= DefaultDatagram
      ELSE c.pathMTU \in 512 .. Max16 /\ p.maxDatagram + (IF p.host = "literal4" THEN 28 ELSE 48) <= c.pathMTU
  BY <1>1, <1>4, <1>5, PMTUPasses
<1>7. c.pathMTU # 0 => p.maxDatagram + (IF p.host \in {"literal4", "literal4in6"} THEN 28 ELSE 48) <= c.pathMTU
  BY <1>4, <1>6, WireAssumption
<1>8. NewCandidateDialerOK(p, m)
  BY <1>2, <1>3, <1>4, <1>6, <1>7 DEF NewCandidateDialerOK, c
<1> QED BY <1>8 DEF m, c

\* The compiler's arithmetic of one record alone is the catalog's.
LEMMA OneRecordAlone ==
  ASSUME NEW shape, RecordLength(shape) \in Nat, shape.protocol \in {"v5", "v9", "ipfix"}
  PROVE  MinimumDataPacket(shape) = MappingDataBytesForMinimum(shape.protocol, RecordLength(shape), RecordLength(shape))
<1> DEFINE r == RecordLength(shape)
           raw == 4 + r
           h == HeaderLength(shape.protocol)
<1>1. h \in Nat
  BY DEF HeaderLength
<1>2. r \in Nat /\ raw \in Nat /\ raw % 4 \in 0 .. 3
  OBVIOUS
<1>3. SetHeader + r = raw /\ h + SetHeader + r = h + raw
  BY <1>1, <1>2 DEF SetHeader
<1> DEFINE rest == raw % 4
           pad == (4 - rest) % 4
<1>4. pad = IF rest # 0 THEN 4 - rest ELSE 0
  BY <1>2
<1>5. MappingDataBytesForMinimum(shape.protocol, r, r) =
        IF shape.protocol = "v5" THEN h + r ELSE h + raw + (IF pad < r THEN pad ELSE 0)
  BY <1>1, <1>2, <1>3 DEF MappingDataBytesForMinimum
<1>6. MinimumDataPacket(shape) =
        IF shape.protocol = "v5" THEN h + r ELSE h + raw + (IF rest # 0 /\ 4 - rest < r THEN 4 - rest ELSE 0)
  BY DEF MinimumDataPacket
<1>7. (IF pad < r THEN pad ELSE 0) = (IF rest # 0 /\ 4 - rest < r THEN 4 - rest ELSE 0)
  <2> HIDE DEF rest, pad, r
  <2>1. rest \in 0 .. 3 /\ r \in Nat
    BY <1>2 DEF rest
  <2> QED BY <1>4, <2>1
<1> HIDE DEF rest, pad, r, raw, h
<1>8. MinimumDataPacket(shape) = MappingDataBytesForMinimum(shape.protocol, r, r)
  BY <1>5, <1>6, <1>7
<1> QED BY <1>8 DEF r

\* The compiler's budget of a shape is enough for the destination's.
LEMMA BudgetsAgree ==
  ASSUME NEW shape, ShapeOK(shape), shape.protocol \in {"v5", "v9", "ipfix"}, NEW max \in MinDatagram .. MaxDatagram,
         WithinBudget(shape, max)
  PROVE  CatalogFits(shape, max)
<1> DEFINE r == RecordLength(shape)
           t == TemplateBytes(shape)
           d == MappingDataBytesForMinimum(shape.protocol, r, r)
<1>1. shape.recordLength = r /\ r \in 1 .. Max16 /\ shape.templateBytes = t
  BY DEF ShapeOK
<1>2. r \in Nat /\ max \in Int /\ max >= 128
  BY <1>1, WireAssumption, DatagramRange
<1>3. t \in Nat /\ (shape.protocol = "v5" => t = 0)
  <2>1. shape.protocol = "v5" => shape.templateBytes = 0
    BY DEF ShapeOK
  <2>2. shape.protocol # "v5" => shape.templateBytes \in 1 .. MaxTemplateBytes
    BY DEF ShapeOK
  <2>3. shape.templateBytes = t
    BY <1>1
  <2> HIDE DEF t
  <2>4. CASE shape.protocol = "v5"
    <3>1. t = 0
      BY <2>1, <2>3, <2>4
    <3> QED BY <3>1
  <2>5. CASE shape.protocol # "v5"
    <3>1. t \in 1 .. MaxTemplateBytes
      BY <2>2, <2>3, <2>5
    <3>2. t \in Nat
      BY <3>1 DEF MaxTemplateBytes
    <3> QED BY <2>5, <3>2
  <2> QED BY <2>4, <2>5
<1>4. HeaderLength(shape.protocol) \in 16 .. 24
  BY DEF HeaderLength
<1>5. d \in Int
  <2> DEFINE h == HeaderLength(shape.protocol)
             q == (4 - ((SetHeader + r) % 4)) % 4
  <2>1. q \in Nat /\ h \in Nat
    BY <1>2, <1>4 DEF SetHeader
  <2>2. d = IF shape.protocol = "v5" THEN h + r ELSE h + SetHeader + r + (IF q < r THEN q ELSE 0)
    BY DEF MappingDataBytesForMinimum
  <2> HIDE DEF d, q, h, r
  <2> QED BY <1>2, <2>1, <2>2 DEF SetHeader
<1>6. MinimumDataPacket(shape) = d
  BY <1>2, OneRecordAlone
<1>7. ~(d > max) /\ ~(shape.protocol # "v5" /\ HeaderLength(shape.protocol) + t > max)
  BY <1>1 DEF WithinBudget
<1> HIDE DEF r, t, d
<1>8. HeaderLength(shape.protocol) + t <= max
  BY <1>2, <1>3, <1>4, <1>7
<1>9. d <= max
  BY <1>2, <1>5, <1>7
<1> QED BY <1>6, <1>8, <1>9 DEF CatalogFits, t

\* NewRuntime accepts what passed the public checks and the compiler.
LEMMA RuntimeAccepts ==
  ASSUME NEW p, IsConfig(p), PublicOK(p), Compiled(MappingConfig(p))
  PROVE  NewRuntimeOK(p, CompiledMapper(MappingConfig(p)))
<1> DEFINE c == MappingConfig(p)
           m == CompiledMapper(c)
           shapes == CompiledShapes(c)
<1>1. /\ c.protocol = p.protocol /\ c.maxDatagram = p.maxDatagram /\ c.origin = p.origin
      /\ c.fields = p.fields /\ c.custom = p.custom
  BY MappingKeeps
<1>2. m.protocol = p.protocol /\ m.maxDatagram = p.maxDatagram /\ m.origin = p.origin /\ m.shapes = shapes
  BY <1>1, MapperKeeps
<1>3. p.maxDatagram \in MinDatagram .. MaxDatagram /\ p.protocol \in {"v5", "v9", "ipfix"}
  BY DEF PublicOK
<1>4. CatalogOK(p.protocol, IF p.protocol = "v5" THEN 0 ELSE shapes[1].id, shapes)
  BY <1>1 DEF Compiled
<1>5. ASSUME NEW i \in DOMAIN shapes
      PROVE  /\ ShapeOK(shapes[i]) /\ shapes[i].protocol = p.protocol
             /\ CatalogFits(shapes[i], p.maxDatagram)
             /\ IF p.protocol = "v5" THEN shapes[i].templateBytes = 0 ELSE shapes[i].templateBytes \in 1 .. MaxTemplateBytes
  <2>1. ShapeOK(shapes[i]) /\ shapes[i].protocol = p.protocol
    BY <1>4 DEF CatalogOK
  <2>2. WithinBudget(shapes[i], p.maxDatagram)
    BY <1>1 DEF Compiled
  <2> HIDE DEF shapes
  <2>3. CatalogFits(shapes[i], p.maxDatagram)
    BY <1>3, <2>1, <2>2, BudgetsAgree
  <2> QED BY <2>1, <2>3 DEF ShapeOK
<1>6. DestinationCatalogOK(m)
  BY <1>2, <1>4, <1>5 DEF DestinationCatalogOK
<1>7. UptimeOriginOK(p, m)
  <2>1. CASE p.protocol = "v9"
    <3>1. ASSUME NEW i \in DOMAIN m.shapes, NEW j \in DOMAIN m.shapes[i].fields,
                 m.shapes[i].fields[j].field \in {"flow.start", "flow.end"}
          PROVE  m.origin # Absent
      <4>1. IsSequence(c.fields.list) /\ IsSequence(c.custom.list) /\ c.protocol = "v9" /\ Compiled(c)
        BY <1>1, <2>1 DEF IsConfig
      <4>2. i \in DOMAIN CompiledShapes(c) /\ j \in DOMAIN CompiledShapes(c)[i].fields /\ Timed(CompiledShapes(c)[i].fields[j])
        BY <1>2, <3>1 DEF Timed
      <4> HIDE DEF c
      <4>3. c.origin # Absent
        BY <4>1, <4>2, TimedNeedsOrigin
      <4> QED BY <1>1, <1>2, <4>3
    <3> QED BY <1>2, <3>1 DEF UptimeOriginOK
  <2>2. CASE p.protocol = "v5"
    <3>1. IdentityOK(p)
      BY DEF PublicOK
    <3>2. p.origin # Absent
      BY <2>2, <3>1 DEF IdentityOK
    <3> QED BY <1>2, <3>2 DEF UptimeOriginOK
  <2>3. CASE p.protocol = "ipfix"
    BY <1>2, <2>3 DEF UptimeOriginOK
  <2> QED BY <1>3, <2>1, <2>2, <2>3
<1>8. StateConfigOK(p)
  <2>1. p.maxRecords \in {Absent} \cup (1 .. (IF p.protocol = "v5" THEN 30 ELSE 1024))
    BY DEF PublicOK
  <2>2. p.copies \in 2 .. 8 /\ p.refresh \in 30 * Second .. Day
    BY DEF PublicOK
  <2>3. p.protocol = "v9" => p.v9Refresh \in {Absent} \cup (1 .. 1000)
    BY DEF PublicOK
  <2>4. IdentityOK(p)
    BY DEF PublicOK
  <2>5. p.protocol = "ipfix" => p.ipfixRefresh <= 1000 /\ p.origin = Absent
    <3>1. p.protocol = "ipfix" => p.origin = Absent
      BY <2>4 DEF IdentityOK
    <3>2. p.ipfixRefresh = Absent \/ p.ipfixRefresh \in 1 .. 1000
      BY DEF PublicOK
    <3> QED BY <3>1, <3>2 DEF Absent
  <2>6. p.protocol = "v5" => p.origin # Absent /\ p.sampling <= 3
    <3>1. p.protocol = "v5" => p.origin # Absent
      BY <2>4 DEF IdentityOK
    <3>2. p.sampling <= 3
      BY DEF PublicOK, IsConfig
    <3> QED BY <3>1, <3>2
  <2>7. p.origin <= Max63
    BY ContractAssumption DEF PublicOK, IsConfig
  <2> QED BY <1>3, <2>1, <2>2, <2>3, <2>5, <2>6, <2>7 DEF StateConfigOK
<1>9. p.maxDatagram <= m.maxDatagram
  <2>1. p.maxDatagram \in Int
    BY <1>3, DatagramRange
  <2> QED BY <1>2, <2>1
<1>10. NewStateOK(p, m)
  BY <1>2, <1>5, <1>6, <1>7, <1>8, <1>9 DEF NewStateOK
<1>11. /\ p.drain \in Second .. 30 * Second /\ p.timeout <= p.drain /\ p.dnsTimeout <= p.drain
       /\ p.dnsRefresh \in Second .. Day /\ p.dnsStale \in p.dnsRefresh .. 7 * Day
  <2>1. /\ p.drain \in Second .. 30 * Second /\ p.timeout \in 100 .. 30 * Second /\ p.dnsTimeout \in 100 .. 30 * Second
        /\ ~(p.timeout > p.drain) /\ ~(p.dnsTimeout > p.drain)
    BY DEF PublicOK
  <2>2. p.dnsRefresh \in Second .. Day /\ ~(p.dnsStale < p.dnsRefresh) /\ ~(p.dnsStale > 7 * Day) /\ p.dnsStale \in Int
    BY DEF PublicOK, IsConfig
  <2>3. Second \in Nat /\ Day \in Nat
    BY DEF Second, Day, Hour, Minute
  <2>4. p.timeout <= p.drain /\ p.dnsTimeout <= p.drain
    BY <2>1, <2>3
  <2>5. p.dnsStale \in p.dnsRefresh .. 7 * Day
    BY <2>2, <2>3
  <2> QED BY <2>1, <2>2, <2>4, <2>5
<1> QED BY <1>2, <1>10, <1>11 DEF NewRuntimeOK

-----------------------------------------------------------------------------
(* What the construction has established at every phase.                   *)

CheckedPhases == {"compile", "resolver", "dialer", "runtime", "ready", "answered"}
MappedPhases == CheckedPhases \ {"compile"}

ConstructionInv ==
  /\ IsConfig(config)
  /\ phase \in CheckedPhases => PublicOK(config)
  /\ phase \in MappedPhases => mapper = CompiledMapper(MappingConfig(config)) /\ Compiled(MappingConfig(config))
  /\ OnlyEndpointIsGeneric

\* A public configuration that passes the checks of newRuntime is one the compiler can look at.
LEMMA ConfigCompiles ==
  ASSUME NEW p, IsConfig(p), PublicOK(p)
  PROVE  LET error == CompileError(MappingConfig(p)) IN
         /\ error.bad => Projected(error, p.protocol) = "named"
         /\ ~error.bad => Compiled(MappingConfig(p))
<1> DEFINE c == MappingConfig(p)
<1>1. /\ c.protocol = p.protocol /\ c.origin = p.origin /\ c.fields = p.fields /\ c.custom = p.custom
      /\ c.identifiers = p.identifiers /\ c.versions = p.versions /\ (c.protocol = "v5" => c.idBase = 0)
  BY MappingKeeps
<1>2. p.protocol \in {"v5", "v9", "ipfix"} /\ ~(p.origin > Max63)
  BY DEF PublicOK
<1>3. /\ IsSequence(p.fields.list) /\ IsSequence(p.custom.list)
      /\ IsSequence(p.identifiers.list) /\ IsSequence(p.versions.list)
  BY DEF IsConfig
<1> HIDE DEF c
<1>4. Tells(CompileError(c), c.protocol) /\ (~CompileError(c).bad => Compiled(c))
  BY <1>1, <1>2, <1>3, CompileTells
<1> QED BY <1>1, <1>4 DEF Tells, Projected, c

\* Initially nothing was checked and nothing refused.
LEMMA ConstructionInit ==
  ASSUME Init
  PROVE  ConstructionInv
<1>1. IsConfig(config)
  BY ScenariosAssumption DEF Init
<1>2. phase = "config" /\ refusal = NoRefusal
  BY DEF Init
<1> QED BY <1>1, <1>2 DEF ConstructionInv, OnlyEndpointIsGeneric, NoRefusal, CheckedPhases, MappedPhases

\* A constructor that accepts, or that refuses with a diagnostic or for the host, keeps the invariant.
LEMMA AdvanceKeeps ==
  ASSUME ConstructionInv, NEW ok \in BOOLEAN, NEW next, NEW stage, NEW diagnostic, Advance(ok, next, stage, diagnostic),
         ok => ( /\ next \in CheckedPhases => PublicOK(config)
                 /\ next \in MappedPhases => mapper' = CompiledMapper(MappingConfig(config)) /\ Compiled(MappingConfig(config)) ),
         ~ok => diagnostic = "named" \/ (stage = "resolver" /\ config.host \in {"zoned", "badname"})
  PROVE  ConstructionInv'
<1>1. config' = config
  BY DEF Advance
<1>2. CASE ok
  <2>1. phase' = next /\ refusal' = NoRefusal
    BY <1>2 DEF Advance
  <2> QED BY <1>1, <1>2, <2>1 DEF ConstructionInv, OnlyEndpointIsGeneric, NoRefusal
<1>3. CASE ~ok
  <2>1. phase' = "refused" /\ refusal' = [stage |-> stage, diagnostic |-> diagnostic]
    BY <1>3 DEF Advance
  <2> QED BY <1>1, <1>3, <2>1 DEF ConstructionInv, OnlyEndpointIsGeneric, CheckedPhases, MappedPhases
<1> QED BY <1>2, <1>3

\* Every step keeps what the construction established.
LEMMA ConstructionStep ==
  ASSUME ConstructionInv, [Next]_vars
  PROVE  ConstructionInv'
<1>1. CASE CheckConfig
  <2> DEFINE bad == First(ConfigChecks(config)).bad
             ok == ~bad
  <2>1. Advance(ok, "compile", "config", "named")
    BY <1>1 DEF CheckConfig
  <2>2. ASSUME ok PROVE PublicOK(config)
    <3>1. DOMAIN ConfigChecks(config) = 1 .. 28
      BY ConfigTuple
    <3>2. Passes(ConfigChecks(config))
      BY <2>2, <3>1, FirstPasses
    <3> QED BY <3>2, ConfigPasses
  <2> HIDE DEF bad
  <2>3. ok \in BOOLEAN
    OBVIOUS
  <2> HIDE DEF ok
  <2> QED BY <2>1, <2>2, <2>3, AdvanceKeeps DEF CheckedPhases, MappedPhases
<1>2. CASE CompileMapping
  <2> DEFINE c == MappingConfig(config)
             error == CompileError(c)
             ok == ~error.bad
             diagnostic == Projected(error, config.protocol)
  <2>1. /\ phase = "compile" /\ Advance(ok, "resolver", "compile", diagnostic)
        /\ mapper' = IF error.bad THEN NoMapper ELSE CompiledMapper(c)
    BY <1>2 DEF CompileMapping
  <2>2. PublicOK(config) /\ IsConfig(config)
    BY <2>1 DEF ConstructionInv, CheckedPhases
  <2>3. (~ok => diagnostic = "named") /\ (ok => Compiled(c))
    BY <2>2, ConfigCompiles
  <2>4. ok => mapper' = CompiledMapper(c)
    BY <2>1
  <2>5. ok \in BOOLEAN
    OBVIOUS
  <2> HIDE DEF ok, diagnostic
  <2> QED BY <2>1, <2>2, <2>3, <2>4, <2>5, AdvanceKeeps DEF c
<1>3. CASE BuildResolver
  <2> DEFINE ok == NewResolverOK(config)
  <2>1. phase = "resolver" /\ Advance(ok, "dialer", "resolver", "generic") /\ mapper' = mapper
    BY <1>3 DEF BuildResolver
  <2>2. /\ PublicOK(config) /\ IsConfig(config)
        /\ mapper = CompiledMapper(MappingConfig(config)) /\ Compiled(MappingConfig(config))
    BY <2>1 DEF ConstructionInv, CheckedPhases, MappedPhases
  <2>3. ~ok => config.host \in {"zoned", "badname"}
    BY <2>2, ResolverAccepts DEF IsConfig
  <2>4. ok \in BOOLEAN
    BY DEF NewResolverOK
  <2> HIDE DEF ok
  <2> QED BY <2>1, <2>2, <2>3, <2>4, AdvanceKeeps
<1>4. CASE BuildDialer
  <2> DEFINE ok == NewCandidateDialerOK(config, mapper)
  <2>1. phase = "dialer" /\ Advance(ok, "runtime", "dialer", "generic") /\ mapper' = mapper
    BY <1>4 DEF BuildDialer
  <2>2. /\ PublicOK(config) /\ IsConfig(config)
        /\ mapper = CompiledMapper(MappingConfig(config)) /\ Compiled(MappingConfig(config))
    BY <2>1 DEF ConstructionInv, CheckedPhases, MappedPhases
  <2>3. ok
    BY <2>2, DialerAccepts
  <2>4. ok \in BOOLEAN
    BY DEF NewCandidateDialerOK
  <2> HIDE DEF ok
  <2> QED BY <2>1, <2>2, <2>3, <2>4, AdvanceKeeps
<1>5. CASE BuildRuntime
  <2> DEFINE ok == NewRuntimeOK(config, mapper)
  <2>1. phase = "runtime" /\ Advance(ok, "ready", "runtime", "generic") /\ mapper' = mapper
    BY <1>5 DEF BuildRuntime
  <2>2. /\ PublicOK(config) /\ IsConfig(config)
        /\ mapper = CompiledMapper(MappingConfig(config)) /\ Compiled(MappingConfig(config))
    BY <2>1 DEF ConstructionInv, CheckedPhases, MappedPhases
  <2>3. ok
    BY <2>2, RuntimeAccepts
  <2>4. ok \in BOOLEAN
    BY DEF NewRuntimeOK
  <2> HIDE DEF ok
  <2> QED BY <2>1, <2>2, <2>3, <2>4, AdvanceKeeps
<1>6. CASE ConsumeRecord
  BY <1>6 DEF ConsumeRecord, ConstructionInv, OnlyEndpointIsGeneric
<1>7. CASE ReturnAnswer
  <2>1. phase = "ready" /\ phase' = "answered" /\ UNCHANGED <<config, refusal, mapper>>
    BY <1>7 DEF ReturnAnswer
  <2> QED BY <2>1 DEF ConstructionInv, OnlyEndpointIsGeneric, CheckedPhases, MappedPhases
<1>8. CASE UNCHANGED vars
  BY <1>8 DEF vars, ConstructionInv, OnlyEndpointIsGeneric
<1> QED BY <1>1, <1>2, <1>3, <1>4, <1>5, <1>6, <1>7, <1>8 DEF Next

\* Compile and the constructors of the resolver, the dialer and the runtime agree for every
\* configuration: the only refusal without a rule to act on is the resolver's, of a host with a
\* zone or of text that is no hostname.
THEOREM DiagnosticsAreNamed == Spec => []OnlyEndpointIsGeneric
<1>1. Init => ConstructionInv
  BY ConstructionInit
<1>2. ConstructionInv /\ [Next]_vars => ConstructionInv'
  BY ConstructionStep
<1>3. ConstructionInv => OnlyEndpointIsGeneric
  BY DEF ConstructionInv
<1> QED BY <1>1, <1>2, <1>3, PTL DEF Spec

-----------------------------------------------------------------------------
(* The packet of one record.                                               *)

\* A set of raw bytes with the alignment that a record of at least this length allows.
Gap(raw)            == (4 - (raw % 4)) % 4
Aligned(raw, least) == raw + (IF Gap(raw) < least THEN Gap(raw) ELSE 0)

\* What a record of this many bytes takes after the packet header.
Body(protocol, least, bytes) == IF protocol = "v5" THEN bytes ELSE Aligned(SetHeader + bytes, least)

Protocols == {"v5", "v9", "ipfix"}

\* The gap completes a multiple of four.
LEMMA GapRange ==
  ASSUME NEW raw \in Nat
  PROVE  Gap(raw) \in 0 .. 3 /\ \E k \in Nat : raw + Gap(raw) = 4 * k
<1>1. PICK k \in Nat, r \in 0 .. 3 : raw = 4 * k + r /\ raw % 4 = r
  <2>1. raw % 4 \in 0 .. 3 /\ raw \div 4 \in Nat /\ raw = 4 * (raw \div 4) + (raw % 4)
    OBVIOUS
  <2> QED BY <2>1
<1>2. CASE r = 0
  <2>1. Gap(raw) = 0
    BY <1>1, <1>2 DEF Gap
  <2> QED BY <1>1, <1>2, <2>1
<1>3. CASE r # 0
  <2>1. Gap(raw) = 4 - r
    BY <1>1, <1>3 DEF Gap
  <2>2. raw + Gap(raw) = 4 * (k + 1) /\ k + 1 \in Nat
    BY <1>1, <2>1
  <2>3. Gap(raw) \in 0 .. 3
    BY <1>3, <2>1
  <2> QED BY <2>2, <2>3
<1> QED BY <1>2, <1>3

\* A longer set is never shorter once it is aligned.
LEMMA AlignedMonotone ==
  ASSUME NEW x \in Nat, NEW y \in Nat, x <= y, NEW least \in Nat
  PROVE  Aligned(x, least) <= Aligned(y, least)
<1> DEFINE p == Gap(x)
           q == Gap(y)
<1>1. PICK k \in Nat : p \in 0 .. 3 /\ x + p = 4 * k
  BY GapRange
<1>2. PICK l \in Nat : q \in 0 .. 3 /\ y + q = 4 * l
  BY GapRange
<1>3. Aligned(x, least) = x + (IF p < least THEN p ELSE 0) /\ Aligned(y, least) = y + (IF q < least THEN q ELSE 0)
  BY DEF Aligned
<1> HIDE DEF p, q
<1>4. x + (IF p < least THEN p ELSE 0) <= y + (IF q < least THEN q ELSE 0)
  <2>1. k <= l
    BY <1>1, <1>2
  <2>2. CASE ~(p < least)
    BY <1>1, <1>2, <2>2
  <2>3. CASE p < least /\ q < least
    BY <1>1, <1>2, <2>1, <2>3
  <2>4. CASE p < least /\ ~(q < least)
    <3>1. k # l
      BY <1>1, <1>2, <2>4
    <3>2. 4 * k <= 4 * l - 4
      BY <2>1, <3>1
    <3> QED BY <1>1, <1>2, <2>4, <3>2
  <2> QED BY <2>2, <2>3, <2>4
<1> QED BY <1>3, <1>4

\* The mapper's packet of one record is its header and its body.
LEMMA MappingIsBody ==
  ASSUME NEW protocol \in Protocols, NEW least \in Nat, NEW bytes \in Nat
  PROVE  /\ Body(protocol, least, bytes) \in Nat /\ Body(protocol, least, bytes) >= bytes
         /\ HeaderLength(protocol) \in 16 .. 24
         /\ MappingDataBytesForMinimum(protocol, bytes, least) = HeaderLength(protocol) + Body(protocol, least, bytes)
<1> DEFINE h == HeaderLength(protocol)
           p == Gap(SetHeader + bytes)
           e == IF p < least THEN p ELSE 0
<1>1. h \in 16 .. 24
  BY DEF HeaderLength, Protocols
<1>2. p \in 0 .. 3
  BY GapRange DEF SetHeader
<1>3. Body(protocol, least, bytes) = IF protocol = "v5" THEN bytes ELSE SetHeader + bytes + e
  BY DEF Body, Aligned
<1>4. MappingDataBytesForMinimum(protocol, bytes, least) = IF protocol = "v5" THEN h + bytes ELSE h + SetHeader + bytes + e
  BY DEF MappingDataBytesForMinimum, Gap
<1>5. e \in 0 .. 3
  BY <1>2
<1> HIDE DEF h, e, p
<1>6. CASE protocol = "v5"
  BY <1>1, <1>3, <1>4, <1>6 DEF h
<1>7. CASE protocol # "v5"
  <2>1. Body(protocol, least, bytes) = SetHeader + bytes + e
    BY <1>3, <1>7
  <2>2. MappingDataBytesForMinimum(protocol, bytes, least) = h + SetHeader + bytes + e
    BY <1>4, <1>7
  <2> HIDE DEF Body
  <2>3. h + SetHeader + bytes + e = h + (SetHeader + bytes + e) /\ SetHeader + bytes + e \in Nat /\ SetHeader + bytes + e >= bytes
    BY <1>1, <1>5 DEF SetHeader
  <2> QED BY <1>1, <2>1, <2>2, <2>3 DEF h
<1> QED BY <1>6, <1>7

\* The wire's set of one record is the same body, if it is a set at all.
LEMMA SetIsBody ==
  ASSUME NEW shape, shape.protocol \in Protocols, RecordLength(shape) \in Nat, NEW bytes \in Nat, RecordLength(shape) <= bytes,
         ~HasVariableFields(shape) => bytes = RecordLength(shape)
  PROVE  LET body == Body(shape.protocol, RecordLength(shape), bytes) IN
         DataSetSize(shape, bytes, 1) = IF body > Max16 THEN Bounds ELSE body
<1> DEFINE least == RecordLength(shape)
           body  == Body(shape.protocol, least, bytes)
           raw   == SetHeader + bytes
           length == IF shape.protocol = "v5" THEN bytes ELSE raw + Padding(shape, raw)
<1>1. length = body
  BY DEF Padding, Body, Aligned, Gap
<1>2. 1 * least = least /\ ~(1 > Max16) /\ 1 # 0
  BY WireAssumption
<1>3. ~(bytes < 1 * least) /\ ~(~HasVariableFields(shape) /\ bytes # 1 * least)
  BY <1>2
<1>4. DataSetSize(shape, bytes, 1) =
        IF 1 > Max16 \/ bytes < 1 * least \/ (~HasVariableFields(shape) /\ bytes # 1 * least) THEN Bounds
        ELSE IF 1 = 0 THEN (IF bytes = 0 THEN 0 ELSE Bounds)
        ELSE IF length > Max16 THEN Bounds ELSE length
  BY DEF DataSetSize
<1> HIDE DEF length, body, least
<1> QED BY <1>1, <1>2, <1>3, <1>4 DEF body, least

-----------------------------------------------------------------------------
(* Fields, and the values that they measure.                               *)

\* What the arithmetic needs to know of a descriptor.
GoodField(d) ==
  /\ d.encoding \in Encodings
  /\ d.variable => d.custom /\ ~d.constant /\ d.encoding \in Elastic /\ d.maxLength \in Nat
  /\ ~d.variable => d.length \in Nat \ {0}

\* The length of an IPFIX field, or its largest.
LEMMA IPFIXLengths ==
  ASSUME NEW d, IPFIXDescriptorOK(d)
  PROVE  IF d.variable THEN d.custom /\ d.maxLength \in 1 .. Max16 ELSE d.length \in 1 .. Max16 - 1
<1>1. IPFIXLengthOK(d)
  BY DEF IPFIXDescriptorOK
<1> QED BY <1>1 DEF IPFIXLengthOK

\* A descriptor that the wire contract accepts is a good field.
LEMMA DescriptorGood ==
  ASSUME NEW d, DescriptorOK(d), d.protocol \in Protocols
  PROVE  GoodField(d)
<1>1. SourceOK(d) /\ d.encoding \in Encodings /\ (d.custom /\ d.variable => d.encoding \in Elastic)
  BY DEF DescriptorOK
<1>2. d.custom => ~d.constant
  BY <1>1 DEF SourceOK
<1>3. CASE d.protocol = "v5"
  <2>1. V5DescriptorOK(d)
    BY <1>3 DEF DescriptorOK
  <2>2. ~d.variable /\ d.length \in 1 .. Max16
    BY <2>1 DEF V5DescriptorOK
  <2>3. d.length \in Nat \ {0}
    BY <2>2, WireAssumption
  <2> QED BY <1>1, <2>2, <2>3 DEF GoodField
<1>4. CASE d.protocol = "v9"
  <2>1. V9DescriptorOK(d)
    BY <1>4 DEF DescriptorOK
  <2>2. ~d.variable /\ d.length \in 1 .. Max16
    BY <2>1 DEF V9DescriptorOK
  <2>3. d.length \in Nat \ {0}
    BY <2>2, WireAssumption
  <2> QED BY <1>1, <2>2, <2>3 DEF GoodField
<1>5. CASE d.protocol = "ipfix"
  <2>1. IPFIXDescriptorOK(d)
    BY <1>5 DEF DescriptorOK
  <2>2. CASE d.variable
    <3>1. d.custom /\ d.maxLength \in 1 .. Max16
      BY <2>1, <2>2, IPFIXLengths
    <3>2. d.maxLength \in Nat
      BY <3>1, WireAssumption
    <3> QED BY <1>1, <1>2, <2>2, <3>1, <3>2 DEF GoodField
  <2>3. CASE ~d.variable
    <3>1. d.length \in 1 .. Max16 - 1
      BY <2>1, <2>3, IPFIXLengths
    <3>2. d.length \in Nat \ {0}
      BY <3>1, WireAssumption
    <3> QED BY <1>1, <2>3, <3>2 DEF GoodField
  <2> QED BY <2>2, <2>3
<1> QED BY <1>3, <1>4, <1>5 DEF Protocols

\* A text or octets have a length.
GoodValue(d, v) == d.variable /\ v.kind \in {"string", "bytes"} => v.n \in Nat

\* What a field tells of the length of a value that it can hold.
Measured(d, v, n) ==
  /\ Sound(d, v) /\ n = ValueLength(d, v.n) /\ n \in Nat /\ MinimumLength(d) <= n
  /\ ~d.variable => n = MinimumLength(d)

\* A length that is not an error is the length of a value that the field can hold.
LEMMA LengthMeasured ==
  ASSUME NEW d, GoodField(d), NEW v, GoodValue(d, v), FieldLength(d, v) \notin {Invalid, Bounds}
  PROVE  Measured(d, v, FieldLength(d, v)) /\ MinimumLength(d) \in Nat \ {0}
<1>1. Sound(d, v) /\ FieldLength(d, v) = ValueLength(d, v.n)
  BY DEF FieldLength
<1>2. CASE ~d.variable
  <2>1. ValueLength(d, v.n) = d.length /\ MinimumLength(d) = d.length /\ d.length \in Nat \ {0}
    BY <1>2 DEF ValueLength, MinimumLength, GoodField
  <2> QED BY <1>1, <1>2, <2>1 DEF Measured
<1>3. CASE d.variable
  <2>1. d.encoding \in {"string", "octet_array"} /\ ~d.constant
    BY <1>3 DEF GoodField, Elastic
  <2>2. v.kind \in {"string", "bytes"}
    BY <1>1, <2>1 DEF Sound, Unsigned, Signed, Times
  <2>3. v.n \in Nat
    BY <1>3, <2>2 DEF GoodValue
  <2>4. ValueLength(d, v.n) = IF v.n > d.maxLength \/ Prefix(v.n) + v.n > Max16 THEN Bounds ELSE Prefix(v.n) + v.n
    BY <1>3 DEF ValueLength
  <2>5. ValueLength(d, v.n) = Prefix(v.n) + v.n
    BY <1>1, <2>4
  <2>6. Prefix(v.n) \in {1, 3}
    BY DEF Prefix
  <2>7. Prefix(v.n) + v.n \in Nat /\ 1 <= Prefix(v.n) + v.n
    BY <2>3, <2>6
  <2>8. MinimumLength(d) = 1
    BY <1>3 DEF MinimumLength
  <2> QED BY <1>1, <1>3, <2>5, <2>7, <2>8 DEF Measured
<1> QED BY <1>2, <1>3

\* A value that its field can hold is of the family of the shape.
LEMMA SoundForFamily ==
  ASSUME NEW d, GoodField(d), NEW v, Sound(d, v), NEW family \in Families, AddressFits(d, family)
  PROVE  ValueOKForFamily(v, family)
<1>1. ValueOK(v)
  BY DEF Sound
<1>2. ASSUME v.kind = "ip"
      PROVE  v.text \in (IF family = "ipv4" THEN {"ip4"} ELSE {"ip6", "ip4in6"})
  <2>1. ~d.constant
    BY <1>2 DEF Sound
  <2>2. d.encoding \in Encodings
    BY DEF GoodField
  <2>3. CASE d.encoding = "ipv4_address"
    <3>1. v.text = "ip4"
      BY <2>1, <2>3 DEF Sound, Unsigned, Signed, Times
    <3>2. family = "ipv4"
      BY <2>3 DEF AddressFits, AddressEncoding, Families
    <3> QED BY <3>1, <3>2
  <2>4. CASE d.encoding = "ipv6_address"
    <3>1. v.text \in {"ip6", "ip4in6"}
      BY <2>1, <2>4 DEF Sound, Unsigned, Signed, Times
    <3>2. family = "ipv6"
      BY <2>4 DEF AddressFits, AddressEncoding, Families
    <3> QED BY <3>1, <3>2
  <2>5. CASE d.encoding \notin {"ipv4_address", "ipv6_address"}
    <3>1. CASE d.encoding \in Unsigned
      BY <1>2, <2>1, <3>1 DEF Sound, Unsigned, Signed, Times
    <3>2. CASE d.encoding \in Signed
      BY <1>2, <2>1, <3>2 DEF Sound, Unsigned, Signed, Times
    <3>3. CASE d.encoding \in Elastic
      BY <1>2, <2>1, <3>3 DEF Sound, Unsigned, Signed, Times, Elastic
    <3>4. CASE d.encoding \in Times
      BY <1>2, <2>1, <3>4 DEF Sound, Unsigned, Signed, Times
    <3>5. CASE d.encoding = "mac_address"
      BY <1>2, <2>1, <3>5 DEF Sound, Unsigned, Signed, Times
    <3> QED BY <2>2, <2>5, <3>1, <3>2, <3>3, <3>4, <3>5 DEF Encodings
  <2> QED BY <2>3, <2>4, <2>5
<1> QED BY <1>1, <1>2 DEF ValueOKForFamily

-----------------------------------------------------------------------------
(* The lengths of one record.                                              *)

\* What the arithmetic needs to know of a shape.
GoodShape(shape) ==
  /\ shape.protocol \in Protocols /\ shape.family \in Families
  /\ IsSequence(shape.fields) /\ Len(shape.fields) \in 1 .. MaxFieldsPerShape
  /\ \A i \in DOMAIN shape.fields : GoodField(shape.fields[i]) /\ AddressFits(shape.fields[i], shape.family)

Lengths(shape, values) == [i \in DOMAIN shape.fields |-> FieldLength(shape.fields[i], values[i])]

GoodValues(shape, values) == \A i \in DOMAIN shape.fields : GoodValue(shape.fields[i], values[i])

\* Every value has a length.
Measurable(shape, values) == \A i \in DOMAIN shape.fields : Lengths(shape, values)[i] \notin {Invalid, Bounds}

\* So the lengths of a record without an error are numbers.
LEMMA LengthsMeasured ==
  ASSUME NEW shape, GoodShape(shape), NEW values, GoodValues(shape, values), Measurable(shape, values)
  PROVE  LET lengths == Lengths(shape, values) IN
         /\ lengths \in Seq(Nat) /\ Len(lengths) = Len(shape.fields) /\ DOMAIN lengths = 1 .. Len(shape.fields)
         /\ \A i \in 1 .. Len(shape.fields) :
              Measured(shape.fields[i], values[i], lengths[i]) /\ MinimumLength(shape.fields[i]) \in Nat \ {0}
<1> DEFINE n == Len(shape.fields)
           lengths == Lengths(shape, values)
<1>1. n \in Nat /\ DOMAIN shape.fields = 1 .. n
  BY SequenceDomain DEF GoodShape
<1>2. ASSUME NEW i \in 1 .. n
      PROVE  Measured(shape.fields[i], values[i], lengths[i]) /\ MinimumLength(shape.fields[i]) \in Nat \ {0}
  <2>1. GoodField(shape.fields[i]) /\ GoodValue(shape.fields[i], values[i])
    BY <1>1 DEF GoodShape, GoodValues
  <2>2. lengths[i] = FieldLength(shape.fields[i], values[i])
    BY <1>1 DEF Lengths
  <2>3. FieldLength(shape.fields[i], values[i]) \notin {Invalid, Bounds}
    BY <1>1, <2>2 DEF Measurable
  <2> QED BY <2>1, <2>2, <2>3, LengthMeasured
<1>3. lengths = [i \in 1 .. n |-> lengths[i]]
  BY <1>1 DEF Lengths
<1> HIDE DEF n, lengths
<1>4. ASSUME NEW i \in 1 .. n PROVE lengths[i] \in Nat
  BY <1>2 DEF Measured
<1>5. lengths \in [1 .. n -> Nat]
  BY <1>3, <1>4
<1>6. lengths \in Seq(Nat) /\ Len(lengths) = n /\ DOMAIN lengths = 1 .. n
  BY <1>1, <1>5, FunctionIsSequence
<1> QED BY <1>2, <1>6 DEF n, lengths

\* Part of a record is not longer than the record.
LEMMA PartOfSum ==
  ASSUME NEW s \in Seq(Nat), NEW i \in 1 .. Len(s)
  PROVE  /\ Sum(SubSeq(s, 1, i)) \in Nat /\ Sum(s) \in Nat /\ Sum(SubSeq(s, 1, i)) <= Sum(s)
         /\ i = Len(s) => Sum(SubSeq(s, 1, i)) = Sum(s)
<1> DEFINE t == SubSeq(s, 1, i)
           f == Sums(s)
           g == Sums(t)
<1>1. Len(s) \in Nat /\ i \in Nat /\ i <= Len(s)
  BY LenProperties
<1>2. t \in Seq(Nat) /\ Len(t) = i /\ \A k \in 1 .. i : t[k] = s[k]
  BY <1>1, SubSeqProperties
<1> HIDE DEF t
<1>3. AreSums(f, s) /\ Sum(s) = f[Len(s)] /\ Sum(s) \in Nat
  BY SumsDefined
<1>4. AreSums(g, t) /\ Sum(t) = g[i] /\ Sum(t) \in Nat
  BY <1>2, SumsDefined
<1> HIDE DEF f, g
<1>5. f[i] = g[i]
  <2>1. Len(t) = i
    BY <1>2
  <2>2. Len(t) \in Nat /\ i <= Len(t)
    BY <1>1, <2>1
  <2>3. ASSUME NEW k \in 1 .. i PROVE s[k] = t[k]
    BY <1>2
  <2>4. AreSums(f, s) /\ AreSums(g, t)
    BY <1>3, <1>4
  <2> QED BY <1>1, <2>2, <2>3, <2>4, SumsPrefix
<1>6. f[i] <= f[Len(s)]
  <2> DEFINE T == {k \in 0 .. Len(s) : i <= k => f[i] <= f[k]}
  <2>1. f \in [0 .. Len(s) -> Nat] /\ \A k \in 1 .. Len(s) : f[k] = f[k - 1] + s[k]
    BY <1>3 DEF AreSums
  <2>2. 0 \in T
    BY <1>1
  <2>3. ASSUME NEW k \in 0 .. Len(s) - 1, k \in T PROVE k + 1 \in T
    <3>1. k + 1 \in 1 .. Len(s) /\ (k + 1) - 1 = k /\ k \in 0 .. Len(s) /\ k + 1 \in 0 .. Len(s) /\ i \in 0 .. Len(s)
      BY <1>1
    <3>2. f[k + 1] = f[k] + s[k + 1]
      BY <2>1, <3>1
    <3>3. f[k] \in Nat /\ f[i] \in Nat /\ f[k + 1] \in Nat /\ s[k + 1] \in Nat
      BY <2>1, <3>1, ElementOfSeq
    <3>4. CASE i <= k
      BY <2>3, <3>1, <3>2, <3>3, <3>4
    <3>5. CASE ~(i <= k)
      <4>1. i <= k + 1 => i = k + 1
        BY <1>1, <3>5
      <4> QED BY <3>1, <3>3, <4>1
    <3> QED BY <3>4, <3>5
  <2> HIDE DEF T
  <2>4. Len(s) \in T
    <3> DEFINE n == Len(s)
    <3>1. n \in Nat /\ \A k \in 0 .. n - 1 : k \in T => k + 1 \in T
      BY <1>1, <2>3
    <3> HIDE DEF n
    <3>2. \A k \in 0 .. n : k \in T
      BY <2>2, <3>1, Induction
    <3>3. n \in 0 .. n
      BY <3>1
    <3> QED BY <3>2, <3>3 DEF n
  <2> QED BY <1>1, <2>4 DEF T
<1> QED BY <1>1, <1>3, <1>4, <1>5, <1>6 DEF t

\* A record is at least as long as its shape says, and exactly as long if nothing in it varies.
LEMMA RecordAtLeast ==
  ASSUME NEW shape, GoodShape(shape), NEW values, GoodValues(shape, values), Measurable(shape, values)
  PROVE  LET bytes == Sum(Lengths(shape, values)) IN
         /\ bytes \in Nat /\ RecordLength(shape) \in Nat /\ RecordLength(shape) <= bytes
         /\ ~HasVariableFields(shape) => bytes = RecordLength(shape)
<1> DEFINE n == Len(shape.fields)
           lengths == Lengths(shape, values)
           least == [i \in DOMAIN shape.fields |-> MinimumLength(shape.fields[i])]
<1>1. /\ lengths \in Seq(Nat) /\ Len(lengths) = n /\ DOMAIN lengths = 1 .. n
      /\ \A i \in 1 .. n : Measured(shape.fields[i], values[i], lengths[i]) /\ MinimumLength(shape.fields[i]) \in Nat \ {0}
  BY LengthsMeasured
<1>2. n \in Nat /\ DOMAIN shape.fields = 1 .. n
  BY SequenceDomain DEF GoodShape
<1>3. least \in [1 .. n -> Nat] /\ \A i \in 1 .. n : least[i] = MinimumLength(shape.fields[i])
  BY <1>1, <1>2
<1>4. RecordLength(shape) = Sum(least)
  BY DEF RecordLength
<1>5. ~HasVariableFields(shape) => \A i \in 1 .. n : ~shape.fields[i].variable
  BY <1>2 DEF HasVariableFields
<1> HIDE DEF n, lengths, least
<1>6. least \in Seq(Nat) /\ Len(least) = n /\ DOMAIN least = 1 .. n
  BY <1>2, <1>3, FunctionIsSequence
<1>7. \A i \in 1 .. n : least[i] <= lengths[i] /\ (~shape.fields[i].variable => lengths[i] = least[i])
  BY <1>1, <1>3 DEF Measured
<1>8. Sum(least) <= Sum(lengths)
  BY <1>1, <1>6, <1>7, SumMonotone
<1>9. Sum(least) \in Nat /\ Sum(lengths) \in Nat
  BY <1>1, <1>6, SumsDefined
<1>10. ~HasVariableFields(shape) => Sum(lengths) = Sum(least)
  <2> SUFFICES ASSUME ~HasVariableFields(shape) PROVE Sum(lengths) = Sum(least)
    OBVIOUS
  <2>1. \A i \in 1 .. n : lengths[i] <= least[i]
    BY <1>5, <1>6, <1>7, <1>3
  <2>2. Sum(lengths) <= Sum(least)
    BY <1>1, <1>6, <2>1, SumMonotone
  <2> QED BY <1>8, <1>9, <2>2
<1> QED BY <1>4, <1>8, <1>9, <1>10 DEF lengths

\* The packet that carries a record alone: the mapper's size of it and the wire's.
LEMMA PacketOfRecord ==
  ASSUME NEW shape, GoodShape(shape), NEW values, GoodValues(shape, values), Measurable(shape, values)
  PROVE  LET bytes == Sum(Lengths(shape, values))
             set   == DataSetSize(shape, bytes, 1)
             packet == MappingDataBytesForMinimum(shape.protocol, bytes, RecordLength(shape))
         IN  /\ packet \in Nat /\ (bytes > Max16 => set = Bounds)
             /\ set # Bounds => PacketLength(shape.protocol, 0, set) = packet
             /\ packet <= Max16 => set # Bounds
<1> DEFINE bytes == Sum(Lengths(shape, values))
           least == RecordLength(shape)
           protocol == shape.protocol
           body  == Body(protocol, least, bytes)
           set   == DataSetSize(shape, bytes, 1)
           packet == MappingDataBytesForMinimum(protocol, bytes, least)
           h == HeaderLength(protocol)
<1>1. bytes \in Nat /\ least \in Nat /\ least <= bytes /\ (~HasVariableFields(shape) => bytes = least)
  BY RecordAtLeast
<1>2. protocol \in Protocols
  BY DEF GoodShape
<1>3. body \in Nat /\ body >= bytes /\ h \in 16 .. 24 /\ packet = h + body
  BY <1>1, <1>2, MappingIsBody
<1>4. set = IF body > Max16 THEN Bounds ELSE body
  BY <1>1, <1>2, SetIsBody
<1>5. PacketLength(protocol, 0, set) = h + 0 + set
  BY DEF PacketLength
<1> HIDE DEF bytes, least, body, set, packet, h
<1>6. packet \in Nat /\ (bytes > Max16 => set = Bounds)
  BY <1>1, <1>3, <1>4, WireAssumption
<1>7. set # Bounds => PacketLength(protocol, 0, set) = packet
  BY <1>3, <1>4, <1>5
<1>8. packet <= Max16 => set # Bounds
  BY <1>3, <1>4, WireAssumption DEF Bounds
<1> HIDE DEF protocol
<1> QED BY <1>6, <1>7, <1>8 DEF bytes, least, set, packet, protocol

\* The packet of a longer record is not shorter.
LEMMA PacketMonotone ==
  ASSUME NEW protocol \in Protocols, NEW least \in Nat, NEW x \in Nat, NEW y \in Nat, x <= y
  PROVE  MappingDataBytesForMinimum(protocol, x, least) <= MappingDataBytesForMinimum(protocol, y, least)
<1> DEFINE h == HeaderLength(protocol)
           a == Body(protocol, least, x)
           b == Body(protocol, least, y)
<1>1. a \in Nat /\ b \in Nat /\ h \in 16 .. 24
  BY MappingIsBody
<1>2. MappingDataBytesForMinimum(protocol, x, least) = h + a /\ MappingDataBytesForMinimum(protocol, y, least) = h + b
  BY MappingIsBody
<1>3. a <= b
  <2>1. SetHeader + x \in Nat /\ SetHeader + y \in Nat /\ SetHeader + x <= SetHeader + y
    BY DEF SetHeader
  <2>2. Aligned(SetHeader + x, least) <= Aligned(SetHeader + y, least)
    BY <2>1, AlignedMonotone
  <2> QED BY <2>2 DEF Body
<1> HIDE DEF a, b, h
<1> QED BY <1>1, <1>2, <1>3

-----------------------------------------------------------------------------
(* The reasons of the mapper.                                              *)

\* The only check of a value that speaks of a budget.
Over(d, v) == d.encoding \in Elastic /\ d.variable /\ v.n > d.maxLength

Explains(x, d, v) == x.code \notin {"", "record_invalid"} /\ (x.bad /\ x.code = "budget_exceeded" => Over(d, v))

Explained(s, d, v) == IsSequence(s) /\ \A k \in DOMAIN s : Explains(s[k], d, v)

\* The checks of a custom value: only the one on its length speaks of a budget.
LEMMA CustomExplained ==
  ASSUME NEW d, NEW v
  PROVE  Explained(CustomCheckList(d, v), d, v)
<1> DEFINE L == CustomCheckList(d, v)
<1>1. L = [k \in 1 .. 11 |-> L[k]]
  BY DEF CustomCheckList
<1>2. Explains(L[1], d, v) /\ Explains(L[2], d, v) /\ Explains(L[3], d, v) /\ Explains(L[4], d, v)
  BY DEF CustomCheckList, Check, Explains
<1>3. Explains(L[5], d, v) /\ Explains(L[6], d, v) /\ Explains(L[7], d, v)
  BY DEF CustomCheckList, Check, Explains
<1>4. Explains(L[8], d, v)
  BY DEF CustomCheckList, Check, Explains, Over
<1>5. Explains(L[9], d, v) /\ Explains(L[10], d, v) /\ Explains(L[11], d, v)
  BY DEF CustomCheckList, Check, Explains
<1> HIDE DEF L
<1>6. IsSequence(L) /\ DOMAIN L = 1 .. 11
  BY <1>1, TupleIsSequence
<1>7. \A k \in 1 .. 11 : Explains(L[k], d, v)
  BY <1>2, <1>3, <1>4, <1>5
<1> QED BY <1>6, <1>7 DEF Explained, L

\* The checks of an ICMP type and code speak of no budget.
LEMMA ICMPExplained ==
  ASSUME NEW m, NEW record, NEW d, NEW v
  PROVE  Explained(ICMPTypeCodeChecks(m, record), d, v)
<1> DEFINE L == ICMPTypeCodeChecks(m, record)
<1>1. L = [k \in 1 .. 5 |-> L[k]]
  BY DEF ICMPTypeCodeChecks
<1>2. Explains(L[1], d, v) /\ Explains(L[2], d, v) /\ Explains(L[3], d, v)
  BY DEF ICMPTypeCodeChecks, Check, Explains
<1>3. Explains(L[4], d, v) /\ Explains(L[5], d, v)
  BY DEF ICMPTypeCodeChecks, Check, Explains
<1> HIDE DEF L
<1>4. IsSequence(L) /\ DOMAIN L = 1 .. 5
  BY <1>1, TupleIsSequence
<1>5. \A k \in 1 .. 5 : Explains(L[k], d, v)
  BY <1>2, <1>3
<1> QED BY <1>4, <1>5 DEF Explained, L

\* Nor do the checks of a canonical value.
LEMMA CanonicalExplained ==
  ASSUME NEW m, NEW record, NEW d, NEW v
  PROVE  Explained(CanonicalChecks(m, d, record), d, v)
<1> DEFINE L == CanonicalChecks(m, d, record)
<1>1. L = [k \in 1 .. 11 |-> L[k]]
  BY DEF CanonicalChecks
<1>2. Explains(L[1], d, v) /\ Explains(L[2], d, v) /\ Explains(L[3], d, v) /\ Explains(L[4], d, v)
  BY DEF CanonicalChecks, Check, Explains
<1>3. Explains(L[5], d, v) /\ Explains(L[6], d, v) /\ Explains(L[7], d, v) /\ Explains(L[8], d, v)
  BY DEF CanonicalChecks, Check, Explains
<1>4. Explains(L[9], d, v) /\ Explains(L[10], d, v) /\ Explains(L[11], d, v)
  BY DEF CanonicalChecks, Check, Explains
<1> HIDE DEF L
<1>5. IsSequence(L) /\ DOMAIN L = 1 .. 11
  BY <1>1, TupleIsSequence
<1>6. \A k \in 1 .. 11 : Explains(L[k], d, v)
  BY <1>2, <1>3, <1>4
<1> QED BY <1>5, <1>6 DEF Explained, L

\* The checks of a value that a binding takes.
LEMMA ValueExplained ==
  ASSUME NEW m, NEW d, NEW record, NEW attrs
  PROVE  Explained(ValueChecks(m, d, record, attrs), d, Answer(attrs, d.source))
<1> DEFINE v == Answer(attrs, d.source)
<1>1. CASE d.constant
  <2>1. ValueChecks(m, d, record, attrs) = <<>>
    BY <1>1 DEF ValueChecks
  <2>2. IsSequence(<<>>) /\ DOMAIN <<>> = {}
    BY EmptySeq DEF IsSequence
  <2> QED BY <2>1, <2>2 DEF Explained
<1>2. CASE ~d.constant /\ d.custom
  <2>1. ValueChecks(m, d, record, attrs) = CustomCheckList(d, v)
    BY <1>2 DEF ValueChecks
  <2> HIDE DEF v
  <2> QED BY <2>1, CustomExplained DEF v
<1>3. CASE ~d.constant /\ ~d.custom
  <2>1. ValueChecks(m, d, record, attrs) \in {ICMPTypeCodeChecks(m, record), CanonicalChecks(m, d, record)}
    BY <1>3 DEF ValueChecks
  <2> HIDE DEF v
  <2> QED BY <2>1, ICMPExplained, CanonicalExplained DEF v
<1> QED BY <1>1, <1>2, <1>3

\* The record up to a field is too large for a record or for a datagram.
TooLarge(m, shape, i, lengths) ==
  LET bytes == Sum(SubSeq(lengths, 1, i)) IN
  \/ lengths[i] = Bounds \/ bytes > Max16
  \/ MappingDataBytesForMinimum(m.protocol, bytes, RecordLength(shape)) > m.maxDatagram

ExplainsLength(x, m, shape, i, lengths) ==
  x.code \notin {"", "record_invalid"} /\ (x.bad /\ x.code = "budget_exceeded" => TooLarge(m, shape, i, lengths))

\* The checks of a length as a list of four.
LEMMA LengthTuple ==
  ASSUME NEW m, NEW shape, NEW i, NEW lengths
  PROVE  LengthChecks(m, shape, i, lengths) = [k \in 1 .. 4 |-> LengthChecks(m, shape, i, lengths)[k]]
BY DEF LengthChecks

\* What the checks of a length look for.
LEMMA LengthBads ==
  ASSUME NEW m, NEW shape, NEW i, NEW lengths
  PROVE  LET L == LengthChecks(m, shape, i, lengths) IN
         (lengths[i] = Invalid => L[1].bad) /\ (TooLarge(m, shape, i, lengths) => L[2].bad \/ L[3].bad \/ L[4].bad)
BY DEF LengthChecks, Check, TooLarge

\* A binding whose length passes is sound and not too large so far.
LEMMA LengthPasses ==
  ASSUME NEW m, NEW shape, NEW i, NEW lengths, Passes(LengthChecks(m, shape, i, lengths))
  PROVE  lengths[i] # Invalid /\ ~TooLarge(m, shape, i, lengths)
<1> DEFINE L == LengthChecks(m, shape, i, lengths)
<1>1. DOMAIN L = 1 .. 4
  BY LengthTuple, TupleIsSequence
<1>2. (lengths[i] = Invalid => L[1].bad) /\ (TooLarge(m, shape, i, lengths) => L[2].bad \/ L[3].bad \/ L[4].bad)
  BY LengthBads
<1>3. \A k \in 1 .. 4 : ~L[k].bad
  BY <1>1 DEF Passes
<1> HIDE DEF L
<1>4. ~L[1].bad /\ ~L[2].bad /\ ~L[3].bad /\ ~L[4].bad
  BY <1>3
<1> QED BY <1>2, <1>4

\* A length that fails for a budget is too large.
LEMMA LengthExplained ==
  ASSUME NEW m, NEW shape, NEW i, NEW lengths
  PROVE  LET L == LengthChecks(m, shape, i, lengths) IN
         IsSequence(L) /\ \A k \in DOMAIN L : ExplainsLength(L[k], m, shape, i, lengths)
<1> DEFINE L == LengthChecks(m, shape, i, lengths)
<1>1. L = [k \in 1 .. 4 |-> L[k]]
  BY LengthTuple
<1>2. ExplainsLength(L[1], m, shape, i, lengths) /\ ExplainsLength(L[2], m, shape, i, lengths)
  BY DEF LengthChecks, Check, ExplainsLength, TooLarge
<1>3. ExplainsLength(L[3], m, shape, i, lengths) /\ ExplainsLength(L[4], m, shape, i, lengths)
  BY DEF LengthChecks, Check, ExplainsLength, TooLarge
<1> HIDE DEF L
<1>4. IsSequence(L) /\ DOMAIN L = 1 .. 4
  BY <1>1, TupleIsSequence
<1>5. \A k \in 1 .. 4 : ExplainsLength(L[k], m, shape, i, lengths)
  BY <1>2, <1>3
<1> QED BY <1>4, <1>5 DEF L

\* The first failure is one of the checks.
LEMMA FirstMember ==
  ASSUME NEW s, NEW n \in Nat, DOMAIN s = 1 .. n, First(s).bad
  PROVE  \E k \in 1 .. n : First(s) = s[k]
<1>1. Failed(s) # 0
  BY DEF First, Passed, Check
<1>2. PICK k \in 1 .. n : s[k].bad
  BY <1>1, PassesFirst DEF Passes
<1>3. Failed(s) \in 1 .. n
  BY <1>2, FailedIsBad
<1> QED BY <1>1, <1>3 DEF First

\* What becomes of one binding: its value and its length are taken, or there is a reason.
LEMMA BindingExplained ==
  ASSUME NEW m, NEW shape, NEW i, NEW lengths, NEW record, NEW attrs
  PROVE  LET d == shape.fields[i]
             e == First(ValueChecks(m, d, record, attrs) \o LengthChecks(m, shape, i, lengths))
         IN  /\ ~e.bad => lengths[i] # Invalid /\ ~TooLarge(m, shape, i, lengths)
             /\ e.bad => /\ e.code \notin {"", "record_invalid"}
                         /\ e.code = "budget_exceeded" => Over(d, Answer(attrs, d.source)) \/ TooLarge(m, shape, i, lengths)
<1> DEFINE d == shape.fields[i]
           v == Answer(attrs, d.source)
           a == ValueChecks(m, d, record, attrs)
           b == LengthChecks(m, shape, i, lengths)
           s == a \o b
           large == TooLarge(m, shape, i, lengths)
           e == First(s)
<1>1. Explained(a, d, v)
  BY ValueExplained
<1>2. /\ IsSequence(b) /\ (Passes(b) => lengths[i] # Invalid /\ ~large)
      /\ \A k \in DOMAIN b : ExplainsLength(b[k], m, shape, i, lengths)
  BY LengthExplained, LengthPasses
<1> HIDE DEF a, b, v, large, d
<1>3. IsSequence(a)
  BY <1>1 DEF Explained
<1>4. /\ DOMAIN s = 1 .. Len(a) + Len(b) /\ Len(a) \in Nat /\ Len(b) \in Nat /\ DOMAIN b = 1 .. Len(b)
      /\ \A k \in 1 .. Len(b) : s[Len(a) + k] = b[k]
  <2> DEFINE S == Range(a) \cup Range(b)
  <2>1. a \in Seq(S) /\ b \in Seq(S)
    BY <1>2, <1>3, OverCommonSet
  <2> HIDE DEF S
  <2>2. Len(a) \in Nat /\ Len(b) \in Nat /\ DOMAIN b = 1 .. Len(b)
    BY <2>1, LenProperties
  <2>3. s \in Seq(S) /\ Len(s) = Len(a) + Len(b)
    BY <2>1, ConcatProperties
  <2>4. DOMAIN s = 1 .. Len(a) + Len(b)
    BY <2>3, LenProperties
  <2>5. ASSUME NEW k \in 1 .. Len(b) PROVE s[Len(a) + k] = b[k]
    <3>1. Len(a) + k \in 1 .. Len(a) + Len(b) /\ Len(a) + k > Len(a) /\ (Len(a) + k) - Len(a) = k
      BY <2>2
    <3>2. s[Len(a) + k] = b[(Len(a) + k) - Len(a)]
      BY <2>1, <2>2, <3>1, ConcatProperties
    <3> QED BY <3>1, <3>2
  <2> QED BY <2>2, <2>4, <2>5
<1>5. ASSUME ~e.bad PROVE lengths[i] # Invalid /\ ~large
  <2> DEFINE n == Len(a) + Len(b)
  <2>1. Passes(s)
    <3>1. n \in Nat /\ DOMAIN s = 1 .. n /\ ~First(s).bad
      BY <1>4, <1>5
    <3> HIDE DEF n, s
    <3> QED BY <3>1, FirstPasses
  <2>2. ASSUME NEW k \in DOMAIN b PROVE ~b[k].bad
    <3>1. Len(a) + k \in DOMAIN s /\ s[Len(a) + k] = b[k]
      BY <1>4
    <3> QED BY <2>1, <3>1 DEF Passes
  <2> QED BY <1>2, <2>2 DEF Passes
<1>6. ASSUME e.bad
      PROVE  e.code \notin {"", "record_invalid"} /\ (e.code = "budget_exceeded" => Over(d, v) \/ large)
  <2> DEFINE n == Len(a) + Len(b)
  <2>1. PICK j \in DOMAIN s : e = s[j]
    <3>1. n \in Nat /\ DOMAIN s = 1 .. n /\ First(s).bad
      BY <1>4, <1>6
    <3> HIDE DEF n, s
    <3> QED BY <3>1, FirstMember
  <2>2. (\E k \in DOMAIN a : s[j] = a[k]) \/ (\E k \in DOMAIN b : s[j] = b[k])
    BY <1>2, <1>3, ConcatMembers
  <2> HIDE DEF s, e
  <2>3. CASE \E k \in DOMAIN a : s[j] = a[k]
    BY <1>1, <1>6, <2>1, <2>3 DEF Explained, Explains
  <2>4. CASE \E k \in DOMAIN b : s[j] = b[k]
    BY <1>2, <1>6, <2>1, <2>4 DEF ExplainsLength, large
  <2> QED BY <2>2, <2>3, <2>4
<1> QED BY <1>5, <1>6 DEF a, b, s, e, d, v, large

-----------------------------------------------------------------------------
(* The values of one record.                                               *)

\* The texts and octets among the answers of the lookup have a length.
TypedAnswers(attrs) == \A key \in DOMAIN attrs : attrs[key].kind \in {"string", "bytes"} => attrs[key].n \in Nat

\* The exporter's lookup answers such values.
LEMMA AnswersTyped ==
  ASSUME NEW record, IsMap(record.attrs)
  PROVE  TypedAnswers(Answers(record))
<1> SUFFICES ASSUME NEW key \in DOMAIN Answers(record), Answers(record)[key].kind \in {"string", "bytes"}
             PROVE  Answers(record)[key].n \in Nat
  BY DEF TypedAnswers
<1> DEFINE v == record.attrs[key]
<1>1. key \in DOMAIN record.attrs /\ Answers(record)[key] = Value(LookupKind(v.type), v.n, v.text)
  BY DEF Answers
<1>2. v.type \in {"str", "bytes"} => v.n \in Nat
  BY <1>1 DEF IsMap
<1> HIDE DEF v
<1>3. LookupKind(v.type) \in {"string", "bytes"} /\ Answers(record)[key].n = v.n
  BY <1>1 DEF Value
<1>4. v.type \in {"str", "bytes"}
  BY <1>3 DEF LookupKind
<1> QED BY <1>2, <1>3, <1>4

\* A field of variable length takes the answer of the lookup as it is.
LEMMA VariableTakesAnswer ==
  ASSUME NEW m, NEW d, GoodField(d), d.variable, NEW record, NEW attrs
  PROVE  BoundValue(m, d, record, attrs) = Answer(attrs, d.source)
<1>1. d.custom /\ ~d.constant /\ d.encoding \in Elastic
  BY DEF GoodField
<1>2. CustomValue(d, Answer(attrs, d.source)) = Answer(attrs, d.source)
  BY <1>1 DEF CustomValue, Elastic
<1> QED BY <1>1, <1>2 DEF BoundValue

\* Every bound value can be measured by its field.
LEMMA BoundGood ==
  ASSUME NEW m, NEW d, GoodField(d), NEW record, NEW attrs, TypedAnswers(attrs)
  PROVE  GoodValue(d, BoundValue(m, d, record, attrs))
<1> SUFFICES ASSUME d.variable, BoundValue(m, d, record, attrs).kind \in {"string", "bytes"}
             PROVE  BoundValue(m, d, record, attrs).n \in Nat
  BY DEF GoodValue
<1>1. BoundValue(m, d, record, attrs) = Answer(attrs, d.source)
  BY VariableTakesAnswer
<1>2. CASE d.source \in DOMAIN attrs
  BY <1>1, <1>2 DEF Answer, TypedAnswers
<1>3. CASE d.source \notin DOMAIN attrs
  <2>1. Answer(attrs, d.source).kind = "none"
    BY <1>3 DEF Answer, NoValue, Value
  <2> QED BY <1>1, <2>1
<1> QED BY <1>2, <1>3

\* An answer over the length of its field has no length on the wire.
LEMMA OverIsUnmeasured ==
  ASSUME NEW m, NEW d, GoodField(d), NEW record, NEW attrs, Over(d, Answer(attrs, d.source))
  PROVE  FieldLength(d, BoundValue(m, d, record, attrs)) \in {Invalid, Bounds}
<1> DEFINE v == Answer(attrs, d.source)
<1>1. d.variable /\ v.n > d.maxLength
  BY DEF Over
<1>2. BoundValue(m, d, record, attrs) = v
  BY <1>1, VariableTakesAnswer
<1> HIDE DEF v
<1>3. ValueLength(d, v.n) = Bounds
  BY <1>1 DEF ValueLength
<1>4. FieldLength(d, v) \in {Invalid, Bounds}
  BY <1>3 DEF FieldLength
<1> QED BY <1>2, <1>4

\* Values that all have a length are a record of the wire, and the shape counts the same bytes.
LEMMA MeasuredIsRecord ==
  ASSUME NEW shape, GoodShape(shape), NEW values, values = [i \in DOMAIN shape.fields |-> values[i]],
         GoodValues(shape, values), Measurable(shape, values)
  PROVE  /\ WireRecordOK(shape.family, values)
         /\ WireRecordSize(shape, [family |-> shape.family, values |-> values]) = Sum(Lengths(shape, values))
<1> DEFINE n == Len(shape.fields)
           lengths == Lengths(shape, values)
           r == [family |-> shape.family, values |-> values]
<1>1. n \in Nat /\ DOMAIN shape.fields = 1 .. n /\ n \in 1 .. MaxFieldsPerShape /\ shape.family \in Families
  BY SequenceDomain DEF GoodShape
<1>2. /\ DOMAIN lengths = 1 .. n /\ lengths \in Seq(Nat)
      /\ \A i \in 1 .. n : Measured(shape.fields[i], values[i], lengths[i])
  BY LengthsMeasured
<1>3. \A i \in 1 .. n : GoodField(shape.fields[i]) /\ AddressFits(shape.fields[i], shape.family)
  BY <1>1 DEF GoodShape
<1>4. DOMAIN values = 1 .. n /\ Len(values) = n
  <2>1. IsSequence(values) /\ DOMAIN values = 1 .. n
    BY <1>1, TupleIsSequence
  <2> HIDE DEF n
  <2>2. DOMAIN values = 1 .. Len(values) /\ Len(values) \in Nat
    BY <2>1, SequenceDomain
  <2>3. Len(values) = n
    BY <1>1, <2>1, <2>2
  <2> QED BY <2>1, <2>3
<1> HIDE DEF n, lengths
<1>5. \A i \in 1 .. n : Sound(shape.fields[i], values[i]) /\ lengths[i] = ValueLength(shape.fields[i], values[i].n) /\ lengths[i] \in Nat
  BY <1>2 DEF Measured
<1>6. ASSUME NEW i \in 1 .. n PROVE ValueOKForFamily(values[i], shape.family)
  BY <1>1, <1>3, <1>5, SoundForFamily
<1>7. WireRecordOK(shape.family, values)
  BY <1>1, <1>4, <1>6 DEF WireRecordOK
<1> DEFINE t == [status |-> "sound", lengths |-> [i \in DOMAIN values |-> values[i].n]]
<1>8. WireRecordSize(shape, r) = RecordSize(shape, t)
  <2>1. r.family = shape.family /\ r.values = values
    OBVIOUS
  <2> HIDE DEF r
  <2>2. /\ WireRecordOK(r.family, r.values) /\ r.family = shape.family /\ Len(r.values) = Len(shape.fields)
        /\ \A i \in DOMAIN shape.fields : Sound(shape.fields[i], r.values[i])
    BY <1>1, <1>4, <1>5, <1>7, <2>1 DEF n
  <2> QED BY <2>1, <2>2 DEF WireRecordSize
<1> DEFINE sizes == [i \in DOMAIN shape.fields |-> ValueLength(shape.fields[i], t.lengths[i])]
<1>9. sizes = lengths
  <2>1. \A i \in 1 .. n : t.lengths[i] = values[i].n
    BY <1>4
  <2>2. sizes = [i \in 1 .. n |-> ValueLength(shape.fields[i], values[i].n)]
    BY <1>1, <2>1
  <2>3. lengths = [i \in 1 .. n |-> lengths[i]]
    BY <1>1 DEF lengths, Lengths
  <2> HIDE DEF sizes
  <2> QED BY <1>5, <2>2, <2>3
<1>10. t.status = "sound"
  OBVIOUS
<1>11. RecordSize(shape, t) = IF t.status = "unsound" THEN Invalid
                              ELSE IF \E i \in DOMAIN sizes : sizes[i] = Bounds THEN Bounds ELSE Sum(sizes)
  BY DEF RecordSize
<1> HIDE DEF t, sizes
<1>12. ASSUME NEW i \in DOMAIN sizes PROVE sizes[i] # Bounds
  <2>1. i \in 1 .. n
    BY <1>2, <1>9
  <2>2. sizes[i] = lengths[i] /\ lengths[i] \in Nat
    BY <1>5, <1>9, <2>1
  <2>3. lengths[i] # Bounds
    BY <2>2 DEF Bounds
  <2> QED BY <2>2, <2>3
<1>13. RecordSize(shape, t) = Sum(lengths)
  BY <1>9, <1>10, <1>11, <1>12
<1> QED BY <1>7, <1>8, <1>13 DEF r, lengths

\* The mapper's shape of a record is the packer's.
IndexAgrees(m, index) == index \in DOMAIN m.shapes /\ ShapeIndex(m, m.shapes[index].family) = index

\* The wire's packet of a mapping, by the lengths of its shape.
LEMMA PacketOfMapped ==
  ASSUME NEW m, NEW index, IndexAgrees(m, index), NEW mapped, mapped.family = m.shapes[index].family
  PROVE  WirePacket(m, mapped) =
           LET shape == m.shapes[index]
               set   == DataSetSize(shape, Sum(Lengths(shape, mapped.values)), 1)
           IN  IF ~Measurable(shape, mapped.values) \/ set = Bounds THEN Bounds ELSE PacketLength(m.protocol, 0, set)
<1> DEFINE shape == m.shapes[index]
           lengths == Lengths(shape, mapped.values)
           set   == DataSetSize(shape, Sum(lengths), 1)
<1>1. ShapeIndex(m, mapped.family) = index
  BY DEF IndexAgrees
<1>2. (\E i \in DOMAIN lengths : lengths[i] \in {Invalid, Bounds}) <=> ~Measurable(shape, mapped.values)
  BY DEF Measurable, Lengths
<1>3. lengths = [i \in DOMAIN shape.fields |-> FieldLength(shape.fields[i], mapped.values[i])]
  BY DEF Lengths
<1>4. WirePacket(m, mapped) = IF \E i \in DOMAIN lengths : lengths[i] \in {Invalid, Bounds} THEN Bounds
                              ELSE IF set = Bounds THEN Bounds ELSE PacketLength(m.protocol, 0, set)
  BY <1>1, <1>3 DEF WirePacket
<1> HIDE DEF lengths, set, shape
<1>5. WirePacket(m, mapped) = IF ~Measurable(shape, mapped.values) \/ set = Bounds THEN Bounds ELSE PacketLength(m.protocol, 0, set)
  BY <1>2, <1>4
<1> QED BY <1>5 DEF lengths, set, shape

\* A shape that the mapper and the packer share.
ReadyShape(m, index) ==
  /\ IndexAgrees(m, index) /\ GoodShape(m.shapes[index]) /\ m.shapes[index].protocol = m.protocol
  /\ m.maxDatagram \in Nat /\ m.maxDatagram <= Max16

\* A record that is too large up to one of its fields does not fit a datagram.
LEMMA LargeUnfit ==
  ASSUME NEW m, NEW index, ReadyShape(m, index), NEW mapped, mapped.family = m.shapes[index].family,
         GoodValues(m.shapes[index], mapped.values), NEW i \in DOMAIN m.shapes[index].fields,
         TooLarge(m, m.shapes[index], i, Lengths(m.shapes[index], mapped.values))
  PROVE  WirePacket(m, mapped) \notin 0 .. m.maxDatagram
<1> DEFINE shape == m.shapes[index]
           values == mapped.values
           lengths == Lengths(shape, values)
           bytes == Sum(lengths)
           part  == Sum(SubSeq(lengths, 1, i))
           least == RecordLength(shape)
           set   == DataSetSize(shape, bytes, 1)
           packet == MappingDataBytesForMinimum(m.protocol, bytes, least)
           sofar == MappingDataBytesForMinimum(m.protocol, part, least)
<1>1. IndexAgrees(m, index) /\ GoodShape(shape) /\ shape.protocol = m.protocol /\ m.maxDatagram \in Nat
  BY DEF ReadyShape
<1>2. WirePacket(m, mapped) = IF ~Measurable(shape, values) \/ set = Bounds THEN Bounds ELSE PacketLength(m.protocol, 0, set)
  BY <1>1, PacketOfMapped
<1>3. Bounds \notin 0 .. m.maxDatagram
  BY <1>1 DEF Bounds
<1>4. CASE ~Measurable(shape, values)
  BY <1>2, <1>3, <1>4
<1>5. CASE Measurable(shape, values) /\ set = Bounds
  BY <1>2, <1>3, <1>5
<1>6. CASE Measurable(shape, values) /\ set # Bounds
  <2>1. /\ packet \in Nat /\ (bytes > Max16 => set = Bounds)
        /\ PacketLength(m.protocol, 0, set) = packet
    BY <1>1, <1>6, PacketOfRecord
  <2>2. bytes \in Nat /\ least \in Nat
    BY <1>1, <1>6, RecordAtLeast
  <2>3. lengths \in Seq(Nat) /\ i \in 1 .. Len(lengths) /\ lengths[i] \in Nat
    <3>1. lengths \in Seq(Nat) /\ DOMAIN lengths = 1 .. Len(shape.fields) /\ Len(lengths) = Len(shape.fields)
      BY <1>1, <1>6, LengthsMeasured
    <3>2. DOMAIN lengths = DOMAIN shape.fields
      BY DEF Lengths
    <3> HIDE DEF lengths, shape
    <3>3. i \in 1 .. Len(lengths)
      BY <3>1, <3>2 DEF shape
    <3> QED BY <3>1, <3>3, ElementOfSeq
  <2>4. part \in Nat /\ part <= bytes
    <3> HIDE DEF lengths
    <3> QED BY <2>3, PartOfSum
  <2>5. sofar <= packet
    <3>1. m.protocol \in Protocols
      BY <1>1 DEF GoodShape
    <3> HIDE DEF part, bytes, least
    <3> QED BY <2>2, <2>4, <3>1, PacketMonotone
  <2>6. sofar \in Nat
    <3>1. m.protocol \in Protocols
      BY <1>1 DEF GoodShape
    <3> HIDE DEF part, least
    <3>2. MappingDataBytesForMinimum(m.protocol, part, least) = HeaderLength(m.protocol) + Body(m.protocol, least, part)
          /\ HeaderLength(m.protocol) \in 16 .. 24 /\ Body(m.protocol, least, part) \in Nat
      BY <2>2, <2>4, <3>1, MappingIsBody
    <3> QED BY <3>2
  <2>7. lengths[i] = Bounds \/ part > Max16 \/ sofar > m.maxDatagram
    BY DEF TooLarge
  <2> HIDE DEF lengths, bytes, part, least, set, packet, sofar, shape, values
  <2>8. lengths[i] # Bounds
    BY <2>3 DEF Bounds
  <2>9. ~(part > Max16)
    BY <1>6, <2>1, <2>2, <2>4, WireAssumption
  <2>10. packet > m.maxDatagram
    BY <1>1, <2>1, <2>5, <2>6, <2>7, <2>8, <2>9
  <2>11. packet \notin 0 .. m.maxDatagram
    BY <1>1, <2>1, <2>10
  <2> QED BY <1>2, <1>6, <2>1, <2>11
<1> QED BY <1>4, <1>5, <1>6

\* A record whose values have a length and that is not too large up to its last field fits a datagram.
LEMMA SmallFits ==
  ASSUME NEW m, NEW index, ReadyShape(m, index), NEW mapped, mapped.family = m.shapes[index].family,
         GoodValues(m.shapes[index], mapped.values), Measurable(m.shapes[index], mapped.values),
         ~TooLarge(m, m.shapes[index], Len(m.shapes[index].fields), Lengths(m.shapes[index], mapped.values))
  PROVE  LET set == DataSetSize(m.shapes[index], Sum(Lengths(m.shapes[index], mapped.values)), 1) IN
         /\ WirePacket(m, mapped) \in 0 .. m.maxDatagram
         /\ set # Bounds /\ PacketLength(m.protocol, 0, set) <= m.maxDatagram
<1> DEFINE shape == m.shapes[index]
           values == mapped.values
           lengths == Lengths(shape, values)
           n == Len(shape.fields)
           bytes == Sum(lengths)
           part  == Sum(SubSeq(lengths, 1, n))
           least == RecordLength(shape)
           set   == DataSetSize(shape, bytes, 1)
           packet == MappingDataBytesForMinimum(m.protocol, bytes, least)
<1>1. IndexAgrees(m, index) /\ GoodShape(shape) /\ shape.protocol = m.protocol /\ m.maxDatagram \in Nat /\ m.maxDatagram <= Max16
  BY DEF ReadyShape
<1>2. WirePacket(m, mapped) = IF ~Measurable(shape, values) \/ set = Bounds THEN Bounds ELSE PacketLength(m.protocol, 0, set)
  BY <1>1, PacketOfMapped
<1>3. /\ packet \in Nat /\ (set # Bounds => PacketLength(m.protocol, 0, set) = packet)
      /\ packet <= Max16 => set # Bounds
  BY <1>1, PacketOfRecord
<1>4. part = bytes
  <2>1. lengths \in Seq(Nat) /\ Len(lengths) = n
    BY <1>1, LengthsMeasured
  <2>2. n \in 1 .. MaxFieldsPerShape
    BY <1>1 DEF GoodShape
  <2> HIDE DEF lengths, n
  <2>3. n \in 1 .. Len(lengths)
    BY <2>1, <2>2 DEF MaxFieldsPerShape
  <2> QED BY <2>1, <2>3, PartOfSum
<1>5. ~(MappingDataBytesForMinimum(m.protocol, part, least) > m.maxDatagram)
  BY DEF TooLarge
<1>6. Measurable(shape, values)
  OBVIOUS
<1> HIDE DEF bytes, part, least, set, lengths, n
<1>7. packet <= m.maxDatagram
  BY <1>1, <1>3, <1>4, <1>5
<1>8. set # Bounds
  BY <1>1, <1>3, <1>7, WireAssumption
<1>9. PacketLength(m.protocol, 0, set) = packet /\ WirePacket(m, mapped) = packet
  BY <1>2, <1>3, <1>6, <1>8
<1> HIDE DEF packet
<1>10. packet \in 0 .. m.maxDatagram
  BY <1>1, <1>3, <1>7
<1> QED BY <1>7, <1>8, <1>9, <1>10 DEF set, bytes, lengths

\* What the invariant says of one mapping.
FitsOne(m, mapped) ==
  /\ mapped.reason # "record_invalid"
  /\ mapped.ok =>
       /\ WireRecordSize(m.shapes[ShapeIndex(m, mapped.family)], [family |-> mapped.family, values |-> mapped.values]) = mapped.bytes
       /\ WirePacket(m, mapped) \in 0 .. m.maxDatagram
  /\ mapped.reason = "budget_exceeded" => WirePacket(m, mapped) \notin 0 .. m.maxDatagram

\* And what the packer then finds.
PackerAccepts(m, mapped) ==
  /\ ShapeIndex(m, mapped.family) # 0
  /\ MinimumDataPacketFits(m, m.shapes[ShapeIndex(m, mapped.family)], [family |-> mapped.family, values |-> mapped.values])

\* mapResult in the names of the lemmas.
IsMapping(m, record, attrs, mapped) ==
  LET shape   == m.shapes[ShapeOf(m, record.family)]
      values  == mapped.values
      lengths == Lengths(shape, values)
      errors  == BindingErrors(m, shape, record, attrs, lengths)
  IN  /\ values = [i \in DOMAIN shape.fields |-> BoundValue(m, shape.fields[i], record, attrs)]
      /\ mapped.family = shape.family /\ mapped.ok = (mapped.reason = "")
      /\ mapped.bytes = IF mapped.reason = "" THEN Sum(lengths) ELSE 0
      /\ \E early \in BOOLEAN : mapped.reason = MapReason(shape, early, values, errors, Failed(errors))

\* mapResult returns such a mapping.
LEMMA MapResultParts ==
  ASSUME NEW m, NEW record, NEW attrs
  PROVE  IsMapping(m, record, attrs, MapResult(m, record, attrs))
<1> DEFINE index   == ShapeOf(m, record.family)
           shape   == m.shapes[index]
           early   == (~m.agnostic /\ shape.family # record.family) \/ ~EndpointsAgree(record)
           values  == [i \in DOMAIN shape.fields |-> BoundValue(m, shape.fields[i], record, attrs)]
           lengths == [i \in DOMAIN shape.fields |-> FieldLength(shape.fields[i], values[i])]
           errors  == BindingErrors(m, shape, record, attrs, lengths)
           stop    == Failed(errors)
           reason  == MapReason(shape, early, values, errors, stop)
           mapped  == Mapped(m, index, early, values, lengths, stop, reason)
<1>1. MapResult(m, record, attrs) = mapped
  BY DEF MapResult
<1>2. lengths = Lengths(shape, values) /\ early \in BOOLEAN
  BY DEF Lengths
<1> HIDE DEF early, values, lengths, errors, stop, reason
<1>3. /\ mapped.family = shape.family /\ mapped.reason = reason /\ mapped.values = values
      /\ mapped.ok = (reason = "") /\ mapped.bytes = IF reason = "" THEN Sum(lengths) ELSE 0
  BY DEF Mapped
<1> HIDE DEF mapped, index, shape
<1>4. reason = MapReason(shape, early, values, errors, Failed(errors))
  BY DEF reason, stop
<1> QED BY <1>1, <1>2, <1>3, <1>4 DEF values, index, shape, errors, IsMapping

\* The bindings of a mapping: nothing failed, or the first failure explains itself.
LEMMA BindingsExplained ==
  ASSUME NEW m, NEW shape, GoodShape(shape), NEW record, NEW attrs, NEW lengths, DOMAIN lengths = DOMAIN shape.fields
  PROVE  LET errors == BindingErrors(m, shape, record, attrs, lengths)
             stop   == Failed(errors)
         IN  /\ stop = 0 => \A i \in DOMAIN shape.fields : lengths[i] # Invalid /\ ~TooLarge(m, shape, i, lengths)
             /\ stop # 0 =>
                  /\ stop \in DOMAIN shape.fields /\ errors[stop].code \notin {"", "record_invalid"}
                  /\ errors[stop].code = "budget_exceeded" =>
                       Over(shape.fields[stop], Answer(attrs, shape.fields[stop].source)) \/ TooLarge(m, shape, stop, lengths)
<1> DEFINE n == Len(shape.fields)
           errors == BindingErrors(m, shape, record, attrs, lengths)
           stop   == Failed(errors)
           e(i) == First(ValueChecks(m, shape.fields[i], record, attrs) \o LengthChecks(m, shape, i, lengths))
<1>1. n \in Nat /\ DOMAIN shape.fields = 1 .. n
  BY SequenceDomain DEF GoodShape
<1>2. DOMAIN errors = 1 .. n /\ \A i \in 1 .. n : errors[i] = e(i)
  BY <1>1 DEF BindingErrors
<1>3. ASSUME NEW i \in 1 .. n
      PROVE  /\ ~errors[i].bad => lengths[i] # Invalid /\ ~TooLarge(m, shape, i, lengths)
             /\ errors[i].bad =>
                  /\ errors[i].code \notin {"", "record_invalid"}
                  /\ errors[i].code = "budget_exceeded" =>
                       Over(shape.fields[i], Answer(attrs, shape.fields[i].source)) \/ TooLarge(m, shape, i, lengths)
  <2>1. errors[i] = e(i)
    BY <1>2
  <2>2. /\ ~e(i).bad => lengths[i] # Invalid /\ ~TooLarge(m, shape, i, lengths)
        /\ e(i).bad =>
             /\ e(i).code \notin {"", "record_invalid"}
             /\ e(i).code = "budget_exceeded" =>
                  Over(shape.fields[i], Answer(attrs, shape.fields[i].source)) \/ TooLarge(m, shape, i, lengths)
    BY BindingExplained
  <2> QED BY <2>1, <2>2
<1> HIDE DEF n, errors
<1>4. ASSUME stop = 0, NEW i \in 1 .. n PROVE ~errors[i].bad
  <2>1. CASE errors[i].bad
    <3>1. Failed(errors) \in 1 .. n
      BY <1>1, <1>2, <2>1, FailedIsBad
    <3> QED BY <1>1, <1>4, <3>1
  <2> QED BY <2>1
<1>5. ASSUME stop # 0 PROVE stop \in 1 .. n /\ errors[stop].bad
  <2>1. PICK k \in 1 .. n : errors[k].bad
    BY <1>2, <1>5 DEF Failed
  <2> QED BY <1>1, <1>2, <2>1, FailedIsBad
<1> HIDE DEF stop
<1> QED BY <1>1, <1>3, <1>4, <1>5 DEF errors, stop

\* The mapper's budget is the wire's: what it accepts fits, what it refuses for its size does not.
LEMMA MappingFits ==
  ASSUME NEW m, NEW record, NEW attrs, TypedAnswers(attrs), ReadyShape(m, ShapeOf(m, record.family))
  PROVE  LET mapped == MapResult(m, record, attrs) IN
         FitsOne(m, mapped) /\ (mapped.ok => PackerAccepts(m, mapped))
<1> DEFINE index   == ShapeOf(m, record.family)
           shape   == m.shapes[index]
           mapped  == MapResult(m, record, attrs)
           values  == mapped.values
           lengths == Lengths(shape, values)
           errors  == BindingErrors(m, shape, record, attrs, lengths)
           stop    == Failed(errors)
           wired   == [family |-> mapped.family, values |-> mapped.values]
<1>1. /\ values = [i \in DOMAIN shape.fields |-> BoundValue(m, shape.fields[i], record, attrs)]
      /\ mapped.family = shape.family /\ mapped.ok = (mapped.reason = "")
      /\ mapped.bytes = IF mapped.reason = "" THEN Sum(lengths) ELSE 0
      /\ \E early \in BOOLEAN : mapped.reason = MapReason(shape, early, values, errors, stop)
  <2>1. IsMapping(m, record, attrs, mapped)
    BY MapResultParts
  <2> HIDE DEF mapped
  <2> QED BY <2>1 DEF IsMapping
<1> HIDE DEF mapped
<1>2. IndexAgrees(m, index) /\ GoodShape(shape) /\ ReadyShape(m, index) /\ ShapeIndex(m, mapped.family) = index
  BY <1>1 DEF ReadyShape, IndexAgrees
<1> HIDE DEF index
<1>3. PICK early \in BOOLEAN : mapped.reason = MapReason(shape, early, values, errors, stop)
  BY <1>1
<1>4. \A i \in DOMAIN shape.fields : GoodField(shape.fields[i]) /\ values[i] = BoundValue(m, shape.fields[i], record, attrs)
  BY <1>1, <1>2 DEF GoodShape
<1>5. GoodValues(shape, values)
  <2>1. ASSUME NEW i \in DOMAIN shape.fields PROVE GoodValue(shape.fields[i], values[i])
    BY <1>4, BoundGood
  <2> QED BY <2>1 DEF GoodValues
<1>6. values = [i \in DOMAIN shape.fields |-> values[i]]
  BY <1>1
<1>7. DOMAIN lengths = DOMAIN shape.fields
  BY DEF Lengths
<1>8. /\ stop = 0 => \A i \in DOMAIN shape.fields : lengths[i] # Invalid /\ ~TooLarge(m, shape, i, lengths)
      /\ stop # 0 =>
           /\ stop \in DOMAIN shape.fields /\ errors[stop].code \notin {"", "record_invalid"}
           /\ errors[stop].code = "budget_exceeded" =>
                Over(shape.fields[stop], Answer(attrs, shape.fields[stop].source)) \/ TooLarge(m, shape, stop, lengths)
  BY <1>2, <1>7, BindingsExplained
<1>9. stop = 0 => Measurable(shape, values)
  <2> SUFFICES ASSUME stop = 0, NEW i \in DOMAIN shape.fields PROVE lengths[i] \notin {Invalid, Bounds}
    BY DEF Measurable
  <2>1. lengths[i] # Invalid /\ ~TooLarge(m, shape, i, lengths)
    BY <1>8
  <2> QED BY <2>1 DEF TooLarge
<1>10. stop = 0 => WireRecordOK(shape.family, values) /\ WireRecordSize(shape, [family |-> shape.family, values |-> values]) = Sum(lengths)
  BY <1>2, <1>5, <1>6, <1>9, MeasuredIsRecord
<1> DEFINE reversed == Reversed(shape.fields, values)
           wireOK == WireRecordOK(shape.family, values)
<1>11. mapped.reason = IF early THEN "family_mismatch" ELSE IF stop # 0 THEN errors[stop].code
                       ELSE IF reversed THEN "time_invalid" ELSE IF wireOK THEN "" ELSE "record_invalid"
  BY <1>3 DEF MapReason
<1> HIDE DEF reversed, stop, errors, lengths, shape
<1>12. mapped.reason # "record_invalid"
  BY <1>8, <1>10, <1>11
<1>13. ASSUME mapped.ok
       PROVE  /\ WireRecordSize(shape, wired) = mapped.bytes /\ WirePacket(m, mapped) \in 0 .. m.maxDatagram
              /\ MinimumDataPacketFits(m, shape, wired)
  <2> DEFINE set == DataSetSize(shape, Sum(lengths), 1)
  <2>1. mapped.reason = ""
    BY <1>1, <1>13
  <2>2. stop = 0
    BY <1>8, <1>11, <2>1
  <2>3. Measurable(shape, values)
    BY <1>9, <2>2
  <2>4. WireRecordSize(shape, wired) = Sum(lengths) /\ mapped.bytes = Sum(lengths)
    BY <1>1, <1>10, <2>1, <2>2
  <2>5. ~TooLarge(m, shape, Len(shape.fields), lengths)
    <3>1. Len(shape.fields) \in DOMAIN shape.fields
      <4> DEFINE n == Len(shape.fields)
      <4>1. DOMAIN shape.fields = 1 .. n /\ n \in 1 .. 64
        BY <1>2, SequenceDomain DEF GoodShape, MaxFieldsPerShape
      <4> HIDE DEF n
      <4>2. n \in 1 .. 64
        BY <4>1
      <4>3. n \in 1 .. n
        BY <4>2
      <4>4. n \in DOMAIN shape.fields
        BY <4>1, <4>3, Zenon
      <4> QED BY <4>4 DEF n
    <3> QED BY <1>8, <2>2, <3>1
  <2>6. WirePacket(m, mapped) \in 0 .. m.maxDatagram /\ set # Bounds /\ PacketLength(m.protocol, 0, set) <= m.maxDatagram
    <3>1. mapped.family = m.shapes[index].family /\ ReadyShape(m, index) /\ GoodValues(m.shapes[index], mapped.values)
      BY <1>1, <1>2, <1>5 DEF shape
    <3>2. Measurable(m.shapes[index], mapped.values)
      BY <2>3 DEF shape
    <3>3. ~TooLarge(m, m.shapes[index], Len(m.shapes[index].fields), Lengths(m.shapes[index], mapped.values))
      BY <2>5 DEF shape, lengths
    <3> QED BY <3>1, <3>2, <3>3, SmallFits DEF shape, lengths
  <2>7. Sum(lengths) \notin {Invalid, Bounds}
    <3>1. Sum(lengths) \in Nat
      BY <1>2, <1>5, <2>3, RecordAtLeast DEF lengths
    <3> QED BY <3>1 DEF Invalid, Bounds
  <2> HIDE DEF wired
  <2>8. MinimumDataPacketFits(m, shape, wired)
    BY <2>4, <2>6, <2>7 DEF MinimumDataPacketFits
  <2> QED BY <2>4, <2>6, <2>8
<1>14. ASSUME mapped.reason = "budget_exceeded" PROVE WirePacket(m, mapped) \notin 0 .. m.maxDatagram
  <2>1. stop # 0 /\ errors[stop].code = "budget_exceeded"
    BY <1>11, <1>14
  <2>2. stop \in DOMAIN shape.fields /\ (Over(shape.fields[stop], Answer(attrs, shape.fields[stop].source)) \/ TooLarge(m, shape, stop, lengths))
    BY <1>8, <2>1
  <2>3. CASE TooLarge(m, shape, stop, lengths)
    BY <1>1, <1>2, <1>5, <2>2, <2>3, LargeUnfit DEF shape, lengths
  <2>4. CASE Over(shape.fields[stop], Answer(attrs, shape.fields[stop].source))
    <3>1. FieldLength(shape.fields[stop], values[stop]) \in {Invalid, Bounds}
      BY <1>4, <2>2, <2>4, OverIsUnmeasured
    <3>2. lengths[stop] = FieldLength(shape.fields[stop], values[stop])
      BY <2>2 DEF lengths, Lengths
    <3>3. ~Measurable(shape, values)
      BY <2>2, <3>1, <3>2 DEF Measurable, lengths
    <3>4. WirePacket(m, mapped) = Bounds
      BY <1>1, <1>2, <3>3, PacketOfMapped DEF shape
    <3>5. Bounds \notin 0 .. m.maxDatagram
      BY <1>2 DEF ReadyShape, Bounds
    <3> QED BY <3>4, <3>5
  <2> QED BY <2>2, <2>3, <2>4
<1>15. index # 0
  <2>1. index \in {1, 2}
    BY DEF index, ShapeOf
  <2> QED BY <2>1
<1>16. m.shapes[ShapeIndex(m, mapped.family)] = shape
  BY <1>2 DEF shape
<1>17. FitsOne(m, mapped)
  BY <1>12, <1>13, <1>14, <1>16 DEF FitsOne
<1>18. mapped.ok => PackerAccepts(m, mapped)
  BY <1>2, <1>13, <1>15, <1>16 DEF PackerAccepts
<1> QED BY <1>17, <1>18 DEF mapped

-----------------------------------------------------------------------------
(* The shapes of a compiled mapper.                                        *)

\* Two built-in shapes are of two families.
LEMMA BuiltinFamilies ==
  ASSUME NEW profile \in DOMAIN ProfileProtocol, 2 \in DOMAIN BuiltinCatalog(profile)
  PROVE  LET b == BuiltinCatalog(profile) IN
         /\ "family" \in DOMAIN b[1] /\ "family" \in DOMAIN b[2] /\ b[1].family = "ipv4" /\ b[2].family = "ipv6"
         /\ "id" \in DOMAIN b[1] /\ "id" \in DOMAIN b[2] /\ 1 \in DOMAIN b
<1> DEFINE b == BuiltinCatalog(profile)
<1>1. profile \in {"netflow-v5-fixed-v1", "netflow-v9-core-v1", "netflow-v9-timed-v1", "ipfix-core-v1", "ipfix-general-v1"}
  BY DEF ProfileProtocol
<1>2. ASSUME NEW protocol, NEW order, NEW times, NEW length, NEW bytes, b = TwoShapes(protocol, order, times, length, bytes)
      PROVE  /\ "family" \in DOMAIN b[1] /\ "family" \in DOMAIN b[2] /\ b[1].family = "ipv4" /\ b[2].family = "ipv6"
             /\ "id" \in DOMAIN b[1] /\ "id" \in DOMAIN b[2] /\ 1 \in DOMAIN b
  <2> HIDE DEF b
  <2> QED BY <1>2 DEF TwoShapes
<1>3. CASE profile = "netflow-v5-fixed-v1"
  <2>1. DOMAIN b = 1 .. 1
    BY <1>3 DEF BuiltinCatalog
  <2>2. 2 \notin 1 .. 1
    OBVIOUS
  <2> QED BY <2>1, <2>2
<1>4. CASE profile = "netflow-v9-core-v1"
  BY <1>2, <1>4 DEF BuiltinCatalog
<1>5. CASE profile = "netflow-v9-timed-v1"
  BY <1>2, <1>5 DEF BuiltinCatalog
<1>6. CASE profile = "ipfix-core-v1"
  BY <1>2, <1>6 DEF BuiltinCatalog
<1>7. CASE profile = "ipfix-general-v1"
  BY <1>2, <1>7 DEF BuiltinCatalog
<1> QED BY <1>1, <1>3, <1>4, <1>5, <1>6, <1>7

\* So are two compiled shapes.
LEMMA CompiledFamilies ==
  ASSUME NEW c, Passes(SelectorChecks(c)), 2 \in DOMAIN CompiledShapes(c)
  PROVE  CompiledShapes(c)[1].family = "ipv4" /\ CompiledShapes(c)[2].family = "ipv6"
<1> DEFINE s == CompiledShapes(c)
<1>1. 1 \in DOMAIN s
  BY CompiledSequences
<1>2. CASE c.profile = ""
  <2>1. 2 \in DOMAIN ShapeFamilies(c) /\ s[1].family = ShapeFamilies(c)[1] /\ s[2].family = ShapeFamilies(c)[2]
    BY <1>1, <1>2, ExplicitShapeFields
  <2>2. ShapeFamilies(c) = <<"ipv4", "ipv6">>
    BY <2>1 DEF ShapeFamilies
  <2> QED BY <2>1, <2>2
<1>3. CASE c.profile # ""
  <2> DEFINE b == BuiltinCatalog(c.profile)
             id(i) == IF c.protocol # "v5" /\ c.idBase # 0 THEN c.idBase + i - 1 ELSE b[i].id
  <2>1. c.profile \in DOMAIN ProfileProtocol
    BY <1>3, SelectorPasses
  <2>2. 2 \in DOMAIN b
    BY <1>3 DEF CompiledShapes, ProfileShapes
  <2>3. /\ "family" \in DOMAIN b[1] /\ "family" \in DOMAIN b[2] /\ b[1].family = "ipv4" /\ b[2].family = "ipv6"
        /\ 1 \in DOMAIN b
    BY <2>1, <2>2, BuiltinFamilies
  <2>4. ASSUME NEW i \in DOMAIN b, "family" \in DOMAIN b[i] PROVE s[i].family = b[i].family
    <3>1. s[i] = IF c.custom.list = <<>> THEN [b[i] EXCEPT !.id = id(i)]
                 ELSE NewShape(c.protocol, b[i].family, id(i), b[i].fields \o CustomFields(c))
      BY <1>3 DEF CompiledShapes, ProfileShapes
    <3>2. CASE c.custom.list = <<>>
      <4> DEFINE r == b[i]
                 x == id(i)
      <4>1. s[i] = [r EXCEPT !.id = x] /\ "family" \in DOMAIN r
        BY <2>4, <3>1, <3>2
      <4> HIDE DEF r, s, x
      <4> QED BY <4>1 DEF r
    <3>3. CASE c.custom.list # <<>>
      <4> DEFINE fields == b[i].fields \o CustomFields(c)
                 x == id(i)
      <4>1. s[i] = NewShape(c.protocol, b[i].family, x, fields)
        BY <3>1, <3>3
      <4> HIDE DEF s, fields, b, x
      <4> QED BY <4>1, NewShapeFields
    <3> QED BY <3>2, <3>3
  <2> QED BY <2>2, <2>3, <2>4
<1> QED BY <1>2, <1>3

\* Two lists one after the other are a list.
LEMMA ConcatSequence ==
  ASSUME NEW s, NEW t, IsSequence(s), IsSequence(t)
  PROVE  IsSequence(s \o t)
<1> DEFINE S == Range(s) \cup Range(t)
           u == s \o t
<1>1. s \in Seq(S) /\ t \in Seq(S)
  BY OverCommonSet
<1> HIDE DEF S
<1>2. u \in Seq(S)
  BY <1>1, ConcatProperties
<1> HIDE DEF u
<1>3. IsSequence(u)
  BY <1>2, SequenceOver
<1> QED BY <1>3 DEF u

\* The fields of a compiled shape are a list.
LEMMA CompiledFields ==
  ASSUME NEW c, Passes(SelectorChecks(c)), IsSequence(c.fields.list), IsSequence(c.custom.list),
         NEW i \in DOMAIN CompiledShapes(c)
  PROVE  IsSequence(CompiledShapes(c)[i].fields)
<1> DEFINE G == CustomFields(c)
<1>1. IsSequence(G)
  BY CustomFieldsSequence
<1>2. CASE c.profile = ""
  <2> DEFINE F == SelectedFields(c, ShapeFamilies(c)[i])
  <2>1. CompiledShapes(c)[i].fields = F \o G
    BY <1>2, ExplicitShapeFields
  <2>2. IsSequence(F)
    BY SelectedFieldsSequence
  <2> HIDE DEF F, G
  <2> QED BY <1>1, <2>1, <2>2, ConcatSequence
<1>3. CASE c.profile # ""
  <2> DEFINE F == BuiltinCatalog(c.profile)[i].fields
  <2>1. AreShapes(BuiltinCatalog(c.profile))
    BY <1>3, SelectorPasses, BuiltinSequences
  <2>2. i \in DOMAIN BuiltinCatalog(c.profile) /\ CompiledShapes(c)[i].fields \in {F, F \o G}
    BY <1>3, <2>1, ProfileShapeFields
  <2>3. IsSequence(F)
    BY <2>1, <2>2 DEF AreShapes
  <2> HIDE DEF F, G
  <2> QED BY <1>1, <2>2, <2>3, ConcatSequence
<1> QED BY <1>2, <1>3

\* A size that Compile accepts is one of the wire.
LEMMA DatagramLimit ==
  ASSUME NEW max \in MinDatagram .. MaxDatagram
  PROVE  max \in Nat /\ max <= MaxDatagram
<1>1. max \in Nat
  BY DatagramRange
<1>2. max <= MaxDatagram
  BY DatagramBounds, IntervalMember
<1> QED BY <1>1, <1>2

\* Every shape of a compiled mapper is one that the packer finds again.
LEMMA CompiledReady ==
  ASSUME NEW c, Compiled(c), c.protocol \in Protocols, IsSequence(c.fields.list), IsSequence(c.custom.list), NEW family
  PROVE  ReadyShape(CompiledMapper(c), ShapeOf(CompiledMapper(c), family))
<1> DEFINE m == CompiledMapper(c)
           s == CompiledShapes(c)
           index == ShapeOf(m, family)
<1>1. m.protocol = c.protocol /\ m.maxDatagram = c.maxDatagram /\ m.shapes = s
  BY MapperKeeps
<1>2. Passes(SelectorChecks(c))
  BY DEF Compiled
<1>3. IsSequence(s) /\ DOMAIN s \in {1 .. 1, 1 .. 2}
  BY <1>2, CompiledSequences
<1>4. m.maxDatagram \in Nat /\ m.maxDatagram <= Max16
  <2>1. c.maxDatagram \in MinDatagram .. MaxDatagram
    BY <1>2, SelectorPasses
  <2>2. c.maxDatagram \in Nat /\ c.maxDatagram <= MaxDatagram
    BY <2>1, DatagramLimit
  <2>3. c.maxDatagram <= Max16
    BY <2>2, CompilerAssumption, WireAssumption DEF MaxDatagram
  <2> QED BY <1>1, <2>2, <2>3
<1>5. index \in DOMAIN s
  <2>1. DOMAIN s = 1 .. Len(s) /\ Len(s) \in Nat
    BY <1>3, SequenceDomain
  <2>2. index = IF Len(s) = 2 /\ family = "ipv6" THEN 2 ELSE 1
    BY <1>1 DEF ShapeOf
  <2> HIDE DEF s, index
  <2>3. 1 \in DOMAIN s
    BY <1>3
  <2> QED BY <2>1, <2>2, <2>3
<1>6. CatalogOK(c.protocol, IF c.protocol = "v5" THEN 0 ELSE s[1].id, s)
  BY DEF Compiled
<1>7. s[index].protocol = c.protocol /\ ShapeOK(s[index])
  BY <1>5, <1>6 DEF CatalogOK
<1>8. GoodShape(s[index])
  <2> DEFINE shape == s[index]
  <2>1. IsSequence(shape.fields)
    BY <1>2, <1>5, CompiledFields
  <2>2. shape.family \in Families /\ Len(shape.fields) \in 1 .. MaxFieldsPerShape /\ shape.protocol \in Protocols
    BY <1>7 DEF ShapeOK
  <2>3. ASSUME NEW i \in DOMAIN shape.fields
        PROVE  GoodField(shape.fields[i]) /\ AddressFits(shape.fields[i], shape.family)
    <3> DEFINE d == shape.fields[i]
    <3>1. DescriptorOK(d) /\ d.protocol = shape.protocol /\ AddressFits(d, shape.family)
      BY <1>7 DEF ShapeOK
    <3> HIDE DEF d
    <3>2. GoodField(d)
      BY <2>2, <3>1, DescriptorGood
    <3> QED BY <3>1, <3>2 DEF d
  <2> HIDE DEF shape
  <2>4. GoodShape(shape)
    BY <2>1, <2>2, <2>3 DEF GoodShape
  <2> QED BY <2>4 DEF shape
<1>9. IndexAgrees(m, index)
  <2> DEFINE fit == {i \in DOMAIN s : s[i].family = s[index].family}
  <2>1. ASSUME NEW i \in fit PROVE i = index
    <3>1. i \in 1 .. 2 /\ index \in 1 .. 2
      BY <1>3, <1>5
    <3>2. CASE 2 \in DOMAIN s
      <4>1. s[1].family = "ipv4" /\ s[2].family = "ipv6"
        BY <1>2, <3>2, CompiledFamilies
      <4> HIDE DEF s, index
      <4> QED BY <2>1, <3>1, <4>1
    <3>3. CASE 2 \notin DOMAIN s
      BY <1>3, <1>5, <2>1, <3>1, <3>3
    <3> QED BY <3>2, <3>3
  <2>2. fit = {index}
    BY <1>5, <2>1
  <2>3. ShapeIndex(m, s[index].family) = IF fit = {} THEN 0 ELSE CHOOSE i \in fit : TRUE
    BY <1>1 DEF ShapeIndex
  <2> HIDE DEF fit, index
  <2>4. ShapeIndex(m, s[index].family) = index
    BY <2>2, <2>3
  <2> QED BY <1>1, <1>5, <2>4 DEF IndexAgrees
<1> HIDE DEF index, s
<1>10. ReadyShape(m, index)
  BY <1>1, <1>4, <1>7, <1>8, <1>9 DEF ReadyShape
<1> QED BY <1>10 DEF index

-----------------------------------------------------------------------------
(* Every result of a request.                                              *)

ResultFits(m, r) == r.stage \notin {"shape", "packet"} /\ FitsOne(m, r.mapped)

\* The invariant, result by result.
LEMMA FitsEach ==
  MappedFits <=> \A n \in DOMAIN results : ResultFits(mapper, results[n])
BY DEF MappedFits, ResultFits, FitsOne

\* A record that the normalizer refused has no mapping to fit.
LEMMA RefusedFits ==
  ASSUME NEW m, NEW label, NEW found
  PROVE  ResultFits(m, Result("normalize", label, NoMapping, found))
<1>1. NoMapping.reason = "" /\ ~NoMapping.ok
  BY DEF NoMapping
<1>2. FitsOne(m, NoMapping)
  BY <1>1 DEF FitsOne
<1> HIDE DEF NoMapping
<1> QED BY <1>2 DEF ResultFits, Result

\* The packer has nothing to say against the size or the shape of what the mapper accepted.
LEMMA VerdictFits ==
  ASSUME NEW m, NEW record, NEW mapped, FitsOne(m, mapped), PackerAccepts(m, mapped), NEW found
  PROVE  ResultFits(m, Verdict(m, record, mapped, found))
<1> DEFINE r == Verdict(m, record, mapped, found)
<1>1. r.stage \in {"sampling", "valid"} /\ r.mapped = mapped
  BY DEF Verdict, PackerAccepts, Result
<1> HIDE DEF r
<1>2. ResultFits(m, r)
  BY <1>1 DEF ResultFits
<1> QED BY <1>2 DEF r

\* The attributes of a record of a request are a map.
LEMMA RecordIsMap ==
  ASSUME NEW logs, IsRequest(logs), NEW r \in RecordsOf(logs)
  PROVE  IsMap(r.attrs)
BY DEF RecordsOf, Range, IsRequest, IsResource, IsScope

FitsInv ==
  /\ ConstructionInv /\ CursorInv /\ MappedFits
  /\ phase \notin {"ready", "answered"} => results = <<>>

\* One more record: its result fits whatever became of it.
LEMMA ConsumedFits ==
  ASSUME FitsInv, ConsumeRecord
  PROVE  \E r : results' = Append(results, r) /\ ResultFits(mapper, r)
<1> DEFINE ordinal == Len(results)
           source  == Enumerated(request)[ordinal + 1]
           at      == CursorAt(request, cursor, ordinal)
           record  == Normalized(source)
           attrs   == Answers(at.found)
           c == MappingConfig(config)
<1>1. phase = "ready" /\ ordinal < Len(Enumerated(request))
  BY DEF ConsumeRecord
<1>2. LaidLogs(request) /\ IsRequest(request) /\ ordinal \in Nat /\ Standing(request, cursor) /\ cursor.ordinal <= ordinal
  BY LogsAreLaid, SequenceDomain DEF FitsInv, CursorInv
<1>3. TypedAnswers(attrs)
  <2>1. at.found = source
    BY <1>1, <1>2, CursorFinds
  <2>2. Enumerated(request) \in Seq(RecordsOf(request))
    BY <1>2, LogsAreLaid
  <2>3. ordinal + 1 \in 1 .. Len(Enumerated(request))
    BY <1>1, <1>2, <2>2, LenProperties
  <2>4. source \in RecordsOf(request)
    BY <2>2, <2>3, ElementOfSeq
  <2> HIDE DEF source, at
  <2>5. IsMap(at.found.attrs)
    BY <1>2, <2>1, <2>4, RecordIsMap
  <2> QED BY <2>5, AnswersTyped
<1>4. mapper = CompiledMapper(c) /\ Compiled(c) /\ IsConfig(config) /\ PublicOK(config)
  BY <1>1 DEF FitsInv, ConstructionInv, MappedPhases, CheckedPhases
<1>5. ReadyShape(mapper, ShapeOf(mapper, record.family))
  <2>1. c.protocol = config.protocol /\ c.fields = config.fields /\ c.custom = config.custom
    BY MappingKeeps
  <2>2. config.protocol \in Protocols
    BY <1>4 DEF PublicOK, Protocols
  <2>3. IsSequence(config.fields.list) /\ IsSequence(config.custom.list)
    BY <1>4 DEF IsConfig
  <2> HIDE DEF c, record
  <2>4. c.protocol \in Protocols /\ IsSequence(c.fields.list) /\ IsSequence(c.custom.list)
    BY <2>1, <2>2, <2>3
  <2> QED BY <1>4, <2>4, CompiledReady
<1>6. PICK error \in NormalizeErrors(source) :
        IF error # ""
        THEN results' = Append(results, Result("normalize", RejectionLabel[error], NoMapping, "none")) /\ UNCHANGED cursor
        ELSE AcceptMapped(record, at, MapResult(mapper, record, attrs))
  BY DEF ConsumeRecord
<1>7. CASE error # ""
  BY <1>6, <1>7, RefusedFits
<1>8. CASE error = ""
  <2> DEFINE mapped == MapResult(mapper, record, attrs)
             found  == IF mapped.looked THEN at.found.id ELSE "none"
             label  == RejectionLabel[mapped.reason]
             r == IF mapped.ok THEN Verdict(mapper, record, mapped, found) ELSE Result("mapping", label, mapped, found)
  <2>1. results' = Append(results, r)
    BY <1>6, <1>8 DEF AcceptMapped
  <2>2. FitsOne(mapper, mapped) /\ (mapped.ok => PackerAccepts(mapper, mapped))
    <3> HIDE DEF record, attrs
    <3> QED BY <1>3, <1>5, MappingFits
  <2> HIDE DEF mapped, found, record, label
  <2>3. CASE mapped.ok
    BY <2>1, <2>2, <2>3, VerdictFits
  <2>4. CASE ~mapped.ok
    <3>1. ResultFits(mapper, Result("mapping", label, mapped, found))
      BY <2>2 DEF ResultFits, Result
    <3> QED BY <2>1, <2>4, <3>1
  <2> QED BY <2>3, <2>4
<1> QED BY <1>7, <1>8

\* Initially there is no result.
LEMMA FitsInit ==
  ASSUME Init
  PROVE  FitsInv
<1>1. results = <<>> /\ DOMAIN results = {}
  BY DEF Init
<1>2. MappedFits
  BY <1>1 DEF MappedFits
<1>3. CursorInv
  BY CursorInit
<1> QED BY <1>1, <1>2, <1>3, ConstructionInit DEF FitsInv

\* Every step keeps the invariant.
LEMMA FitsStep ==
  ASSUME FitsInv, [Next]_vars
  PROVE  FitsInv'
<1>1. ConstructionInv'
  BY ConstructionStep DEF FitsInv
<1>2. CursorInv'
  BY CursorNext DEF FitsInv
<1>3. ASSUME UNCHANGED <<results, mapper>>, phase' \notin {"ready", "answered"} => results' = <<>>
      PROVE  FitsInv'
  <2>1. MappedFits'
    BY <1>3 DEF FitsInv, MappedFits
  <2> QED BY <1>1, <1>2, <1>3, <2>1 DEF FitsInv
<1>4. CASE CheckConfig \/ CompileMapping \/ BuildResolver \/ BuildDialer \/ BuildRuntime
  <2>1. phase \notin {"ready", "answered"} /\ results' = results
    BY <1>4 DEF CheckConfig, CompileMapping, BuildResolver, BuildDialer, BuildRuntime, Advance
  <2>2. results' = <<>> /\ DOMAIN results' = {}
    BY <2>1 DEF FitsInv
  <2>3. MappedFits'
    BY <2>2 DEF MappedFits
  <2> QED BY <1>1, <1>2, <2>2, <2>3 DEF FitsInv
<1>5. CASE ConsumeRecord
  <2>1. PICK r : results' = Append(results, r) /\ ResultFits(mapper, r)
    BY <1>5, ConsumedFits
  <2>2. phase = "ready" /\ phase' = phase /\ mapper' = mapper
    BY <1>5 DEF ConsumeRecord
  <2>3. IsSequence(results) /\ \A n \in DOMAIN results : ResultFits(mapper, results[n])
    BY FitsEach DEF FitsInv, CursorInv
  <2>4. \A n \in DOMAIN results' : ResultFits(mapper, results'[n])
    <3> DEFINE S == Range(results) \cup {r}
               s == Append(results, r)
    <3>1. results \in Seq(S)
      <4>1. results \in Seq(Range(results))
        BY <2>3 DEF IsSequence
      <4> QED BY <4>1
    <3> HIDE DEF S
    <3>2. /\ Len(results) \in Nat /\ DOMAIN results = 1 .. Len(results) /\ DOMAIN s = 1 .. Len(results) + 1
          /\ s[Len(results) + 1] = r /\ \A k \in 1 .. Len(results) : s[k] = results[k]
      BY <3>1
    <3> HIDE DEF s
    <3>3. ASSUME NEW n \in DOMAIN s PROVE ResultFits(mapper, s[n])
      <4>1. CASE n = Len(results) + 1
        BY <2>1, <3>2, <4>1
      <4>2. CASE n # Len(results) + 1
        <5>1. n \in DOMAIN results /\ s[n] = results[n]
          BY <3>2, <4>2
        <5> QED BY <2>3, <5>1
      <4> QED BY <4>1, <4>2
    <3> QED BY <2>1, <3>3 DEF s
  <2>5. MappedFits'
    <3>1. \A n \in DOMAIN results' : ResultFits(mapper', results'[n])
      BY <2>2, <2>4
    <3> QED BY <3>1 DEF MappedFits, ResultFits, FitsOne
  <2> QED BY <1>1, <1>2, <2>2, <2>5 DEF FitsInv
<1>6. CASE ReturnAnswer
  BY <1>3, <1>6 DEF ReturnAnswer
<1>7. CASE UNCHANGED vars
  BY <1>3, <1>7 DEF vars, FitsInv
<1> QED BY <1>4, <1>5, <1>6, <1>7 DEF Next

\* The mapper's byte budget is the wire's size arithmetic, for every configuration and every
\* record: what the mapper accepts has the size it counted and fits a datagram alone, so the
\* packer refuses nothing for its shape or its size, and what it refuses as too large is.
THEOREM RecordsFit == Spec => []MappedFits
<1>1. Init => FitsInv
  BY FitsInit
<1>2. FitsInv /\ [Next]_vars => FitsInv'
  BY FitsStep
<1>3. FitsInv => MappedFits
  BY DEF FitsInv
<1> QED BY <1>1, <1>2, <1>3, PTL DEF Spec
=============================================================================
