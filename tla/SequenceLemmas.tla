--------------------------- MODULE SequenceLemmas ---------------------------
(***************************************************************************)
(* Facts about sequences and sums.  FlattenSeq is what puts the refresh    *)
(* requests of all dashboards together, MapThenSumSet what adds up the     *)
(* demand; both are recursive functions, and what they return is proved by *)
(* taking the least counterexample.  How often an element occurs is what   *)
(* lists of requests and of trips are compared by.                         *)
(***************************************************************************)
EXTENDS SequencesExt, Integers, WellFoundedInduction, FiniteSetTheorems, TLAPS

(* A set of numbers has a least element: induction, as a fact about sets.  *)
LEMMA LeastNumber ==
  ASSUME NEW T \in SUBSET Nat, T # {}
  PROVE  \E n \in T : \A m \in T : n <= m
<1>. DEFINE R == {ss \in Nat \X Nat : ss[1] < ss[2]}
<1>1. IsWellFoundedOn(R, Nat)
  BY NatLessThanWellFounded DEF OpToRel
<1>2. PICK n \in T : \A m \in T : ~(<<m, n>> \in R)
  <2>. HIDE DEF R
  <2>. QED
    BY <1>1, WFMin
<1>3. \A m \in T : <<m, n>> \in Nat \X Nat
  OBVIOUS
<1>4. \A m \in T : ~(m < n)
  BY <1>2, <1>3
<1>. QED
  BY <1>4


(* What follows the first element.                                         *)
LEMMA TailAt ==
  ASSUME NEW S, NEW s \in Seq(S), s # <<>>
  PROVE  /\ Tail(s) \in Seq(S) /\ Len(Tail(s)) = Len(s) - 1 /\ Len(s) \in Nat \ {0}
         /\ \A i \in DOMAIN Tail(s) : i + 1 \in DOMAIN s /\ Tail(s)[i] = s[i + 1] /\ Len(s) # 1
         /\ \A i \in DOMAIN s : i = 1 \/ (i - 1 \in DOMAIN Tail(s) /\ Tail(s)[i - 1] = s[i])
<1>1. Tail(s) \in Seq(S) /\ Len(Tail(s)) = Len(s) - 1 /\ Len(s) \in Nat \ {0}
  OBVIOUS
<1>2. \A i \in 1..(Len(s) - 1) : Tail(s)[i] = s[i + 1]
  OBVIOUS
<1>3. DOMAIN s = 1..Len(s) /\ DOMAIN Tail(s) = 1..(Len(s) - 1)
  BY <1>1
<1>. DEFINE t == Tail(s)
<1>. HIDE DEF t
<1>4. \A i \in DOMAIN t : i + 1 \in DOMAIN s /\ t[i] = s[i + 1] /\ Len(s) # 1
  BY <1>1, <1>2, <1>3 DEF t
<1>5. ASSUME NEW i \in DOMAIN s, i # 1
      PROVE  i - 1 \in DOMAIN t /\ t[i - 1] = s[i]
  <2>1. i - 1 \in 1..(Len(s) - 1) /\ i - 1 + 1 = i
    BY <1>1, <1>3, <1>5
  <2>. QED
    BY <1>2, <1>3, <2>1 DEF t
<1>6. \A i \in DOMAIN s : i = 1 \/ (i - 1 \in DOMAIN t /\ t[i - 1] = s[i])
  BY <1>5
<1>. QED
  BY <1>1, <1>4, <1>6, Zenon DEF t

(* Removing an element leaves a sequence that is shorter by it.            *)
LEMMA RemoveAtType ==
  ASSUME NEW S, NEW s \in Seq(S), NEW i \in DOMAIN s
  PROVE  RemoveAt(s, i) \in Seq(S) /\ Len(RemoveAt(s, i)) = Len(s) - 1
<1>1. i \in 1..Len(s) /\ Len(s) \in Nat
  OBVIOUS
<1>2. SubSeq(s, 1, i - 1) \in Seq(S) /\ Len(SubSeq(s, 1, i - 1)) = i - 1
  BY <1>1
<1>3. SubSeq(s, i + 1, Len(s)) \in Seq(S) /\ Len(SubSeq(s, i + 1, Len(s))) = Len(s) - i
  BY <1>1
<1>. DEFINE a == SubSeq(s, 1, i - 1)
            b == SubSeq(s, i + 1, Len(s))
<1>4. a \o b \in Seq(S) /\ Len(a \o b) = Len(a) + Len(b)
  <2>. HIDE DEF a, b
  <2>1. a \in Seq(S) /\ b \in Seq(S)
    BY <1>2, <1>3 DEF a, b
  <2>. QED
    BY <2>1
<1>5. RemoveAt(s, i) = a \o b
  BY DEF RemoveAt
<1>. HIDE DEF a, b
<1>6. Len(a) = i - 1 /\ Len(b) = Len(s) - i
  BY <1>2, <1>3 DEF a, b
<1>7. Len(a) + Len(b) = Len(s) - 1
  BY <1>1, <1>6
<1>. QED
  BY <1>4, <1>5, <1>7

LEMMA RemoveFirstType ==
  ASSUME NEW S, NEW s \in Seq(S), NEW e
  PROVE  RemoveFirst(s, e) \in Seq(S)
<1>. DEFINE I == {i \in 1..Len(s) : s[i] = e}
<1>1. CASE I # {}
  <2>0. I \in SUBSET Nat /\ I \subseteq DOMAIN s
    OBVIOUS
  <2>1. \E n \in I : \A m \in I : n <= m
    <3>. HIDE DEF I
    <3>. QED
      BY <1>1, <2>0, LeastNumber
  <2>2. Min(I) \in DOMAIN s
    <3>. HIDE DEF I
    <3>. QED
      BY <2>0, <2>1 DEF Min
  <2>3. RemoveFirst(s, e) = RemoveAt(s, Min(I))
    BY <1>1 DEF RemoveFirst, SelectInSeq
  <2>. QED
    BY <2>2, <2>3, RemoveAtType
<1>2. CASE I = {}
  BY <1>2 DEF RemoveFirst
<1>. QED
  BY <1>1, <1>2
----------------------------------------------------------------------------
(* FlattenSeq *)

(* The recursive function in FlattenSeq: the first i sequences, joined.    *)
Joined(seqs, flat) ==
  flat = [i \in 1..Len(seqs) |-> IF i = 1 THEN seqs[i] ELSE flat[i - 1] \o seqs[i]]

(* There is such a function, and its values are sequences.                 *)
LEMMA JoinedExists ==
  ASSUME NEW S, NEW seqs \in Seq(Seq(S))
  PROVE  \E flat : Joined(seqs, flat)
<1>. DEFINE Step(g, i) == IF i = 1 THEN seqs[i] ELSE g[i - 1] \o seqs[i]
            Joins(n, g) == \A i \in 1..n : g[i] = Step(g, i)
            T == {n \in 0..Len(seqs) : ~ \E g \in [1..n -> Seq(S)] : Joins(n, g)}
<1>1. ASSUME T # {} PROVE FALSE
  <2>1. PICK n \in T : \A m \in T : n <= m
    <3>. HIDE DEF T
    <3>1. T \in SUBSET Nat
      BY DEF T
    <3>. QED
      BY <1>1, <3>1, LeastNumber
  <2>2. n \in 0..Len(seqs) /\ ~ \E g \in [1..n -> Seq(S)] : Joins(n, g)
    OBVIOUS
  <2>3. n # 0
    <3>. DEFINE none == [i \in 1..0 |-> <<>>]
    <3>1. none \in [1..0 -> Seq(S)] /\ Joins(0, none)
      OBVIOUS
    <3>. QED
      BY <2>2, <3>1
  <2>4. n \in 1..Len(seqs) /\ n - 1 \in 0..Len(seqs)
    BY <2>2, <2>3
  <2>5. n - 1 \notin T
    <3>. HIDE DEF T
    <3>. QED
      BY <2>1, <2>4
  <2>6. PICK g \in [1..(n - 1) -> Seq(S)] : Joins(n - 1, g)
    BY <2>4, <2>5
  <2>7. Step(g, n) \in Seq(S)
    BY <2>4
  <2>. DEFINE h == [i \in 1..n |-> IF i = n THEN Step(g, n) ELSE g[i]]
  <2>8. h \in [1..n -> Seq(S)]
    <3>. HIDE DEF Step
    <3>. QED
      BY <2>4, <2>7
  <2>9. ASSUME NEW i \in 1..n
        PROVE  h[i] = Step(h, i)
    <3>1. i # 1 => h[i - 1] = g[i - 1]
      BY <2>4
    <3>2. Step(h, i) = Step(g, i)
      BY <3>1
    <3>3. i # n => g[i] = Step(g, i)
      <4>. HIDE DEF Step
      <4>. QED
        BY <2>4, <2>6
    <3>. QED
      <4>. HIDE DEF Step
      <4>. QED
        BY <3>2, <3>3
  <2>. QED
    <3>. HIDE DEF h, Step
    <3>. QED
      BY <2>2, <2>8, <2>9
<1>2. Len(seqs) \notin T
  BY <1>1
<1>3. PICK g \in [1..Len(seqs) -> Seq(S)] : Joins(Len(seqs), g)
  BY <1>2
<1>4. Joined(seqs, g)
  BY <1>3 DEF Joined
<1>. QED
  BY <1>4

(* What FlattenSeq returns, as the last value of that function.            *)
LEMMA FlattenIsJoined ==
  ASSUME NEW S, NEW seqs \in Seq(Seq(S)), Len(seqs) # 0
  PROVE  \E flat : Joined(seqs, flat) /\ FlattenSeq(seqs) = flat[Len(seqs)]
<1>. DEFINE flat == CHOOSE f : Joined(seqs, f)
<1>1. Joined(seqs, flat)
  BY JoinedExists
<1>2. FlattenSeq(seqs) = flat[Len(seqs)]
  BY DEF FlattenSeq, Joined
<1>. QED
  BY <1>1, <1>2

(* t is in s, behind the first o elements.                                 *)
At(s, o, t) == o + Len(t) <= Len(s) /\ \A m \in 1..Len(t) : s[o + m] = t[m]

LEMMA AtJoin ==
  ASSUME NEW S, NEW s \in Seq(S), NEW t \in Seq(S)
  PROVE  /\ s \o t \in Seq(S) /\ Len(s \o t) = Len(s) + Len(t)
         /\ At(s \o t, Len(s), t)
         /\ \A u \in Seq(S), o \in Nat : At(s, o, u) => At(s \o t, o, u)
BY DEF At

(* Each of the sequences is found whole in their concatenation, and each   *)
(* element of that belongs to one of them.                                 *)
Parts(s, seqs, n) ==
  /\ \A d \in 1..n : \E o \in Nat : At(s, o, seqs[d])
  /\ \A j \in 1..Len(s) : \E d \in 1..n, o \in Nat :
       At(s, o, seqs[d]) /\ j - o \in 1..Len(seqs[d])

LEMMA PartsJoin ==
  ASSUME NEW S, NEW seqs \in Seq(Seq(S)), NEW n \in Nat, n + 1 <= Len(seqs),
         NEW s \in Seq(S), Parts(s, seqs, n)
  PROVE  s \o seqs[n + 1] \in Seq(S) /\ Parts(s \o seqs[n + 1], seqs, n + 1)
<1>. DEFINE t == seqs[n + 1]
            r == s \o t
<1>1. t \in Seq(S) /\ \A d \in 1..n : seqs[d] \in Seq(S)
  OBVIOUS
<1>2. /\ r \in Seq(S) /\ Len(r) = Len(s) + Len(t) /\ Len(s) \in Nat /\ Len(t) \in Nat
      /\ At(r, Len(s), t)
      /\ \A d \in 1..n, o \in Nat : At(s, o, seqs[d]) => At(r, o, seqs[d])
  BY <1>1, AtJoin
<1>. HIDE DEF r
<1>3. \A d \in 1..(n + 1) : \E o \in Nat : At(r, o, seqs[d])
  <2>1. \A d \in 1..(n + 1) : d \in 1..n \/ d = n + 1
    OBVIOUS
  <2>. QED
    BY <1>2, <2>1 DEF Parts
<1>4. ASSUME NEW j \in 1..Len(r)
      PROVE  \E d \in 1..(n + 1), o \in Nat : At(r, o, seqs[d]) /\ j - o \in 1..Len(seqs[d])
  <2>1. CASE j \in 1..Len(s)
    <3>1. PICK d \in 1..n, o \in Nat : At(s, o, seqs[d]) /\ j - o \in 1..Len(seqs[d])
      BY <2>1 DEF Parts
    <3>2. d \in 1..(n + 1) /\ At(r, o, seqs[d])
      BY <1>2, <3>1
    <3>. QED
      BY <3>1, <3>2
  <2>2. CASE j \notin 1..Len(s)
    <3>1. j - Len(s) \in 1..Len(t) /\ n + 1 \in 1..(n + 1)
      BY <1>2, <2>2
    <3>. QED
      BY <1>2, <3>1
  <2>. QED
    BY <2>1, <2>2
<1>. QED
  BY <1>2, <1>3, <1>4 DEF Parts, r

LEMMA FlattenParts ==
  ASSUME NEW S, NEW seqs \in Seq(Seq(S))
  PROVE  FlattenSeq(seqs) \in Seq(S) /\ Parts(FlattenSeq(seqs), seqs, Len(seqs))
<1>1. CASE Len(seqs) = 0
  <2>1. FlattenSeq(seqs) = <<>>
    BY <1>1 DEF FlattenSeq
  <2>. QED
    BY <1>1, <2>1 DEF Parts
<1>2. CASE Len(seqs) # 0
  <2>1. PICK flat : Joined(seqs, flat) /\ FlattenSeq(seqs) = flat[Len(seqs)]
    BY <1>2, FlattenIsJoined
  <2>. DEFINE Good(i) == flat[i] \in Seq(S) /\ Parts(flat[i], seqs, i)
              T == {i \in 1..Len(seqs) : ~Good(i)}
  <2>2. ASSUME NEW i \in 1..Len(seqs)
        PROVE  flat[i] = IF i = 1 THEN seqs[i] ELSE flat[i - 1] \o seqs[i]
    BY <2>1 DEF Joined
  <2>3. Good(1)
    <3>1. flat[1] = seqs[1] /\ seqs[1] \in Seq(S)
      BY <1>2, <2>2
    <3>2. At(seqs[1], 0, seqs[1]) /\ \A j \in 1..Len(seqs[1]) : j - 0 \in 1..Len(seqs[1])
      BY <3>1 DEF At
    <3>. QED
      BY <3>1, <3>2 DEF Parts
  <2>4. ASSUME T # {} PROVE FALSE
    <3>1. PICK n \in T : \A m \in T : n <= m
      <4>. HIDE DEF T
      <4>1. T \in SUBSET Nat
        BY DEF T
      <4>. QED
        BY <2>4, <4>1, LeastNumber
    <3>2. n \in 2..Len(seqs) /\ ~Good(n)
      <4>1. n \in 1..Len(seqs) /\ ~Good(n)
        OBVIOUS
      <4>2. n # 1
        BY <2>3, <4>1
      <4>. QED
        BY <4>1, <4>2
    <3>3. n - 1 \in 1..Len(seqs) /\ Good(n - 1)
      BY <3>1, <3>2
    <3>4. flat[n] = flat[n - 1] \o seqs[n]
      <4>1. n \in 1..Len(seqs) /\ n # 1
        BY <3>2
      <4>. QED
        BY <2>2, <4>1, Zenon
    <3>5. n - 1 \in Nat /\ (n - 1) + 1 <= Len(seqs) /\ (n - 1) + 1 = n
      BY <3>2
    <3>6. Good(n)
      BY <3>3, <3>4, <3>5, PartsJoin
    <3>. QED
      BY <3>2, <3>6
  <2>. QED
    BY <1>2, <2>1, <2>4
<1>. QED
  BY <1>1, <1>2
----------------------------------------------------------------------------
(* How often an element occurs in a sequence *)

Places(s, e) == {i \in DOMAIN s : s[i] = e}
HowOften(s, e) == Cardinality(Places(s, e))

(* The same elements of S as often.                                        *)
Alike(s, t, S) == \A e \in S : HowOften(s, e) = HowOften(t, e)

LEMMA HowOftenType ==
  ASSUME NEW S, NEW s \in Seq(S), NEW e
  PROVE  /\ IsFiniteSet(Places(s, e)) /\ HowOften(s, e) \in Nat
         /\ HowOften(s, e) = 0 <=> Places(s, e) = {}
<1>1. DOMAIN s = 1..Len(s) /\ Len(s) \in Nat
  OBVIOUS
<1>2. IsFiniteSet(1..Len(s))
  BY <1>1, FS_Interval
<1>3. Places(s, e) \in SUBSET (1..Len(s))
  BY <1>1 DEF Places
<1>4. IsFiniteSet(Places(s, e))
  BY <1>2, <1>3, FS_Subset
<1>. QED
  BY <1>4, FS_CardinalityType, FS_EmptySet DEF HowOften

LEMMA HowOftenAppend ==
  ASSUME NEW S, NEW s \in Seq(S), NEW x \in S, NEW e
  PROVE  HowOften(Append(s, x), e) = HowOften(s, e) + (IF x = e THEN 1 ELSE 0)
<1>. DEFINE n == Len(s) + 1
            t == Append(s, x)
<1>1. /\ DOMAIN s = 1..Len(s) /\ Len(s) \in Nat /\ DOMAIN t = 1..n
      /\ t[n] = x /\ \A i \in 1..Len(s) : t[i] = s[i]
  OBVIOUS
<1>. HIDE DEF t
<1>2. n \notin 1..Len(s) /\ 1..n = (1..Len(s)) \cup {n}
  BY <1>1
<1>3. IsFiniteSet(Places(s, e)) /\ HowOften(s, e) \in Nat
  BY HowOftenType
<1>. HIDE DEF n
<1>4. CASE x = e
  <2>1. Places(t, e) = Places(s, e) \cup {n} /\ n \notin Places(s, e)
    BY <1>1, <1>2, <1>4 DEF Places
  <2>2. Cardinality(Places(s, e) \cup {n}) = Cardinality(Places(s, e)) + 1
    BY <1>3, <2>1, FS_AddElement
  <2>. QED
    BY <1>4, <2>1, <2>2 DEF HowOften, t
<1>5. CASE x # e
  <2>1. Places(t, e) = Places(s, e)
    BY <1>1, <1>2, <1>5 DEF Places
  <2>. QED
    BY <1>3, <1>5, <2>1 DEF HowOften, t
<1>. QED
  BY <1>4, <1>5

(* The elements left when one is removed.                                  *)
LEMMA RemoveAtElements ==
  ASSUME NEW S, NEW s \in Seq(S), NEW i \in DOMAIN s
  PROVE  \A j \in 1..(Len(s) - 1) :
           RemoveAt(s, i)[j] = IF j < i THEN s[j] ELSE s[j + 1]
<1>1. i \in 1..Len(s) /\ Len(s) \in Nat
  OBVIOUS
<1>. DEFINE a == SubSeq(s, 1, i - 1)
            b == SubSeq(s, i + 1, Len(s))
<1>2. /\ a \in Seq(S) /\ Len(a) = i - 1 /\ b \in Seq(S) /\ Len(b) = Len(s) - i
      /\ \A j \in 1..(i - 1) : a[j] = s[j]
      /\ \A j \in 1..(Len(s) - i) : b[j] = s[j + i]
  BY <1>1
<1>3. RemoveAt(s, i) = a \o b
  BY DEF RemoveAt
<1>. HIDE DEF a, b
<1>4. \A j \in 1..(Len(a) + Len(b)) :
        (a \o b)[j] = IF j <= Len(a) THEN a[j] ELSE b[j - Len(a)]
  <2>1. a \in Seq(S) /\ b \in Seq(S)
    BY <1>2
  <2>. QED
    BY <2>1
<1>5. ASSUME NEW j \in 1..(Len(s) - 1)
      PROVE  (a \o b)[j] = IF j < i THEN s[j] ELSE s[j + 1]
  <2>1. j \in 1..(Len(a) + Len(b)) /\ (j <= Len(a) <=> j < i)
    BY <1>1, <1>2
  <2>2. CASE j < i
    BY <1>1, <1>2, <1>4, <2>1, <2>2
  <2>3. CASE ~(j < i)
    <3>1. j - (i - 1) \in 1..(Len(s) - i) /\ (j - (i - 1)) + i = j + 1
      BY <1>1, <2>3
    <3>. QED
      BY <1>2, <1>4, <2>1, <2>3, <3>1
  <2>. QED
    BY <2>2, <2>3
<1>. QED
  BY <1>3, <1>5

LEMMA HowOftenRemoveAt ==
  ASSUME NEW S, NEW s \in Seq(S), NEW i \in DOMAIN s, NEW e
  PROVE  HowOften(RemoveAt(s, i), e) = HowOften(s, e) - (IF s[i] = e THEN 1 ELSE 0)
<1>. DEFINE n == Len(s)
            t == RemoveAt(s, i)
            P == Places(s, e) \ {i}
            Q == Places(t, e)
<1>1. i \in 1..n /\ n \in Nat /\ DOMAIN s = 1..n
  OBVIOUS
<1>2. t \in Seq(S) /\ DOMAIN t = 1..(n - 1)
  <2>1. t \in Seq(S) /\ Len(t) = n - 1
    BY RemoveAtType
  <2>. HIDE DEF t, n
  <2>. QED
    BY <1>1, <2>1
<1>3. \A j \in 1..(n - 1) : t[j] = IF j < i THEN s[j] ELSE s[j + 1]
  BY RemoveAtElements
<1>. HIDE DEF t, n
<1>. DEFINE f == [j \in Q |-> IF j < i THEN j ELSE j + 1]
<1>4. f \in [Q -> P]
  BY <1>1, <1>2, <1>3 DEF Places
<1>5. \A j, k \in Q : f[j] = f[k] => j = k
  <2>1. Q \subseteq Nat
    BY <1>1, <1>2 DEF Places
  <2>. HIDE DEF Q
  <2>. QED
    BY <1>1, <2>1
<1>6. \A p \in P : \E j \in Q : f[j] = p
  <2>. SUFFICES ASSUME NEW p \in P PROVE \E j \in Q : f[j] = p
    OBVIOUS
  <2>1. p \in 1..n /\ s[p] = e /\ p # i
    BY <1>1 DEF Places
  <2>2. CASE p < i
    <3>1. p \in 1..(n - 1) /\ t[p] = e
      BY <1>1, <1>3, <2>1, <2>2
    <3>2. p \in Q
      BY <1>2, <3>1 DEF Places
    <3>. QED
      <4>. HIDE DEF Q
      <4>. QED
        BY <2>2, <3>2
  <2>3. CASE p > i
    <3>1. p - 1 \in 1..(n - 1) /\ ~(p - 1 < i) /\ (p - 1) + 1 = p
      BY <1>1, <2>1, <2>3
    <3>2. t[p - 1] = e
      BY <1>3, <2>1, <3>1
    <3>3. p - 1 \in Q
      BY <1>2, <3>1, <3>2 DEF Places
    <3>. QED
      <4>. HIDE DEF Q
      <4>. QED
        BY <3>1, <3>3
  <2>. QED
    BY <1>1, <2>1, <2>2, <2>3
<1>7. ExistsBijection(Q, P)
  <2>. HIDE DEF f, P, Q
  <2>. QED
    BY <1>4, <1>5, <1>6 DEF ExistsBijection, Bijection, Injection, Surjection, IsInjective
<1>8. IsFiniteSet(Places(s, e)) /\ HowOften(s, e) \in Nat /\ IsFiniteSet(Q)
  <2>. HIDE DEF Q
  <2>. QED
    BY <1>2, HowOftenType DEF Q
<1>9. Cardinality(P) = Cardinality(Q)
  <2>. HIDE DEF P, Q
  <2>. QED
    BY <1>7, <1>8, FS_Bijection
<1>10. Cardinality(P) = IF i \in Places(s, e) THEN HowOften(s, e) - 1 ELSE HowOften(s, e)
  BY <1>8, FS_RemoveElement DEF HowOften
<1>11. i \in Places(s, e) <=> s[i] = e
  BY DEF Places
<1>. QED
  BY <1>8, <1>9, <1>10, <1>11 DEF HowOften, t

(* RemoveFirst removes one occurrence, if there is any.                    *)
LEMMA RemoveFirstAt ==
  ASSUME NEW S, NEW s \in Seq(S), NEW e, HowOften(s, e) # 0
  PROVE  \E k \in DOMAIN s : s[k] = e /\ RemoveFirst(s, e) = RemoveAt(s, k)
<1>. DEFINE I == {i \in 1..Len(s) : s[i] = e}
<1>1. I # {}
  <2>1. Places(s, e) # {} /\ DOMAIN s = 1..Len(s)
    BY HowOftenType
  <2>. QED
    BY <2>1 DEF Places
<1>2. I \in SUBSET Nat /\ \A i \in I : i \in DOMAIN s /\ s[i] = e
  OBVIOUS
<1>3. RemoveFirst(s, e) = RemoveAt(s, Min(I))
  BY <1>1 DEF RemoveFirst, SelectInSeq
<1>4. Min(I) \in I
  <2>. HIDE DEF I
  <2>1. \E n \in I : \A m \in I : n <= m
    BY <1>1, <1>2, LeastNumber
  <2>. QED
    BY <2>1 DEF Min
<1>. QED
  <2>. HIDE DEF I
  <2>. QED
    BY <1>2, <1>3, <1>4

LEMMA AlikeAppend ==
  ASSUME NEW S, NEW s \in Seq(S), NEW t \in Seq(S), NEW x \in S, Alike(s, t, S)
  PROVE  Alike(Append(s, x), Append(t, x), S)
BY HowOftenAppend DEF Alike

(* An element is removed wherever it stands in the one, where it stands    *)
(* first in the other.                                                     *)
LEMMA AlikeRemove ==
  ASSUME NEW S, NEW s \in Seq(S), NEW t \in Seq(S), Alike(s, t, S),
         NEW i \in DOMAIN s
  PROVE  Alike(RemoveAt(s, i), RemoveFirst(t, s[i]), S)
<1>1. HowOften(t, s[i]) # 0
  <2>1. i \in Places(s, s[i]) /\ s[i] \in S
    BY DEF Places
  <2>2. HowOften(s, s[i]) # 0
    BY <2>1, HowOftenType
  <2>. QED
    BY <2>1, <2>2 DEF Alike
<1>2. PICK k \in DOMAIN t : t[k] = s[i] /\ RemoveFirst(t, s[i]) = RemoveAt(t, k)
  BY <1>1, RemoveFirstAt
<1>3. ASSUME NEW e \in S
      PROVE  HowOften(RemoveAt(s, i), e) = HowOften(RemoveAt(t, k), e)
  <2>1. HowOften(RemoveAt(s, i), e) = HowOften(s, e) - (IF s[i] = e THEN 1 ELSE 0)
    BY HowOftenRemoveAt
  <2>2. HowOften(RemoveAt(t, k), e) = HowOften(t, e) - (IF t[k] = e THEN 1 ELSE 0)
    BY HowOftenRemoveAt
  <2>. QED
    BY <1>2, <2>1, <2>2 DEF Alike
<1>. QED
  BY <1>2, <1>3 DEF Alike
-----------------------------------------------------------------------------
(* Sums over finite sets *)

(* One entry for each value that f takes on C, with the number of elements *)
(* it takes it at; and how many of C's elements some entries account for.  *)
EntriesOf(C, f) ==
  {[key |-> k, count |-> Cardinality({p \in C : f[p] = k})] : k \in {f[p] : p \in C}}

Accounted(C, f, s) == Cardinality({p \in C : \E e \in s : f[p] = e.key})

(* h adds the counts up, one entry at a time, as the function does that    *)
(* MapThenSumSet defines.                                                  *)
AddsUp(S, h) ==
  h = [s \in SUBSET S |-> IF s = {} THEN 0
                          ELSE LET x == CHOOSE x \in s : TRUE IN x.count + h[s \ {x}]]

(* An entry is the one of its value, and every element has one.            *)
LEMMA EntryOf ==
  ASSUME NEW C, NEW f
  PROVE  /\ \A x \in EntriesOf(C, f) : x.count = Cardinality({p \in C : f[p] = x.key})
         /\ \A x, y \in EntriesOf(C, f) : x.key = y.key => x = y
         /\ \A p \in C : \E x \in EntriesOf(C, f) : f[p] = x.key
<1>. DEFINE Entry(k) == [key |-> k, count |-> Cardinality({p \in C : f[p] = k})]
<1>1. \A k : Entry(k).key = k /\ Entry(k).count = Cardinality({p \in C : f[p] = k})
  OBVIOUS
<1>2. /\ \A x \in EntriesOf(C, f) : \E k : x = Entry(k)
      /\ \A p \in C : Entry(f[p]) \in EntriesOf(C, f)
  BY DEF EntriesOf
<1>. HIDE DEF Entry
<1>3. ASSUME NEW x \in EntriesOf(C, f)
      PROVE  x = Entry(x.key) /\ x.count = Cardinality({p \in C : f[p] = x.key})
  <2>1. PICK k : x = Entry(k)
    BY <1>2
  <2>2. x.key = k
    BY <1>1, <2>1
  <2>. QED
    BY <1>1, <2>1, <2>2
<1>. QED
  BY <1>1, <1>2, <1>3

(* Entry by entry.                                                         *)
LEMMA AccountedStep ==
  ASSUME NEW C, IsFiniteSet(C), NEW f, NEW s \in SUBSET EntriesOf(C, f), NEW x \in s
  PROVE  /\ Accounted(C, f, s) \in Nat
         /\ Accounted(C, f, s) = x.count + Accounted(C, f, s \ {x})
<1>. DEFINE A == {p \in C : f[p] = x.key}
            B == {p \in C : \E e \in s \ {x} : f[p] = e.key}
<1>1. x.count = Cardinality(A)
  BY EntryOf
<1>2. \A e \in s : e.key = x.key => e = x
  BY EntryOf
<1>3. A \cap B = {} /\ A \cup B = {p \in C : \E e \in s : f[p] = e.key}
  BY <1>2
<1>4. IsFiniteSet(A) /\ IsFiniteSet(B)
  BY FS_Subset
<1>. HIDE DEF A, B
<1>5. Cardinality(A) \in Nat /\ Cardinality(B) \in Nat
  BY <1>4, FS_CardinalityType
<1>6. Cardinality(A \cup B) = Cardinality(A) + Cardinality(B)
  <2>1. Cardinality(A \cap B) = 0
    BY <1>3, FS_EmptySet
  <2>2. Cardinality(A \cup B) = Cardinality(A) + Cardinality(B) - Cardinality(A \cap B)
    BY <1>4, FS_Union
  <2>. QED
    BY <1>5, <2>1, <2>2
<1>7. Accounted(C, f, s \ {x}) = Cardinality(B)
  BY DEF Accounted, B
<1>8. Accounted(C, f, s) = Cardinality(A \cup B)
  BY <1>3 DEF Accounted
<1>. QED
  BY <1>1, <1>5, <1>6, <1>7, <1>8

LEMMA NoneAccounted ==
  ASSUME NEW C, NEW f
  PROVE  Accounted(C, f, {}) = 0
<1>1. {p \in C : \E e \in {} : f[p] = e.key} = {}
  OBVIOUS
<1>. QED
  BY <1>1, FS_EmptySet DEF Accounted

(* A recursive function is a CHOOSE: this one has a value, the counting.   *)
LEMMA AdderExists ==
  ASSUME NEW C, IsFiniteSet(C), NEW f
  PROVE  \E h : AddsUp(EntriesOf(C, f), h)
<1>. DEFINE S == EntriesOf(C, f)
            h == [s \in SUBSET S |-> Accounted(C, f, s)]
<1>1. ASSUME NEW s \in SUBSET S
      PROVE  h[s] = IF s = {} THEN 0
                    ELSE LET x == CHOOSE x \in s : TRUE IN x.count + h[s \ {x}]
  <2>1. CASE s = {}
    BY <2>1, NoneAccounted
  <2>2. CASE s # {}
    <3>. DEFINE x == CHOOSE x \in s : TRUE
    <3>1. x \in s /\ s \ {x} \in SUBSET S
      BY <2>2
    <3>2. Accounted(C, f, s) = x.count + Accounted(C, f, s \ {x})
      <4>. HIDE DEF x
      <4>. QED
        BY <3>1, AccountedStep
    <3>. QED
      BY <2>2, <3>1, <3>2
  <2>. QED
    BY <2>1, <2>2
<1>. QED
  <2>. HIDE DEF S
  <2>1. AddsUp(S, h)
    BY <1>1 DEF AddsUp
  <2>. QED
    BY <2>1 DEF S

(* By the smallest set of entries whose sum would be another.              *)
LEMMA AdderAccounts ==
  ASSUME NEW C, IsFiniteSet(C), NEW f, IsFiniteSet(EntriesOf(C, f)),
         NEW h, AddsUp(EntriesOf(C, f), h)
  PROVE  h[EntriesOf(C, f)] = Accounted(C, f, EntriesOf(C, f))
<1>. DEFINE S == EntriesOf(C, f)
            Wrong == {s \in SUBSET S : h[s] # Accounted(C, f, s)}
            Sizes == {Cardinality(s) : s \in Wrong}
<1>1. \A s \in SUBSET S : IsFiniteSet(s) /\ Cardinality(s) \in Nat
  BY FS_Subset, FS_CardinalityType
<1>2. ASSUME Wrong # {} PROVE FALSE
  <2>1. Sizes \in SUBSET Nat /\ Sizes # {}
    BY <1>1, <1>2
  <2>2. PICK n \in Sizes : \A m \in Sizes : n <= m
    <3>. HIDE DEF Sizes
    <3>. QED
      BY <2>1, LeastNumber
  <2>3. PICK s \in Wrong : Cardinality(s) = n
    OBVIOUS
  <2>4. s # {}
    <3>1. h[{}] = 0
      BY DEF AddsUp
    <3>. QED
      BY <3>1, NoneAccounted
  <2>. DEFINE x == CHOOSE x \in s : TRUE
  <2>5. x \in s /\ s \in SUBSET S /\ s \ {x} \in SUBSET S
    BY <2>4
  <2>6. h[s] = x.count + h[s \ {x}]
    BY <2>4, <2>5 DEF AddsUp
  <2>. HIDE DEF x
  <2>7. Accounted(C, f, s) = x.count + Accounted(C, f, s \ {x})
    BY <2>5, AccountedStep
  <2>8. s \ {x} \in Wrong
    BY <2>3, <2>5, <2>6, <2>7
  <2>9. Cardinality(s \ {x}) = Cardinality(s) - 1
    BY <1>1, <2>5, FS_RemoveElement
  <2>10. Cardinality(s \ {x}) \in Sizes /\ Cardinality(s \ {x}) \in Nat
    BY <1>1, <2>5, <2>8
  <2>. QED
    <3>. HIDE DEF Sizes
    <3>. QED
      BY <1>1, <2>2, <2>3, <2>5, <2>9, <2>10
<1>3. S \notin Wrong
  BY <1>2
<1>. QED
  BY <1>3

(* Entries that count a finite set's elements add up to their number.      *)
LEMMA EntriesAddUp ==
  ASSUME NEW C, IsFiniteSet(C), NEW f
  PROVE  MapThenSumSet(LAMBDA e : e.count, EntriesOf(C, f)) = Cardinality(C)
<1>. DEFINE S == EntriesOf(C, f)
            h == CHOOSE g : AddsUp(S, g)
<1>1. IsFiniteSet(S)
  <2>. DEFINE Entry == [p \in C |-> [key |-> f[p], count |-> Cardinality({q \in C : f[q] = f[p]})]]
  <2>1. Entry \in Surjection(C, S)
    BY DEF Surjection, EntriesOf
  <2>. QED
    BY <2>1, FS_Surjection
<1>2. AddsUp(S, h)
  BY AdderExists
<1>3. MapThenSumSet(LAMBDA e : e.count, S) = h[S]
  BY DEF MapThenSumSet, MapThenFoldSet, AddsUp
<1>4. h[S] = Accounted(C, f, S)
  <2>. HIDE DEF h
  <2>. QED
    BY <1>1, <1>2, AdderAccounts
<1>5. Accounted(C, f, S) = Cardinality(C)
  <2>1. {p \in C : \E e \in S : f[p] = e.key} = C
    BY EntryOf
  <2>. QED
    BY <2>1 DEF Accounted
<1>. QED
  BY <1>3, <1>4, <1>5
=============================================================================
