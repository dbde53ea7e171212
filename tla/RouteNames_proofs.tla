------------------------- MODULE RouteNames_proofs -------------------------
(***************************************************************************)
(* Server and client derive the same destination from a route's name, for  *)
(* names of every length and whatever words they are made of.              *)
(***************************************************************************)
EXTENDS RouteNames, SequenceLemmas

(* Find *)

(* The first of a set of places.                                           *)
LEMMA MinFirst ==
  ASSUME NEW I \in SUBSET Nat, I # {}
  PROVE  Min(I) \in I /\ \A i \in I : Min(I) <= i
<1>1. \E n \in I : \A m \in I : n <= m
  BY LeastNumber
<1>. QED
  BY <1>1 DEF Min

LEMMA FindFirst ==
  ASSUME NEW S, NEW text \in Seq(S), NEW e
  PROVE  /\ Find(text, e) # 0 =>
              /\ Find(text, e) \in 1..Len(text) /\ text[Find(text, e)] = e
              /\ \A i \in 1..Len(text) : text[i] = e => Find(text, e) <= i
         /\ Find(text, e) = 0 => \A i \in 1..Len(text) : text[i] # e
<1>. DEFINE I == {i \in 1..Len(text) : text[i] = e}
<1>1. Find(text, e) = IF I # {} THEN Min(I) ELSE 0
  BY DEF Find, SelectInSeq
<1>2. I \in SUBSET Nat /\ 0 \notin I
  OBVIOUS
<1>3. I # {} => Min(I) \in I /\ \A i \in I : Min(I) <= i
  <2>. HIDE DEF I
  <2>. QED
    BY <1>2, MinFirst
<1>. QED
  BY <1>1, <1>2, <1>3
----------------------------------------------------------------------------
(* White space *)

(* A text trimmed is what is left from its first piece that is no blank.   *)
IsFirst(text, blanks, k) ==
  /\ k \in 1..(Len(text) + 1)
  /\ \A i \in 1..Len(text) : i < k => text[i] \in blanks
  /\ k <= Len(text) => text[k] \notin blanks

LEMMA TrimIsRest ==
  ASSUME NEW S, NEW text \in Seq(S), NEW blanks, Arrow \notin blanks
  PROVE  \E k \in 1..(Len(text) + 1) :
            /\ IsFirst(text, blanks, k)
            /\ TrimLeading(text, blanks) = SubSeq(text, k, Len(text))
<1>. DEFINE ext == text \o <<Arrow>>
            I == {i \in 1..Len(ext) : ext[i] \notin blanks}
            k == Min(I)
<1>1. /\ Len(text) \in Nat /\ Len(ext) = Len(text) + 1
      /\ \A i \in 1..Len(text) : ext[i] = text[i]
      /\ ext[Len(text) + 1] = Arrow
  OBVIOUS
<1>2. Len(text) + 1 \in I /\ I \in SUBSET Nat
  BY <1>1
<1>3. k \in I /\ \A i \in I : k <= i
  <2>. HIDE DEF I
  <2>. QED
    BY <1>2, MinFirst
<1>4. TrimLeading(text, blanks) = SubSeq(text, k, Len(text))
  <2>1. SelectInSeq(ext, LAMBDA p : p \notin blanks) = k
    <3>1. SelectInSeq(ext, LAMBDA p : p \notin blanks) = IF I # {} THEN Min(I) ELSE 0
      BY DEF SelectInSeq
    <3>. QED
      BY <1>2, <3>1
  <2>2. TrimLeading(text, blanks) = SubSeq(text, k - 1 + 1, Len(text))
    BY <2>1 DEF TrimLeading, After
  <2>3. k - 1 + 1 = k
    <3>1. k \in Nat
      BY <1>2, <1>3
    <3>. HIDE DEF k
    <3>. QED
      BY <3>1
  <2>. QED
    BY <2>2, <2>3
<1>5. k \in 1..(Len(text) + 1) /\ ext[k] \notin blanks
  BY <1>1, <1>3
<1>6. ASSUME NEW i \in 1..Len(text), i < k PROVE text[i] \in blanks
  <2>1. i \notin I
    <3>. HIDE DEF k, I
    <3>1. i \in Nat /\ k \in Nat /\ ~(k <= i)
      BY <1>1, <1>5, <1>6
    <3>. QED
      BY <1>3, <3>1
  <2>. QED
    BY <1>1, <2>1
<1>. HIDE DEF k, I, ext
<1>7. IsFirst(text, blanks, k)
  BY <1>1, <1>5, <1>6 DEF IsFirst
<1>. QED
  BY <1>4, <1>5, <1>7

LEMMA OneFirst ==
  ASSUME NEW S, NEW text \in Seq(S), NEW blanks, NEW j, NEW k,
         IsFirst(text, blanks, j), IsFirst(text, blanks, k)
  PROVE  j = k
<1>1. Len(text) \in Nat
  OBVIOUS
<1>2. /\ j \in Nat /\ k \in Nat /\ j <= Len(text) + 1 /\ k <= Len(text) + 1
      /\ 1 <= j /\ 1 <= k
  BY <1>1 DEF IsFirst
<1>3. ~(j < k)
  <2>1. j < k => j \in 1..Len(text)
    BY <1>1, <1>2
  <2>. QED
    BY <1>1, <1>2, <2>1 DEF IsFirst
<1>4. ~(k < j)
  <2>1. k < j => k \in 1..Len(text)
    BY <1>1, <1>2
  <2>. QED
    BY <1>1, <1>2, <2>1 DEF IsFirst
<1>. QED
  BY <1>2, <1>3, <1>4

(* Taking some blanks off first makes no difference to who takes more.     *)
LEMMA TrimTwice ==
  ASSUME NEW S, NEW text \in Seq(S), NEW some, NEW more, some \subseteq more,
         Arrow \notin more
  PROVE  TrimLeading(TrimLeading(text, some), more) = TrimLeading(text, more)
<1>1. PICK j \in 1..(Len(text) + 1) :
        /\ IsFirst(text, some, j)
        /\ TrimLeading(text, some) = SubSeq(text, j, Len(text))
  BY TrimIsRest
<1>2. PICK k \in 1..(Len(text) + 1) :
        /\ IsFirst(text, more, k)
        /\ TrimLeading(text, more) = SubSeq(text, k, Len(text))
  BY TrimIsRest
<1>3. Len(text) \in Nat /\ j \in Nat /\ k \in Nat /\ 1 <= j /\ j <= Len(text) + 1
      /\ 1 <= k /\ k <= Len(text) + 1
  OBVIOUS
<1>4. j <= k
  <2>1. k < j => k \in 1..Len(text)
    BY <1>3
  <2>. QED
    BY <1>1, <1>2, <1>3, <2>1 DEF IsFirst
<1>. DEFINE rest == SubSeq(text, j, Len(text))
            m == k - j + 1
<1>5. /\ rest \in Seq(S) /\ Len(rest) = Len(text) - j + 1
      /\ \A i \in 1..Len(rest) : rest[i] = text[j + i - 1]
  BY <1>3
<1>6. m \in Nat /\ m \in 1..(Len(rest) + 1) /\ j + m - 1 = k
  BY <1>3, <1>4, <1>5
<1>7. IsFirst(rest, more, m)
  <2>1. ASSUME NEW i \in 1..Len(rest), i < m PROVE rest[i] \in more
    <3>1. j + i - 1 \in 1..Len(text) /\ j + i - 1 < k
      BY <1>3, <1>5, <2>1
    <3>. QED
      BY <1>2, <1>5, <3>1 DEF IsFirst
  <2>2. ASSUME m <= Len(rest) PROVE rest[m] \notin more
    <3>1. m \in 1..Len(rest) /\ k <= Len(text)
      BY <1>3, <1>5, <1>6, <2>2
    <3>2. rest[m] = text[k]
      BY <1>5, <1>6, <3>1
    <3>. QED
      BY <1>2, <3>1, <3>2 DEF IsFirst
  <2>. HIDE DEF rest, m
  <2>. QED
    BY <1>6, <2>1, <2>2 DEF IsFirst
<1>8. TrimLeading(rest, more) = SubSeq(rest, m, Len(rest))
  <2>. HIDE DEF rest, m
  <2>1. PICK n \in 1..(Len(rest) + 1) :
          /\ IsFirst(rest, more, n)
          /\ TrimLeading(rest, more) = SubSeq(rest, n, Len(rest))
    BY <1>5, TrimIsRest
  <2>2. n = m
    BY <1>5, <1>7, <2>1, OneFirst
  <2>. QED
    BY <2>1, <2>2
<1>9. SubSeq(rest, m, Len(rest)) = SubSeq(text, k, Len(text))
  BY <1>3, <1>4
<1>. QED
  BY <1>1, <1>2, <1>8, <1>9

(* The client finds the same in what the server has trimmed.               *)
LEMMA ServerTrimmedFirst ==
  ASSUME NEW S, NEW text \in Seq(S)
  PROVE  Trimmed(ServerTrimmed(text)) = Trimmed(text)
<1>1. {Blank} \subseteq WhiteSpace /\ Arrow \notin WhiteSpace
  BY DEF WhiteSpace, Blank, HardBlank, Arrow
<1>2. TrimLeading(TrimLeading(text, {Blank}), WhiteSpace) = TrimLeading(text, WhiteSpace)
  BY <1>1, TrimTwice
<1>. QED
  BY <1>2 DEF Trimmed, ServerTrimmed

(* One word, or none, has nothing to trim.                                 *)
LEMMA NothingToTrim ==
  ASSUME NEW text, text = <<>> \/ \E w : w \notin WhiteSpace /\ text = <<w>>
  PROVE  Trimmed(text) = text
<1>1. Arrow \notin WhiteSpace
  BY DEF WhiteSpace, Blank, HardBlank, Arrow
<1>2. PICK S : text \in Seq(S)
  <2>1. text = <<>> => text \in Seq({})
    OBVIOUS
  <2>2. ASSUME NEW w, text = <<w>> PROVE text \in Seq({w})
    BY <2>2
  <2>. QED
    BY <2>1, <2>2
<1>3. Reverse(text) = text
  <2>1. Reverse(<<>>) = <<>> /\ \A w : Reverse(<<w>>) = <<w>>
    BY DEF Reverse
  <2>. QED
    BY <2>1
<1>4. PICK k \in 1..(Len(text) + 1) :
        /\ IsFirst(text, WhiteSpace, k)
        /\ TrimLeading(text, WhiteSpace) = SubSeq(text, k, Len(text))
  BY <1>1, <1>2, TrimIsRest
<1>5. k = 1
  <2>1. IsFirst(text, WhiteSpace, 1)
    BY DEF IsFirst
  <2>. QED
    BY <1>2, <1>4, <2>1, OneFirst
<1>6. SubSeq(text, 1, Len(text)) = text
  BY <1>2
<1>. QED
  BY <1>3, <1>4, <1>5, <1>6 DEF Trimmed

(* Whether the other stop is put in before or after the client's trim.     *)
LEMMA OtherStopTrimmed ==
  ASSUME NEW S, NEW text \in Seq(S)
  PROVE  OtherStop(Trimmed(text)) = OtherStop(Trimmed(OtherStop(ServerTrimmed(text))))
<1>. DEFINE rest == ServerTrimmed(text)
<1>1. Trimmed(rest) = Trimmed(text)
  BY ServerTrimmedFirst
<1>. HIDE DEF rest
<1>2. CASE rest = <<>>
  <2>1. "Other Stop" \notin WhiteSpace
    BY DEF WhiteSpace, Blank, HardBlank
  <2>2. Trimmed(<<"Other Stop">>) = <<"Other Stop">>
    BY <2>1, NothingToTrim
  <2>3. Trimmed(text) = <<>>
    BY <1>1, <1>2, NothingToTrim
  <2>4. OtherStop(rest) = <<"Other Stop">> /\ OtherStop(Trimmed(text)) = <<"Other Stop">>
    BY <1>2, <2>3 DEF OtherStop
  <2>5. OtherStop(<<"Other Stop">>) = <<"Other Stop">>
    BY DEF OtherStop
  <2>. QED
    BY <2>2, <2>4, <2>5 DEF rest
<1>3. CASE rest # <<>>
  <2>1. OtherStop(rest) = rest
    BY <1>3 DEF OtherStop
  <2>. QED
    BY <1>1, <2>1 DEF rest
<1>. QED
  BY <1>2, <1>3
----------------------------------------------------------------------------
(* AUC *)

LEMMA LongerByOne ==
  ASSUME NEW S, NEW s \in Seq(S), NEW a \in Nat, NEW i \in 1..Len(s), 1 <= a, a <= i
  PROVE  SubSeq(s, a, i) = SubSeq(s, a, i - 1) \o <<s[i]>>
OBVIOUS

(* What is left of the first i pieces when the one at k goes.              *)
Kept(text, k, i) ==
  IF i < k THEN SubSeq(text, 1, i)
  ELSE SubSeq(text, 1, k - 1) \o SubSeq(text, k + 1, i)

LEMMA KeptGrows ==
  ASSUME NEW S, NEW text \in Seq(S), NEW k \in 1..(Len(text) + 1), NEW i \in 1..Len(text)
  PROVE  /\ Kept(text, k, 0) = <<>>
         /\ Kept(text, k, i) =
              Kept(text, k, i - 1) \o (IF i = k THEN <<>> ELSE <<text[i]>>)
<1>0. Len(text) \in Nat /\ k \in Nat /\ i \in Nat /\ i - 1 \in Nat /\ text[i] \in S
  OBVIOUS
<1>1. Kept(text, k, 0) = <<>>
  BY <1>0 DEF Kept
<1>2. CASE i < k
  <2>1. SubSeq(text, 1, i) = SubSeq(text, 1, i - 1) \o <<text[i]>>
    BY <1>0, LongerByOne
  <2>. QED
    BY <1>0, <1>1, <1>2, <2>1 DEF Kept
<1>3. CASE i = k
  <2>1. SubSeq(text, k + 1, i) = <<>> /\ SubSeq(text, 1, i - 1) \in Seq(S)
    BY <1>0, <1>3
  <2>2. SubSeq(text, 1, i - 1) \o <<>> = SubSeq(text, 1, i - 1)
    BY <2>1
  <2>3. /\ ~(i < k) /\ i - 1 < k /\ k - 1 = i - 1
    BY <1>0, <1>3
  <2>4. /\ Kept(text, k, i) = SubSeq(text, 1, i - 1) \o <<>>
        /\ Kept(text, k, i - 1) = SubSeq(text, 1, i - 1)
    BY <2>1, <2>3, Zenon DEF Kept
  <2>. QED
    BY <1>1, <1>3, <2>2, <2>4, Zenon
<1>4. CASE i > k
  <2>. DEFINE head == SubSeq(text, 1, k - 1)
              rest == SubSeq(text, k + 1, i - 1)
  <2>1. head \in Seq(S) /\ rest \in Seq(S) /\ <<text[i]>> \in Seq(S)
    BY <1>0, <1>4
  <2>2. SubSeq(text, k + 1, i) = rest \o <<text[i]>>
    <3>1. 1 <= k + 1 /\ k + 1 <= i /\ k + 1 \in Nat
      BY <1>0, <1>4
    <3>. QED
      BY <3>1, LongerByOne
  <2>3. Kept(text, k, i) = head \o SubSeq(text, k + 1, i) /\ Kept(text, k, i - 1) = head \o rest
    BY <1>0, <1>4 DEF Kept
  <2>. HIDE DEF head, rest
  <2>4. head \o (rest \o <<text[i]>>) = (head \o rest) \o <<text[i]>>
    BY <2>1
  <2>. QED
    <3>1. i # k
      BY <1>0, <1>4
    <3>. QED
      BY <1>1, <2>2, <2>3, <2>4, <3>1, Zenon
<1>. QED
  BY <1>0, <1>2, <1>3, <1>4, <1>1

(* With at most one occurrence, at k, removing each removes that one.      *)
LEMMA EachIsOne ==
  ASSUME NEW S, NEW text \in Seq(S), NEW e, NEW k \in 1..(Len(text) + 1),
         \A i \in 1..Len(text) : text[i] = e <=> i = k
  PROVE  RemoveEach(text, e) = Kept(text, k, Len(text))
<1>. DEFINE seqs == [i \in DOMAIN text |-> IF text[i] = e THEN <<>> ELSE <<text[i]>>]
<1>0. Len(text) \in Nat /\ DOMAIN text = 1..Len(text) /\ \A i \in 1..Len(text) : text[i] \in S
  OBVIOUS
<1>1. /\ Len(text) \in Nat /\ seqs \in Seq(Seq(S)) /\ Len(seqs) = Len(text)
      /\ \A i \in 1..Len(text) : seqs[i] = IF i = k THEN <<>> ELSE <<text[i]>>
  <2>1. \A i \in 1..Len(text) : seqs[i] = IF i = k THEN <<>> ELSE <<text[i]>>
    BY <1>0
  <2>2. \A i \in 1..Len(text) : seqs[i] \in Seq(S)
    BY <1>0
  <2>3. seqs \in [1..Len(text) -> Seq(S)]
    BY <1>0, <2>2
  <2>. HIDE DEF seqs
  <2>4. seqs \in Seq(Seq(S)) /\ Len(seqs) = Len(text)
    BY <1>0, <2>3
  <2>. QED
    BY <1>0, <2>1, <2>4
<1>2. RemoveEach(text, e) = FlattenSeq(seqs)
  BY DEF RemoveEach
<1>. HIDE DEF seqs
<1>3. CASE Len(text) = 0
  <2>1. seqs = <<>> /\ FlattenSeq(seqs) = seqs
    BY <1>1, <1>3 DEF FlattenSeq
  <2>2. Kept(text, k, Len(text)) = <<>>
    BY <1>3 DEF Kept
  <2>. QED
    BY <1>2, <2>1, <2>2
<1>4. CASE Len(text) # 0
  <2>1. PICK flat : Joined(seqs, flat) /\ FlattenSeq(seqs) = flat[Len(seqs)]
    BY <1>1, <1>4, FlattenIsJoined
  <2>2. \A i \in 1..Len(text) :
          flat[i] = IF i = 1 THEN seqs[i] ELSE flat[i - 1] \o seqs[i]
    BY <1>1, <2>1 DEF Joined
  <2>. DEFINE Wrong == {i \in 1..Len(text) : flat[i] # Kept(text, k, i)}
  <2>3. ASSUME Wrong # {} PROVE FALSE
    <3>1. PICK n \in Wrong : \A m \in Wrong : n <= m
      <4>1. Wrong \in SUBSET Nat
        OBVIOUS
      <4>. HIDE DEF Wrong
      <4>. QED
        BY <2>3, <4>1, LeastNumber
    <3>2. n \in 1..Len(text) /\ flat[n] # Kept(text, k, n)
      OBVIOUS
    <3>3. /\ Kept(text, k, 0) = <<>>
          /\ Kept(text, k, n) = Kept(text, k, n - 1) \o (IF n = k THEN <<>> ELSE <<text[n]>>)
      BY <3>2, KeptGrows
    <3>4. CASE n = 1
      <4>1. Kept(text, k, 1) = <<>> \o seqs[1]
        <5>1. 1 - 1 = 0
          OBVIOUS
        <5>2. seqs[n] = IF n = k THEN <<>> ELSE <<text[n]>>
          BY <1>1, <3>2
        <5>. QED
          BY <3>3, <3>4, <5>1, <5>2
      <4>2. seqs[1] \in Seq(S)
        BY <1>1, <3>2, <3>4
      <4>3. <<>> \o seqs[1] = seqs[1]
        BY <4>2
      <4>. QED
        BY <2>2, <3>2, <3>4, <4>1, <4>3
    <3>5. CASE n # 1
      <4>1. n - 1 \in 1..Len(text) /\ n - 1 < n
        <5>1. Len(text) \in Nat /\ n \in Nat /\ 1 <= n /\ n <= Len(text)
          BY <1>0, <3>2
        <5>. QED
          BY <3>5, <5>1
      <4>2. flat[n - 1] = Kept(text, k, n - 1)
        <5>1. n - 1 \notin Wrong
          <6>. HIDE DEF Wrong
          <6>. QED
            BY <3>1, <3>2, <4>1
        <5>. QED
          BY <4>1, <5>1
      <4>3. Kept(text, k, n) = Kept(text, k, n - 1) \o seqs[n]
        <5>1. seqs[n] = IF n = k THEN <<>> ELSE <<text[n]>>
          BY <1>1, <3>2
        <5>. QED
          BY <3>3, <5>1
      <4>. QED
        BY <2>2, <3>2, <3>5, <4>2, <4>3
    <3>. QED
      BY <3>4, <3>5
  <2>4. Len(text) \notin Wrong
    BY <2>3
  <2>. QED
    BY <1>1, <1>2, <1>4, <2>1, <2>4
<1>. QED
  BY <1>3, <1>4

(* So the client's removal is the server's.                                *)
LEMMA RemovalsAgree ==
  ASSUME NEW S, NEW text \in Seq(S), NEW e,
         Cardinality({i \in DOMAIN text : text[i] = e}) <= 1
  PROVE  RemoveEach(text, e) =
           IF Find(text, e) # 0 THEN RemoveAt(text, Find(text, e)) ELSE text
<1>. DEFINE I == {i \in DOMAIN text : text[i] = e}
<1>0. Len(text) \in Nat /\ DOMAIN text = 1..Len(text)
  OBVIOUS
<1>1. \A i, j \in I : i = j
  <2>1. IsFiniteSet(I)
    <3>1. IsFiniteSet(1..Len(text)) /\ I \subseteq 1..Len(text)
      BY <1>0, FS_Interval
    <3>. QED
      BY <3>1, FS_Subset
  <2>. HIDE DEF I
  <2>2. Cardinality(I) \in Nat /\ Cardinality(I) <= 1
    BY <2>1, FS_CardinalityType DEF I
  <2>3. Cardinality(I) = 0 \/ Cardinality(I) = 1
    BY <2>2
  <2>. QED
    BY <2>1, <2>3, FS_EmptySet, FS_Singleton
<1>2. CASE Find(text, e) # 0
  <2>. DEFINE k == Find(text, e)
  <2>1. k \in 1..Len(text) /\ text[k] = e
    BY <1>2, FindFirst
  <2>2. \A i \in 1..Len(text) : text[i] = e <=> i = k
    BY <1>0, <1>1, <2>1
  <2>. HIDE DEF k
  <2>3. RemoveEach(text, e) = Kept(text, k, Len(text))
    <3>1. k \in 1..(Len(text) + 1)
      BY <1>0, <2>1
    <3>. QED
      BY <2>2, <3>1, EachIsOne
  <2>4. Kept(text, k, Len(text)) = RemoveAt(text, k)
    <3>1. ~(Len(text) < k)
      BY <1>0, <2>1
    <3>. QED
      BY <3>1, Zenon DEF Kept, RemoveAt
  <2>. QED
    BY <1>2, <2>3, <2>4 DEF k
<1>3. CASE Find(text, e) = 0
  <2>1. \A i \in 1..Len(text) : text[i] = e <=> i = Len(text) + 1
    BY <1>0, <1>3, FindFirst
  <2>2. RemoveEach(text, e) = Kept(text, Len(text) + 1, Len(text))
    <3>1. Len(text) + 1 \in 1..(Len(text) + 1)
      BY <1>0
    <3>. QED
      BY <2>1, <3>1, EachIsOne
  <2>3. Kept(text, Len(text) + 1, Len(text)) = SubSeq(text, 1, Len(text))
    <3>1. Len(text) < Len(text) + 1
      BY <1>0
    <3>. QED
      BY <3>1, Zenon DEF Kept
  <2>4. SubSeq(text, 1, Len(text)) = text
    BY <1>0
  <2>. QED
    BY <1>3, <2>2, <2>3, <2>4
<1>. QED
  BY <1>2, <1>3
----------------------------------------------------------------------------
(* DataStore::generateDefaultSchedule and onReqRouteSelectionChanged agree *)
(* on where the bus of a route goes, up to white space around it, so that  *)
(* a rider asks for the destination of a trip: for names with an arrow,    *)
(* and for names with at most one AUC.                                     *)
THEOREM DestinationsAlwaysAgree == NamesSpec => []DestinationsAgree
<1>. DEFINE Named == name \in Seq(Pieces)
<1>1. NamesInit => Named
  BY DEF NamesInit
<1>2. Named /\ [NamesNext]_name => Named'
  BY DEF NamesNext
<1>3. ASSUME Named PROVE DestinationsAgree
  <2>1. ASSUME Find(name, Arrow) # 0
        PROVE  ClientDestination(name) = Trimmed(ServerDestination(name))
    <3>. DEFINE rest == After(name, Find(name, Arrow))
    <3>1. rest \in Seq(Pieces)
      BY <1>3, <2>1, FindFirst DEF After
    <3>2. ClientDestination(name) = Trimmed(rest) /\ ServerDestination(name) = ServerTrimmed(rest)
      BY <2>1 DEF ClientDestination, ServerDestination
    <3>. HIDE DEF rest
    <3>. QED
      BY <3>1, <3>2, ServerTrimmedFirst
  <2>2. ASSUME Find(name, Arrow) = 0, Universities <= 1
        PROVE  ClientDestination(name) = OtherStop(Trimmed(ServerDestination(name)))
    <3>. DEFINE rest == IF Find(name, University) # 0
                          THEN RemoveAt(name, Find(name, University)) ELSE name
    <3>1. RemoveEach(name, University) = rest
      BY <1>3, <2>2, RemovalsAgree DEF Universities
    <3>2. rest \in Seq(Pieces)
      BY <1>3, FindFirst DEF RemoveAt
    <3>3. /\ ClientDestination(name) = OtherStop(Trimmed(rest))
          /\ ServerDestination(name) = OtherStop(ServerTrimmed(rest))
      BY <2>2, <3>1 DEF ClientDestination, ServerDestination
    <3>. HIDE DEF rest
    <3>. QED
      BY <3>2, <3>3, OtherStopTrimmed
  <2>. QED
    BY <2>1, <2>2 DEF DestinationsAgree
<1>4. Named => DestinationsAgree
  BY <1>3
<1>. HIDE DEF Named
<1>. QED
  BY <1>1, <1>2, <1>4, PTL DEF NamesSpec
=============================================================================
