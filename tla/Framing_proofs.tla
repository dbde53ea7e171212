--------------------------- MODULE Framing_proofs ---------------------------
(***************************************************************************)
(* Proofs about module Framing: a header says the length it was made of,   *)
(* the answers arrive intact, and the bytes of a connection implement the  *)
(* steps of MessageChannel.                                                *)
(***************************************************************************)
EXTENDS Framing, SequenceLemmas

Byte == 0 .. Base - 1
----------------------------------------------------------------------------
(* Headers *)

(* A quotient is known from what is left over.                             *)
LEMMA QuotientUnique ==
  ASSUME NEW a \in Nat, NEW d \in Nat \ {0}, NEW q \in Nat, NEW r \in Nat,
         a = d * q + r, r < d
  PROVE  a \div d = q /\ a % d = r
<1>. DEFINE x == a \div d
            y == a % d
<1>1. x \in Nat /\ y \in Nat /\ y < d /\ a = d * x + y
  BY SMT
<1>. HIDE DEF x, y
<1>2. CASE x < q
  <2>1. PICK k \in Nat : q = x + 1 + k
    <3>1. q - x - 1 \in Nat /\ q = x + 1 + (q - x - 1)
      BY <1>1, <1>2
    <3>. QED
      BY <3>1
  <2>2. d * q = d * x + d + d * k /\ d * k \in Nat /\ d * x \in Nat
    BY <1>1, <2>1, SMT
  <2>. HIDE DEF x, y
  <2>. QED
    BY <1>1, <2>2
<1>3. CASE q < x
  <2>1. PICK k \in Nat : x = q + 1 + k
    <3>1. x - q - 1 \in Nat /\ x = q + 1 + (x - q - 1)
      BY <1>1, <1>3
    <3>. QED
      BY <3>1
  <2>2. d * x = d * q + d + d * k /\ d * k \in Nat /\ d * q \in Nat
    BY <1>1, <2>1, SMT
  <2>. QED
    BY <1>1, <2>2
<1>4. CASE x = q
  <2>1. y = r
    BY <1>1, <1>4
  <2>. QED
    BY <1>4, <2>1 DEF x, y
<1>. QED
  BY <1>1, <1>2, <1>3, <1>4

LEMMA QuotientBelow ==
  ASSUME NEW a \in Nat, NEW d \in Nat \ {0}
  PROVE  a \div d \in Nat /\ d * (a \div d) <= a
<1>. DEFINE x == a \div d
            y == a % d
<1>1. x \in Nat /\ y \in Nat /\ a = d * x + y
  BY SMT
<1>. HIDE DEF x, y
<1>2. d * x \in Nat
  BY <1>1, SMT
<1>3. d * x <= a
  BY <1>1, <1>2
<1>. QED
  BY <1>1, <1>3 DEF x

(* Dividing by a product is dividing twice.                                *)
LEMMA QuotientOfQuotient ==
  ASSUME NEW a \in Nat, NEW p \in Nat \ {0}, NEW b \in Nat \ {0}
  PROVE  a \div (b * p) = (a \div p) \div b
<1>. DEFINE q == a \div p
            r == a % p
            s == q \div b
            t == q % b
<1>1. q \in Nat /\ r \in Nat /\ r < p /\ a = p * q + r
  BY SMT
<1>. HIDE DEF q, r
<1>2. s \in Nat /\ t \in Nat /\ t < b /\ q = b * s + t
  BY <1>1, SMT
<1>. HIDE DEF s, t
<1>3. b * p \in Nat \ {0}
  BY SMT
<1>4. a = (b * p) * s + (p * t + r)
  BY <1>1, <1>2, SMT
<1>5. p * t + r \in Nat /\ p * t + r < b * p
  <2>1. PICK k \in Nat : b = t + 1 + k
    <3>1. b - t - 1 \in Nat /\ b = t + 1 + (b - t - 1)
      BY <1>2
    <3>. QED
      BY <3>1
  <2>2. b * p = p * t + p + p * k /\ p * k \in Nat /\ p * t \in Nat
    BY <1>2, <2>1, SMT
  <2>. QED
    BY <1>1, <2>2
<1>6. a \div (b * p) = s
  BY <1>2, <1>3, <1>4, <1>5, QuotientUnique
<1>. QED
  BY <1>6 DEF q, s

(* What a byte counts is a positive number.                                *)
LEMMA PlacePositive ==
  \A i \in 1..HeaderSize : Place[i] \in Nat \ {0}
<1>. DEFINE T == {n \in 0..HeaderSize - 1 : Place[HeaderSize - n] = 0}
<1>0. HeaderSize \in Nat \ {0} /\ Base \in Nat \ {0} /\ Place[HeaderSize] = 1
  BY FramingAssumption
<1>1. ASSUME T # {} PROVE FALSE
  <2>1. T \in SUBSET Nat
    BY <1>0
  <2>2. PICK n \in T : \A m \in T : n <= m
    BY <1>1, <2>1, LeastNumber
  <2>3. n # 0
    BY <1>0, <2>2
  <2>4. n - 1 \in 0..HeaderSize - 1 /\ n - 1 \notin T /\ n \in 1..HeaderSize - 1
    BY <1>0, <2>2, <2>3
  <2>5. Place[HeaderSize - (n - 1)] # 0
    BY <2>4
  <2>6. HeaderSize - n \in 1..HeaderSize - 1 /\ (HeaderSize - n) + 1 = HeaderSize - (n - 1)
        /\ HeaderSize - (n - 1) \in 1..HeaderSize
    BY <1>0, <2>4
  <2>7. Place[HeaderSize - n] = Base * Place[HeaderSize - (n - 1)]
    BY <2>6, FramingAssumption
  <2>8. Place[HeaderSize - (n - 1)] \in Nat \ {0}
    BY <2>5, <2>6, FramingAssumption
  <2>9. Base * Place[HeaderSize - (n - 1)] # 0
    BY <1>0, <2>8, SMT
  <2>. QED
    BY <2>2, <2>7, <2>9
<1>2. ASSUME NEW i \in 1..HeaderSize PROVE Place[i] \in Nat \ {0}
  <2>1. HeaderSize - i \in 0..HeaderSize - 1 /\ HeaderSize - (HeaderSize - i) = i
    BY <1>0
  <2>2. Place[i] # 0
    BY <1>1, <2>1
  <2>. QED
    BY <2>2, FramingAssumption
<1>. QED
  BY <1>2

(* LengthIn is a recursive function.  Its values on a header made of len   *)
(* are the quotients of len, and so there is one, and only one.            *)
Counting(header, count) ==
  count = [i \in 0..HeaderSize |-> IF i = 0 THEN 0 ELSE count[i - 1] * Base + header[i]]

Quotients(len) == [i \in 0..HeaderSize |-> IF i = 0 THEN 0 ELSE len \div Place[i]]

LEMMA QuotientStep ==
  ASSUME NEW len \in Nat, len < Base * Place[1], NEW i \in 1..HeaderSize
  PROVE  Quotients(len)[i] = Quotients(len)[i - 1] * Base + Header(len)[i]
<1>0. Base \in Nat \ {0} /\ HeaderSize \in Nat \ {0}
  BY FramingAssumption
<1>1. Place[i] \in Nat \ {0} /\ Place[1] \in Nat \ {0}
  BY <1>0, PlacePositive
<1>. DEFINE q == len \div Place[i]
<1>2. q \in Nat
  BY <1>1, SMT
<1>3. Quotients(len)[i] = q /\ Header(len)[i] = q % Base
  BY <1>0 DEF Quotients, Header
<1>. HIDE DEF q
<1>4. q = (q \div Base) * Base + (q % Base)
  <2>1. q = Base * (q \div Base) + (q % Base) /\ q \div Base \in Nat
    BY <1>0, <1>2, SMT
  <2>2. Base * (q \div Base) = (q \div Base) * Base
    BY <1>0, <2>1, SMT
  <2>. QED
    BY <2>1, <2>2
<1>5. Quotients(len)[i - 1] = q \div Base
  <2>1. CASE i = 1
    <3>1. Quotients(len)[i - 1] = 0
      BY <1>0, <2>1 DEF Quotients
    <3>2. len \div (Base * Place[i]) = 0
      <4>1. Base * Place[i] \in Nat \ {0} /\ len = (Base * Place[i]) * 0 + len
        BY <1>0, <1>1, SMT
      <4>. QED
        BY <2>1, <4>1, QuotientUnique
    <3>3. len \div (Base * Place[i]) = q \div Base
      BY <1>0, <1>1, QuotientOfQuotient DEF q
    <3>. QED
      BY <3>1, <3>2, <3>3
  <2>2. CASE i # 1
    <3>1. i - 1 \in 1..HeaderSize - 1 /\ i - 1 + 1 = i /\ i - 1 # 0 /\ i - 1 \in 0..HeaderSize
      BY <1>0, <2>2
    <3>2. Place[i - 1] = Base * Place[i]
      BY <3>1, FramingAssumption
    <3>3. Quotients(len)[i - 1] = len \div (Base * Place[i])
      BY <3>1, <3>2 DEF Quotients
    <3>. QED
      BY <1>0, <1>1, <3>3, QuotientOfQuotient DEF q
  <2>. QED
    BY <2>1, <2>2
<1>. QED
  BY <1>3, <1>4, <1>5

(* What is read from a header is the length it was made of: the shifts of  *)
(* sendRequest and sendMessage on one side, those of readHeader and        *)
(* tryProcessBuffer on the other.                                          *)
THEOREM HeaderRoundTrip ==
  ASSUME NEW len \in Nat, len < Base * Place[1]
  PROVE  LengthIn(Header(len)) = len
<1>. DEFINE h == Header(len)
            quot == Quotients(len)
            count == CHOOSE c : Counting(h, c)
<1>0. HeaderSize \in Nat \ {0} /\ Place[HeaderSize] = 1
  BY FramingAssumption
<1>1. quot[0] = 0 /\ \A i \in 1..HeaderSize : quot[i] = quot[i - 1] * Base + h[i]
  BY <1>0, QuotientStep DEF Quotients
<1>2. Counting(h, quot)
  <2>1. quot = [i \in 0..HeaderSize |-> quot[i]]
    BY DEF Quotients
  <2>. HIDE DEF quot, h
  <2>2. \A i \in 0..HeaderSize : quot[i] = IF i = 0 THEN 0 ELSE quot[i - 1] * Base + h[i]
    BY <1>0, <1>1
  <2>. QED
    BY <2>1, <2>2 DEF Counting
<1>. HIDE DEF quot, h
<1>3. Counting(h, count)
  BY <1>2
<1>4. LengthIn(h) = count[HeaderSize]
  BY DEF LengthIn, Counting
<1>. HIDE DEF count
<1>5. count[0] = 0 /\ \A i \in 1..HeaderSize : count[i] = count[i - 1] * Base + h[i]
  BY <1>0, <1>3 DEF Counting
<1>6. \A i \in 0..HeaderSize : count[i] = quot[i]
  <2>. DEFINE T == {i \in 0..HeaderSize : count[i] # quot[i]}
  <2>1. ASSUME T # {} PROVE FALSE
    <3>0. T \in SUBSET Nat
      BY <1>0
    <3>1. PICK n \in T : \A m \in T : n <= m
      BY <2>1, <3>0, LeastNumber
    <3>2. n # 0
      BY <1>1, <1>5, <3>1
    <3>3. n \in 1..HeaderSize /\ n - 1 \in 0..HeaderSize /\ n - 1 \notin T
      BY <1>0, <3>1, <3>2
    <3>4. count[n - 1] = quot[n - 1]
      BY <3>3
    <3>. QED
      BY <1>1, <1>5, <3>1, <3>3, <3>4
  <2>. QED
    BY <2>1
<1>7. quot[HeaderSize] = len
  <2>1. len \div 1 = len
    OBVIOUS
  <2>. QED
    BY <1>0, <2>1 DEF quot, Quotients
<1>. QED
  BY <1>0, <1>4, <1>6, <1>7 DEF h
----------------------------------------------------------------------------
(* Pieces of sequences *)

LEMMA PiecesType ==
  ASSUME NEW S, NEW s \in Seq(S), NEW n \in Nat, n <= Len(s)
  PROVE  /\ Prefix(s, n) \in Seq(S) /\ Len(Prefix(s, n)) = n
         /\ Rest(s, n) \in Seq(S) /\ Len(Rest(s, n)) = Len(s) - n
         /\ \A i \in 1..n : Prefix(s, n)[i] = s[i]
         /\ \A i \in 1..(Len(s) - n) : Rest(s, n)[i] = s[n + i]
<1>1. Prefix(s, n) \in Seq(S) /\ Len(Prefix(s, n)) = n /\ \A i \in 1..n : Prefix(s, n)[i] = s[i]
  BY DEF Prefix
<1>2. Rest(s, n) \in Seq(S) /\ Len(Rest(s, n)) = Len(s) - n
  BY DEF Rest
<1>3. \A i \in 1..(Len(s) - n) : Rest(s, n)[i] = s[n + i]
  BY DEF Rest
<1>. QED
  BY <1>1, <1>2, <1>3

LEMMA SameSequence ==
  ASSUME NEW S, NEW s \in Seq(S), NEW t \in Seq(S), Len(s) = Len(t),
         \A i \in 1..Len(s) : s[i] = t[i]
  PROVE  s = t
OBVIOUS

LEMMA JoinType ==
  ASSUME NEW S, NEW s \in Seq(S), NEW t \in Seq(S)
  PROVE  /\ s \o t \in Seq(S) /\ Len(s \o t) = Len(s) + Len(t)
         /\ \A i \in 1..Len(s) : (s \o t)[i] = s[i]
         /\ \A i \in 1..Len(t) : (s \o t)[Len(s) + i] = t[i]
OBVIOUS

LEMMA JoinAssociative ==
  ASSUME NEW S, NEW s \in Seq(S), NEW t \in Seq(S), NEW u \in Seq(S)
  PROVE  (s \o t) \o u = s \o (t \o u)
<1>. DEFINE st == s \o t
            tu == t \o u
            left == st \o u
            right == s \o tu
<1>0. Len(s) \in Nat /\ Len(t) \in Nat /\ Len(u) \in Nat
  OBVIOUS
<1>1. st \in Seq(S) /\ Len(st) = Len(s) + Len(t)
      /\ (\A i \in 1..Len(s) : st[i] = s[i]) /\ (\A i \in 1..Len(t) : st[Len(s) + i] = t[i])
  BY JoinType
<1>2. tu \in Seq(S) /\ Len(tu) = Len(t) + Len(u)
      /\ (\A i \in 1..Len(t) : tu[i] = t[i]) /\ (\A i \in 1..Len(u) : tu[Len(t) + i] = u[i])
  BY JoinType
<1>. HIDE DEF st, tu
<1>3. left \in Seq(S) /\ Len(left) = Len(st) + Len(u)
      /\ (\A i \in 1..Len(st) : left[i] = st[i]) /\ (\A i \in 1..Len(u) : left[Len(st) + i] = u[i])
  <2>1. st \in Seq(S)
    BY <1>1
  <2>. QED
    BY <2>1, JoinType
<1>4. right \in Seq(S) /\ Len(right) = Len(s) + Len(tu)
      /\ (\A i \in 1..Len(s) : right[i] = s[i]) /\ (\A i \in 1..Len(tu) : right[Len(s) + i] = tu[i])
  <2>1. tu \in Seq(S)
    BY <1>2
  <2>. QED
    BY <2>1, JoinType
<1>. HIDE DEF left, right
<1>5. ASSUME NEW i \in 1..Len(left) PROVE left[i] = right[i]
  <2>1. CASE i \in 1..Len(s)
    <3>1. i \in 1..Len(st)
      BY <1>0, <1>1, <2>1
    <3>. QED
      BY <1>1, <1>3, <1>4, <2>1, <3>1
  <2>2. CASE i \in Len(s) + 1 .. Len(s) + Len(t)
    <3>1. PICK j \in 1..Len(t) : i = Len(s) + j
      <4>1. i - Len(s) \in 1..Len(t) /\ i = Len(s) + (i - Len(s))
        BY <1>0, <2>2
      <4>. QED
        BY <4>1
    <3>2. i \in 1..Len(st) /\ j \in 1..Len(tu)
      BY <1>0, <1>1, <1>2, <3>1
    <3>. QED
      BY <1>1, <1>2, <1>3, <1>4, <3>1, <3>2
  <2>3. CASE i \in Len(s) + Len(t) + 1 .. Len(left)
    <3>1. PICK j \in 1..Len(u) : i = Len(st) + j
      <4>1. i - Len(st) \in 1..Len(u) /\ i = Len(st) + (i - Len(st))
        BY <1>0, <1>1, <1>3, <2>3
      <4>. QED
        BY <4>1
    <3>2. PICK l \in 1..Len(tu) : l = Len(t) + j
      BY <1>0, <1>2
    <3>3. i = Len(s) + l
      BY <1>0, <1>1, <3>1, <3>2
    <3>4. left[i] = u[j] /\ tu[l] = u[j] /\ right[i] = tu[l]
      BY <1>2, <1>3, <1>4, <3>1, <3>2, <3>3
    <3>. QED
      BY <3>4
  <2>. QED
    BY <1>0, <1>1, <1>3, <2>1, <2>2, <2>3
<1>6. Len(left) = Len(right)
  BY <1>0, <1>1, <1>2, <1>3, <1>4
<1>7. left = right
  BY <1>3, <1>4, <1>5, <1>6, SameSequence
<1>. QED
  BY <1>7 DEF left, right, st, tu

LEMMA PiecesJoin ==
  ASSUME NEW S, NEW s \in Seq(S), NEW n \in Nat, n <= Len(s)
  PROVE  Prefix(s, n) \o Rest(s, n) = s
<1>. DEFINE p == Prefix(s, n)
            r == Rest(s, n)
<1>1. /\ p \in Seq(S) /\ Len(p) = n /\ r \in Seq(S) /\ Len(r) = Len(s) - n
      /\ \A i \in 1..n : p[i] = s[i]
      /\ \A i \in 1..(Len(s) - n) : r[i] = s[n + i]
  BY PiecesType
<1>. HIDE DEF p, r
<1>2. /\ p \o r \in Seq(S) /\ Len(p \o r) = Len(s)
      /\ \A i \in 1..n : (p \o r)[i] = p[i]
      /\ \A i \in 1..(Len(s) - n) : (p \o r)[n + i] = r[i]
  BY <1>1, JoinType
<1>. DEFINE pr == p \o r
<1>. HIDE DEF pr
<1>3. ASSUME NEW i \in 1..Len(s) PROVE pr[i] = s[i]
  <2>1. CASE i \in 1..n
    BY <1>1, <1>2, <2>1 DEF pr
  <2>2. CASE i \notin 1..n
    <3>1. PICK j \in 1..(Len(s) - n) : n + j = i
      <4>1. i - n \in 1..(Len(s) - n) /\ n + (i - n) = i
        BY <2>2
      <4>. QED
        BY <4>1
    <3>2. pr[n + j] = r[j] /\ r[j] = s[n + j]
      BY <1>1, <1>2 DEF pr
    <3>. QED
      BY <3>1, <3>2
  <2>. QED
    BY <2>1, <2>2
<1>4. pr = s
  <2>1. pr \in Seq(S) /\ Len(pr) = Len(s)
    BY <1>2 DEF pr
  <2>. QED
    BY <1>3, <2>1, SameSequence
<1>. QED
  BY <1>4 DEF p, r, pr

(* Pieces of what is behind the first n.                                   *)
LEMMA PiecesBehind ==
  ASSUME NEW S, NEW s \in Seq(S), NEW n \in Nat, NEW m \in Nat, n + m <= Len(s)
  PROVE  /\ Rest(Rest(s, n), m) = Rest(s, n + m)
         /\ Prefix(Rest(s, n), m) = Rest(Prefix(s, n + m), n)
<1>. DEFINE r == Rest(s, n)
            p == Prefix(s, n + m)
            len == Len(s)
<1>0. len \in Nat /\ n <= len
  OBVIOUS
<1>1. r \in Seq(S) /\ Len(r) = len - n /\ \A i \in 1..(len - n) : r[i] = s[n + i]
  BY <1>0, PiecesType
<1>2. p \in Seq(S) /\ Len(p) = n + m /\ \A i \in 1..(n + m) : p[i] = s[i]
  <2>. DEFINE nm == n + m
  <2>1. nm \in Nat /\ nm <= Len(s)
    OBVIOUS
  <2>. HIDE DEF nm
  <2>2. Prefix(s, nm) \in Seq(S) /\ Len(Prefix(s, nm)) = nm
        /\ \A i \in 1..nm : Prefix(s, nm)[i] = s[i]
    BY <2>1, PiecesType
  <2>. QED
    BY <2>2 DEF nm
<1>3. Rest(s, n + m) \in Seq(S) /\ Len(Rest(s, n + m)) = len - (n + m)
      /\ \A i \in 1..(len - (n + m)) : Rest(s, n + m)[i] = s[n + m + i]
  <2>. DEFINE nm == n + m
  <2>1. nm \in Nat /\ nm <= Len(s)
    OBVIOUS
  <2>. HIDE DEF nm
  <2>2. Rest(s, nm) \in Seq(S) /\ Len(Rest(s, nm)) = len - nm
        /\ \A i \in 1..(len - nm) : Rest(s, nm)[i] = s[nm + i]
    BY <2>1, PiecesType
  <2>. QED
    BY <2>2 DEF nm
<1>. HIDE DEF r, p, len
<1>4. m <= Len(r) /\ n <= Len(p)
  BY <1>0, <1>1, <1>2 DEF len
<1>5. /\ Prefix(r, m) \in Seq(S) /\ Len(Prefix(r, m)) = m
      /\ Rest(r, m) \in Seq(S) /\ Len(Rest(r, m)) = Len(r) - m
      /\ \A i \in 1..m : Prefix(r, m)[i] = r[i]
      /\ \A i \in 1..(Len(r) - m) : Rest(r, m)[i] = r[m + i]
  <2>1. r \in Seq(S)
    BY <1>1
  <2>. QED
    BY <1>4, <2>1, PiecesType
<1>6. /\ Rest(p, n) \in Seq(S) /\ Len(Rest(p, n)) = Len(p) - n
      /\ \A i \in 1..(Len(p) - n) : Rest(p, n)[i] = p[n + i]
  <2>1. p \in Seq(S)
    BY <1>2
  <2>. QED
    BY <1>4, <2>1, PiecesType
<1>7. ASSUME NEW i \in 1..(len - (n + m)) PROVE Rest(r, m)[i] = Rest(s, n + m)[i]
  <2>1. i \in 1..(Len(r) - m) /\ m + i \in 1..(len - n) /\ n + (m + i) = n + m + i
    BY <1>0, <1>1
  <2>2. Rest(r, m)[i] = r[m + i] /\ r[m + i] = s[n + (m + i)]
    BY <1>1, <1>5, <2>1
  <2>. QED
    BY <1>3, <2>1, <2>2
<1>8. Len(Rest(r, m)) = len - (n + m)
  BY <1>0, <1>1, <1>5
<1>9. Rest(r, m) = Rest(s, n + m)
  BY <1>3, <1>5, <1>7, <1>8, SameSequence
<1>10. ASSUME NEW i \in 1..m PROVE Prefix(r, m)[i] = Rest(p, n)[i]
  <2>1. i \in 1..(Len(p) - n) /\ n + i \in 1..(n + m) /\ i \in 1..(len - n)
    BY <1>0, <1>1, <1>2, <1>4
  <2>2. Prefix(r, m)[i] = s[n + i] /\ Rest(p, n)[i] = s[n + i]
    BY <1>1, <1>2, <1>5, <1>6, <2>1
  <2>. QED
    BY <2>2
<1>11. Len(Rest(p, n)) = m
  BY <1>2, <1>6
<1>12. Prefix(r, m) = Rest(p, n)
  BY <1>5, <1>6, <1>10, <1>11, SameSequence
<1>. QED
  BY <1>9, <1>12 DEF r, p

LEMMA RestOne ==
  ASSUME NEW S, NEW s \in Seq(S), s # <<>>
  PROVE  Rest(s, 1) = Tail(s)
<1>1. Tail(s) \in Seq(S) /\ Len(Tail(s)) = Len(s) - 1 /\ Len(s) \in Nat \ {0}
      /\ \A i \in 1..(Len(s) - 1) : Tail(s)[i] = s[i + 1]
  OBVIOUS
<1>2. Rest(s, 1) \in Seq(S) /\ Len(Rest(s, 1)) = Len(s) - 1
      /\ \A i \in 1..(Len(s) - 1) : Rest(s, 1)[i] = s[1 + i]
  <2>1. 1 \in Nat /\ 1 <= Len(s)
    BY <1>1
  <2>. QED
    BY <2>1, PiecesType
<1>3. \A i \in 1..(Len(s) - 1) : Rest(s, 1)[i] = Tail(s)[i]
  BY <1>1, <1>2
<1>. QED
  BY <1>1, <1>2, <1>3, SameSequence

LEMMA PiecesOfJoin ==
  ASSUME NEW S, NEW s \in Seq(S), NEW t \in Seq(S), NEW n \in Nat, n <= Len(s)
  PROVE  Prefix(s \o t, n) = Prefix(s, n) /\ Rest(s \o t, n) = Rest(s, n) \o t
<1>. DEFINE st == s \o t
<1>1. st \in Seq(S) /\ Len(st) = Len(s) + Len(t)
      /\ (\A i \in 1..Len(s) : st[i] = s[i]) /\ (\A i \in 1..Len(t) : st[Len(s) + i] = t[i])
  BY JoinType
<1>. HIDE DEF st
<1>2. /\ Prefix(st, n) \in Seq(S) /\ Len(Prefix(st, n)) = n
      /\ Rest(st, n) \in Seq(S) /\ Len(Rest(st, n)) = Len(st) - n
      /\ \A i \in 1..n : Prefix(st, n)[i] = st[i]
      /\ \A i \in 1..(Len(st) - n) : Rest(st, n)[i] = st[n + i]
  <2>1. n <= Len(st)
    BY <1>1
  <2>. QED
    BY <1>1, <2>1, PiecesType
<1>3. /\ Prefix(s, n) \in Seq(S) /\ Len(Prefix(s, n)) = n
      /\ Rest(s, n) \in Seq(S) /\ Len(Rest(s, n)) = Len(s) - n
      /\ \A i \in 1..n : Prefix(s, n)[i] = s[i]
      /\ \A i \in 1..(Len(s) - n) : Rest(s, n)[i] = s[n + i]
  BY PiecesType
<1>4. Prefix(st, n) = Prefix(s, n)
  <2>0. \A i \in 1..n : i \in 1..Len(s)
    OBVIOUS
  <2>1. \A i \in 1..n : Prefix(st, n)[i] = Prefix(s, n)[i]
    BY <1>1, <1>2, <1>3, <2>0
  <2>. QED
    BY <1>2, <1>3, <2>1, SameSequence
<1>. DEFINE r == Rest(s, n)
            rt == r \o t
<1>. HIDE DEF r
<1>5. /\ rt \in Seq(S) /\ Len(rt) = Len(r) + Len(t)
      /\ \A i \in 1..Len(r) : rt[i] = r[i]
      /\ \A i \in 1..Len(t) : rt[Len(r) + i] = t[i]
  <2>1. r \in Seq(S)
    BY <1>3 DEF r
  <2>. QED
    BY <2>1, JoinType
<1>6. Len(r) = Len(s) - n /\ \A i \in 1..(Len(s) - n) : r[i] = s[n + i]
  BY <1>3 DEF r
<1>. HIDE DEF rt
<1>7. Len(s) \in Nat /\ Len(t) \in Nat
  OBVIOUS
<1>8. ASSUME NEW i \in 1..(Len(st) - n) PROVE Rest(st, n)[i] = rt[i]
  <2>1. CASE i <= Len(s) - n
    <3>1. i \in 1..(Len(s) - n) /\ n + i \in 1..Len(s)
      BY <1>1, <1>7, <2>1
    <3>2. Rest(st, n)[i] = s[n + i]
      BY <1>1, <1>2, <3>1
    <3>. QED
      BY <1>5, <1>6, <3>1, <3>2
  <2>2. CASE i > Len(s) - n
    <3>. DEFINE j == i - (Len(s) - n)
    <3>1. j \in 1..Len(t) /\ n + i = Len(s) + j /\ i = Len(r) + j
      BY <1>1, <1>6, <1>7, <2>2
    <3>. HIDE DEF j
    <3>2. Rest(st, n)[i] = st[n + i]
      BY <1>2
    <3>. QED
      BY <1>1, <1>5, <3>1, <3>2
  <2>. QED
    BY <1>1, <1>7, <2>1, <2>2
<1>9. Len(rt) = Len(st) - n
  BY <1>1, <1>5, <1>6, <1>7
<1>10. Rest(st, n) = rt
  BY <1>2, <1>5, <1>8, <1>9, SameSequence
<1>. QED
  BY <1>4, <1>10 DEF st, r, rt

(* What is put behind a sequence is behind its rest too.                   *)
LEMMA RestOfAppend ==
  ASSUME NEW S, NEW s \in Seq(S), NEW e \in S, NEW n \in Nat, n <= Len(s)
  PROVE  Rest(Append(s, e), n) = Append(Rest(s, n), e)
<1>1. <<e>> \in Seq(S) /\ Rest(s, n) \in Seq(S)
  BY PiecesType
<1>2. Rest(s \o <<e>>, n) = Rest(s, n) \o <<e>>
  BY <1>1, PiecesOfJoin
<1>3. \A t \in Seq(S) : Append(t, e) = t \o <<e>>
  <2>1. ASSUME NEW t \in Seq(S) PROVE Append(t, e) = t \o <<e>>
    <3>1. Append(t, e) \in Seq(S) /\ Len(Append(t, e)) = Len(t) + 1
          /\ t \o <<e>> \in Seq(S) /\ Len(t \o <<e>>) = Len(t) + 1
      BY <1>1
    <3>2. \A i \in 1..Len(t) + 1 : Append(t, e)[i] = (t \o <<e>>)[i]
      BY <1>1
    <3>. QED
      BY <3>1, <3>2, SameSequence
  <2>. QED
    BY <2>1
<1>. QED
  BY <1>1, <1>2, <1>3
----------------------------------------------------------------------------
(* Frames *)

LEMMA BodyType ==
  ASSUME NEW body \in Bodies
  PROVE  body \in Seq(Byte) /\ Len(body) \in Nat \ {0} /\ Len(body) < Base * Place[1]
<1>1. HeaderSize \in Nat \ {0} /\ Base \in Nat \ {0}
  BY FramingAssumption
<1>2. Place[1] \in Nat
  BY <1>1, PlacePositive
<1>3. Base * Place[1] \in Nat
  BY <1>1, <1>2, SMT
<1>4. body \in Seq(Byte) /\ Len(body) \in 1 .. Base * Place[1] - 1
  BY FramingAssumption DEF Byte
<1>. QED
  BY <1>3, <1>4

LEMMA HeaderType ==
  ASSUME NEW len \in Nat
  PROVE  Header(len) \in Seq(Byte) /\ Len(Header(len)) = HeaderSize
<1>1. HeaderSize \in Nat /\ Base \in Nat \ {0}
  BY FramingAssumption
<1>2. ASSUME NEW i \in 1..HeaderSize PROVE (len \div Place[i]) % Base \in Byte
  <2>1. Place[i] \in Nat \ {0}
    BY PlacePositive
  <2>2. len \div Place[i] \in Nat
    BY <2>1, SMT
  <2>. DEFINE q == len \div Place[i]
  <2>. HIDE DEF q
  <2>3. q \in Nat => q % Base \in 0 .. Base - 1
    BY <1>1, SMT
  <2>. QED
    BY <2>2, <2>3 DEF q, Byte
<1>3. Header(len) \in [1..HeaderSize -> Byte]
  BY <1>2 DEF Header
<1>. QED
  BY <1>1, <1>3

LEMMA FrameType ==
  ASSUME NEW body \in Bodies
  PROVE  /\ Frame(body) \in Seq(Byte) /\ Len(Frame(body)) = HeaderSize + Len(body)
         /\ Prefix(Frame(body), HeaderSize) = Header(Len(body))
         /\ Rest(Frame(body), HeaderSize) = body
         /\ LengthIn(Header(Len(body))) = Len(body)
<1>. DEFINE h == Header(Len(body))
<1>1. body \in Seq(Byte) /\ Len(body) \in Nat \ {0} /\ HeaderSize \in Nat
  BY BodyType, FramingAssumption
<1>2. h \in Seq(Byte) /\ Len(h) = HeaderSize /\ LengthIn(h) = Len(body)
  BY <1>1, BodyType, HeaderType, HeaderRoundTrip
<1>. HIDE DEF h
<1>3. h \o body \in Seq(Byte) /\ Len(h \o body) = HeaderSize + Len(body)
  BY <1>1, <1>2
<1>4. Prefix(h \o body, HeaderSize) = Prefix(h, HeaderSize)
      /\ Rest(h \o body, HeaderSize) = Rest(h, HeaderSize) \o body
  BY <1>1, <1>2, PiecesOfJoin
<1>5. Prefix(h, HeaderSize) = h /\ Rest(h, HeaderSize) = <<>>
  BY <1>1, <1>2 DEF Prefix, Rest
<1>6. <<>> \o body = body
  BY <1>1
<1>. QED
  BY <1>2, <1>3, <1>4, <1>5, <1>6 DEF h, Frame

(* The bytes are the frames of the bodies: end[i] is where the i-th ends.  *)
Layout(bytes, bodies, end) ==
  /\ end \in [0..Len(bodies) -> Nat]
  /\ end[0] = 0 /\ end[Len(bodies)] = Len(bytes)
  /\ \A i \in 1..Len(bodies) :
       end[i] = end[i - 1] + Len(Frame(bodies[i])) /\ At(bytes, end[i - 1], Frame(bodies[i]))

Framed(bytes, bodies) == \E end : Layout(bytes, bodies, end)

(* A message behind another one ends behind it.                            *)
LEMMA LayoutGrows ==
  ASSUME NEW bytes, NEW bodies \in Seq(Bodies), NEW end, Layout(bytes, bodies, end),
         NEW i \in 0..Len(bodies), NEW j \in 0..Len(bodies), i <= j
  PROVE  end[i] <= end[j]
<1>. DEFINE k == Len(bodies)
            T == {m \in i..k : ~(end[i] <= end[m])}
<1>1. end \in [0..k -> Nat] /\ \A m \in 1..k : end[m] = end[m - 1] + Len(Frame(bodies[m]))
  BY DEF Layout
<1>2. k \in Nat /\ \A m \in 1..k : bodies[m] \in Bodies
  OBVIOUS
<1>. HIDE DEF k
<1>3. i \in 0..k /\ j \in i..k
  BY DEF k
<1>4. ASSUME T # {} PROVE FALSE
  <2>1. T \in SUBSET Nat
    BY <1>3
  <2>2. PICK m \in T : \A l \in T : m <= l
    BY <1>4, <2>1, LeastNumber
  <2>3. end[i] \in Nat /\ m # i
    BY <1>1, <1>3, <2>2
  <2>4. m - 1 \in i..k /\ m - 1 \notin T /\ m \in 1..k /\ m - 1 \in 0..k /\ m \in 0..k
    BY <1>2, <1>3, <2>2, <2>3
  <2>5. end[i] <= end[m - 1]
    BY <2>4
  <2>6. end[m] = end[m - 1] + Len(Frame(bodies[m])) /\ Len(Frame(bodies[m])) \in Nat
    BY <1>1, <1>2, <2>4, FrameType
  <2>7. end[m] \in Nat /\ end[m - 1] \in Nat
    BY <1>1, <2>4
  <2>. QED
    BY <2>2, <2>3, <2>5, <2>6, <2>7
<1>. QED
  BY <1>3, <1>4

LEMMA NothingFramed ==
  /\ Framed(<<>>, <<>>)
  /\ \A bytes \in Seq(Byte) : Framed(bytes, <<>>) => bytes = <<>>
<1>1. Framed(<<>>, <<>>)
  <2>. DEFINE end == [i \in 0..0 |-> 0]
  <2>1. Layout(<<>>, <<>>, end)
    BY DEF Layout
  <2>. QED
    BY <2>1 DEF Framed
<1>2. ASSUME NEW bytes \in Seq(Byte), Framed(bytes, <<>>) PROVE bytes = <<>>
  <2>1. PICK end : Layout(bytes, <<>>, end)
    BY <1>2 DEF Framed
  <2>2. Len(bytes) = 0
    BY <2>1 DEF Layout
  <2>. QED
    BY <2>2
<1>. QED
  BY <1>1, <1>2

(* One more message is put behind the others.                              *)
LEMMA FramedAppend ==
  ASSUME NEW bytes \in Seq(Byte), NEW bodies \in Seq(Bodies), NEW body \in Bodies,
         Framed(bytes, bodies)
  PROVE  Framed(bytes \o Frame(body), Append(bodies, body))
<1>. DEFINE n == Len(bodies)
            f == Frame(body)
            more == bytes \o f
            all == Append(bodies, body)
<1>1. PICK end : Layout(bytes, bodies, end)
  BY DEF Framed
<1>. DEFINE last == [i \in 0..n + 1 |-> IF i = n + 1 THEN Len(more) ELSE end[i]]
<1>2. n \in Nat /\ f \in Seq(Byte) /\ Len(bytes) \in Nat /\ Len(f) \in Nat
  BY FrameType
<1>3. all \in Seq(Bodies) /\ Len(all) = n + 1 /\ all[n + 1] = body
      /\ \A i \in 1..n : all[i] = bodies[i]
  OBVIOUS
<1>. HIDE DEF f
<1>4. /\ more \in Seq(Byte) /\ Len(more) = Len(bytes) + Len(f) /\ At(more, Len(bytes), f)
      /\ \A u \in Seq(Byte), o \in Nat : At(bytes, o, u) => At(more, o, u)
  BY <1>2, AtJoin
<1>. HIDE DEF more, all, n
<1>5. /\ end \in [0..n -> Nat] /\ end[0] = 0 /\ end[n] = Len(bytes)
      /\ \A i \in 1..n : end[i] = end[i - 1] + Len(Frame(bodies[i]))
                           /\ At(bytes, end[i - 1], Frame(bodies[i]))
  BY <1>1 DEF Layout, n
<1>6. last \in [0..n + 1 -> Nat] /\ last[n + 1] = Len(more)
      /\ \A i \in 0..n : last[i] = end[i]
  BY <1>2, <1>4, <1>5
<1>. HIDE DEF last
<1>7. \A i \in 1..n : bodies[i] \in Bodies /\ i - 1 \in 0..n /\ i \in 0..n
  BY <1>2 DEF n
<1>8. ASSUME NEW i \in 1..n + 1
      PROVE  last[i] = last[i - 1] + Len(Frame(all[i]))
               /\ At(more, last[i - 1], Frame(all[i]))
  <2>1. CASE i \in 1..n
    <3>1. last[i] = end[i] /\ last[i - 1] = end[i - 1] /\ all[i] = bodies[i]
          /\ end[i - 1] \in Nat /\ Frame(bodies[i]) \in Seq(Byte)
      BY <1>3, <1>5, <1>6, <1>7, <2>1, FrameType
    <3>. QED
      BY <1>4, <1>5, <2>1, <3>1
  <2>2. CASE i = n + 1
    <3>1. last[i] = Len(bytes) + Len(f) /\ last[i - 1] = Len(bytes) /\ all[i] = body
      BY <1>2, <1>3, <1>4, <1>5, <1>6, <2>2
    <3>. QED
      BY <1>4, <3>1 DEF f
  <2>. QED
    BY <1>2, <2>1, <2>2
<1>9. last[0] = 0
  BY <1>2, <1>5, <1>6
<1>10. Layout(more, all, last)
  BY <1>3, <1>6, <1>8, <1>9 DEF Layout
<1>. QED
  BY <1>10 DEF Framed, more, all, f

(* The first message can be taken off.                                     *)
LEMMA FramedHead ==
  ASSUME NEW bytes \in Seq(Byte), NEW bodies \in Seq(Bodies), bodies # <<>>,
         Framed(bytes, bodies)
  PROVE  LET n == Len(Frame(Head(bodies)))
         IN  /\ n <= Len(bytes) /\ Prefix(bytes, n) = Frame(Head(bodies))
             /\ Framed(Rest(bytes, n), Tail(bodies))
<1>. DEFINE k == Len(bodies)
            f == Frame(Head(bodies))
            n == Len(f)
            rest == Rest(bytes, n)
            others == Tail(bodies)
<1>1. PICK end : Layout(bytes, bodies, end)
  BY DEF Framed
<1>2. k \in Nat \ {0} /\ Head(bodies) = bodies[1] /\ Head(bodies) \in Bodies
  OBVIOUS
<1>3. f \in Seq(Byte) /\ n \in Nat
  BY <1>2, FrameType
<1>4. /\ end \in [0..k -> Nat] /\ end[0] = 0 /\ end[k] = Len(bytes)
      /\ \A i \in 1..k : end[i] = end[i - 1] + Len(Frame(bodies[i]))
                           /\ At(bytes, end[i - 1], Frame(bodies[i]))
  BY <1>1 DEF Layout
<1>5. others \in Seq(Bodies) /\ Len(others) = k - 1
      /\ \A i \in 1..k - 1 : others[i] = bodies[i + 1] /\ others[i] \in Bodies
  OBVIOUS
<1>. HIDE DEF k, f
<1>6. end[1] = n /\ At(bytes, 0, f)
  <2>1. 1 \in 1..k /\ 1 - 1 = 0
    BY <1>2
  <2>2. end[1] = end[0] + Len(Frame(bodies[1])) /\ At(bytes, end[0], Frame(bodies[1]))
    BY <1>4, <2>1
  <2>. QED
    BY <1>2, <1>3, <1>4, <2>2 DEF f
<1>7. n <= Len(bytes) /\ \A i \in 1..n : bytes[i] = f[i]
  <2>1. 0 + n <= Len(bytes) /\ \A i \in 1..n : bytes[0 + i] = f[i]
    BY <1>6 DEF At
  <2>. QED
    BY <1>3, <2>1
<1>. HIDE DEF n
<1>8. /\ Prefix(bytes, n) \in Seq(Byte) /\ Len(Prefix(bytes, n)) = n
      /\ rest \in Seq(Byte) /\ Len(rest) = Len(bytes) - n
      /\ \A i \in 1..n : Prefix(bytes, n)[i] = bytes[i]
      /\ \A i \in 1..(Len(bytes) - n) : rest[i] = bytes[n + i]
  BY <1>3, <1>7, PiecesType
<1>9. Prefix(bytes, n) = f
  <2>1. Len(f) = n
    BY DEF n
  <2>. QED
    BY <1>3, <1>7, <1>8, <2>1, SameSequence
<1>. HIDE DEF rest, others
<1>. DEFINE shifted == [i \in 0..k - 1 |-> end[i + 1] - n]
<1>10. \A i \in 0..k - 1 : i + 1 \in 1..k /\ i + 1 \in 0..k
  BY <1>2
<1>11. \A i \in 0..k - 1 : shifted[i] = end[i + 1] - n /\ end[i + 1] - n \in Nat
  <2>1. ASSUME NEW i \in 0..k - 1 PROVE end[i + 1] - n \in Nat
    <3>0. 1 \in 0..k /\ 1 <= i + 1
      BY <1>2
    <3>1. end[1] <= end[i + 1] /\ end[i + 1] \in Nat
      BY <1>1, <1>4, <1>10, <3>0, LayoutGrows DEF k
    <3>. QED
      BY <1>3, <1>6, <3>1
  <2>. QED
    BY <2>1
<1>12. shifted \in [0..k - 1 -> Nat]
  BY <1>11
<1>. HIDE DEF shifted
<1>13. shifted[0] = 0 /\ shifted[k - 1] = Len(rest)
  <2>1. 0 \in 0..k - 1 /\ k - 1 \in 0..k - 1 /\ 0 + 1 = 1 /\ k - 1 + 1 = k
    BY <1>2
  <2>2. shifted[0] = end[1] - n /\ shifted[k - 1] = end[k] - n
    BY <1>11, <2>1
  <2>. QED
    BY <1>3, <1>4, <1>6, <1>8, <2>2
<1>14. ASSUME NEW i \in 1..k - 1
       PROVE  shifted[i] = shifted[i - 1] + Len(Frame(others[i]))
                /\ At(rest, shifted[i - 1], Frame(others[i]))
  <2>1. i \in 0..k - 1 /\ i - 1 \in 0..k - 1 /\ i - 1 + 1 = i /\ i + 1 \in 1..k /\ i \in 1..k
        /\ i + 1 - 1 = i /\ 1 \in 0..k - 1
    BY <1>2
  <2>. DEFINE g == Frame(others[i])
  <2>2. g \in Seq(Byte) /\ Len(g) \in Nat /\ g = Frame(bodies[i + 1])
    <3>1. others[i] = bodies[i + 1] /\ others[i] \in Bodies
      BY <1>5
    <3>2. g \in Seq(Byte) /\ g = Frame(bodies[i + 1])
      BY <3>1, FrameType, SMTT(60)
    <3>. QED
      BY <3>2
  <2>. HIDE DEF g
  <2>3. end[i + 1] = end[i] + Len(g) /\ At(bytes, end[i], g)
    BY <1>4, <2>1, <2>2
  <2>4. shifted[i] = end[i + 1] - n /\ shifted[i - 1] = end[i] - n
        /\ shifted[i] \in Nat /\ shifted[i - 1] \in Nat /\ end[i] \in Nat
    BY <1>4, <1>11, <2>1, SMTT(60)
  <2>5. At(rest, shifted[i - 1], g)
    <3>1. end[i] + Len(g) <= Len(bytes) /\ \A m \in 1..Len(g) : bytes[end[i] + m] = g[m]
      BY <2>3 DEF At
    <3>2. shifted[i - 1] + Len(g) <= Len(rest)
      BY <1>3, <1>8, <2>2, <2>4, <3>1, SMTT(60)
    <3>3. ASSUME NEW m \in 1..Len(g) PROVE rest[shifted[i - 1] + m] = g[m]
      <4>1. PICK j \in Nat : j = shifted[i - 1] + m
        <5>1. shifted[i - 1] + m \in Nat
          BY <2>2, <2>4
        <5>. QED
          BY <5>1
      <4>2. j \in 1..(Len(bytes) - n) /\ n + j = end[i] + m
        <5>1. j >= 1 /\ j <= Len(rest) /\ n + j = end[i] + m
          <6>1. PICK o \in Nat, e \in Nat : o = shifted[i - 1] /\ e = end[i]
            BY <2>4
          <6>2. m \in Nat /\ 1 <= m /\ m <= Len(g)
            BY <2>2
          <6>3. o = e - n /\ j = o + m /\ o + Len(g) <= Len(rest)
            BY <2>4, <3>2, <4>1, <6>1
          <6>4. Len(rest) \in Nat
            BY <1>8
          <6>5. n + j = e + m
            BY <1>3, <6>2, <6>3
          <6>6. j >= 1 /\ j <= Len(rest)
            BY <2>2, <6>2, <6>3, <6>4
          <6>. QED
            BY <6>1, <6>5, <6>6
        <5>2. Len(rest) = Len(bytes) - n /\ Len(bytes) \in Nat
          BY <1>8
        <5>. QED
          BY <1>3, <2>4, <5>1, <5>2
      <4>3. rest[j] = bytes[n + j]
        BY <1>8, <4>2
      <4>. QED
        BY <3>1, <4>1, <4>2, <4>3
    <3>. QED
      BY <3>2, <3>3 DEF At
  <2>7. shifted[i] = shifted[i - 1] + Len(g)
    BY <1>3, <2>2, <2>3, <2>4
  <2>. QED
    BY <2>5, <2>7 DEF g
<1>15. Layout(rest, others, shifted)
  BY <1>5, <1>12, <1>13, <1>14 DEF Layout
<1>16. Framed(rest, others)
  BY <1>15 DEF Framed
<1>. QED
  BY <1>7, <1>9, <1>16 DEF rest, others, n, f

(* Messages need no more room than their number times the longest frame.   *)
LEMMA FramedLength ==
  ASSUME NEW bytes \in Seq(Byte), NEW bodies \in Seq(Bodies), NEW most \in Nat,
         \A body \in Bodies : Len(Frame(body)) <= most,
         Framed(bytes, bodies)
  PROVE  Len(bytes) <= Len(bodies) * most
<1>. DEFINE k == Len(bodies)
<1>1. PICK end : Layout(bytes, bodies, end)
  BY DEF Framed
<1>2. /\ end \in [0..k -> Nat] /\ end[0] = 0 /\ end[k] = Len(bytes)
      /\ \A i \in 1..k : end[i] = end[i - 1] + Len(Frame(bodies[i]))
  BY <1>1 DEF Layout
<1>3. k \in Nat /\ \A i \in 1..k : bodies[i] \in Bodies
  OBVIOUS
<1>. HIDE DEF k
<1>. DEFINE T == {i \in 0..k : ~(end[i] <= i * most)}
<1>4. ASSUME T # {} PROVE FALSE
  <2>0. T \in SUBSET Nat
    OBVIOUS
  <2>1. PICK i \in T : \A m \in T : i <= m
    BY <1>4, <2>0, LeastNumber
  <2>2. i # 0
    <3>1. 0 * most = 0
      OBVIOUS
    <3>. QED
      BY <1>2, <2>1, <3>1
  <2>3. i \in 1..k /\ i - 1 \in 0..k /\ i - 1 \notin T /\ i \in 0..k
    BY <1>3, <2>1, <2>2
  <2>4. end[i - 1] <= (i - 1) * most
    BY <2>3
  <2>5. end[i] = end[i - 1] + Len(Frame(bodies[i])) /\ Len(Frame(bodies[i])) <= most
        /\ Len(Frame(bodies[i])) \in Nat
    BY <1>2, <1>3, <2>3, FrameType, SMTT(60)
  <2>6. i * most = (i - 1) * most + most /\ (i - 1) * most \in Nat
    BY <2>3, SMT
  <2>7. end[i] \in Nat /\ end[i - 1] \in Nat
    BY <1>2, <2>3
  <2>. QED
    BY <2>1, <2>4, <2>5, <2>6, <2>7
<1>. QED
  BY <1>2, <1>3, <1>4 DEF k
----------------------------------------------------------------------------
(* The inductive invariant *)

FramingType ==
  /\ link \in Links /\ connections \in Nat /\ connected \in BOOLEAN
  /\ asked \in Seq(Bodies) /\ answered \in Seq(Bodies) /\ received \in Seq(Bodies)
  /\ up \in Seq(Byte) /\ down \in Seq(Byte) /\ buffer \in Seq(Byte)
  /\ writes \in Seq(Seq(Byte)) /\ resting \in Seq(Seq(Byte)) /\ expects \in Nat
  /\ pieces \in {"whole", "split"}
  /\ alive \in BOOLEAN /\ reading \in BOOLEAN

(* Nothing is answered before it was asked nor received before it was      *)
(* answered, and the client waits for no more than its window.             *)
Ordered ==
  /\ reading => alive
  /\ alive \/ (writes = <<>> /\ resting = <<>>)
  /\ Len(received) <= Len(answered) /\ Len(answered) <= Len(asked)
  /\ Len(asked) - Len(received) <= link.window
  /\ \A i \in 1..Len(received) : received[i] = answered[i]

(* Before the server: what it has read of a request and what is on its way *)
(* are the frames of the requests to answer.                               *)
Begun == IF expects = 0 THEN <<>> ELSE Header(expects)
Unanswered == Rest(asked, Len(answered))
UpLaid ==
  reading => /\ Framed(Begun \o up, Unanswered)
             /\ expects # 0 => Unanswered # <<>> /\ expects = Len(Head(Unanswered))

(* Behind it: what the client has read, what is on its way and a rest are  *)
(* the frames of the next k answers.  While the Session lives the rest is  *)
(* nothing and the other answers are queued whole, or it is what is left   *)
(* of the one answer under way, the last of all.                           *)
Due(k) == SubSeq(answered, Len(received) + 1, Len(received) + k)
Whole(rest, k) ==
  /\ pieces = "whole" /\ resting = <<>>
  /\ rest = <<>> /\ Len(received) + k + Len(writes) = Len(answered)
  /\ \A i \in 1..Len(writes) : writes[i] = Frame(answered[Len(received) + k + i])
Split(rest, k) ==
  /\ pieces = "split" /\ k # 0 /\ Len(received) + k = Len(answered)
  /\ rest # <<>>
  /\ \/ writes = <<rest>> /\ resting = <<>>
     \/ writes = <<>> /\ resting = <<rest>>
DownLaid ==
  \E rest \in Seq(Byte), k \in 0..Len(answered) - Len(received) :
    /\ Framed((buffer \o down) \o rest, Due(k))
    /\ alive => Whole(rest, k) \/ Split(rest, k)

LaidOut == FramingType /\ Ordered /\ UpLaid /\ DownLaid

(* All this until pieces of answers mix, which those of an Uncut           *)
(* connection never do: one that asks for several answers at a time gets   *)
(* each in one piece.                                                      *)
Unmixed == pieces # "mixed" /\ (pieces = "split" => link.window = 1)
FramingInv ==
  /\ link \in Links /\ connections \in Nat
  /\ Uncut(link) => Unmixed
  /\ pieces # "mixed" => LaidOut

LEMMA LinkType ==
  ASSUME NEW l \in Links
  PROVE  l.transfer \in Nat \ {0} /\ l.room \in Nat \ {0} /\ l.window \in Nat \ {0}
BY FramingAssumption

LEMMA InitLaidOut == FramingInit => LaidOut
<1>. SUFFICES ASSUME FramingInit PROVE LaidOut
  OBVIOUS
<1>1. FramingType
  BY DEF FramingInit, FramingType
<1>2. Ordered
  BY LinkType DEF FramingInit, Ordered
<1>3. UpLaid
  <2>1. Begun = <<>> /\ up = <<>> /\ <<>> \o <<>> = <<>> /\ expects = 0
    BY DEF FramingInit, Begun
  <2>2. Unanswered = <<>>
    BY DEF FramingInit, Unanswered, Rest
  <2>. QED
    BY <2>1, <2>2, NothingFramed DEF UpLaid
<1>4. DownLaid
  <2>1. Due(0) = <<>> /\ <<>> \in Seq(Byte) /\ 0 \in 0..Len(answered) - Len(received)
    BY DEF FramingInit, Due
  <2>2. (buffer \o down) \o <<>> = <<>>
    BY DEF FramingInit
  <2>3. Whole(<<>>, 0)
    BY DEF FramingInit, Whole
  <2>. QED
    BY <2>1, <2>2, <2>3, NothingFramed DEF DownLaid
<1>. QED
  BY <1>1, <1>2, <1>3, <1>4 DEF LaidOut

(* What does not concern one direction leaves it as it was.                *)
LEMMA UpUntouched ==
  ASSUME UpLaid, reading' => reading, UNCHANGED <<asked, answered, up, expects>>
  PROVE  UpLaid'
BY DEF UpLaid, Begun, Unanswered, Rest

LEMMA DownUntouched ==
  ASSUME DownLaid, alive' => alive,
         UNCHANGED <<answered, received, writes, resting, pieces, link>>,
         (buffer \o down)' = buffer \o down
  PROVE  DownLaid'
<1>1. PICK rest \in Seq(Byte), k \in 0..Len(answered) - Len(received) :
        /\ Framed((buffer \o down) \o rest, Due(k))
        /\ alive => Whole(rest, k) \/ Split(rest, k)
  BY DEF DownLaid
<1>2. Framed((buffer' \o down') \o rest, Due(k))
  BY <1>1
<1>3. Due(k)' = Due(k) /\ Whole(rest, k)' = Whole(rest, k) /\ Split(rest, k)' = Split(rest, k)
  BY DEF Due, Whole, Split
<1>4. Framed((buffer' \o down') \o rest, Due(k)')
  BY <1>2, <1>3
<1>5. Framed((buffer \o down) \o rest, Due(k))'
  BY <1>4 DEF Framed, Layout
<1>. QED
  BY <1>1, <1>3, <1>5 DEF DownLaid
----------------------------------------------------------------------------
(* The steps of the client and of the network *)

LEMMA BegunType == FramingType => Begun \in Seq(Byte)
BY HeaderType DEF FramingType, Begun

LEMMA SendRequestFraming ==
  ASSUME LaidOut, NEW body \in Bodies, SendRequest(body)
  PROVE  LaidOut'
<1>1. FramingType /\ Ordered /\ UpLaid /\ DownLaid
  BY DEF LaidOut
<1>2. /\ asked' = Append(asked, body) /\ Len(asked) - Len(received) < link.window
      /\ up' = (IF alive THEN up \o Frame(body) ELSE up)
      /\ UNCHANGED <<link, connections, connected, buffer, received, down>>
      /\ UNCHANGED <<reading, expects, answered, writes, resting, pieces, alive>>
  BY DEF SendRequest, serverSide
<1>3. Frame(body) \in Seq(Byte)
  BY FrameType
<1>4. FramingType'
  <2>1. asked' \in Seq(Bodies) /\ up' \in Seq(Byte)
    BY <1>1, <1>2, <1>3 DEF FramingType
  <2>. QED
    BY <1>1, <1>2, <2>1 DEF FramingType
<1>5. Ordered'
  <2>1. Len(asked') = Len(asked) + 1 /\ Len(asked) \in Nat /\ Len(received) \in Nat
        /\ Len(answered) \in Nat /\ link.window \in Nat
    BY <1>1, <1>2, LinkType DEF FramingType
  <2>. QED
    BY <1>1, <1>2, <2>1 DEF Ordered
<1>6. UpLaid'
  <2>1. CASE reading
    <3>1. up' = up \o Frame(body)
      BY <1>1, <1>2, <2>1 DEF Ordered
    <3>. DEFINE n == Len(answered)
                un == Unanswered
    <3>2. n \in Nat /\ n <= Len(asked) /\ asked \in Seq(Bodies) /\ n' = n
      BY <1>1, <1>2 DEF FramingType, Ordered
    <3>. HIDE DEF n
    <3>3. un \in Seq(Bodies) /\ Rest(Append(asked, body), n) = Append(un, body)
      BY <3>2, PiecesType, RestOfAppend DEF Unanswered, n
    <3>4. Unanswered' = Append(un, body)
      BY <1>2, <3>2, <3>3 DEF Unanswered, n
    <3>. HIDE DEF un
    <3>5. Begun' = Begun /\ Begun \in Seq(Byte) /\ up \in Seq(Byte)
      BY <1>1, <1>2, BegunType DEF Begun, FramingType
    <3>6. Framed((Begun \o up) \o Frame(body), Append(un, body))
      <4>1. Begun \o up \in Seq(Byte)
        BY <3>5
      <4>2. Framed(Begun \o up, un)
        BY <1>1, <2>1 DEF UpLaid, un
      <4>. QED
        BY <3>3, <4>1, <4>2, FramedAppend
    <3>7. (Begun \o up) \o Frame(body) = Begun \o (up \o Frame(body))
      BY <1>3, <3>5
    <3>8. Begun' \o up' = Begun \o (up \o Frame(body))
      BY <3>1, <3>5
    <3>9. Framed(Begun' \o up', Unanswered')
      BY <3>4, <3>6, <3>7, <3>8
    <3>10. expects # 0 => un # <<>> /\ expects = Len(Head(un))
      BY <1>1, <2>1 DEF UpLaid, un
    <3>11. expects' # 0 => Unanswered' # <<>> /\ expects' = Len(Head(Unanswered'))
      <4>1. un # <<>> => Append(un, body) # <<>> /\ Head(Append(un, body)) = Head(un)
        BY <3>3
      <4>. QED
        BY <1>2, <3>4, <3>10, <4>1
    <3>. QED
      BY <3>9, <3>11 DEF UpLaid, Framed, Layout
  <2>2. CASE ~reading
    BY <1>2, <2>2 DEF UpLaid
  <2>. QED
    BY <2>1, <2>2
<1>7. DownLaid'
  BY <1>1, <1>2, DownUntouched
<1>. QED
  BY <1>4, <1>5, <1>6, <1>7 DEF LaidOut

LEMMA SameBytes ==
  ASSUME NEW a \in Seq(Byte), NEW b \in Seq(Byte), NEW n \in Nat, n <= Len(b)
  PROVE  /\ (a \o Prefix(b, n)) \o Rest(b, n) = a \o b
         /\ \A c : c \in Seq(Byte) =>
                     (a \o Prefix(b, n)) \o (Rest(b, n) \o c) = (a \o b) \o c
<1>. DEFINE p == Prefix(b, n)
            r == Rest(b, n)
<1>1. p \in Seq(Byte) /\ r \in Seq(Byte) /\ p \o r = b
  BY PiecesType, PiecesJoin
<1>. HIDE DEF p, r
<1>2. (a \o p) \o r = a \o (p \o r)
  <2>1. p \in Seq(Byte) /\ r \in Seq(Byte)
    BY <1>1
  <2>. QED
    BY <2>1, JoinAssociative
<1>3. ASSUME NEW c \in Seq(Byte) PROVE (a \o p) \o (r \o c) = (a \o b) \o c
  <2>1. a \o p \in Seq(Byte) /\ r \in Seq(Byte)
    BY <1>1
  <2>. DEFINE ap == a \o p
  <2>. HIDE DEF ap
  <2>0. ap \in Seq(Byte)
    BY <2>1 DEF ap
  <2>3. (ap \o r) \o c = ap \o (r \o c)
    <3>1. r \in Seq(Byte)
      BY <2>1
    <3>. QED
      BY <2>0, <3>1, JoinAssociative, SMTT(60)
  <2>2. ((a \o p) \o r) \o c = (a \o p) \o (r \o c)
    BY <2>3 DEF ap
  <2>. QED
    BY <1>1, <1>2, <2>2
<1>. QED
  BY <1>1, <1>2, <1>3 DEF p, r

LEMMA OnReadyReadFraming ==
  ASSUME LaidOut, OnReadyRead
  PROVE  LaidOut'
<1>1. FramingType /\ Ordered /\ UpLaid /\ DownLaid
  BY DEF LaidOut
<1>2. PICK n \in 1..Len(down) : buffer' = buffer \o Prefix(down, n) /\ down' = Rest(down, n)
  BY DEF OnReadyRead
<1>3. /\ UNCHANGED <<link, connections, connected, asked, received, up>>
      /\ UNCHANGED <<reading, expects, answered, writes, resting, pieces, alive>>
  BY DEF OnReadyRead, serverSide
<1>4. down \in Seq(Byte) /\ buffer \in Seq(Byte) /\ n \in Nat /\ n <= Len(down)
  BY <1>1 DEF FramingType
<1>5. Prefix(down, n) \in Seq(Byte) /\ Rest(down, n) \in Seq(Byte)
  BY <1>4, PiecesType
<1>6. buffer' \in Seq(Byte) /\ down' \in Seq(Byte)
  BY <1>2, <1>4, <1>5
<1>7. FramingType'
  BY <1>1, <1>3, <1>6 DEF FramingType
<1>8. Ordered'
  BY <1>1, <1>3 DEF Ordered
<1>9. UpLaid'
  BY <1>1, <1>3, UpUntouched
<1>10. buffer' \o down' = buffer \o down
  BY <1>2, <1>4, SameBytes
<1>11. DownLaid'
  BY <1>1, <1>3, <1>10, DownUntouched
<1>. QED
  BY <1>7, <1>8, <1>9, <1>11 DEF LaidOut

(* The Session ends or the connection breaks: the first n bytes on their   *)
(* way arrive.                                                             *)
LEMMA DownBroken ==
  ASSUME LaidOut, NEW n \in 0..Len(down), down' = Prefix(down, n), ~alive',
         UNCHANGED <<answered, received, buffer>>
  PROVE  down' \in Seq(Byte) /\ DownLaid'
<1>1. PICK rest \in Seq(Byte), k \in 0..Len(answered) - Len(received) :
        Framed((buffer \o down) \o rest, Due(k))
  BY DEF LaidOut, DownLaid
<1>2. down \in Seq(Byte) /\ buffer \in Seq(Byte) /\ n \in Nat /\ n <= Len(down)
  BY DEF LaidOut, FramingType
<1>3. Prefix(down, n) \in Seq(Byte) /\ Rest(down, n) \in Seq(Byte)
  BY <1>2, PiecesType
<1>4. PICK lost \in Seq(Byte) : lost = Rest(down, n) \o rest
  <2>1. Rest(down, n) \in Seq(Byte) /\ rest \in Seq(Byte)
    BY <1>3
  <2>2. Rest(down, n) \o rest \in Seq(Byte)
    BY <2>1
  <2>. QED
    BY <2>2
<1>5. (buffer' \o down') \o lost = (buffer \o down) \o rest
  <2>1. (buffer \o Prefix(down, n)) \o (Rest(down, n) \o rest) = (buffer \o down) \o rest
    <3>1. rest \in Seq(Byte)
      OBVIOUS
    <3>2. \A c : c \in Seq(Byte) => (buffer \o Prefix(down, n)) \o (Rest(down, n) \o c)
                                     = (buffer \o down) \o c
      <4>1. down \in Seq(Byte) /\ buffer \in Seq(Byte) /\ n \in Nat /\ n <= Len(down)
        BY <1>2
      <4>. QED
        BY <4>1, SameBytes, ZenonT(60)
    <3>. QED
      BY <3>1, <3>2, Zenon
  <2>. QED
    BY <1>4, <2>1
<1>6. Due(k)' = Due(k)
  BY DEF Due
<1>7. Framed((buffer' \o down') \o lost, Due(k)')
  BY <1>1, <1>5, <1>6
<1>8. Framed((buffer \o down) \o lost, Due(k))'
  BY <1>7 DEF Framed, Layout
<1>9. k \in 0..Len(answered') - Len(received') /\ ~alive'
  BY <1>1
<1>10. DownLaid'
  BY <1>8, <1>9 DEF DownLaid
<1>. QED
  BY <1>3, <1>10

LEMMA ConnectionBreaksFraming ==
  ASSUME LaidOut, ConnectionBreaks
  PROVE  LaidOut'
<1>1. FramingType /\ Ordered
  BY DEF LaidOut
<1>2. PICK n \in 0..Len(down) : down' = Prefix(down, n)
  BY DEF ConnectionBreaks
<1>3. /\ alive' = FALSE /\ reading' = FALSE /\ up' = <<>> /\ writes' = <<>>
      /\ resting' = <<>> /\ pieces' = pieces
      /\ UNCHANGED <<link, connections, connected, asked, buffer, received, expects, answered>>
  BY DEF ConnectionBreaks, clientSide
<1>4. down' \in Seq(Byte) /\ DownLaid'
  BY <1>2, <1>3, DownBroken
<1>5. FramingType'
  <2>1. up' \in Seq(Byte) /\ writes' \in Seq(Seq(Byte)) /\ resting' \in Seq(Seq(Byte))
    BY <1>3
  <2>2. alive' \in BOOLEAN /\ reading' \in BOOLEAN
    BY <1>3, Zenon
  <2>. QED
    BY <1>1, <1>3, <1>4, <2>1, <2>2 DEF FramingType
<1>6. Ordered'
  BY <1>1, <1>3 DEF Ordered
<1>7. UpLaid'
  BY <1>3 DEF UpLaid
<1>. QED
  BY <1>4, <1>5, <1>6, <1>7 DEF LaidOut

LEMMA SessionEndsFraming ==
  ASSUME LaidOut, SessionEnds
  PROVE  LaidOut'
<1>1. FramingType /\ Ordered
  BY DEF LaidOut
<1>2. /\ alive' = FALSE /\ ~reading /\ up' = <<>> /\ writes = <<>>
      /\ UNCHANGED <<link, connections, connected, asked, buffer, received>>
      /\ UNCHANGED <<reading, expects, answered, writes, resting, pieces>>
      /\ resting = <<>>
      /\ down' = down \/ down' = <<>>
  BY DEF SessionEnds, clientSide
<1>3. PICK n \in 0..Len(down) : down' = Prefix(down, n)
  <2>1. down \in Seq(Byte) /\ Len(down) \in 0..Len(down) /\ 0 \in 0..Len(down)
    BY <1>1 DEF FramingType
  <2>2. Prefix(down, Len(down)) = down /\ Prefix(down, 0) = <<>>
    BY <2>1 DEF Prefix
  <2>. QED
    BY <1>2, <2>1, <2>2
<1>4. down' \in Seq(Byte) /\ DownLaid'
  BY <1>2, <1>3, DownBroken
<1>5. FramingType'
  <2>1. up' \in Seq(Byte)
    BY <1>2
  <2>2. alive' \in BOOLEAN
    BY <1>2, Zenon
  <2>. QED
    BY <1>1, <1>2, <1>4, <2>1, <2>2 DEF FramingType
<1>6. Ordered'
  BY <1>1, <1>2 DEF Ordered
<1>7. UpLaid'
  BY <1>2 DEF UpLaid
<1>. QED
  BY <1>4, <1>5, <1>6, <1>7 DEF LaidOut

LEMMA OnDisconnectedFraming ==
  ASSUME FramingInv, OnDisconnected
  PROVE  LaidOut'
<1>1. link \in Links /\ connections \in Nat
  BY DEF FramingInv
<1>2. /\ connections' = connections + 1 /\ connected' = (connections < MaxConnections)
      /\ asked' = <<>> /\ received' = <<>> /\ buffer' = <<>> /\ up' = <<>> /\ down' = <<>>
      /\ answered' = <<>> /\ writes' = <<>> /\ expects' = 0
      /\ resting' = <<>> /\ pieces' = "whole"
      /\ alive' = connected' /\ reading' = connected' /\ link' = link
  BY DEF OnDisconnected
<1>3. FramingType'
  <2>1. connections' \in Nat /\ connected' \in BOOLEAN
    BY <1>1, <1>2, FramingAssumption
  <2>. QED
    BY <1>1, <1>2, <2>1 DEF FramingType
<1>4. Ordered'
  BY <1>1, <1>2, LinkType DEF Ordered
<1>5. UpLaid'
  <2>1. Begun' \o up' = <<>> /\ expects' = 0
    BY <1>2 DEF Begun
  <2>2. Unanswered' = <<>>
    BY <1>2 DEF Unanswered, Rest
  <2>3. Framed(Begun' \o up', Unanswered')
    BY <2>1, <2>2, NothingFramed
  <2>. QED
    BY <2>1, <2>3 DEF UpLaid, Framed, Layout
<1>6. DownLaid'
  <2>1. Due(0)' = <<>> /\ 0 \in 0..Len(answered') - Len(received')
    BY <1>2 DEF Due
  <2>2. (buffer' \o down') \o <<>> = <<>>
    BY <1>2
  <2>3. Whole(<<>>, 0)'
    BY <1>2 DEF Whole
  <2>4. Framed((buffer' \o down') \o <<>>, Due(0)')
    BY <2>1, <2>2, NothingFramed
  <2>5. Framed((buffer \o down) \o <<>>, Due(0))'
    BY <2>4 DEF Framed, Layout
  <2>6. <<>> \in Seq(Byte)
    OBVIOUS
  <2>. QED
    BY <2>1, <2>3, <2>5, <2>6 DEF DownLaid
<1>. QED
  BY <1>3, <1>4, <1>5, <1>6 DEF LaidOut
----------------------------------------------------------------------------
(* The steps of the Session *)

(* Where there are bytes there is a message, and its header says where it  *)
(* ends.                                                                   *)
LEMMA FirstMessage ==
  ASSUME NEW bytes \in Seq(Byte), NEW bodies \in Seq(Bodies), Framed(bytes, bodies),
         bytes # <<>>
  PROVE  /\ bodies # <<>> /\ Head(bodies) \in Bodies
         /\ HeaderSize + Len(Head(bodies)) <= Len(bytes)
         /\ Prefix(bytes, HeaderSize + Len(Head(bodies))) = Frame(Head(bodies))
         /\ Prefix(bytes, HeaderSize) = Header(Len(Head(bodies)))
         /\ LengthIn(Prefix(bytes, HeaderSize)) = Len(Head(bodies))
         /\ Framed(Rest(bytes, HeaderSize + Len(Head(bodies))), Tail(bodies))
<1>1. bodies # <<>>
  BY NothingFramed
<1>2. Head(bodies) \in Bodies
  BY <1>1
<1>. DEFINE m == Head(bodies)
            n == Len(Frame(m))
            f == Frame(m)
            r == Rest(bytes, n)
<1>3. f \in Seq(Byte) /\ n = HeaderSize + Len(m) /\ Prefix(f, HeaderSize) = Header(Len(m))
      /\ LengthIn(Header(Len(m))) = Len(m) /\ Len(m) \in Nat /\ HeaderSize \in Nat
  BY <1>2, FrameType, BodyType, FramingAssumption
<1>4. n <= Len(bytes) /\ Prefix(bytes, n) = f /\ Framed(r, Tail(bodies))
  BY <1>1, FramedHead
<1>5. r \in Seq(Byte) /\ f \o r = bytes
  <2>1. n \in Nat
    BY <1>3
  <2>. HIDE DEF n
  <2>. QED
    BY <1>4, <2>1, PiecesType, PiecesJoin
<1>. HIDE DEF f, r
<1>6. HeaderSize <= Len(f)
  BY <1>3 DEF f
<1>7. Prefix(f \o r, HeaderSize) = Prefix(f, HeaderSize)
  <2>1. f \in Seq(Byte) /\ HeaderSize \in Nat
    BY <1>3
  <2>. QED
    BY <1>5, <1>6, <2>1, PiecesOfJoin
<1>8. Prefix(bytes, HeaderSize) = Header(Len(m))
  BY <1>3, <1>5, <1>7
<1>. QED
  BY <1>1, <1>2, <1>3, <1>4, <1>8 DEF f, r

(* One more answer is queued, whole.                                       *)
LEMMA SendMessageDown ==
  ASSUME LaidOut, reading, Unanswered # <<>>, NEW body \in Bodies, SendMessage(body),
         pieces' # "mixed", UNCHANGED <<link, asked, buffer, received, down, alive>>
  PROVE  /\ answered' \in Seq(Bodies) /\ writes' \in Seq(Seq(Byte))
         /\ resting' \in Seq(Seq(Byte)) /\ pieces' \in {"whole", "split"}
         /\ Len(answered') = Len(answered) + 1
         /\ Ordered' \/ ~(reading' => alive)
         /\ DownLaid'
<1>. DEFINE r == Len(received)
            a == Len(answered)
<1>1. FramingType /\ Ordered /\ DownLaid
  BY DEF LaidOut
<1>2. /\ received \in Seq(Bodies) /\ answered \in Seq(Bodies) /\ asked \in Seq(Bodies)
      /\ writes \in Seq(Seq(Byte)) /\ link.window \in Nat
  BY <1>1, LinkType DEF FramingType
<1>3. r \in Nat /\ a \in Nat /\ Len(asked) \in Nat /\ r <= a /\ alive
      /\ Len(asked) - r <= link.window /\ \A i \in 1..r : received[i] = answered[i]
  BY <1>1, <1>2 DEF Ordered
<1>4. Len(asked) > a
  <2>1. Len(Unanswered) = Len(asked) - a /\ Unanswered \in Seq(Bodies)
    BY <1>1, <1>2, <1>3, PiecesType DEF Ordered, Unanswered
  <2>2. Len(Unanswered) # 0 /\ Len(Unanswered) \in Nat
    BY <2>1
  <2>. QED
    BY <1>3, <2>1, <2>2
<1>5. Frame(body) \in Seq(Byte)
  BY FrameType
<1>6. /\ answered' = Append(answered, body) /\ writes' = Append(writes, Frame(body))
      /\ resting' = resting /\ pieces = "whole" /\ pieces' = "whole"
  BY DEF SendMessage
<1>7. /\ answered' \in Seq(Bodies) /\ Len(answered') = a + 1 /\ answered'[a + 1] = body
      /\ \A i \in 1..a : answered'[i] = answered[i]
  BY <1>2, <1>6
<1>8. /\ writes' \in Seq(Seq(Byte)) /\ Len(writes') = Len(writes) + 1
      /\ writes'[Len(writes) + 1] = Frame(body)
      /\ \A i \in 1..Len(writes) : writes'[i] = writes[i]
  BY <1>2, <1>5, <1>6
<1>9. Ordered' \/ ~(reading' => alive)
  <2>1. r <= a + 1 /\ a + 1 <= Len(asked)
    BY <1>3, <1>4
  <2>2. \A i \in 1..r : received[i] = answered'[i]
    BY <1>3, <1>7
  <2>3. alive' /\ Len(received') = r /\ Len(answered') = a + 1 /\ Len(asked') = Len(asked)
        /\ link'.window = link.window /\ received' = received
    BY <1>3, <1>7
  <2>4. Len(received') <= Len(answered') /\ Len(answered') <= Len(asked')
    BY <2>1, <2>3
  <2>5. Len(asked') - Len(received') <= link'.window
    BY <1>3, <2>3
  <2>6. \A i \in 1..Len(received') : received'[i] = answered'[i]
    BY <2>2, <2>3
  <2>7. Ordered' \/ ~(reading' => alive')
    BY <2>3, <2>4, <2>5, <2>6 DEF Ordered
  <2>. QED
    BY <2>7
<1>10. DownLaid'
  <2>1. PICK rest \in Seq(Byte), k \in 0..a - r :
          /\ Framed((buffer \o down) \o rest, Due(k))
          /\ Whole(rest, k) \/ Split(rest, k)
    BY <1>1, <1>3 DEF DownLaid
  <2>2. Due(k)' = Due(k)
    <3>1. SubSeq(answered', r + 1, r + k) = SubSeq(answered, r + 1, r + k)
      <4>1. k \in Nat /\ r + k <= a
        BY <1>3
      <4>2. ASSUME NEW i \in 1..k
            PROVE  SubSeq(answered', r + 1, r + k)[i] = SubSeq(answered, r + 1, r + k)[i]
        <5>1. r + i \in 1..a /\ answered'[r + i] = answered[r + i]
          BY <1>3, <1>7, <4>1
        <5>2. SubSeq(answered', r + 1, r + k)[i] = answered'[r + i]
              /\ SubSeq(answered, r + 1, r + k)[i] = answered[r + i]
          BY <1>2, <1>3, <1>7, <4>1
        <5>. QED
          BY <5>1, <5>2
      <4>3. /\ SubSeq(answered', r + 1, r + k) \in Seq(Bodies)
            /\ SubSeq(answered, r + 1, r + k) \in Seq(Bodies)
            /\ Len(SubSeq(answered', r + 1, r + k)) = k /\ Len(SubSeq(answered, r + 1, r + k)) = k
        BY <1>2, <1>3, <1>7, <4>1
      <4>. QED
        BY <4>2, <4>3, SameSequence
    <3>. QED
      BY <3>1 DEF Due
  <2>3. Framed((buffer' \o down') \o rest, Due(k)')
    BY <2>1, <2>2
  <2>4. Framed((buffer \o down) \o rest, Due(k))'
    BY <2>3 DEF Framed, Layout
  <2>5. ~Split(rest, k)
    BY <1>6 DEF Split
  <2>6. resting = <<>> /\ rest = <<>> /\ r + k + Len(writes) = a
        /\ \A i \in 1..Len(writes) : writes[i] = Frame(answered[r + k + i])
    BY <2>1, <2>5 DEF Whole
  <2>7. ASSUME NEW i \in 1..Len(writes) + 1
        PROVE  writes'[i] = Frame(answered'[r + k + i])
    <3>1. Len(writes) \in Nat /\ k \in Nat
      BY <1>2, <1>3
    <3>2. CASE i \in 1..Len(writes)
      <4>1. r + k + i \in 1..a
        BY <1>3, <2>6, <3>1, <3>2
      <4>. QED
        BY <1>7, <1>8, <2>6, <3>2, <4>1
    <3>3. CASE i = Len(writes) + 1
      <4>1. r + k + i = a + 1
        <5>1. PICK n \in Nat : n = Len(writes)
          BY <3>1
        <5>2. r \in Nat /\ k \in Nat /\ r + k + n = a
          BY <1>3, <2>6, <3>1, <5>1
        <5>3. r + k + (n + 1) = a + 1
          BY <5>2
        <5>. QED
          BY <3>3, <5>1, <5>3
      <4>. QED
        BY <1>7, <1>8, <3>3, <4>1
    <3>. QED
      BY <3>1, <3>2, <3>3
  <2>8. r + k + Len(writes') = Len(answered')
    <3>1. Len(writes) \in Nat /\ k \in Nat
      BY <1>2, <1>3
    <3>. QED
      BY <1>3, <1>7, <1>8, <2>6, <3>1
  <2>9. Whole(rest, k)'
    BY <1>6, <1>8, <2>6, <2>7, <2>8 DEF Whole
  <2>10. k \in 0..Len(answered') - Len(received')
    BY <1>3, <1>7
  <2>. QED
    BY <2>4, <2>9, <2>10 DEF DownLaid
<1>11. resting' \in Seq(Seq(Byte)) /\ pieces' \in {"whole", "split"}
  BY <1>1, <1>6 DEF FramingType
<1>. QED
  BY <1>7, <1>8, <1>9, <1>10, <1>11

LEMMA ReadHeaderFraming ==
  ASSUME LaidOut, ReadHeader, pieces' # "mixed"
  PROVE  LaidOut'
<1>. DEFINE m == Head(Unanswered)
<1>1. FramingType /\ Ordered /\ UpLaid /\ DownLaid
  BY DEF LaidOut
<1>2. /\ reading /\ expects = 0 /\ Len(up) >= HeaderSize /\ up' = Rest(up, HeaderSize)
      /\ UNCHANGED <<link, connections, connected, asked, buffer, received, alive, down>>
  BY DEF ReadHeader, clientSide
<1>3. up \in Seq(Byte) /\ HeaderSize \in Nat \ {0} /\ Unanswered \in Seq(Bodies)
  <2>1. asked \in Seq(Bodies) /\ answered \in Seq(Bodies) /\ Len(answered) <= Len(asked)
    BY <1>1 DEF FramingType, Ordered
  <2>2. Len(answered) \in Nat
    BY <2>1
  <2>3. Unanswered \in Seq(Bodies)
    BY <2>1, <2>2, PiecesType DEF Unanswered
  <2>. QED
    BY <1>1, <2>3, FramingAssumption DEF FramingType
<1>4. up' \in Seq(Byte) /\ Prefix(up, HeaderSize) \o up' = up
  <2>1. HeaderSize \in Nat /\ HeaderSize <= Len(up)
    BY <1>2, <1>3
  <2>. QED
    BY <1>2, <1>3, <2>1, PiecesType, PiecesJoin
<1>5. Framed(up, Unanswered) /\ up # <<>>
  <2>1. Begun \o up = up
    BY <1>2, <1>3 DEF Begun
  <2>. QED
    BY <1>1, <1>2, <1>3, <2>1 DEF UpLaid
<1>6. Unanswered # <<>> /\ m \in Bodies /\ Prefix(up, HeaderSize) = Header(Len(m))
      /\ LengthIn(Prefix(up, HeaderSize)) = Len(m) /\ Len(m) \in Nat \ {0}
  BY <1>3, <1>5, FirstMessage, BodyType
<1>. HIDE DEF m
<1>7. CASE /\ SendMessage(InvalidLength) /\ reading' = FALSE /\ expects' = expects
  <2>1. InvalidLength \in Bodies
    BY FramingAssumption
  <2>2. /\ answered' \in Seq(Bodies) /\ writes' \in Seq(Seq(Byte)) /\ Ordered' /\ DownLaid'
        /\ resting' \in Seq(Seq(Byte)) /\ pieces' \in {"whole", "split"}
    BY <1>2, <1>6, <1>7, <2>1, SendMessageDown
  <2>3. reading' \in BOOLEAN
    BY <1>7, Zenon
  <2>4. FramingType'
    BY <1>1, <1>2, <1>4, <1>7, <2>2, <2>3 DEF FramingType
  <2>5. UpLaid'
    BY <1>7 DEF UpLaid
  <2>. QED
    BY <2>2, <2>4, <2>5 DEF LaidOut
<1>8. CASE expects' = Len(m) /\ UNCHANGED <<reading, answered, writes, resting, pieces>>
  <2>1. FramingType'
    BY <1>1, <1>2, <1>4, <1>6, <1>8 DEF FramingType
  <2>2. Ordered'
    BY <1>1, <1>2, <1>8 DEF Ordered
  <2>3. DownLaid'
    BY <1>1, <1>2, <1>8, DownUntouched
  <2>4. UpLaid'
    <3>1. Unanswered' = Unanswered
      BY <1>2, <1>8 DEF Unanswered, Rest
    <3>2. Begun' = Header(expects')
      BY <1>6, <1>8 DEF Begun
    <3>3. Begun' \o up' = up
      BY <1>4, <1>6, <1>8, <3>2
    <3>4. Framed(Begun' \o up', Unanswered')
      BY <1>5, <3>1, <3>3
    <3>5. Framed(Begun \o up, Unanswered)'
      BY <3>4 DEF Framed, Layout
    <3>6. Unanswered' # <<>> /\ expects' = Len(Head(Unanswered'))
      BY <1>6, <1>8, <3>1 DEF m
    <3>. QED
      BY <3>5, <3>6 DEF UpLaid
  <2>. QED
    BY <2>1, <2>2, <2>3, <2>4 DEF LaidOut
<1>. QED
  BY <1>6, <1>7, <1>8 DEF ReadHeader

(* The body the Session has read is the first request to answer.           *)
LEMMA ReadBodySees ==
  ASSUME LaidOut, ReadBody
  PROVE  /\ Unanswered # <<>> /\ Prefix(up, expects) = Head(Unanswered)
         /\ expects = Len(Head(Unanswered))
         /\ Framed(Rest(up, expects), Tail(Unanswered))
         /\ Answer[Prefix(up, expects)] \in Bodies
<1>. DEFINE m == Head(Unanswered)
            h == Header(expects)
            all == h \o up
            un == Unanswered
            n == HeaderSize + expects
<1>1. FramingType /\ Ordered /\ UpLaid /\ DownLaid
  BY DEF LaidOut
<1>2. /\ reading /\ expects # 0 /\ Len(up) >= expects
      /\ up' = Rest(up, expects) /\ expects' = 0
      /\ SendMessage(Answer[Prefix(up, expects)])
      /\ UNCHANGED <<link, connections, connected, asked, buffer, received, reading, alive, down>>
  BY DEF ReadBody, clientSide
<1>3. up \in Seq(Byte) /\ expects \in Nat /\ expects <= Len(up)
      /\ asked \in Seq(Bodies) /\ answered \in Seq(Bodies) /\ Len(answered) <= Len(asked)
  BY <1>1, <1>2 DEF FramingType, Ordered
<1>4. un \in Seq(Bodies)
  BY <1>3, PiecesType DEF Unanswered
<1>5. un # <<>> /\ expects = Len(m) /\ Framed(all, un)
  BY <1>1, <1>2 DEF UpLaid, Begun
<1>6. m \in Bodies
  BY <1>4, <1>5
<1>7. h \in Seq(Byte) /\ Len(h) = HeaderSize /\ HeaderSize \in Nat
  BY <1>3, HeaderType, FramingAssumption
<1>. HIDE DEF h, un
<1>8. all \in Seq(Byte) /\ Len(all) = HeaderSize + Len(up) /\ all # <<>>
  BY <1>2, <1>3, <1>7
<1>9. Prefix(all, n) = Frame(m) /\ Framed(Rest(all, n), Tail(un))
  <2>. HIDE DEF all
  <2>. QED
    BY <1>4, <1>5, <1>8, FirstMessage DEF un
<1>10. Rest(all, HeaderSize) = up
  <2>0. HeaderSize <= Len(h)
    BY <1>7
  <2>1. Rest(all, HeaderSize) = Rest(h, HeaderSize) \o up
    BY <1>3, <1>7, <2>0, PiecesOfJoin
  <2>2. Rest(h, HeaderSize) = <<>>
    BY <1>7 DEF Rest
  <2>. QED
    BY <1>3, <2>1, <2>2
<1>11. Prefix(up, expects) = m /\ Rest(all, n) = Rest(up, expects)
  <2>. HIDE DEF all, m
  <2>1. all \in Seq(Byte) /\ HeaderSize + expects <= Len(all)
    <3>1. Len(up) \in Nat
      BY <1>3
    <3>. QED
      BY <1>3, <1>7, <1>8, <3>1
  <2>2. HeaderSize \in Nat /\ expects \in Nat
    BY <1>3, <1>7
  <2>3. Rest(Rest(all, HeaderSize), expects) = Rest(all, n)
        /\ Prefix(Rest(all, HeaderSize), expects) = Rest(Prefix(all, n), HeaderSize)
    BY <2>1, <2>2, PiecesBehind
  <2>4. Rest(Frame(m), HeaderSize) = m
    BY <1>6, FrameType
  <2>. QED
    BY <1>9, <1>10, <2>3, <2>4
<1>. HIDE DEF all, n, m
<1>12. Answer[Prefix(up, expects)] \in Bodies
  BY <1>6, <1>11, FramingAssumption
<1>. QED
  BY <1>5, <1>9, <1>11, <1>12 DEF un, m

LEMMA ReadBodyFraming ==
  ASSUME LaidOut, ReadBody, pieces' # "mixed"
  PROVE  /\ LaidOut'
         /\ Unanswered' = Tail(Unanswered)
<1>. DEFINE un == Unanswered
<1>1. FramingType /\ Ordered /\ UpLaid /\ DownLaid
  BY DEF LaidOut
<1>2. /\ reading /\ expects # 0 /\ Len(up) >= expects
      /\ up' = Rest(up, expects) /\ expects' = 0
      /\ SendMessage(Answer[Prefix(up, expects)])
      /\ UNCHANGED <<link, connections, connected, asked, buffer, received, reading, alive, down>>
  BY DEF ReadBody, clientSide
<1>3. up \in Seq(Byte) /\ expects \in Nat /\ expects <= Len(up)
      /\ asked \in Seq(Bodies) /\ answered \in Seq(Bodies) /\ Len(answered) <= Len(asked)
  BY <1>1, <1>2 DEF FramingType, Ordered
<1>4. un \in Seq(Bodies)
  BY <1>3, PiecesType DEF Unanswered
<1>5. un # <<>> /\ Framed(Rest(up, expects), Tail(un)) /\ Answer[Prefix(up, expects)] \in Bodies
  BY ReadBodySees
<1>. HIDE DEF un
<1>13. /\ answered' \in Seq(Bodies) /\ writes' \in Seq(Seq(Byte)) /\ Ordered' /\ DownLaid'
       /\ resting' \in Seq(Seq(Byte)) /\ pieces' \in {"whole", "split"}
       /\ Len(answered') = Len(answered) + 1
  <2>1. Unanswered # <<>> /\ (reading' => alive)
    BY <1>1, <1>2, <1>5 DEF un, Ordered
  <2>. QED
    BY <1>2, <1>5, <2>1, SendMessageDown
<1>14. FramingType'
  <2>1. up' \in Seq(Byte)
    BY <1>2, <1>3, PiecesType
  <2>. QED
    BY <1>1, <1>2, <1>13, <2>1 DEF FramingType
<1>15. Unanswered' = Tail(un)
  <2>1. PICK a \in Nat : a = Len(answered) /\ a + 1 = Len(answered')
    BY <1>3, <1>13
  <2>2. a + 1 <= Len(asked)
    <3>1. Len(answered') <= Len(asked')
      BY <1>13 DEF Ordered
    <3>. QED
      BY <1>2, <2>1, <3>1
  <2>3. Rest(asked, a + 1) = Tail(Rest(asked, a))
    <3>1. un = Rest(asked, a)
      BY <2>1 DEF un, Unanswered
    <3>2. Rest(Rest(asked, a), 1) = Rest(asked, a + 1)
      BY <1>3, <2>2, PiecesBehind
    <3>. QED
      BY <1>4, <1>5, <3>1, <3>2, RestOne
  <2>. QED
    BY <1>2, <2>1, <2>3 DEF Unanswered, un
<1>16. UpLaid'
  <2>2. Begun' \o up' = Rest(up, expects)
    <3>1. Begun' = <<>> /\ up' = Rest(up, expects) /\ up' \in Seq(Byte)
      BY <1>2, <1>3, PiecesType DEF Begun
    <3>. QED
      BY <3>1
  <2>3. Framed(Begun' \o up', Unanswered')
    BY <1>5, <1>15, <2>2
  <2>4. Framed(Begun \o up, Unanswered)'
    BY <2>3 DEF Framed, Layout
  <2>. QED
    BY <1>2, <2>4 DEF UpLaid
<1>. QED
  BY <1>13, <1>14, <1>15, <1>16 DEF LaidOut, un
----------------------------------------------------------------------------
(* The steps in which answers are written and received *)

LEMMA DueType ==
  ASSUME FramingType, Ordered, NEW k \in 0..Len(answered) - Len(received)
  PROVE  /\ Due(k) \in Seq(Bodies) /\ Len(Due(k)) = k
         /\ \A i \in 1..k : Due(k)[i] = answered[Len(received) + i]
<1>1. answered \in Seq(Bodies) /\ Len(received) \in Nat /\ Len(received) <= Len(answered)
  BY DEF FramingType, Ordered
<1>2. PICK r \in Nat : r = Len(received)
  BY <1>1
<1>3. k \in Nat /\ r + k <= Len(answered) /\ Len(answered) \in Nat
  BY <1>1, <1>2
<1>4. SubSeq(answered, r + 1, r + k) \in Seq(Bodies)
      /\ Len(SubSeq(answered, r + 1, r + k)) = k
      /\ \A i \in 1..k : SubSeq(answered, r + 1, r + k)[i] = answered[r + i]
  BY <1>1, <1>3
<1>. QED
  BY <1>2, <1>4 DEF Due

LEMMA TryProcessBufferFraming ==
  ASSUME LaidOut, TryProcessBuffer
  PROVE  /\ LaidOut'
         /\ Len(received) < Len(answered)
         /\ received' = Append(received, answered[Len(received) + 1])
<1>1. FramingType /\ Ordered /\ UpLaid /\ DownLaid
  BY DEF LaidOut
<1>2. PICK n : n = HeaderSize + LengthIn(Prefix(buffer, HeaderSize))
  OBVIOUS
<1>3. /\ Len(buffer) >= HeaderSize /\ Len(buffer) >= n
      /\ received' = Append(received, Rest(Prefix(buffer, n), HeaderSize))
      /\ buffer' = Rest(buffer, n)
      /\ UNCHANGED <<link, connections, connected, asked, up, down>>
      /\ UNCHANGED <<reading, expects, answered, writes, resting, pieces, alive>>
  BY <1>2 DEF TryProcessBuffer, Complete, serverSide
<1>4. PICK r \in Nat, a \in Nat : r = Len(received) /\ a = Len(answered)
  BY <1>1 DEF FramingType
<1>5. r <= a /\ received \in Seq(Bodies) /\ answered \in Seq(Bodies)
      /\ buffer \in Seq(Byte) /\ down \in Seq(Byte) /\ HeaderSize \in Nat \ {0}
      /\ Len(asked) \in Nat /\ a <= Len(asked) /\ Len(asked) - r <= link.window
      /\ \A i \in 1..r : received[i] = answered[i]
  BY <1>1, <1>4, FramingAssumption DEF FramingType, Ordered
<1>6. PICK rest \in Seq(Byte), k \in 0..a - r :
        /\ Framed((buffer \o down) \o rest, Due(k))
        /\ alive => Whole(rest, k) \/ Split(rest, k)
  BY <1>1, <1>4 DEF DownLaid
<1>7. PICK behind \in Seq(Byte) : behind = down \o rest
  <2>1. down \o rest \in Seq(Byte)
    BY <1>5
  <2>. QED
    BY <2>1
<1>8. PICK due \in Seq(Bodies) : due = Due(k) /\ Len(due) = k
                                 /\ \A i \in 1..k : due[i] = answered[r + i]
  BY <1>1, <1>4, DueType
<1>9. Framed(buffer \o behind, due) /\ buffer \o behind \in Seq(Byte) /\ buffer \o behind # <<>>
  <2>1. (buffer \o down) \o rest = buffer \o (down \o rest)
    <3>1. buffer \in Seq(Byte) /\ down \in Seq(Byte) /\ rest \in Seq(Byte)
      BY <1>5
    <3>. QED
      BY <3>1, JoinAssociative
  <2>2. Len(buffer \o behind) = Len(buffer) + Len(behind) /\ Len(buffer) \in Nat \ {0}
    BY <1>3, <1>5
  <2>. QED
    BY <1>5, <1>6, <1>7, <1>8, <2>1, <2>2
<1>10. PICK m : m = Head(due)
  OBVIOUS
<1>11. /\ due # <<>> /\ m \in Bodies
       /\ Prefix(buffer \o behind, HeaderSize + Len(m)) = Frame(m)
       /\ LengthIn(Prefix(buffer \o behind, HeaderSize)) = Len(m)
       /\ Framed(Rest(buffer \o behind, HeaderSize + Len(m)), Tail(due))
  <2>. DEFINE all == buffer \o behind
  <2>1. all \in Seq(Byte) /\ all # <<>> /\ Framed(all, due)
    BY <1>9
  <2>. HIDE DEF all
  <2>2. /\ due # <<>> /\ m \in Bodies /\ Prefix(all, HeaderSize + Len(m)) = Frame(m)
        /\ LengthIn(Prefix(all, HeaderSize)) = Len(m)
        /\ Framed(Rest(all, HeaderSize + Len(m)), Tail(due))
    BY <1>10, <2>1, FirstMessage
  <2>. QED
    BY <2>2 DEF all
<1>12. n = HeaderSize + Len(m) /\ n \in Nat /\ n <= Len(buffer)
  <2>1. HeaderSize \in Nat /\ HeaderSize <= Len(buffer)
    BY <1>3, <1>5
  <2>2. Prefix(buffer \o behind, HeaderSize) = Prefix(buffer, HeaderSize)
    BY <1>5, <2>1, PiecesOfJoin
  <2>3. n = HeaderSize + Len(m) /\ Len(m) \in Nat
    BY <1>2, <1>11, <2>2, BodyType
  <2>. QED
    BY <1>3, <1>5, <2>1, <2>3
<1>13. Prefix(buffer, n) = Frame(m) /\ Rest(buffer \o behind, n) = buffer' \o behind
  <2>1. Prefix(buffer \o behind, n) = Prefix(buffer, n)
        /\ Rest(buffer \o behind, n) = Rest(buffer, n) \o behind
    BY <1>5, <1>12, PiecesOfJoin
  <2>. QED
    BY <1>3, <1>11, <1>12, <2>1
<1>14. received' = Append(received, m) /\ buffer' \in Seq(Byte)
  <2>1. Rest(Frame(m), HeaderSize) = m
    BY <1>11, FrameType
  <2>2. Rest(buffer, n) \in Seq(Byte)
    BY <1>5, <1>12, PiecesType
  <2>. QED
    BY <1>3, <1>13, <2>1, <2>2
<1>15. k >= 1 /\ r + 1 <= a /\ m = answered[r + 1]
  <2>1. k # 0 /\ m = due[1]
    BY <1>8, <1>10, <1>11
  <2>2. k \in Nat /\ k >= 1
    BY <2>1
  <2>. QED
    BY <1>5, <1>8, <2>1, <2>2
<1>16. /\ received' \in Seq(Bodies) /\ Len(received') = r + 1
       /\ \A i \in 1..r + 1 : received'[i] = answered[i]
  <2>1. received' \in Seq(Bodies) /\ Len(received') = r + 1 /\ received'[r + 1] = m
        /\ \A i \in 1..r : received'[i] = received[i]
    BY <1>4, <1>5, <1>11, <1>14
  <2>2. \A i \in 1..r + 1 : i \in 1..r \/ i = r + 1
    OBVIOUS
  <2>. QED
    BY <1>5, <1>15, <2>1, <2>2
<1>17. FramingType'
  BY <1>1, <1>3, <1>14, <1>16 DEF FramingType
<1>18. Ordered'
  <2>1. Len(asked) - (r + 1) <= link.window
    <3>1. link.window \in Nat
      BY <1>1, LinkType DEF FramingType
    <3>. QED
      BY <1>5, <3>1
  <2>. QED
    BY <1>1, <1>3, <1>4, <1>5, <1>15, <1>16, <2>1 DEF Ordered
<1>19. UpLaid'
  BY <1>1, <1>3, UpUntouched
<1>20. DownLaid'
  <2>1. PICK j \in Nat : k = j + 1
    <3>1. k - 1 \in Nat /\ k = (k - 1) + 1
      BY <1>15
    <3>. QED
      BY <3>1
  <2>2. Due(j)' = Tail(due)
    <3>1. Due(j)' = SubSeq(answered, (r + 1) + 1, (r + 1) + j)
      BY <1>3, <1>16 DEF Due
    <3>2. r + 1 + j <= a /\ a = Len(answered)
      BY <1>4, <2>1
    <3>3. /\ Due(j)' \in Seq(Bodies) /\ Len(Due(j)') = j
          /\ \A i \in 1..j : Due(j)'[i] = answered[r + 1 + i]
      <4>1. PICK o \in Nat : o = r + 1
        OBVIOUS
      <4>2. SubSeq(answered, o + 1, o + j) \in Seq(Bodies)
            /\ Len(SubSeq(answered, o + 1, o + j)) = j
            /\ \A i \in 1..j : SubSeq(answered, o + 1, o + j)[i] = answered[o + i]
        BY <1>5, <3>2, <4>1
      <4>. QED
        BY <3>1, <4>1, <4>2
    <3>4. Tail(due) \in Seq(Bodies) /\ Len(Tail(due)) = j
          /\ \A i \in 1..j : Tail(due)[i] = due[i + 1]
      BY <1>8, <1>11, <2>1
    <3>5. ASSUME NEW i \in 1..j PROVE Due(j)'[i] = Tail(due)[i]
      <4>1. i + 1 \in 1..k /\ r + (i + 1) = r + 1 + i
        BY <2>1
      <4>. QED
        BY <1>8, <3>3, <3>4, <4>1
    <3>. QED
      BY <3>3, <3>4, <3>5, SameSequence
  <2>3. buffer' \o behind = (buffer' \o down') \o rest
    <3>1. buffer' \in Seq(Byte) /\ down \in Seq(Byte) /\ rest \in Seq(Byte)
      BY <1>5, <1>14
    <3>2. (buffer' \o down) \o rest = buffer' \o (down \o rest)
      BY <3>1, JoinAssociative
    <3>. QED
      BY <1>3, <1>7, <3>2
  <2>4. Framed((buffer' \o down') \o rest, Due(j)')
    BY <1>11, <1>12, <1>13, <2>2, <2>3
  <2>5. Framed((buffer \o down) \o rest, Due(j))'
    BY <2>4 DEF Framed, Layout
  <2>6. ASSUME Whole(rest, k) PROVE Whole(rest, j)'
    <3>1. pieces = "whole" /\ resting = <<>> /\ rest = <<>> /\ r + k + Len(writes) = a
          /\ \A i \in 1..Len(writes) : writes[i] = Frame(answered[r + k + i])
      BY <1>4, <2>6 DEF Whole
    <3>2. r + 1 + j = r + k
      BY <2>1
    <3>. QED
      BY <1>3, <1>4, <1>16, <3>1, <3>2 DEF Whole
  <2>7. ASSUME Split(rest, k) PROVE Split(rest, j)'
    <3>1. SUFFICES j # 0
      <4>1. r + k = a
        BY <1>4, <2>7 DEF Split
      <4>2. r + 1 + j = a
        BY <2>1, <4>1
      <4>. QED
        BY <1>3, <1>4, <1>16, <2>7, <4>2 DEF Split
    <3>2. SUFFICES ASSUME j = 0 PROVE FALSE
      OBVIOUS
    <3>7. k = 1 /\ rest # <<>>
      BY <2>1, <2>7, <3>2 DEF Split
    <3>3. Tail(due) = <<>>
      <4>1. Tail(due) \in Seq(Bodies) /\ Len(Tail(due)) = Len(due) - 1
        BY <1>11
      <4>2. Len(Tail(due)) = 0
        BY <1>8, <3>7, <4>1
      <4>3. \A t \in Seq(Bodies) : Len(t) = 0 => t = <<>>
        OBVIOUS
      <4>. QED
        BY <4>1, <4>2, <4>3
    <3>4. buffer' \o behind \in Seq(Byte)
      BY <1>14
    <3>5. buffer' \o behind = <<>>
      <4>. DEFINE after == buffer' \o behind
      <4>1. Framed(after, <<>>) /\ after \in Seq(Byte)
        BY <1>11, <1>12, <1>13, <3>3, <3>4
      <4>. HIDE DEF after
      <4>2. after = <<>>
        BY <4>1, NothingFramed
      <4>. QED
        BY <4>2 DEF after
    <3>6. Len(buffer' \o behind) = Len(buffer') + (Len(down) + Len(rest))
          /\ Len(buffer') \in Nat /\ Len(down) \in Nat /\ Len(rest) \in Nat \ {0}
      BY <1>5, <1>7, <1>14, <3>7
    <3>. QED
      BY <3>5, <3>6
  <2>8. alive' => Whole(rest, j)' \/ Split(rest, j)'
    BY <1>3, <1>6, <2>6, <2>7
  <2>9. j \in 0..Len(answered') - Len(received')
    BY <1>3, <1>4, <1>16, <2>1
  <2>. QED
    BY <2>5, <2>8, <2>9 DEF DownLaid
<1>. QED
  BY <1>4, <1>5, <1>14, <1>15, <1>17, <1>18, <1>19, <1>20 DEF LaidOut

LEMMA LeastOfThree ==
  ASSUME NEW a \in Nat, NEW b \in Nat, NEW c \in Nat, NEW n,
         n = CHOOSE m \in {a, b, c} : \A k \in {a, b, c} : m <= k
  PROVE  n \in {a, b, c} /\ n <= a /\ n <= b /\ n <= c
<1>1. \E m \in {a, b, c} : \A k \in {a, b, c} : m <= k
  <2>1. CASE a <= b /\ a <= c
    BY <2>1
  <2>2. CASE b <= a /\ b <= c
    BY <2>2
  <2>3. CASE c <= a /\ c <= b
    BY <2>3
  <2>. QED
    BY <2>1, <2>2, <2>3
<1>. QED
  BY <1>1

(* On an Uncut connection a frame goes through in one piece unless the     *)
(* client asks one thing at a time.                                        *)
LEMMA PieceWhole ==
  ASSUME LaidOut, Uncut(link), link.window # 1,
         NEW rest \in Seq(Byte), NEW k \in Nat, NEW body \in Bodies,
         k + 1 <= Len(answered) - Len(received),
         Framed((buffer \o down) \o rest, Due(k))
  PROVE  Len(Frame(body)) <= link.transfer /\ Len(Frame(body)) <= link.room - Len(down)
<1>. DEFINE w == link.window
            most == link.room \div w
            f == Len(Frame(body))
            all == (buffer \o down) \o rest
<1>1. FramingType /\ Ordered
  BY DEF LaidOut
<1>2. w \in Nat \ {0} /\ link.room \in Nat /\ link.transfer \in Nat
  BY <1>1, LinkType DEF FramingType
<1>3. most \in Nat /\ w * most <= link.room
  BY <1>2, QuotientBelow
<1>4. \A b \in Bodies : HeaderSize + Len(b) <= link.transfer /\ HeaderSize + Len(b) <= most
  BY DEF Uncut
<1>. HIDE DEF most
<1>5. \A b \in Bodies : Len(Frame(b)) <= most
  BY <1>4, FrameType
<1>6. f \in Nat /\ f <= most /\ f <= link.transfer
  BY <1>4, <1>5, FrameType
<1>7. PICK r \in Nat, a \in Nat, q \in Nat :
        r = Len(received) /\ a = Len(answered) /\ q = Len(asked) /\ a <= q /\ q - r <= w
  <2>1. Len(received) \in Nat /\ Len(answered) \in Nat /\ Len(asked) \in Nat
    BY <1>1 DEF FramingType
  <2>2. Len(answered) <= Len(asked) /\ Len(asked) - Len(received) <= w
    BY <1>1 DEF Ordered
  <2>. QED
    BY <2>1, <2>2
<1>8. k + 1 <= w /\ k \in 0..Len(answered) - Len(received)
  BY <1>2, <1>7
<1>9. Due(k) \in Seq(Bodies) /\ Len(Due(k)) = k
  BY <1>1, <1>8, DueType
<1>10. buffer \in Seq(Byte) /\ down \in Seq(Byte)
  BY <1>1 DEF FramingType
<1>11. all \in Seq(Byte) /\ Len(all) = Len(buffer) + Len(down) + Len(rest)
       /\ Len(buffer) \in Nat /\ Len(down) \in Nat /\ Len(rest) \in Nat
  BY <1>10
<1>12. Len(all) <= k * most
  <2>1. Framed(all, Due(k)) /\ all \in Seq(Byte)
    BY <1>11
  <2>. HIDE DEF all
  <2>2. Len(all) <= Len(Due(k)) * most
    BY <1>3, <1>5, <1>9, <2>1, FramedLength
  <2>. QED
    BY <1>9, <2>2
<1>. HIDE DEF f, w, all
<1>13. k * most + most <= w * most /\ k * most \in Nat /\ w * most \in Nat
  <2>1. PICK d \in Nat : w = k + 1 + d
    <3>1. w - (k + 1) \in Nat /\ w = k + 1 + (w - (k + 1))
      BY <1>2, <1>8
    <3>. QED
      BY <3>1
  <2>2. w * most = k * most + most + d * most /\ d * most \in Nat /\ k * most \in Nat
    BY <1>3, <2>1, SMT
  <2>. QED
    BY <1>3, <2>2
<1>14. Len(down) + f <= link.room
  <2>. DEFINE km == k * most
              wm == w * most
  <2>. HIDE DEF km, wm
  <2>1. km + most <= wm /\ km \in Nat /\ wm \in Nat /\ wm <= link.room /\ Len(down) <= km
    BY <1>3, <1>11, <1>12, <1>13 DEF km, wm
  <2>. QED
    BY <1>2, <1>3, <1>6, <1>11, <2>1
<1>15. f <= link.room - Len(down)
  BY <1>2, <1>6, <1>11, <1>14
<1>. QED
  BY <1>6, <1>15 DEF f

LEMMA WriteSomeFraming ==
  ASSUME LaidOut, WriteSome
  PROVE  /\ pieces' # "mixed" => LaidOut'
         /\ Uncut(link) /\ Unmixed => Unmixed'
<1>. DEFINE bytes == Head(writes)
            space == link.room - Len(down)
            n == CHOOSE m \in {Len(bytes), link.transfer, space} :
                   \A k \in {Len(bytes), link.transfer, space} : m <= k
            left == Rest(bytes, n)
            stream == buffer \o down
            rec == Len(received)
            ans == Len(answered)
            wl == Len(writes)
<1>1. FramingType /\ Ordered /\ UpLaid /\ DownLaid
  BY DEF LaidOut
<1>2. /\ writes # <<>> /\ Len(down) < link.room
      /\ down' = down \o Prefix(bytes, n)
      /\ writes' = Tail(writes)
      /\ n = Len(bytes) => resting' = resting /\ pieces' = "whole"
      /\ n # Len(bytes) => /\ resting' = Append(resting, left)
                           /\ pieces' = IF wl = 1 /\ resting = <<>> THEN "split" ELSE "mixed"
      /\ UNCHANGED <<link, connections, connected, asked, buffer, received>>
      /\ UNCHANGED <<reading, expects, answered, alive, up>>
  <2>1. pieces # "mixed"
    BY <1>1 DEF FramingType
  <2>. QED
    BY <2>1 DEF WriteSome, clientSide
<1>3. /\ writes \in Seq(Seq(Byte)) /\ bytes \in Seq(Byte) /\ Tail(writes) \in Seq(Seq(Byte))
      /\ wl \in Nat \ {0} /\ Len(Tail(writes)) = wl - 1
      /\ \A i \in 1..wl - 1 : Tail(writes)[i] = writes[i + 1]
      /\ Head(writes) = writes[1] /\ 1 \in 1..wl
  BY <1>1, <1>2 DEF FramingType
<1>4. down \in Seq(Byte) /\ buffer \in Seq(Byte) /\ stream \in Seq(Byte)
  BY <1>1 DEF FramingType
<1>5. link.transfer \in Nat /\ link.room \in Nat /\ link.window \in Nat \ {0} /\ space \in Nat
  BY <1>1, <1>2, <1>4, LinkType, SMTT(60) DEF FramingType
<1>. HIDE DEF bytes
<1>. HIDE DEF space
<1>6. n \in Nat /\ n <= Len(bytes)
      /\ (n # Len(bytes) => n = link.transfer \/ n = space)
      /\ n <= link.transfer /\ n <= space
  <2>1. Len(bytes) \in Nat
    BY <1>3
  <2>2. n \in {Len(bytes), link.transfer, space} /\ n <= Len(bytes)
        /\ n <= link.transfer /\ n <= space
    <3>1. PICK a \in Nat, b \in Nat, c \in Nat :
            a = Len(bytes) /\ b = link.transfer /\ c = space
      BY <1>5, <2>1
    <3>2. n = CHOOSE m \in {a, b, c} : \A k \in {a, b, c} : m <= k
      BY <3>1
    <3>. HIDE DEF n
    <3>3. n \in {a, b, c} /\ n <= a /\ n <= b /\ n <= c
      BY <3>2, LeastOfThree
    <3>. QED
      BY <3>1, <3>3
  <2>. QED
    BY <1>5, <2>1, <2>2
<1>. HIDE DEF n
<1>7. /\ rec \in Nat /\ ans \in Nat /\ rec <= ans /\ ans - rec <= link.window
      /\ received \in Seq(Bodies) /\ answered \in Seq(Bodies) /\ alive
  <2>1. Len(asked) \in Nat /\ ans <= Len(asked) /\ Len(asked) - rec <= link.window
        /\ rec \in Nat /\ ans \in Nat
    BY <1>1 DEF FramingType, Ordered
  <2>2. ans - rec <= link.window
    BY <1>5, <2>1
  <2>. QED
    BY <1>1, <1>2, <2>1, <2>2 DEF FramingType, Ordered
<1>. HIDE DEF left, stream
<1>8. /\ Prefix(bytes, n) \in Seq(Byte) /\ left \in Seq(Byte) /\ Len(left) = Len(bytes) - n
      /\ down' \in Seq(Byte) /\ (buffer \o down') \o left = stream \o bytes
  <2>1. Prefix(bytes, n) \in Seq(Byte) /\ left \in Seq(Byte) /\ Len(left) = Len(bytes) - n
    BY <1>3, <1>6, PiecesType DEF left
  <2>2. down' \in Seq(Byte)
    BY <1>2, <1>4, <2>1
  <2>3. buffer \o (down \o Prefix(bytes, n)) = stream \o Prefix(bytes, n)
    <3>1. buffer \in Seq(Byte) /\ down \in Seq(Byte) /\ Prefix(bytes, n) \in Seq(Byte)
      BY <1>4, <2>1
    <3>2. (buffer \o down) \o Prefix(bytes, n) = buffer \o (down \o Prefix(bytes, n))
      BY <3>1, JoinAssociative
    <3>. QED
      BY <3>2 DEF stream
  <2>4. (stream \o Prefix(bytes, n)) \o left = stream \o bytes
    BY <1>3, <1>4, <1>6, SameBytes DEF left
  <2>. QED
    BY <1>2, <2>1, <2>2, <2>3, <2>4
(* All that is under way after the message being written is whole, and on  *)
(* an Uncut connection it is cut only when nothing follows it.             *)
<1>9. PICK k \in 1..ans - rec :
        /\ Framed(stream \o bytes, Due(k)) /\ bytes # <<>>
        /\ rec + k + (wl - 1) = ans
        /\ \A i \in 1..wl - 1 : Tail(writes)[i] = Frame(answered[rec + k + i])
        /\ resting = <<>>
        /\ n # Len(bytes) /\ Uncut(link) /\ Unmixed => link.window = 1 /\ wl = 1
  <2>1. PICK rest \in Seq(Byte), k \in 0..ans - rec :
          /\ Framed((buffer \o down) \o rest, Due(k))
          /\ Whole(rest, k) \/ Split(rest, k)
    BY <1>1, <1>7 DEF DownLaid
  <2>2. CASE Split(rest, k)
    <3>1. /\ pieces = "split" /\ k # 0 /\ rec + k = ans /\ rest # <<>>
          /\ writes = <<rest>> /\ resting = <<>>
      BY <1>2, <2>2 DEF Split
    <3>2. bytes = rest /\ wl = 1
      BY <3>1 DEF bytes
    <3>3. Framed(stream \o bytes, Due(k))
      BY <2>1, <3>2 DEF stream
    <3>4. k \in 1..ans - rec /\ rec + k + (wl - 1) = ans
      <4>1. k \in Nat /\ k <= ans - rec /\ k # 0 /\ rec + k = ans /\ wl = 1
        BY <1>7, <2>1, <3>1, <3>2
      <4>. HIDE DEF ans, rec, wl
      <4>. QED
        BY <1>7, <4>1
    <3>5. Unmixed => link.window = 1
      BY <3>1 DEF Unmixed
    <3>. QED
      BY <3>1, <3>2, <3>3, <3>4, <3>5
  <2>3. CASE Whole(rest, k)
    <3>1. /\ resting = <<>> /\ rest = <<>> /\ rec + k + wl = ans
          /\ \A i \in 1..wl : writes[i] = Frame(answered[rec + k + i])
      BY <2>3 DEF Whole
    <3>2. PICK l \in Nat : l = k + 1
      OBVIOUS
    <3>3. l \in 1..ans - rec /\ rec + l + (wl - 1) = ans
          /\ rec + l \in 1..ans /\ k \in Nat
      <4>1. /\ rec + k + wl = ans /\ wl \in Nat \ {0} /\ rec \in Nat /\ ans \in Nat
            /\ k \in Nat /\ l = k + 1
        BY <1>3, <1>7, <2>1, <3>1, <3>2
      <4>. HIDE DEF ans, rec, wl
      <4>. QED
        BY <4>1
    <3>4. PICK body \in Bodies : body = answered[rec + l]
      BY <1>7, <3>3
    <3>5. bytes = Frame(body)
      <4>1. rec + k + 1 = rec + l
        BY <1>7, <3>2, <3>3
      <4>2. writes[1] = Frame(answered[rec + k + 1])
        BY <1>3, <3>1
      <4>. QED
        BY <1>3, <3>4, <4>1, <4>2 DEF bytes
    <3>6. bytes # <<>>
      <4>1. Len(bytes) = HeaderSize + Len(body) /\ HeaderSize \in Nat \ {0} /\ Len(body) \in Nat
        BY <3>5, FrameType, BodyType, FramingAssumption
      <4>. QED
        BY <4>1
    <3>7. ASSUME NEW i \in 1..wl - 1 PROVE Tail(writes)[i] = Frame(answered[rec + l + i])
      <4>1. i + 1 \in 1..wl /\ rec + k + (i + 1) = rec + l + i
        BY <1>3, <1>7, <3>2, <3>3
      <4>2. writes[i + 1] = Frame(answered[rec + k + (i + 1)])
        BY <3>1, <4>1
      <4>. QED
        BY <1>3, <4>1, <4>2
    <3>8. Framed(stream \o bytes, Due(l))
      <4>1. (buffer \o down) \o rest = stream
        BY <1>4, <3>1 DEF stream
      <4>2. Framed(stream, Due(k))
        BY <2>1, <4>1
      <4>3. /\ Due(k) \in Seq(Bodies) /\ Len(Due(k)) = k
            /\ \A i \in 1..k : Due(k)[i] = answered[rec + i]
        BY <1>1, <2>1, DueType
      <4>4. /\ Due(l) \in Seq(Bodies) /\ Len(Due(l)) = l
            /\ \A i \in 1..l : Due(l)[i] = answered[rec + i]
        <5>1. l \in 0..ans - rec
          BY <3>3
        <5>. QED
          BY <1>1, <5>1, DueType
      <4>5. Due(l) = Append(Due(k), body)
        <5>. DEFINE d == Due(k)
                    e == Due(l)
        <5>. HIDE DEF d, e
        <5>1. d \in Seq(Bodies) /\ Len(d) = k /\ \A i \in 1..k : d[i] = answered[rec + i]
          BY <4>3 DEF d
        <5>2. e \in Seq(Bodies) /\ Len(e) = l /\ \A i \in 1..l : e[i] = answered[rec + i]
          BY <4>4 DEF e
        <5>3. Append(d, body) \in Seq(Bodies) /\ Len(Append(d, body)) = k + 1
              /\ Append(d, body)[k + 1] = body /\ \A i \in 1..k : Append(d, body)[i] = d[i]
          BY <5>1
        <5>4. ASSUME NEW i \in 1..l PROVE e[i] = Append(d, body)[i]
          <6>1. i \in 1..k \/ i = k + 1
            BY <3>2, <3>3
          <6>. QED
            BY <3>2, <3>4, <5>1, <5>2, <5>3, <6>1
        <5>5. e = Append(d, body)
          BY <3>2, <5>2, <5>3, <5>4, SameSequence
        <5>. QED
          BY <5>5 DEF d, e
      <4>6. Framed(stream \o Frame(body), Append(Due(k), body))
        BY <1>4, <4>2, <4>3, FramedAppend
      <4>. QED
        BY <3>5, <4>5, <4>6
    <3>9. n # Len(bytes) /\ Uncut(link) => link.window = 1 /\ wl = 1
      <4>1. SUFFICES ASSUME n # Len(bytes), Uncut(link) PROVE link.window = 1 /\ wl = 1
        OBVIOUS
      <4>2. link.window = 1
        <5>1. SUFFICES ASSUME link.window # 1 PROVE FALSE
          OBVIOUS
        <5>2. k + 1 <= ans - rec
          BY <1>7, <3>2, <3>3
        <5>3. Len(Frame(body)) <= link.transfer /\ Len(Frame(body)) <= link.room - Len(down)
          BY <2>1, <3>3, <4>1, <5>1, <5>2, PieceWhole
        <5>4. Len(bytes) <= link.transfer /\ Len(bytes) <= space /\ Len(bytes) \in Nat
          BY <1>3, <3>5, <5>3 DEF space
        <5>. QED
          BY <1>5, <1>6, <4>1, <5>4
      <4>. QED
        BY <1>3, <1>7, <3>3, <4>2
    <3>. QED
      BY <3>1, <3>3, <3>6, <3>7, <3>8, <3>9
  <2>. QED
    BY <2>1, <2>2, <2>3
<1>10. UpLaid'
  BY <1>1, <1>2, UpUntouched
<1>11. Due(k)' = Due(k) /\ k \in 0..Len(answered') - Len(received')
  BY <1>2, <1>7, <1>9 DEF Due
<1>12. Ordered'
  <2>1. UNCHANGED <<link, asked, received, reading, answered, alive>> /\ alive
    BY <1>2, <1>7
  <2>. QED
    BY <1>1, <2>1 DEF Ordered
<1>13. CASE n = Len(bytes)
  <2>1. writes' = Tail(writes) /\ resting' = <<>> /\ pieces' = "whole"
    BY <1>2, <1>9, <1>13
  <2>2. left = <<>>
    <3>1. \A t \in Seq(Byte) : Len(t) = 0 => t = <<>>
      OBVIOUS
    <3>2. Len(bytes) \in Nat
      BY <1>3
    <3>. QED
      BY <1>8, <1>13, <3>1, <3>2
  <2>3. FramingType'
    BY <1>1, <1>2, <1>3, <1>8, <2>1 DEF FramingType
  <2>4. Ordered'
    BY <1>12
  <2>5. Framed((buffer' \o down') \o left, Due(k)')
    BY <1>2, <1>8, <1>9, <1>11
  <2>6. Framed((buffer \o down) \o <<>>, Due(k))'
    BY <2>2, <2>5 DEF Framed, Layout
  <2>7. Whole(<<>>, k)'
    BY <1>2, <1>3, <1>9, <2>1 DEF Whole
  <2>8. <<>> \in Seq(Byte)
    OBVIOUS
  <2>9. DownLaid'
    BY <1>11, <2>6, <2>7, <2>8 DEF DownLaid
  <2>. QED
    BY <1>10, <2>1, <2>3, <2>4, <2>9 DEF LaidOut, Unmixed
<1>14. CASE n # Len(bytes)
  <2>1. pieces' = IF wl = 1 THEN "split" ELSE "mixed"
    BY <1>2, <1>9, <1>14
  <2>2. Uncut(link) /\ Unmixed => Unmixed'
    BY <1>2, <1>9, <1>14, <2>1 DEF Unmixed
  <2>3. ASSUME pieces' # "mixed" PROVE LaidOut'
    <3>1. wl = 1 /\ pieces' = "split" /\ rec + k = ans
      <4>1. wl = 1 /\ pieces' = "split"
        BY <2>1, <2>3
      <4>. QED
        BY <1>7, <1>9, <4>1
    <3>2. PICK rest \in Seq(Byte) : rest = left /\ rest # <<>>
      <4>1. Len(bytes) \in Nat /\ Len(left) # 0
        BY <1>3, <1>6, <1>8, <1>14
      <4>. QED
        BY <1>8, <4>1
    <3>3. writes' = <<>> /\ resting' = <<rest>>
      <4>1. \A t \in Seq(Seq(Byte)) : Len(t) = 0 => t = <<>>
        OBVIOUS
      <4>2. Tail(writes) = <<>>
        <5>1. Len(Tail(writes)) = 0 /\ Tail(writes) \in Seq(Seq(Byte))
          BY <1>3, <3>1
        <5>. QED
          BY <4>1, <5>1, Zenon
      <4>3. resting' = Append(<<>>, rest)
        BY <1>2, <1>9, <1>14, <3>2
      <4>. QED
        BY <1>2, <4>2, <4>3
    <3>4. FramingType'
      <4>1. writes' \in Seq(Seq(Byte)) /\ resting' \in Seq(Seq(Byte))
        BY <3>2, <3>3
      <4>. QED
        BY <1>1, <1>2, <1>8, <3>1, <4>1 DEF FramingType
    <3>5. Ordered'
      BY <1>12
    <3>6. Framed((buffer' \o down') \o rest, Due(k)')
      BY <1>2, <1>8, <1>9, <1>11, <3>2
    <3>7. Framed((buffer \o down) \o rest, Due(k))'
      BY <3>6 DEF Framed, Layout
    <3>8. Split(rest, k)'
      BY <1>2, <1>9, <3>1, <3>2, <3>3 DEF Split
    <3>9. DownLaid'
      BY <1>11, <3>7, <3>8 DEF DownLaid
    <3>. QED
      BY <1>10, <3>4, <3>5, <3>9 DEF LaidOut
  <2>. QED
    BY <2>2, <2>3
<1>. QED
  BY <1>13, <1>14

LEMMA ResumeFraming ==
  ASSUME LaidOut, Resume
  PROVE  LaidOut'
<1>1. FramingType /\ Ordered /\ UpLaid /\ DownLaid
  BY DEF LaidOut
<1>2. /\ resting # <<>> /\ writes' = Append(writes, Head(resting)) /\ resting' = Tail(resting)
      /\ UNCHANGED <<link, connections, connected, asked, buffer, received>>
      /\ UNCHANGED <<reading, expects, answered, pieces, alive, up, down>>
  BY DEF Resume, clientSide
<1>3. FramingType'
  <2>1. writes' \in Seq(Seq(Byte)) /\ resting' \in Seq(Seq(Byte))
    <3>1. writes \in Seq(Seq(Byte)) /\ resting \in Seq(Seq(Byte))
      BY <1>1 DEF FramingType
    <3>2. Head(resting) \in Seq(Byte) /\ Tail(resting) \in Seq(Seq(Byte))
      BY <1>2, <3>1
    <3>. QED
      BY <1>2, <3>1, <3>2
  <2>. QED
    BY <1>1, <1>2, <2>1 DEF FramingType
<1>4. Ordered' /\ alive
  BY <1>1, <1>2 DEF Ordered
<1>5. UpLaid'
  BY <1>1, <1>2, UpUntouched
<1>6. PICK rest \in Seq(Byte), k \in 0..Len(answered) - Len(received) :
        /\ Framed((buffer \o down) \o rest, Due(k))
        /\ Split(rest, k)
  BY <1>1, <1>2, <1>4 DEF DownLaid, Whole
<1>7. writes' = <<rest>> /\ resting' = <<>>
  <2>1. writes = <<>> /\ resting = <<rest>>
    BY <1>2, <1>6 DEF Split
  <2>. QED
    BY <1>2, <2>1
<1>8. Split(rest, k)'
  BY <1>2, <1>6, <1>7 DEF Split
<1>9. Framed((buffer \o down) \o rest, Due(k))'
  <2>1. Due(k)' = Due(k)
    BY <1>2 DEF Due
  <2>2. Framed((buffer' \o down') \o rest, Due(k)')
    BY <1>2, <1>6, <2>1
  <2>. QED
    BY <2>2 DEF Framed, Layout
<1>10. DownLaid'
  BY <1>2, <1>8, <1>9 DEF DownLaid
<1>. QED
  BY <1>3, <1>4, <1>5, <1>10 DEF LaidOut

(* An answer begun on an Uncut connection finds no other half sent.        *)
LEMMA SendMessageUnmixed ==
  ASSUME LaidOut, Uncut(link) => Unmixed, reading, Unanswered # <<>>,
         NEW body \in Bodies, SendMessage(body), link' = link
  PROVE  Uncut(link') => Unmixed'
<1>1. FramingType /\ Ordered /\ DownLaid
  BY DEF LaidOut
<1>2. pieces' = IF pieces = "whole" THEN "whole" ELSE "mixed"
  BY DEF SendMessage
<1>3. SUFFICES ASSUME Uncut(link), pieces # "whole" PROVE FALSE
  BY <1>2 DEF Unmixed
<1>4. link.window = 1 /\ pieces = "split"
  BY <1>1, <1>3 DEF Unmixed, FramingType
<1>5. PICK r \in Nat, a \in Nat, q \in Nat :
        /\ r = Len(received) /\ a = Len(answered) /\ q = Len(asked)
        /\ r <= a /\ a <= q /\ q - r <= 1 /\ alive
  BY <1>1, <1>4 DEF FramingType, Ordered
<1>6. PICK rest \in Seq(Byte), k \in 0..a - r : Split(rest, k)
  BY <1>1, <1>4, <1>5 DEF DownLaid, Whole
<1>7. k # 0 /\ r + k = a
  BY <1>5, <1>6 DEF Split
<1>8. q > a
  <2>1. Len(Unanswered) = q - a /\ Unanswered \in Seq(Bodies)
    BY <1>1, <1>5, PiecesType DEF FramingType, Unanswered
  <2>2. Len(Unanswered) # 0
    BY <2>1
  <2>. QED
    BY <1>5, <2>1, <2>2
<1>. QED
  BY <1>5, <1>7, <1>8
----------------------------------------------------------------------------
(* Theorems *)

LEMMA ChannelTypes ==
  ASSUME LaidOut
  PROVE  /\ Unanswered \in Seq(Bodies) /\ Len(Unanswered) = Len(asked) - Len(answered)
         /\ Got \in Seq(Bodies) /\ Len(Got) = Len(answered) - Len(received)
         /\ asked \in Seq(Bodies) /\ answered \in Seq(Bodies) /\ received \in Seq(Bodies)
         /\ Len(answered) <= Len(asked) /\ Len(received) <= Len(answered)
<1>1. /\ asked \in Seq(Bodies) /\ answered \in Seq(Bodies) /\ received \in Seq(Bodies)
      /\ Len(answered) <= Len(asked) /\ Len(received) <= Len(answered)
  BY DEF LaidOut, FramingType, Ordered
<1>2. Len(answered) \in Nat /\ Len(received) \in Nat
  BY <1>1
<1>3. Unanswered \in Seq(Bodies) /\ Len(Unanswered) = Len(asked) - Len(answered)
  BY <1>1, <1>2, PiecesType DEF Unanswered
<1>4. Got \in Seq(Bodies) /\ Len(Got) = Len(answered) - Len(received)
  BY <1>1, <1>2, PiecesType DEF Got
<1>. QED
  BY <1>1, <1>3, <1>4

(* The request the Session is reading is the first of those to handle.     *)
LEMMA ReadHeaderSees ==
  ASSUME LaidOut, ReadHeader
  PROVE  /\ Unanswered # <<>>
         /\ LengthIn(Prefix(up, HeaderSize)) = Len(Head(Unanswered))
         /\ Head(Unanswered) \in Bodies
<1>1. reading /\ expects = 0 /\ Len(up) >= HeaderSize
  BY DEF ReadHeader
<1>2. up \in Seq(Byte) /\ HeaderSize \in Nat \ {0}
  BY FramingAssumption DEF LaidOut, FramingType
<1>3. Begun \o up = up
  BY <1>1, <1>2 DEF Begun
<1>4. Framed(up, Unanswered) /\ up # <<>>
  BY <1>1, <1>2, <1>3 DEF LaidOut, UpLaid
<1>. QED
  BY <1>2, <1>4, ChannelTypes, FirstMessage

LEMMA InitFraming == FramingInit => FramingInv
<1>1. FramingInit => link \in Links /\ connections \in Nat /\ Unmixed
  BY DEF FramingInit, Unmixed
<1>. QED
  BY <1>1, InitLaidOut DEF FramingInv

(* Once they are mixed, pieces stay so until another connection.           *)
LEMMA MixedFraming ==
  ASSUME FramingInv, FramingNext, pieces = "mixed"
  PROVE  FramingInv'
<1>1. link \in Links /\ connections \in Nat /\ ~Uncut(link)
  BY DEF FramingInv, Unmixed
<1>2. CASE OnDisconnected
  <2>1. link' \in Links /\ connections' \in Nat /\ ~Uncut(link')
    BY <1>1, <1>2 DEF OnDisconnected
  <2>2. LaidOut'
    BY <1>2, OnDisconnectedFraming
  <2>. QED
    BY <2>1, <2>2 DEF FramingInv
<1>3. CASE ~OnDisconnected
  <2>1. UNCHANGED <<link, connections>> /\ pieces' = "mixed"
    <3>1. CASE \E body \in Bodies : SendRequest(body)
      BY <3>1 DEF SendRequest, serverSide
    <3>2. CASE ReadHeader \/ ReadBody
      BY <3>2 DEF ReadHeader, ReadBody, SendMessage, clientSide
    <3>3. CASE WriteSome \/ Resume \/ SessionEnds \/ ConnectionBreaks
      BY <3>3 DEF WriteSome, Resume, SessionEnds, ConnectionBreaks, clientSide
    <3>4. CASE OnReadyRead \/ TryProcessBuffer
      BY <3>4 DEF OnReadyRead, TryProcessBuffer, serverSide
    <3>. QED
      BY <1>3, <3>1, <3>2, <3>3, <3>4 DEF FramingNext
  <2>2. ~Uncut(link') /\ link' \in Links /\ connections' \in Nat
    BY <1>1, <2>1
  <2>. QED
    BY <2>1, <2>2 DEF FramingInv
<1>. QED
  BY <1>2, <1>3

LEMMA NextFraming ==
  ASSUME FramingInv, [FramingNext]_framingVars
  PROVE  FramingInv'
<1>1. CASE UNCHANGED framingVars
  <2>1. ASSUME LaidOut PROVE LaidOut'
    <3>1. FramingType' /\ Ordered'
      BY <1>1, <2>1 DEF LaidOut, FramingType, Ordered, framingVars, clientSide, serverSide
    <3>2. UpLaid'
      BY <1>1, <2>1, UpUntouched DEF LaidOut, framingVars, clientSide, serverSide
    <3>3. DownLaid'
      BY <1>1, <2>1, DownUntouched DEF LaidOut, framingVars, clientSide, serverSide
    <3>. QED
      BY <3>1, <3>2, <3>3 DEF LaidOut
  <2>2. UNCHANGED <<link, connections, pieces>>
    BY <1>1 DEF framingVars, clientSide, serverSide
  <2>3. Uncut(link') => Unmixed'
    BY <2>2 DEF FramingInv, Unmixed
  <2>. QED
    BY <2>1, <2>2, <2>3 DEF FramingInv
<1>2. CASE FramingNext /\ pieces = "mixed"
  BY <1>2, MixedFraming
<1>3. CASE FramingNext /\ pieces # "mixed"
  <2>0. LaidOut /\ link \in Links /\ connections \in Nat /\ (Uncut(link) => Unmixed)
    BY <1>3 DEF FramingInv
  <2>1. CASE \E body \in Bodies : SendRequest(body)
    <3>1. UNCHANGED <<link, connections, pieces>>
      BY <2>1 DEF SendRequest, serverSide
    <3>2. LaidOut'
      BY <2>0, <2>1, SendRequestFraming
    <3>. QED
      BY <2>0, <3>1, <3>2 DEF FramingInv, Unmixed
  <2>2. CASE ReadHeader
    <3>1. UNCHANGED <<link, connections, asked>>
      BY <2>2 DEF ReadHeader, clientSide
    <3>2. Uncut(link') => Unmixed'
      <4>1. CASE SendMessage(InvalidLength)
        <5>1. InvalidLength \in Bodies /\ reading /\ Unanswered # <<>>
          BY <2>0, <2>2, ReadHeaderSees, FramingAssumption DEF ReadHeader
        <5>. QED
          BY <2>0, <3>1, <4>1, <5>1, SendMessageUnmixed
      <4>2. CASE pieces' = pieces
        BY <2>0, <3>1, <4>2 DEF Unmixed
      <4>. QED
        BY <2>2, <4>1, <4>2 DEF ReadHeader
    <3>3. pieces' # "mixed" => LaidOut'
      BY <2>0, <2>2, ReadHeaderFraming
    <3>. QED
      BY <2>0, <3>1, <3>2, <3>3 DEF FramingInv
  <2>3. CASE ReadBody
    <3>1. UNCHANGED <<link, connections, asked>> /\ SendMessage(Answer[Prefix(up, expects)])
          /\ reading
      BY <2>3 DEF ReadBody, clientSide
    <3>2. Answer[Prefix(up, expects)] \in Bodies /\ Unanswered # <<>>
      BY <2>0, <2>3, ReadBodySees
    <3>3. Uncut(link') => Unmixed'
      BY <2>0, <3>1, <3>2, SendMessageUnmixed
    <3>4. pieces' # "mixed" => LaidOut'
      BY <2>0, <2>3, ReadBodyFraming
    <3>. QED
      BY <2>0, <3>1, <3>3, <3>4 DEF FramingInv
  <2>4. CASE WriteSome
    <3>1. UNCHANGED <<link, connections>>
      BY <2>4 DEF WriteSome, clientSide
    <3>2. (pieces' # "mixed" => LaidOut') /\ (Uncut(link) => Unmixed')
      BY <2>0, <2>4, WriteSomeFraming
    <3>. QED
      BY <2>0, <3>1, <3>2 DEF FramingInv
  <2>5. CASE Resume \/ SessionEnds \/ ConnectionBreaks
    <3>1. UNCHANGED <<link, connections, pieces>>
      BY <2>5 DEF Resume, SessionEnds, ConnectionBreaks, clientSide
    <3>2. LaidOut'
      BY <2>0, <2>5, ResumeFraming, SessionEndsFraming, ConnectionBreaksFraming
    <3>. QED
      BY <2>0, <3>1, <3>2 DEF FramingInv, Unmixed
  <2>6. CASE OnReadyRead \/ TryProcessBuffer
    <3>1. UNCHANGED <<link, connections, pieces>>
      BY <2>6 DEF OnReadyRead, TryProcessBuffer, serverSide
    <3>2. LaidOut'
      BY <2>0, <2>6, OnReadyReadFraming, TryProcessBufferFraming
    <3>. QED
      BY <2>0, <3>1, <3>2 DEF FramingInv, Unmixed
  <2>7. CASE OnDisconnected
    <3>1. link' = link /\ connections' = connections + 1 /\ pieces' = "whole"
      BY <2>7 DEF OnDisconnected
    <3>2. LaidOut'
      BY <2>7, OnDisconnectedFraming
    <3>. QED
      BY <2>0, <3>1, <3>2 DEF FramingInv, Unmixed
  <2>. QED
    BY <1>3, <2>1, <2>2, <2>3, <2>4, <2>5, <2>6, <2>7 DEF FramingNext
<1>. QED
  BY <1>1, <1>2, <1>3

(* On both ways of a connection the bytes are laid out as the frames of    *)
(* what was sent, wherever the reads and the writes cut them, until pieces *)
(* of two answers mix; and on an Uncut connection they never do:           *)
(* sendRequest, readHeader, readBody, sendMessage, onReadyRead and         *)
(* tryProcessBuffer.                                                       *)
THEOREM FramingInvariance == FramingSpec => []FramingInv
<1>1. FramingInit => FramingInv
  BY InitFraming
<1>2. FramingInv /\ [FramingNext]_framingVars => FramingInv'
  BY NextFraming
<1>. QED
  BY <1>1, <1>2, PTL DEF FramingSpec

(* messageReceived gets the answers of the server whole, in order and      *)
(* nothing else, on any kind of connection, unless async_write sent one in *)
(* part while another was under way.                                       *)
THEOREM AnswersAlwaysIntact == FramingSpec => []AnswersIntact
<1>1. FramingInv => AnswersIntact
  <2>1. SUFFICES ASSUME FramingInv, pieces # "mixed" PROVE IsPrefix(received, answered)
    BY DEF AnswersIntact
  <2>2. /\ received \in Seq(Bodies) /\ answered \in Seq(Bodies)
        /\ Len(received) <= Len(answered)
        /\ \A i \in 1..Len(received) : received[i] = answered[i]
    BY <2>1 DEF FramingInv, LaidOut, FramingType, Ordered
  <2>3. /\ SubSeq(received, 1, Len(received)) \in Seq(Bodies)
        /\ Len(SubSeq(received, 1, Len(received))) = Len(received)
        /\ SubSeq(answered, 1, Len(received)) \in Seq(Bodies)
        /\ Len(SubSeq(answered, 1, Len(received))) = Len(received)
        /\ \A i \in 1..Len(received) : SubSeq(received, 1, Len(received))[i] = received[i]
        /\ \A i \in 1..Len(received) : SubSeq(answered, 1, Len(received))[i] = answered[i]
    BY <2>2
  <2>4. SubSeq(received, 1, Len(received)) = SubSeq(answered, 1, Len(received))
    BY <2>2, <2>3, SameSequence
  <2>. QED
    BY <2>2, <2>4 DEF IsPrefix
<1>. QED
  BY <1>1, FramingInvariance, PTL

(* No body longer than the server accepts is begun.                        *)
Accepted == expects <= MaxLength

LEMMA AlwaysAccepted == FramingSpec => []Accepted
<1>1. FramingInit => Accepted
  BY FramingAssumption DEF FramingInit, Accepted
<1>2. Accepted /\ [FramingNext]_framingVars => Accepted'
  <2>1. SUFFICES ASSUME Accepted, [FramingNext]_framingVars PROVE Accepted'
    OBVIOUS
  <2>2. CASE expects' = expects
    BY <2>1, <2>2 DEF Accepted
  <2>3. CASE ReadHeader
    BY <2>1, <2>3 DEF ReadHeader, Accepted
  <2>4. CASE ReadBody \/ OnDisconnected
    BY <2>4, FramingAssumption DEF ReadBody, OnDisconnected, Accepted
  <2>5. expects' = expects \/ ReadHeader \/ ReadBody \/ OnDisconnected
    <3>1. CASE \E body \in Bodies : SendRequest(body)
      BY <3>1 DEF SendRequest, serverSide
    <3>2. CASE WriteSome \/ Resume \/ SessionEnds \/ ConnectionBreaks
      BY <3>2 DEF WriteSome, Resume, SessionEnds, ConnectionBreaks
    <3>3. CASE OnReadyRead \/ TryProcessBuffer
      BY <3>3 DEF OnReadyRead, TryProcessBuffer, serverSide
    <3>4. CASE UNCHANGED framingVars
      BY <3>4 DEF framingVars, serverSide
    <3>. QED
      BY <2>1, <3>1, <3>2, <3>3, <3>4 DEF FramingNext
  <2>. QED
    BY <2>2, <2>3, <2>4, <2>5
<1>. QED
  BY <1>1, <1>2, PTL DEF FramingSpec

(* A client's connections stay of one kind.                                *)
LEMMA LinkStays ==
  ASSUME [FramingNext]_framingVars
  PROVE  link' = link
<1>1. CASE UNCHANGED framingVars
  BY <1>1 DEF framingVars, clientSide
<1>2. CASE \E body \in Bodies : SendRequest(body)
  BY <1>2 DEF SendRequest
<1>3. CASE ReadHeader \/ ReadBody \/ WriteSome \/ Resume \/ SessionEnds \/ ConnectionBreaks
  BY <1>3 DEF ReadHeader, ReadBody, WriteSome, Resume, SessionEnds, ConnectionBreaks, clientSide
<1>4. CASE OnReadyRead \/ TryProcessBuffer \/ OnDisconnected
  BY <1>4 DEF OnReadyRead, TryProcessBuffer, OnDisconnected
<1>. QED
  BY <1>1, <1>2, <1>3, <1>4 DEF FramingNext

LEMMA AskRefines ==
  ASSUME LaidOut, Uncut(link), NEW body \in Bodies, SendRequest(body)
  PROVE  Channel!Ask(body) \/ UNCHANGED Channel!channelVars
<1>1. /\ asked' = Append(asked, body)
      /\ UNCHANGED <<link, received, reading, answered>>
  BY DEF SendRequest, serverSide
<1>2. asked \in Seq(Bodies) /\ Len(answered) \in Nat /\ Len(answered) <= Len(asked)
  BY ChannelTypes DEF LaidOut, FramingType
<1>3. Rest(asked', Len(answered)) = Append(Rest(asked, Len(answered)), body)
  BY <1>1, <1>2, RestOfAppend
<1>4. Asked' = IF reading THEN Append(Asked, body) ELSE Asked
  BY <1>1, <1>3 DEF Asked, Handled
<1>5. Got' = Got
  BY <1>1 DEF Got
<1>6. CASE reading
  BY <1>1, <1>4, <1>5, <1>6 DEF Channel!Ask, Asked, Got
<1>7. CASE ~reading
  BY <1>1, <1>4, <1>5, <1>7 DEF Channel!channelVars, Asked, Got
<1>. QED
  BY <1>6, <1>7

LEMMA ReadHeaderRefines ==
  ASSUME LaidOut, Uncut(link), ReadHeader
  PROVE  Channel!Refuse \/ UNCHANGED Channel!channelVars
<1>. DEFINE len == LengthIn(Prefix(up, HeaderSize))
            m == Head(Unanswered)
<1>1. Unanswered # <<>> /\ len = Len(m) /\ m \in Bodies /\ Len(m) \in Nat \ {0}
  BY ReadHeaderSees, BodyType
<1>2. /\ reading /\ UNCHANGED <<link, asked, received>>
      /\ \/ /\ len = 0 \/ len > MaxLength
            /\ SendMessage(InvalidLength) /\ reading' = FALSE
         \/ UNCHANGED <<reading, answered>>
  BY DEF ReadHeader, clientSide
<1>. HIDE DEF len, m
<1>3. Asked = Unanswered
  BY <1>2 DEF Asked, Unanswered, Handled
<1>4. CASE UNCHANGED <<reading, answered>>
  <2>1. Asked' = Asked /\ Got' = Got /\ received' = received /\ reading' = reading
    BY <1>2, <1>4 DEF Asked, Handled, Got
  <2>. QED
    BY <1>2, <2>1 DEF Channel!channelVars
<1>5. CASE (len = 0 \/ len > MaxLength) /\ SendMessage(InvalidLength) /\ reading' = FALSE
  <2>1. Got' = Append(Got, InvalidLength)
    <3>1. answered \in Seq(Bodies) /\ InvalidLength \in Bodies
          /\ Len(received) \in Nat /\ Len(received) <= Len(answered)
      BY ChannelTypes, FramingAssumption DEF LaidOut, FramingType
    <3>2. answered' = Append(answered, InvalidLength)
      BY <1>5 DEF SendMessage
    <3>. QED
      BY <1>2, <3>1, <3>2, RestOfAppend DEF Got
  <2>2. Asked' = <<>>
    BY <1>5 DEF Asked
  <2>3. m \in {b \in Bodies : Len(b) > MaxLength}
    BY <1>1, <1>5
  <2>4. Asked # <<>> /\ Head(Asked) = m
    BY <1>1, <1>3 DEF m
  <2>. QED
    BY <1>2, <1>5, <2>1, <2>2, <2>3, <2>4 DEF Channel!Refuse, Asked, Got
<1>. QED
  BY <1>2, <1>4, <1>5

LEMMA ReadBodyRefines ==
  ASSUME LaidOut, Uncut(link), Accepted, ReadBody, pieces' # "mixed"
  PROVE  Channel!Handle
<1>. DEFINE m == Head(Unanswered)
<1>1. /\ Unanswered # <<>> /\ Prefix(up, expects) = m
      /\ expects = Len(m) /\ Unanswered' = Tail(Unanswered)
  BY ReadBodyFraming, ReadBodySees
<1>2. /\ reading /\ UNCHANGED <<link, asked, received, reading>>
      /\ SendMessage(Answer[Prefix(up, expects)])
  BY DEF ReadBody, clientSide
<1>3. m \in Bodies
  BY <1>1, ChannelTypes
<1>. HIDE DEF m
<1>4. Asked = Unanswered /\ Asked' = Unanswered'
  BY <1>2 DEF Asked, Unanswered, Handled
<1>5. Got' = Append(Got, Answer[m])
  <2>0. Answer[m] \in Bodies
    BY <1>3, FramingAssumption
  <2>1. answered \in Seq(Bodies) /\ Len(received) \in Nat /\ Len(received) <= Len(answered)
    BY ChannelTypes DEF LaidOut, FramingType
  <2>2. answered' = Append(answered, Answer[m])
    BY <1>1, <1>2 DEF SendMessage
  <2>. QED
    BY <1>2, <2>0, <2>1, <2>2, RestOfAppend DEF Got
<1>6. m \notin {b \in Bodies : Len(b) > MaxLength}
  <2>1. expects <= MaxLength /\ expects \in Nat /\ MaxLength \in Nat
    BY FramingAssumption DEF Accepted, LaidOut, FramingType
  <2>. QED
    BY <1>1, <2>1
<1>7. Asked # <<>> /\ Head(Asked) = m /\ Asked' = Tail(Asked)
  BY <1>1, <1>4 DEF m
<1>. QED
  BY <1>2, <1>5, <1>6, <1>7 DEF Channel!Handle, Asked, Got

LEMMA TryProcessBufferRefines ==
  ASSUME LaidOut, Uncut(link), TryProcessBuffer
  PROVE  Channel!Receive
<1>1. /\ Len(received) < Len(answered)
      /\ received' = Append(received, answered[Len(received) + 1])
  BY TryProcessBufferFraming
<1>2. UNCHANGED <<link, asked, reading, answered>>
  BY DEF TryProcessBuffer, serverSide
<1>3. PICK r \in Nat : r = Len(received) /\ r + 1 <= Len(answered)
  <2>1. Len(received) \in Nat /\ Len(answered) \in Nat
    BY ChannelTypes
  <2>. QED
    BY <1>1, <2>1
<1>4. Len(received') = r + 1
  BY <1>1, <1>3, ChannelTypes
<1>5. Got \in Seq(Bodies) /\ Got # <<>> /\ Head(Got) = answered[r + 1]
  <2>1. answered \in Seq(Bodies) /\ r <= Len(answered)
    BY <1>3, ChannelTypes
  <2>2. /\ Rest(answered, r) \in Seq(Bodies) /\ Len(Rest(answered, r)) = Len(answered) - r
        /\ \A i \in 1..(Len(answered) - r) : Rest(answered, r)[i] = answered[r + i]
    BY <2>1, PiecesType
  <2>3. 1 \in 1..(Len(answered) - r) /\ Len(Rest(answered, r)) # 0
    BY <1>3, <2>1, <2>2
  <2>4. Got = Rest(answered, r)
    BY <1>3 DEF Got
  <2>. QED
    BY <2>2, <2>3, <2>4
<1>6. Got' = Tail(Got)
  <2>1. answered \in Seq(Bodies)
    BY ChannelTypes
  <2>2. Rest(Rest(answered, r), 1) = Rest(answered, r + 1)
    BY <1>3, <2>1, PiecesBehind
  <2>3. Got = Rest(answered, r) /\ Got' = Rest(answered, r + 1)
    BY <1>2, <1>3, <1>4 DEF Got
  <2>. QED
    BY <1>5, <2>2, <2>3, RestOne
<1>7. Asked' = Asked
  BY <1>2 DEF Asked, Handled
<1>8. received' = Append(received, Head(Got))
  BY <1>1, <1>3, <1>5
<1>. QED
  BY <1>2, <1>5, <1>6, <1>7, <1>8 DEF Channel!Receive, Asked, Got

LEMMA EndRefines ==
  ASSUME FramingInv, Uncut(link), ConnectionBreaks \/ OnDisconnected
  PROVE  Channel!Break \/ Channel!Disconnect \/ UNCHANGED Channel!channelVars
<1>1. CASE ConnectionBreaks
  <2>1. reading' = FALSE /\ UNCHANGED <<link, asked, answered, received>>
    BY <1>1 DEF ConnectionBreaks, clientSide
  <2>2. Asked' = <<>> /\ Got' = Got /\ (~reading => Asked = <<>>)
    BY <2>1 DEF Asked, Got
  <2>3. CASE reading
    BY <2>1, <2>2, <2>3 DEF Channel!Break, Asked, Got
  <2>4. CASE ~reading
    <3>1. reading' = reading
      <4>1. reading \in BOOLEAN
        BY DEF FramingInv, Unmixed, LaidOut, FramingType
      <4>. QED
        BY <2>1, <2>4, <4>1
    <3>. QED
      BY <2>1, <2>2, <2>4, <3>1 DEF Channel!channelVars, Asked, Got
  <2>. QED
    BY <2>3, <2>4
<1>2. CASE OnDisconnected
  <2>1. ~reading
    BY <1>2 DEF OnDisconnected, FramingInv, Unmixed, LaidOut, Ordered
  <2>2. /\ reading' \in BOOLEAN /\ received' = <<>> /\ asked' = <<>> /\ answered' = <<>>
        /\ link' = link
    BY <1>2, OnDisconnectedFraming DEF OnDisconnected, LaidOut, FramingType
  <2>3. Asked' = <<>> /\ Got' = <<>>
    BY <2>2 DEF Asked, Got, Rest, Handled
  <2>. QED
    BY <2>1, <2>2, <2>3 DEF Channel!Disconnect, Asked, Got
<1>. QED
  BY <1>1, <1>2

(* Every step of the bytes of an Uncut connection is a step of the channel *)
(* of messages, or none of its steps: a request is asked, refused or       *)
(* handled where its header or its body has been read, and an answer       *)
(* received where tryProcessBuffer finds it whole.                         *)
THEOREM BytesImplementChannel ==
  FramingSpec => Channel!Init /\ [][Channel!Next]_(Channel!channelVars)
<1>1. FramingInit => Channel!Init
  <2>1. SUFFICES ASSUME FramingInit PROVE Channel!Init
    OBVIOUS
  <2>2. Asked = <<>> /\ Got = <<>> /\ received = <<>> /\ reading = TRUE
    BY <2>1 DEF FramingInit, Rest, Handled, Asked, Got
  <2>. QED
    BY <2>2 DEF Channel!Init
<1>2. FramingInv /\ Accepted /\ [FramingNext]_framingVars
        => [Channel!Next]_(Channel!channelVars)
  <2>1. SUFFICES ASSUME FramingInv, Accepted, [FramingNext]_framingVars
                 PROVE  Channel!Next \/ UNCHANGED Channel!channelVars
    BY DEF Channel!channelVars
  <2>2. CASE ~Uncut(link)
    <3>1. link' = link
      BY <2>1, LinkStays
    <3>. QED
      BY <2>2, <3>1 DEF Channel!channelVars
  <2>3. CASE Uncut(link)
    <3>1. LaidOut /\ pieces' # "mixed"
      <4>1. FramingInv' /\ link' = link
        BY <2>1, NextFraming, LinkStays
      <4>2. Uncut(link')
        BY <2>3, <4>1
      <4>. QED
        BY <2>1, <2>3, <4>1, <4>2 DEF FramingInv, Unmixed
    <3>2. CASE \E body \in Bodies : SendRequest(body)
      BY <2>3, <3>1, <3>2, AskRefines DEF Channel!Next
    <3>3. CASE ReadHeader
      BY <2>3, <3>1, <3>3, ReadHeaderRefines DEF Channel!Next
    <3>4. CASE ReadBody
      BY <2>1, <2>3, <3>1, <3>4, ReadBodyRefines DEF Channel!Next
    <3>5. CASE TryProcessBuffer
      BY <2>3, <3>1, <3>5, TryProcessBufferRefines DEF Channel!Next
    <3>6. CASE ConnectionBreaks \/ OnDisconnected
      BY <2>1, <2>3, <3>6, EndRefines DEF Channel!Next
    <3>7. CASE WriteSome \/ Resume \/ SessionEnds \/ OnReadyRead \/ UNCHANGED framingVars
      <4>1. UNCHANGED <<link, asked, answered, received, reading>>
        BY <3>7 DEF WriteSome, Resume, SessionEnds, OnReadyRead, framingVars, clientSide, serverSide
      <4>. QED
        BY <4>1 DEF Channel!channelVars, Asked, Got, Rest, Handled
    <3>. QED
      BY <2>1, <3>2, <3>3, <3>4, <3>5, <3>6, <3>7 DEF FramingNext
  <2>. QED
    BY <2>2, <2>3
<1>. QED
  BY <1>1, <1>2, FramingInvariance, AlwaysAccepted, PTL DEF FramingSpec
=============================================================================
