--------------------------- MODULE SequenceLemmas ---------------------------
(* What operations on sequences do to their elements.                        *)
EXTENDS Naturals, SequencesExt, SequenceTheorems, TLAPS

Distinct(s) == \A i, j \in DOMAIN s : s[i] = s[j] => i = j

LEMMA AppendElements ==
  ASSUME NEW S, NEW s \in Seq(S), NEW e \in S
  PROVE  /\ Append(s, e) \in Seq(S)
         /\ ToSet(Append(s, e)) = ToSet(s) \cup {e}
         /\ Distinct(s) /\ e \notin ToSet(s) => Distinct(Append(s, e))
  <1>1. Append(s, e) \in Seq(S) /\ Len(Append(s, e)) = Len(s) + 1
    OBVIOUS
  <1>2. \A i \in 1..Len(s) : Append(s, e)[i] = s[i]
    OBVIOUS
  <1>3. Append(s, e)[Len(s) + 1] = e
    OBVIOUS
  <1>4. DOMAIN s = 1..Len(s) /\ DOMAIN Append(s, e) = 1..(Len(s) + 1) /\ Len(s) \in Nat
    OBVIOUS
  <1>5. ToSet(Append(s, e)) = ToSet(s) \cup {e}
    BY <1>2, <1>3, <1>4 DEF ToSet
  <1>6. Distinct(s) /\ e \notin ToSet(s) => Distinct(Append(s, e))
    BY <1>2, <1>3, <1>4 DEF Distinct, ToSet
  <1>7. QED
    BY <1>1, <1>5, <1>6

\* An element put in front.
LEMMA PrependElements ==
  ASSUME NEW S, NEW s \in Seq(S), NEW e \in S
  PROVE  /\ <<e>> \o s \in Seq(S)
         /\ ToSet(<<e>> \o s) = ToSet(s) \cup {e}
         /\ Distinct(s) /\ e \notin ToSet(s) => Distinct(<<e>> \o s)
  <1> DEFINE r == <<e>> \o s
  <1>1. /\ r \in Seq(S) /\ Len(r) = Len(s) + 1 /\ r[1] = e
        /\ \A i \in 1..Len(s) : r[i + 1] = s[i]
    OBVIOUS
  <1>2. Len(s) \in Nat /\ DOMAIN s = 1..Len(s) /\ DOMAIN r = 1..(Len(s) + 1)
    BY <1>1
  <1> HIDE DEF r
  <1>3. \A j \in DOMAIN r : j # 1 => j - 1 \in DOMAIN s /\ r[j] = s[j - 1]
    <2> TAKE j \in DOMAIN r
    <2> HAVE j # 1
    <2>1. j - 1 \in 1..Len(s) /\ j - 1 + 1 = j
      BY <1>2
    <2>2. QED
      BY <1>1, <1>2, <2>1
  <1>4. 1 \in DOMAIN r /\ \A i \in DOMAIN s : i + 1 \in DOMAIN r
    BY <1>2
  <1>5. ToSet(r) = ToSet(s) \cup {e}
    <2>1. \A j \in DOMAIN r : r[j] \in ToSet(s) \cup {e}
      BY <1>1, <1>3 DEF ToSet
    <2>2. e \in ToSet(r)
      BY <1>1, <1>4 DEF ToSet
    <2>3. \A i \in DOMAIN s : s[i] \in ToSet(r)
      BY <1>1, <1>2, <1>4 DEF ToSet
    <2>4. QED
      BY <2>1, <2>2, <2>3 DEF ToSet
  <1>6. ASSUME Distinct(s), e \notin ToSet(s), NEW i \in DOMAIN r, NEW j \in DOMAIN r,
               r[i] = r[j]
        PROVE  i = j
    <2>1. \A k \in DOMAIN s : s[k] # e
      BY <1>6 DEF ToSet
    <2>2. CASE i = 1 \/ j = 1
      BY <1>1, <1>3, <1>6, <2>1, <2>2
    <2>3. CASE i # 1 /\ j # 1
      <3>1. i - 1 = j - 1
        BY <1>3, <1>6, <2>3 DEF Distinct
      <3>2. QED
        BY <1>2, <3>1
    <2>4. QED
      BY <2>2, <2>3
  <1>7. QED
    BY <1>1, <1>5, <1>6 DEF r, Distinct

\* Where they come from when one is put in front.
LEMMA PrependPlaces ==
  ASSUME NEW S, NEW s \in Seq(S), NEW e \in S
  PROVE  /\ DOMAIN (<<e>> \o s) = 1..(Len(s) + 1) /\ (<<e>> \o s)[1] = e
         /\ \A k \in 1..(Len(s) + 1) :
                k # 1 => k - 1 \in 1..Len(s) /\ (<<e>> \o s)[k] = s[k - 1]
  <1> DEFINE r == <<e>> \o s
  <1>1. /\ r \in Seq(S) /\ Len(r) = Len(s) + 1 /\ r[1] = e
        /\ \A i \in 1..Len(s) : r[i + 1] = s[i]
    OBVIOUS
  <1>2. Len(s) \in Nat /\ DOMAIN r = 1..(Len(s) + 1)
    BY <1>1
  <1> HIDE DEF r
  <1>3. \A k \in 1..(Len(s) + 1) : k # 1 => k - 1 \in 1..Len(s) /\ r[k] = s[k - 1]
    <2> TAKE k \in 1..(Len(s) + 1)
    <2> HAVE k # 1
    <2>1. k - 1 \in 1..Len(s) /\ k - 1 + 1 = k
      BY <1>2
    <2>2. QED
      BY <1>1, <2>1
  <1>4. QED
    BY <1>1, <1>2, <1>3 DEF r

\* Where the elements come from when one is removed.
LEMMA RemovePlaces ==
  ASSUME NEW S, NEW s \in Seq(S), NEW i \in DOMAIN s
  PROVE  /\ RemoveAt(s, i) \in Seq(S) /\ Len(RemoveAt(s, i)) = Len(s) - 1
         /\ DOMAIN RemoveAt(s, i) = 1..(Len(s) - 1)
         /\ \A k \in 1..(Len(s) - 1) :
                LET m == IF k < i THEN k ELSE k + 1
                IN  m \in 1..Len(s) /\ m # i /\ RemoveAt(s, i)[k] = s[m]
  <1> DEFINE r == RemoveAt(s, i)
             From(k) == IF k < i THEN k ELSE k + 1
  <1>1. Len(s) \in Nat /\ DOMAIN s = 1..Len(s) /\ i \in 1..Len(s)
    OBVIOUS
  <1>2. SubSeq(s, 1, i - 1) \in Seq(S) /\ SubSeq(s, i + 1, Len(s)) \in Seq(S)
    BY <1>1
  <1>3. Len(SubSeq(s, 1, i - 1)) = i - 1 /\ Len(SubSeq(s, i + 1, Len(s))) = Len(s) - i
    BY <1>1
  <1>4. r \in Seq(S) /\ Len(r) = Len(s) - 1
    BY <1>1, <1>2, <1>3, SMTT(20) DEF RemoveAt
  <1>5. \A k \in 1..(Len(s) - 1) : r[k] = s[From(k)]
    <2> TAKE k \in 1..(Len(s) - 1)
    <2> DEFINE front == SubSeq(s, 1, i - 1)
               back == SubSeq(s, i + 1, Len(s))
    <2>1. r = front \o back
      BY DEF RemoveAt
    <2>2. \A j \in 1..(i - 1) : front[j] = s[j]
      BY <1>1
    <2>3. \A j \in 1..(Len(s) - i) : back[j] = s[i + j]
      BY <1>1
    <2> HIDE DEF front, back, r
    <2>4. \A j \in 1..(Len(front) + Len(back)) :
             (front \o back)[j] = IF j <= Len(front) THEN front[j]
                                  ELSE back[j - Len(front)]
      BY <1>2, SMTT(20) DEF front, back
    <2>5. Len(front) = i - 1 /\ Len(back) = Len(s) - i
      BY <1>3 DEF front, back
    <2>6. CASE k < i
      BY <2>1, <2>2, <2>4, <2>5, <2>6, <1>1
    <2>7. CASE ~(k < i)
      <3>1. k - (i - 1) \in 1..(Len(s) - i)
        BY <2>7, <1>1
      <3>2. k \in 1..(Len(front) + Len(back)) /\ ~(k <= Len(front))
        BY <2>5, <2>7, <1>1
      <3>3. r[k] = back[k - (i - 1)]
        BY <2>1, <2>4, <2>5, <3>2
      <3>4. i + (k - (i - 1)) = k + 1
        BY <1>1
      <3>5. QED
        BY <3>1, <3>3, <3>4, <2>3, <2>7
    <2>8. QED
      BY <2>6, <2>7
  <1>6. DOMAIN r = 1..(Len(s) - 1)
    BY <1>4
  <1>7. \A k \in 1..(Len(s) - 1) : From(k) \in 1..Len(s) \ {i}
    BY <1>1
  <1>8. QED
    BY <1>4, <1>5, <1>6, <1>7

LEMMA RemoveElement ==
  ASSUME NEW S, NEW s \in Seq(S), NEW i \in DOMAIN s, Distinct(s)
  PROVE  /\ RemoveAt(s, i) \in Seq(S)
         /\ ToSet(RemoveAt(s, i)) = ToSet(s) \ {s[i]}
         /\ Distinct(RemoveAt(s, i))
  <1>0. /\ RemoveAt(s, i) \in Seq(S) /\ DOMAIN RemoveAt(s, i) = 1..(Len(s) - 1)
        /\ \A k \in 1..(Len(s) - 1) :
                LET m == IF k < i THEN k ELSE k + 1
                IN  m \in 1..Len(s) /\ m # i /\ RemoveAt(s, i)[k] = s[m]
    BY RemovePlaces
  <1> DEFINE r == RemoveAt(s, i)
             From(k) == IF k < i THEN k ELSE k + 1
  <1>1. Len(s) \in Nat /\ DOMAIN s = 1..Len(s) /\ i \in 1..Len(s)
    OBVIOUS
  <1>2. /\ r \in Seq(S) /\ DOMAIN r = 1..(Len(s) - 1)
        /\ \A k \in 1..(Len(s) - 1) :
                From(k) \in 1..Len(s) /\ From(k) # i /\ r[k] = s[From(k)]
    BY <1>0
  <1> HIDE DEF r
  <1>4. r \in Seq(S)
    BY <1>2
  <1>5. \A k \in 1..(Len(s) - 1) : r[k] = s[From(k)]
    BY <1>2
  <1>6. DOMAIN r = 1..(Len(s) - 1)
    BY <1>2
  <1>7. \A k \in 1..(Len(s) - 1) : From(k) \in 1..Len(s) \ {i}
    BY <1>2
  <1>8. \A j \in 1..Len(s) : j # i => \E k \in 1..(Len(s) - 1) : From(k) = j
    <2> TAKE j \in 1..Len(s)
    <2> HAVE j # i
    <2>1. CASE j < i
      BY <2>1, <1>1
    <2>2. CASE j > i
      <3>1. j - 1 \in 1..(Len(s) - 1) /\ From(j - 1) = j
        BY <2>2, <1>1
      <3>2. QED
        BY <3>1
    <2>3. QED
      BY <2>1, <2>2, <1>1
  <1>9. ToSet(r) = ToSet(s) \ {s[i]}
    <2>1. ASSUME NEW k \in DOMAIN r PROVE r[k] \in ToSet(s) \ {s[i]}
      <3>1. r[k] = s[From(k)] /\ From(k) \in 1..Len(s) /\ From(k) # i
        BY <1>5, <1>6, <1>7, <2>1
      <3>2. s[From(k)] # s[i]
        BY <3>1, <1>1 DEF Distinct
      <3>3. QED
        BY <3>1, <3>2, <1>1 DEF ToSet
    <2>2. ASSUME NEW j \in DOMAIN s, s[j] # s[i] PROVE \E k \in DOMAIN r : r[k] = s[j]
      <3>1. PICK k \in 1..(Len(s) - 1) : From(k) = j
        BY <1>1, <1>8, <2>2
      <3>2. QED
        BY <3>1, <1>5, <1>6
    <2>3. QED
      BY <2>1, <2>2 DEF ToSet
  <1>10. Distinct(r)
    <2>1. ASSUME NEW j \in 1..(Len(s) - 1), NEW k \in 1..(Len(s) - 1), r[j] = r[k]
          PROVE  j = k
      <3>1. /\ r[j] = s[From(j)] /\ r[k] = s[From(k)]
            /\ From(j) \in DOMAIN s \ {i} /\ From(k) \in DOMAIN s \ {i}
        BY <1>1, <1>5, <1>7
      <3>2. From(j) = From(k)
        BY <2>1, <3>1 DEF Distinct
      <3>3. j \in Int /\ k \in Int /\ i \in Int
        BY <1>1
      <3>4. QED
        BY <3>1, <3>2, <3>3
    <2>2. QED
      BY <1>6, <2>1 DEF Distinct
  <1>11. QED
    BY <1>4, <1>9, <1>10 DEF r

\* A sequence with others behind it.
LEMMA PushOn ==
  ASSUME NEW S, NEW s \in Seq(S), NEW t \in Seq(S)
  PROVE  /\ s \o t \in Seq(S) /\ Len(s \o t) = Len(s) + Len(t)
         /\ \A i \in 1..Len(s) : (s \o t)[i] = s[i]
         /\ \A i \in 1..Len(t) : (s \o t)[Len(s) + i] = t[i]
  OBVIOUS

LEMMA OneElement ==
  ASSUME NEW S, NEW a \in S
  PROVE  /\ <<a>> \in Seq(S) /\ Len(<<a>>) = 1 /\ DOMAIN <<a>> = 1..1 /\ <<a>>[1] = a
         /\ Append(<<>>, a) = <<a>>
  OBVIOUS

LEMMA OnlyOne == \A i : i \in 1..1 <=> i = 1
  OBVIOUS

LEMMA ThreeElements ==
  ASSUME NEW S, NEW a \in S, NEW b \in S, NEW c \in S
  PROVE  /\ <<a, b, c>> \in Seq(S) /\ Len(<<a, b, c>>) = 3
         /\ DOMAIN <<a, b, c>> = 1..3
         /\ <<a, b, c>>[1] = a /\ <<a, b, c>>[2] = b /\ <<a, b, c>>[3] = c
  OBVIOUS

LEMMA TwoElements ==
  ASSUME NEW S, NEW a \in S, NEW b \in S
  PROVE  <<a>> \o <<b>> = <<a, b>>
  <1> DEFINE r == <<a>> \o <<b>>
             t == <<a, b>>
  <1>1. r \in Seq(S) /\ Len(r) = 2 /\ r[1] = a /\ r[2] = b
    OBVIOUS
  <1>2. t \in Seq(S) /\ Len(t) = 2 /\ t[1] = a /\ t[2] = b
    OBVIOUS
  <1> HIDE DEF r, t
  <1>3. DOMAIN r = 1..2 /\ DOMAIN t = 1..2
    BY <1>1, <1>2
  <1>4. r = [i \in 1..2 |-> r[i]] /\ t = [i \in 1..2 |-> t[i]]
    BY <1>1, <1>2, <1>3
  <1>5. \A i \in 1..2 : r[i] = t[i]
    BY <1>1, <1>2
  <1>6. r = t
    BY <1>4, <1>5
  <1>7. QED
    BY <1>6 DEF r, t

\* All but the last element.
LEMMA FrontFacts ==
  ASSUME NEW S, NEW s \in Seq(S), s # <<>>
  PROVE  /\ Front(s) \in Seq(S) /\ Len(Front(s)) = Len(s) - 1
         /\ \A i \in 1..(Len(s) - 1) : Front(s)[i] = s[i]
  <1> DEFINE n == Len(s) - 1
             f == SubSeq(s, 1, n)
  <1>1. Len(s) \in Nat /\ n \in Nat /\ n \in Int /\ 1 \in Int
    OBVIOUS
  <1>2. \A i \in 1..n : s[i] \in S
    BY <1>1
  <1>3. f \in Seq(S) /\ Len(f) = n /\ \A i \in 1..n : f[i] = s[i]
    <2> HIDE DEF n
    <2>1. /\ f \in Seq(S)
          /\ Len(f) = IF 1 <= n THEN n - 1 + 1 ELSE 0
          /\ \A i \in 1..(n - 1 + 1) : f[i] = s[1 + i - 1]
      BY <1>1, <1>2, SubSeqProperties
    <2>2. QED
      BY <2>1, <1>1
  <1>4. f = Front(s)
    BY DEF Front
  <1> HIDE DEF f
  <1>5. QED
    BY <1>3, <1>4

\* The last element of a sequence replaced by others.
LEMMA PopPush ==
  ASSUME NEW S, NEW s \in Seq(S), s # <<>>, NEW t \in Seq(S)
  PROVE  /\ Front(s) \o t \in Seq(S) /\ Len(Front(s) \o t) = Len(s) - 1 + Len(t)
         /\ \A i \in 1..(Len(s) - 1) : (Front(s) \o t)[i] = s[i]
         /\ \A i \in 1..Len(t) : (Front(s) \o t)[Len(s) - 1 + i] = t[i]
  <1> DEFINE f == Front(s)
  <1>1. f \in Seq(S) /\ Len(f) = Len(s) - 1 /\ \A i \in 1..(Len(s) - 1) : f[i] = s[i]
    BY FrontFacts
  <1> HIDE DEF f
  <1>2. /\ f \o t \in Seq(S) /\ Len(f \o t) = Len(f) + Len(t)
        /\ \A i \in 1..Len(f) : (f \o t)[i] = f[i]
        /\ \A i \in 1..Len(t) : (f \o t)[Len(f) + i] = t[i]
    <2>1. f \in Seq(S)
      BY <1>1
    <2>2. QED
      BY <2>1, PushOn
  <1>3. /\ f \o t \in Seq(S) /\ Len(f \o t) = Len(s) - 1 + Len(t)
        /\ \A i \in 1..(Len(s) - 1) : (f \o t)[i] = s[i]
        /\ \A i \in 1..Len(t) : (f \o t)[Len(s) - 1 + i] = t[i]
    BY <1>1, <1>2
  <1>4. QED
    BY <1>3 DEF f

\* The head and the tail of a sequence.
LEMMA HeadType ==
  ASSUME NEW S, NEW q \in Seq(S), q # <<>>
  PROVE  /\ Head(q) \in S /\ Head(q) = q[1] /\ Tail(q) \in Seq(S)
         /\ Len(q) \in Nat /\ Len(q) > 0 /\ Len(Tail(q)) = Len(q) - 1
         /\ DOMAIN q = 1..Len(q) /\ DOMAIN Tail(q) = 1..(Len(q) - 1)
         /\ \A i \in 1..(Len(q) - 1) : Tail(q)[i] = q[i + 1]
  BY HeadTailProperties

\* A sequence of one element.
LEMMA OnlyElement ==
  ASSUME NEW S, NEW q \in Seq(S), q # <<>>, Len(q) <= 1
  PROVE  Head(q) \in S /\ q = <<Head(q)>>
  <1>1. Len(q) > 0 /\ Len(q) \in Nat /\ Head(q) \in S /\ Head(q) = q[1]
    BY HeadType
  <1>2. Len(q) = 1
    <2>1. \A n \in Nat : n > 0 /\ n <= 1 => n = 1
      OBVIOUS
    <2>2. QED
      BY <1>1, <2>1, Zenon
  <1> DEFINE one == <<Head(q)>>
  <1>3. one \in Seq(S) /\ Len(one) = 1 /\ one[1] = Head(q)
    BY <1>1
  <1> HIDE DEF one
  <1>4. \A i \in 1..Len(q) : q[i] = one[i]
    BY <1>1, <1>2, <1>3
  <1>5. q = one
    BY <1>2, <1>3, <1>4, SeqEqual
  <1>6. QED
    BY <1>1, <1>5 DEF one

\* Where an appended sequence has its elements.
LEMMA AppendPlaces ==
  ASSUME NEW T, NEW q \in Seq(T), NEW e \in T
  PROVE  /\ Append(q, e) \in Seq(T) /\ Len(q) \in Nat /\ DOMAIN q = 1..Len(q)
         /\ DOMAIN Append(q, e) = 1..(Len(q) + 1)
         /\ \A i \in DOMAIN q : Append(q, e)[i] = q[i]
         /\ Append(q, e)[Len(q) + 1] = e
         /\ \A i \in DOMAIN Append(q, e) : i \in DOMAIN q \/ i = Len(q) + 1
  <1>1. Append(q, e) \in Seq(T) /\ Len(Append(q, e)) = Len(q) + 1 /\ Len(q) \in Nat
        /\ \A i \in 1..Len(q) : Append(q, e)[i] = q[i]
    BY AppendProperties
  <1>2. DOMAIN q = 1..Len(q) /\ DOMAIN Append(q, e) = 1..(Len(q) + 1)
    BY <1>1, LenProperties
  <1>3. Append(q, e)[Len(q) + 1] = e
    BY AppendProperties
  <1>4. QED
    BY <1>1, <1>2, <1>3

\* Where a tail has the elements of its sequence.
LEMMA TailPlaces ==
  ASSUME NEW T, NEW q \in Seq(T), q # <<>>
  PROVE  /\ Tail(q) \in Seq(T) /\ 1 \in DOMAIN q /\ q[1] = Head(q) /\ Head(q) \in T
         /\ Len(q) \in Nat /\ DOMAIN q = 1..Len(q) /\ DOMAIN Tail(q) = 1..(Len(q) - 1)
         /\ \A i \in DOMAIN Tail(q) : i + 1 \in DOMAIN q /\ Tail(q)[i] = q[i + 1] /\ 1 < i + 1
         /\ \A i \in DOMAIN q : i = 1 \/ (i - 1 \in DOMAIN Tail(q) /\ q[i] = Tail(q)[i - 1])
  <1>1. /\ Tail(q) \in Seq(T) /\ Len(q) \in Nat /\ Len(q) > 0 /\ Head(q) \in T /\ Head(q) = q[1]
        /\ Len(Tail(q)) = Len(q) - 1 /\ DOMAIN q = 1..Len(q)
        /\ \A i \in 1..(Len(q) - 1) : Tail(q)[i] = q[i + 1]
    BY HeadTailProperties, EmptySeq, LenProperties
  <1>2. DOMAIN Tail(q) = 1..(Len(q) - 1)
    BY <1>1, LenProperties
  <1>3. \A i \in DOMAIN Tail(q) : i + 1 \in DOMAIN q /\ Tail(q)[i] = q[i + 1] /\ 1 < i + 1
    BY <1>1, <1>2
  <1>4. \A i \in DOMAIN q : i = 1 \/ (i - 1 \in DOMAIN Tail(q) /\ q[i] = Tail(q)[i - 1])
    BY <1>1, <1>2
  <1>5. QED
    BY <1>1, <1>2, <1>3, <1>4

\* Append and Tail commute when something is there.
LEMMA TailAppend ==
  ASSUME NEW T, NEW q \in Seq(T), q # <<>>, NEW m \in T
  PROVE  Tail(Append(q, m)) = Append(Tail(q), m)
  <1> DEFINE a == Append(q, m)
             r == Tail(q)
             b == Append(r, m)
  <1>1. /\ a \in Seq(T) /\ Len(q) \in Nat /\ DOMAIN q = 1..Len(q) /\ DOMAIN a = 1..(Len(q) + 1)
        /\ \A i \in DOMAIN q : a[i] = q[i]
        /\ a[Len(q) + 1] = m
    BY AppendPlaces
  <1>2. r \in Seq(T) /\ 1 \in DOMAIN q /\ DOMAIN r = 1..(Len(q) - 1)
        /\ \A i \in DOMAIN r : i + 1 \in DOMAIN q /\ r[i] = q[i + 1]
    BY TailPlaces
  <1>3. Len(r) = Len(q) - 1 /\ Len(r) \in Nat
    BY HeadTailProperties, <1>2, LenProperties
  <1>4. /\ b \in Seq(T) /\ DOMAIN b = 1..(Len(r) + 1)
        /\ \A i \in DOMAIN r : b[i] = r[i]
        /\ b[Len(r) + 1] = m
        /\ \A i \in DOMAIN b : i \in DOMAIN r \/ i = Len(r) + 1
    BY <1>2, AppendPlaces
  <1>5. a # <<>>
    BY <1>1
  <1> HIDE DEF a, r, b
  <1>6. Tail(a) \in Seq(T) /\ DOMAIN Tail(a) = 1..(Len(a) - 1)
        /\ \A i \in DOMAIN Tail(a) : Tail(a)[i] = a[i + 1]
    BY <1>1, <1>5, TailPlaces
  <1>7. Len(a) = Len(q) + 1
    BY <1>1, LenProperties
  <1>8. DOMAIN Tail(a) = DOMAIN b
    BY <1>1, <1>3, <1>4, <1>6, <1>7
  <1>9. \A i \in DOMAIN b : Tail(a)[i] = b[i]
    <2> TAKE i \in DOMAIN b
    <2>1. Tail(a)[i] = a[i + 1]
      BY <1>6, <1>8
    <2>2. CASE i \in DOMAIN r
      BY <1>1, <1>2, <1>4, <2>1, <2>2
    <2>3. CASE i = Len(r) + 1
      <3>1. i + 1 = Len(q) + 1
        BY <1>1, <1>3, <2>3
      <3>2. QED
        BY <1>1, <1>4, <2>1, <2>3, <3>1
    <2>4. QED
      BY <1>4, <2>2, <2>3
  <1>10. Tail(a) = b
    <2>1. Len(Tail(a)) = Len(b)
      BY <1>4, <1>6, <1>8, LenProperties, <1>1, <1>3, <1>7
    <2>2. DOMAIN b = 1..Len(b)
      BY <1>4, LenProperties
    <2>3. QED
      BY <1>4, <1>6, <1>9, <2>1, <2>2, SeqEqual
  <1>11. QED
    BY <1>10 DEF a, r, b

\* Elements of a concatenation.
LEMMA ConcatElements ==
  ASSUME NEW T, NEW q \in Seq(T), NEW e \in Seq(T)
  PROVE  /\ q \o e \in Seq(T)
         /\ \A i \in DOMAIN (q \o e) :
               \/ i \in DOMAIN q /\ (q \o e)[i] = q[i]
               \/ i \notin DOMAIN q /\ i - Len(q) \in DOMAIN e /\ (q \o e)[i] = e[i - Len(q)]
         /\ \A i \in DOMAIN q : i \in DOMAIN (q \o e) /\ (q \o e)[i] = q[i]
         /\ \A j \in DOMAIN e : j + Len(q) \in DOMAIN (q \o e) /\ (q \o e)[j + Len(q)] = e[j]
         /\ Len(q) \in Nat /\ DOMAIN (q \o e) \subseteq Nat
  <1> DEFINE r == q \o e
  <1>1. /\ r \in Seq(T) /\ Len(r) = Len(q) + Len(e) /\ Len(q) \in Nat /\ Len(e) \in Nat
        /\ DOMAIN q = 1..Len(q) /\ DOMAIN e = 1..Len(e)
        /\ \A i \in 1..(Len(q) + Len(e)) : r[i] = IF i <= Len(q) THEN q[i] ELSE e[i - Len(q)]
    BY ConcatProperties, LenProperties
  <1>2. DOMAIN r = 1..(Len(q) + Len(e))
    BY <1>1, LenProperties
  <1> HIDE DEF r
  <1>3. ASSUME NEW i \in DOMAIN r
        PROVE  \/ i \in DOMAIN q /\ r[i] = q[i]
               \/ i \notin DOMAIN q /\ i - Len(q) \in DOMAIN e /\ r[i] = e[i - Len(q)]
    <2>1. CASE i <= Len(q)
      BY <1>1, <1>2, <2>1
    <2>2. CASE ~(i <= Len(q))
      BY <1>1, <1>2, <2>2
    <2>3. QED
      BY <2>1, <2>2
  <1>4. \A i \in DOMAIN q : i \in DOMAIN r /\ r[i] = q[i]
    BY <1>1, <1>2
  <1>5. ASSUME NEW j \in DOMAIN e PROVE j + Len(q) \in DOMAIN r /\ r[j + Len(q)] = e[j]
    <2>1. j + Len(q) \in 1..(Len(q) + Len(e)) /\ ~(j + Len(q) <= Len(q)) /\ (j + Len(q)) - Len(q) = j
      BY <1>1
    <2>2. QED
      BY <1>1, <1>2, <2>1
  <1>6. DOMAIN r \subseteq Nat
    BY <1>1, <1>2
  <1>7. QED
    BY <1>1, <1>3, <1>4, <1>5, <1>6 DEF r
=============================================================================
