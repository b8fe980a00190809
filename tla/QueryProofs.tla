----------------------------- MODULE QueryProofs -----------------------------
(***************************************************************************)
(* Proofs about what a reader gets.                                        *)
(*                                                                         *)
(* Pages: for any number of entries, size of a page, result window,        *)
(* changes and faults, a loop that ends misses at most one entry for every *)
(* one that vanished or moved, lists at most one again for every one that  *)
(* appeared or moved, and only lists too long for the window fail.         *)
(*                                                                         *)
(* Http: for any calls with any options, any requests of other clients and *)
(* any number of lost connections, a call over HTTP is answered as Query   *)
(* answers it, and an answer tells the outcome.                            *)
(***************************************************************************)
EXTENDS Pages, Http, FiniteSetTheorems, SequenceTheorems, TLAPS

-----------------------------------------------------------------------------
(* Pages.                                                                  *)

\* Multiples of a page follow each other at the distance of a page.
LEMMA NextMultiple ==
  ASSUME NEW l \in Nat \ {0}, NEW a \in Nat, a % l = 0
  PROVE  (a + l) % l = 0
<1>1. PICK k \in Nat : a = l * k
  OBVIOUS
<1>2. a + l = l * (k + 1) /\ k + 1 \in Nat
  BY <1>1
<1>3. (l * (k + 1)) % l = 0
  BY <1>2
<1> QED
  BY <1>2, <1>3

LEMMA NoMultipleBetween ==
  ASSUME NEW l \in Nat \ {0}, NEW a \in Nat, NEW b \in Nat, a % l = 0, b % l = 0,
         a <= b, a + l > b
  PROVE  a = b
<1>1. PICK k \in Nat : a = l * k
  OBVIOUS
<1>2. PICK m \in Nat : b = l * m
  OBVIOUS
<1>3. ASSUME k < m PROVE FALSE
  <2>1. m - k - 1 \in Nat /\ m = k + 1 + (m - k - 1)
    BY <1>3
  <2>2. l * m = l * k + l + l * (m - k - 1)
    BY <2>1
  <2>3. l * (m - k - 1) >= 0
    BY <2>1
  <2> QED
    BY <1>1, <1>2, <2>2, <2>3
<1>4. ASSUME m < k PROVE FALSE
  <2>1. k - m \in Nat /\ k - m >= 1
    BY <1>4
  <2>2. l * k = l * m + l * (k - m)
    BY <2>1
  <2>3. l * (k - m) >= 1
    BY <2>1
  <2> QED
    BY <1>1, <1>2, <2>2, <2>3
<1> QED
  BY <1>1, <1>2, <1>3, <1>4

LEMMA MinOfTwo ==
  ASSUME NEW a \in Int, NEW b \in Int
  PROVE  Min({a, b}) = IF a <= b THEN a ELSE b
<1> DEFINE m == IF a <= b THEN a ELSE b
<1>1. m \in {a, b} /\ \A y \in {a, b} : m <= y
  OBVIOUS
<1>2. ASSUME NEW x \in {a, b}, \A y \in {a, b} : x <= y PROVE x = m
  BY <1>2
<1> HIDE DEF m
<1>3. Min({a, b}) = m
  BY <1>1, <1>2 DEF Min
<1> QED
  BY <1>3 DEF m

-----------------------------------------------------------------------------
(* Pages and lists.                                                        *)

\* A slice that begins behind place a and has at most l entries.  (An
\* equation for n would be used by the prover to rewrite in circles.)
LEMMA SliceProperties ==
  ASSUME NEW S, NEW s \in Seq(S), NEW a \in Nat, NEW l \in Nat, NEW n \in Int,
         n <= Len(s), n <= a + l, n >= Len(s) \/ n >= a + l
  PROVE  LET p == SubSeq(s, a + 1, n)
         IN  /\ p \in Seq(S) /\ Len(p) \in Nat /\ Len(p) <= l
             /\ Len(p) = l \/ Len(s) <= a + Len(p)
             /\ Len(s) <= a + l => Len(s) <= a + Len(p)
             /\ \A i \in 1 .. Len(p) : a + i \in DOMAIN s /\ p[i] = s[a + i]
<1> DEFINE p == SubSeq(s, a + 1, n)
           m == a + 1
<1>1. /\ m \in Int /\ m = a + 1
      /\ Len(s) \in Nat /\ DOMAIN s = 1 .. Len(s)
  OBVIOUS
<1>2. \A i \in m .. n : s[i] \in S
  BY <1>1
<1> HIDE DEF m
<1>3. /\ SubSeq(s, m, n) \in Seq(S)
      /\ Len(SubSeq(s, m, n)) = IF m <= n THEN n - m + 1 ELSE 0
      /\ \A i \in 1 .. n - m + 1 : SubSeq(s, m, n)[i] = s[m + i - 1]
  BY <1>1, <1>2, SubSeqProperties
<1>4. p = SubSeq(s, m, n)
  BY DEF m
<1> HIDE DEF p
<1>5. /\ p \in Seq(S)
      /\ m <= n => Len(p) = n - m + 1
      /\ ~ (m <= n) => Len(p) = 0
      /\ \A i \in 1 .. n - m + 1 : p[i] = s[m + i - 1]
  BY <1>3, <1>4
<1>6. Len(p) \in Nat
  BY <1>5
<1>7. Len(p) <= l
  BY <1>1, <1>5, <1>6
<1>8. Len(p) = l \/ Len(s) <= a + Len(p)
  BY <1>1, <1>5, <1>6
<1>9. Len(s) <= a + l => Len(s) <= a + Len(p)
  BY <1>1, <1>5, <1>6
<1>10. ASSUME NEW i \in 1 .. Len(p) PROVE a + i \in DOMAIN s /\ p[i] = s[a + i]
  <2>1. Len(p) = n - m + 1
    BY <1>5, <1>6, <1>10
  <2>2. i \in 1 .. n - m + 1 /\ m + i - 1 = a + i
    BY <1>1, <2>1
  <2>3. a + i \in 1 .. Len(s)
    BY <1>1, <2>2
  <2> QED
    BY <1>1, <1>5, <2>2, <2>3
<1>11. /\ p \in Seq(S) /\ Len(p) \in Nat /\ Len(p) <= l
       /\ Len(p) = l \/ Len(s) <= a + Len(p)
       /\ Len(s) <= a + l => Len(s) <= a + Len(p)
       /\ \A i \in 1 .. Len(p) : a + i \in DOMAIN s /\ p[i] = s[a + i]
  BY <1>5, <1>6, <1>7, <1>8, <1>9, <1>10
<1> QED
  BY <1>11 DEF p

\* What a search returns: the entries behind the offset, as many as there
\* are and the page holds.
LEMMA PageProperties ==
  ASSUME TypeOK
  PROVE  /\ Page \in Seq(Ids) /\ Len(Page) \in Nat /\ Len(Page) <= Limit
         /\ Len(Page) = Limit \/ Len(order) <= offset + Len(Page)
         /\ Len(order) <= offset + Limit => Len(order) <= offset + Len(Page)
         /\ \A i \in 1 .. Len(Page) : offset + i \in DOMAIN order /\ Page[i] = order[offset + i]
<1> DEFINE n == Min({offset + Limit, Len(order)})
<1>1. order \in Seq(Ids) /\ Len(order) \in Nat /\ offset \in Nat /\ Limit \in Nat
  BY PagesAssumption DEF TypeOK
<1>2. /\ n \in Int
      /\ n <= Len(order) /\ n <= offset + Limit
      /\ n >= Len(order) \/ n >= offset + Limit
  <2>1. n = IF offset + Limit <= Len(order) THEN offset + Limit ELSE Len(order)
    BY <1>1, MinOfTwo
  <2> HIDE DEF n
  <2>2. CASE offset + Limit <= Len(order)
    BY <1>1, <2>1, <2>2
  <2>3. CASE ~ (offset + Limit <= Len(order))
    BY <1>1, <2>1, <2>3
  <2> QED
    BY <2>2, <2>3
<1>3. Page = SubSeq(order, offset + 1, n)
  BY DEF Page
<1> DEFINE p == SubSeq(order, offset + 1, n)
<1> HIDE DEF n
<1>4. /\ p \in Seq(Ids) /\ Len(p) \in Nat /\ Len(p) <= Limit
      /\ Len(p) = Limit \/ Len(order) <= offset + Len(p)
      /\ Len(order) <= offset + Limit => Len(order) <= offset + Len(p)
      /\ \A i \in 1 .. Len(p) : offset + i \in DOMAIN order /\ p[i] = order[offset + i]
  <2>1. n <= Len(order) /\ n <= offset + Limit /\ (n >= Len(order) \/ n >= offset + Limit)
    BY ONLY <1>2
  <2>2. order \in Seq(Ids) /\ offset \in Nat /\ Limit \in Nat /\ n \in Int
    BY ONLY <1>1, <1>2
  <2> QED
    BY ONLY <2>1, <2>2, SliceProperties, ZenonT(30)
<1> HIDE DEF p
<1>5. Page = p
  BY <1>3 DEF p
<1> HIDE DEF Page
<1> QED
  BY <1>4, <1>5

\* A part of a list, which may be empty.
LEMMA PartProperties ==
  ASSUME NEW S, NEW s \in Seq(S), NEW a \in Nat \ {0}, NEW b \in Nat,
         b <= Len(s), a <= b + 1
  PROVE  LET p == SubSeq(s, a, b)
         IN  /\ p \in Seq(S) /\ Len(p) = b - a + 1
             /\ \A k \in 1 .. b - a + 1 : p[k] = s[a + k - 1]
<1> DEFINE p == SubSeq(s, a, b)
<1>1. \A k \in a .. b : s[k] \in S
  OBVIOUS
<1>2. /\ p \in Seq(S)
      /\ Len(p) = IF a <= b THEN b - a + 1 ELSE 0
      /\ \A k \in 1 .. b - a + 1 : p[k] = s[a + k - 1]
  BY <1>1, SubSeqProperties
<1> HIDE DEF p
<1>3. Len(p) = b - a + 1
  BY <1>2
<1> QED
  BY <1>2, <1>3 DEF p

\* A list with one more entry.
Inserted(S, t, s, i, d) ==
  /\ t \in Seq(S) /\ Len(t) = Len(s) + 1
  /\ \A k \in 1 .. Len(s) + 1 :
       t[k] = IF k < i THEN s[k] ELSE IF k = i THEN d ELSE s[k - 1]

LEMMA InsertAtProperties ==
  ASSUME NEW S, NEW s \in Seq(S), NEW i \in 1 .. Len(s) + 1, NEW d \in S,
         NEW t, t = InsertAt(s, i, d)
  PROVE  Inserted(S, t, s, i, d)
<1> DEFINE f == SubSeq(s, 1, i - 1)
           g == SubSeq(s, i, Len(s))
           h == f \o <<d>>
<1>1. i \in Nat \ {0} /\ i <= Len(s) + 1 /\ Len(s) \in Nat /\ i - 1 \in Nat /\ i - 1 <= Len(s)
  OBVIOUS
<1>2. /\ f \in Seq(S) /\ Len(f) = i - 1
      /\ \A k \in 1 .. i - 1 : f[k] = s[k]
  <2>1. PICK b \in Nat : b = i - 1
    BY <1>1
  <2>2. /\ SubSeq(s, 1, b) \in Seq(S) /\ Len(SubSeq(s, 1, b)) = b - 1 + 1
        /\ \A k \in 1 .. b - 1 + 1 : SubSeq(s, 1, b)[k] = s[1 + k - 1]
    BY <1>1, <2>1, PartProperties
  <2>3. f = SubSeq(s, 1, b)
    BY <2>1
  <2> HIDE DEF f
  <2>4. \A k \in 1 .. b : k \in 1 .. b - 1 + 1 /\ 1 + k - 1 = k
    BY <2>1
  <2> QED
    BY <1>1, <2>1, <2>2, <2>3, <2>4
<1>3. /\ g \in Seq(S) /\ Len(g) = Len(s) - i + 1
      /\ \A k \in 1 .. Len(s) - i + 1 : g[k] = s[i + k - 1]
  BY <1>1, PartProperties
<1> HIDE DEF f, g
<1>4. /\ h \in Seq(S) /\ Len(h) = i
      /\ \A k \in 1 .. i - 1 : h[k] = s[k]
      /\ h[i] = d
  <2>1. <<d>> \in Seq(S) /\ Len(<<d>>) = 1 /\ <<d>>[1] = d
    OBVIOUS
  <2>2. /\ h \in Seq(S) /\ Len(h) = Len(f) + 1
        /\ \A k \in 1 .. Len(f) + 1 : h[k] = IF k <= Len(f) THEN f[k] ELSE <<d>>[k - Len(f)]
    BY <1>2, <2>1, ConcatProperties
  <2> HIDE DEF h
  <2>3. h[i] = d
    <3>1. i \in 1 .. Len(f) + 1 /\ ~ (i <= Len(f)) /\ i - Len(f) = 1
      BY <1>1, <1>2
    <3> QED
      BY <2>1, <2>2, <3>1
  <2>4. ASSUME NEW k \in 1 .. i - 1 PROVE h[k] = s[k]
    <3>1. k \in 1 .. Len(f) + 1 /\ k <= Len(f)
      BY <1>1, <1>2
    <3> QED
      BY <1>2, <2>2, <3>1
  <2> QED
    BY <1>1, <1>2, <2>2, <2>3, <2>4
<1>5. t = h \o g
  BY DEF InsertAt, f, g
<1> HIDE DEF h
<1>6. /\ t \in Seq(S) /\ Len(t) = Len(h) + Len(g)
      /\ \A k \in 1 .. Len(h) + Len(g) : t[k] = IF k <= Len(h) THEN h[k] ELSE g[k - Len(h)]
  BY ONLY <1>3, <1>4, <1>5, ConcatProperties
<1>7. Len(t) = Len(s) + 1
  BY <1>1, <1>3, <1>4, <1>6
<1>8. ASSUME NEW k \in 1 .. Len(s) + 1
      PROVE  t[k] = IF k < i THEN s[k] ELSE IF k = i THEN d ELSE s[k - 1]
  <2>1. k \in Nat /\ 1 <= k /\ k <= Len(s) + 1 /\ k \in 1 .. Len(h) + Len(g)
    BY <1>1, <1>3, <1>4
  <2>2. CASE k < i
    <3>1. k \in 1 .. i - 1 /\ k <= Len(h)
      BY <1>1, <1>4, <2>1, <2>2
    <3> QED
      BY <1>4, <1>6, <2>1, <2>2, <3>1
  <2>3. CASE k = i
    BY <1>1, <1>4, <1>6, <2>1, <2>3
  <2>4. CASE k > i
    <3>1. ~ (k <= Len(h)) /\ k - Len(h) = k - i /\ ~ (k < i) /\ k # i
      BY <1>1, <1>4, <2>1, <2>4
    <3>2. k - i \in 1 .. Len(s) - i + 1 /\ i + (k - i) - 1 = k - 1
      BY <1>1, <2>1, <2>4
    <3> QED
      BY <1>3, <1>6, <2>1, <3>1, <3>2
  <2> QED
    BY <1>1, <2>1, <2>2, <2>3, <2>4
<1> QED
  BY <1>6, <1>7, <1>8 DEF Inserted

\* A list without one of its entries.
LEMMA RemoveAtProperties ==
  ASSUME NEW S, NEW s \in Seq(S), NEW i \in DOMAIN s
  PROVE  LET t == RemoveAt(s, i)
         IN  /\ t \in Seq(S) /\ Len(t) = Len(s) - 1
             /\ \A k \in 1 .. Len(s) - 1 : t[k] = IF k < i THEN s[k] ELSE s[k + 1]
<1> DEFINE f == SubSeq(s, 1, i - 1)
           g == SubSeq(s, i + 1, Len(s))
           t == RemoveAt(s, i)
<1>1. i \in Nat \ {0} /\ i <= Len(s) /\ Len(s) \in Nat
  OBVIOUS
<1>2. PICK a \in Nat, b \in Nat \ {0} : a = i - 1 /\ b = i + 1
  BY <1>1
<1>3. /\ f \in Seq(S) /\ Len(f) = a
      /\ \A k \in 1 .. a : f[k] = s[k]
  <2>1. /\ SubSeq(s, 1, a) \in Seq(S) /\ Len(SubSeq(s, 1, a)) = a - 1 + 1
        /\ \A k \in 1 .. a - 1 + 1 : SubSeq(s, 1, a)[k] = s[1 + k - 1]
    BY <1>1, <1>2, PartProperties
  <2>2. f = SubSeq(s, 1, a)
    BY <1>2
  <2> HIDE DEF f
  <2>3. \A k \in 1 .. a : k \in 1 .. a - 1 + 1 /\ 1 + k - 1 = k
    BY <1>2
  <2> QED
    BY <1>1, <1>2, <2>1, <2>2, <2>3
<1>4. /\ g \in Seq(S) /\ Len(g) = Len(s) - i
      /\ \A k \in 1 .. Len(s) - i : g[k] = s[i + k]
  <2>1. b <= Len(s) + 1 /\ Len(s) <= Len(s)
    BY <1>1, <1>2
  <2>2. /\ SubSeq(s, b, Len(s)) \in Seq(S) /\ Len(SubSeq(s, b, Len(s))) = Len(s) - b + 1
        /\ \A k \in 1 .. Len(s) - b + 1 : SubSeq(s, b, Len(s))[k] = s[b + k - 1]
    BY <1>1, <2>1, PartProperties
  <2>3. g = SubSeq(s, b, Len(s))
    BY <1>2
  <2> HIDE DEF g
  <2>4. Len(s) - b + 1 = Len(s) - i
    BY <1>1, <1>2
  <2>5. ASSUME NEW k \in 1 .. Len(s) - i
        PROVE  k \in 1 .. Len(s) - b + 1 /\ b + k - 1 = i + k
    <3>1. k \in Int /\ b \in Int /\ i \in Int /\ b = i + 1
      BY <1>1, <1>2
    <3>2. b + k - 1 = i + k
      BY ONLY <3>1
    <3> QED
      BY <2>4, <3>2
  <2> QED
    BY <2>2, <2>3, <2>4, <2>5
<1>5. t = f \o g
  BY DEF RemoveAt
<1> HIDE DEF f, g, t
<1>6. /\ t \in Seq(S) /\ Len(t) = Len(f) + Len(g)
      /\ \A k \in 1 .. Len(f) + Len(g) : t[k] = IF k <= Len(f) THEN f[k] ELSE g[k - Len(f)]
  BY <1>3, <1>4, <1>5, ConcatProperties
<1>7. Len(t) = Len(s) - 1
  BY <1>1, <1>2, <1>3, <1>4, <1>6
<1>8. ASSUME NEW k \in 1 .. Len(s) - 1
      PROVE  t[k] = IF k < i THEN s[k] ELSE s[k + 1]
  <2>1. k \in Nat /\ 1 <= k /\ k <= Len(s) - 1 /\ k \in 1 .. Len(f) + Len(g)
    BY <1>1, <1>6, <1>7
  <2>2. CASE k < i
    <3>1. k \in 1 .. a /\ k <= Len(f)
      BY <1>1, <1>2, <1>3, <2>1, <2>2
    <3> QED
      BY <1>3, <1>6, <2>1, <2>2, <3>1
  <2>3. CASE ~ (k < i)
    <3>1. ~ (k <= Len(f)) /\ k - Len(f) = k - i + 1
      BY <1>1, <1>2, <1>3, <2>1, <2>3
    <3>2. k - i + 1 \in 1 .. Len(s) - i /\ i + (k - i + 1) = k + 1
      BY <1>1, <2>1, <2>3
    <3> QED
      BY <1>4, <1>6, <2>1, <2>3, <3>1, <3>2
  <2> QED
    BY <2>2, <2>3
<1> QED
  BY <1>6, <1>7, <1>8 DEF t

-----------------------------------------------------------------------------
(* The entries in front of a place and behind it.                          *)

InFront(s, a) == {s[k] : k \in {j \in DOMAIN s : j <= a}}

Behind(s, a) == {s[k] : k \in {j \in DOMAIN s : j > a}}

\* An entry less: the places behind it move up, so at most one entry comes to
\* the front.
LEMMA RemoveMoves ==
  ASSUME NEW S, NEW s \in Seq(S), NEW i \in DOMAIN s, NEW a \in Nat
  PROVE  LET t == RemoveAt(s, i)
         IN  /\ Behind(t, a) \subseteq Behind(s, a)
             /\ \E y : InFront(t, a) \subseteq InFront(s, a) \cup {y}
             /\ i > a => InFront(t, a) \subseteq InFront(s, a)
             /\ ToSet(t) \subseteq ToSet(s)
             /\ ToSet(s) \subseteq ToSet(t) \cup {s[i]}
             /\ IsInjective(s) => IsInjective(t) /\ s[i] \notin ToSet(t)
<1> DEFINE t == RemoveAt(s, i)
<1>1. i \in Nat \ {0} /\ i <= Len(s) /\ Len(s) \in Nat /\ DOMAIN s = 1 .. Len(s)
  OBVIOUS
<1>2. /\ t \in Seq(S) /\ Len(t) = Len(s) - 1
      /\ \A k \in 1 .. Len(s) - 1 : t[k] = IF k < i THEN s[k] ELSE s[k + 1]
  BY RemoveAtProperties
<1> HIDE DEF t
<1>3. DOMAIN t = 1 .. Len(s) - 1
  BY <1>2
<1>4. ASSUME NEW k \in DOMAIN t
      PROVE  \E m \in DOMAIN s : /\ t[k] = s[m] /\ m # i /\ m >= k
                                 /\ m = k \/ m = k + 1
                                 /\ k < i => m = k
                                 /\ ~ (k < i) => m = k + 1
  <2>1. k \in Nat /\ 1 <= k /\ k <= Len(s) - 1
    BY <1>1, <1>3
  <2>2. CASE k < i
    <3>1. k \in DOMAIN s /\ k # i /\ k >= k /\ t[k] = s[k]
      BY <1>1, <1>2, <1>3, <2>1, <2>2
    <3> QED
      BY <2>2, <3>1
  <2>3. CASE ~ (k < i)
    <3>1. k + 1 \in DOMAIN s /\ k + 1 # i /\ k + 1 >= k /\ t[k] = s[k + 1]
      BY <1>1, <1>2, <1>3, <2>1, <2>3
    <3> QED
      BY <2>3, <3>1
  <2> QED
    BY <2>2, <2>3
<1>5. ASSUME NEW m \in DOMAIN s, m # i
      PROVE  \E k \in DOMAIN t : t[k] = s[m]
  <2>1. m \in Nat /\ 1 <= m /\ m <= Len(s)
    BY <1>1
  <2>2. CASE m < i
    <3>1. m \in 1 .. Len(s) - 1
      BY <1>1, <2>1, <2>2
    <3> QED
      BY <1>2, <1>3, <2>2, <3>1
  <2>3. CASE ~ (m < i)
    <3>1. m - 1 \in 1 .. Len(s) - 1 /\ ~ (m - 1 < i) /\ m - 1 + 1 = m
      BY <1>1, <1>5, <2>1, <2>3
    <3> QED
      BY <1>2, <1>3, <3>1
  <2> QED
    BY <2>2, <2>3
<1>6. Behind(t, a) \subseteq Behind(s, a)
  <2>1. ASSUME NEW k \in DOMAIN t, k > a PROVE t[k] \in Behind(s, a)
    <3>1. PICK m \in DOMAIN s : t[k] = s[m] /\ m >= k
      BY <1>4
    <3>2. m > a
      BY <1>1, <1>3, <2>1, <3>1
    <3> QED
      BY <3>1, <3>2 DEF Behind
  <2> QED
    BY <2>1 DEF Behind
<1>7. InFront(t, a) \subseteq InFront(s, a) \cup {s[a + 1]}
  <2>1. ASSUME NEW k \in DOMAIN t, k <= a PROVE t[k] \in InFront(s, a) \cup {s[a + 1]}
    <3>1. PICK m \in DOMAIN s : t[k] = s[m] /\ (m = k \/ m = k + 1)
      BY <1>4
    <3>2. m <= a \/ m = a + 1
      BY <1>1, <1>3, <2>1, <3>1
    <3> QED
      BY <3>1, <3>2 DEF InFront
  <2> QED
    BY <2>1 DEF InFront
<1>8. ASSUME i > a PROVE InFront(t, a) \subseteq InFront(s, a)
  <2>1. ASSUME NEW k \in DOMAIN t, k <= a PROVE t[k] \in InFront(s, a)
    <3>1. k < i
      BY <1>1, <1>3, <1>8, <2>1
    <3> QED
      BY <1>4, <2>1, <3>1 DEF InFront
  <2> QED
    BY <2>1 DEF InFront
<1>9. ToSet(t) \subseteq ToSet(s) /\ ToSet(s) \subseteq ToSet(t) \cup {s[i]}
  <2>1. \A k \in DOMAIN t : \E m \in DOMAIN s : t[k] = s[m]
    BY <1>4
  <2> QED
    BY <1>5, <2>1 DEF ToSet
<1>10. ASSUME IsInjective(s) PROVE IsInjective(t) /\ s[i] \notin ToSet(t)
  <2>1. ASSUME NEW j \in DOMAIN t, NEW k \in DOMAIN t, t[j] = t[k] PROVE j = k
    <3>1. PICK m \in DOMAIN s : /\ t[j] = s[m] /\ (j < i => m = j)
                                /\ (~ (j < i) => m = j + 1)
      BY <1>4
    <3>2. PICK n \in DOMAIN s : /\ t[k] = s[n] /\ (k < i => n = k)
                                /\ (~ (k < i) => n = k + 1)
      BY <1>4
    <3>3. m = n
      BY <1>10, <2>1, <3>1, <3>2 DEF IsInjective
    <3> QED
      BY <1>1, <1>3, <3>1, <3>2, <3>3
  <2>2. ASSUME NEW k \in DOMAIN t PROVE t[k] # s[i]
    BY <1>4, <1>10 DEF IsInjective
  <2> QED
    BY <2>1, <2>2 DEF IsInjective, ToSet
<1> QED
  BY <1>6, <1>7, <1>8, <1>9, <1>10 DEF t

\* An entry more: the places from its own on move down, so at most one entry
\* goes behind, and only the new one may come to the front.
MovedDown(t, s, d, a) ==
  /\ InFront(t, a) \subseteq InFront(s, a) \cup {d}
  /\ \E z : Behind(t, a) \subseteq Behind(s, a) \cup {z}
  /\ ToSet(t) = ToSet(s) \cup {d}
  /\ IsInjective(s) /\ d \notin ToSet(s) => IsInjective(t)

LEMMA InsertMoves ==
  ASSUME NEW S, NEW s \in Seq(S), NEW i \in 1 .. Len(s) + 1, NEW d \in S, NEW a \in Nat,
         NEW t, t = InsertAt(s, i, d)
  PROVE  MovedDown(t, s, d, a)
<1>1. i \in Nat \ {0} /\ i <= Len(s) + 1 /\ Len(s) \in Nat /\ DOMAIN s = 1 .. Len(s)
  OBVIOUS
<1>2. /\ t \in Seq(S) /\ Len(t) = Len(s) + 1
      /\ \A k \in 1 .. Len(s) + 1 :
           t[k] = IF k < i THEN s[k] ELSE IF k = i THEN d ELSE s[k - 1]
  <2>1. /\ s \in Seq(S) /\ i \in 1 .. Len(s) + 1 /\ d \in S
        /\ t = InsertAt(s, i, d)
    OBVIOUS
  <2>2. Inserted(S, t, s, i, d)
    BY ONLY <2>1, InsertAtProperties
  <2> QED
    BY ONLY <2>2 DEF Inserted
<1> DEFINE z == IF i <= a THEN s[a] ELSE d
<1>3. DOMAIN t = 1 .. Len(s) + 1
  BY <1>2
<1>4. ASSUME NEW k \in DOMAIN t, k # i
      PROVE  \E m \in DOMAIN s : /\ t[k] = s[m] /\ m <= k
                                 /\ k < i => m = k
                                 /\ ~ (k < i) => m = k - 1
  <2>1. k \in Nat /\ 1 <= k /\ k <= Len(s) + 1
    BY <1>1, <1>3
  <2>2. CASE k < i
    <3>1. k \in DOMAIN s /\ k <= k /\ t[k] = s[k]
      BY <1>1, <1>2, <1>3, <2>1, <2>2
    <3> QED
      BY <2>2, <3>1
  <2>3. CASE ~ (k < i)
    <3>1. k - 1 \in DOMAIN s /\ k - 1 <= k /\ t[k] = s[k - 1]
      BY <1>1, <1>2, <1>3, <1>4, <2>1, <2>3
    <3> QED
      BY <2>3, <3>1
  <2> QED
    BY <2>2, <2>3
<1>5. i \in DOMAIN t /\ t[i] = d
  BY <1>1, <1>2, <1>3
<1>6. ASSUME NEW m \in DOMAIN s PROVE \E k \in DOMAIN t : t[k] = s[m]
  <2>1. m \in Nat /\ 1 <= m /\ m <= Len(s)
    BY <1>1
  <2>2. CASE m < i
    <3>1. m \in 1 .. Len(s) + 1
      BY <1>1, <2>1
    <3> QED
      BY <1>2, <1>3, <2>2, <3>1
  <2>3. CASE ~ (m < i)
    <3>1. m + 1 \in 1 .. Len(s) + 1 /\ ~ (m + 1 < i) /\ m + 1 # i /\ m + 1 - 1 = m
      BY <1>1, <2>1, <2>3
    <3> QED
      BY <1>2, <1>3, <3>1
  <2> QED
    BY <2>2, <2>3
<1>7. InFront(t, a) \subseteq InFront(s, a) \cup {d}
  <2>1. ASSUME NEW k \in DOMAIN t, k <= a PROVE t[k] \in InFront(s, a) \cup {d}
    <3>1. CASE k = i
      BY <1>5, <3>1
    <3>2. CASE k # i
      <4>1. PICK m \in DOMAIN s : t[k] = s[m] /\ m <= k
        BY <1>4, <3>2
      <4>2. m <= a
        BY <1>1, <1>3, <2>1, <4>1
      <4> QED
        BY <4>1, <4>2 DEF InFront
    <3> QED
      BY <3>1, <3>2
  <2> QED
    BY <2>1 DEF InFront
<1>8. Behind(t, a) \subseteq Behind(s, a) \cup {z}
  <2>1. ASSUME NEW k \in DOMAIN t, k > a PROVE t[k] \in Behind(s, a) \cup {z}
    <3>1. k \in Nat /\ i \in Nat
      BY <1>1, <1>3
    <3>2. CASE k = i
      <4>1. ~ (i <= a)
        BY <2>1, <3>1, <3>2
      <4> QED
        BY <1>5, <3>2, <4>1
    <3>3. CASE k # i
      <4>1. PICK m \in DOMAIN s : /\ t[k] = s[m] /\ (k < i => m = k)
                                  /\ (~ (k < i) => m = k - 1)
        BY <1>4, <3>3
      <4>2. m > a \/ (m = a /\ i <= a)
        BY <1>1, <2>1, <3>1, <3>3, <4>1
      <4> QED
        BY <4>1, <4>2 DEF Behind
    <3> QED
      BY <3>2, <3>3
  <2> QED
    BY <2>1 DEF Behind
<1>9. ToSet(t) = ToSet(s) \cup {d}
  <2>1. \A k \in DOMAIN t : t[k] = d \/ \E m \in DOMAIN s : t[k] = s[m]
    BY <1>4, <1>5
  <2> QED
    BY <1>5, <1>6, <2>1 DEF ToSet
<1>10. ASSUME IsInjective(s), d \notin ToSet(s) PROVE IsInjective(t)
  <2>1. ASSUME NEW j \in DOMAIN t, NEW k \in DOMAIN t, t[j] = t[k], j # i, k # i
        PROVE  j = k
    <3>1. PICK m \in DOMAIN s : /\ t[j] = s[m] /\ (j < i => m = j)
                                /\ (~ (j < i) => m = j - 1)
      BY <1>4, <2>1
    <3>2. PICK n \in DOMAIN s : /\ t[k] = s[n] /\ (k < i => n = k)
                                /\ (~ (k < i) => n = k - 1)
      BY <1>4, <2>1
    <3>3. m = n
      BY <1>10, <2>1, <3>1, <3>2 DEF IsInjective
    <3> QED
      BY <1>1, <1>3, <2>1, <3>1, <3>2, <3>3
  <2>2. ASSUME NEW k \in DOMAIN t, k # i PROVE t[k] # d
    BY <1>4, <1>10, <2>2 DEF ToSet
  <2> QED
    BY <1>5, <2>1, <2>2 DEF IsInjective
<1> HIDE DEF z
<1>11. \E y : Behind(t, a) \subseteq Behind(s, a) \cup {y}
  BY <1>8
<1> QED
  BY <1>7, <1>9, <1>10, <1>11 DEF MovedDown

\* One element more is at most one more to count.
LEMMA OneMore ==
  ASSUME NEW S, IsFiniteSet(S), NEW T, NEW x, T \subseteq S \cup {x}
  PROVE  /\ IsFiniteSet(T) /\ Cardinality(T) \in Nat /\ Cardinality(S) \in Nat
         /\ Cardinality(T) <= Cardinality(S) + 1
<1>1. /\ IsFiniteSet(S \cup {x})
      /\ Cardinality(S \cup {x}) <= Cardinality(S) + 1
  <2>1. Cardinality(S) \in Nat
    BY FS_CardinalityType
  <2>2. /\ IsFiniteSet(S \cup {x})
        /\ Cardinality(S \cup {x}) = IF x \in S THEN Cardinality(S) ELSE Cardinality(S) + 1
    BY FS_AddElement
  <2> QED
    BY <2>1, <2>2
<1>2. IsFiniteSet(T) /\ Cardinality(T) <= Cardinality(S \cup {x})
  BY <1>1, FS_Subset
<1>3. Cardinality(T) \in Nat /\ Cardinality(S) \in Nat /\ Cardinality(S \cup {x}) \in Nat
  BY <1>1, <1>2, FS_CardinalityType
<1> QED
  BY <1>1, <1>2, <1>3

LEMMA NoMore ==
  ASSUME NEW S, IsFiniteSet(S), NEW T, T \subseteq S
  PROVE  /\ IsFiniteSet(T) /\ Cardinality(T) \in Nat /\ Cardinality(S) \in Nat
         /\ Cardinality(T) <= Cardinality(S)
BY FS_Subset, FS_CardinalityType

\* Sets without common elements are counted together.
LEMMA CountBoth ==
  ASSUME NEW S, NEW T, IsFiniteSet(S), IsFiniteSet(T)
  PROVE  /\ IsFiniteSet(S \cup T) /\ IsFiniteSet(S \cap T)
         /\ Cardinality(S) \in Nat /\ Cardinality(T) \in Nat
         /\ Cardinality(S \cup T) \in Nat /\ Cardinality(S \cap T) \in Nat
         /\ Cardinality(S \cup T) = Cardinality(S) + Cardinality(T) - Cardinality(S \cap T)
         /\ S \cap T = {} => Cardinality(S \cup T) = Cardinality(S) + Cardinality(T)
<1>1. /\ IsFiniteSet(S \cup T)
      /\ Cardinality(S \cup T) = Cardinality(S) + Cardinality(T) - Cardinality(S \cap T)
  BY FS_Union
<1>2. IsFiniteSet(S \cap T)
  <2>1. S \cap T \subseteq S
    OBVIOUS
  <2> QED
    BY <2>1, FS_Subset
<1>3. /\ Cardinality(S) \in Nat /\ Cardinality(T) \in Nat
      /\ Cardinality(S \cup T) \in Nat /\ Cardinality(S \cap T) \in Nat
  BY <1>1, <1>2, FS_CardinalityType
<1>4. S \cap T = {} => Cardinality(S \cap T) = 0
  BY FS_EmptySet
<1> QED
  BY <1>1, <1>2, <1>3, <1>4

\* A list without repetition has as many elements as entries.
LEMMA CountEntries ==
  ASSUME NEW S, NEW s \in Seq(S), IsInjective(s)
  PROVE  IsFiniteSet(ToSet(s)) /\ Cardinality(ToSet(s)) = Len(s)
<1>1. DOMAIN s = 1 .. Len(s) /\ Len(s) \in Nat /\ s \in [1 .. Len(s) -> S]
  OBVIOUS
<1>2. s \in [1 .. Len(s) -> ToSet(s)] /\ \A x \in ToSet(s) : \E k \in 1 .. Len(s) : s[k] = x
  BY <1>1 DEF ToSet
<1>3. s \in Bijection(1 .. Len(s), ToSet(s))
  BY <1>1, <1>2 DEF Bijection, Injection, Surjection, IsInjective
<1>4. ExistsBijection(1 .. Len(s), ToSet(s))
  BY <1>3 DEF ExistsBijection
<1> QED
  BY <1>1, <1>4, FS_CountingElements, FS_NatBijection

-----------------------------------------------------------------------------
(* The invariant.                                                          *)

\* Steady entries that no page will bring any more,
Missed == (InFront(order, offset) \cap steady) \ ToSet(result)

\* and entries of the result that pages may bring once more.
Again == Behind(order, offset) \cap ToSet(result)

Repeated == Len(result) - Cardinality(ToSet(result))

Bounded ==
  /\ Cardinality(Missed) <= vanished + moved
  /\ Repeated + Cardinality(Again) <= appeared + moved

\* A loop runs on only behind a page that did not end it.
LongEnough ==
  /\ export => Len(order) + vanished >= offset
  /\ ~export => Len(order) + vanished + Limit > offset

PagesInv ==
  /\ TypeOK
  /\ Bounded
  /\ pc = "run" => LongEnough
  /\ pc = "done" => Len(order) <= offset
  /\ RejectedOnlyWhenFull

LEMMA PagesFinite ==
  ASSUME TypeOK
  PROVE  /\ IsFiniteSet(ToSet(order)) /\ IsFiniteSet(ToSet(result))
         /\ IsFiniteSet(Missed) /\ IsFiniteSet(Again)
         /\ IsFiniteSet(InFront(order, offset)) /\ IsFiniteSet(Behind(order, offset))
         /\ Cardinality(ToSet(result)) \in Nat
         /\ Cardinality(Missed) \in Nat /\ Cardinality(Again) \in Nat
<1>1. IsFiniteSet(Ids)
  BY PagesAssumption, FS_Interval DEF Ids
<1>2. ToSet(order) \subseteq Ids /\ ToSet(result) \subseteq Ids
  BY DEF TypeOK, ToSet
<1>3. IsFiniteSet(ToSet(order)) /\ IsFiniteSet(ToSet(result))
  BY <1>1, <1>2, FS_Subset
<1>4. /\ InFront(order, offset) \subseteq ToSet(order)
      /\ Behind(order, offset) \subseteq ToSet(order)
      /\ Missed \subseteq ToSet(order) /\ Again \subseteq ToSet(order)
  BY DEF InFront, Behind, Missed, Again, ToSet
<1>5. /\ IsFiniteSet(InFront(order, offset)) /\ IsFiniteSet(Behind(order, offset))
      /\ IsFiniteSet(Missed) /\ IsFiniteSet(Again)
  BY <1>3, <1>4, FS_Subset
<1> QED
  BY <1>3, <1>5, FS_CardinalityType

LEMMA PagesInitOK == Init => PagesInv
<1> SUFFICES ASSUME Init PROVE PagesInv
  OBVIOUS
<1>1. PICK n \in 0 .. Entries : order = [i \in 1 .. n |-> i]
  BY DEF Init
<1>2. order \in Seq(Ids) /\ IsInjective(order) /\ Len(order) = n /\ n \in Nat
  BY <1>1, PagesAssumption DEF Ids, IsInjective
<1>3. offset % Limit = 0 /\ offset \in 0 .. Window
  BY PagesAssumption DEF Init
<1>4. TypeOK
  <2>1. export \in BOOLEAN /\ pc \in {"run", "done", "error"}
    BY DEF Init
  <2>2. result \in Seq(Ids) /\ steady \subseteq ToSet(order)
    BY DEF Init
  <2>3. /\ appeared \in Nat /\ vanished \in Nat /\ moved \in Nat
        /\ appeared + vanished + moved <= MaxChanges
        /\ faults \in 0 .. MaxFaults
    BY PagesAssumption DEF Init
  <2> QED
    BY <1>2, <1>3, <2>1, <2>2, <2>3 DEF TypeOK
<1>5. Bounded
  <2>1. result = <<>> /\ Len(result) = 0 /\ ToSet(result) = {}
    BY DEF Init, ToSet
  <2>2. InFront(order, offset) = {}
    BY <1>2 DEF Init, InFront
  <2>3. Missed = {} /\ Again = {}
    BY <2>1, <2>2 DEF Missed, Again
  <2> QED
    BY <2>1, <2>3, FS_EmptySet DEF Init, Bounded, Repeated
<1>6. LongEnough
  BY <1>2, PagesAssumption DEF Init, LongEnough
<1> QED
  BY <1>4, <1>5, <1>6 DEF PagesInv, Init, RejectedOnlyWhenFull

\* The entries listed again, and those that may be (x behind the page), before
\* and behind a page of k entries, c of them known (n to m entries, r to ru different).
LEMMA SameRepeated ==
  ASSUME NEW n \in Int, NEW m \in Int, NEW k \in Int, NEW r \in Int, NEW ru \in Int,
         NEW c \in Int, NEW x \in Int, m = n + k, ru = r + k - c
  PROVE  m - ru + x = n - r + (c + x)
OBVIOUS

\* A page moves entries from behind the offset to the front and into the
\* result, so what is missed and what comes again stays.
LEMMA FetchPageOK == PagesInv /\ FetchPage => PagesInv'
<1> SUFFICES ASSUME PagesInv, FetchPage PROVE PagesInv'
  OBVIOUS
<1> DEFINE p == Page
           P == ToSet(p)
           R == ToSet(result)
           b == Behind(order, offset + Limit)
<1>1. /\ pc = "run" /\ offset + Limit <= Window
      /\ result' = result \o p
      /\ offset' = offset + Limit
      /\ pc' = IF LastPage(p) THEN "done" ELSE "run"
      /\ UNCHANGED <<export, order, steady, appeared, vanished, moved, faults>>
  BY DEF FetchPage
<1>2. TypeOK /\ Limit \in Nat \ {0} /\ Window \in Nat /\ Bounded /\ IsInjective(order)
  BY PagesAssumption DEF PagesInv, TypeOK
<1>3. /\ p \in Seq(Ids) /\ Len(p) \in Nat /\ Len(p) <= Limit
      /\ Len(p) = Limit \/ Len(order) <= offset + Len(p)
      /\ Len(order) <= offset + Limit => Len(order) <= offset + Len(p)
      /\ \A i \in 1 .. Len(p) : offset + i \in DOMAIN order /\ p[i] = order[offset + i]
  BY <1>2, PageProperties
<1> HIDE DEF p
<1>4. /\ result \in Seq(Ids) /\ order \in Seq(Ids) /\ offset \in Nat
      /\ Len(result) \in Nat /\ DOMAIN result = 1 .. Len(result)
      /\ Len(order) \in Nat /\ DOMAIN order = 1 .. Len(order)
      /\ vanished \in Nat
  BY <1>2 DEF TypeOK
<1>5. /\ result' \in Seq(Ids) /\ Len(result') = Len(result) + Len(p)
      /\ ToSet(result') = R \cup P
  <2>1. /\ result' \in Seq(Ids) /\ Len(result') = Len(result) + Len(p)
        /\ \A i \in 1 .. Len(result) + Len(p) :
             result'[i] = IF i <= Len(result) THEN result[i] ELSE p[i - Len(result)]
    BY <1>1, <1>3, <1>4, ConcatProperties
  <2>2. DOMAIN result' = 1 .. Len(result) + Len(p) /\ DOMAIN p = 1 .. Len(p)
    BY <1>3, <2>1
  <2>3. ASSUME NEW k \in DOMAIN result
        PROVE  k \in DOMAIN result' /\ result'[k] = result[k]
    <3>1. k \in 1 .. Len(result) + Len(p) /\ k <= Len(result)
      BY <1>3, <1>4
    <3> QED
      BY <2>1, <2>2, <3>1
  <2>4. ASSUME NEW i \in DOMAIN p
        PROVE  Len(result) + i \in DOMAIN result' /\ result'[Len(result) + i] = p[i]
    <3>1. /\ Len(result) + i \in 1 .. Len(result) + Len(p)
          /\ ~ (Len(result) + i <= Len(result))
          /\ Len(result) + i - Len(result) = i
      BY <1>3, <1>4, <2>2
    <3> QED
      BY <2>1, <2>2, <3>1
  <2>5. ASSUME NEW k \in DOMAIN result' PROVE result'[k] \in R \cup P
    <3>1. CASE k <= Len(result)
      <4>1. k \in DOMAIN result /\ result'[k] = result[k]
        BY <1>4, <2>1, <2>2, <3>1
      <4> QED
        BY <4>1 DEF ToSet
    <3>2. CASE ~ (k <= Len(result))
      <4>1. k - Len(result) \in DOMAIN p /\ result'[k] = p[k - Len(result)]
        BY <1>3, <1>4, <2>1, <2>2, <3>2
      <4> QED
        BY <4>1 DEF ToSet
    <3> QED
      BY <3>1, <3>2
  <2>6. \A x \in R \cup P : \E k \in DOMAIN result' : result'[k] = x
    BY <2>3, <2>4 DEF ToSet
  <2>7. ToSet(result') = R \cup P
    <3> HIDE DEF R, P
    <3> QED
      BY <2>5, <2>6 DEF ToSet
  <2> QED
    BY <2>1, <2>7
<1>6. TypeOK'
  <2>1. offset' \in 0 .. Window
    BY <1>1, <1>2, <1>4
  <2>2. offset' % Limit = 0
    BY <1>1, <1>2, <1>4, NextMultiple DEF TypeOK
  <2> QED
    BY <1>1, <1>2, <1>5, <2>1, <2>2 DEF TypeOK
<1>7. IsInjective(p)
  <2>1. ASSUME NEW i \in DOMAIN p, NEW j \in DOMAIN p, p[i] = p[j] PROVE i = j
    <3>1. i \in 1 .. Len(p) /\ j \in 1 .. Len(p)
      BY <1>3
    <3>2. offset + i = offset + j
      BY <1>2, <1>3, <2>1, <3>1 DEF IsInjective
    <3> QED
      BY <1>3, <1>4, <3>1, <3>2
  <2> QED
    BY <2>1 DEF IsInjective
<1>8. IsFiniteSet(P) /\ Cardinality(P) = Len(p)
  BY <1>3, <1>7, CountEntries
<1>9. DOMAIN p = 1 .. Len(p)
  BY <1>3
<1>10. ASSUME NEW k \in DOMAIN order, k > offset, k <= offset + Limit PROVE order[k] \in P
  <2>1. k - offset \in 1 .. Len(p) /\ offset + (k - offset) = k
    BY <1>2, <1>3, <1>4, <1>10
  <2> QED
    BY <1>3, <1>9, <2>1 DEF ToSet
<1>11. InFront(order, offset + Limit) \subseteq InFront(order, offset) \cup P
  <2>1. ASSUME NEW k \in DOMAIN order, k <= offset + Limit
        PROVE  order[k] \in InFront(order, offset) \cup P
    <3>1. CASE k <= offset
      BY <3>1 DEF InFront
    <3>2. CASE ~ (k <= offset)
      BY <1>4, <1>10, <2>1, <3>2
    <3> QED
      BY <3>1, <3>2
  <2> HIDE DEF P
  <2> QED
    BY <2>1 DEF InFront
<1>12. Behind(order, offset) = P \cup b /\ P \cap b = {}
  <2>1. ASSUME NEW i \in DOMAIN p
        PROVE  /\ offset + i \in DOMAIN order /\ p[i] = order[offset + i]
               /\ offset + i > offset /\ ~ (offset + i > offset + Limit)
    <3>1. i \in 1 .. Len(p) /\ i \in Nat /\ i >= 1 /\ i <= Limit
      <4>1. i \in 1 .. Len(p)
        BY <1>9
      <4>2. Len(p) \in Nat /\ Len(p) <= Limit /\ Limit \in Nat
        BY <1>2, <1>3
      <4> QED
        BY ONLY <4>1, <4>2
    <3>2. offset + i > offset /\ ~ (offset + i > offset + Limit)
      BY <1>2, <1>4, <3>1
    <3> QED
      BY <1>3, <3>1, <3>2
  <2>2. P \subseteq Behind(order, offset)
    BY <2>1 DEF Behind, ToSet
  <2>3. ASSUME NEW k \in DOMAIN order, k > offset + Limit
        PROVE  k > offset /\ order[k] \notin P
    <3>1. k > offset
      BY <1>2, <1>4, <2>3
    <3>2. \A i \in DOMAIN p : p[i] # order[k]
      BY <1>2, <2>1, <2>3 DEF IsInjective
    <3> QED
      BY <3>1, <3>2 DEF ToSet
  <2>4. b \subseteq Behind(order, offset) /\ P \cap b = {}
    <3> HIDE DEF P
    <3> QED
      BY <2>3 DEF Behind
  <2>5. ASSUME NEW k \in DOMAIN order, k > offset PROVE order[k] \in P \cup b
    <3>1. CASE k <= offset + Limit
      BY <1>10, <2>5, <3>1
    <3>2. CASE k > offset + Limit
      BY <3>2 DEF Behind
    <3> QED
      BY <1>2, <1>4, <3>1, <3>2
  <2>6. Behind(order, offset) \subseteq P \cup b
    <3> HIDE DEF P, b
    <3> QED
      BY <2>5 DEF Behind
  <2> QED
    BY <2>2, <2>4, <2>6
<1>13. /\ IsFiniteSet(R) /\ IsFiniteSet(b) /\ IsFiniteSet(Missed)
  <2>1. b \subseteq Behind(order, offset)
    BY <1>12
  <2> QED
    BY <1>2, <2>1, PagesFinite, FS_Subset
<1>14. Cardinality(Missed') <= Cardinality(Missed) /\ Cardinality(Missed') \in Nat
  <2>1. Missed' = (InFront(order, offset + Limit) \cap steady) \ (R \cup P)
    BY <1>1, <1>5 DEF Missed
  <2> HIDE DEF R, P
  <2>2. Missed' \subseteq (InFront(order, offset) \cap steady) \ R
    BY <1>11, <2>1
  <2>3. Missed' \subseteq Missed
    BY <2>2 DEF Missed, R
  <2> QED
    BY <1>13, <2>3, NoMore
<1>15. Repeated' + Cardinality(Again') = Repeated + Cardinality(Again)
  <2>1. /\ Again' = b \cap (R \cup P)
        /\ Again = (P \cup b) \cap R
    BY <1>1, <1>5, <1>12 DEF Again
  <2>3. Repeated = Len(result) - Cardinality(R)
    BY DEF Repeated
  <2> HIDE DEF R, P, b
  <2>2. Repeated' = Len(result') - Cardinality(R \cup P)
    BY <1>5 DEF Repeated
  <2>4. Again' = b \cap R /\ Again = (R \cap P) \cup (b \cap R) /\ (R \cap P) \cap (b \cap R) = {}
    BY <1>12, <2>1
  <2>5. /\ Cardinality(R \cup P) = Cardinality(R) + Cardinality(P) - Cardinality(R \cap P)
        /\ Cardinality(R) \in Nat /\ Cardinality(P) \in Nat /\ Cardinality(R \cap P) \in Nat
        /\ IsFiniteSet(R \cap P) /\ Cardinality(R \cup P) \in Nat
    BY <1>8, <1>13, CountBoth
  <2>6. IsFiniteSet(b \cap R) /\ Cardinality(b \cap R) \in Nat
    BY <1>13, CountBoth
  <2>7. Cardinality(Again) = Cardinality(R \cap P) + Cardinality(b \cap R)
    BY <2>4, <2>5, <2>6, CountBoth
  <2>8. Cardinality(Again') = Cardinality(b \cap R)
    BY <2>4
  <2>9. Len(result') - Cardinality(R \cup P) + Cardinality(b \cap R)
          = Len(result) - Cardinality(R) + (Cardinality(R \cap P) + Cardinality(b \cap R))
    <3>1. /\ Len(result) \in Int /\ Len(result') = Len(result) + Cardinality(P)
      BY <1>4, <1>5, <1>8
    <3> QED
      BY ONLY <2>5, <2>6, <3>1, SameRepeated
  <2> QED
    BY <2>2, <2>3, <2>7, <2>8, <2>9, Zenon
<1>16. Bounded'
  <2>1. /\ Cardinality(Missed) <= vanished + moved
        /\ Repeated + Cardinality(Again) <= appeared + moved
        /\ vanished' = vanished /\ moved' = moved /\ appeared' = appeared
    BY <1>1, <1>2 DEF Bounded
  <2>2. vanished \in Nat /\ moved \in Nat /\ Cardinality(Missed) \in Nat
    BY <1>2, PagesFinite DEF TypeOK
  <2>3. Cardinality(Missed') <= vanished' + moved'
    BY <1>14, <2>1, <2>2
  <2>4. Repeated' + Cardinality(Again') <= appeared' + moved'
    BY <1>15, <2>1
  <2> QED
    BY <2>3, <2>4 DEF Bounded
<1>17. p = <<>> <=> Len(p) = 0
  BY <1>3, EmptySeq
<1>18. LastPage(p) => Len(order) <= offset + Limit
  <2>1. LastPage(p) => Len(p) < Limit
    BY <1>2, <1>17 DEF LastPage
  <2> QED
    BY <1>2, <1>3, <1>4, <2>1
<1>19. ~LastPage(p) => LongEnough'
  <2>1. Len(p) # 0 => Len(order) >= offset + Len(p)
    <3>1. ASSUME Len(p) # 0 PROVE Len(order) >= offset + Len(p)
      <4>1. Len(p) \in 1 .. Len(p)
        BY <1>3, <3>1
      <4>2. offset + Len(p) \in 1 .. Len(order)
        BY <1>3, <1>4, <4>1
      <4> QED
        BY <1>4, <4>2
    <3> QED
      BY <3>1
  <2>2. CASE export
    <3>1. ~LastPage(p) => Len(p) = Limit
      BY <1>2, <1>3, <2>2 DEF LastPage
    <3>2. ~LastPage(p) => Len(order) + vanished >= offset + Limit
      BY <1>2, <1>3, <1>4, <2>1, <3>1
    <3> QED
      BY <1>1, <2>2, <3>2 DEF LongEnough
  <2>3. CASE ~export
    <3>1. ~LastPage(p) => Len(p) # 0
      BY <1>17, <2>3 DEF LastPage
    <3>2. ~LastPage(p) => Len(order) + vanished + Limit > offset + Limit
      BY <1>2, <1>3, <1>4, <2>1, <3>1
    <3> QED
      BY <1>1, <2>3, <3>2 DEF LongEnough
  <2> QED
    BY <2>2, <2>3
<1>20. pc' = "run" => LongEnough'
  BY <1>1, <1>19
<1>21. pc' = "done" => Len(order') <= offset'
  BY <1>1, <1>18
<1>22. RejectedOnlyWhenFull'
  BY <1>1 DEF RejectedOnlyWhenFull
<1> QED
  BY <1>6, <1>16, <1>20, <1>21, <1>22 DEF PagesInv

LEMMA RejectedOK == PagesInv /\ (Rejected \/ RequestFails) => PagesInv'
<1> SUFFICES ASSUME PagesInv, Rejected \/ RequestFails PROVE PagesInv'
  OBVIOUS
<1>1. /\ pc = "run" /\ pc' = "error"
      /\ UNCHANGED <<export, order, offset, result, steady, appeared, vanished, moved>>
      /\ faults' \in 0 .. MaxFaults
      /\ faults' = 0 => offset + Limit > Window
  <2>1. faults \in 0 .. MaxFaults /\ MaxFaults \in Nat
    BY PagesAssumption DEF PagesInv, TypeOK
  <2> QED
    BY <2>1 DEF Rejected, RequestFails
<1>2. TypeOK'
  BY <1>1 DEF PagesInv, TypeOK
<1>3. ASSUME offset + Limit > Window
      PROVE  IF export THEN Len(order) + vanished >= Window
                       ELSE Len(order) + vanished > Window - Limit
  <2>1. /\ offset \in Nat /\ offset <= Window /\ offset % Limit = 0
        /\ Len(order) \in Nat /\ vanished \in Nat /\ LongEnough
    BY <1>1, PagesAssumption DEF PagesInv, TypeOK
  <2>2. Limit \in Nat \ {0} /\ Window \in Nat /\ Window % Limit = 0
    BY PagesAssumption
  <2>3. offset = Window
    BY <1>3, <2>1, <2>2, NoMultipleBetween
  <2>4. Len(order) + vanished + Limit > Window => Len(order) + vanished > Window - Limit
    BY <2>1, <2>2
  <2> QED
    BY <2>1, <2>3, <2>4 DEF LongEnough
<1>4. RejectedOnlyWhenFull'
  BY <1>1, <1>3 DEF RejectedOnlyWhenFull
<1>5. Bounded'
  BY <1>1 DEF PagesInv, Bounded, Missed, Again, Repeated
<1> QED
  BY <1>1, <1>2, <1>4, <1>5 DEF PagesInv

-----------------------------------------------------------------------------
(* Changes of the index.                                                   *)

\* What is bounded stays so when every element more is counted.
LEMMA BoundKept ==
  ASSUME NEW S, IsFiniteSet(S), NEW T, NEW n \in Int, NEW m \in Int,
         Cardinality(S) <= n,
         \/ T \subseteq S /\ n <= m
         \/ (\E x : T \subseteq S \cup {x}) /\ n + 1 <= m
  PROVE  Cardinality(T) <= m
<1>1. CASE T \subseteq S /\ n <= m
  <2>1. /\ Cardinality(T) \in Nat /\ Cardinality(S) \in Nat
        /\ Cardinality(T) <= Cardinality(S)
    BY <1>1, NoMore
  <2> QED
    BY <1>1, <2>1
<1>2. ASSUME NEW x, T \subseteq S \cup {x}, n + 1 <= m PROVE Cardinality(T) <= m
  <2>1. /\ Cardinality(T) \in Nat /\ Cardinality(S) \in Nat
        /\ Cardinality(T) <= Cardinality(S) + 1
    BY <1>2, OneMore
  <2> QED
    BY <1>2, <2>1
<1> QED
  BY <1>1, <1>2

\* A change keeps the bounds when it counts what it adds to either side.
LEMMA ChangeOK ==
  ASSUME PagesInv, Change,
         NEW a \in Nat, NEW v \in Nat, NEW m \in Nat, appeared' = a, vanished' = v, moved' = m,
         a + v + m <= appeared + vanished + moved + 1,
         order' \in Seq(Ids), IsInjective(order'), steady' \subseteq ToSet(order'),
         Len(order) + vanished <= Len(order') + v,
         \/ Missed' \subseteq Missed /\ vanished + moved <= v + m
         \/ (\E x : Missed' \subseteq Missed \cup {x}) /\ vanished + moved + 1 <= v + m,
         \/ Again' \subseteq Again /\ appeared + moved <= a + m
         \/ (\E x : Again' \subseteq Again \cup {x}) /\ appeared + moved + 1 <= a + m
  PROVE  PagesInv'
<1>1. /\ pc = "run" /\ appeared + vanished + moved < MaxChanges
      /\ UNCHANGED <<export, pc, offset, result, faults>>
  BY DEF Change
<1>2. TypeOK /\ Bounded /\ LongEnough
  BY <1>1 DEF PagesInv
<1>3. appeared \in Nat /\ vanished \in Nat /\ moved \in Nat /\ MaxChanges \in Nat
  BY <1>2, PagesAssumption DEF TypeOK
<1>4. /\ appeared' = a /\ vanished' = v /\ moved' = m
      /\ a \in Nat /\ v \in Nat /\ m \in Nat
      /\ a + v + m <= appeared + vanished + moved + 1
  OBVIOUS
<1>5. TypeOK'
  <2>1. a + v + m <= MaxChanges
    BY ONLY <1>1, <1>3, <1>4
  <2> QED
    BY <1>1, <1>2, <1>4, <2>1 DEF TypeOK
<1>6. /\ IsFiniteSet(Missed) /\ IsFiniteSet(Again)
      /\ Cardinality(Missed) \in Nat /\ Cardinality(Again) \in Nat
      /\ Cardinality(ToSet(result)) \in Nat /\ Repeated \in Int
  <2>1. Len(result) \in Nat
    BY <1>2 DEF TypeOK
  <2> QED
    BY <1>2, <2>1, PagesFinite DEF Repeated
<1>7. /\ vanished + moved \in Nat /\ v + m \in Nat
      /\ appeared + moved \in Nat /\ a + m \in Nat
  BY ONLY <1>3, <1>4
<1>8. Cardinality(Missed') <= v + m
  <2>1. Cardinality(Missed) <= vanished + moved
    BY <1>2 DEF Bounded
  <2>2. \/ Missed' \subseteq Missed /\ vanished + moved <= v + m
        \/ (\E x : Missed' \subseteq Missed \cup {x}) /\ vanished + moved + 1 <= v + m
    OBVIOUS
  <2> QED
    BY ONLY <1>6, <1>7, <2>1, <2>2, BoundKept
<1>9. Repeated' + Cardinality(Again') <= a + m
  <2>0. PICK q \in Int : q = Repeated
    BY <1>6
  <2>1. PICK n \in Int, k \in Int : n = appeared + moved - q /\ k = a + m - q
    BY <1>3, <1>4
  <2>2. Cardinality(Again) <= n
    <3>1. q + Cardinality(Again) <= appeared + moved
      BY <1>2, <2>0 DEF Bounded
    <3>2. Cardinality(Again) \in Nat
      BY <1>6
    <3> QED
      BY <1>3, <2>1, <3>1, <3>2
  <2>3. \/ Again' \subseteq Again /\ n <= k
        \/ (\E x : Again' \subseteq Again \cup {x}) /\ n + 1 <= k
    <3>1. \/ Again' \subseteq Again /\ appeared + moved <= a + m
          \/ (\E x : Again' \subseteq Again \cup {x}) /\ appeared + moved + 1 <= a + m
      OBVIOUS
    <3>2. /\ appeared + moved <= a + m => n <= k
          /\ appeared + moved + 1 <= a + m => n + 1 <= k
      BY ONLY <1>3, <1>4, <2>1
    <3> QED
      BY <3>1, <3>2
  <2>4. IsFiniteSet(Again) /\ n \in Int /\ k \in Int
    BY <1>6
  <2>5. Cardinality(Again') <= k
    BY ONLY <2>2, <2>3, <2>4, BoundKept
  <2>6. IsFiniteSet(Again') /\ Cardinality(Again') \in Nat
    BY <2>3, <2>4, OneMore, NoMore
  <2>7. Repeated' = q
    BY <1>1, <2>0 DEF Repeated
  <2>8. q + Cardinality(Again') <= a + m
    BY ONLY <1>3, <1>4, <2>1, <2>4, <2>5, <2>6
  <2> QED
    BY <2>7, <2>8
<1>10. LongEnough'
  <2>1. /\ export => Len(order) + vanished >= offset
        /\ ~export => Len(order) + vanished + Limit > offset
    BY <1>2 DEF LongEnough
  <2>2. Len(order) + vanished \in Nat /\ Len(order') + v \in Nat
    BY <1>2, <1>3 DEF TypeOK
  <2>3. Len(order) + vanished <= Len(order') + v
    OBVIOUS
  <2>4. offset \in Nat /\ Limit \in Nat
    BY <1>2, PagesAssumption DEF TypeOK
  <2>5. /\ export => Len(order') + v >= offset
        /\ ~export => Len(order') + v + Limit > offset
    BY ONLY <2>1, <2>2, <2>3, <2>4
  <2> QED
    BY <1>1, <1>4, <2>5 DEF LongEnough
<1> QED
  BY <1>1, <1>4, <1>5, <1>8, <1>9, <1>10 DEF PagesInv, Bounded, RejectedOnlyWhenFull

LEMMA AppearOK ==
  ASSUME PagesInv, NEW d \in Ids, NEW j \in 1 .. Len(order) + 1, Appear(d, j)
  PROVE  PagesInv'
<1> DEFINE t == InsertAt(order, j, d)
<1>1. /\ Change /\ d \notin ToSet(order) /\ order' = t
      /\ appeared' = appeared + 1
      /\ UNCHANGED <<steady, vanished, moved, offset, result>>
  BY DEF Appear, Change
<1>2. /\ order \in Seq(Ids) /\ IsInjective(order) /\ offset \in Nat
      /\ steady \subseteq ToSet(order)
      /\ appeared \in Nat /\ vanished \in Nat /\ moved \in Nat /\ Len(order) \in Nat
  BY DEF PagesInv, TypeOK
<1>3. /\ InFront(t, offset) \subseteq InFront(order, offset) \cup {d}
      /\ \E z : Behind(t, offset) \subseteq Behind(order, offset) \cup {z}
      /\ ToSet(t) = ToSet(order) \cup {d}
      /\ IsInjective(t)
  <2>1. t = InsertAt(order, j, d)
    OBVIOUS
  <2> HIDE DEF t
  <2>2. MovedDown(t, order, d, offset)
    BY <1>2, <2>1, InsertMoves
  <2> QED
    BY <1>1, <1>2, <2>2 DEF MovedDown
<1>4. t \in Seq(Ids) /\ Len(t) = Len(order) + 1
  <2>1. t = InsertAt(order, j, d)
    OBVIOUS
  <2> HIDE DEF t
  <2>2. Inserted(Ids, t, order, j, d)
    BY <1>2, <2>1, InsertAtProperties
  <2> QED
    BY <2>2 DEF Inserted
<1> HIDE DEF t
<1>5. Missed' \subseteq Missed
  <2>1. Missed' = (InFront(t, offset) \cap steady) \ ToSet(result)
    BY <1>1 DEF Missed
  <2>2. d \notin steady
    BY <1>1, <1>2
  <2> QED
    BY <1>3, <2>1, <2>2 DEF Missed
<1>6. \E z : Again' \subseteq Again \cup {z}
  <2>1. Again' = Behind(t, offset) \cap ToSet(result)
    BY <1>1 DEF Again
  <2> QED
    BY <1>3, <2>1 DEF Again
<1>7. steady' \subseteq ToSet(order')
  BY <1>1, <1>2, <1>3
<1>8. /\ appeared' = (appeared + 1) /\ vanished' = vanished /\ moved' = moved
      /\ (appeared + 1) \in Nat /\ vanished \in Nat /\ moved \in Nat
      /\ (appeared + 1) + vanished + moved <= appeared + vanished + moved + 1
      /\ Len(order) + vanished <= Len(order') + vanished
      /\ vanished + moved <= vanished + moved
      /\ appeared + moved + 1 <= (appeared + 1) + moved
  BY <1>1, <1>2, <1>4
<1>9. order' \in Seq(Ids) /\ IsInjective(order')
  BY <1>1, <1>3, <1>4
<1> QED
  BY <1>1, <1>5, <1>6, <1>7, <1>8, <1>9, ChangeOK

LEMMA VanishOK ==
  ASSUME PagesInv, NEW i \in DOMAIN order, Vanish(i)
  PROVE  PagesInv'
<1> DEFINE t == RemoveAt(order, i)
<1>1. /\ Change /\ order' = t /\ steady' = steady \ {order[i]}
      /\ vanished' = vanished + 1
      /\ UNCHANGED <<appeared, moved, offset, result>>
  BY DEF Vanish, Change
<1>2. /\ order \in Seq(Ids) /\ IsInjective(order) /\ offset \in Nat
      /\ steady \subseteq ToSet(order)
      /\ appeared \in Nat /\ vanished \in Nat /\ moved \in Nat /\ Len(order) \in Nat
  BY DEF PagesInv, TypeOK
<1>3. /\ Behind(t, offset) \subseteq Behind(order, offset)
      /\ \E y : InFront(t, offset) \subseteq InFront(order, offset) \cup {y}
      /\ ToSet(order) \subseteq ToSet(t) \cup {order[i]}
      /\ IsInjective(t)
  BY <1>2, RemoveMoves
<1>4. t \in Seq(Ids) /\ Len(t) = Len(order) - 1
  BY <1>2, RemoveAtProperties
<1> HIDE DEF t
<1>5. \E y : Missed' \subseteq Missed \cup {y}
  <2>1. Missed' \subseteq (InFront(t, offset) \cap steady) \ ToSet(result)
    BY <1>1 DEF Missed
  <2> QED
    BY <1>3, <2>1 DEF Missed
<1>6. Again' \subseteq Again
  BY <1>1, <1>3 DEF Again
<1>7. steady' \subseteq ToSet(order')
  BY <1>1, <1>2, <1>3
<1>8. /\ appeared' = appeared /\ vanished' = (vanished + 1) /\ moved' = moved
      /\ appeared \in Nat /\ (vanished + 1) \in Nat /\ moved \in Nat
      /\ appeared + (vanished + 1) + moved <= appeared + vanished + moved + 1
      /\ Len(order) + vanished <= Len(order') + (vanished + 1)
      /\ vanished + moved + 1 <= (vanished + 1) + moved
      /\ appeared + moved <= appeared + moved
  BY <1>1, <1>2, <1>4
<1>9. order' \in Seq(Ids) /\ IsInjective(order')
  BY <1>1, <1>3, <1>4
<1> QED
  BY <1>1, <1>5, <1>6, <1>7, <1>8, <1>9, ChangeOK

LEMMA MoveOK ==
  ASSUME PagesInv, NEW i \in DOMAIN order, NEW j \in DOMAIN order, Move(i, j)
  PROVE  PagesInv'
<1> DEFINE d == order[i]
           s == RemoveAt(order, i)
           t == InsertAt(s, j, d)
<1>1. /\ Change /\ order' = t /\ moved' = moved + 1
      /\ UNCHANGED <<steady, appeared, vanished, offset, result>>
  BY DEF Move, Change
<1>2. /\ order \in Seq(Ids) /\ IsInjective(order) /\ offset \in Nat
      /\ steady \subseteq ToSet(order)
      /\ appeared \in Nat /\ vanished \in Nat /\ moved \in Nat /\ Len(order) \in Nat
      /\ d \in Ids /\ DOMAIN order = 1 .. Len(order)
  BY DEF PagesInv, TypeOK
<1>3. /\ Behind(s, offset) \subseteq Behind(order, offset)
      /\ \E y : InFront(s, offset) \subseteq InFront(order, offset) \cup {y}
      /\ i > offset => InFront(s, offset) \subseteq InFront(order, offset)
      /\ ToSet(order) \subseteq ToSet(s) \cup {d}
      /\ IsInjective(s) /\ d \notin ToSet(s)
  BY <1>2, RemoveMoves
<1>4. s \in Seq(Ids) /\ Len(s) = Len(order) - 1
  BY <1>2, RemoveAtProperties
<1> HIDE DEF s
<1>5. j \in 1 .. Len(s) + 1 /\ t = InsertAt(s, j, d)
  BY <1>2, <1>4
<1> HIDE DEF t, d
<1>6. /\ InFront(t, offset) \subseteq InFront(s, offset) \cup {d}
      /\ \E z : Behind(t, offset) \subseteq Behind(s, offset) \cup {z}
      /\ ToSet(t) = ToSet(s) \cup {d}
      /\ IsInjective(t)
  <2>1. s \in Seq(Ids) /\ d \in Ids /\ offset \in Nat
    BY <1>2, <1>4 DEF d
  <2>2. MovedDown(t, s, d, offset)
    BY ONLY <1>5, <2>1, InsertMoves
  <2>3. IsInjective(s) /\ d \notin ToSet(s)
    BY <1>3 DEF d
  <2> QED
    BY <2>2, <2>3 DEF MovedDown
<1>7. t \in Seq(Ids) /\ Len(t) = Len(order)
  <2>1. s \in Seq(Ids) /\ d \in Ids
    BY <1>2, <1>4 DEF d
  <2>2. Inserted(Ids, t, s, j, d)
    BY ONLY <1>5, <2>1, InsertAtProperties
  <2> QED
    BY <1>2, <1>4, <2>2 DEF Inserted
<1>8. i <= offset => d \in InFront(order, offset)
  BY DEF InFront, d
<1>9. \E y : InFront(t, offset) \subseteq InFront(order, offset) \cup {y}
  <2>1. CASE i <= offset
    BY <1>3, <1>6, <1>8, <2>1
  <2>2. CASE ~ (i <= offset)
    <3>1. i > offset
      BY <1>2, <2>2
    <3> QED
      BY <1>3, <1>6, <3>1
  <2> QED
    BY <2>1, <2>2
<1>10. \E y : Missed' \subseteq Missed \cup {y}
  <2>1. Missed' = (InFront(t, offset) \cap steady) \ ToSet(result)
    BY <1>1 DEF Missed
  <2> QED
    BY <1>9, <2>1 DEF Missed
<1>11. \E z : Again' \subseteq Again \cup {z}
  <2>1. Again' = Behind(t, offset) \cap ToSet(result)
    BY <1>1 DEF Again
  <2>2. PICK z : Behind(t, offset) \subseteq Behind(s, offset) \cup {z}
    BY <1>6
  <2> QED
    BY <1>3, <2>1, <2>2 DEF Again
<1>12. steady' \subseteq ToSet(order')
  BY <1>1, <1>2, <1>3, <1>6
<1>13. /\ appeared' = appeared /\ vanished' = vanished /\ moved' = (moved + 1)
      /\ appeared \in Nat /\ vanished \in Nat /\ (moved + 1) \in Nat
      /\ appeared + vanished + (moved + 1) <= appeared + vanished + moved + 1
      /\ Len(order) + vanished <= Len(order') + vanished
      /\ vanished + moved + 1 <= vanished + (moved + 1)
      /\ appeared + moved + 1 <= appeared + (moved + 1)
  BY <1>1, <1>2, <1>7
<1>14. order' \in Seq(Ids) /\ IsInjective(order')
  BY <1>1, <1>6, <1>7
<1> QED
  BY <1>1, <1>10, <1>11, <1>12, <1>13, <1>14, ChangeOK

LEMMA PagesNextOK == PagesInv /\ [Next]_vars => PagesInv'
<1>1. PagesInv /\ UNCHANGED vars => PagesInv'
  BY DEF vars, PagesInv, TypeOK, Bounded, Missed, Again, Repeated, LongEnough,
         RejectedOnlyWhenFull
<1> QED
  BY <1>1, FetchPageOK, RejectedOK, AppearOK, VanishOK, MoveOK DEF Next, Loop, Returned

-----------------------------------------------------------------------------
\* Types; pages begin at multiples of their size and end inside the window.
THEOREM PagesTyped == Spec => []TypeOK
<1>1. PagesInv => TypeOK
  BY DEF PagesInv
<1> QED
  BY <1>1, PagesInitOK, PagesNextOK, PTL DEF Spec

\* A loop that ends without error misses at most one entry for every one that
\* vanished or moved, and lists at most one again for every one that appeared
\* or moved (ExportKindAll, GetFullListForUserOrGroup, SearchListAll,
\* SelectByFieldAll).
THEOREM LossIsBounded == Spec => []LossBounded
<1>1. PagesInv => LossBounded
  <2> SUFFICES ASSUME PagesInv, pc = "done"
               PROVE  /\ Cardinality(steady \ ToSet(result)) <= vanished + moved
                      /\ Len(result) - Cardinality(ToSet(result)) <= appeared + moved
    BY DEF LossBounded
  <2>1. /\ TypeOK /\ Bounded /\ Len(order) <= offset
        /\ order \in Seq(Ids) /\ offset \in Nat /\ steady \subseteq ToSet(order)
        /\ appeared \in Nat /\ moved \in Nat /\ Len(result) \in Nat
    BY DEF PagesInv, TypeOK
  <2>2. \A i \in DOMAIN order : i <= offset
    BY <2>1
  <2>3. ToSet(order) \subseteq InFront(order, offset)
    BY <2>2 DEF InFront, ToSet
  <2>4. steady \ ToSet(result) = Missed
    <3>1. steady \ ToSet(result) \subseteq Missed
      BY <2>1, <2>3 DEF Missed
    <3> QED
      BY <3>1 DEF Missed
  <2>5. Cardinality(Again) \in Nat /\ Cardinality(ToSet(result)) \in Nat
    BY <2>1, PagesFinite
  <2>6. /\ Cardinality(Missed) <= vanished + moved
        /\ Len(result) - Cardinality(ToSet(result)) + Cardinality(Again) <= appeared + moved
    BY <2>1 DEF Bounded, Repeated
  <2>7. Len(result) \in Nat /\ appeared \in Nat /\ moved \in Nat
    BY <2>1
  <2>8. Len(result) - Cardinality(ToSet(result)) <= appeared + moved
    BY ONLY <2>5, <2>6, <2>7
  <2> QED
    BY <2>4, <2>6, <2>8
<1> QED
  BY <1>1, PagesInitOK, PagesNextOK, PTL DEF Spec

\* Only lists too long for the result window of OpenSearch fail, as long as
\* it answers.
THEOREM OnlyLongListsFail == Spec => []RejectedOnlyWhenFull
<1>1. PagesInv => RejectedOnlyWhenFull
  BY DEF PagesInv
<1> QED
  BY <1>1, PagesInitOK, PagesNextOK, PTL DEF Spec

-----------------------------------------------------------------------------
(* Http.                                                                   *)

\* The options Query would have to be called with in the place of the call c,
\* and what it would refuse them with.
LocalOptions(c) ==
  LET n == Normal(c.options) IN IF c.op = "Total" THEN [n EXCEPT !.ids = Absent] ELSE n

LocalRefusals(c) ==
  Refusals(c.op, c.token, LocalOptions(c))
    \cup (IF c.op = "Total" /\ ~Validate(LocalOptions(c)) THEN {"bad"} ELSE {})

\* The call c may be answered with k, an error or "ok".
AsLocal(c, k) ==
  IF c.op = "GetTermAggregation" THEN k = "other" /\ asked = Absent
  ELSE IF c.op = "Query" THEN k = err
  ELSE IF LocalRefusals(c) # {} THEN asked = Absent /\ k \in LocalRefusals(c)
  ELSE k = err /\ asked = Search(c.op, LocalOptions(c))

\* What the client library makes of an answer.
Decoded ==
  IF status = 200 /\ text /\ wire.method # "HEAD" THEN "other" ELSE GetErrFromCode(status)

-----------------------------------------------------------------------------
(* The invariant.                                                          *)

\* A request names a route; one of the client library is the encoded call.
RequestOK ==
  /\ \E r \in Routes : r.name = wire.name
  /\ call # Absent => call \in Calls /\ wire = Encode(call)
  /\ stage = "sent" => asked = Absent /\ err = "ok" /\ code = 0 /\ failed = {}

\* A call only leads to a search Query does not refuse, and to no other.
SearchOK ==
  stage = "search" /\ call # Absent =>
    /\ wire.method = Routed.method
    /\ call.op \in {"List", "Total", "GetRights", "CheckUserOrGroup"}
    /\ LocalRefusals(call) = {}
    /\ asked = Search(call.op, LocalOptions(call))

\* Only parts in front of next are in f.
FailedBefore(next, f) ==
  /\ next = "find" => f = {}
  /\ next \in {"modify find", "check"} => f \subseteq {"find"}
  /\ next = "ids" => f \subseteq {"find", "check"}
  /\ next \in {"modify ids", "aggregate"} => f \subseteq {"find", "check", "ids"}

\* A modifier was added in front of a part that failed with k.
FailedBehind(k, f) ==
  k = "other" => \/ Modified("find") /\ f \cap {"check", "ids", "aggregate"} # {}
                 \/ Modified("ids") /\ "aggregate" \in f

\* What the error k, the code c and the failed parts f may be in front of the
\* part next: the code 200 is left by an added modifier, other codes by
\* a part that failed.
PartOK(next, k, c, f) ==
  /\ \/ c \in {0, 200} /\ k \in {"ok", "other"}
     \/ c = 400 /\ k = "bad" /\ next = "end" /\ V3
     \/ c = 500 /\ k = "other" /\ next = "end" /\ V3
  /\ next \in {"find", "modify find"} => c = 0
  /\ next = "modify find" => V3 /\ Modified("find")
  /\ next = "modify ids" => V3 /\ Modified("ids")
  /\ c = 200 => /\ V3 /\ FailedBehind(k, f)
                /\ next \in {"check", "ids", "modify ids"} => Modified("find")
                /\ Modified("find") \/ Modified("ids")
  /\ k = "ok" => \A p \in f : Overwritten(p)
  /\ FailedBefore(next, f)

\* A message is worked on for a query only.
MessageOK ==
  stage = "message" =>
    /\ Routed.op = "Query"
    /\ call # Absent => call.op = "Query"
    /\ PartOK(part, err, code, failed)

\* An answer tells the outcome, and the client library makes of it what Query
\* said; RemoteAsLocal says so only after the answer is decoded.
AnswerOK ==
  /\ AnswersTellOutcome
  /\ stage = "answered" /\ call # Absent => AsLocal(call, Decoded)

HttpInv == RequestOK /\ SearchOK /\ MessageOK /\ AnswerOK /\ RemoteAsLocal

-----------------------------------------------------------------------------
(* Routes, errors and options.                                             *)

\* Every route has the status 200 for success; the bool endpoints have no
\* other, and the others have none that is 200 for an error.
LEMMA RouteCodes ==
  \A r \in Routes :
    /\ r.codes["ok"] = 200
    /\ r.codes # Bool => \A k \in Kind \ {"ok"} : r.codes[k] # 200
    /\ r.op = "Query" => r.codes # Bool
<1> DEFINE Codes == {InternalError, Unauthorized, Bool, GetErrCode,
                     InternalErrorBut({"not_found"}),
                     InternalErrorBut({"not_found", "denied"})}
<1>1. \A r \in Routes : r.codes \in Codes
  BY DEF Routes, AdministrateRoutes, AllRoutes, SelectRoutes, SearchRoutes, ListRoutes, CheckRoutes,
         IdsRoutes, SubjectRoutes, MigrationRoutes, SelectionRoutes, V2Routes, V3Routes, Route
<1>2. \A r \in Routes : r.op = "Query" => r.codes \in {InternalError, GetErrCode}
  BY DEF Routes, AdministrateRoutes, AllRoutes, SelectRoutes, SearchRoutes, ListRoutes, CheckRoutes,
         IdsRoutes, SubjectRoutes, MigrationRoutes, SelectionRoutes, V2Routes, V3Routes, Route
<1>3. ASSUME NEW t \in Codes
      PROVE  t["ok"] = 200 /\ (t # Bool => \A k \in Kind \ {"ok"} : t[k] # 200)
  <2>1. CASE t \in {InternalError, Unauthorized, Bool}
    BY <2>1 DEF InternalError, InternalErrorBut, Unauthorized, Bool, Kind
  <2>2. CASE t = GetErrCode
    BY <2>2 DEF GetErrCode, Kind
  <2>3. CASE t = InternalErrorBut({"not_found"})
    BY <2>3 DEF InternalErrorBut, GetErrCode, Kind
  <2>4. CASE t = InternalErrorBut({"not_found", "denied"})
    BY <2>4 DEF InternalErrorBut, GetErrCode, Kind
  <2> QED
    BY <2>1, <2>2, <2>3, <2>4
<1>4. InternalError # Bool /\ GetErrCode # Bool
  <2>1. InternalError["other"] = 500 /\ GetErrCode["other"] = 500 /\ Bool["other"] = 200
    BY DEF InternalError, InternalErrorBut, Bool, GetErrCode, Kind
  <2> QED
    BY <2>1
<1> HIDE DEF Codes
<1> QED
  BY <1>1, <1>2, <1>3, <1>4

\* A request that names a route is handled by the route of that name.
LEMMA RoutedIsRoute ==
  ASSUME \E r \in Routes : r.name = wire.name
  PROVE  Routed \in Routes /\ Routed.name = wire.name
BY DEF Routed

\* The routes the client library uses.
LEMMA ClientRoutes ==
  /\ wire.name = "v3/list" =>
       Routed = Route("v3/list", "GET", "List", "passed", "url", "url", FALSE, GetErrCode)
  /\ wire.name = "v3/total" =>
       Routed = Route("v3/total", "GET", "Total", "passed", "url", "url", FALSE, GetErrCode)
  /\ wire.name = "v3/query" =>
       Routed = Route("v3/query", "POST", "Query", "passed", "none", "none", TRUE, GetErrCode)
  /\ wire.name = "v3/rights" =>
       Routed = Route("v3/rights", "GET", "GetRights", "passed", "none", "none", FALSE,
                      InternalErrorBut({"not_found", "denied"}))
  /\ wire.name = "v3/check" =>
       Routed = Route("v3/check", "HEAD", "CheckUserOrGroup", "passed", "url", "none", FALSE, GetErrCode)
  /\ wire.name = "v3/aggregates" =>
       Routed = Route("v3/aggregates", "GET", "GetTermAggregation", "passed", "r", "none", FALSE,
                      InternalError)
<1>1. \A r \in Routes : r.name \in {"v3/list", "v3/total", "v3/query", "v3/rights", "v3/check", "v3/aggregates"}
        => r \in V3Routes
  BY DEF Routes, AdministrateRoutes, AllRoutes, SelectRoutes, SearchRoutes, ListRoutes, CheckRoutes,
         IdsRoutes, SubjectRoutes, MigrationRoutes, SelectionRoutes, V2Routes, Route
<1>2. V3Routes \subseteq Routes
  BY DEF Routes
<1> QED
  BY <1>1, <1>2 DEF Routed, V3Routes, Route

\* An error survives its way over the status; an unknown status is an error.
LEMMA ErrorsDecoded ==
  /\ \A k \in Kind : GetErrFromCode(GetErrCode[k]) = k
  /\ GetErrFromCode(405) = "other"
<1>1. \A k, l \in Kind : GetErrCode[k] = GetErrCode[l] => k = l
  BY DEF Kind, GetErrCode
<1>2. \A k \in Kind : GetErrCode[k] # 405
  BY DEF Kind, GetErrCode
<1> QED
  BY <1>1, <1>2 DEF GetErrFromCode

\* Options that ask for the same.
SameOptions(m, n) ==
  /\ m.limit = n.limit /\ m.offset = n.offset /\ m.sortBy = n.sortBy /\ m.desc = n.desc
  /\ m.after = n.after /\ m.mod = n.mod
  /\ m.search = n.search /\ m.filter = n.filter /\ m.ids = n.ids
  /\ OneOf(m.rights, "r") = OneOf(n.rights, "r")

\* Query does not tell such options apart.
LEMMA SameAnswer ==
  ASSUME NEW m, NEW n, SameOptions(m, n)
  PROVE  /\ Validate(m) <=> Validate(n)
         /\ \A op, token : Refusals(op, token, m) = Refusals(op, token, n)
         /\ \A op : Search(op, m) = Search(op, n)
<1> USE DEF SameOptions
<1>1. Validate(m) <=> Validate(n)
  BY DEF Validate
<1>2. Modes(m) = Modes(n)
  <2>1. \A f \in {"search", "filter", "ids"} : m[f] = n[f]
    OBVIOUS
  <2> QED
    BY <2>1 DEF Modes
<1>3. \A op, token : Refusals(op, token, m) = Refusals(op, token, n)
  BY <1>1, <1>2 DEF Refusals
<1>4. ASSUME NEW op PROVE Search(op, m) = Search(op, n)
  <2>1. Dispatch(op, m) = Dispatch(op, n) /\ Pagination(m) = Pagination(n)
    BY DEF Dispatch, Pagination
  <2> QED
    BY <2>1 DEF Search
<1> QED
  BY <1>1, <1>3, <1>4

\* The fields of a normal form.
LEMMA NormalFields ==
  ASSUME NEW o \in ListOptions
  PROVE  /\ Normal(o).limit = (IF o.limit > 0 THEN o.limit ELSE DefaultLimit)
         /\ Normal(o).offset = (IF o.offset > 0 THEN o.offset ELSE 0)
         /\ Normal(o).sortBy = o.sortBy
         /\ Normal(o).desc = (o.desc /\ o.sortBy # Absent)
         /\ Normal(o).after = (IF o.after = Empty THEN Absent ELSE o.after)
         /\ Normal(o).mod = o.mod /\ Normal(o).rights = o.rights
         /\ Normal(o).search = o.search /\ Normal(o).filter = o.filter /\ Normal(o).ids = o.ids
BY DEF Normal, ListOptions

\* Numbers below 1, a direction without a field and an "after" without an id
\* are not sent: what arrives of the options of a list is their normal form,
\* with the right to read where none is named.
LEMMA OptionsArrive ==
  ASSUME NEW o \in ListOptions
  PROVE  LET arrived == FromUrlQuery(QueryValues(o), OneOf(QueryValues(o).rights, "r"))
         IN  /\ SameOptions(arrived, Normal(o))
             /\ SameOptions([arrived EXCEPT !.ids = Absent], [Normal(o) EXCEPT !.ids = Absent])
             /\ arrived.limit \in Nat /\ arrived.offset \in Nat
             /\ [arrived EXCEPT !.ids = Absent].limit \in Nat
             /\ [arrived EXCEPT !.ids = Absent].offset \in Nat
<1> DEFINE q == QueryValues(o)
           a == FromUrlQuery(q, OneOf(q.rights, "r"))
           n == Normal(o)
<1>1. o.limit \in Int /\ o.offset \in Int /\ Absent \notin Int /\ DefaultLimit \in Nat
  BY HttpAssumption DEF ListOptions
<1>2. /\ q.limit = (IF o.limit > 0 THEN o.limit ELSE Absent)
      /\ q.offset = (IF o.offset > 0 THEN o.offset ELSE Absent)
      /\ q.rights = o.rights
  BY DEF QueryValues
<1>3. /\ a.limit = OneOf(q.limit, DefaultLimit)
      /\ a.offset = OneOf(q.offset, 0)
      /\ a.rights = OneOf(q.rights, "r")
      /\ a.sortBy = o.sortBy /\ a.desc = (o.desc /\ o.sortBy # Absent)
      /\ a.after = (IF o.after = Empty THEN Absent ELSE o.after)
      /\ a.mod = o.mod /\ a.search = o.search /\ a.filter = o.filter /\ a.ids = o.ids
  BY DEF FromUrlQuery, QueryValues
<1>4. /\ [a EXCEPT !.ids = Absent].limit = a.limit /\ [a EXCEPT !.ids = Absent].offset = a.offset
      /\ [a EXCEPT !.ids = Absent].sortBy = a.sortBy /\ [a EXCEPT !.ids = Absent].desc = a.desc
      /\ [a EXCEPT !.ids = Absent].after = a.after /\ [a EXCEPT !.ids = Absent].mod = a.mod
      /\ [a EXCEPT !.ids = Absent].search = a.search /\ [a EXCEPT !.ids = Absent].filter = a.filter
      /\ [a EXCEPT !.ids = Absent].ids = Absent /\ [a EXCEPT !.ids = Absent].rights = a.rights
  BY DEF FromUrlQuery, QueryValues
<1>5. /\ [n EXCEPT !.ids = Absent].limit = n.limit /\ [n EXCEPT !.ids = Absent].offset = n.offset
      /\ [n EXCEPT !.ids = Absent].sortBy = n.sortBy /\ [n EXCEPT !.ids = Absent].desc = n.desc
      /\ [n EXCEPT !.ids = Absent].after = n.after /\ [n EXCEPT !.ids = Absent].mod = n.mod
      /\ [n EXCEPT !.ids = Absent].search = n.search /\ [n EXCEPT !.ids = Absent].filter = n.filter
      /\ [n EXCEPT !.ids = Absent].ids = Absent /\ [n EXCEPT !.ids = Absent].rights = n.rights
  BY DEF Normal, ListOptions
<1> HIDE DEF a, n, q
<1>6. OneOf(a.rights, "r") = OneOf(o.rights, "r")
  BY <1>2, <1>3 DEF OneOf
<1>7. /\ a.limit = (IF o.limit > 0 THEN o.limit ELSE DefaultLimit)
      /\ a.offset = (IF o.offset > 0 THEN o.offset ELSE 0)
  BY <1>1, <1>2, <1>3 DEF OneOf
<1>8. a.limit \in Nat /\ a.offset \in Nat
  BY <1>1, <1>7
<1>9. SameOptions(a, n)
  BY <1>3, <1>6, <1>7, NormalFields DEF SameOptions, n
<1>10. SameOptions([a EXCEPT !.ids = Absent], [n EXCEPT !.ids = Absent])
  BY <1>4, <1>5, <1>9 DEF SameOptions
<1> QED
  BY <1>4, <1>8, <1>9, <1>10 DEF a, n, q

-----------------------------------------------------------------------------
\* A call reaches the endpoint of its operation, which refuses it if the
\* operation would, searches for the same, and has a status of its own for
\* every error the operation may return.
CallArrives ==
  /\ wire.method = Routed.method
  /\ Routed.op = call.op /\ Routed.codes # Bool
  /\ Malformed => "bad" \in LocalRefusals(call)
  /\ Refusals(Routed.op, Parses, Options) \subseteq LocalRefusals(call)
  /\ ~Malformed /\ Refusals(Routed.op, Parses, Options) = {} => LocalRefusals(call) = {}
  /\ Search(Routed.op, Options) = Search(call.op, LocalOptions(call))
  /\ \A k \in Outcomes(call.op) \cup LocalRefusals(call) : GetErrFromCode(Routed.codes[k]) = k

\* The endpoints the client library uses are not the bool endpoints.
LEMMA NotBool ==
  GetErrCode # Bool /\ InternalErrorBut({"not_found", "denied"}) # Bool
<1>1. /\ GetErrCode["other"] = 500 /\ Bool["other"] = 200
      /\ InternalErrorBut({"not_found", "denied"})["other"] = 500
  BY DEF InternalErrorBut, Bool, GetErrCode, Kind
<1> QED
  BY <1>1

\* A list: the options arrive as their normal form.
LEMMA ListArrives ==
  ASSUME call \in Calls, wire = Encode(call), call.op = "List"
  PROVE  CallArrives
<1> DEFINE o == call.options
           a == FromUrlQuery(QueryValues(o), OneOf(QueryValues(o).rights, "r"))
<1>1. o \in ListOptions /\ call.token \in BOOLEAN
  BY HttpAssumption
<1>2. wire = Wire("v3/list", "GET", call.token, QueryValues(o), Absent)
  BY DEF Encode
<1>3. /\ wire.name = "v3/list" /\ wire.method = "GET" /\ wire.token = call.token
      /\ wire.q = QueryValues(o)
  BY <1>2 DEF Wire
<1>4. Routed = Route("v3/list", "GET", "List", "passed", "url", "url", FALSE, GetErrCode)
  BY <1>3, ClientRoutes
<1>5. /\ Routed.method = "GET" /\ Routed.op = "List" /\ Routed.token = "passed"
      /\ Routed.rights = "url" /\ Routed.options = "url" /\ Routed.body = FALSE
      /\ Routed.codes = GetErrCode
  BY <1>4 DEF Route
<1> HIDE DEF Routed
<1>6. Rights = OneOf(QueryValues(o).rights, "r")
  BY <1>3, <1>5 DEF Rights
<1>7. Options = a
  BY <1>3, <1>5, <1>6 DEF Options
<1>8. /\ SameOptions(a, Normal(o)) /\ a.limit \in Nat /\ a.offset \in Nat
  BY <1>1, OptionsArrive
<1>9. LocalOptions(call) = Normal(o)
  BY DEF LocalOptions
<1> HIDE DEF a, o
<1>10. /\ Validate(a) <=> Validate(Normal(o))
       /\ \A op, token : Refusals(op, token, a) = Refusals(op, token, Normal(o))
       /\ \A op : Search(op, a) = Search(op, Normal(o))
  BY <1>8, SameAnswer
<1>11. Parses <=> call.token
  BY <1>3, <1>5 DEF Parses
<1>12. LocalRefusals(call) = Refusals("List", call.token, Normal(o))
  BY <1>9 DEF LocalRefusals
<1>13. Malformed <=> ~Validate(Normal(o))
  <2>1. Parsed(a) <=> Validate(a)
    BY <1>8, HttpAssumption DEF Parsed
  <2> QED
    BY <1>3, <1>5, <1>7, <1>10, <2>1 DEF Malformed
<1>14. Malformed => "bad" \in LocalRefusals(call)
  BY <1>12, <1>13 DEF Refusals
<1>15. Refusals(Routed.op, Parses, Options) = LocalRefusals(call)
  <2>1. Refusals("List", Parses, Normal(o)) = Refusals("List", call.token, Normal(o))
    BY <1>11 DEF Refusals
  <2> QED
    BY <1>5, <1>7, <1>10, <1>12, <2>1
<1>16. \A k \in Outcomes(call.op) \cup LocalRefusals(call) : GetErrFromCode(Routed.codes[k]) = k
  <2>1. Outcomes(call.op) \cup LocalRefusals(call) \subseteq Kind
    BY <1>12 DEF Outcomes, Refusals, Kind
  <2> QED
    BY <1>5, <2>1, ErrorsDecoded
<1> QED
  BY <1>3, <1>5, <1>7, <1>9, <1>10, <1>14, <1>15, <1>16, NotBool DEF CallArrives

\* A total: ids are left out, and the endpoint validates what Query does not.
LEMMA TotalArrives ==
  ASSUME call \in Calls, wire = Encode(call), call.op = "Total"
  PROVE  CallArrives
<1> DEFINE o == call.options
           a == FromUrlQuery(QueryValues(o), OneOf(QueryValues(o).rights, "r"))
           m == [a EXCEPT !.ids = Absent]
           n == [Normal(o) EXCEPT !.ids = Absent]
<1>1. o \in ListOptions /\ call.token \in BOOLEAN
  BY HttpAssumption
<1>2. wire = Wire("v3/total", "GET", call.token, QueryValues(o), Absent)
  BY DEF Encode
<1>3. /\ wire.name = "v3/total" /\ wire.method = "GET" /\ wire.token = call.token
      /\ wire.q = QueryValues(o)
  BY <1>2 DEF Wire
<1>4. Routed = Route("v3/total", "GET", "Total", "passed", "url", "url", FALSE, GetErrCode)
  BY <1>3, ClientRoutes
<1>5. /\ Routed.method = "GET" /\ Routed.op = "Total" /\ Routed.token = "passed"
      /\ Routed.rights = "url" /\ Routed.options = "url" /\ Routed.body = FALSE
      /\ Routed.codes = GetErrCode
  BY <1>4 DEF Route
<1> HIDE DEF Routed
<1>6. Rights = OneOf(QueryValues(o).rights, "r")
  BY <1>3, <1>5 DEF Rights
<1>7. Options = m
  BY <1>3, <1>5, <1>6 DEF Options
<1>8. SameOptions(m, n) /\ m.limit \in Nat /\ m.offset \in Nat
  BY <1>1, OptionsArrive
<1>9. LocalOptions(call) = n
  BY DEF LocalOptions
<1> HIDE DEF a, m, n, o
<1>10. /\ Validate(m) <=> Validate(n)
       /\ \A op, token : Refusals(op, token, m) = Refusals(op, token, n)
       /\ \A op : Search(op, m) = Search(op, n)
  BY <1>8, SameAnswer
<1>11. Parses <=> call.token
  BY <1>3, <1>5 DEF Parses
<1>12. LocalRefusals(call) =
         Refusals("Total", call.token, n) \cup (IF ~Validate(n) THEN {"bad"} ELSE {})
  BY <1>9 DEF LocalRefusals
<1>13. Malformed <=> ~Validate(n)
  <2>1. Parsed(m) <=> Validate(m)
    BY <1>8, HttpAssumption DEF Parsed
  <2> QED
    BY <1>3, <1>5, <1>7, <1>10, <2>1 DEF Malformed
<1>14. Malformed => "bad" \in LocalRefusals(call)
  BY <1>12, <1>13
<1>15. /\ Refusals(Routed.op, Parses, Options) \subseteq LocalRefusals(call)
       /\ ~Malformed /\ Refusals(Routed.op, Parses, Options) = {} => LocalRefusals(call) = {}
  <2>1. Refusals("Total", Parses, n) = Refusals("Total", call.token, n)
    BY <1>11 DEF Refusals
  <2> QED
    BY <1>5, <1>7, <1>10, <1>12, <1>13, <2>1
<1>16. \A k \in Outcomes(call.op) \cup LocalRefusals(call) : GetErrFromCode(Routed.codes[k]) = k
  <2>1. Outcomes(call.op) \cup LocalRefusals(call) \subseteq Kind
    BY <1>12 DEF Outcomes, Refusals, Kind
  <2> QED
    BY <1>5, <2>1, ErrorsDecoded
<1> QED
  BY <1>3, <1>5, <1>7, <1>9, <1>10, <1>14, <1>15, <1>16, NotBool DEF CallArrives

\* The rights of an entry: options do not matter.
LEMMA RightsArrive ==
  ASSUME call \in Calls, wire = Encode(call), call.op = "GetRights"
  PROVE  CallArrives
<1> DEFINE o == call.options
           codes == InternalErrorBut({"not_found", "denied"})
           a == [NoOptions EXCEPT !.rights = Absent]
<1>1. /\ o \in ListOptions /\ call.token \in BOOLEAN
      /\ o.search = Absent /\ o.filter = Absent /\ o.ids = Absent
  BY HttpAssumption
<1>2. wire = Wire("v3/rights", "GET", call.token, NoOptions, Absent)
  BY DEF Encode
<1>3. /\ wire.name = "v3/rights" /\ wire.method = "GET" /\ wire.token = call.token
      /\ wire.q = NoOptions
  BY <1>2 DEF Wire
<1>4. Routed = Route("v3/rights", "GET", "GetRights", "passed", "none", "none", FALSE, codes)
  BY <1>3, ClientRoutes
<1>5. /\ Routed.method = "GET" /\ Routed.op = "GetRights" /\ Routed.token = "passed"
      /\ Routed.rights = "none" /\ Routed.options = "none" /\ Routed.body = FALSE
      /\ Routed.codes = codes
  BY <1>4 DEF Route
<1> HIDE DEF Routed, codes
<1>6. Rights = Absent
  BY <1>5 DEF Rights
<1>7. Options = a
  BY <1>3, <1>5, <1>6 DEF Options
<1>8. LocalOptions(call) = Normal(o)
  BY DEF LocalOptions
<1>9. /\ a.search = Absent /\ a.filter = Absent /\ a.ids = Absent
      /\ Normal(o).search = Absent /\ Normal(o).filter = Absent /\ Normal(o).ids = Absent
  BY <1>1, NormalFields DEF NoOptions
<1> HIDE DEF a, o
<1>10. ~Malformed
  BY <1>3, <1>5 DEF Malformed
<1>11. /\ Refusals(Routed.op, Parses, Options) = Refusals("GetRights", call.token, Normal(o))
       /\ LocalRefusals(call) = Refusals("GetRights", call.token, Normal(o))
       /\ LocalRefusals(call) \subseteq {"other"}
  <2>1. Parses <=> call.token
    BY <1>3, <1>5 DEF Parses
  <2> QED
    BY <1>5, <1>8, <2>1 DEF Refusals, LocalRefusals
<1>12. Search("GetRights", a) = Search("GetRights", Normal(o))
  BY <1>9 DEF Search, Dispatch, Paged
<1>13. \A k \in {"ok", "denied", "not_found", "other"} : GetErrFromCode(codes[k]) = k
  <2>1. \A k \in {"ok", "denied", "not_found", "other"} : k \in Kind /\ codes[k] = GetErrCode[k]
    BY DEF codes, InternalErrorBut, GetErrCode, Kind
  <2> QED
    BY <2>1, ErrorsDecoded
<1>14. Outcomes(call.op) = {"ok", "denied", "not_found", "other"}
  BY DEF Outcomes
<1> QED
  BY <1>3, <1>5, <1>7, <1>8, <1>10, <1>11, <1>12, <1>13, <1>14, NotBool DEF CallArrives, codes

\* A check: only the rights to look for arrive, and only they matter.
LEMMA CheckArrives ==
  ASSUME call \in Calls, wire = Encode(call), call.op = "CheckUserOrGroup"
  PROVE  CallArrives
<1> DEFINE o == call.options
           q == [NoOptions EXCEPT !.rights = o.rights]
           a == [q EXCEPT !.rights = OneOf(q.rights, "r")]
<1>1. /\ o \in ListOptions /\ call.token \in BOOLEAN
      /\ o.search = Absent /\ o.filter = Absent /\ o.ids = Absent
  BY HttpAssumption
<1>2. wire = Wire("v3/check", "HEAD", call.token, q, Absent)
  BY DEF Encode
<1>3. wire.name = "v3/check" /\ wire.method = "HEAD" /\ wire.token = call.token /\ wire.q = q
  BY <1>2 DEF Wire
<1>4. Routed = Route("v3/check", "HEAD", "CheckUserOrGroup", "passed", "url", "none", FALSE, GetErrCode)
  BY <1>3, ClientRoutes
<1>5. /\ Routed.method = "HEAD" /\ Routed.op = "CheckUserOrGroup" /\ Routed.token = "passed"
      /\ Routed.rights = "url" /\ Routed.options = "none" /\ Routed.body = FALSE
      /\ Routed.codes = GetErrCode
  BY <1>4 DEF Route
<1> HIDE DEF Routed
<1>6. Rights = OneOf(q.rights, "r")
  BY <1>3, <1>5 DEF Rights
<1>7. Options = a
  BY <1>3, <1>5, <1>6 DEF Options
<1>8. LocalOptions(call) = Normal(o)
  BY DEF LocalOptions
<1>9. /\ a.search = Absent /\ a.filter = Absent /\ a.ids = Absent
      /\ a.rights = OneOf(o.rights, "r") /\ Normal(o).rights = o.rights
      /\ Normal(o).search = Absent /\ Normal(o).filter = Absent /\ Normal(o).ids = Absent
  BY <1>1, NormalFields DEF NoOptions
<1> HIDE DEF a, o
<1>10. ~Malformed
  BY <1>3, <1>5 DEF Malformed
<1>11. /\ Refusals(Routed.op, Parses, Options) = Refusals("CheckUserOrGroup", call.token, Normal(o))
       /\ LocalRefusals(call) = Refusals("CheckUserOrGroup", call.token, Normal(o))
       /\ LocalRefusals(call) \subseteq {"other"}
  <2>1. Parses <=> call.token
    BY <1>3, <1>5 DEF Parses
  <2> QED
    BY <1>5, <1>8, <2>1 DEF Refusals, LocalRefusals
<1>12. Search("CheckUserOrGroup", a) = Search("CheckUserOrGroup", Normal(o))
  <2>1. OneOf(a.rights, "r") = OneOf(Normal(o).rights, "r")
    BY <1>9 DEF OneOf
  <2> QED
    BY <1>9, <2>1 DEF Search, Dispatch, Paged
<1>13. \A k \in {"ok", "denied", "other"} : GetErrFromCode(GetErrCode[k]) = k
  BY ErrorsDecoded DEF Kind
<1>14. Outcomes(call.op) = {"ok", "denied", "other"}
  BY DEF Outcomes
<1> QED
  BY <1>3, <1>5, <1>7, <1>8, <1>10, <1>11, <1>12, <1>13, <1>14, NotBool DEF CallArrives

\* Every call of the library goes to a route.
LEMMA CallsRouted ==
  ASSUME NEW c \in Calls
  PROVE  \E r \in Routes : r.name = Encode(c).name
<1>1. c.op \in ClientOps
  BY HttpAssumption
<1>2. Encode(c).name \in {"v3/list", "v3/total", "v3/query", "v3/rights", "v3/check", "v3/aggregates"}
  BY <1>1 DEF ClientOps, Encode, Wire
<1>3. \A name \in {"v3/list", "v3/total", "v3/query", "v3/rights", "v3/check", "v3/aggregates"} :
        \E r \in V3Routes : r.name = name
  BY DEF V3Routes, Route
<1> QED
  BY <1>2, <1>3 DEF Routes

\* The four operations that are one search.
LEMMA SearchesArrive ==
  ASSUME RequestOK, call # Absent,
         call.op \in {"List", "Total", "GetRights", "CheckUserOrGroup"}
  PROVE  CallArrives
BY ListArrives, TotalArrives, RightsArrive, CheckArrives DEF RequestOK

\* A message with parts is sent with all errors, an aggregation nowhere.
LEMMA OthersArrive ==
  ASSUME RequestOK, call # Absent
  PROVE  /\ call.op \in ClientOps
         /\ call.op = "Query" =>
              /\ wire.method = Routed.method /\ Routed.op = "Query" /\ Routed.codes = GetErrCode
              /\ V3 /\ Malformed = FALSE
         /\ call.op = "GetTermAggregation" => wire.method # Routed.method
<1>1. call \in Calls /\ wire = Encode(call) /\ call.op \in ClientOps
  BY HttpAssumption DEF RequestOK
<1>2. CASE call.op = "Query"
  <2>1. wire = Wire("v3/query", "POST", call.token, NoOptions, call.message)
    BY <1>1, <1>2 DEF Encode
  <2>2. wire.name = "v3/query" /\ wire.method = "POST" /\ wire.body = TRUE
    BY <2>1 DEF Wire
  <2>3. Routed = Route("v3/query", "POST", "Query", "passed", "none", "none", TRUE, GetErrCode)
    BY <2>2, ClientRoutes
  <2>4. /\ Routed.method = "POST" /\ Routed.op = "Query" /\ Routed.codes = GetErrCode
        /\ Routed.token = "passed" /\ Routed.options = "none"
    BY <2>3 DEF Route
  <2> HIDE DEF Routed
  <2> QED
    BY <1>1, <1>2, <2>2, <2>4 DEF V3, Malformed
<1>3. CASE call.op = "GetTermAggregation"
  <2>1. wire.name = "v3/aggregates" /\ wire.method = "HEAD"
    BY <1>1, <1>3 DEF Encode, Wire
  <2>2. Routed.method = "GET"
    BY <2>1, ClientRoutes DEF Route
  <2> QED
    BY <1>1, <1>3, <2>1, <2>2
<1> QED
  BY <1>1, <1>2, <1>3

\* An answer tells the outcome, and the library reads it from the status.
LEMMA RespondTells ==
  ASSUME RequestOK, NEW k \in Kind, Respond(k), err' = k,
         k = "ok" => \A p \in failed' : Overwritten(p)'
  PROVE  /\ AnswersTellOutcome'
         /\ Routed.codes # Bool => Decoded' = GetErrFromCode(Routed.codes[k])
<1>1. Routed \in Routes
  BY RoutedIsRoute DEF RequestOK
<1>2. /\ Routed.codes["ok"] = 200
      /\ Routed.codes # Bool => \A l \in Kind \ {"ok"} : Routed.codes[l] # 200
  BY <1>1, RouteCodes
<1>3. /\ status' = Routed.codes[k] /\ granted' = (k = "ok")
      /\ text' = (k # "ok" /\ Routed.codes # Bool)
      /\ wire' = wire
  BY DEF Respond, Answer
<1> HIDE DEF Routed
<1>4. ~(status' = 200 /\ text')
  BY <1>2, <1>3
<1>5. status' # 200 => k # "ok"
  BY <1>2, <1>3
<1>6. Decoded' = GetErrFromCode(status')
  BY <1>4 DEF Decoded, GetErrFromCode
<1> QED
  BY <1>3, <1>4, <1>5, <1>6 DEF AnswersTellOutcome

-----------------------------------------------------------------------------
(* Every step keeps the invariant.                                         *)

LEMMA HttpInitOK == HttpInit => HttpInv
<1> SUFFICES ASSUME HttpInit PROVE HttpInv
  OBVIOUS
<1>1. \E r \in Routes : r.name = wire.name
  <2>1. wire.name = "v3/list"
    BY DEF HttpInit, Wire
  <2>2. \E r \in V3Routes : r.name = "v3/list"
    BY DEF V3Routes, Route
  <2> QED
    BY <2>1, <2>2 DEF Routes
<1> QED
  BY <1>1 DEF HttpInit, HttpInv, RequestOK, SearchOK, MessageOK, AnswerOK, RemoteAsLocal, AnswersTellOutcome

\* A request of the client library or of anybody else.
LEMMA SendOK ==
  ASSUME HttpInv, NEW c, NEW w, Send(c, w), \E r \in Routes : r.name = w.name,
         c # Absent => c \in Calls /\ w = Encode(c)
  PROVE  HttpInv'
BY DEF Send, HttpInv, RequestOK, SearchOK, MessageOK, AnswerOK, RemoteAsLocal, AnswersTellOutcome

\* An endpoint answers.
LEMMA AnsweredOK ==
  ASSUME HttpInv, stage' = "answered", UNCHANGED <<call, wire>>,
         AnswersTellOutcome', call # Absent => AsLocal(call, Decoded)'
  PROVE  HttpInv'
BY DEF HttpInv, RequestOK, SearchOK, MessageOK, AnswerOK, RemoteAsLocal

\* Of the calls only the aggregation is refused by the router.
LEMMA MethodNotAllowedOK ==
  ASSUME HttpInv, MethodNotAllowed
  PROVE  HttpInv'
<1>1. AnswersTellOutcome'
  BY DEF MethodNotAllowed, Answer, AnswersTellOutcome
<1>2. ASSUME call # Absent PROVE AsLocal(call, Decoded)'
  <2>1. call.op = "GetTermAggregation"
    BY <1>2, SearchesArrive, OthersArrive DEF HttpInv, MethodNotAllowed, CallArrives, ClientOps
  <2>2. Decoded' = "other"
    BY ErrorsDecoded DEF MethodNotAllowed, Answer, Decoded, GetErrFromCode
  <2>3. asked' = Absent /\ call' = call
    BY DEF MethodNotAllowed, Answer, HttpInv, RequestOK
  <2> QED
    BY <2>1, <2>2, <2>3 DEF AsLocal
<1> QED
  BY <1>1, <1>2, AnsweredOK DEF MethodNotAllowed, Answer

\* LocalRefusals speaks of the call only.
LEMMA RefusedAsLocal ==
  ASSUME HttpInv, call # Absent, UNCHANGED call, asked' = Absent, NEW k,
         \/ call.op = "Query" /\ k = err'
         \/ call.op \in {"List", "Total", "GetRights", "CheckUserOrGroup"} /\ k \in LocalRefusals(call),
         Decoded' = k
  PROVE  AsLocal(call, Decoded)'
<1>1. LocalRefusals(call)' = LocalRefusals(call)
  BY DEF LocalRefusals, LocalOptions
<1> QED
  BY <1>1 DEF AsLocal

\* The endpoint of a call rejects only what Query refuses as well.
LEMMA RejectOK ==
  ASSUME HttpInv, Reject
  PROVE  HttpInv'
<1>1. AnswersTellOutcome'
  BY DEF Reject, Answer, AnswersTellOutcome
<1>2. ASSUME call # Absent PROVE AsLocal(call, Decoded)'
  <2>1. Decoded' = "bad" /\ err' = "bad" /\ asked' = Absent /\ call' = call
    <3>1. GetErrFromCode(400) = "bad"
      <4>1. "bad" \in Kind /\ GetErrCode["bad"] = 400
        BY DEF Kind, GetErrCode
      <4> QED
        BY <4>1, ErrorsDecoded
    <3>2. Decoded' = GetErrFromCode(400)
      BY DEF Reject, Answer, Decoded, GetErrFromCode
    <3> QED
      BY <3>1, <3>2 DEF Reject, Answer, HttpInv, RequestOK
  <2>2. call.op # "GetTermAggregation"
    BY <1>2, OthersArrive DEF HttpInv, Reject
  <2>3. CASE call.op = "Query"
    BY <1>2, <2>1, <2>3, RefusedAsLocal
  <2>4. CASE call.op # "Query"
    <3>1. call.op \in {"List", "Total", "GetRights", "CheckUserOrGroup"}
      BY <1>2, <2>2, <2>4, OthersArrive DEF HttpInv, ClientOps
    <3>2. "bad" \in LocalRefusals(call)
      BY <1>2, <3>1, SearchesArrive DEF HttpInv, CallArrives, Reject
    <3> QED
      BY <1>2, <2>1, <3>1, <3>2, RefusedAsLocal
  <2> QED
    BY <2>3, <2>4
<1> QED
  BY <1>1, <1>2, AnsweredOK DEF Reject, Answer

\* Query refuses a call over HTTP for a reason it has locally.
LEMMA RefuseOK ==
  ASSUME HttpInv, Refuse
  PROVE  HttpInv'
<1>1. PICK k \in Refusals(Routed.op, Parses, Options) : Respond(k) /\ err' = k
  <2> DEFINE refusals == Refusals(Routed.op, Parses, Options)
             k == IF "other" \in refusals THEN "other" ELSE "bad"
  <2>1. refusals # {} /\ Respond(k) /\ err' = k
    BY DEF Refuse
  <2>2. k \in refusals
    BY <2>1 DEF Refusals
  <2> QED
    BY <2>1, <2>2
<1>2. k \in {"bad", "other"} /\ k \in Kind
  BY <1>1 DEF Refusals, Kind
<1>3. /\ AnswersTellOutcome'
      /\ Routed.codes # Bool => Decoded' = GetErrFromCode(Routed.codes[k])
  BY <1>1, <1>2, RespondTells DEF HttpInv
<1>4. ASSUME call # Absent PROVE AsLocal(call, Decoded)'
  <2>1. err' = k /\ asked' = Absent /\ call' = call
    BY <1>1 DEF Refuse, Accepted, Respond, Answer, HttpInv, RequestOK
  <2>2. call.op # "GetTermAggregation"
    BY <1>4, OthersArrive DEF HttpInv, Refuse, Accepted
  <2>3. CASE call.op = "Query"
    <3>1. Decoded' = k
      BY <1>2, <1>3, <1>4, <2>3, OthersArrive, ErrorsDecoded, NotBool DEF HttpInv
    <3> QED
      BY <1>4, <2>1, <2>3, <3>1, RefusedAsLocal
  <2>4. CASE call.op # "Query"
    <3>1. call.op \in {"List", "Total", "GetRights", "CheckUserOrGroup"}
      BY <1>4, <2>2, <2>4, OthersArrive DEF HttpInv, ClientOps
    <3>2. k \in LocalRefusals(call) /\ Decoded' = k
      BY <1>1, <1>3, <1>4, <3>1, SearchesArrive DEF HttpInv, CallArrives
    <3> QED
      BY <1>4, <2>1, <3>1, <3>2, RefusedAsLocal
  <2> QED
    BY <2>3, <2>4
<1> QED
  BY <1>1, <1>3, <1>4, AnsweredOK DEF Respond, Answer

\* What is not refused is searched for as the call asks, or is a message.
LEMMA StartOK ==
  ASSUME HttpInv, Start
  PROVE  HttpInv'
<1>1. /\ UNCHANGED <<call, wire, err, code, failed>>
      /\ wire.method = Routed.method /\ ~Malformed
      /\ Refusals(Routed.op, Parses, Options) = {}
      /\ err = "ok" /\ code = 0 /\ failed = {}
  BY DEF Start, Accepted, HttpInv, RequestOK
<1>2. call # Absent => call.op # "GetTermAggregation"
  BY <1>1, OthersArrive DEF HttpInv
<1>3. CASE Routed.op = "Query"
  <2>1. stage' = "message" /\ part' = "find"
    BY <1>3 DEF Start
  <2>2. Routed' = Routed
    BY <1>1 DEF Routed
  <2>3. call # Absent => call.op = "Query"
    BY <1>2, <1>3, SearchesArrive, OthersArrive DEF HttpInv, ClientOps, CallArrives
  <2>4. MessageOK'
    BY <1>1, <1>3, <2>1, <2>2, <2>3 DEF MessageOK, PartOK, FailedBefore
  <2> QED
    BY <1>1, <2>1, <2>4 DEF HttpInv, RequestOK, SearchOK, AnswerOK, RemoteAsLocal, AnswersTellOutcome
<1>4. CASE Routed.op # "Query"
  <2>1. stage' = "search" /\ asked' = Search(Routed.op, Options)
    BY <1>4 DEF Start
  <2>2. ASSUME call # Absent
        PROVE  /\ call.op \in {"List", "Total", "GetRights", "CheckUserOrGroup"}
               /\ LocalRefusals(call) = {}
               /\ asked' = Search(call.op, LocalOptions(call))
    <3>1. call.op \in {"List", "Total", "GetRights", "CheckUserOrGroup"}
      BY <1>2, <1>4, <2>2, OthersArrive DEF HttpInv, ClientOps
    <3> QED
      BY <1>1, <2>1, <2>2, <3>1, SearchesArrive DEF HttpInv, CallArrives
  <2>3. SearchOK'
    <3>1. /\ Routed' = Routed
          /\ LocalRefusals(call)' = LocalRefusals(call) /\ LocalOptions(call)' = LocalOptions(call)
      BY <1>1 DEF Routed, LocalRefusals, LocalOptions
    <3> QED
      BY <1>1, <2>2, <3>1 DEF SearchOK
  <2> QED
    BY <1>1, <2>1, <2>3
       DEF HttpInv, RequestOK, MessageOK, AnswerOK, RemoteAsLocal, AnswersTellOutcome
<1> QED
  BY <1>3, <1>4

\* The error of the search is the error of the call.
LEMMA SearchEndsOK ==
  ASSUME HttpInv, SearchEnds
  PROVE  HttpInv'
<1>1. PICK k \in Outcomes(Routed.op) :
        /\ Respond(k) /\ err' = k
        /\ k = "ok" => failed' = {} \/ (failed' = {"search"} /\ Overwritten("search"))
  <2>1. "ok" \in Outcomes(Routed.op)
    BY DEF Outcomes
  <2> HIDE DEF Outcomes
  <2> QED
    BY <2>1 DEF SearchEnds, Overwritten
<1>2. UNCHANGED <<call, wire, asked>>
  BY <1>1 DEF SearchEnds, Respond, Answer
<1>3. /\ AnswersTellOutcome'
      /\ Routed.codes # Bool => Decoded' = GetErrFromCode(Routed.codes[k])
  <2>1. Overwritten("search") => Overwritten("search")'
    BY <1>2 DEF Overwritten, Modified, V3
  <2>2. k \in Kind
    BY <1>1 DEF Outcomes, Kind
  <2> QED
    BY <1>1, <2>1, <2>2, RespondTells DEF HttpInv
<1>4. ASSUME call # Absent PROVE AsLocal(call, Decoded)'
  <2>1. /\ call.op \in {"List", "Total", "GetRights", "CheckUserOrGroup"}
        /\ LocalRefusals(call) = {} /\ asked = Search(call.op, LocalOptions(call))
    BY <1>4 DEF HttpInv, SearchOK, SearchEnds
  <2>2. Decoded' = k
    BY <1>1, <1>3, <1>4, <2>1, SearchesArrive DEF HttpInv, CallArrives
  <2>3. LocalRefusals(call)' = LocalRefusals(call) /\ LocalOptions(call)' = LocalOptions(call)
    BY <1>2 DEF LocalRefusals, LocalOptions
  <2> QED
    BY <1>1, <1>2, <2>1, <2>2, <2>3 DEF AsLocal
<1> QED
  BY <1>1, <1>2, <1>3, <1>4, AnsweredOK DEF Respond, Answer

-----------------------------------------------------------------------------
(* The parts of a message.                                                 *)

\* A part may leave what PartOK says.
LEMMA ContinueOK ==
  ASSUME HttpInv, stage = "message", NEW next, NEW k, NEW c, NEW failing,
         Continue(next, k, c, failing),
         PartOK(next, k, c, IF failing THEN failed \cup {part} ELSE failed)
  PROVE  HttpInv'
<1> DEFINE f == IF failing THEN failed \cup {part} ELSE failed
<1>1. UNCHANGED <<stage, call, wire, asked, status, text, granted, returned>>
  BY DEF Continue, answerVars
<1>2. part' = next /\ err' = k /\ code' = c /\ failed' = f
  BY DEF Continue
<1>3. Routed' = Routed
  BY <1>1 DEF Routed
<1>4. PartOK(part, err, code, failed)'
  <2>1. V3' = V3
    BY <1>1 DEF V3
  <2>2. \A name : Modified(name)' = Modified(name)
    BY <1>1 DEF Modified
  <2>3. \A p : Overwritten(p) => Overwritten(p)'
    BY <1>1, <2>1, <2>2 DEF Overwritten
  <2>4. PartOK(next, k, c, f)
    OBVIOUS
  <2> HIDE DEF V3, Modified, Overwritten, f
  <2>5. FailedBehind(k, f) => FailedBehind(err, failed)'
    BY <1>2, <2>2 DEF FailedBehind
  <2>6. FailedBefore(next, f) => FailedBefore(part, failed)'
    BY <1>2 DEF FailedBefore
  <2>7. (\A p \in f : Overwritten(p)) => \A p \in failed' : Overwritten(p)'
    BY <1>2, <2>3
  <2> QED
    BY <1>2, <2>1, <2>2, <2>4, <2>5, <2>6, <2>7 DEF PartOK
<1>5. MessageOK'
  BY <1>1, <1>3, <1>4 DEF HttpInv, MessageOK
<1> QED
  BY <1>1, <1>5 DEF HttpInv, RequestOK, SearchOK, AnswerOK, RemoteAsLocal, AnswersTellOutcome

\* A part that fails ends the message.
LEMMA FailedPartOK ==
  ASSUME V3, NEW f
  PROVE  PartOK("end", "bad", 400, f) /\ PartOK("end", "other", 500, f)
<1>1. 400 # 200 /\ 500 # 200
  OBVIOUS
<1>2. PartOK("end", "bad", 400, f)
  BY <1>1 DEF PartOK, FailedBefore
<1>3. PartOK("end", "other", 500, f)
  BY <1>1 DEF PartOK, FailedBefore
<1> QED
  BY <1>2, <1>3

\* Options Query does not accept end the message.
LEMMA InvalidOK ==
  ASSUME HttpInv, stage = "message", V3, Continue("end", "bad", GetErrCode["bad"], TRUE)
  PROVE  HttpInv'
<1>1. GetErrCode["bad"] = 400
  BY DEF GetErrCode
<1>2. Continue("end", "bad", 400, TRUE)
  BY <1>1 DEF Continue
<1>3. PartOK("end", "bad", 400, failed \cup {part})
  BY FailedPartOK
<1> QED
  BY <1>2, <1>3, ContinueOK, Zenon

\* The code 0 is none.
LEMMA NoCode == 0 # 200
OBVIOUS

\* Find: nothing has failed before it; only a modifier leads to addParsedModifier.
LEMMA FindOK ==
  ASSUME HttpInv, ListPart("find", "modify find", "check")
  PROVE  HttpInv'
<1> DEFINE o == wire.message["find"]
           after == IF V3 /\ o.mod # Absent THEN "modify find" ELSE "check"
<1>1. stage = "message" /\ part = "find"
  BY DEF ListPart
<1>2. failed = {} /\ code = 0 /\ code # 200 /\ err \in {"ok", "other"}
  <2>1. PartOK("find", err, code, failed)
    BY <1>1 DEF HttpInv, MessageOK
  <2>2. code = 0 /\ failed = {}
    BY <2>1 DEF PartOK, FailedBefore
  <2> QED
    BY <2>1, <2>2, NoCode DEF PartOK
<1>3. CASE Continue("check", err, code, FALSE)
  <2>1. FailedBefore("check", failed) /\ \A p \in failed : Overwritten(p)
    BY <1>2 DEF FailedBefore
  <2>2. PartOK("check", err, code, failed)
    BY <1>2, <2>1 DEF PartOK
  <2> QED
    BY <1>1, <1>3, <2>2, ContinueOK
<1>4. CASE V3 /\ Continue("end", "bad", GetErrCode["bad"], TRUE)
  BY <1>1, <1>4, InvalidOK
<1>5. ASSUME o # Absent, NEW k \in {"ok", "other"}, Continue(after, k, code, k # "ok")
      PROVE  HttpInv'
  <2> DEFINE f == IF k # "ok" THEN failed \cup {part} ELSE failed
  <2>1. k = "ok" => f = {}
    BY <1>2
  <2>2. f \subseteq {"find"}
    BY <1>1, <1>2
  <2>3. after = "modify find" => V3 /\ Modified("find")
    BY <1>5 DEF Modified
  <2>4. after \in {"modify find", "check"}
    OBVIOUS
  <2> HIDE DEF f, after
  <2>5. FailedBefore(after, f)
    BY <2>2, <2>4 DEF FailedBefore
  <2>6. k = "ok" => \A p \in f : Overwritten(p)
    BY <2>1
  <2>7. PartOK(after, k, code, f)
    BY <1>2, <2>3, <2>4, <2>5, <2>6 DEF PartOK
  <2> QED
    BY <1>1, <1>5, <2>7, ContinueOK DEF f
<1> QED
  BY <1>3, <1>4, <1>5 DEF ListPart

\* ListIds: what failed before is overwritten by it.
LEMMA ListIdsOK ==
  ASSUME HttpInv, ListPart("ids", "modify ids", "aggregate")
  PROVE  HttpInv'
<1> DEFINE o == wire.message["ids"]
           after == IF V3 /\ o.mod # Absent THEN "modify ids" ELSE "aggregate"
<1>1. stage = "message" /\ part = "ids"
  BY DEF ListPart
<1>2. PartOK("ids", err, code, failed)
  BY <1>1 DEF HttpInv, MessageOK
<1>3. /\ failed \subseteq {"find", "check"} /\ code \in {0, 200} /\ err \in {"ok", "other"}
      /\ code = 200 => V3 /\ Modified("find")
  BY <1>2 DEF PartOK, FailedBefore
<1>4. CASE Continue("aggregate", err, code, FALSE)
  <2>1. PartOK("aggregate", err, code, failed)
    BY <1>2, <1>3 DEF PartOK, FailedBefore
  <2> QED
    BY <1>1, <1>4, <2>1, ContinueOK
<1>5. CASE V3 /\ Continue("end", "bad", GetErrCode["bad"], TRUE)
  BY <1>1, <1>5, InvalidOK
<1>6. ASSUME o # Absent, NEW k \in {"ok", "other"}, NEW failing \in BOOLEAN,
             k = "other" => failing, k = "ok" /\ failing => o.mod # Absent,
             Continue(after, k, code, failing)
      PROVE  HttpInv'
  <2> DEFINE f == IF failing THEN failed \cup {part} ELSE failed
  <2>1. f \subseteq {"find", "check", "ids"} /\ (k = "other" => "ids" \in f)
    <3>1. f \subseteq failed \cup {"ids"}
      BY <1>1
    <3>2. k = "other" => f = failed \cup {"ids"}
      BY <1>1, <1>6
    <3> HIDE DEF f
    <3> QED
      BY <1>3, <3>1, <3>2
  <2>2. Overwritten("find") /\ Overwritten("check")
    BY <1>6 DEF Overwritten
  <2>3. k = "ok" /\ "ids" \in f => Overwritten("ids")
    BY <1>3, <1>6 DEF Overwritten, Modified
  <2>4. after = "modify ids" => V3 /\ Modified("ids")
    BY <1>6 DEF Modified
  <2>5. after \in {"modify ids", "aggregate"}
    OBVIOUS
  <2> HIDE DEF f, after
  <2>6. k = "ok" => \A p \in f : Overwritten(p)
    BY <2>1, <2>2, <2>3
  <2>7. code = 200 => FailedBehind(k, f)
    BY <1>3, <2>1 DEF FailedBehind
  <2>8. PartOK(after, k, code, f)
    BY <1>3, <1>6, <2>1, <2>4, <2>5, <2>6, <2>7 DEF PartOK, FailedBefore
  <2> QED
    BY <1>1, <1>6, <2>8, ContinueOK DEF f
<1>7. ASSUME o # Absent, NEW k \in {"ok", "other"}, Continue(after, k, code, k # "ok")
      PROVE  HttpInv'
  BY <1>6, <1>7
<1>8. ASSUME o # Absent, o.mod # Absent, Continue(after, "ok", code, TRUE)
      PROVE  HttpInv'
  BY <1>6, <1>8
<1> QED
  BY <1>4, <1>5, <1>7, <1>8 DEF ListPart

\* An added modifier leaves the code 200 and overwrites the error of its list;
\* one that fails ends the message.
LEMMA ModifyPartOK ==
  ASSUME HttpInv, NEW name, NEW next, ModifyPart(name, next),
         \/ name = "modify find" /\ next = "check"
         \/ name = "modify ids" /\ next = "aggregate"
  PROVE  HttpInv'
<1>1. stage = "message" /\ part = name
  BY DEF ModifyPart
<1>2. PartOK(name, err, code, failed)
  BY <1>1 DEF HttpInv, MessageOK
<1>3. V3 /\ PartOK(next, "ok", 200, failed)
  <2>1. CASE name = "modify find"
    <3>1. V3 /\ Modified("find") /\ failed \subseteq {"find"} /\ next = "check"
      BY <1>2, <2>1 DEF PartOK, FailedBefore
    <3>2. Overwritten("find")
      BY <3>1 DEF Overwritten
    <3> QED
      BY <3>1, <3>2 DEF PartOK, FailedBefore, FailedBehind
  <2>2. CASE name = "modify ids"
    <3>1. /\ V3 /\ Modified("ids") /\ failed \subseteq {"find", "check", "ids"}
          /\ next = "aggregate"
      BY <1>2, <2>2 DEF PartOK, FailedBefore
    <3>2. Overwritten("find") /\ Overwritten("check") /\ Overwritten("ids")
      BY <3>1 DEF Overwritten, Modified
    <3> QED
      BY <3>1, <3>2 DEF PartOK, FailedBefore, FailedBehind
  <2> QED
    BY <2>1, <2>2
<1>4. PartOK("end", "other", 500, failed \cup {part})
  BY <1>3, FailedPartOK
<1>5. HttpInv /\ stage = "message"
  BY <1>1
<1>6. ASSUME NEW to, NEW k, NEW c, NEW failing, Continue(to, k, c, failing),
             PartOK(to, k, c, IF failing THEN failed \cup {part} ELSE failed)
      PROVE  HttpInv'
  BY ONLY <1>5, <1>6, ContinueOK, Zenon
<1>7. CASE Continue(next, "ok", 200, FALSE)
  BY ONLY <1>3, <1>6, <1>7
<1>8. CASE Continue("end", "other", 500, TRUE)
  BY ONLY <1>4, <1>6, <1>8
<1> QED
  BY <1>7, <1>8 DEF ModifyPart

\* CheckIds and TermAggregate: what failed before is overwritten by them.
LEMMA PlainPartOK ==
  ASSUME HttpInv, NEW name, NEW wanted, NEW next, PlainPart(name, wanted, next),
         \/ name = "check" /\ wanted = (wire.message.check # Absent) /\ next = "ids"
         \/ name = "aggregate" /\ wanted = wire.message.aggregate /\ next = "end"
  PROVE  HttpInv'
<1>1. stage = "message" /\ part = name
  BY DEF PlainPart
<1>2. PartOK(name, err, code, failed)
  BY <1>1 DEF HttpInv, MessageOK
<1>3. /\ code \in {0, 200} /\ err \in {"ok", "other"}
      /\ failed \subseteq IF name = "check" THEN {"find"} ELSE {"find", "check", "ids"}
  BY <1>2 DEF PartOK, FailedBefore
<1>4. CASE Continue(next, err, code, FALSE)
  <2>1. PartOK(next, err, code, failed)
    BY <1>2, <1>3 DEF PartOK, FailedBefore
  <2> QED
    BY <1>1, <1>4, <2>1, ContinueOK
<1>5. ASSUME wanted, NEW k \in {"ok", "other"}, Continue(next, k, code, k # "ok")
      PROVE  HttpInv'
  <2> DEFINE f == IF k # "ok" THEN failed \cup {part} ELSE failed
  <2>1. \A p \in failed : Overwritten(p)
    BY <1>3, <1>5 DEF Overwritten
  <2>2. k = "ok" => \A p \in f : Overwritten(p)
    BY <2>1
  <2>3. code = 200 => FailedBehind(k, f)
    BY <1>1, <1>2 DEF PartOK, FailedBehind
  <2>4. FailedBefore(next, f)
    BY <1>1, <1>3 DEF FailedBefore
  <2> HIDE DEF f
  <2>5. PartOK(next, k, code, f)
    BY <1>2, <1>3, <2>2, <2>3, <2>4 DEF PartOK
  <2> QED
    BY <1>1, <1>5, <2>5, ContinueOK DEF f
<1> QED
  BY <1>4, <1>5 DEF PlainPart

\* An error is sent with 200 only after a modifier was added, and then as a
\* text, which the client library cannot decode.
LEMMA MessageEndsOK ==
  ASSUME HttpInv, MessageEnds
  PROVE  HttpInv'
<1> DEFINE c == IF V3 /\ code # 0 THEN code ELSE Routed.codes[err]
<1>1. /\ stage = "message" /\ part = "end"
      /\ stage' = "answered" /\ UNCHANGED <<call, wire, err, code, failed, asked>>
      /\ status' = IF err = "ok" THEN 200 ELSE c
      /\ text' = (err # "ok") /\ granted' = (err = "ok")
  BY DEF MessageEnds, Answer, serverVars
<1>2. Routed \in Routes /\ Routed.op = "Query" /\ (call # Absent => call.op = "Query")
  BY <1>1, RoutedIsRoute DEF HttpInv, RequestOK, MessageOK
<1>3. \A k \in Kind \ {"ok"} : Routed.codes[k] # 200
  BY <1>2, RouteCodes
<1> HIDE DEF Routed
<1>4. /\ \/ code \in {0, 200} /\ err \in {"ok", "other"}
         \/ code = 400 /\ err = "bad" /\ V3
         \/ code = 500 /\ err = "other" /\ V3
      /\ code = 200 => V3 /\ FailedBehind(err, failed)
      /\ err = "ok" => \A p \in failed : Overwritten(p)
  BY <1>1 DEF HttpInv, MessageOK, PartOK
<1>5. err # "ok" => err \in Kind \ {"ok"}
  BY <1>4 DEF Kind
<1>6. err # "ok" /\ c = 200 => err = "other" /\ V3 /\ FailedBehind(err, failed)
  BY <1>3, <1>4, <1>5
<1>7. /\ V3' = V3 /\ wire' = wire /\ \A name : Modified(name)' = Modified(name)
      /\ \A p : Overwritten(p)' = Overwritten(p)
  BY <1>1 DEF V3, Modified, Overwritten
<1>8. AnswersTellOutcome'
  <2>1. status' # 200 => err' # "ok"
    BY <1>1
  <2>2. status' = 200 /\ ~text' => granted' = (err' = "ok")
    BY <1>1
  <2>3. granted' => \A p \in failed' : Overwritten(p)'
    BY <1>1, <1>4, <1>7
  <2>4. status' = 200 /\ text' => err' = "other" /\ V3' /\ FailedBehind(err, failed)
    BY <1>1, <1>6, <1>7
  <2> QED
    BY <1>1, <1>7, <2>1, <2>2, <2>3, <2>4 DEF AnswersTellOutcome, FailedBehind
<1>9. ASSUME call # Absent PROVE AsLocal(call, Decoded)'
  <2>1. Routed.codes = GetErrCode
    BY <1>2, <1>9, OthersArrive DEF HttpInv
  <2>2. /\ GetErrCode["ok"] = 200 /\ GetErrCode["bad"] = 400 /\ GetErrCode["other"] = 500
        /\ GetErrFromCode(200) = "ok" /\ GetErrFromCode(400) = "bad" /\ GetErrFromCode(500) = "other"
    <3>1. /\ GetErrCode["ok"] = 200 /\ GetErrCode["bad"] = 400 /\ GetErrCode["other"] = 500
          /\ {"ok", "bad", "other"} \subseteq Kind
      BY DEF GetErrCode, Kind
    <3> QED
      BY <3>1, ErrorsDecoded
  <2>3. wire.method # "HEAD"
    <3>1. wire = Encode(call) /\ call.op = "Query"
      BY <1>2, <1>9 DEF HttpInv, RequestOK
    <3> QED
      BY <3>1 DEF Encode, Wire
  <2>4. /\ status' = 200 /\ text' => Decoded' = "other"
        /\ ~(status' = 200 /\ text') => Decoded' = GetErrFromCode(status')
    BY <1>7, <2>3 DEF Decoded, GetErrFromCode
  <2>5. CASE err = "ok"
    <3>1. status' = 200 /\ ~text'
      BY <1>1, <2>5
    <3>2. Decoded' = "ok"
      BY <2>2, <2>4, <3>1
    <3> QED
      BY <1>1, <1>2, <1>9, <2>5, <3>2 DEF AsLocal
  <2>6. CASE err = "bad"
    <3>1. status' = 400
      BY <1>1, <1>4, <2>1, <2>2, <2>6
    <3>2. Decoded' = "bad"
      BY <2>2, <2>4, <3>1
    <3> QED
      BY <1>1, <1>2, <1>9, <2>6, <3>2 DEF AsLocal
  <2>7. CASE err = "other"
    <3>1. text' /\ status' = c /\ c \in {200, 500}
      <4>1. V3 /\ code # 0 => c \in {200, 500}
        BY <1>4, <2>7
      <4>2. ~(V3 /\ code # 0) => c = 500
        BY <2>1, <2>2, <2>7
      <4> QED
        BY <1>1, <2>7, <4>1, <4>2
    <3>2. Decoded' = "other"
      BY <2>2, <2>4, <3>1
    <3> QED
      BY <1>1, <1>2, <1>9, <2>7, <3>2 DEF AsLocal
  <2> QED
    BY <1>4, <2>5, <2>6, <2>7
<1> QED
  BY <1>1, <1>8, <1>9, AnsweredOK

LEMMA MessageStepOK ==
  ASSUME HttpInv, Message
  PROVE  HttpInv'
<1>1. CASE ListPart("find", "modify find", "check")
  BY <1>1, FindOK
<1>2. CASE ModifyPart("modify find", "check")
  BY <1>2, ModifyPartOK
<1>3. CASE PlainPart("check", wire.message.check # Absent, "ids")
  BY <1>3, PlainPartOK
<1>4. CASE ListPart("ids", "modify ids", "aggregate")
  BY <1>4, ListIdsOK
<1>5. CASE ModifyPart("modify ids", "aggregate")
  BY <1>5, ModifyPartOK
<1>6. CASE PlainPart("aggregate", wire.message.aggregate, "end")
  BY <1>6, PlainPartOK
<1>7. CASE MessageEnds
  BY <1>7, MessageEndsOK
<1> QED
  BY <1>1, <1>2, <1>3, <1>4, <1>5, <1>6, <1>7 DEF Message

-----------------------------------------------------------------------------
(* What the client gets.                                                   *)

\* The client library returns what it made of the answer.
LEMMA DecodeOK ==
  ASSUME HttpInv, Decode
  PROVE  HttpInv'
<1>1. /\ stage = "answered" /\ call # Absent /\ stage' = "idle"
      /\ UNCHANGED <<call, wire, asked, err, failed, status, text, granted>>
  BY DEF Decode, serverVars, answerVars
<1>2. returned' = Decoded
  BY DEF Decode, Decoded, GetErrFromCode
<1>3. AsLocal(call, returned')
  BY <1>1, <1>2 DEF HttpInv, AnswerOK
<1>4. RemoteAsLocal'
  BY <1>1, <1>3 DEF AsLocal, LocalRefusals, LocalOptions, RemoteAsLocal
<1> QED
  BY <1>1, <1>4 DEF HttpInv, RequestOK, SearchOK, MessageOK, AnswerOK, AnswersTellOutcome

\* An answer to other clients, or none at all.
LEMMA EndsOK ==
  ASSUME HttpInv, Receive \/ ConnectionLost
  PROVE  HttpInv'
<1>1. /\ stage' = "idle" /\ UNCHANGED <<call, wire, asked, err, failed, status, text, granted>>
      /\ call' = Absent \/ returned' = "lost"
  BY DEF Receive, ConnectionLost, serverVars, answerVars
<1> QED
  BY <1>1 DEF HttpInv, RequestOK, SearchOK, MessageOK, AnswerOK, RemoteAsLocal, AnswersTellOutcome

LEMMA HttpStutterOK ==
  ASSUME HttpInv, UNCHANGED httpVars
  PROVE  HttpInv'
<1>1. /\ UNCHANGED <<stage, call, wire, asked, part, err, code, failed>>
      /\ UNCHANGED <<status, text, granted, returned>>
  BY DEF httpVars
<1>2. Routed' = Routed
  BY <1>1 DEF Routed
<1>3. RequestOK'
  BY <1>1 DEF HttpInv, RequestOK
<1>4. SearchOK'
  BY <1>1, <1>2 DEF HttpInv, SearchOK, LocalRefusals, LocalOptions
<1>5. MessageOK'
  <2>1. /\ V3' = V3 /\ \A name : Modified(name)' = Modified(name)
        /\ \A p : Overwritten(p)' = Overwritten(p)
    BY <1>1 DEF V3, Modified, Overwritten
  <2> HIDE DEF V3, Modified, Overwritten, Routed
  <2>2. PartOK(part, err, code, failed) => PartOK(part, err, code, failed)'
    BY <1>1, <2>1 DEF PartOK, FailedBehind, FailedBefore
  <2> QED
    BY <1>1, <1>2, <2>2 DEF HttpInv, MessageOK
<1>6. AnswerOK'
  <2>1. AnswersTellOutcome'
    BY <1>1 DEF HttpInv, AnswerOK, AnswersTellOutcome, V3, Modified, Overwritten
  <2>2. AsLocal(call, Decoded)' <=> AsLocal(call, Decoded)
    BY <1>1 DEF AsLocal, LocalRefusals, LocalOptions, Decoded
  <2> QED
    BY <1>1, <2>1, <2>2 DEF HttpInv, AnswerOK
<1>7. RemoteAsLocal'
  BY <1>1 DEF HttpInv, RemoteAsLocal
<1> QED
  BY <1>3, <1>4, <1>5, <1>6, <1>7 DEF HttpInv

LEMMA HttpNextOK == HttpInv /\ [HttpNext]_httpVars => HttpInv'
<1> SUFFICES ASSUME HttpInv, [HttpNext]_httpVars PROVE HttpInv'
  OBVIOUS
<1>1. ASSUME NEW c \in Calls, Call(c) PROVE HttpInv'
  <2>1. \E r \in Routes : r.name = Encode(c).name
    BY HttpAssumption, CallsRouted
  <2> QED
    BY <1>1, <2>1, SendOK DEF Call
<1>2. ASSUME NEW w \in Requests, Request(w) PROVE HttpInv'
  BY <1>2, SendOK, HttpAssumption DEF Request
<1>3. CASE MethodNotAllowed
  BY <1>3, MethodNotAllowedOK
<1>4. CASE Reject
  BY <1>4, RejectOK
<1>5. CASE Refuse
  BY <1>5, RefuseOK
<1>6. CASE Start
  BY <1>6, StartOK
<1>7. CASE SearchEnds
  BY <1>7, SearchEndsOK
<1>8. CASE Message
  BY <1>8, MessageStepOK
<1>9. CASE Decode
  BY <1>9, DecodeOK
<1>10. CASE Receive \/ ConnectionLost
  BY <1>10, EndsOK
<1>11. CASE UNCHANGED httpVars
  BY <1>11, HttpStutterOK
<1> QED
  BY <1>1, <1>2, <1>3, <1>4, <1>5, <1>6, <1>7, <1>8, <1>9, <1>10, <1>11 DEF HttpNext

\* A call of the client library searches for the same, refuses the same and
\* returns the same kind of error as the operation of Query it stands for,
\* whatever the calls, their options and the order they come in; except for
\* the aggregation, which never reaches Query, and a connection that is lost
\* (lib/client: the calls over HTTP; lib/api: the endpoints of version 3).
THEOREM RemoteIsLocal == HttpSpec => []RemoteAsLocal
<1>1. HttpInv => RemoteAsLocal
  BY DEF HttpInv
<1> QED
  BY <1>1, HttpInitOK, HttpNextOK, PTL DEF HttpSpec

\* At every endpoint of the three versions an error status stands for
\* an error, and 200 without a message (true, at the bool endpoints) says that
\* nothing failed but a modifier of a list of ids, or a part of a query message
\* that another part came behind; with a message, 200 is sent only for a part
\* that failed behind a part with a modifier (query.go:385, 1189, 1245).
THEOREM AnswersTell == HttpSpec => []AnswersTellOutcome
<1>1. HttpInv => AnswersTellOutcome
  BY DEF HttpInv, AnswerOK
<1> QED
  BY <1>1, HttpInitOK, HttpNextOK, PTL DEF HttpSpec

=============================================================================
