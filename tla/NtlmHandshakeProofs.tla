-------------------------- MODULE NtlmHandshakeProofs --------------------------
(***************************************************************************)
(* Proofs about NtlmHandshake.                                               *)
(***************************************************************************)
EXTENDS NtlmHandshake, FiniteSetTheorems, SequenceTheorems, WellFoundedInduction, TLAPS

-----------------------------------------------------------------------------
(* Induction over the naturals, as a statement about sets: a set of          *)
(* intervals from 0 has a least one, because its members are finite.         *)

LEMMA LeastNumber ==
    ASSUME NEW T \in SUBSET Nat, T # {}
    PROVE  \E m \in T : \A n \in T : m <= n
<1>. DEFINE B == {0 .. n : n \in T}
<1>1. B \subseteq FiniteSubsetsOf(Nat)
  <2>. SUFFICES ASSUME NEW n \in T PROVE 0 .. n \in FiniteSubsetsOf(Nat)
    OBVIOUS
  <2>1. n \in Nat /\ IsFiniteSet(0 .. n) /\ 0 .. n \subseteq Nat
    BY FS_Interval
  <2>. QED  BY <2>1 DEF FiniteSubsetsOf
<1>2. B # {}
  OBVIOUS
<1>3. IsWellFoundedOn(StrictSubsetOrdering(Nat), FiniteSubsetsOf(Nat))
  BY FS_StrictSubsetOrderingWellFounded
<1>4. \E x \in B : \A y \in B : <<y, x>> \notin StrictSubsetOrdering(Nat)
  <2>. HIDE DEF B
  <2>. QED  BY <1>1, <1>2, <1>3, WFMin
<1>5. PICK m \in T : \A y \in B : <<y, 0 .. m>> \notin StrictSubsetOrdering(Nat)
  BY <1>4
<1>6. ASSUME NEW n \in T, n < m PROVE FALSE
  <2>1. n \in Nat /\ m \in Nat
    OBVIOUS
  <2>2. 0 .. n \subseteq 0 .. m /\ 0 .. n # 0 .. m /\ 0 .. n \subseteq Nat /\ 0 .. m \subseteq Nat
    BY <2>1, <1>6
  <2>3. <<0 .. n, 0 .. m>> \in StrictSubsetOrdering(Nat)
    BY <2>2 DEF StrictSubsetOrdering
  <2>. QED  BY <2>3, <1>5
<1>7. \A n \in T : n \in Nat
  OBVIOUS
<1>. QED  BY <1>6, <1>7

LEMMA Induction ==
    ASSUME NEW S, 0 \in S, \A n \in Nat : n \in S => n + 1 \in S
    PROVE  \A n \in Nat : n \in S
<1>. SUFFICES ASSUME Nat \ S # {} PROVE FALSE
  OBVIOUS
<1>1. PICK m \in Nat \ S : \A n \in Nat \ S : m <= n
  BY LeastNumber
<1>2. m # 0 /\ m - 1 \in Nat
  BY <1>1
<1>3. m - 1 \in S
  BY <1>1, <1>2
<1>. QED  BY <1>1, <1>2, <1>3

-----------------------------------------------------------------------------
(* Sums.                                                                     *)

\* g is the sum of the numbers, up to n.
SumsUp(g, numbers, n) == g = [i \in 0 .. n |-> IF i = 0 THEN 0 ELSE g[i - 1] + numbers[i]]

LEMMA SumExists == ASSUME NEW numbers PROVE \A n \in Nat : \E g : SumsUp(g, numbers, n)
<1>. DEFINE S == {n \in Nat : \E g : SumsUp(g, numbers, n)}
<1>1. 0 \in S
  <2>1. SumsUp([i \in 0 .. 0 |-> 0], numbers, 0)
    BY DEF SumsUp
  <2>. QED  BY <2>1
<1>2. ASSUME NEW n \in Nat, n \in S PROVE n + 1 \in S
  <2>1. PICK g : SumsUp(g, numbers, n)
    BY <1>2
  <2>. DEFINE h == [i \in 0 .. n + 1 |-> IF i = n + 1 THEN g[n] + numbers[n + 1] ELSE g[i]]
  <2>2. ASSUME NEW i \in 0 .. n + 1 PROVE h[i] = IF i = 0 THEN 0 ELSE h[i - 1] + numbers[i]
    <3>1. CASE i = n + 1
      BY <3>1
    <3>2. CASE i # n + 1
      <4>1. i \in 0 .. n /\ h[i] = g[i] /\ (i # 0 => h[i - 1] = g[i - 1])
        BY <3>2
      <4>. QED  BY <2>1, <4>1 DEF SumsUp
    <3>. QED  BY <3>1, <3>2
  <2>3. SumsUp(h, numbers, n + 1)
    BY <2>2 DEF SumsUp
  <2>. QED  BY <2>3
<1>. HIDE DEF S
<1>3. \A n \in Nat : n \in S
  BY <1>1, <1>2, Induction
<1>. QED  BY <1>3 DEF S

LEMMA SumUnique ==
    ASSUME NEW numbers, NEW m \in Nat, NEW n \in Nat, m <= n,
           NEW g, SumsUp(g, numbers, m), NEW h, SumsUp(h, numbers, n)
    PROVE  \A i \in 0 .. m : g[i] = h[i]
<1>. DEFINE S == {i \in Nat : i <= m => g[i] = h[i]}
<1>1. 0 \in S
  BY DEF SumsUp
<1>2. ASSUME NEW i \in Nat, i \in S PROVE i + 1 \in S
  <2>. SUFFICES ASSUME i + 1 <= m PROVE g[i + 1] = h[i + 1]
    OBVIOUS
  <2>1. g[i + 1] = g[i] + numbers[i + 1] /\ h[i + 1] = h[i] + numbers[i + 1]
    BY DEF SumsUp
  <2>2. g[i] = h[i]
    BY <1>2
  <2>. QED  BY <2>1, <2>2
<1>. HIDE DEF S
<1>3. \A i \in Nat : i \in S
  BY <1>1, <1>2, Induction
<1>. QED  BY <1>3 DEF S

\* What a recursive definition of a sum computes.
LEMMA TotalIs ==
    ASSUME NEW numbers, NEW k \in Nat
    PROVE  Total(numbers, k) = IF k = 0 THEN 0 ELSE Total(numbers, k - 1) + numbers[k]
<1>. DEFINE Sum(n) == CHOOSE g : SumsUp(g, numbers, n)
<1>1. \A n \in Nat : Total(numbers, n) = Sum(n)[n]
  BY DEF Total, SumsUp
<1>2. \A n \in Nat : SumsUp(Sum(n), numbers, n)
  BY SumExists
<1>. HIDE DEF Sum
<1>3. CASE k = 0
  BY <1>1, <1>2, <1>3 DEF SumsUp
<1>4. CASE k # 0
  <2>1. k - 1 \in Nat /\ Sum(k)[k] = Sum(k)[k - 1] + numbers[k]
    BY <1>2, <1>4 DEF SumsUp
  <2>2. SumsUp(Sum(k - 1), numbers, k - 1) /\ SumsUp(Sum(k), numbers, k)
    BY <1>2, <2>1
  <2>3. Sum(k - 1)[k - 1] = Sum(k)[k - 1]
    BY <2>1, <2>2, SumUnique
  <2>. QED  BY <1>1, <1>4, <2>1, <2>3
<1>. QED  BY <1>3, <1>4

-----------------------------------------------------------------------------
(* Sequences of whatever they hold.                                          *)

Row(s) == \E S : s \in Seq(S)

LEMMA RowIs ==
    ASSUME NEW s, Row(s)
    PROVE  Len(s) \in Nat /\ DOMAIN s = 1 .. Len(s) /\ s = [i \in 1 .. Len(s) |-> s[i]]
  BY DEF Row

LEMMA TwoRows ==
    ASSUME NEW a, Row(a), NEW b, Row(b)
    PROVE  \E S : a \in Seq(S) /\ b \in Seq(S)
<1>1. PICK S : a \in Seq(S)
  BY DEF Row
<1>2. PICK T : b \in Seq(T)
  BY DEF Row
<1>3. a \in Seq(S \cup T) /\ b \in Seq(S \cup T)
  BY <1>1, <1>2
<1>. QED  BY <1>3

LEMMA RowsEqual ==
    ASSUME NEW a, Row(a), NEW b, Row(b), Len(a) = Len(b), \A i \in 1 .. Len(a) : a[i] = b[i]
    PROVE  a = b
  BY RowIs

LEMMA RowMade ==
    ASSUME NEW n \in Nat, NEW f, f = [i \in 1 .. n |-> f[i]]
    PROVE  Row(f) /\ Len(f) = n
<1>1. f \in Seq({f[i] : i \in 1 .. n})
  <2>1. \A i \in 1 .. n : f[i] \in {f[j] : j \in 1 .. n}
    OBVIOUS
  <2>. QED  BY <2>1
<1>. QED  BY <1>1, SMTT(60) DEF Row

LEMMA RowCat ==
    ASSUME NEW a, Row(a), NEW b, Row(b)
    PROVE  /\ Row(a \o b) /\ Len(a \o b) = Len(a) + Len(b)
           /\ \A i \in 1 .. Len(a) : (a \o b)[i] = a[i]
           /\ \A i \in 1 .. Len(b) : (a \o b)[Len(a) + i] = b[i]
<1>1. PICK S : a \in Seq(S) /\ b \in Seq(S)
  BY TwoRows
<1>2. a \o b \in Seq(S) /\ Len(a \o b) = Len(a) + Len(b)
  BY <1>1
<1>3. ASSUME NEW i \in 1 .. Len(a) + Len(b)
      PROVE  (a \o b)[i] = IF i <= Len(a) THEN a[i] ELSE b[i - Len(a)]
  BY <1>1
<1>4. Len(a) \in Nat /\ Len(b) \in Nat
  BY <1>1
<1>5. ASSUME NEW i \in 1 .. Len(b) PROVE (a \o b)[Len(a) + i] = b[i]
  <2>1. Len(a) + i \in 1 .. Len(a) + Len(b) /\ ~(Len(a) + i <= Len(a)) /\ Len(a) + i - Len(a) = i
    BY <1>4
  <2>. QED  BY <1>3, <2>1
<1>6. ASSUME NEW i \in 1 .. Len(a) PROVE (a \o b)[i] = a[i]
  <2>1. i \in 1 .. Len(a) + Len(b) /\ i <= Len(a)
    BY <1>4
  <2>. QED  BY <1>3, <2>1
<1>. QED  BY <1>2, <1>5, <1>6 DEF Row

LEMMA RowSub ==
    ASSUME NEW s, Row(s), NEW m \in Nat, NEW n \in Nat, 1 <= m, m <= n + 1, n <= Len(s)
    PROVE  /\ Row(SubSeq(s, m, n)) /\ Len(SubSeq(s, m, n)) = n - m + 1
           /\ \A i \in 1 .. n - m + 1 : SubSeq(s, m, n)[i] = s[m + i - 1]
<1>1. PICK S : s \in Seq(S)
  BY DEF Row
<1>2. \A i \in m .. n : s[i] \in S
  BY <1>1
<1>3. SubSeq(s, m, n) = [i \in 1 .. n - m + 1 |-> s[i + m - 1]]
  BY <1>1
<1>4. n - m + 1 \in Nat
  OBVIOUS
<1>5. \A i \in 1 .. n - m + 1 : s[i + m - 1] = s[m + i - 1]
  BY <1>4
<1>. DEFINE f == [i \in 1 .. n - m + 1 |-> s[i + m - 1]]
<1>6. f = [i \in 1 .. n - m + 1 |-> f[i]]
  OBVIOUS
<1>7. \A i \in 1 .. n - m + 1 : f[i] = s[m + i - 1]
  BY <1>5
<1>. HIDE DEF f
<1>8. Row(f) /\ Len(f) = n - m + 1
  BY <1>4, <1>6, RowMade
<1>9. SubSeq(s, m, n) = f
  BY <1>3 DEF f
<1>. QED  BY <1>7, <1>8, <1>9

LEMMA RowOne == ASSUME NEW x PROVE Row(<<x>>) /\ Len(<<x>>) = 1 /\ <<x>>[1] = x
<1>1. <<x>> \in Seq({x})
  OBVIOUS
<1>. QED  BY <1>1 DEF Row

LEMMA RowEmpty == Row(<<>>) /\ Len(<<>>) = 0 /\ \A s : Row(s) /\ Len(s) = 0 => s = <<>>
<1>1. <<>> \in Seq({}) /\ Len(<<>>) = 0
  OBVIOUS
<1>2. ASSUME NEW s, Row(s), Len(s) = 0 PROVE s = <<>>
  BY <1>2 DEF Row
<1>. QED  BY <1>1, <1>2 DEF Row

LEMMA CatEmpty == ASSUME NEW s, Row(s) PROVE s \o <<>> = s /\ <<>> \o s = s
  BY DEF Row

LEMMA CatAssociative ==
    ASSUME NEW a, Row(a), NEW b, Row(b), NEW c, Row(c)
    PROVE  (a \o b) \o c = a \o (b \o c)
<1>1. PICK S : a \in Seq(S) /\ b \in Seq(S)
  BY TwoRows
<1>2. PICK T : c \in Seq(T)
  BY DEF Row
<1>3. a \in Seq(S \cup T) /\ b \in Seq(S \cup T) /\ c \in Seq(S \cup T)
  BY <1>1, <1>2
<1>. QED  BY <1>3

\* A part of a row.
LEMMA SubAt ==
    ASSUME NEW s, Row(s), NEW b, Row(b), NEW m \in Nat, NEW n \in Nat, n = Len(b), m + n <= Len(s),
           \A i \in 1 .. n : s[m + i] = b[i]
    PROVE  SubSeq(s, m + 1, m + n) = b
<1>1. /\ Row(SubSeq(s, m + 1, m + n)) /\ Len(SubSeq(s, m + 1, m + n)) = m + n - (m + 1) + 1
      /\ \A i \in 1 .. m + n - (m + 1) + 1 : SubSeq(s, m + 1, m + n)[i] = s[m + 1 + i - 1]
  <2>1. m + 1 \in Nat /\ m + n \in Nat /\ 1 <= m + 1 /\ m + 1 <= m + n + 1 /\ m + n <= Len(s)
    OBVIOUS
  <2>. QED  BY <2>1, RowSub
<1>2. PICK c : c = SubSeq(s, m + 1, m + n)
  OBVIOUS
<1>3. Row(c) /\ Len(c) = n /\ \A i \in 1 .. n : c[i] = s[m + i]
  <2>1. Row(c) /\ Len(c) = m + n - (m + 1) + 1 /\ m + n - (m + 1) + 1 = n
    BY <1>1, <1>2
  <2>2. ASSUME NEW i \in 1 .. n PROVE c[i] = s[m + i]
    <3>1. i \in 1 .. m + n - (m + 1) + 1 /\ m + 1 + i - 1 = m + i
      OBVIOUS
    <3>. QED  BY <1>1, <1>2, <3>1
  <2>. QED  BY <2>1, <2>2
<1>4. Len(c) = Len(b) /\ \A i \in 1 .. Len(c) : c[i] = b[i]
  BY <1>3
<1>5. c = b
  BY <1>3, <1>4, RowsEqual
<1>. QED  BY <1>2, <1>5

\* The two halves of a concatenation.
LEMMA CatHalves ==
    ASSUME NEW a, Row(a), NEW b, Row(b)
    PROVE  /\ SubSeq(a \o b, 1, Len(a)) = a
           /\ SubSeq(a \o b, Len(a) + 1, Len(a \o b)) = b
<1>1. Len(a) \in Nat /\ Len(b) \in Nat
  BY RowIs
<1>2. PICK s : s = a \o b
  OBVIOUS
<1>3. /\ Row(s) /\ Len(s) = Len(a) + Len(b)
      /\ \A i \in 1 .. Len(a) : s[i] = a[i]
      /\ \A i \in 1 .. Len(b) : s[Len(a) + i] = b[i]
  BY <1>2, RowCat
<1>4. PICK m \in Nat, n \in Nat : m = Len(a) /\ n = Len(b)
  BY <1>1
<1>5. SubSeq(s, 1, m) = a
  <2>1. /\ Row(SubSeq(s, 1, m)) /\ Len(SubSeq(s, 1, m)) = m - 1 + 1
        /\ \A i \in 1 .. m - 1 + 1 : SubSeq(s, 1, m)[i] = s[1 + i - 1]
    <3>1. 1 \in Nat /\ 1 <= 1 /\ 1 <= m + 1 /\ m <= Len(s)
      BY <1>3, <1>4
    <3>. QED  BY <1>3, <3>1, RowSub
  <2>2. PICK c : c = SubSeq(s, 1, m)
    OBVIOUS
  <2>3. Row(c) /\ Len(c) = Len(a) /\ \A i \in 1 .. Len(c) : c[i] = a[i]
    BY <1>3, <1>4, <2>1, <2>2
  <2>. QED  BY <2>2, <2>3, RowsEqual
<1>6. SubSeq(s, m + 1, m + n) = b
  <2>1. n = Len(b) /\ m + n <= Len(s) /\ \A i \in 1 .. n : s[m + i] = b[i]
    BY <1>3, <1>4
  <2>. QED  BY <1>3, <2>1, SubAt
<1>. QED  BY <1>2, <1>3, <1>4, <1>5, <1>6

\* The first of a row and what follows it.
LEMMA FirstAndRest ==
    ASSUME NEW x, NEW s, Row(s)
    PROVE  /\ Row(<<x>> \o s) /\ (<<x>> \o s)[1] = x /\ Tail(<<x>> \o s) = s
           /\ Len(<<x>> \o s) = 1 + Len(s) /\ <<x>> \o s # <<>>
<1>1. PICK S : <<x>> \in Seq(S) /\ s \in Seq(S)
  BY TwoRows, RowOne
<1>2. Row(<<x>> \o s) /\ (<<x>> \o s)[1] = x /\ Len(<<x>> \o s) = 1 + Len(s)
  BY RowCat, RowOne
<1>3. <<x>> \o s # <<>>
  BY <1>2, RowIs, RowEmpty
<1>4. Tail(<<x>> \o s) = s
  BY <1>1
<1>. QED  BY <1>2, <1>3, <1>4

LEMMA RestOf ==
    ASSUME NEW s, Row(s), s # <<>>
    PROVE  /\ Tail(s) = SubSeq(s, 2, Len(s)) /\ s = <<s[1]>> \o Tail(s) /\ Row(Tail(s))
           /\ Len(Tail(s)) = Len(s) - 1 /\ Len(s) \in Nat \ {0}
<1>1. PICK S : s \in Seq(S)
  BY DEF Row
<1>2. Tail(s) = SubSeq(s, 2, Len(s)) /\ Tail(s) \in Seq(S) /\ Len(Tail(s)) = Len(s) - 1 /\ Len(s) \in Nat \ {0}
  BY <1>1
<1>3. s = <<s[1]>> \o Tail(s)
  BY <1>1
<1>. QED  BY <1>2, <1>3 DEF Row

-----------------------------------------------------------------------------
(* Byte strings: every atom has some bytes.                                  *)

IsOctets(o) == Row(o) /\ \A i \in 1 .. Len(o) : o[i][1] \in Nat \ {0}

LEMMA OctetsAre ==
    ASSUME NEW o, IsOctets(o)
    PROVE  Row(o) /\ Len(o) \in Nat /\ DOMAIN o = 1 .. Len(o) /\ \A i \in 1 .. Len(o) : o[i][1] \in Nat \ {0}
<1>1. Row(o) /\ \A i \in 1 .. Len(o) : o[i][1] \in Nat \ {0}
  BY DEF IsOctets
<1>. QED  BY <1>1, RowIs

LEMMA OctetsCat ==
    ASSUME NEW a, IsOctets(a), NEW b, IsOctets(b)
    PROVE  /\ IsOctets(a \o b) /\ Len(a \o b) = Len(a) + Len(b)
           /\ \A i \in 1 .. Len(a) : (a \o b)[i] = a[i]
           /\ \A i \in 1 .. Len(b) : (a \o b)[Len(a) + i] = b[i]
<1>0. Row(a) /\ Row(b) /\ Len(a) \in Nat /\ Len(b) \in Nat
  BY OctetsAre
<1>1. /\ Row(a \o b) /\ Len(a \o b) = Len(a) + Len(b) /\ Len(a) \in Nat /\ Len(b) \in Nat
      /\ \A i \in 1 .. Len(a) : (a \o b)[i] = a[i]
      /\ \A i \in 1 .. Len(b) : (a \o b)[Len(a) + i] = b[i]
  BY <1>0, RowCat
<1>2. PICK s : s = a \o b
  OBVIOUS
<1>3. ASSUME NEW i \in 1 .. Len(s) PROVE s[i][1] \in Nat \ {0}
  <2>1. CASE i <= Len(a)
    <3>1. i \in 1 .. Len(a) /\ s[i] = a[i]
      BY <1>1, <1>2, <2>1
    <3>. QED  BY <3>1 DEF IsOctets
  <2>2. CASE ~(i <= Len(a))
    <3>1. i - Len(a) \in 1 .. Len(b) /\ i = Len(a) + (i - Len(a))
      BY <1>1, <1>2, <2>2
    <3>2. s[i] = b[i - Len(a)]
      BY <1>1, <1>2, <3>1
    <3>. QED  BY <3>1, <3>2 DEF IsOctets
  <2>. QED  BY <2>1, <2>2
<1>. QED  BY <1>1, <1>2, <1>3 DEF IsOctets

LEMMA OctetsSub ==
    ASSUME NEW s, IsOctets(s), NEW m \in Nat, NEW n \in Nat, 1 <= m, m <= n + 1, n <= Len(s)
    PROVE  IsOctets(SubSeq(s, m, n))
<1>1. PICK u : u = SubSeq(s, m, n)
  OBVIOUS
<1>2. Row(u) /\ Len(u) = n - m + 1 /\ \A i \in 1 .. n - m + 1 : u[i] = s[m + i - 1]
  BY <1>1, RowSub DEF IsOctets
<1>3. ASSUME NEW i \in 1 .. Len(u) PROVE u[i][1] \in Nat \ {0}
  <2>1. Len(s) \in Nat
    BY OctetsAre
  <2>2. m + i - 1 \in 1 .. Len(s) /\ u[i] = s[m + i - 1]
    BY <1>2, <2>1
  <2>. QED  BY <2>2 DEF IsOctets
<1>. QED  BY <1>1, <1>2, <1>3 DEF IsOctets

LEMMA OctetsOne ==
    ASSUME NEW x, x[1] \in Nat \ {0}
    PROVE  IsOctets(<<x>>)
<1>1. Row(<<x>>) /\ Len(<<x>>) = 1 /\ <<x>>[1] = x
  BY RowOne
<1>2. PICK s : s = <<x>>
  OBVIOUS
<1>3. Row(s) /\ Len(s) = 1 /\ s[1][1] \in Nat \ {0}
  BY <1>1, <1>2
<1>. QED  BY <1>2, <1>3 DEF IsOctets

LEMMA OctetsEmpty == IsOctets(<<>>)
  BY RowEmpty DEF IsOctets

\* The end of an atom is its size behind the end of the one before it.
LEMMA EndIs ==
    ASSUME NEW o, IsOctets(o), NEW k \in 0 .. Len(o)
    PROVE  End(o, k) = IF k = 0 THEN 0 ELSE End(o, k - 1) + o[k][1]
<1>1. DOMAIN o = 1 .. Len(o) /\ Len(o) \in Nat
  BY OctetsAre
<1>2. PICK numbers : numbers = [i \in DOMAIN o |-> o[i][1]]
  OBVIOUS
<1>3. End(o, k) = Total(numbers, k) /\ (k # 0 => End(o, k - 1) = Total(numbers, k - 1))
  BY <1>2 DEF End
<1>4. Total(numbers, k) = IF k = 0 THEN 0 ELSE Total(numbers, k - 1) + numbers[k]
  <2>1. k \in Nat
    BY <1>1
  <2>. QED  BY <2>1, TotalIs
<1>5. k # 0 => numbers[k] = o[k][1]
  BY <1>1, <1>2
<1>. QED  BY <1>3, <1>4, <1>5

LEMMA EndInNat ==
    ASSUME NEW o, IsOctets(o)
    PROVE  \A k \in 0 .. Len(o) : End(o, k) \in Nat
<1>. DEFINE S == {k \in Nat : k <= Len(o) => End(o, k) \in Nat}
<1>1. Len(o) \in Nat
  BY OctetsAre
<1>2. 0 \in S
  BY <1>1, EndIs
<1>3. ASSUME NEW k \in Nat, k \in S PROVE k + 1 \in S
  <2>. SUFFICES ASSUME k + 1 <= Len(o) PROVE End(o, k + 1) \in Nat
    OBVIOUS
  <2>1. k + 1 \in 1 .. Len(o) /\ k + 1 - 1 = k /\ k + 1 \in 0 .. Len(o) /\ k + 1 # 0
    BY <1>1
  <2>2. End(o, k + 1) = End(o, k) + o[k + 1][1]
    BY <2>1, EndIs
  <2>3. End(o, k) \in Nat /\ o[k + 1][1] \in Nat
    BY <1>1, <1>3, <2>1 DEF IsOctets
  <2>. QED  BY <2>2, <2>3
<1>. HIDE DEF S
<1>4. \A k \in Nat : k \in S
  BY <1>2, <1>3, Induction
<1>. QED  BY <1>1, <1>4 DEF S

\* Ends of atoms come one after the other.
LEMMA EndsGrow ==
    ASSUME NEW o, IsOctets(o), NEW j \in 0 .. Len(o), NEW k \in 0 .. Len(o), j < k
    PROVE  End(o, j) < End(o, k)
<1>. DEFINE S == {n \in Nat : j < n /\ n <= Len(o) => End(o, j) < End(o, n)}
<1>1. Len(o) \in Nat
  BY OctetsAre
<1>2. 0 \in S
  OBVIOUS
<1>3. ASSUME NEW n \in Nat, n \in S PROVE n + 1 \in S
  <2>. SUFFICES ASSUME j < n + 1, n + 1 <= Len(o) PROVE End(o, j) < End(o, n + 1)
    OBVIOUS
  <2>1. n + 1 \in 1 .. Len(o) /\ n + 1 - 1 = n /\ n + 1 \in 0 .. Len(o) /\ n + 1 # 0 /\ n \in 0 .. Len(o)
    BY <1>1
  <2>2. End(o, n + 1) = End(o, n) + o[n + 1][1]
    BY <2>1, EndIs
  <2>3. End(o, j) \in Nat /\ End(o, n) \in Nat /\ o[n + 1][1] \in Nat \ {0}
    BY <2>1, EndInNat DEF IsOctets
  <2>4. j = n \/ End(o, j) < End(o, n)
    BY <1>1, <1>3, <2>1
  <2>. QED  BY <2>2, <2>3, <2>4
<1>. HIDE DEF S
<1>4. \A n \in Nat : n \in S
  BY <1>2, <1>3, Induction
<1>. QED  BY <1>1, <1>4 DEF S

\* The ends in the first half of a concatenation are those of the half, the
\* others are shifted by its size.
LEMMA EndFirst ==
    ASSUME NEW a, IsOctets(a), NEW b, IsOctets(b)
    PROVE  \A k \in 0 .. Len(a) : End(a \o b, k) = End(a, k)
<1>. DEFINE S == {k \in Nat : k <= Len(a) => End(a \o b, k) = End(a, k)}
<1>1. /\ Len(a) \in Nat /\ Len(b) \in Nat /\ IsOctets(a \o b) /\ Len(a \o b) = Len(a) + Len(b)
      /\ \A i \in 1 .. Len(a) : (a \o b)[i] = a[i]
  BY OctetsAre, OctetsCat
<1>2. 0 \in S
  BY <1>1, EndIs
<1>3. ASSUME NEW k \in Nat, k \in S PROVE k + 1 \in S
  <2>. SUFFICES ASSUME k + 1 <= Len(a) PROVE End(a \o b, k + 1) = End(a, k + 1)
    OBVIOUS
  <2>1. /\ k + 1 \in 1 .. Len(a) /\ k + 1 - 1 = k /\ k + 1 \in 0 .. Len(a) /\ k + 1 # 0
        /\ k + 1 \in 0 .. Len(a \o b)
    BY <1>1
  <2>2. End(a, k + 1) = End(a, k) + a[k + 1][1]
    BY <2>1, EndIs
  <2>3. End(a \o b, k + 1) = End(a \o b, k) + (a \o b)[k + 1][1]
    <3>1. PICK s, n : s = a \o b /\ n = k + 1
      OBVIOUS
    <3>2. IsOctets(s) /\ n \in 0 .. Len(s) /\ n # 0 /\ n - 1 = k
      BY <1>1, <2>1, <3>1
    <3>3. End(s, n) = End(s, n - 1) + s[n][1]
      BY <3>2, EndIs
    <3>. QED  BY <3>1, <3>2, <3>3
  <2>. QED  BY <1>1, <1>3, <2>1, <2>2, <2>3
<1>. HIDE DEF S
<1>4. \A k \in Nat : k \in S
  BY <1>2, <1>3, Induction
<1>. QED  BY <1>1, <1>4 DEF S

LEMMA EndSecond ==
    ASSUME NEW a, IsOctets(a), NEW b, IsOctets(b)
    PROVE  \A k \in 0 .. Len(b) : End(a \o b, Len(a) + k) = Size(a) + End(b, k)
<1>. DEFINE S == {k \in Nat : k <= Len(b) => End(a \o b, Len(a) + k) = Size(a) + End(b, k)}
<1>1. /\ Len(a) \in Nat /\ Len(b) \in Nat /\ IsOctets(a \o b) /\ Len(a \o b) = Len(a) + Len(b)
      /\ \A i \in 1 .. Len(b) : (a \o b)[Len(a) + i] = b[i]
  BY OctetsAre, OctetsCat
<1>2. 0 \in S
  <2>1. End(b, 0) = 0 /\ End(a \o b, Len(a)) = End(a, Len(a)) /\ End(a, Len(a)) \in Nat /\ Len(a) + 0 = Len(a)
    BY <1>1, EndIs, EndFirst, EndInNat
  <2>. QED  BY <2>1 DEF Size
<1>3. ASSUME NEW k \in Nat, k \in S PROVE k + 1 \in S
  <2>. SUFFICES ASSUME k + 1 <= Len(b) PROVE End(a \o b, Len(a) + (k + 1)) = Size(a) + End(b, k + 1)
    OBVIOUS
  <2>1. /\ k + 1 \in 1 .. Len(b) /\ k + 1 - 1 = k /\ k + 1 \in 0 .. Len(b) /\ k + 1 # 0
        /\ k \in 0 .. Len(b)
    BY <1>1
  <2>2. End(b, k + 1) = End(b, k) + b[k + 1][1]
    BY <2>1, EndIs
  <2>3. PICK m : m = Len(a) + (k + 1)
    OBVIOUS
  <2>4. m \in 0 .. Len(a \o b) /\ m # 0 /\ m - 1 = Len(a) + k
    BY <1>1, <2>1, <2>3
  <2>5. End(a \o b, m) = End(a \o b, m - 1) + (a \o b)[m][1]
    BY <1>1, <2>4, EndIs
  <2>6. (a \o b)[m] = b[k + 1]
    BY <1>1, <2>1, <2>3
  <2>7. End(a \o b, Len(a) + k) = Size(a) + End(b, k)
    BY <1>3, <2>1
  <2>8. End(b, k) \in Nat /\ Size(a) \in Nat /\ b[k + 1][1] \in Nat
    BY <1>1, <2>1, EndInNat DEF Size, IsOctets
  <2>. QED  BY <2>2, <2>3, <2>4, <2>5, <2>6, <2>7, <2>8
<1>. HIDE DEF S
<1>4. \A k \in Nat : k \in S
  BY <1>2, <1>3, Induction
<1>. QED  BY <1>1, <1>4 DEF S

LEMMA SizeIs ==
    ASSUME NEW a, IsOctets(a)
    PROVE  Size(a) \in Nat /\ (Size(a) = 0 <=> a = <<>>)
<1>1. Len(a) \in Nat
  BY OctetsAre
<1>2. Size(a) \in Nat /\ End(a, 0) = 0
  BY <1>1, EndInNat, EndIs DEF Size
<1>3. CASE Len(a) = 0
  <2>1. a = <<>>
    BY <1>3, RowEmpty DEF IsOctets
  <2>. QED  BY <1>2, <1>3, <2>1 DEF Size
<1>4. CASE Len(a) # 0
  <2>1. 0 < Size(a)
    BY <1>1, <1>2, <1>4, EndsGrow DEF Size
  <2>2. a # <<>>
    BY <1>4
  <2>. QED  BY <1>2, <2>1, <2>2
<1>. QED  BY <1>3, <1>4

LEMMA SizeOfCat ==
    ASSUME NEW a, IsOctets(a), NEW b, IsOctets(b)
    PROVE  Size(a \o b) = Size(a) + Size(b)
<1>1. Len(a \o b) = Len(a) + Len(b) /\ Len(b) \in Nat
  BY OctetsCat, OctetsAre
<1>2. End(a \o b, Len(a) + Len(b)) = Size(a) + End(b, Len(b))
  BY <1>1, EndSecond
<1>. QED  BY <1>1, <1>2 DEF Size

LEMMA SizeOfOne ==
    ASSUME NEW x, x[1] \in Nat \ {0}
    PROVE  Size(<<x>>) = x[1]
<1>1. PICK s : s = <<x>>
  OBVIOUS
<1>2. IsOctets(s) /\ Len(s) = 1 /\ s[1] = x
  BY <1>1, OctetsOne, RowOne
<1>3. End(s, 1) = End(s, 1 - 1) + s[1][1] /\ End(s, 0) = 0 /\ 1 - 1 = 0
  <2>1. \A k \in 0 .. Len(s) : End(s, k) = IF k = 0 THEN 0 ELSE End(s, k - 1) + s[k][1]
    BY <1>2, EndIs
  <2>2. 1 \in 0 .. Len(s) /\ 0 \in 0 .. Len(s) /\ 1 # 0
    BY <1>2
  <2>. QED  BY <2>1, <2>2
<1>. QED  BY <1>1, <1>2, <1>3 DEF Size

\* At the end of the first half a concatenation is cut into its halves.
LEMMA CutAtHalf ==
    ASSUME NEW a, IsOctets(a), NEW b, IsOctets(b)
    PROVE  Cuts(a \o b, Size(a)) # {} /\ Cut(a \o b, Size(a)) = Len(a)
<1>1. /\ IsOctets(a \o b) /\ Len(a \o b) = Len(a) + Len(b) /\ Len(a) \in Nat /\ Len(b) \in Nat
  BY OctetsAre, OctetsCat
<1>2. Len(a) \in 0 .. Len(a \o b) /\ End(a \o b, Len(a)) = Size(a)
  BY <1>1, EndFirst DEF Size
<1>3. ASSUME NEW k \in 0 .. Len(a \o b), End(a \o b, k) = Size(a) PROVE k = Len(a)
  <2>1. \A j \in 0 .. Len(a \o b) : End(a \o b, j) \in Nat
    BY <1>1, EndInNat
  <2>2. ~(k < Len(a)) /\ ~(Len(a) < k)
    <3>1. PICK s : s = a \o b
      OBVIOUS
    <3>2. \A i, j \in 0 .. Len(s) : i < j => End(s, i) < End(s, j)
      BY <1>1, <3>1, EndsGrow
    <3>3. Size(a) \in Nat /\ ~(Size(a) < Size(a))
      BY SizeIs
    <3>. QED  BY <1>2, <1>3, <3>1, <3>2, <3>3
  <2>. QED  BY <1>1, <2>2
<1>4. Len(a) \in Cuts(a \o b, Size(a)) /\ \A k \in Cuts(a \o b, Size(a)) : k = Len(a)
  BY <1>2, <1>3 DEF Cuts
<1>. QED  BY <1>4 DEF Cut

\* The bytes between two others.
LEMMA SliceMiddle ==
    ASSUME NEW a, IsOctets(a), NEW b, IsOctets(b), NEW c, IsOctets(c)
    PROVE  Slice(a \o (b \o c), Size(a), Size(b)) = b
<1>1. CASE Size(b) = 0
  BY <1>1, SizeIs DEF Slice
<1>2. CASE Size(b) # 0
  <2>1. PICK s : s = a \o (b \o c)
    OBVIOUS
  <2>2. s = (a \o b) \o c /\ IsOctets(a \o b) /\ IsOctets(b \o c)
    <3>1. Row(a) /\ Row(b) /\ Row(c)
      BY OctetsAre
    <3>2. (a \o b) \o c = a \o (b \o c)
      BY <3>1, CatAssociative
    <3>. QED  BY <2>1, <3>2, OctetsCat
  <2>3. Cuts(s, Size(a)) # {} /\ Cut(s, Size(a)) = Len(a)
    BY <2>1, <2>2, CutAtHalf
  <2>4. Cuts(s, Size(a) + Size(b)) # {} /\ Cut(s, Size(a) + Size(b)) = Len(a \o b)
    BY <2>2, CutAtHalf, SizeOfCat
  <2>5. Slice(s, Size(a), Size(b)) = SubSeq(s, Len(a) + 1, Len(a \o b))
    BY <1>2, <2>3, <2>4 DEF Slice
  <2>6. SubSeq(s, Len(a) + 1, Len(a \o b)) = b
    <3>. DEFINE m == Len(a) n == Len(b)
    <3>1. m \in Nat /\ n \in Nat /\ Len(a \o b) = m + n
      BY OctetsCat, OctetsAre
    <3>2. Row(s) /\ m + n <= Len(s) /\ Row(b)
      <4>1. Row(s) /\ Len(s) = Len(a \o b) + Len(c) /\ Len(c) \in Nat
        BY <2>2, OctetsCat, OctetsAre
      <4>. QED  BY <3>1, <4>1, OctetsAre
    <3>3. \A i \in 1 .. n : s[m + i] = b[i]
      <4>1. \A i \in 1 .. Len(b) : (b \o c)[i] = b[i]
        BY OctetsCat, OctetsAre
      <4>2. \A i \in 1 .. Len(b \o c) : s[Len(a) + i] = (b \o c)[i]
        BY <2>1, <2>2, OctetsCat
      <4>3. Len(b \o c) = Len(b) + Len(c) /\ Len(c) \in Nat
        BY OctetsCat, OctetsAre
      <4>. QED  BY <3>1, <4>1, <4>2, <4>3
    <3>. HIDE DEF m, n
    <3>4. Len(b) = n
      BY DEF n
    <3>5. SubSeq(s, m + 1, m + n) = b
      BY <3>1, <3>2, <3>3, <3>4, SubAt
    <3>. QED  BY <3>1, <3>5 DEF m
  <2>. QED  BY <2>1, <2>5, <2>6
<1>. QED  BY <1>1, <1>2

-----------------------------------------------------------------------------
(* None is no number and no function: neither octets nor a record.           *)

NoneIsApart == None \notin Int /\ None # "" /\ \A f : f = [x \in DOMAIN f |-> f[x]] => f # None

LEMMA RowIsSome == ASSUME NoneIsApart, NEW s, Row(s) PROVE s # None
<1>1. s = [x \in DOMAIN s |-> s[x]]
  BY RowIs
<1>. QED  BY <1>1 DEF NoneIsApart

LEMMA LengthIsSome == ASSUME NoneIsApart, NEW n, NEW k PROVE [len |-> n, used |-> k] # None
<1>1. PICK f : f = [len |-> n, used |-> k]
  OBVIOUS
<1>2. f = [x \in DOMAIN f |-> f[x]]
  BY <1>1
<1>. QED  BY <1>1, <1>2 DEF NoneIsApart

LEMMA ElementIsSome == ASSUME NoneIsApart, NEW t, NEW c, NEW k PROVE [tag |-> t, value |-> c, atoms |-> k] # None
<1>1. PICK f : f = [tag |-> t, value |-> c, atoms |-> k]
  OBVIOUS
<1>2. f = [x \in DOMAIN f |-> f[x]]
  BY <1>1
<1>. QED  BY <1>1, <1>2 DEF NoneIsApart

LEMMA RequestIsSome ==
    ASSUME NoneIsApart, NEW r, NEW v, NEW n, NEW a, NEW p, NEW e, NEW c,
           r = [version |-> v, negoToken |-> n, authInfo |-> a, pubKeyAuth |-> p, errorCode |-> e,
                clientNonce |-> c]
    PROVE  r # None
<1>2. r = [x \in DOMAIN r |-> r[x]]
  OBVIOUS
<1>. QED  BY <1>2 DEF NoneIsApart

-----------------------------------------------------------------------------
(* The lengths of DER, written and read again, for every length that three   *)
(* bytes hold.                                                               *)

\* Lengths of up to three bytes, and those bytes.
Limit   == 16777216
High(n) == n \div 65536
Mid(n)  == (n \div 256) % 256
Low(n)  == n % 256

Digit          == 0 .. 255
Two(x, y)      == x * 256 + y
Three(x, y, z) == (x * 256 + y) * 256 + z

\* A length is the number its bytes are the digits of.
LEMMA Digits ==
    ASSUME NEW n \in Int, 0 <= n, n < Limit
    PROVE  /\ High(n) \in Digit /\ Mid(n) \in Digit /\ Low(n) \in Digit
           /\ High(n) % 256 = High(n)
           /\ n = Three(High(n), Mid(n), Low(n))
           /\ n < 65536 => n \div 256 \in Digit /\ n = Two(n \div 256, Low(n))
  BY SMT DEF Limit, High, Mid, Low, Digit, Two, Three

\* A length in one byte is that byte.
LEMMA OneByte ==
    ASSUME NEW S, NEW data \in Seq(S), data # <<>>, NEW n \in 0 .. 127, data[1] = Byte(n)
    PROVE  DecodeLength(data) = [len |-> n, used |-> 1]
  BY SMT DEF DecodeLength, Byte, IsByte

\* A length in two bytes is the second.
LEMMA TwoBytes ==
    ASSUME NEW S, NEW data \in Seq(S), Len(data) >= 2, NEW x \in Digit,
           data[1] = Byte(129), data[2] = Byte(x)
    PROVE  DecodeLength(data) = [len |-> x, used |-> 2]
<1>1. data # <<>> /\ data[1][3] = 129 /\ IsByte(data[1]) /\ data[2][3] = x
  BY SMT DEF Byte, IsByte
<1>. QED  BY <1>1, SMT DEF DecodeLength, Digit, Two

\* A length in three bytes is the number of the last two.
LEMMA ThreeBytes ==
    ASSUME NEW S, NEW data \in Seq(S), Len(data) >= 3, NEW x \in Digit, NEW y \in Digit,
           data[1] = Byte(130), data[2] = Byte(x), data[3] = Byte(y)
    PROVE  DecodeLength(data) = [len |-> Two(x, y), used |-> 3]
<1>1. data # <<>> /\ data[1][3] = 130 /\ IsByte(data[1]) /\ data[2][3] = x /\ data[3][3] = y
  BY SMT DEF Byte, IsByte
<1>. QED  BY <1>1, SMTT(60) DEF DecodeLength, Digit, Two

\* A length in four bytes is the number of the last three.
LEMMA FourBytes ==
    ASSUME NEW S, NEW data \in Seq(S), Len(data) >= 4,
           NEW x \in Digit, NEW y \in Digit, NEW z \in Digit,
           data[1] = Byte(131), data[2] = Byte(x), data[3] = Byte(y), data[4] = Byte(z)
    PROVE  DecodeLength(data) = [len |-> Three(x, y, z), used |-> 4]
<1>1. data # <<>> /\ data[1][3] = 131 /\ IsByte(data[1]) /\ data[2][3] = x /\ data[3][3] = y /\ data[4][3] = z
  BY SMT DEF Byte, IsByte
<1>2. DecodeLength(data) = [len |-> (data[2][3] * 256 + data[3][3]) * 256 + data[4][3], used |-> 4]
  <2>1. data[1][3] - 128 = 3 /\ ~(data[1][3] < 128) /\ 3 \in 1 .. 3 /\ ~(Len(data) < 1 + 3) /\ 3 # 1 /\ 3 # 2
        /\ 1 + 1 = 2 /\ 2 + 1 = 3 /\ 3 + 1 = 4 /\ 1 + 3 = 4
    BY <1>1, SMT
  <2>. QED  BY <1>1, <2>1, ZenonT(60) DEF DecodeLength
<1>. QED  BY <1>1, <1>2, Zenon DEF Three

\* decode_length reads back what encode_length wrote of any length below 2^24,
\* whatever follows it, and takes its bytes and no more.
THEOREM LengthsRoundTrip ==
    ASSUME NEW n \in Int, 0 <= n, n < Limit,
           NEW S, NEW data \in Seq(S), Len(data) >= Len(EncodeLength(n)),
           \A i \in 1 .. Len(EncodeLength(n)) : data[i] = EncodeLength(n)[i]
    PROVE  DecodeLength(data) = [len |-> n, used |-> Len(EncodeLength(n))]
<1>0. /\ High(n) \in Digit /\ Mid(n) \in Digit /\ Low(n) \in Digit
      /\ High(n) % 256 = High(n)
  BY Digits, SMT
<1>1. CASE n < 128
  <2>1. EncodeLength(n) = <<Byte(n)>>
    BY <1>1, SMT DEF EncodeLength, High, Mid, Low
  <2>2. n \in 0 .. 127 /\ data # <<>> /\ data[1] = Byte(n) /\ Len(EncodeLength(n)) = 1
    BY <1>1, <2>1, SMT
  <2>. QED  BY <2>2, OneByte, Zenon
<1>2. CASE n >= 128 /\ n < 256
  <2>1. EncodeLength(n) = <<Byte(129), Byte(n)>>
    BY <1>2, SMT DEF EncodeLength, High, Mid, Low
  <2>2. /\ n \in Digit /\ Len(data) >= 2 /\ Len(EncodeLength(n)) = 2
        /\ data[1] = Byte(129) /\ data[2] = Byte(n)
    BY <1>2, <2>1, SMT DEF Digit
  <2>. QED  BY <2>2, TwoBytes, SMTT(60)
<1>3. CASE n >= 256 /\ n < 65536
  <2>1. EncodeLength(n) = <<Byte(130), Byte(n \div 256), Byte(Low(n))>>
    BY <1>3, SMT DEF EncodeLength, High, Mid, Low
  <2>2. /\ Len(data) >= 3 /\ Len(EncodeLength(n)) = 3
        /\ data[1] = Byte(130) /\ data[2] = Byte(n \div 256) /\ data[3] = Byte(Low(n))
    BY <2>1, SMT
  <2>3. n \div 256 \in Digit /\ n = Two(n \div 256, Low(n))
    BY <1>3, Digits, SMT
  <2>4. DecodeLength(data) = [len |-> Two(n \div 256, Low(n)), used |-> 3]
    <3>1. n \div 256 \in Digit
      BY <2>3
    <3>2. \A x, y \in Digit : data[2] = Byte(x) /\ data[3] = Byte(y)
                                => DecodeLength(data) = [len |-> Two(x, y), used |-> 3]
      BY <2>2, ThreeBytes, ZenonT(60)
    <3>. QED  BY <1>0, <2>2, <3>1, <3>2, ZenonT(30)
  <2>. QED  BY <2>2, <2>3, <2>4, SMT
<1>4. CASE n >= 65536
  <2>1. EncodeLength(n) = <<Byte(131), Byte(High(n) % 256), Byte(Mid(n)), Byte(Low(n))>>
    BY <1>4, SMT DEF EncodeLength, High, Mid, Low
  <2>2. /\ Len(data) >= 4 /\ Len(EncodeLength(n)) = 4
        /\ data[1] = Byte(131) /\ data[2] = Byte(High(n))
        /\ data[3] = Byte(Mid(n)) /\ data[4] = Byte(Low(n))
    BY <1>0, <2>1, SMT
  <2>3. n = Three(High(n), Mid(n), Low(n))
    BY Digits, SMT
  <2>4. DecodeLength(data) = [len |-> Three(High(n), Mid(n), Low(n)), used |-> 4]
    <3>1. ASSUME NEW x \in Digit, NEW y \in Digit, NEW z \in Digit,
                 data[2] = Byte(x), data[3] = Byte(y), data[4] = Byte(z)
          PROVE  DecodeLength(data) = [len |-> Three(x, y, z), used |-> 4]
      <4>1. Len(data) >= 4 /\ data[1] = Byte(131)
        BY <2>2
      <4>. QED  BY <3>1, <4>1, FourBytes, ZenonT(30)
    <3>. QED  BY <1>0, <2>2, <3>1, ZenonT(30)
  <2>. QED  BY <2>2, <2>3, <2>4, SMT
<1>. QED  BY <1>1, <1>2, <1>3, <1>4, SMT

\* A row of bytes has as many bytes as it is long.
LEMMA BytesSize ==
    ASSUME NEW s, Row(s), \A i \in 1 .. Len(s) : s[i][1] = 1
    PROVE  IsOctets(s) /\ Size(s) = Len(s)
<1>1. IsOctets(s)
  BY DEF IsOctets
<1>2. Len(s) \in Nat
  BY RowIs
<1>. DEFINE S == {k \in Nat : k <= Len(s) => End(s, k) = k}
<1>3. \A k \in 0 .. Len(s) : End(s, k) = IF k = 0 THEN 0 ELSE End(s, k - 1) + s[k][1]
  BY <1>1, EndIs
<1>4. 0 \in S
  BY <1>2, <1>3
<1>5. ASSUME NEW k \in Nat, k \in S PROVE k + 1 \in S
  <2>. SUFFICES ASSUME k + 1 <= Len(s) PROVE End(s, k + 1) = k + 1
    OBVIOUS
  <2>1. k + 1 \in 1 .. Len(s) /\ k + 1 \in 0 .. Len(s) /\ k + 1 # 0 /\ k + 1 - 1 = k
    BY <1>2
  <2>2. End(s, k) = k /\ s[k + 1][1] = 1
    BY <1>2, <1>5, <2>1
  <2>. QED  BY <1>3, <2>1, <2>2
<1>. HIDE DEF S
<1>6. \A k \in Nat : k \in S
  BY <1>4, <1>5, Induction
<1>7. End(s, Len(s)) = Len(s)
  BY <1>2, <1>6 DEF S
<1>. QED  BY <1>1, <1>7 DEF Size

LEMMA LengthBytes ==
    ASSUME NEW n \in Int, 0 <= n, n < Limit
    PROVE  /\ IsOctets(EncodeLength(n)) /\ Size(EncodeLength(n)) \in 1 .. 4
           /\ Len(EncodeLength(n)) \in 1 .. 4
<1>1. PICK s : s = EncodeLength(n)
  OBVIOUS
<1>2. Row(s) /\ Len(s) \in 1 .. 4 /\ \A i \in 1 .. Len(s) : s[i][1] = 1
  <2>1. \A x : Byte(x)[1] = 1
    BY DEF Byte
  <2>. HIDE DEF Byte
  <2>2. PICK x, y, z, u : s = <<Byte(x)>> \/ s = <<Byte(x), Byte(y)>> \/ s = <<Byte(x), Byte(y), Byte(z)>>
                          \/ s = <<Byte(x), Byte(y), Byte(z), Byte(u)>>
    BY <1>1 DEF EncodeLength
  <2>a. PICK a, b, c, d : a = Byte(x) /\ b = Byte(y) /\ c = Byte(z) /\ d = Byte(u)
    OBVIOUS
  <2>3. /\ a[1] = 1 /\ b[1] = 1 /\ c[1] = 1 /\ d[1] = 1
        /\ s = <<a>> \/ s = <<a, b>> \/ s = <<a, b, c>> \/ s = <<a, b, c, d>>
    BY <2>1, <2>2, <2>a
  <2>4. s \in Seq({a, b, c, d}) /\ Len(s) \in 1 .. 4
    <3>1. CASE s = <<a>>
      BY <3>1
    <3>2. CASE s = <<a, b>>
      BY <3>2
    <3>3. CASE s = <<a, b, c>>
      BY <3>3
    <3>4. CASE s = <<a, b, c, d>>
      BY <3>4
    <3>. QED  BY <2>3, <3>1, <3>2, <3>3, <3>4
  <2>5. \A i \in 1 .. Len(s) : s[i] \in {a, b, c, d}
    BY <2>4
  <2>. QED  BY <2>3, <2>4, <2>5 DEF Row
<1>. QED  BY <1>1, <1>2, BytesSize

-----------------------------------------------------------------------------
(* An element, written and read again.                                       *)

\* o is no longer than n bytes.
Small(o, n) == IsOctets(o) /\ Size(o) <= n

LEMMA SmallCat ==
    ASSUME NEW a, NEW m \in Nat, Small(a, m), NEW b, NEW n \in Nat, Small(b, n)
    PROVE  Small(a \o b, m + n)
<1>1. IsOctets(a) /\ IsOctets(b) /\ Size(a) <= m /\ Size(b) <= n
  BY DEF Small
<1>2. IsOctets(a \o b) /\ Size(a \o b) = Size(a) + Size(b) /\ Size(a) \in Nat /\ Size(b) \in Nat
  BY <1>1, OctetsCat, SizeOfCat, SizeIs
<1>. QED  BY <1>1, <1>2 DEF Small

LEMMA SmallOne ==
    ASSUME NEW x, x[1] \in Nat \ {0}
    PROVE  Small(<<x>>, x[1])
<1>1. IsOctets(<<x>>) /\ Size(<<x>>) = x[1]
  BY OctetsOne, SizeOfOne
<1>. QED  BY <1>1 DEF Small

LEMMA SmallByte == ASSUME NEW x PROVE Small(<<Byte(x)>>, 1)
<1>1. Byte(x)[1] = 1
  BY DEF Byte
<1>. QED  BY <1>1, SmallOne

LEMMA SmallIsSmaller ==
    ASSUME NEW o, NEW m \in Nat, NEW n \in Nat, Small(o, m), m <= n
    PROVE  Small(o, n)
<1>1. IsOctets(o) /\ Size(o) <= m /\ Size(o) \in Nat
  BY SizeIs DEF Small
<1>. QED  BY <1>1 DEF Small

\* The bytes before the contents of an element.
Opening(t, c) == <<Byte(t)>> \o EncodeLength(Size(c))

LEMMA TlvIs ==
    ASSUME NEW t, NEW n \in Nat, n < Limit, NEW c, Small(c, n)
    PROVE  /\ EncodeTlv(t, c) = Opening(t, c) \o c /\ IsOctets(Opening(t, c))
           /\ Len(Opening(t, c)) = 1 + Len(EncodeLength(Size(c)))
           /\ Small(EncodeTlv(t, c), n + 5)
<1>0. IsOctets(c) /\ Size(c) <= n /\ Size(c) \in Nat
  BY SizeIs DEF Small
<1>1. Size(c) \in Int /\ 0 <= Size(c) /\ Size(c) < Limit
  BY <1>0 DEF Limit
<1>2. IsOctets(EncodeLength(Size(c))) /\ Size(EncodeLength(Size(c))) <= 4
  BY <1>1, LengthBytes
<1>3. Small(EncodeLength(Size(c)), 4) /\ Small(<<Byte(t)>>, 1)
  BY <1>2, SmallByte DEF Small
<1>4. Small(Opening(t, c), 5)
  <2>1. 1 \in Nat /\ 4 \in Nat /\ 1 + 4 = 5
    OBVIOUS
  <2>. QED  BY <1>3, <2>1, SmallCat DEF Opening
<1>5. Small(Opening(t, c) \o c, n + 5)
  <2>1. Small(Opening(t, c) \o c, 5 + n)
    BY <1>4, SmallCat
  <2>. QED  BY <2>1
<1>6. EncodeTlv(t, c) = Opening(t, c) \o c
  <2>1. Row(<<Byte(t)>>) /\ Row(EncodeLength(Size(c))) /\ Row(c)
    BY <1>0, <1>2, OctetsAre, RowOne
  <2>. QED  BY <2>1, CatAssociative DEF EncodeTlv, Opening
<1>7. Len(Opening(t, c)) = 1 + Len(EncodeLength(Size(c))) /\ IsOctets(Opening(t, c))
  <2>1. IsOctets(<<Byte(t)>>) /\ Len(<<Byte(t)>>) = 1
    BY <1>3, RowOne DEF Small
  <2>2. Len(<<Byte(t)>> \o EncodeLength(Size(c))) = Len(<<Byte(t)>>) + Len(EncodeLength(Size(c)))
    BY <1>2, <2>1, OctetsCat
  <2>. QED  BY <1>4, <2>1, <2>2 DEF Opening, Small
<1>. QED  BY <1>5, <1>6, <1>7

\* What read_tlv finds at the beginning of an element and the rest.
LEMMA ReadEncoded ==
    ASSUME NoneIsApart, NEW t, NEW n \in Nat, n < Limit, NEW c, Small(c, n), NEW rest, IsOctets(rest)
    PROVE  ReadTlv(EncodeTlv(t, c) \o rest)
              = [tag |-> t, value |-> c, atoms |-> Len(Opening(t, c)) + Len(c)]
<1>0. IsOctets(c) /\ Size(c) <= n /\ Size(c) \in Nat
  BY SizeIs DEF Small
<1>1. Size(c) \in Int /\ 0 <= Size(c) /\ Size(c) < Limit
  BY <1>0 DEF Limit
<1>2. PICK length : length = EncodeLength(Size(c))
  OBVIOUS
<1>3. PICK body : body = c \o rest
  OBVIOUS
<1>4. PICK first : first = Byte(t)
  OBVIOUS
<1>5. IsOctets(length) /\ Len(length) \in 1 .. 4 /\ IsOctets(body) /\ IsOctets(<<first>>) /\ IsByte(first)
  <2>1. IsByte(first)
    BY <1>4, SMT DEF Byte, IsByte
  <2>2. IsOctets(<<first>>)
    BY <1>4, SmallByte DEF Small
  <2>. QED  BY <1>0, <1>1, <1>2, <1>3, <2>1, <2>2, LengthBytes, OctetsCat
<1>6. PICK data : data = EncodeTlv(t, c) \o rest
  OBVIOUS
<1>7. data = (<<first>> \o length) \o body /\ data = <<first>> \o (length \o body)
  <2>1. Row(<<first>>) /\ Row(length) /\ Row(c) /\ Row(rest) /\ Row(body)
    BY <1>0, <1>5, OctetsAre
  <2>2. Row(<<first>> \o length)
    BY <1>5, OctetsCat, OctetsAre
  <2>3. data = ((<<first>> \o length) \o c) \o rest
    <3>1. EncodeTlv(t, c) = Opening(t, c) \o c
      BY TlvIs
    <3>2. Opening(t, c) = <<first>> \o length
      BY <1>2, <1>4 DEF Opening
    <3>. QED  BY <1>6, <3>1, <3>2, Zenon
  <2>4. data = (<<first>> \o length) \o body
    <3>1. PICK u : u = <<first>> \o length
      OBVIOUS
    <3>2. (u \o c) \o rest = u \o (c \o rest)
      BY <2>1, <2>2, <3>1, CatAssociative, SMTT(60)
    <3>. QED  BY <1>3, <2>3, <3>1, <3>2, Zenon
  <2>. QED  BY <2>1, <2>4, CatAssociative
<1>8. data # <<>> /\ data[1] = first /\ Tail(data) = length \o body
  <2>1. Row(length \o body)
    BY <1>5, OctetsCat, OctetsAre
  <2>. QED  BY <1>7, <2>1, FirstAndRest
<1>9. PICK len : len = [len |-> Size(c), used |-> Len(length)]
  OBVIOUS
<1>10. DecodeLength(Tail(data)) = len
  <2>1. PICK s : s = length \o body
    OBVIOUS
  <2>2. PICK S : s \in Seq(S)
    BY <1>5, <2>1, OctetsCat, OctetsAre DEF Row
  <2>3. Len(s) = Len(length) + Len(body) /\ Len(body) \in Nat /\ \A i \in 1 .. Len(length) : s[i] = length[i]
    BY <1>5, <2>1, OctetsCat, OctetsAre
  <2>4. Len(s) >= Len(length)
    BY <1>5, <2>3
  <2>5. DecodeLength(s) = [len |-> Size(c), used |-> Len(length)]
    BY <1>1, <1>2, <2>2, <2>3, <2>4, LengthsRoundTrip
  <2>. QED  BY <1>8, <1>9, <2>1, <2>5
<1>11. len # None /\ len.len = Size(c) /\ len.used = Len(length)
  BY <1>9, LengthIsSome
<1>12. Behind(data, len) = body
  <2>1. Len(<<first>> \o length) = 1 + Len(length) /\ Row(<<first>> \o length) /\ Row(body)
    BY <1>5, OctetsCat, OctetsAre, RowOne
  <2>2. SubSeq(data, Len(<<first>> \o length) + 1, Len(data)) = body
    BY <1>7, <2>1, CatHalves
  <2>3. Len(<<first>> \o length) + 1 = Len(length) + 2
    BY <1>5, <2>1
  <2>4. SubSeq(data, Len(length) + 2, Len(data)) = body
    BY <2>2, <2>3
  <2>. QED  BY <1>11, <2>4 DEF Behind
<1>13. Cuts(body, Size(c)) # {} /\ Cut(body, Size(c)) = Len(c) /\ SubSeq(body, 1, Len(c)) = c
  BY <1>0, <1>3, CutAtHalf, CatHalves, OctetsAre
<1>14. Element(t, len, body) = [tag |-> t, value |-> c, atoms |-> 1 + Len(length) + Len(c)]
  BY <1>11, <1>13 DEF Element
<1>15. first[3] = t
  BY <1>4 DEF Byte
<1>16. Len(Opening(t, c)) = 1 + Len(length)
  BY <1>2, TlvIs
<1>17. ReadTlv(data) = Element(t, len, body)
  BY <1>5, <1>8, <1>10, <1>12, <1>15 DEF ReadTlv, TlvOf
<1>. QED  BY <1>6, <1>14, <1>16, <1>17

-----------------------------------------------------------------------------
(* The elements in a row: the recursive definition of Elements, unfolded.    *)

\* A length is read from bytes that are there.
LEMMA LengthBounds ==
    ASSUME NEW s, Row(s), DecodeLength(s) # None
    PROVE  DecodeLength(s).used \in 1 .. Len(s)
<1>1. Len(s) \in Nat /\ s # <<>> /\ Len(s) >= 1
  <2>1. Len(s) \in Nat /\ s # <<>>
    BY RowIs DEF DecodeLength
  <2>. QED  BY <2>1, RowEmpty
<1>2. PICK first : first = s[1][3]
  OBVIOUS
<1>3. CASE first < 128
  <2>1. DecodeLength(s).used = 1
    BY <1>1, <1>2, <1>3 DEF DecodeLength
  <2>. QED  BY <1>1, <2>1
<1>4. CASE ~(first < 128)
  <2>1. PICK count : count = first - 128
    OBVIOUS
  <2>2. count \in 1 .. 3 /\ ~(Len(s) < 1 + count) /\ DecodeLength(s).used = 1 + count
    BY <1>1, <1>2, <1>4, <2>1 DEF DecodeLength
  <2>. QED  BY <1>1, <2>2
<1>. QED  BY <1>3, <1>4

\* An element takes atoms that are there, the first of them at least.
LEMMA ReadBounds ==
    ASSUME NEW s, Row(s), ReadTlv(s) # None
    PROVE  s # <<>> /\ ReadTlv(s).atoms \in 1 .. Len(s)
<1>1. s # <<>> /\ IsByte(s[1])
  BY DEF ReadTlv
<1>2. PICK t : t = Tail(s)
  OBVIOUS
<1>3. Row(t) /\ Len(t) = Len(s) - 1 /\ Len(s) \in Nat \ {0}
  BY <1>1, <1>2, RestOf
<1>4. PICK length : length = DecodeLength(t)
  OBVIOUS
<1>5. PICK rest : rest = Behind(s, length)
  OBVIOUS
<1>6. ReadTlv(s) = Element(s[1][3], length, rest)
  BY <1>1, <1>2, <1>4, <1>5 DEF ReadTlv, TlvOf
<1>7. length # None /\ Cuts(rest, length.len) # {}
  BY <1>6 DEF Element
<1>8. length.used \in 1 .. Len(t)
  BY <1>3, <1>4, <1>7, LengthBounds
<1>9. rest = SubSeq(s, length.used + 2, Len(s))
  BY <1>5, <1>7 DEF Behind
<1>10. PICK m \in Nat, n \in Nat : m = length.used + 2 /\ n = Len(s)
  BY <1>3, <1>8
<1>11. Len(rest) = n - m + 1
  <2>1. 1 <= m /\ m <= n + 1 /\ n <= Len(s)
    BY <1>3, <1>8, <1>10
  <2>2. Len(SubSeq(s, m, n)) = n - m + 1
    BY <2>1, RowSub
  <2>. QED  BY <1>9, <1>10, <2>2
<1>12. PICK cut : cut = Cut(rest, length.len)
  OBVIOUS
<1>13. cut \in 0 .. Len(rest)
  <2>1. Cut(rest, length.len) \in Cuts(rest, length.len)
    BY <1>7 DEF Cut
  <2>. QED  BY <1>12, <2>1 DEF Cuts
<1>14. ReadTlv(s).atoms = 1 + length.used + cut
  BY <1>6, <1>7, <1>12 DEF Element
<1>. QED  BY <1>1, <1>3, <1>8, <1>10, <1>11, <1>13, <1>14, SMTT(60)

\* The rest of the data behind the k-th atom.
Rest(data, k) == SubSeq(data, k + 1, Len(data))

LEMMA RestIs ==
    ASSUME NEW data, Row(data), NEW k \in 0 .. Len(data)
    PROVE  /\ Row(Rest(data, k)) /\ Len(Rest(data, k)) = Len(data) - k
           /\ \A i \in 1 .. Len(data) - k : Rest(data, k)[i] = data[k + i]
<1>1. Len(data) \in Nat /\ k + 1 \in Nat
  BY RowIs
<1>2. PICK m \in Nat, n \in Nat : m = k + 1 /\ n = Len(data)
  BY <1>1
<1>3. 1 <= m /\ m <= n + 1 /\ n <= Len(data)
  BY <1>1, <1>2
<1>4. /\ Row(SubSeq(data, m, n)) /\ Len(SubSeq(data, m, n)) = n - m + 1
      /\ \A i \in 1 .. n - m + 1 : SubSeq(data, m, n)[i] = data[m + i - 1]
  BY <1>3, RowSub
<1>5. PICK u : u = Rest(data, k)
  OBVIOUS
<1>6. u = SubSeq(data, m, n)
  BY <1>2, <1>5 DEF Rest
<1>7. n - m + 1 = Len(data) - k /\ \A i \in 1 .. Len(data) - k : m + i - 1 = k + i
  BY <1>1, <1>2
<1>8. /\ Row(u) /\ Len(u) = Len(data) - k
      /\ \A i \in 1 .. Len(data) - k : u[i] = data[k + i]
  BY <1>4, <1>6, <1>7
<1>. QED  BY <1>5, <1>8

\* What Elements computes, from the j-th atom on.
FromOf(f, data, j) == f = [k \in j .. Len(data) |-> Prepend(ReadTlv(Rest(data, k)), k, f)]

\* Behind the k-th atom f and g agree, but that g is a atoms ahead.
Ahead(data, k, f, g, a) == \A i \in k + 1 .. Len(data) : f[i] = g[a + i]

\* The elements at an atom depend on those behind it only.
LEMMA PrependLooksAhead ==
    ASSUME NEW data, Row(data), NEW k \in 0 .. Len(data), NEW f, NEW g, NEW a \in Nat,
           Ahead(data, k, f, g, a), NEW c, c = a + k
    PROVE  Prepend(ReadTlv(Rest(data, k)), k, f) = Prepend(ReadTlv(Rest(data, k)), c, g)
<1>1. Len(data) \in Nat
  BY RowIs
<1>2. PICK e : e = ReadTlv(Rest(data, k))
  OBVIOUS
<1>3. CASE e = None
  BY <1>2, <1>3 DEF Prepend
<1>4. CASE e # None
  <2>1. Row(Rest(data, k)) /\ Len(Rest(data, k)) = Len(data) - k
    BY RestIs
  <2>2. e.atoms \in 1 .. Len(Rest(data, k))
    BY <1>2, <1>4, <2>1, ReadBounds
  <2>3. k + e.atoms \in k + 1 .. Len(data) /\ a + (k + e.atoms) = c + e.atoms
    BY <1>1, <2>1, <2>2
  <2>4. f[k + e.atoms] = g[c + e.atoms]
    BY <2>3 DEF Ahead
  <2>. QED  BY <1>2, <1>4, <2>4 DEF Prepend
<1>. QED  BY <1>3, <1>4

LEMMA FromExists == ASSUME NEW data, Row(data) PROVE \E f : FromOf(f, data, 0)
<1>. DEFINE N == Len(data)
            S == {m \in Nat : m <= N => \E f : FromOf(f, data, N - m)}
<1>1. N \in Nat
  BY RowIs
<1>2. 0 \in S
  <2>. DEFINE f == [k \in N .. N |-> Prepend(ReadTlv(Rest(data, k)), k, <<>>)]
  <2>1. \A k \in N .. N : Prepend(ReadTlv(Rest(data, k)), k, <<>>) = Prepend(ReadTlv(Rest(data, k)), k, f)
    <3>1. Row(Rest(data, N)) /\ Len(Rest(data, N)) = 0
      BY <1>1, RestIs
    <3>2. Rest(data, N) = <<>>
      BY <3>1, RowEmpty
    <3>3. ReadTlv(Rest(data, N)) = None
      BY <3>2 DEF ReadTlv
    <3>4. \A k \in N .. N : k = N
      BY <1>1
    <3>. HIDE DEF f
    <3>. QED  BY <3>3, <3>4 DEF Prepend
  <2>2. f = [k \in N .. N |-> Prepend(ReadTlv(Rest(data, k)), k, f)]
    BY <2>1
  <2>3. N - 0 = N
    BY <1>1
  <2>. HIDE DEF f
  <2>4. FromOf(f, data, N - 0)
    BY <2>2, <2>3 DEF FromOf
  <2>. QED  BY <2>4
<1>3. ASSUME NEW m \in Nat, m \in S PROVE m + 1 \in S
  <2>. SUFFICES ASSUME m + 1 <= N PROVE \E f : FromOf(f, data, N - (m + 1))
    OBVIOUS
  <2>1. PICK f : FromOf(f, data, N - m)
    BY <1>1, <1>3
  <2>a. N - (m + 1) \in Nat /\ N - m = N - (m + 1) + 1 /\ N - (m + 1) \in 0 .. N
    BY <1>1
  <2>2. PICK j \in Nat : j = N - (m + 1) /\ N - m = j + 1 /\ j \in 0 .. N
    BY <2>a
  <2>. DEFINE E(k) == ReadTlv(Rest(data, k))
              h == [k \in j .. N |-> IF k = j THEN Prepend(E(j), j, f) ELSE f[k]]
  <2>3. \A i \in j + 1 .. N : h[i] = f[i] /\ f[i] = Prepend(E(i), i, f)
    <3>1. \A i \in j + 1 .. N : i \in j .. N /\ i # j
      BY <1>1, <2>2
    <3>2. f = [k \in j + 1 .. N |-> Prepend(E(k), k, f)]
      BY <2>1, <2>2 DEF FromOf
    <3>. QED  BY <3>1, <3>2
  <2>4. h[j] = Prepend(E(j), j, f)
    BY <1>1, <2>2
  <2>5. h = [k \in j .. N |-> h[k]]
    OBVIOUS
  <2>. HIDE DEF h
  <2>6. \A k \in j .. N : Prepend(E(k), k, h) = Prepend(E(k), k, f)
    <3>. SUFFICES ASSUME NEW k \in j .. N PROVE Prepend(E(k), k, h) = Prepend(E(k), k, f)
      OBVIOUS
    <3>1. PICK a \in Nat : a = 0
      OBVIOUS
    <3>2. k \in 0 .. N /\ k = a + k /\ \A i \in k + 1 .. N : i \in j + 1 .. N /\ a + i = i
      BY <1>1, <2>2, <3>1
    <3>3. \A i \in k + 1 .. N : h[i] = f[a + i]
      BY <2>3, <3>2
    <3>4. k \in 0 .. Len(data) /\ Ahead(data, k, h, f, a)
      BY <3>2, <3>3 DEF Ahead
    <3>. HIDE DEF N
    <3>. QED  BY <3>2, <3>4, PrependLooksAhead
  <2>7. \A k \in j .. N : h[k] = Prepend(E(k), k, h)
    <3>. SUFFICES ASSUME NEW k \in j .. N PROVE h[k] = Prepend(E(k), k, h)
      OBVIOUS
    <3>1. k = j \/ k \in j + 1 .. N
      BY <1>1, <2>2
    <3>. QED  BY <2>3, <2>4, <2>6, <3>1
  <2>8. FromOf(h, data, j)
    BY <2>5, <2>7 DEF FromOf
  <2>. QED  BY <2>2, <2>8
<1>. HIDE DEF S
<1>4. \A m \in Nat : m \in S
  BY <1>2, <1>3, Induction
<1>5. \E f : FromOf(f, data, N - N)
  BY <1>1, <1>4 DEF S
<1>. QED  BY <1>1, <1>5

LEMMA ElementsFrom ==
    ASSUME NEW data, Row(data)
    PROVE  \E f : FromOf(f, data, 0) /\ Elements(data) = f[0]
<1>. DEFINE f == CHOOSE g : FromOf(g, data, 0)
<1>1. Elements(data) = f[0]
  BY DEF Elements, FromOf, Rest
<1>2. FromOf(f, data, 0)
  BY FromExists
<1>. QED  BY <1>1, <1>2

LEMMA RestOfRest ==
    ASSUME NEW data, Row(data), NEW a \in 0 .. Len(data), NEW k \in 0 .. Len(data) - a
    PROVE  Rest(Rest(data, a), k) = Rest(data, a + k)
<1>1. Len(data) \in Nat
  BY RowIs
<1>2. PICK u : u = Rest(data, a)
  OBVIOUS
<1>3. Row(u) /\ Len(u) = Len(data) - a /\ \A i \in 1 .. Len(data) - a : u[i] = data[a + i]
  BY <1>2, RestIs
<1>4. PICK n \in Nat : n = a + k
  BY <1>1
<1>5. n \in 0 .. Len(data) /\ k \in 0 .. Len(u)
  BY <1>1, <1>3, <1>4
<1>6. PICK v : v = Rest(data, n)
  OBVIOUS
<1>7. Row(v) /\ Len(v) = Len(data) - n /\ \A i \in 1 .. Len(data) - n : v[i] = data[n + i]
  BY <1>5, <1>6, RestIs
<1>8. PICK w : w = Rest(u, k)
  OBVIOUS
<1>9. Row(w) /\ Len(w) = Len(u) - k /\ \A i \in 1 .. Len(u) - k : w[i] = u[k + i]
  BY <1>3, <1>5, <1>8, RestIs, ZenonT(60)
<1>10. Len(w) = Len(v)
  BY <1>1, <1>3, <1>4, <1>7, <1>9
<1>11. ASSUME NEW i \in 1 .. Len(w) PROVE w[i] = v[i]
  <2>1. /\ i \in 1 .. Len(u) - k /\ i \in 1 .. Len(data) - n /\ k + i \in 1 .. Len(data) - a
        /\ a + (k + i) = n + i
    BY <1>1, <1>3, <1>4, <1>9
  <2>. QED  BY <1>3, <1>7, <1>9, <2>1
<1>12. w = v
  BY <1>7, <1>9, <1>10, <1>11, RowsEqual
<1>. QED  BY <1>2, <1>4, <1>6, <1>8, <1>12

\* The elements in what follows an atom are those from the atom on.
LEMMA FromOfRest ==
    ASSUME NEW data, Row(data), NEW a \in 0 .. Len(data), NEW rest, rest = Rest(data, a),
           NEW f, FromOf(f, data, 0), NEW g, FromOf(g, rest, 0)
    PROVE  g[0] = f[a]
<1>. DEFINE N == Len(rest)
            S == {j \in Nat : \A k \in 0 .. N : k + j >= N => g[k] = f[a + k]}
<1>1. Len(data) \in Nat /\ N \in Nat /\ N = Len(data) - a /\ Row(rest)
  <2>1. Len(data) \in Nat /\ Row(rest) /\ Len(rest) = Len(data) - a
    BY RestIs, RowIs
  <2>. QED  BY <2>1
<1>. HIDE DEF N
<1>2. ASSUME NEW k \in 0 .. N, \A i \in k + 1 .. N : g[i] = f[a + i]
      PROVE  g[k] = f[a + k]
  <2>1. k \in 0 .. Len(rest) /\ Ahead(rest, k, g, f, a)
    BY <1>1, <1>2 DEF Ahead, N
  <2>2. PICK c : c = a + k
    OBVIOUS
  <2>3. a \in Nat /\ c \in 0 .. Len(data) /\ k \in 0 .. Len(data) - a
    BY <1>1, <2>2
  <2>4. Prepend(ReadTlv(Rest(rest, k)), k, g) = Prepend(ReadTlv(Rest(rest, k)), c, f)
    BY <1>1, <2>1, <2>2, <2>3, PrependLooksAhead
  <2>5. Rest(rest, k) = Rest(data, c)
    BY <2>2, <2>3, RestOfRest
  <2>6. g[k] = Prepend(ReadTlv(Rest(rest, k)), k, g)
    BY <2>1 DEF FromOf
  <2>7. f[c] = Prepend(ReadTlv(Rest(data, c)), c, f)
    BY <2>3 DEF FromOf
  <2>. QED  BY <2>2, <2>4, <2>5, <2>6, <2>7
<1>3. 0 \in S
  <2>. SUFFICES ASSUME NEW k \in 0 .. N, k + 0 >= N PROVE g[k] = f[a + k]
    OBVIOUS
  <2>1. \A i \in k + 1 .. N : g[i] = f[a + i]
    BY <1>1
  <2>. QED  BY <1>2, <2>1
<1>4. ASSUME NEW j \in Nat, j \in S PROVE j + 1 \in S
  <2>. SUFFICES ASSUME NEW k \in 0 .. N, k + (j + 1) >= N PROVE g[k] = f[a + k]
    OBVIOUS
  <2>1. \A i \in k + 1 .. N : i \in 0 .. N /\ i + j >= N
    BY <1>1
  <2>2. \A i \in k + 1 .. N : g[i] = f[a + i]
    BY <1>4, <2>1
  <2>. QED  BY <1>2, <2>2
<1>. HIDE DEF S
<1>5. N \in S
  BY <1>1, <1>3, <1>4, Induction
<1>6. 0 \in 0 .. N /\ 0 + N >= N /\ a + 0 = a
  BY <1>1
<1>. QED  BY <1>5, <1>6 DEF S

\* The elements of any data are a row.
LEMMA ElementsRow == ASSUME NEW data, Row(data) PROVE Row(Elements(data))
<1>1. PICK f : FromOf(f, data, 0) /\ Elements(data) = f[0]
  BY ElementsFrom
<1>. DEFINE N == Len(data)
            S == {j \in Nat : \A k \in 0 .. N : k + j >= N => Row(f[k])}
<1>2. N \in Nat
  BY RowIs
<1>3. ASSUME NEW k \in 0 .. N, \A i \in k + 1 .. N : Row(f[i]) PROVE Row(f[k])
  <2>1. PICK e : e = ReadTlv(Rest(data, k))
    OBVIOUS
  <2>2. f[k] = Prepend(e, k, f)
    BY <1>1, <2>1 DEF FromOf
  <2>3. CASE e = None
    BY <2>2, <2>3, RowEmpty DEF Prepend
  <2>4. CASE e # None
    <3>1. Row(Rest(data, k)) /\ Len(Rest(data, k)) = N - k
      BY RestIs
    <3>2. e.atoms \in 1 .. Len(Rest(data, k))
      BY <2>1, <2>4, <3>1, ReadBounds
    <3>3. k + e.atoms \in k + 1 .. N
      BY <1>2, <3>1, <3>2
    <3>4. PICK s : s = f[k + e.atoms]
      OBVIOUS
    <3>5. Row(s) /\ f[k] = <<e>> \o s
      BY <1>3, <2>2, <2>4, <3>3, <3>4 DEF Prepend
    <3>. QED  BY <3>5, FirstAndRest
  <2>. QED  BY <2>3, <2>4
<1>. HIDE DEF N
<1>4. 0 \in S
  <2>. SUFFICES ASSUME NEW k \in 0 .. N, k + 0 >= N PROVE Row(f[k])
    OBVIOUS
  <2>1. \A i \in k + 1 .. N : Row(f[i])
    BY <1>2
  <2>. QED  BY <1>3, <2>1
<1>5. ASSUME NEW j \in Nat, j \in S PROVE j + 1 \in S
  <2>. SUFFICES ASSUME NEW k \in 0 .. N, k + (j + 1) >= N PROVE Row(f[k])
    OBVIOUS
  <2>1. \A i \in k + 1 .. N : i \in 0 .. N /\ i + j >= N
    BY <1>2
  <2>2. \A i \in k + 1 .. N : Row(f[i])
    BY <1>5, <2>1
  <2>. QED  BY <1>3, <2>2
<1>. HIDE DEF S
<1>6. N \in S
  BY <1>2, <1>4, <1>5, Induction
<1>7. 0 \in 0 .. N /\ 0 + N >= N
  BY <1>2
<1>8. Row(f[0])
  BY <1>6, <1>7 DEF S
<1>. QED  BY <1>1, <1>8

\* After an element come those of what follows it.
LEMMA ElementsCat ==
    ASSUME NEW head, Row(head), NEW rest, Row(rest), NEW e, e = ReadTlv(head \o rest), e # None,
           e.atoms = Len(head)
    PROVE  Elements(head \o rest) = <<e>> \o Elements(rest)
<1>1. PICK data : data = head \o rest
  OBVIOUS
<1>2. Row(data) /\ Len(data) = Len(head) + Len(rest) /\ Len(head) \in Nat /\ Len(rest) \in Nat
  BY <1>1, RowCat, RowIs
<1>3. PICK f : FromOf(f, data, 0) /\ Elements(data) = f[0]
  BY <1>2, ElementsFrom
<1>4. PICK g : FromOf(g, rest, 0) /\ Elements(rest) = g[0]
  BY ElementsFrom
<1>5. PICK a : a = Len(head)
  OBVIOUS
<1>6. rest = Rest(data, a) /\ a \in 0 .. Len(data) /\ 0 \in 0 .. Len(data) /\ 0 + a = a
  BY <1>1, <1>2, <1>5, CatHalves DEF Rest
<1>7. g[0] = f[a]
  BY <1>2, <1>3, <1>4, <1>6, FromOfRest
<1>8. Rest(data, 0) = data
  <2>1. PICK u : u = Rest(data, 0)
    OBVIOUS
  <2>2. Row(u) /\ Len(u) = Len(data) - 0 /\ \A i \in 1 .. Len(data) - 0 : u[i] = data[0 + i]
    BY <1>2, <1>6, <2>1, RestIs
  <2>3. Len(u) = Len(data) /\ \A i \in 1 .. Len(u) : u[i] = data[i]
    BY <1>2, <2>2
  <2>4. u = data
    BY <1>2, <2>2, <2>3, RowsEqual
  <2>. QED  BY <2>1, <2>4
<1>9. f[0] = Prepend(ReadTlv(Rest(data, 0)), 0, f)
  BY <1>3, <1>6 DEF FromOf
<1>10. f[0] = <<e>> \o f[0 + a]
  BY <1>1, <1>5, <1>8, <1>9 DEF Prepend
<1>. QED  BY <1>1, <1>3, <1>4, <1>6, <1>7, <1>10

LEMMA NoElements == Elements(<<>>) = <<>>
<1>1. Row(<<>>) /\ Len(<<>>) = 0
  BY RowEmpty
<1>2. PICK f : FromOf(f, <<>>, 0) /\ Elements(<<>>) = f[0]
  BY <1>1, ElementsFrom
<1>3. PICK u : u = Rest(<<>>, 0)
  OBVIOUS
<1>4. Row(u) /\ Len(u) = 0 - 0
  BY <1>1, <1>3, RestIs
<1>5. u = <<>>
  BY <1>4, RowEmpty
<1>6. f[0] = Prepend(ReadTlv(u), 0, f)
  BY <1>1, <1>2, <1>3 DEF FromOf
<1>. QED  BY <1>2, <1>5, <1>6 DEF Prepend, ReadTlv

\* The first element of a tag is the first, if it has the tag.
LEMMA TaggedFirst ==
    ASSUME NEW e, NEW s, Row(s), NEW tag
    PROVE  Tagged(<<e>> \o s, tag) = IF e.tag = Context(tag) THEN e.value ELSE Tagged(s, tag)
<1>1. PICK u : u = <<e>> \o s
  OBVIOUS
<1>2. /\ Row(u) /\ Len(u) = 1 + Len(s) /\ u[1] = e /\ DOMAIN u = 1 .. Len(u) /\ DOMAIN s = 1 .. Len(s)
      /\ Len(s) \in Nat
  BY <1>1, FirstAndRest, RowIs
<1>3. \A i \in 1 .. Len(s) : u[i + 1] = s[i]
  <2>1. \A i \in 1 .. Len(s) : (<<e>> \o s)[Len(<<e>>) + i] = s[i]
    BY RowOne, RowCat
  <2>. QED  BY <1>1, <1>2, <2>1, RowOne
<1>. DEFINE F(w) == {i \in DOMAIN w : w[i].tag = Context(tag)}
            Least(w) == CHOOSE i \in F(w) : \A j \in F(w) : i <= j
<1>4. CASE e.tag = Context(tag)
  <2>1. 1 \in F(u) /\ \A j \in F(u) : 1 <= j
    BY <1>2, <1>4
  <2>2. Least(u) \in F(u) /\ \A j \in F(u) : Least(u) <= j
    BY <2>1
  <2>3. Least(u) = 1
    BY <1>2, <2>1, <2>2
  <2>4. F(u) # {}
    BY <2>1
  <2>5. Tagged(u, tag) = u[Least(u)].value
    BY <2>4 DEF Tagged
  <2>. HIDE DEF Least
  <2>. QED  BY <1>1, <1>2, <1>4, <2>3, <2>5
<1>5. CASE e.tag # Context(tag)
  <2>1. F(u) \subseteq Nat /\ F(s) \subseteq Nat
    BY <1>2
  <2>2. \A i \in F(s) : i + 1 \in F(u)
    BY <1>2, <1>3
  <2>3. \A i \in F(u) : i - 1 \in F(s)
    <3>. SUFFICES ASSUME NEW i \in F(u) PROVE i - 1 \in F(s)
      OBVIOUS
    <3>1. i # 1 /\ i \in 1 .. Len(u)
      BY <1>2, <1>5
    <3>2. i - 1 \in 1 .. Len(s) /\ i - 1 + 1 = i
      BY <1>2, <3>1
    <3>3. u[i] = s[i - 1]
      BY <1>3, <3>2
    <3>. QED  BY <1>2, <3>2, <3>3
  <2>4. CASE F(s) = {}
    <3>1. F(u) = {}
      BY <2>3, <2>4
    <3>2. Tagged(u, tag) = None /\ Tagged(s, tag) = None
      BY <2>4, <3>1 DEF Tagged
    <3>. QED  BY <1>1, <1>5, <3>2
  <2>5. CASE F(s) # {}
    <3>1. PICK m \in F(s) : \A j \in F(s) : m <= j
      BY <2>1, <2>5, LeastNumber
    <3>2. Least(s) \in F(s) /\ \A j \in F(s) : Least(s) <= j
      BY <3>1
    <3>3. m + 1 \in F(u) /\ \A j \in F(u) : m + 1 <= j
      <4>1. m + 1 \in F(u)
        BY <2>2
      <4>2. ASSUME NEW j \in F(u) PROVE m + 1 <= j
        <5>1. j - 1 \in F(s) /\ j \in Nat /\ m \in Nat
          BY <2>1, <2>3
        <5>2. m <= j - 1
          BY <3>1, <5>1
        <5>. QED  BY <5>1, <5>2
      <4>. QED  BY <4>1, <4>2
    <3>4. Least(u) \in F(u) /\ \A j \in F(u) : Least(u) <= j
      BY <3>3
    <3>5. Tagged(u, tag) = u[Least(u)].value /\ Tagged(s, tag) = s[Least(s)].value
      BY <2>5, <3>3 DEF Tagged
    <3>6. PICK a, b : a = Least(u) /\ b = Least(s)
      OBVIOUS
    <3>. HIDE DEF Least, F
    <3>7. a = m + 1 /\ b = m
      BY <2>1, <3>1, <3>2, <3>3, <3>4, <3>6
    <3>8. m \in 1 .. Len(s)
      BY <1>2 DEF F
    <3>9. u[m + 1] = s[m]
      BY <1>3, <3>8
    <3>. QED  BY <1>1, <1>5, <3>5, <3>6, <3>7, <3>9
  <2>. QED  BY <2>4, <2>5
<1>. QED  BY <1>4, <1>5

LEMMA TaggedNone == ASSUME NEW tag PROVE Tagged(<<>>, tag) = None
  BY DEF Tagged

-----------------------------------------------------------------------------
(* The fields of a sequence, found again.                                    *)

LEMMA FindNone == ASSUME NEW tag PROVE FindContextTag(<<>>, tag) = None
  BY NoElements, TaggedNone DEF FindContextTag

LEMMA FindFirst ==
    ASSUME NoneIsApart, NEW t, NEW n \in Nat, n < Limit, NEW c, Small(c, n), NEW rest, IsOctets(rest), NEW tag
    PROVE  FindContextTag(EncodeTlv(t, c) \o rest, tag)
              = IF t = Context(tag) THEN c ELSE FindContextTag(rest, tag)
<1>1. PICK e : e = [tag |-> t, value |-> c, atoms |-> Len(Opening(t, c)) + Len(c)]
  OBVIOUS
<1>2. PICK head : head = EncodeTlv(t, c)
  OBVIOUS
<1>3. ReadTlv(head \o rest) = e /\ e # None /\ e.tag = t /\ e.value = c
  BY <1>1, <1>2, ReadEncoded, ElementIsSome
<1>4. IsOctets(c)
  BY DEF Small
<1>5. head = Opening(t, c) \o c /\ IsOctets(Opening(t, c))
  BY <1>2, TlvIs
<1>6. IsOctets(head) /\ Len(head) = Len(Opening(t, c)) + Len(c)
  BY <1>4, <1>5, OctetsCat
<1>7. e.atoms = Len(head)
  BY <1>1, <1>6
<1>8. PICK es : es = Elements(rest)
  OBVIOUS
<1>9. Elements(head \o rest) = <<e>> \o es /\ Row(es)
  BY <1>3, <1>6, <1>7, <1>8, ElementsCat, ElementsRow, OctetsAre
<1>10. Tagged(<<e>> \o es, tag) = IF e.tag = Context(tag) THEN e.value ELSE Tagged(es, tag)
  BY <1>9, TaggedFirst
<1>. QED  BY <1>2, <1>3, <1>8, <1>9, <1>10 DEF FindContextTag

\* What is in an element, with or without something behind it.
LEMMA InsideEncoded ==
    ASSUME NoneIsApart, NEW t, NEW n \in Nat, n < Limit, NEW c, Small(c, n)
    PROVE  /\ ReadTlv(EncodeTlv(t, c)) # None /\ ReadTlv(EncodeTlv(t, c)).tag = t
           /\ ReadTlv(EncodeTlv(t, c)).value = c
           /\ Inside(EncodeTlv(t, c)) = c /\ Expect(EncodeTlv(t, c), t) = c
<1>1. PICK d : d = EncodeTlv(t, c)
  OBVIOUS
<1>2. Row(d) /\ d # None
  <2>1. Small(d, n + 5)
    BY <1>1, TlvIs
  <2>2. Row(d)
    BY <2>1, OctetsAre DEF Small
  <2>. QED  BY <2>2, RowIsSome
<1>3. PICK e : e = [tag |-> t, value |-> c, atoms |-> Len(Opening(t, c)) + Len(c)]
  OBVIOUS
<1>4. ReadTlv(d \o <<>>) = e
  BY <1>1, <1>3, ReadEncoded, OctetsEmpty
<1>5. ReadTlv(d) = e /\ e # None /\ e.tag = t /\ e.value = c
  BY <1>2, <1>3, <1>4, CatEmpty, ElementIsSome
<1>. QED  BY <1>1, <1>2, <1>5 DEF Inside, Expect, Value, ValueIf

LEMMA OctetStringDecoded ==
    ASSUME NoneIsApart, NEW n \in Nat, n < Limit, NEW c, Small(c, n)
    PROVE  /\ DecodeOctetString(EncodeOctetString(c)) = c /\ EncodeOctetString(c) # None
           /\ Small(EncodeOctetString(c), n + 5)
<1>1. Small(EncodeTlv(OCTETS, c), n + 5)
  BY TlvIs
<1>2. EncodeTlv(OCTETS, c) # None
  BY <1>1, OctetsAre, RowIsSome DEF Small
<1>. QED  BY <1>1, <1>2, InsideEncoded DEF DecodeOctetString, EncodeOctetString

\* A field, if there is one, is found by its tag; a field with another tag is
\* passed over.
LEMMA FindField ==
    ASSUME NoneIsApart, NEW n \in Nat, n + 5 < Limit, NEW c, Small(c, n), NEW t \in Int, NEW rest, IsOctets(rest),
           NEW tag \in Int
    PROVE  FindContextTag(Field(t, c) \o rest, tag)
              = IF t = tag THEN EncodeOctetString(c) ELSE FindContextTag(rest, tag)
<1>1. c # None
  BY OctetsAre, RowIsSome DEF Small
<1>2. n + 5 \in Nat /\ n < Limit
  BY DEF Limit
<1>3. Small(EncodeOctetString(c), n + 5)
  BY <1>2, OctetStringDecoded
<1>4. Context(t) = Context(tag) <=> t = tag
  BY DEF Context
<1>. QED  BY <1>1, <1>2, <1>3, <1>4, FindFirst DEF Field, EncodeContextTag

LEMMA FieldIs ==
    ASSUME NoneIsApart, NEW n \in Nat, n + 5 < Limit, NEW c, Small(c, n), NEW t \in Int
    PROVE  Small(Field(t, c), n + 10)
<1>1. c # None
  BY OctetsAre, RowIsSome DEF Small
<1>2. n + 5 \in Nat /\ n < Limit /\ n + 5 + 5 = n + 10
  BY DEF Limit
<1>3. Small(EncodeOctetString(c), n + 5)
  BY <1>2, OctetStringDecoded
<1>. QED  BY <1>1, <1>2, <1>3, TlvIs DEF Field, EncodeContextTag

LEMMA NoField == ASSUME NEW t PROVE Field(t, None) = <<>>
  BY DEF Field

\* The numbers of the requests, a version or a code.
LEMMA TotalInInt ==
    ASSUME NEW numbers, NEW n \in Nat, \A i \in 1 .. n : numbers[i] \in Int
    PROVE  Total(numbers, n) \in Int
<1>. DEFINE S == {k \in Nat : k <= n => Total(numbers, k) \in Int}
<1>1. \A k \in Nat : Total(numbers, k) = IF k = 0 THEN 0 ELSE Total(numbers, k - 1) + numbers[k]
  BY TotalIs
<1>2. 0 \in S
  BY <1>1
<1>3. ASSUME NEW k \in Nat, k \in S PROVE k + 1 \in S
  <2>1. k + 1 # 0 /\ k + 1 \in Nat /\ k + 1 - 1 = k
    OBVIOUS
  <2>2. Total(numbers, k + 1) = Total(numbers, k) + numbers[k + 1]
    BY <1>1, <2>1
  <2>3. k + 1 <= n => Total(numbers, k) \in Int /\ numbers[k + 1] \in Int
    BY <1>3
  <2>. QED  BY <2>2, <2>3
<1>. HIDE DEF S
<1>4. \A k \in Nat : k \in S
  BY <1>2, <1>3, Induction
<1>. QED  BY <1>4 DEF S

\* Some bytes, one to four.
Figures(value) ==
    Row(value) /\ Len(value) \in 1 .. 4 /\ \A i \in 1 .. Len(value) : value[i][1] = 1 /\ value[i][3] \in Int

LEMMA FiguresMade ==
    ASSUME NEW content \in Seq(Int), Len(content) \in 1 .. 4
    PROVE  Figures([i \in DOMAIN content |-> Byte(content[i])])
<1>. DEFINE value == [i \in 1 .. Len(content) |-> Byte(content[i])]
<1>1. DOMAIN content = 1 .. Len(content) /\ Len(content) \in Nat
  OBVIOUS
<1>2. value = [i \in 1 .. Len(content) |-> value[i]]
  OBVIOUS
<1>3. \A i \in 1 .. Len(content) : value[i][1] = 1 /\ value[i][3] \in Int
  BY DEF Byte
<1>4. [i \in DOMAIN content |-> Byte(content[i])] = value
  BY <1>1
<1>. HIDE DEF value
<1>5. Row(value) /\ Len(value) = Len(content)
  BY <1>1, <1>2, RowMade
<1>6. Figures(value)
  BY <1>3, <1>5 DEF Figures
<1>. QED  BY <1>4, <1>6

LEMMA FiguresAre ==
    ASSUME NEW value, Figures(value)
    PROVE  Small(value, 4)
<1>1. Row(value) /\ Len(value) \in 1 .. 4 /\ \A i \in 1 .. Len(value) : value[i][1] = 1
  BY DEF Figures
<1>2. IsOctets(value) /\ Size(value) = Len(value)
  BY <1>1, BytesSize
<1>. QED  BY <1>1, <1>2 DEF Small

\* The contents of an integer.
LEMMA NumberIs ==
    ASSUME NoneIsApart, NEW value, Figures(value)
    PROVE  Number(value) \in Int
<1>1. PICK n \in 1 .. 4 : n = Len(value)
  BY DEF Figures
<1>2. PICK numbers : numbers = [i \in DOMAIN value |-> value[i][3] * Weights[n - i + 1]]
  OBVIOUS
<1>3. ASSUME NEW i \in 1 .. n PROVE numbers[i] \in Int
  <2>1. i \in DOMAIN value /\ value[i][3] \in Int
    BY <1>1, RowIs DEF Figures
  <2>2. n - i + 1 \in 1 .. 4
    OBVIOUS
  <2>3. PICK w : w = Weights[n - i + 1]
    OBVIOUS
  <2>4. w \in Int
    BY <2>2, <2>3, SMT DEF Weights
  <2>. QED  BY <1>2, <2>1, <2>3, <2>4
<1>4. Total(numbers, n) \in Int
  BY <1>3, TotalInInt
<1>5. value # None
  BY RowIsSome DEF Figures
<1>6. Number(value) = Total(numbers, n)
  BY <1>1, <1>2, <1>5 DEF Number
<1>. QED  BY <1>4, <1>6

LEMMA StartIs ==
    ASSUME NEW bytes, bytes[1] = 0, bytes[2] = 0, NEW filled, filled = {i \in 1 .. 4 : bytes[i] # 0}
    PROVE  (IF filled = {} THEN 4 ELSE CHOOSE i \in filled : \A j \in filled : i <= j) \in 3 .. 4
<1>1. ASSUME NEW i \in filled PROVE i \in 3 .. 4
  <2>1. i \in 1 .. 4 /\ i # 1 /\ i # 2
    OBVIOUS
  <2>. QED  BY <2>1
<1>2. CASE filled # {}
  <2>1. filled \in SUBSET Nat
    BY <1>1
  <2>2. \E m \in filled : \A j \in filled : m <= j
    BY <1>2, <2>1, LeastNumber
  <2>3. (CHOOSE i \in filled : \A j \in filled : i <= j) \in filled
    BY <2>2
  <2>. QED  BY <1>1, <1>2, <2>3
<1>. QED  BY <1>2

LEMMA DigitsAre ==
    ASSUME NEW bytes, bytes[3] \in Int, bytes[4] \in Int, NEW m \in 3 .. 4
    PROVE  SubSeq(bytes, m, 4) \in Seq(Int) /\ Len(SubSeq(bytes, m, 4)) \in 1 .. 2
<1>1. m \in Int /\ 4 \in Int /\ m <= 4 /\ 4 - m + 1 \in 1 .. 2
  OBVIOUS
<1>2. \A i \in m .. 4 : bytes[i] \in Int
  <2>1. \A i \in m .. 4 : i = 3 \/ i = 4
    OBVIOUS
  <2>. QED  BY <2>1
<1>3. SubSeq(bytes, m, 4) \in Seq(Int) /\ Len(SubSeq(bytes, m, 4)) = IF m <= 4 THEN 4 - m + 1 ELSE 0
  BY <1>1, <1>2, SubSeqProperties
<1>. QED  BY <1>1, <1>3

LEMMA WithZero ==
    ASSUME NEW digits \in Seq(Int), Len(digits) \in 1 .. 2
    PROVE  <<0>> \o digits \in Seq(Int) /\ Len(<<0>> \o digits) \in 1 .. 4
<1>1. <<0>> \in Seq(Int) /\ Len(<<0>>) = 1
  OBVIOUS
<1>2. <<0>> \o digits \in Seq(Int) /\ Len(<<0>> \o digits) = Len(<<0>>) + Len(digits)
  BY <1>1, ConcatProperties, Zenon
<1>3. PICK n : n = Len(<<0>> \o digits)
  OBVIOUS
<1>4. n = 1 + Len(digits)
  BY <1>1, <1>2, <1>3, Zenon
<1>5. \A k \in 1 .. 2 : 1 + k \in 1 .. 4
  OBVIOUS
<1>. QED  BY <1>2, <1>3, <1>4, <1>5, Zenon

LEMMA ShortestIs ==
    ASSUME NEW bytes, bytes[1] = 0, bytes[2] = 0, bytes[3] \in Int, bytes[4] \in Int
    PROVE  Shortest(bytes) \in Seq(Int) /\ Len(Shortest(bytes)) \in 1 .. 4
<1>. DEFINE filled == {i \in 1 .. 4 : bytes[i] # 0}
            start  == IF filled = {} THEN 4 ELSE CHOOSE i \in filled : \A j \in filled : i <= j
            digits == SubSeq(bytes, start, 4)
<1>1. Shortest(bytes) = IF digits[1] >= 128 THEN <<0>> \o digits ELSE digits
  BY Zenon DEF Shortest
<1>2. start \in 3 .. 4
  BY StartIs
<1>. HIDE DEF start
<1>3. digits \in Seq(Int) /\ Len(digits) \in 1 .. 2
  BY <1>2, DigitsAre
<1>. HIDE DEF digits
<1>4. Len(digits) \in 1 .. 4
  BY <1>3
<1>. QED  BY <1>1, <1>3, <1>4, WithZero, Zenon

\* Numbers of two bytes.
Words == {w \in Int : 0 <= w /\ w < Word}

LEMMA WordBytes ==
    ASSUME NEW v \in Words
    PROVE  /\ v \div 16777216 = 0 /\ (v \div 65536) % 256 = 0
           /\ (v \div 256) % 256 \in Int /\ v % 256 \in Int
<1>1. v \in Int /\ 0 <= v /\ v < 65536
  <2>1. v \in Int /\ 0 <= v /\ v < Word
    BY Zenon DEF Words
  <2>. QED  BY <2>1, SMT DEF Word
<1>2. v \div 16777216 = 0 /\ v \div 65536 = 0
  BY <1>1, SMT
<1>3. v \div 256 \in Int
  BY <1>1, SMT
<1>4. \A x \in Int : x % 256 \in Int
  BY SMT
<1>. QED  BY <1>1, <1>2, <1>3, <1>4, SMT

LEMMA IntegerIs ==
    ASSUME NoneIsApart, NEW v \in Words
    PROVE  /\ Small(EncodeIntegerValue(v), 9) /\ EncodeIntegerValue(v) # None
           /\ DecodeInteger(EncodeIntegerValue(v)) \in Int
<1>. DEFINE bytes   == <<v \div 16777216, (v \div 65536) % 256, (v \div 256) % 256, v % 256>>
            content == Shortest(bytes)
            value   == [i \in DOMAIN content |-> Byte(content[i])]
<1>1. EncodeIntegerValue(v) = EncodeTlv(INTEGER, value)
  BY SMT DEF EncodeIntegerValue
<1>2. bytes[1] = 0 /\ bytes[2] = 0 /\ bytes[3] \in Int /\ bytes[4] \in Int
  BY WordBytes, SMT
<1>. HIDE DEF bytes
<1>3. content \in Seq(Int) /\ Len(content) \in 1 .. 4
  BY <1>2, ShortestIs
<1>. HIDE DEF content
<1>4. Figures(value)
  BY <1>3, FiguresMade, Zenon
<1>. HIDE DEF value
<1>5. Small(value, 4) /\ Number(value) \in Int
  BY <1>4, FiguresAre, NumberIs
<1>6. PICK n \in Nat : n = 4 /\ n + 5 = 9
  OBVIOUS
<1>7. n < Limit
  BY <1>6, SMT DEF Limit
<1>8. Small(EncodeTlv(INTEGER, value), n + 5) /\ Expect(EncodeTlv(INTEGER, value), INTEGER) = value
  BY <1>5, <1>6, <1>7, TlvIs, InsideEncoded
<1>9. EncodeTlv(INTEGER, value) # None
  BY <1>8, OctetsAre, RowIsSome DEF Small
<1>. QED  BY <1>1, <1>5, <1>6, <1>8, <1>9 DEF DecodeInteger

-----------------------------------------------------------------------------
(* Requests of CredSSP.                                                      *)

\* Data that may be left out.
Optional(d, n) == d = None \/ Small(d, n)

LEMMA OptionalField ==
    ASSUME NoneIsApart, NEW n \in Nat, n + 5 < Limit, NEW c, Optional(c, n), NEW t \in Int
    PROVE  /\ Small(Field(t, c), n + 10)
           /\ DecodeOctetString(IF c = None THEN None ELSE EncodeOctetString(c)) = c
           /\ \A rest : IsOctets(rest) => \A tag \in Int :
                 FindContextTag(Field(t, c) \o rest, tag)
                    = IF t = tag /\ c # None THEN EncodeOctetString(c) ELSE FindContextTag(rest, tag)
<1>1. CASE c = None
  <2>1. Field(t, c) = <<>>
    BY <1>1, NoField
  <2>2. Small(<<>>, n + 10)
    BY OctetsEmpty, SizeIs DEF Small
  <2>3. \A rest : IsOctets(rest) => <<>> \o rest = rest
    BY OctetsAre, CatEmpty
  <2>4. DecodeOctetString(None) = None
    BY DEF DecodeOctetString, Expect
  <2>. QED  BY <1>1, <2>1, <2>2, <2>3, <2>4
<1>2. CASE c # None
  <2>1. Small(c, n)
    BY <1>2 DEF Optional
  <2>2. Small(Field(t, c), n + 10)
    BY <2>1, FieldIs
  <2>3. n < Limit
    BY DEF Limit
  <2>4. DecodeOctetString(EncodeOctetString(c)) = c
    BY <2>1, <2>3, OctetStringDecoded
  <2>5. ASSUME NEW rest, IsOctets(rest), NEW tag \in Int
        PROVE  FindContextTag(Field(t, c) \o rest, tag)
                  = IF t = tag THEN EncodeOctetString(c) ELSE FindContextTag(rest, tag)
    BY <2>1, <2>5, FindField
  <2>. QED  BY <1>2, <2>2, <2>4, <2>5
<1>. QED  BY <1>1, <1>2

\* The fields of a request are those of its contents.
LEMMA RequestFields ==
    ASSUME NoneIsApart, NEW n \in Nat, n < Limit, NEW contents, Small(contents, n)
    PROVE  DecodeTsRequest(EncodeSequence(contents)) = TsRequest([tag \in 0 .. 5 |-> FindContextTag(contents, tag)])
<1>1. Expect(EncodeSequence(contents), SEQUENCE) = contents
  BY InsideEncoded DEF EncodeSequence
<1>2. contents # None
  BY OctetsAre, RowIsSome DEF Small
<1>. QED  BY <1>1, <1>2 DEF DecodeTsRequest, TsFields, FindContextTag

\* What a request is when its fields decode.
LEMMA RequestIs ==
    ASSUME NoneIsApart, NEW at, at = [tag \in 0 .. 5 |-> at[tag]],
           at[0] # None, DecodeInteger(at[0]) \in Int,
           at[4] # None => DecodeInteger(at[4]) \in Int,
           \A tag \in {2, 3, 5} : at[tag] # None => DecodeOctetString(at[tag]) # None
    PROVE  /\ TsRequest(at) # None
           /\ TsRequest(at).negoToken = NegoToken(at[1])
           /\ TsRequest(at).authInfo = DecodeOctetString(at[2])
           /\ TsRequest(at).pubKeyAuth = DecodeOctetString(at[3])
           /\ TsRequest(at).errorCode = DecodeInteger(at[4])
           /\ TsRequest(at).clientNonce = DecodeOctetString(at[5])
<1>1. DecodeInteger(at[0]) # None /\ (at[4] # None => DecodeInteger(at[4]) # None)
  BY DEF NoneIsApart
<1>. DEFINE numbers == [tag \in {0, 4} |-> DecodeInteger(at[tag])]
            octets  == [tag \in {2, 3, 5} |-> DecodeOctetString(at[tag])]
<1>2. \A tag \in {0, 4} : numbers[tag] = DecodeInteger(at[tag])
  OBVIOUS
<1>3. \A tag \in {2, 3, 5} : octets[tag] = DecodeOctetString(at[tag])
  OBVIOUS
<1>4. TsRequest(at) = IF \/ \E tag \in {0, 4} : at[tag] # None /\ numbers[tag] = None
                         \/ \E tag \in {2, 3, 5} : at[tag] # None /\ octets[tag] = None
                      THEN None
                      ELSE [version     |-> IF at[0] = None THEN 2 ELSE numbers[0],
                            negoToken   |-> NegoToken(at[1]),
                            authInfo    |-> octets[2],
                            pubKeyAuth  |-> octets[3],
                            errorCode   |-> numbers[4],
                            clientNonce |-> octets[5]]
  BY DEF TsRequest
<1>. HIDE DEF numbers, octets
<1>5. PICK r : r = [version     |-> IF at[0] = None THEN 2 ELSE numbers[0],
                    negoToken   |-> NegoToken(at[1]),
                    authInfo    |-> octets[2],
                    pubKeyAuth  |-> octets[3],
                    errorCode   |-> numbers[4],
                    clientNonce |-> octets[5]]
  OBVIOUS
<1>6. r # None
  BY <1>5, RequestIsSome, Zenon
<1>7. ~(\E tag \in {0, 4} : at[tag] # None /\ numbers[tag] = None)
  <2>1. ASSUME NEW tag \in {0, 4}, at[tag] # None PROVE numbers[tag] # None
    BY <1>1, <1>2, <2>1
  <2>. QED  BY <2>1
<1>8. ~(\E tag \in {2, 3, 5} : at[tag] # None /\ octets[tag] = None)
  BY <1>3
<1>9. TsRequest(at) = r
  BY <1>4, <1>5, <1>7, <1>8, Zenon
<1>10. /\ r.negoToken = NegoToken(at[1]) /\ r.authInfo = octets[2] /\ r.pubKeyAuth = octets[3]
       /\ r.errorCode = numbers[4] /\ r.clientNonce = octets[5]
  BY <1>5
<1>11. 4 \in {0, 4} /\ 2 \in {2, 3, 5} /\ 3 \in {2, 3, 5} /\ 5 \in {2, 3, 5}
  OBVIOUS
<1>. QED  BY <1>2, <1>3, <1>6, <1>9, <1>10, <1>11, Zenon

\* Five in a row, read from the left or from the right.
FromTheRight(a, b, c, d, e) ==
    \E y4, y3, y2, y1 :
       /\ y4 = e \o <<>> /\ y3 = d \o y4 /\ y2 = c \o y3 /\ y1 = b \o y2
       /\ a \o b \o c \o d \o e = a \o y1
       /\ IsOctets(y1) /\ IsOctets(y2) /\ IsOctets(y3) /\ IsOctets(y4)

LEMMA RightFive ==
    ASSUME NEW a, IsOctets(a), NEW b, IsOctets(b), NEW c, IsOctets(c), NEW d, IsOctets(d), NEW e, IsOctets(e)
    PROVE  FromTheRight(a, b, c, d, e)
<1>0. PICK y4, y3, y2, y1 : y4 = e \o <<>> /\ y3 = d \o y4 /\ y2 = c \o y3 /\ y1 = b \o y2
  OBVIOUS
<1>1. y4 = e /\ IsOctets(y4)
  BY <1>0, OctetsAre, CatEmpty
<1>2. IsOctets(y3)
  BY <1>0, <1>1, OctetsCat
<1>3. IsOctets(y2)
  BY <1>0, <1>2, OctetsCat
<1>4. IsOctets(y1)
  BY <1>0, <1>3, OctetsCat
<1>5. PICK ab, abc : ab = a \o b /\ abc = ab \o c
  OBVIOUS
<1>6. IsOctets(ab)
  BY <1>5, OctetsCat
<1>7. IsOctets(abc)
  BY <1>5, <1>6, OctetsCat
<1>8. /\ Row(a) /\ Row(b) /\ Row(c) /\ Row(d) /\ Row(e) /\ Row(y1) /\ Row(y2) /\ Row(y3) /\ Row(y4)
      /\ Row(ab) /\ Row(abc)
  BY <1>1, <1>2, <1>3, <1>4, <1>6, <1>7, OctetsAre
<1>9. (abc \o d) \o y4 = abc \o (d \o y4)
  <2>1. Row(abc) /\ Row(d) /\ Row(y4)
    BY <1>8
  <2>. QED  BY <2>1, CatAssociative
<1>10. (ab \o c) \o y3 = ab \o (c \o y3)
  <2>1. Row(ab) /\ Row(c) /\ Row(y3)
    BY <1>8
  <2>. QED  BY <2>1, CatAssociative
<1>11. (a \o b) \o y2 = a \o (b \o y2)
  <2>1. Row(a) /\ Row(b) /\ Row(y2)
    BY <1>8
  <2>. QED  BY <2>1, CatAssociative
<1>12. a \o b \o c \o d \o e = a \o y1
  BY <1>0, <1>1, <1>5, <1>9, <1>10, <1>11, Zenon
<1>. QED  BY <1>0, <1>1, <1>2, <1>3, <1>4, <1>12, Zenon DEF FromTheRight

LEMMA TagIs ==
    ASSUME NoneIsApart, NEW t \in Int, NEW n \in Nat, n < Limit, NEW c, Small(c, n)
    PROVE  /\ Small(EncodeContextTag(t, c), n + 5) /\ EncodeContextTag(t, c) # None
           /\ Inside(EncodeContextTag(t, c)) = c
           /\ \A rest : IsOctets(rest) => \A tag \in Int :
                 FindContextTag(EncodeContextTag(t, c) \o rest, tag)
                    = IF t = tag THEN c ELSE FindContextTag(rest, tag)
<1>1. Small(EncodeContextTag(t, c), n + 5)
  BY TlvIs DEF EncodeContextTag
<1>2. EncodeContextTag(t, c) # None
  BY <1>1, OctetsAre, RowIsSome DEF Small
<1>3. Inside(EncodeContextTag(t, c)) = c
  BY InsideEncoded DEF EncodeContextTag
<1>4. ASSUME NEW rest, IsOctets(rest), NEW tag \in Int
      PROVE  FindContextTag(EncodeContextTag(t, c) \o rest, tag)
                = IF t = tag THEN c ELSE FindContextTag(rest, tag)
  <2>1. Context(t) = Context(tag) <=> t = tag
    BY DEF Context
  <2>. QED  BY <1>4, <2>1, FindFirst DEF EncodeContextTag
<1>. QED  BY <1>1, <1>2, <1>3, <1>4

LEMMA SequenceIs ==
    ASSUME NoneIsApart, NEW n \in Nat, n < Limit, NEW c, Small(c, n)
    PROVE  /\ Small(EncodeSequence(c), n + 5) /\ EncodeSequence(c) # None
           /\ Inside(EncodeSequence(c)) = c
<1>1. Small(EncodeSequence(c), n + 5)
  BY TlvIs DEF EncodeSequence
<1>2. EncodeSequence(c) # None
  BY <1>1, OctetsAre, RowIsSome DEF Small
<1>3. Inside(EncodeSequence(c)) = c
  BY InsideEncoded DEF EncodeSequence
<1>. QED  BY <1>1, <1>2, <1>3

\* NegoData with one token in it.
NegoData(token) == EncodeSequence(EncodeSequence(Field(0, token)))

LEMMA NegoDataIs ==
    ASSUME NoneIsApart, NEW n \in Nat, n + 30 < Limit, NEW token, Small(token, n)
    PROVE  /\ Small(NegoData(token), n + 20) /\ NegoData(token) # None
           /\ NegoToken(NegoData(token)) = token
<1>1. PICK m \in Nat : m = n + 10
  OBVIOUS
<1>2. n + 5 < Limit /\ m < Limit /\ m + 5 \in Nat /\ m + 5 < Limit /\ m + 5 + 5 = n + 20 /\ 0 \in Int
  BY <1>1 DEF Limit
<1>3. Optional(token, n) /\ token # None
  BY OctetsAre, RowIsSome DEF Small, Optional
<1>4. PICK f : f = Field(0, token)
  OBVIOUS
<1>5. Small(f, m) /\ IsOctets(f)
  BY <1>1, <1>2, <1>3, <1>4, OptionalField DEF Small
<1>6. DecodeOctetString(EncodeOctetString(token)) = token
  BY <1>2, <1>3, OptionalField
<1>7. FindContextTag(f, 0) = EncodeOctetString(token)
  <2>1. FindContextTag(f \o <<>>, 0) = EncodeOctetString(token)
    BY <1>2, <1>3, <1>4, OctetsEmpty, OptionalField
  <2>2. f \o <<>> = f
    BY <1>5, OctetsAre, CatEmpty
  <2>. QED  BY <2>1, <2>2
<1>8. Small(EncodeSequence(f), m + 5) /\ EncodeSequence(f) # None /\ Inside(EncodeSequence(f)) = f
  BY <1>2, <1>5, SequenceIs
<1>9. PICK s : s = EncodeSequence(f)
  OBVIOUS
<1>10. Small(EncodeSequence(s), m + 5 + 5) /\ EncodeSequence(s) # None /\ Inside(EncodeSequence(s)) = s
  BY <1>2, <1>8, <1>9, SequenceIs
<1>11. NegoData(token) = EncodeSequence(s)
  BY <1>4, <1>9 DEF NegoData
<1>12. f # None
  BY <1>5, OctetsAre, RowIsSome
<1>13. NegoToken(EncodeSequence(s)) = token
  BY <1>6, <1>7, <1>8, <1>9, <1>10, <1>12, Zenon DEF NegoToken, Within
<1>. QED  BY <1>2, <1>10, <1>11, <1>13

\* decode_ts_request reads back what encode_ts_request wrote: the request, with
\* or without each of its parts, whatever their lengths as long as three bytes
\* hold them.
THEOREM RequestDecoded ==
    ASSUME NoneIsApart, NEW v \in Words, NEW n \in Nat, NEW m \in Nat, n + m + 400 < Limit,
           NEW token, Optional(token, n), NEW auth, Optional(auth, m),
           NEW proof, Optional(proof, 64), NEW nonce, Optional(nonce, 64),
           NEW r, r = EncodeTsRequest(v, token, proof, auth, nonce)
    PROVE  /\ Small(r, n + m + 300) /\ r # None
           /\ DecodeTsRequest(r) # None
           /\ DecodeTsRequest(r).negoToken = token
           /\ DecodeTsRequest(r).authInfo = auth
           /\ DecodeTsRequest(r).pubKeyAuth = proof
           /\ DecodeTsRequest(r).errorCode = None
           /\ DecodeTsRequest(r).clientNonce = nonce
<1>1. PICK a, b, c, d, e :
         /\ a = EncodeContextTag(0, EncodeIntegerValue(v))
         /\ b = IF token = None THEN <<>> ELSE EncodeContextTag(1, NegoData(token))
         /\ c = Field(2, auth) /\ d = Field(3, proof) /\ e = Field(5, nonce)
  OBVIOUS
<1>2. PICK contents : contents = a \o b \o c \o d \o e
  OBVIOUS
<1>3. r = EncodeSequence(contents)
  BY <1>1, <1>2, Zenon DEF EncodeTsRequest, NegoData
<1>4. /\ n + 30 < Limit /\ n + 20 \in Nat /\ n + 20 < Limit /\ m + 5 < Limit /\ 64 + 5 < Limit /\ 9 < Limit
      /\ 9 \in Nat /\ 64 \in Nat /\ 0 \in Int /\ 1 \in Int /\ 2 \in Int /\ 3 \in Int /\ 5 \in Int
  BY DEF Limit
<1>5. /\ Small(a, 14)
      /\ \A rest : IsOctets(rest) => \A tag \in Int :
            FindContextTag(a \o rest, tag)
               = IF 0 = tag THEN EncodeIntegerValue(v) ELSE FindContextTag(rest, tag)
  <2>1. Small(EncodeIntegerValue(v), 9) /\ 9 + 5 = 14
    BY IntegerIs
  <2>. QED  BY <1>1, <1>4, <2>1, TagIs
<1>6. /\ Small(b, n + 25)
      /\ \A rest : IsOctets(rest) => \A tag \in Int :
            FindContextTag(b \o rest, tag)
               = IF 1 = tag /\ token # None THEN NegoData(token) ELSE FindContextTag(rest, tag)
  <2>1. CASE token = None
    <3>1. b = <<>>
      BY <1>1, <2>1
    <3>2. Small(<<>>, n + 25)
      BY OctetsEmpty, SizeIs DEF Small
    <3>3. \A rest : IsOctets(rest) => <<>> \o rest = rest
      BY OctetsAre, CatEmpty
    <3>. QED  BY <2>1, <3>1, <3>2, <3>3
  <2>2. CASE token # None
    <3>1. Small(token, n) /\ b = EncodeContextTag(1, NegoData(token))
      BY <1>1, <2>2 DEF Optional
    <3>2. Small(NegoData(token), n + 20) /\ n + 20 + 5 = n + 25
      BY <1>4, <3>1, NegoDataIs
    <3>. QED  BY <1>4, <2>2, <3>1, <3>2, TagIs
  <2>. QED  BY <2>1, <2>2
<1>7. /\ Small(c, m + 10)
      /\ DecodeOctetString(IF auth = None THEN None ELSE EncodeOctetString(auth)) = auth
      /\ \A rest : IsOctets(rest) => \A tag \in Int :
            FindContextTag(c \o rest, tag)
               = IF 2 = tag /\ auth # None THEN EncodeOctetString(auth) ELSE FindContextTag(rest, tag)
  BY <1>1, <1>4, OptionalField
<1>8. /\ Small(d, 64 + 10)
      /\ DecodeOctetString(IF proof = None THEN None ELSE EncodeOctetString(proof)) = proof
      /\ \A rest : IsOctets(rest) => \A tag \in Int :
            FindContextTag(d \o rest, tag)
               = IF 3 = tag /\ proof # None THEN EncodeOctetString(proof) ELSE FindContextTag(rest, tag)
  BY <1>1, <1>4, OptionalField
<1>9. /\ Small(e, 64 + 10)
      /\ DecodeOctetString(IF nonce = None THEN None ELSE EncodeOctetString(nonce)) = nonce
      /\ \A rest : IsOctets(rest) => \A tag \in Int :
            FindContextTag(e \o rest, tag)
               = IF 5 = tag /\ nonce # None THEN EncodeOctetString(nonce) ELSE FindContextTag(rest, tag)
  BY <1>1, <1>4, OptionalField
<1>10. IsOctets(a) /\ IsOctets(b) /\ IsOctets(c) /\ IsOctets(d) /\ IsOctets(e)
  BY <1>5, <1>6, <1>7, <1>8, <1>9 DEF Small
<1>11. PICK y4, y3, y2, y1 :
          /\ y4 = e \o <<>> /\ y3 = d \o y4 /\ y2 = c \o y3 /\ y1 = b \o y2
          /\ a \o b \o c \o d \o e = a \o y1
          /\ IsOctets(y1) /\ IsOctets(y2) /\ IsOctets(y3) /\ IsOctets(y4)
  <2>1. FromTheRight(a, b, c, d, e)
    BY <1>10, RightFive
  <2>. QED  BY <2>1, Zenon DEF FromTheRight
<1>12. contents = a \o y1 /\ IsOctets(y1) /\ IsOctets(y2) /\ IsOctets(y3) /\ IsOctets(y4)
  BY <1>2, <1>11, Zenon
<1>. DEFINE F(tag) == FindContextTag(contents, tag)
            G(there, found) == IF there THEN found ELSE None
<1>13. /\ F(0) = EncodeIntegerValue(v)
       /\ F(1) = IF token # None THEN NegoData(token) ELSE None
       /\ F(2) = IF auth = None THEN None ELSE EncodeOctetString(auth)
       /\ F(3) = IF proof = None THEN None ELSE EncodeOctetString(proof)
       /\ F(4) = None
       /\ F(5) = IF nonce = None THEN None ELSE EncodeOctetString(nonce)
  <2>1. \A tag \in Int : F(tag) = IF 0 = tag THEN EncodeIntegerValue(v) ELSE FindContextTag(y1, tag)
    BY <1>5, <1>12
  <2>2. \A tag \in Int : FindContextTag(y1, tag)
           = IF 1 = tag /\ token # None THEN NegoData(token) ELSE FindContextTag(y2, tag)
    BY <1>6, <1>11, <1>12
  <2>3. \A tag \in Int : FindContextTag(y2, tag)
           = IF 2 = tag /\ auth # None THEN EncodeOctetString(auth) ELSE FindContextTag(y3, tag)
    BY <1>7, <1>11, <1>12
  <2>4. \A tag \in Int : FindContextTag(y3, tag)
           = IF 3 = tag /\ proof # None THEN EncodeOctetString(proof) ELSE FindContextTag(y4, tag)
    BY <1>8, <1>11, <1>12
  <2>5. \A tag \in Int : FindContextTag(y4, tag)
           = IF 5 = tag /\ nonce # None THEN EncodeOctetString(nonce) ELSE FindContextTag(<<>>, tag)
    BY <1>9, <1>11, OctetsEmpty
  <2>6. \A tag : FindContextTag(<<>>, tag) = None
    BY FindNone
  <2>. HIDE DEF F
  <2>7. F(0) = EncodeIntegerValue(v)
    BY <2>1
  <2>8. F(1) = IF token # None THEN NegoData(token) ELSE None
    BY <2>1, <2>2, <2>3, <2>4, <2>5, <2>6
  <2>9. F(2) = IF auth = None THEN None ELSE EncodeOctetString(auth)
    BY <2>1, <2>2, <2>3, <2>4, <2>5, <2>6
  <2>10. F(3) = IF proof = None THEN None ELSE EncodeOctetString(proof)
    BY <2>1, <2>2, <2>3, <2>4, <2>5, <2>6
  <2>11. F(4) = None
    BY <2>1, <2>2, <2>3, <2>4, <2>5, <2>6
  <2>12. F(5) = IF nonce = None THEN None ELSE EncodeOctetString(nonce)
    BY <2>1, <2>2, <2>3, <2>4, <2>5, <2>6
  <2>. QED  BY <2>7, <2>8, <2>9, <2>10, <2>11, <2>12
<1>14. PICK z \in Nat : z = n + m + 200
  OBVIOUS
<1>15. Small(contents, z)
  <2>1. \A x, y : \A i, j \in Nat : Small(x, i) /\ Small(y, j) => Small(x \o y, i + j)
    BY SmallCat
  <2>2. Small(a \o b, 14 + (n + 25))
    BY <1>5, <1>6, <2>1
  <2>3. Small(a \o b \o c, 14 + (n + 25) + (m + 10))
    <3>1. 14 + (n + 25) \in Nat /\ m + 10 \in Nat
      OBVIOUS
    <3>. QED  BY <1>7, <2>1, <2>2, <3>1
  <2>4. Small(a \o b \o c \o d, 14 + (n + 25) + (m + 10) + (64 + 10))
    <3>1. 14 + (n + 25) + (m + 10) \in Nat /\ 64 + 10 \in Nat
      OBVIOUS
    <3>. QED  BY <1>8, <2>1, <2>3, <3>1
  <2>5. Small(contents, 14 + (n + 25) + (m + 10) + (64 + 10) + (64 + 10))
    <3>1. 14 + (n + 25) + (m + 10) + (64 + 10) \in Nat /\ 64 + 10 \in Nat
      OBVIOUS
    <3>. QED  BY <1>2, <1>9, <2>1, <2>4, <3>1
  <2>6. PICK w \in Nat : w = 14 + (n + 25) + (m + 10) + (64 + 10) + (64 + 10)
    OBVIOUS
  <2>7. Small(contents, w) /\ w <= z
    BY <1>14, <2>5, <2>6
  <2>. QED  BY <2>7, SmallIsSmaller
<1>16. z < Limit /\ z + 5 <= n + m + 300 /\ z + 5 \in Nat /\ n + m + 300 \in Nat
  BY <1>14, SMT DEF Limit
<1>17. Small(r, n + m + 300) /\ r # None
  BY <1>3, <1>15, <1>16, SequenceIs, SmallIsSmaller
<1>18. PICK at : at = [tag \in 0 .. 5 |-> F(tag)]
  OBVIOUS
<1>19. DecodeTsRequest(r) = TsRequest(at)
  BY <1>3, <1>15, <1>16, <1>18, RequestFields
<1>20. at = [tag \in 0 .. 5 |-> at[tag]] /\ \A tag \in 0 .. 5 : at[tag] = F(tag)
  BY <1>18
<1>. HIDE DEF F
<1>21. /\ at[0] = EncodeIntegerValue(v)
       /\ at[1] = IF token # None THEN NegoData(token) ELSE None
       /\ at[2] = IF auth = None THEN None ELSE EncodeOctetString(auth)
       /\ at[3] = IF proof = None THEN None ELSE EncodeOctetString(proof)
       /\ at[4] = None
       /\ at[5] = IF nonce = None THEN None ELSE EncodeOctetString(nonce)
  BY <1>13, <1>20
<1>22. at[0] # None /\ DecodeInteger(at[0]) \in Int
  BY <1>21, IntegerIs
<1>23. /\ DecodeOctetString(at[2]) = auth /\ DecodeOctetString(at[3]) = proof
       /\ DecodeOctetString(at[5]) = nonce
  BY <1>7, <1>8, <1>9, <1>21
<1>24. \A tag \in {2, 3, 5} : at[tag] # None => DecodeOctetString(at[tag]) # None
  BY <1>21, <1>23
<1>25. DecodeInteger(at[4]) = None
  BY <1>21 DEF DecodeInteger, Number, Expect
<1>26. NegoToken(at[1]) = token
  <2>1. CASE token = None
    BY <1>21, <2>1 DEF NegoToken, DecodeOctetString, Within, Inside, Expect
  <2>2. CASE token # None
    <3>1. Small(token, n)
      BY <2>2 DEF Optional
    <3>. QED  BY <1>4, <1>21, <2>2, <3>1, NegoDataIs
  <2>. QED  BY <2>1, <2>2
<1>27. /\ TsRequest(at) # None
       /\ TsRequest(at).negoToken = NegoToken(at[1])
       /\ TsRequest(at).authInfo = DecodeOctetString(at[2])
       /\ TsRequest(at).pubKeyAuth = DecodeOctetString(at[3])
       /\ TsRequest(at).errorCode = DecodeInteger(at[4])
       /\ TsRequest(at).clientNonce = DecodeOctetString(at[5])
  BY <1>20, <1>21, <1>22, <1>24, RequestIs
<1>. QED  BY <1>17, <1>19, <1>23, <1>25, <1>26, <1>27

\* x holds nothing but, under these tags, the value c: what else is looked for is behind it.
Holds(x, tags, c) ==
    \A rest : IsOctets(rest) => \A tag \in Int :
        FindContextTag(x \o rest, tag) = IF tag \in tags THEN c ELSE FindContextTag(rest, tag)

LEMMA TagHolds ==
    ASSUME NoneIsApart, NEW t \in Int, NEW n \in Nat, n < Limit, NEW c, Small(c, n)
    PROVE  Holds(EncodeContextTag(t, c), {t}, c)
  BY TagIs DEF Holds

LEMMA FieldHolds ==
    ASSUME NoneIsApart, NEW t \in Int, NEW n \in Nat, n + 5 < Limit, NEW c, Small(c, n)
    PROVE  /\ Holds(Field(t, c), {t}, EncodeOctetString(c)) /\ Small(Field(t, c), n + 10)
           /\ DecodeOctetString(EncodeOctetString(c)) = c
<1>1. Optional(c, n) /\ c # None
  BY OctetsAre, RowIsSome DEF Small, Optional
<1>2. /\ Small(Field(t, c), n + 10)
      /\ DecodeOctetString(IF c = None THEN None ELSE EncodeOctetString(c)) = c
      /\ \A rest : IsOctets(rest) => \A tag \in Int :
            FindContextTag(Field(t, c) \o rest, tag)
               = IF t = tag /\ c # None THEN EncodeOctetString(c) ELSE FindContextTag(rest, tag)
  BY <1>1, OptionalField
<1>. QED  BY <1>1, <1>2 DEF Holds

LEMMA NothingHolds ==
    ASSUME NEW c
    PROVE  Holds(<<>>, {}, c)
<1>1. ASSUME NEW rest, IsOctets(rest) PROVE <<>> \o rest = rest
  BY <1>1, OctetsAre, CatEmpty
<1>. QED  BY <1>1 DEF Holds

\* Three fields in a row.
InARow(row, a, b, c, ta, tb, tc, va, vb, vc) ==
    /\ row = a \o b \o c /\ IsOctets(a) /\ IsOctets(b) /\ IsOctets(c)
    /\ Holds(a, ta, va) /\ Holds(b, tb, vb) /\ Holds(c, tc, vc)

LEMMA ThreeFields ==
    ASSUME NEW row, NEW a, NEW b, NEW c, NEW ta, NEW tb, NEW tc, NEW va, NEW vb, NEW vc,
           InARow(row, a, b, c, ta, tb, tc, va, vb, vc)
    PROVE  \A tag \in Int : FindContextTag(row, tag)
              = IF tag \in ta THEN va ELSE IF tag \in tb THEN vb ELSE IF tag \in tc THEN vc ELSE None
<1>. TAKE tag \in Int
<1>0. /\ row = a \o b \o c /\ IsOctets(a) /\ IsOctets(b) /\ IsOctets(c)
      /\ Holds(a, ta, va) /\ Holds(b, tb, vb) /\ Holds(c, tc, vc)
  BY Zenon DEF InARow
<1>1. Row(a) /\ Row(b) /\ Row(c) /\ c \o <<>> = c
  BY <1>0, OctetsAre, CatEmpty
<1>2. a \o b \o c = a \o (b \o c)
  BY <1>1, CatAssociative
<1>3. PICK y : y = b \o c
  OBVIOUS
<1>4. IsOctets(y) /\ IsOctets(<<>>)
  BY <1>0, <1>3, OctetsCat, OctetsEmpty
<1>5. FindContextTag(a \o y, tag) = IF tag \in ta THEN va ELSE FindContextTag(y, tag)
  BY <1>0, <1>4, Zenon DEF Holds
<1>6. FindContextTag(b \o c, tag) = IF tag \in tb THEN vb ELSE FindContextTag(c, tag)
  BY <1>0, Zenon DEF Holds
<1>7. FindContextTag(c \o <<>>, tag) = IF tag \in tc THEN vc ELSE FindContextTag(<<>>, tag)
  BY <1>0, <1>4, Zenon DEF Holds
<1>8. FindContextTag(<<>>, tag) = None
  BY FindNone
<1>9. row = a \o y
  BY <1>0, <1>2, <1>3, Zenon
<1>. QED  BY <1>1, <1>3, <1>5, <1>6, <1>7, <1>8, <1>9, Zenon

LEMMA TwoInARow == ASSUME NEW u, NEW v PROVE <<u, v>> = <<u>> \o <<v>>
<1>1. PICK a, b, c, d : a = <<u>> /\ b = <<v>> /\ c = a \o b /\ d = <<u, v>>
  OBVIOUS
<1>2. Row(a) /\ Len(a) = 1 /\ a[1] = u /\ Row(b) /\ Len(b) = 1 /\ b[1] = v
  BY <1>1, RowOne, Zenon
<1>3. Row(c) /\ Len(c) = 2 /\ c[1] = u /\ c[2] = v
  <2>1. /\ Row(c) /\ Len(c) = Len(a) + Len(b)
        /\ \A i \in 1 .. Len(a) : c[i] = a[i]
        /\ \A i \in 1 .. Len(b) : c[Len(a) + i] = b[i]
    <3>1. /\ Row(a \o b) /\ Len(a \o b) = Len(a) + Len(b)
          /\ \A i \in 1 .. Len(a) : (a \o b)[i] = a[i]
          /\ \A i \in 1 .. Len(b) : (a \o b)[Len(a) + i] = b[i]
      <4>1. Row(a) /\ Row(b)
        BY <1>2, Zenon
      <4>. QED  BY <4>1, RowCat
    <3>2. c = a \o b
      BY <1>1, Zenon
    <3>. QED  BY <3>1, <3>2, Zenon
  <2>. QED  BY <1>2, <2>1, SMT
<1>4. Row(d) /\ Len(d) = 2 /\ d[1] = u /\ d[2] = v
  <2>1. <<u, v>> \in Seq({u, v}) /\ Len(<<u, v>>) = 2
    OBVIOUS
  <2>. QED  BY <1>1, <2>1 DEF Row
<1>5. \A i \in 1 .. Len(d) : d[i] = c[i]
  BY <1>3, <1>4, SMT
<1>6. d = c
  BY <1>3, <1>4, <1>5, RowsEqual, Zenon
<1>. QED  BY <1>1, <1>6, Zenon

LEMMA ThreeInARow ==
    ASSUME NEW u, NEW v, NEW x
    PROVE  <<u, v, x>> = <<u>> \o (<<v>> \o <<x>>)
<1>1. PICK a, b, c : a = <<u>> /\ b = <<v>> /\ c = <<x>>
  OBVIOUS
<1>2. Row(a) /\ Row(b) /\ Row(c) /\ Len(a) = 1 /\ Len(b) = 1 /\ Len(c) = 1 /\ a[1] = u /\ b[1] = v /\ c[1] = x
  BY <1>1, RowOne
<1>3. PICK s : s = b \o c
  OBVIOUS
<1>4. Row(s) /\ Len(s) = 2 /\ s[1] = v /\ s[2] = x
  <2>1. /\ Row(b \o c) /\ Len(b \o c) = Len(b) + Len(c)
        /\ \A i \in 1 .. Len(b) : (b \o c)[i] = b[i]
        /\ \A i \in 1 .. Len(c) : (b \o c)[Len(b) + i] = c[i]
    <3>1. Row(b) /\ Row(c)
      BY <1>2
    <3>. QED  BY <3>1, RowCat
  <2>2. Row(s) /\ Len(s) = 1 + 1 /\ s[1] = b[1] /\ s[1 + 1] = c[1]
    BY <1>2, <1>3, <2>1
  <2>. QED  BY <1>2, <2>2
<1>5. PICK t : t = a \o s
  OBVIOUS
<1>6. Row(t) /\ Len(t) = 3 /\ t[1] = u /\ t[2] = v /\ t[3] = x
  <2>1. /\ Row(a \o s) /\ Len(a \o s) = Len(a) + Len(s)
        /\ \A i \in 1 .. Len(a) : (a \o s)[i] = a[i]
        /\ \A i \in 1 .. Len(s) : (a \o s)[Len(a) + i] = s[i]
    <3>1. Row(a) /\ Row(s)
      BY <1>2, <1>4
    <3>. QED  BY <3>1, RowCat
  <2>2. Row(t) /\ Len(t) = 1 + 2 /\ t[1] = a[1] /\ t[1 + 1] = s[1] /\ t[1 + 2] = s[2]
    BY <1>2, <1>4, <1>5, <2>1
  <2>. QED  BY <1>2, <1>4, <2>2
<1>7. <<u, v, x>> \in Seq({u, v, x}) /\ Len(<<u, v, x>>) = 3
  OBVIOUS
<1>8. PICK r : r = <<u, v, x>>
  OBVIOUS
<1>9. Len(r) = 3 /\ r[1] = u /\ r[2] = v /\ r[3] = x
  BY <1>8
<1>10. Row(r)
  BY <1>7, <1>8 DEF Row
<1>11. r = t
  BY <1>6, <1>9, <1>10, RowsEqual
<1>. QED  BY <1>1, <1>3, <1>5, <1>8, <1>11, Zenon

LEMMA ThreeAtoms ==
    ASSUME NEW x, NEW m \in Nat, x[1] \in Nat \ {0}, x[1] <= m, NEW k, NEW n
    PROVE  Small(<<Byte(k), Byte(n), x>>, 2 + m)
<1>1. PICK a, b, c : a = <<Byte(k)>> /\ b = <<Byte(n)>> /\ c = <<x>>
  OBVIOUS
<1>2. Small(a, 1) /\ Small(b, 1) /\ Small(c, m)
  <2>1. Small(<<x>>, x[1])
    BY SmallOne
  <2>. QED  BY <1>1, <2>1, SmallByte, SmallIsSmaller
<1>3. Small(b \o c, 1 + m) /\ 1 + m \in Nat /\ 1 \in Nat
  BY <1>2, SmallCat
<1>4. Small(a \o (b \o c), 1 + (1 + m)) /\ 1 + (1 + m) = 2 + m
  BY <1>2, <1>3, SmallCat
<1>5. <<Byte(k), Byte(n), x>> = <<Byte(k)>> \o (<<Byte(n)>> \o <<x>>)
  BY ThreeInARow
<1>. QED  BY <1>1, <1>4, <1>5, Zenon

LEMMA Oids ==
    /\ Small(SpnegoOid, 8) /\ Small(NtlmOid, 12) /\ Small(MechTypeList, 14)
    /\ SpnegoOid = EncodeTlv(6, <<<<6, "oid", "spnego">>>>)
    /\ Small(<<<<6, "oid", "spnego">>>>, 6) /\ Len(SpnegoOid) = 3
<1>1. PICK s, t : s = <<6, "oid", "spnego">> /\ t = <<10, "oid", "ntlm">>
  OBVIOUS
<1>2. s[1] = 6 /\ t[1] = 10
  BY <1>1
<1>3. Small(<<Byte(6), Byte(6), s>>, 8) /\ Small(<<Byte(6), Byte(10), t>>, 12)
  <2>1. Small(<<Byte(6), Byte(6), s>>, 2 + 6) /\ Small(<<Byte(6), Byte(10), t>>, 2 + 10)
    BY <1>2, ThreeAtoms
  <2>. QED  BY <2>1
<1>4. <<Byte(6), Byte(6), s>> = <<Byte(6)>> \o (<<Byte(6)>> \o <<s>>)
  BY ThreeInARow
<1>5. Small(<<s>>, 6) /\ Size(<<s>>) = 6
  BY <1>2, SmallOne, SizeOfOne
<1>6. SpnegoOid = <<Byte(6), Byte(6), s>> /\ NtlmOid = <<Byte(6), Byte(10), t>>
  BY <1>1, Zenon DEF SpnegoOid, NtlmOid
<1>7. EncodeTlv(6, <<s>>) = <<Byte(6)>> \o (<<Byte(6)>> \o <<s>>)
  <2>1. EncodeLength(6) = <<Byte(6)>>
    BY DEF EncodeLength
  <2>2. (<<Byte(6)>> \o <<Byte(6)>>) \o <<s>> = <<Byte(6)>> \o (<<Byte(6)>> \o <<s>>)
    BY RowOne, CatAssociative
  <2>. QED  BY <1>5, <2>1, <2>2, Zenon DEF EncodeTlv
<1>8. Small(MechTypeList, 14)
  <2>1. <<Byte(48), Byte(12)>> = <<Byte(48)>> \o <<Byte(12)>>
    OBVIOUS
  <2>2. Small(<<Byte(48)>> \o <<Byte(12)>>, 1 + 1)
    BY SmallByte, SmallCat
  <2>3. Small(NtlmOid, 12) /\ 2 \in Nat /\ 12 \in Nat /\ 1 + 1 = 2 /\ 2 + 12 = 14
    BY <1>3, <1>6
  <2>. QED  BY <2>1, <2>2, <2>3, SmallCat DEF MechTypeList
<1>9. Len(<<Byte(6), Byte(6), s>>) = 3
  OBVIOUS
<1>. QED  BY <1>1, <1>3, <1>4, <1>5, <1>6, <1>7, <1>8, <1>9, Zenon

\* What a NegTokenInit or a NegTokenResp holds is in a sequence: the token under 2, a MIC under 3.
LEMMA TokenInside ==
    ASSUME NoneIsApart, NEW n \in Nat, n < Limit, NEW c, Small(c, n), NEW neg, neg = EncodeSequence(c),
           NEW token, NEW m \in Nat, m < Limit, Small(token, m), FindContextTag(c, 2) = EncodeOctetString(token)
    PROVE  /\ DecodeOctetString(Within(Inside(neg), 2)) = token /\ Small(neg, n + 5) /\ neg # None
           /\ Within(Inside(neg), 3) = FindContextTag(c, 3)
<1>1. Small(EncodeSequence(c), n + 5) /\ EncodeSequence(c) # None /\ Inside(EncodeSequence(c)) = c
  BY SequenceIs
<1>2. c # None /\ DecodeOctetString(EncodeOctetString(token)) = token
  BY OctetsAre, RowIsSome, OctetStringDecoded DEF Small
<1>. QED  BY <1>1, <1>2, Zenon DEF Within

\* Three fields of a sequence whose sizes add up.
LEMMA SmallThree ==
    ASSUME NEW a, NEW i \in Nat, Small(a, i), NEW b, NEW j \in Nat, Small(b, j), NEW c, NEW k \in Nat, Small(c, k),
           NEW n \in Nat, i + j + k <= n
    PROVE  IsOctets(a) /\ IsOctets(b) /\ IsOctets(c) /\ Small(a \o b \o c, n)
<1>1. Small(a \o b, i + j) /\ i + j \in Nat
  BY SmallCat
<1>2. Small(a \o b \o c, i + j + k) /\ i + j + k \in Nat
  BY <1>1, SmallCat
<1>. QED  BY <1>2, SmallIsSmaller DEF Small

\* A token is read from an answer of the client as it was written, and so is the MIC beside it.
LEMMA ResponseDecoded ==
    ASSUME NoneIsApart, NEW n \in Nat, n + 300 < Limit, NEW token, Small(token, n), NEW mic, Small(mic, 64),
           NEW x, x = EncodeSpnegoResponse(token, mic)
    PROVE  /\ Small(x, n + 200) /\ x # None /\ DecodeSpnegoToken(x) = token
           /\ DecodeOctetString(Within(Inside(Inside(x)), 3)) = mic
<1>1. PICK state : state = <<Byte(10), Byte(1), Byte(1)>>
  OBVIOUS
<1>2. PICK a, b, c, row, neg :
         /\ a = EncodeContextTag(0, state) /\ b = Field(2, token) /\ c = Field(3, mic)
         /\ row = a \o b \o c /\ neg = EncodeSequence(row)
  OBVIOUS
<1>3. /\ n + 5 < Limit /\ n < Limit /\ 3 < Limit /\ 64 + 5 < Limit /\ n + 100 < Limit /\ n + 105 < Limit
      /\ 0 \in Int /\ 1 \in Int /\ 2 \in Int /\ 3 \in Int /\ 3 \in Nat /\ 64 \in Nat /\ 3 + 5 \in Nat /\ 64 + 10 \in Nat
      /\ n + 10 \in Nat /\ n + 100 \in Nat /\ n + 105 \in Nat /\ n + 110 \in Nat /\ n + 200 \in Nat
      /\ (3 + 5) + (n + 10) + (64 + 10) <= n + 100 /\ n + 100 + 5 = n + 105 /\ n + 105 + 5 = n + 110
      /\ n + 110 <= n + 200
  BY DEF Limit
<1>4. Small(state, 3)
  <2>1. Byte(1)[1] \in Nat \ {0} /\ Byte(1)[1] <= 1
    BY DEF Byte
  <2>2. Small(<<Byte(10), Byte(1), Byte(1)>>, 2 + 1) /\ 2 + 1 = 3
    BY <2>1, ThreeAtoms
  <2>. QED  BY <1>1, <2>2
<1>5. Small(a, 3 + 5) /\ Holds(a, {0}, state)
  BY <1>2, <1>3, <1>4, TagIs, TagHolds
<1>6. Small(b, n + 10) /\ Holds(b, {2}, EncodeOctetString(token))
  BY <1>2, <1>3, FieldHolds
<1>7. /\ Small(c, 64 + 10) /\ Holds(c, {3}, EncodeOctetString(mic))
      /\ DecodeOctetString(EncodeOctetString(mic)) = mic
  BY <1>2, <1>3, FieldHolds, ZenonT(60)
<1>8. IsOctets(a) /\ IsOctets(b) /\ IsOctets(c) /\ Small(row, n + 100)
  BY <1>2, <1>3, <1>5, <1>6, <1>7, SmallThree
<1>9. \A tag \in Int : FindContextTag(row, tag)
         = IF tag \in {0} THEN state ELSE IF tag \in {2} THEN EncodeOctetString(token)
           ELSE IF tag \in {3} THEN EncodeOctetString(mic) ELSE None
  <2>1. InARow(row, a, b, c, {0}, {2}, {3}, state, EncodeOctetString(token), EncodeOctetString(mic))
    BY <1>2, <1>5, <1>6, <1>7, <1>8, Zenon DEF InARow
  <2>. QED  BY <2>1, ThreeFields
<1>10. FindContextTag(row, 2) = EncodeOctetString(token) /\ FindContextTag(row, 3) = EncodeOctetString(mic)
  BY <1>3, <1>9
<1>11. /\ DecodeOctetString(Within(Inside(neg), 2)) = token /\ Small(neg, n + 105) /\ neg # None
       /\ Within(Inside(neg), 3) = FindContextTag(row, 3)
  BY <1>2, <1>3, <1>8, <1>10, TokenInside
<1>12. x = EncodeTlv(Context(1), neg)
  BY <1>1, <1>2, Zenon DEF EncodeSpnegoResponse, EncodeContextTag
<1>13. /\ ReadTlv(x) # None /\ ReadTlv(x).tag = Context(1) /\ ReadTlv(x).value = neg /\ Inside(x) = neg
       /\ Small(x, n + 110) /\ x # None
  <2>1. Small(EncodeTlv(Context(1), neg), n + 105 + 5)
    BY <1>3, <1>11, TlvIs
  <2>2. EncodeTlv(Context(1), neg) # None
    BY <2>1, OctetsAre, RowIsSome DEF Small
  <2>3. /\ ReadTlv(EncodeTlv(Context(1), neg)) # None /\ ReadTlv(EncodeTlv(Context(1), neg)).tag = Context(1)
        /\ ReadTlv(EncodeTlv(Context(1), neg)).value = neg /\ Inside(EncodeTlv(Context(1), neg)) = neg
    BY <1>3, <1>11, InsideEncoded
  <2>. QED  BY <1>3, <1>12, <2>1, <2>2, <2>3, Zenon
<1>14. DecodeSpnegoToken(x) = token
  BY <1>11, <1>13, Zenon DEF DecodeSpnegoToken, SpnegoToken
<1>15. DecodeOctetString(Within(Inside(Inside(x)), 3)) = mic
  BY <1>7, <1>10, <1>11, <1>13, Zenon
<1>16. Small(x, n + 200)
  BY <1>3, <1>13, SmallIsSmaller
<1>. QED  BY <1>13, <1>14, <1>15, <1>16

\* The same of an answer of the server.
LEMMA AnswerDecoded ==
    ASSUME NoneIsApart, NEW n \in Nat, n + 300 < Limit, NEW token, Small(token, n),
           NEW x, x = NegTokenResp(token)
    PROVE  Small(x, n + 200) /\ x # None /\ DecodeSpnegoToken(x) = token
<1>1. PICK state : state = <<Byte(10), Byte(1), Byte(1)>>
  OBVIOUS
<1>2. PICK a, b, c, row, neg :
         /\ a = EncodeContextTag(0, state) /\ b = EncodeContextTag(1, NtlmOid) /\ c = Field(2, token)
         /\ row = a \o b \o c /\ neg = EncodeSequence(row)
  OBVIOUS
<1>3. /\ n + 5 < Limit /\ n < Limit /\ 3 < Limit /\ 12 < Limit /\ n + 100 < Limit /\ n + 105 < Limit
      /\ 0 \in Int /\ 1 \in Int /\ 2 \in Int /\ 3 \in Nat /\ 12 \in Nat /\ 3 + 5 \in Nat /\ 12 + 5 \in Nat
      /\ n + 10 \in Nat /\ n + 100 \in Nat /\ n + 105 \in Nat /\ n + 110 \in Nat /\ n + 200 \in Nat
      /\ (3 + 5) + (12 + 5) + (n + 10) <= n + 100 /\ n + 100 + 5 = n + 105 /\ n + 105 + 5 = n + 110
      /\ n + 110 <= n + 200
  BY DEF Limit
<1>4. Small(state, 3)
  <2>1. Byte(1)[1] \in Nat \ {0} /\ Byte(1)[1] <= 1
    BY DEF Byte
  <2>2. Small(<<Byte(10), Byte(1), Byte(1)>>, 2 + 1) /\ 2 + 1 = 3
    BY <2>1, ThreeAtoms
  <2>. QED  BY <1>1, <2>2
<1>5. Small(a, 3 + 5) /\ Holds(a, {0}, state)
  BY <1>2, <1>3, <1>4, TagIs, TagHolds
<1>6. Small(b, 12 + 5) /\ Holds(b, {1}, NtlmOid)
  <2>1. Small(NtlmOid, 12)
    BY Oids
  <2>. QED  BY <1>2, <1>3, <2>1, TagIs, TagHolds
<1>7. Small(c, n + 10) /\ Holds(c, {2}, EncodeOctetString(token))
  BY <1>2, <1>3, FieldHolds, ZenonT(60)
<1>8. IsOctets(a) /\ IsOctets(b) /\ IsOctets(c) /\ Small(row, n + 100)
  BY <1>2, <1>3, <1>5, <1>6, <1>7, SmallThree
<1>9. \A tag \in Int : FindContextTag(row, tag)
         = IF tag \in {0} THEN state ELSE IF tag \in {1} THEN NtlmOid
           ELSE IF tag \in {2} THEN EncodeOctetString(token) ELSE None
  <2>1. InARow(row, a, b, c, {0}, {1}, {2}, state, NtlmOid, EncodeOctetString(token))
    BY <1>2, <1>5, <1>6, <1>7, <1>8, Zenon DEF InARow
  <2>. QED  BY <2>1, ThreeFields
<1>10. FindContextTag(row, 2) = EncodeOctetString(token)
  BY <1>3, <1>9
<1>11. DecodeOctetString(Within(Inside(neg), 2)) = token /\ Small(neg, n + 105)
  BY <1>2, <1>3, <1>8, <1>10, TokenInside
<1>12. x = EncodeTlv(Context(1), neg)
  BY <1>1, <1>2, Zenon DEF NegTokenResp, EncodeContextTag
<1>13. /\ ReadTlv(x) # None /\ ReadTlv(x).tag = Context(1) /\ ReadTlv(x).value = neg
       /\ Small(x, n + 110) /\ x # None
  <2>1. Small(EncodeTlv(Context(1), neg), n + 105 + 5)
    BY <1>3, <1>11, TlvIs, ZenonT(60)
  <2>2. EncodeTlv(Context(1), neg) # None
    BY <2>1, OctetsAre, RowIsSome DEF Small
  <2>3. /\ ReadTlv(EncodeTlv(Context(1), neg)) # None /\ ReadTlv(EncodeTlv(Context(1), neg)).tag = Context(1)
        /\ ReadTlv(EncodeTlv(Context(1), neg)).value = neg
    BY <1>3, <1>11, InsideEncoded
  <2>. QED  BY <1>3, <1>12, <2>1, <2>2, <2>3, Zenon
<1>14. DecodeSpnegoToken(x) = token
  BY <1>11, <1>13, Zenon DEF DecodeSpnegoToken, SpnegoToken
<1>16. Small(x, n + 200)
  BY <1>3, <1>13, SmallIsSmaller
<1>. QED  BY <1>13, <1>14, <1>16

\* The same of the first token, which the OID of SPNEGO precedes.
LEMMA InitDecoded ==
    ASSUME NoneIsApart, NEW n \in Nat, n + 300 < Limit, NEW token, Small(token, n),
           NEW x, x = EncodeSpnegoInit(token)
    PROVE  Small(x, n + 200) /\ x # None /\ DecodeSpnegoToken(x) = token
<1>1. PICK mechs : mechs = EncodeSequence(NtlmOid)
  OBVIOUS
<1>2. PICK a, b, row, neg, y, whole :
         /\ a = EncodeContextTag(0, mechs) /\ b = Field(2, token)
         /\ row = a \o b /\ neg = EncodeSequence(row) /\ y = EncodeContextTag(0, neg)
         /\ whole = SpnegoOid \o y
  OBVIOUS
<1>3. /\ n + 5 < Limit /\ n < Limit /\ 6 < Limit /\ 12 < Limit /\ 17 < Limit /\ n + 100 < Limit /\ n + 105 < Limit
      /\ n + 120 < Limit
      /\ 0 \in Int /\ 2 \in Int /\ 6 \in Nat /\ 8 \in Nat /\ 12 \in Nat /\ 17 \in Nat /\ 12 + 5 = 17 /\ 17 + 5 \in Nat
      /\ 0 \in Nat
      /\ n + 10 \in Nat /\ n + 100 \in Nat /\ n + 105 \in Nat /\ n + 110 \in Nat /\ n + 120 \in Nat /\ n + 200 \in Nat
      /\ (17 + 5) + (n + 10) + 0 <= n + 100 /\ n + 100 + 5 = n + 105 /\ n + 105 + 5 = n + 110
      /\ 8 + (n + 110) <= n + 120 /\ 8 + (n + 110) \in Nat /\ n + 120 + 5 <= n + 200 /\ n + 120 + 5 \in Nat
  BY DEF Limit
<1>4. Small(mechs, 17)
  <2>1. Small(NtlmOid, 12)
    BY Oids
  <2>. QED  BY <1>1, <1>3, <2>1, SequenceIs
<1>5. Small(a, 17 + 5) /\ Holds(a, {0}, mechs)
  BY <1>2, <1>3, <1>4, TagIs, TagHolds
<1>6. Small(b, n + 10) /\ Holds(b, {2}, EncodeOctetString(token))
  BY <1>2, <1>3, FieldHolds, ZenonT(60)
<1>7. PICK e : e = <<>>
  OBVIOUS
<1>8. Small(e, 0) /\ Holds(e, {}, None) /\ row = a \o b \o e
  <2>1. Small(<<>>, 0)
    BY OctetsEmpty, SizeIs DEF Small
  <2>2. Row(a) /\ Row(b)
    BY <1>5, <1>6, OctetsAre DEF Small
  <2>3. (a \o b) \o <<>> = a \o b
    BY <2>2, RowCat, CatEmpty
  <2>. QED  BY <1>2, <1>7, <2>1, <2>3, NothingHolds
<1>9. IsOctets(a) /\ IsOctets(b) /\ IsOctets(e) /\ Small(row, n + 100)
  BY <1>3, <1>5, <1>6, <1>8, SmallThree
<1>10. \A tag \in Int : FindContextTag(row, tag)
         = IF tag \in {0} THEN mechs ELSE IF tag \in {2} THEN EncodeOctetString(token)
           ELSE IF tag \in {} THEN None ELSE None
  <2>1. InARow(row, a, b, e, {0}, {2}, {}, mechs, EncodeOctetString(token), None)
    BY <1>5, <1>6, <1>8, <1>9, Zenon DEF InARow
  <2>. QED  BY <2>1, ThreeFields
<1>11. FindContextTag(row, 2) = EncodeOctetString(token)
  BY <1>3, <1>10
<1>12. DecodeOctetString(Within(Inside(neg), 2)) = token /\ Small(neg, n + 105)
  BY <1>2, <1>3, <1>9, <1>11, TokenInside
<1>13. Small(y, n + 110) /\ y # None /\ FindContextTag(y, 0) = neg /\ IsOctets(y)
  <2>1. Small(y, n + 105 + 5) /\ y # None /\ Holds(y, {0}, neg)
    BY <1>2, <1>3, <1>12, TagIs, TagHolds
  <2>2. IsOctets(y) /\ IsOctets(<<>>)
    BY <2>1, OctetsEmpty DEF Small
  <2>3. FindContextTag(y \o <<>>, 0) = neg
    BY <1>3, <2>1, <2>2 DEF Holds
  <2>4. y \o <<>> = y
    BY <2>2, OctetsAre, CatEmpty
  <2>. QED  BY <1>3, <2>1, <2>2, <2>3, <2>4, Zenon
<1>14. PICK spnego : spnego = <<<<6, "oid", "spnego">>>>
  OBVIOUS
<1>15. Small(spnego, 6) /\ SpnegoOid = EncodeTlv(6, spnego) /\ Small(SpnegoOid, 8)
  BY <1>14, Oids, Zenon
<1>16. Small(whole, n + 120)
  <2>1. Small(SpnegoOid \o y, 8 + (n + 110))
    BY <1>3, <1>13, <1>15, SmallCat
  <2>. QED  BY <1>2, <1>3, <2>1, SmallIsSmaller
<1>17. ReadTlv(whole) # None /\ ReadTlv(whole).atoms = Len(SpnegoOid)
  <2>1. ReadTlv(EncodeTlv(6, spnego) \o y)
           = [tag |-> 6, value |-> spnego, atoms |-> Len(Opening(6, spnego)) + Len(spnego)]
    BY <1>3, <1>13, <1>15, ReadEncoded, SMTT(60), ZenonT(60)
  <2>2. EncodeTlv(6, spnego) = Opening(6, spnego) \o spnego /\ IsOctets(Opening(6, spnego)) /\ IsOctets(spnego)
    BY <1>3, <1>15, TlvIs DEF Small
  <2>3. Len(EncodeTlv(6, spnego)) = Len(Opening(6, spnego)) + Len(spnego)
    BY <2>2, OctetsCat
  <2>4. PICK k : k = Len(Opening(6, spnego)) + Len(spnego)
    OBVIOUS
  <2>5. PICK el : el = [tag |-> 6, value |-> spnego, atoms |-> k]
    OBVIOUS
  <2>6. el # None /\ el.atoms = k
    BY <2>5, ElementIsSome, Zenon
  <2>. QED  BY <1>2, <1>15, <2>1, <2>3, <2>4, <2>5, <2>6, Zenon
<1>18. AfterOid(whole, ReadTlv(whole)) = y
  <2>1. IsOctets(SpnegoOid) /\ Row(SpnegoOid) /\ Row(y)
    BY <1>13, <1>15, OctetsAre DEF Small
  <2>2. SubSeq(SpnegoOid \o y, Len(SpnegoOid) + 1, Len(SpnegoOid \o y)) = y
    BY <2>1, CatHalves
  <2>. QED  BY <1>2, <1>17, <2>2, Zenon DEF AfterOid
<1>19. x = EncodeTlv(GSS, whole)
  BY <1>1, <1>2, Zenon DEF EncodeSpnegoInit
<1>20. /\ ReadTlv(x) # None /\ ReadTlv(x).tag = GSS /\ ReadTlv(x).value = whole
       /\ Small(x, n + 120 + 5) /\ x # None
  <2>1. Small(EncodeTlv(GSS, whole), n + 120 + 5)
    BY <1>3, <1>16, TlvIs, ZenonT(60)
  <2>2. EncodeTlv(GSS, whole) # None
    BY <2>1, OctetsAre, RowIsSome DEF Small
  <2>3. /\ ReadTlv(EncodeTlv(GSS, whole)) # None /\ ReadTlv(EncodeTlv(GSS, whole)).tag = GSS
        /\ ReadTlv(EncodeTlv(GSS, whole)).value = whole
    BY <1>3, <1>16, InsideEncoded
  <2>. QED  BY <1>19, <2>1, <2>2, <2>3, Zenon
<1>21. GSS # Context(1)
  BY DEF GSS, Context
<1>22. Within(y, 0) = neg
  BY <1>13, Zenon DEF Within
<1>23. DecodeSpnegoToken(x) = token
  BY <1>12, <1>18, <1>20, <1>21, <1>22, Zenon DEF DecodeSpnegoToken, SpnegoToken
<1>24. Small(x, n + 200)
  BY <1>3, <1>20, SmallIsSmaller
<1>. QED  BY <1>20, <1>23, <1>24

\* What encode_ts_credentials wrote is read as the domain, the user and the
\* password, each whole and none for another, whatever their lengths.
THEOREM CredentialsDecoded ==
    ASSUME NoneIsApart, NEW n \in Nat, n + n + n + 300 < Limit, NEW d, Small(d, n), NEW u, Small(u, n), NEW p, Small(p, n),
           NEW x, x = EncodeTsCredentials(d, u, p)
    PROVE  Small(x, n + n + n + 200) /\ x # None /\ Credentials(x) = <<d, u, p>>
<1>1. PICK a, b, c, row, creds, v, one, e :
         /\ a = Field(0, d) /\ b = Field(1, u) /\ c = Field(2, p)
         /\ row = a \o b \o c /\ creds = EncodeSequence(row)
         /\ v = EncodeContextTag(0, EncodeIntegerValue(1)) /\ one = Field(1, creds) /\ e = <<>>
  OBVIOUS
<1>2. PICK whole : whole = v \o one
  OBVIOUS
<1>3. PICK m \in Nat : m = n + n + n + 30
  OBVIOUS
<1>4. /\ n + 5 < Limit /\ m < Limit /\ m + 5 < Limit /\ m + 5 + 5 < Limit /\ 9 < Limit /\ 1 \in Words
      /\ m + 30 < Limit /\ m + 5 \in Nat /\ m + 5 + 10 \in Nat /\ m + 30 \in Nat /\ m + 30 + 5 <= n + n + n + 200
      /\ m + 30 + 5 \in Nat /\ n + n + n + 200 \in Nat /\ n + 10 \in Nat /\ (n + 10) + (n + 10) + (n + 10) <= m
      /\ 9 \in Nat /\ 9 + 5 \in Nat /\ 0 \in Nat /\ 0 \in Int /\ 1 \in Int /\ 2 \in Int
      /\ (9 + 5) + (m + 5 + 10) + 0 <= m + 30
  BY <1>3, SMT DEF Limit, Words, Word
<1>5. /\ Small(a, n + 10) /\ Holds(a, {0}, EncodeOctetString(d)) /\ DecodeOctetString(EncodeOctetString(d)) = d
      /\ Small(b, n + 10) /\ Holds(b, {1}, EncodeOctetString(u)) /\ DecodeOctetString(EncodeOctetString(u)) = u
      /\ Small(c, n + 10) /\ Holds(c, {2}, EncodeOctetString(p)) /\ DecodeOctetString(EncodeOctetString(p)) = p
  BY <1>1, <1>4, FieldHolds
<1>6. IsOctets(a) /\ IsOctets(b) /\ IsOctets(c) /\ Small(row, m)
  BY <1>1, <1>4, <1>5, SmallThree
<1>7. \A tag \in Int : FindContextTag(row, tag)
         = IF tag \in {0} THEN EncodeOctetString(d) ELSE IF tag \in {1} THEN EncodeOctetString(u)
           ELSE IF tag \in {2} THEN EncodeOctetString(p) ELSE None
  <2>1. InARow(row, a, b, c, {0}, {1}, {2}, EncodeOctetString(d), EncodeOctetString(u), EncodeOctetString(p))
    BY <1>1, <1>5, <1>6, Zenon DEF InARow
  <2>. QED  BY <2>1, ThreeFields
<1>8. /\ FindContextTag(row, 0) = EncodeOctetString(d) /\ FindContextTag(row, 1) = EncodeOctetString(u)
      /\ FindContextTag(row, 2) = EncodeOctetString(p) /\ row # None
  BY <1>4, <1>6, <1>7, OctetsAre, RowIsSome DEF Small
<1>9. Small(creds, m + 5) /\ Inside(creds) = row
  BY <1>1, <1>4, <1>6, SequenceIs
<1>10. Small(v, 9 + 5) /\ Holds(v, {0}, EncodeIntegerValue(1))
  <2>1. Small(EncodeIntegerValue(1), 9)
    BY <1>4, IntegerIs
  <2>. QED  BY <1>1, <1>4, <2>1, TagIs, TagHolds
<1>11. /\ Small(one, m + 5 + 10) /\ Holds(one, {1}, EncodeOctetString(creds))
       /\ DecodeOctetString(EncodeOctetString(creds)) = creds
  BY <1>1, <1>4, <1>9, FieldHolds
<1>12. Small(e, 0) /\ Holds(e, {}, None) /\ whole = v \o one \o e
  <2>1. Small(<<>>, 0)
    BY OctetsEmpty, SizeIs DEF Small
  <2>2. Row(v) /\ Row(one)
    BY <1>10, <1>11, OctetsAre DEF Small
  <2>3. (v \o one) \o <<>> = v \o one
    BY <2>2, RowCat, CatEmpty
  <2>. QED  BY <1>1, <1>2, <2>1, <2>3, NothingHolds
<1>13. IsOctets(v) /\ IsOctets(one) /\ IsOctets(e) /\ Small(whole, m + 30)
  BY <1>4, <1>10, <1>11, <1>12, SmallThree
<1>14. \A tag \in Int : FindContextTag(whole, tag)
         = IF tag \in {0} THEN EncodeIntegerValue(1) ELSE IF tag \in {1} THEN EncodeOctetString(creds)
           ELSE IF tag \in {} THEN None ELSE None
  <2>1. InARow(whole, v, one, e, {0}, {1}, {}, EncodeIntegerValue(1), EncodeOctetString(creds), None)
    BY <1>10, <1>11, <1>12, <1>13, Zenon DEF InARow
  <2>. QED  BY <2>1, ThreeFields
<1>15. FindContextTag(whole, 1) = EncodeOctetString(creds) /\ whole # None
  BY <1>4, <1>13, <1>14, OctetsAre, RowIsSome DEF Small
<1>16. x = EncodeSequence(whole)
  BY <1>1, <1>2, Zenon DEF EncodeTsCredentials
<1>17. Small(x, m + 30 + 5) /\ x # None /\ Inside(x) = whole
  BY <1>4, <1>13, <1>16, SequenceIs
<1>18. Inside(DecodeOctetString(Within(Inside(x), 1))) = row
  BY <1>9, <1>11, <1>15, <1>17, Zenon DEF Within
<1>. DEFINE T(i) == Text(DecodeOctetString(Within(row, i - 1)))
<1>19. Credentials(x) = [i \in 1 .. 3 |-> T(i)]
  BY <1>18, Zenon DEF Credentials
<1>20. d # None /\ u # None /\ p # None
  BY OctetsAre, RowIsSome DEF Small
<1>21. T(1) = d /\ T(2) = u /\ T(3) = p
  <2>1. Text(DecodeOctetString(Within(row, 0))) = d
    BY <1>5, <1>8, <1>20, Zenon DEF Within, Text
  <2>2. Text(DecodeOctetString(Within(row, 1))) = u
    BY <1>5, <1>8, <1>20, Zenon DEF Within, Text
  <2>3. Text(DecodeOctetString(Within(row, 2))) = p
    BY <1>5, <1>8, <1>20, Zenon DEF Within, Text
  <2>4. 1 - 1 = 0 /\ 2 - 1 = 1 /\ 3 - 1 = 2
    OBVIOUS
  <2>. QED  BY <2>1, <2>2, <2>3, <2>4
<1>. HIDE DEF T
<1>22. [i \in 1 .. 3 |-> T(i)] = <<T(1), T(2), T(3)>>
  OBVIOUS
<1>23. Small(x, n + n + n + 200)
  BY <1>4, <1>17, SmallIsSmaller
<1>. QED  BY <1>17, <1>19, <1>21, <1>22, <1>23, Zenon

\* An error is read as one.
LEMMA ErrorDecoded ==
    ASSUME NoneIsApart, NEW v \in Words, NEW w \in Words,
           NEW r, r = EncodeSequence(EncodeContextTag(0, EncodeIntegerValue(v)) \o EncodeContextTag(4, EncodeIntegerValue(w)))
    PROVE  r # None /\ DecodeTsRequest(r) # None /\ DecodeTsRequest(r).errorCode # None
<1>1. PICK a, b, e, vi, wi, row :
         /\ vi = EncodeIntegerValue(v) /\ wi = EncodeIntegerValue(w)
         /\ a = EncodeContextTag(0, vi) /\ b = EncodeContextTag(4, wi) /\ e = <<>> /\ row = a \o b
  OBVIOUS
<1>2. /\ 9 < Limit /\ 100 < Limit /\ 9 \in Nat /\ 9 + 5 \in Nat /\ 0 \in Nat /\ 100 \in Nat /\ (9 + 5) + (9 + 5) + 0 <= 100
      /\ 0 \in Int /\ 1 \in Int /\ 2 \in Int /\ 3 \in Int /\ 4 \in Int /\ 5 \in Int
  BY DEF Limit
<1>3. /\ Small(vi, 9) /\ vi # None /\ DecodeInteger(vi) \in Int
      /\ Small(wi, 9) /\ wi # None /\ DecodeInteger(wi) \in Int
  BY <1>1, IntegerIs
<1>4. Small(a, 9 + 5) /\ Holds(a, {0}, vi) /\ Small(b, 9 + 5) /\ Holds(b, {4}, wi)
  BY <1>1, <1>2, <1>3, TagIs, TagHolds
<1>5. Small(e, 0) /\ Holds(e, {}, None) /\ row = a \o b \o e
  <2>1. Small(<<>>, 0)
    BY OctetsEmpty, SizeIs DEF Small
  <2>2. Row(a) /\ Row(b)
    BY <1>4, OctetsAre DEF Small
  <2>3. (a \o b) \o <<>> = a \o b
    BY <2>2, RowCat, CatEmpty
  <2>. QED  BY <1>1, <2>1, <2>3, NothingHolds
<1>6. IsOctets(a) /\ IsOctets(b) /\ IsOctets(e) /\ Small(row, 100)
  BY <1>2, <1>4, <1>5, SmallThree
<1>. DEFINE F(tag) == FindContextTag(row, tag)
<1>7. \A tag \in Int : F(tag)
         = IF tag \in {0} THEN vi ELSE IF tag \in {4} THEN wi ELSE IF tag \in {} THEN None ELSE None
  <2>1. InARow(row, a, b, e, {0}, {4}, {}, vi, wi, None)
    BY <1>4, <1>5, <1>6, Zenon DEF InARow
  <2>. QED  BY <2>1, ThreeFields
<1>8. r = EncodeSequence(row)
  BY <1>1, Zenon
<1>9. r # None
  BY <1>2, <1>6, <1>8, SequenceIs
<1>10. PICK at : at = [tag \in 0 .. 5 |-> F(tag)]
  OBVIOUS
<1>11. DecodeTsRequest(r) = TsRequest(at)
  BY <1>2, <1>6, <1>8, <1>10, RequestFields
<1>. HIDE DEF F
<1>12. at = [tag \in 0 .. 5 |-> at[tag]] /\ \A tag \in 0 .. 5 : at[tag] = F(tag)
  BY <1>10
<1>13. at[0] = vi /\ at[4] = wi /\ at[2] = None /\ at[3] = None /\ at[5] = None
  BY <1>7, <1>12
<1>14. /\ at[0] # None /\ DecodeInteger(at[0]) \in Int /\ at[4] # None => DecodeInteger(at[4]) \in Int
       /\ \A tag \in {2, 3, 5} : at[tag] # None => DecodeOctetString(at[tag]) # None
  BY <1>3, <1>13
<1>15. TsRequest(at) # None /\ TsRequest(at).errorCode = DecodeInteger(at[4])
  BY <1>12, <1>14, <1>3, <1>13, RequestIs
<1>16. DecodeInteger(wi) # None
  BY <1>3 DEF NoneIsApart
<1>. QED  BY <1>9, <1>11, <1>13, <1>15, <1>16

-----------------------------------------------------------------------------
(* Messages.                                                                 *)

\* Bounds: of a text and of a message.
Longest  == 2097152
Message  == Longest + Longest + Longest + Word + Word

LEMMA Bounds ==
    /\ Longest \in Nat /\ Word \in Nat /\ Message \in Nat
    /\ Message + 64 + 1000 < Limit /\ Message + 300 < Limit /\ Message + 1000 < Limit /\ 1000 \in Nat
    /\ Message = Longest + Longest + Longest + Word + Word
    /\ 1000 < Word /\ Message + 200 \in Nat
    /\ Longest + Longest + Longest + 1000 < Limit
  BY SMT DEF Longest, Word, Message, Limit

LEMMA TextIs ==
    ASSUME NEW text \in DOMAIN Lengths
    PROVE  Small(Utf16(text), Longest) /\ Size(Utf16(text)) = 2 * Lengths[text] /\ Lengths[text] \in Nat
<1>0. PICK n : n = Lengths[text] /\ n \in 0 .. LongestText
  BY LengthsAssumption, Zenon
<1>1. n = Lengths[text] /\ n \in Nat /\ 2 * n <= Longest
  <2>1. LongestText \in Nat /\ LongestText + LongestText <= Longest /\ Longest \in Nat
    BY SMT DEF Longest, LongestText
  <2>. QED  BY <1>0, <2>1
<1>2. CASE n = 0
  <2>1. Utf16(text) = <<>>
    BY <1>1, <1>2 DEF Utf16
  <2>2. Size(<<>>) = 0 /\ IsOctets(<<>>)
    BY OctetsEmpty, SizeIs
  <2>. QED  BY <1>1, <1>2, <2>1, <2>2 DEF Small
<1>3. CASE n # 0
  <2>1. PICK x : x = <<2 * n, "text", text>>
    OBVIOUS
  <2>2. x[1] = 2 * n /\ 2 * n \in Nat \ {0}
    BY <1>1, <1>3, <2>1
  <2>3. Utf16(text) = <<x>>
    BY <1>1, <1>3, <2>1 DEF Utf16
  <2>4. Small(<<x>>, 2 * n) /\ Size(<<x>>) = 2 * n
    BY <2>2, SmallOne, SizeOfOne
  <2>. QED  BY <1>1, <2>2, <2>3, <2>4, Bounds, SmallIsSmaller
<1>. QED  BY <1>2, <1>3

\* An atom and what is behind it.
LEMMA HeadAndRest ==
    ASSUME NEW x, x[1] \in Nat \ {0}, NEW rest, IsOctets(rest), NEW m, m = <<x>> \o rest
    PROVE  /\ IsOctets(m) /\ m[1] = x /\ Tail(m) = rest /\ Len(m) = 1 + Len(rest)
           /\ Size(m) = x[1] + Size(rest)
<1>1. Row(rest)
  BY OctetsAre
<1>2. m[1] = x /\ Tail(m) = rest /\ Len(m) = 1 + Len(rest)
  BY <1>1, FirstAndRest
<1>3. IsOctets(<<x>>) /\ Size(<<x>>) = x[1]
  BY OctetsOne, SizeOfOne
<1>4. IsOctets(<<x>> \o rest) /\ Size(<<x>> \o rest) = x[1] + Size(rest)
  <2>1. Size(<<x>> \o rest) = Size(<<x>>) + Size(rest)
    BY <1>3, SizeOfCat
  <2>. QED  BY <1>3, <2>1, OctetsCat
<1>. QED  BY <1>2, <1>4

\* The header of the first message.
First(f) == <<40, "type1", [flags |-> f, domain |-> SecurityBuffer(0, 40),
                            workstation |-> SecurityBuffer(0, 40)]>>

LEMMA FirstIs ==
    ASSUME NEW f
    PROVE  /\ NegotiateMessage(f) = <<First(f)>> /\ First(f)[1] = 40 /\ First(f)[2] = "type1"
           /\ First(f)[3].flags = f
           /\ NegotiateMessage(f)[1] = First(f)
           /\ Small(NegotiateMessage(f), 40) /\ Tail(NegotiateMessage(f)) = <<>>
<1>1. NegotiateMessage(f) = <<First(f)>>
  BY DEF NegotiateMessage, First
<1>2. First(f)[1] = 40 /\ First(f)[2] = "type1" /\ First(f)[3].flags = f
  BY DEF First
<1>3. PICK x : x = First(f)
  OBVIOUS
<1>4. Small(<<x>>, 40) /\ <<x>>[1] = x /\ Tail(<<x>>) = <<>>
  <2>1. x[1] = 40
    BY <1>2, <1>3
  <2>. QED  BY <2>1, SmallOne
<1>. QED  BY <1>1, <1>2, <1>3, <1>4, Zenon

\* The target info a challenge holds; its second message.
InfoOf(s) == IF s.info = None THEN <<>> ELSE s.info

Second(s, g) ==
    LET name == Utf16("HOST")
    IN IF s.info = None
       THEN <<<<32, "type2", [serverChallenge |-> "server challenge", flags |-> g,
                              targetInfo |-> SecurityBuffer(0, 0)]>>>>
       ELSE <<<<56, "type2", [serverChallenge |-> "server challenge", flags |-> g,
                              targetInfo |-> SecurityBuffer(Size(s.info), 56 + Size(name))]>>>>
            \o name \o s.info

LEMMA Type2Is == \A g : Type2(g) = Second(server, g)
  BY Zenon DEF Type2, Second

\* What a client takes from a challenge.
Parsed(s, g) == [serverChallenge |-> "server challenge", flags |-> g, targetInfo |-> InfoOf(s),
                 timestamp |-> AvValue(InfoOf(s), "TIMESTAMP")]

\* A list of pairs before its end.
Pairs(front) ==
    IsOctets(front) /\ \A i \in 1 .. Len(front) : front[i][2] = "av" /\ front[i] # EndOfList

LEMMA InfoIs ==
    ASSUME NEW info \in Infos \ {None}
    PROVE  /\ \E front : Pairs(front) /\ info = front \o <<EndOfList>>
           /\ IsOctets(info) /\ Small(info, Word)
           /\ Size(info) + 2 * Lengths[Spn] + 72 < Word
           /\ AvValue(info, "FLAGS") # <<"MIC">>
<1>0. /\ info \in Seq({info[i] : i \in DOMAIN info}) /\ info # <<>> /\ info[Len(info)] = EndOfList
      /\ \A i \in 1 .. Len(info) - 1 :
            info[i][2] = "av" /\ info[i][1] \in Nat \ 0 .. 3 /\ info[i] # EndOfList
      /\ AvValue(info, "FLAGS") # <<"MIC">> /\ Size(info) + 2 * Lengths[Spn] + 72 < Word
  BY InfosAssumption, Zenon
<1>1. PICK S : info \in Seq(S)
  BY <1>0
<1>2. PICK n \in Nat : n + 1 = Len(info) /\ info[n + 1] = EndOfList
  <2>1. Len(info) \in Nat \ {0} /\ info[Len(info)] = EndOfList
    BY <1>0, <1>1
  <2>2. Len(info) - 1 \in Nat /\ Len(info) - 1 + 1 = Len(info)
    BY <2>1
  <2>. QED  BY <2>1, <2>2
<1>3. Row(info)
  BY <1>1 DEF Row
<1>4. PICK front : front = SubSeq(info, 1, n)
  OBVIOUS
<1>5. Row(front) /\ Len(front) = n /\ \A i \in 1 .. n : front[i] = info[i]
  <2>1. /\ Row(SubSeq(info, 1, n)) /\ Len(SubSeq(info, 1, n)) = n - 1 + 1
        /\ \A i \in 1 .. n - 1 + 1 : SubSeq(info, 1, n)[i] = info[1 + i - 1]
    BY <1>2, <1>3, RowSub
  <2>. QED  BY <1>4, <2>1
<1>6. \A i \in 1 .. n : info[i][2] = "av" /\ info[i][1] \in Nat \ 0 .. 3 /\ info[i] # EndOfList
  <2>1. Len(info) - 1 = n
    BY <1>2
  <2>. QED  BY <1>0, <2>1
<1>7. Pairs(front)
  BY <1>5, <1>6 DEF Pairs, IsOctets
<1>8. PICK e : e = EndOfList
  OBVIOUS
<1>9. e[1] = 4 /\ Row(<<e>>) /\ Len(<<e>>) = 1 /\ <<e>>[1] = e /\ IsOctets(<<e>>)
  <2>1. e[1] = 4
    BY <1>8 DEF EndOfList, Av
  <2>. QED  BY <2>1, RowOne, OctetsOne
<1>10. info = front \o <<e>>
  <2>1. /\ Row(front \o <<e>>) /\ Len(front \o <<e>>) = Len(front) + Len(<<e>>)
        /\ \A i \in 1 .. Len(front) : (front \o <<e>>)[i] = front[i]
        /\ \A i \in 1 .. Len(<<e>>) : (front \o <<e>>)[Len(front) + i] = <<e>>[i]
    <3>1. Row(front) /\ Row(<<e>>)
      BY <1>5, <1>9
    <3>. QED  BY <3>1, RowCat
  <2>2. PICK w : w = front \o <<e>>
    OBVIOUS
  <2>3. /\ Row(w) /\ Len(w) = n + 1 /\ \A i \in 1 .. n : w[i] = info[i]
        /\ w[n + 1] = e
    BY <1>5, <1>9, <2>1, <2>2
  <2>4. \A i \in 1 .. Len(w) : w[i] = info[i]
    BY <1>2, <1>8, <2>3
  <2>5. w = info
    BY <1>2, <1>3, <2>3, <2>4, RowsEqual
  <2>. QED  BY <2>2, <2>5
<1>11. IsOctets(info)
  <2>1. IsOctets(front)
    BY <1>7 DEF Pairs
  <2>. QED  BY <1>9, <1>10, <2>1, OctetsCat
<1>12. Size(info) + 2 * Lengths[Spn] + 72 < Word
  BY <1>0
<1>13. Size(info) <= Word
  <2>1. Lengths[Spn] \in Nat /\ Size(info) \in Nat
    BY <1>11, TextIs, SizeIs, HandshakeAssumption
  <2>. QED  BY <1>12, <2>1, Bounds
<1>14. AvValue(info, "FLAGS") # <<"MIC">>
  BY <1>0
<1>. QED  BY <1>7, <1>8, <1>10, <1>11, <1>12, <1>13, <1>14 DEF Small

\* A record of a message, and its header without a flag.
LEMMA ParsedIsSome == ASSUME NoneIsApart, NEW s, NEW g PROVE Parsed(s, g) # None
<1>1. PICK r : r = Parsed(s, g)
  OBVIOUS
<1>2. r = [x \in DOMAIN r |-> r[x]]
  BY <1>1 DEF Parsed
<1>3. r # None
  BY <1>2, Zenon DEF NoneIsApart
<1>. QED  BY <1>1, <1>3

\* The header of the second message.
Second1(s, g) ==
    IF s.info = None
    THEN <<32, "type2", [serverChallenge |-> "server challenge", flags |-> g, targetInfo |-> SecurityBuffer(0, 0)]>>
    ELSE <<56, "type2", [serverChallenge |-> "server challenge", flags |-> g,
                         targetInfo |-> SecurityBuffer(Size(s.info), 56 + Size(Utf16("HOST")))]>>

SecondRest(s) == IF s.info = None THEN <<>> ELSE Utf16("HOST") \o s.info

LEMMA HostIs == Small(Utf16("HOST"), Longest)
<1>1. "HOST" \in DOMAIN Lengths
  BY TextsAssumption, Zenon
<1>. QED  BY <1>1, TextIs

LEMMA SecondIs ==
    ASSUME NEW s, s.info \in Infos, NEW g
    PROVE  /\ Second(s, g) = <<Second1(s, g)>> \o SecondRest(s)
           /\ IsOctets(Second(s, g)) /\ Second(s, g)[1] = Second1(s, g) /\ Tail(Second(s, g)) = SecondRest(s)
           /\ IsOctets(SecondRest(s))
           /\ Small(Second(s, g), Message)
           /\ Second1(s, g)[3].flags = g
<1>1. CASE s.info = None
  <2>1. PICK x : x = <<32, "type2", [serverChallenge |-> "server challenge", flags |-> g, targetInfo |-> SecurityBuffer(0, 0)]>>
    OBVIOUS
  <2>2. x[1] = 32 /\ x[3].flags = g
    BY <2>1
  <2>3. Second(s, g) = <<x>> /\ Second1(s, g) = x /\ SecondRest(s) = <<>>
    BY <1>1, <2>1, Zenon DEF Second, Second1, SecondRest
  <2>4. Small(<<x>>, 32) /\ IsOctets(<<x>>) /\ Row(<<x>>)
    BY <2>2, SmallOne, OctetsAre DEF Small
  <2>5. <<x>> \o <<>> = <<x>> /\ IsOctets(<<>>)
    BY <2>4, CatEmpty, OctetsEmpty
  <2>6. <<x>>[1] = x /\ Tail(<<x>>) = <<>>
    OBVIOUS
  <2>7. Small(<<x>>, Message)
    <3>1. 32 <= Message /\ 32 \in Nat /\ Message \in Nat
      BY Bounds
    <3>. QED  BY <2>4, <3>1, SmallIsSmaller
  <2>. QED  BY <2>2, <2>3, <2>4, <2>5, <2>6, <2>7, Zenon
<1>2. CASE s.info # None
  <2>1. PICK x : x = <<56, "type2", [serverChallenge |-> "server challenge", flags |-> g,
                          targetInfo |-> SecurityBuffer(Size(s.info), 56 + Size(Utf16("HOST")))]>>
    OBVIOUS
  <2>2. x[1] = 56 /\ x[3].flags = g
    BY <2>1
  <2>3. /\ Second(s, g) = <<x>> \o Utf16("HOST") \o s.info
        /\ Second1(s, g) = x /\ SecondRest(s) = Utf16("HOST") \o s.info
    BY <1>2, <2>1, Zenon DEF Second, Second1, SecondRest
  <2>4. Small(<<x>>, 56) /\ IsOctets(<<x>>) /\ x[1] \in Nat \ {0}
    BY <2>2, SmallOne DEF Small
  <2>5. Small(s.info, Word) /\ IsOctets(s.info)
    BY <1>2, InfoIs
  <2>6. PICK name, info : name = Utf16("HOST") /\ info = s.info
    OBVIOUS
  <2>7. IsOctets(name) /\ IsOctets(info) /\ Small(name, Longest) /\ Small(info, Word)
    BY <2>5, <2>6, HostIs DEF Small
  <2>8. <<x>> \o name \o info = <<x>> \o (name \o info)
    <3>1. Row(<<x>>) /\ Row(name) /\ Row(info)
      BY <2>4, <2>7, OctetsAre
    <3>. QED  BY <3>1, CatAssociative
  <2>9. Small(name \o info, Longest + Word) /\ IsOctets(name \o info)
    BY <2>7, Bounds, SmallCat DEF Small
  <2>10. PICK rest : rest = name \o info
    OBVIOUS
  <2>11. Small(rest, Longest + Word) /\ IsOctets(rest)
    BY <2>9, <2>10
  <2>12. IsOctets(<<x>> \o rest) /\ (<<x>> \o rest)[1] = x /\ Tail(<<x>> \o rest) = rest
    BY <2>4, <2>11, HeadAndRest
  <2>13. Small(<<x>> \o rest, Message)
    <3>1. Small(<<x>> \o rest, 56 + (Longest + Word)) /\ 56 + (Longest + Word) <= Message
          /\ 56 + (Longest + Word) \in Nat /\ Message \in Nat
      BY <2>4, <2>11, Bounds, SmallCat
    <3>. QED  BY <3>1, SmallIsSmaller
  <2>. QED  BY <2>2, <2>3, <2>6, <2>8, <2>10, <2>11, <2>12, <2>13, Zenon
<1>. QED  BY <1>1, <1>2

\* What a buffer holds that is shorter than what two bytes count.
LEMMA BufferIs ==
    ASSUME NEW n \in Nat, n < Word, NEW offset
    PROVE  SecurityBuffer(n, offset).len = n /\ SecurityBuffer(n, offset).offset = offset
<1>1. n % Word = n
  BY SMT DEF Word
<1>. QED  BY <1>1 DEF SecurityBuffer

\* parse_challenge reads the challenge of any server as it was written: its
\* flags, its target info and the time in it, and an empty list of a server
\* that has none.
THEOREM ChallengeParsed ==
    ASSUME NEW s, s.info \in Infos, NEW g
    PROVE  ParseChallenge(Second(s, g)) = Parsed(s, g)
<1>1. CASE s.info = None
  <2>1. PICK x, r : /\ r = [serverChallenge |-> "server challenge", flags |-> g, targetInfo |-> SecurityBuffer(0, 0)]
                    /\ x = <<32, "type2", r>>
    OBVIOUS
  <2>2. x[1] = 32 /\ x[2] = "type2" /\ x[3] = r /\ r.flags = g /\ r.serverChallenge = "server challenge"
    BY <2>1
  <2>3. PICK m : m = Second(s, g)
    OBVIOUS
  <2>4. m = <<x>>
    BY <1>1, <2>1, <2>3, Zenon DEF Second
  <2>5. Size(m) = 32 /\ m[1] = x
    <3>0. 32 \in Nat \ {0}
      OBVIOUS
    <3>1. x[1] \in Nat \ {0}
      BY <2>2, <3>0, Zenon
    <3>2. Size(<<x>>) = x[1]
      BY <3>1, SizeOfOne
    <3>3. <<x>>[1] = x
      OBVIOUS
    <3>. QED  BY <2>2, <2>4, <3>2, <3>3, Zenon
  <2>6. ~(Size(m) < 32) /\ ~(Size(m) >= 48)
    BY <2>5
  <2>7. ParseChallenge(m) = [serverChallenge |-> "server challenge", flags |-> g, targetInfo |-> <<>>,
                             timestamp |-> AvValue(<<>>, "TIMESTAMP")]
    BY <2>2, <2>5, <2>6, Zenon DEF ParseChallenge
  <2>. QED  BY <1>1, <2>3, <2>7, Zenon DEF Parsed, InfoOf
<1>2. CASE s.info # None
  <2>1. PICK name, info : name = Utf16("HOST") /\ info = s.info
    OBVIOUS
  <2>2. PICK sb : sb = SecurityBuffer(Size(info), 56 + Size(name))
    OBVIOUS
  <2>3. PICK r : r = [serverChallenge |-> "server challenge", flags |-> g, targetInfo |-> sb]
    OBVIOUS
  <2>4. PICK x : x = <<56, "type2", r>>
    OBVIOUS
  <2>5. x[1] = 56 /\ x[2] = "type2" /\ x[3] = r
    BY <2>4
  <2>6. r.flags = g /\ r.serverChallenge = "server challenge" /\ r.targetInfo = sb
    BY <2>3
  <2>7. IsOctets(name) /\ IsOctets(info) /\ Size(info) \in Nat /\ Size(name) \in Nat /\ Size(info) < Word
    <3>1. /\ Small(info, Word) /\ IsOctets(info) /\ Size(info) + 2 * Lengths[Spn] + 72 < Word
          /\ Lengths[Spn] \in Nat
      BY <1>2, <2>1, InfoIs, TextIs, HandshakeAssumption
    <3>2. IsOctets(name)
      BY <2>1, HostIs DEF Small
    <3>3. Size(info) \in Nat /\ Size(name) \in Nat /\ Word \in Nat
      BY <3>1, <3>2, SizeIs, Bounds
    <3>. QED  BY <3>1, <3>2, <3>3
  <2>8. sb.len = Size(info) /\ sb.offset = 56 + Size(name)
    BY <2>2, <2>7, BufferIs
  <2>9. PICK m : m = Second(s, g)
    OBVIOUS
  <2>10. m = <<x>> \o name \o info
    BY <1>2, <2>1, <2>2, <2>3, <2>4, <2>9, Zenon DEF Second
  <2>11. m[1] = x
    <3>1. Second1(s, g) = x
      BY <1>2, <2>1, <2>2, <2>3, <2>4, Zenon DEF Second1
    <3>. QED  BY <2>9, <3>1, SecondIs
  <2>12. PICK front : front = <<x>> \o name
    OBVIOUS
  <2>13. IsOctets(front) /\ Size(front) = 56 + Size(name)
    <3>1. x[1] \in Nat \ {0} /\ IsOctets(name)
      BY <2>5, <2>7
    <3>2. IsOctets(front) /\ Size(front) = x[1] + Size(name)
      BY <2>12, <3>1, HeadAndRest, ZenonT(60)
    <3>. QED  BY <2>5, <3>2
  <2>14. Size(m) = 56 + Size(name) + Size(info)
    BY <2>7, <2>10, <2>12, <2>13, SizeOfCat
  <2>15. Slice(m, sb.offset, sb.len) = info
    <3>1. Slice(front \o (info \o <<>>), Size(front), Size(info)) = info
      BY <2>7, <2>13, OctetsEmpty, SliceMiddle
    <3>2. info \o <<>> = info
      BY <2>7, OctetsAre, CatEmpty
    <3>. QED  BY <2>8, <2>10, <2>12, <2>13, <3>1, <3>2, Zenon
  <2>16. ~(Size(m) < 32) /\ Size(m) >= 48 /\ sb.offset + sb.len <= Size(m)
    BY <2>7, <2>8, <2>14
  <2>17. ParseChallenge(m) = [serverChallenge |-> "server challenge", flags |-> g, targetInfo |-> info,
                              timestamp |-> AvValue(info, "TIMESTAMP")]
    BY <2>5, <2>6, <2>11, <2>15, <2>16, Zenon DEF ParseChallenge
  <2>. QED  BY <1>2, <2>1, <2>9, <2>17, Zenon DEF Parsed, InfoOf
<1>. QED  BY <1>1, <1>2

\* The last of these pairs with this id.
LastValue(pairs, id) ==
    LET there == {i \in DOMAIN pairs : IsOf(pairs[i], id)}
    IN IF there = {} THEN None ELSE pairs[CHOOSE i \in there : \A j \in there : i >= j][3][2]

\* What is read of a list of pairs, whatever follows it.
LEMMA PairsRead ==
    ASSUME NEW front, Pairs(front), NEW rest, IsOctets(rest), NEW o, o = front \o (<<EndOfList>> \o rest), NEW id
    PROVE  AvValue(o, id) = LastValue(front, id)
<1>1. PICK e : e = EndOfList
  OBVIOUS
<1>2. e[1] = 4
  BY <1>1 DEF EndOfList, Av
<1>3. PICK back : back = <<e>> \o rest
  OBVIOUS
<1>4. IsOctets(back) /\ back[1] = e /\ Len(back) = 1 + Len(rest) /\ Len(rest) \in Nat
  <2>1. e[1] \in Nat \ {0}
    BY <1>2
  <2>. QED  BY <1>3, <2>1, HeadAndRest, OctetsAre, ZenonT(60)
<1>5. IsOctets(front) /\ Row(front) /\ Len(front) \in Nat
  BY OctetsAre DEF Pairs
<1>6. o = front \o back
  BY <1>1, <1>3
<1>7. /\ Row(o) /\ Len(o) = Len(front) + Len(back) /\ DOMAIN o = 1 .. Len(o)
      /\ \A i \in 1 .. Len(front) : o[i] = front[i]
      /\ \A i \in 1 .. Len(back) : o[Len(front) + i] = back[i]
  <2>1. Row(back)
    BY <1>4, OctetsAre
  <2>2. /\ Row(front \o back) /\ Len(front \o back) = Len(front) + Len(back)
        /\ \A i \in 1 .. Len(front) : (front \o back)[i] = front[i]
        /\ \A i \in 1 .. Len(back) : (front \o back)[Len(front) + i] = back[i]
    BY <1>5, <2>1, RowCat
  <2>3. Row(o) => DOMAIN o = 1 .. Len(o)
    BY RowIs
  <2>. QED  BY <1>6, <2>2, <2>3, Zenon
<1>8. PICK n : n = Len(front)
  OBVIOUS
<1>9. n \in Nat /\ n + 1 \in DOMAIN o /\ o[n + 1] = EndOfList /\ DOMAIN o = 1 .. Len(o) /\ Len(o) >= n + 1
      /\ \A i \in 1 .. n : o[i][2] = "av" /\ o[i] # EndOfList
  <2>1. o[n + 1] = EndOfList /\ Len(o) = n + (1 + Len(rest))
    BY <1>1, <1>4, <1>5, <1>7, <1>8
  <2>2. \A i \in 1 .. n : o[i][2] = "av" /\ o[i] # EndOfList
    BY <1>7, <1>8 DEF Pairs
  <2>. QED  BY <1>4, <1>5, <1>7, <1>8, <2>1, <2>2
<1>10. PICK stops : stops = {i \in DOMAIN o : o[i][2] # "av" \/ o[i] = EndOfList}
  OBVIOUS
<1>11. n + 1 \in stops /\ \A j \in stops : n + 1 <= j /\ j \in Int
  <2>1. n + 1 \in stops
    BY <1>9, <1>10, Zenon
  <2>2. ASSUME NEW j \in stops PROVE n + 1 <= j /\ j \in Int
    <3>1. j \in DOMAIN o /\ (o[j][2] # "av" \/ o[j] = EndOfList)
      BY <1>10, Zenon
    <3>2. j \notin 1 .. n
      BY <1>9, <3>1, Zenon
    <3>3. j \in 1 .. Len(o)
      BY <1>9, <3>1, Zenon
    <3>. QED  BY <1>9, <3>2, <3>3, SMTT(30)
  <2>. QED  BY <2>1, <2>2, Zenon
<1>12. PICK least : least = CHOOSE i \in stops : \A j \in stops : i <= j
  OBVIOUS
<1>13. least = n + 1
  <2>1. \A i \in stops : (\A j \in stops : i <= j) => i = n + 1
    BY <1>9, <1>11
  <2>2. \E i \in stops : \A j \in stops : i <= j
    BY <1>11
  <2>. QED  BY <1>12, <2>1, <2>2
<1>14. SubSeq(o, 1, least - 1) = front
  <2>1. SubSeq(front \o back, 1, Len(front)) = front
    <3>1. Row(back)
      BY <1>4, OctetsAre
    <3>. QED  BY <1>5, <3>1, CatHalves
  <2>2. least - 1 = Len(front)
    BY <1>8, <1>9, <1>13
  <2>. QED  BY <1>6, <2>1, <2>2, Zenon
<1>16. AvPairs(o) = front
  <2>1. stops # {}
    BY <1>11
  <2>2. AvPairs(o) = SubSeq(o, 1, (CHOOSE i \in stops : \A j \in stops : i <= j) - 1)
    BY <1>10, <2>1 DEF AvPairs
  <2>. QED  BY <1>12, <1>14, <2>2
<1>15. AvValue(o, id) = LastValue(AvPairs(o), id)
  BY DEF AvValue, LastValue
<1>. QED  BY <1>15, <1>16, Zenon

Longer(more, front, p) ==
    /\ Row(more) /\ Len(more) = Len(front) + 1 /\ more[Len(front) + 1] = p
    /\ \A i \in 1 .. Len(front) : more[i] = front[i]

LEMMA RowAndOne ==
    ASSUME NEW front, Row(front), NEW p
    PROVE  Longer(front \o <<p>>, front, p)
<1>1. Row(<<p>>) /\ Len(<<p>>) = 1 /\ <<p>>[1] = p
  BY RowOne
<1>2. /\ Row(front \o <<p>>) /\ Len(front \o <<p>>) = Len(front) + Len(<<p>>)
      /\ \A i \in 1 .. Len(front) : (front \o <<p>>)[i] = front[i]
      /\ \A i \in 1 .. Len(<<p>>) : (front \o <<p>>)[Len(front) + i] = <<p>>[i]
  BY <1>1, RowCat
<1>. QED  BY <1>1, <1>2 DEF Longer

\* One pair more, which is none with a time.
LEMMA LastOfMore ==
    ASSUME NEW front, Row(front), NEW p, p[3][1] # "TIMESTAMP", NEW more, more = front \o <<p>>
    PROVE  \A id : LastValue(more, id) = IF p[3][1] = id THEN p[3][2] ELSE LastValue(front, id)
<1>. TAKE id
<1>1. PICK n : n = Len(front) /\ n \in Nat /\ DOMAIN front = 1 .. n
  BY RowIs
<1>2. /\ Row(more) /\ Len(more) = n + 1 /\ DOMAIN more = 1 .. n + 1 /\ more[n + 1] = p
      /\ \A i \in 1 .. n : more[i] = front[i]
  <2>1. Longer(more, front, p)
    BY RowAndOne, Zenon
  <2>. QED  BY <1>1, <2>1, RowIs DEF Longer
<1>. DEFINE there == {i \in DOMAIN more : IsOf(more[i], id)}
            first == {i \in DOMAIN front : IsOf(front[i], id)}
<1>6. IsOf(p, id) <=> p[3][1] = id
  BY DEF IsOf
<1>5. LastValue(more, id) = IF there = {} THEN None
                           ELSE more[CHOOSE i \in there : \A j \in there : i >= j][3][2]
  BY Zenon DEF LastValue
<1>3. CASE p[3][1] = id
  <2>1. n + 1 \in there /\ \A j \in there : j \in Int /\ n + 1 >= j
    BY <1>1, <1>2, <1>3, <1>6
  <2>. HIDE DEF there
  <2>2. PICK k : k = n + 1 /\ k \in Int
    BY <1>1
  <2>3. (CHOOSE i \in there : \A j \in there : i >= j) = k
    <3>1. k \in there /\ \A j \in there : k >= j
      BY <2>1, <2>2
    <3>2. \A i \in there : (\A j \in there : i >= j) => i = k
      BY <2>1, <2>2
    <3>. QED  BY <3>1, <3>2
  <2>4. there # {}
    BY <2>1
  <2>. QED  BY <1>2, <1>3, <2>2, <2>3, <2>4, <1>5, Zenon
<1>4. CASE p[3][1] # id
  <2>1. there = first
    BY <1>1, <1>2, <1>4, <1>6
  <2>2. \A i \in first : more[i] = front[i]
    BY <1>1, <1>2
  <2>3. LastValue(front, id) = IF first = {} THEN None
                               ELSE front[CHOOSE i \in first : \A j \in first : i >= j][3][2]
    BY Zenon DEF LastValue
  <2>5. first \subseteq Nat /\ \A i \in first : i <= n
    BY <1>1
  <2>. HIDE DEF there, first
  <2>6. ASSUME first # {} PROVE (CHOOSE i \in first : \A j \in first : i >= j) \in first
    <3>. DEFINE T == {n - i : i \in first}
    <3>1. T \in SUBSET Nat /\ T # {}
      <4>1. \A i \in first : n - i \in Nat
        BY <1>1, <2>5
      <4>. QED  BY <2>6, <4>1
    <3>2. PICK m \in T : \A k \in T : m <= k
      BY <3>1, LeastNumber
    <3>3. PICK i \in first : m = n - i
      BY <3>2
    <3>4. \A j \in first : i >= j
      <4>1. ASSUME NEW j \in first PROVE i >= j
        <5>1. n - j \in T
          OBVIOUS
        <5>2. n - i <= n - j
          BY <3>2, <3>3, <5>1
        <5>. QED  BY <1>1, <2>5, <5>2
      <4>. QED  BY <4>1
    <3>. QED  BY <3>3, <3>4
  <2>. QED  BY <1>4, <1>5, <2>1, <2>2, <2>3, <2>6, Zenon
<1>. QED  BY <1>3, <1>4

LEMMA LastOfNone == ASSUME NEW id PROVE LastValue(<<>>, id) = None
  BY DEF LastValue

LEMMA OnePairMore ==
    ASSUME NEW front, Pairs(front), NEW p, p[1] \in Nat \ {0}, p[2] = "av", p # EndOfList, NEW more, more = front \o <<p>>
    PROVE  Pairs(more) /\ Size(more) = Size(front) + p[1]
<1>1. IsOctets(front) /\ IsOctets(<<p>>) /\ Size(<<p>>) = p[1] /\ <<p>>[1] = p /\ Len(<<p>>) = 1
      /\ Row(front) /\ Len(front) \in Nat
  BY OctetsOne, SizeOfOne, RowOne, OctetsAre DEF Pairs
<1>2. /\ IsOctets(front \o <<p>>) /\ Len(front \o <<p>>) = Len(front) + Len(<<p>>)
      /\ \A i \in 1 .. Len(front) : (front \o <<p>>)[i] = front[i]
      /\ \A i \in 1 .. Len(<<p>>) : (front \o <<p>>)[Len(front) + i] = <<p>>[i]
  <2>1. IsOctets(front) /\ IsOctets(<<p>>)
    BY <1>1
  <2>. QED  BY <2>1, OctetsCat
<1>3. Size(front \o <<p>>) = Size(front) + Size(<<p>>)
  BY <1>1, SizeOfCat
<1>4. IsOctets(more) /\ Len(more) = Len(front) + 1 /\ more[Len(front) + 1] = p
      /\ \A i \in 1 .. Len(front) : more[i] = front[i]
  BY <1>1, <1>2
<1>5. \A i \in 1 .. Len(more) : i \in 1 .. Len(front) \/ i = Len(front) + 1
  BY <1>1, <1>4
<1>. QED  BY <1>1, <1>3, <1>4, <1>5, Zenon DEF Pairs

\* The pairs of the challenge that a response repeats.
BaseOf(base, s) ==
    /\ Pairs(base) /\ LastValue(base, "FLAGS") # <<"MIC">>
    /\ Size(base) \in Nat /\ Lengths[Spn] \in Nat
    /\ Size(base) + 2 * Lengths[Spn] + 72 < Word
    /\ (IF Size(InfoOf(s)) >= 4 THEN Slice(InfoOf(s), 0, Size(InfoOf(s)) - 4) ELSE InfoOf(s)) = base

LEMMA BaseExists ==
    ASSUME NoneIsApart, NEW s, s.info \in Infos
    PROVE  \E base : BaseOf(base, s)
<1>1. Lengths[Spn] \in Nat
  BY TextIs, HandshakeAssumption
<1>2. CASE s.info = None
  <2>1. InfoOf(s) = <<>>
    BY <1>2 DEF InfoOf
  <2>2. Size(<<>>) = 0 /\ IsOctets(<<>>) /\ Len(<<>>) = 0
    BY OctetsEmpty, SizeIs
  <2>3. Pairs(<<>>)
    BY <2>2 DEF Pairs
  <2>4. LastValue(<<>>, "FLAGS") # <<"MIC">>
    <3>1. Row(<<"MIC">>)
      BY RowOne
    <3>2. <<"MIC">> # None
      BY <3>1, RowIsSome
    <3>. QED  BY <3>2, LastOfNone
  <2>5. PICK e : e = <<>>
    OBVIOUS
  <2>6. (IF Size(InfoOf(s)) >= 4 THEN Slice(InfoOf(s), 0, Size(InfoOf(s)) - 4) ELSE InfoOf(s)) = e
    <3>1. Size(InfoOf(s)) = 0 /\ ~(0 >= 4) /\ InfoOf(s) = e
      BY <2>1, <2>2, <2>5
    <3>. QED  BY <3>1, Zenon
  <2>7. 2 * Lengths[Spn] + 72 < Word
    BY HandshakeAssumption
  <2>8. Size(e) \in Nat /\ Size(e) + 2 * Lengths[Spn] + 72 < Word
    BY <1>1, <2>2, <2>5, <2>7
  <2>9. BaseOf(e, s)
    BY <1>1, <2>3, <2>4, <2>5, <2>6, <2>8, Zenon DEF BaseOf
  <2>. QED  BY <2>9
<1>3. CASE s.info # None
  <2>1. PICK info : info = s.info
    OBVIOUS
  <2>2. InfoOf(s) = info
    BY <1>3, <2>1 DEF InfoOf
  <2>3. PICK base : Pairs(base) /\ info = base \o <<EndOfList>>
    BY <1>3, <2>1, InfoIs
  <2>4. Size(info) + 2 * Lengths[Spn] + 72 < Word /\ AvValue(info, "FLAGS") # <<"MIC">>
    BY <1>3, <2>1, InfoIs
  <2>5. PICK e : e = EndOfList
    OBVIOUS
  <2>6. e[1] = 4 /\ IsOctets(<<e>>) /\ Size(<<e>>) = 4
    <3>1. e[1] = 4
      BY <2>5 DEF EndOfList, Av
    <3>. QED  BY <3>1, OctetsOne, SizeOfOne
  <2>7. IsOctets(base) /\ Size(base) \in Nat
    BY <2>3, SizeIs DEF Pairs
  <2>8. Size(info) = Size(base) + 4
    BY <2>3, <2>5, <2>6, <2>7, SizeOfCat
  <2>9. Slice(info, 0, Size(info) - 4) = base
    <3>1. Slice(<<>> \o (base \o <<e>>), Size(<<>>), Size(base)) = base
      BY <2>6, <2>7, OctetsEmpty, SliceMiddle
    <3>2. Size(<<>>) = 0 /\ <<>> \o (base \o <<e>>) = base \o <<e>>
      <4>1. IsOctets(base \o <<e>>)
        BY <2>6, <2>7, OctetsCat
      <4>. QED  BY <4>1, OctetsEmpty, SizeIs, OctetsAre, CatEmpty
    <3>3. Size(info) - 4 = Size(base)
      BY <2>7, <2>8
    <3>. QED  BY <2>3, <2>5, <3>1, <3>2, <3>3, Zenon
  <2>10. Size(info) >= 4
    BY <2>7, <2>8
  <2>11. LastValue(base, "FLAGS") # <<"MIC">>
    <3>1. base \o (<<EndOfList>> \o <<>>) = info
      <4>1. Row(<<e>>) /\ <<e>> \o <<>> = <<e>>
        BY RowOne, CatEmpty
      <4>. QED  BY <2>3, <2>5, <4>1, Zenon
    <3>2. AvValue(info, "FLAGS") = LastValue(base, "FLAGS")
      BY <2>3, <3>1, OctetsEmpty, PairsRead
    <3>. QED  BY <2>4, <3>2
  <2>12. Size(base) + 2 * Lengths[Spn] + 72 < Word
    BY <1>1, <2>4, <2>7, <2>8, Bounds
  <2>13. BaseOf(base, s)
    BY <1>1, <2>2, <2>3, <2>7, <2>9, <2>10, <2>11, <2>12, Zenon DEF BaseOf
  <2>. QED  BY <2>13
<1>. QED  BY <1>2, <1>3

\* The info of a response, its bindings and flags.
Bindings(w) == IF w = "tls" THEN ChannelBindings(Cert) ELSE None
Info3(s, w) == AuthTargetInfo(InfoOf(s), Bindings(w), w # "tls", Spn)

LEMMA BindingsAreSome == ASSUME NoneIsApart PROVE ChannelBindings(Cert) # None
<1>1. PICK b : b = ChannelBindings(Cert)
  OBVIOUS
<1>2. b = [x \in DOMAIN b |-> b[x]]
  BY <1>1 DEF ChannelBindings
<1>3. b # None
  BY <1>2, Zenon DEF NoneIsApart
<1>. QED  BY <1>1, <1>3

LEMMA Info3Is ==
    ASSUME NoneIsApart, NEW s, s.info \in Infos, NEW w
    PROVE  \E front :
              /\ Pairs(front) /\ Info3(s, w) = front \o <<EndOfList>>
              /\ Size(front) \in Nat /\ Size(front) + 52 < Word
              /\ (LastValue(front, "FLAGS") = <<"MIC">>) <=> (w # "tls")
              /\ w = "tls" => LastValue(front, "CHANNEL_BINDINGS") = <<ChannelBindings(Cert)>>
<1>1. PICK base : BaseOf(base, s)
  BY BaseExists
<1>2. /\ Pairs(base) /\ LastValue(base, "FLAGS") # <<"MIC">> /\ Size(base) \in Nat /\ Lengths[Spn] \in Nat
      /\ Size(base) + 2 * Lengths[Spn] + 72 < Word
      /\ (IF Size(InfoOf(s)) >= 4 THEN Slice(InfoOf(s), 0, Size(InfoOf(s)) - 4) ELSE InfoOf(s)) = base
  BY <1>1, Zenon DEF BaseOf
<1>3. Row(base) /\ IsOctets(base)
  BY <1>2, OctetsAre DEF Pairs
<1>4. CASE w = "tls"
  <2>1. PICK p : p = Av("CHANNEL_BINDINGS", 16, <<ChannelBindings(Cert)>>)
    OBVIOUS
  <2>2. p[1] = 20 /\ p[2] = "av" /\ p[3][1] = "CHANNEL_BINDINGS" /\ p[3][2] = <<ChannelBindings(Cert)>>
    BY <2>1 DEF Av
  <2>3. p # EndOfList
    <3>1. EndOfList[1] = 4
      BY DEF EndOfList, Av
    <3>. QED  BY <2>2, <3>1
  <2>4. PICK front : front = base \o <<p>>
    OBVIOUS
  <2>5. Pairs(front) /\ Size(front) = Size(base) + 20
    <3>1. p[1] \in Nat \ {0}
      BY <2>2
    <3>. QED  BY <1>2, <2>2, <2>3, <2>4, <3>1, OnePairMore
  <2>13. \A id : LastValue(front, id) = IF p[3][1] = id THEN p[3][2] ELSE LastValue(base, id)
    <3>1. Row(base)
      BY <1>3
    <3>3. p[3][1] # "TIMESTAMP"
      BY <2>2
    <3>2. \A x : x = base \o <<p>> =>
             \A id : LastValue(x, id) = IF p[3][1] = id THEN p[3][2] ELSE LastValue(base, id)
      BY <3>1, <3>3, LastOfMore, ZenonT(60)
    <3>. QED  BY <2>4, <3>2, Zenon
  <2>6. LastValue(front, "FLAGS") = LastValue(base, "FLAGS")
    BY <2>2, <2>13
  <2>7. LastValue(front, "CHANNEL_BINDINGS") = <<ChannelBindings(Cert)>>
    BY <2>2, <2>13, Zenon
  <2>8. Info3(s, w) = front \o <<>> \o <<EndOfList>>
    <3>1. Bindings(w) = ChannelBindings(Cert) /\ ChannelBindings(Cert) # None
      BY <1>4, BindingsAreSome DEF Bindings
    <3>. QED  BY <1>2, <1>4, <2>1, <2>4, <3>1, Zenon DEF Info3, AuthTargetInfo
  <2>9. front \o <<>> = front
    BY <2>5, OctetsAre, CatEmpty DEF Pairs
  <2>10. Size(front) \in Nat /\ Size(front) + 52 < Word
    BY <1>2, <2>5, Bounds
  <2>11. ~(LastValue(front, "FLAGS") = <<"MIC">>) /\ ~(w # "tls")
    BY <1>2, <1>4, <2>6
  <2>12. Info3(s, w) = front \o <<EndOfList>>
    BY <2>8, <2>9, Zenon
  <2>. QED  BY <2>5, <2>7, <2>10, <2>11, <2>12, Zenon
<1>5. CASE w # "tls"
  <2>1. PICK p, q : p = Av("TARGET_NAME", 2 * Lengths[Spn], Utf16(Spn)) /\ q = Av("FLAGS", 4, <<"MIC">>)
    OBVIOUS
  <2>2. p[1] = 4 + 2 * Lengths[Spn] /\ p[2] = "av" /\ p[3][1] = "TARGET_NAME"
    BY <2>1 DEF Av
  <2>3. q[1] = 8 /\ q[2] = "av" /\ q[3][1] = "FLAGS" /\ q[3][2] = <<"MIC">>
    BY <2>1 DEF Av
  <2>4. p # EndOfList /\ q # EndOfList
    <3>1. EndOfList[3][1] = "EOL"
      BY DEF EndOfList, Av
    <3>. QED  BY <2>2, <2>3, <3>1
  <2>5. PICK mid : mid = base \o <<p>>
    OBVIOUS
  <2>6. PICK front : front = mid \o <<q>>
    OBVIOUS
  <2>7. Pairs(mid) /\ Size(mid) = Size(base) + (4 + 2 * Lengths[Spn])
    <3>1. p[1] \in Nat \ {0}
      BY <1>2, <2>2
    <3>. QED  BY <1>2, <2>2, <2>4, <2>5, <3>1, OnePairMore
  <2>8. Pairs(front) /\ Size(front) = Size(mid) + 8
    <3>1. q[1] \in Nat \ {0}
      BY <2>3
    <3>. QED  BY <2>3, <2>4, <2>6, <2>7, <3>1, OnePairMore
  <2>9. LastValue(front, "FLAGS") = <<"MIC">>
    <3>1. Row(mid)
      BY <2>7, OctetsAre DEF Pairs
    <3>3. q[3][1] # "TIMESTAMP"
      BY <2>3
    <3>2. \A x : x = mid \o <<q>> =>
             \A id : LastValue(x, id) = IF q[3][1] = id THEN q[3][2] ELSE LastValue(mid, id)
      BY <3>1, <3>3, LastOfMore, ZenonT(60)
    <3>. QED  BY <2>3, <2>6, <3>2, Zenon
  <2>10. Info3(s, w) = base \o <<>> \o <<p, q>> \o <<EndOfList>>
    <3>1. Bindings(w) = None
      BY <1>5 DEF Bindings
    <3>. QED  BY <1>2, <1>5, <2>1, <3>1, Zenon DEF Info3, AuthTargetInfo
  <2>11. base \o <<>> = base
    BY <1>3, CatEmpty
  <2>12. base \o <<p, q>> = front
    <3>1. <<p, q>> = <<p>> \o <<q>>
      BY TwoInARow
    <3>2. (base \o <<p>>) \o <<q>> = base \o (<<p>> \o <<q>>)
      BY <1>3, RowOne, CatAssociative
    <3>. QED  BY <2>5, <2>6, <3>1, <3>2, Zenon
  <2>13. Size(front) \in Nat /\ Size(front) + 52 < Word
    BY <1>2, <2>7, <2>8, Bounds
  <2>14. Info3(s, w) = front \o <<EndOfList>>
    BY <2>10, <2>11, <2>12, Zenon
  <2>. QED  BY <1>5, <2>8, <2>9, <2>13, <2>14, Zenon
<1>. QED  BY <1>4, <1>5

\* Six parts in a row, and where each begins behind so many bytes.
Joined(p) == p[1] \o (p[2] \o (p[3] \o (p[4] \o (p[5] \o p[6]))))

SixParts(p) == p = <<p[1], p[2], p[3], p[4], p[5], p[6]>> /\ \A i \in 1 .. 6 : IsOctets(p[i])

\* The parts of a message with those before them, q, and behind them, r.
Placed(head, p, q2, q3, q4, q6, r2, r3, r4, r6) ==
    /\ IsOctets(r2) /\ IsOctets(r3) /\ IsOctets(r4) /\ IsOctets(r6)
    /\ IsOctets(q2) /\ IsOctets(q3) /\ IsOctets(q4) /\ IsOctets(q6)
    /\ Size(q2) = Size(head) + Size(p[1]) /\ Size(q3) = Size(q2) + Size(p[2])
    /\ Size(q4) = Size(q3) + Size(p[3]) /\ Size(q6) = Size(q4) + Size(p[4]) + Size(p[5])
    /\ head \o Joined(p) = q2 \o (p[2] \o r2) /\ head \o Joined(p) = q3 \o (p[3] \o r3)
    /\ head \o Joined(p) = q4 \o (p[4] \o r4) /\ head \o Joined(p) = q6 \o (p[6] \o r6)
    /\ head \o p[1] \o p[2] \o p[3] \o p[4] \o p[5] \o p[6] = head \o Joined(p)
    /\ IsOctets(Joined(p))
    /\ Size(Joined(p)) = Size(p[1]) + Size(p[2]) + Size(p[3]) + Size(p[4]) + Size(p[5]) + Size(p[6])

InPlace(head, p) == \E q2, q3, q4, q6, r2, r3, r4, r6 : Placed(head, p, q2, q3, q4, q6, r2, r3, r4, r6)

Shifted(a, b, c) == IsOctets(a \o b) /\ Size(a \o b) = Size(a) + Size(b) /\ a \o (b \o c) = (a \o b) \o c

LEMMA Shift ==
    ASSUME NEW a, IsOctets(a), NEW b, IsOctets(b), NEW c, IsOctets(c)
    PROVE  Shifted(a, b, c)
<1>1. Row(a) /\ Row(b) /\ Row(c)
  BY OctetsAre
<1>2. (a \o b) \o c = a \o (b \o c)
  BY <1>1, CatAssociative
<1>3. IsOctets(a \o b) /\ Size(a \o b) = Size(a) + Size(b)
  BY OctetsCat, SizeOfCat
<1>. QED  BY <1>2, <1>3, Zenon DEF Shifted

LEMMA JoinedIs ==
    ASSUME NEW head, IsOctets(head), NEW p, SixParts(p)
    PROVE  InPlace(head, p)
<1>1. PICK p1, p2, p3, p4, p5, p6 : p1 = p[1] /\ p2 = p[2] /\ p3 = p[3] /\ p4 = p[4] /\ p5 = p[5] /\ p6 = p[6]
  OBVIOUS
<1>2. IsOctets(p1) /\ IsOctets(p2) /\ IsOctets(p3) /\ IsOctets(p4) /\ IsOctets(p5) /\ IsOctets(p6)
  <2>1. \A i \in 1 .. 6 : IsOctets(p[i])
    BY DEF SixParts
  <2>. QED  BY <1>1, <2>1
<1>3. PICK r4 : r4 = p5 \o p6
  OBVIOUS
<1>4. PICK r3 : r3 = p4 \o r4
  OBVIOUS
<1>5. PICK r2 : r2 = p3 \o r3
  OBVIOUS
<1>6. PICK r1 : r1 = p2 \o r2
  OBVIOUS
<1>7. PICK r0 : r0 = p1 \o r1
  OBVIOUS
<1>8. IsOctets(r4) /\ Size(r4) = Size(p5) + Size(p6)
  BY <1>2, <1>3, OctetsCat, SizeOfCat
<1>9. IsOctets(r3) /\ Size(r3) = Size(p4) + Size(r4)
  BY <1>2, <1>4, <1>8, OctetsCat, SizeOfCat
<1>10. IsOctets(r2) /\ Size(r2) = Size(p3) + Size(r3)
  BY <1>2, <1>5, <1>9, OctetsCat, SizeOfCat
<1>11. IsOctets(r1) /\ Size(r1) = Size(p2) + Size(r2)
  BY <1>2, <1>6, <1>10, OctetsCat, SizeOfCat
<1>12. IsOctets(r0) /\ Size(r0) = Size(p1) + Size(r1)
  BY <1>2, <1>7, <1>11, OctetsCat, SizeOfCat
<1>13. PICK m : m = head \o r0
  OBVIOUS
<1>14. PICK q2 : q2 = head \o p1
  OBVIOUS
<1>15. PICK q3 : q3 = q2 \o p2
  OBVIOUS
<1>16. PICK q4 : q4 = q3 \o p3
  OBVIOUS
<1>17. PICK q5 : q5 = q4 \o p4
  OBVIOUS
<1>18. PICK q6 : q6 = q5 \o p5
  OBVIOUS
<1>19. IsOctets(q2) /\ Size(q2) = Size(head) + Size(p1) /\ m = q2 \o r1
  <2>1. IsOctets(head) /\ IsOctets(p1) /\ IsOctets(r1)
    BY <1>2, <1>11
  <2>2. Shifted(head, p1, r1)
    BY <2>1, Shift
  <2>. QED  BY <1>7, <1>13, <1>14, <2>2, Zenon DEF Shifted
<1>20. IsOctets(q3) /\ Size(q3) = Size(q2) + Size(p2) /\ m = q3 \o r2
  <2>1. IsOctets(q2) /\ IsOctets(p2) /\ IsOctets(r2)
    BY <1>2, <1>10, <1>19
  <2>2. Shifted(q2, p2, r2)
    BY <2>1, Shift
  <2>. QED  BY <1>6, <1>15, <1>19, <2>2, Zenon DEF Shifted
<1>21. IsOctets(q4) /\ Size(q4) = Size(q3) + Size(p3) /\ m = q4 \o r3
  <2>1. IsOctets(q3) /\ IsOctets(p3) /\ IsOctets(r3)
    BY <1>2, <1>9, <1>20
  <2>2. Shifted(q3, p3, r3)
    BY <2>1, Shift
  <2>. QED  BY <1>5, <1>16, <1>20, <2>2, Zenon DEF Shifted
<1>22. IsOctets(q5) /\ Size(q5) = Size(q4) + Size(p4) /\ m = q5 \o r4
  <2>1. IsOctets(q4) /\ IsOctets(p4) /\ IsOctets(r4)
    BY <1>2, <1>8, <1>21
  <2>2. Shifted(q4, p4, r4)
    BY <2>1, Shift
  <2>. QED  BY <1>4, <1>17, <1>21, <2>2, Zenon DEF Shifted
<1>23. IsOctets(q6) /\ Size(q6) = Size(q5) + Size(p5) /\ m = q6 \o p6
  <2>1. IsOctets(q5) /\ IsOctets(p5) /\ IsOctets(p6)
    BY <1>2, <1>22
  <2>2. Shifted(q5, p5, p6)
    BY <2>1, Shift
  <2>. QED  BY <1>3, <1>18, <1>22, <2>2, Zenon DEF Shifted
<1>24. PICK r6 : r6 = <<>>
  OBVIOUS
<1>25. IsOctets(r6) /\ p6 \o r6 = p6
  BY <1>2, <1>24, OctetsEmpty, OctetsAre, CatEmpty
<1>26. Joined(p) = r0
  BY <1>1, <1>3, <1>4, <1>5, <1>6, <1>7, Zenon DEF Joined
<1>27. head \o p[1] \o p[2] \o p[3] \o p[4] \o p[5] \o p[6] = m
  BY <1>1, <1>14, <1>15, <1>16, <1>17, <1>18, <1>23, Zenon
<1>28. Size(r0) = Size(p1) + Size(p2) + Size(p3) + Size(p4) + Size(p5) + Size(p6)
  <2>1. Size(p1) \in Nat /\ Size(p2) \in Nat /\ Size(p3) \in Nat /\ Size(p4) \in Nat /\ Size(p5) \in Nat /\ Size(p6) \in Nat
    BY <1>2, SizeIs
  <2>. QED  BY <1>8, <1>9, <1>10, <1>11, <1>12, <2>1
<1>29. Size(q6) = Size(q4) + Size(p4) + Size(p5)
  BY <1>22, <1>23, Zenon
<1>30. Placed(head, p, q2, q3, q4, q6, r2, r3, r4, r6)
  <2>1. /\ IsOctets(r2) /\ IsOctets(r3) /\ IsOctets(r4) /\ IsOctets(r6)
        /\ IsOctets(q2) /\ IsOctets(q3) /\ IsOctets(q4) /\ IsOctets(q6)
    BY <1>8, <1>9, <1>10, <1>19, <1>20, <1>21, <1>23, <1>25
  <2>2. /\ Size(q2) = Size(head) + Size(p[1]) /\ Size(q3) = Size(q2) + Size(p[2])
        /\ Size(q4) = Size(q3) + Size(p[3]) /\ Size(q6) = Size(q4) + Size(p[4]) + Size(p[5])
    BY <1>1, <1>19, <1>20, <1>21, <1>29, Zenon
  <2>3. head \o Joined(p) = m
    BY <1>13, <1>26, Zenon
  <2>4. m = q2 \o (p[2] \o r2) /\ m = q3 \o (p[3] \o r3) /\ m = q4 \o (p[4] \o r4) /\ m = q6 \o (p[6] \o r6)
    BY <1>1, <1>4, <1>5, <1>6, <1>19, <1>20, <1>21, <1>23, <1>25, Zenon
  <2>5. IsOctets(Joined(p)) /\ Size(Joined(p)) = Size(p[1]) + Size(p[2]) + Size(p[3]) + Size(p[4]) + Size(p[5]) + Size(p[6])
    BY <1>1, <1>12, <1>26, <1>28, Zenon
  <2>. QED  BY <1>27, <2>1, <2>2, <2>3, <2>4, <2>5, Zenon DEF Placed
<1>. QED  BY <1>30, Zenon DEF InPlace

\* Where the parts begin.
LEMMA StartsAre ==
    ASSUME NEW p, SixParts(p), NEW size \in Nat, NEW at, at = Offsets(size, p)
    PROVE  /\ at[2] = size + Size(p[1])
           /\ at[3] = size + Size(p[1]) + Size(p[2])
           /\ at[4] = size + Size(p[1]) + Size(p[2]) + Size(p[3])
           /\ at[6] = size + Size(p[1]) + Size(p[2]) + Size(p[3]) + Size(p[4]) + Size(p[5])
<1>1. DOMAIN p = 1 .. 6
  BY DEF SixParts
<1>2. \A i \in 1 .. 6 : Size(p[i]) \in Nat
  BY SizeIs DEF SixParts
<1>. DEFINE sizes == [k \in DOMAIN p |-> Size(p[k])]
<1>3. \A i \in 1 .. 6 : sizes[i] = Size(p[i])
  BY <1>1
<1>4. \A i \in 1 .. 6 : at[i] = size + Total(sizes, i - 1)
  BY <1>1 DEF Offsets
<1>. HIDE DEF sizes
<1>5. \A k \in Nat : Total(sizes, k) = IF k = 0 THEN 0 ELSE Total(sizes, k - 1) + sizes[k]
  BY TotalIs
<1>6. Total(sizes, 0) = 0
  BY <1>5
<1>7. Total(sizes, 1) = Size(p[1])
  BY <1>2, <1>3, <1>5, <1>6
<1>8. Total(sizes, 2) = Size(p[1]) + Size(p[2])
  BY <1>2, <1>3, <1>5, <1>7
<1>9. Total(sizes, 3) = Size(p[1]) + Size(p[2]) + Size(p[3])
  BY <1>2, <1>3, <1>5, <1>8
<1>10. Total(sizes, 4) = Size(p[1]) + Size(p[2]) + Size(p[3]) + Size(p[4])
  BY <1>2, <1>3, <1>5, <1>9
<1>11. Total(sizes, 5) = Size(p[1]) + Size(p[2]) + Size(p[3]) + Size(p[4]) + Size(p[5])
  BY <1>2, <1>3, <1>5, <1>10
<1>. QED  BY <1>2, <1>4, <1>7, <1>8, <1>9, <1>11

-----------------------------------------------------------------------------
(* The third message.                                                        *)

\* What a client makes of a challenge, whichever way it answers.
TimeOf(c, clock) == IF c.timestamp = None THEN clock ELSE c.timestamp
NonceOf(c)       == <<<<8, "challenge", c.serverChallenge>>>>
BlobOf(c, b, mic, target, random, clock) ==
    Blob(TimeOf(c, clock), random.challenge, AuthTargetInfo(c.targetInfo, b, mic # None, target))
HashOf(p) == Ntlmv2Hash(p.password, p.user, p.domain)
PartsOf(hash, nonce, blob, random, mic, domain, user) ==
    LET proof == Hmac(hash, nonce \o blob)
    IN <<LmResponse(hash, nonce, random, mic), <<proof>> \o blob, Utf16(domain), Utf16(user),
         IF mic # None THEN Utf16("HOST") ELSE <<>>, <<Encrypted(<<"session", hash, proof>>, random.key)>>>>

LEMMA MessageMade ==
    ASSUME NEW c, NEW p, NEW b, NEW flags, NEW mic, NEW target, NEW shown, NEW random, NEW clock,
           NEW parts, PartsOf(HashOf(p), NonceOf(c), BlobOf(c, b, mic, target, random, clock), random, mic,
                              IF shown = None THEN p.domain ELSE shown, p.user) = parts
    PROVE  AuthenticateMessage(c, p, b, flags, mic, target, shown, random, clock) =
              IF mic = None THEN Type3Message(flags, mic, <<>>, parts)
              ELSE Type3Message(flags, mic, Mic(random.key, mic, Type3Message(flags, mic, <<>>, parts)), parts)
  BY ZenonT(60) DEF AuthenticateMessage, TimeOf, NonceOf, BlobOf, HashOf, PartsOf

\* The header before six parts.
Head3(n, p, h, sum) ==
    <<n, "type3", [lm          |-> SecurityBuffer(Size(p[1]), Offsets(n, p)[1]),
                   nt          |-> SecurityBuffer(Size(p[2]), Offsets(n, p)[2]),
                   domain      |-> SecurityBuffer(Size(p[3]), Offsets(n, p)[3]),
                   user        |-> SecurityBuffer(Size(p[4]), Offsets(n, p)[4]),
                   workstation |-> SecurityBuffer(Size(p[5]), Offsets(n, p)[5]),
                   key         |-> SecurityBuffer(Size(p[6]), Offsets(n, p)[6]),
                   flags       |-> h, mic |-> sum]>>

LEMMA MessageIs ==
    ASSUME NEW p, SixParts(p), NEW h, "VERSION" \in h, NEW sum, NEW mic, NEW n \in Nat \ {0},
           n = IF mic # None THEN 88 ELSE 72
    PROVE  Type3Message(h, mic, sum, p) = <<Head3(n, p, h, sum)>> \o Joined(p)
<1>. DEFINE size == 64 + (IF "VERSION" \in h THEN 8 ELSE 0) + (IF mic # None THEN 16 ELSE 0)
            sb   == [i \in DOMAIN p |-> SecurityBuffer(Size(p[i]), Offsets(size, p)[i])]
            x    == <<size, "type3", [lm |-> sb[1], nt |-> sb[2], domain |-> sb[3], user |-> sb[4],
                                      workstation |-> sb[5], key |-> sb[6], flags |-> h, mic |-> sum]>>
<1>7. Type3Message(h, mic, sum, p) = <<x>> \o p[1] \o p[2] \o p[3] \o p[4] \o p[5] \o p[6]
  BY DEF Type3Message
<1>2. size = n
  OBVIOUS
<1>4. DOMAIN p = 1 .. 6
  BY DEF SixParts
<1>. HIDE DEF size
<1>5. \A i \in 1 .. 6 : sb[i] = SecurityBuffer(Size(p[i]), Offsets(n, p)[i])
  BY <1>2, <1>4
<1>. HIDE DEF sb
<1>6. x = <<n, "type3", [lm |-> sb[1], nt |-> sb[2], domain |-> sb[3], user |-> sb[4],
                         workstation |-> sb[5], key |-> sb[6], flags |-> h, mic |-> sum]>>
  BY <1>2
<1>. HIDE DEF x
<1>8. x = Head3(n, p, h, sum)
  <2>1. /\ sb[1] = SecurityBuffer(Size(p[1]), Offsets(n, p)[1]) /\ sb[2] = SecurityBuffer(Size(p[2]), Offsets(n, p)[2])
        /\ sb[3] = SecurityBuffer(Size(p[3]), Offsets(n, p)[3]) /\ sb[4] = SecurityBuffer(Size(p[4]), Offsets(n, p)[4])
        /\ sb[5] = SecurityBuffer(Size(p[5]), Offsets(n, p)[5]) /\ sb[6] = SecurityBuffer(Size(p[6]), Offsets(n, p)[6])
    BY <1>5
  <2>. QED  BY <1>6, <2>1, SMTT(60) DEF Head3
<1>9. IsOctets(<<x>>)
  <2>1. x[1] = n
    BY <1>6
  <2>. QED  BY <2>1, OctetsOne
<1>10. InPlace(<<x>>, p)
  BY <1>9, JoinedIs
<1>11. <<x>> \o p[1] \o p[2] \o p[3] \o p[4] \o p[5] \o p[6] = <<x>> \o Joined(p)
  <2>1. PICK q2, q3, q4, q6, r2, r3, r4, r6 : Placed(<<x>>, p, q2, q3, q4, q6, r2, r3, r4, r6)
    BY <1>10, Zenon DEF InPlace
  <2>. QED  BY <2>1, Zenon DEF Placed
<1>. QED  BY <1>7, <1>8, <1>11, Zenon

\* The parts of the message of this person, to this server, on this path.
Time3(s)    == IF AvValue(InfoOf(s), "TIMESTAMP") = None THEN "now" ELSE AvValue(InfoOf(s), "TIMESTAMP")
Blob3(s, w) == Blob(Time3(s), Random.challenge, Info3(s, w))
Nonce3      == <<<<8, "challenge", "server challenge">>>>
Proof3(p, s, w) == Hmac(HashOf(p), Nonce3 \o Blob3(s, w))
Key3(p, s, w)   == Encrypted(<<"session", HashOf(p), Proof3(p, s, w)>>, Random.key)
Named(p, w)     == IF w = "credssp" THEN "" ELSE p.domain
Mark(w)         == IF w = "tls" THEN None ELSE Random
Parts3(p, s, w) == PartsOf(HashOf(p), Nonce3, Blob3(s, w), Random, Mark(w), Named(p, w), p.user)

LEMMA MarkIs == ASSUME NoneIsApart, NEW w PROVE Mark(w) # None <=> w # "tls"
<1>1. PICK r : r = Random
  OBVIOUS
<1>2. r = [x \in DOMAIN r |-> r[x]]
  BY <1>1 DEF Random
<1>3. r # None
  BY <1>2, Zenon DEF NoneIsApart
<1>. QED  BY <1>1, <1>3 DEF Mark

LEMMA SamePartsOf ==
    ASSUME NEW hash, NEW nonce, NEW blob, NEW random, NEW domain, NEW user, NEW mic, NEW mark,
           mic # None <=> mark # None
    PROVE  PartsOf(hash, nonce, blob, random, mic, domain, user) = PartsOf(hash, nonce, blob, random, mark, domain, user)
<1>1. LmResponse(hash, nonce, random, mic) = LmResponse(hash, nonce, random, mark)
  BY Zenon DEF LmResponse
<1>2. (IF mic # None THEN Utf16("HOST") ELSE <<>>) = (IF mark # None THEN Utf16("HOST") ELSE <<>>)
  BY Zenon
<1>. QED  BY <1>1, <1>2, Zenon DEF PartsOf

\* Persons and servers as the messages need them.
IsPerson(p) == {p.user, p.domain, p.password} \subseteq DOMAIN Lengths /\ p.password # "other"

Apart(atom, n) == IsOctets(<<atom>>) /\ Size(<<atom>>) = n

LEMMA AtomIs == ASSUME NEW x, x[1] \in Nat \ {0} PROVE Apart(x, x[1]) /\ Small(<<x>>, x[1])
<1>1. IsOctets(<<x>>)
  BY OctetsOne
<1>2. Size(<<x>>) = x[1]
  BY SizeOfOne
<1>. QED  BY <1>1, <1>2 DEF Small, Apart

\* The response of a message: its proof, and what the proof is over.
AnswerIn(s, w, front, blob) ==
    /\ Pairs(front) /\ Size(front) \in Nat /\ Size(front) + 52 < Word
    /\ (LastValue(front, "FLAGS") = <<"MIC">>) <=> (w # "tls")
    /\ w = "tls" => LastValue(front, "CHANNEL_BINDINGS") = <<ChannelBindings(Cert)>>
    /\ blob = Blob3(s, w) /\ Info3(s, w) = front \o <<EndOfList>>
    /\ IsOctets(blob) /\ Size(blob) = Size(front) + 36
    /\ SubSeq(blob, 2, Len(blob)) = front \o (<<EndOfList>> \o <<<<4, "zero", 0>>>>)
    /\ Len(blob) \in Nat /\ Len(blob) >= 2

LEMMA Blob3Is ==
    ASSUME NoneIsApart, NEW s, s.info \in Infos, NEW w
    PROVE  \E front, blob : AnswerIn(s, w, front, blob)
<1>1. PICK front :
          /\ Pairs(front) /\ Info3(s, w) = front \o <<EndOfList>>
          /\ Size(front) \in Nat /\ Size(front) + 52 < Word
          /\ (LastValue(front, "FLAGS") = <<"MIC">>) <=> (w # "tls")
          /\ w = "tls" => LastValue(front, "CHANNEL_BINDINGS") = <<ChannelBindings(Cert)>>
  BY Info3Is
<1>2. PICK x, e, z : /\ x = <<28, "blob", [timestamp |-> Time3(s), clientChallenge |-> Random.challenge]>>
                     /\ e = EndOfList /\ z = <<4, "zero", 0>>
  OBVIOUS
<1>3. x[1] = 28 /\ z[1] = 4
  BY <1>2
<1>4. e[1] = 4
  BY <1>2 DEF EndOfList, Av
<1>5. Apart(x, 28) /\ Apart(e, 4) /\ Apart(z, 4)
  <2>1. x[1] \in Nat \ {0} /\ e[1] \in Nat \ {0} /\ z[1] \in Nat \ {0}
    BY <1>3, <1>4
  <2>2. Apart(x, x[1]) /\ Apart(e, e[1]) /\ Apart(z, z[1])
    BY <2>1, AtomIs
  <2>. QED  BY <1>3, <1>4, <2>2, Zenon
<1>6. PICK rest : rest = front \o (<<e>> \o <<z>>)
  OBVIOUS
<1>7. IsOctets(front)
  BY <1>1 DEF Pairs
<1>8. Shifted(front, <<e>>, <<z>>)
  BY <1>5, <1>7, Shift DEF Apart
<1>9. IsOctets(<<e>> \o <<z>>) /\ Size(<<e>> \o <<z>>) = 8
  <2>1. Size(<<e>> \o <<z>>) = Size(<<e>>) + Size(<<z>>)
    BY <1>5, SizeOfCat DEF Apart
  <2>. QED  BY <1>5, <2>1, OctetsCat DEF Apart
<1>10. IsOctets(rest) /\ Size(rest) = Size(front) + 8
  <2>1. IsOctets(front \o (<<e>> \o <<z>>)) /\ Size(front \o (<<e>> \o <<z>>)) = Size(front) + Size(<<e>> \o <<z>>)
    BY <1>7, <1>9, OctetsCat, SizeOfCat
  <2>. QED  BY <1>6, <1>9, <2>1
<1>11. Shifted(<<x>>, front \o <<e>>, <<z>>)
  <2>1. IsOctets(<<x>>) /\ IsOctets(front \o <<e>>) /\ IsOctets(<<z>>)
    BY <1>5, <1>8, Zenon DEF Apart, Shifted
  <2>. QED  BY <2>1, Shift
<1>12. PICK blob : blob = <<x>> \o rest
  OBVIOUS
<1>13. blob = Blob3(s, w)
  <2>1. Blob3(s, w) = <<x>> \o (front \o <<e>>) \o <<z>>
    BY <1>1, <1>2, Zenon DEF Blob3, Blob
  <2>2. front \o (<<e>> \o <<z>>) = (front \o <<e>>) \o <<z>>
    BY <1>8, Zenon DEF Shifted
  <2>3. <<x>> \o ((front \o <<e>>) \o <<z>>) = (<<x>> \o (front \o <<e>>)) \o <<z>>
    BY <1>11, Zenon DEF Shifted
  <2>. QED  BY <1>6, <1>12, <2>1, <2>2, <2>3, Zenon
<1>14. /\ IsOctets(blob) /\ Tail(blob) = rest /\ Len(blob) = 1 + Len(rest) /\ Size(blob) = x[1] + Size(rest)
  <2>1. x[1] \in Nat \ {0} /\ IsOctets(rest)
    BY <1>3, <1>10
  <2>. QED  BY <1>12, <2>1, HeadAndRest, ZenonT(60)
<1>15. Row(blob) /\ Len(blob) \in Nat /\ Len(rest) \in Nat
  BY <1>10, <1>14, OctetsAre
<1>16. rest # <<>>
  BY <1>1, <1>10, SizeIs
<1>17. Len(rest) >= 1
  BY <1>10, <1>15, <1>16, OctetsAre, RowEmpty
<1>18. blob # <<>>
  BY <1>14, <1>15
<1>19. SubSeq(blob, 2, Len(blob)) = rest
  BY <1>14, <1>15, <1>18, RestOf
<1>20. Size(blob) = Size(front) + 36 /\ Len(blob) >= 2
  BY <1>1, <1>3, <1>10, <1>14, <1>15, <1>17
<1>21. SubSeq(blob, 2, Len(blob)) = front \o (<<EndOfList>> \o <<<<4, "zero", 0>>>>)
  BY <1>2, <1>6, <1>19, Zenon
<1>22. AnswerIn(s, w, front, blob)
  BY <1>1, <1>13, <1>14, <1>15, <1>20, <1>21, Zenon DEF AnswerIn
<1>. QED  BY <1>22

\* The six parts, their sizes, and what the server looks at.
PartsAre(p, s, w, parts) ==
    /\ SixParts(parts)
    /\ parts[2] = <<Proof3(p, s, w)>> \o Blob3(s, w)
    /\ parts[3] = Utf16(Named(p, w)) /\ parts[4] = Utf16(p.user) /\ parts[6] = <<Key3(p, s, w)>>
    /\ Size(parts[2]) < Word /\ Size(parts[6]) = 16
    /\ Small(parts[1], 24) /\ Small(parts[3], Longest) /\ Small(parts[4], Longest) /\ Small(parts[5], Longest)

LEMMA HmacIs == ASSUME NEW k, NEW o PROVE Hmac(k, o)[1] = 16
  BY DEF Hmac

LEMMA EncryptedIs == ASSUME NEW k, NEW o PROVE Encrypted(k, o)[1] = 16
  BY DEF Encrypted

LEMMA SixIs ==
    ASSUME NEW a, NEW b, NEW c, NEW d, NEW e, NEW f, NEW parts, parts = <<a, b, c, d, e, f>>,
           IsOctets(a), IsOctets(b), IsOctets(c), IsOctets(d), IsOctets(e), IsOctets(f)
    PROVE  SixParts(parts) /\ parts[1] = a /\ parts[2] = b /\ parts[3] = c /\ parts[4] = d /\ parts[5] = e /\ parts[6] = f
<1>1. parts[1] = a /\ parts[2] = b /\ parts[3] = c /\ parts[4] = d /\ parts[5] = e /\ parts[6] = f
  OBVIOUS
<1>2. parts = <<parts[1], parts[2], parts[3], parts[4], parts[5], parts[6]>>
  BY <1>1, Zenon
<1>3. \A i \in 1 .. 6 : i = 1 \/ i = 2 \/ i = 3 \/ i = 4 \/ i = 5 \/ i = 6
  OBVIOUS
<1>4. \A i \in 1 .. 6 : IsOctets(parts[i])
  BY <1>1, <1>3, Zenon
<1>. QED  BY <1>1, <1>2, <1>4, Zenon DEF SixParts

LEMMA LmIs == ASSUME NEW hash, NEW nonce, NEW random, NEW mic PROVE Small(LmResponse(hash, nonce, random, mic), 24)
<1>1. CASE mic # None
  <2>1. PICK z : z = <<24, "zero", 0>>
    OBVIOUS
  <2>2. z[1] \in Nat \ {0} /\ z[1] = 24
    BY <2>1
  <2>3. Small(<<z>>, z[1])
    BY <2>2, AtomIs
  <2>. QED  BY <1>1, <2>1, <2>2, <2>3, Zenon DEF LmResponse
<1>2. CASE ~(mic # None)
  <2>1. PICK x, y : x = Hmac(hash, nonce \o <<<<8, "challenge", random.challenge>>>>) /\ y = <<8, "challenge", random.challenge>>
    OBVIOUS
  <2>2. x[1] = 16
    BY <2>1, HmacIs
  <2>3. y[1] = 8
    BY <2>1
  <2>4. Small(<<x>>, 16) /\ Small(<<y>>, 8)
    <3>1. x[1] \in Nat \ {0} /\ y[1] \in Nat \ {0}
      BY <2>2, <2>3
    <3>2. Small(<<x>>, x[1]) /\ Small(<<y>>, y[1])
      BY <3>1, AtomIs
    <3>. QED  BY <2>2, <2>3, <3>2, Zenon
  <2>5. Small(<<x>> \o <<y>>, 16 + 8)
    BY <2>4, SmallCat
  <2>6. <<x, y>> = <<x>> \o <<y>>
    BY TwoInARow
  <2>7. LmResponse(hash, nonce, random, mic) = <<x, y>>
    BY <1>2, <2>1, Zenon DEF LmResponse
  <2>8. 16 + 8 = 24
    OBVIOUS
  <2>. QED  BY <2>5, <2>6, <2>7, <2>8, Zenon
<1>. QED  BY <1>1, <1>2

LEMMA Parts3Are ==
    ASSUME NoneIsApart, NEW s, s.info \in Infos, NEW w, NEW p, IsPerson(p)
    PROVE  PartsAre(p, s, w, Parts3(p, s, w))
<1>1. PICK front, blob : AnswerIn(s, w, front, blob)
  BY Blob3Is
<1>2. IsOctets(blob) /\ Size(blob) = Size(front) + 36 /\ Size(front) \in Nat /\ Size(front) + 52 < Word /\ blob = Blob3(s, w)
  BY <1>1, Zenon DEF AnswerIn
<1>3. PICK a, b, c, d, e, f, x, y :
         /\ a = LmResponse(HashOf(p), Nonce3, Random, Mark(w)) /\ b = <<x>> \o blob
         /\ c = Utf16(Named(p, w)) /\ d = Utf16(p.user)
         /\ e = (IF Mark(w) # None THEN Utf16("HOST") ELSE <<>>) /\ f = <<y>>
         /\ x = Proof3(p, s, w) /\ y = Key3(p, s, w)
  OBVIOUS
<1>4. x[1] = 16 /\ y[1] = 16
  BY <1>3, HmacIs, EncryptedIs DEF Proof3, Key3
<1>5. Small(a, 24)
  BY <1>3, LmIs
<1>6. Apart(x, 16) /\ Apart(y, 16)
  <2>1. x[1] \in Nat \ {0} /\ y[1] \in Nat \ {0}
    BY <1>4
  <2>2. Apart(x, x[1]) /\ Apart(y, y[1])
    BY <2>1, AtomIs
  <2>. QED  BY <1>4, <2>2, Zenon
<1>7. IsOctets(b) /\ Size(b) < Word
  <2>1. IsOctets(<<x>> \o blob) /\ Size(<<x>> \o blob) = Size(<<x>>) + Size(blob)
    BY <1>2, <1>6, OctetsCat, SizeOfCat DEF Apart
  <2>2. Size(<<x>>) = 16
    BY <1>6 DEF Apart
  <2>. QED  BY <1>2, <1>3, <2>1, <2>2, Bounds
<1>8. Small(c, Longest)
  <2>1. Named(p, w) \in DOMAIN Lengths
    BY TextsAssumption, Zenon DEF Named, IsPerson
  <2>. QED  BY <1>3, <2>1, TextIs
<1>9. Small(d, Longest)
  <2>1. p.user \in DOMAIN Lengths
    BY Zenon DEF IsPerson
  <2>. QED  BY <1>3, <2>1, TextIs
<1>10. Small(e, Longest)
  <2>1. Small(<<>>, Longest)
    <3>1. IsOctets(<<>>) /\ Size(<<>>) = 0
      BY OctetsEmpty, SizeIs
    <3>. QED  BY <3>1, Bounds DEF Small
  <2>. QED  BY <1>3, <2>1, HostIs
<1>11. PICK parts : parts = <<a, b, c, d, e, f>>
  OBVIOUS
<1>12. SixParts(parts) /\ parts[1] = a /\ parts[2] = b /\ parts[3] = c /\ parts[4] = d /\ parts[5] = e /\ parts[6] = f
  <2>1. IsOctets(a) /\ IsOctets(b) /\ IsOctets(c) /\ IsOctets(d) /\ IsOctets(e) /\ IsOctets(f)
    BY <1>3, <1>5, <1>6, <1>7, <1>8, <1>9, <1>10, Zenon DEF Small, Apart
  <2>. QED  BY <1>11, <2>1, SixIs
<1>13. parts = Parts3(p, s, w)
  BY <1>2, <1>3, <1>11, Zenon DEF Parts3, PartsOf, Proof3, Key3
<1>14. Size(f) = 16
  BY <1>3, <1>6, Zenon DEF Apart
<1>15. PartsAre(p, s, w, parts)
  <2>1. parts[2] = <<Proof3(p, s, w)>> \o Blob3(s, w)
    BY <1>2, <1>3, <1>12, Zenon
  <2>2. parts[3] = Utf16(Named(p, w)) /\ parts[4] = Utf16(p.user) /\ parts[6] = <<Key3(p, s, w)>>
    BY <1>3, <1>12, Zenon
  <2>3. Size(parts[2]) < Word /\ Size(parts[6]) = 16
    BY <1>7, <1>12, <1>14, Zenon
  <2>4. Small(parts[1], 24) /\ Small(parts[3], Longest) /\ Small(parts[4], Longest) /\ Small(parts[5], Longest)
    BY <1>5, <1>8, <1>9, <1>10, <1>12, Zenon
  <2>. QED  BY <1>12, <2>1, <2>2, <2>3, <2>4, Zenon DEF PartsAre
<1>. QED  BY <1>13, <1>15, Zenon

HeadSize(w) == IF w = "tls" THEN 72 ELSE 88

Third1(p, s, w, h, sum) == Head3(HeadSize(w), Parts3(p, s, w), h, sum)

Third(p, s, w, h, sum) == <<Third1(p, s, w, h, sum)>> \o Joined(Parts3(p, s, w))

LEMMA Third1Is ==
    ASSUME NEW p, NEW s, NEW w, NEW h, NEW sum
    PROVE  /\ Third1(p, s, w, h, sum)[1] = HeadSize(w) /\ Third1(p, s, w, h, sum)[2] = "type3"
           /\ Third1(p, s, w, h, sum)[3].flags = h /\ Third1(p, s, w, h, sum)[3].mic = sum
           /\ Third1(p, s, w, h, sum)[1] \in Nat \ {0} /\ Third1(p, s, w, h, sum)[1] <= 88
<1>1. HeadSize(w) \in Nat \ {0} /\ HeadSize(w) <= 88
  BY DEF HeadSize
<1>2. /\ Third1(p, s, w, h, sum)[1] = HeadSize(w) /\ Third1(p, s, w, h, sum)[2] = "type3"
      /\ Third1(p, s, w, h, sum)[3].flags = h /\ Third1(p, s, w, h, sum)[3].mic = sum
  BY DEF Third1, Head3
<1>. QED  BY <1>1, <1>2, Zenon

\* A message is its header and the parts; how long it can be.
LEMMA ThirdIs ==
    ASSUME NoneIsApart, NEW s, s.info \in Infos, NEW w, NEW p, IsPerson(p), NEW h, NEW sum
    PROVE  /\ IsOctets(Third(p, s, w, h, sum)) /\ Third(p, s, w, h, sum)[1] = Third1(p, s, w, h, sum)
           /\ Tail(Third(p, s, w, h, sum)) = Joined(Parts3(p, s, w))
           /\ Small(Third(p, s, w, h, sum), Message)
           /\ IsOctets(Joined(Parts3(p, s, w)))
<1>1. PICK parts : parts = Parts3(p, s, w) /\ PartsAre(p, s, w, parts)
  BY Parts3Are
<1>2. PICK x : x = Third1(p, s, w, h, sum)
  OBVIOUS
<1>3. x[1] \in Nat \ {0} /\ x[1] <= 88
  BY <1>2, Third1Is, Zenon
<1>4. Apart(x, x[1])
  BY <1>3, AtomIs
<1>5. InPlace(<<x>>, parts)
  BY <1>1, <1>4, JoinedIs DEF PartsAre, Apart
<1>6. /\ IsOctets(Joined(parts))
      /\ Size(Joined(parts)) = Size(parts[1]) + Size(parts[2]) + Size(parts[3]) + Size(parts[4]) + Size(parts[5]) + Size(parts[6])
  <2>1. PICK q2, q3, q4, q6, r2, r3, r4, r6 : Placed(<<x>>, parts, q2, q3, q4, q6, r2, r3, r4, r6)
    BY <1>5, Zenon DEF InPlace
  <2>. QED  BY <2>1, Zenon DEF Placed
<1>10. PICK m : m = <<x>> \o Joined(parts)
  OBVIOUS
<1>7. IsOctets(m) /\ m[1] = x /\ Tail(m) = Joined(parts) /\ Size(m) = x[1] + Size(Joined(parts))
  <2>1. x[1] \in Nat \ {0} /\ IsOctets(Joined(parts))
    BY <1>3, <1>6
  <2>. QED  BY <1>10, <2>1, HeadAndRest, ZenonT(60)
<1>8. Third(p, s, w, h, sum) = m
  BY <1>1, <1>2, <1>10, Zenon DEF Third
<1>9. Size(m) <= Message
  <2>1. /\ Size(parts[1]) \in Nat /\ Size(parts[1]) <= 24 /\ Size(parts[2]) \in Nat /\ Size(parts[2]) < Word
        /\ Size(parts[3]) \in Nat /\ Size(parts[3]) <= Longest /\ Size(parts[4]) \in Nat /\ Size(parts[4]) <= Longest
        /\ Size(parts[5]) \in Nat /\ Size(parts[5]) <= Longest /\ Size(parts[6]) = 16
    <3>1. /\ Size(parts[2]) < Word /\ Size(parts[6]) = 16 /\ SixParts(parts)
          /\ Small(parts[1], 24) /\ Small(parts[3], Longest) /\ Small(parts[4], Longest) /\ Small(parts[5], Longest)
      BY <1>1, Zenon DEF PartsAre
    <3>2. IsOctets(parts[2])
      BY <3>1 DEF SixParts
    <3>. QED  BY <3>1, <3>2, SizeIs DEF Small
  <2>2. PICK a, b, c, d, e, f, j, k : /\ a = Size(parts[1]) /\ b = Size(parts[2]) /\ c = Size(parts[3]) /\ d = Size(parts[4])
                                       /\ e = Size(parts[5]) /\ f = Size(parts[6]) /\ j = Size(Joined(parts)) /\ k = x[1]
    OBVIOUS
  <2>3. j = a + b + c + d + e + f /\ Size(m) = k + j
    BY <1>6, <1>7, <2>2, Zenon
  <2>4. /\ a \in Nat /\ a <= 24 /\ b \in Nat /\ b < Word /\ c \in Nat /\ c <= Longest /\ d \in Nat /\ d <= Longest
        /\ e \in Nat /\ e <= Longest /\ f = 16 /\ k \in Nat /\ k <= 88
    BY <1>3, <2>1, <2>2
  <2>5. k + j <= Message
    BY <2>3, <2>4, Bounds
  <2>. QED  BY <2>3, <2>5, Zenon
<1>. QED  BY <1>1, <1>2, <1>6, <1>7, <1>8, <1>9, Zenon DEF Small

\* The flags of the messages, and the sum in the third.
F0(w) == IF w = "credssp" THEN TYPE1_FLAGS_CREDSSP ELSE TYPE1_FLAGS

Flags3(w, g) == IF w = "credssp" THEN g \cup {"KEY_EXCH", "VERSION"} \cup {"SEAL", "SIGN"}
                ELSE g \cup {"KEY_EXCH", "VERSION"}

SumOver(f, k, p, s, w, h) ==
    Hmac(Random.key, NegotiateMessage(f) \o Second(s, k) \o Third(p, s, w, h, <<>>))

Sum3(p, s, w, g) == IF w = "tls" THEN <<>> ELSE <<SumOver(F0(w), g, p, s, w, Flags3(w, g))>>

\* What the client writes is that message.
LEMMA Type3Is ==
    ASSUME NoneIsApart, NEW g, server.info \in Infos, IsPerson(person), path \in Paths,
           client.type1 = NegotiateMessage(F0(path)), NEW type2, type2 = Second(server, g),
           NEW c, c = Parsed(server, g)
    PROVE  Type3(type2, c) = Third(person, server, path, Flags3(path, g), Sum3(person, server, path, g))
<1>1. PICK s : s = server
  OBVIOUS
<1>2. PICK parts : parts = Parts3(person, s, path) /\ PartsAre(person, s, path, parts)
  <2>1. s.info \in Infos
    BY <1>1
  <2>. QED  BY <2>1, Parts3Are
<1>3. SixParts(parts)
  BY <1>2, Zenon DEF PartsAre
<1>4. /\ c.serverChallenge = "server challenge" /\ c.flags = g /\ c.targetInfo = InfoOf(s)
      /\ c.timestamp = AvValue(InfoOf(s), "TIMESTAMP")
  BY <1>1 DEF Parsed
<1>5. NonceOf(c) = Nonce3 /\ TimeOf(c, "now") = Time3(s)
  BY <1>4, Zenon DEF NonceOf, Nonce3, TimeOf, Time3
<1>6. "VERSION" \in Flags3(path, g)
  BY DEF Flags3
<1>7. ASSUME NEW mic, NEW b, mic # None <=> path # "tls", b = Bindings(path), NEW target, mic # None => target = Spn,
             NEW shown, (IF shown = None THEN person.domain ELSE shown) = Named(person, path)
      PROVE  PartsOf(HashOf(person), NonceOf(c), BlobOf(c, b, mic, target, Random, "now"), Random, mic,
                     IF shown = None THEN person.domain ELSE shown, person.user) = parts
  <2>1. AuthTargetInfo(c.targetInfo, b, mic # None, target) = Info3(s, path)
    <3>1. CASE path = "tls"
      <4>1. ~(mic # None) /\ ~(path # "tls")
        BY <1>7, <3>1
      <4>. QED  BY <1>4, <1>7, <4>1, Zenon DEF Info3, AuthTargetInfo
    <3>2. CASE path # "tls"
      <4>1. mic # None /\ target = Spn
        BY <1>7, <3>2
      <4>. QED  BY <1>4, <1>7, <3>2, <4>1, Zenon DEF Info3, AuthTargetInfo
    <3>. QED  BY <3>1, <3>2
  <2>2. BlobOf(c, b, mic, target, Random, "now") = Blob3(s, path)
    BY <1>5, <2>1, Zenon DEF BlobOf, Blob3
  <2>3. mic # None <=> Mark(path) # None
    BY <1>7, MarkIs
  <2>4. PartsOf(HashOf(person), Nonce3, Blob3(s, path), Random, mic, Named(person, path), person.user)
        = PartsOf(HashOf(person), Nonce3, Blob3(s, path), Random, Mark(path), Named(person, path), person.user)
    BY <2>3, SamePartsOf
  <2>. QED  BY <1>2, <1>5, <1>7, <2>2, <2>4, Zenon DEF Parts3
<1>8. Mirrored(c) = g \cup {"KEY_EXCH", "VERSION"}
  BY <1>4 DEF Mirrored
<1>9. CASE path = "tls"
  <2>1. PICK b, n : b = ChannelBindings(Cert) /\ n = None
    OBVIOUS
  <2>2. Type3(type2, c) = AuthenticateMessage(c, person, b, Mirrored(c), n, n, n, Random, "now")
    BY <1>9, <2>1, Zenon DEF Type3, AuthenticateWithCbt
  <2>3. PartsOf(HashOf(person), NonceOf(c), BlobOf(c, b, n, n, Random, "now"), Random, n,
                IF n = None THEN person.domain ELSE n, person.user) = parts
    <3>1. (n # None <=> path # "tls") /\ b = Bindings(path) /\ (n # None => n = Spn)
      BY <1>9, <2>1 DEF Bindings
    <3>2. (IF n = None THEN person.domain ELSE n) = Named(person, path)
      BY <1>9, <2>1 DEF Named
    <3>. QED  BY <1>7, <3>1, <3>2, Zenon
  <2>4. Type3(type2, c) = Type3Message(Mirrored(c), n, <<>>, parts)
    <3>1. AuthenticateMessage(c, person, b, Mirrored(c), n, n, n, Random, "now") =
             IF n = None THEN Type3Message(Mirrored(c), n, <<>>, parts)
             ELSE Type3Message(Mirrored(c), n, Mic(Random.key, n, Type3Message(Mirrored(c), n, <<>>, parts)), parts)
      BY <2>3, MessageMade
    <3>. QED  BY <2>1, <2>2, <3>1, Zenon
  <2>5. HeadSize(path) = 72 /\ Flags3(path, g) = Mirrored(c) /\ Sum3(person, server, path, g) = <<>>
    BY <1>8, <1>9 DEF HeadSize, Flags3, Sum3
  <2>6. 72 \in Nat \ {0} /\ 72 = IF n # None THEN 88 ELSE 72
    BY <2>1
  <2>7. Type3Message(Flags3(path, g), n, <<>>, parts) = <<Head3(72, parts, Flags3(path, g), <<>>)>> \o Joined(parts)
    BY <1>3, <1>6, <2>6, MessageIs
  <2>. QED  BY <1>1, <1>2, <2>4, <2>5, <2>7, Zenon DEF Third, Third1
<1>10. CASE path # "tls"
  <2>1. PICK mic : mic = [type1 |-> client.type1, type2 |-> type2]
    OBVIOUS
  <2>2. mic # None /\ mic.type1 = client.type1 /\ mic.type2 = type2
    <3>1. mic = [x \in DOMAIN mic |-> mic[x]]
      BY <2>1
    <3>2. mic # None
      BY <3>1, Zenon DEF NoneIsApart
    <3>. QED  BY <2>1, <3>2
  <2>3. PICK n, shown : n = None /\ shown = IF path = "credssp" THEN "" ELSE None
    OBVIOUS
  <2>4. Type3(type2, c) = AuthenticateMessage(c, person, n, Flags3(path, g), mic, Spn, shown, Random, "now")
    <3>1. CASE path = "credssp"
      <4>1. shown = "" /\ Flags3(path, g) = Mirrored(c) \cup {"SEAL", "SIGN"}
        BY <1>8, <2>3, <3>1, Zenon DEF Flags3
      <4>2. Type3(type2, c) = AuthenticateCredSsp(c, person, client.type1, type2, Spn, Random, "now")
        BY <3>1, Zenon DEF Type3
      <4>. QED  BY <2>1, <2>3, <4>1, <4>2, Zenon DEF AuthenticateCredSsp
    <3>2. CASE path # "credssp"
      <4>1. shown = None /\ Flags3(path, g) = Mirrored(c)
        BY <1>8, <2>3, <3>2, Zenon DEF Flags3
      <4>2. Type3(type2, c) = AuthenticateWithMic(c, person, client.type1, type2, Spn, Random, "now")
        <5>1. path = "http" \/ path = "tlsUncaptured"
          BY <1>10, <3>2 DEF Paths
        <5>. QED  BY <1>10, <5>1, Zenon DEF Type3
      <4>. QED  BY <2>1, <2>3, <4>1, <4>2, Zenon DEF AuthenticateWithMic
    <3>. QED  BY <3>1, <3>2
  <2>5. PartsOf(HashOf(person), NonceOf(c), BlobOf(c, n, mic, Spn, Random, "now"), Random, mic,
                IF shown = None THEN person.domain ELSE shown, person.user) = parts
    <3>1. (mic # None <=> path # "tls") /\ n = Bindings(path)
      BY <1>10, <2>2, <2>3, Zenon DEF Bindings
    <3>2. (IF shown = None THEN person.domain ELSE shown) = Named(person, path)
      <4>1. "" # None
        BY Zenon DEF NoneIsApart
      <4>. QED  BY <2>3, <4>1, Zenon DEF Named
    <3>. QED  BY <1>7, <3>1, <3>2, Zenon
  <2>6. Type3(type2, c) = Type3Message(Flags3(path, g), mic, Mic(Random.key, mic, Type3Message(Flags3(path, g), mic, <<>>, parts)), parts)
    <3>1. AuthenticateMessage(c, person, n, Flags3(path, g), mic, Spn, shown, Random, "now") =
             IF mic = None THEN Type3Message(Flags3(path, g), mic, <<>>, parts)
             ELSE Type3Message(Flags3(path, g), mic, Mic(Random.key, mic, Type3Message(Flags3(path, g), mic, <<>>, parts)), parts)
      BY <2>5, MessageMade
    <3>. QED  BY <2>2, <2>4, <3>1, Zenon
  <2>7. HeadSize(path) = 88
    BY <1>10 DEF HeadSize
  <2>8. \A sum : Type3Message(Flags3(path, g), mic, sum, parts) = Third(person, server, path, Flags3(path, g), sum)
    <3>. TAKE sum
    <3>1. 88 \in Nat \ {0} /\ 88 = IF mic # None THEN 88 ELSE 72
      BY <2>2
    <3>2. Type3Message(Flags3(path, g), mic, sum, parts) = <<Head3(88, parts, Flags3(path, g), sum)>> \o Joined(parts)
      BY <1>3, <1>6, <3>1, MessageIs
    <3>. QED  BY <1>1, <1>2, <2>7, <3>2, Zenon DEF Third, Third1
  <2>9. Mic(Random.key, mic, Third(person, server, path, Flags3(path, g), <<>>)) = Sum3(person, server, path, g)
    BY <1>10, <2>2, Zenon DEF Mic, Sum3, SumOver
  <2>. QED  BY <2>6, <2>8, <2>9, Zenon
<1>. QED  BY <1>9, <1>10

-----------------------------------------------------------------------------
(* The third message, read.                                                  *)

PartAt(a, b, c, m, from, sb) ==
    /\ IsOctets(a) /\ IsOctets(b) /\ IsOctets(c) /\ a \o (b \o c) = m
    /\ Size(a) = from /\ Size(b) < Word /\ SecurityBuffer(Size(b), from) = sb

LEMMA ReadPart ==
    ASSUME NEW a, NEW b, NEW c, NEW m, NEW from, NEW sb, PartAt(a, b, c, m, from, sb)
    PROVE  At(m, sb) = b
<1>1. /\ IsOctets(a) /\ IsOctets(b) /\ IsOctets(c) /\ a \o (b \o c) = m
      /\ Size(a) = from /\ Size(b) < Word /\ SecurityBuffer(Size(b), from) = sb
  BY DEF PartAt
<1>2. Size(b) \in Nat
  BY <1>1, SizeIs
<1>3. SecurityBuffer(Size(b), from).len = Size(b) /\ SecurityBuffer(Size(b), from).offset = from
  BY <1>1, <1>2, BufferIs
<1>4. Slice(a \o (b \o c), Size(a), Size(b)) = b
  BY <1>1, SliceMiddle
<1>. QED  BY <1>1, <1>3, <1>4, Zenon DEF At

ReadsAs(t, p, s, w) ==
    /\ At(t, t[1][3].nt) = <<Proof3(p, s, w)>> \o Blob3(s, w)
    /\ At(t, t[1][3].key) = <<Key3(p, s, w)>>
    /\ Size(Utf16(p.user)) < Word => At(t, t[1][3].user) = Utf16(p.user)
    /\ Size(Utf16(Named(p, w))) < Word => At(t, t[1][3].domain) = Utf16(Named(p, w))

LEMMA ThirdRead ==
    ASSUME NoneIsApart, NEW s, s.info \in Infos, NEW w, NEW p, IsPerson(p), NEW h, NEW sum,
           NEW t, Third(p, s, w, h, sum) = t
    PROVE  ReadsAs(t, p, s, w)
<1>1. PICK parts : parts = Parts3(p, s, w) /\ PartsAre(p, s, w, parts)
  BY Parts3Are
<1>2. PICK x : x = Third1(p, s, w, h, sum)
  OBVIOUS
<1>3. x[1] = HeadSize(w) /\ x[1] \in Nat \ {0}
  <2>1. Third1(p, s, w, h, sum)[1] = HeadSize(w) /\ Third1(p, s, w, h, sum)[1] \in Nat \ {0}
    BY Third1Is
  <2>. QED  BY <1>2, <2>1, Zenon
<1>4. Apart(x, x[1])
  BY <1>3, AtomIs
<1>5. SixParts(parts) /\ \A i \in 1 .. 6 : IsOctets(parts[i])
  <2>1. SixParts(parts)
    BY <1>1, Zenon DEF PartsAre
  <2>. QED  BY <2>1 DEF SixParts
<1>6. InPlace(<<x>>, parts)
  BY <1>4, <1>5, JoinedIs DEF Apart
<1>7. PICK q2, q3, q4, q6, r2, r3, r4, r6 : Placed(<<x>>, parts, q2, q3, q4, q6, r2, r3, r4, r6)
  BY <1>6, Zenon DEF InPlace
<1>8. t = <<x>> \o Joined(parts)
  BY <1>1, <1>2, Zenon DEF Third
<1>9. t[1] = x
  BY <1>2, ThirdIs
<1>10. PICK n : n = HeadSize(w)
  OBVIOUS
<1>11. PICK at : at = Offsets(n, parts)
  OBVIOUS
<1>12. /\ x[3].nt = SecurityBuffer(Size(parts[2]), at[2]) /\ x[3].domain = SecurityBuffer(Size(parts[3]), at[3])
       /\ x[3].user = SecurityBuffer(Size(parts[4]), at[4]) /\ x[3].key = SecurityBuffer(Size(parts[6]), at[6])
  <2>1. x = Head3(n, parts, h, sum)
    BY <1>1, <1>2, <1>10, Zenon DEF Third1
  <2>2. /\ Head3(n, parts, h, sum)[3].nt = SecurityBuffer(Size(parts[2]), Offsets(n, parts)[2])
        /\ Head3(n, parts, h, sum)[3].domain = SecurityBuffer(Size(parts[3]), Offsets(n, parts)[3])
        /\ Head3(n, parts, h, sum)[3].user = SecurityBuffer(Size(parts[4]), Offsets(n, parts)[4])
        /\ Head3(n, parts, h, sum)[3].key = SecurityBuffer(Size(parts[6]), Offsets(n, parts)[6])
    BY DEF Head3
  <2>. QED  BY <1>11, <2>1, <2>2, Zenon
<1>13. Size(<<x>>) = n /\ n \in Nat
  BY <1>3, <1>4, <1>10 DEF Apart
<1>14. /\ at[2] = n + Size(parts[1]) /\ at[3] = n + Size(parts[1]) + Size(parts[2])
       /\ at[4] = n + Size(parts[1]) + Size(parts[2]) + Size(parts[3])
       /\ at[6] = n + Size(parts[1]) + Size(parts[2]) + Size(parts[3]) + Size(parts[4]) + Size(parts[5])
  <2>1. SixParts(parts) /\ n \in Nat
    BY <1>5, <1>13
  <2>. QED  BY <1>11, <2>1, StartsAre
<1>15. Size(q2) = at[2] /\ Size(q3) = at[3] /\ Size(q4) = at[4] /\ Size(q6) = at[6]
  <2>1. /\ Size(q2) = n + Size(parts[1]) /\ Size(q3) = Size(q2) + Size(parts[2])
        /\ Size(q4) = Size(q3) + Size(parts[3]) /\ Size(q6) = Size(q4) + Size(parts[4]) + Size(parts[5])
    BY <1>7, <1>13, Zenon DEF Placed
  <2>. QED  BY <1>14, <2>1, Zenon
<1>16. /\ q2 \o (parts[2] \o r2) = t /\ q3 \o (parts[3] \o r3) = t /\ q4 \o (parts[4] \o r4) = t /\ q6 \o (parts[6] \o r6) = t
       /\ IsOctets(q2) /\ IsOctets(q3) /\ IsOctets(q4) /\ IsOctets(q6)
       /\ IsOctets(r2) /\ IsOctets(r3) /\ IsOctets(r4) /\ IsOctets(r6)
  BY <1>7, <1>8, Zenon DEF Placed
<1>17. IsOctets(parts[2]) /\ IsOctets(parts[3]) /\ IsOctets(parts[4]) /\ IsOctets(parts[6])
  BY <1>5
<1>18. /\ parts[2] = <<Proof3(p, s, w)>> \o Blob3(s, w) /\ parts[6] = <<Key3(p, s, w)>>
       /\ parts[3] = Utf16(Named(p, w)) /\ parts[4] = Utf16(p.user) /\ Size(parts[2]) < Word /\ Size(parts[6]) = 16
  BY <1>1, Zenon DEF PartsAre
<1>19. Size(parts[6]) < Word
  BY <1>18, Bounds
<1>20. At(t, x[3].nt) = parts[2]
  <2>1. PartAt(q2, parts[2], r2, t, at[2], x[3].nt)
    BY <1>12, <1>15, <1>16, <1>17, <1>18, Zenon DEF PartAt
  <2>. QED  BY <2>1, ReadPart
<1>21. At(t, x[3].key) = parts[6]
  <2>1. PartAt(q6, parts[6], r6, t, at[6], x[3].key)
    BY <1>12, <1>15, <1>16, <1>17, <1>19, Zenon DEF PartAt
  <2>. QED  BY <2>1, ReadPart
<1>22. ASSUME Size(parts[4]) < Word PROVE At(t, x[3].user) = parts[4]
  <2>1. PartAt(q4, parts[4], r4, t, at[4], x[3].user)
    BY <1>12, <1>15, <1>16, <1>17, <1>22, Zenon DEF PartAt
  <2>. QED  BY <2>1, ReadPart
<1>23. ASSUME Size(parts[3]) < Word PROVE At(t, x[3].domain) = parts[3]
  <2>1. PartAt(q3, parts[3], r3, t, at[3], x[3].domain)
    BY <1>12, <1>15, <1>16, <1>17, <1>23, Zenon DEF PartAt
  <2>. QED  BY <2>1, ReadPart
<1>. QED  BY <1>9, <1>18, <1>20, <1>21, <1>22, <1>23, Zenon DEF ReadsAs

\* A field of a message changed.
Stripped(x, flag) == <<x[1], x[2], [x[3] EXCEPT !.flags = @ \ {flag}]>>

LEMMA HeadChanged ==
    ASSUME NEW n, NEW p, NEW h, NEW sum, NEW x, Head3(n, p, h, sum) = x
    PROVE  /\ <<x[1], "type3", [x[3] EXCEPT !.mic = <<>>]>> = Head3(n, p, h, <<>>)
           /\ \A flag : Stripped(x, flag) = Head3(n, p, h \ {flag}, sum)
<1>1. PICK a, b, c, d, e, f :
         /\ a = SecurityBuffer(Size(p[1]), Offsets(n, p)[1]) /\ b = SecurityBuffer(Size(p[2]), Offsets(n, p)[2])
         /\ c = SecurityBuffer(Size(p[3]), Offsets(n, p)[3]) /\ d = SecurityBuffer(Size(p[4]), Offsets(n, p)[4])
         /\ e = SecurityBuffer(Size(p[5]), Offsets(n, p)[5]) /\ f = SecurityBuffer(Size(p[6]), Offsets(n, p)[6])
  OBVIOUS
<1>2. \A g, m : Head3(n, p, g, m) = <<n, "type3", [lm |-> a, nt |-> b, domain |-> c, user |-> d, workstation |-> e,
                                                    key |-> f, flags |-> g, mic |-> m]>>
  BY <1>1, Zenon DEF Head3
<1>3. x = <<n, "type3", [lm |-> a, nt |-> b, domain |-> c, user |-> d, workstation |-> e,
                          key |-> f, flags |-> h, mic |-> sum]>>
  BY <1>2
<1>4. PICK r : r = [lm |-> a, nt |-> b, domain |-> c, user |-> d, workstation |-> e, key |-> f, flags |-> h, mic |-> sum]
  OBVIOUS
<1>5. x[1] = n /\ x[2] = "type3" /\ x[3] = r
  BY <1>3, <1>4
<1>6. [r EXCEPT !.mic = <<>>] = [lm |-> a, nt |-> b, domain |-> c, user |-> d, workstation |-> e, key |-> f, flags |-> h,
                                 mic |-> <<>>]
  BY <1>4
<1>7. ASSUME NEW flag
      PROVE  [r EXCEPT !.flags = @ \ {flag}] = [lm |-> a, nt |-> b, domain |-> c, user |-> d, workstation |-> e, key |-> f,
                                                flags |-> h \ {flag}, mic |-> sum]
  BY <1>4
<1>8. <<x[1], "type3", [x[3] EXCEPT !.mic = <<>>]>> = Head3(n, p, h, <<>>)
  <2>1. PICK y : y = [lm |-> a, nt |-> b, domain |-> c, user |-> d, workstation |-> e, key |-> f, flags |-> h, mic |-> <<>>]
    OBVIOUS
  <2>2. [x[3] EXCEPT !.mic = <<>>] = y
    BY <1>5, <1>6, <2>1, Zenon
  <2>3. Head3(n, p, h, <<>>) = <<n, "type3", y>>
    BY <1>2, <2>1
  <2>. QED  BY <1>5, <2>2, <2>3, Zenon
<1>9. ASSUME NEW flag
      PROVE  Stripped(x, flag) = Head3(n, p, h \ {flag}, sum)
  <2>1. PICK y : y = [lm |-> a, nt |-> b, domain |-> c, user |-> d, workstation |-> e, key |-> f, flags |-> h \ {flag},
                      mic |-> sum]
    OBVIOUS
  <2>2. [r EXCEPT !.flags = @ \ {flag}] = y
    BY <1>7, <2>1
  <2>3. Head3(n, p, h \ {flag}, sum) = <<n, "type3", y>>
    BY <1>2, <2>1
  <2>. QED  BY <1>5, <2>2, <2>3, Zenon DEF Stripped
<1>. QED  BY <1>8, <1>9

LEMMA HmacEqual == ASSUME NEW a, NEW b, NEW o, NEW q, Hmac(a, o) = Hmac(b, q) PROVE a = b /\ o = q
  BY DEF Hmac

LEMMA HashEqual ==
    ASSUME NEW a, NEW b, NEW c, NEW d, NEW e, NEW f, Ntlmv2Hash(a, b, c) = Ntlmv2Hash(d, e, f)
    PROVE  a = d /\ b = e /\ c = f
  BY DEF Ntlmv2Hash

\* What a message signed is the message without its sum.
LEMMA PlainIs ==
    ASSUME NoneIsApart, NEW s, s.info \in Infos, NEW w, NEW p, IsPerson(p), NEW h, NEW sum,
           NEW t, Third(p, s, w, h, sum) = t
    PROVE  <<<<t[1][1], "type3", [t[1][3] EXCEPT !.mic = <<>>]>>>> \o Tail(t) = Third(p, s, w, h, <<>>)
<1>1. t[1] = Third1(p, s, w, h, sum) /\ Tail(t) = Joined(Parts3(p, s, w))
  BY ThirdIs
<1>2. PICK x : Head3(HeadSize(w), Parts3(p, s, w), h, sum) = x
  OBVIOUS
<1>3. <<x[1], "type3", [x[3] EXCEPT !.mic = <<>>]>> = Head3(HeadSize(w), Parts3(p, s, w), h, <<>>)
  BY <1>2, HeadChanged
<1>. QED  BY <1>1, <1>2, <1>3, Zenon DEF Third, Third1

LEMMA BehindTwo ==
    ASSUME NEW x, NEW r, Row(r), Len(r) >= 2, NEW s, <<x>> \o r = s
    PROVE  SubSeq(s, 3, Len(s)) = SubSeq(r, 2, Len(r)) /\ s[1] = x /\ Tail(s) = r
<1>1. r # <<>> /\ Len(r) \in Nat
  BY RowIs
<1>2. PICK y, q : y = r[1] /\ q = Tail(r)
  OBVIOUS
<1>3. q = SubSeq(r, 2, Len(r)) /\ r = <<y>> \o q /\ Row(q)
  BY <1>1, <1>2, RestOf
<1>4. Row(<<x>>) /\ Len(<<x>>) = 1 /\ Row(<<y>>) /\ Len(<<y>>) = 1
  BY RowOne
<1>5. Row(<<x>> \o <<y>>) /\ Len(<<x>> \o <<y>>) = Len(<<x>>) + Len(<<y>>)
  BY <1>4, RowCat
<1>6. SubSeq((<<x>> \o <<y>>) \o q, Len(<<x>> \o <<y>>) + 1, Len((<<x>> \o <<y>>) \o q)) = q
  BY <1>3, <1>5, CatHalves
<1>7. (<<x>> \o <<y>>) \o q = <<x>> \o (<<y>> \o q)
  BY <1>3, <1>4, CatAssociative
<1>8. Len(<<x>> \o <<y>>) + 1 = 3
  BY <1>4, <1>5
<1>9. s[1] = x /\ Tail(s) = r
  BY FirstAndRest
<1>. QED  BY <1>3, <1>6, <1>7, <1>8, <1>9, Zenon

Bound(value) == server.strict /\ path \in {"tls", "tlsUncaptured"} => value = <<ChannelBindings(Cert)>>

Keyed(t, pass, names, nt, k, sealed, pairs, plain) ==
    /\ <<Encrypted(<<"session", Ntlmv2Hash(pass, names[1], names[2]), nt[1]>>, k)>> = sealed
    /\ SubSeq(nt, 3, Len(nt)) = pairs
    /\ <<<<t[1][1], "type3", [t[1][3] EXCEPT !.mic = <<>>]>>>> \o Tail(t) = plain

LEMMA KeyByIs ==
    ASSUME NEW t, NEW pass, NEW names, NEW nt, NEW k, NEW sealed, NEW pairs, NEW plain,
           Keyed(t, pass, names, nt, k, sealed, pairs, plain)
    PROVE  KeyBy(t, pass, names, nt, sealed) =
              IF /\ AvValue(pairs, "FLAGS") = <<"MIC">> => t[1][3].mic = <<Hmac(k, reader.type1 \o reader.type2 \o plain)>>
                 /\ Bound(AvValue(pairs, "CHANNEL_BINDINGS"))
              THEN k ELSE None
<1>1. PICK x : x = Encrypted(<<"session", Ntlmv2Hash(pass, names[1], names[2]), nt[1]>>, k)
  OBVIOUS
<1>2. x[3][2] = k
  BY <1>1 DEF Encrypted
<1>3. sealed = <<x>> /\ Len(<<x>>) = 1 /\ <<x>>[1] = x
  BY <1>1 DEF Keyed
<1>4. Len(sealed) = 1 /\ sealed[1] = x /\ sealed[1][3][2] = k
  BY <1>2, <1>3
<1>. QED  BY <1>1, <1>4, Zenon DEF KeyBy, Bound, Keyed

NamesOf(t, pass, nt) ==
    {n \in (DOMAIN Lengths) \X (DOMAIN Lengths) :
        /\ Utf16(n[1]) = At(t, t[1][3].user) /\ Utf16(n[2]) = At(t, t[1][3].domain)
        /\ nt[1] = Proof(pass, n, nt)}

KeyFor(t, pass, nt, sealed) ==
    IF NamesOf(t, pass, nt) = {} THEN None
    ELSE KeyBy(t, pass, CHOOSE n \in NamesOf(t, pass, nt) : TRUE, nt, sealed)

LEMMA KeyOfIs ==
    ASSUME NEW t
    PROVE  KeyOf(t) = KeyFor(t, IF server.knows THEN person.password ELSE "other", At(t, t[1][3].nt), At(t, t[1][3].key))
  BY Zenon DEF KeyOf, KeyFor, NamesOf

\* The message t with this sum, over being the sum the server computes.
Signed(t, h, sum, over) ==
    /\ Third(person, server, path, h, sum) = t
    /\ Hmac(Random.key, reader.type1 \o reader.type2 \o Third(person, server, path, h, <<>>)) = over

Finds(key, sum, over) ==
    /\ key # None => key = Random.key /\ server.knows /\ (path # "tls" => sum = <<over>>)
    /\ (/\ server.knows /\ (path # "tls" => sum = <<over>>)
        /\ Size(Utf16(person.user)) < Word /\ Size(Utf16(person.domain)) < Word
        /\ Named(person, path) = person.domain
        /\ ~(path = "tlsUncaptured" /\ server.strict)) =>
          key = Random.key

\* The key a server finds in the message of create_authenticate_message_full:
\* the client's, and only if it knows the password and received and sent what
\* the client signed; and it finds one unless a name does not fit its field, the
\* domain was left out or the bindings are missing.
THEOREM KeyIs ==
    ASSUME NoneIsApart, server \in Servers, IsPerson(person), path \in Paths,
           NEW t, NEW h, NEW sum, NEW over, Signed(t, h, sum, over)
    PROVE  Finds(KeyOf(t), sum, over)
<1>0. /\ Third(person, server, path, h, sum) = t
      /\ Hmac(Random.key, reader.type1 \o reader.type2 \o Third(person, server, path, h, <<>>)) = over
  BY DEF Signed
<1>1. server.info \in Infos /\ server.knows \in BOOLEAN /\ server.strict \in BOOLEAN
  BY DEF Servers
<1>2. PICK front, blob : AnswerIn(server, path, front, blob)
  BY <1>1, Blob3Is
<1>3. /\ Pairs(front) /\ ((LastValue(front, "FLAGS") = <<"MIC">>) <=> (path # "tls"))
      /\ (path = "tls" => LastValue(front, "CHANNEL_BINDINGS") = <<ChannelBindings(Cert)>>)
      /\ blob = Blob3(server, path) /\ IsOctets(blob) /\ Len(blob) >= 2
      /\ SubSeq(blob, 2, Len(blob)) = front \o (<<EndOfList>> \o <<<<4, "zero", 0>>>>)
  BY <1>2, Zenon DEF AnswerIn
<1>4. PICK x, nt : x = Proof3(person, server, path) /\ nt = <<x>> \o blob
  OBVIOUS
<1>5. PICK sealed : sealed = <<Key3(person, server, path)>>
  OBVIOUS
<1>6. /\ At(t, t[1][3].nt) = nt /\ At(t, t[1][3].key) = sealed
      /\ Size(Utf16(person.user)) < Word => At(t, t[1][3].user) = Utf16(person.user)
      /\ Size(Utf16(Named(person, path))) < Word => At(t, t[1][3].domain) = Utf16(Named(person, path))
  <2>1. ReadsAs(t, person, server, path)
    BY <1>0, <1>1, ThirdRead
  <2>. QED  BY <1>3, <1>4, <1>5, <2>1, Zenon DEF ReadsAs
<1>7. PICK pairs : pairs = SubSeq(nt, 3, Len(nt))
  OBVIOUS
<1>8. nt[1] = x /\ Tail(nt) = blob /\ pairs = front \o (<<EndOfList>> \o <<<<4, "zero", 0>>>>)
  <2>1. Row(blob) /\ Len(blob) >= 2
    BY <1>3, OctetsAre
  <2>2. SubSeq(nt, 3, Len(nt)) = SubSeq(blob, 2, Len(blob)) /\ nt[1] = x /\ Tail(nt) = blob
    BY <1>4, <2>1, BehindTwo
  <2>. QED  BY <1>3, <1>7, <2>2, Zenon
<1>9. \A id : AvValue(pairs, id) = LastValue(front, id)
  <2>. TAKE id
  <2>1. PICK z : z = <<4, "zero", 0>>
    OBVIOUS
  <2>2. IsOctets(<<z>>)
    <3>1. z[1] \in Nat \ {0}
      BY <2>1
    <3>. QED  BY <3>1, OctetsOne
  <2>3. pairs = front \o (<<EndOfList>> \o <<z>>)
    BY <1>8, <2>1
  <2>4. Pairs(front)
    BY <1>3
  <2>. QED  BY <2>2, <2>3, <2>4, PairsRead
<1>10. PICK signed : signed = Third(person, server, path, h, <<>>)
  OBVIOUS
<1>11. <<<<t[1][1], "type3", [t[1][3] EXCEPT !.mic = <<>>]>>>> \o Tail(t) = signed
  BY <1>0, <1>1, <1>10, PlainIs
<1>12. t[1][3].mic = sum
  <2>1. t[1] = Third1(person, server, path, h, sum)
    BY <1>0, <1>1, ThirdIs
  <2>2. Third1(person, server, path, h, sum)[3].mic = sum
    BY Third1Is
  <2>. QED  BY <2>1, <2>2, Zenon
<1>13. over = Hmac(Random.key, reader.type1 \o reader.type2 \o signed)
  BY <1>0, <1>10
<1>14. PICK pass : pass = IF server.knows THEN person.password ELSE "other"
  OBVIOUS
<1>25. PICK names : names = NamesOf(t, pass, nt)
  OBVIOUS
<1>15. names = {n \in (DOMAIN Lengths) \X (DOMAIN Lengths) :
                     /\ Utf16(n[1]) = At(t, t[1][3].user) /\ Utf16(n[2]) = At(t, t[1][3].domain)
                     /\ nt[1] = Proof(pass, n, nt)}
  BY <1>25 DEF NamesOf
<1>16. \A n : Proof(pass, n, nt) = Hmac(Ntlmv2Hash(pass, n[1], n[2]), Nonce3 \o blob)
  BY <1>8, Zenon DEF Proof, Nonce3
<1>17. x = Hmac(HashOf(person), Nonce3 \o blob) /\ HashOf(person) = Ntlmv2Hash(person.password, person.user, person.domain)
  BY <1>3, <1>4, Zenon DEF Proof3, HashOf
<1>18. \A n \in names : Ntlmv2Hash(pass, n[1], n[2]) = HashOf(person)
  <2>. TAKE n \in names
  <2>1. Hmac(Ntlmv2Hash(pass, n[1], n[2]), Nonce3 \o blob) = Hmac(HashOf(person), Nonce3 \o blob)
    BY <1>8, <1>15, <1>16, <1>17, Zenon
  <2>. QED  BY <2>1, HmacEqual
<1>19. names # {} => server.knows
  <2>. SUFFICES ASSUME NEW n \in names PROVE server.knows
    BY Zenon
  <2>1. Ntlmv2Hash(pass, n[1], n[2]) = Ntlmv2Hash(person.password, person.user, person.domain)
    BY <1>17, <1>18, Zenon
  <2>2. pass = person.password
    BY <2>1, HashEqual
  <2>. QED  BY <1>14, <2>2, Zenon DEF IsPerson
<1>20. PICK n : n = CHOOSE m \in names : TRUE
  OBVIOUS
<1>21. KeyOf(t) = IF names = {} THEN None ELSE KeyBy(t, pass, n, nt, sealed)
  <2>1. KeyOf(t) = KeyFor(t, IF server.knows THEN person.password ELSE "other", At(t, t[1][3].nt), At(t, t[1][3].key))
    BY KeyOfIs
  <2>2. KeyOf(t) = KeyFor(t, pass, nt, sealed)
    BY <1>6, <1>14, <2>1, Zenon
  <2>. QED  BY <1>20, <1>25, <2>2, Zenon DEF KeyFor
<1>22. ASSUME names # {}
       PROVE  KeyOf(t) = IF (path # "tls" => sum = <<over>>) /\ Bound(AvValue(pairs, "CHANNEL_BINDINGS"))
                         THEN Random.key ELSE None
  <2>1. n \in names
    BY <1>20, <1>22, Zenon
  <2>2. Ntlmv2Hash(pass, n[1], n[2]) = HashOf(person)
    BY <1>18, <2>1, Zenon
  <2>3. <<Encrypted(<<"session", Ntlmv2Hash(pass, n[1], n[2]), nt[1]>>, Random.key)>> = sealed
    BY <1>4, <1>5, <1>8, <2>2, Zenon DEF Key3
  <2>4. KeyBy(t, pass, n, nt, sealed) =
              IF /\ AvValue(pairs, "FLAGS") = <<"MIC">> => t[1][3].mic = <<Hmac(Random.key, reader.type1 \o reader.type2 \o signed)>>
                 /\ Bound(AvValue(pairs, "CHANNEL_BINDINGS"))
              THEN Random.key ELSE None
    <3>1. Keyed(t, pass, n, nt, Random.key, sealed, pairs, signed)
      BY <1>7, <1>11, <2>3, Zenon DEF Keyed
    <3>. QED  BY <3>1, KeyByIs
  <2>5. AvValue(pairs, "FLAGS") = <<"MIC">> <=> path # "tls"
    BY <1>3, <1>9, Zenon
  <2>. QED  BY <1>12, <1>13, <1>21, <1>22, <2>4, <2>5, Zenon
<1>23. ASSUME KeyOf(t) # None
       PROVE  KeyOf(t) = Random.key /\ server.knows /\ (path # "tls" => sum = <<over>>)
  <2>1. names # {}
    BY <1>21, <1>23, Zenon
  <2>. QED  BY <1>19, <1>22, <1>23, <2>1, Zenon
<1>24. ASSUME server.knows, path # "tls" => sum = <<over>>, Size(Utf16(person.user)) < Word, Size(Utf16(person.domain)) < Word,
              Named(person, path) = person.domain, ~(path = "tlsUncaptured" /\ server.strict)
       PROVE  KeyOf(t) = Random.key
  <2>1. PICK m : m = <<person.user, person.domain>>
    OBVIOUS
  <2>2. m[1] = person.user /\ m[2] = person.domain /\ m \in (DOMAIN Lengths) \X (DOMAIN Lengths)
    <3>1. person.user \in DOMAIN Lengths /\ person.domain \in DOMAIN Lengths
      BY Zenon DEF IsPerson
    <3>. QED  BY <2>1, <3>1
  <2>3. Utf16(m[1]) = At(t, t[1][3].user) /\ Utf16(m[2]) = At(t, t[1][3].domain)
    BY <1>6, <1>24, <2>2, Zenon
  <2>4. pass = person.password
    BY <1>14, <1>24, Zenon
  <2>5. nt[1] = Proof(pass, m, nt)
    BY <1>8, <1>16, <1>17, <2>2, <2>4, Zenon
  <2>6. m \in names
    BY <1>15, <2>2, <2>3, <2>5, Zenon
  <2>7. Bound(AvValue(pairs, "CHANNEL_BINDINGS"))
    <3>1. CASE path = "tls"
      BY <1>3, <1>9, <3>1, Zenon DEF Bound
    <3>2. CASE path # "tls"
      <4>1. ~(server.strict /\ path \in {"tls", "tlsUncaptured"})
        BY <1>24, <3>2, Zenon
      <4>. QED  BY <4>1, Zenon DEF Bound
    <3>. QED  BY <3>1, <3>2
  <2>. QED  BY <1>22, <1>24, <2>6, <2>7, Zenon
<1>. QED  BY <1>23, <1>24, Zenon DEF Finds

\* Three messages in a row show their headers.
InThree(x, y, rest, third, m) == Row(rest) /\ Row(third) /\ third # <<>> /\ <<x>> \o (<<y>> \o rest) \o third = m

LEMMA HeadersShow ==
    ASSUME NEW x, NEW y, NEW rest, NEW third, NEW m, InThree(x, y, rest, third, m)
    PROVE  m[1] = x /\ m[2] = y /\ m[3 + Len(rest)] = third[1]
<1>0. Row(rest) /\ Row(third) /\ third # <<>> /\ <<x>> \o (<<y>> \o rest) \o third = m
  BY DEF InThree
<1>1. /\ Row(<<x>>) /\ Len(<<x>>) = 1 /\ <<x>>[1] = x /\ Row(<<y>>) /\ Len(<<y>>) = 1 /\ <<y>>[1] = y
      /\ Len(rest) \in Nat /\ Len(third) \in Nat \ {0}
  <2>1. Len(rest) \in Nat /\ Len(third) \in Nat
    BY <1>0, RowIs
  <2>2. Len(third) # 0
    BY <1>0, RowEmpty
  <2>. QED  BY <2>1, <2>2, RowOne
<1>2. PICK b : b = <<y>> \o rest
  OBVIOUS
<1>3. Row(b) /\ Len(b) = 1 + Len(rest) /\ b[1] = y
  BY <1>0, <1>2, FirstAndRest
<1>4. PICK a : a = <<x>> \o b
  OBVIOUS
<1>5. /\ Row(a) /\ Len(a) = 1 + Len(b) /\ a[1] = x /\ a[2] = y
  <2>1. /\ Row(<<x>> \o b) /\ Len(<<x>> \o b) = Len(<<x>>) + Len(b)
        /\ \A i \in 1 .. Len(<<x>>) : (<<x>> \o b)[i] = <<x>>[i]
        /\ \A i \in 1 .. Len(b) : (<<x>> \o b)[Len(<<x>>) + i] = b[i]
    BY <1>1, <1>3, RowCat
  <2>2. (<<x>> \o b)[1] = x
    BY <1>1, <2>1
  <2>3. (<<x>> \o b)[Len(<<x>>) + 1] = b[1]
    <3>1. 1 \in 1 .. Len(b)
      BY <1>1, <1>3
    <3>. QED  BY <2>1, <3>1, Zenon
  <2>4. Len(<<x>>) + 1 = 2 /\ Len(<<x>> \o b) = 1 + Len(b)
    BY <1>1, <2>1
  <2>. QED  BY <1>3, <1>4, <2>1, <2>2, <2>3, <2>4, Zenon
<1>6. /\ \A i \in 1 .. Len(a) : (a \o third)[i] = a[i]
      /\ \A i \in 1 .. Len(third) : (a \o third)[Len(a) + i] = third[i]
  BY <1>0, <1>5, RowCat
<1>7. m = a \o third
  BY <1>0, <1>2, <1>4, Zenon
<1>8. Len(a) = 2 + Len(rest)
  BY <1>1, <1>3, <1>5
<1>. QED  BY <1>1, <1>5, <1>6, <1>7, <1>8

\* The sum is over the flags of all three messages.
ShowsHeaders(m, s, w, p, g, l, j) ==
    m[1] = First(g) /\ m[2] = Second1(s, l) /\ m[3 + Len(SecondRest(s))] = Third1(p, s, w, j, <<>>)

LEMMA SumsEqual ==
    ASSUME NoneIsApart, NEW s, s.info \in Infos, NEW w, NEW p, IsPerson(p),
           NEW f, NEW k, NEW h, NEW f2, NEW k2, NEW h2, SumOver(f, k, p, s, w, h) = SumOver(f2, k2, p, s, w, h2)
    PROVE  f = f2 /\ k = k2 /\ h = h2
<1>1. ASSUME NEW g, NEW l, NEW j
      PROVE  ShowsHeaders(NegotiateMessage(g) \o Second(s, l) \o Third(p, s, w, j, <<>>), s, w, p, g, l, j)
  <2>8. PICK m : m = NegotiateMessage(g) \o Second(s, l) \o Third(p, s, w, j, <<>>)
    OBVIOUS
  <2>1. NegotiateMessage(g) = <<First(g)>>
    BY FirstIs
  <2>2. Second(s, l) = <<Second1(s, l)>> \o SecondRest(s) /\ IsOctets(SecondRest(s))
    BY SecondIs
  <2>3. PICK third : third = Third(p, s, w, j, <<>>)
    OBVIOUS
  <2>4. IsOctets(third) /\ third[1] = Third1(p, s, w, j, <<>>) /\ third # <<>>
    <3>1. IsOctets(third) /\ third[1] = Third1(p, s, w, j, <<>>) /\ IsOctets(Joined(Parts3(p, s, w)))
      BY <2>3, ThirdIs
    <3>2. third = <<Third1(p, s, w, j, <<>>)>> \o Joined(Parts3(p, s, w))
      BY <2>3 DEF Third
    <3>3. Row(Joined(Parts3(p, s, w)))
      BY <3>1, OctetsAre
    <3>4. <<Third1(p, s, w, j, <<>>)>> \o Joined(Parts3(p, s, w)) # <<>>
      BY <3>3, FirstAndRest
    <3>. QED  BY <3>1, <3>2, <3>4, Zenon
  <2>5. Row(SecondRest(s)) /\ Row(third)
    BY <2>2, <2>4, OctetsAre
  <2>6. InThree(First(g), Second1(s, l), SecondRest(s), third, m)
    BY <2>1, <2>2, <2>3, <2>4, <2>5, <2>8, Zenon DEF InThree
  <2>7. m[1] = First(g) /\ m[2] = Second1(s, l) /\ m[3 + Len(SecondRest(s))] = third[1]
    BY <2>6, HeadersShow
  <2>. QED  BY <2>4, <2>7, <2>8, Zenon DEF ShowsHeaders
<1>2. PICK m, m2 : /\ NegotiateMessage(f) \o Second(s, k) \o Third(p, s, w, h, <<>>) = m
                   /\ NegotiateMessage(f2) \o Second(s, k2) \o Third(p, s, w, h2, <<>>) = m2
  OBVIOUS
<1>3. m = m2
  <2>1. Hmac(Random.key, m) = Hmac(Random.key, m2)
    BY <1>2, Zenon DEF SumOver
  <2>. QED  BY <2>1, HmacEqual
<1>4. /\ m[1] = First(f) /\ m[2] = Second1(s, k) /\ m[3 + Len(SecondRest(s))] = Third1(p, s, w, h, <<>>)
      /\ m2[1] = First(f2) /\ m2[2] = Second1(s, k2) /\ m2[3 + Len(SecondRest(s))] = Third1(p, s, w, h2, <<>>)
  <2>1. ShowsHeaders(m, s, w, p, f, k, h) /\ ShowsHeaders(m2, s, w, p, f2, k2, h2)
    BY <1>1, <1>2, Zenon
  <2>. QED  BY <2>1, Zenon DEF ShowsHeaders
<1>5. First(f)[3].flags = f /\ First(f2)[3].flags = f2
  BY FirstIs
<1>6. Second1(s, k)[3].flags = k /\ Second1(s, k2)[3].flags = k2
  BY SecondIs
<1>7. Third1(p, s, w, h, <<>>)[3].flags = h /\ Third1(p, s, w, h2, <<>>)[3].flags = h2
  BY Third1Is
<1>. QED  BY <1>3, <1>4, <1>5, <1>6, <1>7, Zenon

-----------------------------------------------------------------------------
(* The messages under way.                                                   *)

\* A message on this path.
Asked(w, t)   == IF w = "credssp" THEN EncodeTsRequest(6, EncodeSpnegoInit(t), None, None, None) ELSE t
Told(s, w, t) == IF w = "credssp" THEN EncodeTsRequest(s.version, NegTokenResp(t), None, None, None) ELSE t
Shown(w, t)   ==
            IF w = "credssp"
            THEN EncodeTsRequest(6, EncodeSpnegoResponse(t, Signature(Random.key, 0, MechTypeList)),
                                 Sealed(Random.key, "client", 1, PubKeyAuth("client")), None,
                                 <<<<32, "nonce", "nonce">>>>)
            ELSE t

LEMMA Room ==
    /\ Message + 200 \in Nat /\ Message + 200 + 0 + 400 < Limit /\ Message + 300 < Limit /\ Message \in Nat /\ 0 \in Nat
  BY SMT DEF Message, Longest, Word, Limit

LEMMA NumbersAreWords == 2 \in Words /\ 6 \in Words /\ 1326 \in Words /\ 1 \in Words
  BY SMT DEF Words, Word

LEMMA NoneIsOptional == \A n : Optional(None, n)
  BY DEF Optional

LEMMA MessageIsSome == ASSUME NoneIsApart, NEW t, NEW n, Small(t, n) PROVE t # None
<1>1. Row(t)
  BY OctetsAre DEF Small
<1>. QED  BY <1>1, RowIsSome

\* A token in a request, read.
LEMMA TokenCarried ==
    ASSUME NoneIsApart, NEW v \in Words, NEW token, Small(token, Message + 200), token # None,
           NEW t, DecodeSpnegoToken(token) = t,
           NEW proof, Optional(proof, 64), NEW nonce, Optional(nonce, 64),
           NEW r, EncodeTsRequest(v, token, proof, None, nonce) = r
    PROVE  /\ r # None /\ TokenIn(DecodeTsRequest(r)) = t /\ Accepted(DecodeTsRequest(r)) = t
           /\ DecodeTsRequest(r).negoToken = token /\ DecodeTsRequest(r).pubKeyAuth = proof
           /\ DecodeTsRequest(r).clientNonce = nonce
<1>1. Optional(token, Message + 200) /\ Optional(None, 0)
  BY NoneIsOptional DEF Optional
<1>2. /\ r # None /\ DecodeTsRequest(r) # None /\ DecodeTsRequest(r).negoToken = token
      /\ DecodeTsRequest(r).pubKeyAuth = proof /\ DecodeTsRequest(r).errorCode = None
      /\ DecodeTsRequest(r).clientNonce = nonce
  BY <1>1, Room, RequestDecoded
<1>3. TokenIn(DecodeTsRequest(r)) = t
  BY <1>2, Zenon DEF TokenIn
<1>4. Accepted(DecodeTsRequest(r)) = t
  BY <1>2, <1>3, Zenon DEF Accepted, Refuses
<1>. QED  BY <1>2, <1>3, <1>4, Zenon

LEMMA AskedIs ==
    ASSUME NoneIsApart, NEW t, Small(t, Message)
    PROVE  Received(Asked(path, t)) = t /\ Asked(path, t) # None
<1>1. t # None
  BY MessageIsSome
<1>2. CASE ~Delegated
  BY <1>1, <1>2, Zenon DEF Delegated, Asked, Received
<1>3. CASE Delegated
  <2>1. PICK token : token = EncodeSpnegoInit(t)
    OBVIOUS
  <2>2. Small(token, Message + 200) /\ token # None /\ DecodeSpnegoToken(token) = t
    BY <2>1, Room, InitDecoded
  <2>3. PICK r : EncodeTsRequest(6, token, None, None, None) = r
    OBVIOUS
  <2>4. r # None /\ TokenIn(DecodeTsRequest(r)) = t
    <3>1. Optional(None, 64) /\ 6 \in Words
      BY NoneIsOptional, NumbersAreWords
    <3>. QED  BY <2>2, <2>3, <3>1, TokenCarried
  <2>5. Asked(path, t) = r
    BY <1>3, <2>1, <2>3, Zenon DEF Delegated, Asked
  <2>. QED  BY <1>3, <2>4, <2>5, Zenon DEF Received
<1>. QED  BY <1>2, <1>3

LEMMA ToldIs ==
    ASSUME NoneIsApart, server \in Servers, NEW t, Small(t, Message)
    PROVE  Challenge(Told(server, path, t)) = t /\ Told(server, path, t) # None
<1>1. t # None
  BY MessageIsSome
<1>2. CASE ~Delegated
  BY <1>1, <1>2, Zenon DEF Delegated, Told, Challenge
<1>3. CASE Delegated
  <2>1. PICK token : token = NegTokenResp(t)
    OBVIOUS
  <2>2. Small(token, Message + 200) /\ token # None /\ DecodeSpnegoToken(token) = t
    BY <2>1, Room, AnswerDecoded
  <2>3. PICK r, v : EncodeTsRequest(v, token, None, None, None) = r /\ v = server.version
    OBVIOUS
  <2>4. r # None /\ Accepted(DecodeTsRequest(r)) = t
    <3>1. Optional(None, 64) /\ v \in Words
      <4>1. v = 2 \/ v = 6
        BY <2>3 DEF Servers
      <4>. QED  BY <4>1, NoneIsOptional, NumbersAreWords
    <3>. QED  BY <2>2, <2>3, <3>1, TokenCarried
  <2>5. Told(server, path, t) = r
    BY <1>3, <2>1, <2>3, Zenon DEF Delegated, Told
  <2>. QED  BY <1>3, <2>4, <2>5, Zenon DEF Challenge
<1>. QED  BY <1>2, <1>3

LEMMA SealedIs ==
    ASSUME NEW k, NEW whose, NEW number, NEW o, IsOctets(o)
    PROVE  /\ Sealed(k, whose, number, o) = <<<<16 + Size(o), "sealed", <<k, whose, number, o>>>>>>
           /\ \A n \in Nat : Size(o) <= n => Small(Sealed(k, whose, number, o), 16 + n)
           /\ Sealed(k, whose, number, o)[1][3][4] = o
<1>1. PICK x : x = <<16 + Size(o), "sealed", <<k, whose, number, o>>>>
  OBVIOUS
<1>2. x[1] = 16 + Size(o) /\ x[3][4] = o
  BY <1>1
<1>3. Sealed(k, whose, number, o) = <<x>> /\ <<x>>[1] = x
  BY <1>1 DEF Sealed
<1>4. Size(o) \in Nat
  BY SizeIs
<1>5. x[1] \in Nat \ {0}
  BY <1>2, <1>4
<1>6. Small(<<x>>, x[1])
  BY <1>5, AtomIs
<1>7. ASSUME NEW n \in Nat, Size(o) <= n PROVE Small(<<x>>, 16 + n)
  BY <1>2, <1>4, <1>5, <1>6, <1>7, SmallIsSmaller
<1>. QED  BY <1>1, <1>2, <1>3, <1>7

LEMMA PubKeyIs == ASSUME NEW whose PROVE IsOctets(PubKeyAuth(whose)) /\ Size(PubKeyAuth(whose)) = 32
<1>1. PICK x : x = <<32, "binding hash", whose>>
  OBVIOUS
<1>2. x[1] = 32 /\ x[1] \in Nat \ {0}
  <2>1. x[1] = 32
    BY <1>1, Zenon
  <2>2. 32 \in Nat \ {0}
    OBVIOUS
  <2>. QED  BY <2>1, <2>2, Zenon
<1>3. Apart(x, x[1])
  BY <1>2, AtomIs
<1>4. PubKeyAuth(whose) = <<x>>
  BY <1>1 DEF PubKeyAuth
<1>. QED  BY <1>2, <1>3, <1>4, Zenon DEF Apart

LEMMA ShownIs ==
    ASSUME NoneIsApart, NEW t, Small(t, Message)
    PROVE  /\ Received(Shown(path, t)) = t /\ Shown(path, t) # None
           /\ Delegated => Accompanied(DecodeTsRequest(Shown(path, t)), Random.key)
<1>1. t # None
  BY MessageIsSome
<1>2. CASE ~Delegated
  BY <1>1, <1>2, Zenon DEF Delegated, Shown, Received
<1>3. CASE Delegated
  <2>1. PICK mic, token, proof, nonce :
           /\ mic = Signature(Random.key, 0, MechTypeList) /\ token = EncodeSpnegoResponse(t, mic)
           /\ proof = Sealed(Random.key, "client", 1, PubKeyAuth("client")) /\ nonce = <<<<32, "nonce", "nonce">>>>
    OBVIOUS
  <2>2. Small(mic, 64)
    <3>1. PICK x : x = <<16, "signature", <<Random.key, "client", 0, MechTypeList>>>>
      OBVIOUS
    <3>2. x[1] = 16 /\ x[1] \in Nat \ {0}
      BY <3>1
    <3>3. Small(<<x>>, x[1])
      BY <3>2, AtomIs
    <3>4. mic = <<x>>
      BY <2>1, <3>1 DEF Signature
    <3>. QED  BY <3>2, <3>3, <3>4, SmallIsSmaller
  <2>3. Small(proof, 64)
    <3>1. Small(proof, 16 + 32)
      BY <2>1, PubKeyIs, SealedIs
    <3>. QED  BY <3>1, SmallIsSmaller
  <2>4. Small(nonce, 64)
    <3>1. PICK x : x = <<32, "nonce", "nonce">>
      OBVIOUS
    <3>2. x[1] = 32 /\ x[1] \in Nat \ {0}
      BY <3>1
    <3>3. Small(<<x>>, x[1])
      BY <3>2, AtomIs
    <3>4. nonce = <<x>>
      BY <2>1, <3>1
    <3>. QED  BY <3>2, <3>3, <3>4, SmallIsSmaller
  <2>5. /\ Small(token, Message + 200) /\ token # None /\ DecodeSpnegoToken(token) = t
        /\ DecodeOctetString(Within(Inside(Inside(token)), 3)) = mic
    BY <2>1, <2>2, Room, ResponseDecoded
  <2>6. PICK r : EncodeTsRequest(6, token, proof, None, nonce) = r
    OBVIOUS
  <2>7. /\ r # None /\ TokenIn(DecodeTsRequest(r)) = t
        /\ DecodeTsRequest(r).negoToken = token /\ DecodeTsRequest(r).pubKeyAuth = proof
        /\ DecodeTsRequest(r).clientNonce = nonce
    <3>1. Optional(proof, 64) /\ Optional(nonce, 64) /\ 6 \in Words
      BY <2>3, <2>4, NumbersAreWords DEF Optional
    <3>2. Small(token, Message + 200) /\ token # None /\ DecodeSpnegoToken(token) = t
      BY <2>5
    <3>. QED  BY <2>6, <3>1, <3>2, TokenCarried
  <2>8. Shown(path, t) = r
    BY <1>3, <2>1, <2>6, Zenon DEF Delegated, Shown
  <2>9. Accompanied(DecodeTsRequest(r), Random.key)
    BY <2>1, <2>5, <2>7, Zenon DEF Accompanied
  <2>. QED  BY <1>3, <2>7, <2>8, <2>9, Zenon DEF Received
<1>. QED  BY <1>2, <1>3

\* The credentials under way.
Creds(p)  == EncodeTsCredentials(Utf16(p.domain), Utf16(p.user), Utf16(p.password))
Handed(p) == EncodeTsRequest(6, None, None, Sealed(Random.key, "client", 2, Creds(p)), None)

LEMMA RoomForCreds ==
    /\ Longest \in Nat /\ Longest + Longest + Longest + 300 < Limit /\ Longest + Longest + Longest + 200 \in Nat
    /\ 16 + (Longest + Longest + Longest + 200) \in Nat
    /\ 0 + (16 + (Longest + Longest + Longest + 200)) + 400 < Limit
  BY SMT DEF Longest, Limit

LEMMA HandedIs ==
    ASSUME NoneIsApart, IsPerson(person)
    PROVE  /\ DecodeTsRequest(Handed(person)).authInfo = Sealed(Random.key, "client", 2, Creds(person))
           /\ Sealed(Random.key, "client", 2, Creds(person))[1][3][4] = Creds(person)
           /\ Sealed(Random.key, "client", 2, Creds(person)) # None
           /\ Credentials(Creds(person)) = <<Utf16(person.domain), Utf16(person.user), Utf16(person.password)>>
<1>1. PICK d, u, p : d = Utf16(person.domain) /\ u = Utf16(person.user) /\ p = Utf16(person.password)
  OBVIOUS
<1>2. Small(d, Longest) /\ Small(u, Longest) /\ Small(p, Longest)
  <2>1. person.domain \in DOMAIN Lengths /\ person.user \in DOMAIN Lengths /\ person.password \in DOMAIN Lengths
    BY Zenon DEF IsPerson
  <2>. QED  BY <1>1, <2>1, TextIs
<1>3. PICK x : x = EncodeTsCredentials(d, u, p)
  OBVIOUS
<1>4. Small(x, Longest + Longest + Longest + 200) /\ Credentials(x) = <<d, u, p>>
  BY <1>2, <1>3, RoomForCreds, CredentialsDecoded
<1>5. x = Creds(person)
  BY <1>1, <1>3 DEF Creds
<1>6. PICK sealed : sealed = Sealed(Random.key, "client", 2, Creds(person))
  OBVIOUS
<1>7. Small(sealed, 16 + (Longest + Longest + Longest + 200)) /\ sealed[1][3][4] = Creds(person)
  <2>1. IsOctets(Creds(person)) /\ Size(Creds(person)) <= Longest + Longest + Longest + 200
    BY <1>4, <1>5 DEF Small
  <2>2. /\ \A n \in Nat : Size(Creds(person)) <= n => Small(Sealed(Random.key, "client", 2, Creds(person)), 16 + n)
        /\ Sealed(Random.key, "client", 2, Creds(person))[1][3][4] = Creds(person)
    BY <2>1, SealedIs
  <2>. QED  BY <1>6, <2>1, <2>2, RoomForCreds, Zenon
<1>8. sealed # None
  BY <1>7, MessageIsSome
<1>9. DecodeTsRequest(Handed(person)).authInfo = sealed
  <2>1. PICK r : r = EncodeTsRequest(6, None, None, sealed, None)
    OBVIOUS
  <2>2. Optional(None, 0) /\ Optional(None, 64) /\ Optional(sealed, 16 + (Longest + Longest + Longest + 200)) /\ 6 \in Words
    BY <1>7, NoneIsOptional, NumbersAreWords DEF Optional
  <2>3. DecodeTsRequest(r).authInfo = sealed
    BY <2>1, <2>2, Room, RoomForCreds, RequestDecoded
  <2>. QED  BY <1>6, <2>1, <2>3, Zenon DEF Handed
<1>. QED  BY <1>1, <1>4, <1>5, <1>6, <1>7, <1>8, <1>9, Zenon

\* A refusal is no challenge.
LEMMA RefusalIs ==
    ASSUME NoneIsApart, server \in Servers, NEW r, r \in Refusal
    PROVE  Challenge(r) = None
<1>1. CASE r = None
  BY <1>1, Zenon DEF Challenge
<1>2. CASE r # None
  <2>1. Delegated /\ r = ServerError
    BY <1>2, Zenon DEF Refusal
  <2>2. PICK v, w : v = server.version /\ w = 1326
    OBVIOUS
  <2>3. v \in Words /\ w \in Words
    <3>1. v = 2 \/ v = 6
      BY <2>2 DEF Servers
    <3>. QED  BY <2>2, <3>1, NumbersAreWords
  <2>4. r = EncodeSequence(EncodeContextTag(0, EncodeIntegerValue(v)) \o EncodeContextTag(4, EncodeIntegerValue(w)))
    <3>1. ServerError = EncodeSequence(EncodeContextTag(0, EncodeIntegerValue(server.version))
                                       \o EncodeContextTag(4, EncodeIntegerValue(1326)))
      BY DEF ServerError
    <3>. QED  BY <2>1, <2>2, <3>1
  <2>5. DecodeTsRequest(r) # None /\ DecodeTsRequest(r).errorCode # None
    BY <2>3, <2>4, ErrorDecoded
  <2>6. Accepted(DecodeTsRequest(r)) = None
    BY <2>5, Zenon DEF Accepted, Refuses
  <2>. QED  BY <1>2, <2>1, <2>6, Zenon DEF Challenge
<1>. QED  BY <1>1, <1>2

\* A message without one of its flags.
Without(m, flag) == <<Stripped(m[1], flag)>> \o Tail(m)

LEMMA FirstWithout ==
    ASSUME NEW f, NEW flag
    PROVE  Without(NegotiateMessage(f), flag) = NegotiateMessage(f \ {flag}) /\ NegotiateMessage(f)[1][3].flags = f
<1>1. PICK b, x : b = SecurityBuffer(0, 40) /\ x = [flags |-> f, domain |-> b, workstation |-> b]
  OBVIOUS
<1>2. NegotiateMessage(f)[1] = First(f) /\ Tail(NegotiateMessage(f)) = <<>> /\ First(f)[3].flags = f
  BY FirstIs
<1>3. First(f) = <<40, "type1", x>>
  BY <1>1, Zenon DEF First
<1>4. First(f)[1] = 40 /\ First(f)[2] = "type1" /\ First(f)[3] = x
  BY <1>3
<1>5. [x EXCEPT !.flags = @ \ {flag}] = [flags |-> f \ {flag}, domain |-> b, workstation |-> b]
  BY <1>1
<1>6. PICK y : y = [flags |-> f \ {flag}, domain |-> b, workstation |-> b]
  OBVIOUS
<1>7. First(f \ {flag}) = <<40, "type1", y>>
  BY <1>1, <1>6, Zenon DEF First
<1>8. Without(NegotiateMessage(f), flag) = <<<<40, "type1", y>>>> \o <<>>
  BY <1>2, <1>4, <1>5, <1>6, Zenon DEF Without, Stripped
<1>9. NegotiateMessage(f \ {flag}) = <<First(f \ {flag})>>
  BY FirstIs
<1>10. <<First(f \ {flag})>> \o <<>> = <<First(f \ {flag})>>
  BY RowOne, CatEmpty
<1>. QED  BY <1>2, <1>7, <1>8, <1>9, <1>10, Zenon

LEMMA SecondWithout ==
    ASSUME NEW s, s.info \in Infos, NEW g, NEW flag
    PROVE  Without(Second(s, g), flag) = Second(s, g \ {flag}) /\ Second(s, g)[1][3].flags = g
<1>1. PICK n, b : \A l : Second1(s, l) = <<n, "type2", [serverChallenge |-> "server challenge", flags |-> l, targetInfo |-> b]>>
  <2>1. CASE s.info = None
    <3>1. \A l : Second1(s, l) = <<32, "type2", [serverChallenge |-> "server challenge", flags |-> l, targetInfo |-> SecurityBuffer(0, 0)]>>
      BY <2>1, Zenon DEF Second1
    <3>. QED  BY <3>1, Zenon
  <2>2. CASE s.info # None
    <3>1. \A l : Second1(s, l) = <<56, "type2", [serverChallenge |-> "server challenge", flags |-> l,
                         targetInfo |-> SecurityBuffer(Size(s.info), 56 + Size(Utf16("HOST")))]>>
      BY <2>2, Zenon DEF Second1
    <3>. QED  BY <3>1, Zenon
  <2>. QED  BY <2>1, <2>2
<1>2. /\ Second(s, g)[1] = Second1(s, g) /\ Tail(Second(s, g)) = SecondRest(s) /\ Second1(s, g)[3].flags = g
      /\ \A l : Second(s, l) = <<Second1(s, l)>> \o SecondRest(s)
  BY SecondIs
<1>3. PICK x, y : /\ x = [serverChallenge |-> "server challenge", flags |-> g, targetInfo |-> b]
                  /\ y = [serverChallenge |-> "server challenge", flags |-> g \ {flag}, targetInfo |-> b]
  OBVIOUS
<1>4. [x EXCEPT !.flags = @ \ {flag}] = y
  <2>1. PICK c, l : c = "server challenge" /\ l = g \ {flag}
    OBVIOUS
  <2>2. x = [serverChallenge |-> c, flags |-> g, targetInfo |-> b] /\ y = [serverChallenge |-> c, flags |-> l, targetInfo |-> b]
    BY <1>3, <2>1, Zenon
  <2>3. [x EXCEPT !.flags = l] = y
    BY <2>2
  <2>4. x.flags = g
    BY <2>2
  <2>. QED  BY <2>1, <2>3, <2>4, Zenon
<1>5. Second1(s, g) = <<n, "type2", x>> /\ Second1(s, g \ {flag}) = <<n, "type2", y>>
  BY <1>1, <1>3
<1>6. Second1(s, g)[1] = n /\ Second1(s, g)[2] = "type2" /\ Second1(s, g)[3] = x
  BY <1>5
<1>7. Without(Second(s, g), flag) = <<<<n, "type2", y>>>> \o SecondRest(s)
  BY <1>2, <1>4, <1>6, Zenon DEF Without, Stripped
<1>. QED  BY <1>2, <1>5, <1>7, Zenon

LEMMA ThirdWithout ==
    ASSUME NoneIsApart, NEW s, s.info \in Infos, NEW w, NEW p, IsPerson(p), NEW h, NEW sum, NEW flag
    PROVE  /\ Without(Third(p, s, w, h, sum), flag) = Third(p, s, w, h \ {flag}, sum)
           /\ Third(p, s, w, h, sum)[1][3].flags = h
<1>1. Third(p, s, w, h, sum)[1] = Third1(p, s, w, h, sum) /\ Tail(Third(p, s, w, h, sum)) = Joined(Parts3(p, s, w))
  BY ThirdIs
<1>2. PICK x : Head3(HeadSize(w), Parts3(p, s, w), h, sum) = x
  OBVIOUS
<1>3. Stripped(x, flag) = Head3(HeadSize(w), Parts3(p, s, w), h \ {flag}, sum)
  BY <1>2, HeadChanged
<1>4. Third1(p, s, w, h, sum)[3].flags = h
  BY Third1Is
<1>5. Third1(p, s, w, h, sum) = x
  BY <1>2 DEF Third1
<1>6. Without(Third(p, s, w, h, sum), flag) = <<Head3(HeadSize(w), Parts3(p, s, w), h \ {flag}, sum)>> \o Joined(Parts3(p, s, w))
  BY <1>1, <1>3, <1>5, Zenon DEF Without
<1>. QED  BY <1>1, <1>4, <1>6, Zenon DEF Third, Third1

-----------------------------------------------------------------------------
(* The inductive invariant.                                                  *)

Steps == {"negotiate", "challenge", "authenticate", "decide", "conclude", "receive", "ok", "error"}

TypeOK ==
    /\ person \in Persons /\ server \in Servers /\ path \in Paths /\ step \in Steps /\ altered \in Nat
    /\ DOMAIN client = {"type1", "challenge", "key"}
    /\ DOMAIN reader = {"type1", "type2", "key", "person"}
    /\ path # "http" => altered = 0

\* The first message is under way with the flags f.
FirstIsSent(f) ==
    wire = Asked(path, NegotiateMessage(f)) /\ f \subseteq F0(path) /\ (altered = 0 <=> f = F0(path))

\* The server received the flags f; the client receives g.
Received2(f, g) ==
    /\ reader.type1 = NegotiateMessage(f) /\ reader.type2 = Second(server, f \cap TYPE1_FLAGS)
    /\ f \subseteq F0(path) /\ g \subseteq f \cap TYPE1_FLAGS

SecondIsSent(f, g) ==
    /\ Received2(f, g) /\ wire = Told(server, path, Second(server, g))
    /\ altered = 0 <=> f = F0(path) /\ g = f \cap TYPE1_FLAGS

\* The third message is under way with the flags h.
ThirdIsSent(f, g, h) ==
    /\ Received2(f, g) /\ h \subseteq Flags3(path, g)
    /\ wire = Shown(path, Third(person, server, path, h, Sum3(person, server, path, g)))
    /\ client.key = Random.key
    /\ altered = 0 <=> f = F0(path) /\ g = f \cap TYPE1_FLAGS /\ h = Flags3(path, g)

UnderWay ==
    /\ step = "negotiate" => altered = 0
    /\ step = "challenge" => \E f : FirstIsSent(f)
    /\ step = "authenticate" => (wire \in Refusal /\ reader.type2 = None) \/ \E f, g : SecondIsSent(f, g)
    /\ step = "decide" => \E f, g, h : ThirdIsSent(f, g, h)
    /\ step = "conclude" => client.key = Random.key
    /\ step = "receive" => wire = Handed(person)

\* What is not yet there, and what is.
Before ==
    /\ step \in {"negotiate", "challenge"} => reader.type2 = None
    /\ step \in {"negotiate", "challenge", "authenticate", "decide"} => reader.key = None
    /\ step \in {"challenge", "authenticate"} => client.type1 = NegotiateMessage(F0(path))

Known == client.challenge # None => \E g : client.challenge = Parsed(server, g)

Agreed ==
    reader.key # None =>
       reader.key = Random.key /\ client.key = Random.key /\ server.knows /\ (path = "http" => altered = 0)

Good ==
    step \in {"conclude", "receive", "ok", "error"} =>
       (reader.type2 # None /\ altered = 0 /\ server.knows /\ Fits
           => \/ reader.key # None
              \/ path = "credssp" /\ person.domain # ""
              \/ path = "tlsUncaptured" /\ server.strict)

Credited == step = "ok" /\ path = "credssp" =>
               reader.person = <<Utf16(person.domain), Utf16(person.user), Utf16(person.password)>>

IInv == TypeOK /\ UnderWay /\ Before /\ Known /\ Agreed /\ Good /\ Credited

LEMMA Cast == ASSUME TypeOK PROVE IsPerson(person) /\ server.info \in Infos
<1>1. IsPerson(person)
  <2>1. person \in Persons
    BY DEF TypeOK
  <2>. QED  BY <2>1, HandshakeAssumption, Zenon DEF IsPerson
<1>2. server.info \in Infos
  BY DEF TypeOK, Servers
<1>. QED  BY <1>1, <1>2

LEMMA InitHolds == ASSUME Init PROVE IInv
<1>1. /\ step = "negotiate" /\ altered = 0 /\ client.challenge = None
      /\ reader.type2 = None /\ reader.key = None
  BY DEF Init
<1>2. TypeOK
  <2>1. DOMAIN client = {"type1", "challenge", "key"} /\ DOMAIN reader = {"type1", "type2", "key", "person"}
    BY DEF Init
  <2>. QED  BY <1>1, <2>1 DEF Init, TypeOK, Steps
<1>3. UnderWay /\ Before /\ Known /\ Agreed /\ Good /\ Credited
  BY <1>1 DEF UnderWay, Before, Known, Agreed, Good, Credited
<1>. QED  BY <1>2, <1>3 DEF IInv

LEMMA NegotiateHolds == ASSUME NoneIsApart, IInv, Negotiate PROVE IInv'
<1>0. TypeOK /\ UnderWay /\ Before /\ Known /\ Agreed
  BY DEF IInv
<1>1. /\ step = "negotiate" /\ step' = "challenge" /\ person' = person /\ server' = server /\ path' = path
      /\ reader' = reader /\ altered' = altered
  BY DEF Negotiate
<1>2. PICK t : t = NegotiateMessage(F0(path))
  OBVIOUS
<1>3. client' = [client EXCEPT !.type1 = t] /\ wire' = Asked(path, t)
  BY <1>2, Zenon DEF Negotiate, F0, Asked, Delegated
<1>4. client'.type1 = t /\ client'.challenge = client.challenge /\ client'.key = client.key
      /\ DOMAIN client' = DOMAIN client
  BY <1>0, <1>3 DEF TypeOK
<1>5. altered = 0 /\ reader.type2 = None /\ reader.key = None
  BY <1>0, <1>1 DEF UnderWay, Before
<1>6. TypeOK'
  BY <1>0, <1>1, <1>4 DEF TypeOK, Steps
<1>7. FirstIsSent(F0(path))'
  BY <1>1, <1>2, <1>3, <1>5, Zenon DEF FirstIsSent
<1>8. UnderWay'
  <2>1. \E f : FirstIsSent(f)'
    BY <1>7, Zenon
  <2>. QED  BY <1>1, <2>1, Zenon DEF UnderWay
<1>9. Before'
  BY <1>1, <1>2, <1>4, <1>5 DEF Before
<1>10. Known'
  BY <1>0, <1>1, <1>4, Zenon DEF Known
<1>11. Agreed' /\ Good' /\ Credited'
  BY <1>1, <1>5 DEF Agreed, Good, Credited
<1>. QED  BY <1>6, <1>8, <1>9, <1>10, <1>11 DEF IInv

\* What the server reads in a request is what was sent.
LEMMA SendChallengeHolds == ASSUME NoneIsApart, IInv, SendChallenge PROVE IInv'
<1>0. TypeOK /\ UnderWay /\ Before /\ Known
  BY DEF IInv
<1>1. /\ step = "challenge" /\ step' = "authenticate" /\ person' = person /\ server' = server /\ path' = path
      /\ client' = client /\ altered' = altered
      /\ (wire' \in Refusal /\ reader' = reader) \/ Challenged(Received(wire))
  BY Zenon DEF SendChallenge, ServerUnchanged
<1>2. reader.type2 = None /\ reader.key = None /\ client.type1 = NegotiateMessage(F0(path))
  BY <1>0, <1>1 DEF Before
<1>3. PICK f : FirstIsSent(f)
  BY <1>0, <1>1 DEF UnderWay
<1>4. wire = Asked(path, NegotiateMessage(f)) /\ f \subseteq F0(path) /\ (altered = 0 <=> f = F0(path))
  BY <1>3, Zenon DEF FirstIsSent
<1>5. Received(wire) = NegotiateMessage(f)
  <2>1. Small(NegotiateMessage(f), Message)
    <3>1. Small(NegotiateMessage(f), 40) /\ 40 \in Nat
      BY FirstIs
    <3>2. Message \in Nat /\ 40 <= Message
      BY SMT DEF Message, Longest, Word
    <3>. QED  BY <3>1, <3>2, SmallIsSmaller
  <2>. QED  BY <1>4, <2>1, AskedIs
<1>6. CASE wire' \in Refusal /\ reader' = reader
  <2>1. Refusal' = Refusal
    BY <1>1, SMTT(60) DEF Refusal, Delegated, ServerError
  <2>2. TypeOK'
    BY <1>0, <1>1, <1>6 DEF TypeOK, Steps
  <2>3. UnderWay'
    BY <1>1, <1>2, <1>6, <2>1 DEF UnderWay
  <2>4. Before' /\ Agreed' /\ Good' /\ Credited'
    BY <1>1, <1>2, <1>6, Zenon DEF Before, Agreed, Good, Credited
  <2>5. Known'
    BY <1>0, <1>1, Zenon DEF Known
  <2>. QED  BY <2>2, <2>3, <2>4, <2>5 DEF IInv
<1>7. CASE Challenged(Received(wire))
  <2>1. PICK t1, t2 : t1 = NegotiateMessage(f) /\ t2 = Second(server, f \cap TYPE1_FLAGS)
    OBVIOUS
  <2>2. t1[1][3].flags = f
    BY <2>1, FirstWithout
  <2>3. Type2(f \cap TYPE1_FLAGS) = t2
    BY <2>1, Type2Is
  <2>4. reader' = [reader EXCEPT !.type1 = t1, !.type2 = t2] /\ wire' = Told(server, path, t2)
    <3>1. Challenged(t1)
      BY <1>5, <1>7, <2>1, Zenon
    <3>. QED  BY <2>2, <2>3, <3>1, Zenon DEF Challenged, Told, Delegated
  <2>5. reader'.type1 = t1 /\ reader'.type2 = t2 /\ reader'.key = reader.key /\ DOMAIN reader' = DOMAIN reader
    BY <1>0, <2>4 DEF TypeOK
  <2>6. TypeOK'
    BY <1>0, <1>1, <2>5 DEF TypeOK, Steps
  <2>7. SecondIsSent(f, f \cap TYPE1_FLAGS)'
    BY <1>1, <1>4, <2>1, <2>4, <2>5, Zenon DEF SecondIsSent, Received2
  <2>8. UnderWay'
    <3>1. \E g, k : SecondIsSent(g, k)'
      BY <2>7, Zenon
    <3>. QED  BY <1>1, <3>1, Zenon DEF UnderWay
  <2>9. Before' /\ Agreed' /\ Good' /\ Credited'
    BY <1>1, <1>2, <2>5, Zenon DEF Before, Agreed, Good, Credited
  <2>10. Known'
    BY <1>0, <1>1, Zenon DEF Known
  <2>. QED  BY <2>6, <2>8, <2>9, <2>10 DEF IInv
<1>. QED  BY <1>1, <1>6, <1>7

LEMMA AuthenticateHolds == ASSUME NoneIsApart, IInv, Authenticate PROVE IInv'
<1>0. TypeOK /\ UnderWay /\ Before /\ Known
  BY DEF IInv
<1>1. /\ step = "authenticate" /\ person' = person /\ server' = server /\ path' = path
      /\ reader' = reader /\ altered' = altered /\ Answer(Challenge(wire))
  BY Zenon DEF Authenticate
<1>2. reader.key = None /\ client.type1 = NegotiateMessage(F0(path))
  BY <1>0, <1>1 DEF Before
<1>3. IsPerson(person) /\ server.info \in Infos /\ server \in Servers
  BY <1>0, Cast DEF TypeOK
<1>4. CASE wire \in Refusal /\ reader.type2 = None
  <2>1. Challenge(wire) = None
    BY <1>3, <1>4, RefusalIs
  <2>2. step' = "error" /\ client' = client
    BY <1>1, <2>1, Zenon DEF Answer, Response, Fail
  <2>3. TypeOK'
    BY <1>0, <1>1, <2>2 DEF TypeOK, Steps
  <2>4. UnderWay' /\ Before' /\ Agreed' /\ Good' /\ Credited'
    BY <1>1, <1>2, <1>4, <2>2 DEF UnderWay, Before, Agreed, Good, Credited
  <2>5. Known'
    BY <1>0, <1>1, <2>2, Zenon DEF Known
  <2>. QED  BY <2>3, <2>4, <2>5 DEF IInv
<1>5. ASSUME NEW f, NEW g, SecondIsSent(f, g) PROVE IInv'
  <2>1. /\ Received2(f, g) /\ wire = Told(server, path, Second(server, g))
        /\ altered = 0 <=> f = F0(path) /\ g = f \cap TYPE1_FLAGS
    BY <1>5, Zenon DEF SecondIsSent
  <2>2. PICK t2, c : t2 = Second(server, g) /\ c = Parsed(server, g)
    OBVIOUS
  <2>3. Small(t2, Message) /\ ParseChallenge(t2) = c
    BY <1>3, <2>2, SecondIs, ChallengeParsed
  <2>4. c # None /\ t2 # None
    BY <2>2, <2>3, ParsedIsSome, MessageIsSome
  <2>5. Challenge(wire) = t2
    BY <1>3, <2>1, <2>2, <2>3, ToldIs
  <2>6. PICK h, sum : h = Flags3(path, g) /\ sum = Sum3(person, server, path, g)
    OBVIOUS
  <2>7. Type3(t2, c) = Third(person, server, path, h, sum)
    <3>1. path \in Paths
      BY <1>0 DEF TypeOK
    <3>. QED  BY <1>2, <1>3, <2>2, <2>6, <3>1, Type3Is
  <2>8. /\ client' = [client EXCEPT !.challenge = c, !.key = Random.key] /\ step' = "decide"
        /\ wire' = Shown(path, Third(person, server, path, h, sum))
    <3>1. Response(t2, c)
      BY <1>1, <2>3, <2>4, <2>5, Zenon DEF Answer
    <3>. QED  BY <2>4, <2>7, <3>1, Zenon DEF Response, Shown, Delegated
  <2>9. client'.challenge = c /\ client'.key = Random.key /\ DOMAIN client' = DOMAIN client
    BY <1>0, <2>8 DEF TypeOK
  <2>10. TypeOK'
    BY <1>0, <1>1, <2>8, <2>9 DEF TypeOK, Steps
  <2>11. ThirdIsSent(f, g, h)'
    <3>1. Received2(f, g)'
      BY <1>1, <2>1, Zenon DEF Received2
    <3>2. h \subseteq Flags3(path, g)' /\ wire' = Shown(path, Third(person, server, path, h, Sum3(person, server, path, g)))'
      BY <1>1, <2>6, <2>8, Zenon
    <3>3. (altered = 0 <=> f = F0(path) /\ g = f \cap TYPE1_FLAGS /\ h = Flags3(path, g))'
      BY <1>1, <2>1, <2>6, Zenon
    <3>. QED  BY <2>9, <3>1, <3>2, <3>3, Zenon DEF ThirdIsSent
  <2>12. UnderWay'
    <3>1. \E u, v, w : ThirdIsSent(u, v, w)'
      BY <2>11, Zenon
    <3>. QED  BY <2>8, <3>1, Zenon DEF UnderWay
  <2>13. Before' /\ Agreed' /\ Good' /\ Credited'
    BY <1>1, <1>2, <2>8, Zenon DEF Before, Agreed, Good, Credited
  <2>14. Known'
    <3>1. client'.challenge = Parsed(server', g)
      BY <1>1, <2>2, <2>9, Zenon
    <3>. QED  BY <3>1, Zenon DEF Known
  <2>. QED  BY <2>10, <2>12, <2>13, <2>14 DEF IInv
<1>. QED  BY <1>0, <1>1, <1>4, <1>5 DEF UnderWay

\* A key that is found is the client's; one is found unless there is a reason.
LEMMA DecideHolds == ASSUME NoneIsApart, IInv, Decide PROVE IInv'
<1>0. TypeOK /\ UnderWay /\ Before /\ Known
  BY DEF IInv
<1>1. /\ step = "decide" /\ step' = "conclude" /\ person' = person /\ server' = server /\ path' = path
      /\ client' = client /\ altered' = altered /\ Judged(Received(wire))
  BY Zenon DEF Decide, ServerUnchanged
<1>2. reader.key = None
  BY <1>0, <1>1 DEF Before
<1>3. IsPerson(person) /\ server.info \in Infos /\ server \in Servers /\ path \in Paths
  BY <1>0, Cast DEF TypeOK
<1>4. PICK f, g, h : ThirdIsSent(f, g, h)
  BY <1>0, <1>1 DEF UnderWay
<1>5. PICK sum : sum = Sum3(person, server, path, g)
  OBVIOUS
<1>6. PICK t : Third(person, server, path, h, sum) = t
  OBVIOUS
<1>7. /\ reader.type1 = NegotiateMessage(f) /\ reader.type2 = Second(server, f \cap TYPE1_FLAGS)
      /\ wire = Shown(path, t) /\ client.key = Random.key
      /\ altered = 0 <=> f = F0(path) /\ g = f \cap TYPE1_FLAGS /\ h = Flags3(path, g)
  BY <1>4, <1>5, <1>6, Zenon DEF ThirdIsSent, Received2
<1>8. Small(t, Message) /\ t # None
  BY <1>3, <1>6, ThirdIs, MessageIsSome
<1>9. Received(wire) = t /\ (Delegated => Accompanied(DecodeTsRequest(wire), Random.key))
  BY <1>7, <1>8, ShownIs
<1>10. PICK k : k = KeyOf(t)
  OBVIOUS
<1>11. Taken(k)
  BY <1>1, <1>8, <1>9, <1>10, Zenon DEF Judged
<1>12. PICK over : over = SumOver(f, f \cap TYPE1_FLAGS, person, server, path, h)
  OBVIOUS
<1>13. Hmac(Random.key, reader.type1 \o reader.type2 \o Third(person, server, path, h, <<>>)) = over
  BY <1>7, <1>12, Zenon DEF SumOver
<1>14. path # "tls" => (sum = <<over>> <=> altered = 0)
  <2>. SUFFICES ASSUME path # "tls" PROVE sum = <<over>> <=> altered = 0
    OBVIOUS
  <2>1. sum = <<SumOver(F0(path), g, person, server, path, Flags3(path, g))>>
    BY <1>5, Zenon DEF Sum3
  <2>2. ASSUME sum = <<over>> PROVE altered = 0
    <3>1. SumOver(F0(path), g, person, server, path, Flags3(path, g)) = SumOver(f, f \cap TYPE1_FLAGS, person, server, path, h)
      <4>1. PICK a : a = SumOver(F0(path), g, person, server, path, Flags3(path, g))
        OBVIOUS
      <4>2. <<a>> = <<over>>
        BY <2>1, <2>2, <4>1, Zenon
      <4>3. a = over
        BY <4>2
      <4>. QED  BY <1>12, <4>1, <4>3, Zenon
    <3>2. F0(path) = f /\ g = f \cap TYPE1_FLAGS /\ Flags3(path, g) = h
      BY <1>3, <3>1, SumsEqual
    <3>. QED  BY <1>7, <3>2
  <2>3. ASSUME altered = 0 PROVE sum = <<over>>
    BY <1>7, <1>12, <2>1, <2>3, Zenon
  <2>. QED  BY <2>2, <2>3
<1>15. Finds(k, sum, over)
  <2>1. Signed(t, h, sum, over)
    BY <1>6, <1>13, Zenon DEF Signed
  <2>2. Finds(KeyOf(t), sum, over)
    BY <1>3, <2>1, KeyIs
  <2>. QED  BY <1>10, <2>2, Zenon
<1>16. reader'.key # None => reader'.key = Random.key /\ server.knows /\ (path = "http" => altered = 0)
  <2>1. CASE k # None /\ (Delegated => Accompanied(DecodeTsRequest(wire), k))
    <3>1. reader' = [reader EXCEPT !.key = k]
      BY <1>11, <2>1, Zenon DEF Taken
    <3>2. reader'.key = k
      BY <1>0, <3>1 DEF TypeOK
    <3>. QED  BY <1>14, <1>15, <2>1, <3>2, Zenon DEF Finds
  <2>2. CASE ~(k # None /\ (Delegated => Accompanied(DecodeTsRequest(wire), k)))
    <3>1. reader' = reader
      BY <1>11, <2>2, Zenon DEF Taken
    <3>. QED  BY <1>2, <3>1
  <2>. QED  BY <2>1, <2>2
<1>17. DOMAIN reader' = DOMAIN reader
  <2>1. reader' = [reader EXCEPT !.key = k] \/ reader' = reader
    BY <1>11, Zenon DEF Taken
  <2>. QED  BY <2>1
<1>18. ASSUME altered = 0, server.knows, Fits, ~(path = "credssp" /\ person.domain # ""),
              ~(path = "tlsUncaptured" /\ server.strict)
       PROVE  reader'.key # None
  <2>1. Size(Utf16(person.user)) < Word /\ Size(Utf16(person.domain)) < Word
    <3>1. person.domain \in DOMAIN Lengths /\ person.user \in DOMAIN Lengths
      BY <1>3, Zenon DEF IsPerson
    <3>2. 2 * Lengths[person.user] < Word /\ 2 * Lengths[person.domain] < Word
      BY <1>18, Zenon DEF Fits
    <3>. QED  BY <3>1, <3>2, TextIs
  <2>2. Named(person, path) = person.domain
    BY <1>18, Zenon DEF Named
  <2>3. k = Random.key
    BY <1>14, <1>15, <1>18, <2>1, <2>2, Zenon DEF Finds
  <2>4. k # None
    <3>1. Row(Random.key)
      <4>1. PICK a, b : a = "random" /\ b = "key"
        OBVIOUS
      <4>2. Random.key = <<a, b>>
        BY <4>1 DEF Random
      <4>3. Row(<<a>> \o <<b>>)
        BY RowOne, RowCat
      <4>. QED  BY <4>2, <4>3, TwoInARow, Zenon
    <3>. QED  BY <2>3, <3>1, RowIsSome
  <2>5. reader' = [reader EXCEPT !.key = k]
    BY <1>9, <1>11, <2>3, <2>4, Zenon DEF Taken
  <2>. QED  BY <1>0, <2>4, <2>5 DEF TypeOK
<1>19. TypeOK'
  BY <1>0, <1>1, <1>17 DEF TypeOK, Steps
<1>20. UnderWay' /\ Before' /\ Credited'
  BY <1>1, <1>7, Zenon DEF UnderWay, Before, Credited
<1>21. Known'
  BY <1>0, <1>1, Zenon DEF Known
<1>22. Agreed'
  BY <1>1, <1>7, <1>16, Zenon DEF Agreed
<1>23. Good'
  <2>1. Fits' = Fits
    BY <1>1, Zenon DEF Fits
  <2>. QED  BY <1>1, <1>18, <2>1, Zenon DEF Good
<1>. QED  BY <1>19, <1>20, <1>21, <1>22, <1>23 DEF IInv

LEMMA ConcludeHolds == ASSUME NoneIsApart, IInv, Conclude PROVE IInv'
<1>0. TypeOK /\ UnderWay /\ Known /\ Agreed /\ Good
  BY DEF IInv
<1>1. /\ step = "conclude" /\ person' = person /\ server' = server /\ path' = path
      /\ reader' = reader /\ altered' = altered
  BY Zenon DEF Conclude
<1>2. client.key = Random.key
  BY <1>0, <1>1 DEF UnderWay
<1>3. client' = client /\ (\/ step' = "error"
                        \/ (step' = "ok" /\ path # "credssp")
                        \/ (step' = "receive" /\ wire' = Handed(person)))
  <2>1. CASE ~Delegated
    BY <2>1, Zenon DEF Conclude, Delegated
  <2>2. CASE Delegated
    <3>1. PICK ts : Delegate(ts)
      BY <2>2, Zenon DEF Conclude
    <3>. QED  BY <1>2, <3>1, Zenon DEF Delegate, Fail, Handed, Creds
  <2>. QED  BY <2>1, <2>2
<1>4. step' \in {"error", "ok", "receive"}
  BY <1>3
<1>5. TypeOK'
  BY <1>0, <1>1, <1>3 DEF TypeOK, Steps
<1>6. UnderWay'
  BY <1>1, <1>3 DEF UnderWay
<1>7. Before' /\ Credited'
  BY <1>1, <1>3 DEF Before, Credited
<1>8. Known'
  BY <1>0, <1>1, <1>3, Zenon DEF Known
<1>9. Agreed'
  BY <1>0, <1>1, <1>3, Zenon DEF Agreed
<1>10. Good'
  <2>1. Fits' = Fits
    BY <1>1, Zenon DEF Fits
  <2>. QED  BY <1>0, <1>1, <2>1 DEF Good
<1>. QED  BY <1>5, <1>6, <1>7, <1>8, <1>9, <1>10 DEF IInv

LEMMA ReceiveHolds == ASSUME NoneIsApart, IInv, Receive PROVE IInv'
<1>0. TypeOK /\ UnderWay /\ Known /\ Agreed /\ Good
  BY DEF IInv
<1>1. /\ step = "receive" /\ person' = person /\ server' = server /\ path' = path
      /\ client' = client /\ altered' = altered /\ Opened(DecodeTsRequest(wire).authInfo)
  BY Zenon DEF Receive, ServerUnchanged
<1>2. IsPerson(person)
  BY <1>0, Cast
<1>3. PICK sealed : sealed = Sealed(Random.key, "client", 2, Creds(person))
  OBVIOUS
<1>4. /\ DecodeTsRequest(wire).authInfo = sealed /\ sealed[1][3][4] = Creds(person)
      /\ Credentials(Creds(person)) = <<Utf16(person.domain), Utf16(person.user), Utf16(person.password)>>
  <2>1. wire = Handed(person)
    BY <1>0, <1>1 DEF UnderWay
  <2>. QED  BY <1>2, <1>3, <2>1, HandedIs, Zenon
<1>5. Opened(sealed)
  BY <1>1, <1>4, Zenon
<1>6. \/ step' = "ok" /\ reader' = [reader EXCEPT !.person = <<Utf16(person.domain), Utf16(person.user), Utf16(person.password)>>]
      \/ step' = "error" /\ reader' = reader
  BY <1>4, <1>5, Zenon DEF Opened
<1>7. /\ reader'.key = reader.key /\ reader'.type2 = reader.type2 /\ DOMAIN reader' = DOMAIN reader
      /\ step' = "ok" => reader'.person = <<Utf16(person.domain), Utf16(person.user), Utf16(person.password)>>
  BY <1>0, <1>6 DEF TypeOK
<1>8. step' = "ok" \/ step' = "error"
  BY <1>6
<1>9. TypeOK'
  BY <1>0, <1>1, <1>7, <1>8 DEF TypeOK, Steps
<1>10. UnderWay' /\ Before'
  BY <1>8, Zenon DEF UnderWay, Before
<1>11. Known'
  BY <1>0, <1>1, Zenon DEF Known
<1>12. Agreed'
  BY <1>0, <1>1, <1>7, Zenon DEF Agreed
<1>13. Good'
  <2>1. Fits' = Fits
    BY <1>1, Zenon DEF Fits
  <2>. QED  BY <1>0, <1>1, <1>7, <1>8, <2>1 DEF Good
<1>14. Credited'
  BY <1>1, <1>7, Zenon DEF Credited
<1>. QED  BY <1>9, <1>10, <1>11, <1>12, <1>13, <1>14 DEF IInv

\* A message that lost a flag is one with a flag less, and the count of the
\* altered tells it.
LEMMA AlterHolds == ASSUME NoneIsApart, IInv, Alter PROVE IInv'
<1>0. TypeOK /\ UnderWay /\ Before /\ Known
  BY DEF IInv
<1>1. /\ path = "http" /\ step \in {"challenge", "authenticate", "decide"} /\ wire # None
      /\ altered' = altered + 1 /\ step' = step /\ person' = person /\ server' = server /\ path' = path
      /\ client' = client /\ reader' = reader
  BY DEF Alter
<1>2. PICK flag : flag \in wire[1][3].flags /\ wire' = Without(wire, flag)
  BY Zenon DEF Alter, Without, Stripped
<1>3. /\ path # "credssp" /\ altered' # 0 /\ altered' \in Nat
      /\ reader.key = None /\ Refusal = {None}
  <2>1. reader.key = None
    BY <1>0, <1>1 DEF Before
  <2>2. path # "credssp"
    BY <1>1
  <2>3. Refusal = {None}
    BY <2>2, Zenon DEF Refusal, Delegated
  <2>. QED  BY <1>0, <1>1, <2>1, <2>2, <2>3 DEF TypeOK
<1>4. IsPerson(person) /\ server.info \in Infos
  BY <1>0, Cast
<1>5. \A t : Asked(path, t) = t /\ Told(server, path, t) = t /\ Shown(path, t) = t
  BY <1>3, Zenon DEF Asked, Told, Shown
<1>6. ASSUME step = "challenge" PROVE \E f : FirstIsSent(f)'
  <2>1. PICK f : FirstIsSent(f)
    BY <1>0, <1>6 DEF UnderWay
  <2>2. PICK e : e = f \ {flag}
    OBVIOUS
  <2>3. wire = NegotiateMessage(f) /\ f \subseteq F0(path)
    BY <1>5, <2>1, Zenon DEF FirstIsSent
  <2>4. wire' = NegotiateMessage(e) /\ flag \in f
    BY <1>2, <2>2, <2>3, FirstWithout
  <2>5. e \subseteq F0(path) /\ e # F0(path)
    BY <2>2, <2>3, <2>4
  <2>6. FirstIsSent(e)'
    BY <1>1, <1>3, <1>5, <2>4, <2>5, Zenon DEF FirstIsSent
  <2>. QED  BY <2>6, Zenon
<1>7. ASSUME step = "authenticate" PROVE \E f, g : SecondIsSent(f, g)'
  <2>1. PICK f, g : SecondIsSent(f, g)
    BY <1>0, <1>1, <1>3, <1>7, Zenon DEF UnderWay
  <2>2. PICK e : e = g \ {flag}
    OBVIOUS
  <2>3. wire = Second(server, g) /\ Received2(f, g)
    BY <1>5, <2>1, Zenon DEF SecondIsSent
  <2>4. wire' = Second(server, e) /\ flag \in g
    BY <1>2, <1>4, <2>2, <2>3, SecondWithout
  <2>5. g \subseteq f \cap TYPE1_FLAGS
    BY <2>3, Zenon DEF Received2
  <2>6. e \subseteq f \cap TYPE1_FLAGS /\ e # f \cap TYPE1_FLAGS
    BY <2>2, <2>4, <2>5
  <2>7. Received2(f, e)'
    BY <1>1, <2>3, <2>6, Zenon DEF Received2
  <2>8. SecondIsSent(f, e)'
    BY <1>1, <1>3, <1>5, <2>4, <2>6, <2>7, Zenon DEF SecondIsSent
  <2>. QED  BY <2>8, Zenon
<1>8. ASSUME step = "decide" PROVE \E f, g, h : ThirdIsSent(f, g, h)'
  <2>1. PICK f, g, h : ThirdIsSent(f, g, h)
    BY <1>0, <1>8 DEF UnderWay
  <2>2. PICK e : e = h \ {flag}
    OBVIOUS
  <2>3. PICK sum : sum = Sum3(person, server, path, g)
    OBVIOUS
  <2>4. /\ wire = Third(person, server, path, h, sum) /\ Received2(f, g) /\ client.key = Random.key
        /\ h \subseteq Flags3(path, g)
    BY <1>5, <2>1, <2>3, Zenon DEF ThirdIsSent
  <2>5. wire' = Third(person, server, path, e, sum) /\ flag \in h
    BY <1>2, <1>4, <2>2, <2>4, ThirdWithout
  <2>6. e \subseteq Flags3(path, g) /\ e # Flags3(path, g)
    BY <2>2, <2>4, <2>5
  <2>7. Received2(f, g)'
    BY <1>1, <2>4, Zenon DEF Received2
  <2>8. wire' = Shown(path, Third(person, server, path, e, Sum3(person, server, path, g)))'
    BY <1>1, <1>5, <2>3, <2>5, Zenon
  <2>9. ThirdIsSent(f, g, e)'
    BY <1>1, <1>3, <2>4, <2>6, <2>7, <2>8, Zenon DEF ThirdIsSent
  <2>. QED  BY <2>9, Zenon
<1>9. TypeOK'
  BY <1>0, <1>1, <1>3 DEF TypeOK
<1>10. UnderWay'
  BY <1>1, <1>6, <1>7, <1>8, Zenon DEF UnderWay
<1>11. Before'
  BY <1>0, <1>1, Zenon DEF Before
<1>12. Known'
  BY <1>0, <1>1, Zenon DEF Known
<1>13. Agreed' /\ Good' /\ Credited'
  BY <1>1, <1>3 DEF Agreed, Good, Credited
<1>. QED  BY <1>9, <1>10, <1>11, <1>12, <1>13 DEF IInv

LEMMA StutterHolds == ASSUME IInv, UNCHANGED vars PROVE IInv'
<1>1. /\ person' = person /\ server' = server /\ path' = path /\ step' = step /\ wire' = wire
      /\ client' = client /\ reader' = reader /\ altered' = altered
  BY DEF vars
<1>2. TypeOK /\ UnderWay /\ Before /\ Known /\ Agreed /\ Good /\ Credited
  BY DEF IInv
<1>3. Refusal' = Refusal
  BY <1>1, SMTT(60) DEF Refusal, Delegated, ServerError
<1>4. Fits' = Fits
  BY <1>1, Zenon DEF Fits
<1>5. TypeOK' /\ Before' /\ Known' /\ Agreed' /\ Good' /\ Credited'
  <2>1. TypeOK'
    BY <1>1, <1>2, Zenon DEF TypeOK
  <2>2. Before' /\ Known' /\ Agreed' /\ Credited'
    BY <1>1, <1>2, Zenon DEF Before, Known, Agreed, Credited
  <2>3. Good'
    BY <1>1, <1>2, <1>4, Zenon DEF Good
  <2>. QED  BY <2>1, <2>2, <2>3
<1>6. /\ \A f : FirstIsSent(f) => FirstIsSent(f)'
      /\ \A f, g : SecondIsSent(f, g) => SecondIsSent(f, g)'
      /\ \A f, g, h : ThirdIsSent(f, g, h) => ThirdIsSent(f, g, h)'
  <2>1. ASSUME NEW f, FirstIsSent(f) PROVE FirstIsSent(f)'
    BY <1>1, <2>1, Zenon DEF FirstIsSent
  <2>2. ASSUME NEW f, NEW g, Received2(f, g) PROVE Received2(f, g)'
    BY <1>1, <2>2, Zenon DEF Received2
  <2>3. ASSUME NEW f, NEW g, SecondIsSent(f, g) PROVE SecondIsSent(f, g)'
    BY <1>1, <2>2, <2>3, Zenon DEF SecondIsSent
  <2>4. ASSUME NEW f, NEW g, NEW h, ThirdIsSent(f, g, h) PROVE ThirdIsSent(f, g, h)'
    BY <1>1, <2>2, <2>4, Zenon DEF ThirdIsSent
  <2>. QED  BY <2>1, <2>3, <2>4, Zenon
<1>7. UnderWay'
  BY <1>1, <1>2, <1>3, <1>6, Zenon DEF UnderWay
<1>. QED  BY <1>5, <1>7 DEF IInv

-----------------------------------------------------------------------------
(* What holds of every login.                                                *)

LEMMA StepsHold == ASSUME NoneIsApart, IInv, [Next]_vars PROVE IInv'
<1>1. CASE Negotiate
  BY <1>1, NegotiateHolds
<1>2. CASE Authenticate
  BY <1>2, AuthenticateHolds
<1>3. CASE Conclude
  BY <1>3, ConcludeHolds
<1>4. CASE SendChallenge
  BY <1>4, SendChallengeHolds
<1>5. CASE Decide
  BY <1>5, DecideHolds
<1>6. CASE Receive
  BY <1>6, ReceiveHolds
<1>7. CASE Alter
  BY <1>7, AlterHolds
<1>8. CASE UNCHANGED vars
  BY <1>8, StutterHolds
<1>. QED  BY <1>1, <1>2, <1>3, <1>4, <1>5, <1>6, <1>7, <1>8, Zenon DEF Next

\* The invariant of every login.
LEMMA LoginInvariant == ASSUME NoneIsApart PROVE Spec => []IInv
<1>1. Init => IInv
  BY InitHolds
<1>2. IInv /\ [Next]_vars => IInv'
  BY StepsHold
<1>. QED  BY <1>1, <1>2, PTL DEF Spec

\* BothSidesAgree holds of every login, whoever logs in, whatever the target
\* info is and whatever is changed on a plain connection: the key the server
\* takes (do_handshake, and send_authenticated for CredSSP) is the client's and the server knows the password; the
\* challenge the client parsed repeats the server's target info and its time
\* (parse_challenge); and the credentials CredSSP delivers are the person's
\* (encode_ts_credentials).
THEOREM BothSidesAlwaysAgree == ASSUME NoneIsApart PROVE Spec => []BothSidesAgree
<1>1. ASSUME IInv PROVE BothSidesAgree
  <2>1. TypeOK /\ Known /\ Agreed /\ Credited
    BY <1>1 DEF IInv
  <2>2. reader.key # None => reader.key = client.key /\ server.knows
    BY <2>1, Zenon DEF Agreed
  <2>3. ASSUME client.challenge # None, server.info # None
        PROVE  /\ client.challenge.targetInfo = server.info
               /\ client.challenge.timestamp = AvValue(server.info, "TIMESTAMP")
    <3>1. PICK g : client.challenge = Parsed(server, g)
      BY <2>1, <2>3 DEF Known
    <3>2. InfoOf(server) = server.info
      BY <2>3, Zenon DEF InfoOf
    <3>3. Parsed(server, g).targetInfo = InfoOf(server) /\ Parsed(server, g).timestamp = AvValue(InfoOf(server), "TIMESTAMP")
      BY DEF Parsed
    <3>. QED  BY <3>1, <3>2, <3>3, Zenon
  <2>4. step = "ok" /\ Delegated =>
          reader.person = <<Utf16(person.domain), Utf16(person.user), Utf16(person.password)>>
    BY <2>1, Zenon DEF Credited, Delegated
  <2>. QED  BY <2>2, <2>3, <2>4, Zenon DEF BothSidesAgree
<1>2. Spec => []IInv
  BY LoginInvariant
<1>. QED  BY <1>1, <1>2, PTL

\* TakenIsUnaltered holds of every login, for any number of altered messages:
\* when the server takes a login of a plain connection, the flags of all three
\* messages arrived as they were sent, for the sum of
\* create_authenticate_message_full is over all of them.
THEOREM TakenIsNeverAltered == ASSUME NoneIsApart PROVE Spec => []TakenIsUnaltered
<1>1. IInv => TakenIsUnaltered
  BY Zenon DEF IInv, Agreed, TakenIsUnaltered
<1>2. Spec => []IInv
  BY LoginInvariant
<1>. QED  BY <1>1, <1>2, PTL

\* GoodLoginIsTaken holds of every login, whatever the lengths of names and of
\* the target info: each encoder's lengths and offsets are those its decoder
\* takes (encode_ts_request, decode_ts_request, decode_spnego_token,
\* parse_challenge, create_authenticate_message_full), so a server that knows the password
\* finds the key unless one of the three named reasons holds.
THEOREM GoodLoginIsAlwaysTaken == ASSUME NoneIsApart PROVE Spec => []GoodLoginIsTaken
<1>1. ASSUME IInv PROVE GoodLoginIsTaken
  BY <1>1, Zenon DEF IInv, Good, GoodLoginIsTaken
<1>2. Spec => []IInv
  BY LoginInvariant
<1>. QED  BY <1>1, <1>2, PTL

================================================================================
