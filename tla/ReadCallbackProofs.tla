------------------------- MODULE ReadCallbackProofs -------------------------
(***************************************************************************)
(* Proofs about ReadCallback, for output of any length, cut into pieces in *)
(* any way, and any replies of the script.                                 *)
(***************************************************************************)
EXTENDS ReadCallback, SequenceTheorems, FiniteSetTheorems, WellFoundedInduction, TLAPS

-----------------------------------------------------------------------------
(* Numbers and sequences *)

LEMMA Least ==
  ASSUME NEW T \in SUBSET Nat, T # {}
  PROVE  \E x \in T : \A y \in T : x <= y
<1>1. PICK x \in T : \A y \in T : ~(<<y, x>> \in OpToRel(<, Nat))
  BY NatLessThanWellFounded, WFMin, Zenon
<1>2. \A y \in T : ~(y < x)
  BY <1>1 DEF OpToRel
<1> QED
  BY <1>2

LEMMA Greatest ==
  ASSUME NEW n \in Nat, NEW T \in SUBSET (0..n), T # {}
  PROVE  \E x \in T : \A y \in T : x >= y
<1> DEFINE U == {k \in Nat : n - k \in T}
<1>1. U \in SUBSET Nat /\ U # {}
  <2>1. PICK x \in T : TRUE
    OBVIOUS
  <2>2. n - x \in Nat /\ n - (n - x) = x
    BY <2>1
  <2> QED
    BY <2>1, <2>2
<1>2. PICK k \in U : \A y \in U : k <= y
  <2> HIDE DEF U
  <2> QED
    BY <1>1, Least
<1>3. n - k \in T /\ k \in Nat
  BY <1>2
<1>4. ASSUME NEW y \in T PROVE n - k >= y
  <2>1. y \in 0..n
    OBVIOUS
  <2>2. n - y \in Nat /\ n - (n - y) = y
    BY <2>1
  <2>3. n - y \in U
    BY <2>2
  <2>4. k <= n - y
    BY <1>2, <2>3
  <2> QED
    BY <1>3, <2>1, <2>4
<1> QED
  BY <1>3, <1>4

LEMMA BoundedIsSeq ==
  ASSUME NEW S, NEW n \in Nat, NEW s
  PROVE  s \in BoundedSeq(S, n) <=> s \in Seq(S) /\ Len(s) <= n
<1>1. ASSUME s \in BoundedSeq(S, n) PROVE s \in Seq(S) /\ Len(s) <= n
  <2>1. PICK m \in 0..n : s \in [1..m -> S]
    BY <1>1 DEF BoundedSeq, SeqOf
  <2>2. s \in Seq(S)
    BY <2>1, SeqDef
  <2>3. Len(s) = m
    BY <2>1, <2>2
  <2> QED
    BY <2>2, <2>3
<1>2. ASSUME s \in Seq(S), Len(s) <= n PROVE s \in BoundedSeq(S, n)
  <2>1. Len(s) \in 0..n /\ s \in [1..Len(s) -> S]
    BY <1>2, LenProperties
  <2> QED
    BY <2>1 DEF BoundedSeq, SeqOf
<1> QED
  BY <1>1, <1>2

(* What a part of a text is. *)
LEMMA Part ==
  ASSUME NEW s \in Seq(Chars), NEW m \in Nat \ {0}, NEW n \in Int, n <= Len(s)
  PROVE  /\ SubSeq(s, m, n) \in Seq(Chars)
         /\ Len(SubSeq(s, m, n)) = IF m <= n THEN n - m + 1 ELSE 0
         /\ \A i \in 1..(n - m + 1) : SubSeq(s, m, n)[i] = s[m + i - 1]
<1>1. \A i \in m..n : s[i] \in Chars
  BY ElementOfSeq
<1> QED
  BY <1>1, SubSeqProperties

(* A part of a part of a text is a part of the text. *)
LEMMA PartOfPart ==
  ASSUME NEW s \in Seq(Chars), NEW a \in Nat, NEW b \in Nat, b <= Len(s),
         NEW m \in Nat \ {0}, NEW n \in Nat, a + n <= b
  PROVE  SubSeq(SubSeq(s, a + 1, b), m, n) = SubSeq(s, a + m, a + n)
<1> DEFINE t == SubSeq(s, a + 1, b)
           u == SubSeq(t, m, n)
           v == SubSeq(s, a + m, a + n)
<1>1. Len(s) \in Nat
  OBVIOUS
<1>2. /\ t \in Seq(Chars) /\ Len(t) = b - a
      /\ \A i \in 1..(b - a) : t[i] = s[a + i]
  <2>1. a + 1 \in Nat \ {0} /\ b - (a + 1) + 1 = b - a
    OBVIOUS
  <2>2. /\ t \in Seq(Chars)
        /\ Len(t) = (IF a + 1 <= b THEN b - (a + 1) + 1 ELSE 0)
        /\ \A i \in 1..(b - (a + 1) + 1) : t[i] = s[(a + 1) + i - 1]
    BY <2>1, Part
  <2>3. \A i \in 1..(b - a) : (a + 1) + i - 1 = a + i
    OBVIOUS
  <2> HIDE DEF t
  <2> QED
    BY <2>1, <2>2, <2>3
<1> HIDE DEF t
<1>3. /\ u \in Seq(Chars) /\ Len(u) = (IF m <= n THEN n - m + 1 ELSE 0)
      /\ \A i \in 1..(n - m + 1) : u[i] = t[m + i - 1]
  <2>1. n \in Int /\ n <= Len(t) /\ t \in Seq(Chars)
    BY <1>2
  <2> QED
    BY <2>1, Part
<1>4. /\ v \in Seq(Chars) /\ Len(v) = (IF m <= n THEN n - m + 1 ELSE 0)
      /\ \A i \in 1..(n - m + 1) : v[i] = s[a + m + i - 1]
  <2>1. a + m \in Nat \ {0} /\ a + n \in Int /\ a + n <= Len(s)
    BY <1>1
  <2>2. /\ v \in Seq(Chars)
        /\ Len(v) = (IF a + m <= a + n THEN (a + n) - (a + m) + 1 ELSE 0)
        /\ \A i \in 1..((a + n) - (a + m) + 1) : v[i] = s[a + m + i - 1]
    BY <2>1, Part
  <2>3. (a + n) - (a + m) + 1 = n - m + 1 /\ (a + m <= a + n <=> m <= n)
    OBVIOUS
  <2> HIDE DEF v
  <2> QED
    BY <2>2, <2>3
<1> HIDE DEF u, v
<1>5. Len(u) = Len(v) /\ \A i \in 1..Len(u) : u[i] = v[i]
  <2>1. \A i \in 1..(n - m + 1) : m + i - 1 \in 1..(b - a) /\ a + (m + i - 1) = a + m + i - 1
    OBVIOUS
  <2>2. \A i \in 1..(n - m + 1) : u[i] = v[i]
    BY <1>2, <1>3, <1>4, <2>1
  <2> QED
    BY <1>3, <1>4, <2>2
<1>6. u = v
  BY <1>3, <1>4, <1>5, SeqEqual
<1> QED
  BY <1>6 DEF t, u, v
-----------------------------------------------------------------------------
(* find() and the loop that removes the line end *)

LEMMA FindFirst ==
  ASSUME NEW s \in Seq(Chars)
  PROVE  /\ Find(s) \in 0..Len(s)
         /\ Find(s) = 0 => \A i \in 1..Len(s) : s[i] # "LF"
         /\ Find(s) > 0 => s[Find(s)] = "LF" /\ \A j \in 1..(Find(s) - 1) : s[j] # "LF"
<1>1. CASE ~\E i \in 1..Len(s) : s[i] = "LF"
  <2>1. Find(s) = 0
    BY <1>1 DEF Find
  <2> QED
    BY <1>1, <2>1
<1>2. CASE \E i \in 1..Len(s) : s[i] = "LF"
  <2> DEFINE T == {i \in 1..Len(s) : s[i] = "LF"}
             First(i) == s[i] = "LF" /\ \A j \in 1..(i - 1) : s[j] # "LF"
  <2>1. PICK x \in T : \A y \in T : x <= y
    <3>1. T \in SUBSET Nat /\ T # {}
      BY <1>2
    <3> QED
      BY <3>1, Least
  <2>2. x \in 1..Len(s) /\ First(x)
    <3>1. x \in 1..Len(s) /\ s[x] = "LF"
      BY <2>1
    <3>2. ASSUME NEW j \in 1..(x - 1) PROVE s[j] # "LF"
      <4>1. j \in 1..Len(s) /\ ~(x <= j)
        BY <3>1
      <4> QED
        BY <2>1, <4>1
    <3> QED
      BY <3>1, <3>2
  <2>3. Find(s) = CHOOSE i \in 1..Len(s) : First(i)
    BY <1>2 DEF Find
  <2>4. Find(s) \in 1..Len(s) /\ First(Find(s))
    <3> HIDE DEF First
    <3> QED
      BY <2>2, <2>3
  <2> QED
    BY <2>4
<1> QED
  BY <1>1, <1>2

(* The last character of a text that is no line end. *)
LastA(s, n) ==
  /\ n \in 0..Len(s)
  /\ n = 0 \/ s[n] = "a"
  /\ \A i \in (n + 1)..Len(s) : s[i] # "a"

LEMMA LastAExists ==
  ASSUME NEW s \in Seq(Chars)
  PROVE  \E n \in 0..Len(s) : LastA(s, n)
<1> DEFINE T == {i \in 1..Len(s) : s[i] = "a"}
<1>1. CASE T = {}
  <2>1. 0 \in 0..Len(s) /\ \A i \in (0 + 1)..Len(s) : s[i] # "a"
    BY <1>1
  <2> QED
    BY <2>1 DEF LastA
<1>2. CASE T # {}
  <2>1. Len(s) \in Nat /\ T \in SUBSET (0..Len(s))
    OBVIOUS
  <2>2. PICK x \in T : \A y \in T : x >= y
    <3> HIDE DEF T
    <3> QED
      BY <1>2, <2>1, Greatest
  <2>3. x \in 1..Len(s) /\ s[x] = "a"
    BY <2>2
  <2>4. ASSUME NEW i \in (x + 1)..Len(s) PROVE s[i] # "a"
    <3>1. i \in 1..Len(s) /\ ~(x >= i)
      BY <2>3
    <3> QED
      BY <2>2, <3>1
  <2> QED
    BY <2>3, <2>4 DEF LastA
<1> QED
  BY <1>1, <1>2

LEMMA ChompAt ==
  ASSUME NEW s \in Seq(Chars), NEW n, LastA(s, n)
  PROVE  Chomp(s) = SubSeq(s, 1, n)
<1> DEFINE kept == {i \in 1..Len(s) : s[i] = "a"}
           IsMax(x) == \A y \in kept : x >= y
<1>1. n \in 0..Len(s) /\ (n = 0 \/ s[n] = "a") /\ \A i \in (n + 1)..Len(s) : s[i] # "a"
  BY DEF LastA
<1>2. CASE n = 0
  <2>1. kept = {}
    BY <1>1, <1>2
  <2> QED
    BY <1>2, <2>1 DEF Chomp
<1>3. CASE n # 0
  <2>1. n \in kept
    BY <1>1, <1>3
  <2>2. ASSUME NEW y \in kept PROVE y <= n
    BY <1>1
  <2>3. \A x \in kept : IsMax(x) <=> x = n
    <3>1. IsMax(n)
      BY <1>1, <2>2
    <3>2. ASSUME NEW x \in kept, IsMax(x) PROVE x = n
      <4>1. x >= n /\ x <= n /\ x \in Int /\ n \in Int
        BY <1>1, <2>1, <2>2, <3>2
      <4> QED
        BY <4>1
    <3> QED
      BY <3>1, <3>2
  <2>4. Max(kept) = n
    <3>1. Max(kept) = CHOOSE x \in kept : IsMax(x)
      BY DEF Max
    <3> HIDE DEF IsMax, kept
    <3> QED
      BY <2>1, <2>3, <3>1
  <2>5. kept # {}
    BY <2>1
  <2>6. Chomp(s) = SubSeq(s, 1, IF kept = {} THEN 0 ELSE Max(kept))
    BY DEF Chomp
  <2> HIDE DEF kept
  <2> QED
    BY <2>4, <2>5, <2>6
<1> QED
  BY <1>2, <1>3

LEMMA BareAt ==
  ASSUME NEW s \in Seq(Chars), NEW n, LastA(s, n), \A i \in 1..Len(s) : s[i] # "LF"
  PROVE  Bare(s) = SubSeq(s, 1, n)
<1> DEFINE Is(k) == (k = 0 \/ s[k] # "CR") /\ \A i \in (k + 1)..Len(s) : s[i] = "CR"
<1>1. n \in 0..Len(s) /\ (n = 0 \/ s[n] = "a") /\ \A i \in (n + 1)..Len(s) : s[i] # "a"
  BY DEF LastA
<1>2. \A i \in 1..Len(s) : s[i] # "a" <=> s[i] = "CR"
  <2>1. \A i \in 1..Len(s) : s[i] \in Chars
    BY ElementOfSeq
  <2> QED
    BY <2>1 DEF Chars
<1>3. Is(n)
  BY <1>1, <1>2
<1>4. ASSUME NEW k \in 0..Len(s), Is(k) PROVE k = n
  <2>1. CASE k < n
    <3>1. n \in (k + 1)..Len(s) /\ n \in 1..Len(s) /\ n # 0
      BY <1>1, <2>1
    <3> QED
      BY <1>1, <1>2, <1>4, <3>1
  <2>2. CASE n < k
    <3>1. k \in (n + 1)..Len(s) /\ k \in 1..Len(s) /\ k # 0
      BY <1>1, <2>2
    <3> QED
      BY <1>1, <1>2, <1>4, <3>1
  <2> QED
    BY <1>1, <2>1, <2>2
<1>5. Bare(s) = SubSeq(s, 1, CHOOSE k \in 0..Len(s) : Is(k))
  BY DEF Bare
<1> HIDE DEF Is
<1>6. (CHOOSE k \in 0..Len(s) : Is(k)) = n
  BY <1>1, <1>3, <1>4
<1> QED
  BY <1>5, <1>6

(* For a line with its line feed, or an unfinished one, the code's loop    *)
(* removes what the reference removes.                                     *)
LEMMA ChompIsBare ==
  ASSUME NEW s \in Seq(Chars), NEW e \in 0..Len(s),
         e = Len(s) \/ (e = Len(s) - 1 /\ s[Len(s)] = "LF"),
         \A i \in 1..e : s[i] # "LF"
  PROVE  Chomp(s) = Bare(SubSeq(s, 1, e)) /\ Chomp(s) \in Seq(Chars)
<1> DEFINE t == SubSeq(s, 1, e)
<1>1. e \in Nat /\ e <= Len(s) /\ Len(s) \in Nat
  OBVIOUS
<1>2. t \in Seq(Chars) /\ Len(t) = e /\ \A i \in 1..e : t[i] = s[i]
  BY <1>1, Part
<1> HIDE DEF t
<1>3. PICK n \in 0..Len(t) : LastA(t, n)
  BY <1>2, LastAExists
<1>4. LastA(s, n)
  <2>1. n \in 0..Len(s) /\ (n = 0 \/ s[n] = "a")
    BY <1>1, <1>2, <1>3 DEF LastA
  <2>2. ASSUME NEW i \in (n + 1)..Len(s) PROVE s[i] # "a"
    <3>1. CASE i <= e
      <4>1. i \in (n + 1)..Len(t) /\ i \in 1..e
        BY <1>1, <1>2, <1>3, <3>1
      <4> QED
        BY <1>2, <1>3, <4>1 DEF LastA
    <3>2. CASE i > e
      <4>1. i = Len(s) /\ s[Len(s)] = "LF"
        BY <1>1, <3>2
      <4> QED
        BY <4>1
    <3> QED
      BY <1>1, <1>3, <3>1, <3>2
  <2> QED
    BY <2>1, <2>2 DEF LastA
<1>5. Chomp(s) = SubSeq(s, 1, n)
  BY <1>4, ChompAt
<1>6. Bare(t) = SubSeq(t, 1, n)
  <2>1. \A i \in 1..Len(t) : t[i] # "LF"
    BY <1>2
  <2> QED
    BY <1>2, <1>3, <2>1, BareAt
<1>7. SubSeq(t, 1, n) = SubSeq(s, 1, n)
  <2>1. 0 + n <= e /\ n \in Nat
    BY <1>1, <1>2, <1>3
  <2>2. SubSeq(SubSeq(s, 0 + 1, e), 1, n) = SubSeq(s, 0 + 1, 0 + n)
    BY <1>1, <2>1, PartOfPart
  <2> QED
    BY <2>1, <2>2 DEF t
<1>8. SubSeq(s, 1, n) \in Seq(Chars)
  BY <1>1, <1>2, <1>3, Part
<1> QED
  BY <1>5, <1>6, <1>7, <1>8 DEF t
-----------------------------------------------------------------------------
(* Counting line feeds *)

LEMMA FeedsFinite ==
  ASSUME NEW s, NEW n \in Nat
  PROVE  IsFiniteSet(LineFeeds(s, n)) /\ Count(s, n) \in Nat
<1>1. IsFiniteSet(1..n) /\ LineFeeds(s, n) \subseteq 1..n
  BY FS_Interval DEF LineFeeds
<1>2. IsFiniteSet(LineFeeds(s, n))
  BY <1>1, FS_Subset
<1> QED
  BY <1>2, FS_CardinalityType DEF Count

(* No line feed between two positions: the count stays. *)
LEMMA CountSame ==
  ASSUME NEW s, NEW m \in Nat, NEW n \in Nat, m <= n,
         \A i \in (m + 1)..n : s[i] # "LF"
  PROVE  Count(s, n) = Count(s, m)
<1>1. LineFeeds(s, n) = LineFeeds(s, m)
  <2>1. ASSUME NEW i \in 1..n, s[i] = "LF" PROVE i \in 1..m
    <3>1. CASE i > m
      <4>1. i \in (m + 1)..n
        BY <3>1
      <4> QED
        BY <2>1, <4>1
    <3> QED
      BY <3>1
  <2>2. 1..m \subseteq 1..n
    OBVIOUS
  <2> QED
    BY <2>1, <2>2 DEF LineFeeds
<1> QED
  BY <1>1 DEF Count

(* The next line feed counts one more. *)
LEMMA CountNext ==
  ASSUME NEW s, NEW m \in Nat, NEW n \in Nat, m < n, s[n] = "LF",
         \A i \in (m + 1)..(n - 1) : s[i] # "LF"
  PROVE  Count(s, n) = Count(s, m) + 1
<1>1. LineFeeds(s, n) = LineFeeds(s, m) \cup {n} /\ n \notin LineFeeds(s, m)
  <2>1. ASSUME NEW i \in 1..n, s[i] = "LF", i # n PROVE i \in 1..m
    <3>1. CASE i > m
      <4>1. i \in (m + 1)..(n - 1)
        BY <2>1, <3>1
      <4> QED
        BY <2>1, <4>1
    <3> QED
      BY <3>1
  <2>2. 1..m \subseteq 1..n /\ n \in 1..n /\ n \notin 1..m
    OBVIOUS
  <2> QED
    BY <2>1, <2>2 DEF LineFeeds
<1> QED
  BY <1>1, FeedsFinite, FS_AddElement DEF Count

(* The count of a line feed is greater than any before. *)
LEMMA CountGrows ==
  ASSUME NEW s, NEW m \in Nat, NEW n \in Nat, m < n
  PROVE  Count(s, m) <= Count(s, n) /\ (s[n] = "LF" => Count(s, m) < Count(s, n))
<1>1. LineFeeds(s, m) \subseteq LineFeeds(s, n) /\ n \notin LineFeeds(s, m)
      /\ (s[n] = "LF" => n \in LineFeeds(s, n))
  <2>1. 1..m \subseteq 1..n /\ n \in 1..n /\ n \notin 1..m
    OBVIOUS
  <2> QED
    BY <2>1 DEF LineFeeds
<1>2. IsFiniteSet(LineFeeds(s, n)) /\ Count(s, m) \in Nat /\ Count(s, n) \in Nat
  BY FeedsFinite
<1>3. /\ Count(s, m) <= Count(s, n)
      /\ Count(s, m) = Count(s, n) => LineFeeds(s, m) = LineFeeds(s, n)
  BY <1>1, <1>2, FS_Subset DEF Count
<1> QED
  BY <1>1, <1>2, <1>3

(* The line feed with count k ends line k. *)
LEMMA LineEndAt ==
  ASSUME NEW s \in Seq(Chars), NEW e \in 1..Len(s), s[e] = "LF"
  PROVE  /\ Count(s, e) \in Nat \ {0} /\ Count(s, e) <= Count(s, Len(s))
         /\ LineEnd(s, Count(s, e)) = e
<1> DEFINE k == Count(s, e)
           Is(i) == Count(s, i) = k
<1>1. Len(s) \in Nat /\ e \in Nat /\ 0 < e
  OBVIOUS
<1>2. Count(s, 0) \in Nat /\ k \in Nat /\ Count(s, Len(s)) \in Nat
  BY <1>1, FeedsFinite
<1>3. Count(s, 0) < k
  BY <1>1, CountGrows
<1>4. k <= Count(s, Len(s))
  <2>1. CASE e = Len(s)
    BY <1>2, <2>1
  <2>2. CASE e < Len(s)
    BY <1>1, <2>2, CountGrows
  <2> QED
    BY <1>1, <2>1, <2>2
<1>5. e \in LineFeeds(s, Len(s))
  BY DEF LineFeeds
<1>6. ASSUME NEW i \in LineFeeds(s, Len(s)), Is(i) PROVE i = e
  <2>1. i \in 1..Len(s) /\ s[i] = "LF" /\ i \in Nat
    BY DEF LineFeeds
  <2>2. CASE i < e
    <3>1. Count(s, i) < k
      BY <1>1, <2>1, <2>2, CountGrows
    <3> QED
      BY <1>2, <1>6, <3>1
  <2>3. CASE e < i
    <3>1. k < Count(s, i)
      BY <1>1, <2>1, <2>3, CountGrows
    <3> QED
      BY <1>2, <1>6, <3>1
  <2> QED
    BY <1>1, <2>1, <2>2, <2>3
<1>7. k # 0
  BY <1>2, <1>3
<1>8. LineEnd(s, k) = CHOOSE i \in LineFeeds(s, Len(s)) : Is(i)
  BY <1>4, <1>7 DEF LineEnd
<1>9. Is(e)
  OBVIOUS
<1> HIDE DEF Is, k
<1>10. LineEnd(s, k) = e
  BY <1>5, <1>6, <1>8, <1>9
<1> QED
  BY <1>2, <1>4, <1>7, <1>10 DEF k

LEMMA CountZero == \A s : Count(s, 0) = 0
<1>1. \A s : LineFeeds(s, 0) = {}
  BY DEF LineFeeds
<1> QED
  BY <1>1, FS_EmptySet DEF Count

(* Where a line begins: behind a line feed, or at the begin of the text. *)
LEMMA LineBegin ==
  ASSUME NEW s \in Seq(Chars), NEW c \in 0..Len(s), c = 0 \/ s[c] = "LF"
  PROVE  /\ Count(s, c) \in Nat /\ Count(s, c) <= Count(s, Len(s))
         /\ LineEnd(s, Count(s, c)) = c
<1>1. CASE c = 0
  <2>1. Count(s, 0) = 0 /\ Count(s, Len(s)) \in Nat
    BY CountZero, FeedsFinite
  <2> QED
    BY <1>1, <2>1 DEF LineEnd
<1>2. CASE c # 0
  <2>1. c \in 1..Len(s)
    BY <1>2
  <2> QED
    BY <1>2, <2>1, LineEndAt
<1> QED
  BY <1>1, <1>2

LEMMA LineCountNat ==
  ASSUME NEW s \in Seq(Chars)
  PROVE  /\ LineCount(s) \in Nat /\ Count(s, Len(s)) <= LineCount(s)
         /\ \A k \in 1..LineCount(s) :
              Lines(s)[k] = Bare(SubSeq(s, LineEnd(s, k - 1) + 1, LineEnd(s, k) - 1))
         /\ DOMAIN Lines(s) = 1..LineCount(s)
<1>1. Count(s, Len(s)) \in Nat
  BY FeedsFinite
<1>2. LineCount(s) \in Nat /\ Count(s, Len(s)) <= LineCount(s)
  BY <1>1 DEF LineCount
<1> QED
  BY <1>2 DEF Lines

(* A line that ends with a line feed. *)
LEMMA LineWithEnd ==
  ASSUME NEW s \in Seq(Chars), NEW c \in 0..Len(s), c = 0 \/ s[c] = "LF",
         NEW e \in 1..Len(s), c < e, s[e] = "LF",
         \A i \in (c + 1)..(e - 1) : s[i] # "LF"
  PROVE  /\ Count(s, e) = Count(s, c) + 1
         /\ Count(s, e) \in 1..LineCount(s)
         /\ Lines(s)[Count(s, e)] = Bare(SubSeq(s, c + 1, e - 1))
<1>1. c \in Nat /\ e \in Nat
  OBVIOUS
<1>2. Count(s, e) = Count(s, c) + 1
  BY <1>1, CountNext
<1>3. Count(s, c) \in Nat /\ LineEnd(s, Count(s, c)) = c
  BY LineBegin
<1>4. /\ Count(s, e) \in Nat \ {0} /\ Count(s, e) <= Count(s, Len(s))
      /\ LineEnd(s, Count(s, e)) = e
  BY LineEndAt
<1>5. Count(s, e) \in 1..LineCount(s)
  <2>1. LineCount(s) \in Nat /\ Count(s, Len(s)) <= LineCount(s) /\ Count(s, Len(s)) \in Nat
    BY LineCountNat, FeedsFinite
  <2> QED
    BY <1>4, <2>1
<1>6. Count(s, e) - 1 = Count(s, c)
  BY <1>2, <1>3
<1> QED
  BY <1>2, <1>3, <1>4, <1>5, <1>6, LineCountNat

(* The last line, without a line feed. *)
LEMMA LineWithoutEnd ==
  ASSUME NEW s \in Seq(Chars), NEW c \in 0..Len(s), c = 0 \/ s[c] = "LF",
         c < Len(s), \A i \in (c + 1)..Len(s) : s[i] # "LF"
  PROVE  /\ LineCount(s) = Count(s, c) + 1
         /\ Lines(s)[Count(s, c) + 1] = Bare(SubSeq(s, c + 1, Len(s)))
<1>1. c \in Nat /\ Len(s) \in Nat
  OBVIOUS
<1>2. Count(s, Len(s)) = Count(s, c)
  BY <1>1, CountSame
<1>3. Count(s, c) \in Nat /\ LineEnd(s, Count(s, c)) = c
  BY LineBegin
<1>4. s[Len(s)] # "LF" /\ s # <<>>
  <2>1. Len(s) \in (c + 1)..Len(s)
    BY <1>1
  <2> QED
    BY <1>1, <2>1
<1>5. LineCount(s) = Count(s, c) + 1
  BY <1>2, <1>4 DEF LineCount
<1>6. LineEnd(s, Count(s, c) + 1) = Len(s) + 1
  BY <1>2, <1>3 DEF LineEnd
<1>7. /\ Count(s, c) + 1 \in 1..LineCount(s) /\ (Count(s, c) + 1) - 1 = Count(s, c)
      /\ (Len(s) + 1) - 1 = Len(s)
  BY <1>1, <1>3, <1>5
<1>8. Lines(s)[Count(s, c) + 1]
        = Bare(SubSeq(s, LineEnd(s, (Count(s, c) + 1) - 1) + 1, LineEnd(s, Count(s, c) + 1) - 1))
  BY <1>7, LineCountNat
<1> QED
  BY <1>3, <1>5, <1>6, <1>7, <1>8
-----------------------------------------------------------------------------
(* The steps keep the invariant *)

LEMMA Types ==
  ASSUME TypeOK
  PROVE  /\ text \in Seq(Chars) /\ Len(text) \in Nat /\ Len(text) <= MaxLen
         /\ buf \in Seq(Chars) /\ Len(buf) \in Nat
         /\ pos \in 0..Len(text) /\ size \in 0..Len(text) /\ MaxLen \in Nat
BY BoundedIsSeq, ReadCallbackAssumption DEF TypeOK

LEMMA BufferPlace ==
  ASSUME TypeOK, BufferIsTail
  PROVE  /\ Consumed \in 0..Len(text) /\ Consumed + Len(buf) = pos
         /\ \A i \in 1..Len(buf) : buf[i] = text[Consumed + i]
<1>1. /\ text \in Seq(Chars) /\ Len(text) \in Nat /\ Len(buf) \in Nat /\ pos \in 0..Len(text)
  BY Types
<1>2. Consumed \in Nat /\ Consumed + Len(buf) = pos /\ Consumed <= pos
  BY <1>1 DEF Consumed, BufferIsTail
<1>3. buf = SubSeq(text, Consumed + 1, pos)
  BY DEF BufferIsTail
<1> DEFINE c == Consumed
<1> HIDE DEF c
<1>4. \A i \in 1..(pos - (c + 1) + 1) : buf[i] = text[(c + 1) + i - 1]
  <2>1. c + 1 \in Nat \ {0} /\ pos \in Int /\ pos <= Len(text)
    BY <1>1, <1>2 DEF c
  <2> QED
    BY <1>1, <1>3, <2>1, Part DEF c
<1>5. \A i \in 1..Len(buf) : i \in 1..(pos - (c + 1) + 1) /\ (c + 1) + i - 1 = c + i
  BY <1>1, <1>2 DEF c
<1> QED
  BY <1>1, <1>2, <1>4, <1>5 DEF c

LEMMA FeedStep ==
  ASSUME IndInv, NEW n \in 1..MaxLen, Feed(n)
  PROVE  IndInv' /\ Len(buf') = Len(buf) + n
<1>1. /\ TypeOK /\ BufferIsTail /\ CallsMatch /\ pc = "idle" /\ pos + n <= Len(text)
      /\ buf' = buf \o Piece(n) /\ pos' = pos + n /\ size' = n /\ pc' = "loop"
      /\ UNCHANGED <<text, out, calls>>
  BY DEF IndInv, Feed
<1>2. /\ text \in Seq(Chars) /\ Len(text) \in Nat /\ Len(text) <= MaxLen /\ MaxLen \in Nat
      /\ buf \in Seq(Chars) /\ Len(buf) \in Nat /\ pos \in 0..Len(text) /\ n \in Nat \ {0}
  BY <1>1, Types
<1>3. Consumed \in 0..Len(text) /\ Consumed + Len(buf) = pos
  BY <1>1, BufferPlace
<1>4. Piece(n) \in Seq(Chars) /\ Len(Piece(n)) = n
  <2>1. pos + 1 \in Nat \ {0} /\ pos + n \in Int /\ (pos + n) - (pos + 1) + 1 = n
        /\ pos + 1 <= pos + n
    BY <1>2
  <2> QED
    BY <1>1, <1>2, <2>1, Part DEF Piece
<1>5. buf' \in Seq(Chars) /\ Len(buf') = Len(buf) + n
  <2>1. /\ buf \o Piece(n) \in Seq(Chars)
        /\ Len(buf \o Piece(n)) = Len(buf) + Len(Piece(n))
    BY <1>2, <1>4, ConcatProperties
  <2> QED
    BY <1>1, <1>4, <2>1
<1>6. Len(buf') <= pos' /\ Consumed' = Consumed
  BY <1>1, <1>2, <1>3, <1>5 DEF Consumed
<1>7. buf' = SubSeq(text, Consumed + 1, pos + n)
  <2>1. /\ Consumed + 1 \in 1..Len(text) + 1 /\ pos \in (Consumed + 1) - 1..Len(text)
        /\ pos + n \in pos..Len(text)
    BY <1>1, <1>2, <1>3
  <2>2. SubSeq(text, Consumed + 1, pos) \o SubSeq(text, pos + 1, pos + n)
          = SubSeq(text, Consumed + 1, pos + n)
    BY <1>2, <2>1, ConcatAdjacentSubSeq
  <2> QED
    BY <1>1, <2>2 DEF Piece, BufferIsTail
<1>8. BufferIsTail'
  BY <1>1, <1>6, <1>7 DEF BufferIsTail
<1>9. TypeOK'
  <2>1. Len(buf') <= MaxLen
    BY <1>1, <1>2, <1>5, <1>6
  <2>2. buf' \in BoundedSeq(Chars, MaxLen)
    BY <1>2, <1>5, <2>1, BoundedIsSeq
  <2>3. pos' \in 0..Len(text') /\ size' \in 0..Len(text')
    BY <1>1, <1>2
  <2> QED
    BY <1>1, <2>2, <2>3 DEF TypeOK
<1>10. Phases'
  <2>1. buf' # <<>>
    BY <1>2, <1>5
  <2> QED
    BY <1>1, <1>2, <2>1 DEF Phases
<1>11. NoLineHeldBack'
  BY <1>1 DEF NoLineHeldBack
<1>12. CallsMatch'
  BY <1>1, <1>6 DEF CallsMatch
<1> QED
  BY <1>5, <1>8, <1>9, <1>10, <1>11, <1>12 DEF IndInv

LEMMA FlushStep ==
  ASSUME IndInv, Flush
  PROVE  IndInv'
<1>1. /\ TypeOK /\ BufferIsTail /\ CallsMatch /\ NoLineHeldBack /\ pc = "idle" /\ pos = Len(text)
      /\ size' = 0 /\ pc' = (IF buf = <<>> THEN "done" ELSE "loop")
      /\ UNCHANGED <<text, pos, buf, out, calls>>
  BY DEF IndInv, Flush
<1>2. text \in Seq(Chars) /\ Len(text) \in Nat
  BY <1>1, Types
<1>3. TypeOK'
  BY <1>1, <1>2 DEF TypeOK
<1>4. BufferIsTail' /\ Phases' /\ Consumed' = Consumed
  BY <1>1 DEF BufferIsTail, Phases, Consumed
<1>5. NoLineHeldBack'
  BY <1>1 DEF NoLineHeldBack, Find
<1>6. CallsMatch'
  <2>1. CASE buf # <<>>
    BY <1>1, <1>4, <2>1 DEF CallsMatch
  <2>2. CASE buf = <<>>
    <3>1. Consumed = Len(text)
      BY <1>1, <1>2, <2>2 DEF Consumed
    <3>2. SUFFICES ASSUME ~HasEmptyLine(text) PROVE Len(calls) = LineCount(text)
      BY <1>1, <2>2 DEF CallsMatch
    <3>3. Count(text, Len(text)) = Len(calls) /\ (Len(text) = 0 \/ text[Len(text)] = "LF")
      BY <1>1, <3>1, <3>2 DEF CallsMatch
    <3>4. Len(text) = 0 => text = <<>>
      BY <1>2, EmptySeq
    <3> QED
      BY <3>3, <3>4 DEF LineCount
  <2> QED
    BY <2>1, <2>2
<1> QED
  BY <1>3, <1>4, <1>5, <1>6 DEF IndInv

LEMMA NoLineStep ==
  ASSUME IndInv, NoLine
  PROVE  IndInv'
<1>1. /\ pc = "loop" /\ Find(buf) = 0 /\ pc' = "idle"
      /\ UNCHANGED <<text, pos, size, buf, out, calls>>
  BY DEF NoLine, Incomplete
<1> QED
  BY <1>1 DEF IndInv, TypeOK, BufferIsTail, Phases, NoLineHeldBack, CallsMatch, Consumed, Find
-----------------------------------------------------------------------------
(* One iteration of the loop *)

(* What goes to the script and what stays. *)
LEMMA Taken ==
  ASSUME IndInv, NEW reply \in Replies, CallScript(reply)
  PROVE  LET p    == Find(buf)
             last == IF p = 0 THEN Len(buf) ELSE p
             line == Chomp(SubSeq(buf, 1, last))
         IN  /\ p \in 0..Len(buf) /\ last \in 1..Len(buf)
             /\ calls' = Append(calls, line) /\ out' = out \o Added(line, reply)
             /\ \/ buf' = <<>>
                \/ p > 1 /\ p < Len(buf) /\ buf' = SubSeq(buf, p + 1, Len(buf))
             /\ buf' = <<>> => last = Len(buf) \/ p = 1
             /\ p = 0 => buf' = <<>>
             /\ pc' = (IF buf' # <<>> THEN "loop" ELSE IF size = 0 THEN "done" ELSE "idle")
<1> DEFINE p     == Find(buf)
           last  == IF p = 0 THEN Len(buf) ELSE p
           whole == p = 0 \/ p = Len(buf)
           chunk == IF whole THEN buf ELSE SubSeq(buf, 1, p)
           rest  == IF whole THEN <<>> ELSE Rest(buf, p)
<1>1. TypeOK /\ pc = "loop" /\ buf # <<>>
  BY DEF IndInv, CallScript, Phases
<1>2. buf \in Seq(Chars) /\ Len(buf) \in Nat \ {0}
  BY <1>1, Types, EmptySeq
<1>3. p \in 0..Len(buf)
  BY <1>2, FindFirst
<1>4. /\ calls' = Append(calls, Chomp(chunk)) /\ out' = out \o Added(Chomp(chunk), reply)
      /\ buf' = rest
      /\ pc' = (IF Again(rest) THEN "loop" ELSE IF size = 0 THEN "done" ELSE "idle")
  BY DEF CallScript
<1> HIDE DEF p
<1>5. last \in 1..Len(buf) /\ last \in Nat
  BY <1>2, <1>3
<1>6. chunk = SubSeq(buf, 1, last)
  <2>1. CASE whole
    <3>1. last = Len(buf)
      BY <2>1
    <3> QED
      BY <1>2, <2>1, <3>1, SubSeqFull
  <2>2. CASE ~whole
    BY <2>2
  <2> QED
    BY <2>1, <2>2
<1>7. /\ \/ rest = <<>>
         \/ p > 1 /\ p < Len(buf) /\ rest = SubSeq(buf, p + 1, Len(buf))
      /\ p = 0 => rest = <<>>
  BY <1>2, <1>3 DEF Rest
<1>8. rest = <<>> => last = Len(buf) \/ p = 1
  <2>1. CASE whole
    BY <2>1
  <2>2. CASE ~whole /\ p # 1
    <3>1. p + 1 \in Nat \ {0} /\ p + 1 <= Len(buf) /\ Len(buf) \in Int
      BY <1>2, <1>3, <2>2
    <3>2. Len(SubSeq(buf, p + 1, Len(buf))) = Len(buf) - (p + 1) + 1
      BY <1>2, <3>1, Part
    <3>3. Len(SubSeq(buf, p + 1, Len(buf))) # 0
      BY <1>2, <1>3, <2>2, <3>2
    <3>4. rest = SubSeq(buf, p + 1, Len(buf))
      BY <1>2, <1>3, <2>2 DEF Rest
    <3>5. Len(rest) # 0 /\ Len(<<>>) = 0
      BY <3>3, <3>4
    <3>6. rest # <<>>
      BY <3>5, Zenon
    <3> HIDE DEF rest
    <3> QED
      BY <3>6
  <2> QED
    BY <2>1, <2>2
<1> HIDE DEF rest, chunk
<1> QED
  BY <1>3, <1>4, <1>5, <1>6, <1>7, <1>8 DEF p, Again

(* Each iteration takes something out of the buffer, which stays the end   *)
(* of the text.                                                            *)
LEMMA Shorter ==
  ASSUME IndInv, NEW reply \in Replies, CallScript(reply)
  PROVE  /\ buf' \in Seq(Chars) /\ Len(buf') < Len(buf) /\ BufferIsTail'
         /\ Len(buf') \in Nat
         /\ buf' # <<>> => Len(buf') = Len(buf) - Find(buf)
<1> DEFINE p == Find(buf)
<1>1. /\ TypeOK /\ BufferIsTail /\ buf # <<>> /\ UNCHANGED <<text, pos, size>>
  BY DEF IndInv, CallScript, Phases
<1>2. /\ buf \in Seq(Chars) /\ Len(buf) \in Nat \ {0}
      /\ text \in Seq(Chars) /\ Len(text) \in Nat /\ pos \in 0..Len(text)
  BY <1>1, Types, EmptySeq
<1>3. Consumed \in 0..Len(text) /\ Consumed + Len(buf) = pos
  BY <1>1, BufferPlace
<1>4. CASE buf' = <<>>
  <2>1. buf' \in Seq(Chars) /\ Len(buf') = 0
    BY <1>4, EmptySeq
  <2>2. Consumed' = pos
    BY <1>1, <1>2, <2>1 DEF Consumed
  <2>3. SubSeq(text, pos + 1, pos) = <<>>
    BY <1>2, SubSeqEmpty
  <2>4. BufferIsTail'
    BY <1>1, <1>2, <1>4, <2>1, <2>2, <2>3 DEF BufferIsTail
  <2> QED
    BY <1>2, <1>4, <2>1, <2>4
<1>5. CASE buf' # <<>>
  <2>1. p > 1 /\ p < Len(buf) /\ p \in 0..Len(buf) /\ buf' = SubSeq(buf, p + 1, Len(buf))
    BY <1>5, Taken
  <2> HIDE DEF p
  <2>2. p + 1 \in Nat \ {0} /\ p + 1 <= Len(buf) /\ Len(buf) - (p + 1) + 1 = Len(buf) - p
    BY <1>2, <2>1
  <2>3. buf' \in Seq(Chars) /\ Len(buf') = Len(buf) - p
    BY <1>2, <2>1, <2>2, Part
  <2>4. /\ Len(buf') < Len(buf) /\ Len(buf') \in Nat /\ Len(buf') <= pos
    BY <1>2, <1>3, <2>1, <2>3
  <2>5. Consumed' = Consumed + p
    <3>1. Consumed' = pos - Len(buf') /\ Consumed = pos - Len(buf)
      BY <1>1 DEF Consumed
    <3>2. pos \in Int /\ Len(buf) \in Int /\ p \in Int /\ Len(buf') = Len(buf) - p
      BY <1>2, <2>1, <2>3
    <3>3. pos - (Len(buf) - p) = (pos - Len(buf)) + p
      BY <3>2
    <3> QED
      BY <3>1, <3>2, <3>3, Zenon
  <2>6. buf' = SubSeq(text, Consumed + (p + 1), Consumed + Len(buf))
    <3>1. Consumed \in Nat /\ pos \in Nat /\ pos <= Len(text) /\ Consumed + Len(buf) <= pos
      BY <1>2, <1>3
    <3>2. buf = SubSeq(text, Consumed + 1, pos)
      BY <1>1 DEF BufferIsTail
    <3> DEFINE c == Consumed
               l == Len(buf)
    <3>3. l \in Nat /\ c \in Nat /\ c + l <= pos
      BY <1>2, <3>1
    <3> HIDE DEF c, l
    <3>4. SubSeq(SubSeq(text, c + 1, pos), p + 1, l) = SubSeq(text, c + (p + 1), c + l)
      <4> DEFINE q == p + 1
      <4>1. q \in Nat \ {0} /\ text \in Seq(Chars) /\ pos \in Nat /\ pos <= Len(text)
        BY <1>2, <2>2, <3>1
      <4> HIDE DEF q
      <4>2. SubSeq(SubSeq(text, c + 1, pos), q, l) = SubSeq(text, c + q, c + l)
        BY <3>3, <4>1, PartOfPart
      <4> QED
        BY <4>2 DEF q
    <3> QED
      BY <2>1, <3>2, <3>4 DEF c, l
  <2>7. BufferIsTail'
    <3>1. Consumed + (p + 1) = (Consumed + p) + 1
      BY <1>3, <2>1
    <3> QED
      BY <1>1, <1>3, <2>4, <2>5, <2>6, <3>1 DEF BufferIsTail
  <2> QED
    BY <2>3, <2>4, <2>7 DEF p
<1> QED
  BY <1>4, <1>5

(* The line is the next one of the text.  In a text without empty lines    *)
(* the buffer is never cleared behind a line of one character.             *)
LEMMA NextLine ==
  ASSUME IndInv, NEW reply \in Replies, CallScript(reply), ~HasEmptyLine(text)
  PROVE  /\ Len(calls) + 1 <= LineCount(text)
         /\ calls' = Append(calls, Lines(text)[Len(calls) + 1])
         /\ \/ pc' = "done" /\ Len(calls) + 1 = LineCount(text)
            \/ /\ pc' # "done" /\ Count(text, Consumed') = Len(calls) + 1
               /\ Consumed' \in 1..Len(text) /\ text[Consumed'] = "LF"
<1> DEFINE p    == Find(buf)
           c    == Consumed
           k    == Len(calls)
           last == IF p = 0 THEN Len(buf) ELSE p
           s    == SubSeq(buf, 1, last)
<1>1. /\ TypeOK /\ BufferIsTail /\ CallsMatch /\ Phases /\ pc = "loop" /\ buf # <<>>
      /\ UNCHANGED <<text, pos, size>> /\ (Find(buf) = 0 => size = 0)
  <2>1. size \in Nat
    BY Types DEF IndInv
  <2> QED
    BY <2>1 DEF IndInv, CallScript, Phases, Incomplete
<1>2. /\ text \in Seq(Chars) /\ Len(text) \in Nat /\ buf \in Seq(Chars)
      /\ Len(buf) \in Nat \ {0} /\ pos \in 0..Len(text)
  BY <1>1, Types, EmptySeq
<1>3. c \in 0..Len(text) /\ c + Len(buf) = pos /\ \A i \in 1..Len(buf) : buf[i] = text[c + i]
  BY <1>1, BufferPlace
<1>4. Count(text, c) = k /\ (c = 0 \/ text[c] = "LF") /\ k \in Nat
  <2>1. Count(text, Consumed) = Len(calls) /\ (Consumed = 0 \/ text[Consumed] = "LF")
    BY <1>1 DEF CallsMatch
  <2> QED
    BY <1>1, <2>1 DEF TypeOK
<1>5. /\ p \in 0..Len(buf) /\ last \in 1..Len(buf) /\ calls' = Append(calls, Chomp(s))
      /\ \/ buf' = <<>>
         \/ p > 1 /\ p < Len(buf) /\ buf' = SubSeq(buf, p + 1, Len(buf))
      /\ buf' = <<>> => last = Len(buf) \/ p = 1
      /\ p = 0 => buf' = <<>>
      /\ pc' = (IF buf' # <<>> THEN "loop" ELSE IF size = 0 THEN "done" ELSE "idle")
  BY Taken
<1>6. /\ p = 0 => \A i \in 1..Len(buf) : buf[i] # "LF"
      /\ p > 0 => buf[p] = "LF" /\ \A j \in 1..(p - 1) : buf[j] # "LF"
  BY <1>2, FindFirst
<1>7. Len(buf') = 0 => buf' = <<>>
  BY Shorter, EmptySeq
<1>8. buf' # <<>> => Len(buf') = Len(buf) - p
  BY Shorter
<1>9. Consumed' = pos - Len(buf')
  BY <1>1 DEF Consumed
<1> HIDE DEF p, c, k
<1>10. CASE p = 0
  <2>1. s = buf /\ last = Len(buf)
    BY <1>2, <1>10, SubSeqFull
  <2>2. pos = Len(text) /\ size = 0 /\ pc' = "done"
    BY <1>1, <1>5, <1>10 DEF Phases, p
  <2>3. c < Len(text) /\ \A i \in (c + 1)..Len(text) : text[i] # "LF"
    <3>1. c < Len(text)
      BY <1>2, <1>3, <2>2
    <3>2. ASSUME NEW i \in (c + 1)..Len(text) PROVE text[i] # "LF"
      <4>1. i - c \in 1..Len(buf) /\ c + (i - c) = i
        BY <1>2, <1>3, <2>2
      <4> QED
        BY <1>3, <1>6, <1>10, <4>1
    <3> QED
      BY <3>1, <3>2
  <2>4. /\ LineCount(text) = Count(text, c) + 1
        /\ Lines(text)[Count(text, c) + 1] = Bare(SubSeq(text, c + 1, Len(text)))
    BY <1>2, <1>3, <1>4, <2>3, LineWithoutEnd
  <2>5. buf = SubSeq(text, c + 1, Len(text))
    BY <1>1, <2>2 DEF BufferIsTail, c
  <2>6. Chomp(buf) = Bare(buf)
    <3>1. /\ Len(buf) \in 0..Len(buf) /\ \A i \in 1..Len(buf) : buf[i] # "LF"
          /\ Len(buf) = Len(buf)
      BY <1>2, <1>6, <1>10
    <3>2. Chomp(buf) = Bare(SubSeq(buf, 1, Len(buf)))
      BY <1>2, <3>1, ChompIsBare
    <3> QED
      BY <1>2, <3>2, SubSeqFull
  <2> HIDE DEF s, last
  <2>7. k + 1 = LineCount(text) /\ Chomp(s) = Lines(text)[k + 1]
    BY <1>4, <2>1, <2>4, <2>5, <2>6
  <2> QED
    BY <1>4, <1>5, <2>2, <2>7 DEF k
<1>11. CASE p > 0
  <2> DEFINE e == c + p
  <2>1. /\ e \in 1..Len(text) /\ c < e /\ text[e] = "LF" /\ last = p /\ p \in 1..Len(buf)
    <3>1. p \in 1..Len(buf) /\ last = p
      BY <1>5, <1>11
    <3> QED
      BY <1>2, <1>3, <1>6, <1>11, <3>1
  <2>2. \A i \in (c + 1)..(e - 1) : text[i] # "LF"
    <3>1. ASSUME NEW i \in (c + 1)..(e - 1) PROVE text[i] # "LF"
      <4>1. i - c \in 1..(p - 1) /\ i - c \in 1..Len(buf) /\ c + (i - c) = i
        BY <1>2, <1>3, <2>1
      <4> QED
        BY <1>3, <1>6, <1>11, <4>1
    <3> QED
      BY <3>1
  <2>3. /\ Count(text, e) = Count(text, c) + 1 /\ Count(text, e) \in 1..LineCount(text)
        /\ Lines(text)[Count(text, e)] = Bare(SubSeq(text, c + 1, e - 1))
    <3> HIDE DEF e
    <3> QED
      BY <1>2, <1>3, <1>4, <2>1, <2>2, LineWithEnd
  <2>4. /\ s \in Seq(Chars) /\ Len(s) = p /\ \A i \in 1..p : s[i] = buf[i]
    <3>1. p \in Int /\ p <= Len(buf) /\ 1 <= p /\ p - 1 + 1 = p
      BY <1>2, <2>1
    <3>2. \A i \in 1..p : 1 + i - 1 = i
      BY <3>1
    <3>3. /\ SubSeq(buf, 1, p) \in Seq(Chars) /\ Len(SubSeq(buf, 1, p)) = p
          /\ \A i \in 1..p : SubSeq(buf, 1, p)[i] = buf[1 + i - 1]
      BY <1>2, <3>1, Part
    <3> QED
      BY <2>1, <3>2, <3>3
  <2>5. SubSeq(s, 1, p - 1) = SubSeq(text, c + 1, e - 1)
    <3>1. SubSeq(SubSeq(buf, 0 + 1, p), 1, p - 1) = SubSeq(buf, 0 + 1, 0 + (p - 1))
      <4>1. 0 \in Nat /\ p \in Nat /\ p <= Len(buf) /\ p - 1 \in Nat /\ 0 + (p - 1) <= p
        BY <1>2, <2>1
      <4> QED
        BY <1>2, <4>1, PartOfPart
    <3>2. SubSeq(SubSeq(text, c + 1, pos), 1, p - 1) = SubSeq(text, c + 1, c + (p - 1))
      <4>1. /\ c \in Nat /\ pos \in Nat /\ pos <= Len(text) /\ p - 1 \in Nat
            /\ c + (p - 1) <= pos
        BY <1>2, <1>3, <2>1
      <4> QED
        BY <1>2, <4>1, PartOfPart
    <3>3. buf = SubSeq(text, c + 1, pos)
      BY <1>1 DEF BufferIsTail, c
    <3>4. 0 + 1 = 1 /\ 0 + (p - 1) = p - 1 /\ c + (p - 1) = e - 1
      BY <1>3, <2>1
    <3>5. s = SubSeq(buf, 1, p)
      BY <2>1
    <3> HIDE DEF e, s
    <3> QED
      BY <3>1, <3>2, <3>3, <3>4, <3>5
  <2>6. Chomp(s) = Bare(SubSeq(s, 1, p - 1))
    <3> HIDE DEF s
    <3>1. p - 1 \in 0..Len(s) /\ p - 1 = Len(s) - 1
      BY <1>2, <2>1, <2>4
    <3>2. s[Len(s)] = "LF"
      BY <1>2, <1>6, <1>11, <2>1, <2>4
    <3>3. \A i \in 1..(p - 1) : s[i] # "LF"
      BY <1>2, <1>6, <1>11, <2>1, <2>4
    <3> QED
      BY <2>4, <3>1, <3>2, <3>3, ChompIsBare
  <2>7. Consumed' = e
    <3>1. CASE buf' # <<>>
      <4>1. Consumed' = pos - (Len(buf) - p)
        BY <1>8, <1>9, <3>1, Zenon
      <4>2. pos - (Len(buf) - p) = e
        <5>1. c \in Int /\ Len(buf) \in Int /\ p \in Int /\ pos = c + Len(buf)
          BY <1>2, <1>3, <1>5
        <5> QED
          BY <5>1
      <4> QED
        BY <4>1, <4>2, Zenon
    <3>2. CASE buf' = <<>>
      <4>1. p # 1 \/ p = Len(buf)
        <5>1. CASE p = 1
          <6>1. text[c + 1] = "LF" /\ c + 1 \in 1..Len(text) /\ (c + 1) - 1 = c
            BY <1>3, <2>1, <5>1
          <6>2. c + 1 = 1 \/ text[(c + 1) - 1] = "LF"
            BY <1>4, <6>1
          <6>3. HasEmptyLine(text)
            BY <6>1, <6>2 DEF HasEmptyLine
          <6> QED
            BY <6>3
        <5> QED
          BY <5>1
      <4>2. p = Len(buf)
        BY <1>5, <2>1, <3>2, <4>1
      <4>3. Len(buf') = 0
        BY <3>2
      <4> QED
        BY <1>2, <1>3, <1>9, <4>2, <4>3
    <3> QED
      BY <3>1, <3>2
  <2> HIDE DEF s, last, e
  <2>8. /\ k + 1 <= LineCount(text) /\ Chomp(s) = Lines(text)[k + 1]
        /\ Count(text, Consumed') = k + 1
    <3>1. LineCount(text) \in Nat
      BY <1>2, LineCountNat
    <3>2. Count(text, e) = k + 1
      BY <1>4, <2>3
    <3>3. k + 1 \in 1..LineCount(text)
      BY <2>3, <3>2
    <3>4. k + 1 <= LineCount(text)
      BY <1>4, <3>1, <3>3
    <3>5. Chomp(s) = Lines(text)[k + 1]
      BY <2>3, <2>5, <2>6, <3>2
    <3> QED
      BY <2>7, <3>2, <3>4, <3>5
  <2>9. pc' = "done" => k + 1 = LineCount(text)
    <3>1. SUFFICES ASSUME pc' = "done" PROVE k + 1 = LineCount(text)
      OBVIOUS
    <3>2. size = 0 /\ buf' = <<>>
      BY <1>5, <3>1
    <3>3. pos = Len(text)
      BY <1>1, <3>2 DEF Phases
    <3>4. Len(buf') = 0
      BY <3>2
    <3>5. e = Len(text)
      BY <1>2, <1>9, <2>7, <3>3, <3>4
    <3> QED
      BY <1>4, <2>1, <2>3, <3>5 DEF LineCount
  <2> QED
    BY <1>5, <2>1, <2>7, <2>8, <2>9 DEF k
<1> QED
  BY <1>5, <1>10, <1>11

(* What the script is called with, and what its reply adds, is text. *)
LEMMA LineText ==
  ASSUME IndInv, NEW reply \in Replies, CallScript(reply)
  PROVE  calls' \in Seq(Seq(Chars)) /\ out' \in Seq(Chars \cup {"TEXT"})
<1> DEFINE last == IF Find(buf) = 0 THEN Len(buf) ELSE Find(buf)
           s    == SubSeq(buf, 1, last)
           line == Chomp(s)
           R    == Chars \cup {"TEXT"}
<1>1. TypeOK /\ buf \in Seq(Chars) /\ Len(buf) \in Nat
      /\ calls \in Seq(Seq(Chars)) /\ out \in Seq(R)
  BY Types DEF IndInv, TypeOK
<1>2. /\ last \in 1..Len(buf)
      /\ calls' = Append(calls, line) /\ out' = out \o Added(line, reply)
  BY Taken
<1> HIDE DEF last
<1>3. s \in Seq(Chars)
  BY <1>1, <1>2, Part
<1> HIDE DEF s
<1>4. line \in Seq(Chars)
  <2>1. PICK n \in 0..Len(s) : LastA(s, n)
    BY <1>3, LastAExists
  <2>2. Chomp(s) = SubSeq(s, 1, n)
    BY <1>3, <2>1, ChompAt
  <2>3. SubSeq(s, 1, n) \in Seq(Chars)
    BY <1>3, <2>1, Part
  <2> QED
    BY <2>2, <2>3
<1> HIDE DEF line
<1>5. Added(line, reply) \in Seq(R)
  <2>1. line \in Seq(R)
    BY <1>4, SeqMonotonic
  <2>2. <<"TEXT">> \in Seq(R) /\ <<>> \in Seq(R)
    OBVIOUS
  <2> QED
    BY <2>1, <2>2 DEF Added
<1>6. out \o Added(line, reply) \in Seq(R)
  <2> HIDE DEF R
  <2> QED
    BY <1>1, <1>5, ConcatProperties
<1>7. Append(calls, line) \in Seq(Seq(Chars))
  BY <1>1, <1>4, AppendProperties
<1> QED
  BY <1>2, <1>6, <1>7

LEMMA CallScriptStep ==
  ASSUME IndInv, NEW reply \in Replies, CallScript(reply)
  PROVE  IndInv'
<1>1. /\ TypeOK /\ BufferIsTail /\ CallsMatch /\ Phases /\ pc = "loop"
      /\ UNCHANGED <<text, pos, size>>
  BY DEF IndInv, CallScript
<1>2. /\ buf' \in Seq(Chars) /\ Len(buf') < Len(buf) /\ Len(buf') \in Nat /\ BufferIsTail'
  BY Shorter
<1>3. pc' = (IF buf' # <<>> THEN "loop" ELSE IF size = 0 THEN "done" ELSE "idle")
  BY Taken
<1>4. TypeOK'
  <2>1. /\ buf \in Seq(Chars) /\ Len(buf) \in Nat /\ MaxLen \in Nat /\ Len(buf) <= MaxLen
    BY <1>1, BoundedIsSeq, ReadCallbackAssumption DEF TypeOK
  <2>2. buf' \in BoundedSeq(Chars, MaxLen)
    BY <1>2, <2>1, BoundedIsSeq
  <2>3. pc' \in {"idle", "loop", "done"}
    BY <1>3
  <2> QED
    BY <1>1, <2>2, <2>3, LineText DEF TypeOK
<1>5. Phases'
  BY <1>1, <1>3 DEF Phases
<1>6. NoLineHeldBack'
  <2>1. pc' # "loop" => buf' = <<>>
    BY <1>3
  <2>2. Find(<<>>) = 0
    <3>1. 1..Len(<<>>) = {}
      OBVIOUS
    <3> QED
      BY <3>1 DEF Find
  <2> QED
    BY <2>1, <2>2 DEF NoLineHeldBack, Find
<1>7. CallsMatch'
  <2>1. SUFFICES ASSUME ~HasEmptyLine(text)
                 PROVE  /\ Len(calls') <= LineCount(text)
                        /\ \A k \in 1..Len(calls') : calls'[k] = Lines(text)[k]
                        /\ IF pc' = "done" THEN Len(calls') = LineCount(text)
                           ELSE /\ Count(text, Consumed') = Len(calls')
                                /\ Consumed' = 0 \/ text[Consumed'] = "LF"
    BY <1>1 DEF CallsMatch
  <2>2. /\ Len(calls) + 1 <= LineCount(text)
        /\ calls' = Append(calls, Lines(text)[Len(calls) + 1])
        /\ \/ pc' = "done" /\ Len(calls) + 1 = LineCount(text)
           \/ /\ pc' # "done" /\ Count(text, Consumed') = Len(calls) + 1
              /\ Consumed' \in 1..Len(text) /\ text[Consumed'] = "LF"
    BY <2>1, NextLine
  <2>3. /\ Len(calls) \in Nat /\ Len(calls') = Len(calls) + 1
        /\ \A k \in 1..Len(calls) : calls'[k] = calls[k]
        /\ calls'[Len(calls) + 1] = Lines(text)[Len(calls) + 1]
    BY <1>1, <2>2 DEF TypeOK
  <2>4. \A k \in 1..Len(calls) : calls[k] = Lines(text)[k]
    BY <1>1, <2>1 DEF CallsMatch
  <2>5. \A k \in 1..Len(calls') : calls'[k] = Lines(text)[k]
    <3>1. \A k \in 1..Len(calls') : k \in 1..Len(calls) \/ k = Len(calls) + 1
      BY <2>3
    <3> QED
      BY <2>3, <2>4, <3>1
  <2> QED
    BY <2>2, <2>3, <2>5
<1> QED
  BY <1>2, <1>4, <1>5, <1>6, <1>7 DEF IndInv

LEMMA Inductive ==
  ASSUME IndInv, [Next]_vars
  PROVE  IndInv'
<1>1. CASE UNCHANGED vars
  BY <1>1 DEF vars, IndInv, TypeOK, BufferIsTail, Phases, NoLineHeldBack, CallsMatch, Consumed,
     Find
<1> QED
  BY <1>1, FeedStep, FlushStep, NoLineStep, CallScriptStep DEF Next

LEMMA Initial ==
  ASSUME Init
  PROVE  IndInv
<1>1. /\ text \in BoundedSeq(Chars, MaxLen) /\ pos = 0 /\ size = 0 /\ buf = <<>>
      /\ out = <<>> /\ calls = <<>> /\ pc = "idle"
  BY DEF Init
<1>2. /\ text \in Seq(Chars) /\ Len(text) \in Nat /\ MaxLen \in Nat
      /\ <<>> \in BoundedSeq(Chars, MaxLen)
  <2>1. <<>> \in Seq(Chars) /\ Len(<<>>) = 0 /\ MaxLen \in Nat /\ 0 <= MaxLen
    BY EmptySeq, ReadCallbackAssumption
  <2>2. <<>> \in BoundedSeq(Chars, MaxLen)
    BY <2>1, BoundedIsSeq
  <2>3. text \in Seq(Chars)
    BY <1>1, <2>1, BoundedIsSeq
  <2> QED
    BY <2>1, <2>2, <2>3
<1>3. TypeOK
  BY <1>1, <1>2 DEF TypeOK
<1>4. Len(buf) = 0 /\ Len(calls) = 0 /\ Consumed = 0
  <2>1. Len(<<>>) = 0
    OBVIOUS
  <2>2. Len(buf) = 0 /\ Len(calls) = 0
    BY <1>1, <2>1, Zenon
  <2>3. Consumed = pos - Len(buf) /\ pos = 0
    BY <1>1, Zenon DEF Consumed
  <2>4. 0 - 0 = 0
    OBVIOUS
  <2> QED
    BY <2>2, <2>3, <2>4, Zenon
<1>5. BufferIsTail
  <2>1. SubSeq(text, 0 + 1, 0) = <<>>
    BY SubSeqEmpty
  <2> QED
    BY <1>1, <1>4, <2>1 DEF BufferIsTail
<1>6. Phases
  BY <1>1 DEF Phases
<1>7. NoLineHeldBack
  <2>1. ~\E i \in 1..Len(buf) : buf[i] = "LF"
    BY <1>4
  <2> QED
    BY <2>1 DEF NoLineHeldBack, Find
<1>8. CallsMatch
  <2>1. LineCount(text) \in Nat /\ Count(text, 0) = 0
    BY <1>2, LineCountNat, CountZero
  <2> QED
    BY <1>1, <1>4, <2>1 DEF CallsMatch
<1> QED
  BY <1>3, <1>5, <1>6, <1>7, <1>8 DEF IndInv

LEMMA Invariance == Spec => []IndInv
BY Initial, Inductive, PTL DEF Spec
-----------------------------------------------------------------------------
(* Theorems *)

(* The type invariant; in particular the buffer never holds more than was  *)
(* received.                                                               *)
THEOREM TypeCorrect == Spec => []TypeOK
BY Invariance, PTL DEF IndInv

(* Between two calls of read_callback() no complete line waits in the      *)
(* buffer.                                                                 *)
THEOREM NoLineWaits == Spec => []NoLineHeldBack
BY Invariance, PTL DEF IndInv

LEMMA MatchDelivers ==
  ASSUME IndInv
  PROVE  LinesDelivered
<1> SUFFICES ASSUME ~HasEmptyLine(text)
             PROVE  /\ IsPrefix(calls, Lines(text))
                    /\ pc = "done" => calls = Lines(text)
  BY DEF LinesDelivered
<1> DEFINE all == Lines(text)
<1>1. /\ Len(calls) <= LineCount(text) /\ \A k \in 1..Len(calls) : calls[k] = all[k]
      /\ pc = "done" => Len(calls) = LineCount(text)
  BY DEF IndInv, CallsMatch
<1>2. text \in Seq(Chars) /\ calls \in Seq(Seq(Chars)) /\ Len(calls) \in Nat
  BY Types DEF IndInv, TypeOK
<1>3. LineCount(text) \in Nat /\ all \in [1..LineCount(text) -> Range(all)]
  BY <1>2, LineCountNat DEF Lines, Range
<1>4. all \in Seq(Range(all)) /\ Len(all) = LineCount(text)
  <2> HIDE DEF all
  <2>1. all \in Seq(Range(all))
    BY <1>3, SeqDef
  <2> QED
    BY <1>3, <2>1
<1> HIDE DEF all
<1> DEFINE U == Seq(Chars) \cup Range(all)
<1>5. calls \in Seq(U) /\ all \in Seq(U)
  BY <1>2, <1>4, SeqMonotonic
<1> HIDE DEF U
<1>6. SubSeq(all, 1, Len(calls)) = calls
  <2> DEFINE h == SubSeq(all, 1, Len(calls))
  <2>1. \A i \in 1..Len(calls) : all[i] \in U
    BY <1>1, <1>2, <1>3, <1>4, <1>5, ElementOfSeq
  <2>2. /\ h \in Seq(U) /\ Len(h) = (IF 1 <= Len(calls) THEN Len(calls) - 1 + 1 ELSE 0)
        /\ \A i \in 1..(Len(calls) - 1 + 1) : h[i] = all[1 + i - 1]
    BY <1>2, <2>1, SubSeqProperties
  <2> HIDE DEF h
  <2>3. Len(h) = Len(calls) /\ \A i \in 1..Len(h) : h[i] = calls[i]
    BY <1>1, <1>2, <2>2
  <2>4. h = calls
    BY <1>5, <2>2, <2>3, SeqEqual
  <2> QED
    BY <2>4 DEF h
<1>7. IsPrefix(calls, all)
  <2>1. SubSeq(calls, 1, Len(calls)) = calls
    BY <1>2, SubSeqFull
  <2> QED
    BY <1>1, <1>4, <1>6, <2>1 DEF IsPrefix
<1>8. pc = "done" => calls = all
  BY <1>1, <1>4, <1>5, SeqEqual
<1> QED
  BY <1>7, <1>8 DEF all

(* However long the output is and however it is cut into pieces: the       *)
(* script gets the lines of the output, in order, each once, and at the    *)
(* end all of them, if the output has no empty line.                       *)
THEOREM EveryLineDelivered == Spec => []LinesDelivered
BY Invariance, MatchDelivers, PTL

(* Every step leaves less to do: the loop of read_callback() ends for      *)
(* every piece and reply, and so does the sequence of calls.               *)
THEOREM WorkDecreases == Spec => Terminates
<1>1. ASSUME IndInv, [Next]_vars PROVE [Work' < Work]_vars
  <2>1. /\ Len(text) \in Nat /\ Len(buf) \in Nat /\ pos \in Nat /\ size \in Nat
    BY <1>1, Types DEF IndInv
  <2>2. ASSUME NEW n \in 1..MaxLen, Feed(n) PROVE Work' < Work
    <3>1. /\ pc = "idle" /\ pc' = "loop" /\ pos' = pos + n /\ size' = n /\ text' = text
          /\ n \in Nat \ {0} /\ Len(buf') = Len(buf) + n
      BY <1>1, <2>2, FeedStep, ReadCallbackAssumption DEF Feed
    <3>2. Work = 3 * (Len(text) - pos) + Len(buf) + 2
      BY <3>1 DEF Work
    <3>3. Work' = 3 * (Len(text) - (pos + n)) + (Len(buf) + n) + 3
      BY <3>1 DEF Work
    <3> QED
      BY <2>1, <3>1, <3>2, <3>3
  <2>3. ASSUME Flush PROVE Work' < Work
    <3>1. /\ pc = "idle" /\ pc' \in {"loop", "done"} /\ size' = 0
          /\ UNCHANGED <<text, pos, buf>>
      BY <2>3 DEF Flush
    <3>2. Work = 3 * (Len(text) - pos) + Len(buf) + 2
      BY <3>1 DEF Work
    <3>3. \/ Work' = 3 * (Len(text) - pos) + Len(buf) + 1
          \/ Work' = 3 * (Len(text) - pos) + Len(buf) + 0
      BY <3>1 DEF Work
    <3> QED
      BY <2>1, <3>2, <3>3
  <2>4. ASSUME NoLine PROVE Work' < Work
    <3>1. /\ pc = "loop" /\ pc' = "idle" /\ size > 0 /\ UNCHANGED <<text, pos, size, buf>>
      BY <2>4 DEF NoLine, Incomplete
    <3>2. Work = 3 * (Len(text) - pos) + Len(buf) + 3
      BY <2>1, <3>1 DEF Work
    <3>3. Work' = 3 * (Len(text) - pos) + Len(buf) + 2
      BY <3>1 DEF Work
    <3> QED
      BY <2>1, <3>2, <3>3
  <2>5. ASSUME NEW reply \in Replies, CallScript(reply) PROVE Work' < Work
    <3>1. /\ pc = "loop" /\ UNCHANGED <<text, pos, size>>
          /\ Len(buf') \in Nat /\ Len(buf') < Len(buf)
          /\ pc' = (IF buf' # <<>> THEN "loop" ELSE IF size = 0 THEN "done" ELSE "idle")
      BY <1>1, <2>5, Shorter, Taken DEF CallScript
    <3>2. CASE size = 0
      <4>1. Work = 3 * (Len(text) - pos) + Len(buf) + 1
        BY <3>1, <3>2 DEF Work
      <4>2. \/ Work' = 3 * (Len(text) - pos) + Len(buf') + 1
            \/ Work' = 3 * (Len(text) - pos) + Len(buf') + 0
        BY <3>1, <3>2 DEF Work
      <4> QED
        BY <2>1, <3>1, <4>1, <4>2
    <3>3. CASE size > 0
      <4>1. Work = 3 * (Len(text) - pos) + Len(buf) + 3
        BY <2>1, <3>1, <3>3 DEF Work
      <4>2. \/ Work' = 3 * (Len(text) - pos) + Len(buf') + 3
            \/ Work' = 3 * (Len(text) - pos) + Len(buf') + 2
        BY <2>1, <3>1, <3>3 DEF Work
      <4> QED
        BY <2>1, <3>1, <4>1, <4>2
    <3> QED
      BY <2>1, <3>2, <3>3
  <2> QED
    BY <1>1, <2>2, <2>3, <2>4, <2>5 DEF Next
<1>2. IndInv /\ [Next]_vars => [Work' < Work]_vars
  BY <1>1
<1> QED
  BY <1>2, Invariance, PTL DEF Spec, Terminates
=============================================================================
