------------------------- MODULE EventStream_proofs -------------------------
(***************************************************************************)
(* Proofs about EventStream, for every limit of the stream and any number  *)
(* of rows, resets, lost connections and restarts.                         *)
(*                                                                         *)
(* Neither property of the panel's feed is inductive.  What keeps it in    *)
(* order is that everything the stream has still to send is above          *)
(* everything it has sent, read or not; what keeps it whole is that every  *)
(* row ever recorded is in the feed, still ahead, or accounted for by the  *)
(* preamble or a reset.  The invariant says both, and that a connection    *)
(* lost leaves a feed as good as the one on the wire.  The page queries    *)
(* come first: a finite set of rows has an order, by its least element.    *)
(***************************************************************************)
EXTENDS EventStream, SequenceTheorems, FiniteSetTheorems, WellFoundedInduction, TLAPS

-----------------------------------------------------------------------------
(* Rows in order: the page queries.                                        *)

\* A non-empty set of naturals has a least element.
LEMMA LeastExists ==
  ASSUME NEW T \in SUBSET Nat, T # {}
  PROVE  \E x \in T : \A y \in T : x <= y
<1>1. PICK x \in T : \A y \in T : <<y, x>> \notin OpToRel(<, Nat)
  BY NatLessThanWellFounded, WFMin
<1>2. \A y \in T : ~(y < x)
  BY <1>1 DEF OpToRel
<1>. QED
  BY <1>2

LEMMA AscendingExists ==
  ASSUME NEW T \in SUBSET Nat, IsFiniteSet(T)
  PROVE  \E s \in [1..Cardinality(T) -> T] : Ascends(s)
<1> DEFINE Sorted(U) == \E s \in [1..Cardinality(U) -> U] : Ascends(s)
           bad == {n \in Nat : \E U \in SUBSET Nat : /\ IsFiniteSet(U) /\ Cardinality(U) = n
                                                     /\ ~Sorted(U)}
<1>1. SUFFICES bad = {}
  <2>1. Cardinality(T) \in Nat
    BY FS_CardinalityType
  <2>. QED BY <2>1
<1>2. SUFFICES ASSUME bad # {} PROVE FALSE
  OBVIOUS
<1>3. PICK n \in bad : \A m \in bad : n <= m
  <2>. HIDE DEF bad
  <2>1. bad \in SUBSET Nat
    BY DEF bad
  <2>. QED BY <1>2, <2>1, LeastExists
<1>4. PICK U \in SUBSET Nat : IsFiniteSet(U) /\ Cardinality(U) = n /\ ~Sorted(U)
  BY <1>3
<1>5. U # {}
  <2>1. SUFFICES ASSUME U = {} PROVE FALSE
    OBVIOUS
  <2>2. n = 0
    BY <1>4, <2>1, FS_EmptySet
  <2>3. <<>> \in [1..0 -> U] /\ Ascends(<<>>)
    BY DEF Ascends
  <2>. QED BY <1>4, <2>2, <2>3
<1>6. PICK x \in U : \A y \in U : x <= y
  BY <1>5, LeastExists
<1> DEFINE V == U \ {x}
<1>7. IsFiniteSet(V) /\ Cardinality(V) = n - 1 /\ n - 1 \in Nat
  <2>1. IsFiniteSet(V) /\ Cardinality(V) = Cardinality(U) - 1
    BY <1>4, FS_RemoveElement
  <2>2. Cardinality(V) \in Nat
    BY <2>1, FS_CardinalityType
  <2>. QED BY <2>1, <2>2, <1>4
<1>8. Sorted(V)
  <2>1. n - 1 \notin bad
    BY <1>3, <1>7
  <2>. QED BY <1>7, <2>1
<1>9. PICK s \in [1..(n - 1) -> V] : Ascends(s)
  BY <1>7, <1>8
<1> DEFINE g == [i \in 1..n |-> IF i = 1 THEN x ELSE s[i - 1]]
<1>10. g \in [1..n -> U]
  BY <1>3, <1>6, <1>9
<1>11. Ascends(g)
  <2>1. SUFFICES ASSUME NEW i \in 1..n, NEW j \in 1..n, i < j PROVE g[i] < g[j]
    BY DEF Ascends
  <2>2. j - 1 \in 1..(n - 1) /\ g[j] = s[j - 1] /\ s[j - 1] \in V
    BY <1>3, <2>1, <1>9
  <2>3. CASE i = 1
    <3>1. g[i] = x /\ x <= s[j - 1] /\ x # s[j - 1] /\ x \in Nat /\ s[j - 1] \in Nat
      BY <2>3, <2>2, <1>6, <1>4
    <3>. QED BY <3>1, <2>2
  <2>4. CASE i # 1
    <3>1. i - 1 \in 1..(n - 1) /\ g[i] = s[i - 1] /\ i - 1 < j - 1
      BY <2>4, <2>1, <1>3
    <3>. QED BY <3>1, <2>2, <1>9 DEF Ascends
  <2>. QED BY <2>3, <2>4
<1>. QED BY <1>4, <1>10, <1>11

LEMMA AscendingIs ==
  ASSUME NEW T \in SUBSET Nat, IsFiniteSet(T)
  PROVE  /\ Cardinality(T) \in Nat
         /\ Ascending(T) \in [1..Cardinality(T) -> T]
         /\ Ascends(Ascending(T))
         /\ \A x \in T : \E i \in 1..Cardinality(T) : Ascending(T)[i] = x
<1> DEFINE n == Cardinality(T)  a == Ascending(T)
<1>1. n \in Nat
  BY FS_CardinalityType
<1>2. a \in [1..n -> T] /\ Ascends(a)
  BY AscendingExists DEF Ascending
<1>3. a \in Injection(1..n, T)
  <2>1. ASSUME NEW i \in 1..n, NEW j \in 1..n, a[i] = a[j] PROVE i = j
    <3>1. CASE i < j
      <4>1. a[i] < a[j] /\ a[i] \in Nat
        BY <3>1, <1>2 DEF Ascends
      <4>. QED BY <4>1, <2>1
    <3>2. CASE j < i
      <4>1. a[j] < a[i] /\ a[i] \in Nat
        BY <3>2, <1>2 DEF Ascends
      <4>. QED BY <4>1, <2>1
    <3>. QED BY <3>1, <3>2, <1>1
  <2>. QED BY <1>2, <2>1 DEF Injection, IsInjective
<1>4. Cardinality(1..n) = n
  BY <1>1, FS_Interval
<1>5. a \in Surjection(1..n, T)
  BY <1>3, <1>4, FS_Injection
<1>. QED BY <1>1, <1>2, <1>5 DEF Surjection

LEMMA AscendingSeq ==
  ASSUME NEW T \in SUBSET Nat, IsFiniteSet(T)
  PROVE  /\ Ascending(T) \in Seq(T)
         /\ Ascends(Ascending(T))
         /\ ToSet(Ascending(T)) = T
<1>1. Ascending(T) \in [1..Cardinality(T) -> T] /\ Cardinality(T) \in Nat
  BY AscendingIs
<1>2. DOMAIN Ascending(T) = 1..Cardinality(T)
  BY <1>1
<1> DEFINE a == Ascending(T)
<1>3. \A i \in DOMAIN a : a[i] \in T
  BY <1>1, <1>2
<1>4. \A x \in T : \E i \in DOMAIN a : a[i] = x
  BY <1>2, AscendingIs
<1>5. a \in Seq(T) /\ Ascends(a)
  BY <1>1, AscendingIs
<1>. HIDE DEF a
<1>6. ToSet(a) = T
  BY <1>3, <1>4 DEF ToSet
<1>. QED BY <1>5, <1>6 DEF a

LEMMA MaxIs ==
  ASSUME NEW T \in SUBSET Nat, IsFiniteSet(T), T # {}
  PROVE  Max(T) \in T /\ \A x \in T : x <= Max(T)
<1> DEFINE n == Cardinality(T)  a == Ascending(T)
<1>1. /\ n \in Nat /\ a \in [1..n -> T] /\ Ascends(a)
      /\ \A x \in T : \E i \in 1..n : a[i] = x
  BY AscendingIs
<1>2. n \in 1..n
  <2>1. n # 0
    BY FS_EmptySet
  <2>. QED BY <1>1, <2>1
<1>3. ASSUME NEW x \in T PROVE x <= a[n]
  <2>. HIDE DEF n, a
  <2>1. PICK i \in 1..n : a[i] = x
    BY <1>1
  <2>2. i = n \/ a[i] < a[n]
    BY <1>1, <1>2 DEF Ascends
  <2>3. a[i] \in Nat /\ a[n] \in Nat
    BY <1>1, <1>2
  <2>. QED BY <2>1, <2>2, <2>3
<1>4. \E m \in T : \A x \in T : m >= x
  <2>. HIDE DEF n, a
  <2>. QED BY <1>1, <1>2, <1>3
<1>. QED BY <1>4 DEF Max

LEMMA ConcatAscends ==
  ASSUME NEW s \in Seq(Nat), NEW t \in Seq(Nat)
  PROVE  /\ ToSet(s \o t) = ToSet(s) \cup ToSet(t)
         /\ Ascends(s \o t) <=>
              /\ Ascends(s) /\ Ascends(t)
              /\ \A x \in ToSet(s), y \in ToSet(t) : x < y
<1> DEFINE c == s \o t
<1>1. /\ DOMAIN s = 1..Len(s) /\ DOMAIN t = 1..Len(t) /\ DOMAIN c = 1..(Len(s) + Len(t))
      /\ Len(s) \in Nat /\ Len(t) \in Nat
      /\ \A i \in 1..Len(s) : c[i] = s[i]
      /\ \A i \in 1..Len(t) : i + Len(s) \in DOMAIN c /\ c[i + Len(s)] = t[i]
  BY ConcatProperties, LenProperties
<1>2. \A i \in DOMAIN c : i \in 1..Len(s) \/ \E j \in 1..Len(t) : i = j + Len(s)
  <2>1. ASSUME NEW i \in DOMAIN c, i \notin 1..Len(s)
        PROVE  i - Len(s) \in 1..Len(t) /\ i = (i - Len(s)) + Len(s)
    BY <1>1, <2>1
  <2>. QED BY <2>1
<1>3. \A i \in 1..Len(s) : i \in DOMAIN c
  BY <1>1
<1>. HIDE DEF c
<1>4. ToSet(c) = ToSet(s) \cup ToSet(t)
  <2>1. ASSUME NEW x \in ToSet(c) PROVE x \in ToSet(s) \cup ToSet(t)
    <3>1. PICK i \in DOMAIN c : c[i] = x
      BY DEF ToSet
    <3>2. CASE i \in 1..Len(s)
      BY <1>1, <3>1, <3>2 DEF ToSet
    <3>3. CASE \E j \in 1..Len(t) : i = j + Len(s)
      BY <1>1, <3>1, <3>3 DEF ToSet
    <3>. QED BY <1>2, <3>2, <3>3
  <2>2. ASSUME NEW x \in ToSet(s) PROVE x \in ToSet(c)
    BY <1>1, <1>3 DEF ToSet
  <2>3. ASSUME NEW x \in ToSet(t) PROVE x \in ToSet(c)
    BY <1>1 DEF ToSet
  <2>. QED BY <2>1, <2>2, <2>3
<1>5. ASSUME Ascends(c) PROVE Ascends(s) /\ Ascends(t)
  <2>1. Ascends(s)
    BY <1>1, <1>3, <1>5 DEF Ascends
  <2>2. ASSUME NEW i \in 1..Len(t), NEW j \in 1..Len(t), i < j PROVE t[i] < t[j]
    <3>1. i + Len(s) < j + Len(s)
      BY <1>1, <2>2
    <3>. QED BY <1>1, <1>5, <3>1 DEF Ascends
  <2>. QED BY <1>1, <2>1, <2>2 DEF Ascends
<1>6. ASSUME Ascends(c), NEW x \in ToSet(s), NEW y \in ToSet(t) PROVE x < y
  <2>1. PICK i \in 1..Len(s) : s[i] = x
    BY <1>1 DEF ToSet
  <2>2. PICK j \in 1..Len(t) : t[j] = y
    BY <1>1 DEF ToSet
  <2>3. i < j + Len(s)
    BY <1>1
  <2>. QED BY <1>1, <1>3, <1>6, <2>1, <2>2, <2>3 DEF Ascends
<1>7. ASSUME Ascends(s), Ascends(t), \A x \in ToSet(s), y \in ToSet(t) : x < y,
             NEW i \in DOMAIN c, NEW j \in DOMAIN c, i < j
      PROVE  c[i] < c[j]
  <2>1. CASE j \in 1..Len(s)
    <3>1. i \in 1..Len(s)
      BY <1>1, <1>7, <2>1
    <3>. QED BY <1>1, <1>7, <2>1, <3>1 DEF Ascends
  <2>2. ASSUME NEW n \in 1..Len(t), j = n + Len(s) PROVE c[i] < c[j]
    <3>1. CASE i \in 1..Len(s)
      <4>1. s[i] \in ToSet(s) /\ t[n] \in ToSet(t)
        BY <1>1, <3>1 DEF ToSet
      <4>. QED BY <1>1, <1>7, <2>2, <3>1, <4>1
    <3>2. ASSUME NEW m \in 1..Len(t), i = m + Len(s) PROVE c[i] < c[j]
      <4>1. m < n
        BY <1>1, <1>7, <2>2, <3>2
      <4>. QED BY <1>1, <1>7, <2>2, <3>2, <4>1 DEF Ascends
    <3>. QED BY <1>2, <3>1, <3>2
  <2>. QED BY <1>2, <2>1, <2>2
<1>8. (Ascends(s) /\ Ascends(t) /\ \A x \in ToSet(s), y \in ToSet(t) : x < y) => Ascends(c)
  BY <1>7 DEF Ascends
<1>. QED BY <1>4, <1>5, <1>6, <1>8 DEF c

LEMMA LastIs ==
  ASSUME NEW s \in Seq(Nat), Ascends(s), s # <<>>
  PROVE  Last(s) \in ToSet(s) /\ \A x \in ToSet(s) : x <= Last(s)
<1>1. Len(s) \in Nat \ {0} /\ DOMAIN s = 1..Len(s) /\ \A i \in 1..Len(s) : s[i] \in Nat
  BY EmptySeq, LenProperties, ElementOfSeq
<1>2. Len(s) \in DOMAIN s
  BY <1>1
<1>3. ASSUME NEW i \in DOMAIN s PROVE s[i] <= s[Len(s)]
  <2>1. i = Len(s) \/ i < Len(s)
    BY <1>1
  <2>2. i < Len(s) => s[i] < s[Len(s)]
    BY <1>2 DEF Ascends
  <2>. QED BY <1>1, <1>2, <2>1, <2>2
<1>. QED BY <1>2, <1>3 DEF Last, ToSet

LEMMA UptoIs ==
  ASSUME NEW S, NEW s \in Seq(S), NEW n \in Nat \ {0}
  PROVE  /\ Upto(s, n) \in Seq(S)
         /\ SubSeq(s, Len(Upto(s, n)) + 1, Len(s)) \in Seq(S)
         /\ s = Upto(s, n) \o SubSeq(s, Len(Upto(s, n)) + 1, Len(s))
         /\ Upto(s, n) = <<>> => s = <<>>
<1>1. Len(s) \in Nat /\ \A i \in 1..Len(s) : s[i] \in S
  BY LenProperties, ElementOfSeq
<1> DEFINE m == Min({n, Len(s)})
<1>2. m \in Nat /\ m <= Len(s) /\ (m = n \/ m = Len(s))
  BY <1>1 DEF Min
<1>. HIDE DEF m
<1>3. Upto(s, n) = SubSeq(s, 1, m)
  BY DEF Upto, m
<1>4. \A i \in 1..m : s[i] \in S
  BY <1>1, <1>2
<1>5. Upto(s, n) \in Seq(S) /\ Len(Upto(s, n)) = m
  BY <1>2, <1>3, <1>4, SubSeqProperties
<1>6. \A i \in (m + 1)..Len(s) : s[i] \in S
  BY <1>1, <1>2
<1>7. SubSeq(s, m + 1, Len(s)) \in Seq(S)
  BY <1>1, <1>2, <1>6, SubSeqProperties
<1>8. SubSeq(s, 1, m) \o SubSeq(s, m + 1, Len(s)) = SubSeq(s, 1, Len(s))
  <2>1. 1 \in 1..(Len(s) + 1) /\ m \in (1 - 1)..Len(s) /\ Len(s) \in m..Len(s)
    BY <1>1, <1>2
  <2>. QED BY <2>1, ConcatAdjacentSubSeq
<1>9. SubSeq(s, 1, Len(s)) = s
  BY SubSeqFull
<1>10. ASSUME Upto(s, n) = <<>> PROVE s = <<>>
  <2>1. m = 0
    BY <1>5, <1>10, EmptySeq
  <2>2. Len(s) = 0
    BY <1>2, <2>1
  <2>. QED BY <2>2, EmptySeq
<1>. QED BY <1>3, <1>5, <1>7, <1>8, <1>9, <1>10

LEMMA PageIs ==
  ASSUME NEW after \in Nat, NEW upTo \in Nat, NEW limit \in Nat \ {0},
         log \subseteq Nat, IsFiniteSet(log)
  PROVE  LET page == PageAfter(after, upTo, limit)
         IN /\ page \in Seq(Nat) /\ Ascends(page)
            /\ ToSet(page) \subseteq Between(after, upTo)
            /\ page = <<>> => Between(after, upTo) = {}
            /\ page # <<>> =>
                 /\ Last(page) \in Between(after, upTo)
                 /\ \A s \in Between(after, upTo) : s <= Last(page) => s \in ToSet(page)
<1> DEFINE gap == Between(after, upTo)  all == Ascending(gap)
           page == PageAfter(after, upTo, limit)
           rest == SubSeq(all, Len(page) + 1, Len(all))
<1>1. gap \in SUBSET Nat /\ IsFiniteSet(gap)
  <2>1. gap \in SUBSET log
    BY DEF Between
  <2>. QED BY <2>1, FS_Subset
<1>2. all \in Seq(gap) /\ Ascends(all) /\ ToSet(all) = gap
  <2>. HIDE DEF gap
  <2>. QED BY <1>1, AscendingSeq
<1>3. all \in Seq(Nat)
  <2>. HIDE DEF gap, all
  <2>. QED BY <1>1, <1>2, SeqMonotonic
<1>4. page = Upto(all, limit)
  BY DEF PageAfter
<1>. HIDE DEF gap, all, page
<1>5. /\ page \in Seq(Nat) /\ rest \in Seq(Nat) /\ all = page \o rest
      /\ page = <<>> => all = <<>>
  BY <1>3, <1>4, UptoIs
<1>. HIDE DEF rest
<1>6. /\ gap = ToSet(page) \cup ToSet(rest) /\ Ascends(page)
      /\ \A x \in ToSet(page), y \in ToSet(rest) : x < y
  BY <1>2, <1>5, ConcatAscends
<1>7. page = <<>> => gap = {}
  BY <1>2, <1>5 DEF ToSet
<1>8. ASSUME page # <<>>
      PROVE  Last(page) \in gap /\ \A s \in gap : s <= Last(page) => s \in ToSet(page)
  <2>1. Last(page) \in ToSet(page)
    BY <1>5, <1>6, <1>8, LastIs
  <2>2. ASSUME NEW s \in ToSet(rest), s <= Last(page) PROVE FALSE
    <3>1. Last(page) < s /\ s \in Nat /\ Last(page) \in Nat
      BY <1>1, <1>6, <2>1
    <3>. QED BY <2>2, <3>1
  <2>. QED BY <1>6, <2>1, <2>2
<1>. QED BY <1>5, <1>6, <1>7, <1>8 DEF gap, page

LEMMA AnchorIs ==
  ASSUME NEW after \in Nat, NEW upTo \in Nat, NEW limit \in Nat \ {0},
         log \subseteq Nat, IsFiniteSet(log)
  PROVE  CappedAnchor(after, upTo, limit) \in {after} \cup Between(after, upTo)
<1> DEFINE gap == Between(after, upTo)  n == Cardinality(gap)  a == Ascending(gap)
           k == n - limit  s == a[k]
<1>1. SUFFICES ASSUME ~(n <= limit)
               PROVE  \E row \in gap : Cardinality(Between(row, upTo)) = limit
  BY DEF CappedAnchor
<1>2. gap \in SUBSET Nat /\ IsFiniteSet(gap)
  <2>1. gap \in SUBSET log
    BY DEF Between
  <2>. QED BY <2>1, FS_Subset
<1>3. /\ n \in Nat /\ a \in [1..n -> gap] /\ Ascends(a)
      /\ \A x \in gap : \E i \in 1..n : a[i] = x
  <2>. HIDE DEF gap
  <2>. QED BY <1>2, AscendingIs
<1>4. k \in 1..n /\ k < n /\ n - k = limit
  <2>. HIDE DEF n
  <2>. QED BY <1>1, <1>3
<1>5. s \in gap
  <2>. HIDE DEF gap, a, n, k
  <2>. QED BY <1>3, <1>4
<1>6. \A x : x \in Between(s, upTo) <=> x \in gap /\ s < x
  <2>1. s \in Nat /\ after < s
    BY <1>2, <1>5 DEF Between
  <2>2. \A x \in log : x \in Nat
    OBVIOUS
  <2>. HIDE DEF s
  <2>3. SUFFICES ASSUME NEW x PROVE x \in Between(s, upTo) <=> x \in gap /\ s < x
    OBVIOUS
  <2>4. x \in log /\ s < x => after < x
    BY <2>1, <2>2
  <2>. QED BY <2>4 DEF Between
<1>. HIDE DEF gap, n, a, k
<1> DEFINE f == [j \in (k + 1)..n |-> a[j]]
<1>7. \A i, j \in 1..n : i < j => a[i] < a[j] /\ a[i] \in Nat /\ a[j] \in Nat
  BY <1>2, <1>3 DEF Ascends
<1>8. f \in [(k + 1)..n -> Between(s, upTo)]
  <2>1. ASSUME NEW j \in (k + 1)..n PROVE a[j] \in gap /\ s < a[j]
    BY <1>3, <1>4, <1>7
  <2>. QED BY <1>6, <2>1
<1>9. f \in Injection((k + 1)..n, Between(s, upTo))
  <2>1. ASSUME NEW i \in (k + 1)..n, NEW j \in (k + 1)..n, a[i] = a[j] PROVE i = j
    <3>1. i \in 1..n /\ j \in 1..n /\ (i < j \/ j < i \/ i = j)
      BY <1>3, <1>4
    <3>2. ~(i < j) /\ ~(j < i)
      BY <1>7, <2>1, <3>1
    <3>. QED BY <3>1, <3>2
  <2>2. IsInjective(f)
    BY <2>1 DEF IsInjective
  <2>. QED BY <1>8, <2>2 DEF Injection
<1>10. \A x \in Between(s, upTo) : \E j \in (k + 1)..n : f[j] = x
  <2>1. SUFFICES ASSUME NEW x \in Between(s, upTo) PROVE \E j \in (k + 1)..n : a[j] = x
    OBVIOUS
  <2>2. PICK j \in 1..n : a[j] = x
    BY <1>3, <1>6
  <2>3. s < a[j] /\ s \in Nat
    BY <1>2, <1>5, <1>6, <2>2
  <2>4. ~(j < k) /\ j # k
    BY <1>3, <1>4, <1>7, <2>3
  <2>. QED BY <1>3, <1>4, <2>2, <2>4
<1>11. f \in Bijection((k + 1)..n, Between(s, upTo))
  BY <1>8, <1>9, <1>10 DEF Bijection, Surjection
<1>12. IsFiniteSet((k + 1)..n) /\ Cardinality((k + 1)..n) = limit
  <2>1. k + 1 \in Int /\ n \in Int /\ ~(k + 1 > n) /\ n - (k + 1) + 1 = limit
    BY <1>3, <1>4
  <2>. QED BY <2>1, FS_Interval
<1>13. Cardinality(Between(s, upTo)) = limit
  <2>. HIDE DEF f
  <2>. QED BY <1>11, <1>12, FS_Bijection DEF ExistsBijection
<1>. QED BY <1>5, <1>13

LEMMA UnsentIs ==
  ASSUME stream.pending \in Seq(Nat), Ascends(stream.pending), stream.lastSentSeq \in Nat
  PROVE  /\ Unsent \in Seq(Nat) /\ Ascends(Unsent)
         /\ ToSet(Unsent) = {x \in ToSet(stream.pending) : x > stream.lastSentSeq}
<1> DEFINE p == stream.pending
           kept == {i \in DOMAIN p : p[i] > stream.lastSentSeq}
           n == Cardinality(kept)  a == Ascending(kept)
<1>1. Len(p) \in Nat /\ DOMAIN p = 1..Len(p) /\ \A i \in DOMAIN p : p[i] \in Nat
  BY LenProperties, ElementOfSeq
<1>2. kept \in SUBSET Nat /\ IsFiniteSet(kept)
  <2>1. kept \in SUBSET (1..Len(p)) /\ IsFiniteSet(1..Len(p))
    BY <1>1, FS_Interval
  <2>. QED BY <2>1, FS_Subset
<1>3. Unsent = [i \in 1..n |-> p[a[i]]]
  BY DEF Unsent
<1>4. \A i \in kept : i \in DOMAIN p /\ p[i] > stream.lastSentSeq
  OBVIOUS
<1>5. \A i \in DOMAIN p : p[i] > stream.lastSentSeq => i \in kept
  OBVIOUS
<1>6. \A i, j \in DOMAIN p : i < j => p[i] < p[j]
  BY DEF Ascends
<1>. HIDE DEF kept
<1>7. /\ n \in Nat /\ a \in [1..n -> kept] /\ Ascends(a)
      /\ \A x \in kept : \E i \in 1..n : a[i] = x
  BY <1>2, AscendingIs
<1>. HIDE DEF n, a, p
<1>8. Unsent \in Seq(Nat)
  <2>1. Unsent \in [1..n -> Nat]
    BY <1>1, <1>3, <1>4, <1>7
  <2>. QED BY <1>7, <2>1
<1>9. DOMAIN Unsent = 1..n /\ \A i \in 1..n : Unsent[i] = p[a[i]] /\ a[i] \in kept
  BY <1>3, <1>7
<1>10. Ascends(Unsent)
  <2>1. SUFFICES ASSUME NEW i \in 1..n, NEW j \in 1..n, i < j PROVE Unsent[i] < Unsent[j]
    BY <1>9 DEF Ascends
  <2>2. a[i] < a[j]
    BY <1>7, <2>1 DEF Ascends
  <2>. QED BY <1>4, <1>6, <1>9, <2>2
<1>11. ToSet(Unsent) = {x \in ToSet(p) : x > stream.lastSentSeq}
  <2>1. ASSUME NEW x \in ToSet(Unsent) PROVE x \in ToSet(p) /\ x > stream.lastSentSeq
    <3>1. PICK i \in 1..n : x = p[a[i]] /\ a[i] \in kept
      BY <1>9 DEF ToSet
    <3>. QED BY <1>4, <3>1 DEF ToSet
  <2>2. ASSUME NEW x \in ToSet(p), x > stream.lastSentSeq PROVE x \in ToSet(Unsent)
    <3>1. PICK i \in DOMAIN p : x = p[i]
      BY DEF ToSet
    <3>2. i \in kept
      BY <1>5, <2>2, <3>1
    <3>3. PICK j \in 1..n : a[j] = i
      BY <1>7, <3>2
    <3>. QED BY <1>9, <3>1, <3>3 DEF ToSet
  <2>. QED BY <2>1, <2>2
<1>. QED BY <1>8, <1>10, <1>11 DEF p

-----------------------------------------------------------------------------
(* The invariant.                                                          *)

\* What the panel shows and what it is about to read.
Feed == panel.received \o wire

\* What an open stream is still to send.
Ahead == Between(stream.replayFrom, stream.replayTo) \cup ToSet(stream.pending)

\* Nothing missing below a row of the feed.
Complete(feed) == \A x \in ToSet(feed) : 1..x \subseteq ToSet(feed) \cup announced

LogInv == log \subseteq 1..seq /\ 1..seq \subseteq log \cup announced

FeedInv ==
  /\ Ascends(Feed)
  /\ ToSet(Feed) \subseteq 1..seq
  /\ Complete(Feed)
  /\ ~panel.connected => wire = <<>>
  /\ panel.firstConnection => ~panel.connected /\ Feed = <<>>

StreamInv == stream.state = "open" =>
  /\ panel.connected
  /\ stream.replayTo <= seq /\ stream.lastSentSeq <= seq
  /\ Ascends(stream.pending)
  /\ \A x \in ToSet(stream.pending) :
       x \in 1..seq /\ x > stream.replayTo /\ x > stream.lastSentSeq
  /\ \A x \in ToSet(Feed), y \in Ahead : x < y
  /\ ~stream.overflowed => 1..seq \subseteq ToSet(Feed) \cup announced \cup Ahead

Inv == TypeOK /\ LogInv /\ FeedInv /\ StreamInv

LEMMA SeqOver ==
  ASSUME NEW S, NEW T, NEW s \in Seq(T), ToSet(s) \subseteq S
  PROVE  s \in Seq(S)
<1>1. /\ s \in [1..Len(s) -> T] /\ DOMAIN s = 1..Len(s) /\ Len(s) \in Nat
  BY LenProperties
<1>2. \A i \in 1..Len(s) : s[i] \in S
  BY <1>1 DEF ToSet
<1>. QED BY <1>1, <1>2

LEMMA Associative ==
  ASSUME NEW r \in Seq(Nat), NEW w \in Seq(Nat), NEW c \in Seq(Nat)
  PROVE  (r \o w) \o c = r \o (w \o c)
BY ConcatAssociative

LEMMA EmptySet == ToSet(<<>>) = {}
BY DEF ToSet

LEMMA HeadMoves ==
  ASSUME NEW S, NEW r \in Seq(S), NEW w \in Seq(S), w # <<>>
  PROVE  Append(r, Head(w)) \o Tail(w) = r \o w
<1>1. Head(w) \in S /\ Tail(w) \in Seq(S)
  BY HeadTailProperties
<1>2. Append(r, Head(w)) = r \o <<Head(w)>> /\ <<Head(w)>> \in Seq(S)
  BY <1>1, AppendIsConcat
<1>3. <<Head(w)>> \o Tail(w) = w
  <2>1. Len(w) \in Nat \ {0} /\ w = SubSeq(w, 1, Len(w)) /\ Head(w) = w[1]
    BY EmptySeq, SubSeqFull
  <2>2. 1 \in 1..Len(w) /\ Len(w) \in 1..Len(w)
    BY <2>1
  <2>3. SubSeq(w, 1, Len(w)) = <<w[1]>> \o SubSeq(w, 2, Len(w))
    BY <2>2, SubSeqRecursiveFirst
  <2>. QED BY <2>1, <2>3, TailIsSubSeq
<1>. QED BY <1>1, <1>2, <1>3, ConcatAssociative

\* What the limits and the type invariant say, in naturals.
LEMMA Facts ==
  ASSUME TypeOK
  PROVE  /\ Rows \subseteq Nat
         /\ seq \in Nat /\ MaxSeq \in Nat /\ seq <= MaxSeq
         /\ panel.received \in Seq(Nat) /\ wire \in Seq(Nat) /\ Feed \in Seq(Nat)
         /\ stream.pending \in Seq(Nat)
         /\ ToSet(Feed) = ToSet(panel.received) \cup ToSet(wire)
         /\ log \subseteq Nat /\ IsFiniteSet(log)
<1>1. MaxSeq \in Nat /\ Rows \subseteq Nat
  BY LimitsAssumption DEF Rows
<1>2. /\ panel.received \in Seq(Nat) /\ wire \in Seq(Nat)
      /\ stream.pending \in Seq(Nat)
  BY <1>1, SeqMonotonic DEF TypeOK, Panel, Stream
<1>3. /\ Feed \in Seq(Nat)
      /\ ToSet(Feed) = ToSet(panel.received) \cup ToSet(wire)
  BY <1>2, ConcatProperties, ConcatAscends DEF Feed
<1>4. log \subseteq Nat /\ IsFiniteSet(log)
  <2>1. IsFiniteSet(Rows)
    BY <1>1, FS_Interval DEF Rows
  <2>. QED BY <1>1, <2>1, FS_Subset DEF TypeOK
<1>. QED BY <1>1, <1>2, <1>3, <1>4 DEF TypeOK

LEMMA HighWaterIs ==
  ASSUME TypeOK, LogInv
  PROVE  HighWater \in 0..seq /\ \A x \in log : x <= HighWater
<1>1. seq \in Nat /\ log \subseteq 1..seq
  BY Facts DEF LogInv
<1>2. CASE log = {}
  BY <1>1, <1>2 DEF HighWater
<1>3. CASE log # {}
  <2>1. Max(log) \in log /\ \A x \in log : x <= Max(log)
    BY <1>3, Facts, MaxIs
  <2>2. HighWater = Max(log)
    BY <1>3 DEF HighWater
  <2>3. HighWater \in log /\ \A x \in log : x <= HighWater
    BY <2>1, <2>2
  <2>4. HighWater \in 1..seq
    BY <1>1, <2>3
  <2>. QED BY <1>1, <2>3, <2>4
<1>. QED BY <1>2, <1>3

\* A connection lost takes the wire with it: what was read is as good a feed.
LEMMA ReceivedIs ==
  ASSUME Inv
  PROVE  /\ Ascends(panel.received)
         /\ ToSet(panel.received) \subseteq 1..seq
         /\ Complete(panel.received)
         /\ panel.received \o <<>> = panel.received
<1>1. /\ Ascends(panel.received)
      /\ \A x \in ToSet(panel.received), y \in ToSet(wire) : x < y
  BY Facts, ConcatAscends DEF Inv, FeedInv, Feed
<1>2. ASSUME NEW x \in ToSet(panel.received), NEW s \in 1..x
      PROVE  s \in ToSet(panel.received) \cup announced
  <2>1. s \in ToSet(Feed) \cup announced /\ x \in Nat /\ s \in Nat /\ s <= x
    BY <1>2, Facts DEF Inv, FeedInv, Complete
  <2>2. s \notin ToSet(wire)
    BY <1>1, <2>1
  <2>. QED BY <2>1, <2>2, Facts DEF Inv
<1>3. panel.received \o <<>> = panel.received
  BY Facts, ConcatEmptySeq DEF Inv
<1>. QED BY <1>1, <1>2, <1>3, Facts DEF Inv, FeedInv, Complete

-----------------------------------------------------------------------------
(* Every step keeps it.                                                    *)

LEMMA InitInv == Init => Inv
<1> SUFFICES ASSUME Init PROVE Inv
  OBVIOUS
<1>1. <<>> \in Seq(Rows) /\ <<>> \o <<>> = <<>>
  BY EmptySeq, ConcatEmptySeq
<1>2. TypeOK
  BY <1>1, LimitsAssumption DEF Init, TypeOK, Stream, Panel, NoStream, Rows
<1>3. Feed = <<>>
  BY <1>1 DEF Feed, Init
<1>4. FeedInv
  BY <1>3, EmptySet DEF FeedInv, Init, Ascends, Complete
<1>. QED BY <1>2, <1>4 DEF Inv, LogInv, StreamInv, Init, NoStream

LEMMA RecordInv ==
  ASSUME Inv, NEW n \in 1..MaxBatch, Record(n)
  PROVE  Inv'
<1> DEFINE batch == [i \in 1..n |-> seq + i]
<1>1. /\ n \in Nat \ {0} /\ seq + n <= MaxSeq /\ log' = log \cup ToSet(batch) /\ seq' = seq + n
      /\ stream' = Deliver(batch)
      /\ UNCHANGED <<wire, panel, announced, leaked, drops, resets>>
  BY LimitsAssumption DEF Record
<1>2. Feed' = Feed
  BY <1>1 DEF Feed
<1>3. /\ batch \in Seq(Rows) /\ batch \in Seq(Nat) /\ Ascends(batch)
      /\ ToSet(batch) = seq + 1 .. seq + n
  <2>1. seq \in Nat /\ MaxSeq \in Nat
    BY Facts DEF Inv
  <2>2. \A i \in 1..n : seq + i \in Rows /\ seq + i \in Nat
    BY <1>1, <2>1 DEF Rows
  <2>3. batch \in [1..n -> Rows] /\ batch \in [1..n -> Nat]
    BY <2>2
  <2>4. \A x \in seq + 1 .. seq + n : x - seq \in 1..n /\ seq + (x - seq) = x
    BY <1>1, <2>1
  <2>5. \A i \in 1..n : seq + i \in seq + 1 .. seq + n
    BY <1>1, <2>1
  <2>6. ToSet(batch) = seq + 1 .. seq + n
    BY <2>3, <2>4, <2>5 DEF ToSet
  <2>. QED BY <1>1, <2>1, <2>3, <2>6 DEF Ascends
<1>. HIDE DEF batch
<1>4. stream.pending \in Seq(Rows) /\ stream \in Stream
  BY DEF Inv, TypeOK, Stream
<1>5. stream.pending \o batch \in Seq(Rows)
  BY <1>3, <1>4, ConcatProperties
<1>6. \/ stream.state # "open" /\ stream' = stream
      \/ stream.state = "open" /\ stream' = [stream EXCEPT !.overflowed = TRUE]
      \/ stream.state = "open" /\ stream' = [stream EXCEPT !.pending = @ \o batch]
  BY <1>1 DEF Deliver
<1>7. TypeOK'
  <2>1. stream' \in Stream
    BY <1>4, <1>5, <1>6 DEF Stream
  <2>2. log' \subseteq Rows /\ seq' \in 0..MaxSeq
    BY <1>1, <1>3, Facts DEF Inv, TypeOK, Rows
  <2>. QED BY <1>1, <2>1, <2>2 DEF Inv, TypeOK, Rows
<1>8. LogInv'
  <2>1. seq \in Nat /\ seq' = seq + n
    BY <1>1, Facts DEF Inv
  <2>2. 1..seq' = 1..seq \cup (seq + 1 .. seq + n)
    BY <1>1, <2>1
  <2>. QED BY <1>1, <1>3, <2>2 DEF Inv, LogInv
<1>9. FeedInv'
  <2>1. 1..seq \subseteq 1..seq'
    BY <1>1, Facts DEF Inv
  <2>. QED BY <1>1, <1>2, <2>1 DEF Inv, FeedInv, Complete
<1>10. StreamInv'
  <2>1. SUFFICES ASSUME stream'.state = "open" PROVE StreamInv'
    BY DEF StreamInv
  <2>2. stream.state = "open" /\ StreamInv
    BY <1>4, <1>6, <2>1 DEF Inv, Stream
  <2>3. /\ stream'.replayTo = stream.replayTo /\ stream'.replayFrom = stream.replayFrom
        /\ stream'.lastSentSeq = stream.lastSentSeq
        /\ stream.replayTo \in Nat /\ stream.lastSentSeq \in Nat /\ stream.replayFrom \in Nat
    BY <1>4, <1>6, <2>2 DEF Stream
  <2>4. Between(stream.replayFrom, stream.replayTo)'
          = Between(stream.replayFrom, stream.replayTo)
    <3>1. ASSUME NEW x \in ToSet(batch) PROVE ~(x <= stream.replayTo)
      BY <1>3, <2>2, <2>3, Facts DEF StreamInv, Inv
    <3>. QED BY <1>1, <2>3, <3>1 DEF Between
  <2>5. \A x \in ToSet(Feed) : x \in 1..seq
    BY DEF Inv, FeedInv
  <2>6. CASE stream' = [stream EXCEPT !.overflowed = TRUE]
    <3>1. stream'.pending = stream.pending /\ stream'.overflowed
      BY <1>4, <2>6 DEF Stream
    <3>2. Ahead' = Ahead
      BY <2>4, <3>1 DEF Ahead
    <3>. QED BY <1>1, <1>2, <2>2, <2>3, <3>1, <3>2, Facts DEF StreamInv, Inv
  <2>7. CASE stream' = [stream EXCEPT !.pending = @ \o batch]
    <3>1. stream'.pending = stream.pending \o batch /\ stream'.overflowed = stream.overflowed
      BY <1>4, <2>7 DEF Stream
    <3>2. /\ Ascends(stream'.pending)
          /\ ToSet(stream'.pending) = ToSet(stream.pending) \cup ToSet(batch)
      <4>1. \A x \in ToSet(stream.pending), y \in ToSet(batch) : x < y
        BY <1>1, <1>3, <2>2, Facts DEF StreamInv, Inv
      <4>. QED BY <1>3, <2>2, <3>1, <4>1, Facts, ConcatAscends DEF StreamInv, Inv
    <3>3. Ahead' = Ahead \cup ToSet(batch)
      BY <2>4, <3>2 DEF Ahead
    <3>4. \A x \in ToSet(batch) : /\ x \in 1..seq' /\ x > seq /\ x > stream.replayTo
                                  /\ x > stream.lastSentSeq
      BY <1>1, <1>3, <2>2, <2>3, Facts DEF StreamInv, Inv
    <3>5. \A x \in ToSet(stream'.pending) :
            x \in 1..seq' /\ x > stream'.replayTo /\ x > stream'.lastSentSeq
      BY <1>1, <2>2, <2>3, <3>2, <3>4, Facts DEF StreamInv, Inv
    <3>6. \A x \in ToSet(Feed)', y \in Ahead' : x < y
      BY <1>2, <1>3, <2>2, <2>5, <3>3, Facts DEF StreamInv, Inv
    <3>7. 1..seq' = 1..seq \cup ToSet(batch)
      BY <1>1, <1>3, Facts DEF Inv
    <3>8. ~stream'.overflowed => 1..seq' \subseteq ToSet(Feed)' \cup announced' \cup Ahead'
      BY <1>1, <1>2, <2>2, <3>1, <3>3, <3>7 DEF StreamInv
    <3>9. /\ panel'.connected /\ stream'.replayTo <= seq' /\ stream'.lastSentSeq <= seq'
      BY <1>1, <2>2, <2>3, Facts DEF StreamInv, Inv
    <3>. QED BY <3>2, <3>5, <3>6, <3>8, <3>9 DEF StreamInv
  <2>. QED BY <1>6, <2>2, <2>6, <2>7
<1>. QED BY <1>7, <1>8, <1>9, <1>10 DEF Inv

LEMMA ResetInv == ASSUME Inv, Reset PROVE Inv'
<1>1. /\ log' = {} /\ seq' = seq /\ announced' = announced \cup log
      /\ resets < MaxResets /\ resets' = resets + 1
      /\ UNCHANGED <<stream, wire, panel, leaked, drops>>
  BY DEF Reset, ResetCounter
<1>2. Feed' = Feed
  BY <1>1 DEF Feed
<1>3. TypeOK'
  BY <1>1, LimitsAssumption DEF Inv, TypeOK, Rows
<1>4. LogInv'
  BY <1>1 DEF Inv, LogInv
<1>5. FeedInv'
  BY <1>1, <1>2 DEF Inv, FeedInv, Complete
<1>6. StreamInv'
  <2>1. SUFFICES ASSUME stream.state = "open" PROVE StreamInv'
    BY <1>1 DEF StreamInv
  <2>2. StreamInv /\ stream'.state = "open" /\ stream' = stream
    BY <1>1, <2>1 DEF Inv
  <2>3. Ahead' \subseteq Ahead /\ Ahead \subseteq Ahead' \cup log
    BY <1>1 DEF Ahead, Between
  <2>. QED BY <1>1, <1>2, <2>2, <2>1, <2>3 DEF StreamInv
<1>. QED BY <1>3, <1>4, <1>5, <1>6 DEF Inv

LEMMA ConnectInv == ASSUME Inv, Connect PROVE Inv'
<1> DEFINE id == Requested  anchor == Anchor(id)
<1>1. /\ ~panel.connected /\ stream' = OpenedAt(anchor)
      /\ announced' = announced \cup Skipped(id)
      /\ panel' = [panel EXCEPT !.connected = TRUE, !.firstConnection = FALSE]
      /\ wire' = <<>> /\ UNCHANGED <<log, seq, leaked, drops, resets>>
  BY DEF Connect
<1>2. /\ seq \in Nat /\ MaxSeq \in Nat /\ seq <= MaxSeq
      /\ log \subseteq Nat /\ IsFiniteSet(log) /\ log \subseteq 1..seq
      /\ HighWater \in 0..seq /\ \A x \in log : x <= HighWater
  BY Facts, HighWaterIs DEF Inv, LogInv
<1>3. wire = <<>> /\ Feed = panel.received /\ Feed' = Feed
  <2>1. wire = <<>> /\ panel.received \o <<>> = panel.received
    BY <1>1, ReceivedIs DEF Inv, FeedInv
  <2>2. panel'.received = panel.received
    BY <1>1 DEF Inv, TypeOK, Panel
  <2>. QED BY <1>1, <2>1, <2>2 DEF Feed
<1>4. Placed(id) => /\ id \in 0..seq
                    /\ \A x \in ToSet(Feed) : x <= id
                    /\ id # 0 => id \in ToSet(Feed)
  <2>1. SUFFICES ASSUME Placed(id)
                 PROVE  /\ id \in 0..seq /\ \A x \in ToSet(Feed) : x <= id
                        /\ id # 0 => id \in ToSet(Feed)
    OBVIOUS
  <2>2. CASE panel.firstConnection /\ FromStart
    <3>1. id = 0 /\ ToSet(Feed) = {}
      BY <2>2, EmptySet DEF Requested, Inv, FeedInv
    <3>. QED BY <1>2, <3>1
  <2>3. CASE ~(panel.firstConnection /\ FromStart)
    <3>1. id = LastEventId
      BY <2>3 DEF Requested
    <3>2. panel.received # <<>>
      <4>1. Null \notin Nat
        BY LimitsAssumption
      <4>2. 0 \in Nat /\ log \subseteq Nat
        BY <1>2
      <4>3. Null # 0 /\ Null \notin log
        BY <4>1, <4>2, Zenon
      <4>. QED BY <2>1, <3>1, <4>3 DEF LastEventId, Placed
    <3>3. id = Last(panel.received)
      BY <3>1, <3>2 DEF LastEventId
    <3>4. id \in ToSet(panel.received) /\ \A x \in ToSet(panel.received) : x <= id
      <4>1. panel.received \in Seq(Nat) /\ Ascends(panel.received)
        BY Facts, ReceivedIs DEF Inv
      <4>. QED BY <3>2, <3>3, <4>1, LastIs
    <3>5. id \in 0..seq
      BY <1>2, <1>3, <3>4 DEF Inv, FeedInv
    <3>. QED BY <1>3, <3>4, <3>5
  <2>. QED BY <2>2, <2>3
<1>. HIDE DEF id
<1>5. Placed(id) => anchor \in {id} \cup Between(id, HighWater)
  <2>1. BacklogLimit \in Nat \ {0}
    BY LimitsAssumption
  <2>2. Placed(id) => anchor = CappedAnchor(id, HighWater, BacklogLimit)
    BY DEF Anchor
  <2>3. Placed(id) => id \in Nat /\ HighWater \in Nat
    BY <1>2, <1>4
  <2>. QED BY <1>2, <2>1, <2>2, <2>3, AnchorIs
<1>6. ~Placed(id) => anchor = HighWater
  BY DEF Anchor
<1>. HIDE DEF anchor
<1>7. /\ anchor \in 0..seq
      /\ Placed(id) => id <= anchor
  <2>1. CASE Placed(id)
    <3>1. id \in 0..seq /\ (anchor = id \/ (anchor \in log /\ id < anchor))
      BY <1>4, <1>5, <2>1 DEF Between
    <3>2. anchor \in 0..seq
      <4>1. \A x \in log : x \in 0..seq
        BY <1>2
      <4>. QED BY <3>1, <4>1
    <3>. QED BY <1>2, <3>1, <3>2
  <2>. QED BY <1>2, <1>6, <2>1
<1>8. Skipped(id) = IF Placed(id) THEN id + 1 .. anchor ELSE 1 .. HighWater
  BY DEF Skipped, anchor
<1>9. Skipped(id) \subseteq 1..seq
  BY <1>2, <1>4, <1>7, <1>8
<1>10. /\ stream'.state = "open" /\ stream'.pending = <<>> /\ ~stream'.overflowed
       /\ stream'.lastSentSeq = anchor /\ stream'.replayFrom = anchor
       /\ stream'.replayTo = HighWater
  BY <1>1 DEF OpenedAt, NoStream
<1>11. TypeOK'
  <2>1. <<>> \in Seq(Rows)
    BY EmptySeq
  <2>2. stream' \in Stream
    <3>1. anchor \in Nat /\ HighWater \in Nat
      BY <1>2, <1>7
    <3>2. stream' = [state |-> "open", pending |-> <<>>, overflowed |-> FALSE, idle |-> FALSE,
                     lastSentSeq |-> anchor, replayFrom |-> anchor, replayTo |-> HighWater]
      BY <1>1 DEF OpenedAt, NoStream
    <3>. HIDE DEF id
    <3>. QED BY <2>1, <3>1, <3>2 DEF Stream
  <2>3. announced' \subseteq Rows
    BY <1>1, <1>2, <1>9 DEF Inv, TypeOK, Rows
  <2>. QED BY <1>1, <2>1, <2>2, <2>3 DEF Inv, TypeOK, Panel, Rows
<1>12. LogInv'
  BY <1>1 DEF Inv, LogInv
<1>13. FeedInv'
  BY <1>1, <1>3 DEF Inv, FeedInv, Complete, TypeOK, Panel
<1>14. Ahead' = Between(anchor, HighWater)
  BY <1>1, <1>10, EmptySet DEF Ahead, Between
<1>15. \A x \in ToSet(Feed), y \in Between(anchor, HighWater) : x < y
  <2>1. CASE Placed(id)
    <3>1. ASSUME NEW x \in ToSet(Feed), NEW y \in Between(anchor, HighWater) PROVE x < y
      <4>1. x <= id /\ id <= anchor /\ anchor < y /\ x \in Nat /\ y \in Nat
        BY <1>2, <1>4, <1>7, <2>1, <3>1, Facts DEF Between, Inv, FeedInv
      <4>. QED BY <1>2, <1>4, <1>7, <2>1, <4>1
    <3>. QED BY <3>1
  <2>2. CASE ~Placed(id)
    BY <1>2, <1>6, <2>2 DEF Between
  <2>. QED BY <2>1, <2>2
<1>16. 1..seq \subseteq ToSet(Feed) \cup announced' \cup Between(anchor, HighWater)
  <2>1. SUFFICES ASSUME NEW x \in 1..seq, x \notin announced'
                 PROVE  x \in ToSet(Feed) \cup Between(anchor, HighWater)
    OBVIOUS
  <2>2. x \in log /\ x <= HighWater /\ x \in Nat /\ x >= 1
    BY <1>1, <1>2, <2>1 DEF Inv, LogInv
  <2>3. CASE Placed(id)
    <3>1. x <= id \/ anchor < x
      BY <1>1, <1>2, <1>4, <1>7, <1>8, <2>1, <2>2, <2>3
    <3>2. CASE x <= id
      <4>1. id \in ToSet(Feed) /\ x \in 1..id
        BY <1>2, <1>4, <2>2, <2>3, <3>2
      <4>. QED BY <1>1, <2>1, <4>1 DEF Inv, FeedInv, Complete
    <3>3. CASE anchor < x
      BY <2>2, <3>3 DEF Between
    <3>. QED BY <3>1, <3>2, <3>3
  <2>4. CASE ~Placed(id)
    BY <1>1, <1>2, <1>8, <2>1, <2>2, <2>4
  <2>. QED BY <2>3, <2>4
<1>17. StreamInv'
  <2>1. panel'.connected
    BY <1>1 DEF Inv, TypeOK, Panel
  <2>2. Ascends(stream'.pending) /\ ToSet(stream'.pending) = {}
    BY <1>10, EmptySet DEF Ascends
  <2>3. stream'.replayTo <= seq' /\ stream'.lastSentSeq <= seq'
    BY <1>1, <1>2, <1>7, <1>10
  <2>. QED BY <1>1, <1>3, <1>14, <1>15, <1>16, <2>1, <2>2, <2>3 DEF StreamInv
<1>. QED BY <1>11, <1>12, <1>13, <1>17 DEF Inv

\* A chunk of rows above everything sent so far lengthens the feed.
LEMMA ChunkInv ==
  ASSUME Inv, stream.state = "open", NEW chunk \in Seq(Nat), Ascends(chunk),
         ToSet(chunk) \subseteq Ahead, wire' = wire \o chunk, panel' = panel
  PROVE  /\ Feed' \in Seq(Nat) /\ wire' \in Seq(Rows)
         /\ ToSet(Feed)' = ToSet(Feed) \cup ToSet(chunk)
         /\ Ascends(Feed') /\ ToSet(chunk) \subseteq 1..seq
<1>1. /\ panel.received \in Seq(Nat) /\ wire \in Seq(Nat) /\ Feed \in Seq(Nat)
      /\ seq \in Nat /\ MaxSeq \in Nat /\ seq <= MaxSeq
  BY Facts DEF Inv
<1>2. StreamInv /\ FeedInv /\ LogInv /\ TypeOK
  BY DEF Inv
<1>3. Feed' = Feed \o chunk
  <2>1. Feed' = panel.received \o (wire \o chunk)
    BY DEF Feed
  <2>3. (panel.received \o wire) \o chunk = panel.received \o (wire \o chunk)
    BY <1>1, Associative
  <2>. QED BY <2>1, <2>3 DEF Feed
<1>4. \A x \in ToSet(Feed), y \in ToSet(chunk) : x < y
  BY <1>2 DEF StreamInv
<1>5. ToSet(Feed \o chunk) = ToSet(Feed) \cup ToSet(chunk) /\ Ascends(Feed \o chunk)
  BY <1>1, <1>2, <1>4, ConcatAscends DEF FeedInv
<1>6. ToSet(chunk) \subseteq 1..seq
  BY <1>2 DEF Ahead, Between, LogInv, StreamInv
<1>7. chunk \in Seq(Rows)
  <2>1. ToSet(chunk) \subseteq Rows
    BY <1>1, <1>6 DEF Rows
  <2>. QED BY <2>1, SeqOver
<1>8. wire' \in Seq(Rows)
  BY <1>2, <1>7, ConcatProperties DEF TypeOK
<1>9. Feed \o chunk \in Seq(Nat)
  BY <1>1, ConcatProperties
<1>. QED BY <1>3, <1>5, <1>6, <1>8, <1>9

LEMMA PullReplaysInv == ASSUME Inv, PullReplays PROVE Inv'
<1> DEFINE page == Replay  window == Between(stream.replayFrom, stream.replayTo)
<1>1. /\ stream.state = "open" /\ ~stream.overflowed /\ page # <<>>
      /\ wire' = wire \o page
      /\ stream' = [stream EXCEPT !.idle = FALSE, !.replayFrom = Last(page),
                                  !.lastSentSeq = Last(page)]
      /\ UNCHANGED <<log, seq, panel, announced, leaked, drops, resets>>
  BY DEF PullReplays, CanPull
<1>2. /\ stream \in Stream /\ stream.replayFrom \in Nat /\ stream.replayTo \in Nat
      /\ StreamInv /\ FeedInv /\ LogInv /\ TypeOK
  BY DEF Inv, TypeOK, Stream
<1>3. /\ page \in Seq(Nat) /\ Ascends(page) /\ ToSet(page) \subseteq window
      /\ Last(page) \in window
      /\ \A s \in window : s <= Last(page) => s \in ToSet(page)
  <2>1. ChunkEvents \in Nat \ {0} /\ log \subseteq Nat /\ IsFiniteSet(log)
    BY LimitsAssumption, Facts DEF Inv
  <2>2. page = PageAfter(stream.replayFrom, stream.replayTo, ChunkEvents)
    BY DEF Replay
  <2>. QED BY <1>1, <1>2, <2>1, <2>2, PageIs
<1>4. ToSet(page) \subseteq Ahead /\ window \subseteq Ahead
  BY <1>3 DEF Ahead
<1>. HIDE DEF page
<1>5. /\ wire' \in Seq(Rows) /\ ToSet(Feed)' = ToSet(Feed) \cup ToSet(page)
      /\ Ascends(Feed') /\ ToSet(page) \subseteq 1..seq
  BY <1>1, <1>3, <1>4, ChunkInv
<1>6. /\ seq \in Nat /\ Last(page) \in Nat /\ Last(page) <= stream.replayTo
      /\ Last(page) \in ToSet(page) /\ stream.replayFrom < Last(page)
      /\ \A x \in ToSet(page) : x <= Last(page) /\ x \in Nat
  <2>1. seq \in Nat /\ log \subseteq Nat
    BY Facts DEF Inv
  <2>. QED BY <1>1, <1>2, <1>3, <2>1, LastIs DEF Between
<1>7. /\ stream'.pending = stream.pending /\ stream'.replayFrom = Last(page)
      /\ stream'.replayTo = stream.replayTo /\ stream'.lastSentSeq = Last(page)
      /\ ~stream'.overflowed /\ stream' \in Stream
  BY <1>1, <1>2, <1>6 DEF Stream
<1>8. TypeOK'
  BY <1>1, <1>2, <1>5, <1>7 DEF TypeOK
<1>9. LogInv'
  BY <1>1, <1>2 DEF LogInv
<1>10. \A x \in ToSet(page), s \in 1..seq : s <= x => s \in ToSet(Feed)' \cup announced
  <2>1. SUFFICES ASSUME NEW x \in ToSet(page), NEW s \in 1..seq, s <= x,
                        s \notin ToSet(Feed) \cup announced
                 PROVE  s \in ToSet(page)
    BY <1>5
  <2>2. s \in Ahead
    BY <1>1, <1>2, <2>1 DEF StreamInv
  <2>3. s <= Last(page) /\ s <= stream.replayTo /\ s \in Nat
    BY <1>2, <1>6, <2>1
  <2>4. s \notin ToSet(stream.pending)
    BY <1>1, <1>2, <2>3 DEF StreamInv
  <2>. QED BY <1>3, <2>2, <2>3, <2>4 DEF Ahead
<1>11. FeedInv'
  <2>1. Complete(Feed)'
    <3>1. SUFFICES ASSUME NEW x \in ToSet(Feed)', NEW s \in 1..x
                   PROVE  s \in ToSet(Feed)' \cup announced
      BY <1>1 DEF Complete
    <3>2. CASE x \in ToSet(Feed)
      BY <1>2, <1>5, <3>1, <3>2 DEF FeedInv, Complete
    <3>3. CASE x \in ToSet(page)
      <4>1. s \in 1..seq /\ s <= x
        BY <1>5, <1>6, <3>1, <3>3
      <4>. QED BY <1>10, <3>3, <4>1
    <3>. QED BY <1>5, <3>2, <3>3
  <2>2. panel.connected
    BY <1>1, <1>2 DEF StreamInv
  <2>3. ToSet(Feed)' \subseteq 1..seq
    BY <1>2, <1>5 DEF FeedInv
  <2>. QED BY <1>1, <1>2, <1>5, <2>1, <2>2, <2>3 DEF FeedInv
<1>12. Ahead' = {s \in Ahead : Last(page) < s}
  <2>1. \A s \in ToSet(stream.pending) : Last(page) < s
    BY <1>1, <1>2, <1>6 DEF StreamInv
  <2>2. Ahead' = Between(Last(page), stream.replayTo) \cup ToSet(stream.pending)
    BY <1>1, <1>7 DEF Ahead, Between
  <2>3. Between(Last(page), stream.replayTo) = {s \in window : Last(page) < s}
    <3>1. \A s \in log : Last(page) < s => stream.replayFrom < s
      BY <1>2, <1>6, Facts
    <3>. QED BY <3>1 DEF Between
  <2>. QED BY <2>1, <2>2, <2>3 DEF Ahead
<1>13. StreamInv'
  <2>1. panel'.connected /\ stream'.replayTo <= seq' /\ stream'.lastSentSeq <= seq'
    BY <1>1, <1>2, <1>6, <1>7 DEF StreamInv
  <2>2. \A x \in ToSet(stream'.pending) :
          x \in 1..seq' /\ x > stream'.replayTo /\ x > stream'.lastSentSeq
    BY <1>1, <1>2, <1>6, <1>7 DEF StreamInv
  <2>3. \A x \in ToSet(Feed)', y \in Ahead' : x < y
    <3>1. SUFFICES ASSUME NEW x \in ToSet(page), NEW y \in Ahead, Last(page) < y
                   PROVE  x < y
      BY <1>1, <1>2, <1>5, <1>12 DEF StreamInv
    <3>2. y \in Nat
      BY <1>1, <1>2, Facts DEF Ahead, Between, StreamInv
    <3>. QED BY <1>6, <3>1, <3>2
  <2>4. 1..seq' \subseteq ToSet(Feed)' \cup announced' \cup Ahead'
    <3>1. SUFFICES ASSUME NEW s \in Ahead, ~(Last(page) < s) PROVE s \in ToSet(page)
      BY <1>1, <1>2, <1>5, <1>12 DEF StreamInv
    <3>2. s \in window
      BY <1>1, <1>2, <1>6, <3>1 DEF Ahead, StreamInv
    <3>3. s \in Nat
      BY <3>2, Facts DEF Between, Inv
    <3>. QED BY <1>3, <1>6, <3>1, <3>2, <3>3
  <2>. QED BY <1>1, <1>2, <1>7, <2>1, <2>2, <2>3, <2>4 DEF StreamInv
<1>. QED BY <1>8, <1>9, <1>11, <1>13 DEF Inv

LEMMA PullSendsLiveInv == ASSUME Inv, PullSendsLive PROVE Inv'
<1> DEFINE chunk == Upto(Unsent, ChunkEvents)
           rest == SubSeq(Unsent, Len(chunk) + 1, Len(Unsent))
<1>1. /\ stream.state = "open" /\ ~stream.overflowed /\ Replay = <<>> /\ chunk # <<>>
      /\ wire' = wire \o chunk
      /\ stream' = [stream EXCEPT !.idle = FALSE, !.replayFrom = stream.replayTo,
                                  !.pending = rest, !.lastSentSeq = Last(chunk)]
      /\ UNCHANGED <<log, seq, panel, announced, leaked, drops, resets>>
  BY DEF PullSendsLive, CanPull
<1>2. /\ stream \in Stream /\ stream.replayFrom \in Nat /\ stream.replayTo \in Nat
      /\ stream.lastSentSeq \in Nat
      /\ StreamInv /\ FeedInv /\ LogInv /\ TypeOK
  BY DEF Inv, TypeOK, Stream
<1>3. /\ ChunkEvents \in Nat \ {0} /\ log \subseteq Nat /\ IsFiniteSet(log) /\ seq \in Nat
      /\ MaxSeq \in Nat /\ seq <= MaxSeq /\ stream.pending \in Seq(Nat)
  BY LimitsAssumption, Facts DEF Inv
<1>4. Between(stream.replayFrom, stream.replayTo) = {}
  BY <1>1, <1>2, <1>3, PageIs DEF Replay
<1>5. Ahead = ToSet(stream.pending)
  BY <1>4 DEF Ahead
<1>6. /\ Unsent \in Seq(Nat) /\ Ascends(Unsent)
      /\ ToSet(Unsent) = ToSet(stream.pending)
  <2>1. /\ Ascends(stream.pending)
        /\ \A x \in ToSet(stream.pending) : x > stream.lastSentSeq
    BY <1>1, <1>2 DEF StreamInv
  <2>. QED BY <1>2, <1>3, <2>1, UnsentIs
<1>7. chunk \in Seq(Nat) /\ rest \in Seq(Nat) /\ Unsent = chunk \o rest
  BY <1>3, <1>6, UptoIs
<1>. HIDE DEF chunk, rest
<1>8. /\ Ascends(chunk) /\ Ascends(rest) /\ ToSet(stream.pending) = ToSet(chunk) \cup ToSet(rest)
      /\ \A x \in ToSet(chunk), y \in ToSet(rest) : x < y
  BY <1>6, <1>7, ConcatAscends
<1>9. /\ wire' \in Seq(Rows) /\ ToSet(Feed)' = ToSet(Feed) \cup ToSet(chunk)
      /\ Ascends(Feed') /\ ToSet(chunk) \subseteq 1..seq
  BY <1>1, <1>5, <1>7, <1>8, ChunkInv
<1>10. \A x \in ToSet(stream.pending) : x \in 1..seq /\ x \in Nat /\ x > stream.replayTo
  BY <1>1, <1>2 DEF StreamInv
<1>11. /\ Last(chunk) \in ToSet(chunk) /\ Last(chunk) \in 1..seq /\ Last(chunk) \in Nat
  BY <1>1, <1>7, <1>8, <1>10, LastIs
<1>12. rest \in Seq(Rows)
  <2>1. ToSet(rest) \subseteq Rows
    BY <1>3, <1>8, <1>10 DEF Rows
  <2>. QED BY <1>7, <2>1, SeqOver
<1>13. /\ stream'.pending = rest /\ stream'.replayFrom = stream.replayTo
       /\ stream'.replayTo = stream.replayTo /\ stream'.lastSentSeq = Last(chunk)
       /\ ~stream'.overflowed /\ stream' \in Stream
  BY <1>1, <1>2, <1>11, <1>12 DEF Stream
<1>14. TypeOK'
  BY <1>1, <1>2, <1>9, <1>13 DEF TypeOK
<1>15. LogInv'
  BY <1>1, <1>2 DEF LogInv
<1>16. \A x \in ToSet(chunk), s \in 1..seq : s <= x => s \in ToSet(Feed)' \cup announced
  <2>1. SUFFICES ASSUME NEW x \in ToSet(chunk), NEW s \in 1..seq, s <= x,
                        s \notin ToSet(Feed) \cup announced
                 PROVE  s \in ToSet(chunk)
    BY <1>9
  <2>2. s \in ToSet(stream.pending)
    BY <1>1, <1>2, <1>5, <2>1 DEF StreamInv
  <2>3. s \notin ToSet(rest)
    BY <1>8, <1>10, <2>1
  <2>. QED BY <1>8, <2>2, <2>3
<1>17. FeedInv'
  <2>1. Complete(Feed)'
    <3>1. SUFFICES ASSUME NEW x \in ToSet(Feed)', NEW s \in 1..x
                   PROVE  s \in ToSet(Feed)' \cup announced
      BY <1>1 DEF Complete
    <3>2. CASE x \in ToSet(Feed)
      BY <1>2, <1>9, <3>1, <3>2 DEF FeedInv, Complete
    <3>3. CASE x \in ToSet(chunk)
      <4>1. s \in 1..seq /\ s <= x
        BY <1>3, <1>9, <3>1, <3>3
      <4>. QED BY <1>16, <3>3, <4>1
    <3>. QED BY <1>9, <3>2, <3>3
  <2>2. panel.connected
    BY <1>1, <1>2 DEF StreamInv
  <2>3. ToSet(Feed)' \subseteq 1..seq
    BY <1>2, <1>9 DEF FeedInv
  <2>. QED BY <1>1, <1>2, <1>9, <2>1, <2>2, <2>3 DEF FeedInv
<1>18. Ahead' = ToSet(rest)
  <2>1. \A s \in log : ~(stream.replayTo < s /\ s <= stream.replayTo)
    BY <1>2, <1>3
  <2>. QED BY <1>1, <1>13, <2>1 DEF Ahead, Between
<1>19. StreamInv'
  <2>1. panel'.connected /\ stream'.replayTo <= seq' /\ stream'.lastSentSeq <= seq'
    BY <1>1, <1>2, <1>11, <1>13 DEF StreamInv
  <2>2. \A x \in ToSet(stream'.pending) :
          x \in 1..seq' /\ x > stream'.replayTo /\ x > stream'.lastSentSeq
    BY <1>1, <1>8, <1>10, <1>11, <1>13
  <2>3. \A x \in ToSet(Feed)', y \in Ahead' : x < y
    BY <1>1, <1>2, <1>5, <1>8, <1>9, <1>18 DEF StreamInv
  <2>4. 1..seq' \subseteq ToSet(Feed)' \cup announced' \cup Ahead'
    BY <1>1, <1>2, <1>5, <1>8, <1>9, <1>18 DEF StreamInv
  <2>. QED BY <1>1, <1>8, <1>13, <2>1, <2>2, <2>3, <2>4 DEF StreamInv
<1>. QED BY <1>14, <1>15, <1>17, <1>19 DEF Inv

LEMMA PullParksInv == ASSUME Inv, PullParks PROVE Inv'
<1>1. /\ stream.state = "open" /\ ~stream.overflowed /\ Replay = <<>> /\ Unsent = <<>>
      /\ stream' = [stream EXCEPT !.idle = TRUE, !.replayFrom = stream.replayTo,
                                  !.pending = <<>>]
      /\ UNCHANGED <<log, seq, wire, panel, announced, leaked, drops, resets>>
  BY DEF PullParks, CanPull
<1>2. /\ stream \in Stream /\ stream.replayFrom \in Nat /\ stream.replayTo \in Nat
      /\ stream.lastSentSeq \in Nat
      /\ StreamInv /\ FeedInv /\ LogInv /\ TypeOK
  BY DEF Inv, TypeOK, Stream
<1>3. /\ ChunkEvents \in Nat \ {0} /\ log \subseteq Nat /\ IsFiniteSet(log)
      /\ stream.pending \in Seq(Nat)
  BY LimitsAssumption, Facts DEF Inv
<1>4. Ahead = {}
  <2>1. Between(stream.replayFrom, stream.replayTo) = {}
    BY <1>1, <1>2, <1>3, PageIs DEF Replay
  <2>2. /\ Ascends(stream.pending)
        /\ \A x \in ToSet(stream.pending) : x > stream.lastSentSeq
    BY <1>1, <1>2 DEF StreamInv
  <2>3. ToSet(Unsent) = ToSet(stream.pending)
    BY <1>2, <1>3, <2>2, UnsentIs
  <2>. QED BY <1>1, <2>1, <2>3, EmptySet DEF Ahead
<1>5. <<>> \in Seq(Rows)
  BY EmptySeq
<1>6. /\ stream'.pending = <<>> /\ stream'.replayFrom = stream.replayTo
      /\ stream'.replayTo = stream.replayTo /\ stream'.lastSentSeq = stream.lastSentSeq
      /\ ~stream'.overflowed /\ stream' \in Stream
  BY <1>1, <1>2, <1>5 DEF Stream
<1>7. Feed' = Feed
  BY <1>1 DEF Feed
<1>8. TypeOK' /\ LogInv' /\ FeedInv'
  BY <1>1, <1>2, <1>6, <1>7 DEF TypeOK, LogInv, FeedInv, Complete
<1>9. Ahead' = {}
  <2>1. \A s \in log : ~(stream.replayTo < s /\ s <= stream.replayTo)
    BY <1>2, <1>3
  <2>. QED BY <1>1, <1>6, <2>1, EmptySet DEF Ahead, Between
<1>10. StreamInv'
  <2>1. Ascends(<<>>)
    BY DEF Ascends
  <2>. QED BY <1>1, <1>2, <1>4, <1>6, <1>7, <1>9, <2>1, EmptySet DEF StreamInv
<1>. QED BY <1>8, <1>10 DEF Inv

LEMMA PullClosesInv == ASSUME Inv, PullCloses PROVE Inv'
<1>1. /\ stream' = [stream EXCEPT !.state = "closed"] /\ leaked' = leaked + 1
      /\ UNCHANGED <<log, seq, wire, panel, announced, drops, resets>>
  BY DEF PullCloses
<1>2. Feed' = Feed /\ stream' \in Stream /\ stream'.state = "closed"
  BY <1>1 DEF Feed, Inv, TypeOK, Stream
<1>. QED BY <1>1, <1>2 DEF Inv, TypeOK, LogInv, FeedInv, Complete, StreamInv

LEMMA KeepAliveInv == ASSUME Inv, KeepAlive PROVE Inv'
<1>1. /\ stream' = [stream EXCEPT !.idle = FALSE]
      /\ UNCHANGED <<log, seq, wire, panel, announced, leaked, drops, resets>>
  BY DEF KeepAlive
<1>2. /\ stream' \in Stream /\ stream'.state = stream.state
      /\ stream'.pending = stream.pending /\ stream'.overflowed = stream.overflowed
      /\ stream'.replayFrom = stream.replayFrom /\ stream'.replayTo = stream.replayTo
      /\ stream'.lastSentSeq = stream.lastSentSeq
  BY <1>1 DEF Inv, TypeOK, Stream
<1>3. Feed' = Feed /\ Ahead' = Ahead
  BY <1>1, <1>2 DEF Feed, Ahead, Between
<1>. QED BY <1>1, <1>2, <1>3 DEF Inv, TypeOK, LogInv, FeedInv, Complete, StreamInv

LEMMA ReadInv == ASSUME Inv, Read PROVE Inv'
<1>1. /\ panel.connected /\ wire # <<>>
      /\ panel' = [panel EXCEPT !.received = Append(@, Head(wire))] /\ wire' = Tail(wire)
      /\ UNCHANGED <<log, seq, stream, announced, leaked, drops, resets>>
  BY DEF Read
<1>2. panel \in Panel /\ panel.received \in Seq(Rows) /\ wire \in Seq(Rows)
  BY DEF Inv, TypeOK, Panel
<1>3. Head(wire) \in Rows /\ Tail(wire) \in Seq(Rows)
  BY <1>1, <1>2, HeadTailProperties
<1>4. Append(panel.received, Head(wire)) \in Seq(Rows)
  BY <1>2, <1>3, AppendProperties
<1>5. /\ panel'.received = Append(panel.received, Head(wire)) /\ panel' \in Panel
      /\ panel'.connected /\ panel'.firstConnection = panel.firstConnection
  BY <1>1, <1>2, <1>4 DEF Panel
<1>6. Feed' = Feed
  BY <1>1, <1>2, <1>5, HeadMoves DEF Feed
<1>7. Ahead' = Ahead
  BY <1>1 DEF Ahead, Between
<1>. QED BY <1>1, <1>3, <1>5, <1>6, <1>7
         DEF Inv, TypeOK, LogInv, FeedInv, Complete, StreamInv

\* A connection over, with whatever was on the wire.
LEMMA OverInv ==
  ASSUME Inv, stream' = NoStream, panel' = [panel EXCEPT !.connected = FALSE], wire' = <<>>,
         leaked' \in Nat, drops' \in 0..MaxDrops, UNCHANGED <<log, seq, announced, resets>>
  PROVE  Inv'
<1>1. /\ panel' \in Panel /\ panel'.received = panel.received /\ ~panel'.connected
      /\ panel'.firstConnection = panel.firstConnection
  BY DEF Inv, TypeOK, Panel
<1>2. /\ Ascends(panel.received) /\ ToSet(panel.received) \subseteq 1..seq
      /\ Complete(panel.received) /\ Feed' = panel.received
  BY <1>1, ReceivedIs DEF Feed
<1>3. panel.firstConnection => panel.received = <<>>
  <2>1. ASSUME Feed = <<>> PROVE panel.received = <<>>
    <3>1. panel.received \in Seq(Nat) /\ wire \in Seq(Nat) /\ panel.received \o wire = <<>>
      BY <2>1, Facts DEF Inv, Feed
    <3>2. /\ Len(panel.received) \in Nat /\ Len(wire) \in Nat
          /\ Len(panel.received) + Len(wire) = 0
      BY <3>1, ConcatProperties, LenProperties, EmptySeq
    <3>3. Len(panel.received) = 0
      BY <3>2
    <3>. QED BY <3>1, <3>3, EmptySeq
  <2>. QED BY <2>1 DEF Inv, FeedInv
<1>4. stream' \in Stream /\ stream'.state = "none" /\ wire' \in Seq(Rows)
  BY EmptySeq DEF NoStream, Stream
<1>5. TypeOK'
  BY <1>1, <1>4 DEF Inv, TypeOK, Rows
<1>6. FeedInv'
  BY <1>1, <1>2, <1>3 DEF FeedInv, Complete
<1>. QED BY <1>4, <1>5, <1>6 DEF Inv, LogInv, StreamInv

LEMMA SeeEndInv == ASSUME Inv, SeeEnd PROVE Inv'
BY OverInv DEF SeeEnd, Inv, TypeOK

LEMMA DropInv == ASSUME Inv, Drop PROVE Inv'
<1>1. drops' \in 0..MaxDrops
  BY LimitsAssumption DEF Drop, Inv, TypeOK
<1>. QED BY <1>1, OverInv DEF Drop, Inv, TypeOK

LEMMA RestartInv == ASSUME Inv, Restart PROVE Inv'
<1>1. drops' \in 0..MaxDrops
  BY LimitsAssumption DEF Restart, Inv, TypeOK
<1>. QED BY <1>1, OverInv DEF Restart, Inv, TypeOK

LEMMA NextInv == Inv /\ [Next]_vars => Inv'
<1> SUFFICES ASSUME Inv, [Next]_vars PROVE Inv'
  OBVIOUS
<1>1. CASE UNCHANGED vars
  <2>1. Feed' = Feed /\ Ahead' = Ahead
    BY <1>1 DEF vars, Feed, Ahead, Between
  <2>. QED BY <1>1, <2>1 DEF vars, Inv, TypeOK, LogInv, FeedInv, Complete, StreamInv
<1>2. ASSUME NEW n \in 1..MaxBatch, Record(n) PROVE Inv'
  BY <1>2, RecordInv
<1>3. CASE Reset
  BY <1>3, ResetInv
<1>4. CASE Connect
  BY <1>4, ConnectInv
<1>5. CASE PullCloses
  BY <1>5, PullClosesInv
<1>6. CASE PullReplays
  BY <1>6, PullReplaysInv
<1>7. CASE PullSendsLive
  BY <1>7, PullSendsLiveInv
<1>8. CASE PullParks
  BY <1>8, PullParksInv
<1>9. CASE KeepAlive
  BY <1>9, KeepAliveInv
<1>10. CASE Read
  BY <1>10, ReadInv
<1>11. CASE SeeEnd
  BY <1>11, SeeEndInv
<1>12. CASE Drop
  BY <1>12, DropInv
<1>13. CASE Restart
  BY <1>13, RestartInv
<1>. QED BY <1>1, <1>2, <1>3, <1>4, <1>5, <1>6, <1>7, <1>8, <1>9, <1>10, <1>11, <1>12, <1>13
         DEF Next

THEOREM Invariant == Spec => []Inv
BY InitInv, NextInv, PTL DEF Spec

-----------------------------------------------------------------------------
(* What it shows.                                                          *)

(* Every reachable state has its declared type: nothing but rows the log    *)
(* gave a number to is queued, sent or shown.                               *)
THEOREM TypeCorrect == Spec => []TypeOK
<1>1. Inv => TypeOK
  BY DEF Inv
<1>. QED BY <1>1, Invariant, PTL

(* handleEvents and the panel's reconnects, for any limits, any number of   *)
(* rows, resets, lost connections and restarts: the feed a panel has shown  *)
(* is in order and shows nothing twice.                                     *)
THEOREM InOrder == Spec => []InOrderNothingTwice
<1>1. Inv => InOrderNothingTwice
  BY ReceivedIs DEF InOrderNothingTwice
<1>. QED BY <1>1, Invariant, PTL

(* And it has no hole that the stream did not announce, save what a reset   *)
(* erased: replay and queue meet at the mark, and a queue that would have   *)
(* to be trimmed ends the stream.                                           *)
THEOREM NoGap == Spec => []NoSilentGap
<1>1. ASSUME Inv PROVE NoSilentGap
  <2>1. SUFFICES ASSUME NEW i \in DOMAIN panel.received, NEW s \in 1..panel.received[i]
                 PROVE  s \in ToSet(panel.received) \cup announced
    BY DEF NoSilentGap
  <2>2. panel.received[i] \in ToSet(panel.received)
    BY DEF ToSet
  <2>. QED BY <1>1, <2>1, <2>2, ReceivedIs DEF Complete
<1>. QED BY <1>1, Invariant, PTL

=============================================================================
