------------------------- MODULE ObjectSessionProofs -------------------------
(***************************************************************************)
(* What holds in every session: its types, that the sends a call promises  *)
(* are in place and clean, that it removes strays only, and that the tracks *)
(* one call names another one finds.                                       *)
(***************************************************************************)
EXTENDS ObjectSession, SendLayoutProofs

-----------------------------------------------------------------------------
(* Sets in an order, and the sequences made from them. *)

\* R orders the elements of S strictly, and any two of them.
Orders(R, S) ==
    /\ \A x \in S : <<x, x>> \notin R
    /\ \A x, y \in S : x # y => <<x, y>> \in R \/ <<y, x>> \in R
    /\ \A x, y, z \in S : <<x, y>> \in R /\ <<y, z>> \in R => <<x, z>> \in R

Below(x, R, S) == {y \in S : <<y, x>> \in R}

\* Of two elements the later one has more before it.
LEMMA BelowGrows ==
    ASSUME NEW S, IsFiniteSet(S), NEW R, Orders(R, S), NEW x \in S, NEW y \in S, <<x, y>> \in R
    PROVE  Cardinality(Below(x, R, S)) < Cardinality(Below(y, R, S))
<1>1. Below(x, R, S) \subseteq Below(y, R, S)
  BY DEF Below, Orders
<1>2. x \in Below(y, R, S) /\ x \notin Below(x, R, S)
  BY DEF Below, Orders
<1>3. IsFiniteSet(Below(y, R, S)) /\ IsFiniteSet(Below(x, R, S))
  BY FS_Subset DEF Below
<1>4. /\ Cardinality(Below(x, R, S)) <= Cardinality(Below(y, R, S))
      /\ Cardinality(Below(x, R, S)) # Cardinality(Below(y, R, S))
  BY <1>1, <1>2, <1>3, FS_Subset
<1>5. Cardinality(Below(x, R, S)) \in Nat /\ Cardinality(Below(y, R, S)) \in Nat
  BY <1>3, FS_CardinalityType
<1> QED
  BY <1>4, <1>5

\* Each place in the order has its one element.
LEMMA Ranks ==
    ASSUME NEW S, IsFiniteSet(S), NEW R, Orders(R, S)
    PROVE  /\ \A x \in S : Cardinality(Below(x, R, S)) \in 0..(Cardinality(S) - 1)
           /\ \A x, y \in S : Cardinality(Below(x, R, S)) = Cardinality(Below(y, R, S)) => x = y
           /\ \A k \in 1..Cardinality(S) : \E x \in S : Cardinality(Below(x, R, S)) = k - 1
<1> DEFINE n == Cardinality(S)
           rank == [x \in S |-> Cardinality(Below(x, R, S))]
<1>1. n \in Nat
  BY FS_CardinalityType
<1>2. ASSUME NEW x \in S PROVE Cardinality(Below(x, R, S)) \in 0..(n - 1)
  <2>1. Below(x, R, S) \subseteq S \ {x}
    BY DEF Below, Orders
  <2>2. IsFiniteSet(S \ {x}) /\ Cardinality(S \ {x}) = n - 1
    BY FS_RemoveElement
  <2>3. IsFiniteSet(Below(x, R, S)) /\ Cardinality(Below(x, R, S)) <= n - 1
    BY <2>1, <2>2, FS_Subset
  <2>4. Cardinality(Below(x, R, S)) \in Nat
    BY <2>3, FS_CardinalityType
  <2> QED
    BY <1>1, <2>3, <2>4
<1>3. ASSUME NEW x \in S, NEW y \in S, Cardinality(Below(x, R, S)) = Cardinality(Below(y, R, S)) PROVE x = y
  <2> SUFFICES ASSUME x # y PROVE FALSE
    OBVIOUS
  <2>1. <<x, y>> \in R \/ <<y, x>> \in R
    BY DEF Orders
  <2>2. \/ Cardinality(Below(x, R, S)) < Cardinality(Below(y, R, S))
        \/ Cardinality(Below(y, R, S)) < Cardinality(Below(x, R, S))
    BY <2>1, BelowGrows
  <2>3. Cardinality(Below(x, R, S)) \in Nat /\ Cardinality(Below(y, R, S)) \in Nat
    BY <1>1, <1>2
  <2> QED
    BY <1>3, <2>2, <2>3
<1>4. rank \in Injection(S, 0..(n - 1))
  <2>1. rank \in [S -> 0..(n - 1)]
    BY <1>2
  <2>2. \A x, y \in S : rank[x] = rank[y] => x = y
    BY <1>3
  <2> HIDE DEF rank
  <2> QED
    BY <2>1, <2>2, Fun_IsInj
<1>5. IsFiniteSet(0..(n - 1)) /\ Cardinality(0..(n - 1)) = n
  BY <1>1, FS_Interval, SMTT(30)
<1>6. rank \in Surjection(S, 0..(n - 1))
  <2> HIDE DEF rank
  <2> QED
    BY <1>4, <1>5, FS_Injection
<1>7. ASSUME NEW k \in 1..n PROVE \E x \in S : Cardinality(Below(x, R, S)) = k - 1
  <2>1. k - 1 \in 0..(n - 1)
    BY <1>1
  <2>2. \E x \in S : rank[x] = k - 1
    <3> HIDE DEF rank, n
    <3>1. \A t \in 0..(n - 1) : \E x \in S : rank[x] = t
      BY <1>6, Fun_SurjectionProperties
    <3> QED
      BY <2>1, <3>1
  <2> QED
    BY <2>2
<1> QED
  BY <1>2, <1>3, <1>7

\* Sorted lists all the elements, each once, in the order.
LEMMA SortedProperties ==
    ASSUME NEW S, IsFiniteSet(S), NEW R, Orders(R, S)
    PROVE  /\ Cardinality(S) \in Nat
           /\ Sorted(S, R) \in [1..Cardinality(S) -> S]
           /\ \A k \in 1..Cardinality(S) : Cardinality(Below(Sorted(S, R)[k], R, S)) = k - 1
           /\ \A j, k \in 1..Cardinality(S) : j < k => <<Sorted(S, R)[j], Sorted(S, R)[k]>> \in R
           /\ \A x \in S : \E k \in 1..Cardinality(S) : Sorted(S, R)[k] = x
<1> DEFINE n == Cardinality(S)
           s == Sorted(S, R)
<1>1. n \in Nat
  BY FS_CardinalityType
<1>2. s = [k \in 1..n |-> CHOOSE x \in S : Cardinality({y \in S : <<y, x>> \in R}) = k - 1]
  BY DEF Sorted
<1> HIDE DEF s
<1>3. ASSUME NEW k \in 1..n PROVE s[k] \in S /\ Cardinality(Below(s[k], R, S)) = k - 1
  <2>0. PICK x \in S : Cardinality(Below(x, R, S)) = k - 1
    BY Ranks
  <2>1. \E z \in S : Cardinality({y \in S : <<y, z>> \in R}) = k - 1
    BY <2>0 DEF Below
  <2>2. s[k] = CHOOSE z \in S : Cardinality({y \in S : <<y, z>> \in R}) = k - 1
    BY <1>2
  <2>3. s[k] \in S /\ Cardinality({y \in S : <<y, s[k]>> \in R}) = k - 1
    BY <2>1, <2>2
  <2> QED
    BY <2>3 DEF Below
<1>4. s \in [1..n -> S]
  BY <1>2, <1>3
<1>5. ASSUME NEW j \in 1..n, NEW k \in 1..n, j < k PROVE <<s[j], s[k]>> \in R
  <2>1. /\ s[j] \in S /\ Cardinality(Below(s[j], R, S)) = j - 1
        /\ s[k] \in S /\ Cardinality(Below(s[k], R, S)) = k - 1
    BY <1>3
  <2>2. j - 1 < k - 1
    BY <1>1, <1>5
  <2>3. s[j] # s[k] /\ <<s[k], s[j]>> \notin R
    BY <1>1, <2>1, <2>2, BelowGrows
  <2> QED
    BY <2>1, <2>3 DEF Orders
<1>6. ASSUME NEW x \in S PROVE \E k \in 1..n : s[k] = x
  <2> DEFINE k == Cardinality(Below(x, R, S)) + 1
  <2>1. Cardinality(Below(x, R, S)) \in 0..(n - 1)
    BY Ranks
  <2>2. k \in 1..n /\ k - 1 = Cardinality(Below(x, R, S))
    BY <1>1, <2>1
  <2> HIDE DEF k
  <2>3. s[k] \in S /\ Cardinality(Below(s[k], R, S)) = Cardinality(Below(x, R, S))
    BY <1>3, <2>2
  <2>4. s[k] = x
    BY <2>3, Ranks
  <2> QED
    BY <2>2, <2>4
<1> QED
  BY <1>1, <1>3, <1>4, <1>5, <1>6 DEF s

\* Ascending lists every element of a set of numbers once, the smaller before the greater.
LEMMA AscendingProperties ==
    ASSUME NEW S \in SUBSET Nat, IsFiniteSet(S)
    PROVE  /\ Cardinality(S) \in Nat
           /\ Ascending(S) \in [1..Cardinality(S) -> S]
           /\ \A j, k \in 1..Cardinality(S) : j < k => Ascending(S)[j] < Ascending(S)[k]
           /\ \A x \in S : \E k \in 1..Cardinality(S) : Ascending(S)[k] = x
<1> DEFINE R == {p \in S \X S : p[1] < p[2]}
<1>1. \A x, y \in S : <<x, y>> \in R <=> x < y
  OBVIOUS
<1>2. Ascending(S) = Sorted(S, R)
  BY DEF Ascending
<1> HIDE DEF R
<1>3. Orders(R, S)
  BY <1>1 DEF Orders
<1>4. /\ Cardinality(S) \in Nat
      /\ Sorted(S, R) \in [1..Cardinality(S) -> S]
      /\ \A j, k \in 1..Cardinality(S) : j < k => <<Sorted(S, R)[j], Sorted(S, R)[k]>> \in R
      /\ \A x \in S : \E k \in 1..Cardinality(S) : Sorted(S, R)[k] = x
  BY <1>3, SortedProperties
<1> QED
  BY <1>1, <1>2, <1>4

\* Descending lists them the other way round.
LEMMA DescendingProperties ==
    ASSUME NEW S \in SUBSET Nat, IsFiniteSet(S)
    PROVE  /\ Cardinality(S) \in Nat
           /\ Descending(S) \in [1..Cardinality(S) -> S]
           /\ \A j, k \in 1..Cardinality(S) : j < k => Descending(S)[j] > Descending(S)[k]
           /\ \A x \in S : \E k \in 1..Cardinality(S) : Descending(S)[k] = x
<1> DEFINE R == {p \in S \X S : p[1] > p[2]}
<1>1. \A x, y \in S : <<x, y>> \in R <=> x > y
  OBVIOUS
<1>2. Descending(S) = Sorted(S, R)
  BY DEF Descending
<1> HIDE DEF R
<1>3. Orders(R, S)
  BY <1>1 DEF Orders
<1>4. /\ Cardinality(S) \in Nat
      /\ Sorted(S, R) \in [1..Cardinality(S) -> S]
      /\ \A j, k \in 1..Cardinality(S) : j < k => <<Sorted(S, R)[j], Sorted(S, R)[k]>> \in R
      /\ \A x \in S : \E k \in 1..Cardinality(S) : Sorted(S, R)[k] = x
  BY <1>3, SortedProperties
<1> QED
  BY <1>1, <1>2, <1>4

\* t has the elements of s at the positions of K, in their order: h leads each of its
\* positions to the one it comes from.
Selects(h, t, s, K) ==
    /\ h \in [1..Len(t) -> K]
    /\ \A j \in 1..Len(t) : t[j] = s[h[j]]
    /\ \A i, j \in 1..Len(t) : i < j => h[i] < h[j]
    /\ \A k \in K : \E j \in 1..Len(t) : h[j] = k

\* What is picked is the elements at the positions of K, in their order.
LEMMA PickedSelects ==
    ASSUME NEW T, NEW s \in Seq(T), NEW K \in SUBSET (1..Len(s))
    PROVE  /\ Picked(s, K) \in Seq(T)
           /\ Len(Picked(s, K)) \in Nat
           /\ DOMAIN Picked(s, K) = 1..Len(Picked(s, K))
           /\ Selects(Ascending(K), Picked(s, K), s, K)
<1> DEFINE n  == Cardinality(K)
           ks == Ascending(K)
           t  == Picked(s, K)
<1>0. Len(s) \in Nat /\ DOMAIN s = 1..Len(s) /\ \A k \in 1..Len(s) : s[k] \in T
  BY LenProperties, ElementOfSeq
<1>1. K \in SUBSET Nat /\ IsFiniteSet(K)
  <2> DEFINE N == 1..Len(s)
  <2>1. IsFiniteSet(N) /\ N \subseteq Nat
    BY <1>0, FS_Interval
  <2>2. K \in SUBSET N
    OBVIOUS
  <2> HIDE DEF N
  <2>3. IsFiniteSet(K)
    BY <2>1, <2>2, FS_Subset
  <2> QED
    BY <2>1, <2>2, <2>3
<1>2. /\ n \in Nat /\ ks \in [1..n -> K]
      /\ \A j, k \in 1..n : j < k => ks[j] < ks[k]
      /\ \A x \in K : \E k \in 1..n : ks[k] = x
  BY <1>1, AscendingProperties
<1>3. t = [j \in 1..n |-> s[ks[j]]]
  <2>1. DOMAIN ks = 1..n
    BY <1>2
  <2> HIDE DEF ks
  <2> QED
    BY <2>1 DEF Picked, ks
<1> HIDE DEF ks, t, n
<1>4. t \in [1..n -> T]
  <2>1. ASSUME NEW j \in 1..n PROVE s[ks[j]] \in T
    BY <1>0, <1>2
  <2> QED
    BY <1>3, <2>1
<1>5. t \in Seq(T) /\ Len(t) = n /\ DOMAIN t = 1..n
  BY <1>2, <1>4, FcnIsSeq
<1>6. Selects(ks, t, s, K)
  BY <1>2, <1>3, <1>5 DEF Selects
<1> QED
  BY <1>2, <1>5, <1>6 DEF ks, t

\* A selection keeps what holds of every element.
LEMMA SelectedElement ==
    ASSUME NEW h, NEW t, NEW s, NEW K, Selects(h, t, s, K), NEW j \in 1..Len(t)
    PROVE  h[j] \in K /\ t[j] = s[h[j]]
  BY DEF Selects

\* Where the elements of a list are after one was inserted.
LEMMA InsertAtProperties ==
    ASSUME NEW T, NEW s \in Seq(T), NEW i \in 1..(Len(s) + 1), NEW e \in T
    PROVE  /\ InsertAt(s, i, e) \in Seq(T)
           /\ Len(InsertAt(s, i, e)) = Len(s) + 1
           /\ \A j \in 1..(Len(s) + 1) : /\ j < i => InsertAt(s, i, e)[j] = s[j]
                                         /\ j = i => InsertAt(s, i, e)[j] = e
                                         /\ j > i => InsertAt(s, i, e)[j] = s[j - 1]
<1>0. Len(s) \in Nat /\ \A k \in 1..Len(s) : s[k] \in T
  BY LenProperties, ElementOfSeq
<1> DEFINE a == SubSeq(s, 1, i - 1)
           b == SubSeq(s, i, Len(s))
           c == a \o <<e>>
<1>1. a \in Seq(T) /\ Len(a) = i - 1 /\ \A j \in 1..(i - 1) : a[j] = s[j]
  BY <1>0, SubSeqProperties
<1>2. /\ b \in Seq(T) /\ Len(b) = Len(s) - i + 1
      /\ \A j \in 1..(Len(s) - i + 1) : b[j] = s[i + j - 1]
  BY <1>0, SubSeqProperties
<1>3. <<e>> \in Seq(T) /\ Len(<<e>>) = 1 /\ <<e>>[1] = e
  OBVIOUS
<1> HIDE DEF a, b
<1>4. c \in Seq(T) /\ Len(c) = i /\ \A j \in 1..i : (j < i => c[j] = s[j]) /\ (j = i => c[j] = e)
  <2> DEFINE d == <<e>>
  <2>1. d \in Seq(T) /\ Len(d) = 1 /\ d[1] = e
    BY <1>3
  <2> HIDE DEF d
  <2>2. /\ a \o d \in Seq(T) /\ Len(a \o d) = Len(a) + Len(d)
        /\ \A j \in 1..(Len(a) + Len(d)) : (a \o d)[j] = IF j <= Len(a) THEN a[j] ELSE d[j - Len(a)]
    BY <1>1, <2>1, ConcatProperties
  <2>3. \A j \in 1..i : (j < i => (a \o d)[j] = s[j]) /\ (j = i => (a \o d)[j] = e)
    BY <1>0, <1>1, <2>1, <2>2
  <2> QED
    BY <1>1, <2>1, <2>2, <2>3 DEF d
<1> HIDE DEF c
<1>5. InsertAt(s, i, e) = c \o b
  BY DEF InsertAt, a, b, c
<1>6. /\ c \o b \in Seq(T) /\ Len(c \o b) = Len(c) + Len(b)
      /\ \A j \in 1..(Len(c) + Len(b)) : (c \o b)[j] = IF j <= Len(c) THEN c[j] ELSE b[j - Len(c)]
  BY <1>2, <1>4, ConcatProperties
<1>7. ASSUME NEW j \in 1..(Len(s) + 1)
      PROVE  /\ j < i => (c \o b)[j] = s[j]
             /\ j = i => (c \o b)[j] = e
             /\ j > i => (c \o b)[j] = s[j - 1]
  <2>1. (j < i => (c \o b)[j] = s[j]) /\ (j = i => (c \o b)[j] = e)
    BY <1>0, <1>2, <1>4, <1>6
  <2>2. j > i => (c \o b)[j] = s[j - 1]
    <3> SUFFICES ASSUME j > i PROVE (c \o b)[j] = s[j - 1]
      OBVIOUS
    <3>1. (c \o b)[j] = b[j - i] /\ j - i \in 1..(Len(s) - i + 1) /\ i + (j - i) - 1 = j - 1
      BY <1>0, <1>2, <1>4, <1>6
    <3> QED
      BY <1>2, <3>1
  <2> QED
    BY <2>1, <2>2
<1> QED
  BY <1>0, <1>2, <1>4, <1>5, <1>6, <1>7

\* Where they are after one was removed.
LEMMA RemoveAtProperties ==
    ASSUME NEW T, NEW s \in Seq(T), NEW i \in 1..Len(s)
    PROVE  /\ RemoveAt(s, i) \in Seq(T)
           /\ Len(RemoveAt(s, i)) = Len(s) - 1
           /\ \A j \in 1..(Len(s) - 1) : /\ j < i => RemoveAt(s, i)[j] = s[j]
                                         /\ j >= i => RemoveAt(s, i)[j] = s[j + 1]
<1>0. Len(s) \in Nat /\ \A k \in 1..Len(s) : s[k] \in T
  BY LenProperties, ElementOfSeq
<1> DEFINE a == SubSeq(s, 1, i - 1)
           b == SubSeq(s, i + 1, Len(s))
<1>1. a \in Seq(T) /\ Len(a) = i - 1 /\ \A j \in 1..(i - 1) : a[j] = s[j]
  BY <1>0, SubSeqProperties
<1>2. /\ b \in Seq(T) /\ Len(b) = Len(s) - i
      /\ \A j \in 1..(Len(s) - i) : b[j] = s[i + j]
  <2>1. \A j \in (i + 1)..Len(s) : s[j] \in T
    BY <1>0
  <2>2. /\ b \in Seq(T) /\ Len(b) = IF i + 1 <= Len(s) THEN Len(s) - (i + 1) + 1 ELSE 0
        /\ \A j \in 1..(Len(s) - (i + 1) + 1) : b[j] = s[(i + 1) + j - 1]
    BY <1>0, <2>1, SubSeqProperties
  <2> QED
    BY <1>0, <2>2
<1> HIDE DEF a, b
<1>3. RemoveAt(s, i) = a \o b
  BY DEF RemoveAt, a, b
<1>4. /\ a \o b \in Seq(T) /\ Len(a \o b) = Len(a) + Len(b)
      /\ \A j \in 1..(Len(a) + Len(b)) : (a \o b)[j] = IF j <= Len(a) THEN a[j] ELSE b[j - Len(a)]
  BY <1>1, <1>2, ConcatProperties
<1>5. ASSUME NEW j \in 1..(Len(s) - 1)
      PROVE  /\ j < i => (a \o b)[j] = s[j]
             /\ j >= i => (a \o b)[j] = s[j + 1]
  <2>1. j < i => (a \o b)[j] = s[j]
    BY <1>0, <1>1, <1>2, <1>4
  <2>2. j >= i => (a \o b)[j] = s[j + 1]
    <3> SUFFICES ASSUME j >= i PROVE (a \o b)[j] = s[j + 1]
      OBVIOUS
    <3>1. (a \o b)[j] = b[j - (i - 1)] /\ j - (i - 1) \in 1..(Len(s) - i) /\ i + (j - (i - 1)) = j + 1
      BY <1>0, <1>1, <1>2, <1>4
    <3> QED
      BY <1>2, <3>1
  <2> QED
    BY <2>1, <2>2
<1> QED
  BY <1>0, <1>1, <1>2, <1>3, <1>4, <1>5

-----------------------------------------------------------------------------
(* Removing the strays from the last to the first leaves the others. *)

\* After n strays are removed from rs, x has the others in their order, and those
\* up to the next stray are where they were.
Remaining(x, n, rs, strays) ==
    \E h : /\ Selects(h, x, rs, (1..Len(rs)) \ {Descending(strays)[i] : i \in 1..n})
           /\ n < Cardinality(strays) =>
                /\ Descending(strays)[n + 1] \in 1..Len(x)
                /\ \A j \in 1..Descending(strays)[n + 1] : h[j] = j

\* One more removal: the next stray still stands where it was found, for only later ones
\* have gone.
LEMMA RemainingStep ==
    ASSUME NEW T, NEW rs \in Seq(T), NEW strays \in SUBSET (1..Len(rs)),
           NEW n \in Nat, n < Cardinality(strays),
           NEW x \in Seq(T), Remaining(x, n, rs, strays)
    PROVE  LET m == Descending(strays)[n + 1]
           IN  /\ m \in 1..Len(x)
               /\ RemoveAt(x, m) \in Seq(T)
               /\ Remaining(RemoveAt(x, m), n + 1, rs, strays)
<1> DEFINE order == Descending(strays)
           c == Cardinality(strays)
           N == 1..Len(rs)
           K == N \ {order[i] : i \in 1..n}
           L == N \ {order[i] : i \in 1..(n + 1)}
           m == order[n + 1]
           y == RemoveAt(x, m)
<1>1. Len(rs) \in Nat /\ Len(x) \in Nat
  BY LenProperties
<1>2. strays \in SUBSET Nat /\ IsFiniteSet(strays)
  <2>1. IsFiniteSet(N) /\ N \subseteq Nat
    BY <1>1, FS_Interval
  <2>2. strays \in SUBSET N
    OBVIOUS
  <2> HIDE DEF N
  <2>3. IsFiniteSet(strays)
    BY <2>1, <2>2, FS_Subset
  <2> QED
    BY <2>1, <2>2, <2>3
<1>3. /\ c \in Nat /\ order \in [1..c -> strays]
      /\ \A j, k \in 1..c : j < k => order[j] > order[k]
  BY <1>2, DescendingProperties
<1>4. PICK h : /\ Selects(h, x, rs, K)
               /\ m \in 1..Len(x)
               /\ \A j \in 1..m : h[j] = j
  BY DEF Remaining
<1>5. /\ y \in Seq(T) /\ Len(y) = Len(x) - 1
      /\ \A j \in 1..(Len(x) - 1) : /\ j < m => y[j] = x[j]
                                    /\ j >= m => y[j] = x[j + 1]
  <2>1. m \in 1..Len(x)
    BY <1>4
  <2> HIDE DEF m
  <2> QED
    BY <2>1, RemoveAtProperties
<1>6. L = K \ {m} /\ m \in K
  <2>1. n + 1 \in 1..c /\ m \in strays
    BY <1>3
  <2>2. \A i \in 1..n : i \in 1..c /\ i < n + 1
    BY <1>3
  <2>3. \A i \in 1..n : order[i] # m
    <3> HIDE DEF order
    <3>1. \A i \in 1..n : order[i] > order[n + 1]
      BY <1>3, <2>1, <2>2
    <3>2. order[n + 1] \in Nat
      BY <1>2, <2>1
    <3> QED
      BY <3>1, <3>2
  <2>4. \A i \in 1..(n + 1) : i \in 1..n \/ i = n + 1
    OBVIOUS
  <2>5. 1..n \subseteq 1..(n + 1) /\ n + 1 \in 1..(n + 1)
    OBVIOUS
  <2> HIDE DEF order, N
  <2> QED
    BY <2>1, <2>3, <2>4, <2>5 DEF N
<1> DEFINE g == [j \in 1..(Len(x) - 1) |-> IF j < m THEN h[j] ELSE h[j + 1]]
<1> HIDE DEF order, c, N, K, L, y, m
<1>7. m \in Nat /\ h \in [1..Len(x) -> K] /\ K \subseteq Nat
  BY <1>1, <1>4 DEF Selects, N, K
<1>8. \A i, j \in 1..Len(x) : i < j => h[i] < h[j]
  BY <1>4 DEF Selects
<1>9. h[m] = m
  BY <1>1, <1>4
<1>10. ASSUME NEW j \in 1..(Len(x) - 1)
       PROVE  g[j] \in L /\ y[j] = rs[g[j]]
  <2>1. CASE j < m
    <3>1. j \in 1..Len(x) /\ g[j] = h[j] /\ y[j] = x[j] /\ h[j] = j
      BY <1>1, <1>4, <1>5, <1>7, <2>1
    <3>2. h[j] \in K /\ x[j] = rs[h[j]]
      BY <1>4, <3>1, SelectedElement
    <3> QED
      BY <1>6, <1>7, <2>1, <3>1, <3>2
  <2>2. CASE j >= m
    <3>1. j + 1 \in 1..Len(x) /\ m < j + 1 /\ g[j] = h[j + 1] /\ y[j] = x[j + 1]
      BY <1>1, <1>4, <1>5, <1>7, <2>2
    <3>2. h[j + 1] \in K /\ x[j + 1] = rs[h[j + 1]]
      BY <1>4, <3>1, SelectedElement
    <3>3. h[m] < h[j + 1]
      BY <1>4, <1>8, <3>1
    <3>4. h[j + 1] # m
      BY <1>7, <1>9, <3>2, <3>3
    <3> QED
      BY <1>6, <3>1, <3>2, <3>4
  <2> QED
    BY <1>1, <1>7, <2>1, <2>2
<1>11. ASSUME NEW i \in 1..(Len(x) - 1), NEW j \in 1..(Len(x) - 1), i < j PROVE g[i] < g[j]
  <2>1. CASE j < m
    BY <1>1, <1>7, <1>8, <1>11, <2>1
  <2>2. CASE i < m /\ j >= m
    BY <1>1, <1>7, <1>8, <1>11, <2>2
  <2>3. CASE i >= m
    BY <1>1, <1>7, <1>8, <1>11, <2>3
  <2> QED
    BY <1>1, <1>7, <1>11, <2>1, <2>2, <2>3
<1>12. ASSUME NEW k \in L PROVE \E j \in 1..(Len(x) - 1) : g[j] = k
  <2>1. PICK j \in 1..Len(x) : h[j] = k
    BY <1>4, <1>6 DEF Selects
  <2>2. j # m
    BY <1>6, <1>9, <2>1
  <2>3. CASE j < m
    <3>1. j \in 1..(Len(x) - 1)
      BY <1>1, <1>4, <2>3
    <3>2. g[j] = k
      BY <2>1, <2>3, <3>1
    <3> QED
      BY <3>1, <3>2
  <2>4. CASE j > m
    <3>1. j - 1 \in 1..(Len(x) - 1) /\ ~(j - 1 < m) /\ (j - 1) + 1 = j
      BY <1>1, <1>4, <1>7, <2>4
    <3>2. g[j - 1] = k
      BY <2>1, <3>1
    <3> QED
      BY <3>1, <3>2
  <2> QED
    BY <1>1, <1>7, <2>2, <2>3, <2>4
<1>13. Selects(g, y, rs, L)
  <2>1. g \in [1..(Len(x) - 1) -> L]
    BY <1>10
  <2>2. Len(y) = Len(x) - 1
    BY <1>5
  <2> HIDE DEF g
  <2> QED
    BY <1>10, <1>11, <1>12, <2>1, <2>2 DEF Selects
<1>14. n + 1 < c => /\ order[n + 2] \in 1..Len(y)
                    /\ \A j \in 1..order[n + 2] : g[j] = j
  <2> SUFFICES ASSUME n + 1 < c
               PROVE  /\ order[n + 2] \in 1..Len(y)
                      /\ \A j \in 1..order[n + 2] : g[j] = j
    OBVIOUS
  <2>1. n + 1 \in 1..c /\ n + 2 \in 1..c /\ n + 1 < n + 2
    BY <1>3
  <2>2. order[n + 2] \in 1..Len(rs) /\ order[n + 2] < m
    BY <1>3, <2>1 DEF m
  <2>3. order[n + 2] \in 1..Len(y)
    BY <1>1, <1>4, <1>5, <1>7, <2>2
  <2>4. ASSUME NEW j \in 1..order[n + 2] PROVE g[j] = j
    <3>1. j \in 1..(Len(x) - 1) /\ j < m /\ j \in 1..m
      BY <1>1, <1>4, <1>7, <2>2
    <3>2. g[j] = h[j]
      BY <3>1
    <3> QED
      BY <1>4, <3>1, <3>2
  <2> QED
    BY <2>3, <2>4
<1>15. (n + 1) + 1 = n + 2 /\ Len(y) \in Nat
  BY <1>5, LenProperties
<1>16. Remaining(y, n + 1, rs, strays)
  <2> HIDE DEF g
  <2> QED
    BY <1>13, <1>14, <1>15 DEF Remaining, order, c, N, L
<1> QED
  BY <1>4, <1>5, <1>16 DEF m, y, order

\* What is left after the strays are removed: the others, in their order.
LEMMA PrunedSelects ==
    ASSUME NEW T, NEW rs \in Seq(T), NEW strays \in SUBSET (1..Len(rs))
    PROVE  /\ Pruned(rs, strays) \in Seq(T)
           /\ \E h : Selects(h, Pruned(rs, strays), rs, (1..Len(rs)) \ strays)
<1> DEFINE order == Descending(strays)
           c == Cardinality(strays)
           V == Seq(T)
           Cut(x, m) == IF m \in 1..Len(x) THEN RemoveAt(x, m) ELSE x
           F == [i \in 1..c |-> [x \in V |-> Cut(x, order[i])]]
           Def(g) == [n \in 0..c |-> IF n = 0 THEN rs ELSE RemoveAt(g[n - 1], order[n])]
           after == CHOOSE g : g = Def(g)
<1>1. Len(rs) \in Nat
  BY LenProperties
<1>2. strays \in SUBSET Nat /\ IsFiniteSet(strays)
  <2> DEFINE N == 1..Len(rs)
  <2>1. IsFiniteSet(N) /\ N \subseteq Nat
    BY <1>1, FS_Interval
  <2>2. strays \in SUBSET N
    OBVIOUS
  <2> HIDE DEF N
  <2>3. IsFiniteSet(strays)
    BY <2>1, <2>2, FS_Subset
  <2> QED
    BY <2>1, <2>2, <2>3
<1>3. /\ c \in Nat /\ order \in [1..c -> strays]
      /\ \A j, k \in 1..c : j < k => order[j] > order[k]
      /\ \A x \in strays : \E k \in 1..c : order[k] = x
  BY <1>2, DescendingProperties
<1>4. Remaining(rs, 0, rs, strays)
  <2> DEFINE h == [j \in 1..Len(rs) |-> j]
             K == (1..Len(rs)) \ {order[i] : i \in 1..0}
  <2>1. K = 1..Len(rs)
    OBVIOUS
  <2>2. Selects(h, rs, rs, K)
    BY <1>1, <2>1 DEF Selects
  <2>3. 0 < c => order[0 + 1] \in 1..Len(rs) /\ \A j \in 1..order[0 + 1] : h[j] = j
    <3> SUFFICES ASSUME 0 < c PROVE order[1] \in 1..Len(rs) /\ \A j \in 1..order[1] : h[j] = j
      OBVIOUS
    <3>0. 1 \in 1..c
      BY <1>3
    <3>1. order[1] \in 1..Len(rs)
      BY <1>3, <3>0
    <3>2. \A j \in 1..order[1] : j \in 1..Len(rs)
      BY <1>1, <3>1
    <3> QED
      BY <3>1, <3>2
  <2> HIDE DEF h
  <2> QED
    BY <2>2, <2>3 DEF Remaining
<1>5. \A m \in Nat, x \in V : Cut(x, m) \in V
  BY RemoveAtProperties
<1>6. F \in [1..c -> [V -> V]]
  <2> HIDE DEF Cut
  <2>1. \A i \in 1..c : \A x \in V : Cut(x, order[i]) \in V
    BY <1>2, <1>3, <1>5
  <2> QED
    BY <2>1
<1> HIDE DEF order, c
<1>7. c \in Nat /\ rs \in V
  BY <1>3
<1>8. PICK f \in [0..c -> V] : f[0] = rs /\ \A i \in 1..c : f[i] = F[i][f[i - 1]]
  <2> HIDE DEF F, V
  <2> QED
    BY <1>6, <1>7, StepwiseFunction, SMTT(60)
\* Along f every removal is of an element that is there.
<1>9. \A n \in 0..c : Remaining(f[n], n, rs, strays)
  <2> DEFINE S == {n \in Nat : n <= c => Remaining(f[n], n, rs, strays)}
  <2>1. 0 \in S
    BY <1>4, <1>8
  <2>2. ASSUME NEW n \in Nat, n \in S PROVE n + 1 \in S
    <3> SUFFICES ASSUME n + 1 <= c PROVE Remaining(f[n + 1], n + 1, rs, strays)
      OBVIOUS
    <3>1. n < c /\ n \in 0..c /\ n + 1 \in 1..c /\ (n + 1) - 1 = n
      BY <1>3
    <3>2. f[n] \in V /\ Remaining(f[n], n, rs, strays)
      BY <1>8, <2>2, <3>1
    <3>3. /\ order[n + 1] \in 1..Len(f[n])
          /\ Remaining(RemoveAt(f[n], order[n + 1]), n + 1, rs, strays)
      BY <3>1, <3>2, RemainingStep DEF order, c
    <3>4. f[n + 1] = F[n + 1][f[n]]
      BY <1>8, <3>1
    <3>5. F[n + 1][f[n]] = Cut(f[n], order[n + 1])
      <4> HIDE DEF Cut
      <4> QED
        BY <3>1, <3>2
    <3>6. f[n + 1] = RemoveAt(f[n], order[n + 1])
      BY <3>3, <3>4, <3>5
    <3> QED
      BY <3>3, <3>6
  <2> HIDE DEF S
  <2>3. Nat \subseteq S
    BY <2>1, <2>2, NatSetInduction
  <2> QED
    BY <1>3, <2>3 DEF S
<1>10. f = Def(f)
  <2>1. ASSUME NEW n \in 0..c, n # 0 PROVE f[n] = RemoveAt(f[n - 1], order[n])
    <3>1. n \in 1..c /\ n - 1 \in 0..c /\ n - 1 \in Nat /\ n - 1 < c /\ (n - 1) + 1 = n
      BY <1>3, <2>1
    <3>2. f[n - 1] \in V /\ Remaining(f[n - 1], n - 1, rs, strays)
      BY <1>8, <1>9, <3>1
    <3>3. order[n] \in 1..Len(f[n - 1])
      <4>1. order[(n - 1) + 1] \in 1..Len(f[n - 1])
        BY <3>1, <3>2, RemainingStep DEF order, c
      <4> QED
        BY <3>1, <4>1
    <3>4. f[n] = F[n][f[n - 1]]
      BY <1>8, <3>1
    <3>5. F[n][f[n - 1]] = Cut(f[n - 1], order[n])
      <4> HIDE DEF Cut
      <4> QED
        BY <3>1, <3>2
    <3> QED
      BY <3>3, <3>4, <3>5
  <2>2. \A n \in 0..c : f[n] = IF n = 0 THEN rs ELSE RemoveAt(f[n - 1], order[n])
    BY <1>8, <2>1
  <2>3. DOMAIN f = 0..c
    BY <1>8
  <2> QED
    BY <2>2, <2>3
<1>11. after = Def(after)
  <2> HIDE DEF Def
  <2> QED
    BY <1>10
<1> HIDE DEF after
<1>12. after[0] = rs /\ \A n \in 1..c : after[n] = RemoveAt(after[n - 1], order[n])
  <2>1. \A n \in 0..c : after[n] = IF n = 0 THEN rs ELSE RemoveAt(after[n - 1], order[n])
    BY <1>11
  <2>2. 0 \in 0..c /\ \A n \in 1..c : n \in 0..c /\ n # 0
    BY <1>3
  <2> QED
    BY <2>1, <2>2
<1>13. after[c] \in V /\ Remaining(after[c], c, rs, strays)
  <2> DEFINE S == {n \in Nat : n <= c => after[n] \in V /\ Remaining(after[n], n, rs, strays)}
  <2>1. 0 \in S
    BY <1>4, <1>12
  <2>2. ASSUME NEW n \in Nat, n \in S PROVE n + 1 \in S
    <3> SUFFICES ASSUME n + 1 <= c PROVE after[n + 1] \in V /\ Remaining(after[n + 1], n + 1, rs, strays)
      OBVIOUS
    <3>1. n < c /\ n <= c /\ n + 1 \in 1..c /\ (n + 1) - 1 = n
      BY <1>3
    <3>2. after[n] \in V /\ Remaining(after[n], n, rs, strays)
      BY <2>2, <3>1
    <3>3. /\ RemoveAt(after[n], order[n + 1]) \in V
          /\ Remaining(RemoveAt(after[n], order[n + 1]), n + 1, rs, strays)
      BY <3>1, <3>2, RemainingStep DEF order, c
    <3>4. after[n + 1] = RemoveAt(after[n], order[n + 1])
      BY <1>12, <3>1
    <3> QED
      BY <3>3, <3>4
  <2> HIDE DEF S
  <2>3. Nat \subseteq S
    BY <2>1, <2>2, NatSetInduction
  <2> QED
    BY <1>3, <2>3 DEF S
<1>14. Pruned(rs, strays) = after[c]
  BY DEF Pruned, after, order, c
<1>15. {order[i] : i \in 1..c} = strays
  BY <1>3
<1>16. \E h : Selects(h, after[c], rs, (1..Len(rs)) \ {order[i] : i \in 1..c})
  BY <1>13 DEF Remaining, order
<1> QED
  BY <1>13, <1>14, <1>15, <1>16

-----------------------------------------------------------------------------
(* The two halves of a session: the tracks, and the sends between them. *)

IdsOf(ts) == {ts[i].id : i \in DOMAIN ts}

\* No two tracks with the same id.
Listed(ts) == ts \in Seq(TrackRecords) /\ \A i, k \in DOMAIN ts : ts[i].id = ts[k].id => i = k

\* The sends that lead from a track of I.
From(I) == {x \in SendRecords : x.src \in I}

Routed(I, rs) == rs \in [Ids -> Seq(From(I))] /\ \A d \in Ids \ I : rs[d] = <<>>

\* The elements of a sequence, one by one.
LEMMA SeqDomain ==
    ASSUME NEW T, NEW s \in Seq(T)
    PROVE  /\ Len(s) \in Nat /\ DOMAIN s = 1..Len(s)
           /\ \A k \in DOMAIN s : s[k] \in T
           /\ \A k \in 1..Len(s) : s[k] \in T
  BY LenProperties, ElementOfSeq

\* A sequence over T whose elements are in U is one over U.
LEMMA SeqOfWhatItHolds ==
    ASSUME NEW T, NEW U, NEW s \in Seq(T), \A k \in DOMAIN s : s[k] \in U
    PROVE  s \in Seq(U)
<1>1. Len(s) \in Nat /\ DOMAIN s = 1..Len(s) /\ s \in [1..Len(s) -> T]
  BY LenProperties
<1>2. s \in [1..Len(s) -> U]
  BY <1>1
<1> QED
  BY <1>1, <1>2, FcnIsSeq

\* A session is a list of tracks and the receives they route.
LEMMA SessionParts ==
    ASSUME NEW ts, NEW rs
    PROVE  Session(ts, rs) <=> Listed(ts) /\ Routed(IdsOf(ts), rs)
<1> DEFINE I == IdsOf(ts)
<1>1. ASSUME Session(ts, rs) PROVE Listed(ts) /\ Routed(I, rs)
  <2>1. Listed(ts) /\ rs \in [Ids -> Seq(SendRecords)]
    BY <1>1 DEF Session, Listed
  <2>2. \A d \in Ids : \A k \in DOMAIN rs[d] : d \in I /\ rs[d][k].src \in I
    BY <1>1 DEF Session, IdsOf
  <2> HIDE DEF I
  <2>3. ASSUME NEW d \in Ids PROVE rs[d] \in Seq(From(I))
    <3>1. rs[d] \in Seq(SendRecords)
      BY <2>1
    <3>2. \A k \in DOMAIN rs[d] : rs[d][k] \in SendRecords
      BY <3>1, SeqDomain
    <3>3. \A k \in DOMAIN rs[d] : rs[d][k] \in From(I)
      BY <2>2, <3>2 DEF From
    <3> QED
      BY <3>1, <3>3, SeqOfWhatItHolds
  <2>4. ASSUME NEW d \in Ids \ I PROVE rs[d] = <<>>
    <3>1. rs[d] \in Seq(SendRecords)
      BY <2>1
    <3>2. Len(rs[d]) \in Nat /\ DOMAIN rs[d] = 1..Len(rs[d])
      BY <3>1, SeqDomain
    <3>3. DOMAIN rs[d] = {}
      BY <2>2, <2>4
    <3>4. Len(rs[d]) = 0
      <4>1. \A n \in Nat : n # 0 => 1 \in 1..n
        OBVIOUS
      <4> QED
        BY <3>2, <3>3, <4>1
    <3> QED
      BY <3>1, <3>4, EmptySeq
  <2>5. rs \in [Ids -> Seq(From(I))]
    BY <2>1, <2>3
  <2> QED
    BY <2>1, <2>4, <2>5 DEF Routed
<1>2. ASSUME Listed(ts), Routed(I, rs) PROVE Session(ts, rs)
  <2> HIDE DEF I
  <2>1. rs \in [Ids -> Seq(From(I))] /\ \A d \in Ids \ I : rs[d] = <<>>
    BY <1>2 DEF Routed
  <2>2. ASSUME NEW d \in Ids PROVE rs[d] \in Seq(SendRecords)
    <3>1. rs[d] \in Seq(From(I))
      BY <2>1
    <3>2. \A k \in DOMAIN rs[d] : rs[d][k] \in From(I)
      BY <3>1, SeqDomain
    <3>3. \A k \in DOMAIN rs[d] : rs[d][k] \in SendRecords
      BY <3>2 DEF From
    <3> QED
      BY <3>1, <3>3, SeqOfWhatItHolds
  <2>3. ASSUME NEW d \in Ids, NEW k \in DOMAIN rs[d] PROVE d \in I /\ rs[d][k].src \in I
    <3>1. rs[d] \in Seq(From(I)) /\ rs[d] # <<>>
      BY <2>1, <2>3
    <3>2. rs[d][k] \in From(I)
      BY <3>1, SeqDomain
    <3> QED
      BY <2>1, <3>1, <3>2 DEF From
  <2>4. rs \in [Ids -> Seq(SendRecords)]
    BY <2>1, <2>2
  <2> QED
    BY <1>2, <2>3, <2>4 DEF Session, Listed, I, IdsOf
<1> QED
  BY <1>1, <1>2

\* The fields of the tracks of a list.
LEMMA TrackFields ==
    ASSUME NEW ts, Listed(ts)
    PROVE  /\ Len(ts) \in Nat /\ DOMAIN ts = 1..Len(ts)
           /\ \A i \in 1..Len(ts) : /\ ts[i] \in TrackRecords
                                    /\ ts[i].id \in Ids /\ ts[i].id \in IdsOf(ts)
                                    /\ ts[i].name \in Names /\ ts[i].nchan \in Nchans
           /\ IdsOf(ts) \subseteq Ids
<1>1. Len(ts) \in Nat /\ DOMAIN ts = 1..Len(ts) /\ \A i \in 1..Len(ts) : ts[i] \in TrackRecords
  BY SeqDomain DEF Listed
<1>2. \A t \in TrackRecords : t.id \in Ids /\ t.name \in Names /\ t.nchan \in Nchans
  BY DEF TrackRecords
<1> QED
  BY <1>1, <1>2 DEF IdsOf

\* Receives among some tracks are receives among more of them.
LEMMA RoutedMore ==
    ASSUME NEW I, NEW J, I \subseteq J, NEW rs, Routed(I, rs)
    PROVE  Routed(J, rs)
<1>1. rs \in [Ids -> Seq(From(I))] /\ \A d \in Ids \ I : rs[d] = <<>>
  BY DEF Routed
<1>2. ASSUME NEW d \in Ids PROVE rs[d] \in Seq(From(J))
  <2>1. rs[d] \in Seq(From(I))
    BY <1>1
  <2>2. \A k \in DOMAIN rs[d] : rs[d][k] \in From(I)
    BY <2>1, SeqDomain
  <2>3. \A k \in DOMAIN rs[d] : rs[d][k] \in From(J)
    BY <2>2 DEF From
  <2> QED
    BY <2>1, <2>3, SeqOfWhatItHolds
<1> QED
  BY <1>1, <1>2 DEF Routed

\* Tracks with other names and widths are still the same tracks.
LEMMA Relabelled ==
    ASSUME NEW ts, Listed(ts), NEW us \in Seq(TrackRecords), Len(us) = Len(ts),
           \A i \in 1..Len(ts) : us[i].id = ts[i].id
    PROVE  Listed(us) /\ IdsOf(us) = IdsOf(ts)
<1>1. DOMAIN ts = 1..Len(ts) /\ DOMAIN us = 1..Len(ts)
  BY TrackFields, SeqDomain
<1> QED
  BY <1>1 DEF Listed, IdsOf

\* The receives of one track replaced.
LEMMA Rerouted ==
    ASSUME NEW I, NEW rs, Routed(I, rs), NEW d \in I, NEW q \in Seq(From(I))
    PROVE  Routed(I, [rs EXCEPT ![d] = q])
  BY DEF Routed

-----------------------------------------------------------------------------
(* The types of what the calls make. *)

\* clampChannels returns a width REAPER has, and no less than was asked for.
LEMMA ClampedType ==
    ASSUME NEW n \in Nat
    PROVE  Clamped(n) \in Nchans /\ (n <= 128 => Clamped(n) >= n)
  BY DEF Clamped, Nchans

\* A send between tracks that are there.
LEMMA SendType ==
    ASSUME NEW I, I \subseteq Ids, NEW src \in I, NEW a \in Nat \cup {NoAudio}, NEW b \in Nat
    PROVE  Send(src, a, b) \in From(I)
  BY DEF Send, From, SendRecords

\* A send encodeSend has written.
LEMMA WireType ==
    ASSUME NEW I, I \subseteq Ids, NEW src \in I, NEW width \in Nat, NEW chan \in Nat, NEW mono \in BOOLEAN
    PROVE  Wire(src, width, chan, mono) \in From(I)
<1>1. SrcChan(0, width) \in Nat /\ DstChan(chan, mono) \in Nat
  BY DEF SrcChan, DstChan, WidthCode
<1> QED
  BY <1>1, SendType DEF Wire

\* The sends REAPER makes are among those asked for.
LEMMA CreatedType ==
    ASSUME NEW T, NEW sends \in Seq(T), NEW bus
    PROVE  Created(bus, sends) \in Seq(T)
<1> DEFINE K == {k \in DOMAIN sends : sends[k].src # bus}
<1>1. K \in SUBSET (1..Len(sends))
  BY SeqDomain
<1>2. Created(bus, sends) = Picked(sends, K)
  BY DEF Created, NotFrom
<1> HIDE DEF K
<1> QED
  BY <1>1, <1>2, PickedSelects

\* The identities new tracks may get.
LEMMA UnusedIds ==
    ASSUME Session(tracks, receives)
    PROVE  /\ Used = IdsOf(tracks) /\ Used \subseteq Ids
           /\ Unused \in SUBSET Nat /\ IsFiniteSet(Unused)
           /\ \A x \in Unused : x \in Ids /\ x \notin Used
<1>1. Used = IdsOf(tracks) /\ Used \subseteq Ids
  BY SessionParts, TrackFields DEF Used, IdsOf
<1>2. IsFiniteSet(Ids) /\ Ids \in SUBSET Nat
  BY BoundsAssumption, FS_Interval DEF Ids
<1>3. Unused \in SUBSET Ids
  BY DEF Unused
<1>4. IsFiniteSet(Unused)
  BY <1>2, <1>3, FS_Subset
<1> QED
  BY <1>1, <1>2, <1>3, <1>4 DEF Unused

\* The ids the next n tracks get.
LEMMA FreshIds ==
    ASSUME Session(tracks, receives), NEW n \in Nat, CanInsert(n)
    PROVE  /\ \A k \in 1..n : Ascending(Unused)[k] \in Ids /\ Ascending(Unused)[k] \notin Used
           /\ \A j, k \in 1..n : Ascending(Unused)[j] = Ascending(Unused)[k] => j = k
<1> DEFINE c == Cardinality(Unused)
           ids == Ascending(Unused)
<1>1. /\ c \in Nat /\ ids \in [1..c -> Unused]
      /\ \A j, k \in 1..c : j < k => ids[j] < ids[k]
  BY UnusedIds, AscendingProperties
<1>2. n <= c
  BY DEF CanInsert
<1> HIDE DEF c, ids
<1>3. 1..n \subseteq 1..c
  BY <1>1, <1>2
<1>4. \A k \in 1..n : ids[k] \in Unused
  BY <1>1, <1>3
<1>5. \A k \in 1..n : ids[k] \in Ids /\ ids[k] \notin Used /\ ids[k] \in Nat
  BY <1>4, UnusedIds
<1>6. \A j, k \in 1..n : ids[j] = ids[k] => j = k
  <2>1. \A j, k \in 1..n : j < k => ids[j] < ids[k]
    BY <1>1, <1>3
  <2> QED
    BY <1>5, <2>1
<1> QED
  BY <1>5, <1>6 DEF ids

NewTracks == [name : Names, nchan : Nchans]

\* What the list is after tracks were added at its end.
LEMMA InsertedTracks ==
    ASSUME Session(tracks, receives), NEW new \in Seq(NewTracks), CanInsert(Len(new))
    PROVE  /\ Listed(Inserted(new))
           /\ Len(Inserted(new)) = Len(tracks) + Len(new)
           /\ \A i \in 1..Len(tracks) : Inserted(new)[i] = tracks[i]
           /\ \A k \in 1..Len(new) :
                Inserted(new)[Len(tracks) + k] =
                  [id |-> Ascending(Unused)[k], name |-> new[k].name, nchan |-> new[k].nchan]
           /\ IdsOf(Inserted(new)) = IdsOf(tracks) \cup {Ascending(Unused)[k] : k \in 1..Len(new)}
<1> DEFINE ids == Ascending(Unused)
           m == Len(tracks)
           n == Len(new)
           t == [k \in 1..n |-> [id |-> ids[k], name |-> new[k].name, nchan |-> new[k].nchan]]
           added == tracks \o t
<1>1. Listed(tracks) /\ Routed(IdsOf(tracks), receives)
  BY SessionParts
<1>2. /\ m \in Nat /\ DOMAIN tracks = 1..m
      /\ n \in Nat /\ DOMAIN new = 1..n /\ \A k \in 1..n : new[k] \in NewTracks
  BY <1>1, TrackFields, SeqDomain
<1>3. /\ \A k \in 1..n : ids[k] \in Ids /\ ids[k] \notin IdsOf(tracks)
      /\ \A j, k \in 1..n : ids[j] = ids[k] => j = k
  BY <1>2, FreshIds, UnusedIds
<1> HIDE DEF ids
<1>4. t \in [1..n -> TrackRecords]
  BY <1>2, <1>3 DEF NewTracks, TrackRecords
<1>5. Inserted(new) = added
  BY <1>2 DEF Inserted, ids
<1>6. /\ t \in Seq(TrackRecords) /\ Len(t) = n /\ \A k \in 1..n : t[k].id = ids[k]
      /\ \A k \in 1..n : t[k] = [id |-> ids[k], name |-> new[k].name, nchan |-> new[k].nchan]
  <2>1. \A k \in 1..n : t[k] = [id |-> ids[k], name |-> new[k].name, nchan |-> new[k].nchan]
    OBVIOUS
  <2>2. t \in Seq(TrackRecords) /\ Len(t) = n
    <3> HIDE DEF t, n
    <3> QED
      BY <1>2, <1>4, FcnIsSeq
  <2>3. \A k \in 1..n : t[k].id = ids[k]
    BY <2>1
  <2> QED
    BY <2>1, <2>2, <2>3
<1> HIDE DEF t, m, n
<1>7. tracks \in Seq(TrackRecords) /\ Len(tracks) = m
  BY <1>1 DEF Listed, m
<1>8. /\ added \in Seq(TrackRecords) /\ Len(added) = m + n
      /\ \A i \in 1..m : added[i] = tracks[i]
      /\ \A k \in 1..n : added[m + k] = t[k]
  <2>1. /\ added \in Seq(TrackRecords) /\ Len(added) = m + n
        /\ \A i \in 1..(m + n) : added[i] = IF i <= m THEN tracks[i] ELSE t[i - m]
    <3>1. t \in Seq(TrackRecords) /\ Len(t) = n
      BY <1>6
    <3>2. /\ added \in Seq(TrackRecords) /\ Len(added) = Len(tracks) + Len(t)
          /\ \A i \in 1..(Len(tracks) + Len(t)) :
               added[i] = IF i <= Len(tracks) THEN tracks[i] ELSE t[i - Len(tracks)]
      BY <1>7, <3>1, ConcatProperties
    <3> HIDE DEF added
    <3> QED
      BY <1>7, <3>1, <3>2
  <2> HIDE DEF added
  <2>2. \A i \in 1..m : added[i] = tracks[i]
    BY <1>2, <2>1
  <2>3. ASSUME NEW k \in 1..n PROVE added[m + k] = t[k]
    <3>1. m + k \in 1..(m + n) /\ ~(m + k <= m) /\ (m + k) - m = k
      BY <1>2
    <3> QED
      BY <2>1, <3>1
  <2> QED
    BY <2>1, <2>2, <2>3
<1>9. DOMAIN added = 1..(m + n)
  BY <1>8, SeqDomain
<1> HIDE DEF added
<1>10. \A i \in 1..(m + n) : i \in 1..m \/ \E k \in 1..n : i = m + k
  <2> SUFFICES ASSUME NEW i \in 1..(m + n), i \notin 1..m PROVE \E k \in 1..n : i = m + k
    OBVIOUS
  <2>1. i - m \in 1..n /\ i = m + (i - m)
    BY <1>2
  <2> QED
    BY <2>1
<1>11. \A k \in 1..n : added[m + k].id = ids[k]
  BY <1>6, <1>8
<1>12. \A i, k \in 1..m : tracks[i].id = tracks[k].id => i = k
  BY <1>1, <1>2 DEF Listed
<1>13. \A i \in 1..m : added[i].id = tracks[i].id /\ tracks[i].id \in IdsOf(tracks)
  BY <1>2, <1>8 DEF IdsOf
<1>14. \A i, k \in 1..(m + n) : added[i].id = added[k].id => i = k
  <2> SUFFICES ASSUME NEW i \in 1..(m + n), NEW k \in 1..(m + n), added[i].id = added[k].id PROVE i = k
    OBVIOUS
  <2>1. CASE i \in 1..m /\ k \in 1..m
    BY <1>12, <1>13, <2>1
  <2>2. CASE i \in 1..m /\ k \notin 1..m
    BY <1>3, <1>10, <1>11, <1>13, <2>2
  <2>3. CASE i \notin 1..m /\ k \in 1..m
    BY <1>3, <1>10, <1>11, <1>13, <2>3
  <2>4. CASE i \notin 1..m /\ k \notin 1..m
    BY <1>3, <1>10, <1>11, <2>4
  <2> QED
    BY <2>1, <2>2, <2>3, <2>4
<1>15. IdsOf(added) = IdsOf(tracks) \cup {ids[k] : k \in 1..n}
  <2>1. IdsOf(added) = {added[i].id : i \in 1..(m + n)}
    BY <1>9 DEF IdsOf
  <2>2. IdsOf(tracks) = {tracks[i].id : i \in 1..m}
    BY <1>2 DEF IdsOf
  <2>3. 1..m \subseteq 1..(m + n) /\ \A k \in 1..n : m + k \in 1..(m + n)
    BY <1>2
  <2> QED
    BY <1>10, <1>11, <1>13, <2>1, <2>2, <2>3
<1>16. Listed(added)
  BY <1>8, <1>9, <1>14 DEF Listed
<1> QED
  BY <1>5, <1>6, <1>8, <1>15, <1>16 DEF m, n, ids

\* What it is after one was inserted.
LEMMA InsertedAtTracks ==
    ASSUME Session(tracks, receives), CanInsert(1), NEW i \in 1..(Len(tracks) + 1), NEW t \in NewTracks
    PROVE  Listed(InsertedAt(i, t)) /\ IdsOf(tracks) \subseteq IdsOf(InsertedAt(i, t))
<1> DEFINE e  == [id |-> Min(Unused), name |-> t.name, nchan |-> t.nchan]
           us == InsertAt(tracks, i, e)
           m  == Len(tracks)
<1>1. Listed(tracks)
  BY SessionParts
<1>2. m \in Nat /\ DOMAIN tracks = 1..m /\ tracks \in Seq(TrackRecords)
  BY <1>1, TrackFields DEF Listed
<1>3. Min(Unused) \in Unused
  <2>1. Unused # {}
    <3>1. Cardinality({}) = 0
      BY FS_EmptySet
    <3> QED
      BY <3>1 DEF CanInsert
  <2> QED
    BY <2>1, UnusedIds, MinProperties
<1>4. Min(Unused) \in Ids /\ Min(Unused) \notin IdsOf(tracks)
  BY <1>3, UnusedIds
<1>5. e \in TrackRecords /\ e.id = Min(Unused)
  BY <1>4 DEF NewTracks, TrackRecords
<1> HIDE DEF e
<1>6. /\ us \in Seq(TrackRecords) /\ Len(us) = m + 1
      /\ \A j \in 1..(m + 1) : /\ j < i => us[j] = tracks[j]
                               /\ j = i => us[j] = e
                               /\ j > i => us[j] = tracks[j - 1]
  <2>1. tracks \in Seq(TrackRecords) /\ e \in TrackRecords
    BY <1>2, <1>5
  <2> QED
    BY <2>1, InsertAtProperties
<1>7. DOMAIN us = 1..(m + 1)
  BY <1>6, SeqDomain
<1> HIDE DEF us, m
<1>8. i \in 1..(m + 1)
  BY DEF m
<1>9. \A j \in 1..m : tracks[j].id \in IdsOf(tracks)
  BY <1>2 DEF IdsOf
<1>10. \A j, k \in 1..m : tracks[j].id = tracks[k].id => j = k
  BY <1>1, <1>2 DEF Listed
<1>11. ASSUME NEW j \in 1..(m + 1), j # i
       PROVE  \E p \in 1..m : us[j] = tracks[p] /\ p = IF j < i THEN j ELSE j - 1
  <2>1. CASE j < i
    BY <1>2, <1>6, <1>8, <2>1
  <2>2. CASE j > i
    <3>1. j - 1 \in 1..m /\ ~(j < i) /\ us[j] = tracks[j - 1]
      BY <1>2, <1>6, <1>8, <2>2
    <3> QED
      BY <3>1
  <2> QED
    BY <1>2, <1>8, <1>11, <2>1, <2>2
<1>12. \A j, k \in 1..(m + 1) : us[j].id = us[k].id => j = k
  <2> SUFFICES ASSUME NEW j \in 1..(m + 1), NEW k \in 1..(m + 1), us[j].id = us[k].id, j # k
               PROVE  FALSE
    OBVIOUS
  <2>1. CASE j # i /\ k # i
    <3>1. PICK p \in 1..m : us[j] = tracks[p] /\ p = IF j < i THEN j ELSE j - 1
      BY <1>11, <2>1
    <3>2. PICK q \in 1..m : us[k] = tracks[q] /\ q = IF k < i THEN k ELSE k - 1
      BY <1>11, <2>1
    <3>3. p = q
      BY <1>10, <3>1, <3>2
    <3> QED
      BY <1>2, <1>8, <2>1, <3>1, <3>2, <3>3
  <2>2. ASSUME NEW x \in 1..(m + 1), x # i PROVE us[x].id # us[i].id
    <3>1. PICK p \in 1..m : us[x] = tracks[p]
      BY <1>11, <2>2
    <3>2. us[i] = e
      BY <1>2, <1>6, <1>8
    <3> QED
      BY <1>4, <1>5, <1>9, <3>1, <3>2
  <2> QED
    BY <2>1, <2>2
<1>13. Listed(us)
  BY <1>6, <1>7, <1>12 DEF Listed
<1>14. IdsOf(tracks) \subseteq IdsOf(us)
  <2> SUFFICES ASSUME NEW p \in 1..m PROVE \E j \in 1..(m + 1) : us[j].id = tracks[p].id
    BY <1>2, <1>7 DEF IdsOf
  <2>1. CASE p < i
    <3>1. p \in 1..(m + 1) /\ us[p] = tracks[p]
      BY <1>2, <1>6, <1>8, <2>1
    <3> QED
      BY <3>1
  <2>2. CASE p >= i
    <3>1. p + 1 \in 1..(m + 1) /\ p + 1 > i /\ (p + 1) - 1 = p
      BY <1>2, <1>8, <2>2
    <3>2. us[p + 1] = tracks[p]
      BY <1>6, <3>1
    <3> QED
      BY <3>1, <3>2
  <2> QED
    BY <1>2, <1>8, <2>1, <2>2
<1>15. InsertedAt(i, t) = us
  BY DEF InsertedAt, us, e
<1> QED
  BY <1>13, <1>14, <1>15

\* What it is after one was removed.
LEMMA RemovedTracks ==
    ASSUME NEW ts, Listed(ts), NEW i \in 1..Len(ts)
    PROVE  Listed(RemoveAt(ts, i)) /\ IdsOf(RemoveAt(ts, i)) = IdsOf(ts) \ {ts[i].id}
<1> DEFINE us == RemoveAt(ts, i)
           m  == Len(ts)
<1>1. m \in Nat /\ DOMAIN ts = 1..m /\ ts \in Seq(TrackRecords)
  BY TrackFields DEF Listed
<1>2. /\ us \in Seq(TrackRecords) /\ Len(us) = m - 1
      /\ \A j \in 1..(m - 1) : /\ j < i => us[j] = ts[j]
                               /\ j >= i => us[j] = ts[j + 1]
  BY <1>1, RemoveAtProperties
<1>3. DOMAIN us = 1..(m - 1)
  BY <1>2, SeqDomain
<1> HIDE DEF us, m
<1>4. i \in 1..m
  BY DEF m
<1>5. \A j, k \in 1..m : ts[j].id = ts[k].id => j = k
  BY <1>1 DEF Listed
<1>6. ASSUME NEW j \in 1..(m - 1)
      PROVE  \E p \in 1..m : us[j] = ts[p] /\ p # i /\ p = IF j < i THEN j ELSE j + 1
  <2>1. CASE j < i
    BY <1>1, <1>2, <1>4, <2>1
  <2>2. CASE j >= i
    <3>1. j + 1 \in 1..m /\ ~(j < i) /\ j + 1 # i /\ us[j] = ts[j + 1]
      BY <1>1, <1>2, <1>4, <2>2
    <3> QED
      BY <3>1
  <2> QED
    BY <1>1, <1>4, <2>1, <2>2
<1>7. \A j, k \in 1..(m - 1) : us[j].id = us[k].id => j = k
  <2> SUFFICES ASSUME NEW j \in 1..(m - 1), NEW k \in 1..(m - 1), us[j].id = us[k].id
               PROVE  j = k
    OBVIOUS
  <2>1. PICK p \in 1..m : us[j] = ts[p] /\ p # i /\ p = IF j < i THEN j ELSE j + 1
    BY <1>6
  <2>2. PICK q \in 1..m : us[k] = ts[q] /\ q # i /\ q = IF k < i THEN k ELSE k + 1
    BY <1>6
  <2>3. p = q
    BY <1>5, <2>1, <2>2
  <2> QED
    BY <1>1, <1>4, <2>1, <2>2, <2>3
<1>8. IdsOf(us) \subseteq IdsOf(ts) \ {ts[i].id}
  <2> SUFFICES ASSUME NEW j \in 1..(m - 1)
               PROVE  us[j].id \in {ts[p].id : p \in 1..m} /\ us[j].id # ts[i].id
    BY <1>1, <1>3 DEF IdsOf
  <2>1. PICK p \in 1..m : us[j] = ts[p] /\ p # i
    BY <1>6
  <2> QED
    BY <1>4, <1>5, <2>1
<1>9. IdsOf(ts) \ {ts[i].id} \subseteq IdsOf(us)
  <2> SUFFICES ASSUME NEW p \in 1..m, p # i PROVE \E j \in 1..(m - 1) : us[j].id = ts[p].id
    BY <1>1, <1>3 DEF IdsOf
  <2>1. CASE p < i
    <3>1. p \in 1..(m - 1) /\ us[p] = ts[p]
      BY <1>1, <1>2, <1>4, <2>1
    <3> QED
      BY <3>1
  <2>2. CASE p > i
    <3>1. p - 1 \in 1..(m - 1) /\ p - 1 >= i /\ (p - 1) + 1 = p
      BY <1>1, <1>4, <2>2
    <3>2. us[p - 1] = ts[p]
      BY <1>2, <3>1
    <3> QED
      BY <3>1, <3>2
  <2> QED
    BY <1>1, <1>4, <2>1, <2>2
<1>10. Listed(us)
  BY <1>2, <1>3, <1>7 DEF Listed
<1> QED
  BY <1>8, <1>9, <1>10 DEF us

-----------------------------------------------------------------------------
(* Every call keeps the session's types: tracks and sends, by a tool or by hand. *)

Typed == Listed(tracks) /\ Routed(IdsOf(tracks), receives)

\* What Typed says of tracks and receives.
LEMMA TypedTracks ==
    ASSUME Typed
    PROVE  /\ Session(tracks, receives)
           /\ Len(tracks) \in Nat /\ DOMAIN tracks = 1..Len(tracks)
           /\ tracks \in [1..Len(tracks) -> TrackRecords]
           /\ IdsOf(tracks) \subseteq Ids
           /\ \A i \in 1..Len(tracks) : IdAt(i) \in IdsOf(tracks) /\ IdAt(i) = tracks[i].id
           /\ \A d \in Ids : receives[d] \in Seq(From(IdsOf(tracks)))
<1>1. /\ Session(tracks, receives)
      /\ Len(tracks) \in Nat /\ DOMAIN tracks = 1..Len(tracks)
      /\ IdsOf(tracks) \subseteq Ids
  BY SessionParts, TrackFields DEF Typed
<1>2. tracks \in [1..Len(tracks) -> TrackRecords]
  BY LenProperties DEF Typed, Listed
<1>3. \A i \in 1..Len(tracks) : IdAt(i) \in IdsOf(tracks) /\ IdAt(i) = tracks[i].id
  BY <1>1 DEF IdAt, IdsOf
<1>4. \A d \in Ids : receives[d] \in Seq(From(IdsOf(tracks)))
  BY DEF Typed, Routed
<1> QED
  BY <1>1, <1>2, <1>3, <1>4

\* The same tracks in the same order, with other names or widths.
LEMMA Remade ==
    ASSUME NEW ts, Listed(ts), NEW us \in [1..Len(ts) -> TrackRecords],
           \A i \in 1..Len(ts) : us[i].id = ts[i].id
    PROVE  Listed(us) /\ IdsOf(us) = IdsOf(ts) /\ Len(us) = Len(ts)
<1>1. Len(ts) \in Nat
  BY TrackFields
<1>2. us \in Seq(TrackRecords) /\ Len(us) = Len(ts)
  BY <1>1, FcnIsSeq
<1> QED
  BY <1>2, Relabelled

\* A track with another name.
LEMMA RenamedTrack ==
    ASSUME NEW ts, Listed(ts), NEW i \in 1..Len(ts), NEW name \in Names
    PROVE  LET us == [ts EXCEPT ![i].name = name]
           IN  Listed(us) /\ IdsOf(us) = IdsOf(ts) /\ Len(us) = Len(ts)
<1> DEFINE us == [ts EXCEPT ![i].name = name]
<1>1. ts \in [1..Len(ts) -> TrackRecords]
  BY LenProperties DEF Listed
<1>2. ASSUME NEW t \in TrackRecords
      PROVE  [t EXCEPT !.name = name] \in TrackRecords /\ [t EXCEPT !.name = name].id = t.id
  BY DEF TrackRecords
<1>3. \A j \in 1..Len(ts) : us[j] = IF j = i THEN [ts[i] EXCEPT !.name = name] ELSE ts[j]
  BY <1>1
<1>4. \A j \in 1..Len(ts) : us[j] \in TrackRecords /\ us[j].id = ts[j].id
  <2> HIDE DEF us
  <2> QED
    BY <1>1, <1>2, <1>3
<1>5. us \in [1..Len(ts) -> TrackRecords]
  <2>1. us = [j \in 1..Len(ts) |-> us[j]]
    BY <1>1
  <2> HIDE DEF us
  <2> QED
    BY <1>4, <2>1
<1> HIDE DEF us
<1>6. Listed(us) /\ IdsOf(us) = IdsOf(ts) /\ Len(us) = Len(ts)
  BY <1>4, <1>5, Remade
<1> QED
  BY <1>6 DEF us

\* A track set to w channels.
SetTo(ts, i, w) == [ts EXCEPT ![i].nchan = w]

\* A track with another width.
LEMMA SetTrack ==
    ASSUME NEW ts, Listed(ts), NEW i \in 1..Len(ts), NEW w \in Nchans
    PROVE  /\ Listed(SetTo(ts, i, w)) /\ IdsOf(SetTo(ts, i, w)) = IdsOf(ts)
           /\ Len(SetTo(ts, i, w)) = Len(ts)
           /\ SetTo(ts, i, w)[i].nchan = w
           /\ \A j \in 1..Len(ts) : SetTo(ts, i, w)[j].id = ts[j].id
<1> DEFINE us == [ts EXCEPT ![i].nchan = w]
<1>1. ts \in [1..Len(ts) -> TrackRecords]
  BY LenProperties DEF Listed
<1>2. ASSUME NEW t \in TrackRecords
      PROVE  /\ [t EXCEPT !.nchan = w] \in TrackRecords
             /\ [t EXCEPT !.nchan = w].id = t.id
             /\ [t EXCEPT !.nchan = w].nchan = w
  BY DEF TrackRecords
<1>3. \A j \in 1..Len(ts) : us[j] = IF j = i THEN [ts[i] EXCEPT !.nchan = w] ELSE ts[j]
  BY <1>1
<1>4. us = [j \in 1..Len(ts) |-> us[j]]
  BY <1>1
<1> HIDE DEF us
<1>5. \A j \in 1..Len(ts) : us[j] \in TrackRecords /\ us[j].id = ts[j].id
  BY <1>1, <1>2, <1>3, ZenonT(60)
<1>6. us \in [1..Len(ts) -> TrackRecords]
  BY <1>4, <1>5
<1>7. Listed(us) /\ IdsOf(us) = IdsOf(ts) /\ Len(us) = Len(ts)
  BY <1>5, <1>6, Remade
<1>8. us[i].nchan = w
  BY <1>1, <1>2, <1>3, ZenonT(60)
<1> QED
  BY <1>5, <1>7, <1>8 DEF us, SetTo

\* What leaves the sends alone, and keeps every track.
LEMMA TracksOnly ==
    ASSUME Typed, receives' = receives, Listed(tracks'), IdsOf(tracks) \subseteq IdsOf(tracks')
    PROVE  Typed'
<1>1. Routed(IdsOf(tracks'), receives)
  BY RoutedMore DEF Typed
<1> QED
  BY <1>1 DEF Typed

\* The widths and names calls give are those of the type.
LEMMA WidthTypes ==
    /\ Nchans \subseteq Nat /\ 2 \in Nchans
    /\ \A w \in Layouts : /\ w \in Nchans /\ w \in Nat
                          /\ BedName(w) \in Names /\ SceneName(w) \in Names
    /\ \A n \in Nat : Object(n) \in Names
    /\ Plain \in Names /\ BusName \in Names /\ Monitor \in Names
<1>1. Nchans \subseteq Nat /\ 2 \in Nchans
  BY DEF Nchans
<1>2. \A w \in Layouts : w \in Nchans /\ w \in Nat
  BY <1>1, SetupsAssumption
<1>3. \A w \in Nat : BedName(w) \in Names /\ SceneName(w) \in Names
  BY DEF BedName, SceneName, Names
<1>4. \A n \in Nat : Object(n) \in Names
  BY DEF Object, Names
<1>5. Plain \in Names /\ BusName \in Names /\ Monitor \in Names
  BY DEF Plain, BusName, Monitor, Names
<1> QED
  BY <1>1, <1>2, <1>3, <1>4, <1>5

\* Each call in turn keeps the types.
LEMMA TrackAddTyped == ASSUME Typed, TrackAdd PROVE Typed'
<1>1. PICK i \in 1..(Len(tracks) + 1) : tracks' = InsertedAt(i, Track(Plain, 2))
  BY DEF TrackAdd
<1>2. Track(Plain, 2) \in NewTracks
  BY WidthTypes DEF Track, NewTracks
<1>3. CanInsert(1) /\ receives' = receives
  BY DEF TrackAdd
<1>4. Listed(tracks') /\ IdsOf(tracks) \subseteq IdsOf(tracks')
  BY <1>1, <1>2, <1>3, TypedTracks, InsertedAtTracks
<1> QED
  BY <1>3, <1>4, TracksOnly

\* build_bed keeps the types.
LEMMA BuildBedTyped == ASSUME Typed, BuildBed PROVE Typed'
<1>1. PICK w \in Layouts, i \in 1..(Len(tracks) + 1) : tracks' = InsertedAt(i, Track(BedName(w), w))
  BY DEF BuildBed
<1>2. Track(BedName(w), w) \in NewTracks
  BY WidthTypes DEF Track, NewTracks
<1>3. CanInsert(1) /\ receives' = receives
  BY DEF BuildBed
<1>4. Listed(tracks') /\ IdsOf(tracks) \subseteq IdsOf(tracks')
  BY <1>1, <1>2, <1>3, TypedTracks, InsertedAtTracks
<1> QED
  BY <1>3, <1>4, TracksOnly

\* Without the sends of a track, none comes from it.
LEMMA NotFromType ==
    ASSUME NEW I, NEW sends \in Seq(From(I)), NEW src
    PROVE  NotFrom(src, sends) \in Seq(From(I \ {src}))
<1> DEFINE K == {k \in DOMAIN sends : sends[k].src # src}
           t == Picked(sends, K)
<1>1. DOMAIN sends = 1..Len(sends) /\ \A k \in 1..Len(sends) : sends[k] \in From(I)
  BY SeqDomain
<1>2. K \in SUBSET (1..Len(sends))
  BY <1>1
<1>3. NotFrom(src, sends) = t
  BY DEF NotFrom
<1>4. \A k \in K : sends[k] \in From(I) /\ sends[k].src # src
  BY <1>1
<1> HIDE DEF K
<1>5. t \in Seq(From(I)) /\ DOMAIN t = 1..Len(t) /\ Selects(Ascending(K), t, sends, K)
  BY <1>2, PickedSelects
<1> HIDE DEF t
<1>6. \A k \in DOMAIN t : t[k] \in From(I \ {src})
  <2> SUFFICES ASSUME NEW k \in DOMAIN t PROVE t[k] \in From(I \ {src})
    OBVIOUS
  <2>1. Ascending(K)[k] \in K /\ t[k] = sends[Ascending(K)[k]]
    BY <1>5, SelectedElement
  <2>2. t[k] \in From(I) /\ t[k].src # src
    BY <1>4, <2>1
  <2> QED
    BY <2>2 DEF From
<1> QED
  BY <1>3, <1>5, <1>6, SeqOfWhatItHolds

\* The sends of a removed track go with it, so that none comes from a track that is gone.
LEMMA TrackRemoveTyped == ASSUME Typed, TrackRemove PROVE Typed'
<1>1. PICK i \in DOMAIN tracks :
        /\ tracks' = RemoveAt(tracks, i)
        /\ receives' = [d \in Ids |-> IF d = IdAt(i) THEN <<>> ELSE NotFrom(IdAt(i), receives[d])]
  BY DEF TrackRemove
<1> DEFINE I == IdsOf(tracks)
           J == I \ {IdAt(i)}
<1>2. i \in 1..Len(tracks) /\ IdAt(i) = tracks[i].id /\ \A d \in Ids : receives[d] \in Seq(From(I))
  BY TypedTracks
<1>3. Listed(tracks') /\ IdsOf(tracks') = J
  BY <1>1, <1>2, RemovedTracks DEF Typed
<1> HIDE DEF I, J
<1>4. ASSUME NEW d \in Ids PROVE receives'[d] \in Seq(From(J)) /\ (d \notin J => receives'[d] = <<>>)
  <2>1. CASE d = IdAt(i)
    BY <1>1, <2>1, EmptySeq
  <2>2. CASE d # IdAt(i)
    <3>1. receives'[d] = NotFrom(IdAt(i), receives[d])
      BY <1>1, <2>2
    <3>2. receives'[d] \in Seq(From(J))
      BY <1>2, <3>1, NotFromType DEF J
    <3>3. ASSUME d \notin J PROVE receives'[d] = <<>>
      <4>1. d \notin I
        BY <2>2, <3>3 DEF J
      <4>2. receives[d] = <<>>
        BY <4>1 DEF Typed, Routed, I
      <4>3. receives[d] \in Seq(From({}))
        BY <4>2, EmptySeq
      <4>4. receives'[d] \in Seq(From({} \ {IdAt(i)}))
        BY <3>1, <4>3, NotFromType
      <4>5. From({} \ {IdAt(i)}) = {}
        BY DEF From
      <4> DEFINE q == receives'[d]
      <4>6. q \in Seq({})
        BY <4>4, <4>5
      <4> HIDE DEF q
      <4>7. Len(q) \in Nat /\ \A k \in 1..Len(q) : q[k] \in {}
        BY <4>6, SeqDomain
      <4>8. Len(q) = 0
        <5>1. \A n \in Nat : n # 0 => 1 \in 1..n
          OBVIOUS
        <5> QED
          BY <4>7, <5>1
      <4>9. q = <<>>
        BY <4>6, <4>8, EmptySeq
      <4> QED
        BY <4>9 DEF q
    <3> QED
      BY <3>2, <3>3
  <2> QED
    BY <2>1, <2>2
<1>5. Routed(J, receives')
  <2>1. receives' = [d \in Ids |-> receives'[d]]
    BY <1>1
  <2>2. receives' \in [Ids -> Seq(From(J))]
    BY <1>4, <2>1
  <2> QED
    BY <1>4, <2>2 DEF Routed
<1> QED
  BY <1>3, <1>5 DEF Typed

\* track.set_name keeps the types.
LEMMA TrackSetNameTyped == ASSUME Typed, TrackSetName PROVE Typed'
<1>1. PICK i \in DOMAIN tracks, name \in {Plain, Object(1), Object(2)} \cup {BedName(w) : w \in Layouts} :
        tracks' = [tracks EXCEPT ![i].name = name]
  BY DEF TrackSetName
<1>2. i \in 1..Len(tracks) /\ name \in Names
  BY TypedTracks, WidthTypes
<1>3. Listed(tracks') /\ IdsOf(tracks') = IdsOf(tracks)
  BY <1>1, <1>2, RenamedTrack DEF Typed
<1> QED
  BY <1>3, TracksOnly DEF TrackSetName

\* A width that was clamped is one REAPER has.
LEMMA SetTrackChannelsTyped == ASSUME Typed, SetTrackChannels PROVE Typed'
<1>1. PICK i \in DOMAIN tracks, w \in Widths, cap \in {64, 128} :
        tracks' = [tracks EXCEPT ![i].nchan = Clamped(IF w > cap THEN cap ELSE w)]
  BY DEF SetTrackChannels
<1> DEFINE n == IF w > cap THEN cap ELSE w
<1>2. n \in Nat
  BY BoundsAssumption
<1> HIDE DEF n
<1> DEFINE nchan == Clamped(n)
<1>3. i \in 1..Len(tracks) /\ nchan \in Nchans
  BY <1>2, TypedTracks, ClampedType
<1>4. tracks' = SetTo(tracks, i, nchan)
  BY <1>1 DEF n, SetTo
<1> HIDE DEF nchan
<1>5. Listed(tracks') /\ IdsOf(tracks') = IdsOf(tracks)
  BY <1>3, <1>4, SetTrack DEF Typed
<1> QED
  BY <1>5, TracksOnly DEF SetTrackChannels

\* A change to the receives of one track.
LEMMA SendsOnly ==
    ASSUME Typed, NEW d \in IdsOf(tracks), NEW q \in Seq(From(IdsOf(tracks))),
           receives' = [receives EXCEPT ![d] = q],
           Listed(tracks'), IdsOf(tracks') = IdsOf(tracks)
    PROVE  Typed'
<1>1. Routed(IdsOf(tracks), receives')
  BY Rerouted DEF Typed
<1> QED
  BY <1>1 DEF Typed

\* send.add connects tracks that are there.
LEMMA SendAddTyped == ASSUME Typed, SendAdd PROVE Typed'
<1>1. PICK i \in DOMAIN tracks, k \in DOMAIN tracks, c \in Sendings :
        receives' = [receives EXCEPT ![IdAt(k)] = Append(@, Send(IdAt(i), c[1], c[2]))]
  BY DEF SendAdd
<1> DEFINE I == IdsOf(tracks)
           x == Send(IdAt(i), c[1], c[2])
           d == IdAt(k)
           q == Append(receives[d], x)
<1>2. IdAt(i) \in I /\ d \in I /\ I \subseteq Ids /\ receives[d] \in Seq(From(I))
  BY TypedTracks
<1>3. c[1] \in Nat \cup {NoAudio} /\ c[2] \in Nat
  BY BoundsAssumption
<1> HIDE DEF I, d
<1>4. x \in From(I)
  BY <1>2, <1>3, SendType
<1> HIDE DEF x
<1>5. q \in Seq(From(I))
  BY <1>2, <1>4, AppendProperties
<1>6. receives' = [receives EXCEPT ![d] = q]
  BY <1>1 DEF d, x
<1>7. tracks' = tracks /\ Listed(tracks)
  BY DEF SendAdd, Typed
<1> HIDE DEF q
<1> QED
  BY <1>2, <1>5, <1>6, <1>7, SendsOnly DEF I

\* send.remove keeps the types.
LEMMA SendRemoveTyped == ASSUME Typed, SendRemove PROVE Typed'
<1>0. PICK d \in Used : \E k \in DOMAIN receives[d] : receives' = [receives EXCEPT ![d] = RemoveAt(@, k)]
  BY DEF SendRemove
<1>1. PICK k \in DOMAIN receives[d] : receives' = [receives EXCEPT ![d] = RemoveAt(@, k)]
  BY <1>0
<1> DEFINE I == IdsOf(tracks)
           q == RemoveAt(receives[d], k)
<1>2. d \in I /\ d \in Ids
  BY TypedTracks, UnusedIds
<1>3. receives[d] \in Seq(From(I)) /\ k \in 1..Len(receives[d])
  BY <1>2, TypedTracks, SeqDomain
<1> HIDE DEF I
<1>4. q \in Seq(From(I))
  BY <1>3, RemoveAtProperties
<1>5. receives' = [receives EXCEPT ![d] = q]
  BY <1>1
<1>6. tracks' = tracks /\ Listed(tracks)
  BY DEF SendRemove, Typed
<1> HIDE DEF q
<1> QED
  BY <1>2, <1>4, <1>5, <1>6, SendsOnly DEF I

\* send.set_channels keeps the types.
LEMMA SendSetChannelsTyped == ASSUME Typed, SendSetChannels PROVE Typed'
<1>0. PICK d \in Used : \E k \in DOMAIN receives[d] :
        \E c \in Sendings \cup {<<NoAudio, 0>>}, src, dst \in BOOLEAN :
          receives' = [receives EXCEPT ![d][k] =
            Send(@.src, IF src THEN c[1] ELSE @.srcChan, IF dst THEN c[2] ELSE @.dstChan)]
  BY DEF SendSetChannels
<1>1. PICK k \in DOMAIN receives[d], c \in Sendings \cup {<<NoAudio, 0>>},
           src \in BOOLEAN, dst \in BOOLEAN :
        receives' = [receives EXCEPT ![d][k] =
          Send(@.src, IF src THEN c[1] ELSE @.srcChan, IF dst THEN c[2] ELSE @.dstChan)]
  BY <1>0
<1> DEFINE I == IdsOf(tracks)
           x == receives[d][k]
           y == Send(x.src, IF src THEN c[1] ELSE x.srcChan, IF dst THEN c[2] ELSE x.dstChan)
           q == [receives[d] EXCEPT ![k] = y]
<1>2. d \in I /\ d \in Ids /\ I \subseteq Ids
  BY TypedTracks, UnusedIds
<1>3. receives[d] \in Seq(From(I))
  BY <1>2, TypedTracks
<1>4. Len(receives[d]) \in Nat /\ k \in 1..Len(receives[d]) /\ x \in From(I)
  BY <1>3, SeqDomain
<1>5. c[1] \in Nat \cup {NoAudio} /\ c[2] \in Nat
  BY BoundsAssumption
<1>6. y \in From(I)
  <2> HIDE DEF I, x
  <2>1. x.src \in I /\ x.srcChan \in Nat \cup {NoAudio} /\ x.dstChan \in Nat
    BY <1>4 DEF From, SendRecords
  <2> QED
    BY <1>2, <1>5, <2>1, SendType
<1>7. receives' = [receives EXCEPT ![d] = q]
  BY <1>1, <1>2 DEF Typed, Routed
<1> HIDE DEF I, y
<1>8. q \in Seq(From(I))
  <2>1. receives[d] \in [1..Len(receives[d]) -> From(I)]
    BY <1>3, LenProperties
  <2>2. q \in [1..Len(receives[d]) -> From(I)]
    BY <1>6, <2>1
  <2> QED
    BY <1>4, <2>2, FcnIsSeq
<1>9. tracks' = tracks /\ Listed(tracks)
  BY DEF SendSetChannels, Typed
<1> HIDE DEF q
<1> QED
  BY <1>2, <1>7, <1>8, <1>9, SendsOnly DEF I

-----------------------------------------------------------------------------
(* The same for the calls that build beds, objects and buses. *)

\* The list with one track widened, wide enough if that is possible.
LEMMA WidenedTracks ==
    ASSUME NEW ts, Listed(ts), NEW i \in 1..Len(ts), NEW w \in Nat
    PROVE  /\ Listed(Widened(ts, i, w)) /\ IdsOf(Widened(ts, i, w)) = IdsOf(ts)
           /\ Len(Widened(ts, i, w)) = Len(ts)
           /\ \A j \in 1..Len(ts) : Widened(ts, i, w)[j].id = ts[j].id
           /\ w <= 128 => Widened(ts, i, w)[i].nchan >= w
<1> DEFINE c == IF ts[i].nchan < w THEN Clamped(w) ELSE ts[i].nchan
<1>1. ts[i].nchan \in Nchans /\ ts[i].nchan \in Nat
  BY TrackFields, WidthTypes
<1>2. Clamped(w) \in Nchans /\ (w <= 128 => Clamped(w) >= w)
  BY ClampedType
<1>3. c \in Nchans /\ (w <= 128 => c >= w)
  BY <1>1, <1>2
<1>4. Widened(ts, i, w) = SetTo(ts, i, c)
  BY DEF Widened, SetTo
<1> HIDE DEF c
<1> QED
  BY <1>3, <1>4, SetTrack

\* The list with some tracks renamed.
LEMMA RenamedTracks ==
    ASSUME NEW ts, Listed(ts), NEW objs \in Seq(Nat)
    PROVE  /\ Listed(Renamed(ts, objs)) /\ IdsOf(Renamed(ts, objs)) = IdsOf(ts)
           /\ Len(Renamed(ts, objs)) = Len(ts)
           /\ \A i \in 1..Len(ts) : Renamed(ts, objs)[i].id = ts[i].id
<1> DEFINE us == Renamed(ts, objs)
<1>1. Len(ts) \in Nat /\ DOMAIN ts = 1..Len(ts) /\ \A i \in 1..Len(ts) : ts[i] \in TrackRecords
  BY TrackFields
<1>2. ASSUME NEW i, \E k \in DOMAIN objs : objs[k] = i PROVE NumberOf(objs, i) \in Nat
  <2> DEFINE S == {k \in DOMAIN objs : objs[k] = i}
  <2>1. Len(objs) \in Nat /\ DOMAIN objs = 1..Len(objs)
    BY SeqDomain
  <2>2. S \in SUBSET Nat /\ S # {} /\ \A y \in S : y <= Len(objs)
    BY <1>2, <2>1
  <2>3. NumberOf(objs, i) = Max(S)
    BY DEF NumberOf
  <2> HIDE DEF S
  <2>4. Max(S) \in S
    BY <2>1, <2>2, MaxProperties
  <2> QED
    BY <2>2, <2>3, <2>4
<1>3. ASSUME NEW t \in TrackRecords, NEW name \in Names
      PROVE  [t EXCEPT !.name = name] \in TrackRecords /\ [t EXCEPT !.name = name].id = t.id
  BY DEF TrackRecords
<1>4. us = [i \in 1..Len(ts) |-> IF \E k \in DOMAIN objs : objs[k] = i
                                 THEN [ts[i] EXCEPT !.name = Object(NumberOf(objs, i))] ELSE ts[i]]
  BY <1>1 DEF Renamed
<1> HIDE DEF us
<1>5. ASSUME NEW i \in 1..Len(ts) PROVE us[i] \in TrackRecords /\ us[i].id = ts[i].id
  <2>1. CASE \E k \in DOMAIN objs : objs[k] = i
    <3>1. Object(NumberOf(objs, i)) \in Names
      BY <1>2, <2>1, WidthTypes
    <3>2. us[i] = [ts[i] EXCEPT !.name = Object(NumberOf(objs, i))]
      BY <1>4, <2>1
    <3> QED
      BY <1>1, <1>3, <3>1, <3>2
  <2>2. CASE ~\E k \in DOMAIN objs : objs[k] = i
    <3>1. us[i] = ts[i]
      BY <1>4, <2>2
    <3> QED
      BY <1>1, <3>1
  <2> QED
    BY <2>1, <2>2
<1>6. us \in [1..Len(ts) -> TrackRecords]
  <2>1. us = [i \in 1..Len(ts) |-> us[i]]
    BY <1>4
  <2> QED
    BY <1>5, <2>1
<1>7. Listed(us) /\ IdsOf(us) = IdsOf(ts) /\ Len(us) = Len(ts)
  BY <1>5, <1>6, Remade
<1> QED
  BY <1>5, <1>7 DEF us

\* Every object that is reached is a track.
LEMMA ReachedType ==
    ASSUME NEW objs \in Seq(Nat \ {0}), NEW ts
    PROVE  Reached(objs, ts) \in Seq((Nat \ {0}) \cap DOMAIN ts)
<1> DEFINE bad == {k \in DOMAIN objs : objs[k] \notin DOMAIN ts}
<1>1. Len(objs) \in Nat /\ DOMAIN objs = 1..Len(objs) /\ \A k \in 1..Len(objs) : objs[k] \in Nat \ {0}
  BY SeqDomain
<1>2. bad \subseteq 1..Len(objs) /\ bad \subseteq Nat
  BY <1>1
<1>3. Reached(objs, ts) = IF bad = {} THEN objs ELSE SubSeq(objs, 1, Min(bad) - 1)
  BY DEF Reached
<1> HIDE DEF bad
<1>4. CASE bad = {}
  <2>1. \A k \in DOMAIN objs : objs[k] \in (Nat \ {0}) \cap DOMAIN ts
    BY <1>1, <1>4 DEF bad
  <2>2. objs \in Seq((Nat \ {0}) \cap DOMAIN ts)
    BY <2>1, SeqOfWhatItHolds
  <2> QED
    BY <1>3, <1>4, <2>2
<1>5. CASE bad # {}
  <2>1. Min(bad) \in bad /\ \A y \in bad : Min(bad) <= y
    BY <1>2, <1>5, MinProperties
  <2>2. Min(bad) - 1 \in 0..Len(objs)
    <3>1. Min(bad) \in 1..Len(objs)
      BY <1>2, <2>1
    <3> QED
      BY <1>1, <3>1
  <2> DEFINE S == (Nat \ {0}) \cap DOMAIN ts
  <2>3. \A j \in 1..(Min(bad) - 1) : objs[j] \in S
    <3> SUFFICES ASSUME NEW j \in 1..(Min(bad) - 1) PROVE objs[j] \in S
      OBVIOUS
    <3>0. Min(bad) \in Nat
      BY <1>2, <2>1
    <3>1. j \in 1..Len(objs) /\ j < Min(bad)
      BY <1>1, <2>2, <3>0
    <3>2. j \notin bad
      BY <2>1, <3>0, <3>1
    <3>3. objs[j] \in DOMAIN ts
      BY <1>1, <3>1, <3>2 DEF bad
    <3> QED
      BY <1>1, <3>1, <3>3
  <2> HIDE DEF S
  <2>4. SubSeq(objs, 1, Min(bad) - 1) \in Seq(S)
    BY <1>1, <2>2, <2>3, SubSeqProperties
  <2> QED
    BY <1>3, <1>5, <2>4 DEF S
<1> QED
  BY <1>4, <1>5

\* The list with a bed that was built or widened.
LEMMA BeddedTracks ==
    ASSUME Typed, NEW w \in Layouts, NEW bed \in {None} \cup DOMAIN tracks, NEW create \in BOOLEAN,
           bed = None /\ create => CanInsert(1)
    PROVE  Listed(Bedded(w, bed, create)) /\ IdsOf(tracks) \subseteq IdsOf(Bedded(w, bed, create))
<1>1. CASE bed = None /\ create
  <2> DEFINE new == <<Track(BedName(w), w)>>
  <2>1. new \in Seq(NewTracks) /\ Len(new) = 1
    <3>1. Track(BedName(w), w) \in NewTracks
      BY WidthTypes DEF Track, NewTracks
    <3> HIDE DEF NewTracks
    <3> QED
      BY <3>1
  <2>2. Bedded(w, bed, create) = Inserted(new)
    BY <1>1 DEF Bedded
  <2> HIDE DEF new
  <2>3. Session(tracks, receives) /\ CanInsert(Len(new))
    BY <1>1, <2>1, TypedTracks
  <2>4. Listed(Inserted(new)) /\ IdsOf(tracks) \subseteq IdsOf(Inserted(new))
    BY <2>1, <2>3, InsertedTracks
  <2> QED
    BY <2>2, <2>4
<1>2. CASE bed # None
  <2>1. bed \in 1..Len(tracks) /\ w \in Nat
    BY <1>2, TypedTracks, WidthTypes
  <2>2. Bedded(w, bed, create) = Widened(tracks, bed, w)
    BY <1>2 DEF Bedded
  <2> QED
    BY <2>1, <2>2, WidenedTracks DEF Typed
<1>3. CASE bed = None /\ ~create
  BY <1>3 DEF Bedded, Typed
<1> QED
  BY <1>1, <1>2, <1>3

\* author_object_bed keeps the types, also when it ends half-way.
LEMMA AuthorObjectBedTyped == ASSUME Typed, AuthorObjectBed PROVE Typed'
<1>1. PICK w \in Layouts, objs \in ObjectLists, rename \in BOOLEAN, bed \in Beds, create \in BOOLEAN :
        /\ bed \in {None} \cup DOMAIN tracks
        /\ bed = None /\ create => CanInsert(1)
        /\ LET bedded == Bedded(w, bed, create)
           IN  tracks' = IF rename THEN Renamed(bedded, Reached(objs, bedded)) ELSE bedded
  BY DEF AuthorObjectBed
<1> DEFINE bedded == Bedded(w, bed, create)
           done == Reached(objs, bedded)
<1>2. Listed(bedded) /\ IdsOf(tracks) \subseteq IdsOf(bedded)
  BY <1>1, BeddedTracks
<1>3. done \in Seq(Nat)
  <2>1. objs \in Seq(Nat \ {0})
    BY BoundsAssumption
  <2>2. done \in Seq((Nat \ {0}) \cap DOMAIN bedded)
    BY <2>1, ReachedType
  <2> HIDE DEF done
  <2>3. \A k \in DOMAIN done : done[k] \in Nat
    BY <2>2, SeqDomain
  <2> QED
    BY <2>2, <2>3, SeqOfWhatItHolds
<1>4. tracks' = IF rename THEN Renamed(bedded, done) ELSE bedded
  BY <1>1
<1> HIDE DEF bedded, done
<1>5. Listed(Renamed(bedded, done)) /\ IdsOf(Renamed(bedded, done)) = IdsOf(bedded)
  BY <1>2, <1>3, RenamedTracks
<1>6. Listed(tracks') /\ IdsOf(tracks) \subseteq IdsOf(tracks')
  BY <1>2, <1>4, <1>5
<1> QED
  BY <1>6, TracksOnly DEF AuthorObjectBed

\* The sends buildAtmosLayoutSDK makes, one by one.
AtmosAs(q, I, bed, bedW, n, objs) ==
    LET l == IF bed = None THEN 0 ELSE 1
    IN  /\ q \in Seq(From(I)) /\ Len(q) = l + n
        /\ bed # None => q[1] = Wire(bed, bedW, 0, FALSE)
        /\ \A k \in 1..n : q[l + k] = Wire(objs[k], 1, bedW + k - 1, FALSE)

\* The sends of buildAtmosLayoutSDK one by one.
LEMMA AtmosProperties ==
    ASSUME NEW I, I \subseteq Ids, NEW bed \in I \cup {None}, NEW bedW \in Nat,
           NEW n \in Nat, NEW objs \in [1..n -> I]
    PROVE  AtmosAs(AtmosSends(bed, bedW, objs), I, bed, bedW, n, objs)
<1> DEFINE a == IF bed = None THEN <<>> ELSE <<Wire(bed, bedW, 0, FALSE)>>
           b == [k \in 1..n |-> Wire(objs[k], 1, bedW + k - 1, FALSE)]
           l == IF bed = None THEN 0 ELSE 1
           S == From(I)
<1>1. AtmosSends(bed, bedW, objs) = a \o b
  BY DEF AtmosSends
<1>2. /\ a \in Seq(S) /\ Len(a) = l /\ l \in {0, 1}
      /\ bed # None => l = 1 /\ a[1] = Wire(bed, bedW, 0, FALSE)
  <2>1. CASE bed = None
    <3>1. a = <<>> /\ l = 0
      BY <2>1
    <3> HIDE DEF a, l
    <3> QED
      BY <2>1, <3>1, EmptySeq
  <2>2. CASE bed # None
    <3> DEFINE x == Wire(bed, bedW, 0, FALSE)
    <3>1. x \in S
      BY <2>2, WireType
    <3>2. a = <<x>> /\ l = 1
      BY <2>2
    <3> HIDE DEF a, l, x, S
    <3>3. <<x>> \in Seq(S) /\ Len(<<x>>) = 1 /\ <<x>>[1] = x
      BY <3>1
    <3>4. a[1] = x
      BY <3>2, <3>3
    <3> QED
      BY <3>2, <3>3, <3>4 DEF x
  <2> QED
    BY <2>1, <2>2
<1>3. b \in Seq(S) /\ Len(b) = n
  <2>1. ASSUME NEW k \in 1..n PROVE Wire(objs[k], 1, bedW + k - 1, FALSE) \in S
    <3>1. objs[k] \in I /\ bedW + k - 1 \in Nat
      OBVIOUS
    <3> QED
      BY <3>1, WireType
  <2>2. b \in [1..n -> S]
    BY <2>1
  <2> HIDE DEF b
  <2> QED
    BY <2>2, FcnIsSeq
<1>4. \A k \in 1..n : b[k] = Wire(objs[k], 1, bedW + k - 1, FALSE)
  OBVIOUS
<1> DEFINE q == a \o b
<1> HIDE DEF a, b, S, l
<1>5. /\ q \in Seq(S) /\ Len(q) = Len(a) + Len(b)
      /\ \A i \in 1..(Len(a) + Len(b)) : q[i] = IF i <= Len(a) THEN a[i] ELSE b[i - Len(a)]
  BY <1>2, <1>3, ConcatProperties
<1> HIDE DEF q
<1>6. bed # None => q[1] = Wire(bed, bedW, 0, FALSE)
  <2>1. bed # None => 1 \in 1..(Len(a) + Len(b)) /\ 1 <= Len(a)
    BY <1>2, <1>3
  <2>2. bed # None => q[1] = a[1]
    BY <1>5, <2>1
  <2> QED
    BY <1>2, <2>2
<1>7. ASSUME NEW k \in 1..n PROVE q[l + k] = Wire(objs[k], 1, bedW + k - 1, FALSE)
  <2>1. l + k \in 1..(l + n) /\ ~(l + k <= l) /\ (l + k) - l = k
    BY <1>2
  <2>2. q[l + k] = b[k]
    BY <1>2, <1>3, <1>5, <2>1
  <2> QED
    BY <1>4, <2>2
<1>8. q \in Seq(S) /\ Len(q) = l + n
  BY <1>2, <1>3, <1>5
<1>9. AtmosSends(bed, bedW, objs) = q
  BY <1>1 DEF q
<1> QED
  BY <1>6, <1>7, <1>8, <1>9 DEF l, S, AtmosAs

\* The tracks setup_immersive_session adds.
LEMMA NewSessionTracks ==
    ASSUME NEW w \in Layouts, NEW n \in ObjectCounts, NEW monitor \in BOOLEAN, NEW renderer \in BOOLEAN
    PROVE  LET new == NewSession(w, n, monitor, renderer)
           IN  /\ new \in Seq(NewTracks)
               /\ Len(new) = 1 + n + (IF monitor THEN 1 ELSE 0) + (IF renderer THEN 1 ELSE 0)
               /\ renderer => new[Len(new)].nchan = Clamped(w + n)
<1> DEFINE t == Track(BedName(w), w)
           a == <<t>>
           b == [k \in 1..n |-> Track(Object(k), 2)]
           c == IF monitor THEN <<Track(Monitor, 2)>> ELSE <<>>
           u == Track(BusName, Clamped(w + n))
           d == IF renderer THEN <<u>> ELSE <<>>
           m == IF monitor THEN 1 ELSE 0
           r == IF renderer THEN 1 ELSE 0
<1>1. n \in Nat /\ w \in Nat
  BY SetupsAssumption, WidthTypes
<1>2. a \in Seq(NewTracks) /\ Len(a) = 1
  <2>1. t \in NewTracks
    BY WidthTypes DEF Track, NewTracks
  <2> HIDE DEF t, NewTracks
  <2> QED
    BY <2>1
<1>3. b \in Seq(NewTracks) /\ Len(b) = n
  <2>1. \A k \in 1..n : Track(Object(k), 2) \in NewTracks
    BY <1>1, WidthTypes DEF Track, NewTracks
  <2>2. b \in [1..n -> NewTracks]
    BY <2>1
  <2> HIDE DEF b
  <2> QED
    BY <1>1, <2>2, FcnIsSeq
<1>4. c \in Seq(NewTracks) /\ Len(c) = m
  <2> DEFINE x == Track(Monitor, 2)
  <2>1. x \in NewTracks
    BY WidthTypes DEF Track, NewTracks
  <2> HIDE DEF x, NewTracks
  <2>2. <<x>> \in Seq(NewTracks) /\ Len(<<x>>) = 1 /\ <<>> \in Seq(NewTracks) /\ Len(<<>>) = 0
    BY <2>1
  <2> QED
    BY <2>2 DEF x
<1>5. d \in Seq(NewTracks) /\ Len(d) = r /\ (renderer => d[1].nchan = Clamped(w + n))
  <2>1. u \in NewTracks /\ u.nchan = Clamped(w + n)
    BY <1>1, ClampedType, WidthTypes DEF Track, NewTracks
  <2> HIDE DEF u, NewTracks
  <2>2. /\ <<u>> \in Seq(NewTracks) /\ Len(<<u>>) = 1 /\ <<u>>[1] = u
        /\ <<>> \in Seq(NewTracks) /\ Len(<<>>) = 0
    BY <2>1
  <2> QED
    BY <2>1, <2>2
<1>6. m \in {0, 1} /\ r \in {0, 1} /\ (renderer => r = 1)
  OBVIOUS
<1> DEFINE ab == a \o b
           abc == ab \o c
           new == abc \o d
<1>7. NewSession(w, n, monitor, renderer) = new
  BY DEF NewSession
<1> HIDE DEF a, b, c, d, m, r, NewTracks
<1>8. ab \in Seq(NewTracks) /\ Len(ab) = 1 + n
  BY <1>1, <1>2, <1>3, ConcatProperties, ZenonT(60)
<1> HIDE DEF ab
<1>9. abc \in Seq(NewTracks) /\ Len(abc) = 1 + n + m
  BY <1>1, <1>4, <1>6, <1>8, ConcatProperties
<1> HIDE DEF abc
<1>10. /\ new \in Seq(NewTracks) /\ Len(new) = Len(abc) + Len(d)
       /\ \A i \in 1..(Len(abc) + Len(d)) : new[i] = IF i <= Len(abc) THEN abc[i] ELSE d[i - Len(abc)]
  BY <1>5, <1>9, ConcatProperties
<1> HIDE DEF new
<1>11. Len(new) = 1 + n + m + r
  BY <1>1, <1>5, <1>6, <1>9, <1>10
<1>12. ASSUME renderer PROVE new[Len(new)].nchan = Clamped(w + n)
  <2>1. /\ Len(new) \in 1..(Len(abc) + Len(d)) /\ ~(Len(new) <= Len(abc))
        /\ Len(new) - Len(abc) = 1
    BY <1>1, <1>5, <1>6, <1>9, <1>11, <1>12
  <2>2. new[Len(new)] = d[1]
    BY <1>10, <2>1
  <2> QED
    BY <1>5, <1>12, <2>2
<1> QED
  BY <1>7, <1>10, <1>11, <1>12 DEF m, r

\* A session that was set up has the right types, renderer and monitor included.
LEMMA SetUpTyped ==
    ASSUME Typed, NEW w \in Layouts, NEW n \in ObjectCounts, NEW monitor \in BOOLEAN, NEW renderer \in BOOLEAN,
           SetUp(w, n, monitor, renderer)
    PROVE  Typed'
<1> DEFINE new  == NewSession(w, n, monitor, renderer)
           ids  == Ascending(Unused)
           objs == [k \in 1..n |-> ids[k + 1]]
           bus  == ids[Len(new)]
           mon  == ids[n + 2]
           I    == IdsOf(tracks)
           J    == IdsOf(Inserted(new))
           q    == AtmosSends(ids[1], w, objs)
           p    == [k \in 1..n |-> Wire(objs[k], 1, 0, TRUE)]
<1>1. CanInsert(Len(new)) /\ tracks' = Inserted(new)
  BY DEF SetUp
<1>2. receives' = [d \in Ids |-> IF renderer /\ d = bus THEN q
                                 ELSE IF monitor /\ d = mon THEN p ELSE receives[d]]
  BY DEF SetUp
<1>3. n \in Nat /\ w \in Nat
  BY SetupsAssumption, WidthTypes
<1>4. /\ new \in Seq(NewTracks)
      /\ Len(new) = 1 + n + (IF monitor THEN 1 ELSE 0) + (IF renderer THEN 1 ELSE 0)
  BY NewSessionTracks
<1> HIDE DEF new
<1>5. Listed(Inserted(new)) /\ J = I \cup {ids[k] : k \in 1..Len(new)}
  BY <1>1, <1>4, TypedTracks, InsertedTracks
<1>6. J \subseteq Ids
  BY <1>5, TrackFields
<1> HIDE DEF ids, J, I
<1>7. \A k \in 1..(n + 1) : ids[k] \in J
  <2>1. 1..(n + 1) \subseteq 1..Len(new)
    BY <1>3, <1>4
  <2> QED
    BY <1>5, <2>1
<1>8. objs \in [1..n -> J]
  <2>1. \A k \in 1..n : k + 1 \in 1..(n + 1)
    BY <1>3
  <2> QED
    BY <1>7, <2>1
<1>9. q \in Seq(From(J))
  <2>1. ids[1] \in J \cup {None}
    BY <1>3, <1>7
  <2> HIDE DEF objs
  <2> QED
    BY <1>3, <1>6, <1>8, <2>1, AtmosProperties DEF AtmosAs
<1>10. p \in Seq(From(J))
  <2>1. ASSUME NEW k \in 1..n PROVE Wire(objs[k], 1, 0, TRUE) \in From(J)
    <3>1. objs[k] \in J
      BY <1>8
    <3> HIDE DEF objs
    <3> QED
      BY <1>6, <3>1, WireType
  <2>2. p \in [1..n -> From(J)]
    BY <2>1
  <2> HIDE DEF p
  <2> QED
    BY <1>3, <2>2, FcnIsSeq
<1>11. renderer => bus \in J
  <2>1. Len(new) \in 1..Len(new)
    BY <1>3, <1>4
  <2> QED
    BY <1>5, <2>1
<1>12. monitor => mon \in J
  <2>1. monitor => n + 2 \in 1..Len(new)
    BY <1>3, <1>4
  <2> QED
    BY <1>5, <2>1
<1>13. Routed(J, receives)
  BY <1>5, RoutedMore DEF Typed, I
<1> HIDE DEF q, p, bus, mon
<1>14. Routed(J, receives')
  <2>1. receives \in [Ids -> Seq(From(J))] /\ \A d \in Ids \ J : receives[d] = <<>>
    BY <1>13 DEF Routed
  <2>2. receives' \in [Ids -> Seq(From(J))]
    BY <1>2, <1>9, <1>10, <2>1
  <2>3. \A d \in Ids \ J : receives'[d] = <<>>
    BY <1>2, <1>11, <1>12, <2>1
  <2> QED
    BY <2>2, <2>3 DEF Routed
<1> QED
  BY <1>1, <1>5, <1>14 DEF Typed, J

\* setup_immersive_session keeps the types.
LEMMA SetupImmersiveTyped == ASSUME Typed, SetupImmersive PROVE Typed'
  BY SetUpTyped DEF SetupImmersive

\* The tracks of a list of positions.
LEMMA AtType ==
    ASSUME Typed, NEW objs \in Seq(DOMAIN tracks)
    PROVE  /\ At(objs) \in [1..Len(objs) -> IdsOf(tracks)]
           /\ Len(objs) \in Nat /\ Len(At(objs)) = Len(objs)
           /\ \A k \in 1..Len(objs) : At(objs)[k] = tracks[objs[k]].id
<1>1. Len(objs) \in Nat /\ DOMAIN objs = 1..Len(objs) /\ \A k \in 1..Len(objs) : objs[k] \in DOMAIN tracks
  BY SeqDomain
<1>2. \A i \in DOMAIN tracks : IdAt(i) \in IdsOf(tracks) /\ IdAt(i) = tracks[i].id
  BY TypedTracks
<1>3. At(objs) = [k \in 1..Len(objs) |-> IdAt(objs[k])]
  BY <1>1 DEF At
<1> DEFINE q == At(objs)
<1> HIDE DEF q
<1>4. q \in [1..Len(objs) -> IdsOf(tracks)] /\ \A k \in 1..Len(objs) : q[k] = tracks[objs[k]].id
  BY <1>1, <1>2, <1>3 DEF q
<1>5. Len(q) = Len(objs)
  BY <1>1, <1>4, FcnIsSeq
<1> QED
  BY <1>1, <1>4, <1>5 DEF q

\* The bed a call may name.
LEMMA BedType ==
    ASSUME Typed, NEW bed \in {None} \cup DOMAIN tracks
    PROVE  /\ IdOrNone(bed) \in IdsOf(tracks) \cup {None}
           /\ IdOrNone(bed) = None <=> bed = None
           /\ bed # None => tracks[bed].nchan \in Nchans /\ tracks[bed].nchan \in Nat \ {0}
<1>1. DOMAIN tracks = 1..Len(tracks) /\ Len(tracks) \in Nat /\ IdsOf(tracks) \subseteq Ids
  BY TypedTracks
<1>2. \A i \in 1..Len(tracks) : IdAt(i) \in IdsOf(tracks) /\ tracks[i].nchan \in Nchans
  BY TypedTracks, TrackFields DEF Typed
<1>3. None \notin Ids
  BY DEF None, Ids
<1>4. \A n \in Nchans : n \in Nat \ {0}
  BY DEF Nchans
<1>5. CASE bed = None
  BY <1>5 DEF IdOrNone
<1>6. CASE bed # None
  <2>1. bed \in 1..Len(tracks) /\ IdOrNone(bed) = IdAt(bed)
    BY <1>1, <1>6 DEF IdOrNone
  <2> QED
    BY <1>1, <1>2, <1>3, <1>4, <1>6, <2>1
<1> QED
  BY <1>5, <1>6

\* The atmos-send-layout target keeps the types, also when an object is no track.
LEMMA RenderAtmosLayoutTyped == ASSUME Typed, RenderAtmosLayout PROVE Typed'
<1>1. PICK r \in Buses, bed \in Beds, w \in Layouts, objs \in ObjectLists :
        LET bedW  == IF bed = None THEN w ELSE tracks[bed].nchan
            new   == AtmosSends(IdOrNone(bed), bedW, At(Reached(objs, tracks)))
        IN  /\ r \in DOMAIN tracks
            /\ bed \in {None} \cup DOMAIN tracks
            /\ tracks' = Widened(tracks, r, bedW + Len(objs))
            /\ receives' = [receives EXCEPT ![IdAt(r)] = @ \o Created(IdAt(r), new)]
  BY DEF RenderAtmosLayout
<1> DEFINE bedW == IF bed = None THEN w ELSE tracks[bed].nchan
           good == Reached(objs, tracks)
           I    == IdsOf(tracks)
           new  == AtmosSends(IdOrNone(bed), bedW, At(good))
           bus  == IdAt(r)
           made == Created(bus, new)
           q    == receives[bus] \o made
<1>2. r \in 1..Len(tracks) /\ bus \in I /\ I \subseteq Ids /\ receives[bus] \in Seq(From(I))
  BY <1>1, TypedTracks
<1>3. bedW \in Nat /\ IdOrNone(bed) \in I \cup {None}
  BY <1>1, BedType, WidthTypes
<1>4. objs \in Seq(Nat \ {0}) /\ Len(objs) \in Nat
  BY BoundsAssumption, SeqDomain
<1>5. good \in Seq(DOMAIN tracks)
  <2>1. good \in Seq((Nat \ {0}) \cap DOMAIN tracks)
    BY <1>4, ReachedType
  <2> HIDE DEF good
  <2>2. \A k \in DOMAIN good : good[k] \in DOMAIN tracks
    BY <2>1, SeqDomain
  <2> QED
    BY <2>1, <2>2, SeqOfWhatItHolds
<1>6. receives' = [receives EXCEPT ![bus] = q] /\ tracks' = Widened(tracks, r, bedW + Len(objs))
  BY <1>1
<1> HIDE DEF good, bedW, bus, I
<1>7. At(good) \in [1..Len(good) -> I] /\ Len(good) \in Nat
  BY <1>5, AtType DEF I
<1>8. new \in Seq(From(I))
  <2> DEFINE ids == At(good)
  <2>1. ids \in [1..Len(good) -> I] /\ Len(good) \in Nat
    BY <1>7
  <2> HIDE DEF ids
  <2>2. AtmosSends(IdOrNone(bed), bedW, ids) \in Seq(From(I))
    BY <1>2, <1>3, <2>1, AtmosProperties DEF AtmosAs
  <2> QED
    BY <2>2 DEF ids
<1> HIDE DEF new
<1>9. made \in Seq(From(I))
  BY <1>8, CreatedType
<1> HIDE DEF made
<1>10. q \in Seq(From(I))
  BY <1>2, <1>9, ConcatProperties
<1>11. bedW + Len(objs) \in Nat
  BY <1>3, <1>4
<1>12. Listed(tracks') /\ IdsOf(tracks') = I
  BY <1>2, <1>6, <1>11, WidenedTracks DEF Typed, I
<1> HIDE DEF q
<1> QED
  BY <1>2, <1>6, <1>10, <1>12, SendsOnly DEF I

\* The tracks spatialize_stems adds.
StemTracks(w, scene, monitor, reuse) ==
    (IF reuse THEN <<>> ELSE <<Track(IF scene THEN SceneName(w) ELSE BedName(w), w)>>)
      \o (IF monitor THEN <<Track(Monitor, IF scene THEN w ELSE 2)>> ELSE <<>>)

\* The tracks spatialize_stems adds.
LEMMA StemTracksType ==
    ASSUME NEW w \in Layouts, NEW scene \in BOOLEAN, NEW monitor \in BOOLEAN, NEW reuse \in BOOLEAN
    PROVE  LET new == StemTracks(w, scene, monitor, reuse)
           IN  /\ new \in Seq(NewTracks)
               /\ Len(new) = (IF reuse THEN 0 ELSE 1) + (IF monitor THEN 1 ELSE 0)
<1> DEFINE t == Track(IF scene THEN SceneName(w) ELSE BedName(w), w)
           u == Track(Monitor, IF scene THEN w ELSE 2)
           a == IF reuse THEN <<>> ELSE <<t>>
           b == IF monitor THEN <<u>> ELSE <<>>
<1>1. t \in NewTracks /\ u \in NewTracks
  BY WidthTypes DEF Track, NewTracks
<1> HIDE DEF t, u, NewTracks
<1>2. /\ <<t>> \in Seq(NewTracks) /\ Len(<<t>>) = 1 /\ <<u>> \in Seq(NewTracks) /\ Len(<<u>>) = 1
      /\ <<>> \in Seq(NewTracks) /\ Len(<<>>) = 0
  BY <1>1
<1>3. a \in Seq(NewTracks) /\ Len(a) = IF reuse THEN 0 ELSE 1
  BY <1>2
<1>4. b \in Seq(NewTracks) /\ Len(b) = IF monitor THEN 1 ELSE 0
  BY <1>2
<1>5. StemTracks(w, scene, monitor, reuse) = a \o b
  BY DEF StemTracks, t, u
<1> HIDE DEF a, b
<1> QED
  BY <1>3, <1>4, <1>5, ConcatProperties

\* A bed or scene with its stems has the right types, whether reused or new.
LEMMA SpatializeTyped ==
    ASSUME Typed, NEW w \in Layouts, NEW stems \in Seq(Nat \ {0}), NEW scene \in BOOLEAN,
           NEW lfe \in BOOLEAN, NEW monitor \in BOOLEAN, Spatialize(w, stems, scene, lfe, monitor)
    PROVE  Typed'
<1> DEFINE name  == IF scene THEN SceneName(w) ELSE BedName(w)
           reuse == Named(name) # {}
           new   == StemTracks(w, scene, monitor, reuse)
           added == Inserted(new)
           bus   == IF reuse THEN IdAt(Min(Named(name))) ELSE added[Len(tracks) + 1].id
           mon   == added[Len(added)].id
           count == IF reuse THEN Len(tracks) ELSE Len(tracks) + 1
           K     == {k \in DOMAIN stems : stems[k] <= count}
           found == Picked(stems, K)
           sends == [k \in DOMAIN found |->
                       IF lfe /\ ~scene THEN Wire(added[found[k]].id, 1, 3, TRUE)
                                        ELSE Wire(added[found[k]].id, w, 0, FALSE)]
           made  == Created(bus, sends)
           wet   == Wire(bus, IF scene THEN w ELSE 2, 0, FALSE)
           I     == IdsOf(tracks)
           J     == IdsOf(added)
<1>1. CanInsert(Len(new))
  BY DEF Spatialize, StemTracks
<1>2. CASE UNCHANGED <<tracks, receives>>
  BY <1>2 DEF Typed
<1>3. CASE /\ tracks' = [i \in DOMAIN added |-> IF scene /\ i \in Range(found)
                                                THEN [added[i] EXCEPT !.nchan = w] ELSE added[i]]
           /\ receives' = [d \in Ids |->
                IF d = bus THEN receives[d] \o made
                ELSE IF monitor /\ d = mon THEN <<wet>> ELSE receives[d]]
  <2> HIDE DEF reuse
  <2>1. reuse \in BOOLEAN
    BY DEF reuse
  <2>2. /\ new \in Seq(NewTracks)
        /\ Len(new) = (IF reuse THEN 0 ELSE 1) + (IF monitor THEN 1 ELSE 0)
    BY <2>1, StemTracksType
  <2> HIDE DEF new
  <2>3. /\ Listed(added) /\ Len(added) = Len(tracks) + Len(new)
        /\ J = I \cup {Ascending(Unused)[k] : k \in 1..Len(new)}
    BY <1>1, <2>2, TypedTracks, InsertedTracks
  <2> HIDE DEF added
  <2>4. /\ Len(tracks) \in Nat /\ DOMAIN added = 1..Len(added)
        /\ \A i \in 1..Len(added) : added[i] \in TrackRecords /\ added[i].id \in J
        /\ J \subseteq Ids /\ I \subseteq J
    BY <2>3, TypedTracks, TrackFields
  <2>5. w \in Nat /\ w \in Nchans
    BY WidthTypes
  <2>6. bus \in J
    <3>1. CASE reuse
      <4>1. Named(name) \subseteq 1..Len(tracks) /\ Named(name) # {}
        BY <3>1, TypedTracks DEF Named, reuse
      <4>2. Named(name) \in SUBSET Nat
        BY <2>4, <4>1
      <4>3. Min(Named(name)) \in 1..Len(tracks)
        BY <4>1, <4>2, MinProperties
      <4> QED
        BY <2>4, <3>1, <4>3, TypedTracks
    <3>2. CASE ~reuse
      <4>1. Len(tracks) + 1 \in 1..Len(added)
        BY <2>2, <2>3, <2>4, <3>2
      <4> QED
        BY <2>4, <3>2, <4>1
    <3> QED
      BY <3>1, <3>2
  <2>7. monitor => mon \in J
    <3>1. monitor => Len(added) \in 1..Len(added)
      BY <2>1, <2>2, <2>3, <2>4
    <3> QED
      BY <2>4, <3>1
  <2>8. /\ found \in Seq(Nat \ {0}) /\ Len(found) \in Nat /\ DOMAIN found = 1..Len(found)
        /\ \A k \in 1..Len(found) : found[k] \in 1..Len(added)
    <3>1. K \in SUBSET (1..Len(stems))
      BY SeqDomain
    <3>2. \A k \in K : stems[k] \in Nat \ {0} /\ stems[k] <= count
      BY SeqDomain
    <3>3. count <= Len(added) /\ count \in Nat /\ Len(added) \in Nat
      BY <2>1, <2>2, <2>3, <2>4
    <3> HIDE DEF K, count
    <3>4. /\ found \in Seq(Nat \ {0}) /\ Len(found) \in Nat /\ DOMAIN found = 1..Len(found)
          /\ Selects(Ascending(K), found, stems, K)
      BY <3>1, PickedSelects
    <3> HIDE DEF found
    <3>5. \A k \in 1..Len(found) : Ascending(K)[k] \in K /\ found[k] = stems[Ascending(K)[k]]
      BY <3>4, SelectedElement
    <3>6. \A k \in 1..Len(found) : found[k] \in 1..Len(added)
      BY <3>2, <3>3, <3>5
    <3> QED
      BY <3>4, <3>6
  <2> HIDE DEF found, bus, mon, I, J
  <2>9. sends \in Seq(From(J))
    <3>1. ASSUME NEW k \in 1..Len(found)
          PROVE  /\ Wire(added[found[k]].id, 1, 3, TRUE) \in From(J)
                 /\ Wire(added[found[k]].id, w, 0, FALSE) \in From(J)
      <4>1. added[found[k]].id \in J
        BY <2>4, <2>8
      <4> QED
        BY <2>4, <2>5, <4>1, WireType
    <3>2. sends \in [1..Len(found) -> From(J)]
      BY <2>8, <3>1
    <3> HIDE DEF sends
    <3> QED
      BY <2>8, <3>2, FcnIsSeq
  <2> HIDE DEF sends
  <2>10. made \in Seq(From(J))
    BY <2>9, CreatedType
  <2>11. <<wet>> \in Seq(From(J))
    <3>1. (IF scene THEN w ELSE 2) \in Nat
      BY <2>5
    <3>2. wet \in From(J)
      BY <2>4, <2>6, <3>1, WireType
    <3> HIDE DEF wet
    <3> QED
      BY <3>2
  <2>12. Routed(J, receives)
    BY <2>4, RoutedMore DEF Typed, I
  <2> HIDE DEF made, wet
  <2>13. Routed(J, receives')
    <3>1. receives \in [Ids -> Seq(From(J))] /\ \A d \in Ids \ J : receives[d] = <<>>
      BY <2>12 DEF Routed
    <3>2. ASSUME NEW d \in Ids PROVE receives[d] \o made \in Seq(From(J))
      <4>1. receives[d] \in Seq(From(J))
        BY <3>1
      <4> QED
        BY <2>10, <4>1, ConcatProperties
    <3>3. receives' \in [Ids -> Seq(From(J))]
      BY <1>3, <2>11, <3>1, <3>2
    <3>4. \A d \in Ids \ J : receives'[d] = <<>>
      BY <1>3, <2>6, <2>7, <3>1
    <3> QED
      BY <3>3, <3>4 DEF Routed
  <2>14. Listed(tracks') /\ IdsOf(tracks') = J
    <3>1. ASSUME NEW t \in TrackRecords
          PROVE  [t EXCEPT !.nchan = w] \in TrackRecords /\ [t EXCEPT !.nchan = w].id = t.id
      BY <2>5 DEF TrackRecords
    <3>2. \A i \in 1..Len(added) :
            tracks'[i] = IF scene /\ i \in Range(found) THEN [added[i] EXCEPT !.nchan = w] ELSE added[i]
      BY <1>3, <2>4
    <3>3. \A i \in 1..Len(added) : tracks'[i] \in TrackRecords /\ tracks'[i].id = added[i].id
      BY <2>4, <3>1, <3>2
    <3>4. tracks' \in [1..Len(added) -> TrackRecords]
      <4>1. tracks' = [i \in 1..Len(added) |-> tracks'[i]]
        BY <1>3, <2>4
      <4> QED
        BY <3>3, <4>1
    <3> QED
      BY <2>3, <3>3, <3>4, Remade DEF J
  <2> QED
    BY <2>13, <2>14 DEF Typed
<1> QED
  BY <1>2, <1>3 DEF Spatialize, StemTracks

\* spatialize_stems keeps the types.
LEMMA SpatializeStemsTyped == ASSUME Typed, SpatializeStems PROVE Typed'
<1>1. PICK w \in Layouts, stems \in ObjectLists, scene \in BOOLEAN, lfe \in BOOLEAN, monitor \in BOOLEAN :
        Spatialize(w, stems, scene, lfe, monitor)
  BY DEF SpatializeStems
<1>2. stems \in Seq(Nat \ {0})
  BY BoundsAssumption
<1> QED
  BY <1>1, <1>2, SpatializeTyped

-----------------------------------------------------------------------------
(* orchestrate_sends, piece by piece. *)

\* The objects are discovered in the order of their numbers, and of their positions.
Objects == {i \in DOMAIN tracks : IsObject(i)}

ByNumber == {p \in Objects \X Objects :
               \/ ObjectNumber(p[1]) < ObjectNumber(p[2])
               \/ ObjectNumber(p[1]) = ObjectNumber(p[2]) /\ p[1] < p[2]}

\* Number and position order the tracks called "Object N".
LEMMA ObjectsInOrder ==
    ASSUME Typed
    PROVE  /\ Discovered = Sorted(Objects, ByNumber)
           /\ Objects \subseteq DOMAIN tracks /\ IsFiniteSet(Objects)
           /\ \A i \in Objects : ObjectNumber(i) \in Nat
           /\ Orders(ByNumber, Objects)
<1>1. Len(tracks) \in Nat /\ DOMAIN tracks = 1..Len(tracks)
  BY TypedTracks
<1>2. Objects \subseteq DOMAIN tracks /\ Objects \in SUBSET Nat
  BY <1>1 DEF Objects
<1>3. IsFiniteSet(Objects)
  <2>1. IsFiniteSet(DOMAIN tracks)
    BY <1>1, FS_Interval
  <2> QED
    BY <1>2, <2>1, FS_Subset
<1>4. \A i \in DOMAIN tracks : ObjectNumber(i) \in Nat
  <2>1. \A i \in DOMAIN tracks : tracks[i].name \in Names
    BY <1>1, TrackFields DEF Typed
  <2>2. \A x \in Names : x[2] \in Nat
    BY DEF Names
  <2> QED
    BY <2>1, <2>2 DEF ObjectNumber
<1>5. Discovered = Sorted(Objects, ByNumber)
  BY DEF Discovered, Objects, ByNumber
<1>6. \A x, y \in Objects :
        <<x, y>> \in ByNumber <=> \/ ObjectNumber(x) < ObjectNumber(y)
                                  \/ ObjectNumber(x) = ObjectNumber(y) /\ x < y
  BY DEF ByNumber
<1>7. \A i \in Objects : ObjectNumber(i) \in Nat /\ i \in Nat
  BY <1>2, <1>4
<1>8. Orders(ByNumber, Objects)
  <2>1. \A x \in Objects : <<x, x>> \notin ByNumber
    BY <1>6, <1>7
  <2>2. \A x, y \in Objects : x # y => <<x, y>> \in ByNumber \/ <<y, x>> \in ByNumber
    BY <1>6, <1>7
  <2>3. \A x, y, z \in Objects : <<x, y>> \in ByNumber /\ <<y, z>> \in ByNumber => <<x, z>> \in ByNumber
    BY <1>6, <1>7
  <2> QED
    BY <2>1, <2>2, <2>3 DEF Orders
<1> QED
  BY <1>2, <1>3, <1>5, <1>7, <1>8

\* What is discovered is in the list.
LEMMA DiscoveredType ==
    ASSUME Typed
    PROVE  Discovered \in Seq(DOMAIN tracks)
<1>1. /\ Cardinality(Objects) \in Nat
      /\ Discovered \in [1..Cardinality(Objects) -> Objects]
  BY ObjectsInOrder, SortedProperties
<1> DEFINE c == Cardinality(Objects)
           D == DOMAIN tracks
<1>2. Discovered \in [1..c -> D]
  BY <1>1, ObjectsInOrder
<1>3. c \in Nat
  BY <1>1
<1> HIDE DEF c, D
<1>4. Discovered \in Seq(D)
  BY <1>2, <1>3, FcnIsSeq
<1> QED
  BY <1>4 DEF D

\* A roster of tracks of I.
RosterOf(r, I) ==
    /\ Len(r) \in Nat /\ DOMAIN r = 1..Len(r)
    /\ Apart(r)
    /\ \A k \in 1..Len(r) : r[k].src \in I /\ r[k].chan \in Nat /\ r[k].width \in Nat \ {0}

\* The roster of tracks among I.
LEMMA RosterType ==
    ASSUME NEW I, NEW bed \in I \cup {None}, NEW bedW \in Nat, NEW objs, Len(objs) \in Nat,
           \A k \in 1..Len(objs) : objs[k] \in I
    PROVE  RosterOf(Roster(bed, bedW, objs), I)
<1> DEFINE R == Roster(bed, bedW, objs)
           l == Lead(bed, bedW)
           n == Len(objs)
<1>1. Entries(bed, bedW, objs)
  BY RosterEntries
<1>2. /\ Len(R) = l + n /\ Len(R) \in Nat /\ DOMAIN R = 1..Len(R) /\ Apart(R)
      /\ \A k \in 1..Len(R) : R[k].chan \in Nat /\ R[k].width \in Nat \ {0}
  BY RosterApart
<1>3. /\ l = 1 => R[1] = [src |-> bed, chan |-> 0, width |-> bedW]
      /\ \A k \in 1..n : R[l + k] = [src |-> objs[k], chan |-> Base(bed, bedW) + k - 1, width |-> 1]
  BY <1>1 DEF Entries
<1>4. l \in {0, 1} /\ (l = 1 => bed \in I)
  BY DEF Lead
<1> HIDE DEF R, l
<1>5. l = 1 => R[1].src \in I
  BY <1>3, <1>4
<1>6. ASSUME NEW k \in 1..n PROVE R[l + k].src \in I
  <2>1. R[l + k] = [src |-> objs[k], chan |-> Base(bed, bedW) + k - 1, width |-> 1]
    BY <1>3
  <2>2. objs[k] \in I
    OBVIOUS
  <2> QED
    BY <2>1, <2>2
<1>7. ASSUME NEW k \in 1..Len(R) PROVE R[k].src \in I
  <2>1. CASE k = 1 /\ l = 1
    BY <1>5, <2>1
  <2>2. CASE ~(k = 1 /\ l = 1)
    <3>1. k - l \in 1..n /\ l + (k - l) = k
      BY <1>2, <1>4, <2>2
    <3> QED
      BY <1>6, <3>1
  <2> QED
    BY <2>1, <2>2
<1> QED
  BY <1>2, <1>7 DEF RosterOf, R

\* Where reconcile puts the entries: each at a receive of its source that has audio, no
\* two at the same one; the strays are the others that have audio, and an entry goes
\* without a receive only if no stray is of its source.
Placed(at, strays, roster, rs) ==
    /\ at \in [1..Len(roster) -> 0..Len(rs)] /\ Len(at) = Len(roster)
    /\ \A k \in 1..Len(roster) : at[k] # None =>
         /\ at[k] \in 1..Len(rs)
         /\ rs[at[k]].src = roster[k].src /\ rs[at[k]].srcChan # NoAudio
    /\ \A j, k \in 1..Len(roster) : at[j] = at[k] /\ at[j] # None => j = k
    /\ strays \subseteq 1..Len(rs)
    /\ \A i \in 1..Len(rs) : i \in strays <=> /\ rs[i].srcChan # NoAudio
                                              /\ \A k \in 1..Len(roster) : at[k] # i
    /\ \A k \in 1..Len(roster) : at[k] = None => \A i \in strays : rs[i].src # roster[k].src

\* reconcile places the entries of a roster on the receives of a bus.
LEMMA ReconcilePlaces ==
    ASSUME NEW T, NEW rs \in Seq(T), NEW roster, Len(roster) \in Nat
    PROVE  LET recon == Reconcile(roster, Decoded(rs))
           IN  Placed(recon.at, recon.strays, roster, rs)
<1> DEFINE existing == Decoded(rs)
           recon == Reconcile(roster, existing)
           at == recon.at
           strays == recon.strays
           n == Len(roster)
<1>1. Len(rs) \in Nat /\ DOMAIN rs = 1..Len(rs)
  BY SeqDomain
<1>2. DOMAIN existing = 1..Len(rs) /\ \A i \in 1..Len(rs) : existing[i] = Decode(rs[i])
  BY <1>1 DEF Decoded
<1>3. \A i \in 1..Len(rs) : /\ existing[i].src = rs[i].src
                            /\ existing[i].audio <=> rs[i].srcChan # NoAudio
  <2>1. \A x : Decode(x).src = x.src /\ (Decode(x).audio <=> x.srcChan # NoAudio)
    BY DEF Decode
  <2> HIDE DEF existing
  <2> QED
    BY <1>2, <2>1
<1> HIDE DEF existing
<1>4. Matched(recon, n, roster, existing)
  BY <1>1, <1>2, ReconcileMatches
<1> HIDE DEF recon
<1>5. /\ recon.at \in Seq(Nat) /\ Len(at) = n
      /\ \A k \in 1..n : \/ at[k] = None
                         \/ at[k] \in Audio(existing) /\ existing[at[k]].src = roster[k].src
      /\ \A j, k \in 1..n : at[j] = at[k] /\ at[j] # None => j = k
      /\ strays = {i \in Audio(existing) : \A k \in 1..n : at[k] # i}
      /\ \A k \in 1..n : at[k] = None => \A i \in strays : existing[i].src # roster[k].src
  BY <1>4 DEF Matched, Reconciled
<1>6. Audio(existing) = {i \in 1..Len(rs) : rs[i].srcChan # NoAudio}
  BY <1>2, <1>3 DEF Audio
<1> HIDE DEF at, strays
<1>7. at \in Seq(Nat) /\ at \in [1..n -> Nat]
  <2>1. at \in Seq(Nat)
    BY <1>5 DEF at
  <2> QED
    BY <1>5, <2>1, LenProperties
<1>8. \A k \in 1..n : at[k] # None => at[k] \in 1..Len(rs)
  BY <1>5, <1>6
<1>9. at \in [1..n -> 0..Len(rs)]
  BY <1>1, <1>7, <1>8 DEF None
<1>10. \A k \in 1..n : at[k] # None => rs[at[k]].src = roster[k].src /\ rs[at[k]].srcChan # NoAudio
  BY <1>3, <1>5, <1>6
<1>11. strays \subseteq 1..Len(rs)
  BY <1>5, <1>6
<1>12. \A i \in 1..Len(rs) : i \in strays <=> rs[i].srcChan # NoAudio /\ \A k \in 1..n : at[k] # i
  BY <1>5, <1>6
<1>13. \A k \in 1..n : at[k] = None => \A i \in strays : rs[i].src # roster[k].src
  BY <1>3, <1>5, <1>11
<1>14. Placed(at, strays, roster, rs)
  BY <1>5, <1>8, <1>9, <1>10, <1>11, <1>12, <1>13 DEF Placed
<1> QED
  BY <1>14 DEF at, strays, recon, existing

Entry(e) == Wire(e.src, e.width, e.chan, FALSE)

\* A fix rewrites the receive of an entry it does not fit, and no other.
FixedAs(fixed, I, rs, roster, at) ==
    /\ fixed \in Seq(From(I)) /\ Len(fixed) = Len(rs)
    /\ \A i \in 1..Len(rs) : (\A k \in 1..Len(roster) : at[k] # i) => fixed[i] = rs[i]
    /\ \A k \in 1..Len(roster) : at[k] # None =>
         \/ fixed[at[k]] = rs[at[k]] /\ Fits(roster[k], Decode(rs[at[k]]))
         \/ fixed[at[k]] = Entry(roster[k])

\* Fixing moves no send, leaves those that fit and those without an entry, and rewrites the rest.
LEMMA FixedProperties ==
    ASSUME NEW I, I \subseteq Ids, NEW rs \in Seq(From(I)), NEW roster, RosterOf(roster, I),
           NEW at, NEW strays, Placed(at, strays, roster, rs)
    PROVE  FixedAs(Fixed(rs, roster, at), I, rs, roster, at)
<1> DEFINE fixed == Fixed(rs, roster, at)
           n == Len(roster)
           m == Len(rs)
           Put(e) == Wire(e.src, e.width, e.chan, FALSE)
           One(e, x) == IF Fits(e, Decode(x)) THEN x ELSE Put(e)
           Of(i) == roster[CHOOSE k \in DOMAIN at : at[k] = i]
<1>1. m \in Nat /\ DOMAIN rs = 1..m /\ \A i \in 1..m : rs[i] \in From(I)
  BY SeqDomain
<1>2. DOMAIN at = 1..n
  BY DEF Placed
<1>3. fixed = [i \in 1..m |-> IF \E k \in 1..n : at[k] = i THEN One(Of(i), rs[i]) ELSE rs[i]]
  BY <1>1, <1>2 DEF Fixed
<1>4. ASSUME NEW k \in 1..n, at[k] # None
      PROVE  at[k] \in 1..m /\ Of(at[k]) = roster[k]
  <2>1. at[k] \in 1..m /\ \A j \in 1..n : at[j] = at[k] => j = k
    BY <1>4 DEF Placed
  <2>2. (CHOOSE j \in 1..n : at[j] = at[k]) = k
    BY <2>1
  <2> QED
    BY <1>2, <2>1, <2>2
<1>5. \A k \in 1..n : Put(roster[k]) \in From(I)
  BY WireType DEF RosterOf
<1> HIDE DEF fixed, m, n, Put, Of
<1>6. ASSUME NEW k \in 1..n, at[k] # None
      PROVE  \/ fixed[at[k]] = rs[at[k]] /\ Fits(roster[k], Decode(rs[at[k]]))
             \/ fixed[at[k]] = Put(roster[k])
  <2>1. at[k] \in 1..m /\ Of(at[k]) = roster[k]
    BY <1>4, <1>6
  <2>2. fixed[at[k]] = One(Of(at[k]), rs[at[k]])
    BY <1>3, <2>1
  <2>3. fixed[at[k]] = One(roster[k], rs[at[k]])
    BY <2>1, <2>2
  <2> QED
    BY <2>3
<1>7. ASSUME NEW i \in 1..m, \A k \in 1..n : at[k] # i PROVE fixed[i] = rs[i]
  BY <1>3, <1>7
<1>8. ASSUME NEW i \in 1..m PROVE fixed[i] \in From(I)
  <2>1. CASE \A k \in 1..n : at[k] # i
    BY <1>1, <1>7, <2>1
  <2>2. CASE ~\A k \in 1..n : at[k] # i
    <3>1. PICK k \in 1..n : at[k] = i
      BY <2>2
    <3>2. at[k] # None
      BY <1>1, <3>1 DEF None
    <3> QED
      BY <1>1, <1>5, <1>6, <3>1, <3>2
  <2> QED
    BY <2>1, <2>2
<1>9. fixed \in Seq(From(I)) /\ Len(fixed) = m
  <2>1. fixed \in [1..m -> From(I)]
    <3>1. fixed = [i \in 1..m |-> fixed[i]]
      BY <1>3
    <3> QED
      BY <1>8, <3>1
  <2> QED
    BY <1>1, <2>1, FcnIsSeq
<1> QED
  BY <1>6, <1>7, <1>9 DEF fixed, m, n, Put, Entry, FixedAs

\* One send is added for each entry that has no receive.
AddedAs(new, missing, I, roster, at) ==
    /\ new \in Seq(From(I)) /\ Len(new) \in Nat
    /\ missing \in [1..Len(new) -> {k \in 1..Len(roster) : at[k] = None}]
    /\ \A i, j \in 1..Len(new) : i < j => missing[i] < missing[j]
    /\ \A k \in 1..Len(roster) : at[k] = None => \E j \in 1..Len(new) : missing[j] = k
    /\ \A j \in 1..Len(new) : new[j] = Entry(roster[missing[j]])

\* What is added is the missing entries, in the roster's order.
LEMMA AddedProperties ==
    ASSUME NEW I, I \subseteq Ids, NEW rs \in Seq(From(I)), NEW roster, RosterOf(roster, I),
           NEW at, NEW strays, Placed(at, strays, roster, rs)
    PROVE  AddedAs(Added(roster, at), Ascending({k \in 1..Len(roster) : at[k] = None}), I, roster, at)
<1> DEFINE n == Len(roster)
           S == {k \in 1..n : at[k] = None}
           missing == Ascending(S)
           c == Cardinality(S)
           Put(e) == Wire(e.src, e.width, e.chan, FALSE)
           new == Added(roster, at)
<1>1. n \in Nat /\ DOMAIN at = 1..n
  BY DEF RosterOf, Placed
<1>2. S \in SUBSET Nat /\ IsFiniteSet(S)
  <2> DEFINE N == 1..n
  <2>1. S \in SUBSET N /\ N \subseteq Nat
    BY <1>1
  <2>2. IsFiniteSet(N)
    BY <1>1, FS_Interval
  <2> HIDE DEF N, S
  <2>3. IsFiniteSet(S)
    BY <2>1, <2>2, FS_Subset
  <2> QED
    BY <2>1, <2>3
<1> HIDE DEF S
<1>3. /\ c \in Nat /\ missing \in [1..c -> S]
      /\ \A i, j \in 1..c : i < j => missing[i] < missing[j]
      /\ \A k \in S : \E j \in 1..c : missing[j] = k
  BY <1>2, AscendingProperties
<1>4. \A k \in S : Put(roster[k]) \in From(I)
  BY WireType DEF RosterOf, S
<1> HIDE DEF missing, c, Put
<1>5. new = [j \in 1..c |-> Put(roster[missing[j]])]
  <2>1. DOMAIN missing = 1..c
    BY <1>3
  <2>2. missing = Ascending({k \in DOMAIN at : at[k] = None})
    BY <1>1 DEF missing, S
  <2> QED
    BY <2>1, <2>2 DEF Added, Put
<1> HIDE DEF new
<1>6. new \in [1..c -> From(I)]
  BY <1>3, <1>4, <1>5
<1>7. new \in Seq(From(I)) /\ Len(new) = c
  BY <1>3, <1>6, FcnIsSeq
<1>8. \A j \in 1..c : new[j] = Put(roster[missing[j]])
  BY <1>5
<1>9. \A k \in 1..n : at[k] = None => k \in S
  BY DEF S
<1>10. /\ new \in Seq(From(I)) /\ Len(new) \in Nat
       /\ missing \in [1..Len(new) -> S]
       /\ \A i, j \in 1..Len(new) : i < j => missing[i] < missing[j]
       /\ \A k \in 1..n : at[k] = None => \E j \in 1..Len(new) : missing[j] = k
       /\ \A j \in 1..Len(new) : new[j] = Put(roster[missing[j]])
  BY <1>3, <1>7, <1>8, <1>9
<1> QED
  BY <1>10 DEF new, missing, S, Put, n, Entry, AddedAs

\* What orchestrate_sends leaves on the bus.
Kept(rs, roster, at, strays, prune) ==
    IF prune THEN Pruned(Fixed(rs, roster, at), strays) ELSE Fixed(rs, roster, at)

Made(roster, at, bus, created) == Created(bus, IF created THEN Added(roster, at) ELSE <<>>)

BusAfter(rs, roster, at, strays, bus, prune, created) ==
    Kept(rs, roster, at, strays, prune) \o Made(roster, at, bus, created)

Keeps(kept, fixed, strays, prune) ==
    \E h, K : /\ Selects(h, kept, fixed, K) /\ K \subseteq 1..Len(fixed)
              /\ \A i \in 1..Len(fixed) : i \in K <=> (prune => i \notin strays)

Makes(made, added, bus, created) ==
    \E h, K : /\ Selects(h, made, added, K) /\ K \subseteq 1..Len(added)
              /\ \A j \in 1..Len(added) : j \in K <=> created /\ added[j].src # bus

\* Pruning leaves the sends that are no strays, in their order.
LEMMA KeptSelects ==
    ASSUME NEW T, NEW fixed \in Seq(T), NEW strays \in SUBSET (1..Len(fixed)), NEW prune \in BOOLEAN,
           NEW kept, kept = IF prune THEN Pruned(fixed, strays) ELSE fixed
    PROVE  kept \in Seq(T) /\ Keeps(kept, fixed, strays, prune)
<1>1. CASE prune
  <2> DEFINE K == (1..Len(fixed)) \ strays
  <2>1. kept = Pruned(fixed, strays)
    BY <1>1
  <2>2. kept \in Seq(T) /\ \E h : Selects(h, kept, fixed, K)
    BY <2>1, PrunedSelects
  <2>3. K \subseteq 1..Len(fixed) /\ \A i \in 1..Len(fixed) : i \in K <=> (prune => i \notin strays)
    BY <1>1
  <2> HIDE DEF K
  <2> QED
    BY <2>2, <2>3 DEF Keeps
<1>2. CASE ~prune
  <2> DEFINE K == 1..Len(fixed)
             h == [i \in K |-> i]
  <2>1. kept = fixed /\ Len(kept) \in Nat
    BY <1>2, LenProperties
  <2>2. Selects(h, kept, fixed, K)
    BY <2>1 DEF Selects
  <2>3. K \subseteq 1..Len(fixed) /\ \A i \in 1..Len(fixed) : i \in K <=> (prune => i \notin strays)
    BY <1>2
  <2> HIDE DEF K, h
  <2> QED
    BY <2>1, <2>2, <2>3 DEF Keeps
<1> QED
  BY <1>1, <1>2

\* Of the sends that are added REAPER makes those that come from another track.
LEMMA MadeSelects ==
    ASSUME NEW T, NEW added \in Seq(T), NEW bus, NEW created \in BOOLEAN,
           NEW made, made = Created(bus, IF created THEN added ELSE <<>>)
    PROVE  made \in Seq(T) /\ Makes(made, added, bus, created)
<1>0. Len(added) \in Nat /\ DOMAIN added = 1..Len(added)
  BY SeqDomain
<1>1. CASE created
  <2> DEFINE K == {k \in DOMAIN added : added[k].src # bus}
  <2>1. made = Picked(added, K)
    BY <1>1 DEF Created, NotFrom
  <2>2. K \in SUBSET (1..Len(added))
    BY <1>0
  <2>3. \A j \in 1..Len(added) : j \in K <=> created /\ added[j].src # bus
    BY <1>0, <1>1
  <2> HIDE DEF K
  <2>4. made \in Seq(T) /\ Selects(Ascending(K), made, added, K)
    BY <2>1, <2>2, PickedSelects
  <2> QED
    BY <2>2, <2>3, <2>4 DEF Makes
<1>2. CASE ~created
  <2> DEFINE e == <<>>
             K == {k \in DOMAIN e : e[k].src # bus}
             h == [i \in {} |-> i]
  <2>1. e \in Seq(T) /\ Len(e) = 0 /\ DOMAIN e = {}
    OBVIOUS
  <2>2. made = Picked(e, K)
    BY <1>2 DEF Created, NotFrom
  <2>3. K = {} /\ K \in SUBSET (1..Len(e))
    BY <2>1
  <2> HIDE DEF e, K
  <2>4. made \in Seq(T) /\ Len(made) \in Nat /\ Selects(Ascending(K), made, e, K)
    <3>1. /\ Picked(e, K) \in Seq(T) /\ Len(Picked(e, K)) \in Nat
          /\ Selects(Ascending(K), Picked(e, K), e, K)
      BY <2>1, <2>3, PickedSelects
    <3> QED
      BY <2>2, <3>1
  <2>5. 1..Len(made) = {}
    BY <2>3, <2>4 DEF Selects
  <2>6. Selects(h, made, added, {})
    BY <2>5 DEF Selects
  <2> QED
    BY <1>2, <2>4, <2>6 DEF Makes
<1> QED
  BY <1>1, <1>2

\* Where each send of the bus q comes from: one of the m receives rs, or the k-th entry,
\* for which it was added, as m + k.
Traced(h, q, rs, roster, at) ==
    /\ h \in [1..Len(q) -> 1..(Len(rs) + Len(roster))]
    /\ \A i, j \in 1..Len(q) : h[i] = h[j] => i = j
    /\ \A i \in 1..Len(q) : h[i] <= Len(rs) =>
         /\ (\A k \in 1..Len(roster) : at[k] # h[i]) => q[i] = rs[h[i]]
         /\ \A k \in 1..Len(roster) : at[k] = h[i] =>
              \/ q[i] = rs[h[i]] /\ Fits(roster[k], Decode(rs[h[i]]))
              \/ q[i] = Entry(roster[k])
    /\ \A i \in 1..Len(q), k \in 1..Len(roster) :
         h[i] = Len(rs) + k => at[k] = None /\ q[i] = Entry(roster[k])

\* Every receive is kept but the strays that are pruned, and every entry without a
\* receive has a send added for it if it could be.
Whole(h, q, rs, roster, at, strays, prune, complete) ==
    /\ \A o \in 1..Len(rs) : (prune => o \notin strays) <=> \E i \in 1..Len(q) : h[i] = o
    /\ complete => \A k \in 1..Len(roster) : at[k] = None => \E i \in 1..Len(q) : h[i] = Len(rs) + k

\* Where the elements of a concatenation come from.
LEMMA Together ==
    ASSUME NEW T, NEW a \in Seq(T), NEW b \in Seq(T)
    PROVE  /\ a \o b \in Seq(T) /\ Len(a \o b) = Len(a) + Len(b) /\ Len(a) \in Nat /\ Len(b) \in Nat
           /\ \A i \in 1..Len(a) : i \in 1..Len(a \o b) /\ (a \o b)[i] = a[i]
           /\ \A j \in 1..Len(b) : Len(a) + j \in 1..Len(a \o b) /\ (a \o b)[Len(a) + j] = b[j]
           /\ \A i \in 1..Len(a \o b) : i \in 1..Len(a) \/ i - Len(a) \in 1..Len(b)
<1>1. Len(a) \in Nat /\ Len(b) \in Nat
  BY LenProperties
<1>2. /\ a \o b \in Seq(T) /\ Len(a \o b) = Len(a) + Len(b)
      /\ \A i \in 1..(Len(a) + Len(b)) : (a \o b)[i] = IF i <= Len(a) THEN a[i] ELSE b[i - Len(a)]
  BY ConcatProperties
<1> DEFINE q == a \o b
<1> HIDE DEF q
<1>3. \A i \in 1..Len(a) : i \in 1..Len(q) /\ q[i] = a[i]
  BY <1>1, <1>2 DEF q
<1>4. ASSUME NEW j \in 1..Len(b) PROVE Len(a) + j \in 1..Len(q) /\ q[Len(a) + j] = b[j]
  <2>1. Len(a) + j \in 1..(Len(a) + Len(b)) /\ ~(Len(a) + j <= Len(a)) /\ (Len(a) + j) - Len(a) = j
    BY <1>1
  <2> QED
    BY <1>2, <2>1 DEF q
<1>5. \A i \in 1..Len(q) : i \in 1..Len(a) \/ i - Len(a) \in 1..Len(b)
  BY <1>1, <1>2 DEF q
<1> QED
  BY <1>1, <1>2, <1>3, <1>4, <1>5 DEF q

\* An orchestration promises every entry its send if it could create the missing ones,
\* none from the bus itself, or if none is missing.
Completes(complete, created, roster, at, bus) ==
    complete => \/ created /\ \A k \in 1..Len(roster) : roster[k].src # bus
                \/ \A k \in 1..Len(roster) : at[k] # None

\* The bus after a call: each send is traced to the receive or the entry it comes from.
LEMMA BusTraced ==
    ASSUME NEW I, I \subseteq Ids, NEW rs \in Seq(From(I)), NEW roster, RosterOf(roster, I),
           NEW at, NEW strays, Placed(at, strays, roster, rs), NEW bus,
           NEW prune \in BOOLEAN, NEW created \in BOOLEAN, NEW complete,
           Completes(complete, created, roster, at, bus)
    PROVE  LET q == BusAfter(rs, roster, at, strays, bus, prune, created)
           IN  /\ q \in Seq(From(I))
               /\ \E h : Traced(h, q, rs, roster, at)
                         /\ Whole(h, q, rs, roster, at, strays, prune, complete)
<1> DEFINE m == Len(rs)
           n == Len(roster)
           fixed == Fixed(rs, roster, at)
           added == Added(roster, at)
           missing == Ascending({k \in 1..n : at[k] = None})
           kept == Kept(rs, roster, at, strays, prune)
           made == Made(roster, at, bus, created)
           q == BusAfter(rs, roster, at, strays, bus, prune, created)
<1>0. /\ m \in Nat /\ n \in Nat
      /\ \A k \in 1..n : at[k] # None => at[k] \in 1..m
      /\ strays \in SUBSET (1..m)
  BY SeqDomain DEF RosterOf, Placed
<1>1. FixedAs(fixed, I, rs, roster, at)
  BY FixedProperties
<1>2. AddedAs(added, missing, I, roster, at)
  BY AddedProperties
<1>3. kept = IF prune THEN Pruned(fixed, strays) ELSE fixed
  BY DEF Kept
<1>4. made = Created(bus, IF created THEN added ELSE <<>>)
  BY DEF Made
<1>5. q = kept \o made
  BY DEF BusAfter
<1> HIDE DEF fixed, added, missing, kept, made, q
<1>6. /\ fixed \in Seq(From(I)) /\ Len(fixed) = m
      /\ \A i \in 1..m : (\A k \in 1..n : at[k] # i) => fixed[i] = rs[i]
      /\ \A k \in 1..n : at[k] # None =>
           \/ fixed[at[k]] = rs[at[k]] /\ Fits(roster[k], Decode(rs[at[k]]))
           \/ fixed[at[k]] = Entry(roster[k])
  BY <1>1 DEF FixedAs
<1>7. /\ added \in Seq(From(I)) /\ Len(added) \in Nat
      /\ missing \in [1..Len(added) -> {k \in 1..n : at[k] = None}]
      /\ \A i, j \in 1..Len(added) : i < j => missing[i] < missing[j]
      /\ \A k \in 1..n : at[k] = None => \E j \in 1..Len(added) : missing[j] = k
      /\ \A j \in 1..Len(added) : added[j] = Entry(roster[missing[j]])
  BY <1>2 DEF AddedAs
<1> HIDE DEF m, n
<1>8. kept \in Seq(From(I)) /\ Keeps(kept, fixed, strays, prune)
  BY <1>0, <1>3, <1>6, KeptSelects
<1>9. made \in Seq(From(I)) /\ Makes(made, added, bus, created)
  BY <1>4, <1>7, MadeSelects
<1>10. PICK h1, K1 : /\ Selects(h1, kept, fixed, K1) /\ K1 \subseteq 1..m
                     /\ \A i \in 1..m : i \in K1 <=> (prune => i \notin strays)
  BY <1>6, <1>8 DEF Keeps
<1>11. PICK h2, K2 : /\ Selects(h2, made, added, K2) /\ K2 \subseteq 1..Len(added)
                      /\ \A j \in 1..Len(added) : j \in K2 <=> created /\ added[j].src # bus
  BY <1>9 DEF Makes
<1> DEFINE L == Len(kept)
           M == Len(made)
<1>12. /\ q \in Seq(From(I)) /\ Len(q) = L + M /\ L \in Nat /\ M \in Nat
       /\ \A i \in 1..L : i \in 1..Len(q) /\ q[i] = kept[i]
       /\ \A j \in 1..M : L + j \in 1..Len(q) /\ q[L + j] = made[j]
       /\ \A i \in 1..Len(q) : i \in 1..L \/ i - L \in 1..M
  BY <1>5, <1>8, <1>9, Together
<1> DEFINE h == [i \in 1..Len(q) |-> IF i <= L THEN h1[i] ELSE m + missing[h2[i - L]]]
<1>13. \A i, j \in 1..L : h1[i] = h1[j] => i = j
  <2>1. \A i, j \in 1..L : i < j => h1[i] < h1[j]
    BY <1>10 DEF Selects
  <2>2. \A i \in 1..L : h1[i] \in Nat /\ i \in Nat
    <3>1. \A i \in 1..L : h1[i] \in K1
      BY <1>10 DEF Selects
    <3>2. \A i \in 1..L : i \in Nat
      BY <1>12
    <3>3. K1 \subseteq Nat
      <4>1. K1 \subseteq 1..m
        BY <1>10
      <4> QED
        BY <1>0, <4>1
    <3> HIDE DEF L
    <3> QED
      BY <3>1, <3>2, <3>3
  <2> QED
    BY <2>1, <2>2
<1>14. \A i, j \in 1..M : missing[h2[i]] = missing[h2[j]] => i = j
  <2>1. \A i, j \in 1..M : i < j => h2[i] < h2[j]
    BY <1>11 DEF Selects
  <2>2. \A i \in 1..M : h2[i] \in 1..Len(added) /\ h2[i] \in Nat /\ i \in Nat
    <3>1. \A i \in 1..M : h2[i] \in K2
      BY <1>11 DEF Selects
    <3>2. \A i \in 1..M : i \in Nat
      BY <1>12
    <3>3. K2 \subseteq 1..Len(added)
      BY <1>11
    <3>4. 1..Len(added) \subseteq Nat
      BY <1>7
    <3> HIDE DEF M
    <3> QED
      BY <3>1, <3>2, <3>3, <3>4
  <2>3. \A i \in 1..Len(added) : missing[i] \in Nat
    BY <1>0, <1>7
  <2>4. \A i, j \in 1..M : i < j => missing[h2[i]] < missing[h2[j]]
    BY <1>7, <2>1, <2>2
  <2> QED
    BY <2>2, <2>3, <2>4
<1> HIDE DEF L, M
<1>15. ASSUME NEW i \in 1..L
       PROVE  i \in 1..Len(q) /\ h[i] = h1[i] /\ h1[i] \in K1 /\ h[i] \in 1..m /\ q[i] = fixed[h[i]]
  <2>1. i \in 1..Len(q) /\ q[i] = kept[i] /\ i <= L
    BY <1>12
  <2>2. h1[i] \in K1 /\ kept[i] = fixed[h1[i]]
    BY <1>10 DEF Selects, L
  <2> QED
    BY <1>10, <2>1, <2>2
<1>16. ASSUME NEW j \in 1..M
       PROVE  /\ L + j \in 1..Len(q) /\ h[L + j] = m + missing[h2[j]]
              /\ missing[h2[j]] \in 1..n /\ at[missing[h2[j]]] = None
              /\ q[L + j] = Entry(roster[missing[h2[j]]])
  <2>1. L + j \in 1..Len(q) /\ q[L + j] = made[j] /\ ~(L + j <= L) /\ (L + j) - L = j
    BY <1>12
  <2>2. h2[j] \in K2 /\ made[j] = added[h2[j]]
    BY <1>11 DEF Selects, M
  <2>3. h2[j] \in 1..Len(added)
    BY <1>11, <2>2
  <2>4. missing[h2[j]] \in 1..n /\ at[missing[h2[j]]] = None /\ added[h2[j]] = Entry(roster[missing[h2[j]]])
    BY <1>7, <2>3
  <2> QED
    BY <2>1, <2>2, <2>4
<1>17. \A i \in 1..Len(q) : i \in 1..L \/ (i - L \in 1..M /\ L + (i - L) = i)
  BY <1>12
<1>18. DOMAIN h = 1..Len(q)
  OBVIOUS
<1> HIDE DEF h
<1>19. \A j \in 1..M : h[L + j] > m
  BY <1>0, <1>16
<1>20. h \in [1..Len(q) -> 1..(m + n)]
  <2>1. ASSUME NEW i \in 1..Len(q) PROVE h[i] \in 1..(m + n)
    <3>1. CASE i \in 1..L
      BY <1>0, <1>15, <3>1
    <3>2. CASE i - L \in 1..M /\ L + (i - L) = i
      BY <1>0, <1>16, <3>2
    <3> QED
      BY <1>17, <3>1, <3>2
  <2>2. h = [i \in 1..Len(q) |-> h[i]]
    BY <1>18 DEF h
  <2> QED
    BY <2>1, <2>2
<1>21. ASSUME NEW i \in 1..Len(q), NEW j \in 1..Len(q), h[i] = h[j] PROVE i = j
  <2>1. CASE i \in 1..L /\ j \in 1..L
    BY <1>13, <1>15, <1>21, <2>1 DEF L
  <2>2. CASE i \in 1..L /\ j - L \in 1..M /\ L + (j - L) = j
    BY <1>0, <1>15, <1>19, <1>21, <2>2
  <2>3. CASE i - L \in 1..M /\ L + (i - L) = i /\ j \in 1..L
    BY <1>0, <1>15, <1>19, <1>21, <2>3
  <2>4. CASE i - L \in 1..M /\ L + (i - L) = i /\ j - L \in 1..M /\ L + (j - L) = j
    <3>1. m + missing[h2[i - L]] = m + missing[h2[j - L]]
      BY <1>16, <1>21, <2>4
    <3>2. missing[h2[i - L]] \in 1..n /\ missing[h2[j - L]] \in 1..n
      BY <1>16, <2>4
    <3>3. missing[h2[i - L]] = missing[h2[j - L]]
      BY <1>0, <3>1, <3>2, SMTT(30)
    <3>4. i - L = j - L
      BY <1>14, <2>4, <3>3 DEF M
    <3> QED
      BY <2>4, <3>4
  <2> QED
    BY <1>17, <2>1, <2>2, <2>3, <2>4
<1>22. ASSUME NEW i \in 1..Len(q), h[i] <= m
       PROVE  /\ (\A k \in 1..n : at[k] # h[i]) => q[i] = rs[h[i]]
              /\ \A k \in 1..n : at[k] = h[i] =>
                   \/ q[i] = rs[h[i]] /\ Fits(roster[k], Decode(rs[h[i]]))
                   \/ q[i] = Entry(roster[k])
  <2>1. i \in 1..L
    <3>1. i - L \in 1..M /\ L + (i - L) = i => h[i] > m
      BY <1>19
    <3>2. h[i] \in Nat
      BY <1>0, <1>20
    <3> QED
      BY <1>0, <1>17, <1>22, <3>1, <3>2
  <2>2. q[i] = fixed[h[i]] /\ h[i] \in 1..m
    BY <1>15, <2>1
  <2>3. ASSUME NEW k \in 1..n, at[k] = h[i]
        PROVE  \/ q[i] = rs[h[i]] /\ Fits(roster[k], Decode(rs[h[i]]))
               \/ q[i] = Entry(roster[k])
    <3>1. at[k] # None
      BY <1>0, <2>2, <2>3 DEF None
    <3> QED
      BY <1>6, <2>2, <2>3, <3>1
  <2> QED
    BY <1>6, <2>2, <2>3
<1>23. ASSUME NEW i \in 1..Len(q), NEW k \in 1..n, h[i] = m + k
       PROVE  at[k] = None /\ q[i] = Entry(roster[k])
  <2>1. i - L \in 1..M /\ L + (i - L) = i
    <3>1. i \in 1..L => h[i] \in 1..m
      BY <1>15
    <3> QED
      BY <1>0, <1>17, <1>23, <3>1
  <2>2. h[i] = m + missing[h2[i - L]] /\ missing[h2[i - L]] \in 1..n
    BY <1>16, <2>1
  <2>3. missing[h2[i - L]] = k
    BY <1>0, <1>23, <2>2
  <2> QED
    BY <1>16, <2>1, <2>3
<1>24. Traced(h, q, rs, roster, at)
  BY <1>20, <1>21, <1>22, <1>23 DEF Traced, m, n
<1>25. ASSUME NEW o \in 1..m PROVE (prune => o \notin strays) <=> \E i \in 1..Len(q) : h[i] = o
  <2>1. ASSUME o \in K1 PROVE \E i \in 1..Len(q) : h[i] = o
    <3>1. PICK i \in 1..L : h1[i] = o
      BY <1>10, <2>1 DEF Selects, L
    <3> QED
      BY <1>15, <3>1
  <2>2. ASSUME NEW i \in 1..Len(q), h[i] = o PROVE o \in K1
    <3>1. i \in 1..L
      <4>1. i - L \in 1..M /\ L + (i - L) = i => h[i] > m
        BY <1>19
      <4> QED
        BY <1>0, <1>17, <2>2, <4>1
    <3> QED
      BY <1>15, <2>2, <3>1
  <2> QED
    BY <1>10, <2>1, <2>2
<1>26. ASSUME complete, NEW k \in 1..n, at[k] = None PROVE \E i \in 1..Len(q) : h[i] = m + k
  <2>1. created /\ \A x \in 1..n : roster[x].src # bus
    BY <1>26 DEF Completes, n
  <2>2. PICK j \in 1..Len(added) : missing[j] = k
    BY <1>7, <1>26
  <2>3. added[j].src = roster[k].src
    <3>1. added[j] = Entry(roster[k])
      BY <1>7, <2>2
    <3>2. \A e : Entry(e).src = e.src
      BY DEF Entry, Wire, Send
    <3> QED
      BY <3>1, <3>2
  <2>4. j \in K2
    BY <1>11, <2>1, <2>3
  <2>5. PICK i \in 1..M : h2[i] = j
    BY <1>11, <2>4 DEF Selects, M
  <2>6. L + i \in 1..Len(q) /\ h[L + i] = m + k
    BY <1>16, <2>2, <2>5
  <2> QED
    BY <2>6
<1>27. Whole(h, q, rs, roster, at, strays, prune, complete)
  BY <1>25, <1>26 DEF Whole, m, n
<1> QED
  BY <1>12, <1>24, <1>27 DEF q

\* What an orchestration l has done to the session: to the bus, whose sends are now q,
\* and to its width.
Orchestrated(l, roster, at, strays, h, q) ==
    /\ l.verb = "orchestrate"
    /\ l.bus \in IdsOf(tracks) /\ l.bed \in IdsOf(tracks) \cup {None}
    /\ l.bed = None => l.bedW = 0
    /\ l.bed # None => l.bedW \in Nchans
    /\ Len(l.objs) \in Nat /\ l.objs \in [1..Len(l.objs) -> IdsOf(tracks)]
    /\ ~Fatal(l.bedW, Len(l.objs))
    /\ l.clean \in BOOLEAN
    /\ roster = Roster(l.bed, l.bedW, l.objs) /\ RosterOf(roster, IdsOf(tracks))
    /\ Placed(at, strays, roster, receives[l.bus])
    /\ q \in Seq(From(IdsOf(tracks))) /\ receives' = [receives EXCEPT ![l.bus] = q]
    /\ Traced(h, q, receives[l.bus], roster, at)
    /\ Whole(h, q, receives[l.bus], roster, at, strays, l.clean, l.complete)
    /\ Listed(tracks') /\ IdsOf(tracks') = IdsOf(tracks)
    /\ \A i \in DOMAIN tracks' : tracks'[i].id = l.bus =>
         tracks'[i].nchan >= TotalChannels(l.bedW, Len(l.objs))

\* The bus, wide enough for the layout, in a list of tracks where no other has its id.
LEMMA BusWidened ==
    ASSUME Typed, NEW r \in 1..Len(tracks), NEW total \in 0..128,
           NEW us, us = Widened(tracks, r, total)
    PROVE  /\ Listed(us) /\ IdsOf(us) = IdsOf(tracks)
           /\ \A i \in DOMAIN us : us[i].id = IdAt(r) => us[i].nchan >= total
<1>1. /\ Listed(us) /\ IdsOf(us) = IdsOf(tracks)
      /\ Len(us) = Len(tracks)
      /\ \A j \in 1..Len(tracks) : us[j].id = tracks[j].id
      /\ us[r].nchan >= total
  BY WidenedTracks DEF Typed
<1>2. DOMAIN us = 1..Len(tracks)
  BY <1>1, TrackFields
<1>3. ASSUME NEW i \in DOMAIN us, us[i].id = IdAt(r) PROVE us[i].nchan >= total
  <2>1. us[i].id = us[r].id /\ r \in DOMAIN us
    BY <1>1, <1>2, <1>3 DEF IdAt
  <2>2. i = r
    BY <1>1, <2>1 DEF Listed
  <2> QED
    BY <1>1, <2>2
<1> QED
  BY <1>1, <1>3

\* What one orchestration does.
LEMMA OrchestrateParts ==
    ASSUME Typed, NEW r \in DOMAIN tracks, NEW bed \in {None} \cup DOMAIN tracks,
           NEW objs \in Seq(DOMAIN tracks), NEW prune \in BOOLEAN, NEW created \in BOOLEAN,
           Orchestrate(r, bed, objs, prune, created)
    PROVE  \E roster, at, strays, h, q : Orchestrated(last', roster, at, strays, h, q)
<1> DEFINE I      == IdsOf(tracks)
           bedId  == IdOrNone(bed)
           bedW   == IF bed = None THEN 0 ELSE tracks[bed].nchan
           ids    == At(objs)
           roster == Roster(bedId, bedW, ids)
           bus    == IdAt(r)
           rs     == receives[bus]
           recon  == Reconcile(roster, Decoded(rs))
           at     == recon.at
           strays == recon.strays
           q      == BusAfter(rs, roster, at, strays, bus, prune, created)
           total  == TotalChannels(bedW, Len(objs))
           complete == \/ created /\ bus \notin Range(ids) \cup {bedId}
                       \/ None \notin Range(at)
<1>1. /\ ~Fatal(bedW, Len(objs))
      /\ tracks' = Widened(tracks, r, total)
      /\ receives' = [receives EXCEPT ![bus] = q]
      /\ last' = [verb |-> "orchestrate", bus |-> bus, bed |-> bedId, bedW |-> bedW,
                  objs |-> ids, clean |-> prune, complete |-> complete]
  BY DEF Orchestrate, BusAfter, Kept, Made
<1>2. r \in 1..Len(tracks) /\ bus \in I /\ I \subseteq Ids /\ rs \in Seq(From(I))
  BY TypedTracks
<1>3. /\ bedId \in I \cup {None}
      /\ bed = None <=> bedId = None
      /\ bed # None => bedW \in Nchans /\ bedW \in Nat
      /\ bed = None => bedW = 0
  BY BedType
<1>4. ids \in [1..Len(objs) -> I] /\ Len(objs) \in Nat /\ Len(ids) = Len(objs)
  BY AtType
<1> HIDE DEF I, bedId, bedW, ids, bus, rs
<1>5. bedW \in Nat
  BY <1>3
<1>6. RosterOf(roster, I)
  <2>1. \A k \in 1..Len(ids) : ids[k] \in I
    BY <1>4
  <2>2. Len(ids) \in Nat
    BY <1>4
  <2> QED
    BY <1>3, <1>5, <2>1, <2>2, RosterType
<1>7. Len(roster) \in Nat
  BY <1>6 DEF RosterOf
<1>8. roster = Roster(bedId, bedW, ids)
  OBVIOUS
<1>9. Entries(bedId, bedW, ids)
  BY <1>4, <1>5, RosterEntries
<1> HIDE DEF roster
<1>10. Placed(at, strays, roster, rs)
  BY <1>2, <1>7, ReconcilePlaces
<1> HIDE DEF recon, at, strays
<1>11. Completes(complete, created, roster, at, bus)
  <2> SUFFICES ASSUME complete
               PROVE  \/ created /\ \A k \in 1..Len(roster) : roster[k].src # bus
                      \/ \A k \in 1..Len(roster) : at[k] # None
    BY DEF Completes
  <2>1. CASE created /\ bus \notin Range(ids) \cup {bedId}
    <3>1. /\ Len(roster) = Lead(bedId, bedW) + Len(ids)
          /\ Lead(bedId, bedW) = 1 => roster[1].src = bedId
          /\ \A k \in 1..Len(ids) : roster[Lead(bedId, bedW) + k].src = ids[k]
      <4>1. ASSUME NEW k \in 1..Len(ids) PROVE roster[Lead(bedId, bedW) + k].src = ids[k]
        <5>1. roster[Lead(bedId, bedW) + k]
                = [src |-> ids[k], chan |-> Base(bedId, bedW) + k - 1, width |-> 1]
          BY <1>8, <1>9 DEF Entries
        <5> QED
          BY <5>1
      <4> QED
        BY <1>8, <1>9, <4>1 DEF Entries
    <3>2. \A k \in 1..Len(ids) : ids[k] # bus
      BY <1>4, <2>1 DEF Range
    <3>3. ASSUME NEW k \in 1..Len(roster) PROVE roster[k].src # bus
      <4>1. Lead(bedId, bedW) \in {0, 1} /\ Len(ids) \in Nat
        BY <1>4 DEF Lead
      <4>2. \/ k = 1 /\ Lead(bedId, bedW) = 1
            \/ /\ k - Lead(bedId, bedW) \in 1..Len(ids)
               /\ Lead(bedId, bedW) + (k - Lead(bedId, bedW)) = k
        BY <1>7, <3>1, <4>1
      <4> QED
        BY <2>1, <3>1, <3>2, <4>2
    <3> QED
      BY <2>1, <3>3
  <2>2. CASE None \notin Range(at)
    <3>1. DOMAIN at = 1..Len(roster)
      BY <1>10 DEF Placed
    <3> QED
      BY <2>2, <3>1 DEF Range
  <2> QED
    BY <2>1, <2>2
<1> HIDE DEF complete
<1>12. /\ q \in Seq(From(I))
       /\ \E h : Traced(h, q, rs, roster, at) /\ Whole(h, q, rs, roster, at, strays, prune, complete)
  BY <1>2, <1>6, <1>10, <1>11, BusTraced
<1> HIDE DEF q
<1>13. PICK h : Traced(h, q, rs, roster, at) /\ Whole(h, q, rs, roster, at, strays, prune, complete)
  BY <1>12
<1>14. total \in 0..128
  <2> DEFINE n == Len(objs)
  <2>1. n \in Nat /\ ~(bedW + n > MaxRendererChannels)
    BY <1>1, <1>4 DEF Fatal, TotalChannels
  <2> HIDE DEF n
  <2>2. bedW + n \in 0..128
    BY <1>5, <2>1, LimitsAssumption
  <2> QED
    BY <2>2 DEF n, TotalChannels
<1>15. /\ Listed(tracks') /\ IdsOf(tracks') = I
       /\ \A i \in DOMAIN tracks' : tracks'[i].id = bus => tracks'[i].nchan >= total
  <2> HIDE DEF total
  <2> QED
    BY <1>1, <1>2, <1>14, BusWidened DEF bus, I
<1>16. /\ last'.verb = "orchestrate" /\ last'.bus = bus /\ last'.bed = bedId /\ last'.bedW = bedW
       /\ last'.objs = ids /\ last'.clean = prune /\ last'.complete = complete
  BY <1>1
<1>17. total = TotalChannels(last'.bedW, Len(last'.objs)) /\ ~Fatal(last'.bedW, Len(last'.objs))
  BY <1>1, <1>4, <1>16
<1>18. Orchestrated(last', roster, at, strays, h, q)
  <2>1. /\ last'.bus \in I /\ last'.bed \in I \cup {None}
        /\ last'.bed = None => last'.bedW = 0
        /\ last'.bed # None => last'.bedW \in Nchans
        /\ last'.clean \in BOOLEAN
    BY <1>2, <1>3, <1>16
  <2>2. Len(last'.objs) \in Nat /\ last'.objs \in [1..Len(last'.objs) -> I]
    BY <1>4, <1>16
  <2>3. roster = Roster(last'.bed, last'.bedW, last'.objs)
    BY <1>8, <1>16
  <2>4. /\ Placed(at, strays, roster, receives[last'.bus])
        /\ Traced(h, q, receives[last'.bus], roster, at)
        /\ Whole(h, q, receives[last'.bus], roster, at, strays, last'.clean, last'.complete)
    BY <1>10, <1>13, <1>16 DEF rs
  <2>5. receives' = [receives EXCEPT ![last'.bus] = q]
    BY <1>1, <1>16
  <2>6. \A i \in DOMAIN tracks' : tracks'[i].id = last'.bus =>
          tracks'[i].nchan >= TotalChannels(last'.bedW, Len(last'.objs))
    BY <1>15, <1>16, <1>17
  <2> HIDE DEF total
  <2> QED
    BY <1>6, <1>12, <1>15, <1>16, <1>17, <2>1, <2>2, <2>3, <2>4, <2>5, <2>6 DEF Orchestrated, I
<1> QED
  BY <1>18

\* What orchestrate_sends does, whether its objects were given or discovered.
LEMMA OrchestrateSendsDoes ==
    ASSUME Typed, OrchestrateSends
    PROVE  \E roster, at, strays, h, q : Orchestrated(last', roster, at, strays, h, q)
<1>1. PICK r \in Buses, bed \in Beds, given \in ObjectLists \cup {<<>>},
           prune \in BOOLEAN, created \in BOOLEAN :
        /\ r \in DOMAIN tracks
        /\ bed \in {None} \cup DOMAIN tracks
        /\ Orchestrate(r, bed, IF given = <<>> THEN Discovered ELSE given, prune, created)
  BY DEF OrchestrateSends
<1>2. CASE given = <<>>
  <2>1. Orchestrate(r, bed, Discovered, prune, created)
    BY <1>1, <1>2
  <2>2. Discovered \in Seq(DOMAIN tracks)
    BY DiscoveredType
  <2> QED
    BY <1>1, <2>1, <2>2, OrchestrateParts
<1>3. CASE given # <<>>
  <2>1. Orchestrate(r, bed, given, prune, created)
    BY <1>1, <1>3
  <2>2. InRange(given)
    BY <2>1 DEF Orchestrate
  <2>3. given \in Seq(Nat \ {0})
    BY <1>3, BoundsAssumption
  <2>4. given \in Seq(DOMAIN tracks)
    BY <2>2, <2>3, SeqOfWhatItHolds DEF InRange
  <2> QED
    BY <1>1, <2>1, <2>4, OrchestrateParts
<1> QED
  BY <1>2, <1>3

\* orchestrate_sends keeps the types.
LEMMA OrchestrateSendsTyped == ASSUME Typed, OrchestrateSends PROVE Typed'
<1>1. PICK roster, at, strays, h, q : Orchestrated(last', roster, at, strays, h, q)
  BY OrchestrateSendsDoes
<1>2. /\ last'.bus \in IdsOf(tracks) /\ q \in Seq(From(IdsOf(tracks)))
      /\ receives' = [receives EXCEPT ![last'.bus] = q]
      /\ Listed(tracks') /\ IdsOf(tracks') = IdsOf(tracks)
  BY <1>1 DEF Orchestrated
<1> QED
  BY <1>2, SendsOnly

-----------------------------------------------------------------------------
(* The types of every session. *)

\* Every call keeps the types.
LEMMA NextTyped == ASSUME Typed, Next PROVE Typed'
<1>1. ASSUME TrackAdd PROVE Typed'
  BY <1>1, TrackAddTyped
<1>2. ASSUME TrackRemove PROVE Typed'
  BY <1>2, TrackRemoveTyped
<1>3. ASSUME TrackSetName PROVE Typed'
  BY <1>3, TrackSetNameTyped
<1>4. ASSUME SetTrackChannels PROVE Typed'
  BY <1>4, SetTrackChannelsTyped
<1>5. ASSUME BuildBed PROVE Typed'
  BY <1>5, BuildBedTyped
<1>6. ASSUME SendAdd PROVE Typed'
  BY <1>6, SendAddTyped
<1>7. ASSUME SendRemove PROVE Typed'
  BY <1>7, SendRemoveTyped
<1>8. ASSUME SendSetChannels PROVE Typed'
  BY <1>8, SendSetChannelsTyped
<1>9. ASSUME AuthorObjectBed PROVE Typed'
  BY <1>9, AuthorObjectBedTyped
<1>10. ASSUME SetupImmersive PROVE Typed'
  BY <1>10, SetupImmersiveTyped
<1>11. ASSUME RenderAtmosLayout PROVE Typed'
  BY <1>11, RenderAtmosLayoutTyped
<1>12. ASSUME SpatializeStems PROVE Typed'
  BY <1>12, SpatializeStemsTyped
<1>13. ASSUME OrchestrateSends PROVE Typed'
  BY <1>13, OrchestrateSendsTyped
<1> QED
  BY <1>1, <1>2, <1>3, <1>4, <1>5, <1>6, <1>7, <1>8, <1>9, <1>10, <1>11, <1>12, <1>13 DEF Next

\* Every call is counted.
LEMMA NextCounted == ASSUME calls \in 0..MaxCalls, Next PROVE calls' \in 0..MaxCalls
<1>1. Counted
  <2>1. SetupImmersive => Counted
    BY DEF SetupImmersive
  <2>2. SpatializeStems => Counted
    BY DEF SpatializeStems
  <2>3. OrchestrateSends => Counted
    BY DEF OrchestrateSends
  <2>4. AuthorObjectBed => Counted
    BY DEF AuthorObjectBed
  <2>5. RenderAtmosLayout => Counted
    BY DEF RenderAtmosLayout
  <2> QED
    BY <2>1, <2>2, <2>3, <2>4, <2>5
    DEF Next, TrackAdd, TrackRemove, TrackSetName, SetTrackChannels, BuildBed, SendAdd,
        SendRemove, SendSetChannels
<1> QED
  BY <1>1, BoundsAssumption DEF Counted

\* TypeOK in the form the lemmas use.
LEMMA TypedIsTypeOK == TypeOK <=> Typed /\ calls \in 0..MaxCalls
  BY SessionParts DEF TypeOK, Typed

\* Whatever is added, removed, renamed, widened, routed and built, in whatever order: no
\* two tracks of the session are the same one, no send leads from or to a track that is
\* gone, every width is one REAPER has and every channel code one a send can hold.
THEOREM TypeCorrect == Spec => []TypeOK
<1>1. Init => TypeOK
  <2> SUFFICES ASSUME Init PROVE TypeOK
    OBVIOUS
  <2>1. PICK b \in Beginnings : tracks = b.tracks /\ receives = b.receives
    BY DEF Init
  <2>2. Session(tracks, receives)
    BY <2>1, BeginningsAssumption
  <2>3. calls \in 0..MaxCalls
    BY BoundsAssumption DEF Init
  <2> QED
    BY <2>2, <2>3 DEF TypeOK
<1>2. TypeOK /\ [Next]_vars => TypeOK'
  <2> SUFFICES ASSUME TypeOK, [Next]_vars PROVE TypeOK'
    OBVIOUS
  <2>1. Typed /\ calls \in 0..MaxCalls
    BY TypedIsTypeOK
  <2>2. CASE Next
    <3>1. Typed' /\ calls' \in 0..MaxCalls
      BY <2>1, <2>2, NextTyped, NextCounted
    <3>2. Session(tracks', receives')
      BY <3>1, SessionParts DEF Typed
    <3> QED
      BY <3>1, <3>2 DEF TypeOK
  <2>3. CASE UNCHANGED vars
    BY <2>3 DEF TypeOK, vars
  <2> QED
    BY <2>2, <2>3
<1> QED
  BY <1>1, <1>2, PTL DEF Spec

-----------------------------------------------------------------------------
(* The sends of a bus after an orchestration, entry by entry. *)

\* The receives of a bus as they are read.
LEMMA DecodedProperties ==
    ASSUME NEW T, NEW rs \in Seq(T)
    PROVE  /\ DOMAIN Decoded(rs) = 1..Len(rs) /\ Len(rs) \in Nat
           /\ DOMAIN Decoded(rs) \subseteq Nat \ {0}
           /\ \A i \in 1..Len(rs) : Decoded(rs)[i] = Decode(rs[i])
           /\ Audio(Decoded(rs)) = {i \in 1..Len(rs) : rs[i].srcChan # NoAudio}
<1> DEFINE existing == Decoded(rs)
<1>1. Len(rs) \in Nat /\ DOMAIN rs = 1..Len(rs)
  BY SeqDomain
<1>2. DOMAIN existing = 1..Len(rs) /\ \A i \in 1..Len(rs) : existing[i] = Decode(rs[i])
  BY <1>1 DEF Decoded
<1>3. \A x : Decode(x).audio <=> x.srcChan # NoAudio
  BY DEF Decode
<1> HIDE DEF existing
<1>4. Audio(existing) = {i \in 1..Len(rs) : rs[i].srcChan # NoAudio}
  BY <1>2, <1>3 DEF Audio
<1>5. DOMAIN existing \subseteq Nat \ {0}
  BY <1>1, <1>2
<1> QED
  BY <1>1, <1>2, <1>4, <1>5 DEF existing

\* Where the send of each entry comes from: the receive it takes, or the entry itself.
Slots(roster, at, rs) == [k \in 1..Len(roster) |-> IF at[k] = None THEN Len(rs) + k ELSE at[k]]

\* No two entries have the same slot.
LEMMA SlotTypes ==
    ASSUME NEW I, NEW T, NEW rs \in Seq(T), NEW roster, RosterOf(roster, I),
           NEW at, NEW strays, Placed(at, strays, roster, rs)
    PROVE  LET slot == Slots(roster, at, rs)
           IN  /\ slot \in [1..Len(roster) -> 1..(Len(rs) + Len(roster))]
               /\ \A j, k \in 1..Len(roster) : slot[j] = slot[k] => j = k
               /\ \A k \in 1..Len(roster) : at[k] = None => slot[k] = Len(rs) + k
               /\ \A k \in 1..Len(roster) : at[k] # None => slot[k] = at[k] /\ slot[k] \in 1..Len(rs)
<1> DEFINE slot == Slots(roster, at, rs)
           m == Len(rs)
           n == Len(roster)
<1>1. m \in Nat /\ n \in Nat
  BY SeqDomain DEF RosterOf
<1>2. \A k \in 1..n : at[k] # None => at[k] \in 1..m
  BY DEF Placed
<1>3. \A j, k \in 1..n : at[j] = at[k] /\ at[j] # None => j = k
  BY DEF Placed
<1>4. /\ DOMAIN slot = 1..n
      /\ \A k \in 1..n : at[k] = None => slot[k] = m + k
      /\ \A k \in 1..n : at[k] # None => slot[k] = at[k]
  BY DEF Slots
<1>5. slot = [k \in 1..n |-> slot[k]]
  BY <1>4 DEF Slots
<1> HIDE DEF slot, m, n
<1>6. ASSUME NEW k \in 1..n PROVE slot[k] \in 1..(m + n)
  <2>1. CASE at[k] = None
    BY <1>1, <1>4, <2>1
  <2>2. CASE at[k] # None
    BY <1>1, <1>2, <1>4, <2>2
  <2> QED
    BY <2>1, <2>2
<1>7. ASSUME NEW j \in 1..n, NEW k \in 1..n, slot[j] = slot[k] PROVE j = k
  <2>1. CASE at[j] = None /\ at[k] = None
    BY <1>1, <1>4, <1>7, <2>1
  <2>2. CASE at[j] # None /\ at[k] # None
    BY <1>3, <1>4, <1>7, <2>2
  <2>3. CASE at[j] = None /\ at[k] # None
    <3>1. slot[j] = m + j /\ slot[k] = at[k] /\ at[k] \in 1..m
      BY <1>2, <1>4, <2>3
    <3>2. \A x \in 1..m : x # m + j
      BY <1>1
    <3> QED
      BY <1>7, <3>1, <3>2
  <2>4. CASE at[j] # None /\ at[k] = None
    <3>1. slot[k] = m + k /\ slot[j] = at[j] /\ at[j] \in 1..m
      BY <1>2, <1>4, <2>4
    <3>2. \A x \in 1..m : x # m + k
      BY <1>1
    <3> QED
      BY <1>7, <3>1, <3>2
  <2> QED
    BY <2>1, <2>2, <2>3, <2>4
<1>8. slot \in [1..n -> 1..(m + n)]
  BY <1>5, <1>6
<1> QED
  BY <1>2, <1>4, <1>7, <1>8 DEF slot, m, n

\* The send of an entry comes from its track and carries audio.
LEMMA EntrySource ==
    ASSUME NEW e, e.chan \in Nat, e.width \in Nat
    PROVE  Entry(e).src = e.src /\ Entry(e).srcChan # NoAudio
<1>1. Entry(e) = [src |-> e.src, srcChan |-> SrcChan(0, e.width), dstChan |-> DstChan(e.chan, FALSE)]
  BY DEF Entry, Wire, Send
<1>2. SrcChan(0, e.width) \in Nat /\ NoAudio \notin Nat
  BY DEF SrcChan, WidthCode, NoAudio
<1> QED
  BY <1>1, <1>2

\* What the send of an entry is, and what the others are.
Sorts(h, q, rs, roster, strays, slot) ==
    /\ \A i \in 1..Len(q), k \in 1..Len(roster) :
         h[i] = slot[k] => q[i].src = roster[k].src /\ q[i].srcChan # NoAudio
    /\ \A i \in 1..Len(q) : (\A k \in 1..Len(roster) : h[i] # slot[k]) =>
         /\ h[i] \in 1..Len(rs) /\ q[i] = rs[h[i]]
         /\ q[i].srcChan # NoAudio <=> h[i] \in strays

\* A send whose origin is the slot of an entry is that entry's, and any other is as it was.
LEMMA SlotSources ==
    ASSUME NEW I, NEW T, NEW rs \in Seq(T), NEW roster, RosterOf(roster, I),
           NEW at, NEW strays, Placed(at, strays, roster, rs),
           NEW U, NEW q \in Seq(U), NEW h, Traced(h, q, rs, roster, at)
    PROVE  Sorts(h, q, rs, roster, strays, Slots(roster, at, rs))
<1> DEFINE slot == Slots(roster, at, rs)
           m == Len(rs)
           n == Len(roster)
<1>1. /\ m \in Nat /\ n \in Nat /\ Len(q) \in Nat
      /\ h \in [1..Len(q) -> 1..(m + n)]
  BY SeqDomain DEF RosterOf, Traced
<1>2. /\ \A k \in 1..n : at[k] = None => slot[k] = m + k
      /\ \A k \in 1..n : at[k] # None => slot[k] = at[k] /\ slot[k] \in 1..m
  BY SlotTypes
<1>3. \A k \in 1..n : Entry(roster[k]).src = roster[k].src /\ Entry(roster[k]).srcChan # NoAudio
  <2> SUFFICES ASSUME NEW k \in 1..n
               PROVE  Entry(roster[k]).src = roster[k].src /\ Entry(roster[k]).srcChan # NoAudio
    OBVIOUS
  <2>1. roster[k].chan \in Nat /\ roster[k].width \in Nat
    BY DEF RosterOf
  <2> QED
    BY <2>1, EntrySource
<1> HIDE DEF slot
<1>4. ASSUME NEW i \in 1..Len(q), NEW k \in 1..n, h[i] = slot[k]
      PROVE  q[i].src = roster[k].src /\ q[i].srcChan # NoAudio
  <2>1. CASE at[k] = None
    <3>1. h[i] = m + k
      BY <1>2, <1>4, <2>1
    <3>2. q[i] = Entry(roster[k])
      BY <3>1 DEF Traced
    <3> QED
      BY <1>3, <3>2
  <2>2. CASE at[k] # None
    <3>1. h[i] = at[k] /\ h[i] <= m
      BY <1>1, <1>2, <1>4, <2>2
    <3>2. q[i] = rs[at[k]] \/ q[i] = Entry(roster[k])
      BY <3>1 DEF Traced
    <3>3. rs[at[k]].src = roster[k].src /\ rs[at[k]].srcChan # NoAudio
      BY <2>2 DEF Placed
    <3> QED
      BY <1>3, <3>2, <3>3
  <2> QED
    BY <2>1, <2>2
<1>5. ASSUME NEW i \in 1..Len(q), \A k \in 1..n : h[i] # slot[k]
      PROVE  /\ h[i] \in 1..m /\ q[i] = rs[h[i]]
             /\ q[i].srcChan # NoAudio <=> h[i] \in strays
  <2>1. h[i] \in 1..m
    <3> SUFFICES ASSUME h[i] \notin 1..m PROVE FALSE
      OBVIOUS
    <3>1. h[i] - m \in 1..n /\ h[i] = m + (h[i] - m)
      BY <1>1
    <3>2. at[h[i] - m] = None
      BY <3>1 DEF Traced
    <3>3. slot[h[i] - m] = h[i]
      BY <1>2, <3>1, <3>2
    <3> QED
      BY <1>5, <3>1, <3>3
  <2>2. \A k \in 1..n : at[k] # h[i]
    <3> SUFFICES ASSUME NEW k \in 1..n, at[k] = h[i] PROVE FALSE
      OBVIOUS
    <3>1. at[k] # None
      BY <1>1, <2>1 DEF None
    <3> QED
      BY <1>2, <1>5, <3>1
  <2>3. q[i] = rs[h[i]]
    <3>1. h[i] <= m
      BY <1>1, <2>1
    <3> QED
      BY <2>2, <3>1 DEF Traced
  <2>4. h[i] \in strays <=> rs[h[i]].srcChan # NoAudio
    BY <2>1, <2>2 DEF Placed
  <2> QED
    BY <2>1, <2>3, <2>4
<1>6. Sorts(h, q, rs, roster, strays, slot)
  BY <1>4, <1>5 DEF Sorts
<1> QED
  BY <1>6 DEF slot

\* Every entry has its send in the end, and what is pruned has no other.
Filled(h, q, roster, at, slot, strays, prune, complete) ==
    /\ complete => \A k \in 1..Len(roster) : \E i \in 1..Len(q) : h[i] = slot[k]
    /\ \A k \in 1..Len(roster) : at[k] # None => \E i \in 1..Len(q) : h[i] = at[k]
    /\ prune => \A i \in 1..Len(q) : h[i] \notin strays

\* Every slot is on the bus, and after pruning no stray is.
LEMMA SlotsFilled ==
    ASSUME NEW I, NEW T, NEW rs \in Seq(T), NEW roster, RosterOf(roster, I),
           NEW at, NEW strays, Placed(at, strays, roster, rs), NEW q, NEW h,
           NEW prune, NEW complete, Whole(h, q, rs, roster, at, strays, prune, complete)
    PROVE  Filled(h, q, roster, at, Slots(roster, at, rs), strays, prune, complete)
<1> DEFINE slot == Slots(roster, at, rs)
           m == Len(rs)
           n == Len(roster)
<1>2. /\ \A k \in 1..n : at[k] = None => slot[k] = m + k
      /\ \A k \in 1..n : at[k] # None => slot[k] = at[k] /\ slot[k] \in 1..m
  BY SlotTypes
<1> HIDE DEF slot
<1>3. ASSUME NEW k \in 1..n, at[k] # None PROVE \E i \in 1..Len(q) : h[i] = at[k]
  <2>1. at[k] \in 1..m /\ at[k] \notin strays
    BY <1>3 DEF Placed
  <2> QED
    BY <2>1 DEF Whole
<1>4. ASSUME complete, NEW k \in 1..n PROVE \E i \in 1..Len(q) : h[i] = slot[k]
  <2>1. CASE at[k] = None
    BY <1>2, <1>4, <2>1 DEF Whole
  <2>2. CASE at[k] # None
    BY <1>2, <1>3, <2>2
  <2> QED
    BY <2>1, <2>2
<1>5. ASSUME prune, NEW i \in 1..Len(q) PROVE h[i] \notin strays
  <2> SUFFICES ASSUME h[i] \in strays PROVE FALSE
    OBVIOUS
  <2>1. h[i] \in 1..m
    BY DEF Placed
  <2> QED
    BY <1>5, <2>1 DEF Whole
<1> QED
  BY <1>3, <1>4, <1>5 DEF slot, Filled

-----------------------------------------------------------------------------
(* What is wired is read back. *)

\* What the codes of a send can hold of every entry.
Sendable(roster) ==
    \A k \in 1..Len(roster) :
      roster[k].chan \in 0..1023 /\ roster[k].width \in 0..126 /\ ValidWidth(roster[k].width)

\* The send of an entry is read back as one that fits it.
LEMMA EntryFits ==
    ASSUME NEW e, e.chan \in 0..1023, e.width \in 0..126, ValidWidth(e.width)
    PROVE  Fits(e, Decode(Entry(e))) /\ Entry(e).srcChan # NoAudio
<1> DEFINE w == e.width
           c == e.chan
           y == Entry(e)
<1>1. y.src = e.src /\ y.srcChan = SrcChan(0, w) /\ y.dstChan % 1024 = c
  <2>1. y.src = e.src /\ y.srcChan = SrcChan(0, w) /\ y.dstChan = (c % 1024) + 0
    BY DEF Entry, Wire, Send, DstChan
  <2>2. ((c % 1024) + 0) % 1024 = c
    BY SMTT(30)
  <2> QED
    BY <2>1, <2>2
<1> HIDE DEF w, c, y
<1>2. w \in Nat /\ w <= 126 /\ ValidWidth(w) /\ c \in 0..1023
  BY DEF w, c
<1>3. Decode(y) = [src |-> y.src, audio |-> TRUE, width |-> w, dstOff |-> c]
  BY <1>1, <1>2, CodesReadBack
<1>4. Fits(e, Decode(y))
  BY <1>1, <1>3 DEF Fits, w, c
<1>5. y.srcChan # NoAudio
  <2>1. Decode(y).audio = TRUE
    BY <1>3
  <2> QED
    BY <2>1, ZenonT(60) DEF Decode
<1> QED
  BY <1>4, <1>5 DEF y

\* The entries of a layout within the limits can be read back.
LEMMA RosterSendable ==
    ASSUME NEW bed, NEW bedW \in 0..126, bedW = 0 \/ ValidWidth(bedW), NEW objs, Len(objs) \in 0..128
    PROVE  Sendable(Roster(bed, bedW, objs))
<1> DEFINE R == Roster(bed, bedW, objs)
           l == Lead(bed, bedW)
           b == Base(bed, bedW)
           n == Len(objs)
<1>1. /\ n \in Nat /\ n <= 128
      /\ bedW \in Nat /\ bedW <= 126
  <2>1. \A x \in 0..128 : x \in Nat /\ x <= 128
    OBVIOUS
  <2>2. \A x \in 0..126 : x \in Nat /\ x <= 126
    OBVIOUS
  <2> QED
    BY <2>1, <2>2, ZenonT(60)
<1>2. Entries(bed, bedW, objs)
  BY <1>1, RosterEntries
<1>3. b \in Nat /\ b <= 126 /\ ((l = 0 /\ b = 0) \/ (l = 1 /\ b = bedW /\ b > 0))
  BY LeadBase
<1>4. Len(R) = l + n /\ (l = 1 => R[1].chan = 0 /\ R[1].width = bedW)
  BY <1>2 DEF Entries
<1>5. ASSUME NEW k \in 1..n PROVE R[l + k].chan = b + k - 1 /\ R[l + k].width = 1
  <2>1. R[l + k] = [src |-> objs[k], chan |-> b + k - 1, width |-> 1]
    BY <1>2 DEF Entries
  <2> QED
    BY <2>1
<1>6. ValidWidth(1)
  BY DEF ValidWidth
<1>7. ValidWidth(bedW) \/ bedW = 0
  OBVIOUS
<1> HIDE DEF R, l, b, n
<1>8. ASSUME NEW k \in 1..Len(R)
      PROVE  R[k].chan \in 0..1023 /\ R[k].width \in 0..126 /\ ValidWidth(R[k].width)
  <2>1. CASE l = 1 /\ k = 1
    <3>1. R[k].chan = 0 /\ R[k].width = bedW /\ bedW # 0
      BY <1>3, <1>4, <2>1
    <3>2. ValidWidth(bedW) /\ bedW \in 0..126
      BY <1>7, <3>1
    <3> QED
      BY <3>1, <3>2
  <2>2. CASE ~(l = 1 /\ k = 1)
    <3> DEFINE j == k - l
    <3>1. j \in 1..n /\ l + j = k
      BY <1>1, <1>3, <1>4, <2>2
    <3> HIDE DEF j
    <3>2. R[k].chan = b + j - 1 /\ R[k].width = 1
      BY <1>5, <3>1
    <3>3. b + j - 1 \in 0..1023
      BY <1>1, <1>3, <3>1
    <3> QED
      BY <1>6, <3>2, <3>3, SMTT(30)
  <2> QED
    BY <2>1, <2>2
<1> QED
  BY <1>8 DEF Sendable, R

\* The send of an entry fits it.
LEMMA SlotFits ==
    ASSUME NEW I, NEW T, NEW rs \in Seq(T), NEW roster, RosterOf(roster, I), Sendable(roster),
           NEW at, NEW strays, Placed(at, strays, roster, rs),
           NEW U, NEW q \in Seq(U), NEW h, Traced(h, q, rs, roster, at),
           NEW i \in 1..Len(q), NEW k \in 1..Len(roster), h[i] = Slots(roster, at, rs)[k]
    PROVE  Fits(roster[k], Decode(q[i]))
<1> DEFINE slot == Slots(roster, at, rs)
           m == Len(rs)
           n == Len(roster)
<1>1. m \in Nat
  BY SeqDomain
<1>2. /\ \A j \in 1..n : at[j] = None => slot[j] = m + j
      /\ \A j \in 1..n : at[j] # None => slot[j] = at[j] /\ slot[j] \in 1..m
  BY SlotTypes
<1>3. Fits(roster[k], Decode(Entry(roster[k])))
  <2>1. roster[k].chan \in 0..1023 /\ roster[k].width \in 0..126 /\ ValidWidth(roster[k].width)
    BY DEF Sendable
  <2> QED
    BY <2>1, EntryFits, ZenonT(60)
<1> HIDE DEF slot
<1>4. h[i] = slot[k]
  BY DEF slot
<1>5. CASE at[k] = None
  <2>1. h[i] = m + k
    BY <1>2, <1>4, <1>5
  <2>2. q[i] = Entry(roster[k])
    BY <2>1 DEF Traced
  <2> QED
    BY <1>3, <2>2
<1>6. CASE at[k] # None
  <2>1. h[i] = at[k] /\ h[i] <= m
    BY <1>1, <1>2, <1>4, <1>6
  <2>2. \/ q[i] = rs[h[i]] /\ Fits(roster[k], Decode(rs[h[i]]))
        \/ q[i] = Entry(roster[k])
    BY <2>1 DEF Traced
  <2> QED
    BY <1>3, <2>2
<1> QED
  BY <1>5, <1>6

\* After an orchestration the bus serves the roster, and a pruned one has its sends only.
LEMMA OrchestrationServes ==
    ASSUME Typed, NEW l, NEW roster, NEW at, NEW strays, NEW h, NEW q,
           Orchestrated(l, roster, at, strays, h, q), l.complete, l.bedW <= 126
    PROVE  /\ Served(roster, Decoded(q))
           /\ l.clean => Wired(roster, Decoded(q))
<1> DEFINE I == IdsOf(tracks)
           rs == receives[l.bus]
           slot == Slots(roster, at, rs)
           n == Len(roster)
           existing == Decoded(q)
<1>1. /\ RosterOf(roster, I) /\ Placed(at, strays, roster, rs) /\ q \in Seq(From(I))
      /\ Traced(h, q, rs, roster, at)
      /\ Whole(h, q, rs, roster, at, strays, l.clean, l.complete)
      /\ roster = Roster(l.bed, l.bedW, l.objs)
      /\ l.clean \in BOOLEAN
  BY DEF Orchestrated
<1>2. rs \in Seq(From(I))
  <2>1. l.bus \in Ids
    BY TypedTracks DEF Orchestrated
  <2> QED
    BY <2>1, TypedTracks
<1>3. Sendable(roster)
  <2>1. l.bedW \in 0..126 /\ (l.bedW = 0 \/ ValidWidth(l.bedW))
    <3>1. l.bedW = 0 \/ l.bedW \in Nchans
      BY DEF Orchestrated
    <3>2. \A w \in Nchans : w \in Nat /\ ValidWidth(w)
      BY DEF Nchans, ValidWidth
    <3> QED
      BY <3>1, <3>2
  <2>2. Len(l.objs) \in 0..128
    <3> DEFINE c == Len(l.objs)
               b == l.bedW
    <3>1. c \in Nat /\ ~(b + c > MaxRendererChannels)
      BY DEF Orchestrated, Fatal, TotalChannels
    <3>2. b \in Nat
      BY <2>1
    <3> HIDE DEF b, c
    <3>3. c \in 0..128
      BY <3>1, <3>2, LimitsAssumption
    <3> QED
      BY <3>3 DEF c
  <2> QED
    BY <1>1, <2>1, <2>2, RosterSendable
<1> HIDE DEF rs, I
<1>4. Sorts(h, q, rs, roster, strays, slot)
  BY <1>1, <1>2, SlotSources
<1>5. /\ \A k \in 1..n : \E i \in 1..Len(q) : h[i] = slot[k]
      /\ l.clean => \A i \in 1..Len(q) : h[i] \notin strays
  <2>1. Filled(h, q, roster, at, slot, strays, l.clean, l.complete)
    BY <1>1, <1>2, SlotsFilled
  <2> QED
    BY <2>1 DEF Filled
<1>6. \A j, k \in 1..n : slot[j] = slot[k] => j = k
  <2> HIDE DEF n
  <2>1. RosterOf(roster, I) /\ Placed(at, strays, roster, rs)
    BY <1>1
  <2> QED
    BY <1>2, <2>1, SlotTypes DEF n
<1>7. /\ \A i \in 1..Len(q) : existing[i] = Decode(q[i])
      /\ Audio(existing) = {i \in 1..Len(q) : q[i].srcChan # NoAudio}
  BY <1>1, DecodedProperties
<1>8. ASSUME NEW i \in 1..Len(q), NEW k \in 1..n, h[i] = slot[k]
      PROVE  i \in Audio(existing) /\ Fits(roster[k], existing[i])
  <2>1. q[i].srcChan # NoAudio
    BY <1>4, <1>8 DEF Sorts
  <2>2. Fits(roster[k], Decode(q[i]))
    BY <1>1, <1>2, <1>3, <1>8, SlotFits
  <2> QED
    BY <1>7, <2>1, <2>2
<1> HIDE DEF slot, existing
<1>9. Served(roster, existing)
  <2> SUFFICES ASSUME NEW k \in 1..n PROVE \E i \in Audio(existing) : Fits(roster[k], existing[i])
    BY DEF Served
  <2>1. PICK i \in 1..Len(q) : h[i] = slot[k]
    BY <1>5
  <2> QED
    BY <1>8, <2>1
<1>10. ASSUME l.clean PROVE Wired(roster, existing)
  <2>1. ASSUME NEW i \in Audio(existing) PROVE i \in 1..Len(q) /\ \E k \in 1..n : h[i] = slot[k]
    <3>1. i \in 1..Len(q) /\ q[i].srcChan # NoAudio
      BY <1>7
    <3> QED
      BY <1>4, <1>5, <1>10, <3>1 DEF Sorts
  <2> DEFINE g == [i \in Audio(existing) |-> CHOOSE k \in 1..n : h[i] = slot[k]]
  <2>2. \A i \in Audio(existing) : g[i] \in 1..n /\ h[i] = slot[g[i]]
    BY <2>1
  <2>3. g \in [Audio(existing) -> 1..n]
    BY <2>2
  <2> HIDE DEF g
  <2>4. \A i \in Audio(existing) : Fits(roster[g[i]], existing[i])
    BY <1>8, <2>1, <2>2
  <2>5. ASSUME NEW i \in Audio(existing), NEW j \in Audio(existing), g[i] = g[j] PROVE i = j
    <3>1. h[i] = h[j] /\ i \in 1..Len(q) /\ j \in 1..Len(q)
      BY <2>1, <2>2, <2>5
    <3> QED
      BY <1>1, <3>1 DEF Traced
  <2>6. ASSUME NEW k \in 1..n PROVE \E i \in Audio(existing) : g[i] = k
    <3>1. PICK i \in 1..Len(q) : h[i] = slot[k]
      BY <1>5
    <3>2. i \in Audio(existing)
      BY <1>8, <3>1
    <3>3. g[i] \in 1..n /\ slot[g[i]] = slot[k]
      BY <2>2, <3>1, <3>2
    <3> QED
      BY <1>6, <3>2, <3>3
  <2> QED
    BY <2>3, <2>4, <2>5, <2>6 DEF Wired
<1> QED
  BY <1>9, <1>10 DEF existing

\* A bus that has one send for each entry, in their order.
Laid(q, roster) == Len(q) = Len(roster) /\ \A k \in 1..Len(roster) : q[k] = Entry(roster[k])

\* A bus laid out by the roster serves every entry and nothing else.
LEMMA LaidServes ==
    ASSUME NEW T, NEW q \in Seq(T), NEW roster, Laid(q, roster), Sendable(roster)
    PROVE  Served(roster, Decoded(q)) /\ Wired(roster, Decoded(q))
<1> DEFINE n == Len(roster)
           existing == Decoded(q)
           g == [i \in 1..n |-> i]
<1>1. n \in Nat /\ Len(q) = n
  BY SeqDomain DEF Laid
<1>2. /\ \A i \in 1..Len(q) : existing[i] = Decode(q[i])
      /\ Audio(existing) = {i \in 1..Len(q) : q[i].srcChan # NoAudio}
  BY DecodedProperties
<1> HIDE DEF existing
<1>3. ASSUME NEW k \in 1..n PROVE q[k].srcChan # NoAudio /\ Fits(roster[k], existing[k])
  <2>1. q[k] = Entry(roster[k])
    BY DEF Laid
  <2>2. roster[k].chan \in 0..1023 /\ roster[k].width \in 0..126 /\ ValidWidth(roster[k].width)
    BY ZenonT(60) DEF Sendable
  <2>3. Entry(roster[k]).srcChan # NoAudio
    BY <2>2, EntryFits, ZenonT(60)
  <2>4. Fits(roster[k], Decode(Entry(roster[k])))
    BY <2>2, EntryFits, ZenonT(60)
  <2> QED
    BY <1>1, <1>2, <2>1, <2>3, <2>4
<1>4. Audio(existing) = 1..n
  BY <1>1, <1>2, <1>3
<1>5. Served(roster, existing)
  BY <1>3, <1>4 DEF Served
<1>6. Wired(roster, existing)
  <2>1. g \in [1..n -> 1..n] /\ \A i \in 1..n : g[i] = i
    OBVIOUS
  <2> HIDE DEF g
  <2>2. g \in [Audio(existing) -> 1..n]
    BY <1>4, <2>1
  <2>3. \A i \in Audio(existing) : Fits(roster[g[i]], existing[i])
    BY <1>3, <1>4, <2>1
  <2>4. \A i, j \in Audio(existing) : g[i] = g[j] => i = j
    BY <1>4, <2>1
  <2>5. \A k \in 1..n : \E i \in Audio(existing) : g[i] = k
    BY <1>4, <2>1
  <2> QED
    BY <2>2, <2>3, <2>4, <2>5 DEF Wired
<1> QED
  BY <1>5, <1>6 DEF existing

\* buildAtmosLayoutSDK lays out the roster of orchestrate_sends.
LEMMA AtmosLaid ==
    ASSUME NEW bed \in Ids, NEW bedW \in Nat \ {0}, NEW n \in Nat, NEW objs \in [1..n -> Ids]
    PROVE  /\ AtmosSends(bed, bedW, objs) \in Seq(From(Ids))
           /\ Len(objs) = n
           /\ Laid(AtmosSends(bed, bedW, objs), Roster(bed, bedW, objs))
<1> DEFINE q == AtmosSends(bed, bedW, objs)
           R == Roster(bed, bedW, objs)
<1>1. Len(objs) = n
  BY FcnIsSeq
<1>2. bed # None /\ bed \in Ids \cup {None}
  BY DEF None, Ids
<1>3. /\ q \in Seq(From(Ids)) /\ Len(q) = 1 + n
      /\ q[1] = Wire(bed, bedW, 0, FALSE)
      /\ \A k \in 1..n : q[1 + k] = Wire(objs[k], 1, bedW + k - 1, FALSE)
  <2>1. Ids \subseteq Ids /\ bedW \in Nat
    OBVIOUS
  <2>2. AtmosAs(q, Ids, bed, bedW, n, objs)
    BY <1>2, <2>1, AtmosProperties
  <2> HIDE DEF q
  <2> QED
    BY <1>2, <2>2 DEF AtmosAs
<1>4. Lead(bed, bedW) = 1 /\ Base(bed, bedW) = bedW
  BY <1>2 DEF Lead, Base
<1>5. Entries(bed, bedW, objs)
  BY <1>1, RosterEntries
<1>6. /\ Len(R) = 1 + n
      /\ R[1] = [src |-> bed, chan |-> 0, width |-> bedW]
      /\ \A k \in 1..n : R[1 + k] = [src |-> objs[k], chan |-> bedW + k - 1, width |-> 1]
  BY <1>1, <1>4, <1>5 DEF Entries
<1> HIDE DEF q, R
<1>7. ASSUME NEW k \in 1..Len(R) PROVE q[k] = Entry(R[k])
  <2>1. CASE k = 1
    <3>1. R[k].src = bed /\ R[k].chan = 0 /\ R[k].width = bedW
      BY <1>6, <2>1
    <3> QED
      BY <1>3, <2>1, <3>1 DEF Entry
  <2>2. CASE k # 1
    <3> DEFINE j == k - 1
    <3>1. j \in 1..n /\ 1 + j = k
      BY <1>6, <2>2
    <3> HIDE DEF j
    <3>2. R[k] = [src |-> objs[j], chan |-> bedW + j - 1, width |-> 1]
      BY <1>6, <3>1
    <3>3. q[k] = Wire(objs[j], 1, bedW + j - 1, FALSE)
      BY <1>3, <3>1
    <3> QED
      BY <3>2, <3>3 DEF Entry
  <2> QED
    BY <2>1, <2>2
<1> QED
  BY <1>1, <1>3, <1>6, <1>7 DEF Laid, q, R

\* What setting up a session l has wired.
WasSetUp(l) ==
    /\ l.bus \in Ids /\ l.bed \in Ids /\ l.bedW \in Nchans
    /\ Len(l.objs) \in 0..128 /\ l.objs \in [1..Len(l.objs) -> Ids]
    /\ receives'[l.bus] = AtmosSends(l.bed, l.bedW, l.objs)
    /\ \A i \in DOMAIN tracks' : tracks'[i].id = l.bus =>
         tracks'[i].nchan = Clamped(l.bedW + Len(l.objs))

\* What setting up a session promises.
LEMMA SetUpDoes ==
    ASSUME Typed, NEW w \in Layouts, NEW n \in ObjectCounts, NEW monitor \in BOOLEAN, NEW renderer \in BOOLEAN,
           SetUp(w, n, monitor, renderer)
    PROVE  last' = Nothing \/ WasSetUp(last')
<1> DEFINE new  == NewSession(w, n, monitor, renderer)
           ids  == Ascending(Unused)
           objs == [k \in 1..n |-> ids[k + 1]]
           bus  == ids[Len(new)]
           q    == AtmosSends(ids[1], w, objs)
           m    == Len(tracks)
           us   == Inserted(new)
<1>1. CanInsert(Len(new)) /\ tracks' = us
  BY DEF SetUp
<1>2. renderer => receives' = [d \in Ids |-> IF d = bus THEN q
                                             ELSE IF monitor /\ d = ids[n + 2]
                                                  THEN [k \in 1..n |-> Wire(objs[k], 1, 0, TRUE)]
                                                  ELSE receives[d]]
  BY DEF SetUp
<1>3. /\ ~renderer => last' = Nothing
      /\ renderer => last' = [verb |-> "setup", bus |-> bus, bed |-> ids[1], bedW |-> w, objs |-> objs,
                              clean |-> TRUE, complete |-> TRUE]
  BY DEF SetUp
<1> SUFFICES ASSUME renderer PROVE WasSetUp(last')
  BY <1>3
<1>4. n \in Nat /\ n <= 128 /\ w \in Nchans
  BY SetupsAssumption
<1>5. /\ new \in Seq(NewTracks)
      /\ Len(new) = 1 + n + (IF monitor THEN 1 ELSE 0) + (IF renderer THEN 1 ELSE 0)
      /\ new[Len(new)].nchan = Clamped(w + n)
  BY NewSessionTracks, ZenonT(60)
<1> HIDE DEF new
<1>6. Len(new) \in Nat /\ Len(new) >= n + 2
  BY <1>4, <1>5
<1>7. \A k \in 1..Len(new) : ids[k] \in Ids /\ ids[k] \notin Used
  BY <1>1, <1>6, TypedTracks, FreshIds
<1>8. /\ Listed(us) /\ Len(us) = m + Len(new)
      /\ \A k \in 1..Len(new) :
           us[m + k] = [id |-> ids[k], name |-> new[k].name, nchan |-> new[k].nchan]
  BY <1>1, <1>5, TypedTracks, InsertedTracks
<1>9. m \in Nat /\ DOMAIN us = 1..Len(us)
  BY <1>8, TypedTracks, TrackFields
<1> HIDE DEF ids, us
<1>10. objs \in [1..n -> Ids] /\ Len(objs) = n
  <2>1. \A k \in 1..n : k + 1 \in 1..Len(new)
    BY <1>4, <1>6
  <2>2. objs \in [1..n -> Ids]
    BY <1>7, <2>1
  <2> HIDE DEF objs
  <2> QED
    BY <1>4, <2>2, FcnIsSeq
<1>11. ids[1] \in Ids /\ bus \in Ids
  <2>1. 1 \in 1..Len(new) /\ Len(new) \in 1..Len(new)
    BY <1>4, <1>6
  <2> QED
    BY <1>7, <2>1
<1>12. ASSUME NEW i \in DOMAIN us, us[i].id = bus PROVE us[i].nchan = Clamped(w + n)
  <2> DEFINE z == m + Len(new)
  <2>1. Len(new) \in 1..Len(new) /\ z \in DOMAIN us
    BY <1>4, <1>6, <1>8, <1>9
  <2>2. us[z].id = bus /\ us[z].nchan = Clamped(w + n)
    <3>1. us[z] = [id |-> ids[Len(new)], name |-> new[Len(new)].name, nchan |-> new[Len(new)].nchan]
      BY <1>8, <2>1
    <3> QED
      BY <1>5, <3>1
  <2> HIDE DEF z
  <2>3. i = z
    BY <1>8, <1>12, <2>1, <2>2 DEF Listed
  <2> QED
    BY <2>2, <2>3
<1> HIDE DEF bus, objs, q
<1>13. /\ last'.bus = bus /\ last'.bed = ids[1] /\ last'.bedW = w /\ last'.objs = objs
  BY <1>3
<1>14. receives'[bus] = q
  BY <1>2, <1>11
<1>15. Len(objs) \in 0..128
  BY <1>4, <1>10
<1> QED
  BY <1>1, <1>4, <1>10, <1>11, <1>12, <1>13, <1>14, <1>15 DEF WasSetUp, q

-----------------------------------------------------------------------------
(* What a call has promised holds after it. *)

\* spatialize_stems promises nothing.
LEMMA SpatializeIsSilent ==
    ASSUME NEW w, NEW stems, NEW scene, NEW lfe, NEW monitor,
           Spatialize(w, stems, scene, lfe, monitor)
    PROVE  last' = Nothing
  BY DEF Spatialize

\* What the last call may have left in last.
LEMMA LastCall ==
    ASSUME Typed, Next
    PROVE  \/ last' = Nothing
           \/ last'.verb = "author"
           \/ WasSetUp(last')
           \/ \E roster, at, strays, h, q : Orchestrated(last', roster, at, strays, h, q)
<1>1. CASE SetupImmersive
  BY <1>1, SetUpDoes DEF SetupImmersive
<1>2. CASE OrchestrateSends
  BY <1>2, OrchestrateSendsDoes
<1>3. CASE AuthorObjectBed
  <2>1. \A x : [verb |-> "author", objs |-> x].verb = "author"
    OBVIOUS
  <2> QED
    BY <1>3, <2>1 DEF AuthorObjectBed
<1>4. CASE SpatializeStems
  BY <1>4, SpatializeIsSilent DEF SpatializeStems
<1>5. CASE RenderAtmosLayout
  BY <1>5 DEF RenderAtmosLayout
<1>6. CASE \/ TrackAdd \/ TrackRemove \/ TrackSetName \/ SetTrackChannels \/ BuildBed
           \/ SendAdd \/ SendRemove \/ SendSetChannels
  BY <1>6 DEF TrackAdd, TrackRemove, TrackSetName, SetTrackChannels, BuildBed, SendAdd,
     SendRemove, SendSetChannels
<1> QED
  BY <1>1, <1>2, <1>3, <1>4, <1>5, <1>6 DEF Next

\* What a promise l says of the bus, whose sends are q.
Delivered(l, q) ==
    /\ l.bed # None \/ l.bedW = 0
    /\ l.bedW \in Nat /\ Len(l.objs) \in Nat
    /\ q \in Seq(SendRecords) /\ receives'[l.bus] = q
    /\ RosterOf(Roster(l.bed, l.bedW, l.objs), Ids)
    /\ l.complete /\ l.bedW <= 126 => /\ Served(Roster(l.bed, l.bedW, l.objs), Decoded(q))
                                      /\ l.clean => Wired(Roster(l.bed, l.bedW, l.objs), Decoded(q))
    /\ ~Fatal(l.bedW, Len(l.objs)) =>
         \A i \in DOMAIN tracks' : tracks'[i].id = l.bus =>
           /\ tracks'[i].nchan \in Nat
           /\ tracks'[i].nchan >= TotalChannels(l.bedW, Len(l.objs))

\* A session that was set up delivers its promise.
LEMMA SetUpDelivers ==
    ASSUME Typed', NEW l, WasSetUp(l)
    PROVE  Delivered(l, receives'[l.bus])
<1> DEFINE n == Len(l.objs)
           bed == l.bed
           w == l.bedW
           objs == l.objs
           q == AtmosSends(bed, w, objs)
           R == Roster(bed, w, objs)
<1>1. /\ n \in 0..128 /\ objs \in [1..n -> Ids]
      /\ bed \in Ids /\ w \in Nchans
      /\ receives'[l.bus] = q
      /\ \A i \in DOMAIN tracks' : tracks'[i].id = l.bus => tracks'[i].nchan = Clamped(w + n)
  BY Zenon DEF WasSetUp
<1> HIDE DEF bed, w
<1>2. w \in Nat \ {0} /\ ValidWidth(w)
  <2>1. w \in Nchans
    BY <1>1
  <2>2. \A x \in Nchans : x \in Nat \ {0} /\ ValidWidth(x)
    BY DEF Nchans, ValidWidth
  <2> QED
    BY <2>1, <2>2
<1>3. n \in Nat /\ w \in Nat
  BY <1>1, <1>2
<1>4. q \in Seq(From(Ids)) /\ Laid(q, R)
  <2> HIDE DEF objs, n
  <2> QED
    BY <1>1, <1>2, <1>3, AtmosLaid
<1>5. From(Ids) \subseteq SendRecords /\ bed # None
  BY <1>1 DEF From, None, Ids
<1>6. q \in Seq(SendRecords)
  <2> HIDE DEF q
  <2>1. \A k \in DOMAIN q : q[k] \in SendRecords
    BY <1>4, <1>5, SeqDomain
  <2> QED
    BY <1>4, <2>1, SeqOfWhatItHolds
<1>7. RosterOf(R, Ids)
  <2>1. \A k \in 1..Len(objs) : objs[k] \in Ids
    BY <1>1
  <2> HIDE DEF objs
  <2> QED
    BY <1>1, <1>3, <2>1, RosterType DEF n
<1>8. ASSUME w <= 126 PROVE Served(R, Decoded(q)) /\ Wired(R, Decoded(q))
  <2>1. w \in 0..126
    BY <1>3, <1>8
  <2>2. Len(objs) \in 0..128
    BY <1>1 DEF n
  <2> HIDE DEF objs
  <2>3. Sendable(Roster(bed, w, objs))
    BY <1>2, <2>1, <2>2, RosterSendable
  <2>4. Sendable(R)
    BY <2>3
  <2> HIDE DEF R, q
  <2> QED
    BY <1>4, <2>4, LaidServes
<1>9. ASSUME ~Fatal(w, n) PROVE Clamped(w + n) >= TotalChannels(w, n) /\ Clamped(w + n) \in Nat
  <2> HIDE DEF n
  <2>1. w + n \in Nat /\ w + n <= 128
    BY <1>3, <1>9, LimitsAssumption DEF Fatal, TotalChannels
  <2>2. Clamped(w + n) \in Nchans /\ Clamped(w + n) >= w + n
    BY <2>1, ClampedType
  <2> QED
    BY <2>2, WidthTypes DEF TotalChannels
<1> HIDE DEF q, R
<1>10. /\ bed # None \/ w = 0
       /\ w \in Nat /\ n \in Nat
       /\ q \in Seq(SendRecords) /\ receives'[l.bus] = q
       /\ RosterOf(R, Ids)
       /\ w <= 126 => Served(R, Decoded(q)) /\ Wired(R, Decoded(q))
       /\ ~Fatal(w, n) => \A i \in DOMAIN tracks' : tracks'[i].id = l.bus =>
            /\ tracks'[i].nchan \in Nat
            /\ tracks'[i].nchan >= TotalChannels(w, n)
  BY <1>1, <1>3, <1>5, <1>6, <1>7, <1>8, <1>9
<1> QED
  BY <1>10 DEF Delivered, R, w, bed

\* An orchestration delivers its promise.
LEMMA OrchestrationDelivers ==
    ASSUME Typed, Typed', NEW l, NEW roster, NEW at, NEW strays, NEW h, NEW q,
           Orchestrated(l, roster, at, strays, h, q)
    PROVE  Delivered(l, q)
<1> DEFINE I == IdsOf(tracks)
<1>1. /\ l.bus \in I
      /\ l.bed = None => l.bedW = 0
      /\ l.bed # None => l.bedW \in Nchans
      /\ Len(l.objs) \in Nat
      /\ roster = Roster(l.bed, l.bedW, l.objs) /\ RosterOf(roster, I)
      /\ q \in Seq(From(I)) /\ receives' = [receives EXCEPT ![l.bus] = q]
      /\ Listed(tracks')
      /\ \A i \in DOMAIN tracks' : tracks'[i].id = l.bus =>
           tracks'[i].nchan >= TotalChannels(l.bedW, Len(l.objs))
  BY Zenon DEF Orchestrated
<1>2. I \subseteq Ids
  BY TypedTracks
<1>3. l.bedW \in Nat
  <2>1. l.bed = None => l.bedW = 0
    BY <1>1
  <2>2. l.bed # None => l.bedW \in Nchans
    BY <1>1
  <2>3. Nchans \subseteq Nat
    BY WidthTypes
  <2>4. 0 \in Nat
    OBVIOUS
  <2> QED
    BY Zenon, <2>1, <2>2, <2>3, <2>4
<1>4. receives'[l.bus] = q
  <2>1. receives \in [Ids -> Seq(From(I))]
    BY DEF Typed, Routed
  <2>2. l.bus \in Ids
    BY <1>1, <1>2
  <2>3. receives' = [receives EXCEPT ![l.bus] = q]
    BY <1>1
  <2> QED
    BY <2>1, <2>2, <2>3
<1>5. q \in Seq(SendRecords)
  <2>1. \A k \in DOMAIN q : q[k] \in SendRecords
    BY <1>1, SeqDomain DEF From
  <2> QED
    BY <1>1, <2>1, SeqOfWhatItHolds
<1> HIDE DEF I
<1>6. RosterOf(roster, Ids)
  BY <1>1, <1>2 DEF RosterOf
<1>7. l.complete /\ l.bedW <= 126 => Served(roster, Decoded(q)) /\ (l.clean => Wired(roster, Decoded(q)))
  BY OrchestrationServes
<1>8. \A i \in DOMAIN tracks' : tracks'[i].nchan \in Nat
  <2>1. DOMAIN tracks' = 1..Len(tracks') /\ \A i \in 1..Len(tracks') : tracks'[i].nchan \in Nchans
    BY <1>1, TrackFields
  <2> QED
    BY <2>1, WidthTypes
<1> QED
  BY <1>1, <1>3, <1>4, <1>5, <1>6, <1>7, <1>8 DEF Delivered

\* A call promises nothing, has named objects, or has delivered.
LEMMA PromisesKept ==
    ASSUME Typed, Typed', Next
    PROVE  \/ last' = Nothing
           \/ last'.verb = "author"
           \/ \E q : Delivered(last', q)
<1>1. CASE WasSetUp(last')
  BY <1>1, SetUpDelivers
<1>2. CASE \E roster, at, strays, h, q : Orchestrated(last', roster, at, strays, h, q)
  <2>1. PICK roster, at, strays, h, q : Orchestrated(last', roster, at, strays, h, q)
    BY <1>2
  <2>2. Delivered(last', q)
    BY <2>1, OrchestrationDelivers
  <2> QED
    BY <2>2
<1> QED
  BY <1>1, <1>2, LastCall

\* A delivered layout is settled and, if nothing else was left on the bus, clean.
LEMMA DeliveredHolds ==
    ASSUME NEW l, NEW q, Delivered(l, q), l.complete, l.bedW <= 126
    PROVE  /\ AllReused(Roster(l.bed, l.bedW, l.objs), Decoded(receives'[l.bus]))
           /\ l.clean /\ ~Fatal(l.bedW, Len(l.objs)) =>
                /\ Inspect(Decoded(receives'[l.bus]), l.bedW, Len(l.objs)) = {}
                /\ \A i \in DOMAIN tracks' : tracks'[i].id = l.bus =>
                     Covered(Decoded(receives'[l.bus])) <= tracks'[i].nchan
<1> DEFINE R == Roster(l.bed, l.bedW, l.objs)
           existing == Decoded(q)
           n == Len(l.objs)
<1>1. /\ l.bed # None \/ l.bedW = 0
      /\ l.bedW \in Nat /\ n \in Nat
      /\ q \in Seq(SendRecords) /\ receives'[l.bus] = q
      /\ RosterOf(R, Ids)
      /\ Served(R, existing)
      /\ l.clean => Wired(R, existing)
  BY Zenon DEF Delivered
<1>2. DOMAIN existing \subseteq Nat \ {0}
  <2>1. q \in Seq(SendRecords)
    BY <1>1
  <2> HIDE DEF existing
  <2> QED
    BY <2>1, DecodedProperties DEF existing
<1>3. AllReused(R, existing)
  <2>1. Len(R) \in Nat /\ DOMAIN R = 1..Len(R) /\ Apart(R)
    BY <1>1 DEF RosterOf
  <2> HIDE DEF R, existing
  <2> QED
    BY <1>1, <1>2, <2>1, ServedIsReused
<1>4. ASSUME l.clean, ~Fatal(l.bedW, n)
      PROVE  /\ Inspect(existing, l.bedW, n) = {}
             /\ \A i \in DOMAIN tracks' : tracks'[i].id = l.bus => Covered(existing) <= tracks'[i].nchan
  <2>1. \A i \in DOMAIN tracks' : tracks'[i].id = l.bus =>
          tracks'[i].nchan \in Nat /\ tracks'[i].nchan >= TotalChannels(l.bedW, n)
    BY Zenon, <1>4 DEF Delivered
  <2>2. /\ Inspect(existing, l.bedW, n) = {}
        /\ Covered(existing) \in Nat /\ Covered(existing) <= TotalChannels(l.bedW, n)
    <3> HIDE DEF existing
    <3> QED
      BY <1>1, <1>2, <1>4, WiredIsClean
  <2>3. TotalChannels(l.bedW, n) \in Nat
    BY <1>1 DEF TotalChannels
  <2> HIDE DEF existing, n
  <2> QED
    BY <2>1, <2>2, <2>3
<1> HIDE DEF R, existing, n
<1>5. Decoded(receives'[l.bus]) = existing
  BY <1>1 DEF existing
<1> QED
  BY <1>3, <1>4, <1>5 DEF R, n

\* No promise of a layout.
LEMMA Silent ==
    ASSUME NEW l, l = Nothing \/ l.verb = "author"
    PROVE  l.verb \notin {"setup", "orchestrate"}
  BY DEF Nothing

-----------------------------------------------------------------------------
(* Settled *)

\* A step settles the layout it promises; any other step promises none.
LEMMA NextSettles ==
    ASSUME Typed, Typed', Next
    PROVE  Settled'
<1>1. CASE last' = Nothing \/ last'.verb = "author"
  <2>1. last'.verb \notin {"setup", "orchestrate"}
    BY <1>1, Silent
  <2> QED
    BY <2>1 DEF Settled, Promised
<1>2. CASE \E q : Delivered(last', q)
  <2>1. PICK q : Delivered(last', q)
    BY <1>2
  <2> SUFFICES ASSUME Promised', Readable'
               PROVE  AllReused(Roster(last'.bed, last'.bedW, last'.objs), Decoded(receives'[last'.bus]))
    BY DEF Settled, Layout
  <2>2. last'.complete /\ last'.bedW <= 126
    BY DEF Promised, Readable
  <2> QED
    BY <2>1, <2>2, DeliveredHolds
<1> QED
  BY <1>1, <1>2, PromisesKept

\* A step leaves the bus it promises clean.
LEMMA NextCleans ==
    ASSUME Typed, Typed', Next
    PROVE  CleanMaster'
<1>1. CASE last' = Nothing \/ last'.verb = "author"
  <2>1. last'.verb \notin {"setup", "orchestrate"}
    BY <1>1, Silent
  <2> QED
    BY <2>1 DEF CleanMaster, Promised
<1>2. CASE \E q : Delivered(last', q)
  <2>1. PICK q : Delivered(last', q)
    BY <1>2
  <2> SUFFICES ASSUME Promised', last'.clean, Readable', ~Fatal(last'.bedW, Len(last'.objs))
               PROVE  /\ Inspect(Decoded(receives'[last'.bus]), last'.bedW, Len(last'.objs)) = {}
                      /\ \A i \in DOMAIN tracks' : tracks'[i].id = last'.bus =>
                           Covered(Decoded(receives'[last'.bus])) <= tracks'[i].nchan
    BY DEF CleanMaster, Layout, IdAt
  <2>2. last'.complete /\ last'.bedW <= 126
    BY DEF Promised, Readable
  <2> QED
    BY <2>1, <2>2, DeliveredHolds
<1> QED
  BY <1>1, <1>2, PromisesKept

\* A step of the specification between two typed states.
LEMMA TypesKept ==
    ASSUME TypeOK, TypeOK', [Next]_vars
    PROVE  \/ Typed /\ Typed' /\ Next
           \/ UNCHANGED vars
<1>1. Typed
  BY TypedIsTypeOK
<1>2. Typed'
  BY SessionParts DEF TypeOK, Typed
<1> QED
  BY <1>1, <1>2

\* "Re-running never stacks duplicates": whatever was done to the session and the bus
\* before, the layout that setup_immersive_session wires, and that orchestrate_sends
\* leaves, is one in which the same call finds every send in its place and adds none.
THEOREM LayoutsSettle == Spec => []Settled
<1>1. Init => Settled
  <2>1. Init => last.verb \notin {"setup", "orchestrate"}
    BY Silent DEF Init
  <2> QED
    BY <2>1 DEF Settled, Promised
<1>2. TypeOK /\ TypeOK' /\ Settled /\ [Next]_vars => Settled'
  <2> SUFFICES ASSUME TypeOK, TypeOK', Settled, [Next]_vars PROVE Settled'
    OBVIOUS
  <2>1. CASE Typed /\ Typed' /\ Next
    BY <2>1, NextSettles
  <2>2. CASE UNCHANGED vars
    BY <2>2 DEF Settled, Promised, Readable, Layout, vars
  <2> QED
    BY <2>1, <2>2, TypesKept
<1> QED
  BY <1>1, <1>2, TypeCorrect, PTL DEF Spec

\* The bus of a session as it was set up, and a bus that orchestrate_sends has pruned,
\* carry the bed and each object once and nothing else: the inspection of the layout
\* finds no issue, and the bus has a channel for each that is fed.
THEOREM MastersAreClean == Spec => []CleanMaster
<1>1. Init => CleanMaster
  <2>1. Init => last.verb \notin {"setup", "orchestrate"}
    BY Silent DEF Init
  <2> QED
    BY <2>1 DEF CleanMaster, Promised
<1>2. TypeOK /\ TypeOK' /\ CleanMaster /\ [Next]_vars => CleanMaster'
  <2> SUFFICES ASSUME TypeOK, TypeOK', CleanMaster, [Next]_vars PROVE CleanMaster'
    OBVIOUS
  <2>1. CASE Typed /\ Typed' /\ Next
    BY <2>1, NextCleans
  <2>2. CASE UNCHANGED vars
    BY <2>2 DEF CleanMaster, Promised, Readable, Layout, IdAt, vars
  <2> QED
    BY <2>1, <2>2, TypesKept
<1> QED
  BY <1>1, <1>2, TypeCorrect, PTL DEF Spec

-----------------------------------------------------------------------------
(* RenamedAreFound *)

\* A listing of S that goes up, and leaves nothing out, is the sorted one.
LEMMA ListedInOrder ==
    ASSUME NEW S, NEW R, Orders(R, S), IsFiniteSet(S), NEW n \in Nat, NEW s \in [1..n -> S],
           \A j, k \in 1..n : j < k => <<s[j], s[k]>> \in R,
           \A x \in S : \E k \in 1..n : s[k] = x
    PROVE  Sorted(S, R) = s
<1> DEFINE z == Sorted(S, R)
<1>1. \A j, k \in 1..n : s[j] = s[k] => j = k
  <2> SUFFICES ASSUME NEW j \in 1..n, NEW k \in 1..n, s[j] = s[k], j < k PROVE FALSE
    OBVIOUS
  <2>1. <<s[j], s[k]>> \in R
    OBVIOUS
  <2> QED
    BY <2>1 DEF Orders
<1>2. Cardinality(S) = n
  <2>1. s \in Surjection(1..n, S)
    BY DEF Surjection
  <2>2. s \in Injection(1..n, S)
    BY <1>1 DEF Injection, IsInjective
  <2>3. IsFiniteSet(1..n) /\ Cardinality(1..n) = n
    BY FS_Interval
  <2> QED
    BY <2>1, <2>2, <2>3, FS_Surjection
<1>3. ASSUME NEW k \in 1..n PROVE Cardinality(Below(s[k], R, S)) = k - 1
  <2> DEFINE B == Below(s[k], R, S)
             g == [j \in 1..(k - 1) |-> s[j]]
  <2>1. k - 1 \in Nat /\ k \in Nat /\ \A j \in 1..(k - 1) : j \in 1..n /\ j < k
    OBVIOUS
  <2>2. \A j \in 1..(k - 1) : g[j] = s[j] /\ s[j] \in B
    BY <2>1 DEF Below
  <2>3. \A y \in B : \E j \in 1..(k - 1) : g[j] = y
    <3> SUFFICES ASSUME NEW y \in B PROVE \E j \in 1..(k - 1) : s[j] = y
      OBVIOUS
    <3>1. y \in S /\ <<y, s[k]>> \in R
      BY DEF Below
    <3>2. PICK j \in 1..n : s[j] = y
      BY <3>1
    <3>3. ~(k < j) /\ j # k
      <4>1. ASSUME j = k PROVE FALSE
        BY <3>1, <3>2, <4>1 DEF Orders
      <4>2. ASSUME k < j PROVE FALSE
        <5>1. <<s[k], s[j]>> \in R
          BY <4>2
        <5>2. s[k] \in S /\ s[j] \in S
          OBVIOUS
        <5>3. <<s[k], s[k]>> \in R
          BY <3>1, <3>2, <5>1, <5>2 DEF Orders
        <5> QED
          BY <5>2, <5>3 DEF Orders
      <4> QED
        BY <4>1, <4>2
    <3>4. j \in 1..(k - 1)
      BY <2>1, <3>3
    <3> QED
      BY <3>2, <3>4
  <2>4. \A i, j \in 1..(k - 1) : g[i] = g[j] => i = j
    BY <1>1, <2>1
  <2> HIDE DEF B
  <2>5. g \in [1..(k - 1) -> B]
    BY <2>2
  <2> HIDE DEF g
  <2>6. g \in Surjection(1..(k - 1), B) /\ g \in Injection(1..(k - 1), B)
    BY <2>3, <2>4, <2>5 DEF Surjection, Injection, IsInjective
  <2>7. IsFiniteSet(1..(k - 1)) /\ Cardinality(1..(k - 1)) = k - 1
    BY <2>1, FS_Interval
  <2>8. Cardinality(B) = k - 1
    BY <2>6, <2>7, FS_Surjection
  <2> QED
    BY <2>8 DEF B
<1>4. /\ z \in [1..n -> S]
      /\ \A k \in 1..n : Cardinality(Below(z[k], R, S)) = k - 1
  BY <1>2, SortedProperties
<1> HIDE DEF z
<1>5. ASSUME NEW k \in 1..n PROVE z[k] = s[k]
  <2>1. z[k] \in S /\ s[k] \in S
    BY <1>4
  <2>2. Cardinality(Below(z[k], R, S)) = Cardinality(Below(s[k], R, S))
    BY <1>3, <1>4
  <2> QED
    BY <2>1, <2>2, Ranks
<1> QED
  BY <1>4, <1>5 DEF z

Differing(s, n) == \A j, k \in 1..n : s[j] = s[k] => j = k

\* A sequence with as many elements as it is long holds each once.
LEMMA AllDifferent ==
    ASSUME NEW T, NEW n \in Nat, NEW s \in [1..n -> T], Cardinality(Range(s)) = n
    PROVE  Differing(s, n)
<1>1. s \in Surjection(1..n, Range(s))
  BY DEF Surjection, Range
<1>2. IsFiniteSet(1..n) /\ Cardinality(1..n) = n
  BY FS_Interval
<1>3. s \in Injection(1..n, Range(s))
  BY <1>1, <1>2, FS_Surjection
<1> QED
  BY <1>3 DEF Injection, IsInjective, Differing

\* Renaming gives the k-th of different tracks the number k.
LEMMA RenamedNames ==
    ASSUME NEW ts, Listed(ts), NEW n \in Nat, NEW objs \in Seq(Nat), Len(objs) = n,
           \A j, k \in 1..n : objs[j] = objs[k] => j = k,
           NEW k \in 1..n, objs[k] \in DOMAIN ts
    PROVE  Renamed(ts, objs)[objs[k]].name = Object(k)
<1> DEFINE i == objs[k]
           S == {j \in DOMAIN objs : objs[j] = i}
<1>1. DOMAIN objs = 1..n /\ k \in DOMAIN objs
  BY SeqDomain
<1>2. S = {k}
  BY <1>1
<1>3. NumberOf(objs, i) = k
  <2>1. NumberOf(objs, i) = Max(S)
    BY DEF NumberOf
  <2>2. {k} \in SUBSET Nat /\ {k} # {} /\ k \in Nat /\ \A y \in {k} : y <= k
    OBVIOUS
  <2>3. Max({k}) \in {k}
    BY <2>2, MaxProperties
  <2> QED
    BY <1>2, <2>1, <2>3
<1>4. i \in DOMAIN ts /\ (\E j \in DOMAIN objs : objs[j] = i)
  BY <1>1
<1>5. DOMAIN ts[i] = DOMAIN [id |-> 1, name |-> 1, nchan |-> 1]
  <2>1. ts[i] \in TrackRecords
    BY <1>4, SeqDomain DEF Listed
  <2> QED
    BY <2>1 DEF TrackRecords
<1>6. Renamed(ts, objs)[i] = [ts[i] EXCEPT !.name = Object(NumberOf(objs, i))]
  BY <1>4 DEF Renamed
<1> HIDE DEF i, S
<1>7. Renamed(ts, objs)[i].name = Object(k)
  <2> DEFINE t == ts[i]
             o == Object(k)
  <2>1. "name" \in DOMAIN t
    BY <1>5
  <2> HIDE DEF t, o
  <2>2. [t EXCEPT !.name = o].name = o
    BY <2>1
  <2> QED
    BY <1>3, <1>6, <2>2 DEF t, o
<1> QED
  BY <1>7 DEF i

\* The objects a call has named are the tracks at some positions and, if these are
\* different tracks, the k-th is Object k.
NamedAs(l, ts) ==
    \E n \in Nat : \E at \in [1..n -> DOMAIN ts] :
      /\ Len(l.objs) = n
      /\ l.objs = [k \in 1..n |-> ts[at[k]].id]
      /\ (\A j, k \in 1..n : at[j] = at[k] => j = k) => \A k \in 1..n : ts[at[k]].name = Object(k)

NamedInOrder == last.verb = "author" => NamedAs(last, tracks)

\* Named in order, the objects are discovered in order.
LEMMA NamedAreFound ==
    ASSUME Typed, NamedInOrder
    PROVE  RenamedAreFound
<1> SUFFICES ASSUME last.verb = "author", Cardinality(Range(last.objs)) = Len(last.objs),
                    \A i \in DOMAIN tracks : IsObject(i) => IdAt(i) \in Range(last.objs)
             PROVE  At(Discovered) = last.objs
  BY DEF RenamedAreFound
<1>0. PICK n \in Nat : \E at \in [1..n -> DOMAIN tracks] :
        /\ Len(last.objs) = n
        /\ last.objs = [k \in 1..n |-> tracks[at[k]].id]
        /\ (\A j, k \in 1..n : at[j] = at[k] => j = k) => \A k \in 1..n : tracks[at[k]].name = Object(k)
  BY DEF NamedInOrder, NamedAs
<1>1. PICK at \in [1..n -> DOMAIN tracks] :
        /\ Len(last.objs) = n
        /\ last.objs = [k \in 1..n |-> tracks[at[k]].id]
        /\ (\A j, k \in 1..n : at[j] = at[k] => j = k) => \A k \in 1..n : tracks[at[k]].name = Object(k)
  BY <1>0
<1>2. Len(tracks) \in Nat /\ DOMAIN tracks = 1..Len(tracks)
  BY TypedTracks
<1>3. \A j, k \in 1..n : at[j] = at[k] => j = k
  <2> DEFINE s == last.objs
             T == {tracks[i].id : i \in DOMAIN tracks}
  <2>1. s \in [1..n -> T]
    BY <1>1
  <2>2. Cardinality(Range(s)) = n
    BY <1>1
  <2> HIDE DEF s, T
  <2>3. Differing(s, n)
    <3>1. n \in Nat
      BY <1>0
    <3> QED
      BY <2>1, <2>2, <3>1, AllDifferent
  <2> QED
    BY <1>1, <2>3 DEF s, Differing
<1>4. \A k \in 1..n : tracks[at[k]].name = Object(k)
  BY <1>1, <1>3
<1>5. ASSUME NEW k \in 1..n PROVE at[k] \in Objects /\ ObjectNumber(at[k]) = k
  <2>1. at[k] \in DOMAIN tracks /\ tracks[at[k]].name = <<"Object", k>>
    BY <1>4 DEF Object
  <2> QED
    BY <2>1 DEF Objects, IsObject, ObjectNumber
<1>6. ASSUME NEW i \in Objects PROVE \E k \in 1..n : at[k] = i
  <2>1. i \in DOMAIN tracks /\ IdAt(i) \in Range(last.objs)
    BY DEF Objects
  <2>2. PICK k \in 1..n : last.objs[k] = tracks[i].id
    BY <1>1, <2>1 DEF Range, IdAt
  <2>3. tracks[at[k]].id = tracks[i].id /\ at[k] \in DOMAIN tracks
    BY <1>1, <2>2
  <2> QED
    BY <2>1, <2>3 DEF Typed, Listed
<1>7. at \in [1..n -> Objects]
  BY <1>5
<1>8. \A j, k \in 1..n : j < k => <<at[j], at[k]>> \in ByNumber
  <2> SUFFICES ASSUME NEW j \in 1..n, NEW k \in 1..n, j < k PROVE <<at[j], at[k]>> \in ByNumber
    OBVIOUS
  <2>1. ObjectNumber(at[j]) < ObjectNumber(at[k]) /\ at[j] \in Objects /\ at[k] \in Objects
    BY <1>5
  <2> QED
    BY <2>1 DEF ByNumber
<1>9. Discovered = at
  BY <1>6, <1>7, <1>8, ObjectsInOrder, ListedInOrder
<1> QED
  BY <1>1, <1>9 DEF At, IdAt

\* Only author_object_bed names objects.
LEMMA AuthorsOnly ==
    ASSUME Typed, Next, last'.verb = "author"
    PROVE  AuthorObjectBed
<1>1. \A l : l = Nothing => l.verb # "author"
  BY DEF Nothing
<1>2. CASE SetupImmersive
  <2>1. PICK w \in Layouts, n \in ObjectCounts, monitor \in BOOLEAN, renderer \in BOOLEAN :
          SetUp(w, n, monitor, renderer)
    BY <1>2 DEF SetupImmersive
  <2>2. last' = Nothing \/ last'.verb = "setup"
    BY <2>1 DEF SetUp
  <2> QED
    BY <1>1, <2>2
<1>3. CASE OrchestrateSends
  <2>1. PICK roster, at, strays, h, q : Orchestrated(last', roster, at, strays, h, q)
    BY <1>3, OrchestrateSendsDoes
  <2> QED
    BY <2>1 DEF Orchestrated
<1>4. CASE SpatializeStems
  BY <1>1, <1>4, SpatializeIsSilent DEF SpatializeStems
<1>5. CASE RenderAtmosLayout
  BY <1>1, <1>5 DEF RenderAtmosLayout
<1>6. CASE \/ TrackAdd \/ TrackRemove \/ TrackSetName \/ SetTrackChannels \/ BuildBed
           \/ SendAdd \/ SendRemove \/ SendSetChannels
  BY <1>1, <1>6 DEF TrackAdd, TrackRemove, TrackSetName, SetTrackChannels, BuildBed, SendAdd,
     SendRemove, SendSetChannels
<1> QED
  BY <1>2, <1>3, <1>4, <1>5, <1>6 DEF Next

\* author_object_bed names its objects in order.
LEMMA AuthorNames ==
    ASSUME Typed, AuthorObjectBed, last'.verb = "author"
    PROVE  NamedAs(last', tracks')
<1>1. PICK w \in Layouts, objs \in ObjectLists, rename \in BOOLEAN, bed \in Beds, create \in BOOLEAN :
        /\ bed \in {None} \cup DOMAIN tracks
        /\ bed = None /\ create => CanInsert(1)
        /\ LET bedded == Bedded(w, bed, create)
               done   == Reached(objs, bedded)
           IN  /\ tracks' = IF rename THEN Renamed(bedded, done) ELSE bedded
               /\ last' = IF done = objs /\ rename
                          THEN [verb |-> "author", objs |-> [k \in DOMAIN objs |-> bedded[objs[k]].id]]
                          ELSE Nothing
  BY DEF AuthorObjectBed
<1> DEFINE ts == Bedded(w, bed, create)
           us == Renamed(ts, objs)
           n  == Len(objs)
<1>2. Listed(ts)
  BY <1>1, BeddedTracks
<1>3. Reached(objs, ts) = objs /\ rename
  <2>1. Nothing.verb # "author"
    BY DEF Nothing
  <2> QED
    BY <1>1, <2>1
<1>4. /\ tracks' = us
      /\ last' = [verb |-> "author", objs |-> [k \in DOMAIN objs |-> ts[objs[k]].id]]
  BY <1>1, <1>3
<1>5. objs \in Seq(Nat \ {0}) /\ objs \in Seq((Nat \ {0}) \cap DOMAIN ts)
  <2>1. objs \in Seq(Nat \ {0})
    BY BoundsAssumption
  <2> HIDE DEF ts
  <2> QED
    BY <1>3, <2>1, ReachedType
<1> HIDE DEF ts
<1>6. /\ n \in Nat /\ DOMAIN objs = 1..n
      /\ \A k \in 1..n : objs[k] \in Nat /\ objs[k] \in DOMAIN ts
  BY <1>5, SeqDomain
<1>7. objs \in Seq(Nat) /\ objs \in [1..n -> DOMAIN ts]
  <2>1. objs \in Seq(Nat)
    BY <1>5, <1>6, SeqOfWhatItHolds
  <2>2. objs \in [1..n -> Nat]
    BY <2>1, LenProperties
  <2> QED
    BY <1>6, <2>1, <2>2
<1> HIDE DEF n, us
<1>8. Len(us) = Len(ts) /\ Listed(us) /\ \A i \in 1..Len(ts) : us[i].id = ts[i].id
  BY <1>2, <1>7, RenamedTracks DEF us
<1>9. DOMAIN us = DOMAIN ts /\ DOMAIN ts = 1..Len(ts)
  BY <1>2, <1>8, SeqDomain DEF Listed
<1>10. last'.objs = [k \in 1..n |-> us[objs[k]].id]
  <2>1. last'.objs = [k \in 1..n |-> ts[objs[k]].id]
    BY <1>4, <1>6
  <2>2. \A k \in 1..n : us[objs[k]].id = ts[objs[k]].id
    BY <1>6, <1>8, <1>9
  <2> QED
    BY <2>1, <2>2
<1>11. Len(last'.objs) = n
  <2> DEFINE s == last'.objs
             T == {us[i].id : i \in DOMAIN us}
  <2>1. s \in [1..n -> T]
    BY <1>6, <1>9, <1>10
  <2>2. n \in Nat
    BY <1>6
  <2> HIDE DEF s, T
  <2>3. Len(s) = n
    BY <2>1, <2>2, FcnIsSeq
  <2> QED
    BY <2>3 DEF s
<1>12. ASSUME \A j, k \in 1..n : objs[j] = objs[k] => j = k, NEW k \in 1..n
       PROVE  us[objs[k]].name = Object(k)
  <2>1. objs[k] \in DOMAIN ts /\ n = Len(objs)
    BY <1>6 DEF n
  <2> QED
    BY <1>2, <1>6, <1>7, <1>12, <2>1, RenamedNames DEF us
<1>13. objs \in [1..n -> DOMAIN us]
  BY <1>7, <1>9
<1>14. \E m \in Nat : \E at \in [1..m -> DOMAIN us] :
         /\ Len(last'.objs) = m
         /\ last'.objs = [k \in 1..m |-> us[at[k]].id]
         /\ (\A j, k \in 1..m : at[j] = at[k] => j = k) => \A k \in 1..m : us[at[k]].name = Object(k)
  <2>1. \E at \in [1..n -> DOMAIN us] :
         /\ Len(last'.objs) = n
         /\ last'.objs = [k \in 1..n |-> us[at[k]].id]
         /\ (\A j, k \in 1..n : at[j] = at[k] => j = k) => \A k \in 1..n : us[at[k]].name = Object(k)
    BY <1>10, <1>11, <1>12, <1>13
  <2> QED
    BY <1>6, <2>1
<1> QED
  BY <1>4, <1>14 DEF NamedAs

\* author_object_bed and orchestrate_sends agree: the tracks one has renamed, the other
\* discovers, and in the same order.
THEOREM RenamedAreDiscovered == Spec => []RenamedAreFound
<1>1. Init => NamedInOrder
  <2>1. Init => last.verb # "author"
    BY DEF Init, Nothing
  <2> QED
    BY <2>1 DEF NamedInOrder
<1>2. TypeOK /\ TypeOK' /\ NamedInOrder /\ [Next]_vars => NamedInOrder'
  <2> SUFFICES ASSUME TypeOK, TypeOK', NamedInOrder, [Next]_vars PROVE NamedInOrder'
    OBVIOUS
  <2>1. CASE Typed /\ Typed' /\ Next
    BY <2>1, AuthorsOnly, AuthorNames DEF NamedInOrder
  <2>2. CASE UNCHANGED vars
    BY <2>2 DEF NamedInOrder, vars
  <2> QED
    BY <2>1, <2>2, TypesKept
<1>3. TypeOK /\ NamedInOrder => RenamedAreFound
  BY TypedIsTypeOK, NamedAreFound
<1> QED
  BY <1>1, <1>2, <1>3, TypeCorrect, PTL DEF Spec

-----------------------------------------------------------------------------
(* OnlyStraysGo *)

\* As many x as y, each x with a y of its own and none left over.
LEMMA OneToOne ==
    ASSUME NEW S, NEW T, IsFiniteSet(S), NEW f \in [S -> T],
           \A x, y \in S : f[x] = f[y] => x = y,
           \A z \in T : \E x \in S : f[x] = z
    PROVE  IsFiniteSet(T) /\ Cardinality(T) = Cardinality(S)
<1>1. f \in Surjection(S, T)
  BY DEF Surjection
<1>2. f \in Injection(S, T)
  BY DEF Injection, IsInjective
<1> QED
  BY <1>1, <1>2, FS_Surjection

\* No more x than y, when each x has a y of its own.
LEMMA OneByOne ==
    ASSUME NEW S, NEW T, IsFiniteSet(T), NEW f \in [S -> T],
           \A x, y \in S : f[x] = f[y] => x = y
    PROVE  IsFiniteSet(S) /\ Cardinality(S) <= Cardinality(T)
<1>1. f \in Injection(S, T)
  BY DEF Injection, IsInjective
<1> QED
  BY <1>1, FS_Injection

\* The sends of track s, with audio and without, and its places.
WithAudio(rs, s)    == {i \in 1..Len(rs) : rs[i].src = s /\ rs[i].srcChan # NoAudio}
WithoutAudio(rs, s) == {i \in 1..Len(rs) : rs[i].src = s /\ rs[i].srcChan = NoAudio}
Entered(roster, s)  == {k \in 1..Len(roster) : roster[k].src = s}

\* The sends of a track counted are finite sets of positions.
LEMMA SendsCounted ==
    ASSUME NEW T, NEW rs \in Seq(T), NEW s
    PROVE  /\ Sends(rs, s, TRUE) = Cardinality(WithAudio(rs, s))
           /\ Sends(rs, s, FALSE) = Cardinality(WithoutAudio(rs, s))
           /\ IsFiniteSet(WithAudio(rs, s)) /\ Cardinality(WithAudio(rs, s)) \in Nat
           /\ IsFiniteSet(WithoutAudio(rs, s)) /\ Cardinality(WithoutAudio(rs, s)) \in Nat
<1>1. Len(rs) \in Nat /\ DOMAIN rs = 1..Len(rs)
  BY SeqDomain
<1>2. \A k : (rs[k].srcChan # NoAudio) = TRUE <=> rs[k].srcChan # NoAudio
  OBVIOUS
<1>3. \A k : (rs[k].srcChan # NoAudio) = FALSE <=> rs[k].srcChan = NoAudio
  OBVIOUS
<1>4. {k \in DOMAIN rs : rs[k].src = s /\ (rs[k].srcChan # NoAudio) = TRUE} = WithAudio(rs, s)
  BY <1>1, <1>2 DEF WithAudio
<1>5. {k \in DOMAIN rs : rs[k].src = s /\ (rs[k].srcChan # NoAudio) = FALSE} = WithoutAudio(rs, s)
  BY <1>1, <1>3 DEF WithoutAudio
<1>6. IsFiniteSet(1..Len(rs))
  BY <1>1, FS_Interval
<1>7. WithAudio(rs, s) \subseteq 1..Len(rs) /\ WithoutAudio(rs, s) \subseteq 1..Len(rs)
  BY DEF WithAudio, WithoutAudio
<1>8. /\ IsFiniteSet(WithAudio(rs, s)) /\ Cardinality(WithAudio(rs, s)) \in Nat
      /\ IsFiniteSet(WithoutAudio(rs, s)) /\ Cardinality(WithoutAudio(rs, s)) \in Nat
  BY <1>6, <1>7, FS_Subset, FS_CardinalityType
<1> QED
  BY <1>4, <1>5, <1>8 DEF Sends

\* A track has as many entries in the roster as it has places in the layout.
LEMMA EnteredPlaces ==
    ASSUME NEW l, NEW I, None \notin I, NEW s \in I, l.bed \in I \cup {None}, l.bedW \in Nat,
           l.bed # None => l.bedW > 0,
           NEW n \in Nat, Len(l.objs) = n, l.objs \in [1..n -> I]
    PROVE  LET P == Entered(Roster(l.bed, l.bedW, l.objs), s)
           IN  Places(l, s) = Cardinality(P) /\ IsFiniteSet(P)
<1> DEFINE R == Roster(l.bed, l.bedW, l.objs)
           P == Entered(R, s)
           O == {k \in 1..n : l.objs[k] = s}
           lead == Lead(l.bed, l.bedW)
           Q == {k \in P : k > lead}
<1>1. /\ DOMAIN R = 1..(lead + n) /\ Len(R) = lead + n
      /\ lead = 1 => R[1].src = l.bed
      /\ \A k \in 1..n : R[lead + k].src = l.objs[k]
  <2>1. Entries(l.bed, l.bedW, l.objs)
    BY RosterEntries
  <2>2. /\ DOMAIN R = 1..(lead + n) /\ Len(R) = lead + n
        /\ lead = 1 => R[1] = [src |-> l.bed, chan |-> 0, width |-> l.bedW]
        /\ \A k \in 1..n : R[lead + k]
                            = [src |-> l.objs[k], chan |-> Base(l.bed, l.bedW) + k - 1, width |-> 1]
    BY <2>1 DEF Entries
  <2> HIDE DEF R, lead
  <2>3. ASSUME NEW k \in 1..n PROVE R[lead + k].src = l.objs[k]
    <3>1. R[lead + k] = [src |-> l.objs[k], chan |-> Base(l.bed, l.bedW) + k - 1, width |-> 1]
      BY <2>2
    <3> QED
      BY <3>1
  <2>4. lead = 1 => R[1].src = l.bed
    BY <2>2
  <2> QED
    BY <2>2, <2>3, <2>4
<1>2. (l.bed # None => lead = 1) /\ (l.bed = None => lead = 0)
  BY DEF Lead
<1>3. lead \in Nat
  BY <1>2
<1>4. P \subseteq 1..(lead + n) /\ \A k \in 1..(lead + n) : k \in P <=> R[k].src = s
  BY <1>1 DEF Entered
<1> HIDE DEF R, P, lead
<1>5. IsFiniteSet(P) /\ IsFiniteSet(O) /\ Cardinality(O) \in Nat
  <2>1. IsFiniteSet(1..(lead + n)) /\ IsFiniteSet(1..n)
    BY <1>3, FS_Interval
  <2>2. O \subseteq 1..n
    OBVIOUS
  <2> HIDE DEF O
  <2> QED
    BY <1>4, <2>1, <2>2, FS_Subset, FS_CardinalityType
<1>6. Cardinality(Q) = Cardinality(O)
  <2> DEFINE f == [k \in O |-> lead + k]
  <2>1. \A k \in O : lead + k \in Q
    <3> SUFFICES ASSUME NEW k \in O PROVE lead + k \in Q
      OBVIOUS
    <3>1. k \in 1..n /\ l.objs[k] = s
      OBVIOUS
    <3>2. lead + k \in 1..(lead + n) /\ lead + k > lead
      BY <1>3, <3>1
    <3>3. R[lead + k].src = s
      BY <1>1, <3>1
    <3> QED
      BY <1>4, <3>2, <3>3
  <2>2. \A z \in Q : z - lead \in O /\ lead + (z - lead) = z
    <3> SUFFICES ASSUME NEW z \in Q PROVE z - lead \in O /\ lead + (z - lead) = z
      OBVIOUS
    <3>1. z \in 1..(lead + n) /\ z > lead /\ R[z].src = s
      BY <1>4
    <3>2. z - lead \in 1..n /\ lead + (z - lead) = z
      BY <1>3, <3>1
    <3>3. l.objs[z - lead] = s
      BY <1>1, <3>1, <3>2
    <3> QED
      BY <3>2, <3>3
  <2>3. \A j, k \in O : lead + j = lead + k => j = k
    BY <1>3
  <2> HIDE DEF O, Q
  <2>4. f \in [O -> Q] /\ (\A j, k \in O : f[j] = f[k] => j = k) /\ \A z \in Q : \E k \in O : f[k] = z
    BY <2>1, <2>2, <2>3
  <2> HIDE DEF f
  <2> QED
    BY <1>5, <2>4, OneToOne, ZenonT(60)
<1>7. Places(l, s) = Cardinality(O) + (IF l.bed = s THEN 1 ELSE 0)
  <2>1. DOMAIN l.objs = 1..n
    OBVIOUS
  <2> QED
    BY <2>1 DEF Places
<1>8. CASE l.bed = s
  <2>1. lead = 1 /\ 1 \in P /\ Q = P \ {1}
    <3>1. lead = 1 /\ R[1].src = s
      BY <1>1, <1>2, <1>8
    <3>2. 1 \in P
      BY <1>4, <3>1
    <3>3. \A k \in P : k \in Nat /\ (k > 1 <=> k # 1)
      BY <1>3, <1>4
    <3> QED
      BY <3>1, <3>2, <3>3
  <2>2. Cardinality(Q) = Cardinality(P) - 1 /\ Cardinality(P) \in Nat
    BY <1>5, <2>1, FS_RemoveElement, FS_CardinalityType
  <2> HIDE DEF Q, O
  <2> QED
    BY <1>5, <1>6, <1>7, <1>8, <2>2 DEF P, R
<1>9. CASE l.bed # s
  <2>1. Q = P
    <3>1. lead = 1 => R[1].src # s
      BY <1>1, <1>9
    <3>2. \A k \in P : k \in Nat /\ k > 0 /\ (lead = 1 => k # 1)
      BY <1>3, <1>4, <3>1
    <3>3. lead = 0 \/ lead = 1
      BY <1>2
    <3>4. \A k \in P : k > lead
      BY <3>2, <3>3
    <3> QED
      BY <3>4
  <2> HIDE DEF Q, O
  <2> QED
    BY <1>5, <1>6, <1>7, <1>9, <2>1 DEF P, R
<1> QED
  BY <1>8, <1>9

\* What becomes of the sends of track s on the bus: rs before, q after.
LEMMA SilentKept ==
    ASSUME NEW I, NEW T, NEW rs \in Seq(T), NEW roster, RosterOf(roster, I),
           NEW at, NEW strays, Placed(at, strays, roster, rs), NEW U, NEW q \in Seq(U), NEW h,
           Traced(h, q, rs, roster, at), NEW prune, NEW complete,
           Whole(h, q, rs, roster, at, strays, prune, complete), NEW s
    PROVE  Cardinality(WithoutAudio(q, s)) = Cardinality(WithoutAudio(rs, s))
<1> DEFINE slot == Slots(roster, at, rs)
           m == Len(rs)
           n == Len(roster)
           f == [i \in WithoutAudio(q, s) |-> h[i]]
<1>1. m \in Nat /\ n \in Nat /\ Len(q) \in Nat
  BY SeqDomain DEF RosterOf
<1>2. Sorts(h, q, rs, roster, strays, slot)
  BY SlotSources
<1>3. /\ \A k \in 1..n : at[k] = None => slot[k] = m + k
      /\ \A k \in 1..n : at[k] # None => slot[k] = at[k] /\ slot[k] \in 1..m
  BY SlotTypes
<1> HIDE DEF slot
<1>4. \A i \in 1..Len(q), k \in 1..n : h[i] = slot[k] => q[i].srcChan # NoAudio
  BY <1>2 DEF Sorts
<1>5. \A i \in 1..Len(q) : (\A k \in 1..n : h[i] # slot[k]) => h[i] \in 1..m /\ q[i] = rs[h[i]]
  BY <1>2 DEF Sorts
<1>6. \A i, j \in 1..Len(q) : h[i] = h[j] => i = j
  BY DEF Traced
<1>7. ASSUME NEW i \in WithoutAudio(q, s) PROVE h[i] \in WithoutAudio(rs, s)
  <2>1. i \in 1..Len(q) /\ q[i].src = s /\ q[i].srcChan = NoAudio
    BY DEF WithoutAudio
  <2>2. h[i] \in 1..m /\ q[i] = rs[h[i]]
    BY <1>4, <1>5, <2>1
  <2> QED
    BY <2>1, <2>2 DEF WithoutAudio
<1>8. ASSUME NEW o \in WithoutAudio(rs, s) PROVE \E i \in WithoutAudio(q, s) : h[i] = o
  <2>1. o \in 1..m /\ rs[o].src = s /\ rs[o].srcChan = NoAudio
    BY DEF WithoutAudio
  <2>2. o \notin strays
    BY <2>1 DEF Placed
  <2>3. PICK i \in 1..Len(q) : h[i] = o
    BY <2>1, <2>2 DEF Whole
  <2>4. \A k \in 1..n : h[i] # slot[k]
    <3> SUFFICES ASSUME NEW k \in 1..n, o = slot[k] PROVE FALSE
      BY <2>3
    <3>1. at[k] # None
      BY <1>1, <1>3, <2>1
    <3>2. at[k] = o
      BY <1>3, <3>1
    <3>3. rs[at[k]].srcChan # NoAudio
      BY <3>1 DEF Placed
    <3> QED
      BY <2>1, <3>2, <3>3
  <2>5. q[i] = rs[o]
    BY <1>5, <2>3, <2>4
  <2> QED
    BY <2>1, <2>3, <2>5 DEF WithoutAudio
<1>9. \A i, j \in WithoutAudio(q, s) : h[i] = h[j] => i = j
  BY <1>6 DEF WithoutAudio
<1>10. f \in [WithoutAudio(q, s) -> WithoutAudio(rs, s)]
  BY <1>7
<1>11. \A o \in WithoutAudio(rs, s) : \E i \in WithoutAudio(q, s) : f[i] = o
  BY <1>8
<1>12. \A i, j \in WithoutAudio(q, s) : f[i] = f[j] => i = j
  BY <1>9
<1>13. IsFiniteSet(WithoutAudio(q, s))
  BY SendsCounted
<1> HIDE DEF f
<1> QED
  BY <1>10, <1>11, <1>12, <1>13, OneToOne

\* Every entry has its send, every receive is kept, none of the sends of s is a stray,
\* every entry of s has taken a receive.
EachSent(h, q, roster, slot) == \A k \in 1..Len(roster) : \E i \in 1..Len(q) : h[i] = slot[k]
NoneLost(h, q, rs)           == \A o \in 1..Len(rs) : \E i \in 1..Len(q) : h[i] = o
NoStray(h, q, strays, s)     == \A i \in 1..Len(q) : q[i].src = s => h[i] \notin strays
AllTaken(roster, at, s)      == \A k \in 1..Len(roster) : roster[k].src = s => at[k] # None

\* If no send is left that has no place, there is one for each place.
LEMMA AudioPlaced ==
    ASSUME NEW I, NEW T, NEW rs \in Seq(T), NEW roster, RosterOf(roster, I),
           NEW at, NEW strays, Placed(at, strays, roster, rs), NEW U, NEW q \in Seq(U), NEW h,
           Traced(h, q, rs, roster, at), EachSent(h, q, roster, Slots(roster, at, rs)),
           NEW s, NoStray(h, q, strays, s)
    PROVE  Cardinality(WithAudio(q, s)) = Cardinality(Entered(roster, s))
<1> DEFINE slot == Slots(roster, at, rs)
           m == Len(rs)
           n == Len(roster)
           A == WithAudio(q, s)
           P == Entered(roster, s)
           g == [k \in P |-> CHOOSE i \in 1..Len(q) : h[i] = slot[k]]
<1>1. m \in Nat /\ n \in Nat /\ Len(q) \in Nat
  BY SeqDomain DEF RosterOf
<1>2. Sorts(h, q, rs, roster, strays, slot)
  BY SlotSources
<1>3. \A j, k \in 1..n : slot[j] = slot[k] => j = k
  BY SlotTypes
<1>4. \A k \in 1..n : \E i \in 1..Len(q) : h[i] = slot[k]
  BY DEF EachSent
<1> HIDE DEF slot
<1>5. \A i \in 1..Len(q), k \in 1..n : h[i] = slot[k] => q[i].src = roster[k].src /\ q[i].srcChan # NoAudio
  BY <1>2 DEF Sorts
<1>6. \A i \in 1..Len(q) : (\A k \in 1..n : h[i] # slot[k]) => (q[i].srcChan # NoAudio <=> h[i] \in strays)
  BY <1>2 DEF Sorts
<1>7. \A i, j \in 1..Len(q) : h[i] = h[j] => i = j
  BY DEF Traced
<1>8. \A k \in P : k \in 1..n /\ roster[k].src = s
  BY DEF Entered
<1>9. \A k \in P : g[k] \in 1..Len(q) /\ h[g[k]] = slot[k]
  <2> HIDE DEF P
  <2> SUFFICES ASSUME NEW k \in P PROVE g[k] \in 1..Len(q) /\ h[g[k]] = slot[k]
    OBVIOUS
  <2>1. \E i \in 1..Len(q) : h[i] = slot[k]
    BY <1>4, <1>8
  <2> QED
    BY <2>1
<1>10. \A k \in P : g[k] \in A
  BY <1>5, <1>8, <1>9, SMTT(30) DEF WithAudio
<1>11. \A i \in A : \E k \in P : g[k] = i
  <2> SUFFICES ASSUME NEW i \in A PROVE \E k \in P : g[k] = i
    OBVIOUS
  <2>1. i \in 1..Len(q) /\ q[i].src = s /\ q[i].srcChan # NoAudio
    BY DEF WithAudio
  <2>2. PICK k \in 1..n : h[i] = slot[k]
    BY <1>6, <2>1 DEF NoStray
  <2>3. k \in P
    BY <1>5, <2>1, <2>2 DEF Entered
  <2>4. g[k] = i
    BY <1>7, <1>9, <2>1, <2>2, <2>3
  <2> QED
    BY <2>3, <2>4
<1>12. \A j, k \in P : g[j] = g[k] => j = k
  <2> SUFFICES ASSUME NEW j \in P, NEW k \in P, g[j] = g[k] PROVE j = k
    OBVIOUS
  <2>1. slot[j] = slot[k]
    BY <1>9
  <2> QED
    BY <1>3, <1>8, <2>1
<1>13. DOMAIN g = P
  OBVIOUS
<1>14. IsFiniteSet(P)
  <2>1. P \subseteq 1..n /\ IsFiniteSet(1..n)
    BY <1>1, FS_Interval DEF Entered
  <2> QED
    BY <2>1, FS_Subset
<1>15. g \in [P -> A]
  <2>1. g = [k \in P |-> g[k]]
    OBVIOUS
  <2> HIDE DEF g, P, A
  <2> QED
    BY <1>10, <2>1
<1> HIDE DEF g, A, P
<1>16. Cardinality(A) = Cardinality(P)
  BY <1>11, <1>12, <1>14, <1>15, OneToOne
<1> QED
  BY <1>16 DEF A, P

\* A track with strays has all its places taken, and keeps its sends.
LEMMA AudioKept ==
    ASSUME NEW I, NEW T, NEW rs \in Seq(T), NEW roster, RosterOf(roster, I),
           NEW at, NEW strays, Placed(at, strays, roster, rs), NEW U, NEW q \in Seq(U), NEW h,
           Traced(h, q, rs, roster, at), NoneLost(h, q, rs),
           NEW s, AllTaken(roster, at, s)
    PROVE  Cardinality(WithAudio(q, s)) = Cardinality(WithAudio(rs, s))
<1> DEFINE slot == Slots(roster, at, rs)
           m == Len(rs)
           n == Len(roster)
           f == [i \in WithAudio(q, s) |-> h[i]]
<1>1. m \in Nat /\ n \in Nat /\ Len(q) \in Nat
  BY SeqDomain DEF RosterOf
<1>2. Sorts(h, q, rs, roster, strays, slot)
  BY SlotSources
<1>3. /\ \A k \in 1..n : at[k] = None => slot[k] = m + k
      /\ \A k \in 1..n : at[k] # None => slot[k] = at[k] /\ slot[k] \in 1..m
  BY SlotTypes
<1> HIDE DEF slot
<1>4. \A i \in 1..Len(q), k \in 1..n : h[i] = slot[k] => q[i].src = roster[k].src /\ q[i].srcChan # NoAudio
  BY <1>2 DEF Sorts
<1>5. \A i \in 1..Len(q) : (\A k \in 1..n : h[i] # slot[k]) => h[i] \in 1..m /\ q[i] = rs[h[i]]
  BY <1>2 DEF Sorts
<1>6. \A i, j \in 1..Len(q) : h[i] = h[j] => i = j
  BY DEF Traced
<1>7. \A k \in 1..n : at[k] # None => rs[at[k]].src = roster[k].src /\ rs[at[k]].srcChan # NoAudio
  BY DEF Placed
<1>8. ASSUME NEW i \in WithAudio(q, s) PROVE h[i] \in WithAudio(rs, s)
  <2>1. i \in 1..Len(q) /\ q[i].src = s /\ q[i].srcChan # NoAudio
    BY DEF WithAudio
  <2>2. CASE \E k \in 1..n : h[i] = slot[k]
    <3>1. PICK k \in 1..n : h[i] = slot[k]
      BY <2>2
    <3>2. roster[k].src = s
      BY <1>4, <2>1, <3>1
    <3>3. at[k] # None
      BY <3>2 DEF AllTaken
    <3>4. h[i] = at[k] /\ h[i] \in 1..m
      BY <1>3, <3>1, <3>3
    <3> QED
      BY <1>7, <3>2, <3>3, <3>4 DEF WithAudio
  <2>3. CASE \A k \in 1..n : h[i] # slot[k]
    <3>1. h[i] \in 1..m /\ q[i] = rs[h[i]]
      BY <1>5, <2>1, <2>3
    <3> QED
      BY <2>1, <3>1 DEF WithAudio
  <2> QED
    BY <2>2, <2>3
<1>9. ASSUME NEW o \in WithAudio(rs, s) PROVE \E i \in WithAudio(q, s) : h[i] = o
  <2>1. o \in 1..m /\ rs[o].src = s /\ rs[o].srcChan # NoAudio
    BY DEF WithAudio
  <2>2. PICK i \in 1..Len(q) : h[i] = o
    BY <2>1 DEF NoneLost
  <2>3. q[i].src = s /\ q[i].srcChan # NoAudio
    <3>1. CASE \E k \in 1..n : h[i] = slot[k]
      <4>1. PICK k \in 1..n : h[i] = slot[k]
        BY <3>1
      <4>2. at[k] # None
        BY <1>1, <1>3, <2>1, <2>2, <4>1
      <4>3. at[k] = o
        BY <1>3, <2>2, <4>1, <4>2
      <4>4. roster[k].src = s
        BY <1>7, <2>1, <4>2, <4>3
      <4> QED
        BY <1>4, <4>1, <4>4
    <3>2. CASE \A k \in 1..n : h[i] # slot[k]
      BY <1>5, <2>1, <2>2, <3>2
    <3> QED
      BY <3>1, <3>2
  <2> QED
    BY <2>2, <2>3 DEF WithAudio
<1>10. \A i, j \in WithAudio(q, s) : h[i] = h[j] => i = j
  BY <1>6 DEF WithAudio
<1>11. f \in [WithAudio(q, s) -> WithAudio(rs, s)]
  BY <1>8
<1>12. \A o \in WithAudio(rs, s) : \E i \in WithAudio(q, s) : f[i] = o
  BY <1>9
<1>13. \A i, j \in WithAudio(q, s) : f[i] = f[j] => i = j
  BY <1>10
<1>14. IsFiniteSet(WithAudio(q, s))
  BY SendsCounted
<1> DEFINE A == WithAudio(q, s)
           B == WithAudio(rs, s)
<1>15. /\ f \in [A -> B] /\ IsFiniteSet(A)
       /\ \A o \in B : \E i \in A : f[i] = o
       /\ \A i, j \in A : f[i] = f[j] => i = j
  BY <1>11, <1>12, <1>13, <1>14
<1> HIDE DEF f, A, B
<1>16. Cardinality(B) = Cardinality(A)
  BY <1>15, OneToOne
<1> QED
  BY <1>16 DEF A, B

\* A track with no strays had no more sends than it has places, and one with all its
\* places taken no fewer.
LEMMA AudioBefore ==
    ASSUME NEW I, NEW T, NEW rs \in Seq(T), NEW roster, RosterOf(roster, I),
           NEW at, NEW strays, Placed(at, strays, roster, rs), NEW s
    PROVE  /\ (\A i \in strays : rs[i].src # s) =>
                Cardinality(WithAudio(rs, s)) <= Cardinality(Entered(roster, s))
           /\ (\A k \in 1..Len(roster) : roster[k].src = s => at[k] # None) =>
                Cardinality(Entered(roster, s)) <= Cardinality(WithAudio(rs, s))
<1> DEFINE m == Len(rs)
           n == Len(roster)
           A == WithAudio(rs, s)
           P == Entered(roster, s)
<1>1. /\ m \in Nat /\ n \in Nat
      /\ IsFiniteSet(A)
  BY SeqDomain, SendsCounted DEF RosterOf
<1>2. /\ \A k \in 1..n : at[k] # None =>
           at[k] \in 1..m /\ rs[at[k]].src = roster[k].src /\ rs[at[k]].srcChan # NoAudio
      /\ \A j, k \in 1..n : at[j] = at[k] /\ at[j] # None => j = k
      /\ \A i \in 1..m : rs[i].srcChan # NoAudio /\ i \notin strays => \E k \in 1..n : at[k] = i
  BY DEF Placed
<1>3. \A k \in P : k \in 1..n /\ roster[k].src = s
  BY DEF Entered
<1>4. \A i \in A : i \in 1..m /\ rs[i].src = s /\ rs[i].srcChan # NoAudio
  BY DEF WithAudio
<1>5. IsFiniteSet(P)
  <2>1. P \subseteq 1..n /\ IsFiniteSet(1..n)
    BY <1>1, FS_Interval DEF Entered
  <2> QED
    BY <2>1, FS_Subset
<1>6. ASSUME \A i \in strays : rs[i].src # s PROVE Cardinality(A) <= Cardinality(P)
  <2> DEFINE g == [i \in A |-> CHOOSE k \in 1..n : at[k] = i]
  <2>1. ASSUME NEW i \in A PROVE g[i] \in P /\ at[g[i]] = i
    <3>1. \E k \in 1..n : at[k] = i
      BY <1>2, <1>4, <1>6
    <3>2. g[i] \in 1..n /\ at[g[i]] = i
      BY <3>1
    <3> HIDE DEF g
    <3>3. at[g[i]] # None
      BY <1>1, <1>4, <3>2 DEF None
    <3> QED
      BY <1>2, <1>4, <3>2, <3>3 DEF Entered
  <2>2. g \in [A -> P]
    <3>1. g = [i \in A |-> g[i]]
      OBVIOUS
    <3> HIDE DEF g, A, P
    <3> QED
      BY <2>1, <3>1
  <2> HIDE DEF g, A, P
  <2>3. \A i, j \in A : g[i] = g[j] => i = j
    BY <2>1
  <2> QED
    BY <1>5, <2>2, <2>3, OneByOne
<1>7. ASSUME \A k \in 1..n : roster[k].src = s => at[k] # None PROVE Cardinality(P) <= Cardinality(A)
  <2> DEFINE g == [k \in P |-> at[k]]
  <2>1. ASSUME NEW k \in P PROVE at[k] \in A
    BY <1>2, <1>3, <1>7 DEF WithAudio
  <2>2. \A j, k \in P : at[j] = at[k] => j = k
    BY <1>2, <1>3, <1>7
  <2> HIDE DEF A, P
  <2>3. g \in [P -> A]
    BY <2>1
  <2>4. \A j, k \in P : g[j] = g[k] => j = k
    BY <2>2
  <2> HIDE DEF g
  <2> QED
    BY <1>1, <2>3, <2>4, OneByOne
<1> QED
  BY <1>6, <1>7 DEF A, P

\* The greater of two numbers.
LEMMA MaxOfTwo ==
    ASSUME NEW a \in Nat, NEW b \in Nat
    PROVE  /\ a <= b => Max({a, b}) = b
           /\ b <= a => Max({a, b}) = a
<1>1. {a, b} \in SUBSET Nat /\ {a, b} # {}
  OBVIOUS
<1>2. \E c \in Nat : \A y \in {a, b} : y <= c
  <2>1. a + b \in Nat /\ \A y \in {a, b} : y <= a + b
    OBVIOUS
  <2> QED
    BY <2>1
<1>3. Max({a, b}) \in {a, b} /\ \A y \in {a, b} : Max({a, b}) >= y
  BY <1>1, <1>2, MaxProperties
<1> QED
  BY <1>3

\* Only orchestrate_sends leaves its promise.
LEMMA OrchestrationsOnly ==
    ASSUME Typed, Next, last'.verb = "orchestrate"
    PROVE  \E roster, at, strays, h, q : Orchestrated(last', roster, at, strays, h, q)
<1>1. \A l : l = Nothing => l.verb # "orchestrate"
  BY DEF Nothing
<1>2. CASE SetupImmersive
  <2>1. PICK w \in Layouts, n \in ObjectCounts, monitor \in BOOLEAN, renderer \in BOOLEAN :
          SetUp(w, n, monitor, renderer)
    BY <1>2 DEF SetupImmersive
  <2>2. last' = Nothing \/ last'.verb = "setup"
    BY <2>1 DEF SetUp
  <2> QED
    BY <1>1, <2>2
<1>3. CASE OrchestrateSends
  BY <1>3, OrchestrateSendsDoes
<1>4. CASE SpatializeStems
  BY <1>1, <1>4, SpatializeIsSilent DEF SpatializeStems
<1>5. CASE AuthorObjectBed
  <2>1. \A x : [verb |-> "author", objs |-> x].verb = "author"
    OBVIOUS
  <2> QED
    BY <1>1, <1>5, <2>1 DEF AuthorObjectBed
<1>6. CASE RenderAtmosLayout
  BY <1>1, <1>6 DEF RenderAtmosLayout
<1>7. CASE \/ TrackAdd \/ TrackRemove \/ TrackSetName \/ SetTrackChannels \/ BuildBed
           \/ SendAdd \/ SendRemove \/ SendSetChannels
  BY <1>1, <1>7 DEF TrackAdd, TrackRemove, TrackSetName, SetTrackChannels, BuildBed, SendAdd,
     SendRemove, SendSetChannels
<1> QED
  BY <1>2, <1>3, <1>4, <1>5, <1>6, <1>7 DEF Next

\* What an orchestration l leaves of the sends of each track.
LEMMA OrchestrationSpares ==
    ASSUME Typed, NEW l, NEW roster, NEW at, NEW strays, NEW h, NEW q,
           Orchestrated(l, roster, at, strays, h, q), NEW d \in Ids, NEW s \in Ids
    PROVE  Spared(l, d, s)
<1> DEFINE I == IdsOf(tracks)
           rs == receives[l.bus]
<1>1. /\ l.bus \in I /\ l.bed \in I \cup {None}
      /\ l.bed = None => l.bedW = 0
      /\ l.bed # None => l.bedW \in Nchans
      /\ Len(l.objs) \in Nat /\ l.objs \in [1..Len(l.objs) -> I]
      /\ l.clean \in BOOLEAN
      /\ roster = Roster(l.bed, l.bedW, l.objs) /\ RosterOf(roster, I)
      /\ Placed(at, strays, roster, rs)
      /\ q \in Seq(From(I)) /\ receives' = [receives EXCEPT ![l.bus] = q]
      /\ Traced(h, q, rs, roster, at)
      /\ Whole(h, q, rs, roster, at, strays, l.clean, l.complete)
  BY Zenon DEF Orchestrated
<1>2. I \subseteq Ids /\ None \notin Ids
  BY TypedTracks DEF Ids, None
<1>3. receives \in [Ids -> Seq(From(I))] /\ rs \in Seq(From(I))
  <2>1. receives \in [Ids -> Seq(From(I))]
    BY DEF Typed, Routed
  <2> QED
    BY <1>1, <1>2, <2>1
<1>4. receives'[l.bus] = q /\ \A x \in Ids : x # l.bus => receives'[x] = receives[x]
  <2>1. receives' = [receives EXCEPT ![l.bus] = q] /\ l.bus \in Ids
    BY <1>1, <1>2
  <2> QED
    BY <1>3, <2>1
<1> HIDE DEF I, rs
<1>5. Cardinality(WithoutAudio(q, s)) = Cardinality(WithoutAudio(rs, s))
  BY <1>1, <1>3, SilentKept
<1>6. /\ Sends(q, s, FALSE) = Cardinality(WithoutAudio(q, s))
      /\ Sends(rs, s, FALSE) = Cardinality(WithoutAudio(rs, s))
      /\ Sends(q, s, TRUE) = Cardinality(WithAudio(q, s))
      /\ Sends(rs, s, TRUE) = Cardinality(WithAudio(rs, s))
      /\ Cardinality(WithAudio(rs, s)) \in Nat
  BY <1>1, <1>3, SendsCounted
<1>7. Places(l, s) = Cardinality(Entered(roster, s)) /\ Cardinality(Entered(roster, s)) \in Nat
  <2>1. l.bedW \in Nat /\ (l.bed # None => l.bedW > 0)
    <3>1. \A w \in Nchans : w \in Nat /\ w > 0
      BY DEF Nchans
    <3>2. 0 \in Nat
      OBVIOUS
    <3> QED
      BY Zenon, <1>1, <3>1, <3>2
  <2>2. l.bed \in Ids \cup {None} /\ l.objs \in [1..Len(l.objs) -> Ids] /\ Len(l.objs) \in Nat
    BY <1>1, <1>2
  <2>3. Places(l, s) = Cardinality(Entered(roster, s)) /\ IsFiniteSet(Entered(roster, s))
    BY <1>1, <1>2, <2>1, <2>2, EnteredPlaces
  <2> QED
    BY <2>3, FS_CardinalityType
<1>8. Filled(h, q, roster, at, Slots(roster, at, rs), strays, l.clean, l.complete)
  BY <1>1, <1>3, SlotsFilled
<1>9. ASSUME l.complete, NoStray(h, q, strays, s) PROVE Sends(q, s, TRUE) = Places(l, s)
  <2>1. EachSent(h, q, roster, Slots(roster, at, rs))
    BY <1>8, <1>9 DEF Filled, EachSent
  <2>2. Cardinality(WithAudio(q, s)) = Cardinality(Entered(roster, s))
    BY <1>1, <1>3, <1>9, <2>1, AudioPlaced
  <2> QED
    BY <1>6, <1>7, <2>2
<1>10. ASSUME l.complete, l.clean PROVE Sends(q, s, TRUE) = Places(l, s)
  <2>1. NoStray(h, q, strays, s)
    BY <1>8, <1>10 DEF Filled, NoStray
  <2> QED
    BY <1>9, <1>10, <2>1
<1>11. ASSUME l.complete, ~l.clean PROVE Sends(q, s, TRUE) = Max({Sends(rs, s, TRUE), Places(l, s)})
  <2> DEFINE a == Sends(rs, s, TRUE)
             b == Places(l, s)
  <2>1. a \in Nat /\ b \in Nat
    BY <1>6, <1>7
  <2>2. CASE \A i \in strays : rs[i].src # s
    <3>1. NoStray(h, q, strays, s)
      <4> SUFFICES ASSUME NEW i \in 1..Len(q), q[i].src = s, h[i] \in strays PROVE FALSE
        BY DEF NoStray
      <4>1. \A k \in 1..Len(roster) : at[k] # h[i]
        BY <1>1 DEF Placed
      <4>2. h[i] \in 1..Len(rs) /\ Len(rs) \in Nat
        BY <1>1, <1>3, SeqDomain DEF Placed
      <4>3. q[i] = rs[h[i]]
        BY <1>1, <4>1, <4>2 DEF Traced
      <4> QED
        BY <2>2, <4>3
    <3>2. Sends(q, s, TRUE) = b
      BY <1>9, <1>11, <3>1
    <3>3. a <= b
      BY <1>1, <1>3, <1>6, <1>7, <2>2, AudioBefore
    <3> HIDE DEF a, b
    <3> QED
      BY <2>1, <3>2, <3>3, MaxOfTwo DEF a, b
  <2>3. CASE \E i \in strays : rs[i].src = s
    <3>1. AllTaken(roster, at, s)
      BY <1>1, <2>3 DEF Placed, AllTaken
    <3>2. Sends(q, s, TRUE) = a
      <4>1. NoneLost(h, q, rs)
        BY <1>1, <1>11 DEF Whole, NoneLost
      <4>2. Cardinality(WithAudio(q, s)) = Cardinality(WithAudio(rs, s))
        BY <1>1, <1>3, <3>1, <4>1, AudioKept
      <4> QED
        BY <1>6, <4>2
    <3>3. b <= a
      BY <1>1, <1>3, <1>6, <1>7, <3>1, AudioBefore DEF AllTaken
    <3> HIDE DEF a, b
    <3> QED
      BY <2>1, <3>2, <3>3, MaxOfTwo DEF a, b
  <2> QED
    BY <2>2, <2>3
<1>12. CASE d = l.bus
  <2>1. Sends(receives'[d], s, FALSE) = Sends(receives[d], s, FALSE)
    BY <1>4, <1>5, <1>6, <1>12 DEF rs
  <2>2. ASSUME l.complete
        PROVE  Sends(receives'[d], s, TRUE) =
                 IF l.clean THEN Places(l, s) ELSE Max({Sends(receives[d], s, TRUE), Places(l, s)})
    <3>1. receives'[d] = q /\ receives[d] = rs
      BY <1>4, <1>12 DEF rs
    <3>2. CASE l.clean
      BY <1>10, <2>2, <3>1, <3>2
    <3>3. CASE ~l.clean
      BY <1>11, <2>2, <3>1, <3>3
    <3> QED
      BY <3>2, <3>3
  <2> QED
    BY <1>12, <2>1, <2>2 DEF Spared
<1>13. CASE d # l.bus
  BY <1>4, <1>13 DEF Spared
<1> QED
  BY <1>12, <1>13

\* Reconciling a bus is not destructive: orchestrate_sends leaves every other bus, every
\* send without audio and every send it has a place for; it adds what is missing, and
\* removes a send only if it was told to prune and the send has no place.
THEOREM OrchestrationsSpare == Spec => OnlyStraysGo
<1>1. TypeOK /\ TypeOK' /\ [Next]_vars
        => [last'.verb = "orchestrate" => \A d, s \in Ids : Spared(last', d, s)]_vars
  <2> SUFFICES ASSUME TypeOK, TypeOK', [Next]_vars, last'.verb = "orchestrate", vars' # vars,
                      NEW d \in Ids, NEW s \in Ids
               PROVE  Spared(last', d, s)
    OBVIOUS
  <2>1. Typed /\ Next
    BY TypesKept
  <2>2. PICK roster, at, strays, h, q : Orchestrated(last', roster, at, strays, h, q)
    BY <2>1, OrchestrationsOnly
  <2> QED
    BY <2>1, <2>2, OrchestrationSpares
<1> QED
  BY <1>1, TypeCorrect, PTL DEF Spec, OnlyStraysGo
=============================================================================
