--------------------------- MODULE SelectionProofs ---------------------------
(***************************************************************************)
(* What Select and FlattenSeq return, and what it is to put something in   *)
(* order: by position and, where that is the same, by age.                 *)
(*                                                                         *)
(* Both recurse over a sequence.  Claims about every step of a recursion,  *)
(* the one that it has a solution included, are proved by way of the least *)
(* number for which they fail (NatMin).                                    *)
(***************************************************************************)
EXTENDS Selection, FiniteSetTheorems, SequenceTheorems, TLAPS

LEMMA NatMin ==
    ASSUME NEW S \in SUBSET Nat, S # {}
    PROVE  \E x \in S : \A y \in S : x <= y
  <1> DEFINE R == OpToRel(<, Nat)
  <1>1. IsWellFoundedOn(R, Nat)
    BY NatLessThanWellFounded
  <1>2. \A x, y \in Nat : x < y => <<x, y>> \in R
    BY DEF OpToRel
  <1> HIDE DEF R
  <1>3. PICK x \in S : \A y \in S : <<y, x>> \notin R
    BY <1>1, WFMin
  <1>4. \A y \in S : ~(y < x)
    BY <1>2, <1>3
  <1> QED
    BY <1>4

-----------------------------------------------------------------------------
(* Places in an order by position, then by age.                            *)
Precedes(pos, i, j) == pos[i] < pos[j] \/ (pos[i] = pos[j] /\ i < j)
Ahead(D, pos, i) == {j \in D : Precedes(pos, j, i)}
Place(D, pos, i) == 1 + Cardinality(Ahead(D, pos, i))

LEMMA PlacesNumber ==
    ASSUME NEW D \in SUBSET Nat, IsFiniteSet(D), NEW pos \in [D -> Int]
    PROVE  /\ \A i \in D : Place(D, pos, i) \in 1 .. Cardinality(D)
           /\ \A i, j \in D : Precedes(pos, i, j) => Place(D, pos, i) < Place(D, pos, j)
           /\ \A i, j \in D : i = j \/ Precedes(pos, i, j) \/ Precedes(pos, j, i)
           /\ \A n \in 1 .. Cardinality(D) : \E i \in D : Place(D, pos, i) = n
  <1> DEFINE before(i) == Ahead(D, pos, i)
             size == Cardinality(D)
  <1>0. size \in Nat
    BY FS_CardinalityType
  <1>1. ASSUME NEW i \in D
        PROVE  IsFiniteSet(before(i)) /\ Cardinality(before(i)) \in 0 .. size - 1
    <2>1. before(i) \in SUBSET (D \ {i})
      BY DEF Ahead, Precedes
    <2>2. IsFiniteSet(D \ {i}) /\ Cardinality(D \ {i}) = size - 1
      BY FS_RemoveElement
    <2> HIDE DEF before
    <2>3. IsFiniteSet(before(i)) /\ Cardinality(before(i)) <= size - 1
      BY <2>1, <2>2, FS_Subset
    <2>4. Cardinality(before(i)) \in Nat
      BY <2>3, FS_CardinalityType
    <2> QED
      BY <1>0, <2>3, <2>4
  <1>2. ASSUME NEW i \in D, NEW j \in D, Precedes(pos, i, j)
        PROVE  Place(D, pos, i) < Place(D, pos, j)
    <2>0. \A k \in D : k \in Nat /\ pos[k] \in Int
      OBVIOUS
    <2>1. before(i) \in SUBSET (before(j) \ {i}) /\ i \in before(j)
      <3>1. ASSUME NEW k \in D, Precedes(pos, k, i)
            PROVE  Precedes(pos, k, j) /\ k # i
        BY <1>2, <2>0, <3>1 DEF Precedes
      <3> QED
        BY <1>2, <3>1 DEF Ahead
    <2> HIDE DEF before
    <2>2. /\ IsFiniteSet(before(j) \ {i})
          /\ Cardinality(before(j) \ {i}) = Cardinality(before(j)) - 1
      BY <1>1, <2>1, FS_RemoveElement
    <2>3. Cardinality(before(i)) <= Cardinality(before(j)) - 1
      BY <2>1, <2>2, FS_Subset
    <2>4. Cardinality(before(i)) \in Int /\ Cardinality(before(j)) \in Int
      BY <1>1
    <2> QED
      BY <2>3, <2>4 DEF Place, before
  <1>3. \A i \in D : Place(D, pos, i) \in 1 .. size
    BY <1>0, <1>1 DEF Place
  <1>4. \A i, j \in D : i = j \/ Precedes(pos, i, j) \/ Precedes(pos, j, i)
    BY DEF Precedes
  <1>5. \A n \in 1 .. size : \E i \in D : Place(D, pos, i) = n
    <2> DEFINE f == [i \in D |-> Place(D, pos, i)]
    <2>1. f \in [D -> 1 .. size]
      BY <1>3
    <2>2. \A i, j \in D : f[i] = f[j] => i = j
      BY <1>2, <1>3, <1>4
    <2>3. f \in Injection(D, 1 .. size)
      BY <2>1, <2>2 DEF Injection, IsInjective
    <2>4. IsFiniteSet(1 .. size) /\ Cardinality(1 .. size) = size
      BY <1>0, FS_Interval
    <2> HIDE DEF f
    <2>5. f \in Surjection(D, 1 .. size)
      BY <2>3, <2>4, FS_Injection
    <2> QED
      BY <2>5 DEF Surjection, f
  <1> QED
    BY <1>2, <1>3, <1>4, <1>5

(* Some sequence lists D in that order, and whichever does has in place n  *)
(* the element that n counts.                                              *)
InOrder(items, pos) ==
    \A m, n \in DOMAIN items : m < n => Precedes(pos, items[m], items[n])

LEMMA OrderPlaces ==
    ASSUME NEW D \in SUBSET Nat, IsFiniteSet(D), NEW pos \in [D -> Int]
    PROVE  /\ \E items \in [1 .. Cardinality(D) -> D] : InOrder(items, pos)
           /\ \A items \in [1 .. Cardinality(D) -> D] : InOrder(items, pos) =>
                  /\ \A n \in 1 .. Cardinality(D) : Place(D, pos, items[n]) = n
                  /\ \A i \in D : items[Place(D, pos, i)] = i
  <1> DEFINE size == Cardinality(D)
             place(i) == Place(D, pos, i)
  <1>1. size \in Nat /\ \A i \in D : i \in Nat /\ pos[i] \in Int
    BY FS_CardinalityType
  <1>2. /\ \A i \in D : place(i) \in 1 .. size
        /\ \A i, j \in D : Precedes(pos, i, j) => place(i) < place(j)
        /\ \A i, j \in D : i = j \/ Precedes(pos, i, j) \/ Precedes(pos, j, i)
        /\ \A n \in 1 .. size : \E i \in D : place(i) = n
    BY PlacesNumber
  <1> HIDE DEF place, size
  <1>3. \E items \in [1 .. size -> D] : InOrder(items, pos)
    <2> DEFINE items == [n \in 1 .. size |-> CHOOSE i \in D : place(i) = n]
    <2>1. \A n \in 1 .. size : items[n] \in D /\ place(items[n]) = n
      BY <1>2
    <2>2. items \in [1 .. size -> D]
      BY <2>1
    <2>3. DOMAIN items = 1 .. size
      OBVIOUS
    <2> HIDE DEF items
    <2>4. ASSUME NEW m \in 1 .. size, NEW n \in 1 .. size, m < n
          PROVE  Precedes(pos, items[m], items[n])
      <3>1. ~Precedes(pos, items[n], items[m])
        <4>1. Precedes(pos, items[n], items[m]) => place(items[n]) < place(items[m])
          BY <1>2, <2>1
        <4> QED
          BY <1>1, <2>1, <2>4, <4>1
      <3>2. items[m] # items[n]
        BY <1>1, <2>1, <2>4
      <3> QED
        BY <1>2, <2>1, <3>1, <3>2
    <2>5. InOrder(items, pos)
      BY <2>3, <2>4 DEF InOrder
    <2> QED
      BY <2>2, <2>5
  <1>4. ASSUME NEW items \in [1 .. size -> D], InOrder(items, pos)
        PROVE  \A n \in 1 .. size : place(items[n]) = n
    <2> DEFINE at == [n \in 1 .. size |-> place(items[n])]
    <2>1. DOMAIN items = 1 .. size /\ \A n \in 1 .. size : items[n] \in D
      OBVIOUS
    <2>2. \A n \in 1 .. size : at[n] \in 1 .. size /\ at[n] = place(items[n])
      BY <1>2, <2>1
    <2>3. \A m, n \in 1 .. size : m < n => at[m] < at[n]
      BY <1>2, <1>4, <2>1 DEF InOrder
    <2> HIDE DEF at
    <2>4. \A n \in 1 .. size : n <= at[n]
      <3> DEFINE S == {n \in 1 .. size : at[n] < n}
      <3>1. SUFFICES ASSUME S # {} PROVE FALSE
        BY <1>1, <2>2
      <3>2. S \in SUBSET Nat
        OBVIOUS
      <3>3. PICK n \in S : \A m \in S : n <= m
        BY <3>1, <3>2, NatMin
      <3>4. n \in 1 .. size /\ at[n] < n
        BY <3>3
      <3>5. n - 1 \in 1 .. size
        BY <1>1, <2>2, <3>4
      <3>6. n - 1 <= at[n - 1]
        <4>1. n - 1 \notin S
          BY <3>3, <3>5
        <4> QED
          BY <1>1, <2>2, <3>5, <4>1
      <3>7. at[n - 1] < at[n]
        BY <1>1, <2>3, <3>4, <3>5
      <3> QED
        BY <1>1, <2>2, <3>4, <3>5, <3>6, <3>7
    <2>5. \A n \in 1 .. size : at[n] <= n
      <3> DEFINE S == {k \in 0 .. size - 1 : at[size - k] > size - k}
      <3>1. SUFFICES ASSUME NEW n \in 1 .. size, at[n] > n PROVE FALSE
        BY <1>1, <2>2
      <3>2. S \in SUBSET Nat
        BY <1>1
      <3>3. size - n \in S
        BY <1>1, <3>1
      <3>4. PICK k \in S : \A m \in S : k <= m
        BY <3>2, <3>3, NatMin
      <3>5. k \in 0 .. size - 1 /\ at[size - k] > size - k
        BY <3>4
      <3>6. size - k \in 1 .. size
        BY <1>1, <3>5
      <3>7. k # 0
        BY <1>1, <2>2, <3>5, <3>6
      <3>8. k - 1 \in 0 .. size - 1 /\ size - (k - 1) \in 1 .. size
        BY <1>1, <3>5, <3>7
      <3>9. at[size - (k - 1)] <= size - (k - 1)
        <4>1. k - 1 \notin S
          BY <3>4, <3>8
        <4> QED
          BY <1>1, <2>2, <3>8, <4>1
      <3>10. at[size - k] < at[size - (k - 1)]
        <4>1. size - k < size - (k - 1)
          BY <1>1, <3>5
        <4> QED
          BY <2>3, <3>6, <3>8, <4>1
      <3> QED
        BY <1>1, <2>2, <3>5, <3>6, <3>8, <3>9, <3>10
    <2> QED
      BY <1>1, <2>2, <2>4, <2>5
  <1>5. ASSUME NEW items \in [1 .. size -> D], InOrder(items, pos), NEW i \in D
        PROVE  items[place(i)] = i
    <2>1. place(i) \in 1 .. size /\ items[place(i)] \in D
      BY <1>2
    <2>2. place(items[place(i)]) = place(i)
      BY <1>4, <1>5, <2>1
    <2>3. \A j \in D : place(j) = place(i) => j = i
      <3>1. \A j \in D : place(j) \in Int /\ place(i) \in Int
        BY <1>2
      <3> QED
        BY <1>2, <3>1
    <2> QED
      BY <2>1, <2>2, <2>3
  <1> QED
    BY <1>3, <1>4, <1>5 DEF size, place

-----------------------------------------------------------------------------
(* FlattenSeq is a recursion over the sequence.                            *)
LEMMA FlattenSteps ==
    ASSUME NEW seqs, Len(seqs) \in Nat \ {0}
    PROVE  \E f : /\ \A i \in 1 .. Len(seqs) :
                         f[i] = IF i = 1 THEN seqs[i] ELSE f[i - 1] \o seqs[i]
                  /\ FlattenSeq(seqs) = f[Len(seqs)]
  <1> DEFINE len == Len(seqs)
             Solves(g, k) == g = [i \in 1 .. k |-> IF i = 1 THEN seqs[i] ELSE g[i - 1] \o seqs[i]]
             flatten[i \in 1 .. len] == IF i = 1 THEN seqs[i] ELSE flatten[i - 1] \o seqs[i]
  <1>1. FlattenSeq(seqs) = flatten[len]
    BY DEF FlattenSeq
  <1>2. \E g : Solves(g, len)
    <2> DEFINE P(k) == \E g : Solves(g, k)
    <2>1. P(1)
      <3> DEFINE g == [i \in 1 .. 1 |-> seqs[i]]
      <3>1. ASSUME NEW i \in 1 .. 1
            PROVE  g[i] = IF i = 1 THEN seqs[i] ELSE g[i - 1] \o seqs[i]
        <4>1. i = 1
          OBVIOUS
        <4> QED
          BY <4>1
      <3>2. g = [i \in 1 .. 1 |-> g[i]]
        OBVIOUS
      <3> HIDE DEF g
      <3>3. Solves(g, 1)
        BY <3>1, <3>2
      <3> QED
        BY <3>3
    <2>2. ASSUME NEW k \in 1 .. len, k # 1, P(k - 1)
          PROVE  P(k)
      <3>1. PICK g : Solves(g, k - 1)
        BY <2>2
      <3> DEFINE h == [i \in 1 .. k |-> IF i = k THEN g[k - 1] \o seqs[k] ELSE g[i]]
      <3>2. ASSUME NEW i \in 1 .. k
            PROVE  h[i] = IF i = 1 THEN seqs[i] ELSE h[i - 1] \o seqs[i]
        <4>1. i # 1 => i - 1 \in 1 .. k /\ i - 1 # k
          BY <2>2
        <4>2. CASE i = k
          BY <2>2, <4>1, <4>2
        <4>3. CASE i # k
          <5>1. i \in 1 .. k - 1
            BY <2>2, <4>3
          <5>2. g[i] = IF i = 1 THEN seqs[i] ELSE g[i - 1] \o seqs[i]
            BY <3>1, <5>1
          <5> QED
            BY <4>1, <4>3, <5>2
        <4> QED
          BY <4>2, <4>3
      <3>3. h = [i \in 1 .. k |-> h[i]]
        OBVIOUS
      <3> HIDE DEF h
      <3>4. Solves(h, k)
        BY <3>2, <3>3
      <3> QED
        BY <3>4
    <2> HIDE DEF P
    <2>3. P(len)
      <3> DEFINE S == {k \in 1 .. len : ~P(k)}
      <3>1. SUFFICES ASSUME S # {} PROVE FALSE
        OBVIOUS
      <3>2. S \in SUBSET Nat
        OBVIOUS
      <3>3. PICK k \in S : \A n \in S : k <= n
        BY <3>1, <3>2, NatMin
      <3>4. k \in 1 .. len /\ ~P(k) /\ (k # 1 => k - 1 \in 1 .. len /\ k - 1 \notin S)
        BY <3>3
      <3> QED
        BY <2>1, <2>2, <3>4
    <2> QED
      BY <2>3 DEF P
  <1>3. Solves(flatten, len)
    BY <1>2
  <1> HIDE DEF flatten
  <1>4. \A i \in 1 .. len : flatten[i] = IF i = 1 THEN seqs[i] ELSE flatten[i - 1] \o seqs[i]
    BY <1>3
  <1> QED
    BY <1>1, <1>4

LEMMA FlattenType ==
    ASSUME NEW T, NEW seqs \in Seq(Seq(T))
    PROVE  FlattenSeq(seqs) \in Seq(T)
  <1> DEFINE len == Len(seqs)
  <1>1. len \in Nat /\ \A i \in 1 .. len : seqs[i] \in Seq(T)
    OBVIOUS
  <1>2. CASE len = 0
    <2>1. seqs = <<>>
      BY <1>2
    <2> QED
      BY <1>2, <2>1 DEF FlattenSeq
  <1>3. CASE len # 0
    <2>1. PICK f : /\ \A i \in 1 .. len : f[i] = IF i = 1 THEN seqs[i] ELSE f[i - 1] \o seqs[i]
                   /\ FlattenSeq(seqs) = f[len]
      BY <1>1, <1>3, FlattenSteps
    <2>2. \A i \in 1 .. len : f[i] \in Seq(T)
      <3> DEFINE S == {i \in 1 .. len : f[i] \notin Seq(T)}
      <3>1. SUFFICES ASSUME S # {} PROVE FALSE
        OBVIOUS
      <3>2. S \in SUBSET Nat
        OBVIOUS
      <3>3. PICK k \in S : \A n \in S : k <= n
        BY <3>1, <3>2, NatMin
      <3>4. k \in 1 .. len /\ f[k] \notin Seq(T)
        BY <3>3
      <3>5. k # 1 => k - 1 \in 1 .. len /\ f[k - 1] \in Seq(T)
        BY <3>3
      <3>6. f[k] = IF k = 1 THEN seqs[k] ELSE f[k - 1] \o seqs[k]
        BY <2>1, <3>4
      <3>7. seqs[k] \in Seq(T)
        BY <1>1, <3>4
      <3> HIDE DEF S
      <3> QED
        BY <3>4, <3>5, <3>6, <3>7
    <2> QED
      BY <1>1, <1>3, <2>1, <2>2
  <1> QED
    BY <1>2, <1>3

-----------------------------------------------------------------------------
(* What Select returns: elements of s that are in S, all of them, and each *)
(* two in the order in which they stand in s.                              *)
Selects(t, s, n, S) ==
    /\ Len(t) <= n
    /\ \A i \in 1 .. Len(t) : t[i] \in S /\ \E a \in 1 .. n : t[i] = s[a]
    /\ \A a \in 1 .. n : s[a] \in S => \E i \in 1 .. Len(t) : t[i] = s[a]
    /\ \A i, j \in 1 .. Len(t) :
           i < j => \E a, b \in 1 .. n : a < b /\ t[i] = s[a] /\ t[j] = s[b]

LEMMA OneMore ==
    ASSUME NEW T, NEW g \in Seq(T), NEW c \in Seq(T), Len(c) = 1
    PROVE  /\ g \o c \in Seq(T) /\ Len(g \o c) = Len(g) + 1
           /\ (g \o c)[Len(g) + 1] = c[1]
           /\ \A i \in 1 .. Len(g) : (g \o c)[i] = g[i]
  <1>1. Len(g) \in Nat
    OBVIOUS
  <1>2. g \o c \in Seq(T) /\ Len(g \o c) = Len(g) + 1
    <2>1. g \o c \in Seq(T)
      BY ConcatProperties
    <2>2. Len(g \o c) = Len(g) + Len(c)
      BY ConcatProperties
    <2> QED
      BY <2>1, <2>2
  <1>3. \A i \in 1 .. Len(g) + 1 : (g \o c)[i] = IF i <= Len(g) THEN g[i] ELSE c[i - Len(g)]
    BY ConcatProperties
  <1>4. Len(g) + 1 \in 1 .. Len(g) + 1 /\ Len(g) + 1 - Len(g) = 1 /\ ~(Len(g) + 1 <= Len(g))
    BY <1>1
  <1>5. \A i \in 1 .. Len(g) : i \in 1 .. Len(g) + 1 /\ i <= Len(g)
    BY <1>1
  <1> QED
    BY <1>2, <1>3, <1>4, <1>5

LEMMA SelectFacts ==
    ASSUME NEW T, NEW s \in Seq(T), NEW S
    PROVE  Select(s, S) \in Seq(T) /\ Selects(Select(s, S), s, Len(s), S)
  <1> DEFINE len == Len(s)
             kept(i) == IF s[i] \in S THEN <<s[i]>> ELSE <<>>
             seqs == [i \in DOMAIN s |-> kept(i)]
  <1>1. len \in Nat /\ DOMAIN s = 1 .. len /\ \A i \in 1 .. len : s[i] \in T
    OBVIOUS
  <1>2. \A i \in 1 .. len : kept(i) \in Seq(T)
    BY <1>1
  <1>3. Select(s, S) = FlattenSeq(seqs)
    BY DEF Select
  <1>4. ASSUME NEW i \in 1 .. len
        PROVE  \/ s[i] \in S /\ kept(i) \in Seq(T) /\ Len(kept(i)) = 1 /\ kept(i)[1] = s[i]
               \/ s[i] \notin S /\ kept(i) = <<>>
    BY <1>1
  <1> HIDE DEF kept
  <1>5. seqs \in Seq(Seq(T)) /\ Len(seqs) = len /\ \A i \in 1 .. len : seqs[i] = kept(i)
    BY <1>1, <1>2
  <1>6. Select(s, S) \in Seq(T)
    BY <1>3, <1>5, FlattenType
  <1>7. CASE len = 0
    <2>1. seqs = <<>>
      BY <1>5, <1>7
    <2>2. Select(s, S) = <<>>
      BY <1>3, <2>1 DEF FlattenSeq
    <2> QED
      BY <1>6, <1>7, <2>2 DEF Selects
  <1>8. CASE len # 0
    <2>1. PICK f : /\ \A i \in 1 .. len : f[i] = IF i = 1 THEN seqs[i] ELSE f[i - 1] \o seqs[i]
                   /\ FlattenSeq(seqs) = f[len]
      BY <1>1, <1>5, <1>8, FlattenSteps
    <2> HIDE DEF seqs
    <2> DEFINE Good(i) == f[i] \in Seq(T) /\ Selects(f[i], s, i, S)
    <2>2. Good(1)
      <3>1. 1 \in 1 .. len
        BY <1>1, <1>8
      <3> DEFINE h == f[1]
      <3>2. h = kept(1)
        BY <1>5, <2>1, <3>1
      <3>3. CASE s[1] \in S
        <4>1. h \in Seq(T) /\ Len(h) = 1 /\ h[1] = s[1]
          BY <1>4, <3>1, <3>2, <3>3
        <4> HIDE DEF h
        <4>2. Selects(h, s, 1, S)
          BY <3>3, <4>1 DEF Selects
        <4> QED
          BY <4>1, <4>2 DEF h
      <3>4. CASE s[1] \notin S
        <4>1. h = <<>>
          BY <1>4, <3>1, <3>2, <3>4
        <4> HIDE DEF h
        <4>2. Selects(h, s, 1, S)
          BY <3>4, <4>1 DEF Selects
        <4> QED
          BY <4>1, <4>2 DEF h
      <3> QED
        BY <3>3, <3>4
    <2>3. ASSUME NEW k \in 1 .. len, k # 1, Good(k - 1)
          PROVE  Good(k)
      <3> DEFINE g == f[k - 1]
                 h == f[k]
                 n == Len(g)
      <3>1. h = g \o kept(k)
        <4>1. f[k] = IF k = 1 THEN seqs[k] ELSE f[k - 1] \o seqs[k]
          BY <2>1
        <4> QED
          BY <1>5, <2>3, <4>1
      <3>2. g \in Seq(T) /\ n \in Nat /\ n <= k - 1 /\ Selects(g, s, k - 1, S)
        BY <2>3 DEF Selects
      <3>3. CASE s[k] \notin S
        <4>1. h = g
          BY <1>4, <3>1, <3>2, <3>3
        <4> HIDE DEF g, h
        <4>2. \A a \in 1 .. k : a \in 1 .. k - 1 \/ a = k
          OBVIOUS
        <4>3. \A a \in 1 .. k - 1 : a \in 1 .. k
          OBVIOUS
        <4>4. Selects(h, s, k, S)
          BY <3>2, <3>3, <4>1, <4>2, <4>3 DEF Selects
        <4> QED
          BY <3>2, <4>1, <4>4 DEF h
      <3>4. CASE s[k] \in S
        <4>1. kept(k) \in Seq(T) /\ Len(kept(k)) = 1 /\ kept(k)[1] = s[k]
          BY <1>4, <3>4
        <4> HIDE DEF g, h
        <4>2. /\ h \in Seq(T) /\ Len(h) = n + 1 /\ h[n + 1] = s[k]
              /\ \A i \in 1 .. n : h[i] = g[i]
          BY <3>1, <3>2, <4>1, OneMore
        <4>3. \A i \in 1 .. n + 1 : i \in 1 .. n \/ i = n + 1
          BY <3>2
        <4>4. \A a \in 1 .. k : a \in 1 .. k - 1 \/ a = k
          OBVIOUS
        <4>5. \A a \in 1 .. k - 1 : a \in 1 .. k /\ a < k
          OBVIOUS
        <4>6. Len(h) <= k
          BY <3>2, <4>2
        <4>7. \A i \in 1 .. Len(h) : h[i] \in S /\ \E a \in 1 .. k : h[i] = s[a]
          <5>1. \A i \in 1 .. n : h[i] \in S /\ \E a \in 1 .. k : h[i] = s[a]
            BY <3>2, <4>2, <4>5 DEF Selects
          <5>2. h[n + 1] \in S /\ k \in 1 .. k /\ h[n + 1] = s[k]
            BY <3>4, <4>2
          <5> QED
            BY <4>2, <4>3, <5>1, <5>2
        <4>8. \A a \in 1 .. k : s[a] \in S => \E i \in 1 .. Len(h) : h[i] = s[a]
          <5>1. \A i \in 1 .. n : i \in 1 .. n + 1
            BY <3>2
          <5>2. n + 1 \in 1 .. n + 1
            BY <3>2
          <5> QED
            BY <3>2, <4>2, <4>4, <5>1, <5>2 DEF Selects
        <4>9. ASSUME NEW i \in 1 .. Len(h), NEW j \in 1 .. Len(h), i < j
              PROVE  \E a, b \in 1 .. k : a < b /\ h[i] = s[a] /\ h[j] = s[b]
          <5>1. CASE j \in 1 .. n
            <6>1. i \in 1 .. n
              BY <3>2, <4>2, <4>9, <5>1
            <6>2. PICK a \in 1 .. k - 1, b \in 1 .. k - 1 : a < b /\ g[i] = s[a] /\ g[j] = s[b]
              BY <3>2, <4>9, <5>1, <6>1 DEF Selects
            <6> QED
              BY <4>2, <4>5, <5>1, <6>1, <6>2
          <5>2. CASE j = n + 1
            <6>1. i \in 1 .. n
              BY <3>2, <4>2, <4>9, <5>2
            <6>2. PICK a \in 1 .. k - 1 : g[i] = s[a]
              BY <3>2, <6>1 DEF Selects
            <6>3. a \in 1 .. k /\ a < k /\ k \in 1 .. k
              OBVIOUS
            <6> QED
              BY <4>2, <5>2, <6>1, <6>2, <6>3
          <5> QED
            BY <4>2, <4>3, <5>1, <5>2
        <4>10. Selects(h, s, k, S)
          BY <4>6, <4>7, <4>8, <4>9 DEF Selects
        <4> QED
          BY <4>2, <4>10 DEF h
      <3> QED
        BY <3>3, <3>4
    <2> HIDE DEF Good
    <2>4. Good(len)
      <3> DEFINE B == {i \in 1 .. len : ~Good(i)}
      <3>1. SUFFICES ASSUME B # {} PROVE FALSE
        BY <1>1, <1>8
      <3>2. B \in SUBSET Nat
        OBVIOUS
      <3>3. PICK k \in B : \A n \in B : k <= n
        BY <3>1, <3>2, NatMin
      <3>4. k \in 1 .. len /\ ~Good(k) /\ (k # 1 => k - 1 \in 1 .. len /\ Good(k - 1))
        BY <3>3
      <3> QED
        BY <2>2, <2>3, <3>4
    <2> QED
      BY <1>3, <2>1, <2>4 DEF Good
  <1> QED
    BY <1>6, <1>7, <1>8

-----------------------------------------------------------------------------
(* What FlattenSeq returns: the elements of the sequences, all of them, and *)
(* no two from one place.                                                   *)
TwoPlaces(seqs, n, x, y) ==
    \E a, b \in 1 .. n : \E k \in 1 .. Len(seqs[a]), l \in 1 .. Len(seqs[b]) :
        (a # b \/ k # l) /\ x = seqs[a][k] /\ y = seqs[b][l]

Flattens(t, seqs, n) ==
    /\ \A i \in 1 .. Len(t) : \E a \in 1 .. n : \E k \in 1 .. Len(seqs[a]) : t[i] = seqs[a][k]
    /\ \A a \in 1 .. n : \A k \in 1 .. Len(seqs[a]) : \E i \in 1 .. Len(t) : t[i] = seqs[a][k]
    /\ \A i, j \in 1 .. Len(t) : i # j => TwoPlaces(seqs, n, t[i], t[j])

LEMMA FlattensMore ==
    ASSUME NEW T, NEW seqs \in Seq(Seq(T)), NEW k \in 1 .. Len(seqs), k # 1,
           NEW g \in Seq(T), Flattens(g, seqs, k - 1)
    PROVE  Flattens(g \o seqs[k], seqs, k)
  <1>a. PICK c : c = seqs[k]
    OBVIOUS
  <1>b. PICK h : h = g \o c
    OBVIOUS
  <1>c. PICK n : n = Len(g)
    OBVIOUS
  <1>1. c \in Seq(T) /\ n \in Nat /\ Len(c) \in Nat
    BY <1>a, <1>c
  <1>2. /\ Len(h) = n + Len(c)
        /\ \A i \in 1 .. Len(h) : h[i] = IF i <= n THEN g[i] ELSE c[i - n]
    BY <1>1, <1>b, <1>c, ConcatProperties
  <1>3. \A i \in 1 .. Len(h) : \/ i \in 1 .. n /\ h[i] = g[i]
                               \/ i - n \in 1 .. Len(c) /\ h[i] = c[i - n]
    BY <1>1, <1>2
  <1>4. /\ \A i \in 1 .. n : i \in 1 .. Len(h) /\ h[i] = g[i]
        /\ \A l \in 1 .. Len(c) : l + n \in 1 .. Len(h) /\ h[l + n] = c[l]
    BY <1>1, <1>2
  <1>5. \A a \in 1 .. k : a \in 1 .. k - 1 \/ a = k
    OBVIOUS
  <1>6. k \in 1 .. k /\ \A a \in 1 .. k - 1 : a \in 1 .. k /\ a # k
    OBVIOUS
  <1>7. /\ \A i \in 1 .. n : \E a \in 1 .. k - 1 : \E l \in 1 .. Len(seqs[a]) : g[i] = seqs[a][l]
        /\ \A a \in 1 .. k - 1 : \A l \in 1 .. Len(seqs[a]) : \E i \in 1 .. n : g[i] = seqs[a][l]
        /\ \A i, j \in 1 .. n : i # j => TwoPlaces(seqs, k - 1, g[i], g[j])
    BY <1>c DEF Flattens
  <1>8. ASSUME NEW i \in 1 .. Len(h)
        PROVE  \E a \in 1 .. k : \E l \in 1 .. Len(seqs[a]) : h[i] = seqs[a][l]
    <2>1. CASE i \in 1 .. n /\ h[i] = g[i]
      <3>1. PICK a \in 1 .. k - 1 : \E l \in 1 .. Len(seqs[a]) : g[i] = seqs[a][l]
        BY <1>7, <2>1
      <3>2. a \in 1 .. k
        BY <1>6
      <3> QED
        BY <2>1, <3>1, <3>2
    <2>2. CASE i - n \in 1 .. Len(c) /\ h[i] = c[i - n]
      BY <1>6, <1>a, <2>2
    <2> QED
      BY <1>3, <2>1, <2>2
  <1>9. ASSUME NEW a \in 1 .. k, NEW l \in 1 .. Len(seqs[a])
        PROVE  \E i \in 1 .. Len(h) : h[i] = seqs[a][l]
    <2>1. CASE a = k
      BY <1>4, <1>a, <2>1
    <2>2. CASE a \in 1 .. k - 1
      BY <1>4, <1>7, <2>2
    <2> QED
      BY <1>5, <2>1, <2>2
  <1>10. ASSUME NEW i \in 1 .. Len(h), NEW j \in 1 .. Len(h), i # j
         PROVE  TwoPlaces(seqs, k, h[i], h[j])
    <2>1. CASE i \in 1 .. n /\ j \in 1 .. n
      <3>1. TwoPlaces(seqs, k - 1, g[i], g[j])
        BY <1>7, <1>10, <2>1
      <3>2. PICK a \in 1 .. k - 1, b \in 1 .. k - 1 :
                \E l \in 1 .. Len(seqs[a]), m \in 1 .. Len(seqs[b]) :
                    (a # b \/ l # m) /\ g[i] = seqs[a][l] /\ g[j] = seqs[b][m]
        BY <3>1 DEF TwoPlaces
      <3>3. PICK l \in 1 .. Len(seqs[a]), m \in 1 .. Len(seqs[b]) :
                (a # b \/ l # m) /\ g[i] = seqs[a][l] /\ g[j] = seqs[b][m]
        BY <3>2
      <3>4. h[i] = seqs[a][l] /\ h[j] = seqs[b][m] /\ a \in 1 .. k /\ b \in 1 .. k
        BY <1>4, <1>6, <2>1, <3>3
      <3>5. l \in 1 .. Len(seqs[a]) /\ m \in 1 .. Len(seqs[b]) /\ (a # b \/ l # m)
        BY <3>3
      <3> QED
        BY <3>4, <3>5, Zenon DEF TwoPlaces
    <2>2. CASE i \in 1 .. n /\ j - n \in 1 .. Len(c) /\ h[j] = c[j - n]
      <3>1. PICK a \in 1 .. k - 1 : \E l \in 1 .. Len(seqs[a]) : g[i] = seqs[a][l]
        BY <1>7, <2>2
      <3>2. PICK l \in 1 .. Len(seqs[a]) : h[i] = seqs[a][l]
        BY <1>4, <2>2, <3>1
      <3>3. a \in 1 .. k /\ a # k /\ k \in 1 .. k
        BY <1>6
      <3> QED
        BY <1>a, <2>2, <3>2, <3>3, Zenon DEF TwoPlaces
    <2>3. CASE j \in 1 .. n /\ i - n \in 1 .. Len(c) /\ h[i] = c[i - n]
      <3>1. PICK a \in 1 .. k - 1 : \E l \in 1 .. Len(seqs[a]) : g[j] = seqs[a][l]
        BY <1>7, <2>3
      <3>2. PICK l \in 1 .. Len(seqs[a]) : h[j] = seqs[a][l]
        BY <1>4, <2>3, <3>1
      <3>3. a \in 1 .. k /\ a # k /\ k \in 1 .. k
        BY <1>6
      <3> QED
        BY <1>a, <2>3, <3>2, <3>3, Zenon DEF TwoPlaces
    <2>4. CASE /\ i - n \in 1 .. Len(c) /\ h[i] = c[i - n]
               /\ j - n \in 1 .. Len(c) /\ h[j] = c[j - n]
      <3>1. i - n # j - n
        BY <1>1, <1>2, <1>10
      <3>2. k \in 1 .. k
        OBVIOUS
      <3> QED
        BY <1>a, <2>4, <3>1, <3>2, Zenon DEF TwoPlaces
    <2> QED
      BY <1>3, <2>1, <2>2, <2>3, <2>4
  <1> QED
    BY <1>8, <1>9, <1>10, <1>a, <1>b DEF Flattens

LEMMA FlattenFacts ==
    ASSUME NEW T, NEW seqs \in Seq(Seq(T))
    PROVE  Flattens(FlattenSeq(seqs), seqs, Len(seqs))
  <1> DEFINE len == Len(seqs)
  <1>1. len \in Nat /\ \A i \in 1 .. len : seqs[i] \in Seq(T)
    OBVIOUS
  <1>2. CASE len = 0
    <2>1. seqs = <<>>
      BY <1>2
    <2>2. FlattenSeq(seqs) = <<>>
      BY <2>1 DEF FlattenSeq
    <2> QED
      BY <1>2, <2>2 DEF Flattens
  <1>3. CASE len # 0
    <2>1. PICK f : /\ \A i \in 1 .. len : f[i] = IF i = 1 THEN seqs[i] ELSE f[i - 1] \o seqs[i]
                   /\ FlattenSeq(seqs) = f[len]
      BY <1>1, <1>3, FlattenSteps
    <2> DEFINE Good(i) == f[i] \in Seq(T) /\ Flattens(f[i], seqs, i)
    <2>2. Good(1)
      <3>1. 1 \in 1 .. len /\ 1 .. 1 = {1}
        BY <1>1, <1>3
      <3>2. f[1] = seqs[1] /\ seqs[1] \in Seq(T)
        BY <1>1, <2>1, <3>1
      <3>3. ASSUME NEW t, t = seqs[1]
            PROVE  Flattens(t, seqs, 1)
        <4>1. \A i, j \in 1 .. Len(t) : i # j => TwoPlaces(seqs, 1, t[i], t[j])
          BY <3>1, <3>3 DEF TwoPlaces
        <4> QED
          BY <3>1, <3>3, <4>1 DEF Flattens
      <3> QED
        BY <3>2, <3>3
    <2>3. ASSUME NEW k \in 1 .. len, k # 1, Good(k - 1)
          PROVE  Good(k)
      <3>1. f[k] = f[k - 1] \o seqs[k]
        BY <2>1, <2>3
      <3>2. f[k] \in Seq(T)
        BY <1>1, <2>3, <3>1
      <3> QED
        BY <2>3, <3>1, <3>2, FlattensMore
    <2> HIDE DEF Good
    <2>4. Good(len)
      <3> DEFINE B == {i \in 1 .. len : ~Good(i)}
      <3>0. len \in 1 .. len
        <4> HIDE DEF len
        <4> QED
          BY <1>1, <1>3
      <3>1. SUFFICES ASSUME B # {} PROVE FALSE
        BY <3>0, Zenon
      <3>2. B \in SUBSET Nat
        OBVIOUS
      <3>3. PICK k \in B : \A n \in B : k <= n
        BY <3>1, <3>2, NatMin
      <3>4. k \in 1 .. len /\ ~Good(k) /\ (k # 1 => k - 1 \in 1 .. len /\ Good(k - 1))
        BY <3>3
      <3> QED
        BY <2>2, <2>3, <3>4
    <2> QED
      BY <2>1, <2>4 DEF Good
  <1> QED
    BY <1>2, <1>3

(* A sequence without repetitions is as long as there are elements in it.  *)
LEMMA ApartCounts ==
    ASSUME NEW len \in Nat, NEW f, DOMAIN f = 1 .. len,
           \A i, j \in 1 .. len : i # j => f[i] # f[j]
    PROVE  Cardinality({f[i] : i \in 1 .. len}) = len
  <1> DEFINE S == {f[i] : i \in 1 .. len}
             g == [i \in 1 .. len |-> f[i]]
  <1>1. g \in [1 .. len -> S] /\ \A i, j \in 1 .. len : g[i] = g[j] => i = j
    OBVIOUS
  <1>2. \A x \in S : \E i \in 1 .. len : g[i] = x
    OBVIOUS
  <1> HIDE DEF g, S
  <1>3. g \in Bijection(1 .. len, S)
    BY <1>1, <1>2 DEF Bijection, Injection, Surjection, IsInjective
  <1>4. ExistsBijection(1 .. len, S)
    BY <1>3 DEF ExistsBijection
  <1>5. IsFiniteSet(1 .. len) /\ Cardinality(1 .. len) = len
    BY FS_Interval
  <1> QED
    BY <1>4, <1>5, FS_Bijection DEF S

-----------------------------------------------------------------------------
(* A fold from the left recurses over the sets of places, by their largest. *)
LEMMA LargestPlace ==
    ASSUME NEW n \in Nat, NEW s \in SUBSET (1 .. n), s # {}
    PROVE  /\ Max(s) \in s /\ \A y \in s : y <= Max(s)
           /\ n \in s => Max(s) = n
  <1> DEFINE S == {m \in 0 .. n : n - m \in s}
  <1>0. \A y \in s : y \in 1 .. n
    OBVIOUS
  <1>1. S \in SUBSET Nat /\ \A y \in s : n - y \in S
    BY <1>0
  <1>2. PICK y \in s : TRUE
    OBVIOUS
  <1>3. PICK d \in S : \A e \in S : d <= e
    <2>1. S # {}
      BY <1>1, <1>2
    <2> QED
      BY <1>1, <2>1, NatMin
  <1>4. PICK x : x = n - d
    OBVIOUS
  <1>5. x \in s
    BY <1>4
  <1>6. \A z \in s : x >= z
    <2>1. \A z \in s : d <= n - z
      BY <1>1, <1>3
    <2> QED
      BY <1>0, <1>4, <2>1
  <1>7. Max(s) \in s /\ \A z \in s : Max(s) >= z
    <2>1. \E z \in s : \A w \in s : z >= w
      BY <1>5, <1>6
    <2> QED
      BY <2>1 DEF Max
  <1>8. PICK m : m = Max(s)
    OBVIOUS
  <1>9. m \in 1 .. n /\ m \in s /\ \A z \in s : z <= m
    BY <1>0, <1>7, <1>8
  <1>10. n \in s => m = n
    BY <1>9
  <1> QED
    BY <1>8, <1>9, <1>10

Folding(V, len, base, h) == len \in Nat /\ base \in V /\ h \in [(1 .. len) \X V -> V]

IsFold(g, V, len, base, h) ==
    /\ g \in [SUBSET (1 .. len) -> V] /\ g[{}] = base
    /\ \A s \in SUBSET (1 .. len) : s # {} =>
           /\ Max(s) \in 1 .. len /\ g[s \ {Max(s)}] \in V
           /\ g[s] = h[<<Max(s), g[s \ {Max(s)}]>>]

Recurses(g, V, len, base, h) ==
    /\ g = [s \in SUBSET (1 .. len) |-> g[s]] /\ g[{}] = base
    /\ \A s \in SUBSET (1 .. len) :
           s # {} /\ Max(s) \in 1 .. len /\ g[s \ {Max(s)}] \in V =>
               g[s] = h[<<Max(s), g[s \ {Max(s)}]>>]

Chain(f, V, len, base, h) ==
    /\ f \in [0 .. len -> V] /\ f[0] = base
    /\ \A n \in 1 .. len : f[n - 1] \in V /\ f[n] = h[<<n, f[n - 1]>>]

\* There is such a function,
LEMMA FoldSolves ==
    ASSUME NEW V, NEW len, NEW base, NEW h, Folding(V, len, base, h)
    PROVE  \E g : IsFold(g, V, len, base, h)
  <1>0. len \in Nat /\ base \in V /\ h \in [(1 .. len) \X V -> V]
    BY DEF Folding
  <1> USE <1>0
  <1> DEFINE Step(g, s) == IF s = {} THEN base ELSE h[<<Max(s), g[s \ {Max(s)}]>>]
             Good(k) == \E g \in [SUBSET (1 .. k) -> V] :
                            \A s \in SUBSET (1 .. k) : g[s] = Step(g, s)
  <1>1. Good(0)
    <2> DEFINE g == [s \in SUBSET (1 .. 0) |-> base]
    <2>1. g \in [SUBSET (1 .. 0) -> V] /\ \A s \in SUBSET (1 .. 0) : s = {} /\ g[s] = base
      OBVIOUS
    <2> HIDE DEF g
    <2> QED
      BY <2>1
  <1>2. ASSUME NEW k \in 1 .. len, Good(k - 1)
        PROVE  Good(k)
    <2>1. PICK g \in [SUBSET (1 .. k - 1) -> V] :
              \A s \in SUBSET (1 .. k - 1) : g[s] = Step(g, s)
      BY <1>2
    <2> DEFINE more == [s \in SUBSET (1 .. k) |->
                           IF k \in s THEN h[<<k, g[s \ {k}]>>] ELSE g[s]]
    <2>2. /\ \A s \in SUBSET (1 .. k) : s \ {k} \in SUBSET (1 .. k - 1)
          /\ \A s \in SUBSET (1 .. k) : k \notin s => s \in SUBSET (1 .. k - 1)
          /\ \A s \in SUBSET (1 .. k - 1) : s \in SUBSET (1 .. k) /\ k \notin s
      <3>1. \A x : x \in 1 .. k - 1 <=> x \in 1 .. k /\ x # k
        OBVIOUS
      <3> QED
        BY <3>1
    <2>3. \A x \in V : h[<<k, x>>] \in V
      BY DEF Folding
    <2>4. more \in [SUBSET (1 .. k) -> V]
      BY <2>2, <2>3
    <2>5. /\ \A s \in SUBSET (1 .. k) : k \in s => more[s] = h[<<k, g[s \ {k}]>>]
          /\ \A s \in SUBSET (1 .. k - 1) : more[s] = g[s]
      BY <2>2
    <2> HIDE DEF more
    <2>6. ASSUME NEW s \in SUBSET (1 .. k)
          PROVE  more[s] = Step(more, s)
      <3>1. CASE k \in s
        <4>1. s # {} /\ Max(s) = k
          BY <3>1, LargestPlace
        <4>2. more[s \ {k}] = g[s \ {k}]
          BY <2>2, <2>5
        <4> QED
          BY <2>5, <3>1, <4>1, <4>2
      <3>2. CASE k \notin s
        <4>1. s \in SUBSET (1 .. k - 1) /\ s \ {Max(s)} \in SUBSET (1 .. k - 1)
          BY <2>2, <3>2
        <4>2. more[s] = g[s] /\ more[s \ {Max(s)}] = g[s \ {Max(s)}]
          BY <2>5, <4>1
        <4>3. g[s] = Step(g, s)
          BY <2>1, <4>1
        <4> QED
          BY <4>2, <4>3
      <3> QED
        BY <3>1, <3>2
    <2> HIDE DEF Step
    <2> QED
      BY <2>4, <2>6
  <1> HIDE DEF Good
  <1>3. Good(len)
    <2> DEFINE B == {i \in 0 .. len : ~Good(i)}
    <2>1. SUFFICES ASSUME B # {} PROVE FALSE
      OBVIOUS
    <2>2. B \in SUBSET Nat
      OBVIOUS
    <2>3. PICK k \in B : \A n \in B : k <= n
      BY <2>1, <2>2, NatMin
    <2>4. k \in 0 .. len /\ ~Good(k) /\ (k # 0 => k \in 1 .. len /\ Good(k - 1))
      BY <2>3
    <2> QED
      BY <1>1, <1>2, <2>4
  <1>4. PICK g \in [SUBSET (1 .. len) -> V] : \A s \in SUBSET (1 .. len) : g[s] = Step(g, s)
    BY <1>3 DEF Good
  <1>5. g[{}] = base
    BY <1>4 DEF Step
  <1>6. ASSUME NEW s \in SUBSET (1 .. len), s # {}
        PROVE  /\ Max(s) \in 1 .. len /\ g[s \ {Max(s)}] \in V
               /\ g[s] = h[<<Max(s), g[s \ {Max(s)}]>>]
    <2>1. Max(s) \in 1 .. len /\ s \ {Max(s)} \in SUBSET (1 .. len)
      BY <1>6, LargestPlace
    <2>2. g[s] = h[<<Max(s), g[s \ {Max(s)}]>>]
      BY <1>4, <1>6 DEF Step
    <2> QED
      BY <2>1, <2>2
  <1> QED
    BY <1>4, <1>5, <1>6 DEF IsFold

\* and any goes from place to place.
LEMMA FoldSteps ==
    ASSUME NEW V, NEW len, NEW base, NEW h, Folding(V, len, base, h), NEW g,
           Recurses(g, V, len, base, h)
    PROVE  \E f : Chain(f, V, len, base, h) /\ f[len] = g[1 .. len]
  <1>0. len \in Nat /\ base \in V /\ h \in [(1 .. len) \X V -> V]
    BY DEF Folding
  <1> USE <1>0
  <1>a. /\ g = [s \in SUBSET (1 .. len) |-> g[s]] /\ g[{}] = base
        /\ \A s \in SUBSET (1 .. len) :
               s # {} /\ Max(s) \in 1 .. len /\ g[s \ {Max(s)}] \in V =>
                   g[s] = h[<<Max(s), g[s \ {Max(s)}]>>]
    BY DEF Recurses
  <1> USE <1>a
  <1> DEFINE f == [n \in 0 .. len |-> g[1 .. n]]
  <1>1. /\ len \in 0 .. len /\ 0 \in 0 .. len
        /\ \A n \in 1 .. len : n \in 0 .. len /\ n - 1 \in 0 .. len
    OBVIOUS
  <1>2. DOMAIN f = 0 .. len /\ \A n \in 0 .. len : f[n] = g[1 .. n]
    OBVIOUS
  <1>3. f = [n \in 0 .. len |-> f[n]]
    OBVIOUS
  <1> HIDE DEF f
  <1>4. f[0] = base
    <2>1. 1 .. 0 = {}
      OBVIOUS
    <2> QED
      BY <1>1, <1>2, <2>1
  <1>5. ASSUME NEW n \in 1 .. len, f[n - 1] \in V
        PROVE  f[n] = h[<<n, f[n - 1]>>] /\ f[n] \in V
    <2>1. n \in 1 .. n /\ 1 .. n # {} /\ (1 .. n) \ {n} = 1 .. n - 1
      OBVIOUS
    <2>2. 1 .. n \in SUBSET (1 .. n) /\ n \in Nat /\ 1 .. n \in SUBSET (1 .. len)
      OBVIOUS
    <2>3. Max(1 .. n) = n
      BY <2>1, <2>2, LargestPlace
    <2>4. g[1 .. n] = h[<<n, g[1 .. n - 1]>>]
      BY <1>1, <1>2, <1>5, <2>1, <2>2, <2>3
    <2>5. f[n] = h[<<n, f[n - 1]>>]
      BY <1>1, <1>2, <2>4
    <2> QED
      BY <1>5, <2>5
  <1>6. \A n \in 0 .. len : f[n] \in V
    <2> DEFINE B == {n \in 0 .. len : f[n] \notin V}
    <2>1. SUFFICES ASSUME B # {} PROVE FALSE
      OBVIOUS
    <2>2. B \in SUBSET Nat
      OBVIOUS
    <2>3. PICK k \in B : \A n \in B : k <= n
      BY <2>1, <2>2, NatMin
    <2>4. k \in 0 .. len /\ f[k] \notin V
      BY <2>3
    <2>5. ASSUME k # 0
          PROVE  k \in 1 .. len /\ f[k - 1] \in V
      <3>1. k \in 1 .. len /\ k - 1 \in 0 .. len
        BY <2>4, <2>5
      <3>2. k - 1 \notin B
        BY <2>3, <2>4
      <3> QED
        BY <3>1, <3>2
    <2> QED
      BY <1>4, <1>5, <2>4, <2>5
  <1>7. f \in [0 .. len -> V]
    BY <1>3, <1>6
  <1>8. f[len] = g[1 .. len]
    BY <1>1, <1>2
  <1>9. \A n \in 1 .. len : f[n - 1] \in V /\ f[n] = h[<<n, f[n - 1]>>]
    BY <1>1, <1>5, <1>6
  <1> QED
    BY <1>4, <1>7, <1>8, <1>9 DEF Chain

-----------------------------------------------------------------------------
(* Sums.  The order in which the elements of a set are added makes no      *)
(* difference.                                                             *)
Sums(g, v, n) ==
    /\ g \in [SUBSET (1 .. n) -> Int] /\ g[{}] = 0
    /\ \A s \in SUBSET (1 .. n) : s # {} => \E x \in s : g[s] = v[x] + g[s \ {x}]

SumsAnyway(g, v, n) ==
    \A s \in SUBSET (1 .. n) : \A x \in s : g[s] = v[x] + g[s \ {x}]

LEMMA OneLess ==
    ASSUME NEW n \in Nat, NEW s \in SUBSET (1 .. n), NEW x \in s
    PROVE  /\ s \ {x} \in SUBSET (1 .. n) /\ Cardinality(s) \in Nat
           /\ Cardinality(s \ {x}) \in Nat /\ Cardinality(s \ {x}) < Cardinality(s)
  <1>1. IsFiniteSet(1 .. n)
    BY FS_Interval
  <1>2. IsFiniteSet(s)
    BY <1>1, FS_Subset
  <1>3. IsFiniteSet(s \ {x}) /\ Cardinality(s \ {x}) = Cardinality(s) - 1
    BY <1>2, FS_RemoveElement
  <1>4. Cardinality(s) \in Nat /\ Cardinality(s \ {x}) \in Nat
    BY <1>2, <1>3, FS_CardinalityType
  <1> QED
    BY <1>3, <1>4

LEMMA AnyElement ==
    ASSUME NEW n \in Nat, NEW v \in [1 .. n -> Int], NEW g, Sums(g, v, n)
    PROVE  SumsAnyway(g, v, n)
  <1> DEFINE Wrong(s) == \E y \in s : g[s] # v[y] + g[s \ {y}]
             B == {k \in Nat : \E s \in SUBSET (1 .. n) : Cardinality(s) = k /\ Wrong(s)}
  <1>1. SUFFICES ASSUME NEW t \in SUBSET (1 .. n), Wrong(t) PROVE FALSE
    BY DEF SumsAnyway
  <1>2. Cardinality(t) \in B
    BY <1>1, OneLess
  <1>3. PICK k \in B : \A m \in B : k <= m
    <2>1. B \in SUBSET Nat /\ B # {}
      BY <1>2
    <2> HIDE DEF B
    <2> QED
      BY <2>1, NatMin
  <1>4. PICK s \in SUBSET (1 .. n) : Cardinality(s) = k /\ Wrong(s)
    OBVIOUS
  <1>5. \A r \in SUBSET (1 .. n) :
            Cardinality(r) \in Nat /\ Cardinality(r) < Cardinality(s) => ~Wrong(r)
    BY <1>3, <1>4
  <1>6. PICK y \in s : g[s] # v[y] + g[s \ {y}]
    BY <1>4
  <1> HIDE DEF B
  <1>7. PICK x \in s : g[s] = v[x] + g[s \ {x}]
    BY <1>6 DEF Sums
  <1>8. x # y
    BY <1>6, <1>7
  <1>9. ~Wrong(s \ {x}) /\ ~Wrong(s \ {y})
    BY <1>5, OneLess
  <1>10. g[s \ {x}] = v[y] + g[(s \ {x}) \ {y}] /\ g[s \ {y}] = v[x] + g[(s \ {y}) \ {x}]
    BY <1>8, <1>9
  <1>11. (s \ {x}) \ {y} = (s \ {y}) \ {x}
    OBVIOUS
  <1>12. v[x] \in Int /\ v[y] \in Int /\ g[(s \ {y}) \ {x}] \in Int
    BY DEF Sums
  <1>13. PICK a \in Int : a = g[(s \ {y}) \ {x}]
    BY <1>12
  <1>14. g[s \ {x}] = v[y] + a /\ g[s \ {y}] = v[x] + a
    BY <1>10, <1>11, <1>13
  <1> QED
    BY <1>6, <1>7, <1>12, <1>14

Adds(f, v, U) ==
    /\ f[{}] = 0
    /\ \A s \in SUBSET U : s # {} => \E x \in s : f[s] = f[s \ {x}] + v[x]

LEMMA SumsAgree ==
    ASSUME NEW n \in Nat, NEW v \in [1 .. n -> Int], NEW U \in SUBSET (1 .. n),
           NEW f, Adds(f, v, U), NEW g, Sums(g, v, n)
    PROVE  f[U] = g[U]
  <1> DEFINE B == {k \in Nat : \E s \in SUBSET U : Cardinality(s) = k /\ f[s] # g[s]}
  <1>1. SUFFICES ASSUME f[U] # g[U] PROVE FALSE
    OBVIOUS
  <1>2. B # {}
    <2>1. IsFiniteSet(1 .. n)
      BY FS_Interval
    <2>2. Cardinality(U) \in Nat
      BY <2>1, FS_Subset, FS_CardinalityType
    <2> QED
      BY <1>1, <2>2
  <1>3. PICK k \in B : \A m \in B : k <= m
    <2>1. B \in SUBSET Nat
      OBVIOUS
    <2> HIDE DEF B
    <2> QED
      BY <1>2, <2>1, NatMin
  <1>4. PICK s \in SUBSET U : Cardinality(s) = k /\ f[s] # g[s]
    OBVIOUS
  <1>5. \A r \in SUBSET U :
            Cardinality(r) \in Nat /\ Cardinality(r) < Cardinality(s) => f[r] = g[r]
    BY <1>3, <1>4
  <1> HIDE DEF B
  <1>6. s # {}
    BY <1>4 DEF Sums, Adds
  <1>7. PICK x \in s : f[s] = f[s \ {x}] + v[x]
    BY <1>6 DEF Adds
  <1>8. s \in SUBSET (1 .. n) /\ s \ {x} \in SUBSET U /\ x \in 1 .. n
    OBVIOUS
  <1>9. g[s] = v[x] + g[s \ {x}]
    <2>1. SumsAnyway(g, v, n)
      BY AnyElement
    <2> QED
      BY <1>8, <2>1 DEF SumsAnyway
  <1>10. f[s \ {x}] = g[s \ {x}]
    BY <1>5, <1>8, OneLess
  <1>11. g[s \ {x}] \in Int /\ v[x] \in Int
    BY <1>8 DEF Sums
  <1> QED
    BY <1>4, <1>7, <1>9, <1>10, <1>11

\* There is such a function, and what adds nothing may be left out.
LEMMA SumsExist ==
    ASSUME NEW n \in Nat, NEW v \in [1 .. n -> Int]
    PROVE  \E g : Sums(g, v, n) /\ SumsAnyway(g, v, n)
  <1> DEFINE h == [x \in (1 .. n) \X Int |-> v[x[1]] + x[2]]
  <1>1. h \in [(1 .. n) \X Int -> Int] /\ \A m \in 1 .. n, x \in Int : h[<<m, x>>] = v[m] + x
    <2>1. \A x \in (1 .. n) \X Int : v[x[1]] + x[2] \in Int
      <3>1. \A m \in 1 .. n, y \in Int : v[m] + y \in Int
        OBVIOUS
      <3> QED
        BY <3>1
    <2>2. h \in [(1 .. n) \X Int -> Int]
      BY <2>1
    <2> QED
      BY <2>2
  <1> HIDE DEF h
  <1>2. Folding(Int, n, 0, h)
    BY <1>1 DEF Folding
  <1>3. PICK g : IsFold(g, Int, n, 0, h)
    BY <1>2, FoldSolves
  <1>4. Sums(g, v, n)
    <2>1. ASSUME NEW s \in SUBSET (1 .. n), s # {}
          PROVE  \E x \in s : g[s] = v[x] + g[s \ {x}]
      <3>1. Max(s) \in s
        BY <2>1, LargestPlace
      <3>2. Max(s) \in 1 .. n /\ g[s \ {Max(s)}] \in Int /\ g[s] = h[<<Max(s), g[s \ {Max(s)}]>>]
        BY <1>3, <2>1 DEF IsFold
      <3>3. g[s] = v[Max(s)] + g[s \ {Max(s)}]
        BY <1>1, <3>2
      <3> QED
        BY <3>1, <3>3
    <2> QED
      BY <1>3, <2>1 DEF IsFold, Sums
  <1> QED
    BY <1>4, AnyElement

Silent(v, n, S) == \A m \in (1 .. n) \ S : v[m] = 0

LEMMA NothingAdded ==
    ASSUME NEW n \in Nat, NEW v \in [1 .. n -> Int], NEW g, Sums(g, v, n),
           NEW S \in SUBSET (1 .. n), Silent(v, n, S)
    PROVE  g[1 .. n] = g[S]
  <1> DEFINE h == [s \in SUBSET (1 .. n) |-> g[s \cap S]]
  <1>1. SumsAnyway(g, v, n)
    BY AnyElement
  <1>2. /\ \A s \in SUBSET (1 .. n) : h[s] = g[s \cap S]
        /\ h \in [SUBSET (1 .. n) -> Int]
    BY DEF Sums
  <1> HIDE DEF h
  <1>3. Sums(h, v, n)
    <2>1. h[{}] = 0
      <3>1. {} \in SUBSET (1 .. n) /\ {} \cap S = {}
        OBVIOUS
      <3> QED
        BY <1>2, <3>1 DEF Sums
    <2>2. ASSUME NEW s \in SUBSET (1 .. n), s # {}
          PROVE  \E x \in s : h[s] = v[x] + h[s \ {x}]
      <3>1. PICK x \in s : TRUE
        BY <2>2
      <3>2. s \ {x} \in SUBSET (1 .. n) /\ h[s \ {x}] = g[(s \ {x}) \cap S] /\ h[s] = g[s \cap S]
        BY <1>2
      <3>3. CASE x \in S
        <4>1. s \cap S \in SUBSET (1 .. n) /\ x \in s \cap S /\ (s \ {x}) \cap S = (s \cap S) \ {x}
          BY <3>3
        <4>2. g[s \cap S] = v[x] + g[(s \cap S) \ {x}]
          BY <1>1, <4>1 DEF SumsAnyway
        <4> QED
          BY <3>2, <4>1, <4>2
      <3>4. CASE x \notin S
        <4>1. (s \ {x}) \cap S = s \cap S /\ v[x] = 0 /\ s \cap S \in SUBSET (1 .. n)
          BY <3>4 DEF Silent
        <4>2. g[s \cap S] \in Int
          BY <4>1 DEF Sums
        <4>3. h[s] = g[s \cap S] /\ h[s \ {x}] = g[s \cap S]
          BY <3>2, <4>1, Zenon
        <4>4. h[s] = v[x] + h[s \ {x}]
          BY <4>1, <4>2, <4>3
        <4> QED
          BY <4>4
      <3> QED
        BY <3>3, <3>4
    <2> QED
      BY <1>2, <2>1, <2>2 DEF Sums
  <1>4. 1 .. n \in SUBSET (1 .. n) /\ (1 .. n) \cap S = S
    OBVIOUS
  <1>5. Adds(h, v, 1 .. n)
    <2>1. ASSUME NEW s \in SUBSET (1 .. n), NEW x \in s
          PROVE  h[s] = h[s \ {x}] + v[x]
      <3>1. h[s] = v[x] + h[s \ {x}]
        BY <1>3, AnyElement DEF SumsAnyway
      <3>2. v[x] \in Int /\ h[s \ {x}] \in Int
        BY <1>2
      <3> QED
        BY <3>1, <3>2
    <2>2. h[{}] = 0
      BY <1>3 DEF Sums
    <2> QED
      BY <2>1, <2>2 DEF Adds
  <1>6. g[1 .. n] = h[1 .. n]
    <2>1. PICK U \in SUBSET (1 .. n) : U = 1 .. n
      BY <1>4
    <2>2. Adds(h, v, U)
      BY <1>5, <2>1, Zenon
    <2>3. h[U] = g[U]
      BY <2>2, SumsAgree
    <2> QED
      BY <2>1, <2>3, Zenon
  <1> QED
    BY <1>2, <1>4, <1>6
=============================================================================
