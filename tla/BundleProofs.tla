---------------------------- MODULE BundleProofs ----------------------------
(***************************************************************************)
(* Theorems about Bundle, for any items, files, vendors and prices.        *)
(***************************************************************************)
EXTENDS Bundle, SelectionProofs

-----------------------------------------------------------------------------
(* What the names and entries are.                                         *)
EntrySet ==
    {[item |-> x.item, path |-> <<Index(x.item), report[x.item].stem, x.nr, x.suffix>>] :
        x \in [item : DOMAIN report, nr : Nat, suffix : STRING]}

Apart(entries) == \A m, n \in DOMAIN entries : entries[m].path = entries[n].path => m = n

LEMMA EntryNameIsFree ==
    ASSUME NEW i, NEW suffix, NEW taken, IsFiniteSet(taken)
    PROVE  /\ EntryName(i, suffix, taken) \notin taken
           /\ \E n \in Nat :
                EntryName(i, suffix, taken) = <<Index(i), report[i].stem, n, suffix>>
  <1> DEFINE size == Cardinality(taken)
             name(n) == <<Index(i), report[i].stem, n, suffix>>
             free == {n \in 1 .. size + 1 : name(n) \notin taken}
  <1>1. size \in Nat
    BY FS_CardinalityType
  <1>2. \A m, n \in Nat : name(m) = name(n) => m = n
    OBVIOUS
  <1>3. EntryName(i, suffix, taken) = name(Min(free))
    BY DEF EntryName
  <1> HIDE DEF name
  <1>4. free # {}
    <2> DEFINE f == [n \in 1 .. size + 1 |-> name(n)]
    <2>1. SUFFICES ASSUME free = {} PROVE FALSE
      OBVIOUS
    <2>2. f \in [1 .. size + 1 -> taken]
      BY <2>1
    <2>3. IsFiniteSet(1 .. size + 1) /\ Cardinality(1 .. size + 1) = size + 1
      BY <1>1, FS_Interval
    <2> HIDE DEF f
    <2>4. PICK x \in 1 .. size + 1, y \in 1 .. size + 1 : x # y /\ f[x] = f[y]
      <3>1. Cardinality(taken) < Cardinality(1 .. size + 1)
        BY <1>1, <2>3
      <3> QED
        BY <2>2, <2>3, <3>1, FS_PigeonHole
    <2> QED
      BY <1>2, <2>4 DEF f
  <1>5. free \in SUBSET Nat
    BY <1>1
  <1>6. \E x \in free : \A y \in free : x <= y
    BY <1>4, <1>5, NatMin
  <1>7. Min(free) \in free
    BY <1>6 DEF Min
  <1>8. Min(free) \in Nat /\ name(Min(free)) \notin taken
    BY <1>1, <1>7
  <1> QED
    BY <1>3, <1>8 DEF name

LEMMA NamesAreFinite ==
    ASSUME NEW T, NEW entries \in Seq(T)
    PROVE  IsFiniteSet(Names(entries))
  <1> DEFINE f == [n \in 1 .. Len(entries) |-> entries[n].path]
  <1>1. Len(entries) \in Nat /\ DOMAIN entries = 1 .. Len(entries)
    OBVIOUS
  <1>2. f \in Surjection(1 .. Len(entries), Names(entries))
    BY <1>1 DEF Names, Surjection
  <1>3. IsFiniteSet(1 .. Len(entries))
    BY <1>1, FS_Interval
  <1> QED
    BY <1>2, <1>3, FS_Surjection

(* One more entry, under a name that is free. *)
LEMMA EntryJoins ==
    ASSUME NEW entries \in Seq(EntrySet), Apart(entries),
           NEW i \in DOMAIN report, NEW suffix \in STRING
    PROVE  LET entry == [item |-> i, path |-> EntryName(i, suffix, Names(entries))] IN
           Append(entries, entry) \in Seq(EntrySet) /\ Apart(Append(entries, entry))
  <1> DEFINE path == EntryName(i, suffix, Names(entries))
             entry == [item |-> i, path |-> path]
             more == Append(entries, entry)
             len == Len(entries)
  <1>1. IsFiniteSet(Names(entries))
    BY NamesAreFinite
  <1>2. path \notin Names(entries)
    BY <1>1, EntryNameIsFree
  <1>3. PICK nr \in Nat : path = <<Index(i), report[i].stem, nr, suffix>>
    BY <1>1, EntryNameIsFree
  <1>4. entry \in EntrySet
    <2> DEFINE x == [item |-> i, nr |-> nr, suffix |-> suffix]
    <2>1. x \in [item : DOMAIN report, nr : Nat, suffix : STRING]
      OBVIOUS
    <2>2. entry = [item |-> x.item,
                   path |-> <<Index(x.item), report[x.item].stem, x.nr, x.suffix>>]
      BY <1>3
    <2> HIDE DEF x, entry
    <2> QED
      BY <2>1, <2>2 DEF EntrySet
  <1>5. entry.path = path
    OBVIOUS
  <1> HIDE DEF path, entry
  <1>6. more \in Seq(EntrySet) /\ Len(more) = len + 1
    BY <1>4
  <1>7. \A m \in 1 .. len : more[m] = entries[m] /\ entries[m].path # path
    BY <1>2 DEF Names
  <1>8. more[len + 1] = entry
    BY <1>4
  <1>9. len \in Nat /\ DOMAIN entries = 1 .. len /\ DOMAIN more = 1 .. len + 1
    BY <1>6
  <1> HIDE DEF more, len
  <1>10. Apart(more)
    <2>1. SUFFICES ASSUME NEW m \in 1 .. len + 1, NEW n \in 1 .. len + 1,
                          more[m].path = more[n].path
                   PROVE  m = n
      BY <1>9 DEF Apart
    <2>2. CASE m \in 1 .. len /\ n \in 1 .. len
      BY <1>7, <1>9, <2>1, <2>2 DEF Apart
    <2>3. CASE m = len + 1 /\ n \in 1 .. len
      BY <1>5, <1>7, <1>8, <2>1, <2>3
    <2>4. CASE n = len + 1 /\ m \in 1 .. len
      BY <1>5, <1>7, <1>8, <2>1, <2>4
    <2> QED
      BY <1>9, <2>1, <2>2, <2>3, <2>4
  <1> QED
    BY <1>6, <1>10 DEF more, entry, path

(* What collecting returns. *)
LEMMA CollectEntriesType ==
    ASSUME Artifacts \in Seq([item : DOMAIN report, suffix : STRING])
    PROVE  CollectEntries \in Seq(EntrySet) /\ Apart(CollectEntries)
  <1> DEFINE artifacts == Artifacts
             len == Len(artifacts)
             Next1(entries, n) ==
                 Append(entries, [item |-> artifacts[n].item,
                                  path |-> EntryName(artifacts[n].item, artifacts[n].suffix,
                                                     Names(entries))])
             Solves(g, k) == g = [n \in 0 .. k |-> IF n = 0 THEN <<>> ELSE Next1(g[n - 1], n)]
             collect[n \in 0 .. len] == IF n = 0 THEN <<>> ELSE Next1(collect[n - 1], n)
  <1>1. /\ len \in Nat
        /\ \A n \in 1 .. len : artifacts[n].item \in DOMAIN report
                               /\ artifacts[n].suffix \in STRING
    <2> DEFINE Artifact == [item : DOMAIN report, suffix : STRING]
    <2>1. artifacts \in Seq(Artifact)
      OBVIOUS
    <2> HIDE DEF artifacts, Artifact
    <2>2. \A n \in 1 .. Len(artifacts) : artifacts[n] \in Artifact
      BY <2>1
    <2> QED
      BY <2>1, <2>2 DEF Artifact
  <1>2. CollectEntries = collect[len]
    BY DEF CollectEntries
  <1> HIDE DEF Next1
  <1>3. \E g : Solves(g, len)
    <2> DEFINE P(k) == \E g : Solves(g, k)
    <2>1. P(0)
      <3> DEFINE g == [n \in 0 .. 0 |-> <<>>]
      <3>1. ASSUME NEW n \in 0 .. 0
            PROVE  g[n] = IF n = 0 THEN <<>> ELSE Next1(g[n - 1], n)
        <4>1. n = 0
          OBVIOUS
        <4> QED
          BY <4>1
      <3>2. g = [n \in 0 .. 0 |-> g[n]]
        OBVIOUS
      <3> HIDE DEF g
      <3>3. Solves(g, 0)
        BY <3>1, <3>2
      <3> QED
        BY <3>3
    <2>2. ASSUME NEW k \in 1 .. len, P(k - 1)
          PROVE  P(k)
      <3>1. PICK g : Solves(g, k - 1)
        BY <2>2
      <3> DEFINE h == [n \in 0 .. k |-> IF n = k THEN Next1(g[k - 1], k) ELSE g[n]]
      <3>2. ASSUME NEW n \in 0 .. k
            PROVE  h[n] = IF n = 0 THEN <<>> ELSE Next1(h[n - 1], n)
        <4>1. n # 0 => n - 1 \in 0 .. k /\ n - 1 # k
          BY <2>2
        <4>2. CASE n = k
          BY <2>2, <4>1, <4>2
        <4>3. CASE n # k
          <5>1. n \in 0 .. k - 1
            BY <2>2, <4>3
          <5>2. g[n] = IF n = 0 THEN <<>> ELSE Next1(g[n - 1], n)
            BY <3>1, <5>1
          <5> QED
            BY <4>1, <4>3, <5>2
        <4> QED
          BY <4>2, <4>3
      <3>3. h = [n \in 0 .. k |-> h[n]]
        OBVIOUS
      <3> HIDE DEF h
      <3>4. Solves(h, k)
        BY <3>2, <3>3
      <3> QED
        BY <3>4
    <2> HIDE DEF P
    <2>3. P(len)
      <3> DEFINE S == {k \in 0 .. len : ~P(k)}
      <3>1. SUFFICES ASSUME S # {} PROVE FALSE
        BY <1>1
      <3>2. S \in SUBSET Nat
        OBVIOUS
      <3>3. PICK k \in S : \A n \in S : k <= n
        BY <3>1, <3>2, NatMin
      <3>4. /\ k \in 0 .. len /\ ~P(k)
            /\ k # 0 => k \in 1 .. len /\ k - 1 \in 0 .. len /\ k - 1 \notin S
        BY <3>3
      <3> QED
        BY <2>1, <2>2, <3>4
    <2> QED
      BY <2>3 DEF P
  <1>4. Solves(collect, len)
    BY <1>3
  <1> HIDE DEF collect
  <1> DEFINE Good(n) == collect[n] \in Seq(EntrySet) /\ Apart(collect[n])
  <1>5. Good(0)
    <2>1. collect[0] = <<>>
      BY <1>1, <1>4
    <2> QED
      BY <2>1 DEF Apart
  <1>6. ASSUME NEW n \in 1 .. len, Good(n - 1)
        PROVE  Good(n)
    <2>1. collect[n] = Next1(collect[n - 1], n)
      BY <1>1, <1>4, <1>6
    <2> DEFINE before == collect[n - 1]
               i == artifacts[n].item
               suffix == artifacts[n].suffix
    <2>2. i \in DOMAIN report /\ suffix \in STRING
      BY <1>1, <1>6
    <2>3. before \in Seq(EntrySet) /\ Apart(before)
      BY <1>6
    <2>4. collect[n] = Append(before, [item |-> i, path |-> EntryName(i, suffix, Names(before))])
      BY <2>1 DEF Next1
    <2> HIDE DEF before, i, suffix
    <2> QED
      BY <2>2, <2>3, <2>4, EntryJoins
  <1> HIDE DEF Good
  <1>7. Good(len)
    <2> DEFINE S == {k \in 0 .. len : ~Good(k)}
    <2>1. SUFFICES ASSUME S # {} PROVE FALSE
      BY <1>1
    <2>2. S \in SUBSET Nat
      OBVIOUS
    <2>3. PICK k \in S : \A n \in S : k <= n
      BY <2>1, <2>2, NatMin
    <2>4. /\ k \in 0 .. len /\ ~Good(k)
          /\ k # 0 => k \in 1 .. len /\ k - 1 \in 0 .. len /\ k - 1 \notin S
      BY <2>3
    <2> QED
      BY <1>5, <1>6, <2>4
  <1> QED
    BY <1>2, <1>7 DEF Good

-----------------------------------------------------------------------------
(* The report.                                                             *)
Item == [position : Nat, price : Prices, stem : Stems, files : Seq(STRING),
         amount : {ExtractAmount(p) : p \in Prices}]

Typed ==
    /\ added \in Nat
    /\ DOMAIN report \in SUBSET (1 .. added)
    /\ report \in [DOMAIN report -> Item]

(* Positions are a count of the items from 1.                              *)
Counted == \A i \in DOMAIN report : report[i].position = Index(i)

Positions == [i \in DOMAIN report |-> report[i].position]

LEMMA ReportPlaces ==
    ASSUME Typed
    PROVE  /\ IsFiniteSet(DOMAIN report) /\ DOMAIN report \in SUBSET Nat
           /\ Cardinality(DOMAIN report) \in Nat
           /\ Positions \in [DOMAIN report -> Int]
           /\ \A i, j \in DOMAIN report : Before(i, j) <=> Precedes(Positions, i, j)
           /\ \A i \in DOMAIN report : Index(i) = Place(DOMAIN report, Positions, i)
  <1>1. IsFiniteSet(1 .. added)
    BY FS_Interval DEF Typed
  <1>2. IsFiniteSet(DOMAIN report) /\ DOMAIN report \in SUBSET Nat
    BY <1>1, FS_Subset DEF Typed
  <1>3. Cardinality(DOMAIN report) \in Nat
    BY <1>2, FS_CardinalityType
  <1>4. Positions \in [DOMAIN report -> Int]
    BY DEF Typed, Positions, Item
  <1>5. \A i, j \in DOMAIN report : Before(i, j) <=> Precedes(Positions, i, j)
    BY DEF Before, Precedes, Positions
  <1>6. ASSUME NEW i \in DOMAIN report
        PROVE  Index(i) = Place(DOMAIN report, Positions, i)
    <2>1. {j \in DOMAIN report : Before(j, i)} = Ahead(DOMAIN report, Positions, i)
      BY <1>5 DEF Ahead
    <2> QED
      BY <2>1 DEF Index, Place
  <1> QED
    BY <1>2, <1>3, <1>4, <1>5, <1>6

(* The items in order: the one in place n is the one that n counts.        *)
LEMMA OrderCounts ==
    ASSUME Typed
    PROVE  /\ Order \in [1 .. Cardinality(DOMAIN report) -> DOMAIN report]
           /\ \A n \in 1 .. Cardinality(DOMAIN report) : Index(Order[n]) = n
           /\ \A i \in DOMAIN report :
                  Index(i) \in 1 .. Cardinality(DOMAIN report) /\ Order[Index(i)] = i
  <1> DEFINE D == DOMAIN report
             size == Cardinality(D)
             Sorts(items) == \A m, n \in DOMAIN items : m < n => Before(items[m], items[n])
  <1>1. /\ IsFiniteSet(D) /\ D \in SUBSET Nat /\ size \in Nat
        /\ Positions \in [D -> Int]
        /\ \A i, j \in D : Before(i, j) <=> Precedes(Positions, i, j)
        /\ \A i \in D : Index(i) = Place(D, Positions, i)
    BY ReportPlaces
  <1>2. \A i \in D : Place(D, Positions, i) \in 1 .. size
    BY <1>1, PlacesNumber
  <1> HIDE DEF size
  <1>3. \A items \in [1 .. size -> D] : Sorts(items) <=> InOrder(items, Positions)
    BY <1>1 DEF InOrder
  <1>4. /\ \E items \in [1 .. size -> D] : InOrder(items, Positions)
        /\ \A items \in [1 .. size -> D] : InOrder(items, Positions) =>
               /\ \A n \in 1 .. size : Place(D, Positions, items[n]) = n
               /\ \A i \in D : items[Place(D, Positions, i)] = i
    BY <1>1, OrderPlaces DEF size
  <1>5. Order = CHOOSE items \in [1 .. size -> D] : Sorts(items)
    BY DEF Order, size
  <1> HIDE DEF Sorts
  <1>6. Order \in [1 .. size -> D] /\ Sorts(Order)
    BY <1>3, <1>4, <1>5
  <1>7. \A n \in 1 .. size : Order[n] \in D
    BY <1>6
  <1>8. /\ \A n \in 1 .. size : Place(D, Positions, Order[n]) = n
        /\ \A i \in D : Order[Place(D, Positions, i)] = i
    BY <1>3, <1>4, <1>6
  <1> QED
    BY <1>1, <1>2, <1>6, <1>7, <1>8 DEF size

LEMMA ArtifactsType ==
    ASSUME Typed
    PROVE  Artifacts \in Seq([item : DOMAIN report, suffix : STRING])
  <1> DEFINE T == [item : DOMAIN report, suffix : STRING]
             size == Cardinality(DOMAIN report)
             files(n) == report[Order[n]].files
             listed(n) == [k \in DOMAIN files(n) |-> [item |-> Order[n], suffix |-> files(n)[k]]]
             lists == [n \in DOMAIN Order |-> listed(n)]
  <1>1. size \in Nat /\ DOMAIN Order = 1 .. size /\ \A n \in 1 .. size : Order[n] \in DOMAIN report
    BY ReportPlaces, OrderCounts
  <1>2. ASSUME NEW n \in 1 .. size
        PROVE  listed(n) \in Seq(T)
    <2>1. files(n) \in Seq(STRING)
      BY <1>1, <1>2 DEF Typed, Item
    <2> HIDE DEF files
    <2>2. /\ Len(files(n)) \in Nat /\ DOMAIN files(n) = 1 .. Len(files(n))
          /\ \A k \in 1 .. Len(files(n)) : files(n)[k] \in STRING
      BY <2>1
    <2>3. \A k \in 1 .. Len(files(n)) : listed(n)[k] \in T
      BY <1>1, <1>2, <2>2
    <2>4. listed(n) = [k \in 1 .. Len(files(n)) |-> listed(n)[k]]
      BY <2>2
    <2> HIDE DEF listed, T
    <2> QED
      BY <2>2, <2>3, <2>4
  <1> HIDE DEF listed, T
  <1>3. lists \in Seq(Seq(T))
    BY <1>1, <1>2
  <1>4. Artifacts = FlattenSeq(lists)
    BY DEF Artifacts, listed
  <1> HIDE DEF lists
  <1> QED
    BY <1>3, <1>4, FlattenType DEF T

(* The last position is the number of items. *)
LEMMA LastPositionCounts ==
    ASSUME Typed, Counted
    PROVE  LastPosition = Cardinality(DOMAIN report)
  <1> DEFINE D == DOMAIN report
             size == Cardinality(D)
             positions == {report[i].position : i \in D}
  <1>1. /\ size \in Nat /\ IsFiniteSet(D)
        /\ \A i \in D : report[i].position \in 1 .. size
        /\ \A n \in 1 .. size : \E i \in D : report[i].position = n
    BY ReportPlaces, PlacesNumber DEF Counted
  <1>2. CASE D = {}
    <2>1. report = <<>>
      BY <1>2 DEF Typed
    <2> QED
      BY <1>2, <2>1, FS_EmptySet DEF LastPosition
  <1>3. CASE D # {}
    <2>1. report # <<>>
      BY <1>3
    <2>2. size # 0
      BY <1>1, <1>3, FS_EmptySet
    <2>3. positions = 1 .. size
      BY <1>1
    <2> HIDE DEF positions, size
    <2>4. Max(positions) = size
      <3>1. size \in positions /\ \A n \in positions : size >= n /\ n \in Nat
        BY <1>1, <2>2, <2>3
      <3> DEFINE Largest(x) == \A y \in positions : x >= y
      <3>2. size \in positions /\ Largest(size)
        BY <3>1
      <3>3. Max(positions) = CHOOSE x \in positions : Largest(x)
        BY Zenon DEF Max
      <3> HIDE DEF Largest
      <3>4. Max(positions) \in positions /\ Largest(Max(positions))
        BY <3>2, <3>3, Zenon
      <3>5. Max(positions) >= size
        BY <3>1, <3>4 DEF Largest
      <3> QED
        BY <1>1, <2>3, <3>4, <3>5
    <2> QED
      BY <2>1, <2>4 DEF LastPosition, positions, size
  <1> QED
    BY <1>2, <1>3

LEMMA AddItemCounts ==
    ASSUME Typed, Counted, NEW price \in Prices, NEW stem \in Stems,
           NEW files \in FileLists, AddItem(price, stem, files)
    PROVE  Typed' /\ Counted'
  <1>a. PICK a : a = added + 1
    OBVIOUS
  <1>d. PICK D : D = DOMAIN report
    OBVIOUS
  <1> DEFINE size == Cardinality(D)
             item == [position |-> 1 + LastPosition, price |-> price,
                      stem |-> stem, files |-> files, amount |-> ExtractAmount(price)]
  <1>1. /\ IsFiniteSet(D) /\ size \in Nat /\ LastPosition = size
        /\ \A i \in D : Index(i) \in 1 .. size /\ report[i].position = Index(i)
    BY <1>d, LastPositionCounts, ReportPlaces, PlacesNumber DEF Counted
  <1>2. /\ DOMAIN report' = D \cup {a} /\ added' = a
        /\ report'[a] = item
        /\ report' = [i \in D \cup {a} |-> IF i = a THEN item ELSE report[i]]
    BY <1>a, <1>d DEF AddItem
  <1>3. a \notin D /\ a \in Nat /\ \A i \in D : i \in 1 .. added /\ report'[i] = report[i]
    BY <1>2, <1>a, <1>d DEF Typed
  <1>4. item \in Item
    <2>1. files \in Seq(STRING)
      BY PricesAssumption
    <2>2. ExtractAmount(price) \in {ExtractAmount(p) : p \in Prices}
      OBVIOUS
    <2>3. 1 + LastPosition \in Nat
      BY <1>1
    <2> QED
      BY <2>1, <2>2, <2>3 DEF Item
  <1>5. item.position = 1 + size
    BY <1>1
  <1> HIDE DEF item
  <1>6. Typed'
    <2>1. DOMAIN report' \in SUBSET (1 .. added')
      BY <1>2, <1>3, <1>a, <1>d DEF Typed
    <2>2. report' \in [D \cup {a} -> Item]
      BY <1>2, <1>4, <1>d DEF Typed
    <2> QED
      BY <1>2, <1>3, <1>a, <2>1, <2>2 DEF Typed
  <1>7. \A i \in D \cup {a} : (report'[i]).position = IF i = a THEN 1 + size ELSE report[i].position
    BY <1>2, <1>3, <1>5
  <1>8. ASSUME NEW i \in D
        PROVE  Index(i)' = Index(i)
    <2>1. \A j \in D : Before(j, i)' <=> Before(j, i)
      BY <1>3 DEF Before
    <2>2. ~Before(a, i)'
      <3>1. (report'[a]).position = 1 + size /\ (report'[i]).position \in 1 .. size
        BY <1>1, <1>3, <1>7
      <3>2. a \in Nat /\ size \in Nat
        BY <1>1, <1>3
      <3> HIDE DEF size
      <3> QED
        BY <3>1, <3>2 DEF Before
    <2>3. {j \in DOMAIN report : Before(j, i)}' = {j \in DOMAIN report : Before(j, i)}
      BY <1>2, <1>d, <2>1, <2>2
    <2> QED
      BY <1>d, <2>3 DEF Index
  <1>9. Index(a)' = 1 + size
    <2>1. \A j \in D : Before(j, a)'
      BY <1>1, <1>3, <1>7 DEF Before
    <2>2. ~Before(a, a)'
      BY <1>1, <1>3, <1>7 DEF Before
    <2>3. {j \in DOMAIN report : Before(j, a)}' = D
      BY <1>2, <1>d, <2>1, <2>2
    <2> QED
      BY <1>d, <2>3 DEF Index
  <1>10. Counted'
    BY <1>1, <1>2, <1>7, <1>8, <1>9, <1>d DEF Counted
  <1> QED
    BY <1>6, <1>10

LEMMA RemoveItemCounts ==
    ASSUME Typed, NEW i, RemoveItem(i)
    PROVE  Typed' /\ Counted'
  <1> DEFINE D == DOMAIN report
             rest == D \ {i}
             pos == [j \in rest |-> report[j].position]
             place(j) == Place(rest, pos, j)
  <1>1. IsFiniteSet(rest) /\ rest \in SUBSET Nat
    BY ReportPlaces, FS_RemoveElement
  <1>2. pos \in [rest -> Int]
    BY DEF Typed, Item
  <1>3. \A j, k \in rest : Before(j, k) <=> Precedes(pos, j, k)
    BY DEF Before, Precedes
  <1>4. /\ \A j \in rest : place(j) \in 1 .. Cardinality(rest)
        /\ \A j, k \in rest : Precedes(pos, j, k) => place(j) < place(k)
        /\ \A j, k \in rest : j = k \/ Precedes(pos, j, k) \/ Precedes(pos, k, j)
    BY <1>1, <1>2, PlacesNumber
  <1>5. \A j \in rest : place(j) = 1 + Cardinality({k \in rest : Before(k, j)})
    <2>1. \A j \in rest : Ahead(rest, pos, j) = {k \in rest : Before(k, j)}
      BY <1>3 DEF Ahead
    <2> QED
      BY <2>1 DEF Place
  <1>6. /\ DOMAIN report' = rest /\ added' = added
        /\ report' = [j \in rest |-> [report[j] EXCEPT
               !.position = 1 + Cardinality({k \in rest : Before(k, j)})]]
    BY DEF RemoveItem
  <1> HIDE DEF place, pos
  <1>7. ASSUME NEW j \in rest
        PROVE  report'[j] \in Item /\ (report'[j]).position = place(j)
    <2>1. report[j] \in Item
      BY DEF Typed
    <2>2. report'[j] = [report[j] EXCEPT !.position = place(j)]
      BY <1>5, <1>6
    <2>3. place(j) \in Nat
      BY <1>4
    <2> QED
      BY <2>1, <2>2, <2>3 DEF Item
  <1>8. Typed'
    BY <1>6, <1>7 DEF Typed
  <1>9. ASSUME NEW j \in rest
        PROVE  Index(j)' = place(j)
    <2>1. ASSUME NEW k \in rest
          PROVE  Before(k, j)' <=> Before(k, j)
      <3>1. Before(k, j)' <=> place(k) < place(j) \/ (place(k) = place(j) /\ k < j)
        BY <1>7 DEF Before
      <3>2. place(k) \in Nat /\ place(j) \in Nat
        BY <1>4
      <3>3. ~(k < k)
        BY <1>1
      <3> QED
        BY <1>3, <1>4, <3>1, <3>2, <3>3, <1>1
    <2>2. {k \in DOMAIN report : Before(k, j)}' = {k \in rest : Before(k, j)}
      BY <1>6, <2>1
    <2> QED
      BY <1>5, <2>2 DEF Index
  <1>10. Counted'
    BY <1>6, <1>7, <1>9 DEF Counted
  <1> QED
    BY <1>8, <1>10

LEMMA StepCounts ==
    ASSUME Typed, Counted, [Next]_vars
    PROVE  Typed' /\ Counted'
  <1>1. CASE UNCHANGED vars
    <2>1. report' = report /\ added' = added
      BY <1>1 DEF vars
    <2>2. \A i, j : Before(i, j)' <=> Before(i, j)
      BY <2>1 DEF Before
    <2>3. \A i : Index(i)' = Index(i)
      BY <2>1, <2>2 DEF Index
    <2> QED
      BY <2>1, <2>3 DEF Typed, Counted
  <1>2. CASE Next
    BY <1>2, AddItemCounts, RemoveItemCounts DEF Next
  <1> QED
    BY <1>1, <1>2

LEMMA InitCounts == Init => Typed /\ Counted
  BY DEF Init, Typed, Counted

-----------------------------------------------------------------------------
(* The files the manifest lists for an item are files of that item.        *)
LEMMA ItemEntriesType ==
    ASSUME NEW entries \in Seq(EntrySet), NEW i
    PROVE  ItemEntries(entries, i) \in Seq({e \in EntrySet : e.item = i})
  <1> DEFINE files == ItemEntries(entries, i)
             S == {e \in ToSet(entries) : e.item = i}
  <1>1. files = Select(entries, S)
    BY DEF ItemEntries
  <1>2. files \in Seq(EntrySet) /\ \A n \in 1 .. Len(files) : files[n] \in S
    BY <1>1, SelectFacts DEF Selects
  <1> HIDE DEF files
  <1>3. \A n \in 1 .. Len(files) : files[n] \in {e \in EntrySet : e.item = i}
    BY <1>2
  <1> QED
    BY <1>2, <1>3 DEF files

(* The number in a file's name, the index under which the manifest lists   *)
(* it and the item's position are one and the same, whatever is added and  *)
(* removed: positions are 1, 2, 3 and so on without a gap or a repetition  *)
(* (add_item, remove_item, collect_entries, build_manifest).               *)
THEOREM NumbersAlwaysAgree == Spec => []NumbersAgree
  <1>1. ASSUME Typed, Counted
        PROVE  NumbersAgree
    <2> DEFINE entries == CollectEntries
               manifest == BuildManifest(entries)
    <2>1. entries \in Seq(EntrySet)
      BY <1>1, ArtifactsType, CollectEntriesType
    <2> HIDE DEF entries
    <2>2. manifest.items = [n \in DOMAIN Order |-> ManifestItem(entries, Order[n], n)]
      BY DEF BuildManifest
    <2>3. ASSUME NEW n \in DOMAIN Order
          PROVE  /\ report[Order[n]].position = n
                 /\ ManifestItem(entries, Order[n], n).index = n
                 /\ \A path \in ToSet(ManifestItem(entries, Order[n], n).artifacts) : path[1] = n
      <3> DEFINE i == Order[n]
                 files == ItemEntries(entries, i)
      <3>1. i \in DOMAIN report /\ Index(i) = n /\ report[i].position = n
        BY <1>1, OrderCounts DEF Counted
      <3>2. files \in Seq({e \in EntrySet : e.item = i})
        BY <2>1, ItemEntriesType
      <3>3. ManifestItem(entries, i, n).index = n
        BY DEF ManifestItem
      <3>4. ManifestItem(entries, i, n).artifacts = [k \in DOMAIN files |-> files[k].path]
        BY DEF ManifestItem
      <3> HIDE DEF files, i
      <3>5. \A k \in DOMAIN files : files[k] \in EntrySet /\ files[k].item = i
        BY <3>2
      <3>6. \A k \in DOMAIN files : files[k].path[1] = n
        BY <3>1, <3>5 DEF EntrySet
      <3>7. \A path \in ToSet(ManifestItem(entries, i, n).artifacts) : path[1] = n
        BY <3>4, <3>6 DEF ToSet
      <3> QED
        BY <3>1, <3>3, <3>7 DEF i
    <2> HIDE DEF manifest
    <2>4. \A n \in DOMAIN manifest.items :
              /\ report[Order[n]].position = manifest.items[n].index
              /\ \A path \in ToSet(manifest.items[n].artifacts) : path[1] = manifest.items[n].index
      BY <2>2, <2>3
    <2> QED
      BY <2>4 DEF NumbersAgree, manifest, entries
  <1>2. Typed /\ Counted => NumbersAgree
    BY <1>1
  <1>3. Typed /\ Counted /\ [Next]_vars => Typed' /\ Counted'
    BY StepCounts
  <1> QED
    BY <1>2, <1>3, InitCounts, PTL DEF Spec

(* The archive never holds two files under one name, for any number of     *)
(* items and files that share vendor, subject and suffix: the first free   *)
(* name is among one more than there are names (_entry_name).              *)
THEOREM NamesAreApart == Spec => []NamesApart
  <1>1. Typed => NamesApart
    BY ArtifactsType, CollectEntriesType DEF NamesApart, Apart
  <1>2. Typed /\ Counted /\ [Next]_vars => Typed' /\ Counted'
    BY StepCounts
  <1> QED
    BY <1>1, <1>2, InitCounts, PTL DEF Spec

-----------------------------------------------------------------------------
(* Amounts.  A number is a few groups of digits, which are put together    *)
(* and counted from the left.                                              *)
Groups == [value : Nat, len : Nat]

JoinedBy(f, groups) ==
    /\ f \in [0 .. Len(groups) -> Int] /\ f[0] = 0 /\ f[Len(groups)] = Joined(groups)
    /\ \A n \in 1 .. Len(groups) : f[n] = f[n - 1] * 10 ^ groups[n].len + groups[n].value

CountedBy(f, groups) ==
    /\ f \in [0 .. Len(groups) -> Int] /\ f[0] = 0 /\ f[Len(groups)] = DigitCount(groups)
    /\ \A n \in 1 .. Len(groups) : f[n] = f[n - 1] + groups[n].len

LEMMA GroupsAt ==
    ASSUME NEW s \in Seq(Groups), NEW n \in 1 .. Len(s)
    PROVE  s[n] \in Groups /\ s[n].value \in Nat /\ s[n].len \in Nat
  <1>1. s[n] \in Groups
    OBVIOUS
  <1> QED
    BY <1>1 DEF Groups

LEMMA JoinedSteps ==
    ASSUME NEW groups \in Seq(Groups)
    PROVE  \E f : JoinedBy(f, groups)
  <1> DEFINE len == Len(groups)
             next(x, n) == x * 10 ^ groups[n].len + groups[n].value
             h == [x \in (1 .. len) \X Int |-> next(x[2], x[1])]
             Folds(g) == g = [s \in SUBSET (1 .. len) |->
                                 IF s = {} THEN 0 ELSE next(g[s \ {Max(s)}], Max(s))]
             fold == CHOOSE g : Folds(g)
  <1>a. DOMAIN groups = 1 .. len
    OBVIOUS
  <1>1. Joined(groups) = fold[1 .. len]
    BY <1>a DEF Joined, FoldLeft, MapThenFoldSet
  <1>2. \A n \in 1 .. len, x \in Int : next(x, n) \in Int
    <2>1. \A n \in 1 .. len : groups[n].value \in Int /\ groups[n].len \in Nat
      BY GroupsAt
    <2> QED
      BY <2>1
  <1> HIDE DEF next
  <1>3. /\ Folding(Int, len, 0, h)
        /\ \A n \in 1 .. len, x \in Int : h[<<n, x>>] = next(x, n)
    <2>0. len \in Nat
      OBVIOUS
    <2>1. \A x \in (1 .. len) \X Int : next(x[2], x[1]) \in Int
      BY <1>2
    <2>2. h \in [(1 .. len) \X Int -> Int]
      BY <2>1
    <2>3. \A n \in 1 .. len, x \in Int : h[<<n, x>>] = next(x, n)
      OBVIOUS
    <2> HIDE DEF h
    <2> QED
      BY <2>0, <2>2, <2>3 DEF Folding
  <1> HIDE DEF h
  <1>4. \E g : Folds(g)
    <2>1. PICK g : IsFold(g, Int, len, 0, h)
      BY <1>3, FoldSolves
    <2>2. g = [s \in SUBSET (1 .. len) |-> g[s]] /\ g[{}] = 0
      BY <2>1 DEF IsFold
    <2>3. \A s \in SUBSET (1 .. len) : s # {} => g[s] = next(g[s \ {Max(s)}], Max(s))
      BY <1>3, <2>1 DEF IsFold
    <2> QED
      BY <2>2, <2>3
  <1>5. Folds(fold)
    BY <1>4
  <1> HIDE DEF fold
  <1>6. Recurses(fold, Int, len, 0, h)
    BY <1>3, <1>5 DEF Recurses
  <1>7. PICK f : Chain(f, Int, len, 0, h) /\ f[len] = fold[1 .. len]
    BY <1>3, <1>6, FoldSteps
  <1>8. \A n \in 1 .. len : f[n] = next(f[n - 1], n)
    BY <1>3, <1>7 DEF Chain
  <1> QED
    BY <1>1, <1>7, <1>8 DEF next, Chain, JoinedBy

LEMMA DigitSteps ==
    ASSUME NEW groups \in Seq(Groups)
    PROVE  \E f : CountedBy(f, groups)
  <1> DEFINE len == Len(groups)
             next(x, n) == x + groups[n].len
             h == [x \in (1 .. len) \X Int |-> next(x[2], x[1])]
             Folds(g) == g = [s \in SUBSET (1 .. len) |->
                                 IF s = {} THEN 0 ELSE next(g[s \ {Max(s)}], Max(s))]
             fold == CHOOSE g : Folds(g)
  <1>a. DOMAIN groups = 1 .. len
    OBVIOUS
  <1>1. DigitCount(groups) = fold[1 .. len]
    BY <1>a DEF DigitCount, FoldLeft, MapThenFoldSet
  <1>2. \A n \in 1 .. len, x \in Int : next(x, n) \in Int
    <2>1. \A n \in 1 .. len : groups[n].value \in Int /\ groups[n].len \in Nat
      BY GroupsAt
    <2> QED
      BY <2>1
  <1> HIDE DEF next
  <1>3. /\ Folding(Int, len, 0, h)
        /\ \A n \in 1 .. len, x \in Int : h[<<n, x>>] = next(x, n)
    <2>0. len \in Nat
      OBVIOUS
    <2>1. \A x \in (1 .. len) \X Int : next(x[2], x[1]) \in Int
      BY <1>2
    <2>2. h \in [(1 .. len) \X Int -> Int]
      BY <2>1
    <2>3. \A n \in 1 .. len, x \in Int : h[<<n, x>>] = next(x, n)
      OBVIOUS
    <2> HIDE DEF h
    <2> QED
      BY <2>0, <2>2, <2>3 DEF Folding
  <1> HIDE DEF h
  <1>4. \E g : Folds(g)
    <2>1. PICK g : IsFold(g, Int, len, 0, h)
      BY <1>3, FoldSolves
    <2>2. g = [s \in SUBSET (1 .. len) |-> g[s]] /\ g[{}] = 0
      BY <2>1 DEF IsFold
    <2>3. \A s \in SUBSET (1 .. len) : s # {} => g[s] = next(g[s \ {Max(s)}], Max(s))
      BY <1>3, <2>1 DEF IsFold
    <2> QED
      BY <2>2, <2>3
  <1>5. Folds(fold)
    BY <1>4
  <1> HIDE DEF fold
  <1>6. Recurses(fold, Int, len, 0, h)
    BY <1>3, <1>5 DEF Recurses
  <1>7. PICK f : Chain(f, Int, len, 0, h) /\ f[len] = fold[1 .. len]
    BY <1>3, <1>6, FoldSteps
  <1>8. \A n \in 1 .. len : f[n] = next(f[n - 1], n)
    BY <1>3, <1>7 DEF Chain
  <1> QED
    BY <1>1, <1>7, <1>8 DEF next, Chain, CountedBy

LEMMA OneGroup ==
    ASSUME NEW s \in Seq(Groups), Len(s) = 1
    PROVE  Joined(s) = s[1].value /\ DigitCount(s) = s[1].len
  <1>0. 1 \in 1 .. Len(s)
    OBVIOUS
  <1>1. s[1].value \in Nat /\ s[1].len \in Nat
    BY <1>0, GroupsAt
  <1>2. PICK f : JoinedBy(f, s)
    BY JoinedSteps
  <1>3. PICK d : CountedBy(d, s)
    BY DigitSteps
  <1>4. Joined(s) = s[1].value
    BY <1>1, <1>2 DEF JoinedBy
  <1>5. DigitCount(s) = s[1].len
    BY <1>1, <1>3 DEF CountedBy
  <1> QED
    BY <1>4, <1>5

LEMMA TwoGroups ==
    ASSUME NEW s \in Seq(Groups), Len(s) = 2
    PROVE  /\ Joined(s) = s[1].value * 10 ^ s[2].len + s[2].value
           /\ DigitCount(s) = s[1].len + s[2].len
  <1>0. 1 \in 1 .. Len(s) /\ 2 \in 1 .. Len(s)
    OBVIOUS
  <1>1. s[1].value \in Nat /\ s[1].len \in Nat /\ s[2].value \in Nat /\ s[2].len \in Nat
    BY <1>0, GroupsAt
  <1>2. PICK f : JoinedBy(f, s)
    BY JoinedSteps
  <1>3. PICK d : CountedBy(d, s)
    BY DigitSteps
  <1>4. f[1] = s[1].value
    BY <1>1, <1>2 DEF JoinedBy
  <1>5. Joined(s) = f[1] * 10 ^ s[2].len + s[2].value
    BY <1>2 DEF JoinedBy
  <1>6. DigitCount(s) = s[1].len + s[2].len
    BY <1>1, <1>3 DEF CountedBy
  <1> QED
    BY <1>4, <1>5, <1>6

LEMMA ThreeGroups ==
    ASSUME NEW s \in Seq(Groups), Len(s) = 3
    PROVE  DigitCount(s) = s[1].len + s[2].len + s[3].len
  <1>0. 1 \in 1 .. Len(s) /\ 2 \in 1 .. Len(s) /\ 3 \in 1 .. Len(s)
    OBVIOUS
  <1>1. s[1].len \in Nat /\ s[2].len \in Nat /\ s[3].len \in Nat
    BY <1>0, GroupsAt
  <1>2. PICK d : CountedBy(d, s)
    BY DigitSteps
  <1> QED
    BY <1>1, <1>2 DEF CountedBy

\* Up to six digits there is a number of them.
LEMMA DigitsCount ==
    ASSUME NEW n \in Nat, n < 10 ^ 6
    PROVE  Digits(n) \in 1 .. 6 /\ (n < 1000 => Digits(n) \in 1 .. 3)
  <1> DEFINE Fits(d) == n < 10 ^ d /\ (d = 1 \/ n >= 10 ^ (d - 1))
  <1>1. /\ 10 ^ 1 = 10 /\ 10 ^ 2 = 100 /\ 10 ^ 3 = 1000 /\ 10 ^ 4 = 10000
        /\ 10 ^ 5 = 100000 /\ 10 ^ 6 = 1000000
    BY SMT
  <1>2. 10 ^ 7 = 10000000 /\ 10 ^ 8 = 100000000 /\ 10 ^ 9 = 1000000000
    BY SMT
  <1>3. 7 - 1 = 6 /\ 8 - 1 = 7 /\ 9 - 1 = 8 /\ 10 - 1 = 9 /\ 4 - 1 = 3 /\ 5 - 1 = 4 /\ 6 - 1 = 5
    BY SMT
  <1>4. ~Fits(7) /\ ~Fits(8) /\ ~Fits(9) /\ ~Fits(10)
    BY <1>1, <1>2, <1>3, SMT
  <1>5. n < 1000 => ~Fits(4) /\ ~Fits(5) /\ ~Fits(6)
    BY <1>1, SMT
  <1>6. Fits(1) \/ Fits(2) \/ Fits(3) \/ Fits(4) \/ Fits(5) \/ Fits(6)
    BY <1>1, SMT
  <1>7. Digits(n) = CHOOSE d \in 1 .. 10 : Fits(d)
    BY DEF Digits
  <1> HIDE DEF Fits
  <1>8. Digits(n) \in 1 .. 10 /\ Fits(Digits(n))
    BY <1>6, <1>7
  <1> QED
    BY <1>4, <1>5, <1>8

LEMMA WholeAndMinor ==
    ASSUME NEW m \in Nat, NEW u \in {1, 100}, m < 10 ^ 6 * u
    PROVE  /\ m \div u \in Nat /\ m \div u < 10 ^ 6 /\ m % u \in 0 .. 99
           /\ m = (m \div u) * u + (m % u)
  <1>1. PICK million : million = 10 ^ 6
    OBVIOUS
  <1>2. million \in Nat
    BY <1>1, SMT
  <1>3. CASE u = 1
    BY <1>1, <1>2, <1>3, SMT
  <1>4. CASE u = 100
    BY <1>1, <1>2, <1>4, SMT
  <1> QED
    BY <1>3, <1>4

LEMMA Thousands ==
    ASSUME NEW w \in Nat, w < 10 ^ 6
    PROVE  /\ w \div 1000 \in Nat /\ w \div 1000 < 1000 /\ w \div 1000 < 10 ^ 6
           /\ w % 1000 \in Nat /\ w = (w \div 1000) * 10 ^ 3 + (w % 1000)
  <1>1. 10 ^ 6 = 1000000 /\ 10 ^ 3 = 1000
    BY SMT
  <1> QED
    BY <1>1, SMT

LEMMA FrontFacts ==
    ASSUME NEW s \in Seq(Groups), Len(s) > 0
    PROVE  /\ Front(s) \in Seq(Groups) /\ Len(Front(s)) = Len(s) - 1
           /\ \A n \in 1 .. Len(s) - 1 : Front(s)[n] = s[n]
           /\ Last(s) = s[Len(s)]
  <1>1. Len(s) \in Nat /\ \A n \in 1 .. Len(s) : s[n] \in Groups
    OBVIOUS
  <1>2. Front(s) = [n \in 1 .. Len(s) - 1 |-> s[n]]
    BY <1>1 DEF Front
  <1> QED
    BY <1>1, <1>2 DEF Last

Marks == {"", ",", "."}

LEMMA SepsFacts ==
    ASSUME NEW seps \in Seq(Marks)
    PROVE  /\ Len(seps) = 0 <=> seps = <<>>
           /\ Len(seps) = 1 => Cardinality(ToSet(seps)) = 1
  <1>1. Len(seps) = 0 <=> seps = <<>>
    OBVIOUS
  <1>2. ASSUME Len(seps) = 1
        PROVE  Cardinality(ToSet(seps)) = 1
    <2>1. DOMAIN seps = {1}
      BY <1>2
    <2>2. ToSet(seps) = {seps[1]}
      BY <2>1 DEF ToSet
    <2> QED
      BY <2>2, FS_Singleton
  <1> QED
    BY <1>1, <1>2

(* A number of few groups and separators, as it comes.                     *)
Numbers == [groups : Seq(Groups), seps : Seq(Marks)]

\* A number as it is written: plain, with a minor unit, in two groups, or both.
Plain(number, whole) ==
    /\ number \in Numbers /\ Len(number.groups) = 1 /\ Len(number.seps) = 0
    /\ number.groups[1].len < 7 /\ number.groups[1].value = whole

WithMinor(number, whole, minor) ==
    /\ number \in Numbers /\ Len(number.groups) = 2 /\ Len(number.seps) = 1
    /\ number.groups[1].len < 7 /\ number.groups[1].value = whole
    /\ number.groups[2].len = 2 /\ number.groups[2].value = minor

Grouped(number, front, rest) ==
    /\ number \in Numbers /\ Len(number.groups) = 2 /\ Len(number.seps) = 1
    /\ number.groups[1].len < 7 /\ number.groups[1].value = front
    /\ number.groups[2].len = 3 /\ number.groups[2].value = rest

GroupedWithMinor(number, front, rest, minor) ==
    /\ number \in Numbers /\ Len(number.groups) = 3 /\ Len(number.seps) = 2
    /\ number.groups[1].len < 5 /\ number.groups[1].value = front
    /\ number.groups[2].len = 3 /\ number.groups[2].value = rest
    /\ number.groups[3].len = 2 /\ number.groups[3].value = minor

(* What the program reads in it.                                           *)
Reads(number, currency, whole, minor) ==
    /\ ParseNumber(number, currency) =
           IF currency \in ZeroMinor THEN whole ELSE whole * 100 + minor
    /\ ~(DigitCount(number.groups) > 9)

LEMMA ReadsPlain ==
    ASSUME NEW number, NEW currency, NEW whole, Plain(number, whole)
    PROVE  Reads(number, currency, whole, 0)
  <1> DEFINE s == number.groups
  <1>1. /\ s \in Seq(Groups) /\ number.seps \in Seq(Marks)
        /\ Len(s) = 1 /\ s[1].len < 7 /\ s[1].value = whole /\ Len(number.seps) = 0
    BY DEF Numbers, Plain
  <1> HIDE DEF s
  <1>2. 1 \in 1 .. Len(s)
    BY <1>1
  <1>3. s[1].len \in Nat
    BY <1>1, <1>2, GroupsAt
  <1>4. Joined(s) = s[1].value /\ ~(DigitCount(s) > 9)
    BY <1>1, <1>3, OneGroup
  <1>5. ~HasFraction(number)
    BY <1>1, SepsFacts DEF HasFraction, s
  <1> QED
    BY <1>1, <1>4, <1>5, Zenon DEF Reads, ParseNumber, s

LEMMA ReadsMinor ==
    ASSUME NEW number, NEW currency, NEW whole, NEW minor, WithMinor(number, whole, minor)
    PROVE  Reads(number, currency, whole, minor)
  <1> DEFINE s == number.groups
  <1>1. /\ s \in Seq(Groups) /\ number.seps \in Seq(Marks)
        /\ Len(s) = 2 /\ s[1].len < 7 /\ s[2].len = 2
        /\ Len(number.seps) = 1 /\ s[1].value = whole /\ s[2].value = minor
    BY DEF Numbers, WithMinor
  <1> HIDE DEF s
  <1>2. 1 \in 1 .. Len(s) /\ 1 \in 1 .. Len(s) - 1
    BY <1>1
  <1>3. s[1].len \in Nat
    BY <1>1, <1>2, GroupsAt
  <1>4. /\ Last(s) = s[2] /\ Front(s) \in Seq(Groups)
        /\ Len(Front(s)) = 1 /\ Front(s)[1] = s[1]
    <2>1. /\ Front(s) \in Seq(Groups) /\ Len(Front(s)) = 1 /\ Last(s) = s[2]
          /\ \A n \in 1 .. 1 : Front(s)[n] = s[n]
      <3>1. Len(s) > 0 /\ Len(s) - 1 = 1
        BY <1>1
      <3>2. /\ Front(s) \in Seq(Groups) /\ Len(Front(s)) = Len(s) - 1
            /\ \A n \in 1 .. Len(s) - 1 : Front(s)[n] = s[n]
            /\ Last(s) = s[Len(s)]
        BY <1>1, <3>1, FrontFacts
      <3> QED
        BY <1>1, <3>1, <3>2, Zenon
    <2>2. 1 \in 1 .. 1
      OBVIOUS
    <2> QED
      BY <2>1, <2>2
  <1>5. Joined(Front(s)) = s[1].value
    BY <1>4, OneGroup
  <1>6. ~(DigitCount(s) > 9)
    BY <1>1, <1>3, TwoGroups
  <1>7. HasFraction(number)
    BY <1>1, <1>4, SepsFacts DEF HasFraction, s
  <1> QED
    BY <1>1, <1>4, <1>5, <1>6, <1>7, Zenon DEF Reads, ParseNumber, s

LEMMA ReadsGrouped ==
    ASSUME NEW number, NEW currency, NEW front, NEW rest, Grouped(number, front, rest)
    PROVE  Reads(number, currency, front * 10 ^ 3 + rest, 0)
  <1> DEFINE s == number.groups
  <1>1. /\ s \in Seq(Groups) /\ number.seps \in Seq(Marks)
        /\ Len(s) = 2 /\ s[1].len < 7 /\ s[2].len = 3
        /\ Len(number.seps) = 1 /\ s[1].value = front /\ s[2].value = rest
    BY DEF Numbers, Grouped
  <1> HIDE DEF s
  <1>2. 1 \in 1 .. Len(s)
    BY <1>1
  <1>3. s[1].len \in Nat
    BY <1>1, <1>2, GroupsAt
  <1>4. Last(s) = s[2]
    BY <1>1 DEF Last
  <1>5. Joined(s) = s[1].value * 10 ^ 3 + s[2].value /\ ~(DigitCount(s) > 9)
    <2>1. /\ Joined(s) = s[1].value * 10 ^ s[2].len + s[2].value
          /\ DigitCount(s) = s[1].len + s[2].len
      BY <1>1, TwoGroups
    <2> QED
      BY <1>1, <1>3, <2>1
  <1>6. Cardinality(ToSet(number.seps)) = 1
    BY <1>1, SepsFacts
  <1>7. ~HasFraction(number)
    BY <1>1, <1>4, <1>6 DEF HasFraction, s
  <1> QED
    BY <1>1, <1>5, <1>7, Zenon DEF Reads, ParseNumber, s

LEMMA ReadsBoth ==
    ASSUME NEW number, NEW currency, NEW front, NEW rest, NEW minor,
           GroupedWithMinor(number, front, rest, minor)
    PROVE  Reads(number, currency, front * 10 ^ 3 + rest, minor)
  <1> DEFINE s == number.groups
  <1>1. /\ s \in Seq(Groups) /\ number.seps \in Seq(Marks)
        /\ Len(s) = 3 /\ s[1].len < 5 /\ s[2].len = 3 /\ s[3].len = 2
        /\ Len(number.seps) = 2 /\ s[1].value = front /\ s[2].value = rest
        /\ s[3].value = minor
    BY DEF Numbers, GroupedWithMinor
  <1> HIDE DEF s
  <1>2. 1 \in 1 .. Len(s) /\ 1 \in 1 .. Len(s) - 1 /\ 2 \in 1 .. Len(s) - 1
    BY <1>1
  <1>3. s[1].len \in Nat
    BY <1>1, <1>2, GroupsAt
  <1>4. /\ Last(s) = s[3] /\ Front(s) \in Seq(Groups)
        /\ Len(Front(s)) = 2 /\ Front(s)[1] = s[1] /\ Front(s)[2] = s[2]
    <2>1. /\ Front(s) \in Seq(Groups) /\ Len(Front(s)) = 2 /\ Last(s) = s[3]
          /\ \A n \in 1 .. 2 : Front(s)[n] = s[n]
      <3>1. Len(s) > 0 /\ Len(s) - 1 = 2
        BY <1>1
      <3>2. /\ Front(s) \in Seq(Groups) /\ Len(Front(s)) = Len(s) - 1
            /\ \A n \in 1 .. Len(s) - 1 : Front(s)[n] = s[n]
            /\ Last(s) = s[Len(s)]
        BY <1>1, <3>1, FrontFacts
      <3> QED
        BY <1>1, <3>1, <3>2, Zenon
    <2>2. 1 \in 1 .. 2 /\ 2 \in 1 .. 2
      OBVIOUS
    <2> QED
      BY <2>1, <2>2
  <1>5. Joined(Front(s)) = s[1].value * 10 ^ 3 + s[2].value
    <2>1. Joined(Front(s)) = Front(s)[1].value * 10 ^ Front(s)[2].len + Front(s)[2].value
      BY <1>4, TwoGroups
    <2> QED
      BY <1>1, <1>4, <2>1, Zenon
  <1>6. ~(DigitCount(s) > 9)
    BY <1>1, <1>3, ThreeGroups
  <1>7. HasFraction(number)
    BY <1>1, <1>4, SepsFacts DEF HasFraction, s
  <1> QED
    BY <1>1, <1>4, <1>5, <1>6, <1>7, Zenon DEF Reads, ParseNumber, s

\* A number that is put together from what stands before the minor unit, and it.
LEMMA PutTogether ==
    ASSUME NEW T, NEW front \in Seq(T), NEW back \in Seq(T)
    PROVE  /\ front \o back \in Seq(T) /\ Len(front \o back) = Len(front) + Len(back)
           /\ \A n \in 1 .. Len(front) : (front \o back)[n] = front[n]
           /\ \A n \in 1 .. Len(back) : (front \o back)[Len(front) + n] = back[n]
  OBVIOUS

LEMMA Singles ==
    ASSUME NEW T, NEW a \in T, NEW b \in T
    PROVE  /\ <<>> \in Seq(T) /\ Len(<<>>) = 0
           /\ <<a>> \in Seq(T) /\ Len(<<a>>) = 1 /\ <<a>>[1] = a
           /\ <<a, b>> \in Seq(T) /\ Len(<<a, b>>) = 2 /\ <<a, b>>[1] = a /\ <<a, b>>[2] = b
  OBVIOUS

LEMMA PriceFacts ==
    ASSUME NEW p \in Price
    PROVE  /\ p.currency \in {"USD", "EUR", "JPY"}
           /\ p.group \in Marks /\ p.point \in Marks
           /\ Magnitude(p.minor) \in Nat
           /\ Magnitude(p.minor) < 10 ^ 6 * Unit(p.currency)
           /\ p.point = "" => Magnitude(p.minor) % Unit(p.currency) = 0
  <1>1. /\ p \in [minor: Int, currency: {"USD", "EUR", "JPY"},
                  group: {"", ",", "."}, point: {"", ",", "."}, after: STRING]
        /\ Magnitude(p.minor) < 10 ^ 6 * Unit(p.currency)
        /\ p.point = "" => Magnitude(p.minor) % Unit(p.currency) = 0
    BY Zenon DEF Price
  <1>2. /\ p.minor \in Int /\ p.currency \in {"USD", "EUR", "JPY"}
        /\ p.group \in {"", ",", "."} /\ p.point \in {"", ",", "."}
    BY <1>1
  <1>3. Magnitude(p.minor) \in Nat
    <2>1. \A n \in Int : Magnitude(n) \in Nat
      BY DEF Magnitude
    <2> QED
      BY <1>2, <2>1
  <1> QED
    BY <1>1, <1>2, <1>3 DEF Marks

LEMMA UnitFacts ==
    ASSUME NEW currency
    PROVE  /\ Unit(currency) \in {1, 100}
           /\ Unit(currency) = 1 <=> currency \in ZeroMinor
  BY DEF Unit

(* What the program takes for something else: a year, or another unit's.   *)
NotAPrice(p) == Year(Number(p)) \/ p.after \in OtherUnits

(* What the program reads is what was written: every price, in each way of *)
(* writing it.  None is too long.                                          *)
LEMMA PriceIsRead ==
    ASSUME NEW p \in Price
    PROVE  /\ ParseNumber(Number(p), p.currency) = Magnitude(p.minor)
           /\ RejectNumber(Number(p), p.after) <=> NotAPrice(p)
  <1> DEFINE m == Magnitude(p.minor)
             u == Unit(p.currency)
             w == m \div u
             r == m % u
             group(n, len) == [value |-> n, len |-> len]
             one == group(w, Digits(w))
             thousands == group(w \div 1000, Digits(w \div 1000))
             rest == group(w % 1000, 3)
             minor == group(r, 2)
             number == Number(p)
             grouped == p.group # "" /\ w >= 1000
             front == IF grouped THEN <<thousands, rest>> ELSE <<one>>
             back == IF p.point = "" THEN <<>> ELSE <<minor>>
             seps == IF grouped THEN <<p.group>> ELSE <<>>
             last == IF p.point = "" THEN <<>> ELSE <<p.point>>
  <1>1. number = [groups |-> front \o back, seps |-> seps \o last]
    BY DEF Number
  <1> HIDE DEF number, front, back, seps, last
  <1>2. number.groups = front \o back /\ number.seps = seps \o last
    BY <1>1
  <1>3. /\ p.group \in Marks /\ p.point \in Marks
        /\ m < 10 ^ 6 * u /\ (p.point = "" => r = 0)
    BY PriceFacts, Zenon
  <1>4. m \in Nat /\ u \in {1, 100} /\ (u = 1 <=> p.currency \in ZeroMinor)
    BY PriceFacts, UnitFacts, Zenon
  <1> HIDE DEF m, u
  <1>5. w \in Nat /\ w < 10 ^ 6 /\ r \in 0 .. 99 /\ m = w * u + r
    BY <1>3, <1>4, WholeAndMinor
  <1>6. m = IF p.currency \in ZeroMinor THEN w ELSE w * 100 + r
    <2>1. CASE u = 1
      <3>1. r = 0
        BY <1>4, <2>1
      <3> HIDE DEF w, r
      <3> QED
        BY <1>4, <1>5, <2>1, <3>1
    <2>2. CASE u = 100
      <3> HIDE DEF w, r
      <3> QED
        BY <1>4, <1>5, <2>2
    <2> QED
      BY <1>4, <2>1, <2>2
  <1> HIDE DEF w, r
  <1>7. /\ w \div 1000 \in Nat /\ w \div 1000 < 1000 /\ w \div 1000 < 10 ^ 6
        /\ w % 1000 \in Nat /\ w = (w \div 1000) * 10 ^ 3 + (w % 1000)
    BY <1>5, Thousands
  <1>8. Digits(w) \in 1 .. 6 /\ Digits(w \div 1000) \in 1 .. 3
    BY <1>5, <1>7, DigitsCount
  <1>9. /\ one.value = w /\ one.len < 7
        /\ thousands.value = w \div 1000 /\ thousands.len < 5 /\ thousands.len < 7
        /\ rest.value = w % 1000 /\ rest.len = 3 /\ minor.value = r /\ minor.len = 2
    BY <1>8
  <1>10. one \in Groups /\ thousands \in Groups /\ rest \in Groups /\ minor \in Groups
    BY <1>5, <1>7, <1>8 DEF Groups
  <1> HIDE DEF one, thousands, rest, minor, grouped
  <1>11. front \in Seq(Groups) /\ back \in Seq(Groups)
         /\ seps \in Seq(Marks) /\ last \in Seq(Marks)
    BY <1>3, <1>10, Singles DEF front, back, seps, last
  <1>12. /\ grouped => Len(front) = 2 /\ front[1] = thousands /\ front[2] = rest /\ Len(seps) = 1
         /\ ~grouped => Len(front) = 1 /\ front[1] = one /\ Len(seps) = 0
         /\ p.point = "" => Len(back) = 0 /\ Len(last) = 0
         /\ p.point # "" => Len(back) = 1 /\ back[1] = minor /\ Len(last) = 1
    BY <1>3, <1>10, Singles DEF front, back, seps, last
  <1>13. number \in Numbers
    <2>1. front \o back \in Seq(Groups)
      BY <1>11
    <2>2. seps \o last \in Seq(Marks)
      BY <1>11
    <2> QED
      BY <1>1, <2>1, <2>2 DEF Numbers
  <1>14. Len(number.groups) = Len(front) + Len(back) /\ Len(number.seps) = Len(seps) + Len(last)
    BY <1>2, <1>11, PutTogether
  <1>15. /\ \A n \in 1 .. Len(front) : number.groups[n] = front[n]
         /\ \A n \in 1 .. Len(back) : number.groups[Len(front) + n] = back[n]
    BY <1>2, <1>11, PutTogether
  <1> DEFINE s == number.groups
  <1>16. /\ grouped => s[1] = thousands /\ s[2] = rest
         /\ ~grouped => s[1] = one
         /\ p.point # "" => s[Len(front) + 1] = minor
    <2>1. 1 \in 1 .. 1 /\ 1 \in 1 .. 2 /\ 2 \in 1 .. 2
      OBVIOUS
    <2> HIDE DEF s
    <2> QED
      BY <1>12, <1>15, <2>1 DEF s
  <1> HIDE DEF s
  <1>17. ASSUME ~grouped, p.point = ""
         PROVE  Reads(number, p.currency, w, r)
    <2>1. Len(s) = 1 /\ s[1] = one /\ Len(number.seps) = 0
      <3>1. Len(front) = 1 /\ Len(seps) = 0 /\ Len(back) = 0 /\ Len(last) = 0
        BY <1>12, <1>17
      <3>2. s[1] = one
        BY <1>16, <1>17
      <3>3. Len(s) = 1 /\ Len(number.seps) = 0
        BY <1>14, <3>1 DEF s
      <3> QED
        BY <3>2, <3>3
    <2>2. Plain(number, w)
      BY <1>9, <1>13, <2>1 DEF Plain, s
    <2> QED
      BY <1>3, <1>17, <2>2, ReadsPlain
  <1>18. ASSUME ~grouped, p.point # ""
         PROVE  Reads(number, p.currency, w, r)
    <2>1. Len(s) = 2 /\ s[1] = one /\ s[2] = minor /\ Len(number.seps) = 1
      <3>1. Len(front) = 1 /\ Len(seps) = 0 /\ Len(back) = 1 /\ Len(last) = 1
        BY <1>12, <1>18
      <3>2. s[1] = one /\ s[Len(front) + 1] = minor
        BY <1>16, <1>18
      <3>3. Len(s) = 2 /\ Len(number.seps) = 1
        BY <1>14, <3>1 DEF s
      <3>4. Len(front) + 1 = 2
        BY <3>1
      <3> QED
        BY <3>2, <3>3, <3>4, Zenon
    <2>2. WithMinor(number, w, r)
      BY <1>9, <1>13, <2>1 DEF WithMinor, s
    <2> QED
      BY <2>2, ReadsMinor
  <1>19. ASSUME grouped, p.point = ""
         PROVE  Reads(number, p.currency, w, r)
    <2>1. Len(s) = 2 /\ s[1] = thousands /\ s[2] = rest /\ Len(number.seps) = 1
      <3>1. Len(front) = 2 /\ Len(seps) = 1 /\ Len(back) = 0 /\ Len(last) = 0
        BY <1>12, <1>19
      <3>2. s[1] = thousands /\ s[2] = rest
        BY <1>16, <1>19
      <3>3. Len(s) = 2 /\ Len(number.seps) = 1
        BY <1>14, <3>1 DEF s
      <3> QED
        BY <3>2, <3>3
    <2>2. Grouped(number, w \div 1000, w % 1000)
      BY <1>9, <1>13, <2>1 DEF Grouped, s
    <2>3. r = 0
      BY <1>3, <1>19
    <2>4. Reads(number, p.currency, (w \div 1000) * 10 ^ 3 + (w % 1000), r)
      BY <2>2, <2>3, ReadsGrouped
    <2> QED
      BY <1>7, <2>4
  <1>20. ASSUME grouped, p.point # ""
         PROVE  Reads(number, p.currency, w, r)
    <2>1. /\ Len(s) = 3 /\ s[1] = thousands /\ s[2] = rest /\ s[3] = minor
          /\ Len(number.seps) = 2
      <3>1. Len(front) = 2 /\ Len(seps) = 1 /\ Len(back) = 1 /\ Len(last) = 1
        BY <1>12, <1>20
      <3>2. s[1] = thousands /\ s[2] = rest /\ s[Len(front) + 1] = minor
        BY <1>16, <1>20
      <3>3. Len(s) = 3 /\ Len(number.seps) = 2
        BY <1>14, <3>1 DEF s
      <3>4. Len(front) + 1 = 3
        BY <3>1
      <3> QED
        BY <3>2, <3>3, <3>4, Zenon
    <2>2. GroupedWithMinor(number, w \div 1000, w % 1000, r)
      BY <1>9, <1>13, <2>1 DEF GroupedWithMinor, s
    <2>3. Reads(number, p.currency, (w \div 1000) * 10 ^ 3 + (w % 1000), r)
      BY <2>2, ReadsBoth
    <2> QED
      BY <1>7, <2>3
  <1>21. Reads(number, p.currency, w, r)
    BY <1>17, <1>18, <1>19, <1>20
  <1>22. ParseNumber(number, p.currency) = m /\ ~(DigitCount(number.groups) > 9)
    BY <1>6, <1>21, Zenon DEF Reads
  <1>23. RejectNumber(number, p.after) <=> Year(number) \/ p.after \in OtherUnits
    BY <1>22, Zenon DEF RejectNumber
  <1> QED
    BY <1>22, <1>23 DEF number, m, NotAPrice

\* The price is taken as it was written, or not at all where it is not one.
LEMMA AmountIsThePrice ==
    ASSUME NEW p \in Prices
    PROVE  \/ NotAPrice(p) /\ ExtractAmount(p) = NoAmount
           \/ /\ ~NotAPrice(p) /\ ExtractAmount(p) # NoAmount
              /\ ExtractAmount(p).cents = p.minor /\ p.minor \in Int
              /\ ExtractAmount(p).currency = p.currency
              /\ p.currency \in {"USD", "EUR", "JPY"}
  <1>1. p \in Price
    BY PricesAssumption
  <1>2. /\ ParseNumber(Number(p), p.currency) = Magnitude(p.minor)
        /\ RejectNumber(Number(p), p.after) <=> NotAPrice(p)
    BY <1>1, PriceIsRead
  <1>3. p.minor \in Int /\ p.currency \in {"USD", "EUR", "JPY"}
    <2>1. p \in [minor: Int, currency: {"USD", "EUR", "JPY"},
                 group: {"", ",", "."}, point: {"", ",", "."}, after: STRING]
      BY <1>1, Zenon DEF Price
    <2> QED
      BY <2>1
  <1>4. CASE NotAPrice(p)
    BY <1>2, <1>4 DEF ExtractAmount
  <1>5. CASE ~NotAPrice(p)
    <2>1. PICK n : n = p.minor
      OBVIOUS
    <2>2. PICK cents : cents = Magnitude(n)
      OBVIOUS
    <2>3. ExtractAmount(p) = [cents |-> IF n < 0 THEN -cents ELSE cents, currency |-> p.currency]
      BY <1>2, <1>5, <2>1, <2>2 DEF ExtractAmount
    <2>4. (IF n < 0 THEN -cents ELSE cents) = n
      BY <1>3, <2>1, <2>2 DEF Magnitude
    <2>5. ExtractAmount(p).cents = n /\ ExtractAmount(p).currency = p.currency
      BY <2>3, <2>4
    <2>6. ExtractAmount(p) # NoAmount
      <3>1. NoAmount.currency = "none"
        BY DEF NoAmount
      <3> QED
        BY <1>3, <2>5, <3>1
    <2> QED
      BY <1>3, <1>5, <2>1, <2>5, <2>6
  <1> QED
    BY <1>4, <1>5

\* What is written is what is read.
LEMMA ReadingIsWritten ==
    ASSUME NEW cents \in Int, NEW currency
    PROVE  /\ Reading(FormatAmount(cents, currency), currency) = cents
           /\ FormatAmount(cents, currency) # NoAmount
  <1> DEFINE text == FormatAmount(cents, currency)
  <1>1. PICK m : m = Magnitude(cents)
    OBVIOUS
  <1>2. m \in Nat /\ (IF cents < 0 THEN -m ELSE m) = cents
    BY <1>1 DEF Magnitude
  <1>3. CASE currency \in ZeroMinor
    <2>1. text = [negative |-> cents < 0, whole |-> m, minor |-> 0]
      BY <1>1, <1>3, Zenon DEF FormatAmount
    <2> HIDE DEF text
    <2>2. text.negative = (cents < 0) /\ text.whole = m /\ text.minor = 0
      BY <2>1
    <2>3. Unit(currency) = 1
      BY <1>3 DEF Unit
    <2>4. text.whole * Unit(currency) + text.minor = m
      BY <1>2, <2>2, <2>3
    <2>5. Reading(text, currency) = IF cents < 0 THEN -m ELSE m
      BY <2>2, <2>4, Zenon DEF Reading
    <2>6. text # NoAmount
      <3>1. "negative" \in DOMAIN text
        BY <2>1
      <3>2. "negative" \notin DOMAIN NoAmount
        BY DEF NoAmount
      <3> QED
        BY <3>1, <3>2
    <2> QED
      BY <1>2, <2>5, <2>6 DEF text
  <1>4. CASE currency \notin ZeroMinor
    <2>1. text = [negative |-> cents < 0, whole |-> m \div 100, minor |-> m % 100]
      BY <1>1, <1>4, Zenon DEF FormatAmount
    <2> HIDE DEF text
    <2>2. text.negative = (cents < 0) /\ text.whole = m \div 100 /\ text.minor = m % 100
      BY <2>1
    <2>3. Unit(currency) = 100
      BY <1>4 DEF Unit
    <2>4. text.whole * Unit(currency) + text.minor = m
      BY <1>2, <2>2, <2>3
    <2>5. Reading(text, currency) = IF cents < 0 THEN -m ELSE m
      BY <2>2, <2>4, Zenon DEF Reading
    <2>6. text # NoAmount
      <3>1. "negative" \in DOMAIN text
        BY <2>1
      <3>2. "negative" \notin DOMAIN NoAmount
        BY DEF NoAmount
      <3> QED
        BY <3>1, <3>2
    <2> QED
      BY <1>2, <2>5, <2>6 DEF text
  <1> QED
    BY <1>3, <1>4

(* An item has the amount of its price.                                    *)
Amounts == \A i \in DOMAIN report : report[i].amount = ExtractAmount(report[i].price)

LEMMA StepReads ==
    ASSUME Typed, Amounts, [Next]_vars
    PROVE  Amounts'
  <1>1. CASE UNCHANGED vars
    BY <1>1 DEF vars, Amounts
  <1>2. ASSUME NEW price, NEW stem, NEW files, AddItem(price, stem, files)
        PROVE  Amounts'
    <2>1. PICK a : a = added + 1
      OBVIOUS
    <2>2. PICK item : item = [position |-> 1 + LastPosition, price |-> price,
                              stem |-> stem, files |-> files, amount |-> ExtractAmount(price)]
      OBVIOUS
    <2>3. report' = [i \in DOMAIN report \cup {a} |-> IF i = a THEN item ELSE report[i]]
      BY <1>2, <2>1, <2>2 DEF AddItem
    <2>4. item.amount = ExtractAmount(item.price)
      BY <2>2
    <2> QED
      BY <2>3, <2>4 DEF Amounts
  <1>3. ASSUME NEW i, RemoveItem(i)
        PROVE  Amounts'
    <2>1. ASSUME NEW j \in DOMAIN report'
          PROVE  (report'[j]).amount = ExtractAmount((report'[j]).price)
      <3>1. j \in DOMAIN report
        BY <1>3, <2>1 DEF RemoveItem
      <3>2. report[j] \in Item
        BY <3>1 DEF Typed
      <3>3. PICK n : report'[j] = [report[j] EXCEPT !.position = n]
        BY <1>3, <2>1 DEF RemoveItem
      <3>4. (report'[j]).amount = report[j].amount /\ (report'[j]).price = report[j].price
        BY <3>2, <3>3 DEF Item
      <3> QED
        BY <3>1, <3>4 DEF Amounts
    <2> QED
      BY <2>1 DEF Amounts
  <1> QED
    BY <1>1, <1>2, <1>3 DEF Next

\* What the manifest states of an item.
LEMMA AmountIsStated ==
    ASSUME Typed, Amounts, NEW i \in DOMAIN report, NEW entries, NEW index
    PROVE  LET price == report[i].price
               stated == ManifestItem(entries, i, index)
           IN  /\ stated.currency = Amount(i).currency
               /\ \/ /\ Amount(i) = NoAmount /\ stated.amount = NoAmount
                     /\ NotAPrice(price) /\ stated.amount_cents = <<>>
                  \/ /\ Amount(i) # NoAmount /\ price.minor \in Int
                     /\ ~NotAPrice(price) /\ stated.amount_cents = <<price.minor>>
                     /\ price.currency \in {"USD", "EUR", "JPY"}
                     /\ stated.amount # NoAmount /\ stated.currency = price.currency
                     /\ Reading(stated.amount, stated.currency) = price.minor
                     /\ Amount(i).cents = price.minor
  <1> DEFINE price == report[i].price
             amount == ExtractAmount(price)
             stated == ManifestItem(entries, i, index)
  <1>1. price \in Prices /\ Amount(i) = amount
    <2>1. report[i] \in Item
      BY DEF Typed
    <2> QED
      BY <2>1 DEF Item, Amounts, Amount
  <1>2. /\ stated.currency = Amount(i).currency
        /\ stated.amount = IF Amount(i) # NoAmount
                           THEN FormatAmount(Amount(i).cents, Amount(i).currency) ELSE NoAmount
        /\ stated.amount_cents = IF Amount(i) # NoAmount THEN <<Amount(i).cents>> ELSE <<>>
    BY DEF ManifestItem
  <1> HIDE DEF price, stated
  <1>3. \/ NotAPrice(price) /\ amount = NoAmount
        \/ ~NotAPrice(price) /\ amount # NoAmount /\ amount.cents = price.minor /\ price.minor \in Int
           /\ amount.currency = price.currency
           /\ price.currency \in {"USD", "EUR", "JPY"}
    BY <1>1, AmountIsThePrice
  <1> HIDE DEF amount
  <1>4. CASE NotAPrice(price) /\ amount = NoAmount
    BY <1>1, <1>2, <1>4 DEF price, stated
  <1>5. CASE ~NotAPrice(price) /\ amount # NoAmount /\ amount.cents = price.minor /\ price.minor \in Int
             /\ amount.currency = price.currency
             /\ price.currency \in {"USD", "EUR", "JPY"}
    <2>1. stated.amount = FormatAmount(price.minor, price.currency)
      BY <1>1, <1>2, <1>5
    <2>2. stated.amount # NoAmount /\ Reading(stated.amount, price.currency) = price.minor
      BY <1>5, <2>1, ReadingIsWritten
    <2>3. stated.amount_cents = <<price.minor>>
      BY <1>1, <1>2, <1>5
    <2> QED
      BY <1>1, <1>2, <1>5, <2>2, <2>3 DEF price, stated
  <1> QED
    BY <1>3, <1>4, <1>5

-----------------------------------------------------------------------------
(* The manifest states the price each message named, to the minor unit and *)
(* in every way of writing it, as text and as a number, and no amount just *)
(* where it was a bare number that looks like a year or a word behind it   *)
(* says it is no price (extract_amount, _reject_number, _parse_number,     *)
(* format_amount, build_manifest).                                         *)
THEOREM AmountsAreAlwaysRead == Spec => []AmountsAreRead
  <1>1. ASSUME Typed, Amounts
        PROVE  AmountsAreRead
    <2> DEFINE entries == CollectEntries
               manifest == BuildManifest(entries)
    <2>1. manifest.items = [n \in DOMAIN Order |-> ManifestItem(entries, Order[n], n)]
      BY DEF BuildManifest
    <2> HIDE DEF entries, manifest
    <2>2. ASSUME NEW n \in DOMAIN Order
          PROVE  LET price == report[Order[n]].price
                     stated == manifest.items[n]
                 IN  IF Year(Number(price)) \/ price.after \in OtherUnits
                     THEN stated.amount = NoAmount /\ stated.amount_cents = <<>>
                     ELSE /\ stated.amount # NoAmount
                          /\ stated.currency = price.currency
                          /\ Reading(stated.amount, price.currency) = price.minor
                          /\ stated.amount_cents = <<price.minor>>
      <3>1. Order[n] \in DOMAIN report
        BY <1>1, OrderCounts
      <3>2. manifest.items[n] = ManifestItem(entries, Order[n], n)
        BY <2>1
      <3> QED
        BY <1>1, <3>1, <3>2, AmountIsStated DEF NotAPrice
    <2> QED
      BY <2>2 DEF AmountsAreRead, manifest, entries
  <1>2. Typed /\ Amounts => AmountsAreRead
    BY <1>1
  <1>3. Typed /\ Counted /\ Amounts /\ [Next]_vars => Typed' /\ Counted' /\ Amounts'
    BY StepCounts, StepReads
  <1>4. Init => Amounts
    BY DEF Init, Amounts
  <1> QED
    BY <1>2, <1>3, <1>4, InitCounts, PTL DEF Spec

-----------------------------------------------------------------------------
\* Two lists of the same, neither with a repetition, are as long.
Distinct(f, n) == DOMAIN f = 1 .. n /\ \A i, j \in 1 .. n : i # j => f[i] # f[j]
Within(f, m, g, n) == \A i \in 1 .. m : \E j \in 1 .. n : f[i] = g[j]

LEMMA AsLong ==
    ASSUME NEW m \in Nat, NEW n \in Nat, NEW f, NEW g, Distinct(f, m), Distinct(g, n),
           Within(f, m, g, n), Within(g, n, f, m)
    PROVE  m = n
  <1>1. {f[i] : i \in 1 .. m} = {g[j] : j \in 1 .. n}
    BY DEF Within
  <1>2. Cardinality({f[i] : i \in 1 .. m}) = m
    BY ApartCounts DEF Distinct
  <1>3. Cardinality({g[j] : j \in 1 .. n}) = n
    BY ApartCounts DEF Distinct
  <1> QED
    BY <1>1, <1>2, <1>3

(* The files of an item are those collected for it, each in one place.     *)
LEMMA ItemEntriesAll ==
    ASSUME NEW entries \in Seq(EntrySet), Apart(entries), NEW i
    PROVE  LET files == ItemEntries(entries, i) IN
           /\ files \in Seq(EntrySet)
           /\ \A k \in 1 .. Len(files) :
                  files[k].item = i /\ \E a \in 1 .. Len(entries) : files[k] = entries[a]
           /\ \A a \in 1 .. Len(entries) :
                  entries[a].item = i => \E k \in 1 .. Len(files) : files[k] = entries[a]
           /\ \A k, l \in 1 .. Len(files) : k # l => files[k].path # files[l].path
  <1> DEFINE S == {e \in ToSet(entries) : e.item = i}
             len == Len(entries)
  <1>1. PICK files : files = ItemEntries(entries, i)
    OBVIOUS
  <1>2. files \in Seq(EntrySet) /\ Selects(files, entries, len, S)
    BY <1>1, SelectFacts DEF ItemEntries
  <1>3. len \in Nat /\ DOMAIN entries = 1 .. len /\ \A a \in 1 .. len : entries[a] \in ToSet(entries)
    BY DEF ToSet
  <1>4. \A e \in S : e.item = i
    OBVIOUS
  <1>5. \A a \in 1 .. len : entries[a].item = i => entries[a] \in S
    BY <1>3
  <1> HIDE DEF S, len
  <1>6. ASSUME NEW k \in 1 .. Len(files)
        PROVE  files[k].item = i /\ \E a \in 1 .. len : files[k] = entries[a]
    BY <1>2, <1>4 DEF Selects
  <1>7. ASSUME NEW a \in 1 .. len, entries[a].item = i
        PROVE  \E k \in 1 .. Len(files) : files[k] = entries[a]
    BY <1>2, <1>5, <1>7 DEF Selects
  <1>8. ASSUME NEW k \in 1 .. Len(files), NEW l \in 1 .. Len(files), k < l
        PROVE  files[k].path # files[l].path
    <2>1. PICK a \in 1 .. len, b \in 1 .. len : a < b /\ files[k] = entries[a] /\ files[l] = entries[b]
      BY <1>2, <1>8 DEF Selects
    <2>2. a # b
      BY <2>1
    <2> QED
      BY <1>3, <2>1, <2>2 DEF Apart
  <1>9. ASSUME NEW k \in 1 .. Len(files), NEW l \in 1 .. Len(files), k # l
        PROVE  files[k].path # files[l].path
    <2>1. k < l \/ l < k
      BY <1>9
    <2> QED
      BY <1>8, <2>1
  <1> QED
    BY <1>1, <1>2, <1>6, <1>7, <1>9 DEF len


(* What the payload lists, item for item. *)
Lists(entries) ==
    [n \in DOMAIN Order |->
        LET item == ManifestItem(entries, Order[n], n) IN
        [k \in DOMAIN item.artifacts |->
            [file |-> item.artifacts[k], amount |-> item.amount, currency |-> item.currency]]]

Row(entries, n, k) ==
    [file |-> ItemEntries(entries, Order[n])[k].path,
     amount |-> ManifestItem(entries, Order[n], n).amount,
     currency |-> ManifestItem(entries, Order[n], n).currency]

LEMMA ListsFacts ==
    ASSUME NEW entries, NEW size \in Nat, DOMAIN Order = 1 .. size,
           \A n \in 1 .. size : ItemEntries(entries, Order[n]) \in Seq(EntrySet)
    PROVE  \E T : /\ Lists(entries) \in Seq(Seq(T)) /\ Len(Lists(entries)) = size
                  /\ \A n \in 1 .. size :
                         /\ Len(Lists(entries)[n]) = Len(ItemEntries(entries, Order[n]))
                         /\ \A k \in 1 .. Len(ItemEntries(entries, Order[n])) :
                                Lists(entries)[n][k] = Row(entries, n, k)
  <1> DEFINE files(n) == ItemEntries(entries, Order[n])
             T == {Row(entries, n, k) : n \in 1 .. size, k \in Nat}
             row(n) == [k \in 1 .. Len(files(n)) |-> Row(entries, n, k)]
  <1>1. Lists(entries) = [n \in 1 .. size |-> row(n)]
    <2>1. ASSUME NEW n \in 1 .. size
          PROVE  Lists(entries)[n] = row(n)
      <3> DEFINE item == ManifestItem(entries, Order[n], n)
      <3>1. DOMAIN files(n) = 1 .. Len(files(n))
        OBVIOUS
      <3>2. item.artifacts = [k \in 1 .. Len(files(n)) |-> files(n)[k].path]
        BY <3>1 DEF ManifestItem
      <3>3. Lists(entries)[n] = [k \in DOMAIN item.artifacts |->
                [file |-> item.artifacts[k], amount |-> item.amount, currency |-> item.currency]]
        BY DEF Lists
      <3> HIDE DEF item
      <3>4. Lists(entries)[n] = [k \in 1 .. Len(files(n)) |->
                [file |-> files(n)[k].path, amount |-> item.amount, currency |-> item.currency]]
        BY <3>2, <3>3
      <3> QED
        BY <3>4 DEF Row, item
    <2>2. Lists(entries) = [n \in 1 .. size |-> Lists(entries)[n]]
      BY DEF Lists
    <2> QED
      BY <2>1, <2>2
  <1>2. ASSUME NEW n \in 1 .. size
        PROVE  /\ row(n) \in Seq(T) /\ Len(row(n)) = Len(files(n))
               /\ \A k \in 1 .. Len(files(n)) : row(n)[k] = Row(entries, n, k)
    <2>1. Len(files(n)) \in Nat
      OBVIOUS
    <2>2. \A k \in 1 .. Len(files(n)) : Row(entries, n, k) \in T
      OBVIOUS
    <2> HIDE DEF T, files
    <2> QED
      BY <2>1, <2>2
  <1> HIDE DEF T, row
  <1>3. Lists(entries) \in Seq(Seq(T)) /\ Len(Lists(entries)) = size
    BY <1>1, <1>2
  <1>4. \A n \in 1 .. size : Lists(entries)[n] = row(n)
    BY <1>1
  <1> QED
    BY <1>2, <1>3, <1>4

(* The payload: each file of the entries in one row, with what is stated   *)
(* of its item.                                                            *)
LEMMA PayloadFacts ==
    ASSUME Typed, NEW entries \in Seq(EntrySet), Apart(entries)
    PROVE  LET apply == BuildApply(BuildManifest(entries)) IN
           /\ Len(apply) = Len(entries)
           /\ \A a \in 1 .. Len(entries) :
                  entries[a].item \in DOMAIN report /\
                  \E r \in ToSet(apply), index \in Nat :
                     /\ r.file = entries[a].path
                     /\ r.amount = ManifestItem(entries, entries[a].item, index).amount
                     /\ r.currency = ManifestItem(entries, entries[a].item, index).currency
  <1> DEFINE size == Cardinality(DOMAIN report)
             lists == Lists(entries)
             files(n) == ItemEntries(entries, Order[n])
             len == Len(entries)
  <1>1. PICK apply : apply = BuildApply(BuildManifest(entries))
    OBVIOUS
  <1>2. /\ size \in Nat /\ DOMAIN Order = 1 .. size
        /\ \A n \in 1 .. size : Order[n] \in DOMAIN report /\ Index(Order[n]) = n
        /\ \A i \in DOMAIN report : Index(i) \in 1 .. size /\ Order[Index(i)] = i
    BY ReportPlaces, OrderCounts
  <1> HIDE DEF size
  <1>3. apply = FlattenSeq(lists)
    <2>1. BuildManifest(entries).items = [n \in DOMAIN Order |-> ManifestItem(entries, Order[n], n)]
      BY DEF BuildManifest
    <2>2. DOMAIN BuildManifest(entries).items = DOMAIN Order
      BY <2>1
    <2>3. \A n \in DOMAIN Order : BuildManifest(entries).items[n] = ManifestItem(entries, Order[n], n)
      BY <2>1
    <2>4. BuildApply(BuildManifest(entries)) = FlattenSeq([n \in DOMAIN Order |->
              [k \in DOMAIN BuildManifest(entries).items[n].artifacts |->
                  [file |-> BuildManifest(entries).items[n].artifacts[k],
                   amount |-> BuildManifest(entries).items[n].amount,
                   currency |-> BuildManifest(entries).items[n].currency]]])
      BY <2>2, Zenon DEF BuildApply
    <2>5. lists = [n \in DOMAIN Order |->
              [k \in DOMAIN BuildManifest(entries).items[n].artifacts |->
                  [file |-> BuildManifest(entries).items[n].artifacts[k],
                   amount |-> BuildManifest(entries).items[n].amount,
                   currency |-> BuildManifest(entries).items[n].currency]]]
      BY <2>3, SMT DEF Lists
    <2> QED
      BY <1>1, <2>4, <2>5, Zenon
  <1>4. ASSUME NEW n \in 1 .. size
        PROVE  /\ files(n) \in Seq(EntrySet)
               /\ \A k \in 1 .. Len(files(n)) :
                      files(n)[k].item = Order[n] /\ \E a \in 1 .. len : files(n)[k] = entries[a]
               /\ \A a \in 1 .. len : entries[a].item = Order[n] =>
                      \E k \in 1 .. Len(files(n)) : files(n)[k] = entries[a]
               /\ \A k, l \in 1 .. Len(files(n)) : k # l => files(n)[k].path # files(n)[l].path
    BY ItemEntriesAll
  <1> HIDE DEF files
  <1>5. PICK T : /\ lists \in Seq(Seq(T)) /\ Len(lists) = size
                 /\ \A n \in 1 .. size :
                        /\ Len(lists[n]) = Len(files(n))
                        /\ \A k \in 1 .. Len(files(n)) : lists[n][k] = Row(entries, n, k)
    BY <1>2, <1>4, ListsFacts DEF files
  <1> HIDE DEF lists
  <1>6. Flattens(apply, lists, size) /\ apply \in Seq(T)
    BY <1>3, <1>5, FlattenFacts, FlattenType
  <1>7. ASSUME NEW n \in 1 .. size, NEW k \in 1 .. Len(lists[n])
        PROVE  /\ k \in 1 .. Len(files(n)) /\ lists[n][k].file = files(n)[k].path
               /\ lists[n][k].amount = ManifestItem(entries, Order[n], n).amount
               /\ lists[n][k].currency = ManifestItem(entries, Order[n], n).currency
    <2>1. k \in 1 .. Len(files(n)) /\ lists[n][k] = Row(entries, n, k)
      BY <1>5
    <2> QED
      BY <2>1 DEF Row, files
  <1>8. \A a \in 1 .. len : entries[a] \in EntrySet
    OBVIOUS
  <1>9. \A e \in EntrySet : e.item \in DOMAIN report /\ e.path[1] = Index(e.item)
    BY DEF EntrySet
  <1>10. ASSUME NEW a \in 1 .. len
         PROVE  \E n \in 1 .. size : \E i \in 1 .. Len(apply) :
                    /\ Order[n] = entries[a].item /\ apply[i].file = entries[a].path
                    /\ apply[i].amount = ManifestItem(entries, Order[n], n).amount
                    /\ apply[i].currency = ManifestItem(entries, Order[n], n).currency
    <2>1. PICK n \in 1 .. size : Order[n] = entries[a].item
      BY <1>2, <1>8, <1>9
    <2>2. PICK k \in 1 .. Len(files(n)) : files(n)[k] = entries[a]
      BY <1>4, <2>1
    <2>3. k \in 1 .. Len(lists[n])
      BY <1>5
    <2>4. PICK i \in 1 .. Len(apply) : apply[i] = lists[n][k]
      BY <1>6, <2>3 DEF Flattens
    <2> QED
      BY <1>7, <2>1, <2>2, <2>3, <2>4
  <1>11. ASSUME NEW i \in 1 .. Len(apply)
         PROVE  \E a \in 1 .. len : apply[i].file = entries[a].path
    <2>1. PICK n \in 1 .. size : \E k \in 1 .. Len(lists[n]) : apply[i] = lists[n][k]
      BY <1>6 DEF Flattens
    <2>2. PICK k \in 1 .. Len(lists[n]) : apply[i] = lists[n][k]
      BY <2>1
    <2>3. k \in 1 .. Len(files(n)) /\ apply[i].file = files(n)[k].path
      BY <1>7, <2>2
    <2> QED
      BY <1>4, <2>3
  <1>12. ASSUME NEW i \in 1 .. Len(apply), NEW j \in 1 .. Len(apply), i # j
         PROVE  apply[i].file # apply[j].file
    <2>1. TwoPlaces(lists, size, apply[i], apply[j])
      BY <1>6, <1>12 DEF Flattens
    <2>2. PICK n \in 1 .. size, o \in 1 .. size :
              \E k \in 1 .. Len(lists[n]), l \in 1 .. Len(lists[o]) :
                  (n # o \/ k # l) /\ apply[i] = lists[n][k] /\ apply[j] = lists[o][l]
      BY <2>1 DEF TwoPlaces
    <2>3. PICK k \in 1 .. Len(lists[n]), l \in 1 .. Len(lists[o]) :
              (n # o \/ k # l) /\ apply[i] = lists[n][k] /\ apply[j] = lists[o][l]
      BY <2>2
    <2>4. /\ k \in 1 .. Len(files(n)) /\ apply[i].file = files(n)[k].path
          /\ l \in 1 .. Len(files(o)) /\ apply[j].file = files(o)[l].path
      BY <1>7, <2>3
    <2>5. CASE n = o
      BY <1>4, <2>3, <2>4, <2>5
    <2>6. CASE n # o
      <3>1. files(n)[k] \in EntrySet /\ files(o)[l] \in EntrySet
        BY <1>4, <2>4
      <3>2. files(n)[k].item = Order[n] /\ files(o)[l].item = Order[o]
        BY <1>4, <2>4
      <3>3. files(n)[k].path[1] = n /\ files(o)[l].path[1] = o
        BY <1>2, <1>9, <3>1, <3>2
      <3> QED
        BY <2>4, <2>6, <3>3
    <2> QED
      BY <2>5, <2>6
  <1>13. \A a, b \in 1 .. len : a # b => entries[a].path # entries[b].path
    BY DEF Apart
  <1>14. Len(apply) \in Nat /\ len \in Nat /\ \A i \in 1 .. Len(apply) : apply[i] \in ToSet(apply)
    BY <1>6 DEF ToSet
  <1> HIDE DEF len
  <1>15. Len(apply) = len
    <2> DEFINE f == [i \in 1 .. Len(apply) |-> apply[i].file]
               g == [a \in 1 .. len |-> entries[a].path]
    <2>1. /\ DOMAIN f = 1 .. Len(apply) /\ DOMAIN g = 1 .. len
          /\ \A i \in 1 .. Len(apply) : f[i] = apply[i].file
          /\ \A a \in 1 .. len : g[a] = entries[a].path
      OBVIOUS
    <2> HIDE DEF f, g
    <2>2. Distinct(f, Len(apply))
      BY <1>12, <2>1 DEF Distinct
    <2>3. Distinct(g, len)
      BY <1>13, <2>1 DEF Distinct
    <2>4. Within(f, Len(apply), g, len)
      BY <1>11, <2>1 DEF Within
    <2>5. Within(g, len, f, Len(apply))
      BY <1>10, <2>1 DEF Within
    <2> QED
      BY <1>14, <2>2, <2>3, <2>4, <2>5, AsLong
  <1>16. ASSUME NEW a \in 1 .. len
         PROVE  entries[a].item \in DOMAIN report /\
                \E r \in ToSet(apply), index \in Nat :
                     /\ r.file = entries[a].path
                     /\ r.amount = ManifestItem(entries, entries[a].item, index).amount
                     /\ r.currency = ManifestItem(entries, entries[a].item, index).currency
    <2>1. PICK n \in 1 .. size : \E i \in 1 .. Len(apply) :
                    /\ Order[n] = entries[a].item /\ apply[i].file = entries[a].path
                    /\ apply[i].amount = ManifestItem(entries, Order[n], n).amount
                    /\ apply[i].currency = ManifestItem(entries, Order[n], n).currency
      BY <1>10
    <2>2. n \in Nat
      BY <1>2
    <2> QED
      BY <1>8, <1>9, <1>14, <2>1, <2>2
  <1> QED
    BY <1>1, <1>15, <1>16 DEF len

(* The payload for ccworks has each file of the archive in one row and no  *)
(* other, and with the amount of its item, however many items and files    *)
(* there are (build_apply_json).                                           *)
THEOREM EveryFileAlwaysHasAPlace == Spec => []EveryFileHasAPlace
  <1>1. ASSUME Typed, Amounts
        PROVE  EveryFileHasAPlace
    <2>1. PICK entries : entries = CollectEntries
      OBVIOUS
    <2>2. PICK apply : apply = BuildApply(BuildManifest(entries))
      OBVIOUS
    <2>3. entries \in Seq(EntrySet) /\ Apart(entries)
      BY <1>1, <2>1, ArtifactsType, CollectEntriesType
    <2>4. /\ Len(apply) = Len(entries)
          /\ \A a \in 1 .. Len(entries) :
                 entries[a].item \in DOMAIN report /\
                 \E r \in ToSet(apply), index \in Nat :
                    /\ r.file = entries[a].path
                    /\ r.amount = ManifestItem(entries, entries[a].item, index).amount
                    /\ r.currency = ManifestItem(entries, entries[a].item, index).currency
      BY <1>1, <2>2, <2>3, PayloadFacts
    <2>5. ASSUME NEW e \in ToSet(entries)
          PROVE  \E r \in ToSet(apply) :
                     /\ r.file = e.path
                     /\ r.currency = Amount(e.item).currency
                     /\ r.amount # NoAmount =>
                            Reading(r.amount, r.currency) = Amount(e.item).cents
      <3>1. PICK a \in 1 .. Len(entries) : e = entries[a]
        BY <2>3 DEF ToSet
      <3>2. e.item \in DOMAIN report
        BY <2>4, <3>1
      <3>3. PICK r \in ToSet(apply), index \in Nat :
                    /\ r.file = e.path
                    /\ r.amount = ManifestItem(entries, e.item, index).amount
                    /\ r.currency = ManifestItem(entries, e.item, index).currency
        BY <2>4, <3>1
      <3>4. /\ r.currency = Amount(e.item).currency
            /\ r.amount # NoAmount => Reading(r.amount, r.currency) = Amount(e.item).cents
        BY <1>1, <3>2, <3>3, AmountIsStated
      <3> QED
        BY <3>3, <3>4
    <2> QED
      BY <2>1, <2>2, <2>4, <2>5, Zenon DEF EveryFileHasAPlace
  <1>2. Typed /\ Amounts => EveryFileHasAPlace
    BY <1>1
  <1>3. Typed /\ Counted /\ Amounts /\ [Next]_vars => Typed' /\ Counted' /\ Amounts'
    BY StepCounts, StepReads
  <1>4. Init => Amounts
    BY DEF Init, Amounts
  <1> QED
    BY <1>2, <1>3, <1>4, InitCounts, PTL DEF Spec

-----------------------------------------------------------------------------
\* The total adds the amounts in the order of the report, the reader of the
\* manifest in any: both are values of the one function of sets that adds.
LEMMA TotalAdds ==
    ASSUME NEW size \in Nat, DOMAIN Order = 1 .. size, NEW v \in [1 .. size -> Int],
           \A n \in 1 .. size : v[n] = IF Order[n] \in Priced THEN Amount(Order[n]).cents ELSE 0,
           NEW g, Sums(g, v, size)
    PROVE  TotalCents = g[1 .. size]
  <1> DEFINE next(x, n) == x + (IF Order[n] \in Priced THEN Amount(Order[n]).cents ELSE 0)
             Folds(f) == f = [s \in SUBSET (1 .. size) |->
                                 IF s = {} THEN 0 ELSE next(f[s \ {Max(s)}], Max(s))]
             fold == CHOOSE f : Folds(f)
  <1>1. TotalCents = fold[1 .. size]
    BY DEF TotalCents, FoldLeft, MapThenFoldSet
  <1>2. \A n \in 1 .. size : \A x : next(x, n) = x + v[n]
    OBVIOUS
  <1> HIDE DEF next
  <1>3. \A s \in SUBSET (1 .. size) : s # {} => Max(s) \in s
    BY LargestPlace
  <1>4. SumsAnyway(g, v, size) /\ g = [s \in SUBSET (1 .. size) |-> g[s]] /\ g[{}] = 0
    BY AnyElement DEF Sums
  <1>5. \E f : Folds(f)
    <2>1. ASSUME NEW s \in SUBSET (1 .. size), s # {}
          PROVE  g[s] = next(g[s \ {Max(s)}], Max(s))
      <3>1. PICK x \in s : x = Max(s)
        BY <1>3, <2>1
      <3>2. g[s] = v[x] + g[s \ {x}]
        BY <1>4 DEF SumsAnyway
      <3>3. v[x] \in Int /\ g[s \ {x}] \in Int
        BY DEF Sums
      <3> QED
        BY <1>2, <3>1, <3>2, <3>3
    <2>2. \A s \in SUBSET (1 .. size) :
              g[s] = IF s = {} THEN 0 ELSE next(g[s \ {Max(s)}], Max(s))
      BY <1>4, <2>1
    <2>3. Folds(g)
      BY <1>4, <2>2
    <2> QED
      BY <2>3
  <1>6. Folds(fold)
    BY <1>5
  <1> HIDE DEF fold
  <1>7. Adds(fold, v, 1 .. size)
    <2>1. fold[{}] = 0
      BY <1>6
    <2>2. ASSUME NEW s \in SUBSET (1 .. size), s # {}
          PROVE  \E x \in s : fold[s] = fold[s \ {x}] + v[x]
      <3>1. PICK x \in s : x = Max(s)
        BY <1>3, <2>2
      <3>2. fold[s] = next(fold[s \ {x}], x)
        BY <1>6, <2>2, <3>1
      <3> QED
        BY <1>2, <3>2
    <2> QED
      BY <2>1, <2>2 DEF Adds
  <1>8. PICK U \in SUBSET (1 .. size) : U = 1 .. size
    OBVIOUS
  <1>9. Adds(fold, v, U)
    BY <1>7, <1>8, Zenon
  <1>10. fold[U] = g[U]
    BY <1>9, SumsAgree
  <1> QED
    BY <1>1, <1>8, <1>10, Zenon

ListSum(items, U) ==
    FoldSet(LAMBDA n, s : s + Reading(items[n].amount, items[n].currency), 0, U)

Weighs(v, items, U) == \A n \in U : v[n] = Reading(items[n].amount, items[n].currency)

LEMMA ListAdds ==
    ASSUME NEW size \in Nat, NEW v \in [1 .. size -> Int], NEW items,
           NEW U \in SUBSET (1 .. size),
           Weighs(v, items, U),
           NEW g, Sums(g, v, size)
    PROVE  ListSum(items, U) = g[U]
  <1> DEFINE any(s) == CHOOSE x \in s : TRUE
             next(x, n) == x + Reading(items[n].amount, items[n].currency)
             Folds(f) == f = [s \in SUBSET U |->
                                 IF s = {} THEN 0 ELSE next(f[s \ {any(s)}], any(s))]
             fold == CHOOSE f : Folds(f)
  <1>1. ListSum(items, U) = fold[U]
    BY DEF ListSum, FoldSet, MapThenFoldSet
  <1>2. \A n \in U : \A x : next(x, n) = x + v[n]
    BY DEF Weighs
  <1>3. \A s \in SUBSET U : s # {} => any(s) \in s
    OBVIOUS
  <1> HIDE DEF next, any
  <1>4. SumsAnyway(g, v, size) /\ g[{}] = 0
    BY AnyElement DEF Sums
  <1>5. \E f : Folds(f)
    <2> DEFINE f == [s \in SUBSET U |-> g[s]]
    <2>0. f = [s \in SUBSET U |-> f[s]] /\ \A s \in SUBSET U : f[s] = g[s]
      OBVIOUS
    <2> HIDE DEF f
    <2>1. ASSUME NEW s \in SUBSET U, s # {}
          PROVE  f[s] = next(f[s \ {any(s)}], any(s))
      <3>1. PICK x \in s : x = any(s)
        BY <1>3, <2>1
      <3>2. s \in SUBSET (1 .. size) /\ s \ {x} \in SUBSET U /\ s \ {x} \in SUBSET (1 .. size)
            /\ x \in U /\ x \in 1 .. size
        OBVIOUS
      <3>3. g[s] = v[x] + g[s \ {x}]
        BY <1>4, <3>2 DEF SumsAnyway
      <3>4. v[x] \in Int /\ g[s \ {x}] \in Int
        BY <3>2 DEF Sums
      <3>5. f[s] = g[s] /\ f[s \ {x}] = g[s \ {x}]
        BY <2>0, <3>2
      <3>6. f[s] = f[s \ {x}] + v[x]
        BY <3>3, <3>4, <3>5
      <3> QED
        BY <1>2, <3>1, <3>2, <3>6
    <2>2. f[{}] = 0
      BY <1>4, <2>0
    <2> QED
      BY <2>0, <2>1, <2>2
  <1>6. Folds(fold)
    BY <1>5
  <1> HIDE DEF fold
  <1>7. Adds(fold, v, U)
    <2>1. fold[{}] = 0
      BY <1>6
    <2>2. ASSUME NEW s \in SUBSET U, s # {}
          PROVE  \E x \in s : fold[s] = fold[s \ {x}] + v[x]
      <3>1. PICK x \in s : x = any(s)
        BY <1>3, <2>2
      <3>2. fold[s] = next(fold[s \ {x}], x)
        BY <1>6, <2>2, <3>1
      <3> QED
        BY <1>2, <3>2
    <2> QED
      BY <2>1, <2>2 DEF Adds
  <1>8. fold[U] = g[U]
    BY <1>7, SumsAgree
  <1> QED
    BY <1>1, <1>8

(* When all amounts are in one currency the total, as text and in minor    *)
(* units, is what the stated amounts add up to, in whatever order they are *)
(* added; when they are not, no text states one (build_manifest).  Of the  *)
(* number of minor units, which is stated all the same, nothing is said.   *)
THEOREM TotalIsAlwaysTheSum == Spec => []TotalIsTheSum
  <1>1. ASSUME Typed, Amounts
        PROVE  TotalIsTheSum
    <2> DEFINE size == Cardinality(DOMAIN report)
               entries == CollectEntries
               manifest == BuildManifest(entries)
               items == manifest.items
               total == manifest.totals
               stated == {n \in DOMAIN items : items[n].amount # NoAmount}
               sum == FoldSet(LAMBDA n, s : s + Reading(items[n].amount, items[n].currency),
                              0, stated)
               currencies == {items[n].currency : n \in stated}
               cents(n) == IF Order[n] \in Priced THEN Amount(Order[n]).cents ELSE 0
               v == [n \in 1 .. size |-> cents(n)]
               currency == SingleCurrency(Currencies)
    <2>1. /\ items = [n \in DOMAIN Order |-> ManifestItem(entries, Order[n], n)]
          /\ total = [currency |-> currency,
                      currencies |-> Currencies,
                      amount_cents |-> <<TotalCents>>,
                      amount |-> IF currency # "none"
                                 THEN FormatAmount(TotalCents, currency) ELSE NoAmount]
      BY DEF BuildManifest
    <2> HIDE DEF entries, manifest
    <2>2. /\ size \in Nat /\ DOMAIN Order = 1 .. size
          /\ \A n \in 1 .. size : Order[n] \in DOMAIN report
          /\ \A i \in DOMAIN report : \E n \in 1 .. size : Order[n] = i
      BY <1>1, ReportPlaces, OrderCounts
    <2>3. /\ DOMAIN items = 1 .. size
          /\ \A n \in 1 .. size : items[n] = ManifestItem(entries, Order[n], n)
      BY <2>1, <2>2
    <2> HIDE DEF size, items, total
    <2>4. ASSUME NEW n \in 1 .. size
          PROVE  /\ items[n].currency = Amount(Order[n]).currency
                 /\ Order[n] \in Priced <=> items[n].amount # NoAmount
                 /\ cents(n) \in Int
                 /\ items[n].amount # NoAmount =>
                        /\ cents(n) = Reading(items[n].amount, items[n].currency)
                        /\ items[n].currency \in {"USD", "EUR", "JPY"}
      <3>1. PICK i \in DOMAIN report : i = Order[n]
        BY <2>2
      <3>2. items[n] = ManifestItem(entries, i, n)
        BY <2>3, <3>1
      <3>3. PICK price : price = report[i].price
        OBVIOUS
      <3>4. /\ items[n].currency = Amount(i).currency
            /\ \/ /\ Amount(i) = NoAmount /\ items[n].amount = NoAmount
               \/ /\ Amount(i) # NoAmount /\ price.minor \in Int
                  /\ price.currency \in {"USD", "EUR", "JPY"}
                  /\ items[n].amount # NoAmount /\ items[n].currency = price.currency
                  /\ Reading(items[n].amount, items[n].currency) = price.minor
                  /\ Amount(i).cents = price.minor
        BY <1>1, <3>2, <3>3, AmountIsStated
      <3>5. i \in Priced <=> Amount(i) # NoAmount
        BY DEF Priced
      <3> QED
        BY <3>1, <3>4, <3>5
    <2>5. v \in [1 .. size -> Int]
      BY <2>4
    <2>5a. \A n \in 1 .. size : v[n] = cents(n)
      OBVIOUS
    <2> HIDE DEF v
    <2>6. PICK g : Sums(g, v, size)
      BY <2>2, <2>5, SumsExist
    <2>7. TotalCents = g[1 .. size]
      BY <2>2, <2>5, <2>5a, <2>6, TotalAdds
    <2>8. stated \in SUBSET (1 .. size)
      BY <2>3
    <2>9. sum = g[stated]
      <3>1. Weighs(v, items, stated)
        BY <2>3, <2>4, <2>5a DEF Weighs
      <3>2. sum = ListSum(items, stated)
        BY DEF ListSum
      <3> HIDE DEF stated, sum
      <3>3. ListSum(items, stated) = g[stated]
        BY <2>2, <2>5, <2>6, <2>8, <3>1, ListAdds
      <3> QED
        BY <3>2, <3>3
    <2>10. g[1 .. size] = g[stated]
      <3>1. Silent(v, size, stated)
        BY <2>3, <2>4, <2>5a DEF Silent
      <3> HIDE DEF stated
      <3> QED
        BY <2>2, <2>5, <2>6, <2>8, <3>1, NothingAdded
    <2>11. currencies = Currencies
      <3>1. ASSUME NEW c \in currencies
            PROVE  c \in Currencies
        <4>1. PICK n \in stated : c = items[n].currency
          OBVIOUS
        <4> QED
          BY <2>3, <2>4, <4>1 DEF Currencies
      <3>2. ASSUME NEW c \in Currencies
            PROVE  c \in currencies
        <4>1. PICK i \in Priced : c = Amount(i).currency
          BY DEF Currencies
        <4>2. PICK n \in 1 .. size : Order[n] = i
          BY <2>2 DEF Priced
        <4> QED
          BY <2>3, <2>4, <4>1, <4>2
      <3> QED
        BY <3>1, <3>2
    <2>12. \A c \in currencies : c \in {"USD", "EUR", "JPY"}
      BY <2>3, <2>4
    <2>13. g[1 .. size] \in Int
      <3>1. 1 .. size \in SUBSET (1 .. size)
        OBVIOUS
      <3> QED
        BY <2>6, <3>1 DEF Sums
    <2> HIDE DEF stated, sum, currencies, currency
    <2>13a. total.currencies = currencies
      BY <2>1, <2>11
    <2>14. CASE Cardinality(currencies) = 1
      <3>1. currency = CHOOSE c \in currencies : TRUE
        BY <2>11, <2>14 DEF SingleCurrency, currency
      <3>2. currencies # {}
        BY <2>14, FS_EmptySet
      <3>3. currency \in currencies
        BY <3>1, <3>2
      <3>4. currency # "none"
        BY <2>12, <3>3
      <3>5. total.currency = currency /\ total.amount = FormatAmount(TotalCents, currency)
        BY <2>1, <3>4
      <3>6. TotalCents \in Int
        BY <2>7, <2>13
      <3>7. Reading(total.amount, total.currency) = TotalCents
        BY <3>5, <3>6, ReadingIsWritten
      <3>8. total.currency \in currencies /\ Reading(total.amount, total.currency) = sum
        BY <2>7, <2>9, <2>10, <3>3, <3>5, <3>7
      <3>9. total.amount_cents = <<sum>>
        <4>1. total.amount_cents = <<TotalCents>>
          BY <2>1
        <4>2. TotalCents = sum
          BY <2>7, <2>9, <2>10
        <4> QED
          BY <4>1, <4>2, Zenon
      <3> QED
        BY <2>14, <2>13a, <3>8, <3>9
           DEF TotalIsTheSum, sum, stated, items, total, currencies, manifest, entries
    <2>15. CASE Cardinality(currencies) # 1
      <3>1. currency = "none"
        BY <2>11, <2>15 DEF SingleCurrency, currency
      <3>2. total.amount = NoAmount
        BY <2>1, <3>1
      <3> QED
        BY <2>15, <2>13a, <3>2
           DEF TotalIsTheSum, sum, stated, items, total, currencies, manifest, entries
    <2> QED
      BY <2>14, <2>15
  <1>2. Typed /\ Amounts => TotalIsTheSum
    BY <1>1
  <1>3. Typed /\ Counted /\ Amounts /\ [Next]_vars => Typed' /\ Counted' /\ Amounts'
    BY StepCounts, StepReads
  <1>4. Init => Amounts
    BY DEF Init, Amounts
  <1> QED
    BY <1>2, <1>3, <1>4, InitCounts, PTL DEF Spec
=============================================================================
