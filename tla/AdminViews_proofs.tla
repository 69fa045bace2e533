------------------------- MODULE AdminViews_proofs --------------------------
(****************************************************************************)
(* What the administrator sees, for any number of tiles, slots, rows and   *)
(* page sizes: the wall (WatchWall) shows each stream once, keeps its pins *)
(* and uses its slots; the tables (AdminTables) show every row on one      *)
(* page.                                                                   *)
(****************************************************************************)
EXTENDS WatchWall, AdminTables, FiniteSetTheorems, FunctionTheorems,
        SequenceTheorems, TLAPS

-----------------------------------------------------------------------------
(* WatchWall: distributing the tiles depends only on the order and the     *)
(* pins. So it is shown once what it gives for any that agree with each    *)
(* other, and of each action that it leaves them in agreement.             *)

\* The number of members below one is its rank, and ranks grow with the members.
LEMMA BeforeIsRank ==
  ASSUME NEW S \in SUBSET Nat, IsFiniteSet(S), NEW x \in S
  PROVE  /\ Before(x, S) \in 0 .. Cardinality(S) - 1
         /\ \A y \in S : x < y => Before(x, S) < Before(y, S)
<1> DEFINE below(z) == {w \in S : w < z}
<1>1. ASSUME NEW z \in S PROVE IsFiniteSet(below(z)) /\ Cardinality(below(z)) \in Nat
  <2>1. below(z) \in SUBSET S
    OBVIOUS
  <2> QED
    BY <2>1, FS_Subset, FS_CardinalityType
<1>2. ASSUME NEW T \in SUBSET S, x \in T, below(x) \subseteq T
      PROVE  Cardinality(below(x)) < Cardinality(T)
  <2>1. IsFiniteSet(T) /\ Cardinality(T) \in Nat
    BY FS_Subset, FS_CardinalityType
  <2>2. IsFiniteSet(T \ {x}) /\ Cardinality(T \ {x}) = Cardinality(T) - 1
    BY <1>2, <2>1, FS_RemoveElement
  <2>3. below(x) \in SUBSET (T \ {x})
    BY <1>2
  <2>4. Cardinality(below(x)) <= Cardinality(T \ {x})
    BY <2>2, <2>3, FS_Subset
  <2> QED
    BY <1>1, <2>1, <2>2, <2>4
<1>3. Before(x, S) \in 0 .. Cardinality(S) - 1
  <2>1. Cardinality(below(x)) < Cardinality(S)
    BY <1>2
  <2>2. Cardinality(S) \in Nat
    BY FS_CardinalityType
  <2> QED
    BY <1>1, <2>1, <2>2 DEF Before
<1>4. ASSUME NEW y \in S, x < y PROVE Before(x, S) < Before(y, S)
  <2>1. x \in Nat /\ y \in Nat /\ \A w \in S : w \in Nat
    OBVIOUS
  <2>2. \A w \in S : w < x => w < y
    BY <1>4, <2>1
  <2>3. x \in below(y) /\ below(x) \subseteq below(y) /\ below(y) \in SUBSET S
    BY <1>4, <2>2
  <2> QED
    BY <1>2, <2>3 DEF Before
<1> QED
  BY <1>3, <1>4

\* Every rank below the cardinality is some member's, namely Nth's: ranks are an
\* injection of the set into as many numbers.
LEMMA EveryRankIsTaken ==
  ASSUME NEW S \in SUBSET Nat, IsFiniteSet(S), NEW n \in 0 .. Cardinality(S) - 1
  PROVE  Nth(S, n) \in S /\ Before(Nth(S, n), S) = n
<1> DEFINE T == 0 .. Cardinality(S) - 1
           f == [x \in S |-> Before(x, S)]
<1>1. Cardinality(S) \in Nat
  BY FS_CardinalityType
<1>2. IsFiniteSet(T) /\ Cardinality(T) = Cardinality(S)
  BY <1>1, FS_Interval
<1>3. f \in [S -> T]
  BY BeforeIsRank
<1>4. ASSUME NEW x \in S, NEW y \in S, f[x] = f[y] PROVE x = y
  <2>1. /\ x \in Nat /\ y \in Nat
        /\ Before(x, S) \in Nat /\ Before(x, S) = Before(y, S)
    BY <1>1, <1>4, BeforeIsRank
  <2>2. ~(x < y) /\ ~(y < x)
    BY <2>1, BeforeIsRank
  <2> QED
    BY <2>1, <2>2
<1>5. f \in Injection(S, T)
  BY <1>3, <1>4, Fun_IsInj
<1>6. f \in Surjection(S, T)
  BY <1>2, <1>5, FS_Injection
<1>7. \A m \in T : \E x \in S : f[x] = m
  <2> HIDE DEF f, T
  <2> QED
    BY <1>6, Fun_SurjectionProperties
<1>8. \E x \in S : Before(x, S) = n
  BY <1>7
<1> QED
  BY <1>8 DEF Nth

\* Picking positions from a sequence keeps exactly the tiles at these positions,
\* each once.
LEMMA PickedTiles ==
  ASSUME NEW ord \in Seq(Tiles), NEW S \in SUBSET DOMAIN ord
  PROVE  /\ Picked(ord, S) \in Seq(Tiles)
         /\ Len(Picked(ord, S)) = Cardinality(S)
         /\ IsFiniteSet(S) /\ Cardinality(S) \in Nat /\ Cardinality(S) <= Len(ord)
         /\ \A x \in S : \E n \in 1 .. Cardinality(S) : Picked(ord, S)[n] = ord[x]
         /\ \A n \in 1 .. Cardinality(S) : Picked(ord, S)[n] \in {ord[x] : x \in S}
         /\ (\A x, y \in DOMAIN ord : ord[x] = ord[y] => x = y) =>
                \A m, n \in 1 .. Cardinality(S) : Picked(ord, S)[m] = Picked(ord, S)[n] => m = n
<1> DEFINE P == Picked(ord, S)
           c == Cardinality(S)
<1>1. DOMAIN ord = 1 .. Len(ord) /\ Len(ord) \in Nat
  BY LenProperties
<1>2. S \in SUBSET Nat
  BY <1>1
<1>3. IsFiniteSet(S) /\ c \in Nat /\ c <= Len(ord)
  <2>1. IsFiniteSet(1 .. Len(ord)) /\ Cardinality(1 .. Len(ord)) = Len(ord)
    <3> DEFINE k == Len(ord)
    <3>1. k \in Int /\ 1 \in Int /\ k >= 0
      BY <1>1
    <3> HIDE DEF k
    <3>2. IsFiniteSet(1 .. k) /\ Cardinality(1 .. k) = IF 1 > k THEN 0 ELSE k - 1 + 1
      BY <3>1, FS_Interval
    <3>3. Cardinality(1 .. k) = k
      BY <3>1, <3>2
    <3> QED
      BY <3>2, <3>3 DEF k
  <2> QED
    BY <1>1, <2>1, FS_Subset, FS_CardinalityType
<1>4. ASSUME NEW n \in 1 .. c
      PROVE  /\ Nth(S, n - 1) \in S /\ Before(Nth(S, n - 1), S) = n - 1
             /\ P[n] = ord[Nth(S, n - 1)] /\ P[n] \in Tiles
  <2>1. n - 1 \in 0 .. c - 1
    BY <1>3
  <2>2. Nth(S, n - 1) \in S /\ Before(Nth(S, n - 1), S) = n - 1
    BY <1>2, <1>3, <2>1, EveryRankIsTaken
  <2>3. ord[Nth(S, n - 1)] \in Tiles
    BY <1>1, <2>2, ElementOfSeq
  <2> QED
    BY <2>2, <2>3 DEF Picked
<1>5. P \in Seq(Tiles) /\ Len(P) = c
  <2>1. P \in [1 .. c -> Tiles]
    BY <1>4 DEF Picked
  <2> QED
    BY <1>3, <2>1, SeqDef
<1>6. ASSUME NEW x \in S PROVE \E n \in 1 .. c : P[n] = ord[x]
  <2> DEFINE n == Before(x, S) + 1
  <2>1. n \in 1 .. c /\ n - 1 = Before(x, S)
    BY <1>2, <1>3, BeforeIsRank
  <2>2. Nth(S, n - 1) \in S /\ Before(Nth(S, n - 1), S) = Before(x, S)
    BY <1>4, <2>1
  <2>3. Nth(S, n - 1) = x
    <3>1. ~(Nth(S, n - 1) < x) /\ ~(x < Nth(S, n - 1))
      BY <1>2, <1>3, <2>1, <2>2, BeforeIsRank
    <3> QED
      BY <1>2, <2>2, <3>1
  <2> QED
    BY <1>4, <2>1, <2>3
<1>7. ASSUME \A x, y \in DOMAIN ord : ord[x] = ord[y] => x = y,
             NEW m \in 1 .. c, NEW n \in 1 .. c, P[m] = P[n]
      PROVE  m = n
  <2>1. Nth(S, m - 1) = Nth(S, n - 1)
    BY <1>4, <1>7
  <2>2. m - 1 = n - 1
    BY <1>4, <2>1
  <2> QED
    BY <1>3, <2>2
<1> QED
  BY <1>3, <1>4, <1>5, <1>6, <1>7
\* No multiple of m but zero lies strictly between -m and m.
LEMMA Mul == ASSUME NEW m \in Nat \ {0}, NEW c \in Int, m * c < m, m * c > -m PROVE c = 0
OBVIOUS
\* Two numbers that are less than m apart and leave the same remainder are equal.
LEMMA SameRemainder ==
  ASSUME NEW m \in Nat \ {0}, NEW x \in Nat, NEW y \in Nat, x % m = y % m,
         x - y < m, y - x < m
  PROVE  x = y
<1> DEFINE qx == x \div m
           qy == y \div m
<1>2. x = m * qx + (x % m) /\ qx \in Nat /\ x % m \in Nat
  OBVIOUS
<1>3. y = m * qy + (y % m) /\ qy \in Nat
  OBVIOUS
<1> HIDE DEF qx, qy
<1>4. x - y = m * (qx - qy)
  BY <1>2, <1>3
<1>5. qx - qy = 0
  BY <1>2, <1>3, <1>4, Mul
<1> QED
  BY <1>2, <1>3, <1>5
\* Turning the carousel by any number of places keeps different places different.
LEMMA RotationKeepsApart ==
  ASSUME NEW m \in Nat \ {0}, NEW s \in Nat, NEW a \in 0 .. m - 1, NEW b \in 0 .. m - 1,
         (s + a) % m = (s + b) % m
  PROVE  a = b
<1>1. s + a \in Nat /\ s + b \in Nat /\ (s + a) - (s + b) < m /\ (s + b) - (s + a) < m
  OBVIOUS
<1>2. s + a = s + b
  BY <1>1, SameRemainder
<1> QED
  BY <1>2

\* No tile is twice in the order (watchOrder).
Distinct(ord) == \A m, n \in DOMAIN ord : ord[m] = ord[n] => m = n

\* An order without repetitions and pins that agree with each other: slots are
\* pinned to tiles that are there, and each tile knows the slot it is pinned to.
WellPinned(ord, l, pins, pat) ==
    /\ l \in Layouts
    /\ ord \in Seq(Tiles)
    /\ Distinct(ord)
    /\ pins \in [SlotsOf(l) -> Range(ord) \cup {Nobody}]
    /\ pat \in [Tiles -> Nat]
    /\ \A i \in SlotsOf(l) : pins[i] # Nobody => pat[pins[i]] = i
    /\ \A k \in Tiles : pat[k] # 0 => pat[k] \in SlotsOf(l) /\ pins[pat[k]] = k

\* The range and the domain of an order.
LEMMA RangeOfTiles ==
  ASSUME NEW ord \in Seq(Tiles)
  PROVE  /\ Range(ord) = {ord[n] : n \in DOMAIN ord} /\ Range(ord) \subseteq Tiles
         /\ DOMAIN ord = 1 .. Len(ord) /\ Len(ord) \in Nat
  <1>1. DOMAIN ord = 1 .. Len(ord) /\ Len(ord) \in Nat
    BY LenProperties
  <1> QED
    BY <1>1, ElementOfSeq DEF Range

\* Pins take as many tiles out of the turn as slots: tiles that are not pinned and
\* slots of the layout balance free slots and tiles.
LEMMA LooseAndFree ==
  ASSUME NEW ord, NEW l, NEW pins, NEW pat, WellPinned(ord, l, pins, pat)
  PROVE  /\ IsFiniteSet(Free(l, pins)) /\ Cardinality(Free(l, pins)) \in Nat
         /\ Len(Loose(ord, pat)) \in Nat
         /\ Len(Loose(ord, pat)) + Capacity[l] = Cardinality(Free(l, pins)) + Len(ord)
<1> DEFINE N == DOMAIN ord
           L == {n \in N : pat[ord[n]] = 0}
           F == Free(l, pins)
           G == SlotsOf(l) \ F
           at_(i) == CHOOSE n \in N : ord[n] = pins[i]
           f == [i \in G |-> at_(i)]
<1>0. /\ N = 1 .. Len(ord) /\ Len(ord) \in Nat /\ \A n \in N : ord[n] \in Tiles
      /\ Range(ord) = {ord[n] : n \in N}
  BY RangeOfTiles DEF WellPinned
<1>1. Capacity[l] \in Nat \ {0}
  BY WallAssumption DEF WellPinned
<1>2. IsFiniteSet(N) /\ Cardinality(N) = Len(ord)
  BY <1>0, FS_Interval
<1>3. IsFiniteSet(SlotsOf(l)) /\ Cardinality(SlotsOf(l)) = Capacity[l]
  BY SMTT(30), <1>1, FS_Interval DEF SlotsOf
<1>4. F \in SUBSET SlotsOf(l) /\ G \in SUBSET SlotsOf(l) /\ L \in SUBSET N /\ N \ L \in SUBSET N
  BY DEF Free
<1>5. /\ IsFiniteSet(F) /\ Cardinality(F) \in Nat /\ IsFiniteSet(G) /\ Cardinality(G) \in Nat
      /\ IsFiniteSet(L) /\ Cardinality(L) \in Nat
      /\ IsFiniteSet(N \ L) /\ Cardinality(N \ L) \in Nat
  BY <1>2, <1>3, <1>4, FS_Subset, FS_CardinalityType
<1>6. ASSUME NEW i \in G PROVE f[i] \in N \ L /\ ord[f[i]] = pins[i]
  <2>1. pins[i] # Nobody /\ pins[i] \in Range(ord)
    BY DEF Free, WellPinned
  <2>2. at_(i) \in N /\ ord[at_(i)] = pins[i]
    BY <1>0, <2>1
  <2>3. pat[pins[i]] = i /\ i # 0
    BY <1>1, <2>1 DEF WellPinned, SlotsOf
  <2> QED
    BY <2>2, <2>3
<1>7. f \in [G -> N \ L]
  BY <1>6
<1>8. ASSUME NEW i \in G, NEW j \in G, f[i] = f[j] PROVE i = j
  <2>1. pins[i] = pins[j] /\ pins[i] # Nobody
    BY <1>6, <1>8 DEF Free
  <2> QED
    BY <2>1 DEF WellPinned
<1>9. ASSUME NEW n \in N \ L PROVE \E i \in G : f[i] = n
  <2> DEFINE i == pat[ord[n]]
  <2>1. ord[n] \in Tiles /\ i # 0
    BY <1>0
  <2>2. i \in SlotsOf(l) /\ pins[i] = ord[n] /\ ord[n] # Nobody
    BY <2>1, WallAssumption DEF WellPinned
  <2>3. i \in G
    BY <2>2 DEF Free
  <2>4. f[i] \in N /\ ord[f[i]] = ord[n]
    BY <1>6, <2>2, <2>3
  <2>5. f[i] = n
    BY <2>4 DEF WellPinned, Distinct
  <2> QED
    BY <2>3, <2>5
<1>10. Cardinality(G) = Cardinality(N \ L)
  <2> HIDE DEF f, G, L, N
  <2>1. f \in Injection(G, N \ L)
    BY <1>7, <1>8, Fun_IsInj
  <2>2. f \in Surjection(G, N \ L)
    BY <1>7, <1>9, Fun_IsSurj
  <2> QED
    BY <2>1, <2>2, <1>5, FS_Injection
<1>11. Cardinality(N \ L) = Len(ord) - Cardinality(L)
  <2>1. L \cup (N \ L) = N /\ L \cap (N \ L) = {}
    BY <1>4
  <2>2. Cardinality(N) = Cardinality(L) + Cardinality(N \ L) - Cardinality({})
    <3> HIDE DEF N, L
    <3> QED
      BY <1>5, <2>1, FS_Union
  <2> QED
    BY <1>2, <1>5, <2>2, FS_EmptySet
<1>12. Cardinality(G) = Capacity[l] - Cardinality(F)
  <2>1. F \cup G = SlotsOf(l) /\ F \cap G = {}
    BY <1>4
  <2>2. Cardinality(SlotsOf(l)) = Cardinality(F) + Cardinality(G) - Cardinality({})
    <3> HIDE DEF F, G
    <3> QED
      BY <1>5, <2>1, FS_Union
  <2> QED
    BY <1>1, <1>3, <1>5, <2>2, FS_EmptySet
<1>13. Len(Loose(ord, pat)) = Cardinality(L)
  BY <1>4, PickedTiles DEF Loose, WellPinned
<1>14. Len(Loose(ord, pat)) \in Nat
  BY <1>5, <1>13
<1>15. Len(Loose(ord, pat)) + Capacity[l] = Cardinality(F) + Len(ord)
  <2>1. /\ Cardinality(L) \in Nat /\ Cardinality(F) \in Nat /\ Cardinality(G) \in Nat
        /\ Len(ord) \in Nat /\ Capacity[l] \in Nat
    BY <1>0, <1>1, <1>5
  <2> HIDE DEF N, L, F, G
  <2>2. Cardinality(L) = Len(ord) - (Capacity[l] - Cardinality(F))
    BY <2>1, <1>10, <1>11, <1>12
  <2> QED
    BY <2>1, <2>2, <1>13
<1> QED
  BY <1>5, <1>14, <1>15

\* What distributing the tiles gives (redistributeSlots, applyCarouselBatch):
\* every picture is a tile of the order in one slot only, pinned slots show their
\* tiles, and all tiles are shown if they fit, else no slot is empty.
LEMMA PicturesAreFair ==
  ASSUME NEW ord, NEW l, NEW pins, NEW pat, NEW b \in Nat, WellPinned(ord, l, pins, pat),
         NEW new, new = Pictures(ord, l, pins, pat, b)
  PROVE  /\ new \in [SlotsOf(l) -> Range(ord) \cup {Nobody}]
         /\ \A i, j \in SlotsOf(l) : new[i] = new[j] /\ new[i] # Nobody => i = j
         /\ \A i \in SlotsOf(l) : pins[i] # Nobody => new[i] = pins[i]
         /\ IF NeedsCarousel(ord, l) THEN \A i \in SlotsOf(l) : new[i] # Nobody
            ELSE \A k \in Range(ord) : \E i \in SlotsOf(l) : new[i] = k
<1> DEFINE loose == Loose(ord, pat)
           m == Len(loose)
           free == Free(l, pins)
           c == Cardinality(free)
           start == (b * c) % m
           needed == NeedsCarousel(ord, l)
           turn(i) == ((start + Before(i, free)) % m) + 1
           place(i) == Before(i, free) + 1
           S == {n \in DOMAIN ord : pat[ord[n]] = 0}
<1>1. /\ \A n \in DOMAIN ord : ord[n] \in Tiles
      /\ Range(ord) = {ord[n] : n \in DOMAIN ord} /\ Range(ord) \subseteq Tiles
      /\ Len(ord) \in Nat /\ Capacity[l] \in Nat \ {0}
  BY RangeOfTiles, WallAssumption DEF WellPinned
<1>2. /\ IsFiniteSet(free) /\ c \in Nat /\ m \in Nat
      /\ m + Capacity[l] = c + Len(ord)
  BY LooseAndFree
<1>3. /\ Cardinality(S) = m
      /\ \A x \in S : \E n \in 1 .. m : loose[n] = ord[x]
      /\ \A n \in 1 .. m : loose[n] \in {ord[x] : x \in S}
      /\ \A n, p \in 1 .. m : loose[n] = loose[p] => n = p
  <2>1. S \in SUBSET DOMAIN ord /\ ord \in Seq(Tiles) /\ Distinct(ord)
    BY DEF WellPinned
  <2>2. loose = Picked(ord, S)
    BY DEF Loose
  <2> HIDE DEF S, loose
  <2>3. /\ Len(loose) = Cardinality(S)
        /\ \A x \in S : \E n \in 1 .. Cardinality(S) : loose[n] = ord[x]
        /\ \A n \in 1 .. Cardinality(S) : loose[n] \in {ord[x] : x \in S}
    BY <2>1, <2>2, PickedTiles
  <2>4. \A x, y \in DOMAIN ord : ord[x] = ord[y] => x = y
    BY <2>1 DEF Distinct
  <2>5. \A n, p \in 1 .. Cardinality(S) : loose[n] = loose[p] => n = p
    BY <2>1, <2>2, <2>4, PickedTiles
  <2> QED
    BY <2>3, <2>5
<1>4. free \in SUBSET Nat /\ free \subseteq SlotsOf(l)
  BY <1>1 DEF Free, SlotsOf
<1>5. ASSUME NEW n \in 1 .. m
      PROVE  /\ loose[n] \in Range(ord) /\ loose[n] \in Tiles /\ loose[n] # Nobody
             /\ pat[loose[n]] = 0
  BY <1>1, <1>3, WallAssumption
<1>6. ASSUME NEW i \in free
      PROVE  /\ place(i) \in 1 .. c /\ Before(i, free) \in 0 .. c - 1
  BY <1>2, <1>4, BeforeIsRank
<1>7. ASSUME NEW i \in free, NEW j \in free, Before(i, free) = Before(j, free)
      PROVE  i = j
  <2>1. ~(i < j) /\ ~(j < i)
    BY SMTT(30), <1>2, <1>4, <1>6, <1>7, BeforeIsRank
  <2> QED
    BY <1>4, <2>1
<1>8. ASSUME NEW i \in free, needed PROVE turn(i) \in 1 .. m /\ new[i] = loose[turn(i)]
  <2>1. c < m /\ m \in Nat \ {0}
    BY <1>1, <1>2, <1>8 DEF NeedsCarousel
  <2>2. b * c \in Nat
    BY <1>2
  <2>3. start \in Nat
    <3> DEFINE x == b * c
    <3> HIDE DEF m, x
    <3>1. x \in Nat => x % m \in Nat
      BY <2>1
    <3> QED
      BY <3>1, <2>2 DEF x
  <2>4. start + Before(i, free) \in Nat
    BY <2>3, <1>6
  <2>5. turn(i) \in 1 .. m
    <3> DEFINE y == start + Before(i, free)
    <3> HIDE DEF m, y
    <3>1. y \in Nat => (y % m) + 1 \in 1 .. m
      BY <2>1
    <3> QED
      BY <3>1, <2>4 DEF y
  <2>6. new[i] = loose[turn(i)]
    BY <1>4, <1>8 DEF Pictures
  <2> QED
    BY <2>5, <2>6
<1>9. ASSUME NEW i \in free, ~needed
      PROVE  new[i] = IF place(i) \in 1 .. m THEN loose[place(i)] ELSE Nobody
  <2>1. new[i] = IF Before(i, free) < m THEN loose[Before(i, free) + 1] ELSE Nobody
    BY <1>4, <1>9 DEF Pictures
  <2>2. Before(i, free) < m <=> place(i) \in 1 .. m
    BY <1>2, <1>6
  <2> QED
    BY <2>1, <2>2
<1>10. ASSUME NEW i \in SlotsOf(l), i \notin free
       PROVE  /\ new[i] = pins[i] /\ new[i] # Nobody /\ new[i] \in Range(ord)
              /\ pat[new[i]] = i /\ i # 0
  <2>1. new[i] = pins[i]
    BY <1>10 DEF Pictures
  <2>2. pins[i] # Nobody
    BY <1>10 DEF Free
  <2> QED
    BY <1>1, <1>10, <2>1, <2>2 DEF WellPinned, SlotsOf
<1>11. DOMAIN new = SlotsOf(l) /\ new = [i \in SlotsOf(l) |-> new[i]]
  BY DEF Pictures
<1> HIDE DEF loose, m, free, c, start, needed, S
<1>12. ASSUME NEW i \in free
       PROVE  new[i] = Nobody \/ (new[i] \in Range(ord) /\ pat[new[i]] = 0)
  BY <1>5, <1>8, <1>9, <1>12
<1>13. new \in [SlotsOf(l) -> Range(ord) \cup {Nobody}]
  <2>1. \A i \in SlotsOf(l) : new[i] \in Range(ord) \cup {Nobody}
    BY <1>10, <1>12
  <2> QED
    BY <1>11, <2>1
<1>14. ASSUME NEW i \in SlotsOf(l), NEW j \in SlotsOf(l), new[i] = new[j], new[i] # Nobody
       PROVE  i = j
  <2>1. CASE i \notin free \/ j \notin free
    BY <1>10, <1>12, <1>14, <2>1
  <2>2. CASE i \in free /\ j \in free /\ ~needed
    <3>1. place(i) \in 1 .. m /\ place(j) \in 1 .. m /\ loose[place(i)] = loose[place(j)]
      BY <1>9, <1>14, <2>2
    <3>2. place(i) = place(j)
      BY <1>3, <3>1
    <3>3. Before(i, free) = Before(j, free)
      BY <1>2, <1>6, <2>2, <3>2
    <3> QED
      BY <1>7, <2>2, <3>3
  <2>3. CASE i \in free /\ j \in free /\ needed
    <3>1. turn(i) \in 1 .. m /\ turn(j) \in 1 .. m /\ loose[turn(i)] = loose[turn(j)]
      BY <1>8, <1>14, <2>3
    <3>2. turn(i) = turn(j)
      BY <1>3, <3>1
    <3>3. m \in Nat \ {0} /\ c < m
      BY <1>1, <1>2, <2>3 DEF NeedsCarousel, needed
    <3>4. b * c \in Nat
      BY <1>2
    <3>5. start \in Nat
      <4> DEFINE x == b * c
      <4> HIDE DEF x
      <4>1. x \in Nat => x % m \in Nat
        BY <3>3
      <4> QED
        BY <4>1, <3>4 DEF x, start
    <3>6. /\ Before(i, free) \in 0 .. m - 1
          /\ Before(j, free) \in 0 .. m - 1
      BY <1>2, <1>6, <2>3, <3>3
    <3>7. (start + Before(i, free)) % m = (start + Before(j, free)) % m
      <4>1. start + Before(i, free) \in Nat /\ start + Before(j, free) \in Nat
        BY <3>5, <3>6
      <4> DEFINE x == start + Before(i, free)
                 y == start + Before(j, free)
      <4>2. x \in Nat /\ y \in Nat /\ (x % m) + 1 = (y % m) + 1
        BY <3>2, <4>1
      <4> HIDE DEF x, y
      <4>3. x % m = y % m
        <5>1. x % m \in Nat /\ y % m \in Nat
          BY <3>3, <4>2
        <5> QED
          BY <4>2, <5>1
      <4> QED
        BY <4>3 DEF x, y
    <3>8. Before(i, free) = Before(j, free)
      BY <3>3, <3>5, <3>6, <3>7, RotationKeepsApart
    <3> QED
      BY <1>7, <2>3, <3>8
  <2> QED
    BY <2>1, <2>2, <2>3
<1>15. ASSUME NEW i \in SlotsOf(l), pins[i] # Nobody PROVE new[i] = pins[i]
  BY <1>10, <1>15 DEF free, Free
<1>16. ASSUME NEW i \in SlotsOf(l), needed PROVE new[i] # Nobody
  BY <1>5, <1>8, <1>10, <1>16
<1>17. ASSUME NEW k \in Range(ord), ~needed PROVE \E i \in SlotsOf(l) : new[i] = k
  <2>1. PICK x \in DOMAIN ord : ord[x] = k
    BY <1>1
  <2>2. CASE pat[k] # 0
    <3>1. pat[k] \in SlotsOf(l) /\ pins[pat[k]] = k /\ k # Nobody
      BY <1>1, <2>2, WallAssumption DEF WellPinned
    <3> QED
      BY <1>15, <3>1
  <2>3. CASE pat[k] = 0
    <3>1. x \in S
      BY <2>1, <2>3 DEF S
    <3>2. PICK n \in 1 .. m : loose[n] = k
      BY <1>3, <2>1, <3>1
    <3>3. n - 1 \in 0 .. c - 1 /\ n \in Nat
      BY <1>1, <1>2, <1>17 DEF NeedsCarousel, needed
    <3>4. PICK i \in free : Before(i, free) = n - 1
      BY <1>2, <1>4, <3>3, EveryRankIsTaken DEF c
    <3>5. place(i) = n
      BY <3>3, <3>4
    <3> QED
      BY <1>4, <1>9, <1>17, <3>2, <3>4, <3>5
  <2> QED
    BY <2>2, <2>3
<1> QED
  BY <1>13, <1>14, <1>15, <1>16, <1>17 DEF needed

\* The four properties of the wall.
Tidy == ShownOnce /\ PinsAgree /\ WallUsed /\ MarksTell

\* With the types and an order without repetitions they are inductive.
WallInvariant == WallTypeOK /\ Distinct(order) /\ Tidy

\* The bounded sequences of the type invariant are the sequences of bounded
\* length.
LEMMA OrderIsTyped ==
  ASSUME NEW ord, NEW n \in Nat
  PROVE  ord \in UNION {[1 .. p -> Tiles] : p \in 0 .. n} <=> ord \in Seq(Tiles) /\ Len(ord) <= n
<1>1. ASSUME NEW p \in 0 .. n, ord \in [1 .. p -> Tiles]
      PROVE  ord \in Seq(Tiles) /\ Len(ord) <= n
  <2>1. p \in Nat /\ p <= n
    OBVIOUS
  <2>2. ord \in Seq(Tiles)
    BY <1>1, <2>1, SeqDef
  <2>3. DOMAIN ord = 1 .. Len(ord) /\ Len(ord) \in Nat /\ DOMAIN ord = 1 .. p
    BY <1>1, <2>2, LenProperties
  <2> QED
    BY <2>1, <2>2, <2>3
<1>2. ASSUME ord \in Seq(Tiles), Len(ord) <= n
      PROVE  \E p \in 0 .. n : ord \in [1 .. p -> Tiles]
  BY <1>2, LenProperties
<1> QED
  BY <1>1, <1>2

\* The invariant says that the pins agree in the sense of WellPinned.
LEMMA PinsAreWell ==
  ASSUME WallTypeOK, Distinct(order), PinsAgree
  PROVE  WellPinned(order, layout, pinned, pinnedAt)
<1>1. order \in Seq(Tiles)
  BY OrderIsTyped, WallAssumption DEF WallTypeOK
<1>2. Watched \subseteq Tiles
  BY <1>1, RangeOfTiles DEF Watched
<1>3. \A l \in Layouts : Capacity[l] \in Nat \ {0}
  BY WallAssumption
<1>4. pinnedAt \in [Tiles -> Nat]
  BY <1>3 DEF WallTypeOK, Slots, SlotsOf
<1> QED
  BY <1>1, <1>2, <1>4, WallAssumption DEF WellPinned, WallTypeOK, PinsAgree, Slots, SlotsOf, Watched

\* Painting well-pinned pictures leaves a tidy wall, whatever was shown before.
LEMMA PaintedIsTidy ==
  ASSUME NEW b \in Nat, NEW was, NEW known \in [Tiles -> Nat],
         WellPinned(order', layout', pinned', pinnedAt'),
         Repaint(was, Pictures(order', layout', pinned', pinnedAt', b), known, audio),
         audio \in [Tiles -> BOOLEAN], \A k \in Range(order') : audio'[k] = audio[k]
  PROVE  /\ Tidy'
         /\ shown' \in [SlotsOf(layout') -> Range(order') \cup {Nobody}]
         /\ at' \in [Tiles -> Nat]
         /\ loud' \in [SlotsOf(layout') -> BOOLEAN]
<1> DEFINE new == Pictures(order', layout', pinned', pinnedAt', b)
           S == SlotsOf(layout')
<1>1. /\ shown' = new
      /\ at' = [k \in Tiles |->
                IF k \in Range(new) THEN CHOOSE i \in DOMAIN new : new[i] = k
                ELSE IF known[k] \in DOMAIN was /\ was[known[k]] = k THEN 0
                ELSE known[k]]
      /\ loud' = [i \in DOMAIN new |-> new[i] # Nobody /\ audio[new[i]]]
  BY DEF Repaint
<1>2. /\ new \in [S -> Range(order') \cup {Nobody}]
      /\ \A i, j \in S : new[i] = new[j] /\ new[i] # Nobody => i = j
      /\ \A i \in S : pinned'[i] # Nobody => new[i] = pinned'[i]
      /\ IF NeedsCarousel(order', layout') THEN \A i \in S : new[i] # Nobody
         ELSE \A k \in Range(order') : \E i \in S : new[i] = k
  BY PicturesAreFair
<1> HIDE DEF new
<1>3. /\ Range(order') \subseteq Tiles /\ S \subseteq Nat \ {0} /\ Slots' = S
      /\ Watched' = Range(order')
  BY RangeOfTiles, WallAssumption DEF WellPinned, SlotsOf, Slots, Watched
<1>4. ASSUME NEW i \in S, new[i] # Nobody
      PROVE  new[i] \in Tiles /\ at'[new[i]] = i
  <2>1. new[i] \in Tiles /\ i \in DOMAIN new /\ new[i] \in Range(new)
    BY <1>2, <1>3, <1>4 DEF Range
  <2>2. at'[new[i]] = CHOOSE j \in DOMAIN new : new[j] = new[i]
    BY <1>1, <2>1
  <2>3. \A j \in DOMAIN new : new[j] = new[i] => j = i
    BY <1>2, <1>4
  <2> QED
    BY <2>1, <2>2, <2>3
<1>5. at' \in [Tiles -> Nat]
  <2>1. ASSUME NEW k \in Range(new) PROVE (CHOOSE i \in DOMAIN new : new[i] = k) \in Nat
    BY <1>2, <1>3 DEF Range
  <2> QED
    BY <1>1, <2>1
<1>6. loud' \in [S -> BOOLEAN]
  BY <1>1, <1>2
<1>7. ShownOnce'
  BY <1>1, <1>2, <1>3, <1>4 DEF ShownOnce
<1>8. PinsAgree'
  BY <1>1, <1>2, <1>3 DEF PinsAgree, WellPinned
<1>9. WallUsed'
  BY <1>1, <1>2, <1>3 DEF WallUsed, NeedsCarousel
<1>10. MarksTell'
  <2> SUFFICES ASSUME NEW i \in S
               PROVE  IF shown'[i] = Nobody THEN ~loud'[i]
                      ELSE at'[shown'[i]] = i => loud'[i] = audio'[shown'[i]]
    BY <1>3 DEF MarksTell
  <2>1. i \in DOMAIN new /\ shown'[i] = new[i] /\ loud'[i] = (new[i] # Nobody /\ audio[new[i]])
    BY <1>1, <1>2
  <2>2. CASE new[i] # Nobody
    <3>1. audio[new[i]] \in BOOLEAN /\ audio'[new[i]] = audio[new[i]]
      BY <1>2, <1>4, <2>2
    <3>2. loud'[i] = audio[new[i]]
      BY <2>1, <2>2, <3>1
    <3> QED
      BY <2>1, <2>2, <3>1, <3>2
  <2> QED
    BY <2>1, <2>2
<1> QED
  BY <1>1, <1>2, <1>5, <1>6, <1>7, <1>8, <1>9, <1>10 DEF Tidy

\* So does distributing the tiles anew.
LEMMA RedistributedIsTidy ==
  ASSUME WallInvariant, NEW was, NEW known \in [Tiles -> Nat],
         WellPinned(order', layout', pinned', pinnedAt'), Len(order') <= MaxTiles,
         Redistribute(was, known, order', layout', pinned', pinnedAt'),
         opening' \in [Tiles -> 0 .. MaxOpening],
         audio' \in [Tiles -> BOOLEAN], \A k \in Range(order') : audio'[k] = audio[k]
  PROVE  WallInvariant'
<1>1. audio \in [Tiles -> BOOLEAN] /\ 0 \in Nat
  BY DEF WallInvariant, WallTypeOK
<1>2. /\ Tidy'
      /\ shown' \in [SlotsOf(layout') -> Range(order') \cup {Nobody}]
      /\ at' \in [Tiles -> Nat]
      /\ loud' \in [SlotsOf(layout') -> BOOLEAN]
  BY <1>1, PaintedIsTidy DEF Redistribute
<1>3. Slots' = SlotsOf(layout') /\ Watched' = Range(order')
  BY DEF Slots, Watched
<1>4. order' \in UNION {[1 .. p -> Tiles] : p \in 0 .. MaxTiles}
  BY OrderIsTyped, WallAssumption DEF WellPinned
<1>5. pinnedAt' \in [Tiles -> {0} \cup Slots'] /\ pinned' \in [Slots' -> Watched' \cup {Nobody}]
      /\ layout' \in Layouts /\ Distinct(order')
  BY <1>3 DEF WellPinned
<1>6. batch' \in 0 .. Cycle - 1 /\ ticking' \in BOOLEAN /\ abandoned' \in BOOLEAN
  <2>1. batch' = 0 /\ abandoned' = FALSE /\ Cycle \in Nat \ {0}
    BY WallAssumption DEF Redistribute
  <2>2. ticking' \in BOOLEAN
    BY DEF Redistribute, NeedsCarousel
  <2>3. 0 \in 0 .. Cycle - 1
    BY <2>1
  <2> QED
    BY <2>1, <2>2, <2>3
<1>7. WallTypeOK'
  BY <1>2, <1>3, <1>4, <1>5, <1>6 DEF WallTypeOK
<1> QED
  BY <1>2, <1>5, <1>7 DEF WallInvariant, Distinct

\* Removing a tile's entry keeps the others, each once (removeTileEntry).
LEMMA WithoutTile ==
  ASSUME NEW ord \in Seq(Tiles), Distinct(ord), NEW k
  PROVE  /\ Without(ord, k) \in Seq(Tiles) /\ Distinct(Without(ord, k))
         /\ Len(Without(ord, k)) <= Len(ord)
         /\ Range(Without(ord, k)) = Range(ord) \ {k}
<1> DEFINE S == {n \in DOMAIN ord : ord[n] # k}
           rest == Without(ord, k)
           c == Cardinality(S)
<1>1. S \in SUBSET DOMAIN ord /\ rest = Picked(ord, S)
  BY DEF Without
<1>2. \A x, y \in DOMAIN ord : ord[x] = ord[y] => x = y
  BY DEF Distinct
<1>3. Range(ord) = {ord[n] : n \in DOMAIN ord}
  BY RangeOfTiles
<1>4. \A x \in S : x \in DOMAIN ord /\ ord[x] # k
  OBVIOUS
<1>5. \A x \in DOMAIN ord : ord[x] # k => x \in S
  OBVIOUS
<1> HIDE DEF S, rest
<1>6. /\ rest \in Seq(Tiles) /\ Len(rest) = c /\ c \in Nat /\ c <= Len(ord)
      /\ \A x \in S : \E n \in 1 .. c : rest[n] = ord[x]
      /\ \A n \in 1 .. c : rest[n] \in {ord[x] : x \in S}
  BY <1>1, PickedTiles
<1>7. \A m, n \in 1 .. c : rest[m] = rest[n] => m = n
  BY <1>1, <1>2, PickedTiles
<1>8. DOMAIN rest = 1 .. c /\ Range(rest) = {rest[n] : n \in 1 .. c}
  BY <1>6, RangeOfTiles
<1>9. Distinct(rest)
  BY <1>7, <1>8 DEF Distinct
<1>10. Range(rest) = Range(ord) \ {k}
  BY <1>3, <1>4, <1>5, <1>6, <1>8
<1> QED
  BY <1>6, <1>9, <1>10 DEF rest

\* A tile that is removed leaves a tidy wall: its pin goes with it.
LEMMA RemovalIsTidy ==
  ASSUME WallInvariant, NEW k \in Tiles, RemoveTile(k), UNCHANGED layout,
         opening' \in [Tiles -> 0 .. MaxOpening]
  PROVE  WallInvariant'
<1> DEFINE ord == Without(order, k)
           pins == [i \in Slots |-> IF pinned[i] = k THEN Nobody ELSE pinned[i]]
           pat == [pinnedAt EXCEPT ![k] = 0]
           known == [at EXCEPT ![k] = 0]
<1>1. WellPinned(order, layout, pinned, pinnedAt) /\ Slots = SlotsOf(layout)
  BY PinsAreWell DEF WallInvariant, Tidy, Slots
<1>2. /\ ord \in Seq(Tiles) /\ Distinct(ord) /\ Range(ord) = Range(order) \ {k}
      /\ Len(ord) <= Len(order) /\ Len(order) <= MaxTiles /\ Len(order) \in Nat /\ Len(ord) \in Nat
  BY <1>1, WithoutTile, OrderIsTyped, WallAssumption, RangeOfTiles
     DEF WellPinned, WallInvariant, WallTypeOK
<1>3. /\ order' = ord /\ pinned' = pins /\ pinnedAt' = pat /\ layout' = layout
      /\ Redistribute(shown, known, ord, layout, pins, pat)
      /\ audio' = [audio EXCEPT ![k] = FALSE]
  BY DEF RemoveTile
<1> HIDE DEF ord
<1>4. known \in [Tiles -> Nat] /\ audio' \in [Tiles -> BOOLEAN]
      /\ \A x \in Range(ord) : audio'[x] = audio[x]
  BY <1>2, <1>3, RangeOfTiles DEF WallInvariant, WallTypeOK
<1>5. WellPinned(ord, layout, pins, pat)
  <2>1. pins \in [SlotsOf(layout) -> Range(ord) \cup {Nobody}]
    BY <1>1, <1>2 DEF WellPinned
  <2>2. pat \in [Tiles -> Nat]
    BY <1>1 DEF WellPinned
  <2>3. ASSUME NEW i \in SlotsOf(layout), pins[i] # Nobody PROVE pat[pins[i]] = i
    <3>1. pins[i] = pinned[i] /\ pinned[i] # k /\ pinned[i] # Nobody
      BY <1>1, <2>3
    <3>2. pinnedAt[pinned[i]] = i /\ pinned[i] \in Tiles
      BY <1>1, <3>1, RangeOfTiles DEF WellPinned
    <3> QED
      BY <1>1, <3>1, <3>2 DEF WellPinned
  <2>4. ASSUME NEW x \in Tiles, pat[x] # 0 PROVE pat[x] \in SlotsOf(layout) /\ pins[pat[x]] = x
    <3>1. x # k /\ pat[x] = pinnedAt[x]
      BY <1>1, <2>4 DEF WellPinned
    <3>2. pinnedAt[x] \in SlotsOf(layout) /\ pinned[pinnedAt[x]] = x
      BY <1>1, <2>4, <3>1 DEF WellPinned
    <3> QED
      BY <1>1, <3>1, <3>2
  <2> QED
    BY <1>1, <1>2, <2>1, <2>2, <2>3, <2>4 DEF WellPinned
<1> HIDE DEF pins, pat, known
<1>6. WellPinned(order', layout', pinned', pinnedAt')
  BY <1>3, <1>5
<1>7. Redistribute(shown, known, order', layout', pinned', pinnedAt')
  BY <1>3
<1>8. Len(order') <= MaxTiles
  BY <1>2, <1>3, WallAssumption
<1>9. \A x \in Range(order') : audio'[x] = audio[x]
  BY <1>3, <1>4
<1> QED
  BY <1>4, <1>6, <1>7, <1>8, <1>9, RedistributedIsTidy

\* So does one that starts, be it new or already on the wall.
LEMMA StartedIsTidy ==
  ASSUME WallInvariant, NEW k \in Tiles, TileStarted(k)
  PROVE  WallInvariant'
<1>1. /\ order \in Seq(Tiles) /\ Len(order) \in Nat /\ Len(order) < MaxTiles
      /\ DOMAIN order = 1 .. Len(order) /\ Watched = {order[n] : n \in DOMAIN order}
      /\ k \notin Watched /\ order' = Append(order, k)
  BY OrderIsTyped, WallAssumption, RangeOfTiles
     DEF WallInvariant, WallTypeOK, TileStarted, Watched
<1>2. /\ order' \in Seq(Tiles) /\ Len(order') = Len(order) + 1
      /\ \A n \in 1 .. Len(order) : order'[n] = order[n]
      /\ order'[Len(order) + 1] = k
      /\ DOMAIN order' = 1 .. Len(order) + 1
  BY <1>1, AppendProperties, LenProperties
<1>3. Watched' = Watched \cup {k}
  <2>1. Watched' = {order'[n] : n \in 1 .. Len(order) + 1}
    BY <1>2, RangeOfTiles DEF Watched
  <2> QED
    BY <1>1, <1>2, <2>1
<1>4. Distinct(order)'
  BY <1>1, <1>2 DEF Distinct, WallInvariant
<1>5. order' \in UNION {[1 .. p -> Tiles] : p \in 0 .. MaxTiles}
  <2>1. Len(order') <= MaxTiles
    BY <1>1, <1>2, WallAssumption
  <2> QED
    BY <1>2, <2>1, OrderIsTyped, WallAssumption
<1>6. /\ opening' \in [Tiles -> 0 .. MaxOpening] /\ opening'[k] > 0
      /\ \A x \in Tiles : x # k => opening'[x] = opening[x]
      /\ audio' \in [Tiles -> BOOLEAN] /\ \A x \in Tiles : x # k => audio'[x] = audio[x]
      /\ UNCHANGED <<layout, shown, at, pinned, pinnedAt, loud, batch, ticking, abandoned>>
      /\ Slots' = Slots
  BY WallAssumption DEF WallInvariant, WallTypeOK, TileStarted, Slots
<1>7. WallTypeOK'
  BY <1>3, <1>5, <1>6 DEF WallInvariant, WallTypeOK
<1>8. ShownOnce' /\ PinsAgree'
  BY <1>6 DEF WallInvariant, Tidy, ShownOnce, PinsAgree
<1>9. ASSUME NEW i \in Slots, shown[i] # Nobody
      PROVE  shown[i] \in Tiles /\ audio'[shown[i]] = audio[shown[i]]
  <2>1. shown[i] \in Watched /\ Watched \subseteq Tiles
    BY <1>1, <1>9, ElementOfSeq DEF WallInvariant, WallTypeOK
  <2> QED
    BY <1>1, <1>6, <2>1
<1>10. MarksTell'
  BY <1>6, <1>9 DEF WallInvariant, Tidy, MarksTell
<1>11. WallUsed'
  <2>1. CASE NeedsCarousel(order', layout')
    BY <1>6, <2>1 DEF WallUsed
  <2>2. CASE ~NeedsCarousel(order', layout')
    <3>1. ~NeedsCarousel(order, layout)
      <4>1. Capacity[layout] \in Nat /\ ~(Len(order) + 1 > Capacity[layout])
        BY <1>2, <1>6, <2>2, WallAssumption DEF NeedsCarousel, WallInvariant, WallTypeOK
      <4> QED
        BY <1>1, <4>1 DEF NeedsCarousel
    <3>2. \A x \in Watched : opening[x] = 0 => \E i \in Slots : shown[i] = x
      BY <3>1 DEF WallInvariant, Tidy, WallUsed
    <3>3. Watched \subseteq Tiles
      BY <1>1, ElementOfSeq
    <3> QED
      BY <1>3, <1>6, <2>2, <3>2, <3>3 DEF WallUsed
  <2> QED
    BY <2>1, <2>2
<1> QED
  BY <1>4, <1>7, <1>8, <1>10, <1>11 DEF WallInvariant, Tidy

\* Exchanging two slots takes their pins along (swapSlots).
LEMMA SwapIsTidy ==
  ASSUME WallInvariant, NEW i \in Slots, NEW j \in Slots, SwapSlots(i, j)
  PROVE  WallInvariant'
<1> DEFINE a == shown[i]
           b == shown[j]
<1>1. /\ i # j /\ pinned[i] = Nobody /\ pinned[j] = Nobody /\ ~NeedsCarousel(order, layout)
      /\ shown' = [shown EXCEPT ![i] = b, ![j] = a]
      /\ at' = [k \in Tiles |-> CASE k = a -> IF b # Nobody THEN j ELSE 0
                                  [] k = b -> IF a # Nobody THEN i ELSE 0
                                  [] OTHER -> at[k]]
      /\ loud' = [loud EXCEPT ![i] = b # Nobody /\ audio[b], ![j] = a # Nobody /\ audio[a]]
      /\ UNCHANGED <<order, opening, layout, pinned, pinnedAt, audio, batch, ticking,
                     abandoned>>
      /\ a = Nobody \/ a # b
  BY DEF SwapSlots, WallInvariant, Tidy, ShownOnce
<1>2. /\ Slots' = Slots /\ Watched' = Watched /\ Watched \subseteq Tiles /\ Nobody \notin Tiles
      /\ Slots \subseteq Nat /\ \A s \in Slots : shown[s] \in Watched \cup {Nobody}
      /\ shown \in [Slots -> Watched \cup {Nobody}] /\ loud \in [Slots -> BOOLEAN]
      /\ at \in [Tiles -> Nat] /\ audio \in [Tiles -> BOOLEAN]
  <2>1. Slots' = Slots /\ Watched' = Watched
    BY <1>1 DEF Slots, Watched
  <2>2. Watched \subseteq Tiles
    BY OrderIsTyped, RangeOfTiles, WallAssumption DEF WallInvariant, WallTypeOK, Watched
  <2>3. Slots \subseteq Nat
    BY WallAssumption DEF WallInvariant, WallTypeOK, Slots, SlotsOf
  <2> QED
    BY <2>1, <2>2, <2>3, WallAssumption DEF WallInvariant, WallTypeOK
<1>3. /\ shown'[i] = b /\ shown'[j] = a
      /\ \A s \in Slots : s # i /\ s # j => shown'[s] = shown[s] /\ loud'[s] = loud[s]
      /\ loud'[i] = (b # Nobody /\ audio[b]) /\ loud'[j] = (a # Nobody /\ audio[a])
  BY <1>1, <1>2
<1> HIDE DEF a, b
<1>4. WallTypeOK'
  <2>1. shown' \in [Slots' -> Watched' \cup {Nobody}]
    BY <1>1, <1>2 DEF a, b
  <2>2. at' \in [Tiles -> Nat]
    BY <1>1, <1>2
  <2>3. loud' \in [Slots' -> BOOLEAN]
    BY <1>1, <1>2
  <2> QED
    BY <1>1, <1>2, <2>1, <2>2, <2>3 DEF WallInvariant, WallTypeOK
<1>5. ASSUME NEW s \in Slots, s # i, s # j, shown[s] # Nobody
      PROVE  shown[s] # a /\ shown[s] # b /\ shown[s] \in Tiles /\ at'[shown[s]] = at[shown[s]]
  <2>1. shown[s] # a /\ shown[s] # b /\ shown[s] \in Tiles
    BY <1>2, <1>5 DEF WallInvariant, Tidy, ShownOnce, a, b
  <2> QED
    BY <1>1, <2>1
<1>6. /\ a # Nobody => a \in Tiles /\ at'[a] \in {0, j}
      /\ b # Nobody => b \in Tiles /\ at'[b] \in {0, i}
  BY <1>1, <1>2 DEF a, b
<1>7. ShownOnce'
  <2> SUFFICES ASSUME NEW s \in Slots, shown'[s] # Nobody
               PROVE  /\ \A t \in Slots : shown'[t] = shown'[s] => t = s
                      /\ at'[shown'[s]] \in {0, s}
    BY <1>2 DEF ShownOnce
  <2>1. CASE s = i
    BY ZenonT(40), <1>1, <1>3, <1>5, <1>6, <2>1
  <2>2. CASE s = j
    BY ZenonT(40), <1>1, <1>3, <1>5, <1>6, <2>2
  <2>3. CASE s # i /\ s # j
    <3>1. \A t \in Slots : shown[t] = shown[s] => t = s
      BY <1>3, <2>3 DEF WallInvariant, Tidy, ShownOnce
    <3>2. at[shown[s]] \in {0, s}
      BY <1>3, <2>3 DEF WallInvariant, Tidy, ShownOnce
    <3> QED
      BY <1>3, <1>5, <2>3, <3>1, <3>2
  <2> QED
    BY <2>1, <2>2, <2>3
<1>8. PinsAgree'
  <2>1. \A s \in Slots : pinned[s] # Nobody => shown'[s] = shown[s]
    BY <1>1, <1>3
  <2> QED
    BY <1>1, <1>2, <2>1 DEF WallInvariant, Tidy, PinsAgree
<1>9. WallUsed'
  <2> SUFFICES ASSUME NEW k \in Watched, opening[k] = 0
               PROVE  \E s \in Slots : shown'[s] = k
    BY <1>1, <1>2 DEF WallUsed, NeedsCarousel
  <2>1. PICK s \in Slots : shown[s] = k
    BY <1>1 DEF WallInvariant, Tidy, WallUsed
  <2>2. shown'[IF s = i THEN j ELSE IF s = j THEN i ELSE s] = k
    BY <1>3, <2>1 DEF a, b
  <2> QED
    BY <2>2
<1>10. MarksTell'
  <2> SUFFICES ASSUME NEW s \in Slots
               PROVE  IF shown'[s] = Nobody THEN ~loud'[s]
                      ELSE at'[shown'[s]] = s => loud'[s] = audio[shown'[s]]
    BY <1>1, <1>2 DEF MarksTell
  <2>1. CASE s = i
    <3>1. b # Nobody => audio[b] \in BOOLEAN
      BY <1>2, <1>6
    <3> QED
      BY <1>3, <2>1, <3>1
  <2>2. CASE s = j
    <3>1. a # Nobody => audio[a] \in BOOLEAN
      BY <1>2, <1>6
    <3> QED
      BY <1>3, <2>2, <3>1
  <2>3. CASE s # i /\ s # j
    BY <1>3, <1>5, <2>3 DEF WallInvariant, Tidy, MarksTell
  <2> QED
    BY <2>1, <2>2, <2>3
<1> QED
  BY <1>1, <1>4, <1>7, <1>8, <1>9, <1>10 DEF WallInvariant, Tidy, Distinct

\* A layout without any pin is well pinned.
LEMMA ClearedPins ==
  ASSUME NEW ord \in Seq(Tiles), Distinct(ord), NEW l \in Layouts
  PROVE  WellPinned(ord, l, Empty(Capacity[l]), [k \in Tiles |-> 0])
BY DEF WellPinned, Empty, SlotsOf

\* Pinning a slot takes the place of its tile's earlier pin (togglePinSlot).
LEMMA PinIsTidy ==
  ASSUME WallInvariant, NEW i \in Slots, PinSlot(i)
  PROVE  WallInvariant'
<1> DEFINE k == shown[i]
           pins == [pinned EXCEPT ![i] = k]
           pat == [pinnedAt EXCEPT ![k] = i]
<1>1. WellPinned(order, layout, pinned, pinnedAt) /\ Slots = SlotsOf(layout)
  BY PinsAreWell DEF WallInvariant, Tidy, Slots
<1>2. /\ Redistribute(shown, at, order, layout, pins, pat)
      /\ pinned' = pins /\ pinnedAt' = pat
      /\ UNCHANGED <<order, opening, layout, audio>>
      /\ k # Nobody /\ pinned[i] = Nobody
  BY DEF PinSlot
<1>3. k \in Watched /\ Watched \subseteq Tiles /\ Watched = Range(order)
  BY <1>1, <1>2, RangeOfTiles DEF WallInvariant, WallTypeOK, Watched, WellPinned
<1>4. Slots \subseteq Nat \ {0}
  BY <1>1, WallAssumption DEF WellPinned, SlotsOf
\* Pinned anywhere else, the tile would be shown there as well.
<1>5. pinnedAt[k] = 0
  <2> SUFFICES ASSUME pinnedAt[k] # 0 PROVE FALSE
    OBVIOUS
  <2>1. pinned[pinnedAt[k]] = k /\ pinnedAt[k] \in Slots
    BY <1>1, <1>3 DEF WellPinned
  <2>2. shown[pinnedAt[k]] = k
    BY <1>2, <2>1 DEF WallInvariant, Tidy, PinsAgree
  <2>3. pinnedAt[k] = i
    BY <1>2, <2>1, <2>2 DEF WallInvariant, Tidy, ShownOnce
  <2> QED
    BY <1>2, <2>1, <2>3
<1> HIDE DEF k
<1>6. WellPinned(order, layout, pins, pat)
  <2>1. /\ pins \in [SlotsOf(layout) -> Range(order) \cup {Nobody}] /\ pat \in [Tiles -> Nat]
        /\ pins[i] = k /\ pat[k] = i
    BY <1>1, <1>3, <1>4 DEF WellPinned
  <2>2. ASSUME NEW j \in SlotsOf(layout), pins[j] # Nobody PROVE pat[pins[j]] = j
    <3>1. CASE j = i
      BY <2>1, <3>1
    <3>2. CASE j # i
      <4>1. pins[j] = pinned[j] /\ pinnedAt[pinned[j]] = j /\ pinned[j] \in Tiles /\ j # 0
        BY <1>1, <1>3, <1>4, <2>2, <3>2 DEF WellPinned
      <4> QED
        BY <1>1, <1>5, <4>1 DEF WellPinned
    <3> QED
      BY <3>1, <3>2
  <2>3. ASSUME NEW x \in Tiles, pat[x] # 0
        PROVE  pat[x] \in SlotsOf(layout) /\ pins[pat[x]] = x
    <3>1. CASE x = k
      BY <1>1, <2>1, <3>1
    <3>2. CASE x # k
      <4>1. pat[x] = pinnedAt[x] /\ pat[x] \in SlotsOf(layout) /\ pinned[pat[x]] = x
        BY <1>1, <2>3, <3>2 DEF WellPinned
      <4>2. pat[x] # i
        BY <1>2, <1>3, <4>1, WallAssumption
      <4> QED
        BY <1>1, <4>1, <4>2 DEF WellPinned
    <3> QED
      BY <3>1, <3>2
  <2> QED
    BY <1>1, <2>1, <2>2, <2>3 DEF WellPinned
<1> HIDE DEF pins, pat
<1>7. /\ at \in [Tiles -> Nat] /\ audio' \in [Tiles -> BOOLEAN] /\ Len(order) <= MaxTiles
      /\ opening' \in [Tiles -> 0 .. MaxOpening]
  BY <1>2, OrderIsTyped, WallAssumption DEF WallInvariant, WallTypeOK
<1>8. WellPinned(order', layout', pinned', pinnedAt') /\ Len(order') <= MaxTiles
  BY <1>2, <1>6, <1>7
<1>9. Redistribute(shown, at, order', layout', pinned', pinnedAt')
  BY <1>2
<1>10. \A x \in Range(order') : audio'[x] = audio[x]
  BY <1>2
<1> QED
  BY <1>7, <1>8, <1>9, <1>10, RedistributedIsTidy

\* A slot is unpinned.
LEMMA UnpinIsTidy ==
  ASSUME WallInvariant, NEW i \in Slots, UnpinSlot(i)
  PROVE  WallInvariant'
<1> DEFINE k == shown[i]
<1>1. WellPinned(order, layout, pinned, pinnedAt) /\ Slots = SlotsOf(layout)
  BY PinsAreWell DEF WallInvariant, Tidy, Slots
<1>2. /\ pinned' = [pinned EXCEPT ![i] = Nobody] /\ pinnedAt' = [pinnedAt EXCEPT ![k] = 0]
      /\ UNCHANGED <<order, opening, layout, shown, at, audio, loud, batch>>
      /\ ticking' \in BOOLEAN /\ abandoned' \in BOOLEAN
      /\ k # Nobody /\ pinned[i] = k /\ pinnedAt[k] = i
  BY DEF UnpinSlot, WallInvariant, WallTypeOK, Tidy, PinsAgree, NeedsCarousel
<1>3. Slots' = Slots /\ Watched' = Watched
  BY <1>2 DEF Slots, Watched
<1>4. k \in Watched /\ Watched \subseteq Tiles /\ Watched = Range(order)
  BY <1>1, <1>2, RangeOfTiles DEF WallInvariant, WallTypeOK, Watched, WellPinned
<1>5. WallTypeOK'
  BY <1>2, <1>3, <1>4 DEF WallInvariant, WallTypeOK
<1>6. ASSUME NEW j \in Slots, pinned'[j] # Nobody
      PROVE  shown[j] = pinned'[j] /\ pinnedAt'[pinned'[j]] = j
  <2>1. j # i /\ pinned'[j] = pinned[j] /\ pinned[j] \in Tiles /\ pinned[j] # Nobody
    BY <1>1, <1>2, <1>4, <1>6 DEF WellPinned
  <2>2. shown[j] = pinned[j] /\ pinnedAt[pinned[j]] = j
    BY <2>1 DEF WallInvariant, Tidy, PinsAgree
  <2> QED
    BY <1>1, <1>2, <2>1, <2>2 DEF WellPinned
<1>7. ASSUME NEW x \in Tiles, pinnedAt'[x] # 0 PROVE pinned'[pinnedAt'[x]] = x
  <2>1. x # k /\ pinnedAt'[x] = pinnedAt[x] /\ pinned[pinnedAt[x]] = x /\ pinnedAt[x] \in Slots
    BY <1>1, <1>2, <1>4, <1>7 DEF WellPinned
  <2> QED
    BY <1>1, <1>2, <2>1 DEF WellPinned
<1>8. PinsAgree'
  BY <1>2, <1>3, <1>6, <1>7 DEF PinsAgree
<1> QED
  BY <1>2, <1>3, <1>5, <1>8
     DEF WallInvariant, Tidy, Distinct, ShownOnce, WallUsed, NeedsCarousel, MarksTell

\* The sound of a slot's tile is turned on or off, and the mark with it.
LEMMA ToggleIsTidy ==
  ASSUME WallInvariant, NEW i \in Slots, ToggleAudio(i)
  PROVE  WallInvariant'
<1> DEFINE k == shown[i]
<1>1. /\ k \in Tiles /\ k # Nobody
      /\ audio' = [audio EXCEPT ![k] = ~audio[k]]
      /\ loud' = [s \in Slots |-> IF s = at[k] THEN ~audio[k] ELSE loud[s]]
      /\ UNCHANGED <<order, opening, layout, shown, at, pinned, pinnedAt, batch, ticking,
                     abandoned>>
  BY WallAssumption DEF ToggleAudio
<1>2. Slots' = Slots /\ Watched' = Watched
  BY <1>1 DEF Slots, Watched
<1>3. WallTypeOK'
  <2>1. audio' \in [Tiles -> BOOLEAN]
    BY <1>1 DEF WallInvariant, WallTypeOK
  <2>2. loud' \in [Slots -> BOOLEAN]
    BY <1>1 DEF WallInvariant, WallTypeOK
  <2> QED
    BY <1>1, <1>2, <2>1, <2>2 DEF WallInvariant, WallTypeOK
<1>4. MarksTell'
  <2> SUFFICES ASSUME NEW s \in Slots
               PROVE  IF shown[s] = Nobody THEN ~loud'[s]
                      ELSE at[shown[s]] = s => loud'[s] = audio'[shown[s]]
    BY <1>1, <1>2 DEF MarksTell
  <2>1. CASE s = at[k]
    <3>1. at[k] \in {0, i} /\ s # 0
      BY <1>1, WallAssumption DEF WallInvariant, WallTypeOK, Tidy, ShownOnce, Slots, SlotsOf
    <3>2. s = i
      BY <2>1, <3>1
    <3>3. loud'[s] = ~audio[k] /\ audio'[k] = ~audio[k]
      BY <1>1, <2>1 DEF WallInvariant, WallTypeOK
    <3> QED
      BY <1>1, <3>2, <3>3
  <2>2. CASE s # at[k]
    <3>1. loud'[s] = loud[s]
      BY <1>1, <2>2
    <3>2. shown[s] # Nobody /\ at[shown[s]] = s => audio'[shown[s]] = audio[shown[s]]
      BY <1>1, <2>2 DEF WallInvariant, WallTypeOK
    <3> QED
      BY <3>1, <3>2 DEF WallInvariant, Tidy, MarksTell
  <2> QED
    BY <2>1, <2>2
<1> QED
  BY <1>1, <1>2, <1>3, <1>4
     DEF WallInvariant, Tidy, Distinct, ShownOnce, PinsAgree, WallUsed, NeedsCarousel

\* The carousel turns: the pinned slots stay.
LEMMA TickIsTidy ==
  ASSUME WallInvariant, CarouselTick
  PROVE  WallInvariant'
<1>1. UNCHANGED <<order, opening, layout, pinned, pinnedAt, audio>>
  BY DEF CarouselTick
<1>2. Slots' = Slots /\ Watched' = Watched
  BY <1>1 DEF Slots, Watched
<1>3. ticking' \in BOOLEAN /\ abandoned' \in BOOLEAN /\ batch' \in 0 .. Cycle - 1
  <2>1. batch \in Nat /\ Cycle \in Nat \ {0} /\ batch <= Cycle - 1
    BY WallAssumption DEF WallInvariant, WallTypeOK
  <2>2. (batch + 1) % Cycle \in 0 .. Cycle - 1
    BY <2>1
  <2>3. batch' = (batch + 1) % Cycle \/ batch' = batch
    BY DEF CarouselTick
  <2>4. ticking' \in BOOLEAN /\ abandoned' = abandoned
    BY DEF CarouselTick
  <2>5. abandoned' \in BOOLEAN
    BY <2>4 DEF WallInvariant, WallTypeOK
  <2> QED
    BY <2>1, <2>2, <2>3, <2>4, <2>5
<1>4. CASE UNCHANGED <<shown, at, loud>>
  BY <1>1, <1>2, <1>3, <1>4
     DEF WallInvariant, WallTypeOK, Tidy, Distinct, ShownOnce, PinsAgree, WallUsed,
         NeedsCarousel, MarksTell
<1>5. CASE ~UNCHANGED <<shown, at, loud>>
  <2>1. Repaint(shown, Pictures(order, layout, pinned, pinnedAt, batch'), at, audio)
    BY <1>5 DEF CarouselTick
  <2>2. Repaint(shown, Pictures(order', layout', pinned', pinnedAt', batch'), at, audio)
    BY <1>1, <2>1
  <2>3. WellPinned(order, layout, pinned, pinnedAt)
    BY PinsAreWell DEF WallInvariant, Tidy
  <2>4. WellPinned(order', layout', pinned', pinnedAt')
    BY <1>1, <2>3
  <2>5. /\ at \in [Tiles -> Nat] /\ audio \in [Tiles -> BOOLEAN] /\ batch' \in Nat
        /\ \A k \in Range(order') : audio'[k] = audio[k]
    BY <1>1, <1>3, WallAssumption DEF WallInvariant, WallTypeOK
  <2>6. /\ Tidy'
        /\ shown' \in [SlotsOf(layout') -> Range(order') \cup {Nobody}]
        /\ at' \in [Tiles -> Nat]
        /\ loud' \in [SlotsOf(layout') -> BOOLEAN]
    BY <2>2, <2>4, <2>5, PaintedIsTidy
  <2> QED
    BY <1>1, <1>2, <1>3, <2>6 DEF WallInvariant, WallTypeOK, Distinct, Slots, Watched
<1> QED
  BY <1>4, <1>5

\* The empty order.
LEMMA NoTiles ==
  /\ <<>> \in Seq(Tiles) /\ Len(<<>>) = 0 /\ DOMAIN <<>> = {} /\ Range(<<>>) = {}
  /\ <<>> \in UNION {[1 .. p -> Tiles] : p \in 0 .. MaxTiles}
<1> DEFINE e == <<>>
<1>1. e \in Seq(Tiles) /\ Len(e) = 0
  OBVIOUS
<1> HIDE DEF e
<1>2. DOMAIN e = 1 .. 0 /\ Range(e) = {e[n] : n \in DOMAIN e}
  BY <1>1, RangeOfTiles
<1>3. DOMAIN e = {} /\ Range(e) = {}
  BY <1>2
<1>4. e \in UNION {[1 .. p -> Tiles] : p \in 0 .. MaxTiles}
  <2>1. MaxTiles \in Nat /\ Len(e) <= MaxTiles
    BY <1>1, WallAssumption
  <2> QED
    BY <1>1, <2>1, OrderIsTyped
<1> QED
  BY <1>1, <1>3, <1>4 DEF e

\* An empty wall is tidy.
EmptyWall ==
    /\ order = <<>> /\ layout \in Layouts /\ opening \in [Tiles -> 0 .. MaxOpening]
    /\ shown = Empty(Capacity[layout]) /\ pinned = Empty(Capacity[layout])
    /\ loud = Silent(Capacity[layout]) /\ at = [k \in Tiles |-> 0]
    /\ pinnedAt = [k \in Tiles |-> 0] /\ audio = [k \in Tiles |-> FALSE]
    /\ batch = 0 /\ ticking = FALSE /\ abandoned = FALSE

\* The wall before the first tile, and after the last one is closed at once.
LEMMA EmptyWallIsTidy == EmptyWall => WallInvariant
<1> SUFFICES ASSUME EmptyWall PROVE WallInvariant
  OBVIOUS
<1> USE DEF EmptyWall
<1>1. Watched = {} /\ Len(order) = 0 /\ DOMAIN order = {}
      /\ order \in UNION {[1 .. p -> Tiles] : p \in 0 .. MaxTiles}
  BY NoTiles DEF Watched
<1>2. Capacity[layout] \in Nat \ {0} /\ Cycle \in Nat \ {0}
  BY WallAssumption
<1>3. /\ shown \in [Slots -> Watched \cup {Nobody}] /\ pinned \in [Slots -> Watched \cup {Nobody}]
      /\ loud \in [Slots -> BOOLEAN] /\ \A i \in Slots : shown[i] = Nobody /\ pinned[i] = Nobody
      /\ \A i \in Slots : ~loud[i]
  BY DEF Empty, Silent, Slots, SlotsOf
<1>4. WallTypeOK
  <2>0. batch = 0 /\ ticking = FALSE /\ abandoned = FALSE
    OBVIOUS
  <2>1. batch \in 0 .. Cycle - 1 /\ ticking \in BOOLEAN /\ abandoned \in BOOLEAN
    <3> HIDE DEF EmptyWall
    <3>1. Cycle \in Nat /\ Cycle >= 1
      BY <1>2
    <3>2. batch \in 0 .. Cycle - 1
      BY <2>0, <3>1
    <3>3. ticking \in BOOLEAN /\ abandoned \in BOOLEAN
      BY <2>0
    <3> QED
      BY <3>2, <3>3
  <2>2. at \in [Tiles -> Nat] /\ pinnedAt \in [Tiles -> {0} \cup Slots]
        /\ audio \in [Tiles -> BOOLEAN]
    OBVIOUS
  <2> QED
    BY <1>1, <1>3, <2>1, <2>2 DEF WallTypeOK
<1>5. ~NeedsCarousel(order, layout)
  BY <1>1, <1>2 DEF NeedsCarousel
<1> QED
  BY <1>1, <1>3, <1>4, <1>5
     DEF WallInvariant, Tidy, Distinct, ShownOnce, PinsAgree, WallUsed, MarksTell

\* The wall is tidy when the page opens and every step keeps it so, for any tiles,
\* layouts and limits (admin-monitor.js: startTile, stopTile, setLayoutKey,
\* togglePinSlot, swapSlots, toggleTileAudio, startCarouselTimer).
LEMMA WallStaysTidy ==
  /\ WallInit => WallInvariant
  /\ WallInvariant /\ [WallNext]_wallVars => WallInvariant'
<1>1. ASSUME WallInit PROVE WallInvariant
  <2>1. opening \in [Tiles -> 0 .. MaxOpening]
    BY <1>1, WallAssumption DEF WallInit
  <2> QED
    BY <1>1, <2>1, EmptyWallIsTidy DEF WallInit, EmptyWall
<1>2. ASSUME WallInvariant, [WallNext]_wallVars PROVE WallInvariant'
  <2>1. /\ WellPinned(order, layout, pinned, pinnedAt) /\ order \in Seq(Tiles)
        /\ Len(order) <= MaxTiles /\ at \in [Tiles -> Nat] /\ audio \in [Tiles -> BOOLEAN]
        /\ opening \in [Tiles -> 0 .. MaxOpening]
    BY <1>2, PinsAreWell, OrderIsTyped, WallAssumption DEF WallInvariant, WallTypeOK, Tidy
  <2>2. ASSUME NEW k \in Tiles, opening[k] > 0
        PROVE  [opening EXCEPT ![k] = @ - 1] \in [Tiles -> 0 .. MaxOpening]
    BY <2>1, <2>2, WallAssumption
  <2>3. ASSUME NEW k \in Tiles, TileStarted(k) PROVE WallInvariant'
    BY <1>2, <2>3, StartedIsTidy
  <2>4. ASSUME NEW k \in Tiles, TileConnected(k) PROVE WallInvariant'
    <3>1. /\ UNCHANGED <<order, layout, pinned, pinnedAt, audio>>
          /\ Redistribute(shown, at, order, layout, pinned, pinnedAt)
          /\ opening' \in [Tiles -> 0 .. MaxOpening]
      BY <2>2, <2>4 DEF TileConnected
    <3>2. WellPinned(order', layout', pinned', pinnedAt') /\ Len(order') <= MaxTiles
      BY <2>1, <3>1
    <3>3. Redistribute(shown, at, order', layout', pinned', pinnedAt')
      BY <3>1
    <3>4. audio' \in [Tiles -> BOOLEAN] /\ \A x \in Range(order') : audio'[x] = audio[x]
      BY <2>1, <3>1
    <3> QED
      BY <1>2, <2>1, <3>1, <3>2, <3>3, <3>4, RedistributedIsTidy
  <2>5. ASSUME NEW k \in Tiles, TileFailed(k) PROVE WallInvariant'
    BY <1>2, <2>2, <2>5, RemovalIsTidy DEF TileFailed
  <2>6. ASSUME NEW k \in Tiles, TileStopped(k) PROVE WallInvariant'
    BY <1>2, <2>1, <2>6, RemovalIsTidy DEF TileStopped
  <2>7. ASSUME NEW l \in Layouts, SetLayout(l) PROVE WallInvariant'
    <3>1. /\ layout' = l /\ pinned' = Empty(Capacity[l]) /\ pinnedAt' = [k \in Tiles |-> 0]
          /\ Redistribute(Empty(Capacity[l]), at, order, l, pinned', pinnedAt')
          /\ UNCHANGED <<order, opening, audio>>
      BY <2>7 DEF SetLayout
    <3>2. WellPinned(order', layout', pinned', pinnedAt') /\ Len(order') <= MaxTiles
      BY <2>1, <3>1, ClearedPins DEF WellPinned
    <3>3. Redistribute(Empty(Capacity[l]), at, order', layout', pinned', pinnedAt')
      BY <3>1
    <3>4. /\ audio' \in [Tiles -> BOOLEAN] /\ \A x \in Range(order') : audio'[x] = audio[x]
          /\ opening' \in [Tiles -> 0 .. MaxOpening]
      BY <2>1, <3>1
    <3> QED
      BY <1>2, <2>1, <3>2, <3>3, <3>4, RedistributedIsTidy
  <2>8. ASSUME NEW i \in Slots, PinSlot(i) \/ UnpinSlot(i) \/ ToggleAudio(i) PROVE WallInvariant'
    BY <1>2, <2>8, PinIsTidy, UnpinIsTidy, ToggleIsTidy
  <2>9. ASSUME NEW i \in Slots, NEW j \in Slots, SwapSlots(i, j) PROVE WallInvariant'
    BY <1>2, <2>9, SwapIsTidy
  <2>10. CASE ChangeInterval \/ WallKept \/ UNCHANGED wallVars
    <3>1. /\ UNCHANGED <<order, opening, layout, shown, at, pinned, pinnedAt, audio, loud, batch>>
          /\ ticking' \in BOOLEAN /\ abandoned' \in BOOLEAN
      BY <1>2, <2>10 DEF ChangeInterval, WallKept, wallVars, WallInvariant, WallTypeOK
    <3>2. Slots' = Slots /\ Watched' = Watched
      BY <3>1 DEF Slots, Watched
    <3>3. WallTypeOK'
      BY <1>2, <3>1, <3>2 DEF WallInvariant, WallTypeOK
    <3> QED
      BY <1>2, <3>1, <3>2, <3>3
         DEF WallInvariant, Tidy, Distinct, ShownOnce, PinsAgree, WallUsed, NeedsCarousel,
             MarksTell
  <2>11. CASE WallCleared
    <3>1. /\ order' = <<>> /\ shown' = Empty(Capacity[layout]) /\ loud' = Silent(Capacity[layout])
          /\ pinned' = Empty(Capacity[layout]) /\ at' = [k \in Tiles |-> 0]
          /\ pinnedAt' = [k \in Tiles |-> 0] /\ audio' = [k \in Tiles |-> FALSE]
          /\ batch' = 0 /\ ticking' = FALSE /\ abandoned' = FALSE
          /\ UNCHANGED <<opening, layout>>
      BY <2>11 DEF WallCleared
    <3>2. EmptyWall'
      BY <1>2, <3>1 DEF WallInvariant, WallTypeOK, EmptyWall
    <3> QED
      BY <3>2, EmptyWallIsTidy, PTL
  <2>12. CASE CarouselTick
    BY <1>2, <2>12, TickIsTidy
  <2> QED
    BY <1>2, <2>3, <2>4, <2>5, <2>6, <2>7, <2>8, <2>9, <2>10, <2>11, <2>12 DEF WallNext
<1> QED
  BY <1>1, <1>2

\* The wall's state keeps its types: slots of the layout show tiles of the order,
\* and the carousel's counter is kept small (admin-monitor.js).
THEOREM WallTypeCorrect == WallSpec => []WallTypeOK
<1>1. WallInvariant => WallTypeOK
  BY DEF WallInvariant
<1> QED
  BY <1>1, WallStaysTidy, PTL DEF WallSpec

\* No stream is shown in two slots, and no tile's controls act on another's slot
\* (admin-monitor.js: displayedTileKey and displaySlotIndex are written
\* separately).
THEOREM WallShowsOnce == WallSpec => []ShownOnce
<1>1. WallInvariant => ShownOnce
  BY DEF WallInvariant, Tidy
<1> QED
  BY <1>1, WallStaysTidy, PTL DEF WallSpec

\* The two records of a pin, pinnedTileKey of the slot and pinnedSlotIndex of the
\* tile, agree after any sequence of pins, swaps, removals and layouts.
THEOREM WallKeepsPins == WallSpec => []PinsAgree
<1>1. WallInvariant => PinsAgree
  BY DEF WallInvariant, Tidy
<1> QED
  BY <1>1, WallStaysTidy, PTL DEF WallSpec

\* Every connected tile is shown if the layout has room for all, and no slot stays
\* empty if it has not (redistributeSlots and applyCarouselBatch).
THEOREM WallIsUsed == WallSpec => []WallUsed
<1>1. WallInvariant => WallUsed
  BY DEF WallInvariant, Tidy
<1> QED
  BY <1>1, WallStaysTidy, PTL DEF WallSpec

\* The sound mark of a slot is that of the tile that knows it is there
\* (assignTileToSlot, syncTileControls).
THEOREM WallMarksTell == WallSpec => []MarksTell
<1>1. WallInvariant => MarksTell
  BY DEF WallInvariant, Tidy
<1> QED
  BY <1>1, WallStaysTidy, PTL DEF WallSpec

-----------------------------------------------------------------------------
(* AdminTables: each drawing moves the table to a page that exists.        *)

\* Rows are placed one after the other: their places are the numbers below the
\* number of rows, each taken by one row.
LEMMA PlacesAreTaken ==
  ASSUME NEW rows \in SUBSET Nat, IsFiniteSet(rows)
  PROVE  /\ Cardinality(rows) \in Nat
         /\ \A i \in rows : Place(i, rows) \in 0 .. Cardinality(rows) - 1
         /\ \A i, j \in rows : Place(i, rows) = Place(j, rows) => i = j
         /\ \A n \in 0 .. Cardinality(rows) - 1 : \E i \in rows : Place(i, rows) = n
<1> DEFINE c == Cardinality(rows)
<1>1. c \in Nat
  BY FS_CardinalityType
<1>2. ASSUME NEW i \in rows
      PROVE  Place(i, rows) = IF viewed = "audit" THEN c - 1 - Before(i, rows) ELSE Before(i, rows)
  <2> DEFINE below == {j \in rows : j < i}
             above == {j \in rows : j > i}
  <2>1. Place(i, rows) = IF viewed = "audit" THEN Cardinality(above) ELSE Cardinality(below)
    <3>1. CASE viewed = "audit"
      BY <3>1 DEF Place
    <3>2. CASE viewed # "audit"
      BY <3>2 DEF Place
    <3> QED
      BY <3>1, <3>2
  <2>2. below \in SUBSET rows /\ above \in SUBSET rows
    OBVIOUS
  <2>3. /\ IsFiniteSet(below) /\ Cardinality(below) \in Nat
        /\ IsFiniteSet(above) /\ Cardinality(above) \in Nat
    BY <2>2, FS_Subset, FS_CardinalityType
  <2>4. below \cup above = rows \ {i} /\ below \cap above = {}
    <3>1. \A j \in rows : j \in Nat /\ i \in Nat
      OBVIOUS
    <3>2. \A j \in rows : (j # i <=> j < i \/ j > i) /\ ~(j < i /\ j > i)
      BY <3>1
    <3> QED
      BY <3>2
  <2>5. Before(i, rows) = Cardinality(below)
    BY DEF Before
  <2> HIDE DEF below, above
  <2>6. Cardinality(rows \ {i}) = Cardinality(below) + Cardinality(above) - Cardinality({})
    BY <2>3, <2>4, FS_Union
  <2>7. Cardinality(rows \ {i}) = c - 1 /\ Cardinality({}) = 0
    BY FS_RemoveElement, FS_EmptySet
  <2> QED
    BY <1>1, <2>1, <2>3, <2>5, <2>6, <2>7
<1>3. ASSUME NEW i \in rows PROVE Before(i, rows) \in 0 .. c - 1
  BY BeforeIsRank
<1>4. ASSUME NEW i \in rows, NEW j \in rows, Before(i, rows) = Before(j, rows) PROVE i = j
  <2>1. ~(i < j) /\ ~(j < i) /\ i \in Nat /\ j \in Nat
    BY <1>1, <1>3, <1>4, BeforeIsRank
  <2> QED
    BY <2>1
<1>5. ASSUME NEW n \in 0 .. c - 1 PROVE \E i \in rows : Before(i, rows) = n
  BY EveryRankIsTaken
<1>6. ASSUME NEW i \in rows PROVE Place(i, rows) \in 0 .. c - 1
  BY <1>1, <1>2, <1>3
<1>7. ASSUME NEW i \in rows, NEW j \in rows, Place(i, rows) = Place(j, rows) PROVE i = j
  <2>1. Before(i, rows) = Before(j, rows)
    BY <1>1, <1>2, <1>3, <1>7
  <2> QED
    BY <1>4, <2>1
<1>8. ASSUME NEW n \in 0 .. c - 1 PROVE \E i \in rows : Place(i, rows) = n
  <2> DEFINE m == IF viewed = "audit" THEN c - 1 - n ELSE n
  <2>1. m \in 0 .. c - 1 /\ n = IF viewed = "audit" THEN c - 1 - m ELSE m
    BY <1>1
  <2>2. PICK i \in rows : Before(i, rows) = m
    BY <1>5, <2>1
  <2> QED
    BY <1>2, <2>1, <2>2
<1> QED
  BY <1>1, <1>6, <1>7, <1>8

\* There is always a page; the last one is not empty if there are rows, and the
\* pages hold all of them.
LEMMA PagesHoldAll ==
  ASSUME NEW n \in Nat, NEW s \in Nat \ {0}
  PROVE  /\ PagesFor(n, s) \in Nat \ {0}
         /\ n # 0 => (PagesFor(n, s) - 1) * s < n
         /\ n <= PagesFor(n, s) * s
<1>1. CASE n = 0
  BY <1>1 DEF PagesFor
<1>2. CASE n # 0
  <2> DEFINE x == n + s - 1
             q == x \div s
  <2>1. PagesFor(n, s) = q
    BY <1>2 DEF PagesFor
  <2>2. x \in Nat /\ x >= s
    BY <1>2
  <2> HIDE DEF x
  <2>3. x = s * q + (x % s) /\ q \in Nat /\ x % s \in 0 .. s - 1
    BY <2>2
  <2> HIDE DEF q
  <2>4. s * q <= n + s - 1 /\ n + s - 1 < s * q + s
    BY <2>3 DEF x
  <2>5. q # 0
    BY <2>2, <2>3
  <2>6. (q - 1) * s = s * q - s /\ q * s = s * q
    BY <2>3
  <2> QED
    BY <2>1, <2>3, <2>4, <2>5, <2>6
<1> QED
  BY <1>1, <1>2

\* A place lies on exactly one of the pages.
LEMMA OnePageEach ==
  ASSUME NEW n \in Nat, NEW s \in Nat \ {0}, NEW q \in 0 .. n - 1
  PROVE  \E p0 \in 1 .. PagesFor(n, s) :
            \A p \in 1 .. PagesFor(n, s) : (q >= (p - 1) * s /\ q < p * s) <=> p = p0
<1> DEFINE d == q \div s
           P == PagesFor(n, s)
<1>1. q \in Nat /\ q < n /\ n # 0
  OBVIOUS
<1>2. q = s * d + (q % s) /\ d \in Nat /\ q % s \in 0 .. s - 1
  BY <1>1
<1>3. P \in Nat \ {0} /\ n <= P * s
  BY PagesHoldAll
<1> HIDE DEF d, P
<1>4. s * d <= q /\ q < s * d + s
  BY <1>1, <1>2
<1>5. s * d < s * P
  <2>1. P * s = s * P
    BY <1>3
  <2> QED
    BY <1>1, <1>2, <1>3, <1>4, <2>1
<1>6. d < P
  BY <1>2, <1>3, <1>5
<1>7. ASSUME NEW p \in 1 .. P
      PROVE  (q >= (p - 1) * s /\ q < p * s) <=> p = d + 1
  <2>1. p \in Nat /\ (p - 1) * s = s * p - s /\ p * s = s * p /\ s * p \in Int /\ s * d \in Int
    BY <1>2, <1>3
  <2>2. CASE p = d + 1
    <3>1. s * p = s * d + s
      BY <1>2, <2>2
    <3> QED
      BY <1>4, <2>1, <2>2, <3>1
  <2>3. CASE p < d + 1
    <3>1. s * p <= s * d
      BY <1>2, <2>1, <2>3
    <3> QED
      BY <1>1, <1>4, <2>1, <2>3, <3>1
  <2>4. CASE p > d + 1
    <3>1. s * p >= s * (d + 2) /\ s * (d + 2) = s * d + s + s
      BY <1>2, <2>1, <2>4
    <3> QED
      BY <1>1, <1>4, <2>1, <2>4, <3>1
  <2> QED
    BY <1>2, <2>1, <2>2, <2>3, <2>4
<1>8. d + 1 \in 1 .. P
  BY <1>2, <1>3, <1>6
<1> QED
  BY <1>7, <1>8 DEF P

\* The table shows the current page of what it holds, and that page exists.
RowsShown ==
    /\ pageNo \in 1 .. Pages(held, pageSize, narrow)
    /\ drawn = Slice(held, pageNo, pageSize, narrow)

\* The inductive invariant.
TablesInvariant == TablesTypeOK /\ RowsShown

\* A version's rows, filtered or not, are finitely many numbers.
LEMMA VersionsHaveRows ==
  ASSUME NEW v \in Versions, NEW f \in BOOLEAN
  PROVE  /\ Filtered(v, f) \in SUBSET RowsOf(v) /\ Filtered(v, f) \in SUBSET Nat
         /\ IsFiniteSet(Filtered(v, f)) /\ Cardinality(Filtered(v, f)) \in Nat
         /\ LastVersion \in Nat \ {0}
<1>1. LastVersion \in Nat \ {0}
  BY TablesAssumption, EmptySeq DEF LastVersion
<1>2. v = 0 \/ v \in 1 .. Len(Rows)
  BY <1>1 DEF Versions, LastVersion
<1>3. RowsOf(v) \in SUBSET Nat /\ IsFiniteSet(RowsOf(v))
  <2>1. CASE v = 0
    BY <2>1, FS_EmptySet DEF RowsOf, Nothing
  <2>2. CASE v # 0
    <3>1. Rows[v] \in Nat
      BY <1>2, <2>2, TablesAssumption, ElementOfSeq
    <3>2. RowsOf(v) = 1 .. Rows[v]
      BY <2>2 DEF RowsOf, Nothing
    <3>3. IsFiniteSet(1 .. Rows[v])
      <4> DEFINE r == Rows[v]
      <4>1. r \in Int /\ 1 \in Int
        BY <3>1
      <4> HIDE DEF r
      <4>2. IsFiniteSet(1 .. r)
        BY <4>1, FS_Interval
      <4> QED
        BY <4>2 DEF r
    <3> QED
      BY <3>1, <3>2, <3>3
  <2> QED
    BY <2>1, <2>2
<1>4. Filtered(v, f) \in SUBSET RowsOf(v)
  BY DEF Filtered
<1>5. IsFiniteSet(Filtered(v, f)) /\ Cardinality(Filtered(v, f)) \in Nat
  BY <1>3, <1>4, FS_Subset, FS_CardinalityType
<1> QED
  BY <1>1, <1>3, <1>4, <1>5

\* A table that shows its page has every row on exactly one page.
LEMMA RowsAreOnOnePage ==
  ASSUME TablesTypeOK, RowsShown
  PROVE  EveryRowIsOnOnePage
<1> DEFINE rows == Filtered(held, narrow)
           n == Cardinality(rows)
           P == Pages(held, pageSize, narrow)
           s == pageSize
<1>1. /\ rows \in SUBSET Nat /\ IsFiniteSet(rows) /\ n \in Nat /\ s \in Nat \ {0}
      /\ P = PagesFor(n, s)
  BY VersionsHaveRows, TablesAssumption DEF TablesTypeOK, Pages
<1>2. \A p : Slice(held, p, s, narrow)
                = {i \in rows : Place(i, rows) >= (p - 1) * s /\ Place(i, rows) < p * s}
  BY DEF Slice
<1>3. pageNo \in 1 .. P /\ drawn = Slice(held, pageNo, s, narrow)
  BY DEF RowsShown
<1> HIDE DEF rows, n, P, s
<1>4. /\ \A i \in rows : Place(i, rows) \in 0 .. n - 1
      /\ \A q \in 0 .. n - 1 : \E i \in rows : Place(i, rows) = q
  BY <1>1, PlacesAreTaken DEF n
<1>5. ASSUME rows # {} PROVE drawn # {}
  <2>1. n # 0
    BY <1>1, <1>5, FS_EmptySet DEF n
  <2>2. P \in Nat \ {0} /\ (P - 1) * s < n
    BY <1>1, <2>1, PagesHoldAll
  <2>3. (pageNo - 1) * s \in 0 .. n - 1
    <3>1. pageNo \in Nat /\ pageNo - 1 >= 0 /\ pageNo - 1 <= P - 1
      BY <1>3, <2>2
    <3>2. (pageNo - 1) * s >= 0 /\ (pageNo - 1) * s <= (P - 1) * s /\ (pageNo - 1) * s \in Int
      BY <1>1, <2>2, <3>1
    <3> QED
      BY <1>1, <2>2, <3>2
  <2>4. PICK i \in rows : Place(i, rows) = (pageNo - 1) * s
    BY <1>4, <2>3
  <2>5. (pageNo - 1) * s < pageNo * s
    <3>1. pageNo \in Nat
      BY <1>3, <2>2
    <3> QED
      BY <1>1, <3>1
  <2>6. i \in {j \in rows : Place(j, rows) >= (pageNo - 1) * s /\ Place(j, rows) < pageNo * s}
    BY <2>3, <2>4, <2>5
  <2> QED
    BY <1>2, <1>3, <2>6
<1>6. ASSUME NEW i \in rows
      PROVE  Cardinality({p \in 1 .. P : i \in Slice(held, p, s, narrow)}) = 1
  <2>1. Place(i, rows) \in 0 .. n - 1
    BY <1>4
  <2>2. PICK p0 \in 1 .. P :
           \A p \in 1 .. P : (Place(i, rows) >= (p - 1) * s /\ Place(i, rows) < p * s) <=> p = p0
    BY <1>1, <2>1, OnePageEach
  <2>3. {p \in 1 .. P : i \in Slice(held, p, s, narrow)} = {p0}
    BY <1>2, <2>2
  <2> QED
    BY <2>3, FS_Singleton
<1> QED
  BY <1>3, <1>5, <1>6 DEF EveryRowIsOnOnePage, rows, P, s

\* Drawing the table moves it to a page that exists and shows that page.
LEMMA DrawnIsShown ==
  ASSUME NEW v \in Versions, NEW p \in Nat, NEW s \in Sizes, NEW f \in BOOLEAN,
         Draw(v, p, s, f), viewed' = viewed
  PROVE  /\ RowsShown'
         /\ held' \in Versions /\ pageNo' \in Nat \ {0} /\ pageSize' \in Sizes
         /\ narrow' \in BOOLEAN /\ drawn' \subseteq RowsOf(held')
<1>1. s \in Nat \ {0} /\ Cardinality(Filtered(v, f)) \in Nat /\ Filtered(v, f) \in SUBSET RowsOf(v)
  BY VersionsHaveRows, TablesAssumption
<1>2. Pages(v, s, f) \in Nat \ {0}
  BY <1>1, PagesHoldAll DEF Pages
<1>3. Clamped(p, v, s, f) \in 1 .. Pages(v, s, f)
  BY <1>2 DEF Clamped
<1>4. /\ held' = v /\ pageNo' = Clamped(p, v, s, f) /\ pageSize' = s /\ narrow' = f
      /\ drawn' = Slice(v, pageNo', s, f)
  BY DEF Draw
<1>5. Slice(v, pageNo', s, f) = Slice(v, pageNo, s, f)'
  BY <1>4 DEF Slice, Place
<1> QED
  BY <1>1, <1>2, <1>3, <1>4, <1>5 DEF RowsShown, Slice

\* The bounded sequences of the type invariant are the sequences of bounded
\* length.
LEMMA OutboxIsTyped ==
  UNION {[1 .. n -> Versions] : n \in 0 .. Outbound} = {o \in Seq(Versions) : Len(o) <= Outbound}
<1>1. Outbound \in Nat
  BY TablesAssumption
<1>2. ASSUME NEW n \in 0 .. Outbound, NEW o \in [1 .. n -> Versions]
      PROVE  o \in Seq(Versions) /\ Len(o) <= Outbound
  BY <1>1
<1>3. ASSUME NEW o \in Seq(Versions), Len(o) <= Outbound
      PROVE  \E n \in 0 .. Outbound : o \in [1 .. n -> Versions]
  BY <1>1, <1>3
<1> QED
  BY <1>2, <1>3

\* Queueing a message keeps the bound of the channel.
LEMMA QueueIsTyped ==
  ASSUME TablesTypeOK, NEW v \in Versions, Queue(v)
  PROVE  outbox' \in UNION {[1 .. n -> Versions] : n \in 0 .. Outbound}
<1>1. outbox \in Seq(Versions) /\ Len(outbox) <= Outbound
  BY OutboxIsTyped DEF TablesTypeOK
<1>2. outbox' \in Seq(Versions) /\ Len(outbox') <= Outbound
  BY <1>1, TablesAssumption DEF Queue
<1> QED
  BY <1>2, OutboxIsTyped

\* Versions are numbers, the page's first one included.
LEMMA VersionsAreNumbers ==
  /\ LastVersion \in Nat \ {0} /\ 0 \in Versions /\ Nothing \in Versions
  /\ 1 .. LastVersion \in SUBSET Versions
<1>1. LastVersion \in Nat \ {0}
  BY TablesAssumption, EmptySeq DEF LastVersion
<1> QED
  BY <1>1 DEF Versions, Nothing

\* A step that leaves the table alone leaves it as it was shown.
LEMMA TableStays ==
  ASSUME TablesInvariant, UNCHANGED tableVars, viewed' = viewed
  PROVE  /\ RowsShown'
         /\ held' \in Versions /\ pageNo' \in Nat \ {0} /\ pageSize' \in Sizes
         /\ narrow' \in BOOLEAN /\ drawn' \subseteq RowsOf(held')
  BY DEF TablesInvariant, TablesTypeOK, RowsShown, tableVars, Pages, Slice, Place

\* What a message or an answer brings is drawn at once, on a page that exists.
LEMMA ReceivedIsShown ==
  ASSUME TablesInvariant, NEW v \in Versions, Receive(v), viewed' = viewed
  PROVE  /\ RowsShown'
         /\ held' \in Versions /\ pageNo' \in Nat \ {0} /\ pageSize' \in Sizes
         /\ narrow' \in BOOLEAN /\ drawn' \subseteq RowsOf(held')
<1> DEFINE p == IF viewed = "audit" /\ pageNo > Pages(v, pageSize, narrow) THEN 1 ELSE pageNo
<1>1. p \in Nat /\ pageSize \in Sizes /\ narrow \in BOOLEAN
  BY DEF TablesInvariant, TablesTypeOK
<1>2. Draw(v, p, pageSize, narrow)
  BY DEF Receive
<1> HIDE DEF p
<1> QED
  BY <1>1, <1>2, DrawnIsShown

\* Every step keeps the invariant.
LEMMA TablesStep ==
  TablesInvariant /\ [TablesNext]_tablesVars => TablesInvariant'
<1> SUFFICES ASSUME TablesInvariant, [TablesNext]_tablesVars PROVE TablesInvariant'
  OBVIOUS
<1> USE DEF TablesInvariant
<1> DEFINE TableOK == /\ held \in Versions /\ pageNo \in Nat \ {0} /\ pageSize \in Sizes
                      /\ narrow \in BOOLEAN /\ drawn \subseteq RowsOf(held)
           ServerOK == /\ viewed \in {"rooms", "members", "audit"}
                       /\ data \in 1 .. LastVersion
                       /\ outbox \in UNION {[1 .. n -> Versions] : n \in 0 .. Outbound}
                       /\ making \in Versions \cup {None}
                       /\ asking \in Versions \cup {None, Sent}
                       /\ clearing \in Versions \cup {None}
                       /\ caught \in BOOLEAN
<1>1. TablesTypeOK <=> ServerOK /\ TableOK
  BY DEF TablesTypeOK
<1>2. TablesTypeOK' <=> ServerOK' /\ TableOK'
  BY DEF TablesTypeOK
<1>3. ServerOK /\ TableOK
  BY <1>1
<1>4. data \in Versions
  BY <1>3, VersionsAreNumbers
<1> HIDE DEF TableOK
<1>5. ASSUME viewed' = viewed, UNCHANGED tableVars PROVE TableOK' /\ RowsShown'
  BY <1>5, TableStays DEF TableOK
<1>6. ASSUME viewed' = viewed, NEW v \in Versions, Receive(v) PROVE TableOK' /\ RowsShown'
  BY <1>6, ReceivedIsShown DEF TableOK
<1>7. ASSUME viewed' = viewed, NEW v \in Versions, NEW p \in Nat, NEW s \in Sizes,
             NEW f \in BOOLEAN, Draw(v, p, s, f)
      PROVE  TableOK' /\ RowsShown'
  BY <1>7, DrawnIsShown DEF TableOK
<1>8. ASSUME outbox # <<>>, outbox' = Tail(outbox)
      PROVE  /\ Head(outbox) \in Versions
             /\ outbox' \in UNION {[1 .. n -> Versions] : n \in 0 .. Outbound}
  <2>1. outbox \in Seq(Versions) /\ Len(outbox) <= Outbound
    BY <1>3, OutboxIsTyped
  <2>2. Tail(outbox) \in Seq(Versions) /\ Len(Tail(outbox)) <= Outbound /\ Head(outbox) \in Versions
    BY <1>8, <2>1, TablesAssumption
  <2> QED
    BY <1>8, <2>2, OutboxIsTyped
<1>9. ASSUME NEW v \in Versions, Queue(v)
      PROVE  outbox' \in UNION {[1 .. n -> Versions] : n \in 0 .. Outbound}
  BY <1>9, QueueIsTyped
<1>10. /\ pageSize \in Sizes /\ narrow \in BOOLEAN /\ held \in Versions /\ 1 \in Nat
  BY <1>3 DEF TableOK
<1>11. CASE Change
  BY <1>2, <1>3, <1>4, <1>5, <1>11, VersionsAreNumbers DEF Change
<1>12. CASE Build
  BY <1>2, <1>3, <1>4, <1>5, <1>12 DEF Build
<1>13. CASE Broadcast
  <2>1. making \in Versions
    BY <1>3, <1>13 DEF Broadcast
  <2> QED
    BY <1>2, <1>3, <1>5, <1>9, <1>13, <2>1 DEF Broadcast
<1>14. CASE Refresh
  BY <1>2, <1>3, <1>4, <1>5, <1>9, <1>14 DEF Refresh
<1>15. CASE Message
  <2>1. /\ Head(outbox) \in Versions
        /\ outbox' \in UNION {[1 .. n -> Versions] : n \in 0 .. Outbound}
    BY <1>8, <1>15 DEF Message
  <2>2. UNCHANGED <<viewed, caught, data, making, clearing>>
    BY <1>15 DEF Message
  <2>3. CASE Receive(Head(outbox)) /\ UNCHANGED asking
    BY <1>2, <1>3, <1>6, <2>1, <2>2, <2>3
  <2>4. CASE UNCHANGED tableVars /\ asking' \in {asking, Sent}
    BY <1>2, <1>3, <1>5, <2>1, <2>2, <2>4
  <2> QED
    BY <1>15, <2>3, <2>4 DEF Message
<1>26. CASE TileCaught
  BY <1>2, <1>3, <1>5, <1>26 DEF TileCaught
<1>16. CASE Load
  BY <1>2, <1>3, <1>5, <1>16 DEF Load
<1>17. CASE Served
  BY <1>2, <1>3, <1>4, <1>5, <1>17 DEF Served
<1>18. CASE Loaded
  BY <1>2, <1>3, <1>6, <1>18 DEF Loaded
<1>19. CASE LoadFails
  BY <1>2, <1>3, <1>5, <1>19 DEF LoadFails
<1>20. CASE ClearAudit
  <2>1. data + 1 \in 1 .. LastVersion /\ data + 1 \in Versions
    BY <1>3, <1>20, VersionsAreNumbers DEF ClearAudit
  <2> QED
    BY <1>2, <1>3, <1>5, <1>20, <2>1 DEF ClearAudit
<1>21. CASE Cleared
  <2>1. clearing \in Versions
    BY <1>3, <1>21 DEF Cleared
  <2> QED
    BY <1>2, <1>3, <1>7, <1>10, <1>21, <2>1 DEF Cleared
<1>22. ASSUME NEW f \in BOOLEAN, Filter(f) PROVE TablesInvariant'
  BY <1>2, <1>3, <1>7, <1>10, <1>22 DEF Filter
<1>23. ASSUME NEW s \in Sizes, SetSize(s) PROVE TablesInvariant'
  BY <1>2, <1>3, <1>7, <1>10, <1>23 DEF SetSize
<1>24. ASSUME NEW p \in 0 .. Pages(held, pageSize, narrow) + 1, GoToPage(p)
       PROVE  TablesInvariant'
  <2> DEFINE next == Clamped(p, held, pageSize, narrow)
  <2>1. next \in Nat
    <3>1. Pages(held, pageSize, narrow) \in Nat \ {0}
      <4>1. Cardinality(Filtered(held, narrow)) \in Nat /\ pageSize \in Nat \ {0}
        BY <1>10, VersionsHaveRows, TablesAssumption
      <4> QED
        BY <4>1, PagesHoldAll DEF Pages
    <3> QED
      BY <3>1 DEF Clamped
  <2>2. Draw(held, next, pageSize, narrow)
    BY <1>24 DEF GoToPage
  <2> HIDE DEF next
  <2> QED
    BY <1>2, <1>3, <1>7, <1>10, <1>24, <2>1, <2>2 DEF GoToPage
<1>25. CASE UNCHANGED tablesVars
  BY <1>2, <1>3, <1>5, <1>25 DEF tablesVars, tableVars
<1> QED
  BY <1>11, <1>12, <1>13, <1>14, <1>15, <1>26, <1>16, <1>17, <1>18, <1>19, <1>20,
     <1>21, <1>22, <1>23, <1>24, <1>25 DEF TablesNext

\* An empty table shows its first page.
LEMMA TablesStart == TablesInit => TablesInvariant
<1> SUFFICES ASSUME TablesInit PROVE TablesInvariant
  OBVIOUS
<1>1. held = 0 /\ pageNo = 1 /\ drawn = {} /\ pageSize \in Sizes
  BY DEF TablesInit, Nothing
<1>2. narrow \in BOOLEAN
  BY DEF TablesInit
<1>3. Filtered(held, narrow) = {}
  BY <1>1 DEF Filtered, RowsOf, Nothing
<1>4. Pages(held, pageSize, narrow) = 1
  BY <1>3, FS_EmptySet DEF Pages, PagesFor
<1>5. RowsShown
  BY <1>1, <1>3, <1>4 DEF RowsShown, Slice
<1>6. outbox \in UNION {[1 .. n -> Versions] : n \in 0 .. Outbound}
  <2>1. outbox \in Seq(Versions) /\ Len(outbox) <= Outbound
    BY TablesAssumption DEF TablesInit
  <2> QED
    BY <2>1, OutboxIsTyped
<1>7. data \in 1 .. LastVersion /\ held \in Versions
  BY <1>1, VersionsAreNumbers DEF TablesInit
<1>8. TablesTypeOK
  <2>1. /\ viewed \in {"rooms", "members", "audit"} /\ making = None /\ asking = None
        /\ clearing = None /\ caught = FALSE
    BY DEF TablesInit
  <2>2. pageNo \in Nat \ {0} /\ drawn \subseteq RowsOf(held)
    BY <1>1
  <2> QED
    BY <1>1, <1>2, <1>6, <1>7, <2>1, <2>2 DEF TablesTypeOK
<1> QED
  BY <1>5, <1>8 DEF TablesInvariant

\* However messages, answers, filters, page sizes and jumps follow each other, a
\* table of the administrator's page draws the current page of the rows it holds
\* and no row is on two pages or on none (admin.js, admin-monitor.js: every
\* drawing clamps the page number).
THEOREM EveryRowShown == TablesSpec => [](TablesTypeOK /\ EveryRowIsOnOnePage)
<1>1. TablesInvariant => TablesTypeOK /\ EveryRowIsOnOnePage
  BY RowsAreOnOnePage DEF TablesInvariant
<1> QED
  BY <1>1, TablesStart, TablesStep, PTL DEF TablesSpec
=============================================================================
