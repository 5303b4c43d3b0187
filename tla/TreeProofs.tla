------------------------------ MODULE TreeProofs ------------------------------
(***************************************************************************)
(* Theorems about QuadTree, for any world whose sides the leaves divide,   *)
(* any number of bands and any depth.  The levels of the tree are a        *)
(* recursive function: the induction is done by the least number that is   *)
(* an exception, the natural numbers being well-founded.                   *)
(***************************************************************************)
EXTENDS QuadTree, WellFoundedInduction, TLAPS

-----------------------------------------------------------------------------
(* Induction. *)

\* A set of numbers has a least one.
LEMMA LeastNumber ==
    ASSUME NEW T, T \subseteq Nat, T # {}
    PROVE  \E n \in T : \A k \in T : n <= k
<1>1. PICK R : R = OpToRel(<, Nat)
  OBVIOUS
<1>2. IsWellFoundedOn(R, Nat)
  BY <1>1, NatLessThanWellFounded
<1>3. \A x, y \in Nat : <<x, y>> \in R <=> x < y
  BY <1>1 DEF OpToRel
<1>4. PICK n \in T : \A k \in T : <<k, n>> \notin R
  BY <1>2, WFMin
<1>5. \A k \in T : ~(k < n) /\ k \in Nat /\ n \in Nat
  BY <1>3, <1>4
<1> QED
  BY <1>5

\* A set that 0 is in and the successor of every member is all the numbers.
LEMMA AllNumbers ==
    ASSUME NEW T, T \subseteq Nat, 0 \in T, \A n \in T : n + 1 \in T
    PROVE  T = Nat
<1> SUFFICES ASSUME Nat \ T # {} PROVE FALSE
  OBVIOUS
<1>1. PICK n \in Nat \ T : \A k \in Nat \ T : n <= k
  BY LeastNumber
<1>2. n - 1 \in T
  BY <1>1
<1>3. n = n - 1 + 1
  BY <1>1
<1> QED
  BY <1>1, <1>2, <1>3

-----------------------------------------------------------------------------
(* The levels. *)

\* The recursive functions of QuadTree are what their equations say.
LEMMA AcrossDef ==
    Across = [d \in 0 .. QuadDepth |-> IF d = 0 THEN 1 ELSE 2 * Across[d - 1]]
<1> DEFINE Solves(g, n) ==
      g = [d \in 0 .. n |-> IF d = 0 THEN 1 ELSE 2 * g[d - 1]]
<1> DEFINE T == {n \in Nat : \E g : Solves(g, n)}
<1>1. 0 \in T
  <2>1. Solves([d \in 0 .. 0 |-> 1], 0)
    OBVIOUS
  <2> QED
    BY <2>1
<1>2. ASSUME NEW n \in T PROVE n + 1 \in T
  <2>1. PICK g : Solves(g, n)
    BY <1>2
  <2>2. PICK h : h = [d \in 0 .. n + 1 |-> IF d = 0 THEN 1 ELSE 2 * g[d - 1]]
    OBVIOUS
  <2>3. \A d \in 0 .. n : h[d] = g[d]
    BY <1>2, <2>1, <2>2
  <2>4. \A d \in 0 .. n + 1 : h[d] = IF d = 0 THEN 1 ELSE 2 * h[d - 1]
    <3> SUFFICES ASSUME NEW d \in 0 .. n + 1, d # 0 PROVE h[d] = 2 * h[d - 1]
      BY <2>2
    <3>1. d - 1 \in 0 .. n
      BY <1>2
    <3> QED
      BY <2>2, <2>3, <3>1
  <2>5. Solves(h, n + 1)
    BY <2>2, <2>4
  <2> QED
    BY <1>2, <2>5
<1>3. \E g : Solves(g, QuadDepth)
  <2> HIDE DEF Solves
  <2>1. T = Nat
    BY <1>1, <1>2, AllNumbers
  <2> QED
    BY <2>1, TreeAssumption
<1> QED
  BY <1>3 DEF Across

LEMMA NodesDef ==
    Nodes = [d \in 0 .. QuadDepth |->
               IF d = 0 THEN {World} ELSE UNION {Quarters(r) : r \in Nodes[d - 1]}]
<1> DEFINE Solves(g, n) ==
      g = [d \in 0 .. n |-> IF d = 0 THEN {World} ELSE UNION {Quarters(r) : r \in g[d - 1]}]
<1> DEFINE T == {n \in Nat : \E g : Solves(g, n)}
<1>1. 0 \in T
  <2>1. Solves([d \in 0 .. 0 |-> {World}], 0)
    OBVIOUS
  <2> QED
    BY <2>1
<1>2. ASSUME NEW n \in T PROVE n + 1 \in T
  <2>1. PICK g : Solves(g, n)
    BY <1>2
  <2>2. PICK h : h = [d \in 0 .. n + 1 |->
                        IF d = 0 THEN {World} ELSE UNION {Quarters(r) : r \in g[d - 1]}]
    OBVIOUS
  <2>3. \A d \in 0 .. n : h[d] = g[d]
    <3> TAKE d \in 0 .. n
    <3>1. g[d] = IF d = 0 THEN {World} ELSE UNION {Quarters(r) : r \in g[d - 1]}
      BY <2>1
    <3>2. h[d] = IF d = 0 THEN {World} ELSE UNION {Quarters(r) : r \in g[d - 1]}
      BY <1>2, <2>2
    <3> QED
      BY <3>1, <3>2
  <2>4. \A d \in 0 .. n + 1 :
           h[d] = IF d = 0 THEN {World} ELSE UNION {Quarters(r) : r \in h[d - 1]}
    <3> SUFFICES ASSUME NEW d \in 0 .. n + 1, d # 0
                 PROVE  h[d] = UNION {Quarters(r) : r \in h[d - 1]}
      BY <2>2
    <3>1. d - 1 \in 0 .. n
      BY <1>2
    <3> QED
      BY <2>2, <2>3, <3>1
  <2>5. Solves(h, n + 1)
    BY <2>2, <2>4
  <2> QED
    BY <1>2, <2>5
<1>3. \E g : Solves(g, QuadDepth)
  <2> HIDE DEF Solves
  <2>1. T = Nat
    BY <1>1, <1>2, AllNumbers
  <2> QED
    BY <2>1, TreeAssumption
<1> QED
  BY <1>3 DEF Nodes

LEMMA Cancel ==
    ASSUME NEW a \in Int, NEW x \in Int, NEW y \in Int, a # 0, a * x = a * y
    PROVE  x = y
<1>1. a * (x - y) = 0
  OBVIOUS
<1> QED
  BY <1>1

LEMMA AcrossFacts ==
    /\ 0 \in 0 .. QuadDepth /\ QuadDepth \in 0 .. QuadDepth /\ Across[0] = 1
    /\ \A d \in 0 .. QuadDepth : Across[d] \in Nat \ {0}
    /\ \A d \in 0 .. QuadDepth :
          d + 1 \in 0 .. QuadDepth => Across[d + 1] = 2 * Across[d]
<1>1. /\ \A d \in 0 .. QuadDepth : Across[d] = IF d = 0 THEN 1 ELSE 2 * Across[d - 1]
      /\ 0 \in 0 .. QuadDepth /\ QuadDepth \in 0 .. QuadDepth
  BY AcrossDef, TreeAssumption
<1>2. \A d \in 0 .. QuadDepth : d + 1 \in 0 .. QuadDepth => Across[d + 1] = 2 * Across[d]
  BY <1>1
<1>3. \A d \in 0 .. QuadDepth : Across[d] \in Nat \ {0}
  <2> DEFINE T == {n \in Nat : n <= QuadDepth => Across[n] \in Nat \ {0}}
  <2>1. 0 \in T
    BY <1>1
  <2>2. ASSUME NEW n \in T PROVE n + 1 \in T
    BY <1>2, <2>2, TreeAssumption
  <2>3. T = Nat
    <3> HIDE DEF T
    <3>1. T \subseteq Nat
      BY DEF T
    <3> QED
      BY <2>1, <2>2, <3>1, AllNumbers
  <2> QED
    BY <2>3
<1> QED
  BY <1>1, <1>2, <1>3

\* A length that the leaves divide is divided exactly at every level.
LEMMA Halving ==
    ASSUME NEW L \in Nat \ {0}, L % Across[QuadDepth] = 0
    PROVE  \E size \in [0 .. QuadDepth -> Nat \ {0}] :
              /\ \A d \in 0 .. QuadDepth : L = size[d] * Across[d]
              /\ \A d \in 0 .. QuadDepth : d + 1 \in 0 .. QuadDepth => size[d] = 2 * size[d + 1]
<1>1. \A d \in 0 .. QuadDepth : \E k \in Nat : L = k * Across[d]
  <2> DEFINE T == {n \in Nat : n <= QuadDepth => \E k \in Nat : L = k * Across[QuadDepth - n]}
  <2>1. 0 \in T
    <3>1. PICK a \in Nat \ {0} : a = Across[QuadDepth]
      BY AcrossFacts
    <3>2. L = (L \div a) * a + (L % a) /\ L \div a \in Nat
      BY <3>1
    <3>3. QuadDepth - 0 = QuadDepth /\ L = (L \div a) * Across[QuadDepth - 0]
      BY <3>1, <3>2, TreeAssumption
    <3> QED
      BY <3>2, <3>3
  <2>2. ASSUME NEW n \in T PROVE n + 1 \in T
    <3> SUFFICES ASSUME n + 1 <= QuadDepth
                 PROVE  \E k \in Nat : L = k * Across[QuadDepth - (n + 1)]
      BY <2>2
    <3>1. PICK d : d = QuadDepth - (n + 1)
      OBVIOUS
    <3>2. d \in 0 .. QuadDepth /\ d + 1 \in 0 .. QuadDepth /\ d + 1 = QuadDepth - n
      BY <2>2, <3>1, TreeAssumption
    <3>3. PICK k \in Nat : L = k * Across[d + 1]
      <4>1. n \in Nat /\ n <= QuadDepth
        BY <2>2, TreeAssumption
      <4> QED
        BY <2>2, <3>2, <4>1
    <3>4. PICK a \in Nat : a = Across[d] /\ Across[d + 1] = 2 * a
      BY <3>2, AcrossFacts
    <3>5. L = (2 * k) * a /\ 2 * k \in Nat
      BY <3>3, <3>4
    <3> QED
      BY <3>1, <3>4, <3>5
  <2>3. T = Nat
    <3> HIDE DEF T
    <3>1. T \subseteq Nat
      BY DEF T
    <3> QED
      BY <2>1, <2>2, <3>1, AllNumbers
  <2>4. ASSUME NEW d \in 0 .. QuadDepth PROVE \E k \in Nat : L = k * Across[d]
    <3>1. QuadDepth - d \in Nat /\ QuadDepth - d <= QuadDepth /\ QuadDepth - (QuadDepth - d) = d
      BY TreeAssumption
    <3>2. QuadDepth - d \in T
      BY <2>3, <3>1
    <3> QED
      BY <3>1, <3>2
  <2> QED
    BY <2>4
<1>2. PICK size : size = [d \in 0 .. QuadDepth |-> CHOOSE k \in Nat : L = k * Across[d]]
  OBVIOUS
<1>3. \A d \in 0 .. QuadDepth : size[d] \in Nat \ {0} /\ L = size[d] * Across[d]
  <2> TAKE d \in 0 .. QuadDepth
  <2>1. size[d] \in Nat /\ L = size[d] * Across[d]
    BY <1>1, <1>2
  <2>2. PICK a \in Nat : a = Across[d]
    BY AcrossFacts
  <2> QED
    BY <2>1, <2>2
<1>4. ASSUME NEW d \in 0 .. QuadDepth, d + 1 \in 0 .. QuadDepth PROVE size[d] = 2 * size[d + 1]
  <2>1. PICK a \in Nat \ {0} : a = Across[d] /\ Across[d + 1] = 2 * a
    BY <1>4, AcrossFacts
  <2>2. PICK k \in Nat, l \in Nat : k = size[d] /\ l = size[d + 1]
    BY <1>3, <1>4
  <2>3. L = k * a /\ L = l * (2 * a)
    BY <1>3, <1>4, <2>1, <2>2
  <2>4. a * k = a * (2 * l)
    BY <2>3
  <2> QED
    BY <2>1, <2>2, <2>4, Cancel
<1>5. size \in [0 .. QuadDepth -> Nat \ {0}]
  BY <1>2, <1>3
<1> QED
  BY <1>3, <1>4, <1>5

-----------------------------------------------------------------------------
(* The leaves are the cells of a grid. *)

Cell(i, j, w, h) == Rect(Point(i * w, j * h), Point((i + 1) * w, (j + 1) * h))

LEMMA QuartersOfACell ==
    ASSUME NEW i \in Nat, NEW j \in Nat, NEW w \in Nat, NEW h \in Nat
    PROVE  Quarters(Cell(i, j, 2 * w, 2 * h)) =
              {Cell(2 * i, 2 * j, w, h), Cell(2 * i + 1, 2 * j + 1, w, h),
               Cell(2 * i + 1, 2 * j, w, h), Cell(2 * i, 2 * j + 1, w, h)}
<1>1. ASSUME NEW k \in Nat, NEW s \in Nat
      PROVE  /\ k * (2 * s) = (2 * k) * s /\ (k + 1) * (2 * s) = (2 * k + 1 + 1) * s
             /\ (k * (2 * s) + (k + 1) * (2 * s)) \div 2 = (2 * k + 1) * s
  <2>1. k * (2 * s) = (2 * k) * s /\ (k + 1) * (2 * s) = (2 * k + 1 + 1) * s
    OBVIOUS
  <2>2. k * (2 * s) + (k + 1) * (2 * s) = 2 * ((2 * k + 1) * s) /\ (2 * k + 1) * s \in Int
    OBVIOUS
  <2> QED
    BY <2>1, <2>2
<1>2. PICK c : c = Point((2 * i + 1) * w, (2 * j + 1) * h)
  OBVIOUS
<1>3. Center(Cell(i, j, 2 * w, 2 * h)) = c
  BY <1>1, <1>2 DEF Center, Cell, Rect, Point
<1> QED
  BY <1>1, <1>2, <1>3 DEF Quarters, Cell, Rect, Point

\* What the leaves are: cells of a grid of w by h over the world, in which
\* every point of the world lies.
LeavesAreCells(w, h) ==
    /\ w \in Nat \ {0} /\ h \in Nat \ {0}
    /\ ShardCount * ShardWidth = w * Across[QuadDepth] /\ WorldHeight = h * Across[QuadDepth]
    /\ \A leaf \in Leaves : \E i, j \in 0 .. Across[QuadDepth] - 1 : leaf = Cell(i, j, w, h)
    /\ \A x, y \in Int :
          Contains(World, Point(x, y)) => \E leaf \in Leaves : Contains(leaf, Point(x, y))

LEMMA Lengths ==
    /\ ShardCount * ShardWidth \in Nat \ {0} /\ ShardCount \in Nat \ {0}
    /\ ShardWidth \in Nat \ {0} /\ WorldHeight \in Nat \ {0} /\ QuadDepth \in Nat
<1>1. ASSUME NEW a \in Nat \ {0}, NEW b \in Nat \ {0} PROVE a * b \in Nat \ {0}
  OBVIOUS
<1> QED
  BY <1>1, TreeAssumption

LEMMA Grid == \E w, h : LeavesAreCells(w, h)
<1>1. PICK wide \in [0 .. QuadDepth -> Nat \ {0}] :
         /\ \A d \in 0 .. QuadDepth : ShardCount * ShardWidth = wide[d] * Across[d]
         /\ \A d \in 0 .. QuadDepth : d + 1 \in 0 .. QuadDepth => wide[d] = 2 * wide[d + 1]
  BY Lengths, ExactHalves, Halving
<1>2. PICK high \in [0 .. QuadDepth -> Nat \ {0}] :
         /\ \A d \in 0 .. QuadDepth : WorldHeight = high[d] * Across[d]
         /\ \A d \in 0 .. QuadDepth : d + 1 \in 0 .. QuadDepth => high[d] = 2 * high[d + 1]
  BY Lengths, ExactHalves, Halving
<1> DEFINE OnGrid(d) ==
      \A r \in Nodes[d] : \E i, j \in 0 .. Across[d] - 1 : r = Cell(i, j, wide[d], high[d])
<1> DEFINE Cover(d) ==
      \A x, y \in Int : Contains(World, Point(x, y)) => \E r \in Nodes[d] : Contains(r, Point(x, y))
<1> DEFINE T == {n \in Nat : n \in 0 .. QuadDepth => OnGrid(n) /\ Cover(n)}
<1>3. 0 \in T
  <2>1. Nodes[0] = {World} /\ Across[0] = 1 /\ 0 \in 0 .. QuadDepth
    BY NodesDef, AcrossFacts
  <2>2. wide[0] = ShardCount * ShardWidth /\ high[0] = WorldHeight
    BY <1>1, <1>2, <2>1, Lengths
  <2>3. World = Cell(0, 0, wide[0], high[0])
    BY <2>2, Lengths DEF World, Cell
  <2>4. 0 \in 0 .. Across[0] - 1
    BY <2>1
  <2> QED
    BY <2>1, <2>3, <2>4
<1>4. ASSUME NEW n \in T PROVE n + 1 \in T
  <2> SUFFICES ASSUME n + 1 \in 0 .. QuadDepth PROVE OnGrid(n + 1) /\ Cover(n + 1)
    BY <1>4
  <2>1. n \in 0 .. QuadDepth /\ OnGrid(n) /\ Cover(n)
    BY <1>4, Lengths
  <2>2. Nodes[n + 1] = UNION {Quarters(r) : r \in Nodes[n]}
    BY <1>4, <2>1, NodesDef
  <2>3. PICK w \in Nat, h \in Nat :
           /\ w = wide[n + 1] /\ h = high[n + 1] /\ wide[n] = 2 * w /\ high[n] = 2 * h
    BY <1>1, <1>2, <2>1
  <2>4. PICK a \in Nat \ {0} : a = Across[n] /\ Across[n + 1] = 2 * a
    BY <2>1, AcrossFacts
  <2>5. OnGrid(n + 1)
    <3> SUFFICES ASSUME NEW q \in Nodes[n + 1]
                 PROVE  \E k, l \in 0 .. 2 * a - 1 : q = Cell(k, l, w, h)
      BY <2>3, <2>4
    <3>1. PICK r \in Nodes[n] : q \in Quarters(r)
      BY <2>2
    <3>2. PICK i \in 0 .. a - 1, j \in 0 .. a - 1 : r = Cell(i, j, 2 * w, 2 * h)
      BY <2>1, <2>3, <2>4, <3>1
    <3>3. i \in Nat /\ j \in Nat
      OBVIOUS
    <3>4. q \in {Cell(2 * i, 2 * j, w, h), Cell(2 * i + 1, 2 * j + 1, w, h),
                 Cell(2 * i + 1, 2 * j, w, h), Cell(2 * i, 2 * j + 1, w, h)}
      BY <3>1, <3>2, <3>3, QuartersOfACell
    <3>5. {2 * i, 2 * i + 1, 2 * j, 2 * j + 1} \subseteq 0 .. 2 * a - 1
      OBVIOUS
    <3> QED
      BY <3>4, <3>5
  <2>6. Cover(n + 1)
    <3> SUFFICES ASSUME NEW x \in Int, NEW y \in Int, Contains(World, Point(x, y))
                 PROVE  \E r \in Nodes[n + 1] : Contains(r, Point(x, y))
      OBVIOUS
    <3>1. PICK r \in Nodes[n] : Contains(r, Point(x, y))
      BY <2>1
    <3>2. PICK i \in 0 .. a - 1, j \in 0 .. a - 1 : r = Cell(i, j, 2 * w, 2 * h)
      BY <2>1, <2>3, <2>4
    <3>3. PICK c : c = Center(r)
      OBVIOUS
    <3>4. c.x \in Int /\ c.y \in Int
      <4>1. r.min.x + r.max.x \in Int /\ r.min.y + r.max.y \in Int
        BY <3>2 DEF Cell, Rect, Point
      <4> QED
        BY <3>3, <4>1 DEF Center, Point
    <3>5. \E q \in Quarters(r) : Contains(q, Point(x, y))
      BY <3>1, <3>3, <3>4 DEF Quarters, Contains, Rect, Point
    <3> QED
      BY <2>2, <3>5
  <2> QED
    BY <2>5, <2>6
<1>5. T = Nat
  <2> HIDE DEF T
  <2>1. T \subseteq Nat
    BY DEF T
  <2> QED
    BY <1>3, <1>4, <2>1, AllNumbers
<1>6. OnGrid(QuadDepth) /\ Cover(QuadDepth) /\ QuadDepth \in 0 .. QuadDepth
  <2> HIDE DEF OnGrid, Cover
  <2>1. QuadDepth \in 0 .. QuadDepth
    BY Lengths
  <2>2. QuadDepth \in T
    BY <1>5, Lengths
  <2> QED
    BY <2>1, <2>2
<1> QED
  BY <1>1, <1>2, <1>6 DEF LeavesAreCells, Leaves

\* A cell is where its row and its column are.
LEMMA CellContains ==
    ASSUME NEW i, NEW j, NEW w, NEW h, NEW x, NEW y
    PROVE  /\ Contains(Cell(i, j, w, h), Point(x, y)) <=>
                 i * w <= x /\ x < (i + 1) * w /\ j * h <= y /\ y < (j + 1) * h
           /\ Cell(i, j, w, h).min.x = i * w /\ Cell(i, j, w, h).max.x = (i + 1) * w
           /\ Cell(i, j, w, h).min.y = j * h /\ Cell(i, j, w, h).max.y = (j + 1) * h
BY DEF Contains, Cell, Rect, Point

LEMMA SameColumn ==
    ASSUME NEW i \in Int, NEW k \in Int, NEW w \in Nat \ {0}, NEW x \in Int,
           i * w <= x, x < (i + 1) * w, k * w <= x, x < (k + 1) * w
    PROVE  i = k
<1>1. ASSUME NEW a \in Int, NEW b \in Int, a * w <= x, x < (b + 1) * w PROVE a <= b
  <2>1. a * w < (b + 1) * w /\ (b + 1 - a) * w > 0
    BY <1>1
  <2>2. b + 1 - a > 0
    BY <2>1
  <2> QED
    BY <2>2
<1> QED
  BY <1>1

\* No position is in two leaves.
LEMMA LeavesAreApart ==
    ASSUME NEW x \in Int, NEW y \in Int, NEW leaf \in LeafFor(Point(x, y))
    PROVE  LeafFor(Point(x, y)) = {leaf}
<1> SUFFICES ASSUME NEW other \in LeafFor(Point(x, y)) PROVE other = leaf
  OBVIOUS
<1>1. PICK w, h : LeavesAreCells(w, h)
  BY Grid
<1>2. PICK a \in Nat \ {0} : a = Across[QuadDepth]
  BY AcrossFacts
<1>3. PICK i \in 0 .. a - 1, j \in 0 .. a - 1 : leaf = Cell(i, j, w, h)
  BY <1>1, <1>2 DEF LeafFor, LeavesAreCells
<1>4. PICK k \in 0 .. a - 1, l \in 0 .. a - 1 : other = Cell(k, l, w, h)
  BY <1>1, <1>2 DEF LeafFor, LeavesAreCells
<1>5. /\ i * w <= x /\ x < (i + 1) * w /\ j * h <= y /\ y < (j + 1) * h
      /\ k * w <= x /\ x < (k + 1) * w /\ l * h <= y /\ y < (l + 1) * h
  BY <1>3, <1>4, CellContains DEF LeafFor
<1>6. /\ i \in Int /\ j \in Int /\ k \in Int /\ l \in Int
      /\ w \in Nat \ {0} /\ h \in Nat \ {0}
  BY <1>1 DEF LeavesAreCells
<1>7. i = k
  BY <1>5, <1>6, SameColumn
<1>8. j = l
  BY <1>5, <1>6, SameColumn
<1> QED
  BY <1>3, <1>4, <1>7, <1>8

\* A position is in a leaf if and only if it is in the world.
LEMMA WorldIsCovered ==
    ASSUME NEW x \in Int, NEW y \in Int
    PROVE  LeafFor(Point(x, y)) # {} <=>
              0 <= x /\ x < ShardCount * ShardWidth /\ 0 <= y /\ y < WorldHeight
<1>1. PICK w, h : LeavesAreCells(w, h)
  BY Grid
<1>2. Contains(World, Point(x, y)) <=>
         0 <= x /\ x < ShardCount * ShardWidth /\ 0 <= y /\ y < WorldHeight
  BY DEF Contains, World, Rect, Point
<1>3. ASSUME NEW leaf \in LeafFor(Point(x, y))
      PROVE  0 <= x /\ x < ShardCount * ShardWidth /\ 0 <= y /\ y < WorldHeight
  <2>1. PICK a \in Nat \ {0} : a = Across[QuadDepth]
    BY AcrossFacts
  <2>2. PICK i \in 0 .. a - 1, j \in 0 .. a - 1 : leaf = Cell(i, j, w, h)
    BY <1>1, <2>1 DEF LeafFor, LeavesAreCells
  <2>3. i * w <= x /\ x < (i + 1) * w /\ j * h <= y /\ y < (j + 1) * h
    BY <2>2, CellContains DEF LeafFor
  <2>4. ASSUME NEW k \in 0 .. a - 1, NEW s \in Nat PROVE 0 <= k * s /\ (k + 1) * s <= s * a
    <3>1. (a - (k + 1)) * s >= 0 /\ k * s >= 0
      BY <2>4
    <3> QED
      BY <3>1, <2>4
  <2>5. /\ 0 <= i * w /\ (i + 1) * w <= ShardCount * ShardWidth
        /\ 0 <= j * h /\ (j + 1) * h <= WorldHeight
    BY <1>1, <2>1, <2>4 DEF LeavesAreCells
  <2> QED
    <3>1. i * w \in Int /\ (i + 1) * w \in Int /\ j * h \in Int /\ (j + 1) * h \in Int
          /\ ShardCount * ShardWidth \in Int /\ WorldHeight \in Int
      BY <1>1, Lengths DEF LeavesAreCells
    <3> QED
      BY <2>3, <2>5, <3>1
<1> QED
  BY <1>1, <1>2, <1>3 DEF LeavesAreCells, LeafFor

-----------------------------------------------------------------------------
(* Leaves and bands. *)

LEMMA Columns ==
    ASSUME NEW w, NEW h, LeavesAreCells(w, h), LeavesFitBands
    PROVE  \E m \in Nat \ {0} : Across[QuadDepth] = m * ShardCount /\ ShardWidth = m * w
<1>1. PICK a \in Nat \ {0} : a = Across[QuadDepth]
  BY AcrossFacts
<1>2. PICK n \in Nat \ {0} : n = ShardCount
  BY Lengths
<1>3. PICK m \in Nat : m = a \div n
  BY <1>1, <1>2
<1>4. a = m * n /\ m # 0
  <2>1. a = n * (a \div n) + (a % n) /\ a % n = 0
    BY <1>1, <1>2 DEF LeavesFitBands
  <2>2. a = n * m
    BY <1>1, <1>2, <1>3, <2>1
  <2> QED
    BY <1>1, <1>2, <1>3, <2>2
<1>5. w \in Nat /\ n * ShardWidth = w * a
  BY <1>1, <1>2 DEF LeavesAreCells
<1>6. n * ShardWidth = n * (m * w) /\ m * w \in Int
  <2>1. n * ShardWidth = w * (m * n)
    BY <1>4, <1>5
  <2> QED
    BY <1>5, <2>1
<1>7. ShardWidth = m * w
  <2>1. ShardWidth \in Int /\ n # 0
    BY <1>2, Lengths
  <2> QED
    BY <1>6, <2>1, Cancel
<1> QED
  BY <1>1, <1>2, <1>4, <1>7

\* A column of cells lies in one band, which is the one its centre is in.
LEMMA ColumnInBand ==
    ASSUME NEW m \in Nat \ {0}, NEW n \in Nat \ {0}, NEW w \in Nat \ {0}, NEW W \in Nat,
           W = m * w, NEW i \in 0 .. m * n - 1
    PROVE  \E s \in 0 .. n - 1 :
              /\ (i * w + (i + 1) * w) \div (2 * W) = s
              /\ s * W <= i * w /\ (i + 1) * w <= (s + 1) * W
<1>1. i \in Nat /\ m * n \in Nat /\ i < m * n
  OBVIOUS
<1>2. PICK s \in Nat : s = i \div m
  BY <1>1
<1>3. s * m <= i /\ i + 1 <= (s + 1) * m
  BY <1>1, <1>2
<1>4. s \in 0 .. n - 1
  <2>1. s * m < n * m
    BY <1>1, <1>3
  <2>2. (n - s) * m > 0
    BY <2>1
  <2>3. n - s > 0
    BY <2>2
  <2> QED
    BY <2>3
<1>5. ASSUME NEW x \in Nat, NEW y \in Nat, x <= y PROVE x * w <= y * w
  <2>1. (y - x) * w >= 0
    BY <1>5
  <2> QED
    BY <2>1
<1>6. s * W <= i * w /\ (i + 1) * w <= (s + 1) * W
  <2>1. (s * m) * w <= i * w /\ (i + 1) * w <= ((s + 1) * m) * w
    BY <1>1, <1>3, <1>5
  <2>2. (s * m) * w = s * W /\ ((s + 1) * m) * w = (s + 1) * W
    OBVIOUS
  <2> QED
    BY <2>1, <2>2
<1>7. (i * w + (i + 1) * w) \div (2 * W) = s
  <2>1. PICK low \in Nat : low = i * w
    BY <1>1
  <2>2. (i + 1) * w = low + w
    BY <1>1, <2>1
  <2>3. W \in Nat \ {0}
    OBVIOUS
  <2>4. /\ s * (2 * W) <= low + (low + w) /\ low + (low + w) < (s + 1) * (2 * W)
    BY <1>6, <2>1, <2>2, <2>3
  <2>5. ASSUME NEW d \in Nat \ {0}, NEW z \in Nat, s * d <= z, z < (s + 1) * d
        PROVE  z \div d = s
    <3>1. z = d * (z \div d) + (z % d) /\ z % d \in 0 .. d - 1 /\ z \div d \in Nat
      BY <2>5
    <3>2. PICK q \in Nat, r \in Nat : q = z \div d /\ r = z % d
      BY <3>1
    <3>3. q * d <= z /\ z < (q + 1) * d
      BY <3>1, <3>2
    <3> QED
      BY <2>5, <3>2, <3>3, SameColumn
  <2>6. 2 * W \in Nat \ {0} /\ low + (low + w) \in Nat
    BY <2>3
  <2> QED
    BY <2>1, <2>2, <2>4, <2>5, <2>6
<1> QED
  BY <1>4, <1>6, <1>7

LEMMA LeafInBand ==
    ASSUME LeavesFitBands, NEW leaf \in Leaves
    PROVE  /\ ShardOfLeaf(leaf) \in 0 .. ShardCount - 1
           /\ leaf.min.x \in Int /\ leaf.max.x \in Int /\ leaf.min.x < leaf.max.x
           /\ ShardOfLeaf(leaf) * ShardWidth <= leaf.min.x
           /\ leaf.max.x <= (ShardOfLeaf(leaf) + 1) * ShardWidth
<1>1. PICK w, h : LeavesAreCells(w, h)
  BY Grid
<1>2. PICK m \in Nat \ {0} : Across[QuadDepth] = m * ShardCount /\ ShardWidth = m * w
  BY <1>1, Columns
<1>3. PICK i, j : i \in 0 .. m * ShardCount - 1 /\ leaf = Cell(i, j, w, h)
  BY <1>1, <1>2 DEF LeavesAreCells
<1>4. /\ leaf.min.x = i * w /\ leaf.max.x = (i + 1) * w
      /\ w \in Nat \ {0} /\ i \in Int /\ m * ShardCount \in Int
  <2>1. w \in Nat \ {0} /\ m * ShardCount \in Int
    BY <1>1, Lengths DEF LeavesAreCells
  <2> QED
    BY <1>3, <2>1, CellContains
<1>5. PICK s \in 0 .. ShardCount - 1 :
         /\ (i * w + (i + 1) * w) \div (2 * ShardWidth) = s
         /\ s * ShardWidth <= i * w /\ (i + 1) * w <= (s + 1) * ShardWidth
  <2>1. w \in Nat \ {0} /\ ShardCount \in Nat \ {0} /\ ShardWidth \in Nat
    BY <1>4, Lengths
  <2> QED
    BY <1>2, <1>3, <2>1, ColumnInBand
<1>6. ShardOfLeaf(leaf) = s
  BY <1>4, <1>5 DEF ShardOfLeaf
<1> QED
  BY <1>4, <1>5, <1>6

\* A number lies in the one interval that its quotient names.
LEMMA Quotient ==
    ASSUME NEW d \in Nat \ {0}, NEW s \in Int, NEW x \in Int
    PROVE  s * d <= x /\ x < (s + 1) * d <=> x \div d = s
<1>1. x = d * (x \div d) + (x % d) /\ x % d \in 0 .. d - 1 /\ x \div d \in Int
  OBVIOUS
<1>2. PICK q \in Int, r \in Int : q = x \div d /\ r = x % d
  BY <1>1
<1>3. q * d <= x /\ x < (q + 1) * d
  BY <1>1, <1>2
<1> QED
  BY <1>2, <1>3, SameColumn

LEMMA PlaceInside ==
    ASSUME NEW p \in Inside
    PROVE  \E x, y \in Int :
              /\ p = Point(x, y) /\ 0 <= x /\ x < ShardCount * ShardWidth
              /\ 0 <= y /\ y < WorldHeight
<1>1. PICK x \in 0 .. ShardCount * ShardWidth - 1, y \in 0 .. WorldHeight - 1 : p = Point(x, y)
  BY DEF Inside
<1>2. ShardCount * ShardWidth \in Int /\ WorldHeight \in Int
  BY Lengths
<1>3. x \in Int /\ y \in Int
  BY <1>2
<1> QED
  BY <1>1, <1>2, <1>3

LEMMA BandOfAPlace ==
    ASSUME LeavesFitBands, NEW x \in Int, NEW y \in Int, NEW leaf \in LeafFor(Point(x, y))
    PROVE  ShardOfLeaf(leaf) = x \div ShardWidth /\ ShardFor(Point(x, y)) = {x \div ShardWidth}
<1>1. PICK s \in 0 .. ShardCount - 1 :
         /\ s = ShardOfLeaf(leaf)
         /\ leaf.min.x \in Int /\ leaf.max.x \in Int
         /\ s * ShardWidth <= leaf.min.x /\ leaf.max.x <= (s + 1) * ShardWidth
  BY LeafInBand DEF LeafFor
<1>2. leaf.min.x <= x /\ x < leaf.max.x
  BY DEF LeafFor, Contains, Point
<1>3. s * ShardWidth <= x /\ x < (s + 1) * ShardWidth
  <2>1. s * ShardWidth \in Int /\ (s + 1) * ShardWidth \in Int
    BY Lengths
  <2> QED
    BY <1>1, <1>2, <2>1
<1>4. x \div ShardWidth = s
  BY <1>3, Quotient, Lengths
<1>5. ShardFor(Point(x, y)) = {ShardOfLeaf(leaf)}
  BY LeavesAreApart DEF ShardFor
<1> QED
  BY <1>1, <1>4, <1>5

LEMMA FittingTreeFollows == LeavesFitBands => TreeFollowsBands
<1> SUFFICES ASSUME LeavesFitBands, NEW p \in Inside
             PROVE  \E leaf \in Leaves : LeafFor(p) = {leaf} /\ ShardFor(p) = {p.x \div ShardWidth}
  BY DEF TreeFollowsBands
<1>1. PICK x \in Int, y \in Int :
         /\ p = Point(x, y) /\ 0 <= x /\ x < ShardCount * ShardWidth /\ 0 <= y /\ y < WorldHeight
  BY PlaceInside
<1>2. PICK leaf : leaf \in LeafFor(p)
  BY <1>1, WorldIsCovered
<1>3. leaf \in Leaves /\ LeafFor(p) = {leaf} /\ p.x = x
  BY <1>1, <1>2, LeavesAreApart DEF LeafFor, Point
<1> QED
  BY <1>1, <1>2, <1>3, BandOfAPlace

LEMMA FollowingTreeFits == TreeFollowsBands => LeavesFitBands
<1> SUFFICES ASSUME TreeFollowsBands PROVE LeavesFitBands
  OBVIOUS
<1>1. PICK w, h : LeavesAreCells(w, h)
  BY Grid
<1>2. PICK a \in Nat \ {0} : a = Across[QuadDepth]
  BY AcrossFacts
<1>3. PICK n \in Nat \ {0}, W \in Nat \ {0} : n = ShardCount /\ W = ShardWidth
  BY Lengths
<1>4. w \in Nat \ {0} /\ n * W = w * a
  BY <1>1, <1>2, <1>3 DEF LeavesAreCells
<1>5. CASE n = 1
  BY <1>2, <1>3, <1>5 DEF LeavesFitBands
<1>6. CASE n # 1
  \* The first edge between two bands is in the leaf of the column i, which
  \* begins there: a leaf that began before it would be in both bands.
  <2>1. W < n * W /\ 0 < W /\ n * W \in Int
    <3>1. (n - 1) * W > 0
      BY <1>6
    <3> QED
      BY <3>1
  <2>2. 0 \in Int /\ 0 <= 0 /\ 0 < WorldHeight /\ 0 \in 0 .. WorldHeight - 1
    BY Lengths
  <2>3. PICK leaf : leaf \in LeafFor(Point(W, 0))
    BY <1>3, <2>1, <2>2, WorldIsCovered
  <2>4. PICK i \in 0 .. a - 1, j \in 0 .. a - 1 : leaf = Cell(i, j, w, h)
    BY <1>1, <1>2, <2>3 DEF LeafFor, LeavesAreCells
  <2>5. i * w <= W /\ W < (i + 1) * w /\ j * h <= 0 /\ 0 < (j + 1) * h /\ leaf \in Leaves
    BY <2>3, <2>4, CellContains DEF LeafFor
  <2>6. i * w = W
    <3> SUFFICES ASSUME i * w # W PROVE FALSE
      OBVIOUS
    <3>1. PICK b \in Int : b = i * w
      BY <1>4
    <3>2. b <= W - 1 /\ W - 1 < (i + 1) * w
      <4>1. (i + 1) * w \in Int
        BY <1>4
      <4> QED
        BY <2>5, <3>1, <4>1
    <3>3. leaf \in LeafFor(Point(W - 1, 0))
      BY <2>4, <2>5, <3>1, <3>2, CellContains DEF LeafFor
    <3>4. Point(W, 0) \in Inside /\ Point(W - 1, 0) \in Inside
      <4>1. W \in 0 .. n * W - 1 /\ W - 1 \in 0 .. n * W - 1
        BY <2>1
      <4> QED
        BY <1>3, <2>2, <4>1 DEF Inside
    <3>5. ShardFor(Point(W, 0)) = {W \div W} /\ ShardFor(Point(W - 1, 0)) = {(W - 1) \div W}
      BY <1>3, <3>4 DEF TreeFollowsBands, Point
    <3>6. W \div W = 1 /\ (W - 1) \div W = 0
      <4>1. 1 * W <= W /\ W < (1 + 1) * W /\ 0 * W <= W - 1 /\ W - 1 < (0 + 1) * W
        OBVIOUS
      <4> QED
        BY <4>1, Quotient
    <3>7. ShardOfLeaf(leaf) \in ShardFor(Point(W, 0)) /\ ShardOfLeaf(leaf) \in ShardFor(Point(W - 1, 0))
      BY <2>3, <3>3 DEF ShardFor
    <3> QED
      BY <3>5, <3>6, <3>7
  <2>7. a = n * i
    <3>1. w * (n * i) = w * a /\ n * i \in Int /\ w # 0
      <4>1. n * (i * w) = w * a
        BY <1>4, <2>6
      <4>2. n * (i * w) = w * (n * i)
        BY <1>4
      <4> QED
        BY <1>4, <4>1, <4>2
    <3> QED
      BY <1>4, <3>1, Cancel
  <2> QED
    <3>1. (n * i) % n = 0
      OBVIOUS
    <3> QED
      BY <1>2, <1>3, <2>7, <3>1 DEF LeavesFitBands
<1> QED
  BY <1>5, <1>6

\* The quadtree knows the bands if and only if the leaves across the world
\* are shared out evenly: the shard of a position's leaf is the shard in
\* whose band the position is.
THEOREM TreeKnowsBands == TreeFollowsBands <=> LeavesFitBands
BY FittingTreeFollows, FollowingTreeFits

\* A row or a column of leaves that a position is in: from a place in a band
\* or in the world to the cell around it.
LEMMA CellAround ==
    ASSUME NEW x \in Int, NEW y \in Int,
           0 <= x, x < ShardCount * ShardWidth, 0 <= y, y < WorldHeight
    PROVE  \E leaf \in Leaves :
              /\ leaf.min.x \in Int /\ leaf.max.x \in Int /\ leaf.min.x <= x /\ x < leaf.max.x
              /\ leaf.min.y \in Int /\ leaf.max.y \in Int /\ leaf.min.y <= y /\ y < leaf.max.y
<1>1. PICK w, h : LeavesAreCells(w, h)
  BY Grid
<1>2. PICK leaf : leaf \in LeafFor(Point(x, y))
  BY WorldIsCovered
<1>3. PICK i, j \in 0 .. Across[QuadDepth] - 1 : leaf = Cell(i, j, w, h)
  BY <1>1, <1>2 DEF LeafFor, LeavesAreCells
<1>4. /\ i * w \in Int /\ (i + 1) * w \in Int /\ j * h \in Int /\ (j + 1) * h \in Int
  <2>1. i \in Int /\ j \in Int /\ w \in Int /\ h \in Int
    BY <1>1, <1>3, AcrossFacts, Lengths DEF LeavesAreCells
  <2> QED
    BY <2>1
<1>5. leaf \in Leaves /\ Contains(leaf, Point(x, y))
  BY <1>2 DEF LeafFor
<1> QED
  BY <1>3, <1>4, <1>5, CellContains

LEMMA NearIsInBand ==
    ASSUME LeavesFitBands, NEW margin \in Nat \ {0}, NEW x \in Int, NEW y \in Int,
           NEW s \in ShardsNear(Point(x, y), margin)
    PROVE  /\ s \in 0 .. ShardCount - 1
           /\ s * ShardWidth < x + margin /\ x - margin < (s + 1) * ShardWidth
<1>1. PICK leaf \in Leaves :
         /\ s = ShardOfLeaf(leaf)
         /\ Intersects(leaf, Rect(Point(x - margin, y - margin), Point(x + margin, y + margin)))
  BY DEF ShardsNear, LeavesNear, Around, Point
<1>2. leaf.min.x < x + margin /\ x - margin < leaf.max.x
  BY <1>1 DEF Intersects, Rect, Point
<1>3. /\ s \in 0 .. ShardCount - 1 /\ leaf.min.x \in Int /\ leaf.max.x \in Int
      /\ s * ShardWidth <= leaf.min.x /\ leaf.max.x <= (s + 1) * ShardWidth
  BY <1>1, LeafInBand
<1>4. s * ShardWidth \in Int /\ (s + 1) * ShardWidth \in Int
  BY <1>3, Lengths
<1> QED
  BY <1>2, <1>3, <1>4

LEMMA BandIsNear ==
    ASSUME LeavesFitBands, NEW margin \in Nat \ {0}, NEW x \in Int, NEW y \in Int,
           0 <= x, x < ShardCount * ShardWidth, 0 <= y, y < WorldHeight,
           NEW s \in 0 .. ShardCount - 1,
           s * ShardWidth < x + margin, x - margin < (s + 1) * ShardWidth
    PROVE  s \in ShardsNear(Point(x, y), margin)
<1>1. PICK low \in Int, high \in Int :
         /\ low = s * ShardWidth /\ high = (s + 1) * ShardWidth
         /\ 0 <= low /\ low < high /\ high <= ShardCount * ShardWidth
  <2>1. PICK n \in Nat \ {0}, W \in Nat \ {0} : n = ShardCount /\ W = ShardWidth
    BY Lengths
  <2>2. s \in 0 .. n - 1
    BY <2>1
  <2>3. s * W >= 0 /\ (n - (s + 1)) * W >= 0
    BY <2>2
  <2> QED
    BY <2>1, <2>2, <2>3
\* A place of the band that is within the margin.
<1>2. PICK z \in Int : /\ low <= z /\ z < high /\ x - margin <= z /\ z < x + margin
  <2>1. CASE x - margin <= low
    BY <1>1, <2>1
  <2>2. CASE low < x - margin
    BY <1>1, <2>2
  <2> QED
    BY <1>1, <2>1, <2>2
<1>3. 0 <= z /\ z < ShardCount * ShardWidth
  BY <1>1, <1>2, Lengths
<1>4. PICK leaf \in Leaves :
         /\ leaf.min.x \in Int /\ leaf.max.x \in Int /\ leaf.min.x <= z /\ z < leaf.max.x
         /\ leaf.min.y \in Int /\ leaf.max.y \in Int /\ leaf.min.y <= y /\ y < leaf.max.y
  BY <1>3, CellAround
<1>5. leaf \in LeafFor(Point(z, y))
  BY <1>4 DEF LeafFor, Contains, Point
<1>6. ShardOfLeaf(leaf) = s
  <2>1. z \div ShardWidth = s
    BY <1>1, <1>2, Quotient, Lengths
  <2> QED
    BY <1>5, <2>1, BandOfAPlace
<1>7. Intersects(leaf, Rect(Point(x - margin, y - margin), Point(x + margin, y + margin)))
  BY <1>2, <1>4 DEF Intersects, Rect, Point
<1> QED
  BY <1>6, <1>7 DEF ShardsNear, LeavesNear, Around, Point

\* In a tree that knows the bands the shards near a position are those whose
\* bands come within the margin of it, whatever the margin.
THEOREM TreeKnowsTheFrontiers ==
    ASSUME NEW margin \in Nat \ {0} PROVE TreeFollowsBands => NearFollowsBands(margin)
<1> SUFFICES ASSUME LeavesFitBands, NEW p \in Inside
             PROVE  ShardsNear(p, margin) =
                       {s \in 0 .. ShardCount - 1 :
                           s * ShardWidth < p.x + margin /\ p.x - margin < (s + 1) * ShardWidth}
  BY FollowingTreeFits DEF NearFollowsBands
<1>1. PICK x \in Int, y \in Int :
         /\ p = Point(x, y) /\ 0 <= x /\ x < ShardCount * ShardWidth /\ 0 <= y /\ y < WorldHeight
  BY PlaceInside
<1>2. p.x = x
  BY <1>1 DEF Point
<1> QED
  BY <1>1, <1>2, NearIsInBand, BandIsNear

-----------------------------------------------------------------------------
(* The descents. *)

\* A node holds its children.
LEMMA ChildrenAreInside ==
    ASSUME NEW d \in 0 .. QuadDepth
    PROVE  \A r \in Nodes[d] :
              /\ r.min.x \in Int /\ r.max.x \in Int /\ r.min.x <= r.max.x
              /\ r.min.y \in Int /\ r.max.y \in Int /\ r.min.y <= r.max.y
              /\ \A q \in Quarters(r) :
                    /\ r.min.x <= q.min.x /\ q.min.x <= q.max.x /\ q.max.x <= r.max.x
                    /\ r.min.y <= q.min.y /\ q.min.y <= q.max.y /\ q.max.y <= r.max.y
                    /\ q.min.x \in Int /\ q.max.x \in Int /\ q.min.y \in Int /\ q.max.y \in Int
<1> DEFINE Ordered(r) ==
      /\ r.min.x \in Int /\ r.max.x \in Int /\ r.min.x <= r.max.x
      /\ r.min.y \in Int /\ r.max.y \in Int /\ r.min.y <= r.max.y
<1> DEFINE Holds(r, q) ==
      /\ r.min.x <= q.min.x /\ q.max.x <= r.max.x /\ r.min.y <= q.min.y /\ q.max.y <= r.max.y
<1>1. ASSUME NEW r, Ordered(r), NEW q \in Quarters(r) PROVE Ordered(q) /\ Holds(r, q)
  <2>1. PICK c : c = Center(r)
    OBVIOUS
  <2>2. /\ c.x \in Int /\ r.min.x <= c.x /\ c.x <= r.max.x
        /\ c.y \in Int /\ r.min.y <= c.y /\ c.y <= r.max.y
    <3>1. ASSUME NEW a \in Int, NEW b \in Int, a <= b
          PROVE  (a + b) \div 2 \in Int /\ a <= (a + b) \div 2 /\ (a + b) \div 2 <= b
      BY <3>1
    <3> QED
      BY <1>1, <2>1, <3>1 DEF Center, Point
  <2> QED
    BY <1>1, <2>1, <2>2 DEF Quarters, Rect, Point
<1> DEFINE T == {n \in Nat : n \in 0 .. QuadDepth => \A r \in Nodes[n] : Ordered(r)}
<1>2. 0 \in T
  <2>1. Nodes[0] = {World}
    BY NodesDef, AcrossFacts
  <2>2. Ordered(World)
    BY Lengths DEF World, Rect, Point
  <2> QED
    BY <2>1, <2>2
<1>3. ASSUME NEW n \in T PROVE n + 1 \in T
  <2> HIDE DEF Ordered, Holds
  <2> SUFFICES ASSUME n + 1 \in 0 .. QuadDepth, NEW q \in Nodes[n + 1] PROVE Ordered(q)
    BY <1>3
  <2>1. n \in 0 .. QuadDepth /\ \A r \in Nodes[n] : Ordered(r)
    BY <1>3, Lengths
  <2>2. Nodes[n + 1] = UNION {Quarters(r) : r \in Nodes[n]}
    BY <1>3, <2>1, NodesDef
  <2> QED
    BY <1>1, <2>1, <2>2
<1>4. T = Nat
  <2> HIDE DEF T
  <2>1. T \subseteq Nat
    BY DEF T
  <2> QED
    BY <1>2, <1>3, <2>1, AllNumbers
<1>5. \A r \in Nodes[d] : Ordered(r)
  <2> HIDE DEF Ordered
  <2> QED
    BY <1>4, Lengths
<1> QED
  BY <1>1, <1>5

LEMMA DescentDef ==
    ASSUME NEW passing
    PROVE  \E reached :
              /\ reached = [d \in 0 .. QuadDepth |->
                    passing \cap (IF d = 0 THEN {World} ELSE UNION {Quarters(r) : r \in reached[d - 1]})]
              /\ Descended(passing) = reached[QuadDepth]
<1> DEFINE Step(S, d, before) ==
      S \cap (IF d = 0 THEN {World} ELSE UNION {Quarters(r) : r \in before})
<1> DEFINE Solves(g, n) == g = [d \in 0 .. n |-> Step(passing, d, g[d - 1])]
<1> DEFINE T == {n \in Nat : \E g : Solves(g, n)}
<1>1. 0 \in T
  <2>1. Solves([d \in 0 .. 0 |-> passing \cap {World}], 0)
    OBVIOUS
  <2> QED
    BY <2>1
<1>2. ASSUME NEW n \in T PROVE n + 1 \in T
  <2> HIDE DEF Step
  <2>1. PICK g : Solves(g, n)
    BY <1>2
  <2>2. PICK h : h = [d \in 0 .. n + 1 |-> Step(passing, d, g[d - 1])]
    OBVIOUS
  <2>3. \A d \in 0 .. n : h[d] = g[d]
    BY <1>2, <2>1, <2>2
  <2>4. \A d \in 0 .. n + 1 : h[d] = Step(passing, d, h[d - 1])
    <3> SUFFICES ASSUME NEW d \in 0 .. n + 1 PROVE h[d] = Step(passing, d, h[d - 1])
      OBVIOUS
    <3>1. CASE d = 0
      BY <2>2, <3>1 DEF Step
    <3>2. CASE d # 0
      <4>1. d - 1 \in 0 .. n
        BY <1>2, <3>2
      <4> QED
        BY <2>2, <2>3, <4>1
    <3> QED
      BY <3>1, <3>2
  <2>5. Solves(h, n + 1)
    BY <2>2, <2>4
  <2> QED
    BY <1>2, <2>5
<1>3. \E g : Solves(g, QuadDepth)
  <2> HIDE DEF Solves
  <2>1. T = Nat
    BY <1>1, <1>2, AllNumbers
  <2> QED
    BY <2>1, TreeAssumption
<1>4. PICK reached : reached = CHOOSE g : Solves(g, QuadDepth)
  OBVIOUS
<1>5. Solves(reached, QuadDepth)
  <2> HIDE DEF Solves
  <2> QED
    BY <1>3, <1>4
<1>6. Descended(passing) = reached[QuadDepth]
  BY <1>4 DEF Descended
<1> QED
  BY <1>5, <1>6

\* A test that a node passes when one of its children does prunes nothing
\* that passes it.
LEMMA DescentMissesNothing ==
    ASSUME NEW passing,
           \A d \in 0 .. QuadDepth : \A r \in Nodes[d] : \A q \in Quarters(r) :
               q \in passing => r \in passing
    PROVE  Descended(passing) = passing \cap Leaves
<1>1. PICK reached :
         /\ reached = [d \in 0 .. QuadDepth |->
              passing \cap (IF d = 0 THEN {World} ELSE UNION {Quarters(r) : r \in reached[d - 1]})]
         /\ Descended(passing) = reached[QuadDepth]
  BY DescentDef
<1>2. /\ reached[0] = passing \cap {World}
      /\ \A d \in 0 .. QuadDepth : d # 0 =>
            reached[d] = passing \cap UNION {Quarters(r) : r \in reached[d - 1]}
  BY <1>1, AcrossFacts
<1> DEFINE T == {n \in Nat : n \in 0 .. QuadDepth => reached[n] = passing \cap Nodes[n]}
<1>3. 0 \in T
  BY <1>2, NodesDef, AcrossFacts
<1>4. ASSUME NEW n \in T PROVE n + 1 \in T
  <2> SUFFICES ASSUME n + 1 \in 0 .. QuadDepth PROVE reached[n + 1] = passing \cap Nodes[n + 1]
    BY <1>4
  <2>1. n \in 0 .. QuadDepth /\ reached[n] = passing \cap Nodes[n] /\ n + 1 # 0 /\ n + 1 - 1 = n
    BY <1>4, Lengths
  <2>2. Nodes[n + 1] = UNION {Quarters(r) : r \in Nodes[n]}
    BY <2>1, NodesDef
  <2>3. reached[n + 1] = passing \cap UNION {Quarters(r) : r \in reached[n]}
    BY <1>2, <2>1
  <2> QED
    BY <2>1, <2>2, <2>3
<1>5. T = Nat
  <2> HIDE DEF T
  <2>1. T \subseteq Nat
    BY DEF T
  <2> QED
    BY <1>3, <1>4, <2>1, AllNumbers
<1>6. QuadDepth \in Nat /\ QuadDepth \in 0 .. QuadDepth
  BY Lengths
<1>7. reached[QuadDepth] = passing \cap Nodes[QuadDepth]
  BY <1>5, <1>6
<1> QED
  BY <1>1, <1>7 DEF Leaves

LEMMA LevelsAreNodes ==
    /\ \A d \in 0 .. QuadDepth : \A r \in Nodes[d] : r \in AllNodes
    /\ Leaves \subseteq AllNodes
BY Lengths DEF AllNodes, Leaves

\* Whatever the depth, the descent to a point finds exactly the leaf that
\* contains it, and the descent through the nodes that meet a rectangle finds
\* every leaf that meets it: no subtree is left out that should be visited.
THEOREM SearchIsExact ==
    /\ \A x, y \in Int : LeavesFound(Point(x, y)) = LeafFor(Point(x, y))
    /\ \A x, y, margin \in Int :
          LeavesMet(Around(Point(x, y), margin)) = LeavesNear(Around(Point(x, y), margin))
<1>1. ASSUME NEW x \in Int, NEW y \in Int
      PROVE  LeavesFound(Point(x, y)) = LeafFor(Point(x, y))
  <2> DEFINE passing == {r \in AllNodes : Contains(r, Point(x, y))}
  <2>1. ASSUME NEW d \in 0 .. QuadDepth, NEW r \in Nodes[d], NEW q \in Quarters(r), q \in passing
        PROVE  r \in passing
    <3>1. Contains(r, Point(x, y))
      BY <2>1, ChildrenAreInside DEF Contains, Point
    <3> QED
      BY <3>1, LevelsAreNodes
  <2>2. passing \cap Leaves = LeafFor(Point(x, y))
    BY LevelsAreNodes DEF LeafFor
  <2>3. Descended(passing) = passing \cap Leaves
    <3> HIDE DEF passing
    <3> QED
      BY <2>1, DescentMissesNothing
  <2> QED
    BY <2>2, <2>3 DEF LeavesFound
<1>2. ASSUME NEW x \in Int, NEW y \in Int, NEW margin \in Int
      PROVE  LeavesMet(Around(Point(x, y), margin)) = LeavesNear(Around(Point(x, y), margin))
  <2>1. PICK query : query = Around(Point(x, y), margin)
    OBVIOUS
  <2>2. query.min.x \in Int /\ query.max.x \in Int /\ query.min.y \in Int /\ query.max.y \in Int
    BY <2>1 DEF Around, Rect, Point
  <2> DEFINE passing == {r \in AllNodes : Intersects(r, query)}
  <2>3. ASSUME NEW d \in 0 .. QuadDepth, NEW r \in Nodes[d], NEW q \in Quarters(r), q \in passing
        PROVE  r \in passing
    <3>1. Intersects(r, query)
      BY <2>2, <2>3, ChildrenAreInside DEF Intersects
    <3> QED
      BY <3>1, LevelsAreNodes
  <2>4. passing \cap Leaves = LeavesNear(query)
    BY LevelsAreNodes DEF LeavesNear
  <2>5. Descended(passing) = passing \cap Leaves
    <3> HIDE DEF passing
    <3> QED
      BY <2>3, DescentMissesNothing
  <2> QED
    BY <2>1, <2>4, <2>5 DEF LeavesMet
<1> QED
  BY <1>1, <1>2

=============================================================================
