------------------------------- MODULE QuadTree -------------------------------
(***************************************************************************)
(* The quadtree over the world, which the spatial service asks which shard *)
(* a position belongs to and which are near it, and a shard asks whether   *)
(* two positions are in one leaf.  The tree is built once, to its full     *)
(* depth, so that it is known by its levels: Nodes[d] are the bounds of    *)
(* the nodes at depth d.                                                   *)
(***************************************************************************)
EXTENDS Integers

CONSTANTS
    ShardCount,    \* SHARD_COUNT
    ShardWidth,    \* shard_width
    WorldHeight,   \* world_height
    QuadDepth      \* quad_depth, QUADTREE_MAX_DEPTH

ASSUME TreeAssumption ==
    /\ ShardCount \in Nat \ {0} /\ ShardWidth \in Nat \ {0} /\ WorldHeight \in Nat \ {0}
    /\ QuadDepth \in Nat

\* How many nodes of depth d lie side by side, and above one another.
Across[d \in 0 .. QuadDepth] == IF d = 0 THEN 1 ELSE 2 * Across[d - 1]

\* The code halves floats, which is exact down to the depths in use.
ASSUME ExactHalves ==
    /\ (ShardCount * ShardWidth) % Across[QuadDepth] = 0
    /\ WorldHeight % Across[QuadDepth] = 0

Point(x, y) == [x |-> x, y |-> y]
Rect(min, max) == [min |-> min, max |-> max]

\* Half-open: the right and the upper edge belong to the next rectangle.
Contains(r, p) ==
    /\ r.min.x <= p.x /\ p.x < r.max.x
    /\ r.min.y <= p.y /\ p.y < r.max.y

Intersects(r, q) ==
    /\ r.min.x < q.max.x /\ q.min.x < r.max.x
    /\ r.min.y < q.max.y /\ q.min.y < r.max.y

World == Rect(Point(0, 0), Point(ShardCount * ShardWidth, WorldHeight))

Center(r) == Point((r.min.x + r.max.x) \div 2, (r.min.y + r.max.y) \div 2)

Quarters(r) ==
    LET c == Center(r)
    IN  {Rect(r.min, c), Rect(c, r.max),
         Rect(Point(c.x, r.min.y), Point(r.max.x, c.y)),
         Rect(Point(r.min.x, c.y), Point(c.x, r.max.y))}

Nodes[d \in 0 .. QuadDepth] ==
    IF d = 0 THEN {World} ELSE UNION {Quarters(r) : r \in Nodes[d - 1]}

Leaves == Nodes[QuadDepth]

\* Mutant: a leaf belongs to the band of its right edge.
ShardOfRightEdge(leaf) == leaf.max.x \div ShardWidth

\* A leaf belongs to the band of its centre.
ShardOfLeaf(leaf) == (leaf.min.x + leaf.max.x) \div (2 * ShardWidth)

\* The leaf that contains p: {} outside the world, else a single one.
LeafFor(p) == {leaf \in Leaves : Contains(leaf, p)}

SameLeaf(p, q) == LeafFor(p) # {} /\ LeafFor(p) = LeafFor(q)

\* As a set: {} outside the world.
ShardFor(p) == {ShardOfLeaf(leaf) : leaf \in LeafFor(p)}

Around(p, margin) == Rect(Point(p.x - margin, p.y - margin), Point(p.x + margin, p.y + margin))

LeavesNear(query) == {leaf \in Leaves : Intersects(leaf, query)}

ShardsNear(p, margin) == {ShardOfLeaf(leaf) : leaf \in LeavesNear(Around(p, margin))}

-----------------------------------------------------------------------------
(* How the code looks leaves up: from the root down, into the children of *)
(* the nodes that pass a test.                                             *)

AllNodes == UNION {Nodes[d] : d \in 0 .. QuadDepth}

Descended(passing) ==
    LET reached[d \in 0 .. QuadDepth] ==
          passing \cap (IF d = 0 THEN {World} ELSE UNION {Quarters(r) : r \in reached[d - 1]})
    IN  reached[QuadDepth]

LeavesFound(p) == Descended({r \in AllNodes : Contains(r, p)})
LeavesMet(query) == Descended({r \in AllNodes : Intersects(r, query)})

-----------------------------------------------------------------------------
(* What the rest of the system takes the tree for. *)

\* The edges of the bands are edges of leaves.
LeavesFitBands == Across[QuadDepth] % ShardCount = 0

Inside == {Point(x, y) : x \in 0 .. ShardCount * ShardWidth - 1, y \in 0 .. WorldHeight - 1}

\* Every position is in one leaf and belongs to the shard in whose band it is.
TreeFollowsBands ==
    \A p \in Inside : \E leaf \in Leaves : LeafFor(p) = {leaf} /\ ShardFor(p) = {p.x \div ShardWidth}

\* Near a position are the shards whose bands come within the margin of it.
NearFollowsBands(margin) ==
    \A p \in Inside :
        ShardsNear(p, margin) =
            {s \in 0 .. ShardCount - 1 :
                s * ShardWidth < p.x + margin /\ p.x - margin < (s + 1) * ShardWidth}

=============================================================================
