------------------------------ MODULE MCHandoff ------------------------------
(* Instances of Handoff for TLC: the world of the code in small, with the  *)
(* proportion that matters kept: an entity crosses the margin in fewer     *)
(* ticks than the abort allows (22 < 30 in the code, 2 < 3 here).          *)
EXTENDS Handoff

NoSteering == {}
BothWays == {-1, 1}
Rightward == {1}
NoCrash == {}
Everyone == Shards
NoHome == NoShard

\* The quadtree over a world of square bands: "depth" is quad_depth.
Tree(shards, depth) ==
    INSTANCE QuadTree
        WITH ShardCount <- shards, ShardWidth <- 8, WorldHeight <- 8, QuadDepth <- depth

\* The theorems of TreeProofs on small worlds: the tree is what Handoff takes
\* it for, near a position too, if and only if the bands divide the leaves ...
ASSUME TreesOfBands ==
    \A shards \in 1 .. 4, depth \in 0 .. 3 :
        /\ Tree(shards, depth)!TreeFollowsBands <=> Tree(shards, depth)!LeavesFitBands
        /\ Tree(shards, depth)!LeavesFitBands =>
              \A margin \in {1, 3, 9} : Tree(shards, depth)!NearFollowsBands(margin)

\* ... and the descent from the root finds the leaves it is meant to find.
ASSUME DescentsAreExact ==
    \A shape \in {<<1, 0>>, <<2, 1>>, <<3, 2>>, <<4, 3>>} :
        \A p \in Tree(shape[1], shape[2])!Inside :
            /\ Tree(shape[1], shape[2])!LeavesFound(p) = Tree(shape[1], shape[2])!LeafFor(p)
            /\ LET query == Tree(shape[1], shape[2])!Around(p, 3)
               IN  Tree(shape[1], shape[2])!LeavesMet(query) = Tree(shape[1], shape[2])!LeavesNear(query)

\* At the depth of the code, 2, these are the worlds QuadTreeAssumption allows.
ASSUME DepthOfTheCode ==
    \A shards \in 1 .. 8 : Tree(shards, 2)!LeavesFitBands <=> shards \in {1, 2, 4}
=============================================================================
