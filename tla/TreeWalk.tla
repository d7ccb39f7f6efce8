------------------------------- MODULE TreeWalk -------------------------------
(***************************************************************************)
(* The tree of a short-range force (gravity/octree.cpp), in any number of  *)
(* axes: a cell is divided at its centre until it holds one source, or     *)
(* sources in one place, or until its halves are no longer different cells *)
(* for the coordinates there are.  Coordinates are integers, and a centre  *)
(* between two of them is rounded, as the code's is to a representable     *)
(* number; so a source can lie outside the cell it is filed in, and the    *)
(* side of a cell is enlarged afterwards to hold all its sources.          *)
(*                                                                         *)
(* Then its traversal for one target (gravity/tree_walk.cpp): a cell out   *)
(* of reach is passed over, a distant one counts as one mass at its centre *)
(* of mass, and any other is opened, down to the sources in a leaf.  A     *)
(* pure tree force has no cutoff, that of TreePM has one of less than half *)
(* the box.                                                                *)
(*                                                                         *)
(* What a pair or a cell contributes is arithmetic and is left out: the    *)
(* model keeps which pairs and which cells contribute.  Distances are      *)
(* compared as integers; where the code bounds a rounding outwards the     *)
(* comparison is exact.  A definition marked "fault" is a plausible        *)
(* mistake in the definition that follows it; nothing uses it.             *)
(***************************************************************************)
EXTENDS PeriodicBox, SequencesExt

-----------------------------------------------------------------------------
(* The tree.                                                               *)

Absolute(n) == IF n < 0 THEN -n ELSE n

(* An octant has one bit for each axis, the first axis the highest.        *)
Weight(axis, at) == 2 ^ (Len(at) - axis)

Octant(at, centre) ==
    MapThenSumSet(LAMBDA axis : IF at[axis] < centre[axis] THEN 0
                                ELSE Weight(axis, at), DOMAIN at)

ChildCentre(centre, offset, octant) ==
    [axis \in DOMAIN centre |->
        IF (octant \div Weight(axis, centre)) % 2 = 1
          THEN centre[axis] + offset ELSE centre[axis] - offset]

(* A node with its sources, and with the occupied octants of its children, *)
(* which lie in the list of nodes one after the other.                     *)
Cell(sources, centre, side) ==
    [sources |-> sources, centre |-> centre, side |-> side, first |-> 0,
     octants |-> {}]

IsLeaf(node) == node.octants = {}

ChildIndex(node, octant) ==
    node.first + Cardinality({o \in node.octants : o < octant})

Children(node) == {ChildIndex(node, o) : o \in node.octants}

(* The mass and the first moment are those of the sources themselves.      *)
Mass(store, node) == MapThenSumSet(LAMBDA p : store[p].mass, node.sources)

Moment(store, node) ==
    [axis \in DOMAIN node.centre |->
        MapThenSumSet(LAMBDA p : store[p].mass * store[p].at[axis],
                      node.sources)]

(* outward_enclosing_side, for the sources of a leaf and for the cells of  *)
(* the children of a node.                                                 *)
AsDivided(node, sides) == node                                   \* fault

Enclosing(node, sides) == [node EXCEPT !.side = Max(sides \union {@})]

Leaf(store, node) ==
    Enclosing(node, {2 * Absolute(store[p].at[axis] - node.centre[axis]) :
                        p \in node.sources, axis \in DOMAIN node.centre})

Internal(nodes, node) ==
    Enclosing(node,
        {2 * Absolute(nodes[c].centre[axis] - node.centre[axis]) + nodes[c].side :
            c \in Children(node), axis \in DOMAIN node.centre})

(* A node divided among its children.                                      *)
Divided(store, nodes, i, octants, offset) ==
    LET node == nodes[i]
        occupied == Cardinality(octants)
        nth(k) == CHOOSE o \in octants : Cardinality({q \in octants : q < o}) = k - 1
    IN  [nodes EXCEPT ![i].first = Len(nodes) + 1, ![i].octants = octants]
        \o [k \in 1 .. occupied |->
              Cell({p \in node.sources : Octant(store[p].at, node.centre) = nth(k)},
                   ChildCentre(node.centre, offset, nth(k)), node.side \div 2)]

RECURSIVE BuildRecursive(_, _, _, _)
BuildRecursive(store, tree, i, depth) ==
    LET node == tree.nodes[i]
        here == [tree EXCEPT !.depth = Max({@, depth})]
        octants == {Octant(store[p].at, node.centre) : p \in node.sources}
        offset == node.side \div 4
        finished == [here EXCEPT !.nodes[i] = Leaf(store, node)]
    IN  IF Cardinality(node.sources) = 1 \/ offset = 0 THEN finished
        ELSE IF Cardinality(octants) = 1 THEN
            IF Cardinality({store[p].at : p \in node.sources}) = 1 THEN finished
            ELSE LET narrower == [node EXCEPT
                             !.centre = ChildCentre(@, offset, CHOOSE o \in octants : TRUE),
                             !.side = @ \div 2]
                 IN  BuildRecursive(store, [here EXCEPT !.nodes[i] = narrower], i,
                                    depth + 1)
        ELSE LET parted == [here EXCEPT !.nodes = Divided(store, @, i, octants, offset)]
                 list == [k \in 1 .. Cardinality(octants) |-> parted.nodes[i].first + k - 1]
                 built == FoldLeft(LAMBDA t, c : BuildRecursive(store, t, c, depth + 1),
                                   parted, list)
             IN  [built EXCEPT !.nodes[i] = Internal(built.nodes, built.nodes[i])]

EmptyTree == [nodes |-> <<>>, depth |-> 0]

Build(store, side, axes) ==
    IF store = <<>> THEN EmptyTree
    ELSE BuildRecursive(store,
             [EmptyTree EXCEPT !.nodes =
                 <<Cell(DOMAIN store, [axis \in 1 .. axes |-> side \div 2], side)>>],
             1, 0)

MaximumNodeCount(store) == IF store = <<>> THEN 0 ELSE 2 * Len(store) - 1

(* One path and the siblings left on it, in as many octants as there are.  *)
TraversalStackBound(tree, axes) ==
    Min({Len(tree.nodes), 1 + (2 ^ axes - 1) * tree.depth})

-----------------------------------------------------------------------------
(* The traversal.                                                          *)

CONSTANTS Problems,    \* sources, how many are owned, box, cutoff, theta
          NoCutoff

VARIABLES problem,
          tree,
          target,      \* the particle whose force it is
          stack,       \* nodes to visit; does the node hold the target?
          pairs,       \* the sources taken one by one
          multipoles,  \* the nodes taken as one mass
          result       \* of the walk

walk == <<problem, tree, target, stack, pairs, multipoles, result>>

WalkInit == /\ problem \in Problems
            /\ tree = EmptyTree
            /\ target = 0 /\ stack = <<>>
            /\ pairs = <<>> /\ multipoles = <<>>
            /\ result = "none"

Store == problem.store
L == problem.side
Axes == problem.axes
Node == tree.nodes[Last(stack).node]
At == Store[target].at

-----------------------------------------------------------------------------
(* Distances.                                                              *)

Norm2(v) == MapThenSumSet(LAMBDA axis : Square(v[axis]), DOMAIN v)

(* minimum_image_displacement_is_directionally_unique                      *)
Directed(v, side) == \A axis \in DOMAIN v : 2 * Absolute(v[axis]) # side

To(p) == [axis \in DOMAIN At |-> MinimumImage(Store[p].at[axis] - At[axis], L)]

(* Displacements to and of the centre of mass, multiplied by the mass.     *)
ToMass == [axis \in DOMAIN At |->
             MinimumImage(Moment(Store, Node)[axis] - Mass(Store, Node) * At[axis],
                          L * Mass(Store, Node))]

Offset == MapThenSumSet(LAMBDA axis : Absolute(Moment(Store, Node)[axis]
                                - Mass(Store, Node) * Node.centre[axis]), DOMAIN At)

(* aabb_cutoff_relation: the near and the far corner of the cube, against  *)
(* the open ball of the cutoff.                                            *)
Away(axis) == 2 * Absolute(MinimumImage(Node.centre[axis] - At[axis], L))
Nearest == [axis \in DOMAIN At |-> Max({Away(axis) - Node.side, 0})]
Furthest == [axis \in DOMAIN At |-> Away(axis) + Node.side]

OutOfReach == /\ problem.cutoff # NoCutoff
              /\ Norm2(Nearest) >= Square(2 * problem.cutoff)
WhollyInReach == \/ problem.cutoff = NoCutoff
                 \/ Norm2(Furthest) < Square(2 * problem.cutoff)

(* offset_mac_accepts: r > l / theta + delta.                              *)
OffsetAccepts ==
    LET theta == problem.theta
        mass == Mass(Store, Node)
    IN  /\ theta.num > 0
        /\ Square(theta.num) * Norm2(ToMass) >
               Square(mass * Node.side * theta.den + theta.num * Offset)

Accepted == /\ ~ Last(stack).holdsTarget
            /\ WhollyInReach
            /\ Directed(ToMass, L * Mass(Store, Node))
            /\ OffsetAccepts

-----------------------------------------------------------------------------
(* The tree is built over owned particles and ghosts, and walked for an    *)
(* owned one.                                                              *)
BuildTree == /\ result = "none"
             /\ tree' = Build(Store, L, Axes)
             /\ target' \in 1 .. problem.owned
             /\ stack' = <<[node |-> 1, holdsTarget |-> TRUE]>>
             /\ result' = "walking"
             /\ UNCHANGED <<problem, pairs, multipoles>>

Visit == result = "walking" /\ stack # <<>>

Prune == /\ Visit /\ OutOfReach
         /\ stack' = Front(stack)
         /\ UNCHANGED <<problem, tree, target, pairs, multipoles, result>>

InReach(p) == \/ problem.cutoff = NoCutoff
              \/ Norm2(To(p)) < Square(problem.cutoff)

Candidates == {p \in Node.sources \ {target} : InReach(p)}

TakeLeaf ==
    /\ Visit /\ ~ OutOfReach /\ IsLeaf(Node)
    /\ IF \E p \in Candidates : ~ Directed(To(p), L)
         THEN result' = "undirected" /\ UNCHANGED <<pairs, stack>>
         ELSE /\ pairs' = pairs \o SetToSortSeq(Candidates, <)
              /\ stack' = Front(stack)
              /\ UNCHANGED result
    /\ UNCHANGED <<problem, tree, target, multipoles>>

TakeMultipole ==
    /\ Visit /\ ~ OutOfReach /\ ~ IsLeaf(Node) /\ Accepted
    /\ multipoles' = Append(multipoles, Last(stack).node)
    /\ stack' = Front(stack)
    /\ UNCHANGED <<problem, tree, target, pairs, result>>

(* The children are pushed in the order of their octants; the one in whose *)
(* octant the target is holds it.                                          *)
TargetOctant == Octant(At, Node.centre)

Entries ==
    LET order == SetToSortSeq(Node.octants, <)
    IN  [k \in DOMAIN order |->
            [node |-> ChildIndex(Node, order[k]),
             holdsTarget |-> /\ Last(stack).holdsTarget
                             /\ order[k] = TargetOctant]]

Open ==
    /\ Visit /\ ~ OutOfReach /\ ~ IsLeaf(Node) /\ ~ Accepted
    /\ IF Last(stack).holdsTarget /\ TargetOctant \notin Node.octants
         THEN result' = "lost" /\ UNCHANGED stack
       ELSE IF Len(stack) - 1 + Len(Entries) > TraversalStackBound(tree, Axes)
         THEN result' = "overrun" /\ UNCHANGED stack
       ELSE stack' = Front(stack) \o Entries /\ UNCHANGED result
    /\ UNCHANGED <<problem, tree, target, pairs, multipoles>>

FinishWalk == /\ result = "walking" /\ stack = <<>>
              /\ result' = "done"
              /\ UNCHANGED <<problem, tree, target, stack, pairs, multipoles>>

WalkNext == \/ BuildTree \/ Prune \/ TakeLeaf \/ TakeMultipole \/ Open
            \/ FinishWalk

-----------------------------------------------------------------------------
Times(p) == Cardinality({i \in DOMAIN pairs : pairs[i] = p})
            + Cardinality({i \in DOMAIN multipoles :
                              p \in tree.nodes[multipoles[i]].sources})

Pulls(p) == /\ p # target
            /\ \/ problem.cutoff = NoCutoff
               \/ Distance2(At, Store[p].at, L) < Square(problem.cutoff)

FarEnough(node) ==
    Square(problem.theta.num) * Distance2(At, node.centre, L) >
        Square(node.side * problem.theta.den)

(* Every source in reach of the target pulls it exactly once, by itself or *)
(* within one cell, no other does and never the target itself, whatever    *)
(* was rounded, compressed or pruned on the way; a cell taken as one mass  *)
(* is further from the target than its side over theta.  The walk refuses  *)
(* only a force without a direction, and never for want of a child, of a   *)
(* node or of room on the stack.                                           *)
EverySourceOnce ==
    /\ Len(tree.nodes) <= MaximumNodeCount(Store)
    /\ result \notin {"lost", "overrun"}
    /\ result = "done" =>
           \A p \in DOMAIN Store : Times(p) = IF Pulls(p) THEN 1 ELSE 0
    /\ result = "undirected" =>
           /\ problem.cutoff = NoCutoff
           /\ \E p \in DOMAIN Store : ~ Directed(To(p), L)
    /\ \A i \in DOMAIN multipoles : FarEnough(tree.nodes[multipoles[i]])
=============================================================================
