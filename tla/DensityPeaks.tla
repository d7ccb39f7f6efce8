---------------------------- MODULE DensityPeaks ----------------------------
(***************************************************************************)
(* DensityPeakDeblender: a friends-of-friends candidate is split at its    *)
(* density peaks.  Each particle has the density of the ball that holds    *)
(* its k nearest neighbours; it belongs to the peak reached by going to    *)
(* the densest neighbour again and again; two peaks become one when the    *)
(* saddle between them is high against the lower of them.                  *)
(*                                                                         *)
(* A particle is [id, at, mass]; inside the deblender the particles of the *)
(* candidate are numbered in the order of their identities.  The density   *)
(* of mass m in a ball of radius r goes as m / r^3; it is kept as m and    *)
(* r^2, and two of them are compared exactly.  Workers share the particles *)
(* of a pass and each writes its own; a pass ends when all have finished,  *)
(* with the first exception of any of them.                                *)
(*                                                                         *)
(* A definition marked "fault" is a plausible mistake in the one that      *)
(* follows.                                                                *)
(***************************************************************************)
EXTENDS PeriodicBox, Answers, Sequences, SequencesExt

ByIdentity(p, q) == p.id < q.id

(* The order of the neighbours of c: exact distance, then identity.        *)
NeighborCloser(local, c, L, i, j) ==
    LET di == Distance2(local[c].at, local[i].at, L)
        dj == Distance2(local[c].at, local[j].at, L)
    IN  di < dj \/ (di = dj /\ local[i].id < local[j].id)

-----------------------------------------------------------------------------
(* The k-d tree: a node is a particle, the subtrees before and after it on *)
(* the widest axis, and the bounds of everything below.                    *)
Axes(local) == DOMAIN local[1].at

Lower(local, S) == [a \in Axes(local) |-> Min({local[i].at[a] : i \in S})]
Upper(local, S) == [a \in Axes(local) |-> Max({local[i].at[a] : i \in S})]

WidestAxis(local, S) ==
    LET span(a) == Upper(local, S)[a] - Lower(local, S)[a]
    IN  CHOOSE a \in Axes(local) : \A b \in Axes(local) :
            span(a) > span(b) \/ (span(a) = span(b) /\ a <= b)

RECURSIVE Build(_, _)
Build(local, S) ==
    IF S = {} THEN <<>>
    ELSE LET axis == WidestAxis(local, S)
             order == InOrder(S, LAMBDA i, j :
                        \/ local[i].at[axis] < local[j].at[axis]
                        \/ /\ local[i].at[axis] = local[j].at[axis]
                           /\ local[i].id < local[j].id)
             middle == Len(order) \div 2
         IN  [particle |-> order[middle + 1],
              left |-> Build(local, {order[n] : n \in 1 .. middle}),
              right |-> Build(local, {order[n] : n \in middle + 2 .. Len(order)}),
              lower |-> Lower(local, S), upper |-> Upper(local, S)]

(* The squared distance of a position from a node's bounds: the nearer     *)
(* face around the torus.                                                  *)
StraightBoxDistance2(p, node, L) ==                              \* fault
    MapThenSumSet(LAMBDA a : IF p[a] < node.lower[a] THEN Square(node.lower[a] - p[a])
                             ELSE IF p[a] > node.upper[a] THEN Square(p[a] - node.upper[a])
                             ELSE 0, DOMAIN p)
BoxDistance2(p, node, L) ==
    MapThenSumSet(LAMBDA a :
        IF p[a] \in node.lower[a] .. node.upper[a] THEN 0
        ELSE Min({Distance2(<<p[a]>>, <<node.lower[a]>>, L),
                  Distance2(<<p[a]>>, <<node.upper[a]>>, L)}),
        DOMAIN p)

(* consider_neighbor: the heap holds the k closest so far.                 *)
Farthest(local, c, L, heap) ==
    CHOOSE i \in heap : \A j \in heap \ {i} : NeighborCloser(local, c, L, j, i)

Consider(local, c, L, k, heap, i) ==
    IF i = c THEN heap
    ELSE IF Cardinality(heap) < k THEN heap \union {i}
    ELSE LET far == Farthest(local, c, L, heap)
         IN  IF NeighborCloser(local, c, L, i, far)
               THEN (heap \ {far}) \union {i} ELSE heap

(* query_node: a node further than the farthest of k neighbours is passed  *)
(* over; the nearer child is visited first.                                *)
RECURSIVE Query(_, _, _, _, _, _)
Query(local, c, L, k, node, heap) ==
    IF node = <<>> THEN heap
    ELSE IF /\ Cardinality(heap) = k
            /\ BoxDistance2(local[c].at, node, L)
                 > Distance2(local[c].at, local[Farthest(local, c, L, heap)].at, L)
      THEN heap
    ELSE LET here == Consider(local, c, L, k, heap, node.particle)
             swap == /\ node.left # <<>> /\ node.right # <<>>
                     /\ BoxDistance2(local[c].at, node.right, L)
                          < BoxDistance2(local[c].at, node.left, L)
             first == IF swap THEN node.right ELSE node.left
             second == IF swap THEN node.left ELSE node.right
         IN  Query(local, c, L, k, second, Query(local, c, L, k, first, here))

-----------------------------------------------------------------------------
(* Top-hat densities.                                                      *)
DensityOf(local, c, L, neighbours) ==
    [mass |-> MapThenSumSet(LAMBDA i : local[i].mass, neighbours \union {c}),
     r2 |-> Max({Distance2(local[c].at, local[i].at, L) : i \in neighbours})]

Cube(n) == n * n * n

(* (num / den) e <= d                                                      *)
AtLeast(d, num, den, e) ==
    Square(d.mass * den) * Cube(e.r2) >= Square(e.mass * num) * Cube(d.r2)

Denser(d, e) == ~ AtLeast(e, 1, 1, d)

(* peak_is_stronger                                                        *)
Stronger(local, density, i, j) ==
    \/ Denser(density[i], density[j])
    \/ ~ Denser(density[j], density[i]) /\ local[i].id < local[j].id

-----------------------------------------------------------------------------
(* deblend, one pass over the particles at a time.  The neighbours are     *)
(* looked up again in each pass.                                           *)
Neighbours(work, i) == Query(work.local, i, work.side, work.k, work.tree, {})

All(work) == 1 .. Len(work.local)

DeblendFits(candidate, k) ==
    /\ Len(candidate) > k
    /\ Cardinality({p.id : p \in ToSet(candidate)}) = Len(candidate)

DeblendWork(candidate, L, k) ==
    LET local == SortSeq([i \in DOMAIN candidate |->
                            [candidate[i] EXCEPT !.at = WrapPosition(@, L)]], ByIdentity)
    IN  [at |-> "work", local |-> local, side |-> L, k |-> k,
         tree |-> Build(local, DOMAIN local), next |-> "densities",
         density |-> <<>>, ascent |-> <<>>, root |-> <<>>, merged |-> <<>>]

DensityPass(work) ==
    [work EXCEPT !.next = "ascent",
                 !.density = [i \in All(work) |->
                    DensityOf(work.local, i, work.side, Neighbours(work, i))]]

(* The k-th neighbour lies on the particle.                                *)
Singular(work) == \E i \in All(work) : work.density[i].r2 = 0

(* Every particle points at the strongest of itself and its neighbours;    *)
(* the ways end at the peaks.                                              *)
AscentParent(work, i) ==
    LET near == Neighbours(work, i) \union {i}
    IN  CHOOSE b \in near :
            \A j \in near \ {b} : Stronger(work.local, work.density, b, j)

AscentPass(work) ==
    [work EXCEPT !.next = "basins",
                 !.ascent = [i \in All(work) |-> AscentParent(work, i)]]

Basins(work) ==
    [work EXCEPT !.next = "merge",
                 !.root = [i \in All(work) |-> RootIn(work.ascent, i)]]

(* The pairs of a particle and a neighbour of another basin whose saddle   *)
(* is at least num/den of the lower of the two peaks.                      *)
Merges(density, root, i, j, ratio) ==
    /\ root[i] # root[j]
    /\ LET saddle == IF Denser(density[i], density[j]) THEN density[j] ELSE density[i]
           lower == IF Denser(density[root[i]], density[root[j]])
                      THEN density[root[j]] ELSE density[root[i]]
       IN  AtLeast(saddle, ratio.num, ratio.den, lower)

(* The stronger of the two peaks becomes the root of both.                 *)
UnitePeaks(work, parent, lhs, rhs) ==
    LET l == RootIn(parent, lhs)
        r == RootIn(parent, rhs)
    IN  IF l = r THEN parent
        ELSE IF Stronger(work.local, work.density, l, r)
               THEN [parent EXCEPT ![r] = l]
        ELSE [parent EXCEPT ![l] = r]

(* Every qualifying pair unites the peaks of its basins, batch after batch *)
(* in the order of the particles; the stronger peak stays.                 *)
MergePass(work, ratio) ==
    LET pairs == InOrder(
                   UNION {{<<i, j>> : j \in {n \in Neighbours(work, i) :
                                Merges(work.density, work.root, i, n, ratio)}}
                            : i \in All(work)},
                   LAMBDA x, y : \/ x[1] < y[1]
                                 \/ x[1] = y[1] /\ x[2] < y[2])
        unite(parent, pair) ==
            UnitePeaks(work, parent, work.root[pair[1]], work.root[pair[2]])
    IN  [work EXCEPT !.next = "hosts",
                     !.merged = FoldLeft(unite, [i \in All(work) |-> i], pairs)]

(* The peaks, each with the one that absorbed it, and the hosts.           *)
Hosts(work, minimum) ==
    LET retained(i) == RootIn(work.merged, work.root[i])
        members(p) == {work.local[i].id : i \in {j \in All(work) : retained(j) = p}}
        id(i) == work.local[i].id
    IN  [peaks |-> {[peak |-> id(p), into |-> id(retained(p))]
                      : p \in {q \in All(work) : work.root[q] = q}},
         hosts |-> {[peak |-> id(p), members |-> members(p),
                     large |-> Cardinality(members(p)) >= minimum]
                      : p \in {retained(i) : i \in All(work)}}]
=============================================================================
