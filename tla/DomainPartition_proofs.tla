------------------------- MODULE DomainPartition_proofs -------------------------
(***************************************************************************)
(* What a partition and a ghost exchange promise, for every mesh, every    *)
(* number of ranks up to the number of planes, every search radius, every  *)
(* distance a drift may take a particle and every set of starting stores.  *)
(*                                                                         *)
(* First the geometry: each position has one owner, and the two tests that *)
(* decide where a copy of a particle is sent (a coarse one on slabs, an    *)
(* exact one on the nearest image) select exactly the slabs within reach   *)
(* of it, around the box too.  Then what is derived from the old owners is *)
(* retired before a partition ends.                                        *)
(*                                                                         *)
(* Then the lists: what the selection, the sort, the joining of what the   *)
(* sources sent and the merge in place return, each by induction on how    *)
(* far its loop has come.  A loop is a recursive function; Loop gives a    *)
(* function that takes the same steps and is in a given set at each, and   *)
(* counting up shows that the two are the same.                            *)
(*                                                                         *)
(* Last the invariant: outside a merge that failed the stores hold every   *)
(* particle once with what it really is, and what a rank has received is   *)
(* the exchange of the stores as they are.  The three paths of             *)
(* partition_domain are three ways to give each rank, in order, a copy of  *)
(* every particle it owns (NewStore).                                      *)
(***************************************************************************)
EXTENDS DomainPartition, SequenceTheorems, FiniteSetTheorems,
        WellFoundedInduction, TLAPS

-----------------------------------------------------------------------------
(* Minima and maxima.                                                      *)

LEMMA MinIsLeast ==
    ASSUME NEW S \in SUBSET Nat, S # {}
    PROVE  Min(S) \in S /\ \A y \in S : Min(S) <= y
 <1>1. PICK x \in S : \A y \in S : ~ (<<y, x>> \in OpToRel(<, Nat))
   BY NatLessThanWellFounded, WFMin
 <1>2. ASSUME NEW y \in S  PROVE x <= y
  <2>1. <<y, x>> \notin {ss \in Nat \X Nat : ss[1] < ss[2]}
    BY <1>1 DEF OpToRel
  <2> QED  BY <2>1
 <1> QED  BY <1>1, <1>2 DEF Min

LEMMA MinOfTwo ==
    ASSUME NEW x \in Int, NEW y \in Int
    PROVE  Min({x, y}) \in {x, y} /\ Min({x, y}) <= x /\ Min({x, y}) <= y
 <1>1. \E z \in {x, y} : \A w \in {x, y} : z <= w
  <2>1. x <= y \/ y <= x
    OBVIOUS
  <2> QED  BY <2>1
 <1> QED  BY <1>1 DEF Min

LEMMA MinOfThree ==
    ASSUME NEW x \in Int, NEW y \in Int, NEW z \in Int
    PROVE  /\ Min({x, y, z}) \in {x, y, z}
           /\ Min({x, y, z}) <= x /\ Min({x, y, z}) <= y /\ Min({x, y, z}) <= z
 <1>1. \E v \in {x, y, z} : \A w \in {x, y, z} : v <= w
  <2>1. CASE x <= y /\ x <= z
    BY <2>1
  <2>2. CASE y <= x /\ y <= z
    BY <2>2
  <2>3. CASE z <= x /\ z <= y
    BY <2>3
  <2> QED  BY <2>1, <2>2, <2>3
 <1> QED  BY <1>1 DEF Min

LEMMA MaxOfThree ==
    ASSUME NEW x \in Int, NEW y \in Int, NEW z \in Int
    PROVE  /\ Max({x, y, z}) \in {x, y, z}
           /\ Max({x, y, z}) >= x /\ Max({x, y, z}) >= y /\ Max({x, y, z}) >= z
 <1>1. \E v \in {x, y, z} : \A w \in {x, y, z} : v >= w
  <2>1. CASE x >= y /\ x >= z
    BY <2>1
  <2>2. CASE y >= x /\ y >= z
    BY <2>2
  <2>3. CASE z >= x /\ z >= y
    BY <2>3
  <2> QED  BY <2>1, <2>2, <2>3
 <1> QED  BY <1>1 DEF Max

LEMMA Division ==
    ASSUME NEW x \in Nat, NEW y \in Nat \ {0}
    PROVE  /\ x \div y \in Nat
           /\ x % y \in 0 .. y - 1
           /\ x = y * (x \div y) + (x % y)
  OBVIOUS

-----------------------------------------------------------------------------
(* The slabs.                                                              *)

(* Slabs are not empty, each begins where the one before it ends, the      *)
(* first at the first plane and the last at the last.                      *)
LEMMA SlabsInARow ==
    ASSUME size \in 1 .. NumPlanes
    PROVE  /\ \A r \in Ranks : /\ SlabStart(r) \in Nat
                               /\ SlabCount(r) \in Nat \ {0}
                               /\ SlabEnd(r) = SlabStart(r) + SlabCount(r)
           /\ SlabStart(0) = 0
           /\ SlabEnd(size - 1) = NumPlanes
           /\ \A r \in Ranks : r > 0 => SlabEnd(r - 1) = SlabStart(r)
 <1>1. size \in Nat \ {0} /\ NumPlanes \in Nat \ {0} /\ size <= NumPlanes
   BY GeometryAssumption
 <1>2. Base \in Nat /\ Remainder \in 0 .. size - 1
       /\ NumPlanes = size * Base + Remainder
   BY <1>1, Division DEF Base, Remainder
 <1>3. Base # 0
  <2> SUFFICES ASSUME Base = 0  PROVE FALSE
    OBVIOUS
  <2>1. size * Base = 0
    BY <1>1
  <2> QED  BY <1>1, <1>2, <2>1
 <1>4. \A r \in Ranks : r \in Nat /\ r * Base \in Nat
   BY <1>1, <1>2 DEF Ranks
 <1>5. ASSUME NEW r \in Ranks
       PROVE  /\ SlabStart(r) \in Nat
              /\ SlabCount(r) \in Nat \ {0}
              /\ SlabEnd(r) = SlabStart(r) + SlabCount(r)
   BY <1>2, <1>3, <1>4 DEF SlabStart, SlabCount, SlabEnd
 <1>6. SlabStart(0) = 0
  <2>1. 0 * Base = 0
    BY <1>2
  <2> QED  BY <1>2, <2>1 DEF SlabStart
 <1>7. SlabEnd(size - 1) = NumPlanes
  <2>1. (size - 1) * Base = size * Base - Base /\ size * Base \in Nat
    BY <1>1, <1>2
  <2>2. CASE size - 1 < Remainder
    BY <1>1, <1>2, <2>2
  <2>3. CASE size - 1 >= Remainder
    BY <1>1, <1>2, <2>1, <2>3 DEF SlabEnd, SlabStart, SlabCount
  <2> QED  BY <1>1, <1>2, <2>2, <2>3
 <1>8. ASSUME NEW r \in Ranks, r > 0
       PROVE  SlabEnd(r - 1) = SlabStart(r)
  <2>1. r \in Nat /\ r * Base \in Nat /\ (r - 1) * Base = r * Base - Base
    BY <1>2, <1>4
  <2>2. CASE r < Remainder
    BY <1>2, <2>1, <2>2 DEF SlabEnd, SlabStart, SlabCount
  <2>3. CASE r = Remainder
    BY <1>2, <2>1, <2>3 DEF SlabEnd, SlabStart, SlabCount
  <2>4. CASE r > Remainder
    BY <1>2, <2>1, <2>4 DEF SlabEnd, SlabStart, SlabCount
  <2> QED  BY <1>2, <2>1, <2>2, <2>3, <2>4
 <1> QED  BY <1>5, <1>6, <1>7, <1>8

(* A slab of a later rank begins no earlier than an earlier one ends.      *)
LEMMA SlabsInOrder ==
    ASSUME size \in 1 .. NumPlanes, NEW q \in Ranks, NEW r \in Ranks, q < r
    PROVE  SlabEnd(q) <= SlabStart(r)
 <1>1. size \in Nat \ {0} /\ NumPlanes \in Nat \ {0}
   BY GeometryAssumption
 <1>2. Base \in Nat /\ Remainder \in Nat
   BY <1>1, Division DEF Base, Remainder
 <1>3. q \in Nat /\ r \in Nat /\ q + 1 <= r
   BY <1>1 DEF Ranks
 <1>4. q * Base + Base <= r * Base /\ q * Base \in Nat /\ r * Base \in Nat
  <2>1. (q + 1) * Base <= r * Base
    BY <1>2, <1>3
  <2>2. (q + 1) * Base = q * Base + Base
    BY <1>2, <1>3
  <2> QED  BY <1>2, <1>3, <2>1, <2>2
 <1> DEFINE u == q * Base
            v == r * Base
 <1>5. /\ u \in Nat /\ v \in Nat /\ u + Base <= v
       /\ SlabEnd(q) = u + (IF q < Remainder THEN q ELSE Remainder)
                       + (Base + (IF q < Remainder THEN 1 ELSE 0))
       /\ SlabStart(r) = v + (IF r < Remainder THEN r ELSE Remainder)
   BY <1>4 DEF SlabEnd, SlabStart, SlabCount
 <1> HIDE DEF u, v
 <1> QED  BY <1>2, <1>3, <1>5

(* No slab reaches beyond the mesh.                                        *)
LEMMA SlabInMesh ==
    ASSUME size \in 1 .. NumPlanes, NEW r \in Ranks
    PROVE  /\ SlabStart(r) \in Nat /\ SlabEnd(r) \in Nat
           /\ SlabStart(r) < SlabEnd(r) /\ SlabEnd(r) <= NumPlanes
 <1>1. size \in Nat \ {0} /\ NumPlanes \in Nat \ {0} /\ size - 1 \in Ranks
   BY GeometryAssumption DEF Ranks
 <1>2. SlabStart(r) \in Nat /\ SlabEnd(r) \in Nat /\ SlabStart(r) < SlabEnd(r)
   BY SlabsInARow
 <1>3. SlabEnd(r) <= NumPlanes
  <2>1. CASE r = size - 1
    BY <1>1, <1>2, <2>1, SlabsInARow
  <2>2. CASE r < size - 1
   <3>1. SlabEnd(r) <= SlabStart(size - 1)
     BY <1>1, <2>2, SlabsInOrder
   <3>2. SlabStart(size - 1) \in Nat /\ SlabCount(size - 1) \in Nat
         /\ SlabEnd(size - 1) = SlabStart(size - 1) + SlabCount(size - 1)
     BY <1>1, SlabsInARow
   <3> QED  BY <1>1, <1>2, <3>1, <3>2, SlabsInARow
  <2> QED  BY <1>1, <2>1, <2>2 DEF Ranks
 <1> QED  BY <1>2, <1>3

(* A position of the box lies in one of its planes.                        *)
LEMMA PlaneType ==
    ASSUME NEW x \in Int
    PROVE  Box \in Nat \ {0} /\ Wrap(x) \in 0 .. Box - 1 /\ PlaneOf(x) \in Planes
 <1>1. NumPlanes \in Nat \ {0} /\ Cell \in Nat \ {0}
   BY GeometryAssumption
 <1>2. Box \in Nat \ {0}
   BY <1>1 DEF Box
 <1>3. Wrap(x) \in 0 .. Box - 1
  <2> HIDE DEF Box
  <2> QED  BY <1>2 DEF Wrap
 <1> DEFINE y == Wrap(x)
            p == y \div Cell
 <1>4. y \in Nat /\ y < NumPlanes * Cell
   BY <1>2, <1>3 DEF Box
 <1> HIDE DEF y
 <1>5. p \in Nat /\ y = Cell * p + (y % Cell) /\ y % Cell \in Nat
   BY <1>1, <1>4, Division
 <1>6. p < NumPlanes
  <2> HIDE DEF p
  <2>1. Cell * p < Cell * NumPlanes
    BY <1>1, <1>4, <1>5
  <2> QED  BY <1>1, <1>5, <2>1
 <1> QED  BY <1>1, <1>2, <1>3, <1>5, <1>6 DEF PlaneOf, Planes, y

(* Every position is owned by exactly one rank: the one whose slab has its *)
(* plane.  This is what routes a particle, and what says that it need not  *)
(* be routed.                                                              *)
THEOREM OneOwner ==
    ASSUME size \in 1 .. NumPlanes, NEW x \in Int, NEW r \in Ranks
    PROVE  /\ Owner(x) \in Ranks
           /\ Owner(x) = r <=> SlabStart(r) <= PlaneOf(x) /\ PlaneOf(x) < SlabEnd(r)
 <1> DEFINE p == PlaneOf(x)
            beyond == {q \in Ranks : SlabEnd(q) > p}
            o == Owner(x)
 <1>1. size \in Nat \ {0} /\ NumPlanes \in Nat \ {0}
       /\ size - 1 \in Ranks /\ Ranks \subseteq Nat
   BY GeometryAssumption DEF Ranks
 <1>2. p \in Nat /\ p < NumPlanes
   BY <1>1, PlaneType DEF Planes
 <1>3. o \in beyond /\ \A q \in beyond : o <= q
  <2>1. beyond \in SUBSET Nat /\ beyond # {}
   <3>1. size - 1 \in beyond
     BY <1>1, <1>2, SlabsInARow
   <3> QED  BY <1>1, <3>1
  <2>2. o = Min(beyond)
    BY DEF Owner
  <2> HIDE DEF beyond, o
  <2> QED  BY <2>1, <2>2, MinIsLeast
 <1>4. o \in Ranks /\ p < SlabEnd(o)
   BY <1>2, <1>3, SlabInMesh
 <1>5. SlabStart(o) <= p
  <2>1. CASE o = 0
    BY <1>2, <2>1, SlabsInARow
  <2>2. CASE o > 0
   <3>1. o - 1 \in Ranks /\ o \in Nat
     BY <1>1, <1>4, <2>2 DEF Ranks
   <3>2. o - 1 \notin beyond
     BY <1>3, <3>1
   <3>3. SlabEnd(o - 1) = SlabStart(o) /\ SlabEnd(o - 1) \in Nat
     BY <1>4, <2>2, <3>1, SlabsInARow, SlabInMesh
   <3> QED  BY <1>2, <3>1, <3>2, <3>3
  <2>3. o \in Nat
    BY <1>1, <1>4
  <2> HIDE DEF o
  <2> QED  BY <2>1, <2>2, <2>3
 <1>6. ASSUME SlabStart(r) <= p, p < SlabEnd(r), o # r
       PROVE  FALSE
  <2>1. /\ SlabStart(r) \in Nat /\ SlabEnd(r) \in Nat
        /\ SlabStart(o) \in Nat /\ SlabEnd(o) \in Nat
    BY <1>4, SlabInMesh
  <2>2. CASE o < r
    BY <1>2, <1>4, <1>6, <2>1, <2>2, SlabsInOrder
  <2>3. CASE r < o
    BY <1>2, <1>4, <1>5, <1>6, <2>1, <2>3, SlabsInOrder
  <2>4. o \in Nat /\ r \in Nat
    BY <1>1, <1>4
  <2> HIDE DEF o
  <2> QED  BY <1>6, <2>2, <2>3, <2>4
 <1> QED  BY <1>4, <1>5, <1>6

-----------------------------------------------------------------------------
(* Distances.                                                              *)

(* Of the images of a point of the box, the one nearest to the middle of a *)
(* slab is also the one least outside of it.                               *)
LEMMA NearestIsLeast ==
    ASSUME NEW box \in Nat \ {0}, NEW l \in Nat, NEW h \in Nat, l < h, h <= box,
           NEW x \in 0 .. box - 1
    PROVE  LET delta == 2 * x - (l + h)
               q == RoundedQuotient(delta, 2 * box)
           IN  /\ q \in {-1, 0, 1}
               /\ \A k \in {-1, 0, 1} :
                     \/ l - (x - q * box) <= 0 /\ (x - q * box) - h <= 0
                     \/ l - (x - q * box) <= l - (x + k * box)
                        /\ (x - q * box) - h <= l - (x + k * box)
                     \/ l - (x - q * box) <= (x + k * box) - h
                        /\ (x - q * box) - h <= (x + k * box) - h
 <1> DEFINE delta == 2 * x - (l + h)
            q == RoundedQuotient(delta, 2 * box)
 <1>1. delta \in Int /\ delta < 2 * box /\ delta > - (2 * box)
   OBVIOUS
 <1>2. /\ delta >= box => q = 1
       /\ delta <= - box => q = -1
       /\ delta < box /\ delta > - box => q = 0
  <2> HIDE DEF delta
  <2>1. CASE delta >= box
   <3>1. q = (2 * delta + 2 * box) \div (2 * (2 * box))
     BY <1>1, <2>1 DEF RoundedQuotient
   <3> QED  BY <1>1, <2>1, <3>1
  <2>2. CASE delta <= - box
   <3>1. q = - ((2 * box - 2 * delta) \div (2 * (2 * box)))
     BY <1>1, <2>2 DEF RoundedQuotient
   <3> QED  BY <1>1, <2>2, <3>1
  <2>3. CASE delta < box /\ delta > - box
   <3>1. CASE delta >= 0
    <4>1. q = (2 * delta + 2 * box) \div (2 * (2 * box))
      BY <1>1, <3>1 DEF RoundedQuotient
    <4> QED  BY <1>1, <2>3, <3>1, <4>1
   <3>2. CASE delta < 0
    <4>1. q = - ((2 * box - 2 * delta) \div (2 * (2 * box)))
      BY <1>1, <3>2 DEF RoundedQuotient
    <4> QED  BY <1>1, <2>3, <3>2, <4>1
   <3> QED  BY <1>1, <3>1, <3>2
  <2> QED  BY <1>1, <2>1, <2>2, <2>3
 <1>3. CASE delta >= box
  <2>1. q = 1
    BY <1>2, <1>3
  <2> HIDE DEF q
  <2> QED  BY <1>3, <2>1 DEF q
 <1>4. CASE delta <= - box
  <2>1. q = -1
    BY <1>2, <1>4
  <2> HIDE DEF q
  <2> QED  BY <1>4, <2>1 DEF q
 <1>5. CASE delta < box /\ delta > - box
  <2>1. q = 0
    BY <1>2, <1>5
  <2> HIDE DEF q
  <2> QED  BY <1>5, <2>1 DEF q
 <1> QED  BY <1>1, <1>3, <1>4, <1>5

(* The exact test: a particle is sent to a slab when one of its images is  *)
(* within the search radius of it.                                         *)
LEMMA VisibleIsInReach ==
    ASSUME size \in 1 .. NumPlanes, NEW d \in Ranks, NEW search \in Nat,
           NEW x \in 0 .. Box - 1
    PROVE  /\ Visible(x, d, search) <=> PeriodicDistance(x, d) <= search
           /\ Visible(x, d, search) =>
                \E k \in {-1, 0, 1} :
                   /\ SlabStart(d) * Cell - (x + k * Box) <= search
                   /\ (x + k * Box) - SlabEnd(d) * Cell <= search
 <1> DEFINE box == Box
            l == SlabStart(d) * Cell
            h == SlabEnd(d) * Cell
            q == RoundedQuotient(2 * x - (l + h), 2 * box)
            At(k) == Max({0, l - (x + k * box), (x + k * box) - h})
 <1>1. /\ NumPlanes \in Nat \ {0} /\ Cell \in Nat \ {0}
       /\ SlabStart(d) \in Nat /\ SlabEnd(d) \in Nat
       /\ SlabStart(d) < SlabEnd(d) /\ SlabEnd(d) <= NumPlanes
   BY GeometryAssumption, SlabInMesh
 <1>2. /\ box \in Nat \ {0} /\ l \in Nat /\ h \in Nat /\ l < h /\ h <= box
       /\ x \in 0 .. box - 1
  <2>1. box = NumPlanes * Cell
    BY DEF Box
  <2> HIDE DEF box
  <2>2. box \in Nat \ {0} /\ l \in Nat /\ h \in Nat
    BY <1>1, <2>1
  <2>3. l < h
    BY <1>1
  <2>4. h <= box
    BY <1>1, <2>1
  <2> QED  BY <2>2, <2>3, <2>4 DEF box
 <1>3. /\ Low2(d) = 2 * l /\ High2(d) = 2 * h /\ Centre2(d) = l + h
   BY <1>1 DEF Low2, High2, Centre2
 <1>4. q = -1 \/ q = 0 \/ q = 1
  <2> HIDE DEF box, l, h
  <2> QED  BY <1>2, NearestIsLeast DEF q
 <1>5. NearestImage2(x, d) = 2 * (x - q * box)
  <2>1. NearestImage2(x, d) = (l + h) + (2 * x - (l + h)) - q * 2 * box
    BY <1>3 DEF NearestImage2
  <2> HIDE DEF q, box, l, h
  <2>2. (l + h) + (2 * x - (l + h)) - q * 2 * box = 2 * (x - q * box)
    BY <1>2, <1>4
  <2> QED  BY <2>1, <2>2
 <1>6. Visible(x, d, search) <=> l - (x - q * box) <= search
                                 /\ (x - q * box) - h <= search
  <2> DEFINE y == x - q * box
  <2> HIDE DEF q, box, l, h
  <2>1. y \in Int /\ NearestImage2(x, d) = 2 * y
    BY <1>2, <1>4, <1>5
  <2> HIDE DEF y
  <2>2. DistanceToSlab2(2 * y, d) = IF y < l THEN 2 * l - 2 * y
                                    ELSE IF y > h THEN 2 * y - 2 * h ELSE 0
    BY <1>2, <1>3, <2>1 DEF DistanceToSlab2
  <2>3. Visible(x, d, search) <=> l - y <= search /\ y - h <= search
    BY <1>2, <2>1, <2>2 DEF Visible
  <2> QED  BY <2>3 DEF y
 <1>7. ASSUME NEW k \in {-1, 0, 1}
       PROVE  /\ At(k) \in Int
              /\ At(k) <= search <=> l - (x + k * box) <= search
                                     /\ (x + k * box) - h <= search
  <2> DEFINE a == l - (x + k * box)
             b == (x + k * box) - h
  <2>1. a \in Int /\ b \in Int
   <3> HIDE DEF box, l, h
   <3> QED  BY <1>2
  <2> HIDE DEF a, b
  <2>2. /\ Max({0, a, b}) \in {0, a, b}
        /\ Max({0, a, b}) >= 0 /\ Max({0, a, b}) >= a /\ Max({0, a, b}) >= b
   <3> DEFINE z == 0
   <3>1. z \in Int
     OBVIOUS
   <3> HIDE DEF z
   <3>2. /\ Max({z, a, b}) \in {z, a, b}
         /\ Max({z, a, b}) >= z /\ Max({z, a, b}) >= a /\ Max({z, a, b}) >= b
     BY <2>1, <3>1, MaxOfThree
   <3> QED  BY <3>2 DEF z
  <2> DEFINE m == Max({0, a, b})
  <2>3. m \in {0, a, b} /\ m >= 0 /\ m >= a /\ m >= b
    BY <2>2
  <2> HIDE DEF m
  <2>4. m \in Int /\ (m <= search <=> a <= search /\ b <= search)
    BY <2>1, <2>3
  <2>5. At(k) = m
    BY DEF a, b, m
  <2> HIDE DEF At
  <2> QED  BY <2>4, <2>5 DEF a, b
 <1>8. PeriodicDistance(x, d) = Min({At(-1), At(0), At(1)})
  <2>1. {At(k) : k \in {-1, 0, 1}} = {At(-1), At(0), At(1)}
    OBVIOUS
  <2> QED  BY <2>1 DEF PeriodicDistance
 <1>9. PeriodicDistance(x, d) <= search <=> \E k \in {-1, 0, 1} : At(k) <= search
  <2>1. At(-1) \in Int /\ At(0) \in Int /\ At(1) \in Int
    BY <1>7
  <2> HIDE DEF At
  <2>2. LET m == Min({At(-1), At(0), At(1)})
        IN  m \in {At(-1), At(0), At(1)} /\ m <= At(-1) /\ m <= At(0) /\ m <= At(1)
    BY <2>1, MinOfThree
  <2>3. Min({At(-1), At(0), At(1)}) <= search
          <=> At(-1) <= search \/ At(0) <= search \/ At(1) <= search
    BY <2>1, <2>2
  <2> QED  BY <1>8, <2>3
 <1>10. ASSUME NEW k \in {-1, 0, 1}, At(k) <= search
        PROVE  l - (x - q * box) <= search /\ (x - q * box) - h <= search
  <2>1. l - (x + k * box) <= search /\ (x + k * box) - h <= search
    BY <1>7, <1>10
  <2>2. \/ l - (x - q * box) <= 0 /\ (x - q * box) - h <= 0
        \/ l - (x - q * box) <= l - (x + k * box)
           /\ (x - q * box) - h <= l - (x + k * box)
        \/ l - (x - q * box) <= (x + k * box) - h
           /\ (x - q * box) - h <= (x + k * box) - h
   <3> HIDE DEF box, l, h
   <3> QED  BY <1>2, NearestIsLeast DEF q
  <2> DEFINE near == x - q * box
             far == x + k * box
  <2>3. near \in Int /\ far \in Int
   <3> HIDE DEF box, q
   <3> QED  BY <1>2, <1>4
  <2> HIDE DEF near, far, l, h, box, q
  <2>4. l - near <= search /\ near - h <= search
    BY <1>2, <2>1, <2>2, <2>3 DEF near, far
  <2> QED  BY <2>4 DEF near
 <1>11. ASSUME l - (x - q * box) <= search, (x - q * box) - h <= search
        PROVE  \E k \in {-1, 0, 1} : At(k) <= search
  <2>1. - q \in {-1, 0, 1}
    BY <1>4
  <2>2. x + (- q) * box = x - q * box
   <3> HIDE DEF box, q
   <3> QED  BY <1>2, <1>4
  <2> HIDE DEF q, At, l, h, box
  <2>3. At(- q) <= search
   <3>1. At(- q) <= search <=> l - (x + (- q) * box) <= search
                               /\ (x + (- q) * box) - h <= search
     BY <1>7, <2>1
   <3> QED  BY <1>11, <2>2, <3>1
  <2> QED  BY <2>1, <2>3
 <1>12. ASSUME NEW k \in {-1, 0, 1}, At(k) <= search
        PROVE  l - (x + k * box) <= search /\ (x + k * box) - h <= search
   BY <1>7, <1>12
 <1> HIDE DEF At, q, l, h
 <1>13. \A k \in {-1, 0, 1} :
           At(k) <= search => l - (x + k * box) <= search /\ (x + k * box) - h <= search
   BY <1>12
 <1> QED  BY <1>6, <1>9, <1>10, <1>11, <1>13 DEF l, h

(* The coarse test: the slab of a particle that has an image within reach  *)
(* of another slab is a candidate of that slab's rank.  It is the gap the  *)
(* shorter way around the box that must not exceed the radius.             *)
LEMMA ReachIsCandidate ==
    ASSUME size \in 1 .. NumPlanes, NEW s \in Ranks, NEW d \in Ranks, s # d,
           NEW search \in Nat, NEW x \in 0 .. Box - 1,
           SlabStart(s) * Cell <= x, x < SlabEnd(s) * Cell,
           NEW k \in {-1, 0, 1},
           SlabStart(d) * Cell - (x + k * Box) <= search,
           (x + k * Box) - SlabEnd(d) * Cell <= search
    PROVE  d \in Candidates(s, search)
 <1> DEFINE box == Box
            ls == SlabStart(s)
            hs == SlabEnd(s)
            ld == SlabStart(d)
            hd == SlabEnd(d)
            gap == GapPlanes(s, d)
 <1>1. /\ NumPlanes \in Nat \ {0} /\ Cell \in Nat \ {0}
       /\ ls \in Nat /\ hs \in Nat /\ ld \in Nat /\ hd \in Nat
       /\ ls < hs /\ ld < hd /\ hs <= NumPlanes /\ hd <= NumPlanes
   BY GeometryAssumption, SlabInMesh
 <1>2. box = NumPlanes * Cell /\ box \in Nat \ {0}
   BY <1>1 DEF Box
 <1>3. s \in Int /\ d \in Int
  <2>1. size \in Nat
    BY <1>1
  <2> QED  BY <2>1 DEF Ranks
 <1>4. hs <= ld \/ hd <= ls
  <2>1. CASE s < d
    BY <2>1, SlabsInOrder
  <2>2. CASE d < s
    BY <2>2, SlabsInOrder
  <2> QED  BY <1>3, <2>1, <2>2
 <1>5. gap \in Nat /\ Cell * gap <= search
  <2>1. /\ ls * Cell \in Nat /\ hs * Cell \in Nat
        /\ ld * Cell \in Nat /\ hd * Cell \in Nat
        /\ ls * Cell <= x /\ x < hs * Cell
        /\ ld * Cell - (x + k * box) <= search
        /\ (x + k * box) - hd * Cell <= search
    BY <1>1
  <2>2. CASE hs <= ld
   <3>1. gap = Min({ld - hs, NumPlanes - (hd - ls)})
     BY <2>2 DEF GapPlanes
   <3> DEFINE e == ld - hs
              f == NumPlanes - (hd - ls)
   <3>2. e \in Nat /\ f \in Nat
     BY <1>1, <2>2
   <3>3. Cell * e = ld * Cell - hs * Cell
         /\ Cell * f = NumPlanes * Cell - hd * Cell + ls * Cell
     BY <1>1
   <3>4. Cell * e <= search \/ Cell * f <= search
    <4> HIDE DEF e, f, ls, hs, ld, hd, box
    <4>1. CASE k = 0
      BY <1>1, <1>2, <2>1, <3>3, <4>1
    <4>2. CASE k = -1
      BY <1>1, <1>2, <2>1, <3>3, <4>2
    <4>3. CASE k = 1
      BY <1>1, <1>2, <2>1, <3>3, <4>3
    <4> QED  BY <4>1, <4>2, <4>3
   <3> HIDE DEF e, f
   <3>5. Min({e, f}) \in {e, f} /\ Min({e, f}) <= e /\ Min({e, f}) <= f
    <4>1. e \in Int /\ f \in Int
      BY <3>2
    <4> QED  BY <4>1, MinOfTwo
   <3>6. gap = Min({e, f})
     BY <3>1 DEF e, f
   <3> HIDE DEF gap
   <3>7. gap \in Nat /\ gap <= e /\ gap <= f
     BY <3>2, <3>5, <3>6
   <3>8. Cell * gap <= Cell * e /\ Cell * gap <= Cell * f
     BY <1>1, <3>2, <3>7
   <3>9. Cell * gap \in Nat /\ Cell * e \in Nat /\ Cell * f \in Nat
     BY <1>1, <3>2, <3>7
   <3> QED  BY <3>4, <3>7, <3>8, <3>9
  <2>3. CASE hd <= ls /\ ~ (hs <= ld)
   <3>1. gap = Min({ls - hd, NumPlanes - (hs - ld)})
     BY <2>3 DEF GapPlanes
   <3> DEFINE e == ls - hd
              f == NumPlanes - (hs - ld)
   <3>2. e \in Nat /\ f \in Nat
     BY <1>1, <2>3
   <3>3. Cell * e = ls * Cell - hd * Cell
         /\ Cell * f = NumPlanes * Cell - hs * Cell + ld * Cell
     BY <1>1
   <3>4. Cell * e <= search \/ Cell * f <= search
    <4> HIDE DEF e, f, ls, hs, ld, hd, box
    <4>1. CASE k = 0
      BY <1>1, <1>2, <2>1, <3>3, <4>1
    <4>2. CASE k = -1
      BY <1>1, <1>2, <2>1, <3>3, <4>2
    <4>3. CASE k = 1
      BY <1>1, <1>2, <2>1, <3>3, <4>3
    <4> QED  BY <4>1, <4>2, <4>3
   <3> HIDE DEF e, f
   <3>5. Min({e, f}) \in {e, f} /\ Min({e, f}) <= e /\ Min({e, f}) <= f
    <4>1. e \in Int /\ f \in Int
      BY <3>2
    <4> QED  BY <4>1, MinOfTwo
   <3>6. gap = Min({e, f})
     BY <3>1 DEF e, f
   <3> HIDE DEF gap
   <3>7. gap \in Nat /\ gap <= e /\ gap <= f
     BY <3>2, <3>5, <3>6
   <3>8. Cell * gap <= Cell * e /\ Cell * gap <= Cell * f
     BY <1>1, <3>2, <3>7
   <3>9. Cell * gap \in Nat /\ Cell * e \in Nat /\ Cell * f \in Nat
     BY <1>1, <3>2, <3>7
   <3> QED  BY <3>4, <3>7, <3>8, <3>9
  <2> QED  BY <1>4, <2>2, <2>3
 <1>6. box * gap <= search * NumPlanes
  <2> HIDE DEF gap, box
  <2>1. NumPlanes * (Cell * gap) <= NumPlanes * search
    BY <1>1, <1>5
  <2>2. box * gap = NumPlanes * (Cell * gap)
    BY <1>1, <1>2, <1>5
  <2>3. search * NumPlanes = NumPlanes * search
    BY <1>1
  <2> QED  BY <2>1, <2>2, <2>3
 <1> QED  BY <1>6 DEF Candidates

(* A position of the box is inside the planes of its owner, in lengths.    *)
LEMMA InsideOwner ==
    ASSUME size \in 1 .. NumPlanes, NEW x \in 0 .. Box - 1
    PROVE  /\ Owner(x) \in Ranks
           /\ SlabStart(Owner(x)) * Cell <= x
           /\ x < SlabEnd(Owner(x)) * Cell
 <1> DEFINE o == Owner(x)
            p == x \div Cell
            a == SlabStart(o)
            b == SlabEnd(o)
 <1>1. NumPlanes \in Nat \ {0} /\ Cell \in Nat \ {0} /\ Box \in Nat \ {0}
   BY GeometryAssumption, PlaneType
 <1>2. x \in Nat /\ Wrap(x) = x
  <2> HIDE DEF Box
  <2> QED  BY <1>1 DEF Wrap
 <1>3. o \in Ranks /\ a <= p /\ p < b
  <2>1. x \in Int /\ PlaneOf(x) = p
    BY <1>2 DEF PlaneOf
  <2>2. o \in Ranks
   <3>1. 0 \in Ranks
     BY <1>1 DEF Ranks
   <3> QED  BY <2>1, <3>1, OneOwner
  <2> QED  BY <2>1, <2>2, OneOwner
 <1>4. a \in Nat /\ b \in Nat
   BY <1>3, SlabInMesh
 <1>5. p \in Nat /\ x = Cell * p + (x % Cell) /\ x % Cell \in 0 .. Cell - 1
   BY <1>1, <1>2, Division
 <1> DEFINE e == x % Cell
 <1>6. e \in 0 .. Cell - 1 /\ x = Cell * p + e
   BY <1>5
 <1> HIDE DEF p, a, b, e
 <1>7. a * Cell <= Cell * p
   BY <1>1, <1>3, <1>4, <1>5
 <1>8. Cell * p + Cell <= b * Cell
  <2>1. Cell * (p + 1) <= Cell * b
    BY <1>1, <1>3, <1>4, <1>5
  <2> QED  BY <1>1, <1>4, <1>5, <2>1
 <1>9. a * Cell <= x /\ x < b * Cell
  <2>1. a * Cell \in Nat /\ b * Cell \in Nat /\ Cell * p \in Nat
    BY <1>1, <1>4, <1>5
  <2> QED  BY <1>1, <1>2, <1>6, <1>7, <1>8, <2>1
 <1> QED  BY <1>3, <1>9 DEF a, b

(* GhostsFor sends a copy of a particle to another rank exactly when the   *)
(* particle is within the search radius of that rank's slab, the nearer    *)
(* way around the periodic box.  The coarse test on slabs loses nobody,    *)
(* and the rounded nearest image is the right one, also at half the box.   *)
THEOREM GhostSearchIsExact ==
    ASSUME size \in 1 .. NumPlanes, NEW d \in Ranks, NEW search \in Nat,
           NEW x \in 0 .. Box - 1, Owner(x) # d
    PROVE  (d \in Candidates(Owner(x), search) /\ Visible(x, d, search))
             <=> PeriodicDistance(x, d) <= search
 <1>1. Visible(x, d, search) <=> PeriodicDistance(x, d) <= search
   BY VisibleIsInReach
 <1>2. ASSUME Visible(x, d, search)
       PROVE  d \in Candidates(Owner(x), search)
  <2>1. \E k \in {-1, 0, 1} : /\ SlabStart(d) * Cell - (x + k * Box) <= search
                              /\ (x + k * Box) - SlabEnd(d) * Cell <= search
    BY <1>2, VisibleIsInReach
  <2>2. PICK k \in {-1, 0, 1} :
              /\ SlabStart(d) * Cell - (x + k * Box) <= search
              /\ (x + k * Box) - SlabEnd(d) * Cell <= search
    BY <2>1
  <2> QED  BY <2>2, InsideOwner, ReachIsCandidate
 <1> QED  BY <1>1, <1>2

-----------------------------------------------------------------------------
(* Derived state.                                                          *)

Retired == \A r \in Ranks : /\ accel[r] = "INVALID"
                            /\ ghostState[r] = "INVALID" /\ ghosts[r] = <<>>

(* From the moment the sparse path gives the old ghosts and accelerations  *)
(* up, and at the end of every path of several ranks.                      *)
DerivedStateRetired ==
    \/ stage \in {"sparse route", "sparse merge"}
    \/ stage = "partitioned" /\ size # 1
    => Retired

LEMMA RetiredAtStart == Init => DerivedStateRetired
  BY DEF Init, DerivedStateRetired

LEMMA RetiredStays == DerivedStateRetired /\ [Next]_vars => DerivedStateRetired'
 <1> SUFFICES ASSUME DerivedStateRetired, [Next]_vars
              PROVE  DerivedStateRetired'
   OBVIOUS
 <1> USE DEF DerivedStateRetired
 <1>1. CASE Preflight
  <2>1. stage' \in {"retain", "sparse", "route all", "threw"}
    BY <1>1 DEF Preflight, Path, Throws
  <2> QED  BY <2>1
 <1>2. CASE PartitionAlone
   BY <1>2 DEF PartitionAlone, world
 <1>3. CASE Retain
   BY <1>3 DEF Retain, Retired, Ranks, world
 <1>4. CASE Release
   BY <1>4 DEF Release, Retired, Ranks, world
 <1>5. CASE ExchangeSparse
  <2>1. stage = "sparse route" /\ UNCHANGED <<accel, ghosts, ghostState, size>>
    BY <1>5 DEF ExchangeSparse, Exchange, stores, world
  <2> QED  BY <2>1 DEF Retired, Ranks
 <1>6. CASE MergeSparse
  <2>1. stage = "sparse merge" /\ UNCHANGED <<accel, ghosts, ghostState, size>>
    BY <1>6 DEF MergeSparse, world
  <2> QED  BY <2>1 DEF Retired, Ranks
 <1>7. ASSUME NEW broken \in SUBSET Ranks, MergeFails(broken)
       PROVE  DerivedStateRetired'
   BY <1>7 DEF MergeFails
 <1>8. CASE ExchangeAll
   BY <1>8 DEF ExchangeAll, Exchange
 <1>9. CASE Rebuild
   BY <1>9 DEF Rebuild, Retired, Ranks, world
 <1>10. CASE SkipGhosts
   BY <1>10 DEF SkipGhosts
 <1>11. CASE RouteGhosts
   BY <1>11 DEF RouteGhosts
 <1>12. CASE PublishGhosts
  <2>1. stage' \in {"sources", "threw"}
    BY <1>12 DEF PublishGhosts, Throws
  <2> QED  BY <2>1
 <1>13. ASSUME NEW appended \in [Ranks -> 0 .. 1], PublishGhostsFails(appended)
        PROVE  DerivedStateRetired'
   BY <1>13 DEF PublishGhostsFails, Throws
 <1>14. CASE StageFails
   BY <1>14 DEF StageFails, Throws
 <1>15. CASE EvaluateForce
   BY <1>15 DEF EvaluateForce
 <1>16. ASSUME NEW move \in [DOMAIN truth -> Moves], Drift(move)
        PROVE  DerivedStateRetired'
   BY <1>16 DEF Drift
 <1>17. CASE UNCHANGED vars
   BY <1>17 DEF vars, stores, world, Retired, Ranks
 <1> QED
   BY <1>1, <1>2, <1>3, <1>4, <1>5, <1>6, <1>7, <1>8, <1>9, <1>10, <1>11,
      <1>12, <1>13, <1>14, <1>15, <1>16, <1>17 DEF Next, Stopped

(* Accelerations and ghosts that belong to the order and the owners before *)
(* a partition are never called valid after it, nor between the release of *)
(* the sparse path and its merge.                                          *)
THEOREM DerivedRetires == Spec => []DerivedStateRetired
  BY RetiredAtStart, RetiredStays, PTL DEF Spec
-----------------------------------------------------------------------------
(* Loops.                                                                  *)

(* A set of numbers that has 0, and n + 1 with n, has them all.            *)
LEMMA CountingUp ==
    ASSUME NEW S, 0 \in S, \A n \in Nat : n \in S => n + 1 \in S
    PROVE  \A n \in Nat : n \in S
 <1> SUFFICES ASSUME Nat \ S # {}  PROVE FALSE
   OBVIOUS
 <1>1. Nat \ S \in SUBSET Nat
   OBVIOUS
 <1> DEFINE n == Min(Nat \ S)
 <1>2. n \in Nat \ S /\ \A m \in Nat \ S : n <= m
   BY <1>1, MinIsLeast
 <1> HIDE DEF n
 <1>3. n # 0 /\ n - 1 \in Nat /\ (n - 1) + 1 = n
   BY <1>2
 <1>4. n - 1 \notin Nat \ S
   BY <1>2, <1>3
 <1> QED  BY <1>2, <1>3, <1>4

(* f[k] is what a loop has made of base after k of its n steps.            *)
IsLoop(f, n, base, step) ==
    f = [k \in 0 .. n |-> IF k = 0 THEN base ELSE step[k][f[k - 1]]]

(* A loop whose k-th step leads from T[k - 1] into T[k] stays in T.        *)
LEMMA Loop ==
    ASSUME NEW n \in Nat, NEW T, NEW base, NEW step, base \in T[0],
           \A k \in 1 .. n : \A x \in T[k - 1] : step[k][x] \in T[k]
    PROVE  \E f : /\ IsLoop(f, n, base, step)
                  /\ \A k \in 0 .. n : f[k] \in T[k]
 <1> DEFINE S == {m \in Nat : m <= n => \E f : /\ IsLoop(f, m, base, step)
                                               /\ \A k \in 0 .. m : f[k] \in T[k]}
 <1>1. 0 \in S
  <2> DEFINE f == [k \in 0 .. 0 |-> base]
  <2>1. IsLoop(f, 0, base, step)
    BY DEF IsLoop
  <2>2. \A k \in 0 .. 0 : f[k] \in T[k]
    OBVIOUS
  <2> HIDE DEF f
  <2> QED  BY <2>1, <2>2
 <1>2. ASSUME NEW m \in Nat, m \in S  PROVE m + 1 \in S
  <2> SUFFICES ASSUME m + 1 <= n
               PROVE  \E f : /\ IsLoop(f, m + 1, base, step)
                             /\ \A k \in 0 .. m + 1 : f[k] \in T[k]
    OBVIOUS
  <2>1. PICK f : IsLoop(f, m, base, step) /\ \A k \in 0 .. m : f[k] \in T[k]
    BY <1>2
  <2> DEFINE last == step[m + 1][f[m]]
             g == [k \in 0 .. m + 1 |-> IF k = m + 1 THEN last ELSE f[k]]
  <2>2. (\A k \in 0 .. m : g[k] = f[k]) /\ g[m + 1] = last
    OBVIOUS
  <2>3. last \in T[m + 1]
   <3>1. m + 1 \in 1 .. n /\ (m + 1) - 1 = m /\ m \in 0 .. m
     OBVIOUS
   <3> QED  BY <2>1, <3>1
  <2>4. g = [k \in 0 .. m + 1 |-> g[k]]
    OBVIOUS
  <2> HIDE DEF g
  <2>5. ASSUME NEW k \in 0 .. m + 1
        PROVE  g[k] = IF k = 0 THEN base ELSE step[k][g[k - 1]]
   <3>1. CASE k = m + 1
    <4>1. k # 0 /\ k - 1 = m /\ m \in 0 .. m
      BY <3>1
    <4> QED  BY <2>2, <3>1, <4>1
   <3>2. CASE k # m + 1
    <4>1. k \in 0 .. m /\ (k # 0 => k - 1 \in 0 .. m)
      BY <3>2
    <4>2. f[k] = IF k = 0 THEN base ELSE step[k][f[k - 1]]
      BY <2>1, <4>1 DEF IsLoop
    <4> QED  BY <2>2, <4>1, <4>2
   <3> QED  BY <3>1, <3>2
  <2>6. IsLoop(g, m + 1, base, step)
    BY <2>4, <2>5 DEF IsLoop
  <2>7. \A k \in 0 .. m + 1 : g[k] \in T[k]
    BY <2>1, <2>2, <2>3
  <2> QED  BY <2>6, <2>7
 <1> HIDE DEF S
 <1>3. n \in S
   BY <1>1, <1>2, CountingUp
 <1> QED  BY <1>3 DEF S

-----------------------------------------------------------------------------
(* Lists of particles.                                                     *)

Distinct(s) == \A i, j \in 1 .. Len(s) : s[i].id = s[j].id => i = j
Ascending(s) == \A i, j \in 1 .. Len(s) : i < j => s[i].id < s[j].id

LEMMA BodyType ==
    ASSUME NEW p \in Bodies
    PROVE  p.id \in Int /\ p.x \in Int /\ p.mass \in Nat
  BY DEF Bodies

LEMMA ListType ==
    ASSUME NEW s \in Seq(Bodies)
    PROVE  /\ Len(s) \in Nat
           /\ \A i \in 1 .. Len(s) : s[i] \in Bodies /\ s[i].id \in Int
 <1>1. Len(s) \in Nat /\ \A i \in 1 .. Len(s) : s[i] \in Bodies
   OBVIOUS
 <1> QED  BY <1>1, BodyType

(* Neighbours in order are all in order.                                   *)
LEMMA SortedIsAscending ==
    ASSUME NEW s \in Seq(Bodies)
    PROVE  StrictlySorted(s) <=> Ascending(s)
 <1>1. Len(s) \in Nat /\ \A i \in 1 .. Len(s) : s[i] \in Bodies /\ s[i].id \in Int
   BY ListType
 <1>2. ASSUME StrictlySorted(s)  PROVE Ascending(s)
  <2> DEFINE S == {n \in Nat : \A i, j \in 1 .. Len(s) :
                                  i < j /\ j <= n => s[i].id < s[j].id}
  <2>1. 0 \in S
    OBVIOUS
  <2>2. ASSUME NEW n \in Nat, n \in S  PROVE n + 1 \in S
   <3> SUFFICES ASSUME NEW i \in 1 .. Len(s), NEW j \in 1 .. Len(s),
                       i < j, j <= n + 1
                PROVE  s[i].id < s[j].id
     OBVIOUS
   <3>1. CASE j <= n
     BY <2>2, <3>1
   <3>2. CASE j = n + 1
    <4>1. n \in 1 .. Len(s) - 1 /\ n \in 1 .. Len(s)
      BY <1>1, <3>2
    <4>2. s[n].id < s[j].id
      BY <1>2, <3>2, <4>1 DEF StrictlySorted
    <4>3. i = n \/ s[i].id < s[n].id
      BY <2>2, <3>2, <4>1
    <4> HIDE DEF S
    <4> QED  BY <1>1, <4>1, <4>2, <4>3
   <3> QED  BY <3>1, <3>2
  <2> HIDE DEF S
  <2>3. Len(s) \in S
    BY <1>1, <2>1, <2>2, CountingUp
  <2> QED  BY <2>3 DEF S, Ascending
 <1>3. ASSUME Ascending(s)  PROVE StrictlySorted(s)
   BY <1>1, <1>3 DEF Ascending, StrictlySorted
 <1> QED  BY <1>2, <1>3

LEMMA AscendingIsDistinct ==
    ASSUME NEW s \in Seq(Bodies), Ascending(s)
    PROVE  Distinct(s)
 <1>1. Len(s) \in Nat /\ \A i \in 1 .. Len(s) : s[i].id \in Int
   BY ListType
 <1> QED  BY <1>1 DEF Ascending, Distinct

LEMMA InList ==
    ASSUME NEW s \in Seq(Bodies)
    PROVE  /\ DOMAIN s = 1 .. Len(s) /\ Len(s) \in Nat
           /\ \A p : p \in ToSet(s) <=> \E i \in 1 .. Len(s) : p = s[i]
           /\ ToSet(s) \subseteq Bodies
  BY DEF ToSet

-----------------------------------------------------------------------------
(* Those(s, S).                                                            *)

KeepOne(s, S, k, t) == IF s[k] \in S THEN Append(t, s[k]) ELSE t

(* What has been kept of the first k.                                      *)
Kept(s, S, k) ==
    {t \in Seq(Bodies) :
       /\ \A i \in 1 .. Len(t) : t[i] \in S /\ \E j \in 1 .. k : t[i] = s[j]
       /\ \A j \in 1 .. k : s[j] \in S => \E i \in 1 .. Len(t) : t[i] = s[j]
       /\ Distinct(s) => Distinct(t)
       /\ Ascending(s) => Ascending(t)}

LEMMA KeepOneKeeps ==
    ASSUME NEW s \in Seq(Bodies), NEW S, NEW k \in 1 .. Len(s), NEW t \in Kept(s, S, k - 1)
    PROVE  KeepOne(s, S, k, t) \in Kept(s, S, k)
 <1>1. /\ Len(s) \in Nat /\ k \in Nat /\ k - 1 \in Nat
       /\ \A i \in 1 .. Len(s) : s[i] \in Bodies /\ s[i].id \in Int
   BY ListType
 <1>2. /\ t \in Seq(Bodies) /\ Len(t) \in Nat
       /\ \A i \in 1 .. Len(t) : t[i] \in S /\ \E j \in 1 .. k - 1 : t[i] = s[j]
       /\ \A j \in 1 .. k - 1 : s[j] \in S => \E i \in 1 .. Len(t) : t[i] = s[j]
       /\ Distinct(s) => Distinct(t)
       /\ Ascending(s) => Ascending(t)
   BY DEF Kept
 <1>3. CASE s[k] \notin S
  <2>1. KeepOne(s, S, k, t) = t
    BY <1>3 DEF KeepOne
  <2>2. \A j \in 1 .. k : s[j] \in S => j \in 1 .. k - 1
    BY <1>1, <1>3
  <2>3. \A j \in 1 .. k - 1 : j \in 1 .. k
    BY <1>1
  <2> QED  BY <1>2, <2>1, <2>2, <2>3 DEF Kept
 <1>4. CASE s[k] \in S
  <2> DEFINE u == Append(t, s[k])
  <2>1. /\ u \in Seq(Bodies) /\ Len(u) = Len(t) + 1
        /\ \A i \in 1 .. Len(t) : u[i] = t[i]
        /\ u[Len(t) + 1] = s[k]
    BY <1>1, <1>2, AppendProperties
  <2> HIDE DEF u
  <2>2. ASSUME NEW i \in 1 .. Len(u)
        PROVE  u[i] \in S /\ \E j \in 1 .. k : u[i] = s[j]
   <3>1. CASE i = Len(u)
    <4>1. k \in 1 .. k
      BY <1>1
    <4> QED  BY <1>4, <2>1, <3>1, <4>1
   <3>2. CASE i # Len(u)
    <4>1. i \in 1 .. Len(t)
      BY <1>2, <2>1, <3>2
    <4>2. PICK j \in 1 .. k - 1 : t[i] = s[j]
      BY <1>2, <4>1
    <4>3. j \in 1 .. k
      BY <1>1
    <4> QED  BY <1>2, <2>1, <4>1, <4>2, <4>3
   <3> QED  BY <3>1, <3>2
  <2>3. ASSUME NEW j \in 1 .. k, s[j] \in S
        PROVE  \E i \in 1 .. Len(u) : u[i] = s[j]
   <3>1. CASE j = k
    <4>1. Len(u) \in 1 .. Len(u)
      BY <1>2, <2>1
    <4> QED  BY <2>1, <3>1, <4>1
   <3>2. CASE j # k
    <4>1. j \in 1 .. k - 1
      BY <1>1, <3>2
    <4>2. PICK i \in 1 .. Len(t) : t[i] = s[j]
      BY <1>2, <2>3, <4>1
    <4>3. i \in 1 .. Len(u)
      BY <1>2, <2>1
    <4> QED  BY <2>1, <4>2, <4>3
   <3> QED  BY <3>1, <3>2
  <2>4. ASSUME NEW i \in 1 .. Len(u)
        PROVE  \/ i = Len(u) /\ u[i] = s[k]
               \/ /\ i \in 1 .. Len(t) /\ u[i] = t[i]
                  /\ \E j \in 1 .. Len(s) : j < k /\ u[i] = s[j]
   <3>1. CASE i = Len(u)
     BY <2>1, <3>1
   <3>2. CASE i # Len(u)
    <4>1. i \in 1 .. Len(t)
      BY <1>2, <2>1, <3>2
    <4>2. PICK j \in 1 .. k - 1 : t[i] = s[j]
      BY <1>2, <4>1
    <4>3. j \in 1 .. Len(s) /\ j < k
      BY <1>1
    <4> QED  BY <2>1, <4>1, <4>2, <4>3
   <3> QED  BY <3>1, <3>2
  <2>5. ASSUME Distinct(s)  PROVE Distinct(u)
   <3> SUFFICES ASSUME NEW i \in 1 .. Len(u), NEW j \in 1 .. Len(u), u[i].id = u[j].id
                PROVE  i = j
     BY DEF Distinct
   <3>1. Distinct(t)
     BY <1>2, <2>5
   <3>2. \A a \in 1 .. Len(s) : a # k => s[a].id # s[k].id
     BY <2>5 DEF Distinct
   <3>3. CASE i \in 1 .. Len(t) /\ j \in 1 .. Len(t)
     BY <2>1, <3>1, <3>3 DEF Distinct
   <3>4. CASE ~ (i \in 1 .. Len(t) /\ j \in 1 .. Len(t))
     BY <1>1, <2>4, <3>2, <3>4
   <3> QED  BY <3>3, <3>4
  <2>6. ASSUME Ascending(s)  PROVE Ascending(u)
   <3> SUFFICES ASSUME NEW i \in 1 .. Len(u), NEW j \in 1 .. Len(u), i < j
                PROVE  u[i].id < u[j].id
     BY DEF Ascending
   <3>1. i \in 1 .. Len(t)
     BY <1>2, <2>1
   <3>2. CASE j \in 1 .. Len(t)
     BY <1>2, <2>1, <2>6, <3>1, <3>2 DEF Ascending
   <3>3. CASE j = Len(u)
    <4>1. PICK a \in 1 .. k - 1 : t[i] = s[a]
      BY <1>2, <3>1
    <4>2. a \in 1 .. Len(s) /\ a < k
      BY <1>1
    <4> QED  BY <2>1, <2>6, <3>1, <3>3, <4>1, <4>2 DEF Ascending
   <3>4. j \in 1 .. Len(t) \/ j = Len(u)
     BY <1>2, <2>1
   <3> QED  BY <3>2, <3>3, <3>4
  <2>7. KeepOne(s, S, k, t) = u
    BY <1>4 DEF KeepOne, u
  <2> QED  BY <2>1, <2>2, <2>3, <2>5, <2>6, <2>7 DEF Kept
 <1> QED  BY <1>3, <1>4

(* A selection has the particles of the list that are in S, and keeps both *)
(* distinctness and order.                                                 *)
LEMMA ThoseAreKept ==
    ASSUME NEW s \in Seq(Bodies), NEW S
    PROVE  /\ Those(s, S) \in Seq(Bodies)
           /\ ToSet(Those(s, S)) = ToSet(s) \intersect S
           /\ Distinct(s) => Distinct(Those(s, S))
           /\ Ascending(s) => Ascending(Those(s, S))
 <1> DEFINE n == Len(s)
            T == [k \in 0 .. n |-> Kept(s, S, k)]
            step == [k \in 1 .. n |-> [t \in Seq(Bodies) |-> KeepOne(s, S, k, t)]]
            is(f) == f = [m \in 0 .. n |->
                           IF m = 0 THEN <<>>
                           ELSE IF s[m] \in S THEN Append(f[m - 1], s[m]) ELSE f[m - 1]]
 <1>1. n \in Nat
   OBVIOUS
 <1>2. <<>> \in T[0]
  <2>1. <<>> \in Seq(Bodies) /\ Len(<<>>) = 0
    OBVIOUS
  <2>2. <<>> \in Kept(s, S, 0)
    BY <2>1 DEF Kept, Distinct, Ascending
  <2> QED  BY <1>1, <2>2
 <1>3. \A k \in 0 .. n : T[k] \subseteq Seq(Bodies)
   BY DEF Kept
 <1>4. ASSUME NEW k \in 1 .. n, NEW t \in T[k - 1]
       PROVE  step[k][t] \in T[k]
  <2>1. k - 1 \in 0 .. n /\ k \in 0 .. n
    BY <1>1
  <2>2. t \in Kept(s, S, k - 1) /\ t \in Seq(Bodies)
    BY <1>3, <2>1
  <2>3. KeepOne(s, S, k, t) \in Kept(s, S, k)
    BY <2>2, KeepOneKeeps
  <2> QED  BY <2>1, <2>2, <2>3
 <1>5. \E f : IsLoop(f, n, <<>>, step) /\ \A k \in 0 .. n : f[k] \in T[k]
  <2> HIDE DEF n, T, step
  <2> QED  BY <1>1, <1>2, <1>4, Loop
 <1>6. PICK f : IsLoop(f, n, <<>>, step) /\ \A k \in 0 .. n : f[k] \in T[k]
   BY <1>5
 <1>7. is(f)
  <2>1. ASSUME NEW m \in 1 .. n
        PROVE  step[m][f[m - 1]] = IF s[m] \in S THEN Append(f[m - 1], s[m])
                                                 ELSE f[m - 1]
   <3>1. m - 1 \in 0 .. n
     BY <1>1
   <3>2. f[m - 1] \in Seq(Bodies)
     BY <1>3, <1>6, <3>1
   <3> QED  BY <3>2 DEF KeepOne
  <2>2. \A m \in 0 .. n : m # 0 => m \in 1 .. n
    BY <1>1
  <2> HIDE DEF n, step, T
  <2> QED  BY <1>6, <2>1, <2>2 DEF IsLoop
 <1> DEFINE g == CHOOSE h : is(h)
 <1>8. is(g)
   BY <1>7
 <1>9. Those(s, S) = g[n]
   BY DEF Those
 <1>10. g[n] \in Kept(s, S, n)
  <2> DEFINE Q == {k \in Nat : k <= n => g[k] = f[k]}
  <2> HIDE DEF g
  <2>1. 0 \in Q
    BY <1>1, <1>7, <1>8
  <2>2. ASSUME NEW k \in Nat, k \in Q  PROVE k + 1 \in Q
   <3> SUFFICES ASSUME k + 1 <= n  PROVE g[k + 1] = f[k + 1]
     OBVIOUS
   <3>1. k + 1 \in 0 .. n /\ k + 1 # 0 /\ (k + 1) - 1 = k /\ g[k] = f[k]
     BY <1>1, <2>2
   <3>2. f[k + 1] = IF s[k + 1] \in S THEN Append(f[k], s[k + 1]) ELSE f[k]
     BY <1>7, <3>1
   <3>3. g[k + 1] = IF s[k + 1] \in S THEN Append(g[k], s[k + 1]) ELSE g[k]
     BY <1>8, <3>1
   <3> QED  BY <3>1, <3>2, <3>3
  <2> HIDE DEF Q
  <2>3. n \in Q
    BY <1>1, <2>1, <2>2, CountingUp
  <2>4. g[n] = f[n]
    BY <2>3 DEF Q
  <2>5. n \in 0 .. n
    BY <1>1
  <2> QED  BY <1>6, <2>4, <2>5
 <1> HIDE DEF g
 <1> DEFINE t == g[n]
 <1>11. /\ t \in Seq(Bodies)
        /\ \A i \in 1 .. Len(t) : t[i] \in S /\ \E j \in 1 .. n : t[i] = s[j]
        /\ \A j \in 1 .. n : s[j] \in S => \E i \in 1 .. Len(t) : t[i] = s[j]
        /\ Distinct(s) => Distinct(t)
        /\ Ascending(s) => Ascending(t)
   BY <1>10 DEF Kept
 <1>12. ToSet(t) = ToSet(s) \intersect S
  <2> HIDE DEF t
  <2>1. /\ \A p : p \in ToSet(t) <=> \E i \in 1 .. Len(t) : p = t[i]
        /\ \A p : p \in ToSet(s) <=> \E i \in 1 .. n : p = s[i]
    BY <1>11, InList
  <2>2. ASSUME NEW p \in ToSet(t)  PROVE p \in ToSet(s) \intersect S
    BY <1>11, <2>1, <2>2
  <2>3. ASSUME NEW p \in ToSet(s) \intersect S  PROVE p \in ToSet(t)
   <3>1. PICK j \in 1 .. n : p = s[j]
     BY <2>1
   <3>2. PICK i \in 1 .. Len(t) : t[i] = s[j]
     BY <1>11, <3>1
   <3> QED  BY <2>1, <3>1, <3>2
  <2> QED  BY <2>2, <2>3
 <1> QED  BY <1>9, <1>11, <1>12

-----------------------------------------------------------------------------
(* SortedById(s).                                                          *)

LEMMA InsertionShape ==
    ASSUME NEW t \in Seq(Bodies), NEW p \in Bodies, NEW i \in 1 .. Len(t) + 1,
           NEW u, u = InsertAt(t, i, p)
    PROVE  /\ u \in Seq(Bodies) /\ Len(u) = Len(t) + 1
           /\ \A j \in 1 .. i - 1 : u[j] = t[j]
           /\ u[i] = p
           /\ \A j \in i .. Len(t) : u[j + 1] = t[j]
 <1> DEFINE a == SubSeq(t, 1, i - 1)
            b == SubSeq(t, i, Len(t))
 <1>1. Len(t) \in Nat /\ i \in Nat \ {0}
   OBVIOUS
 <1>2. a \in Seq(Bodies) /\ Len(a) = i - 1 /\ \A j \in 1 .. i - 1 : a[j] = t[j]
  <2>1. i - 1 \in 1 - 1 .. Len(t)
    BY <1>1
  <2>2. \A j \in 1 .. 1 + (i - 1) - 1 : (1 + j) - 1 = j
    OBVIOUS
  <2> QED  BY <1>1, <2>1, <2>2, SubSeqProperties
 <1>3. b \in Seq(Bodies) /\ Len(b) = Len(t) - i + 1
       /\ \A j \in 1 .. Len(t) - i + 1 : b[j] = t[i + j - 1]
  <2>1. Len(t) \in i - 1 .. Len(t)
    BY <1>1
  <2> QED  BY <1>1, <2>1, SubSeqProperties
 <1>4. <<p>> \in Seq(Bodies) /\ Len(<<p>>) = 1 /\ <<p>>[1] = p
   OBVIOUS
 <1> DEFINE c == a \o <<p>>
 <1> HIDE DEF a, b
 <1>5. c \in Seq(Bodies) /\ Len(c) = i /\ (\A j \in 1 .. i - 1 : c[j] = t[j]) /\ c[i] = p
  <2>1. c = Append(a, p)
    BY <1>2, AppendIsConcat
  <2> HIDE DEF c
  <2>2. /\ c \in Seq(Bodies) /\ Len(c) = Len(a) + 1
        /\ \A j \in 1 .. Len(a) : c[j] = a[j]
        /\ c[Len(a) + 1] = p
    BY <1>2, <2>1, AppendProperties
  <2> QED  BY <1>1, <1>2, <2>2
 <1>6. u = c \o b
   BY DEF InsertAt, a, b
 <1> HIDE DEF c
 <1>7. u \in Seq(Bodies) /\ Len(u) = Len(t) + 1
  <2>1. c \o b \in Seq(Bodies) /\ Len(c \o b) = Len(c) + Len(b)
    BY <1>3, <1>5, ConcatProperties
  <2> QED  BY <1>1, <1>3, <1>5, <1>6, <2>1
 <1>8. \A j \in 1 .. i : u[j] = c[j]
   BY <1>1, <1>3, <1>5, <1>6, ConcatProperties
 <1>9. ASSUME NEW j \in i .. Len(t)  PROVE u[j + 1] = t[j]
  <2>1. j + 1 > Len(c) /\ j + 1 <= Len(c) + Len(b)
        /\ (j + 1) - Len(c) \in 1 .. Len(t) - i + 1 /\ i + ((j + 1) - Len(c)) - 1 = j
    BY <1>1, <1>3, <1>5
  <2>2. u[j + 1] = b[(j + 1) - Len(c)]
    BY <1>1, <1>3, <1>5, <1>6, <2>1, ConcatProperties
  <2> QED  BY <1>3, <2>1, <2>2
 <1>10. \A j \in 1 .. i - 1 : j \in 1 .. i
   BY <1>1
 <1>11. i \in 1 .. i
   BY <1>1
 <1> QED  BY <1>5, <1>7, <1>8, <1>9, <1>10, <1>11

(* Where a particle is inserted, those before are not larger and those     *)
(* after are.                                                              *)
LEMMA InsertionKeepsOrder ==
    ASSUME NEW t \in Seq(Bodies), NEW p \in Bodies, NEW u, u = Inserted(t, p)
    PROVE  /\ u \in Seq(Bodies)
           /\ \A j \in 1 .. Len(u) : u[j] = p \/ \E i \in 1 .. Len(t) : u[j] = t[i]
           /\ \E j \in 1 .. Len(u) : u[j] = p
           /\ \A i \in 1 .. Len(t) : \E j \in 1 .. Len(u) : u[j] = t[i]
           /\ Ascending(t) /\ (\A i \in 1 .. Len(t) : t[i].id # p.id) => Ascending(u)
 <1> DEFINE above == {i \in 1 .. Len(t) : p.id < t[i].id} \union {Len(t) + 1}
            m == Min(above)
 <1>1. Len(t) \in Nat /\ p.id \in Int /\ \A i \in 1 .. Len(t) : t[i].id \in Int
   BY ListType, BodyType
 <1>2. m \in above /\ \A y \in above : m <= y
  <2>1. above \in SUBSET Nat /\ above # {}
    BY <1>1
  <2> HIDE DEF above
  <2> QED  BY <2>1, MinIsLeast
 <1>3. u = InsertAt(t, m, p)
   BY DEF Inserted
 <1>4. m \in 1 .. Len(t) + 1
   BY <1>1, <1>2
 <1>5. \A i \in m .. Len(t) : i = m => p.id < t[i].id
   BY <1>1, <1>2
 <1>6. \A i \in 1 .. m - 1 : ~ (p.id < t[i].id)
  <2> SUFFICES ASSUME NEW i \in 1 .. m - 1, p.id < t[i].id  PROVE FALSE
    OBVIOUS
  <2>1. i \in above
    BY <1>1, <1>4
  <2> HIDE DEF m, above
  <2> QED  BY <1>2, <1>4, <2>1
 <1> HIDE DEF m, above
 <1>7. /\ u \in Seq(Bodies) /\ Len(u) = Len(t) + 1
       /\ \A j \in 1 .. m - 1 : u[j] = t[j]
       /\ u[m] = p
       /\ \A j \in m .. Len(t) : u[j + 1] = t[j]
   BY <1>3, <1>4, InsertionShape
 <1>8. ASSUME NEW j \in 1 .. Len(u)
       PROVE  \/ j \in 1 .. m - 1 /\ u[j] = t[j]
              \/ j = m /\ u[j] = p
              \/ j - 1 \in m .. Len(t) /\ u[j] = t[j - 1]
  <2>1. CASE j < m
   <3>1. j \in 1 .. m - 1
     BY <1>4, <2>1
   <3> QED  BY <1>7, <3>1
  <2>2. CASE j = m
    BY <1>7, <2>2
  <2>3. CASE j > m
   <3>1. j - 1 \in m .. Len(t) /\ (j - 1) + 1 = j
     BY <1>1, <1>4, <1>7, <2>3
   <3>2. u[(j - 1) + 1] = t[j - 1]
     BY <1>7, <3>1
   <3> QED  BY <3>1, <3>2
  <2> QED  BY <1>4, <2>1, <2>2, <2>3
 <1>9. ASSUME NEW j \in 1 .. Len(u)
       PROVE  u[j] = p \/ \E i \in 1 .. Len(t) : u[j] = t[i]
  <2>1. CASE j \in 1 .. m - 1 /\ u[j] = t[j]
   <3>1. j \in 1 .. Len(t)
     BY <1>1, <1>4, <2>1
   <3> QED  BY <2>1, <3>1
  <2>2. CASE j - 1 \in m .. Len(t) /\ u[j] = t[j - 1]
   <3>1. j - 1 \in 1 .. Len(t)
     BY <1>1, <1>4, <2>2
   <3> QED  BY <2>2, <3>1
  <2> QED  BY <1>8, <2>1, <2>2
 <1>10. m \in 1 .. Len(u)
   BY <1>4, <1>7
 <1>11. ASSUME NEW i \in 1 .. Len(t)  PROVE \E j \in 1 .. Len(u) : u[j] = t[i]
  <2>1. CASE i < m
   <3>1. i \in 1 .. m - 1 /\ i \in 1 .. Len(u)
     BY <1>1, <1>4, <1>7, <2>1
   <3> QED  BY <1>7, <3>1
  <2>2. CASE i >= m
   <3>1. i \in m .. Len(t) /\ i + 1 \in 1 .. Len(u)
     BY <1>1, <1>4, <1>7, <2>2
   <3> QED  BY <1>7, <3>1
  <2> QED  BY <1>4, <2>1, <2>2
 <1>12. ASSUME Ascending(t), \A i \in 1 .. Len(t) : t[i].id # p.id
        PROVE  Ascending(u)
  <2> SUFFICES ASSUME NEW i \in 1 .. Len(u), NEW j \in 1 .. Len(u), i < j
               PROVE  u[i].id < u[j].id
    BY DEF Ascending
  <2>1. \A a, b \in 1 .. Len(t) : a < b => t[a].id < t[b].id
    BY <1>12 DEF Ascending
  <2>2. \A a \in 1 .. m - 1 : a \in 1 .. Len(t) /\ t[a].id < p.id
   <3> TAKE a \in 1 .. m - 1
   <3>1. a \in 1 .. Len(t)
     BY <1>1, <1>4
   <3>2. ~ (p.id < t[a].id) /\ t[a].id # p.id
     BY <1>6, <1>12, <3>1
   <3> QED  BY <1>1, <3>1, <3>2
  <2>3. \A a \in m .. Len(t) : a \in 1 .. Len(t) /\ p.id < t[a].id
   <3> TAKE a \in m .. Len(t)
   <3>1. a \in 1 .. Len(t) /\ m \in 1 .. Len(t) /\ m \in m .. Len(t)
     BY <1>1, <1>4
   <3>2. p.id < t[m].id
     BY <1>5, <3>1
   <3>3. a = m \/ t[m].id < t[a].id
     BY <1>4, <2>1, <3>1
   <3> QED  BY <1>1, <3>1, <3>2, <3>3
  <2>4. CASE i \in 1 .. m - 1 /\ u[i] = t[i]
   <3>1. CASE j \in 1 .. m - 1 /\ u[j] = t[j]
     BY <2>1, <2>2, <2>4, <3>1
   <3>2. CASE j = m /\ u[j] = p
     BY <2>2, <2>4, <3>2
   <3>3. CASE j - 1 \in m .. Len(t) /\ u[j] = t[j - 1]
    <4>1. t[i].id < p.id /\ p.id < t[j - 1].id
      BY <2>2, <2>3, <2>4, <3>3
    <4>2. t[i].id \in Int /\ t[j - 1].id \in Int
      BY <1>1, <2>2, <2>3, <2>4, <3>3
    <4> QED  BY <1>1, <2>4, <3>3, <4>1, <4>2
   <3> QED  BY <1>8, <3>1, <3>2, <3>3
  <2>5. CASE i = m /\ u[i] = p
   <3>1. j - 1 \in m .. Len(t) /\ u[j] = t[j - 1]
     BY <1>4, <1>8, <2>5
   <3> QED  BY <2>3, <2>5, <3>1
  <2>6. CASE i - 1 \in m .. Len(t) /\ u[i] = t[i - 1]
   <3>1. j - 1 \in m .. Len(t) /\ u[j] = t[j - 1]
     BY <1>4, <1>8, <2>6
   <3>2. i - 1 < j - 1 /\ i - 1 \in 1 .. Len(t) /\ j - 1 \in 1 .. Len(t)
     BY <2>3, <2>6, <3>1
   <3> QED  BY <2>1, <2>6, <3>1, <3>2
  <2> QED  BY <1>8, <2>4, <2>5, <2>6
 <1> QED  BY <1>7, <1>9, <1>10, <1>11, <1>12

(* What the first k have been sorted into.                                 *)
Ordered(s, k) ==
    {t \in Seq(Bodies) :
       /\ \A i \in 1 .. Len(t) : \E j \in 1 .. k : t[i] = s[j]
       /\ \A j \in 1 .. k : \E i \in 1 .. Len(t) : t[i] = s[j]
       /\ Distinct(s) => Ascending(t)}

LEMMA InsertedStaysOrdered ==
    ASSUME NEW s \in Seq(Bodies), NEW k \in 1 .. Len(s), NEW t \in Ordered(s, k - 1)
    PROVE  Inserted(t, s[k]) \in Ordered(s, k)
 <1> DEFINE u == Inserted(t, s[k])
 <1>1. k \in Nat /\ k - 1 \in Nat /\ Len(s) \in Nat /\ s[k] \in Bodies
   OBVIOUS
 <1>2. /\ t \in Seq(Bodies)
       /\ \A i \in 1 .. Len(t) : \E j \in 1 .. k - 1 : t[i] = s[j]
       /\ \A j \in 1 .. k - 1 : \E i \in 1 .. Len(t) : t[i] = s[j]
       /\ Distinct(s) => Ascending(t)
   BY DEF Ordered
 <1>3. /\ u \in Seq(Bodies)
       /\ \A j \in 1 .. Len(u) : u[j] = s[k] \/ \E i \in 1 .. Len(t) : u[j] = t[i]
       /\ \E j \in 1 .. Len(u) : u[j] = s[k]
       /\ \A i \in 1 .. Len(t) : \E j \in 1 .. Len(u) : u[j] = t[i]
       /\ Ascending(t) /\ (\A i \in 1 .. Len(t) : t[i].id # s[k].id) => Ascending(u)
   BY <1>1, <1>2, InsertionKeepsOrder
 <1> HIDE DEF u
 <1>4. \A j \in 1 .. k : j = k \/ j \in 1 .. k - 1
   BY <1>1
 <1>5. k \in 1 .. k /\ \A j \in 1 .. k - 1 : j \in 1 .. k /\ j \in 1 .. Len(s) /\ j # k
   BY <1>1
 <1>6. \A i \in 1 .. Len(u) : \E j \in 1 .. k : u[i] = s[j]
  <2> TAKE i \in 1 .. Len(u)
  <2>1. CASE u[i] = s[k]
    BY <1>5, <2>1
  <2>2. CASE \E a \in 1 .. Len(t) : u[i] = t[a]
    BY <1>2, <1>5, <2>2
  <2> QED  BY <1>3, <2>1, <2>2
 <1>7. \A j \in 1 .. k : \E i \in 1 .. Len(u) : u[i] = s[j]
  <2> TAKE j \in 1 .. k
  <2>1. CASE j = k
    BY <1>3, <2>1
  <2>2. CASE j \in 1 .. k - 1
   <3>1. PICK a \in 1 .. Len(t) : t[a] = s[j]
     BY <1>2, <2>2
   <3> QED  BY <1>3, <3>1
  <2> QED  BY <1>4, <2>1, <2>2
 <1>8. ASSUME Distinct(s)  PROVE \A i \in 1 .. Len(t) : t[i].id # s[k].id
  <2> TAKE i \in 1 .. Len(t)
  <2>1. PICK j \in 1 .. k - 1 : t[i] = s[j]
    BY <1>2
  <2> QED  BY <1>5, <1>8, <2>1 DEF Distinct
 <1>9. u \in Ordered(s, k)
   BY <1>2, <1>3, <1>6, <1>7, <1>8 DEF Ordered
 <1> QED  BY <1>9 DEF u

(* A sort has the particles of the list, and those of a list without       *)
(* repetition in order.                                                    *)
LEMMA SortIsOrdered ==
    ASSUME NEW s \in Seq(Bodies)
    PROVE  /\ SortedById(s) \in Seq(Bodies)
           /\ ToSet(SortedById(s)) = ToSet(s)
           /\ Distinct(s) => Ascending(SortedById(s))
 <1> DEFINE n == Len(s)
            T == [k \in 0 .. n |-> Ordered(s, k)]
            step == [k \in 1 .. n |-> [t \in Seq(Bodies) |-> Inserted(t, s[k])]]
            is(f) == f = [m \in 0 .. n |->
                           IF m = 0 THEN <<>> ELSE Inserted(f[m - 1], s[m])]
 <1>1. n \in Nat
   OBVIOUS
 <1>2. <<>> \in T[0]
  <2>1. <<>> \in Seq(Bodies) /\ Len(<<>>) = 0
    OBVIOUS
  <2>2. <<>> \in Ordered(s, 0)
    BY <2>1 DEF Ordered, Ascending
  <2> QED  BY <1>1, <2>2
 <1>3. \A k \in 0 .. n : T[k] \subseteq Seq(Bodies)
   BY DEF Ordered
 <1>4. ASSUME NEW k \in 1 .. n, NEW t \in T[k - 1]
       PROVE  step[k][t] \in T[k]
  <2>1. k - 1 \in 0 .. n /\ k \in 0 .. n
    BY <1>1
  <2>2. t \in Ordered(s, k - 1) /\ t \in Seq(Bodies)
    BY <1>3, <2>1
  <2>3. Inserted(t, s[k]) \in Ordered(s, k)
    BY <2>2, InsertedStaysOrdered
  <2> QED  BY <2>1, <2>2, <2>3
 <1>5. \E f : IsLoop(f, n, <<>>, step) /\ \A k \in 0 .. n : f[k] \in T[k]
  <2> HIDE DEF n, T, step
  <2> QED  BY <1>1, <1>2, <1>4, Loop
 <1>6. PICK f : IsLoop(f, n, <<>>, step) /\ \A k \in 0 .. n : f[k] \in T[k]
   BY <1>5
 <1>7. is(f)
  <2>1. ASSUME NEW m \in 1 .. n
        PROVE  step[m][f[m - 1]] = Inserted(f[m - 1], s[m])
   <3>1. m - 1 \in 0 .. n
     BY <1>1
   <3>2. f[m - 1] \in Seq(Bodies)
     BY <1>3, <1>6, <3>1
   <3> QED  BY <3>2
  <2>2. \A m \in 0 .. n : m # 0 => m \in 1 .. n
    BY <1>1
  <2> HIDE DEF n, step, T
  <2> QED  BY <1>6, <2>1, <2>2 DEF IsLoop
 <1> DEFINE g == CHOOSE h : is(h)
 <1>8. is(g)
   BY <1>7
 <1>9. SortedById(s) = g[n]
   BY DEF SortedById
 <1>10. g[n] \in Ordered(s, n)
  <2> DEFINE Q == {k \in Nat : k <= n => g[k] = f[k]}
  <2> HIDE DEF g
  <2>1. 0 \in Q
    BY <1>1, <1>7, <1>8
  <2>2. ASSUME NEW k \in Nat, k \in Q  PROVE k + 1 \in Q
   <3> SUFFICES ASSUME k + 1 <= n  PROVE g[k + 1] = f[k + 1]
     OBVIOUS
   <3>1. k + 1 \in 0 .. n /\ k + 1 # 0 /\ (k + 1) - 1 = k /\ g[k] = f[k]
     BY <1>1, <2>2
   <3>2. f[k + 1] = Inserted(f[k], s[k + 1])
     BY <1>7, <3>1
   <3>3. g[k + 1] = Inserted(g[k], s[k + 1])
     BY <1>8, <3>1
   <3> QED  BY <3>1, <3>2, <3>3
  <2> HIDE DEF Q
  <2>3. n \in Q
    BY <1>1, <2>1, <2>2, CountingUp
  <2>4. g[n] = f[n]
    BY <2>3 DEF Q
  <2>5. n \in 0 .. n
    BY <1>1
  <2> QED  BY <1>6, <2>4, <2>5
 <1> HIDE DEF g
 <1> DEFINE t == g[n]
 <1>11. /\ t \in Seq(Bodies)
        /\ \A i \in 1 .. Len(t) : \E j \in 1 .. n : t[i] = s[j]
        /\ \A j \in 1 .. n : \E i \in 1 .. Len(t) : t[i] = s[j]
        /\ Distinct(s) => Ascending(t)
   BY <1>10 DEF Ordered
 <1>12. ToSet(t) = ToSet(s)
  <2> HIDE DEF t
  <2>1. /\ \A p : p \in ToSet(t) <=> \E i \in 1 .. Len(t) : p = t[i]
        /\ \A p : p \in ToSet(s) <=> \E i \in 1 .. n : p = s[i]
    BY <1>11, InList
  <2>2. ASSUME NEW p \in ToSet(t)  PROVE p \in ToSet(s)
   <3>1. PICK i \in 1 .. Len(t) : p = t[i]
     BY <2>1, <2>2
   <3> QED  BY <1>11, <2>1, <3>1
  <2>3. ASSUME NEW p \in ToSet(s)  PROVE p \in ToSet(t)
   <3>1. PICK j \in 1 .. n : p = s[j]
     BY <2>1, <2>3
   <3> QED  BY <1>11, <2>1, <3>1
  <2> QED  BY <2>2, <2>3
 <1> QED  BY <1>9, <1>11, <1>12

-----------------------------------------------------------------------------
(* FlattenSeq(seqs).                                                       *)

HasBoth(s, t, u) ==
    /\ u \in Seq(Bodies)
    /\ \A i \in 1 .. Len(u) : \/ \E j \in 1 .. Len(s) : u[i] = s[j]
                              \/ \E j \in 1 .. Len(t) : u[i] = t[j]
    /\ \A j \in 1 .. Len(s) : \E i \in 1 .. Len(u) : u[i] = s[j]
    /\ \A j \in 1 .. Len(t) : \E i \in 1 .. Len(u) : u[i] = t[j]
    /\ /\ Distinct(s) /\ Distinct(t)
       /\ \A i \in 1 .. Len(s), j \in 1 .. Len(t) : s[i].id # t[j].id
       => Distinct(u)

LEMMA ConcatenationHasBoth ==
    ASSUME NEW s \in Seq(Bodies), NEW t \in Seq(Bodies)
    PROVE  HasBoth(s, t, s \o t)
 <1> DEFINE u == s \o t
 <1>1. Len(s) \in Nat /\ Len(t) \in Nat
   OBVIOUS
 <1>2. s \o t \in Seq(Bodies) /\ Len(s \o t) = Len(s) + Len(t)
       /\ \A i \in 1 .. Len(s) + Len(t) :
             (s \o t)[i] = IF i <= Len(s) THEN s[i] ELSE t[i - Len(s)]
   BY ConcatProperties
 <1>3. u \in Seq(Bodies) /\ Len(u) = Len(s) + Len(t)
       /\ \A i \in 1 .. Len(u) :
             u[i] = IF i <= Len(s) THEN s[i] ELSE t[i - Len(s)]
   BY <1>2
 <1> HIDE DEF u
 <1>4. ASSUME NEW i \in 1 .. Len(u)
       PROVE  \/ i \in 1 .. Len(s) /\ u[i] = s[i]
              \/ i - Len(s) \in 1 .. Len(t) /\ u[i] = t[i - Len(s)]
  <2>1. CASE i <= Len(s)
    BY <1>1, <1>3, <2>1
  <2>2. CASE ~ (i <= Len(s))
    BY <1>1, <1>3, <2>2
  <2> QED  BY <2>1, <2>2
 <1>5. \A j \in 1 .. Len(s) : j \in 1 .. Len(u) /\ u[j] = s[j]
  <2> TAKE j \in 1 .. Len(s)
  <2>1. j \in 1 .. Len(u) /\ j <= Len(s)
    BY <1>1, <1>3
  <2> QED  BY <1>3, <2>1
 <1>6. \A j \in 1 .. Len(t) : j + Len(s) \in 1 .. Len(u) /\ u[j + Len(s)] = t[j]
  <2> TAKE j \in 1 .. Len(t)
  <2>1. j + Len(s) \in 1 .. Len(u) /\ ~ (j + Len(s) <= Len(s))
        /\ (j + Len(s)) - Len(s) = j
    BY <1>1, <1>3
  <2> QED  BY <1>3, <2>1
 <1>7. ASSUME Distinct(s), Distinct(t),
              \A i \in 1 .. Len(s), j \in 1 .. Len(t) : s[i].id # t[j].id
       PROVE  Distinct(u)
  <2> SUFFICES ASSUME NEW i \in 1 .. Len(u), NEW j \in 1 .. Len(u), u[i].id = u[j].id
               PROVE  i = j
    BY DEF Distinct
  <2>1. CASE i \in 1 .. Len(s) /\ u[i] = s[i]
   <3>1. j \in 1 .. Len(s) /\ u[j] = s[j]
     BY <1>4, <1>7, <2>1
   <3> QED  BY <1>7, <2>1, <3>1 DEF Distinct
  <2>2. CASE i - Len(s) \in 1 .. Len(t) /\ u[i] = t[i - Len(s)]
   <3>1. j - Len(s) \in 1 .. Len(t) /\ u[j] = t[j - Len(s)]
     BY <1>4, <1>7, <2>2
   <3>2. i - Len(s) = j - Len(s)
     BY <1>7, <2>2, <3>1 DEF Distinct
   <3> QED  BY <1>1, <1>3, <3>2
  <2> QED  BY <1>4, <2>1, <2>2
 <1>8. \A i \in 1 .. Len(u) : \/ \E j \in 1 .. Len(s) : u[i] = s[j]
                              \/ \E j \in 1 .. Len(t) : u[i] = t[j]
   BY <1>4
 <1>9. HasBoth(s, t, u)
   BY <1>3, <1>5, <1>6, <1>7, <1>8 DEF HasBoth
 <1> QED  BY <1>9 DEF u

(* No identity occurs twice, in one list or in two.                        *)
Apart(seqs) ==
    /\ \A k \in 1 .. Len(seqs) : Distinct(seqs[k])
    /\ \A k, l \in 1 .. Len(seqs) : k # l =>
          \A i \in 1 .. Len(seqs[k]), j \in 1 .. Len(seqs[l]) :
             seqs[k][i].id # seqs[l][j].id

(* What the first k have been joined to.                                   *)
Joined(seqs, k) ==
    {t \in Seq(Bodies) :
       /\ \A i \in 1 .. Len(t) :
             \E l \in 1 .. k : \E j \in 1 .. Len(seqs[l]) : t[i] = seqs[l][j]
       /\ \A l \in 1 .. k : \A j \in 1 .. Len(seqs[l]) :
             \E i \in 1 .. Len(t) : t[i] = seqs[l][j]
       /\ Apart(seqs) => Distinct(t)}

LEMMA ConcatenationStaysJoined ==
    ASSUME NEW seqs \in Seq(Seq(Bodies)), NEW k \in 1 .. Len(seqs),
           NEW t \in Joined(seqs, k - 1)
    PROVE  t \o seqs[k] \in Joined(seqs, k)
 <1> DEFINE u == t \o seqs[k]
            s == seqs[k]
 <1>1. k \in Nat /\ k - 1 \in Nat /\ Len(seqs) \in Nat /\ s \in Seq(Bodies)
   OBVIOUS
 <1>2. /\ t \in Seq(Bodies)
       /\ \A i \in 1 .. Len(t) :
             \E l \in 1 .. k - 1 : \E j \in 1 .. Len(seqs[l]) : t[i] = seqs[l][j]
       /\ \A l \in 1 .. k - 1 : \A j \in 1 .. Len(seqs[l]) :
             \E i \in 1 .. Len(t) : t[i] = seqs[l][j]
       /\ Apart(seqs) => Distinct(t)
   BY DEF Joined
 <1>3. /\ u \in Seq(Bodies)
       /\ \A i \in 1 .. Len(u) : \/ \E j \in 1 .. Len(t) : u[i] = t[j]
                                 \/ \E j \in 1 .. Len(s) : u[i] = s[j]
       /\ \A j \in 1 .. Len(t) : \E i \in 1 .. Len(u) : u[i] = t[j]
       /\ \A j \in 1 .. Len(s) : \E i \in 1 .. Len(u) : u[i] = s[j]
       /\ /\ Distinct(t) /\ Distinct(s)
          /\ \A i \in 1 .. Len(t), j \in 1 .. Len(s) : t[i].id # s[j].id
          => Distinct(u)
  <2>1. u = t \o s
    OBVIOUS
  <2>2. t \in Seq(Bodies)
    BY <1>2
  <2>3. s \in Seq(Bodies)
    BY <1>1
  <2> HIDE DEF u, s
  <2>4. HasBoth(t, s, u)
    BY <2>1, <2>2, <2>3, ConcatenationHasBoth
  <2> QED  BY <2>4 DEF HasBoth
 <1>4. s = seqs[k]
   OBVIOUS
 <1> HIDE DEF u, s
 <1>5. \A l \in 1 .. k : l = k \/ l \in 1 .. k - 1
   BY <1>1
 <1>6. k \in 1 .. k
       /\ \A l \in 1 .. k - 1 : l \in 1 .. k /\ l \in 1 .. Len(seqs) /\ l # k
   BY <1>1
 <1>7. \A i \in 1 .. Len(u) :
          \E l \in 1 .. k : \E j \in 1 .. Len(seqs[l]) : u[i] = seqs[l][j]
  <2> TAKE i \in 1 .. Len(u)
  <2>1. CASE \E j \in 1 .. Len(s) : u[i] = s[j]
    BY <1>4, <1>6, <2>1
  <2>2. CASE \E j \in 1 .. Len(t) : u[i] = t[j]
   <3>1. PICK a \in 1 .. Len(t) : u[i] = t[a]
     BY <2>2
   <3>2. PICK l \in 1 .. k - 1 : \E j \in 1 .. Len(seqs[l]) : t[a] = seqs[l][j]
     BY <1>2, <3>1
   <3> QED  BY <1>6, <3>1, <3>2
  <2> QED  BY <1>3, <2>1, <2>2
 <1>8. \A l \in 1 .. k : \A j \in 1 .. Len(seqs[l]) :
          \E i \in 1 .. Len(u) : u[i] = seqs[l][j]
  <2> TAKE l \in 1 .. k
  <2> TAKE j \in 1 .. Len(seqs[l])
  <2>1. CASE l = k
    BY <1>3, <1>4, <2>1
  <2>2. CASE l \in 1 .. k - 1
   <3>1. PICK a \in 1 .. Len(t) : t[a] = seqs[l][j]
     BY <1>2, <2>2
   <3> QED  BY <1>3, <3>1
  <2> QED  BY <1>5, <2>1, <2>2
 <1>9. ASSUME Apart(seqs)  PROVE Distinct(u)
  <2>1. Distinct(t) /\ Distinct(s)
    BY <1>2, <1>4, <1>9 DEF Apart
  <2>2. ASSUME NEW i \in 1 .. Len(t), NEW j \in 1 .. Len(s)
        PROVE  t[i].id # s[j].id
   <3>1. PICK l \in 1 .. k - 1 : \E a \in 1 .. Len(seqs[l]) : t[i] = seqs[l][a]
     BY <1>2
   <3>2. PICK a \in 1 .. Len(seqs[l]) : t[i] = seqs[l][a]
     BY <3>1
   <3> QED  BY <1>4, <1>6, <1>9, <3>2 DEF Apart
  <2> QED  BY <1>3, <2>1, <2>2
 <1>10. u \in Joined(seqs, k)
   BY <1>3, <1>7, <1>8, <1>9 DEF Joined
 <1> QED  BY <1>10 DEF u

(* The joined list has the particles of all lists.                         *)
LEMMA FlattenJoins ==
    ASSUME NEW seqs \in Seq(Seq(Bodies)), Len(seqs) # 0
    PROVE  /\ FlattenSeq(seqs) \in Seq(Bodies)
           /\ \A p : p \in ToSet(FlattenSeq(seqs)) <=>
                        \E k \in 1 .. Len(seqs) : p \in ToSet(seqs[k])
           /\ Apart(seqs) => Distinct(FlattenSeq(seqs))
 <1> DEFINE n == Len(seqs)
            T == [k \in 0 .. n |-> Joined(seqs, k)]
            step == [k \in 1 .. n |-> [t \in Seq(Bodies) |-> t \o seqs[k]]]
            is(f) == f = [i \in 1 .. n |-> IF i = 1 THEN seqs[i]
                                                    ELSE f[i - 1] \o seqs[i]]
 <1>1. n \in Nat \ {0}
   OBVIOUS
 <1>2. <<>> \in T[0]
  <2>1. <<>> \in Seq(Bodies) /\ Len(<<>>) = 0
    OBVIOUS
  <2>2. <<>> \in Joined(seqs, 0)
    BY <2>1 DEF Joined, Distinct
  <2> QED  BY <1>1, <2>2
 <1>3. \A k \in 0 .. n : T[k] \subseteq Seq(Bodies)
   BY DEF Joined
 <1>4. ASSUME NEW k \in 1 .. n, NEW t \in T[k - 1]
       PROVE  step[k][t] \in T[k]
  <2>1. k - 1 \in 0 .. n /\ k \in 0 .. n
    BY <1>1
  <2>2. t \in Joined(seqs, k - 1) /\ t \in Seq(Bodies)
    BY <1>3, <2>1
  <2>3. t \o seqs[k] \in Joined(seqs, k)
    BY <2>2, ConcatenationStaysJoined
  <2> QED  BY <2>1, <2>2, <2>3
 <1>5. \E f : IsLoop(f, n, <<>>, step) /\ \A k \in 0 .. n : f[k] \in T[k]
  <2> HIDE DEF n, T, step
  <2> QED  BY <1>1, <1>2, <1>4, Loop
 <1>6. PICK f : IsLoop(f, n, <<>>, step) /\ \A k \in 0 .. n : f[k] \in T[k]
   BY <1>5
 <1>7. \A m \in 1 .. n : f[m] = IF m = 1 THEN seqs[m] ELSE f[m - 1] \o seqs[m]
  <2> TAKE m \in 1 .. n
  <2>1. m - 1 \in 0 .. n /\ m \in 0 .. n /\ m # 0
    BY <1>1
  <2>2. f[m - 1] \in Seq(Bodies)
    BY <1>3, <1>6, <2>1
  <2>3. step[m][f[m - 1]] = f[m - 1] \o seqs[m]
    BY <2>2
  <2>4. f[m] = f[m - 1] \o seqs[m]
   <3> HIDE DEF n, step, T
   <3> QED  BY <1>6, <2>1, <2>3 DEF IsLoop
  <2>5. m = 1 => f[m - 1] = <<>>
   <3> HIDE DEF n, step, T
   <3> QED  BY <1>1, <1>6, <2>1 DEF IsLoop
  <2>6. <<>> \o seqs[m] = seqs[m]
    BY ConcatEmptySeq
  <2> QED  BY <2>4, <2>5, <2>6
 <1> DEFINE h == [i \in 1 .. n |-> f[i]]
 <1>8. is(h)
  <2>1. \A m \in 1 .. n : m # 1 => m - 1 \in 1 .. n
    BY <1>1
  <2>2. \A m \in 1 .. n : h[m] = IF m = 1 THEN seqs[m] ELSE h[m - 1] \o seqs[m]
    BY <1>7, <2>1
  <2>3. h = [i \in 1 .. n |-> h[i]]
    OBVIOUS
  <2> HIDE DEF h, n
  <2> QED  BY <2>2, <2>3
 <1> DEFINE g == CHOOSE e : is(e)
 <1>9. is(g)
  <2> HIDE DEF h
  <2> QED  BY <1>8
 <1>10. FlattenSeq(seqs) = g[n]
   BY DEF FlattenSeq
 <1>11. g[n] \in Joined(seqs, n)
  <2> DEFINE Q == {k \in Nat : k + 1 <= n => g[k + 1] = f[k + 1]}
  <2> HIDE DEF g, h
  <2>1. 0 \in Q
   <3>1. 1 \in 1 .. n /\ 0 + 1 = 1
     BY <1>1
   <3>2. g[1] = seqs[1] /\ f[1] = seqs[1]
     BY <1>7, <1>9, <3>1
   <3> QED  BY <3>1, <3>2
  <2>2. ASSUME NEW k \in Nat, k \in Q  PROVE k + 1 \in Q
   <3> SUFFICES ASSUME (k + 1) + 1 <= n  PROVE g[(k + 1) + 1] = f[(k + 1) + 1]
     OBVIOUS
   <3> DEFINE m == (k + 1) + 1
   <3>1. m \in 1 .. n /\ m # 1 /\ m - 1 = k + 1 /\ g[k + 1] = f[k + 1]
     BY <1>1, <2>2
   <3> HIDE DEF m
   <3>2. f[m] = f[k + 1] \o seqs[m]
     BY <1>7, <3>1
   <3>3. g[m] = g[k + 1] \o seqs[m]
     BY <1>9, <3>1
   <3>4. g[m] = f[m]
     BY <3>1, <3>2, <3>3
   <3> QED  BY <3>4 DEF m
  <2> HIDE DEF Q
  <2>3. n - 1 \in Q /\ (n - 1) + 1 = n
   <3>1. \A k \in Nat : k \in Q
     BY <2>1, <2>2, CountingUp
   <3> QED  BY <1>1, <3>1
  <2>4. g[n] = f[n]
    BY <2>3 DEF Q
  <2>5. n \in 0 .. n
    BY <1>1
  <2> QED  BY <1>6, <2>4, <2>5
 <1> HIDE DEF g
 <1> DEFINE t == g[n]
 <1>12. /\ t \in Seq(Bodies)
        /\ \A i \in 1 .. Len(t) :
              \E l \in 1 .. n : \E j \in 1 .. Len(seqs[l]) : t[i] = seqs[l][j]
        /\ \A l \in 1 .. n : \A j \in 1 .. Len(seqs[l]) :
              \E i \in 1 .. Len(t) : t[i] = seqs[l][j]
        /\ Apart(seqs) => Distinct(t)
   BY <1>11 DEF Joined
 <1>13. \A p : p \in ToSet(t) <=> \E k \in 1 .. n : p \in ToSet(seqs[k])
  <2> HIDE DEF t
  <2>1. \A p : p \in ToSet(t) <=> \E i \in 1 .. Len(t) : p = t[i]
    BY <1>12, InList
  <2>2. \A k \in 1 .. n : \A p :
           p \in ToSet(seqs[k]) <=> \E i \in 1 .. Len(seqs[k]) : p = seqs[k][i]
   <3> TAKE k \in 1 .. n
   <3>1. seqs[k] \in Seq(Bodies)
     OBVIOUS
   <3> QED  BY <3>1, InList
  <2>3. ASSUME NEW p, p \in ToSet(t)  PROVE \E k \in 1 .. n : p \in ToSet(seqs[k])
   <3>1. PICK i \in 1 .. Len(t) : p = t[i]
     BY <2>1, <2>3
   <3>2. PICK l \in 1 .. n : \E j \in 1 .. Len(seqs[l]) : t[i] = seqs[l][j]
     BY <1>12, <3>1
   <3> QED  BY <2>2, <3>1, <3>2
  <2>4. ASSUME NEW p, NEW k \in 1 .. n, p \in ToSet(seqs[k])  PROVE p \in ToSet(t)
   <3>1. PICK j \in 1 .. Len(seqs[k]) : p = seqs[k][j]
     BY <2>2, <2>4
   <3>2. PICK i \in 1 .. Len(t) : t[i] = seqs[k][j]
     BY <1>12, <3>1
   <3> QED  BY <2>1, <3>1, <3>2
  <2> QED  BY <2>3, <2>4
 <1> QED  BY <1>10, <1>12, <1>13

-----------------------------------------------------------------------------
(* Merged(kept, inc).                                                      *)

(* What is above place o of the buffer: the particles of the two lists     *)
(* after the first a and c, in order, above those that are left.           *)
Above(kept, inc, b, a, c, o) ==
    LET n == Len(kept) + Len(inc)
    IN  /\ \A i \in 1 .. n : i > o =>
              \/ \E j \in 1 .. Len(kept) : j > a /\ b[i] = kept[j]
              \/ \E j \in 1 .. Len(inc) : j > c /\ b[i] = inc[j]
        /\ \A j \in 1 .. Len(kept) : j > a => \E i \in 1 .. n : i > o /\ b[i] = kept[j]
        /\ \A j \in 1 .. Len(inc) : j > c => \E i \in 1 .. n : i > o /\ b[i] = inc[j]

InOrderAbove(kept, inc, b, a, c, o) ==
    LET n == Len(kept) + Len(inc)
    IN  /\ \A i, j \in 1 .. n : o < i /\ i < j => b[i].id < b[j].id
        /\ \A i \in 1 .. n, j \in 1 .. Len(kept) : o < i /\ j <= a => kept[j].id < b[i].id
        /\ \A i \in 1 .. n, j \in 1 .. Len(inc) : o < i /\ j <= c => inc[j].id < b[i].id

Merging(kept, inc, b, a, c, o) ==
    /\ b \in [1 .. Len(kept) + Len(inc) -> Bodies]
    /\ a \in 0 .. Len(kept) /\ c \in 0 .. Len(inc) /\ o = a + c
    /\ \A i \in 1 .. a : b[i] = kept[i]
    /\ Above(kept, inc, b, a, c, o)
    /\ InOrderAbove(kept, inc, b, a, c, o)

Mergeable(kept, inc) ==
    /\ kept \in Seq(Bodies) /\ inc \in Seq(Bodies)
    /\ Ascending(kept) /\ Ascending(inc)
    /\ \A i \in 1 .. Len(kept), j \in 1 .. Len(inc) : kept[i].id # inc[j].id

LEMMA MergeTypes ==
    ASSUME NEW kept, NEW inc, Mergeable(kept, inc)
    PROVE  /\ Len(kept) \in Nat /\ Len(inc) \in Nat
           /\ \A i \in 1 .. Len(kept) : kept[i] \in Bodies /\ kept[i].id \in Int
           /\ \A i \in 1 .. Len(inc) : inc[i] \in Bodies /\ inc[i].id \in Int
  BY ListType DEF Mergeable

(* A received particle goes to the last free place when what is left of    *)
(* the retained ones is smaller.                                           *)
LEMMA PutReceived ==
    ASSUME NEW kept, NEW inc, Mergeable(kept, inc),
           NEW b, NEW a, NEW c, NEW o, Merging(kept, inc, b, a, c, o), c > 0,
           a > 0 => kept[a].id < inc[c].id
    PROVE  Merging(kept, inc, [b EXCEPT ![o] = inc[c]], a, c - 1, o - 1)
 <1> DEFINE d == [b EXCEPT ![o] = inc[c]]
            n == Len(kept) + Len(inc)
 <1>1. /\ Len(kept) \in Nat /\ Len(inc) \in Nat /\ n \in Nat
       /\ \A i \in 1 .. Len(kept) : kept[i] \in Bodies /\ kept[i].id \in Int
       /\ \A i \in 1 .. Len(inc) : inc[i] \in Bodies /\ inc[i].id \in Int
   BY MergeTypes
 <1>2. /\ b \in [1 .. n -> Bodies]
       /\ a \in 0 .. Len(kept) /\ c \in 1 .. Len(inc) /\ o = a + c
       /\ o \in 1 .. n /\ c - 1 \in 0 .. Len(inc) /\ o - 1 = a + (c - 1)
       /\ \A i \in 1 .. a : b[i] = kept[i]
   BY <1>1 DEF Merging
 <1>3. d \in [1 .. n -> Bodies] /\ d[o] = inc[c]
       /\ \A i \in 1 .. n : i # o => d[i] = b[i]
   BY <1>1, <1>2
 <1> HIDE DEF d, n
 <1>4. n = Len(kept) + Len(inc)
   BY DEF n
 <1>5. \A i \in 1 .. a : d[i] = kept[i]
  <2> TAKE i \in 1 .. a
  <2>1. i \in 1 .. n /\ i # o
    BY <1>1, <1>2, <1>4
  <2> QED  BY <1>2, <1>3, <2>1
 <1>6. /\ \A i \in 1 .. n : i > o =>
             \/ \E j \in 1 .. Len(kept) : j > a /\ b[i] = kept[j]
             \/ \E j \in 1 .. Len(inc) : j > c /\ b[i] = inc[j]
       /\ \A j \in 1 .. Len(kept) : j > a => \E i \in 1 .. n : i > o /\ b[i] = kept[j]
       /\ \A j \in 1 .. Len(inc) : j > c => \E i \in 1 .. n : i > o /\ b[i] = inc[j]
   BY DEF Merging, Above, n
 <1>7. /\ \A i, j \in 1 .. n : o < i /\ i < j => b[i].id < b[j].id
       /\ \A i \in 1 .. n, j \in 1 .. Len(kept) : o < i /\ j <= a => kept[j].id < b[i].id
       /\ \A i \in 1 .. n, j \in 1 .. Len(inc) : o < i /\ j <= c => inc[j].id < b[i].id
   BY DEF Merging, InOrderAbove, n
 <1>8. \A i \in 1 .. n : i > o - 1 => i = o \/ (i > o /\ i # o)
  <2>1. o \in Int /\ n \in Int
    BY <1>1, <1>2
  <2> QED  BY <2>1
 <1>9. Above(kept, inc, d, a, c - 1, o - 1)
  <2>1. ASSUME NEW i \in 1 .. n, i > o - 1
        PROVE  \/ \E j \in 1 .. Len(kept) : j > a /\ d[i] = kept[j]
               \/ \E j \in 1 .. Len(inc) : j > c - 1 /\ d[i] = inc[j]
   <3>1. CASE i = o
     BY <1>2, <1>3, <3>1
   <3>2. CASE i > o /\ i # o
    <4>1. d[i] = b[i]
      BY <1>3, <3>2
    <4>2. CASE \E j \in 1 .. Len(kept) : j > a /\ b[i] = kept[j]
      BY <4>1, <4>2
    <4>3. CASE \E j \in 1 .. Len(inc) : j > c /\ b[i] = inc[j]
     <5>1. PICK j \in 1 .. Len(inc) : j > c /\ b[i] = inc[j]
       BY <4>3
     <5>2. j > c - 1
       BY <1>1, <1>2, <5>1
     <5> QED  BY <4>1, <5>1, <5>2
    <4> QED  BY <1>6, <3>2, <4>2, <4>3
   <3> QED  BY <1>8, <2>1, <3>1, <3>2
  <2>2. ASSUME NEW j \in 1 .. Len(kept), j > a
        PROVE  \E i \in 1 .. n : i > o - 1 /\ d[i] = kept[j]
   <3>1. PICK i \in 1 .. n : i > o /\ b[i] = kept[j]
     BY <1>6, <2>2
   <3>2. i > o - 1 /\ i # o
     BY <1>1, <1>2, <3>1
   <3> QED  BY <1>3, <3>1, <3>2
  <2>3. ASSUME NEW j \in 1 .. Len(inc), j > c - 1
        PROVE  \E i \in 1 .. n : i > o - 1 /\ d[i] = inc[j]
   <3>1. CASE j = c
    <4>1. o > o - 1
      BY <1>1, <1>2
    <4> QED  BY <1>2, <1>3, <3>1, <4>1
   <3>2. CASE j # c
    <4>1. j > c
      BY <1>1, <1>2, <2>3, <3>2
    <4>2. PICK i \in 1 .. n : i > o /\ b[i] = inc[j]
      BY <1>6, <4>1
    <4>3. i > o - 1 /\ i # o
      BY <1>1, <1>2, <4>2
    <4> QED  BY <1>3, <4>2, <4>3
   <3> QED  BY <3>1, <3>2
  <2> QED  BY <2>1, <2>2, <2>3 DEF Above, n
 <1>10. \A j \in 1 .. Len(kept) : j <= a => kept[j].id < inc[c].id
  <2> SUFFICES ASSUME NEW j \in 1 .. Len(kept), j <= a  PROVE kept[j].id < inc[c].id
    OBVIOUS
  <2>1. a \in 1 .. Len(kept) /\ a > 0
    BY <1>1, <1>2
  <2>2. j = a \/ kept[j].id < kept[a].id
    BY <1>1, <1>2, <2>1 DEF Mergeable, Ascending
  <2> QED  BY <1>1, <1>2, <2>1, <2>2
 <1>11. \A j \in 1 .. Len(inc) : j <= c - 1 => inc[j].id < inc[c].id
  <2> SUFFICES ASSUME NEW j \in 1 .. Len(inc), j <= c - 1  PROVE inc[j].id < inc[c].id
    OBVIOUS
  <2>1. j < c
    BY <1>1, <1>2
  <2> QED  BY <1>2, <2>1 DEF Mergeable, Ascending
 <1>12. InOrderAbove(kept, inc, d, a, c - 1, o - 1)
  <2>1. ASSUME NEW i \in 1 .. n, NEW j \in 1 .. n, o - 1 < i, i < j
        PROVE  d[i].id < d[j].id
   <3>1. j > o /\ j # o
    <4>1. o \in Int /\ n \in Int
      BY <1>1, <1>2
    <4> QED  BY <2>1, <4>1
   <3>2. CASE i = o
     BY <1>2, <1>3, <1>7, <3>1, <3>2
   <3>3. CASE i # o
    <4>1. o < i
      BY <1>1, <1>2, <2>1, <3>3
    <4> QED  BY <1>3, <1>7, <2>1, <3>1, <3>3, <4>1
   <3> QED  BY <3>2, <3>3
  <2>2. ASSUME NEW i \in 1 .. n, NEW j \in 1 .. Len(kept), o - 1 < i, j <= a
        PROVE  kept[j].id < d[i].id
   <3>1. CASE i = o
     BY <1>3, <1>10, <2>2, <3>1
   <3>2. CASE i # o
    <4>1. o < i
      BY <1>1, <1>2, <2>2, <3>2
    <4> QED  BY <1>3, <1>7, <2>2, <3>2, <4>1
   <3> QED  BY <3>1, <3>2
  <2>3. ASSUME NEW i \in 1 .. n, NEW j \in 1 .. Len(inc), o - 1 < i, j <= c - 1
        PROVE  inc[j].id < d[i].id
   <3>1. CASE i = o
     BY <1>3, <1>11, <2>3, <3>1
   <3>2. CASE i # o
    <4>1. o < i /\ j <= c
      BY <1>1, <1>2, <2>3, <3>2
    <4> QED  BY <1>3, <1>7, <3>2, <4>1
   <3> QED  BY <3>1, <3>2
  <2> QED  BY <2>1, <2>2, <2>3 DEF InOrderAbove, n
 <1>13. Merging(kept, inc, d, a, c - 1, o - 1)
   BY <1>2, <1>3, <1>4, <1>5, <1>9, <1>12 DEF Merging
 <1> QED  BY <1>13 DEF d

(* A retained particle goes there when it is larger than what is left of   *)
(* the received ones.                                                      *)
LEMMA PutRetained ==
    ASSUME NEW kept, NEW inc, Mergeable(kept, inc),
           NEW b, NEW a, NEW c, NEW o, Merging(kept, inc, b, a, c, o), c > 0, a > 0,
           inc[c].id < kept[a].id
    PROVE  Merging(kept, inc, [b EXCEPT ![o] = b[a]], a - 1, c, o - 1)
 <1> DEFINE d == [b EXCEPT ![o] = b[a]]
            n == Len(kept) + Len(inc)
 <1>1. /\ Len(kept) \in Nat /\ Len(inc) \in Nat /\ n \in Nat
       /\ \A i \in 1 .. Len(kept) : kept[i] \in Bodies /\ kept[i].id \in Int
       /\ \A i \in 1 .. Len(inc) : inc[i] \in Bodies /\ inc[i].id \in Int
   BY MergeTypes
 <1>2. /\ b \in [1 .. n -> Bodies]
       /\ a \in 1 .. Len(kept) /\ c \in 1 .. Len(inc) /\ o = a + c
       /\ o \in 1 .. n /\ a - 1 \in 0 .. Len(kept) /\ o - 1 = (a - 1) + c
       /\ \A i \in 1 .. a : b[i] = kept[i]
   BY <1>1 DEF Merging
 <1>3. b[a] = kept[a] /\ kept[a] \in Bodies
   BY <1>1, <1>2
 <1>4. d \in [1 .. n -> Bodies] /\ d[o] = kept[a]
       /\ \A i \in 1 .. n : i # o => d[i] = b[i]
   BY <1>1, <1>2, <1>3
 <1> HIDE DEF d, n
 <1>5. n = Len(kept) + Len(inc)
   BY DEF n
 <1>6. \A i \in 1 .. a - 1 : d[i] = kept[i]
  <2> TAKE i \in 1 .. a - 1
  <2>1. i \in 1 .. n /\ i # o /\ i \in 1 .. a
    BY <1>1, <1>2, <1>5
  <2> QED  BY <1>2, <1>4, <2>1
 <1>7. /\ \A i \in 1 .. n : i > o =>
             \/ \E j \in 1 .. Len(kept) : j > a /\ b[i] = kept[j]
             \/ \E j \in 1 .. Len(inc) : j > c /\ b[i] = inc[j]
       /\ \A j \in 1 .. Len(kept) : j > a => \E i \in 1 .. n : i > o /\ b[i] = kept[j]
       /\ \A j \in 1 .. Len(inc) : j > c => \E i \in 1 .. n : i > o /\ b[i] = inc[j]
   BY DEF Merging, Above, n
 <1>8. /\ \A i, j \in 1 .. n : o < i /\ i < j => b[i].id < b[j].id
       /\ \A i \in 1 .. n, j \in 1 .. Len(kept) : o < i /\ j <= a => kept[j].id < b[i].id
       /\ \A i \in 1 .. n, j \in 1 .. Len(inc) : o < i /\ j <= c => inc[j].id < b[i].id
   BY DEF Merging, InOrderAbove, n
 <1>9. \A i \in 1 .. n : i > o - 1 => i = o \/ (i > o /\ i # o)
  <2>1. o \in Int /\ n \in Int
    BY <1>1, <1>2
  <2> QED  BY <2>1
 <1>10. Above(kept, inc, d, a - 1, c, o - 1)
  <2>1. ASSUME NEW i \in 1 .. n, i > o - 1
        PROVE  \/ \E j \in 1 .. Len(kept) : j > a - 1 /\ d[i] = kept[j]
               \/ \E j \in 1 .. Len(inc) : j > c /\ d[i] = inc[j]
   <3>1. CASE i = o
     BY <1>2, <1>4, <3>1
   <3>2. CASE i > o /\ i # o
    <4>1. d[i] = b[i]
      BY <1>4, <3>2
    <4>2. CASE \E j \in 1 .. Len(inc) : j > c /\ b[i] = inc[j]
      BY <4>1, <4>2
    <4>3. CASE \E j \in 1 .. Len(kept) : j > a /\ b[i] = kept[j]
     <5>1. PICK j \in 1 .. Len(kept) : j > a /\ b[i] = kept[j]
       BY <4>3
     <5>2. j > a - 1
       BY <1>1, <1>2, <5>1
     <5> QED  BY <4>1, <5>1, <5>2
    <4> QED  BY <1>7, <3>2, <4>2, <4>3
   <3> QED  BY <1>9, <2>1, <3>1, <3>2
  <2>2. ASSUME NEW j \in 1 .. Len(inc), j > c
        PROVE  \E i \in 1 .. n : i > o - 1 /\ d[i] = inc[j]
   <3>1. PICK i \in 1 .. n : i > o /\ b[i] = inc[j]
     BY <1>7, <2>2
   <3>2. i > o - 1 /\ i # o
     BY <1>1, <1>2, <3>1
   <3> QED  BY <1>4, <3>1, <3>2
  <2>3. ASSUME NEW j \in 1 .. Len(kept), j > a - 1
        PROVE  \E i \in 1 .. n : i > o - 1 /\ d[i] = kept[j]
   <3>1. CASE j = a
    <4>1. o > o - 1
      BY <1>1, <1>2
    <4> QED  BY <1>2, <1>4, <3>1, <4>1
   <3>2. CASE j # a
    <4>1. j > a
      BY <1>1, <1>2, <2>3, <3>2
    <4>2. PICK i \in 1 .. n : i > o /\ b[i] = kept[j]
      BY <1>7, <4>1
    <4>3. i > o - 1 /\ i # o
      BY <1>1, <1>2, <4>2
    <4> QED  BY <1>4, <4>2, <4>3
   <3> QED  BY <3>1, <3>2
  <2> QED  BY <2>1, <2>2, <2>3 DEF Above, n
 <1>11. \A j \in 1 .. Len(kept) : j <= a - 1 => kept[j].id < kept[a].id
  <2> SUFFICES ASSUME NEW j \in 1 .. Len(kept), j <= a - 1
               PROVE  kept[j].id < kept[a].id
    OBVIOUS
  <2>1. j < a
    BY <1>1, <1>2
  <2> QED  BY <1>2, <2>1 DEF Mergeable, Ascending
 <1>12. \A j \in 1 .. Len(inc) : j <= c => inc[j].id < kept[a].id
  <2> SUFFICES ASSUME NEW j \in 1 .. Len(inc), j <= c  PROVE inc[j].id < kept[a].id
    OBVIOUS
  <2>1. j = c \/ inc[j].id < inc[c].id
    BY <1>1, <1>2 DEF Mergeable, Ascending
  <2> QED  BY <1>1, <1>2, <2>1
 <1>13. InOrderAbove(kept, inc, d, a - 1, c, o - 1)
  <2>1. ASSUME NEW i \in 1 .. n, NEW j \in 1 .. n, o - 1 < i, i < j
        PROVE  d[i].id < d[j].id
   <3>1. j > o /\ j # o
    <4>1. o \in Int /\ n \in Int
      BY <1>1, <1>2
    <4> QED  BY <2>1, <4>1
   <3>2. CASE i = o
     BY <1>2, <1>4, <1>8, <3>1, <3>2
   <3>3. CASE i # o
    <4>1. o < i
      BY <1>1, <1>2, <2>1, <3>3
    <4> QED  BY <1>4, <1>8, <2>1, <3>1, <3>3, <4>1
   <3> QED  BY <3>2, <3>3
  <2>2. ASSUME NEW i \in 1 .. n, NEW j \in 1 .. Len(kept), o - 1 < i, j <= a - 1
        PROVE  kept[j].id < d[i].id
   <3>1. CASE i = o
     BY <1>4, <1>11, <2>2, <3>1
   <3>2. CASE i # o
    <4>1. o < i /\ j <= a
      BY <1>1, <1>2, <2>2, <3>2
    <4> QED  BY <1>4, <1>8, <3>2, <4>1
   <3> QED  BY <3>1, <3>2
  <2>3. ASSUME NEW i \in 1 .. n, NEW j \in 1 .. Len(inc), o - 1 < i, j <= c
        PROVE  inc[j].id < d[i].id
   <3>1. CASE i = o
     BY <1>4, <1>12, <2>3, <3>1
   <3>2. CASE i # o
    <4>1. o < i
      BY <1>1, <1>2, <2>3, <3>2
    <4> QED  BY <1>4, <1>8, <2>3, <3>2, <4>1
   <3> QED  BY <3>1, <3>2
  <2> QED  BY <2>1, <2>2, <2>3 DEF InOrderAbove, n
 <1>14. Merging(kept, inc, d, a - 1, c, o - 1)
  <2>1. a - 1 \in 0 .. Len(kept) /\ c \in 0 .. Len(inc)
    BY <1>1, <1>2
  <2> QED  BY <1>2, <1>4, <1>5, <1>6, <1>10, <1>13, <2>1 DEF Merging
 <1> QED  BY <1>14 DEF d

(* Where the merge may be after k steps.                                   *)
MergeStates(kept, inc, k) ==
    LET n == Len(kept) + Len(inc)
    IN  {m \in [buffer : [1 .. n -> Bodies], kept : 0 .. Len(kept),
                in : 0 .. Len(inc), out : 0 .. n] :
           /\ Merging(kept, inc, m.buffer, m.kept, m.in, m.out)
           /\ m.in = 0 \/ m.out = n - k}

LEMMA TakenRanges ==
    ASSUME NEW x \in Nat, NEW y \in Nat, NEW n, n = x + y,
           NEW a \in 0 .. x, NEW c \in 0 .. y, c # 0, NEW o, o = a + c
    PROVE  /\ c > 0 /\ c \in 1 .. y /\ c - 1 \in 0 .. y
           /\ o \in 1 .. n /\ o - 1 \in 0 .. n
           /\ a > 0 => a \in 1 .. a /\ a \in 1 .. x /\ a - 1 \in 0 .. x
  OBVIOUS

LEMMA MergeStepKeeps ==
    ASSUME NEW kept, NEW inc, Mergeable(kept, inc),
           NEW k \in 1 .. Len(kept) + Len(inc), NEW m \in MergeStates(kept, inc, k - 1)
    PROVE  MergeStep(m, inc) \in MergeStates(kept, inc, k)
 <1> DEFINE n == Len(kept) + Len(inc)
            b == m.buffer
            a == m.kept
            c == m.in
            o == m.out
 <1>1. /\ Len(kept) \in Nat /\ Len(inc) \in Nat /\ n \in Nat
       /\ \A i \in 1 .. Len(kept) : kept[i] \in Bodies /\ kept[i].id \in Int
       /\ \A i \in 1 .. Len(inc) : inc[i] \in Bodies /\ inc[i].id \in Int
   BY MergeTypes
 <1>2. /\ m \in [buffer : [1 .. n -> Bodies], kept : 0 .. Len(kept),
                 in : 0 .. Len(inc), out : 0 .. n]
       /\ Merging(kept, inc, b, a, c, o)
       /\ c = 0 \/ o = n - (k - 1)
   BY DEF MergeStates
 <1>3. b \in [1 .. n -> Bodies] /\ a \in 0 .. Len(kept) /\ c \in 0 .. Len(inc)
       /\ o \in 0 .. n /\ o = a + c
   BY <1>2 DEF Merging
 <1>4. \A i \in 1 .. a : b[i] = kept[i]
   BY <1>2 DEF Merging
 <1>5. CASE c = 0
  <2>1. MergeStep(m, inc) = m
    BY <1>5 DEF MergeStep
  <2> QED  BY <1>2, <1>5, <2>1 DEF MergeStates
 <1>6. CASE c # 0 /\ MergeTaken(m, inc)
  <2> DEFINE d == [b EXCEPT ![o] = inc[c]]
             r == [m EXCEPT !.buffer[m.out] = inc[m.in], !.in = @ - 1, !.out = @ - 1]
  <2>1. MergeStep(m, inc) = r
    BY <1>6 DEF MergeStep
  <2>2. c > 0 /\ c \in 1 .. Len(inc) /\ c - 1 \in 0 .. Len(inc) /\ o \in 1 .. n
        /\ o - 1 \in 0 .. n
   <3> HIDE DEF a, b, c, o
   <3> QED  BY <1>1, <1>3, <1>6, TakenRanges
  <2>3. d \in [1 .. n -> Bodies]
    BY <1>1, <1>3, <2>2
  <2>4. r \in [buffer : [1 .. n -> Bodies], kept : 0 .. Len(kept),
               in : 0 .. Len(inc), out : 0 .. n]
        /\ r.buffer = d /\ r.kept = a /\ r.in = c - 1 /\ r.out = o - 1
    BY <1>2, <2>2, <2>3
  <2>5. a > 0 => kept[a].id < inc[c].id
   <3> SUFFICES ASSUME a > 0  PROVE kept[a].id < inc[c].id
     OBVIOUS
   <3>1. a \in 1 .. a
     BY <1>3
   <3> QED  BY <1>4, <1>6, <3>1 DEF MergeTaken
  <2>6. Merging(kept, inc, d, a, c - 1, o - 1)
   <3> HIDE DEF a, b, c, o
   <3> QED  BY <1>2, <2>2, <2>5, PutReceived
  <2>7. c - 1 = 0 \/ o - 1 = n - k
    BY <1>1, <1>2, <1>3, <2>2
  <2> HIDE DEF r
  <2> QED  BY <2>1, <2>4, <2>6, <2>7 DEF MergeStates
 <1>7. CASE c # 0 /\ ~ MergeTaken(m, inc)
  <2> DEFINE d == [b EXCEPT ![o] = b[a]]
             r == [m EXCEPT !.buffer[m.out] = m.buffer[m.kept],
                            !.kept = @ - 1, !.out = @ - 1]
  <2>1. MergeStep(m, inc) = r
    BY <1>7 DEF MergeStep
  <2>2. c > 0 /\ c \in 1 .. Len(inc)
    BY <1>1, <1>3, <1>7
  <2>3. a > 0 /\ ~ (b[a].id < inc[c].id)
    BY <1>3, <1>7, <2>2 DEF MergeTaken
  <2>4. a \in 1 .. a /\ a \in 1 .. Len(kept) /\ a - 1 \in 0 .. Len(kept)
        /\ o \in 1 .. n /\ o - 1 \in 0 .. n
   <3> HIDE DEF a, b, c, o
   <3> QED  BY <1>1, <1>3, <1>7, <2>3, TakenRanges
  <2>5. b[a] = kept[a] /\ b[a] \in Bodies
    BY <1>1, <1>4, <2>4
  <2>6. inc[c].id < kept[a].id
   <3>1. kept[a].id # inc[c].id
     BY <2>2, <2>4 DEF Mergeable
   <3> QED  BY <1>1, <2>2, <2>3, <2>4, <2>5, <3>1
  <2>7. d \in [1 .. n -> Bodies]
    BY <1>1, <1>3, <2>4, <2>5
  <2>8. r \in [buffer : [1 .. n -> Bodies], kept : 0 .. Len(kept),
               in : 0 .. Len(inc), out : 0 .. n]
        /\ r.buffer = d /\ r.kept = a - 1 /\ r.in = c /\ r.out = o - 1
    BY <1>2, <2>4, <2>7
  <2>9. Merging(kept, inc, d, a - 1, c, o - 1)
   <3> HIDE DEF a, b, c, o
   <3> QED  BY <1>2, <2>2, <2>3, <2>6, PutRetained
  <2>10. c = 0 \/ o - 1 = n - k
    BY <1>1, <1>2, <1>3, <2>2
  <2> HIDE DEF r
  <2> QED  BY <2>1, <2>8, <2>9, <2>10 DEF MergeStates
 <1> QED  BY <1>5, <1>6, <1>7

(* Two lists in order without a common identity are merged into one list   *)
(* in order that has the particles of both.                                *)
LEMMA MergedIsOrdered ==
    ASSUME NEW kept, NEW inc, Mergeable(kept, inc)
    PROVE  /\ Merged(kept, inc) \in Seq(Bodies)
           /\ Ascending(Merged(kept, inc))
           /\ ToSet(Merged(kept, inc)) = ToSet(kept) \union ToSet(inc)
 <1> DEFINE n == Len(kept) + Len(inc)
            begin == [buffer |-> [i \in 1 .. n |-> IF i <= Len(kept) THEN kept[i]
                                                                     ELSE inc[1]],
                      kept |-> Len(kept), in |-> Len(inc), out |-> n]
            T == [k \in 0 .. n |-> MergeStates(kept, inc, k)]
            all == UNION {T[k] : k \in 0 .. n}
            step == [k \in 1 .. n |-> [m \in all |-> MergeStep(m, inc)]]
            is(f) == f = [k \in 0 .. n |-> IF k = 0 THEN begin
                                           ELSE MergeStep(f[k - 1], inc)]
 <1>1. /\ Len(kept) \in Nat /\ Len(inc) \in Nat /\ n \in Nat
       /\ kept \in Seq(Bodies) /\ inc \in Seq(Bodies)
       /\ \A i \in 1 .. Len(kept) : kept[i] \in Bodies /\ kept[i].id \in Int
       /\ \A i \in 1 .. Len(inc) : inc[i] \in Bodies /\ inc[i].id \in Int
   BY MergeTypes DEF Mergeable
 <1>2. begin \in T[0]
  <2> DEFINE b == [i \in 1 .. n |-> IF i <= Len(kept) THEN kept[i] ELSE inc[1]]
  <2>1. b \in [1 .. n -> Bodies]
   <3> SUFFICES ASSUME NEW i \in 1 .. n
                PROVE  (IF i <= Len(kept) THEN kept[i] ELSE inc[1]) \in Bodies
     OBVIOUS
   <3>1. CASE i <= Len(kept)
     BY <1>1, <3>1
   <3>2. CASE ~ (i <= Len(kept))
    <4>1. 1 \in 1 .. Len(inc)
      BY <1>1, <3>2
    <4> QED  BY <1>1, <3>2, <4>1
   <3> QED  BY <3>1, <3>2
  <2>2. \A i \in 1 .. Len(kept) : b[i] = kept[i]
    BY <1>1
  <2>3. begin.buffer = b /\ begin.kept = Len(kept) /\ begin.in = Len(inc)
        /\ begin.out = n
        /\ begin \in [buffer : [1 .. n -> Bodies], kept : 0 .. Len(kept),
                      in : 0 .. Len(inc), out : 0 .. n]
    BY <1>1, <2>1
  <2> HIDE DEF b, begin
  <2>4. Merging(kept, inc, b, Len(kept), Len(inc), n)
   <3>1. \A i \in 1 .. n : ~ (i > n) /\ ~ (n < i)
     BY <1>1
   <3>2. \A i \in 1 .. Len(kept) : ~ (i > Len(kept))
     BY <1>1
   <3>3. \A i \in 1 .. Len(inc) : ~ (i > Len(inc))
     BY <1>1
   <3>4. Above(kept, inc, b, Len(kept), Len(inc), n)
     BY <3>1, <3>2, <3>3 DEF Above
   <3>5. InOrderAbove(kept, inc, b, Len(kept), Len(inc), n)
     BY <3>1 DEF InOrderAbove
   <3>6. Len(kept) \in 0 .. Len(kept) /\ Len(inc) \in 0 .. Len(inc)
     BY <1>1
   <3> QED  BY <2>1, <2>2, <3>4, <3>5, <3>6 DEF Merging
  <2>5. n = n - 0
    BY <1>1
  <2>6. begin \in MergeStates(kept, inc, 0)
    BY <2>3, <2>4, <2>5 DEF MergeStates
  <2> QED  BY <1>1, <2>6
 <1>3. ASSUME NEW k \in 1 .. n, NEW m \in T[k - 1]
       PROVE  step[k][m] \in T[k] /\ step[k][m] = MergeStep(m, inc)
  <2>1. k - 1 \in 0 .. n /\ k \in 0 .. n
    BY <1>1
  <2>2. m \in MergeStates(kept, inc, k - 1) /\ m \in all
    BY <2>1
  <2>3. MergeStep(m, inc) \in MergeStates(kept, inc, k)
    BY <2>2, MergeStepKeeps
  <2> QED  BY <2>1, <2>2, <2>3
 <1>4. \E f : IsLoop(f, n, begin, step) /\ \A k \in 0 .. n : f[k] \in T[k]
  <2> HIDE DEF n, T, step, begin
  <2> QED  BY <1>1, <1>2, <1>3, Loop
 <1>5. PICK f : IsLoop(f, n, begin, step) /\ \A k \in 0 .. n : f[k] \in T[k]
   BY <1>4
 <1>6. is(f)
  <2>1. ASSUME NEW k \in 1 .. n
        PROVE  step[k][f[k - 1]] = MergeStep(f[k - 1], inc)
   <3>1. k - 1 \in 0 .. n
     BY <1>1
   <3>2. f[k - 1] \in T[k - 1]
     BY <1>5, <3>1
   <3> HIDE DEF n, T, step
   <3> QED  BY <1>3, <3>2
  <2>2. \A k \in 0 .. n : k # 0 => k \in 1 .. n
    BY <1>1
  <2> HIDE DEF n, step, T, begin
  <2> QED  BY <1>5, <2>1, <2>2 DEF IsLoop
 <1> DEFINE g == CHOOSE h : is(h)
 <1>7. is(g)
  <2> HIDE DEF begin
  <2> QED  BY <1>6
 <1>8. Merged(kept, inc) = g[n].buffer
   BY DEF Merged
 <1>9. g[n] \in MergeStates(kept, inc, n)
  <2> DEFINE Q == {k \in Nat : k <= n => g[k] = f[k]}
  <2> HIDE DEF g, begin
  <2>1. 0 \in Q
    BY <1>1, <1>6, <1>7
  <2>2. ASSUME NEW k \in Nat, k \in Q  PROVE k + 1 \in Q
   <3> SUFFICES ASSUME k + 1 <= n  PROVE g[k + 1] = f[k + 1]
     OBVIOUS
   <3>1. k + 1 \in 0 .. n /\ k + 1 # 0 /\ (k + 1) - 1 = k /\ g[k] = f[k]
     BY <1>1, <2>2
   <3>2. f[k + 1] = MergeStep(f[k], inc)
     BY <1>6, <3>1
   <3>3. g[k + 1] = MergeStep(g[k], inc)
     BY <1>7, <3>1
   <3> QED  BY <3>1, <3>2, <3>3
  <2> HIDE DEF Q
  <2>3. n \in Q
   <3>1. \A k \in Nat : k \in Q
     BY <2>1, <2>2, CountingUp
   <3> QED  BY <1>1, <3>1
  <2>4. g[n] = f[n]
    BY <1>1, <2>3 DEF Q
  <2>5. n \in 0 .. n
    BY <1>1
  <2> QED  BY <1>5, <2>4, <2>5
 <1> DEFINE m == g[n]
            b == m.buffer
            a == m.kept
 <1> HIDE DEF g
 <1>10. /\ m.in \in 0 .. Len(inc) /\ m.out \in 0 .. n /\ a \in 0 .. Len(kept)
        /\ Merging(kept, inc, b, a, m.in, m.out)
        /\ m.in = 0 \/ m.out = n - n
   BY <1>9 DEF MergeStates
 <1>11. m.out = a + m.in /\ m.in = 0 /\ m.out = a
  <2>1. m.out = a + m.in
    BY <1>10 DEF Merging
  <2> HIDE DEF m
  <2> QED  BY <1>1, <1>10, <2>1
 <1>12. Merging(kept, inc, b, a, 0, a)
   BY <1>10, <1>11
 <1> HIDE DEF m, b, a
 <1>13. b \in [1 .. n -> Bodies] /\ a \in 0 .. Len(kept)
        /\ \A i \in 1 .. a : b[i] = kept[i]
   BY <1>12 DEF Merging
 <1>14. b \in Seq(Bodies) /\ Len(b) = n /\ DOMAIN b = 1 .. n
  <2> HIDE DEF n
  <2>1. n \in Nat /\ b \in [1 .. n -> Bodies]
    BY <1>1, <1>13
  <2>2. DOMAIN b = 1 .. n /\ b \in Seq(Bodies)
    BY <2>1, IsASeq
  <2> QED  BY <2>1, <2>2, LenProperties
 <1>15. /\ \A i \in 1 .. n : i > a =>
              \/ \E j \in 1 .. Len(kept) : j > a /\ b[i] = kept[j]
              \/ \E j \in 1 .. Len(inc) : j > 0 /\ b[i] = inc[j]
        /\ \A j \in 1 .. Len(kept) : j > a => \E i \in 1 .. n : i > a /\ b[i] = kept[j]
        /\ \A j \in 1 .. Len(inc) : j > 0 => \E i \in 1 .. n : i > a /\ b[i] = inc[j]
   BY <1>12 DEF Merging, Above
 <1>16. /\ \A i, j \in 1 .. n : a < i /\ i < j => b[i].id < b[j].id
        /\ \A i \in 1 .. n, j \in 1 .. Len(kept) : a < i /\ j <= a => kept[j].id < b[i].id
   BY <1>12 DEF Merging, InOrderAbove
 <1> HIDE DEF n
 <1>17. n = Len(kept) + Len(inc)
   BY DEF n
 <1>18. \A i \in 1 .. a : i \in 1 .. Len(kept) /\ i \in 1 .. n /\ i <= a
   BY <1>1, <1>13, <1>17
 <1>19. \A i \in 1 .. n : i \in 1 .. a \/ a < i
   BY <1>1, <1>13
 <1>20. Ascending(b)
  <2> SUFFICES ASSUME NEW i \in 1 .. n, NEW j \in 1 .. n, i < j
               PROVE  b[i].id < b[j].id
    BY <1>14 DEF Ascending
  <2>1. CASE a < i
    BY <1>16, <2>1
  <2>2. CASE i \in 1 .. a /\ j \in 1 .. a
   <3>1. kept[i].id < kept[j].id
     BY <1>18, <2>2 DEF Mergeable, Ascending
   <3> QED  BY <1>13, <2>2, <3>1
  <2>3. CASE i \in 1 .. a /\ a < j
   <3>1. kept[i].id < b[j].id
     BY <1>16, <1>18, <2>3
   <3> QED  BY <1>13, <2>3, <3>1
  <2> QED  BY <1>19, <2>1, <2>2, <2>3
 <1>21. ToSet(b) = ToSet(kept) \union ToSet(inc)
  <2>1. /\ \A p : p \in ToSet(b) <=> \E i \in 1 .. n : p = b[i]
        /\ \A p : p \in ToSet(kept) <=> \E i \in 1 .. Len(kept) : p = kept[i]
        /\ \A p : p \in ToSet(inc) <=> \E i \in 1 .. Len(inc) : p = inc[i]
    BY <1>1, <1>14, InList
  <2>2. ASSUME NEW p, p \in ToSet(b)  PROVE p \in ToSet(kept) \union ToSet(inc)
   <3>1. PICK i \in 1 .. n : p = b[i]
     BY <2>1, <2>2
   <3>2. CASE i \in 1 .. a
     BY <1>13, <1>18, <2>1, <3>1, <3>2
   <3>3. CASE a < i
     BY <1>15, <2>1, <3>1, <3>3
   <3> QED  BY <1>19, <3>2, <3>3
  <2>3. ASSUME NEW p, p \in ToSet(kept)  PROVE p \in ToSet(b)
   <3>1. PICK j \in 1 .. Len(kept) : p = kept[j]
     BY <2>1, <2>3
   <3>2. CASE j > a
     BY <1>15, <2>1, <3>1, <3>2
   <3>3. CASE ~ (j > a)
    <4>1. j \in 1 .. a
      BY <1>1, <1>13, <3>3
    <4> QED  BY <1>13, <1>18, <2>1, <3>1, <4>1
   <3> QED  BY <3>2, <3>3
  <2>4. ASSUME NEW p, p \in ToSet(inc)  PROVE p \in ToSet(b)
   <3>1. PICK j \in 1 .. Len(inc) : p = inc[j]
     BY <2>1, <2>4
   <3>2. j > 0
     BY <1>1
   <3> QED  BY <1>15, <2>1, <3>1, <3>2
  <2> QED  BY <2>2, <2>3, <2>4
 <1>22. Merged(kept, inc) = b
   BY <1>8 DEF b, m
 <1> QED  BY <1>14, <1>20, <1>21, <1>22

-----------------------------------------------------------------------------
(* The stores.                                                             *)

(* What a rank says of a particle is the truth, up to the box.             *)
IsReal(p, m) == /\ p.id \in DOMAIN truth
                /\ p.x % Box = truth[p.id].x % Box
                /\ m = truth[p.id].mass

HasLists == \A r \in Ranks : /\ held[r] \in Seq(Bodies)
                             /\ uniform[r] \in Nat
                             /\ Distinct(held[r])

HeldOnce == \A r, s \in Ranks : r # s => Ids(held[r]) \intersect Ids(held[s]) = {}

StoresHold ==
    /\ HasLists
    /\ HeldOnce
    /\ \A i \in DOMAIN truth : truth[i] \in [x : Int, mass : Nat]
    /\ \A r \in Ranks : \A p \in ToSet(held[r]) : IsReal(p, MassAt(r, p))
    /\ \A i \in DOMAIN truth : \E r \in Ranks : i \in Ids(held[r])

(* Every particle is inside the box and with its owner; in order.          *)
Placed == \A r \in Ranks : \A p \in ToSet(held[r]) :
             p.x \in 0 .. Box - 1 /\ Owner(p.x) = r
AllAscend == \A r \in Ranks : Ascending(held[r])

OneMass == \A r, s \in Ranks : uniform[r] = uniform[s]

Sparse == {"sparse", "sparse route", "sparse merge"}
Underway == Sparse \union {"retain", "route all", "rebuild"}

(* What a rank has received: the exchange of the stores as they are.       *)
Received ==
    /\ stage = "sparse merge" =>
          \A d \in Ranks : incoming[d] = SortedById(Delivered(d, Ranks \ {d}))
    /\ stage = "rebuild" =>
          \A d \in Ranks : incoming[d] = SortedById(Delivered(d, Ranks))
    /\ stage = "ghosts" =>
          \A d \in Ranks : incoming[d] = SortedById(FlattenSeq(
                               [k \in 1 .. size |-> GhostsFor(k - 1, d)]))

PartitionInvariant ==
    /\ size \in 1 .. NumPlanes
    /\ canonical => OneMass
    /\ stage # "broken" => StoresHold
    /\ stage \in {"partitioned", "ghosts", "sources"} =>
          Placed /\ (size > 1 => AllAscend)
    /\ stage \in Underway => size > 1 /\ MassesAgree
    /\ stage = "retain" => \A r \in Ranks : CanRetain(r)
    /\ stage \in Sparse => canonical /\ AllAscend
    /\ stage = "ghosts" => ~ NoGhostsNeeded
    /\ Received
    /\ GhostsAreExact

-----------------------------------------------------------------------------
(* Stores that hold every particle once, in its slab.                      *)

(* A list with no identity twice is as long as its set of identities.      *)
LEMMA CountedByIdentity ==
    ASSUME NEW s \in Seq(Bodies), Distinct(s)
    PROVE  Len(s) = Cardinality(Ids(s))
 <1> DEFINE f == [i \in 1 .. Len(s) |-> s[i].id]
 <1>1. /\ Len(s) \in Nat
       /\ \A p : p \in ToSet(s) <=> \E i \in 1 .. Len(s) : p = s[i]
   BY InList
 <1>2. f \in Bijection(1 .. Len(s), Ids(s))
  <2>1. \A i \in 1 .. Len(s) : f[i] \in Ids(s)
    BY <1>1 DEF Ids
  <2>2. f \in [1 .. Len(s) -> Ids(s)]
    BY <2>1
  <2>3. \A i, j \in 1 .. Len(s) : f[i] = f[j] => i = j
    BY DEF Distinct
  <2>4. \A e \in Ids(s) : \E i \in 1 .. Len(s) : f[i] = e
    BY <1>1 DEF Ids
  <2> HIDE DEF f
  <2>5. f \in Injection(1 .. Len(s), Ids(s))
    BY <2>2, <2>3 DEF Injection, IsInjective
  <2>6. f \in Surjection(1 .. Len(s), Ids(s))
    BY <2>2, <2>4 DEF Surjection
  <2> QED  BY <2>5, <2>6 DEF Bijection
 <1>3. ExistsBijection(1 .. Len(s), Ids(s))
   BY <1>2 DEF ExistsBijection
 <1> QED  BY <1>1, <1>3, FS_CountingElements

LEMMA InIds ==
    ASSUME NEW s, NEW i
    PROVE  i \in Ids(s) <=> \E p \in ToSet(s) : p.id = i
  BY DEF Ids

(* Where a store says its particles are is where they are.                 *)
LEMMA PlacedIsReal ==
    ASSUME size \in 1 .. NumPlanes, StoresHold, Placed, NEW r \in Ranks,
           NEW p \in ToSet(held[r])
    PROVE  /\ p.id \in DOMAIN truth
           /\ p.x \in 0 .. Box - 1 /\ p.x \in Int /\ Wrap(p.x) = p.x
           /\ p.x = truth[p.id].x % Box
           /\ Owner(p.x) = r
           /\ SlabStart(r) <= (truth[p.id].x % Box) \div Cell
           /\ (truth[p.id].x % Box) \div Cell < SlabEnd(r)
 <1>1. IsReal(p, MassAt(r, p)) /\ p.x \in 0 .. Box - 1 /\ Owner(p.x) = r
   BY DEF StoresHold, Placed
 <1>2. p.x \in Int /\ Wrap(p.x) = p.x
  <2>1. Box \in Nat \ {0}
    BY PlaneType
  <2> HIDE DEF Box
  <2> QED  BY <1>1, <2>1 DEF Wrap
 <1>3. p.x = truth[p.id].x % Box
   BY <1>1, <1>2 DEF IsReal, Wrap
 <1>4. PlaneOf(p.x) = (truth[p.id].x % Box) \div Cell
   BY <1>2, <1>3 DEF PlaneOf
 <1>5. SlabStart(r) <= PlaneOf(p.x) /\ PlaneOf(p.x) < SlabEnd(r)
   BY <1>1, <1>2, OneOwner
 <1> QED  BY <1>1, <1>2, <1>3, <1>4, <1>5 DEF IsReal

LEMMA PlacedIsCanonical ==
    ASSUME size \in 1 .. NumPlanes, StoresHold, Placed, size > 1 => AllAscend,
           NEW r \in Ranks
    PROVE  HoldsTheRealOnes(r)
 <1>1. held[r] \in Seq(Bodies) /\ Distinct(held[r])
   BY DEF StoresHold, HasLists
 <1>2. ASSUME NEW i \in Ids(held[r])  PROVE i \in RealOnes(r)
  <2>1. PICK p \in ToSet(held[r]) : p.id = i
    BY InIds
  <2> QED  BY <2>1, PlacedIsReal DEF RealOnes
 <1>3. ASSUME NEW i \in RealOnes(r)  PROVE i \in Ids(held[r])
  <2>1. i \in DOMAIN truth /\ SlabStart(r) <= (truth[i].x % Box) \div Cell
        /\ (truth[i].x % Box) \div Cell < SlabEnd(r)
    BY DEF RealOnes
  <2>2. PICK s \in Ranks : i \in Ids(held[s])
    BY <2>1 DEF StoresHold
  <2>3. PICK p \in ToSet(held[s]) : p.id = i
    BY <2>2, InIds
  <2>4. p.x \in Int /\ p.x = truth[i].x % Box /\ Owner(p.x) = s /\ Wrap(p.x) = p.x
    BY <2>3, PlacedIsReal
  <2>5. PlaneOf(p.x) = (truth[i].x % Box) \div Cell
    BY <2>4 DEF PlaneOf
  <2>6. Owner(p.x) = r
    BY <2>1, <2>4, <2>5, OneOwner
  <2> QED  BY <2>2, <2>4, <2>6
 <1>4. Ids(held[r]) = RealOnes(r)
   BY <1>2, <1>3
 <1>5. Len(held[r]) = Cardinality(RealOnes(r))
   BY <1>1, <1>4, CountedByIdentity
 <1>6. size > 1 => StrictlySorted(held[r])
   BY <1>1, SortedIsAscending DEF AllAscend
 <1>7. \A p \in ToSet(held[r]) : /\ p.x = truth[p.id].x % Box
                                 /\ MassAt(r, p) = truth[p.id].mass
   BY PlacedIsReal DEF StoresHold, IsReal
 <1> QED  BY <1>4, <1>5, <1>6, <1>7 DEF HoldsTheRealOnes

-----------------------------------------------------------------------------
(* What a partition does to the stores, whatever its path.                 *)

(* A list rewritten in place, identities and order kept.                   *)
Rewritten(s, t) ==
    /\ t \in Seq(Bodies)
    /\ Len(t) = Len(s)
    /\ \A i \in 1 .. Len(s) : t[i].id = s[i].id

LEMMA RewrittenKeeps ==
    ASSUME NEW s \in Seq(Bodies), NEW t, Rewritten(s, t)
    PROVE  /\ Distinct(s) => Distinct(t)
           /\ Ascending(s) => Ascending(t)
           /\ Ids(t) = Ids(s)
 <1>1. Len(t) = Len(s) /\ t \in Seq(Bodies) /\ \A i \in 1 .. Len(s) : t[i].id = s[i].id
   BY DEF Rewritten
 <1>2. Distinct(s) => Distinct(t)
   BY <1>1 DEF Distinct
 <1>3. Ascending(s) => Ascending(t)
   BY <1>1 DEF Ascending
 <1>4. /\ \A p : p \in ToSet(s) <=> \E i \in 1 .. Len(s) : p = s[i]
       /\ \A p : p \in ToSet(t) <=> \E i \in 1 .. Len(s) : p = t[i]
   BY <1>1, InList
 <1>5. Ids(t) = Ids(s)
  <2>1. \A i : i \in Ids(s) <=> \E j \in 1 .. Len(s) : s[j].id = i
    BY <1>4, InIds
  <2>2. \A i : i \in Ids(t) <=> \E j \in 1 .. Len(s) : t[j].id = i
    BY <1>4, InIds
  <2> QED  BY <1>1, <2>1, <2>2
 <1> QED  BY <1>2, <1>3, <1>5

LEMMA RewrittenList ==
    ASSUME NEW s \in Seq(Bodies), NEW t, DOMAIN t = DOMAIN s,
           t = [i \in DOMAIN s |-> t[i]],
           \A i \in 1 .. Len(s) : t[i] \in Bodies /\ t[i].id = s[i].id
    PROVE  /\ Rewritten(s, t)
           /\ \A q : q \in ToSet(t) <=> \E i \in 1 .. Len(s) : q = t[i]
 <1>1. DOMAIN s = 1 .. Len(s) /\ Len(s) \in Nat
   BY InList
 <1>2. t \in [1 .. Len(s) -> Bodies]
   BY <1>1
 <1>3. t \in Seq(Bodies)
   BY <1>1, <1>2, IsASeq
 <1>4. Len(t) = Len(s)
   BY <1>1, <1>3, LenProperties
 <1>5. \A q : q \in ToSet(t) <=> \E i \in 1 .. Len(s) : q = t[i]
   BY <1>3, <1>4, InList
 <1> QED  BY <1>3, <1>4, <1>5 DEF Rewritten

(* What becomes of particle p of rank s when it is inside the box and its  *)
(* mass is written out.                                                    *)
Sent(s, p) == [id |-> p.id, x |-> Wrap(p.x), mass |-> MassAt(s, p)]

MassOf(u, p) == IF u # None THEN u ELSE p.mass

(* Each rank has, once, a copy of every particle that belongs to it.       *)
Partitioned ==
    /\ \A r \in Ranks : /\ held'[r] \in Seq(Bodies)
                        /\ uniform'[r] \in Nat
                        /\ Distinct(held'[r])
    /\ \A r \in Ranks : \A q \in ToSet(held'[r]) :
          \E s \in Ranks : \E p \in ToSet(held[s]) :
             /\ Owner(p.x) = r
             /\ q.id = p.id /\ q.x = Wrap(p.x)
             /\ MassOf(uniform'[r], q) = MassAt(s, p)
    /\ \A s \in Ranks : \A p \in ToSet(held[s]) :
          \E q \in ToSet(held'[Owner(p.x)]) : q.id = p.id

LEMMA SentType ==
    ASSUME HasLists, NEW s \in Ranks, NEW p \in ToSet(held[s])
    PROVE  /\ p \in Bodies /\ p.id \in Int /\ p.x \in Int
           /\ MassAt(s, p) \in Nat
           /\ Wrap(p.x) \in 0 .. Box - 1 /\ Wrap(p.x) \in Int
           /\ Sent(s, p) \in Bodies
           /\ Sent(s, p).id = p.id
 <1>1. p \in Bodies
   BY InList DEF HasLists
 <1>2. p.id \in Int /\ p.x \in Int /\ p.mass \in Nat
   BY <1>1, BodyType
 <1>3. MassAt(s, p) \in Nat
   BY <1>2 DEF MassAt, HasLists
 <1>4. Wrap(p.x) \in 0 .. Box - 1 /\ Box \in Nat
   BY <1>2, PlaneType
 <1>5. Wrap(p.x) \in Int
  <2> HIDE DEF Box
  <2> QED  BY <1>4
 <1> QED  BY <1>1, <1>2, <1>3, <1>4, <1>5 DEF Sent, Bodies

(* No identity is on two ranks, so a particle is where it is found.        *)
LEMMA OneHolder ==
    ASSUME HasLists, HeldOnce, NEW r \in Ranks, NEW s \in Ranks,
           NEW p \in ToSet(held[r]), NEW q \in ToSet(held[s]), p.id = q.id
    PROVE  r = s /\ p = q
 <1>1. r = s
  <2>1. p.id \in Ids(held[r]) /\ p.id \in Ids(held[s])
    BY InIds
  <2> QED  BY <2>1 DEF HeldOnce
 <1>2. p = q
  <2>1. held[r] \in Seq(Bodies) /\ Distinct(held[r])
    BY DEF HasLists
  <2>2. PICK i \in 1 .. Len(held[r]) : p = held[r][i]
    BY <2>1, InList
  <2>3. PICK j \in 1 .. Len(held[r]) : q = held[r][j]
    BY <1>1, <2>1, InList
  <2> QED  BY <2>1, <2>2, <2>3 DEF Distinct
 <1> QED  BY <1>1, <1>2

LEMMA WrappedTwice ==
    ASSUME NEW x \in Int
    PROVE  Wrap(x) % Box = x % Box
 <1>1. Box \in Nat \ {0} /\ Wrap(x) \in 0 .. Box - 1
   BY PlaneType
 <1> HIDE DEF Box
 <1>2. Wrap(x) % Box = Wrap(x)
   BY <1>1
 <1> QED  BY <1>2 DEF Wrap

LEMMA SameOwner ==
    ASSUME NEW x \in Int
    PROVE  Owner(Wrap(x)) = Owner(x)
 <1>1. Wrap(Wrap(x)) = Wrap(x)
   BY WrappedTwice DEF Wrap
 <1>2. PlaneOf(Wrap(x)) = PlaneOf(x)
   BY <1>1 DEF PlaneOf
 <1> QED  BY <1>2 DEF Owner

LEMMA PartitionedKeeps ==
    ASSUME size \in 1 .. NumPlanes, StoresHold, Partitioned, UNCHANGED world
    PROVE  StoresHold' /\ Placed'
 <1>1. size' = size /\ truth' = truth /\ Ranks' = Ranks /\ Box' = Box
   BY DEF world, Ranks, Box
 <1>2. HasLists /\ HeldOnce
   BY DEF StoresHold
 <1>3. HasLists'
   BY <1>1 DEF HasLists, Partitioned
 <1>4. ASSUME NEW r \in Ranks, NEW q \in ToSet(held'[r])
       PROVE  \E s \in Ranks : \E p \in ToSet(held[s]) :
                 /\ Owner(p.x) = r
                 /\ q.id = p.id /\ q.x = Wrap(p.x)
                 /\ MassOf(uniform'[r], q) = MassAt(s, p)
   BY DEF Partitioned
 <1>5. HeldOnce'
  <2> SUFFICES ASSUME NEW r \in Ranks, NEW s \in Ranks, r # s,
                      NEW i \in Ids(held'[r]), i \in Ids(held'[s])
               PROVE  FALSE
    BY <1>1 DEF HeldOnce
  <2>1. PICK q \in ToSet(held'[r]) : q.id = i
    BY InIds
  <2>2. PICK w \in ToSet(held'[s]) : w.id = i
    BY InIds
  <2>3. PICK rr \in Ranks : \E p \in ToSet(held[rr]) : Owner(p.x) = r /\ q.id = p.id
    BY <1>4
  <2> PICK p \in ToSet(held[rr]) : Owner(p.x) = r /\ q.id = p.id
    BY <2>3
  <2>4. PICK ss, o : ss \in Ranks /\ o \in ToSet(held[ss]) /\ Owner(o.x) = s
                     /\ w.id = o.id
    BY <1>4
  <2>5. p = o
    BY <1>2, <2>1, <2>2, <2>3, <2>4, OneHolder
  <2> QED  BY <2>3, <2>4, <2>5
 <1>6. Placed'
  <2> SUFFICES ASSUME NEW r \in Ranks, NEW q \in ToSet(held'[r])
               PROVE  q.x \in 0 .. Box - 1 /\ Owner(q.x)' = r
    BY <1>1 DEF Placed
  <2>1. PICK s, p : s \in Ranks /\ p \in ToSet(held[s]) /\ Owner(p.x) = r
                   /\ q.x = Wrap(p.x)
    BY <1>4
  <2>2. p.x \in Int /\ Wrap(p.x) \in 0 .. Box - 1
    BY <1>2, <2>1, SentType
  <2>3. Owner(q.x) = r
    BY <2>1, <2>2, SameOwner
  <2>4. Owner(q.x)' = Owner(q.x')
    BY <1>1 DEF Owner, Ranks, SlabEnd, SlabStart, SlabCount, Base, Remainder,
                PlaneOf, Wrap, Box
  <2> QED  BY <2>1, <2>2, <2>3, <2>4
 <1>7. ASSUME NEW r \in Ranks, NEW q \in ToSet(held'[r])
       PROVE  IsReal(q, MassAt(r, q))'
  <2>1. PICK s, p :
               /\ s \in Ranks /\ p \in ToSet(held[s])
               /\ Owner(p.x) = r
               /\ q.id = p.id /\ q.x = Wrap(p.x)
               /\ MassOf(uniform'[r], q) = MassAt(s, p)
    BY <1>4
  <2>2. IsReal(p, MassAt(s, p)) /\ p.x \in Int
    BY <1>2, <2>1, SentType DEF StoresHold
  <2>3. q.x % Box = p.x % Box
    BY <2>1, <2>2, WrappedTwice
  <2>4. MassAt(r, q)' = MassAt(s, p)
    BY <2>1 DEF MassAt, MassOf
  <2> QED  BY <1>1, <2>1, <2>2, <2>3, <2>4 DEF IsReal
 <1>8. ASSUME NEW i \in DOMAIN truth  PROVE \E r \in Ranks : i \in Ids(held'[r])
  <2>1. PICK s \in Ranks : i \in Ids(held[s])
    BY DEF StoresHold
  <2>2. PICK p \in ToSet(held[s]) : p.id = i
    BY <2>1, InIds
  <2>3. PICK q \in ToSet(held'[Owner(p.x)]) : q.id = p.id
    BY <2>2 DEF Partitioned
  <2>4. Owner(p.x) \in Ranks
    BY <1>2, <2>2, SentType, OneOwner
  <2> QED  BY <2>2, <2>3, <2>4, InIds
 <1>9. \A i \in DOMAIN truth : truth[i] \in [x : Int, mass : Nat]
   BY DEF StoresHold
 <1> QED
   BY <1>1, <1>3, <1>5, <1>6, <1>7, <1>8, <1>9 DEF StoresHold

-----------------------------------------------------------------------------
(* The exchange.                                                           *)

LEMMA RewrittenBody ==
    ASSUME NEW p \in Bodies, NEW x \in Int, NEW m \in Nat
    PROVE  /\ [p EXCEPT !.x = x] = [id |-> p.id, x |-> x, mass |-> p.mass]
           /\ [p EXCEPT !.mass = m] = [id |-> p.id, x |-> p.x, mass |-> m]
           /\ [p EXCEPT !.x = x, !.mass = m] = [id |-> p.id, x |-> x, mass |-> m]
 <1>1. [p EXCEPT !.x = x] = [id |-> p.id, x |-> x, mass |-> p.mass]
   BY DEF Bodies
 <1>2. \A q \in Bodies : [q EXCEPT !.mass = m] = [id |-> q.id, x |-> q.x, mass |-> m]
   BY DEF Bodies
 <1>3. [p EXCEPT !.x = x, !.mass = m] = [[p EXCEPT !.x = x] EXCEPT !.mass = m]
   BY DEF Bodies
 <1>4. [p EXCEPT !.x = x] \in Bodies
   BY DEF Bodies
 <1> DEFINE q == [p EXCEPT !.x = x]
 <1>5. q \in Bodies /\ q.id = p.id /\ q.x = x
   BY <1>1, <1>4
 <1>6. [p EXCEPT !.x = x, !.mass = m] = [q EXCEPT !.mass = m]
   BY <1>3
 <1> HIDE DEF q
 <1> QED  BY <1>1, <1>2, <1>5, <1>6

LEMMA InSlabIs ==
    ASSUME NEW s \in Seq(Bodies), NEW d
    PROVE  /\ InSlab(s, d) \in Seq(Bodies)
           /\ \A p : p \in ToSet(InSlab(s, d)) <=> p \in ToSet(s) /\ Owner(p.x) = d
           /\ Distinct(s) => Distinct(InSlab(s, d))
           /\ Ascending(s) => Ascending(InSlab(s, d))
 <1> DEFINE S == {p \in ToSet(s) : Owner(p.x) = d}
 <1>1. InSlab(s, d) = Those(s, S)
   BY DEF InSlab
 <1>2. \A p : p \in S <=> p \in ToSet(s) /\ Owner(p.x) = d
   OBVIOUS
 <1> HIDE DEF S
 <1>3. /\ Those(s, S) \in Seq(Bodies)
       /\ ToSet(Those(s, S)) = ToSet(s) \intersect S
       /\ Distinct(s) => Distinct(Those(s, S))
       /\ Ascending(s) => Ascending(Those(s, S))
   BY ThoseAreKept
 <1> QED  BY <1>1, <1>2, <1>3

LEMMA CopiesAre ==
    ASSUME HasLists, NEW r \in Ranks, NEW t \in Seq(Bodies), Distinct(t),
           ToSet(t) \subseteq ToSet(held[r])
    PROVE  /\ Copies(r, t) \in Seq(Bodies)
           /\ Distinct(Copies(r, t))
           /\ \A q : q \in ToSet(Copies(r, t)) <=>
                \E p \in ToSet(t) : q = Sent(r, p)
 <1> DEFINE u == [i \in DOMAIN t |-> [t[i] EXCEPT !.x = Wrap(@), !.mass = MassAt(r, t[i])]]
 <1>1. Copies(r, t) = u
   BY DEF Copies
 <1>4. /\ DOMAIN t = 1 .. Len(t) /\ Len(t) \in Nat
       /\ \A p : p \in ToSet(t) <=> \E i \in 1 .. Len(t) : p = t[i]
   BY InList
 <1>5. ASSUME NEW i \in 1 .. Len(t)
       PROVE  u[i] = Sent(r, t[i]) /\ u[i] \in Bodies /\ u[i].id = t[i].id
  <2>1. t[i] \in ToSet(held[r])
    BY <1>4
  <2>2. u[i] = [t[i] EXCEPT !.x = Wrap(t[i].x), !.mass = MassAt(r, t[i])]
    BY <1>4
  <2>3. u[i] = Sent(r, t[i])
   <3> DEFINE p == t[i]
              x == Wrap(p.x)
              m == MassAt(r, p)
   <3>1. p \in Bodies /\ x \in Int /\ m \in Nat
     BY <2>1, SentType
   <3>2. u[i] = [p EXCEPT !.x = x, !.mass = m]
     BY <2>2
   <3>3. Sent(r, p) = [id |-> p.id, x |-> x, mass |-> m]
     BY DEF Sent
   <3> HIDE DEF u, p, x, m
   <3>4. [p EXCEPT !.x = x, !.mass = m] = [id |-> p.id, x |-> x, mass |-> m]
     BY <3>1, RewrittenBody
   <3>5. u[i] = Sent(r, p)
     BY <3>2, <3>3, <3>4
   <3> QED  BY <3>5 DEF p
  <2>4. Sent(r, t[i]) \in Bodies /\ Sent(r, t[i]).id = t[i].id
    BY <2>1, SentType
  <2> HIDE DEF u
  <2> QED  BY <2>1, <2>3, <2>4
 <1>6. DOMAIN u = DOMAIN t /\ u = [i \in DOMAIN t |-> u[i]]
   OBVIOUS
 <1> HIDE DEF u
 <1>7. Rewritten(t, u) /\ \A q : q \in ToSet(u) <=> \E i \in 1 .. Len(t) : q = u[i]
  <2>1. \A i \in 1 .. Len(t) : u[i] \in Bodies /\ u[i].id = t[i].id
    BY <1>5
  <2> QED  BY <1>6, <2>1, RewrittenList
 <1>8. u \in Seq(Bodies) /\ Distinct(u)
   BY <1>7, RewrittenKeeps DEF Rewritten
 <1> QED  BY <1>1, <1>4, <1>5, <1>7, <1>8

LEMMA RoutedIs ==
    ASSUME HasLists, NEW r \in Ranks, NEW d \in Ranks
    PROVE  /\ Routed(r, d) \in Seq(Bodies)
           /\ Distinct(Routed(r, d))
           /\ \A q : q \in ToSet(Routed(r, d)) <=>
                \E p \in ToSet(held[r]) : Owner(p.x) = d /\ q = Sent(r, p)
 <1> DEFINE t == InSlab(held[r], d)
            u == Copies(r, t)
 <1>1. Routed(r, d) = SortedById(u)
   BY DEF Routed
 <1>2. held[r] \in Seq(Bodies) /\ Distinct(held[r])
   BY DEF HasLists
 <1>3. /\ t \in Seq(Bodies) /\ Distinct(t)
       /\ \A p : p \in ToSet(t) <=> p \in ToSet(held[r]) /\ Owner(p.x) = d
   BY <1>2, InSlabIs
 <1> HIDE DEF t
 <1>4. /\ u \in Seq(Bodies) /\ Distinct(u)
       /\ \A q : q \in ToSet(u) <=> \E p \in ToSet(t) : q = Sent(r, p)
   BY <1>3, CopiesAre
 <1> HIDE DEF u
 <1>5. /\ SortedById(u) \in Seq(Bodies)
       /\ ToSet(SortedById(u)) = ToSet(u)
       /\ Ascending(SortedById(u))
   BY <1>4, SortIsOrdered
 <1> QED  BY <1>1, <1>3, <1>4, <1>5, AscendingIsDistinct

(* A rank receives, sorted by identity, each particle that belongs to it   *)
(* from the ranks it listens to.                                           *)
LEMMA DeliveredIs ==
    ASSUME size \in Nat, size # 0, HasLists, HeldOnce,
           NEW d \in Ranks, NEW sources \in SUBSET Ranks
    PROVE  LET got == SortedById(Delivered(d, sources))
           IN  /\ got \in Seq(Bodies)
               /\ Ascending(got)
               /\ \A q : q \in ToSet(got) <=>
                    \E s \in sources : \E p \in ToSet(held[s]) :
                       Owner(p.x) = d /\ q = Sent(s, p)
 <1> DEFINE seqs == [k \in 1 .. size |->
                       IF k - 1 \in sources THEN Routed(k - 1, d) ELSE <<>>]
 <1>1. Delivered(d, sources) = FlattenSeq(seqs)
   BY DEF Delivered
 <1>2. \A k \in 1 .. size : k - 1 \in Ranks
   BY DEF Ranks
 <1>3. \A s \in sources : s \in Ranks /\ s + 1 \in 1 .. size /\ (s + 1) - 1 = s
   BY DEF Ranks
 <1>4. ASSUME NEW k \in 1 .. size
       PROVE  /\ k - 1 \in sources => seqs[k] = Routed(k - 1, d)
              /\ k - 1 \notin sources => seqs[k] = <<>>
              /\ seqs[k] \in Seq(Bodies)
              /\ Distinct(seqs[k])
  <2>1. CASE k - 1 \in sources
   <3>1. seqs[k] = Routed(k - 1, d)
     BY <2>1
   <3> QED  BY <1>2, <2>1, <3>1, RoutedIs
  <2>2. CASE k - 1 \notin sources
   <3>1. seqs[k] = <<>>
     BY <2>2
   <3>2. <<>> \in Seq(Bodies) /\ Len(<<>>) = 0
     OBVIOUS
   <3>3. Distinct(<<>>)
     BY <3>2 DEF Distinct
   <3> HIDE DEF seqs
   <3> QED  BY <2>2, <3>1, <3>2, <3>3
  <2> QED  BY <2>1, <2>2
 <1>5. seqs \in [1 .. size -> Seq(Bodies)]
   BY <1>4
 <1> HIDE DEF seqs
 <1>6. seqs \in Seq(Seq(Bodies)) /\ Len(seqs) = size
  <2>1. seqs \in Seq(Seq(Bodies)) /\ DOMAIN seqs = 1 .. size
    BY <1>5, IsASeq
  <2> QED  BY <2>1, LenProperties
 <1>7. ASSUME NEW k \in 1 .. size, NEW q
       PROVE  q \in ToSet(seqs[k]) <=>
                k - 1 \in sources
                /\ \E p \in ToSet(held[k - 1]) : Owner(p.x) = d /\ q = Sent(k - 1, p)
  <2>1. CASE k - 1 \in sources
   <3>1. seqs[k] = Routed(k - 1, d)
     BY <1>4, <2>1
   <3> QED  BY <1>2, <2>1, <3>1, RoutedIs
  <2>2. CASE k - 1 \notin sources
   <3>1. seqs[k] = <<>>
     BY <1>4, <2>2
   <3>2. ToSet(<<>>) = {}
     BY DEF ToSet
   <3> QED  BY <2>2, <3>1, <3>2
  <2> QED  BY <2>1, <2>2
 <1>8. Apart(seqs)
  <2>1. ASSUME NEW k \in 1 .. size, NEW l \in 1 .. size, k # l,
               NEW i \in 1 .. Len(seqs[k]), NEW j \in 1 .. Len(seqs[l])
        PROVE  seqs[k][i].id # seqs[l][j].id
   <3>1. seqs[k][i] \in ToSet(seqs[k]) /\ seqs[l][j] \in ToSet(seqs[l])
     BY <1>4, InList
   <3>2. PICK p \in ToSet(held[k - 1]) : seqs[k][i] = Sent(k - 1, p)
     BY <1>7, <3>1
   <3>3. PICK w \in ToSet(held[l - 1]) : seqs[l][j] = Sent(l - 1, w)
     BY <1>7, <3>1
   <3>4. seqs[k][i].id = p.id /\ seqs[l][j].id = w.id
     BY <3>2, <3>3 DEF Sent
   <3>5. k - 1 # l - 1 /\ k - 1 \in Ranks /\ l - 1 \in Ranks
     BY <1>2, <2>1
   <3> QED  BY <3>4, <3>5, OneHolder
  <2> QED  BY <1>4, <1>6, <2>1 DEF Apart
 <1>9. /\ FlattenSeq(seqs) \in Seq(Bodies)
       /\ \A q : q \in ToSet(FlattenSeq(seqs)) <=>
                    \E k \in 1 .. size : q \in ToSet(seqs[k])
       /\ Distinct(FlattenSeq(seqs))
   BY <1>6, <1>8, FlattenJoins
 <1> DEFINE all == FlattenSeq(seqs)
 <1>10. /\ SortedById(all) \in Seq(Bodies)
        /\ ToSet(SortedById(all)) = ToSet(all)
        /\ Ascending(SortedById(all))
  <2> HIDE DEF all
  <2>1. all \in Seq(Bodies) /\ Distinct(all)
    BY <1>9 DEF all
  <2> QED  BY <2>1, SortIsOrdered
 <1>11. ASSUME NEW q
        PROVE  q \in ToSet(all) <=>
                 \E s \in sources : \E p \in ToSet(held[s]) :
                    Owner(p.x) = d /\ q = Sent(s, p)
  <2>1. ASSUME q \in ToSet(all)
        PROVE  \E s \in sources : \E p \in ToSet(held[s]) :
                  Owner(p.x) = d /\ q = Sent(s, p)
   <3>1. PICK k \in 1 .. size : q \in ToSet(seqs[k])
     BY <1>9, <2>1
   <3> QED  BY <1>7, <3>1
  <2>2. ASSUME NEW s \in sources, NEW p \in ToSet(held[s]),
               Owner(p.x) = d, q = Sent(s, p)
        PROVE  q \in ToSet(all)
   <3> DEFINE k == s + 1
   <3>1. k \in 1 .. size /\ k - 1 = s
     BY <1>3
   <3> HIDE DEF k
   <3>2. q \in ToSet(seqs[k])
     BY <1>7, <2>2, <3>1
   <3> QED  BY <1>9, <3>1, <3>2
  <2> QED  BY <2>1, <2>2
 <1> QED  BY <1>1, <1>10, <1>11

-----------------------------------------------------------------------------
(* The paths.                                                              *)

LEMMA AgreedMassIs ==
    ASSUME size \in Nat, HasLists
    PROVE  /\ AgreedMass \in Nat
           /\ AgreedMass = None =>
                \/ \A r \in Ranks : ~ NonEmpty(r)
                \/ \E r \in Ranks : NonEmpty(r) /\ uniform[r] = None
 <1> DEFINE full == {r \in Ranks : NonEmpty(r)}
 <1>1. CASE \E r \in Ranks : NonEmpty(r) /\ uniform[r] = None
   BY <1>1 DEF AgreedMass, None
 <1>2. CASE \A r \in Ranks : ~ NonEmpty(r)
   BY <1>2 DEF AgreedMass, None
 <1>3. CASE ~ (\E r \in Ranks : NonEmpty(r) /\ uniform[r] = None)
            /\ ~ (\A r \in Ranks : ~ NonEmpty(r))
  <2>1. full # {} /\ full \in SUBSET Nat
    BY <1>3 DEF Ranks
  <2>2. AgreedMass = uniform[Min(full)]
    BY <1>3 DEF AgreedMass
  <2> HIDE DEF full
  <2>3. Min(full) \in full
    BY <2>1, MinIsLeast
  <2>4. Min(full) \in Ranks /\ NonEmpty(Min(full))
    BY <2>3 DEF full
  <2>5. uniform[Min(full)] \in Nat /\ uniform[Min(full)] # None
    BY <1>3, <2>4 DEF HasLists
  <2> QED  BY <2>2, <2>5
 <1> QED  BY <1>1, <1>2, <1>3

LEMMA HolderIsNonEmpty ==
    ASSUME HasLists, NEW s \in Ranks, NEW p \in ToSet(held[s])
    PROVE  NonEmpty(s)
 <1>1. held[s] \in Seq(Bodies)
   BY DEF HasLists
 <1>2. PICK i \in 1 .. Len(held[s]) : p = held[s][i]
   BY <1>1, InList
 <1>3. Len(held[s]) # 0
   BY <1>1, <1>2, InList
 <1> QED  BY <1>3 DEF NonEmpty

(* When the ranks agree on a mass, it is the mass of every particle.       *)
LEMMA MassIsKept ==
    ASSUME HasLists, MassesAgree, NEW s \in Ranks, NEW p \in ToSet(held[s])
    PROVE  (IF AgreedMass # None THEN AgreedMass ELSE MassAt(s, p)) = MassAt(s, p)
 <1>1. NonEmpty(s)
   BY HolderIsNonEmpty
 <1> QED  BY <1>1 DEF MassesAgree, MassAt

LEMMA WrapAllIs ==
    ASSUME NEW s \in Seq(Bodies)
    PROVE  /\ Rewritten(s, WrapAll(s))
           /\ \A q : q \in ToSet(WrapAll(s)) <=>
                \E p \in ToSet(s) : q = [id |-> p.id, x |-> Wrap(p.x), mass |-> p.mass]
 <1> DEFINE t == WrapAll(s)
 <1>1. /\ DOMAIN s = 1 .. Len(s) /\ Len(s) \in Nat
       /\ \A p : p \in ToSet(s) <=> \E i \in 1 .. Len(s) : p = s[i]
       /\ \A i \in 1 .. Len(s) : s[i] \in Bodies
   BY InList, ListType
 <1>2. ASSUME NEW i \in 1 .. Len(s)
       PROVE  /\ t[i] = [id |-> s[i].id, x |-> Wrap(s[i].x), mass |-> s[i].mass]
              /\ t[i] \in Bodies /\ t[i].id = s[i].id
  <2>1. s[i] \in Bodies /\ s[i].id \in Int /\ s[i].x \in Int /\ s[i].mass \in Nat
    BY <1>1, BodyType
  <2>2. Wrap(s[i].x) \in Int
   <3>1. Wrap(s[i].x) \in 0 .. Box - 1 /\ Box \in Nat
     BY <2>1, PlaneType
   <3> HIDE DEF Box
   <3> QED  BY <3>1
  <2>3. t[i] = [s[i] EXCEPT !.x = Wrap(s[i].x)]
    BY <1>1 DEF WrapAll
  <2> HIDE DEF t
  <2>4. t[i] = [id |-> s[i].id, x |-> Wrap(s[i].x), mass |-> s[i].mass]
    BY <2>1, <2>2, <2>3, RewrittenBody
  <2> QED  BY <2>1, <2>2, <2>4 DEF Bodies
 <1>3. DOMAIN t = DOMAIN s /\ t = [i \in DOMAIN s |-> t[i]]
   BY DEF WrapAll
 <1> HIDE DEF t
 <1>4. \A i \in 1 .. Len(s) : t[i] \in Bodies /\ t[i].id = s[i].id
   BY <1>2
 <1>5. Rewritten(s, t) /\ \A q : q \in ToSet(t) <=> \E i \in 1 .. Len(s) : q = t[i]
   BY <1>3, <1>4, RewrittenList
 <1>6. ASSUME NEW q
       PROVE  q \in ToSet(t) <=>
               \E p \in ToSet(s) : q = [id |-> p.id, x |-> Wrap(p.x), mass |-> p.mass]
  <2>1. ASSUME q \in ToSet(t)
        PROVE  \E p \in ToSet(s) : q = [id |-> p.id, x |-> Wrap(p.x), mass |-> p.mass]
   <3>1. PICK i \in 1 .. Len(s) : q = t[i]
     BY <1>5, <2>1
   <3>2. s[i] \in ToSet(s)
     BY <1>1
   <3> QED  BY <1>2, <3>1, <3>2
  <2>2. ASSUME NEW p \in ToSet(s), q = [id |-> p.id, x |-> Wrap(p.x), mass |-> p.mass]
        PROVE  q \in ToSet(t)
   <3>1. PICK i \in 1 .. Len(s) : p = s[i]
     BY <1>1
   <3>2. q = t[i]
     BY <1>2, <2>2, <3>1
   <3> QED  BY <1>5, <3>2
  <2> QED  BY <2>1, <2>2
 <1> QED  BY <1>5, <1>6 DEF t

LEMMA SetMassesIs ==
    ASSUME NEW s \in Seq(Bodies), NEW r, uniform[r] \in Nat, NEW agreed \in Nat
    PROVE  /\ Rewritten(s, SetMasses(r, s, agreed))
           /\ \A q : q \in ToSet(SetMasses(r, s, agreed)) <=>
                \E p \in ToSet(s) :
                   q = [id |-> p.id, x |-> p.x,
                        mass |-> IF agreed # None THEN None ELSE MassAt(r, p)]
 <1> DEFINE t == SetMasses(r, s, agreed)
            m(p) == IF agreed # None THEN None ELSE MassAt(r, p)
 <1>1. /\ DOMAIN s = 1 .. Len(s) /\ Len(s) \in Nat
       /\ \A p : p \in ToSet(s) <=> \E i \in 1 .. Len(s) : p = s[i]
       /\ \A i \in 1 .. Len(s) : s[i] \in Bodies
   BY InList, ListType
 <1>2. ASSUME NEW i \in 1 .. Len(s)
       PROVE  /\ t[i] = [id |-> s[i].id, x |-> s[i].x, mass |-> m(s[i])]
              /\ t[i] \in Bodies /\ t[i].id = s[i].id
  <2>1. s[i] \in Bodies /\ s[i].id \in Int /\ s[i].x \in Int /\ s[i].mass \in Nat
    BY <1>1, BodyType
  <2>2. m(s[i]) \in Nat
    BY <2>1 DEF MassAt, None
  <2>3. t[i] = [s[i] EXCEPT !.mass = m(s[i])]
    BY <1>1 DEF SetMasses
  <2> HIDE DEF t, m
  <2>4. t[i] = [id |-> s[i].id, x |-> s[i].x, mass |-> m(s[i])]
    BY <2>1, <2>2, <2>3, RewrittenBody
  <2> QED  BY <2>1, <2>2, <2>4 DEF Bodies
 <1>3. DOMAIN t = DOMAIN s /\ t = [i \in DOMAIN s |-> t[i]]
   BY DEF SetMasses
 <1> HIDE DEF t
 <1>4. \A i \in 1 .. Len(s) : t[i] \in Bodies /\ t[i].id = s[i].id
   BY <1>2
 <1>5. Rewritten(s, t) /\ \A q : q \in ToSet(t) <=> \E i \in 1 .. Len(s) : q = t[i]
   BY <1>3, <1>4, RewrittenList
 <1>6. ASSUME NEW q
       PROVE  q \in ToSet(t) <=>
               \E p \in ToSet(s) : q = [id |-> p.id, x |-> p.x, mass |-> m(p)]
  <2> HIDE DEF m
  <2>1. ASSUME q \in ToSet(t)
        PROVE  \E p \in ToSet(s) : q = [id |-> p.id, x |-> p.x, mass |-> m(p)]
   <3>1. PICK i \in 1 .. Len(s) : q = t[i]
     BY <1>5, <2>1
   <3>2. s[i] \in ToSet(s)
     BY <1>1
   <3> QED  BY <1>2, <3>1, <3>2
  <2>2. ASSUME NEW p \in ToSet(s), q = [id |-> p.id, x |-> p.x, mass |-> m(p)]
        PROVE  q \in ToSet(t)
   <3>1. PICK i \in 1 .. Len(s) : p = s[i]
     BY <1>1
   <3>2. q = t[i]
     BY <1>2, <2>2, <3>1
   <3> QED  BY <1>5, <3>2
  <2> QED  BY <2>1, <2>2
 <1> QED  BY <1>5, <1>6 DEF t

(* The owned particles of a rank, in the box, with the agreed mass.        *)
Settled(r) == WrapAll(SetMasses(r, held[r], AgreedMass))

LEMMA SettledIs ==
    ASSUME size \in Nat, HasLists, NEW r \in Ranks
    PROVE  /\ Settled(r) \in Seq(Bodies)
           /\ Distinct(Settled(r))
           /\ Ascending(held[r]) => Ascending(Settled(r))
           /\ \A q : q \in ToSet(Settled(r)) <=>
                \E p \in ToSet(held[r]) :
                   q = [id |-> p.id, x |-> Wrap(p.x),
                        mass |-> IF AgreedMass # None THEN None ELSE MassAt(r, p)]
 <1> DEFINE s == held[r]
            t == SetMasses(r, s, AgreedMass)
            m(p) == IF AgreedMass # None THEN None ELSE MassAt(r, p)
 <1>1. s \in Seq(Bodies) /\ Distinct(s) /\ uniform[r] \in Nat /\ AgreedMass \in Nat
   BY AgreedMassIs DEF HasLists
 <1>2. /\ Rewritten(s, t)
       /\ \A q : q \in ToSet(t) <=>
             \E p \in ToSet(s) : q = [id |-> p.id, x |-> p.x, mass |-> m(p)]
   BY <1>1, SetMassesIs
 <1> HIDE DEF t, m
 <1>3. t \in Seq(Bodies)
   BY <1>2 DEF Rewritten
 <1>4. /\ Rewritten(t, WrapAll(t))
       /\ \A q : q \in ToSet(WrapAll(t)) <=>
            \E p \in ToSet(t) : q = [id |-> p.id, x |-> Wrap(p.x), mass |-> p.mass]
   BY <1>3, WrapAllIs
 <1> HIDE DEF s
 <1>5. /\ WrapAll(t) \in Seq(Bodies)
       /\ Distinct(WrapAll(t))
       /\ Ascending(s) => Ascending(WrapAll(t))
   BY <1>1, <1>2, <1>3, <1>4, RewrittenKeeps DEF Rewritten
 <1>6. ASSUME NEW q
       PROVE  q \in ToSet(WrapAll(t)) <=>
                \E p \in ToSet(s) : q = [id |-> p.id, x |-> Wrap(p.x), mass |-> m(p)]
  <2>1. ASSUME q \in ToSet(WrapAll(t))
        PROVE  \E p \in ToSet(s) : q = [id |-> p.id, x |-> Wrap(p.x), mass |-> m(p)]
   <3>1. PICK w \in ToSet(t) : q = [id |-> w.id, x |-> Wrap(w.x), mass |-> w.mass]
     BY <1>4, <2>1
   <3>2. PICK p \in ToSet(s) : w = [id |-> p.id, x |-> p.x, mass |-> m(p)]
     BY <1>2, <3>1
   <3> QED  BY <3>1, <3>2
  <2>2. ASSUME NEW p \in ToSet(s), q = [id |-> p.id, x |-> Wrap(p.x), mass |-> m(p)]
        PROVE  q \in ToSet(WrapAll(t))
   <3> DEFINE w == [id |-> p.id, x |-> p.x, mass |-> m(p)]
   <3>1. w \in ToSet(t)
     BY <1>2
   <3>2. w.id = p.id /\ w.x = p.x /\ w.mass = m(p)
     OBVIOUS
   <3> HIDE DEF w
   <3>3. q = [id |-> w.id, x |-> Wrap(w.x), mass |-> w.mass]
     BY <2>2, <3>2
   <3> QED  BY <1>4, <3>1, <3>3
  <2> QED  BY <2>1, <2>2
 <1>7. Settled(r) = WrapAll(t)
   BY DEF Settled, t, s
 <1> QED  BY <1>5, <1>6, <1>7 DEF m, s

(* What a particle becomes in the store it is put into.                    *)
Put(s, p) == [id |-> p.id, x |-> Wrap(p.x),
              mass |-> IF AgreedMass # None THEN None ELSE MassAt(s, p)]

(* A list that has what belongs to rank r, in order.                       *)
NewStore(r, t) ==
    /\ t \in Seq(Bodies)
    /\ Ascending(t)
    /\ \A q : q \in ToSet(t) <=>
          \E s \in Ranks : \E p \in ToSet(held[s]) : Owner(p.x) = r /\ q = Put(s, p)

LEMMA NewStoresPartition ==
    ASSUME size \in 1 .. NumPlanes, HasLists, MassesAgree, size' = size,
           \A r \in Ranks : uniform'[r] = AgreedMass /\ NewStore(r, held'[r])
    PROVE  Partitioned /\ AllAscend' /\ OneMass'
 <1>1. Ranks' = Ranks
   BY DEF Ranks
 <1>2. AgreedMass \in Nat
   BY AgreedMassIs
 <1>3. \A r \in Ranks : /\ held'[r] \in Seq(Bodies)
                        /\ uniform'[r] \in Nat
                        /\ Distinct(held'[r])
                        /\ Ascending(held'[r])
   BY <1>2, AscendingIsDistinct DEF NewStore
 <1>4. ASSUME NEW r \in Ranks, NEW q \in ToSet(held'[r])
       PROVE  \E s \in Ranks : \E p \in ToSet(held[s]) :
                /\ Owner(p.x) = r
                /\ q.id = p.id /\ q.x = Wrap(p.x)
                /\ MassOf(uniform'[r], q) = MassAt(s, p)
  <2>1. \E s \in Ranks : \E p \in ToSet(held[s]) : Owner(p.x) = r /\ q = Put(s, p)
    BY DEF NewStore
  <2>2. PICK s \in Ranks : \E p \in ToSet(held[s]) : Owner(p.x) = r /\ q = Put(s, p)
    BY <2>1
  <2>3. PICK p \in ToSet(held[s]) : Owner(p.x) = r /\ q = Put(s, p)
    BY <2>2
  <2>4. /\ q.id = p.id /\ q.x = Wrap(p.x)
        /\ q.mass = (IF AgreedMass # None THEN None ELSE MassAt(s, p))
    BY <2>3 DEF Put
  <2>5. MassOf(uniform'[r], q) = MassAt(s, p)
    BY <2>4, MassIsKept DEF MassOf
  <2> QED  BY <2>3, <2>4, <2>5
 <1>5. ASSUME NEW s \in Ranks, NEW p \in ToSet(held[s])
       PROVE  \E q \in ToSet(held'[Owner(p.x)]) : q.id = p.id
  <2>1. Owner(p.x) \in Ranks
    BY SentType, OneOwner
  <2>2. Put(s, p) \in ToSet(held'[Owner(p.x)])
    BY <2>1 DEF NewStore
  <2>3. Put(s, p).id = p.id
    BY DEF Put
  <2> QED  BY <2>2, <2>3
 <1>6. Partitioned
   BY <1>3, <1>4, <1>5 DEF Partitioned
 <1>7. AllAscend' /\ OneMass'
   BY <1>1, <1>3 DEF AllAscend, OneMass
 <1> QED  BY <1>6, <1>7

LEMMA SettledHasPut ==
    ASSUME size \in Nat, HasLists, NEW r \in Ranks
    PROVE  \A q : q \in ToSet(Settled(r)) <=> \E p \in ToSet(held[r]) : q = Put(r, p)
  BY SettledIs DEF Put

LEMMA AlonePartitions ==
    ASSUME size = 1, 1 \in 1 .. NumPlanes, HasLists, PartitionAlone
    PROVE  Partitioned /\ OneMass'
 <1>1. /\ Ranks = {0} /\ Ranks' = {0}
       /\ \A r \in Ranks : held'[r] = WrapAll(held[r]) /\ uniform'[r] = uniform[r]
   BY DEF PartitionAlone, world, Ranks
 <1>2. ASSUME NEW r \in Ranks
       PROVE  /\ held'[r] \in Seq(Bodies) /\ uniform'[r] \in Nat /\ Distinct(held'[r])
              /\ \A q : q \in ToSet(held'[r]) <=>
                   \E p \in ToSet(held[r]) :
                      q = [id |-> p.id, x |-> Wrap(p.x), mass |-> p.mass]
  <2>1. held[r] \in Seq(Bodies) /\ Distinct(held[r]) /\ uniform[r] \in Nat
    BY DEF HasLists
  <2>2. Rewritten(held[r], WrapAll(held[r]))
    BY <2>1, WrapAllIs
  <2>3. WrapAll(held[r]) \in Seq(Bodies) /\ Distinct(WrapAll(held[r]))
    BY <2>1, <2>2, RewrittenKeeps DEF Rewritten
  <2> QED  BY <1>1, <2>1, <2>3, WrapAllIs
 <1>3. ASSUME NEW s \in Ranks, NEW p \in ToSet(held[s])
       PROVE  Owner(p.x) = 0
  <2>1. Owner(p.x) \in Ranks
    BY <1>3, SentType, OneOwner
  <2> QED  BY <1>1, <2>1
 <1>4. ASSUME NEW r \in Ranks, NEW q \in ToSet(held'[r])
       PROVE  \E s \in Ranks : \E p \in ToSet(held[s]) :
                /\ Owner(p.x) = r
                /\ q.id = p.id /\ q.x = Wrap(p.x)
                /\ MassOf(uniform'[r], q) = MassAt(s, p)
  <2>1. PICK p \in ToSet(held[r]) :
               q = [id |-> p.id, x |-> Wrap(p.x), mass |-> p.mass]
    BY <1>2
  <2>2. q.id = p.id /\ q.x = Wrap(p.x) /\ q.mass = p.mass
    BY <2>1
  <2>3. MassOf(uniform'[r], q) = MassAt(r, p)
    BY <1>1, <2>2 DEF MassOf, MassAt
  <2>4. Owner(p.x) = r
    BY <1>1, <1>3
  <2> QED  BY <2>2, <2>3, <2>4
 <1>5. ASSUME NEW s \in Ranks, NEW p \in ToSet(held[s])
       PROVE  \E q \in ToSet(held'[Owner(p.x)]) : q.id = p.id
  <2> DEFINE q == [id |-> p.id, x |-> Wrap(p.x), mass |-> p.mass]
  <2>1. q \in ToSet(held'[s]) /\ q.id = p.id
    BY <1>2
  <2>2. Owner(p.x) = s
    BY <1>1, <1>3
  <2> QED  BY <2>1, <2>2
 <1>6. Partitioned
   BY <1>2, <1>4, <1>5 DEF Partitioned
 <1>7. OneMass'
   BY <1>1 DEF OneMass
 <1> QED  BY <1>6, <1>7

LEMMA RetainPartitions ==
    ASSUME size \in 1 .. NumPlanes, HasLists, MassesAgree, Retain,
           \A r \in Ranks : CanRetain(r)
    PROVE  Partitioned /\ AllAscend' /\ OneMass'
 <1>1. /\ size' = size
       /\ \A r \in Ranks : held'[r] = Settled(r) /\ uniform'[r] = AgreedMass
   BY DEF Retain, world, Settled
 <1>2. ASSUME NEW r \in Ranks, NEW p \in ToSet(held[r])
       PROVE  Owner(p.x) = r
  <2>1. PICK i \in 1 .. Len(held[r]) : p = held[r][i]
    BY InList DEF HasLists
  <2> QED  BY <2>1 DEF CanRetain
 <1>3. ASSUME NEW r \in Ranks
       PROVE  NewStore(r, Settled(r))
  <2>1. Ascending(held[r])
    BY SortedIsAscending DEF CanRetain, HasLists
  <2>2. ASSUME NEW q
        PROVE  q \in ToSet(Settled(r)) <=>
                 \E s \in Ranks : \E p \in ToSet(held[s]) :
                    Owner(p.x) = r /\ q = Put(s, p)
    BY <1>2, SettledHasPut
  <2>3. Settled(r) \in Seq(Bodies) /\ Ascending(Settled(r))
    BY <2>1, SettledIs
  <2> QED  BY <2>2, <2>3 DEF NewStore
 <1> QED  BY <1>1, <1>3, NewStoresPartition

(* The sparse path: what stays and what arrives can be merged.             *)
Staying(r) == InSlab(Settled(r), r)
Arriving(r) == SetMasses(r, incoming[r], AgreedMass)

LEMMA StayingIs ==
    ASSUME size \in 1 .. NumPlanes, HasLists, AllAscend, NEW r \in Ranks
    PROVE  /\ Staying(r) \in Seq(Bodies)
           /\ Ascending(Staying(r))
           /\ \A q : q \in ToSet(Staying(r)) <=>
                \E p \in ToSet(held[r]) : Owner(p.x) = r /\ q = Put(r, p)
 <1>1. Settled(r) \in Seq(Bodies) /\ Ascending(Settled(r))
   BY SettledIs DEF AllAscend
 <1>2. /\ Staying(r) \in Seq(Bodies)
       /\ Ascending(Staying(r))
       /\ \A q : q \in ToSet(Staying(r)) <=> q \in ToSet(Settled(r)) /\ Owner(q.x) = r
   BY <1>1, InSlabIs DEF Staying
 <1>3. ASSUME NEW p \in ToSet(held[r])
       PROVE  Owner(Put(r, p).x) = Owner(p.x)
  <2>1. p.x \in Int /\ Put(r, p).x = Wrap(p.x)
    BY SentType DEF Put
  <2> QED  BY <2>1, SameOwner
 <1>4. ASSUME NEW q
       PROVE  q \in ToSet(Staying(r)) <=>
                \E p \in ToSet(held[r]) : Owner(p.x) = r /\ q = Put(r, p)
   BY <1>2, <1>3, SettledHasPut
 <1> QED  BY <1>2, <1>4

LEMMA ArrivingIs ==
    ASSUME size \in 1 .. NumPlanes, HasLists, HeldOnce, OneMass, NEW r \in Ranks,
           incoming[r] = SortedById(Delivered(r, Ranks \ {r}))
    PROVE  /\ Arriving(r) \in Seq(Bodies)
           /\ Ascending(Arriving(r))
           /\ \A q : q \in ToSet(Arriving(r)) <=>
                \E s \in Ranks \ {r} : \E p \in ToSet(held[s]) :
                   Owner(p.x) = r /\ q = Put(s, p)
 <1> DEFINE inc == incoming[r]
 <1>1. /\ inc \in Seq(Bodies) /\ Ascending(inc)
       /\ \A q : q \in ToSet(inc) <=>
             \E s \in Ranks \ {r} : \E p \in ToSet(held[s]) :
                Owner(p.x) = r /\ q = Sent(s, p)
   BY DeliveredIs
 <1>2. AgreedMass \in Nat /\ uniform[r] \in Nat
   BY AgreedMassIs DEF HasLists
 <1> HIDE DEF inc
 <1>3. /\ Rewritten(inc, Arriving(r))
       /\ \A q : q \in ToSet(Arriving(r)) <=>
            \E w \in ToSet(inc) :
               q = [id |-> w.id, x |-> w.x,
                    mass |-> IF AgreedMass # None THEN None ELSE MassAt(r, w)]
  <2>1. Arriving(r) = SetMasses(r, inc, AgreedMass)
    BY DEF Arriving, inc
  <2> QED  BY <1>1, <1>2, <2>1, SetMassesIs
 <1>4. Arriving(r) \in Seq(Bodies) /\ Ascending(Arriving(r))
   BY <1>1, <1>3, RewrittenKeeps DEF Rewritten
 <1>5. ASSUME NEW s \in Ranks, NEW p \in ToSet(held[s])
       PROVE  [id |-> Sent(s, p).id, x |-> Sent(s, p).x,
               mass |-> IF AgreedMass # None THEN None ELSE MassAt(r, Sent(s, p))]
                 = Put(s, p)
  <2>1. Sent(s, p).id = p.id /\ Sent(s, p).x = Wrap(p.x)
        /\ Sent(s, p).mass = MassAt(s, p)
    BY DEF Sent
  <2>2. AgreedMass = None => MassAt(r, Sent(s, p)) = MassAt(s, p)
   <3> SUFFICES ASSUME AgreedMass = None
                PROVE  MassAt(r, Sent(s, p)) = MassAt(s, p)
     OBVIOUS
   <3>1. NonEmpty(s)
     BY HolderIsNonEmpty
   <3>2. uniform[r] = None
     BY <3>1, AgreedMassIs DEF OneMass
   <3> QED  BY <2>1, <3>2 DEF MassAt
  <2> QED  BY <2>1, <2>2 DEF Put
 <1>6. ASSUME NEW q
       PROVE  q \in ToSet(Arriving(r)) <=>
                \E s \in Ranks \ {r} : \E p \in ToSet(held[s]) :
                   Owner(p.x) = r /\ q = Put(s, p)
  <2>1. ASSUME q \in ToSet(Arriving(r))
        PROVE  \E s \in Ranks \ {r} : \E p \in ToSet(held[s]) :
                  Owner(p.x) = r /\ q = Put(s, p)
   <3>1. PICK w \in ToSet(inc) :
                q = [id |-> w.id, x |-> w.x,
                     mass |-> IF AgreedMass # None THEN None ELSE MassAt(r, w)]
     BY <1>3, <2>1
   <3>2. PICK s \in Ranks \ {r} : \E p \in ToSet(held[s]) :
                Owner(p.x) = r /\ w = Sent(s, p)
     BY <1>1, <3>1
   <3>3. PICK p \in ToSet(held[s]) : Owner(p.x) = r /\ w = Sent(s, p)
     BY <3>2
   <3> QED  BY <1>5, <3>1, <3>3
  <2>2. ASSUME NEW s \in Ranks \ {r}, NEW p \in ToSet(held[s]),
               Owner(p.x) = r, q = Put(s, p)
        PROVE  q \in ToSet(Arriving(r))
   <3>1. Sent(s, p) \in ToSet(inc)
     BY <1>1, <2>2
   <3> DEFINE w == Sent(s, p)
   <3>2. q = [id |-> w.id, x |-> w.x,
              mass |-> IF AgreedMass # None THEN None ELSE MassAt(r, w)]
     BY <1>5, <2>2
   <3> HIDE DEF w
   <3>3. w \in ToSet(inc)
     BY <3>1 DEF w
   <3> QED  BY <1>3, <3>2, <3>3
  <2> QED  BY <2>1, <2>2
 <1> QED  BY <1>4, <1>6

LEMMA SparseMerges ==
    ASSUME size \in 1 .. NumPlanes, HasLists, HeldOnce, OneMass, AllAscend,
           NEW r \in Ranks,
           incoming[r] = SortedById(Delivered(r, Ranks \ {r}))
    PROVE  NewStore(r, Merged(Staying(r), Arriving(r)))
 <1>1. /\ Staying(r) \in Seq(Bodies) /\ Ascending(Staying(r))
       /\ \A q : q \in ToSet(Staying(r)) <=>
             \E p \in ToSet(held[r]) : Owner(p.x) = r /\ q = Put(r, p)
   BY StayingIs
 <1>2. /\ Arriving(r) \in Seq(Bodies) /\ Ascending(Arriving(r))
       /\ \A q : q \in ToSet(Arriving(r)) <=>
             \E s \in Ranks \ {r} : \E p \in ToSet(held[s]) :
                Owner(p.x) = r /\ q = Put(s, p)
   BY ArrivingIs
 <1>3. ASSUME NEW i \in 1 .. Len(Staying(r)), NEW j \in 1 .. Len(Arriving(r))
       PROVE  Staying(r)[i].id # Arriving(r)[j].id
  <2>1. Staying(r)[i] \in ToSet(Staying(r)) /\ Arriving(r)[j] \in ToSet(Arriving(r))
    BY <1>1, <1>2, InList
  <2>2. PICK p \in ToSet(held[r]) : Staying(r)[i] = Put(r, p)
    BY <1>1, <2>1
  <2>3. PICK s \in Ranks \ {r} : \E w \in ToSet(held[s]) :
               Owner(w.x) = r /\ Arriving(r)[j] = Put(s, w)
    BY <1>2, <2>1
  <2>4. PICK w \in ToSet(held[s]) : Arriving(r)[j] = Put(s, w)
    BY <2>3
  <2>5. Staying(r)[i].id = p.id /\ Arriving(r)[j].id = w.id
    BY <2>2, <2>4 DEF Put
  <2> QED  BY <2>5, OneHolder
 <1>4. Mergeable(Staying(r), Arriving(r))
   BY <1>1, <1>2, <1>3 DEF Mergeable
 <1> DEFINE t == Merged(Staying(r), Arriving(r))
 <1>5. /\ t \in Seq(Bodies) /\ Ascending(t)
       /\ ToSet(t) = ToSet(Staying(r)) \union ToSet(Arriving(r))
   BY <1>4, MergedIsOrdered
 <1> HIDE DEF t
 <1>6. ASSUME NEW q
       PROVE  q \in ToSet(t) <=>
                \E s \in Ranks : \E p \in ToSet(held[s]) :
                   Owner(p.x) = r /\ q = Put(s, p)
  <2>1. q \in ToSet(t) <=> q \in ToSet(Staying(r)) \/ q \in ToSet(Arriving(r))
    BY <1>5
  <2>2. \A s : s \in Ranks <=> s = r \/ s \in Ranks \ {r}
    OBVIOUS
  <2> QED  BY <1>1, <1>2, <2>1, <2>2
 <1>7. NewStore(r, t)
   BY <1>5, <1>6 DEF NewStore
 <1> QED  BY <1>7 DEF t

LEMMA SparsePartitions ==
    ASSUME size \in 1 .. NumPlanes, HasLists, HeldOnce, OneMass, AllAscend,
           MassesAgree, MergeSparse,
           \A r \in Ranks : incoming[r] = SortedById(Delivered(r, Ranks \ {r}))
    PROVE  Partitioned /\ AllAscend' /\ OneMass'
 <1>1. /\ size' = size
       /\ \A r \in Ranks : /\ held'[r] = Merged(Staying(r), Arriving(r))
                           /\ uniform'[r] = AgreedMass
   BY DEF MergeSparse, world, Staying, Settled, Arriving
 <1>2. \A r \in Ranks : NewStore(r, Merged(Staying(r), Arriving(r)))
   BY SparseMerges
 <1> QED  BY <1>1, <1>2, NewStoresPartition

LEMMA RebuildPartitions ==
    ASSUME size \in 1 .. NumPlanes, HasLists, HeldOnce, MassesAgree, Rebuild,
           \A r \in Ranks : incoming[r] = SortedById(Delivered(r, Ranks))
    PROVE  Partitioned /\ AllAscend' /\ OneMass'
 <1> DEFINE m(w) == IF AgreedMass # None THEN None ELSE w.mass
            built(r) == [i \in DOMAIN incoming[r] |->
                           [incoming[r][i] EXCEPT !.mass = m(incoming[r][i])]]
 <1>1. /\ size' = size
       /\ \A r \in Ranks : held'[r] = built(r) /\ uniform'[r] = AgreedMass
   BY DEF Rebuild, world
 <1>2. AgreedMass \in Nat
   BY AgreedMassIs
 <1>3. ASSUME NEW r \in Ranks
       PROVE  NewStore(r, built(r))
  <2> DEFINE s == incoming[r]
             t == built(r)
  <2>1. /\ s \in Seq(Bodies) /\ Ascending(s)
        /\ \A q : q \in ToSet(s) <=>
              \E z \in Ranks : \E p \in ToSet(held[z]) :
                 Owner(p.x) = r /\ q = Sent(z, p)
    BY DeliveredIs
  <2>2. DOMAIN t = DOMAIN s /\ t = [i \in DOMAIN s |-> t[i]]
    OBVIOUS
  <2>3. \A i \in DOMAIN s : t[i] = [s[i] EXCEPT !.mass = m(s[i])]
    OBVIOUS
  <2> HIDE DEF s, t
  <2>4. /\ DOMAIN s = 1 .. Len(s) /\ Len(s) \in Nat
        /\ \A p : p \in ToSet(s) <=> \E i \in 1 .. Len(s) : p = s[i]
        /\ \A i \in 1 .. Len(s) : s[i] \in Bodies
    BY <2>1, InList, ListType
  <2>5. ASSUME NEW i \in 1 .. Len(s)
        PROVE  /\ t[i] = [id |-> s[i].id, x |-> s[i].x, mass |-> m(s[i])]
               /\ t[i] \in Bodies /\ t[i].id = s[i].id
   <3>1. s[i] \in Bodies /\ s[i].id \in Int /\ s[i].x \in Int /\ s[i].mass \in Nat
     BY <2>4, BodyType
   <3>2. m(s[i]) \in Nat
     BY <3>1 DEF None
   <3>3. t[i] = [s[i] EXCEPT !.mass = m(s[i])]
     BY <2>3, <2>4
   <3> HIDE DEF m
   <3>4. t[i] = [id |-> s[i].id, x |-> s[i].x, mass |-> m(s[i])]
     BY <3>1, <3>2, <3>3, RewrittenBody
   <3> QED  BY <3>1, <3>2, <3>4 DEF Bodies
  <2>6. \A i \in 1 .. Len(s) : t[i] \in Bodies /\ t[i].id = s[i].id
    BY <2>5
  <2>7. Rewritten(s, t) /\ \A q : q \in ToSet(t) <=> \E i \in 1 .. Len(s) : q = t[i]
    BY <2>1, <2>2, <2>6, RewrittenList
  <2>8. t \in Seq(Bodies) /\ Ascending(t)
    BY <2>1, <2>7, RewrittenKeeps DEF Rewritten
  <2>9. \A z, p : Put(z, p) = [id |-> Sent(z, p).id, x |-> Sent(z, p).x,
                               mass |-> m(Sent(z, p))]
    BY DEF Put, Sent
  <2> HIDE DEF m
  <2>10. ASSUME NEW q, q \in ToSet(t)
         PROVE  \E z \in Ranks : \E p \in ToSet(held[z]) :
                   Owner(p.x) = r /\ q = Put(z, p)
   <3>1. PICK i \in 1 .. Len(s) : q = t[i]
     BY <2>7, <2>10
   <3>2. s[i] \in ToSet(s)
     BY <2>4
   <3>3. PICK z \in Ranks : \E p \in ToSet(held[z]) : Owner(p.x) = r /\ s[i] = Sent(z, p)
     BY <2>1, <3>2
   <3>4. PICK p \in ToSet(held[z]) : Owner(p.x) = r /\ s[i] = Sent(z, p)
     BY <3>3
   <3>5. q = Put(z, p)
     BY <2>5, <2>9, <3>1, <3>4
   <3> QED  BY <3>4, <3>5
  <2>11. ASSUME NEW z \in Ranks, NEW p \in ToSet(held[z]), Owner(p.x) = r
         PROVE  Put(z, p) \in ToSet(t)
   <3>1. Sent(z, p) \in ToSet(s)
     BY <2>1, <2>11
   <3>2. PICK i \in 1 .. Len(s) : Sent(z, p) = s[i]
     BY <2>4, <3>1
   <3>3. Put(z, p) = t[i]
     BY <2>5, <2>9, <3>2
   <3> QED  BY <2>7, <3>3
  <2>12. NewStore(r, t)
    BY <2>8, <2>10, <2>11 DEF NewStore
  <2> QED  BY <2>12 DEF t
 <1> HIDE DEF built
 <1> QED  BY <1>1, <1>3, NewStoresPartition

-----------------------------------------------------------------------------
(* Ghosts.                                                                 *)

(* What RouteGhosts brings to rank d.                                      *)
GhostLists(d) == [k \in 1 .. size |-> GhostsFor(k - 1, d)]
GhostsOf(d) == SortedById(FlattenSeq(GhostLists(d)))
Shown(s, d, p) == d \in Candidates(s, Search) /\ Visible(Wrap(p.x), d, Search)

LEMMA GhostsForIs ==
    ASSUME HasLists, NEW s \in Ranks, NEW d \in Ranks
    PROVE  /\ GhostsFor(s, d) \in Seq(Bodies)
           /\ Distinct(GhostsFor(s, d))
           /\ \A q : q \in ToSet(GhostsFor(s, d)) <=>
                \E p \in ToSet(held[s]) : Shown(s, d, p) /\ q = Sent(s, p)
 <1> DEFINE S == {p \in ToSet(held[s]) : Visible(Wrap(p.x), d, Search)}
            t == Those(held[s], S)
 <1>1. held[s] \in Seq(Bodies) /\ Distinct(held[s])
   BY DEF HasLists
 <1>2. CASE d \notin Candidates(s, Search)
  <2>1. GhostsFor(s, d) = <<>>
    BY <1>2 DEF GhostsFor
  <2>2. <<>> \in Seq(Bodies) /\ Len(<<>>) = 0 /\ ToSet(<<>>) = {}
    BY DEF ToSet
  <2>3. Distinct(<<>>)
    BY <2>2 DEF Distinct
  <2> QED  BY <1>2, <2>1, <2>2, <2>3 DEF Shown
 <1>3. CASE d \in Candidates(s, Search)
  <2>1. GhostsFor(s, d) = Copies(s, t)
    BY <1>3 DEF GhostsFor
  <2>2. \A p : p \in S <=> p \in ToSet(held[s]) /\ Shown(s, d, p)
    BY <1>3 DEF Shown
  <2> HIDE DEF S
  <2>3. /\ t \in Seq(Bodies)
        /\ ToSet(t) = ToSet(held[s]) \intersect S
        /\ Distinct(t)
    BY <1>1, ThoseAreKept
  <2> HIDE DEF t
  <2>4. /\ Copies(s, t) \in Seq(Bodies)
        /\ Distinct(Copies(s, t))
        /\ \A q : q \in ToSet(Copies(s, t)) <=> \E p \in ToSet(t) : q = Sent(s, p)
    BY <2>3, CopiesAre
  <2> QED  BY <2>1, <2>2, <2>3, <2>4
 <1> QED  BY <1>2, <1>3

LEMMA GhostsOfIs ==
    ASSUME size \in Nat, size # 0, HasLists, HeldOnce, NEW d \in Ranks
    PROVE  /\ GhostsOf(d) \in Seq(Bodies)
           /\ Ascending(GhostsOf(d))
           /\ \A q : q \in ToSet(GhostsOf(d)) <=>
                \E s \in Ranks : \E p \in ToSet(held[s]) :
                   Shown(s, d, p) /\ q = Sent(s, p)
 <1> DEFINE seqs == GhostLists(d)
 <1>1. \A k \in 1 .. size : k - 1 \in Ranks /\ seqs[k] = GhostsFor(k - 1, d)
   BY DEF Ranks, GhostLists
 <1>2. \A s \in Ranks : s + 1 \in 1 .. size /\ (s + 1) - 1 = s
   BY DEF Ranks
 <1>3. seqs = [k \in 1 .. size |-> seqs[k]]
   BY DEF GhostLists
 <1> HIDE DEF seqs
 <1>4. \A k \in 1 .. size :
         /\ seqs[k] \in Seq(Bodies) /\ Distinct(seqs[k])
         /\ \A q : q \in ToSet(seqs[k]) <=>
              \E p \in ToSet(held[k - 1]) :
                 Shown(k - 1, d, p) /\ q = Sent(k - 1, p)
   BY <1>1, GhostsForIs
 <1>5. seqs \in [1 .. size -> Seq(Bodies)]
   BY <1>3, <1>4
 <1>6. seqs \in Seq(Seq(Bodies)) /\ Len(seqs) = size
  <2>1. seqs \in Seq(Seq(Bodies)) /\ DOMAIN seqs = 1 .. size
    BY <1>5, IsASeq
  <2> QED  BY <2>1, LenProperties
 <1>7. Apart(seqs)
  <2>1. ASSUME NEW k \in 1 .. size, NEW l \in 1 .. size, k # l,
               NEW i \in 1 .. Len(seqs[k]), NEW j \in 1 .. Len(seqs[l])
        PROVE  seqs[k][i].id # seqs[l][j].id
   <3>1. seqs[k][i] \in ToSet(seqs[k]) /\ seqs[l][j] \in ToSet(seqs[l])
     BY <1>4, InList
   <3>2. k - 1 # l - 1 /\ k - 1 \in Ranks /\ l - 1 \in Ranks
     BY <1>1, <2>1
   <3>3. PICK p \in ToSet(held[k - 1]) : seqs[k][i] = Sent(k - 1, p)
     BY <1>4, <3>1
   <3>4. PICK q \in ToSet(held[l - 1]) : seqs[l][j] = Sent(l - 1, q)
     BY <1>4, <3>1
   <3>5. seqs[k][i].id = p.id /\ seqs[l][j].id = q.id
     BY <3>2, <3>3, <3>4, SentType
   <3> QED  BY <3>2, <3>5, OneHolder
  <2> QED  BY <1>4, <1>6, <2>1 DEF Apart
 <1> DEFINE all == FlattenSeq(seqs)
 <1>8. /\ all \in Seq(Bodies) /\ Distinct(all)
       /\ \A q : q \in ToSet(all) <=> \E k \in 1 .. size : q \in ToSet(seqs[k])
   BY <1>6, <1>7, FlattenJoins
 <1> HIDE DEF all
 <1>9. /\ SortedById(all) \in Seq(Bodies)
       /\ ToSet(SortedById(all)) = ToSet(all)
       /\ Ascending(SortedById(all))
   BY <1>8, SortIsOrdered
 <1>10. ASSUME NEW q
        PROVE  q \in ToSet(all) <=> \E s \in Ranks : \E p \in ToSet(held[s]) :
                                      Shown(s, d, p) /\ q = Sent(s, p)
  <2>1. ASSUME q \in ToSet(all)
        PROVE  \E s \in Ranks : \E p \in ToSet(held[s]) :
                  Shown(s, d, p) /\ q = Sent(s, p)
   <3>1. PICK k \in 1 .. size : q \in ToSet(seqs[k])
     BY <1>8, <2>1
   <3>2. \E p \in ToSet(held[k - 1]) : Shown(k - 1, d, p) /\ q = Sent(k - 1, p)
     BY <1>4, <3>1
   <3> QED  BY <1>1, <3>2
  <2>2. ASSUME NEW s \in Ranks, NEW p \in ToSet(held[s]),
               Shown(s, d, p), q = Sent(s, p)
        PROVE  q \in ToSet(all)
   <3> DEFINE k == s + 1
   <3>1. k \in 1 .. size /\ k - 1 = s
     BY <1>2
   <3> HIDE DEF k
   <3>2. q \in ToSet(seqs[k])
     BY <1>4, <2>2, <3>1
   <3> QED  BY <1>8, <3>1, <3>2
  <2> QED  BY <2>1, <2>2
 <1>11. GhostsOf(d) = SortedById(all)
   BY DEF GhostsOf, all, seqs
 <1> QED  BY <1>9, <1>10, <1>11

(* What is visible to a rank that is where it is said to be.               *)
GhostsFound(r, g) ==
    /\ Ids(g) = {i \in DOMAIN truth \ RealOnes(r) :
                   PeriodicDistance(truth[i].x % Box, r) <= Search}
    /\ StrictlySorted(g)
    /\ \A p \in ToSet(g) : p.x = truth[p.id].x % Box /\ p.mass = truth[p.id].mass

LEMMA GhostsAreFound ==
    ASSUME size \in 1 .. NumPlanes, StoresHold, Placed, size > 1 => AllAscend,
           NEW r \in Ranks
    PROVE  GhostsFound(r, GhostsOf(r))
 <1> DEFINE g == GhostsOf(r)
 <1>1. HasLists /\ HeldOnce /\ Search \in Nat
   BY SearchAssumption DEF StoresHold
 <1>2. /\ g \in Seq(Bodies) /\ Ascending(g)
       /\ \A q : q \in ToSet(g) <=>
             \E s \in Ranks : \E p \in ToSet(held[s]) :
                Shown(s, r, p) /\ q = Sent(s, p)
   BY <1>1, GhostsOfIs
 <1> HIDE DEF g
 <1>3. Ids(held[r]) = RealOnes(r)
   BY PlacedIsCanonical DEF HoldsTheRealOnes
 <1>4. ASSUME NEW s \in Ranks, NEW p \in ToSet(held[s])
       PROVE  /\ p.id \in DOMAIN truth /\ p.x \in 0 .. Box - 1
              /\ p.x = truth[p.id].x % Box /\ Wrap(p.x) = p.x
              /\ Owner(p.x) = s
              /\ p.id \in RealOnes(r) <=> s = r
              /\ Sent(s, p).id = p.id /\ Sent(s, p).x = p.x
              /\ Sent(s, p).mass = truth[p.id].mass
  <2>1. /\ p.id \in DOMAIN truth /\ p.x \in 0 .. Box - 1
        /\ p.x = truth[p.id].x % Box /\ Wrap(p.x) = p.x
        /\ Owner(p.x) = s
    BY PlacedIsReal
  <2>2. p.id \in Ids(held[s])
    BY InIds
  <2>3. p.id \in Ids(held[r]) <=> s = r
    BY <1>1, <2>2 DEF HeldOnce
  <2>4. MassAt(s, p) = truth[p.id].mass
    BY DEF StoresHold, IsReal
  <2> QED  BY <1>3, <2>1, <2>3, <2>4 DEF Sent
 <1>5. ASSUME NEW s \in Ranks, NEW p \in ToSet(held[s]), s # r
       PROVE  r \in Candidates(s, Search) /\ Visible(p.x, r, Search)
                <=> PeriodicDistance(p.x, r) <= Search
   BY <1>1, <1>4, <1>5, GhostSearchIsExact
 <1>6. ASSUME NEW i \in Ids(g)
       PROVE  /\ i \in DOMAIN truth /\ i \notin RealOnes(r)
              /\ PeriodicDistance(truth[i].x % Box, r) <= Search
  <2>1. PICK q \in ToSet(g) : q.id = i
    BY InIds
  <2>2. PICK s \in Ranks : \E p \in ToSet(held[s]) :
               Shown(s, r, p) /\ q = Sent(s, p)
    BY <1>2, <2>1
  <2>3. PICK p \in ToSet(held[s]) : Shown(s, r, p) /\ q = Sent(s, p)
    BY <2>2
  <2>4. s # r
    BY <2>3 DEF Candidates, Shown
  <2> QED  BY <1>4, <1>5, <2>1, <2>3, <2>4 DEF Shown
 <1>7. ASSUME NEW i \in DOMAIN truth, i \notin RealOnes(r),
              PeriodicDistance(truth[i].x % Box, r) <= Search
       PROVE  i \in Ids(g)
  <2>1. PICK s \in Ranks : i \in Ids(held[s])
    BY DEF StoresHold
  <2>2. PICK p \in ToSet(held[s]) : p.id = i
    BY <2>1, InIds
  <2>3. s # r
    BY <1>3, <1>7, <2>1
  <2>4. r \in Candidates(s, Search) /\ Visible(p.x, r, Search)
    BY <1>4, <1>5, <1>7, <2>2, <2>3
  <2>5. Sent(s, p) \in ToSet(g) /\ Sent(s, p).id = i
    BY <1>2, <1>4, <2>2, <2>4 DEF Shown
  <2> QED  BY <2>5, InIds
 <1>8. Ids(g) = {i \in DOMAIN truth \ RealOnes(r) :
                   PeriodicDistance(truth[i].x % Box, r) <= Search}
   BY <1>6, <1>7
 <1>9. \A p \in ToSet(g) : p.x = truth[p.id].x % Box /\ p.mass = truth[p.id].mass
   BY <1>2, <1>4
 <1>10. StrictlySorted(g)
   BY <1>2, SortedIsAscending
 <1> QED  BY <1>8, <1>9, <1>10 DEF GhostsFound, g

-----------------------------------------------------------------------------
(* The drift.                                                              *)

LEMMA OneRemainder ==
    ASSUME NEW y \in Nat \ {0}, NEW q \in Int, NEW r \in 0 .. y - 1,
           NEW p \in Int, NEW s \in 0 .. y - 1, y * q + r = y * p + s
    PROVE  r = s
 <1>1. y * (q - p) = s - r
  <2>1. y * (q - p) = y * q - y * p /\ y * q \in Int /\ y * p \in Int
    OBVIOUS
  <2> QED  BY <2>1
 <1> DEFINE d == q - p
 <1>2. d \in Int /\ y * d = s - r
   BY <1>1
 <1> HIDE DEF d
 <1>3. CASE d >= 1
  <2>1. y * d >= y
    BY <1>2, <1>3
  <2> QED  BY <1>2, <2>1
 <1>4. CASE d <= -1
  <2>1. y * d <= -y
    BY <1>2, <1>4
  <2> QED  BY <1>2, <2>1
 <1>5. CASE d = 0
   BY <1>2, <1>5
 <1> QED  BY <1>2, <1>3, <1>4, <1>5

LEMMA WholeDivision ==
    ASSUME NEW x \in Int, NEW y \in Nat \ {0}
    PROVE  /\ x \div y \in Int
           /\ x % y \in 0 .. y - 1
           /\ x = y * (x \div y) + (x % y)
  OBVIOUS

LEMMA SameOnTheBox ==
    ASSUME NEW a \in Int, NEW b \in Int, NEW m \in Int, NEW y \in Nat \ {0},
           a % y = b % y
    PROVE  (a + m) % y = (b + m) % y
 <1> DEFINE qa == a \div y
            qb == b \div y
            e == a % y
            qs == (a + m) \div y
            es == (a + m) % y
            qt == (b + m) \div y
            et == (b + m) % y
 <1>1. /\ qa \in Int /\ qb \in Int /\ e \in 0 .. y - 1
       /\ a = y * qa + e /\ b = y * qb + e
   BY WholeDivision
 <1>2. /\ qs \in Int /\ es \in 0 .. y - 1 /\ a + m = y * qs + es
       /\ qt \in Int /\ et \in 0 .. y - 1 /\ b + m = y * qt + et
  <2>1. a + m \in Int /\ b + m \in Int
    OBVIOUS
  <2> QED  BY <2>1, WholeDivision
 <1> HIDE DEF qa, qb, e, qs, es, qt, et
 <1>3. y * (qt + (qa - qb)) + et = y * qs + es
  <2>1. y * (qt + (qa - qb)) = y * qt + (y * qa - y * qb)
        /\ y * qt \in Int /\ y * qa \in Int /\ y * qb \in Int /\ y * qs \in Int
    BY <1>1, <1>2
  <2> QED  BY <1>1, <1>2, <2>1
 <1>4. qt + (qa - qb) \in Int
   BY <1>1, <1>2
 <1>5. et = es
   BY <1>2, <1>3, <1>4, OneRemainder
 <1> QED  BY <1>5 DEF et, es

LEMMA DriftKeepsStores ==
    ASSUME size \in 1 .. NumPlanes, StoresHold,
           NEW move \in [DOMAIN truth -> Moves], Drift(move)
    PROVE  StoresHold'
 <1>1. /\ size' = size /\ uniform' = uniform /\ Ranks' = Ranks /\ Box' = Box
       /\ DOMAIN truth' = DOMAIN truth
       /\ \A i \in DOMAIN truth : truth'[i] = [truth[i] EXCEPT !.x = Wrap(@ + move[i])]
   BY DEF Drift, Ranks, Box
 <1>2. /\ HasLists /\ HeldOnce /\ Moves \subseteq Int
       /\ \A i \in DOMAIN truth : truth[i] \in [x : Int, mass : Nat]
   BY SearchAssumption DEF StoresHold
 <1>3. Box \in Nat \ {0} /\ \A x \in Int : Wrap(x) \in Int
  <2>1. Box \in Nat \ {0} /\ \A x \in Int : Wrap(x) \in 0 .. Box - 1
    BY PlaneType
  <2> HIDE DEF Box
  <2> QED  BY <2>1
 <1>4. ASSUME NEW i \in DOMAIN truth
       PROVE  /\ truth[i].x \in Int /\ truth[i].mass \in Nat /\ move[i] \in Int
              /\ truth'[i] \in [x : Int, mass : Nat]
              /\ truth'[i].x = Wrap(truth[i].x + move[i])
              /\ truth'[i].mass = truth[i].mass
  <2>1. truth[i] \in [x : Int, mass : Nat] /\ move[i] \in Int
    BY <1>2
  <2>2. truth[i].x \in Int /\ truth[i].mass \in Nat
    BY <2>1
  <2>3. truth[i].x + move[i] \in Int
    BY <2>1, <2>2
  <2> DEFINE x == Wrap(truth[i].x + move[i])
  <2>4. x \in Int
    BY <1>3, <2>3
  <2>5. truth'[i] = [truth[i] EXCEPT !.x = x]
    BY <1>1
  <2> HIDE DEF x
  <2>6. truth'[i] \in [x : Int, mass : Nat] /\ truth'[i].x = x
        /\ truth'[i].mass = truth[i].mass
    BY <2>1, <2>4, <2>5
  <2> QED  BY <2>1, <2>2, <2>6 DEF x
 <1>5. ASSUME NEW r \in Ranks
       PROVE  /\ Rewritten(held[r], held'[r])
              /\ \A q \in ToSet(held'[r]) : \E p \in ToSet(held[r]) :
                   q = [id |-> p.id, x |-> Wrap(p.x + move[p.id]), mass |-> p.mass]
  <2> DEFINE s == held[r]
             t == held'[r]
  <2>1. s \in Seq(Bodies)
    BY <1>2 DEF HasLists
  <2>2. t = [i \in DOMAIN s |-> [s[i] EXCEPT !.x = Wrap(@ + move[s[i].id])]]
    BY DEF Drift
  <2>3. \A i \in DOMAIN s : t[i] = [s[i] EXCEPT !.x = Wrap(s[i].x + move[s[i].id])]
    BY <2>2
  <2>9. DOMAIN t = DOMAIN s /\ t = [i \in DOMAIN s |-> t[i]]
    BY <2>2
  <2> HIDE DEF t
  <2>4. /\ DOMAIN s = 1 .. Len(s) /\ Len(s) \in Nat
        /\ \A p : p \in ToSet(s) <=> \E i \in 1 .. Len(s) : p = s[i]
        /\ \A i \in 1 .. Len(s) : s[i] \in Bodies
    BY <2>1, InList, ListType
  <2>5. ASSUME NEW i \in 1 .. Len(s)
        PROVE  /\ t[i] = [id |-> s[i].id, x |-> Wrap(s[i].x + move[s[i].id]),
                          mass |-> s[i].mass]
               /\ t[i] \in Bodies /\ t[i].id = s[i].id
   <3>1. s[i] \in Bodies /\ s[i].id \in Int /\ s[i].x \in Int /\ s[i].mass \in Nat
     BY <2>4, BodyType
   <3>2. s[i].id \in DOMAIN truth
     BY <2>4 DEF StoresHold, IsReal
   <3> DEFINE x == Wrap(s[i].x + move[s[i].id])
   <3>3. x \in Int
    <4>1. s[i].x + move[s[i].id] \in Int
      BY <1>4, <3>1, <3>2
    <4> QED  BY <1>3, <4>1
   <3>4. t[i] = [s[i] EXCEPT !.x = x]
     BY <2>3, <2>4
   <3> HIDE DEF x, s
   <3>5. t[i] = [id |-> s[i].id, x |-> x, mass |-> s[i].mass]
     BY <3>1, <3>3, <3>4, RewrittenBody
   <3>6. t[i] \in Bodies /\ t[i].id = s[i].id
     BY <3>1, <3>3, <3>5 DEF Bodies
   <3> QED  BY <3>5, <3>6 DEF x
  <2> HIDE DEF s
  <2>6. \A i \in 1 .. Len(s) : t[i] \in Bodies /\ t[i].id = s[i].id
    BY <2>5
  <2>7. Rewritten(s, t) /\ \A q : q \in ToSet(t) <=> \E i \in 1 .. Len(s) : q = t[i]
    BY <2>1, <2>6, <2>9, RewrittenList
  <2>8. ASSUME NEW q \in ToSet(t)
        PROVE  \E p \in ToSet(s) :
                 q = [id |-> p.id, x |-> Wrap(p.x + move[p.id]), mass |-> p.mass]
   <3>1. PICK i \in 1 .. Len(s) : q = t[i]
     BY <2>7
   <3>2. s[i] \in ToSet(s)
     BY <2>4
   <3> QED  BY <2>5, <3>1, <3>2
  <2> QED  BY <2>7, <2>8 DEF s, t
 <1>6. \A r \in Ranks : /\ held[r] \in Seq(Bodies) /\ Distinct(held[r])
                        /\ uniform[r] \in Nat
   BY <1>2 DEF HasLists
 <1>7. \A r \in Ranks : /\ held'[r] \in Seq(Bodies) /\ Distinct(held'[r])
                        /\ Ids(held'[r]) = Ids(held[r])
   BY <1>5, <1>6, RewrittenKeeps DEF Rewritten
 <1>8. HasLists'
   BY <1>1, <1>6, <1>7 DEF HasLists
 <1>9. HeldOnce'
   BY <1>1, <1>2, <1>7 DEF HeldOnce
 <1>10. ASSUME NEW r \in Ranks, NEW q \in ToSet(held'[r])
        PROVE  IsReal(q, MassAt(r, q))'
  <2>1. PICK p \in ToSet(held[r]) :
           q = [id |-> p.id, x |-> Wrap(p.x + move[p.id]), mass |-> p.mass]
    BY <1>5
  <2>2. q.id = p.id /\ q.x = Wrap(p.x + move[p.id]) /\ q.mass = p.mass
    BY <2>1
  <2>3. IsReal(p, MassAt(r, p)) /\ p.x \in Int
    BY <1>2, SentType DEF StoresHold
  <2> DEFINE i == p.id
  <2>4. i \in DOMAIN truth /\ p.x % Box = truth[i].x % Box
        /\ MassAt(r, p) = truth[i].mass
    BY <2>3 DEF IsReal
  <2>5. /\ truth[i].x \in Int /\ move[i] \in Int
        /\ truth'[i].x = Wrap(truth[i].x + move[i])
        /\ truth'[i].mass = truth[i].mass
    BY <1>4, <2>4
  <2>6. (p.x + move[i]) % Box = (truth[i].x + move[i]) % Box
   <3> DEFINE b == Box
   <3>1. b \in Nat \ {0} /\ p.x % b = truth[i].x % b
     BY <1>3, <2>4
   <3> HIDE DEF b
   <3>2. (p.x + move[i]) % b = (truth[i].x + move[i]) % b
     BY <2>3, <2>5, <3>1, SameOnTheBox
   <3> QED  BY <3>2 DEF b
  <2>7. q.x = truth'[i].x
    BY <2>2, <2>5, <2>6 DEF Wrap
  <2>8. MassAt(r, q)' = truth'[i].mass
    BY <1>1, <2>2, <2>4, <2>5 DEF MassAt
  <2>9. q.id = i /\ i \in DOMAIN truth'
    BY <1>1, <2>2, <2>4
  <2> HIDE DEF i
  <2> QED  BY <1>1, <2>7, <2>8, <2>9 DEF IsReal
 <1>11. \A i \in DOMAIN truth' : truth'[i] \in [x : Int, mass : Nat]
   BY <1>1, <1>4
 <1>12. \A i \in DOMAIN truth' : \E r \in Ranks : i \in Ids(held'[r])
   BY <1>1, <1>7 DEF StoresHold
 <1> QED
   BY <1>1, <1>8, <1>9, <1>10, <1>11, <1>12 DEF StoresHold

-----------------------------------------------------------------------------
(* The start.                                                              *)

LEMMA StoresHoldAtStart == Init => size \in 1 .. NumPlanes /\ StoresHold
 <1> SUFFICES ASSUME Init  PROVE size \in 1 .. NumPlanes /\ StoresHold
   OBVIOUS
 <1>1. PICK start \in Starts :
         /\ size = Cardinality(DOMAIN start)
         /\ held = [r \in Ranks |-> start[r].held]
         /\ uniform = [r \in Ranks |-> start[r].uniform]
         /\ LET all == UNION {{<<r, p>> : p \in ToSet(start[r].held)} : r \in Ranks}
            IN  truth = [i \in {x[2].id : x \in all} |->
                  LET x == CHOOSE x \in all : x[2].id = i
                  IN  [x |-> x[2].x,
                       mass |-> IF start[x[1]].uniform # None
                                  THEN start[x[1]].uniform ELSE x[2].mass]]
   BY DEF Init
 <1> DEFINE all == UNION {{<<r, p>> : p \in ToSet(start[r].held)} : r \in Ranks}
            first(i) == CHOOSE x \in all : x[2].id = i
            value(x) == [x |-> x[2].x,
                         mass |-> IF start[x[1]].uniform # None
                                    THEN start[x[1]].uniform ELSE x[2].mass]
 <1>2. truth = [i \in {x[2].id : x \in all} |-> value(first(i))]
   BY <1>1
 <1>3. PICK n \in 1 .. NumPlanes : DOMAIN start = 0 .. n - 1
   BY SearchAssumption
 <1>4. size = n /\ Ranks = DOMAIN start /\ size \in 1 .. NumPlanes
  <2>1. n \in Nat /\ n >= 1
    BY GeometryAssumption
  <2>2. Cardinality(0 .. n - 1) = n
   <3>1. 0 \in Int /\ n - 1 \in Int /\ ~ (0 > n - 1) /\ (n - 1) - 0 + 1 = n
     BY <2>1
   <3> QED  BY <3>1, FS_Interval
  <2>3. size = n
    BY <1>1, <1>3, <2>2
  <2> QED  BY <1>3, <2>3 DEF Ranks
 <1>5. /\ \A r \in Ranks : /\ held[r] = start[r].held /\ uniform[r] = start[r].uniform
                           /\ held[r] \in Seq(Bodies) /\ uniform[r] \in Nat
                           /\ \A i, j \in DOMAIN held[r] :
                                held[r][i].id = held[r][j].id => i = j
       /\ \A r, s \in Ranks : r # s => Ids(held[r]) \intersect Ids(held[s]) = {}
  <2>1. \A r \in Ranks : held[r] = start[r].held /\ uniform[r] = start[r].uniform
    BY <1>1
  <2>2. /\ \A r \in Ranks :
             /\ start[r].held \in Seq(Bodies) /\ start[r].uniform \in Nat
             /\ \A i, j \in DOMAIN start[r].held :
                   start[r].held[i].id = start[r].held[j].id => i = j
        /\ \A r, s \in Ranks :
             r # s => Ids(start[r].held) \intersect Ids(start[s].held) = {}
    BY <1>4, SearchAssumption
  <2>3. ASSUME NEW r \in Ranks
        PROVE  /\ held[r] = start[r].held /\ uniform[r] = start[r].uniform
               /\ held[r] \in Seq(Bodies) /\ uniform[r] \in Nat
               /\ \A i, j \in DOMAIN held[r] :
                    held[r][i].id = held[r][j].id => i = j
    BY <2>1, <2>2
  <2>4. ASSUME NEW r \in Ranks, NEW s \in Ranks, r # s
        PROVE  Ids(held[r]) \intersect Ids(held[s]) = {}
    BY <2>1, <2>2, <2>4
  <2> QED  BY <2>3, <2>4
 <1>6. HasLists
   BY <1>5, InList DEF HasLists, Distinct
 <1>7. HeldOnce
   BY <1>5 DEF HeldOnce
 <1>8. \A x : x \in all <=> \E r \in Ranks : \E p \in ToSet(held[r]) : x = <<r, p>>
   BY <1>5
 <1> HIDE DEF all, value
 <1>9. ASSUME NEW r \in Ranks, NEW p \in ToSet(held[r])
       PROVE  first(p.id) = <<r, p>> /\ p.id \in DOMAIN truth
  <2> DEFINE f == first(p.id)
  <2>1. <<r, p>> \in all /\ <<r, p>>[2].id = p.id
    BY <1>8
  <2>2. f \in all /\ f[2].id = p.id
    BY <2>1
  <2> HIDE DEF f
  <2>3. PICK s \in Ranks : \E w \in ToSet(held[s]) : f = <<s, w>>
    BY <1>8, <2>2
  <2>4. PICK w \in ToSet(held[s]) : f = <<s, w>>
    BY <2>3
  <2>5. w.id = p.id
    BY <2>2, <2>4
  <2>6. s = r /\ w = p
    BY <1>6, <1>7, <2>5, OneHolder
  <2>7. p.id \in DOMAIN truth
    BY <1>2, <2>1
  <2> QED  BY <2>4, <2>6, <2>7 DEF f
 <1>10. ASSUME NEW r \in Ranks, NEW p \in ToSet(held[r])
        PROVE  /\ truth[p.id].x = p.x /\ truth[p.id].mass = MassAt(r, p)
               /\ truth[p.id] \in [x : Int, mass : Nat]
  <2>1. p.id \in {x[2].id : x \in all}
    BY <1>2, <1>9
  <2>2. truth[p.id] = value(<<r, p>>)
    BY <1>2, <1>9, <2>1
  <2>3. value(<<r, p>>) = [x |-> p.x, mass |-> IF start[r].uniform # None
                                                 THEN start[r].uniform ELSE p.mass]
    BY DEF value
  <2>4. truth[p.id] = [x |-> p.x, mass |-> MassAt(r, p)]
    BY <1>5, <2>2, <2>3 DEF MassAt
  <2>5. p.x \in Int /\ MassAt(r, p) \in Nat
    BY <1>6, SentType
  <2> QED  BY <2>4, <2>5
 <1>11. \A r \in Ranks : \A p \in ToSet(held[r]) : IsReal(p, MassAt(r, p))
   BY <1>9, <1>10 DEF IsReal
 <1>12. ASSUME NEW i \in DOMAIN truth
        PROVE  /\ truth[i] \in [x : Int, mass : Nat]
               /\ \E r \in Ranks : i \in Ids(held[r])
  <2>1. PICK x \in all : i = x[2].id
    BY <1>2
  <2>2. PICK r \in Ranks : \E p \in ToSet(held[r]) : x = <<r, p>>
    BY <1>8
  <2>3. PICK p \in ToSet(held[r]) : x = <<r, p>>
    BY <2>2
  <2>4. i = p.id
    BY <2>1, <2>3
  <2> QED  BY <1>10, <2>4, InIds
 <1>13. StoresHold
   BY <1>6, <1>7, <1>11, <1>12 DEF StoresHold
 <1> QED  BY <1>4, <1>13

-----------------------------------------------------------------------------
(* The invariant.                                                          *)

(* What is said of the stores stays true while nobody touches them.        *)
LEMMA SameGeometry ==
    ASSUME size' = size
    PROVE  /\ Ranks' = Ranks /\ Box' = Box
           /\ \A x : Owner(x)' = Owner(x)
           /\ \A r : SlabStart(r)' = SlabStart(r) /\ SlabEnd(r)' = SlabEnd(r)
           /\ \A s : Candidates(s, Search)' = Candidates(s, Search)
           /\ \A x, d : Visible(x, d, Search)' = Visible(x, d, Search)
           /\ \A x, d : PeriodicDistance(x, d)' = PeriodicDistance(x, d)
 <1>1. Ranks' = Ranks /\ Box' = Box
   BY DEF Ranks, Box
 <1>2. \A r : SlabStart(r)' = SlabStart(r) /\ SlabEnd(r)' = SlabEnd(r)
   BY DEF SlabStart, SlabEnd, SlabCount, Base, Remainder
 <1>3. \A x : Owner(x)' = Owner(x)
   BY <1>1, <1>2 DEF Owner, PlaneOf, Wrap
 <1>4. \A a, b : GapPlanes(a, b)' = GapPlanes(a, b)
   BY <1>2 DEF GapPlanes
 <1>5. \A s : Candidates(s, Search)' = Candidates(s, Search)
   BY <1>1, <1>4 DEF Candidates
 <1>6. \A x, d : Visible(x, d, Search)' = Visible(x, d, Search)
   BY <1>1, <1>2 DEF Visible, NearestImage2, DistanceToSlab2, Low2, High2, Centre2,
                     RoundedQuotient
 <1>7. \A x, d : PeriodicDistance(x, d)' = PeriodicDistance(x, d)
   BY <1>1, <1>2 DEF PeriodicDistance
 <1> QED  BY <1>1, <1>2, <1>3, <1>5, <1>6, <1>7

LEMMA SameStores ==
    ASSUME UNCHANGED <<held, uniform, size>>
    PROVE  /\ AgreedMass' = AgreedMass
           /\ MassesAgree' <=> MassesAgree
           /\ \A r : CanRetain(r)' <=> CanRetain(r)
           /\ AllAscend' <=> AllAscend
           /\ OneMass' <=> OneMass
           /\ Placed' <=> Placed
           /\ \A d : Delivered(d, Ranks)' = Delivered(d, Ranks)
           /\ \A d : Delivered(d, Ranks \ {d})' = Delivered(d, Ranks \ {d})
           /\ \A d : GhostLists(d)' = GhostLists(d)
 <1>1. /\ Ranks' = Ranks /\ Box' = Box
       /\ \A x : Owner(x)' = Owner(x)
       /\ \A s : Candidates(s, Search)' = Candidates(s, Search)
       /\ \A x, d : Visible(x, d, Search)' = Visible(x, d, Search)
   BY SameGeometry
 <1>2. AgreedMass' = AgreedMass
   BY <1>1 DEF AgreedMass, NonEmpty
 <1>3. MassesAgree' <=> MassesAgree
   BY <1>1, <1>2 DEF MassesAgree, NonEmpty
 <1>4. \A r : CanRetain(r)' <=> CanRetain(r)
   BY <1>1, <1>2 DEF CanRetain, NonEmpty
 <1>5. /\ AllAscend' <=> AllAscend
       /\ OneMass' <=> OneMass
       /\ Placed' <=> Placed
   BY <1>1 DEF AllAscend, OneMass, Placed
 <1>6. ASSUME NEW r, NEW d  PROVE Routed(r, d)' = Routed(r, d)
  <2> DEFINE t == InSlab(held[r], d)
  <2>1. t' = t
    BY <1>1 DEF InSlab
  <2>2. Routed(r, d) = SortedById(Copies(r, t)) /\ Routed(r, d)' = SortedById(Copies(r, t)')
    BY DEF Routed
  <2> HIDE DEF t
  <2>3. Copies(r, t)' = Copies(r, t)
    BY <2>1 DEF Copies, MassAt, Wrap
  <2> QED  BY <2>2, <2>3
 <1>7. \A d : Delivered(d, Ranks)' = Delivered(d, Ranks)
              /\ Delivered(d, Ranks \ {d})' = Delivered(d, Ranks \ {d})
   BY <1>1, <1>6 DEF Delivered
 <1>8. ASSUME NEW s, NEW d
       PROVE  GhostsFor(s, d)' = GhostsFor(s, d)
  <2>1. {p \in ToSet(held[s]) : Visible(Wrap(p.x), d, Search)}'
          = {p \in ToSet(held[s]) : Visible(Wrap(p.x), d, Search)}
   <3>1. \A p : Visible(Wrap(p.x), d, Search)' = Visible(Wrap(p.x), d, Search)
     BY <1>1 DEF Wrap
   <3> QED  BY <3>1
  <2> DEFINE S == {p \in ToSet(held[s]) : Visible(Wrap(p.x), d, Search)}
             t == Those(held[s], S)
  <2>2. S' = S
    BY <2>1
  <2>3. GhostsFor(s, d) = IF d \notin Candidates(s, Search) THEN <<>> ELSE Copies(s, t)
    BY DEF GhostsFor
  <2>4. GhostsFor(s, d)' = IF d \notin Candidates(s, Search)' THEN <<>> ELSE Copies(s, t)'
    BY DEF GhostsFor
  <2> HIDE DEF S
  <2>5. t' = t
    BY <2>2
  <2> HIDE DEF t
  <2>6. Copies(s, t)' = Copies(s, t)
    BY <2>5 DEF Copies, MassAt, Wrap
  <2> QED  BY <1>1, <2>3, <2>4, <2>6
 <1>9. \A d : GhostLists(d)' = GhostLists(d)
   BY <1>8 DEF GhostLists
 <1> QED  BY <1>2, <1>3, <1>4, <1>5, <1>7, <1>9

LEMMA SameTruth ==
    ASSUME UNCHANGED <<held, uniform, world>>, StoresHold
    PROVE  StoresHold'
 <1>1. UNCHANGED <<held, uniform, size, truth>> /\ Ranks' = Ranks /\ Box' = Box
   BY DEF world, Ranks, Box
 <1> QED  BY <1>1 DEF StoresHold, HasLists, HeldOnce, IsReal, MassAt

(* Of a stage that asks nothing but whole stores.                          *)
LEMMA AtRest ==
    ASSUME size' \in 1 .. NumPlanes, canonical' => OneMass', StoresHold',
           stage' \in {"idle", "threw"}
    PROVE  PartitionInvariant'
  BY DEF PartitionInvariant, Received, GhostsAreExact, Sparse, Underway

(* The end of every path.                                                  *)
LEMMA AtTheEnd ==
    ASSUME size' \in 1 .. NumPlanes, OneMass', StoresHold', Placed',
           size' > 1 => AllAscend', stage' = "partitioned"
    PROVE  PartitionInvariant'
  BY DEF PartitionInvariant, Received, GhostsAreExact, Sparse, Underway

LEMMA InvariantAtStart == Init => PartitionInvariant
 <1> SUFFICES ASSUME Init  PROVE PartitionInvariant
   OBVIOUS
 <1>1. stage = "idle" /\ canonical = FALSE
   BY DEF Init
 <1> QED
   BY <1>1, StoresHoldAtStart
      DEF PartitionInvariant, Received, GhostsAreExact, Sparse, Underway

LEMMA PreflightKeeps ==
    ASSUME PartitionInvariant, Preflight  PROVE PartitionInvariant'
 <1>1. /\ stage = "idle" /\ size > 1
       /\ UNCHANGED <<held, uniform, size>> /\ UNCHANGED <<held, uniform, world>>
       /\ canonical' = canonical
   BY DEF Preflight, stores, world
 <1>2. /\ size \in 1 .. NumPlanes /\ StoresHold /\ (canonical => OneMass)
   BY <1>1 DEF PartitionInvariant
 <1>3. /\ size' \in 1 .. NumPlanes /\ size' > 1 /\ StoresHold'
       /\ (canonical' => OneMass')
   BY <1>1, <1>2, SameStores, SameTruth
 <1>4. CASE ~ MassesAgree
   BY <1>3, <1>4, AtRest DEF Preflight, Throws
 <1>5. CASE MassesAgree
  <2>1. MassesAgree' /\ stage' = Path
    BY <1>1, <1>5, SameStores DEF Preflight
  <2>2. CASE \A r \in Ranks : CanRetain(r)
   <3>1. stage' = "retain"
     BY <2>1, <2>2 DEF Path
   <3>2. \A r \in Ranks' : CanRetain(r)'
    <4>1. Ranks' = Ranks
      BY <1>1 DEF Ranks
    <4> QED  BY <1>1, <2>2, <4>1, SameStores
   <3> QED
     BY <1>3, <2>1, <3>1, <3>2
        DEF PartitionInvariant, Received, GhostsAreExact, Sparse, Underway
  <2>3. CASE /\ ~ \A r \in Ranks : CanRetain(r)
             /\ canonical /\ \A r \in Ranks : StrictlySorted(held[r])
   <3>1. stage' = "sparse"
     BY <2>1, <2>3 DEF Path
   <3>2. AllAscend
    <4>1. \A r \in Ranks : held[r] \in Seq(Bodies) /\ StrictlySorted(held[r])
      BY <1>2, <2>3 DEF StoresHold, HasLists
    <4> QED  BY <4>1, SortedIsAscending DEF AllAscend
   <3>3. AllAscend' /\ canonical'
     BY <1>1, <2>3, <3>2, SameStores
   <3> QED
     BY <1>3, <2>1, <3>1, <3>3
        DEF PartitionInvariant, Received, GhostsAreExact, Sparse, Underway
  <2>4. CASE /\ ~ \A r \in Ranks : CanRetain(r)
             /\ ~ (canonical /\ \A r \in Ranks : StrictlySorted(held[r]))
   <3>1. stage' = "route all"
     BY <2>1, <2>4 DEF Path
   <3> QED
     BY <1>3, <2>1, <3>1
        DEF PartitionInvariant, Received, GhostsAreExact, Sparse, Underway
  <2> QED  BY <2>2, <2>3, <2>4
 <1> QED  BY <1>4, <1>5

LEMMA AloneKeeps ==
    ASSUME PartitionInvariant, PartitionAlone  PROVE PartitionInvariant'
 <1>1. size = 1 /\ stage = "idle" /\ UNCHANGED world /\ stage' = "partitioned"
       /\ size' = size
   BY DEF PartitionAlone, world
 <1>2. size \in 1 .. NumPlanes /\ StoresHold /\ HasLists
   BY <1>1 DEF PartitionInvariant, StoresHold
 <1>3. Partitioned /\ OneMass'
   BY <1>1, <1>2, AlonePartitions
 <1>4. StoresHold' /\ Placed'
   BY <1>1, <1>2, <1>3, PartitionedKeeps
 <1> QED  BY <1>1, <1>2, <1>3, <1>4, AtTheEnd

LEMMA RetainKeeps ==
    ASSUME PartitionInvariant, Retain  PROVE PartitionInvariant'
 <1>1. stage = "retain" /\ UNCHANGED world /\ stage' = "partitioned" /\ size' = size
   BY DEF Retain, world
 <1>2. /\ size \in 1 .. NumPlanes /\ StoresHold /\ HasLists
       /\ MassesAgree /\ \A r \in Ranks : CanRetain(r)
   BY <1>1 DEF PartitionInvariant, Underway, StoresHold
 <1>3. Partitioned /\ AllAscend' /\ OneMass'
   BY <1>2, RetainPartitions
 <1>4. StoresHold' /\ Placed'
   BY <1>1, <1>2, <1>3, PartitionedKeeps
 <1> QED  BY <1>1, <1>2, <1>3, <1>4, AtTheEnd

LEMMA ReleaseKeeps ==
    ASSUME PartitionInvariant, Release  PROVE PartitionInvariant'
 <1>1. /\ stage = "sparse" /\ stage' = "sparse route"
       /\ UNCHANGED <<held, uniform, size>> /\ UNCHANGED <<held, uniform, world>>
       /\ canonical' = canonical
   BY DEF Release, world
 <1>2. /\ size \in 1 .. NumPlanes /\ StoresHold /\ size > 1 /\ MassesAgree
       /\ canonical /\ AllAscend /\ OneMass
   BY <1>1 DEF PartitionInvariant, Underway, Sparse
 <1>3. /\ size' \in 1 .. NumPlanes /\ StoresHold' /\ size' > 1 /\ MassesAgree'
       /\ canonical' /\ AllAscend' /\ OneMass'
   BY <1>1, <1>2, SameStores, SameTruth
 <1> QED
   BY <1>1, <1>3 DEF PartitionInvariant, Received, GhostsAreExact, Sparse, Underway

LEMMA ExchangeSparseKeeps ==
    ASSUME PartitionInvariant, ExchangeSparse  PROVE PartitionInvariant'
 <1>1. /\ stage = "sparse route" /\ stage' = "sparse merge"
       /\ UNCHANGED <<held, uniform, size>> /\ UNCHANGED <<held, uniform, world>>
       /\ canonical' = canonical /\ Ranks' = Ranks
       /\ \A d \in Ranks : incoming'[d] = SortedById(Delivered(d, Ranks \ {d}))
   BY DEF ExchangeSparse, Exchange, stores, world, Ranks
 <1>2. /\ size \in 1 .. NumPlanes /\ StoresHold /\ size > 1 /\ MassesAgree
       /\ canonical /\ AllAscend /\ OneMass
   BY <1>1 DEF PartitionInvariant, Underway, Sparse
 <1>3. /\ size' \in 1 .. NumPlanes /\ StoresHold' /\ size' > 1 /\ MassesAgree'
       /\ canonical' /\ AllAscend' /\ OneMass'
   BY <1>1, <1>2, SameStores, SameTruth
 <1>4. \A d \in Ranks' : incoming'[d] = SortedById(Delivered(d, Ranks \ {d}))'
  <2>1. \A d : Delivered(d, Ranks \ {d})' = Delivered(d, Ranks \ {d})
    BY <1>1, SameStores
  <2>2. \A d : SortedById(Delivered(d, Ranks \ {d}))'
                 = SortedById(Delivered(d, Ranks \ {d})')
    OBVIOUS
  <2> QED  BY <1>1, <2>1, <2>2
 <1> QED
   BY <1>1, <1>3, <1>4
      DEF PartitionInvariant, Received, GhostsAreExact, Sparse, Underway

LEMMA MergeSparseKeeps ==
    ASSUME PartitionInvariant, MergeSparse  PROVE PartitionInvariant'
 <1>1. /\ stage = "sparse merge" /\ UNCHANGED world /\ stage' = "partitioned"
       /\ size' = size
   BY DEF MergeSparse, world
 <1>2. /\ size \in 1 .. NumPlanes /\ StoresHold /\ HasLists /\ HeldOnce
       /\ MassesAgree /\ AllAscend /\ OneMass
       /\ \A r \in Ranks : incoming[r] = SortedById(Delivered(r, Ranks \ {r}))
   BY <1>1 DEF PartitionInvariant, Received, Underway, Sparse, StoresHold
 <1>3. Partitioned /\ AllAscend' /\ OneMass'
   BY <1>2, SparsePartitions
 <1>4. StoresHold' /\ Placed'
   BY <1>1, <1>2, <1>3, PartitionedKeeps
 <1> QED  BY <1>1, <1>2, <1>3, <1>4, AtTheEnd

LEMMA MergeFailsKeeps ==
    ASSUME PartitionInvariant, NEW broken \in SUBSET Ranks, MergeFails(broken)
    PROVE  PartitionInvariant'
 <1>1. stage' = "broken" /\ size' = size /\ Ranks' = Ranks
       /\ \A r \in Ranks : uniform'[r] = AgreedMass
   BY DEF MergeFails, world, Ranks
 <1>2. OneMass'
   BY <1>1 DEF OneMass
 <1> QED
   BY <1>1, <1>2 DEF PartitionInvariant, Received, GhostsAreExact, Sparse, Underway

LEMMA ExchangeAllKeeps ==
    ASSUME PartitionInvariant, ExchangeAll  PROVE PartitionInvariant'
 <1>1. /\ stage = "route all" /\ stage' = "rebuild"
       /\ UNCHANGED <<held, uniform, size>> /\ UNCHANGED <<held, uniform, world>>
       /\ canonical' = canonical /\ Ranks' = Ranks
       /\ \A d \in Ranks : incoming'[d] = SortedById(Delivered(d, Ranks))
   BY DEF ExchangeAll, Exchange, stores, world, Ranks
 <1>2. /\ size \in 1 .. NumPlanes /\ StoresHold /\ size > 1 /\ MassesAgree
       /\ (canonical => OneMass)
   BY <1>1 DEF PartitionInvariant, Underway, Sparse
 <1>3. /\ size' \in 1 .. NumPlanes /\ StoresHold' /\ size' > 1 /\ MassesAgree'
       /\ (canonical' => OneMass')
   BY <1>1, <1>2, SameStores, SameTruth
 <1>4. \A d \in Ranks' : incoming'[d] = SortedById(Delivered(d, Ranks))'
  <2>1. \A d : Delivered(d, Ranks)' = Delivered(d, Ranks)
    BY <1>1, SameStores
  <2>2. \A d : SortedById(Delivered(d, Ranks))' = SortedById(Delivered(d, Ranks)')
    OBVIOUS
  <2> QED  BY <1>1, <2>1, <2>2
 <1> QED
   BY <1>1, <1>3, <1>4
      DEF PartitionInvariant, Received, GhostsAreExact, Sparse, Underway

LEMMA RebuildKeeps ==
    ASSUME PartitionInvariant, Rebuild  PROVE PartitionInvariant'
 <1>1. /\ stage = "rebuild" /\ UNCHANGED world /\ stage' = "partitioned"
       /\ size' = size
   BY DEF Rebuild, world
 <1>2. /\ size \in 1 .. NumPlanes /\ StoresHold /\ HasLists /\ HeldOnce
       /\ MassesAgree
       /\ \A r \in Ranks : incoming[r] = SortedById(Delivered(r, Ranks))
   BY <1>1 DEF PartitionInvariant, Received, Underway, Sparse, StoresHold
 <1>3. Partitioned /\ AllAscend' /\ OneMass'
   BY <1>2, RebuildPartitions
 <1>4. StoresHold' /\ Placed'
   BY <1>1, <1>2, <1>3, PartitionedKeeps
 <1> QED  BY <1>1, <1>2, <1>3, <1>4, AtTheEnd

LEMMA SkipGhostsKeeps ==
    ASSUME PartitionInvariant, SkipGhosts  PROVE PartitionInvariant'
 <1>1. /\ stage = "partitioned" /\ stage' = "sources" /\ NoGhostsNeeded
       /\ UNCHANGED <<held, uniform, size>> /\ UNCHANGED <<held, uniform, world>>
       /\ canonical' = canonical
   BY DEF SkipGhosts, world
 <1>2. /\ size \in 1 .. NumPlanes /\ StoresHold /\ (canonical => OneMass)
       /\ Placed /\ (size > 1 => AllAscend)
   BY <1>1 DEF PartitionInvariant
 <1>3. /\ size' \in 1 .. NumPlanes /\ StoresHold' /\ (canonical' => OneMass')
       /\ Placed' /\ (size' > 1 => AllAscend')
   BY <1>1, <1>2, SameStores, SameTruth
 <1>4. NoGhostsNeeded'
   BY <1>1 DEF NoGhostsNeeded
 <1> QED
   BY <1>1, <1>3, <1>4
      DEF PartitionInvariant, Received, GhostsAreExact, Sparse, Underway

LEMMA RouteGhostsKeeps ==
    ASSUME PartitionInvariant, RouteGhosts  PROVE PartitionInvariant'
 <1>1. /\ stage = "partitioned" /\ stage' = "ghosts" /\ ~ NoGhostsNeeded
       /\ UNCHANGED <<held, uniform, size>> /\ UNCHANGED <<held, uniform, world>>
       /\ canonical' = canonical /\ Ranks' = Ranks
       /\ \A d \in Ranks : incoming'[d] = SortedById(FlattenSeq(GhostLists(d)))
   BY DEF RouteGhosts, stores, world, Ranks, GhostLists
 <1>2. /\ size \in 1 .. NumPlanes /\ StoresHold /\ (canonical => OneMass)
       /\ Placed /\ (size > 1 => AllAscend)
   BY <1>1 DEF PartitionInvariant
 <1>3. /\ size' \in 1 .. NumPlanes /\ StoresHold' /\ (canonical' => OneMass')
       /\ Placed' /\ (size' > 1 => AllAscend')
   BY <1>1, <1>2, SameStores, SameTruth
 <1>4. ~ NoGhostsNeeded'
   BY <1>1 DEF NoGhostsNeeded
 <1>5. \A d \in Ranks' : incoming'[d] = SortedById(FlattenSeq(GhostLists(d)))'
  <2>1. \A d : GhostLists(d)' = GhostLists(d)
    BY <1>1, SameStores
  <2>2. \A d : SortedById(FlattenSeq(GhostLists(d)))'
                 = SortedById(FlattenSeq(GhostLists(d)'))
    OBVIOUS
  <2> QED  BY <1>1, <2>1, <2>2
 <1>6. stage' = "ghosts" => \A d \in Ranks' :
         incoming'[d] = SortedById(FlattenSeq([k \in 1 .. size |-> GhostsFor(k - 1, d)]))'
   BY <1>5 DEF GhostLists
 <1> QED
   BY <1>1, <1>3, <1>4, <1>6
      DEF PartitionInvariant, Received, GhostsAreExact, Sparse, Underway

LEMMA SameReal ==
    ASSUME UNCHANGED world
    PROVE  \A r, g : GhostsFound(r, g)' <=> GhostsFound(r, g')
 <1>1. truth' = truth /\ size' = size
   BY DEF world
 <1>2. /\ Box' = Box
       /\ \A r : SlabStart(r)' = SlabStart(r) /\ SlabEnd(r)' = SlabEnd(r)
       /\ \A x, d : PeriodicDistance(x, d)' = PeriodicDistance(x, d)
   BY <1>1, SameGeometry
 <1>3. \A r : RealOnes(r)' = RealOnes(r)
   BY <1>1, <1>2 DEF RealOnes
 <1> QED  BY <1>1, <1>2, <1>3 DEF GhostsFound

LEMMA PublishGhostsKeeps ==
    ASSUME PartitionInvariant, PublishGhosts  PROVE PartitionInvariant'
 <1>1. /\ stage = "ghosts"
       /\ UNCHANGED <<held, uniform, size>> /\ UNCHANGED <<held, uniform, world>>
       /\ canonical' = canonical /\ Ranks' = Ranks /\ UNCHANGED world
   BY DEF PublishGhosts, world, Ranks
 <1>2. /\ size \in 1 .. NumPlanes /\ StoresHold /\ (canonical => OneMass)
       /\ Placed /\ (size > 1 => AllAscend)
       /\ \A d \in Ranks : incoming[d] = GhostsOf(d)
   BY <1>1 DEF PartitionInvariant, Received, GhostsOf, GhostLists
 <1>3. /\ size' \in 1 .. NumPlanes /\ StoresHold' /\ (canonical' => OneMass')
       /\ Placed' /\ (size' > 1 => AllAscend')
   BY <1>1, <1>2, SameStores, SameTruth
 <1>4. CASE \A r \in Ranks : AdmitGhosts(r)
  <2>1. stage' = "sources" /\ ghosts' = incoming
    BY <1>4 DEF PublishGhosts
  <2>2. \A r \in Ranks : GhostsFound(r, ghosts[r])'
   <3>1. \A r \in Ranks : GhostsFound(r, incoming[r])
     BY <1>2, GhostsAreFound
   <3> QED  BY <1>1, <2>1, <3>1, SameReal
  <2>3. GhostsAreExact'
    BY <1>1, <2>2 DEF GhostsAreExact, GhostsFound
  <2> QED
    BY <1>3, <2>1, <2>3 DEF PartitionInvariant, Received, Sparse, Underway
 <1>5. CASE ~ \A r \in Ranks : AdmitGhosts(r)
  <2>1. stage' = "threw"
    BY <1>5 DEF PublishGhosts, Throws
  <2> QED  BY <1>3, <2>1, AtRest
 <1> QED  BY <1>4, <1>5

LEMMA PublishGhostsFailsKeeps ==
    ASSUME PartitionInvariant, NEW appended \in [Ranks -> 0 .. 1],
           PublishGhostsFails(appended)
    PROVE  PartitionInvariant'
 <1>1. /\ stage = "ghosts" /\ stage' = "threw"
       /\ UNCHANGED <<held, uniform, size>> /\ UNCHANGED <<held, uniform, world>>
       /\ canonical' = canonical
   BY DEF PublishGhostsFails, Throws, world
 <1>2. size \in 1 .. NumPlanes /\ StoresHold /\ (canonical => OneMass)
   BY <1>1 DEF PartitionInvariant
 <1>3. size' \in 1 .. NumPlanes /\ StoresHold' /\ (canonical' => OneMass')
   BY <1>1, <1>2, SameStores, SameTruth
 <1> QED  BY <1>1, <1>3, AtRest

LEMMA StageFailsKeeps ==
    ASSUME PartitionInvariant, StageFails  PROVE PartitionInvariant'
 <1>1. /\ stage # "broken" /\ stage' = "threw"
       /\ UNCHANGED <<held, uniform, size>> /\ UNCHANGED <<held, uniform, world>>
       /\ canonical' = canonical
   BY DEF StageFails, Throws, stores, world
 <1>2. size \in 1 .. NumPlanes /\ StoresHold /\ (canonical => OneMass)
   BY <1>1 DEF PartitionInvariant
 <1>3. size' \in 1 .. NumPlanes /\ StoresHold' /\ (canonical' => OneMass')
   BY <1>1, <1>2, SameStores, SameTruth
 <1> QED  BY <1>1, <1>3, AtRest

LEMMA EvaluateForceKeeps ==
    ASSUME PartitionInvariant, EvaluateForce  PROVE PartitionInvariant'
 <1>1. /\ stage = "sources" /\ stage' = "idle"
       /\ UNCHANGED <<held, uniform, size>> /\ UNCHANGED <<held, uniform, world>>
       /\ canonical' = canonical
   BY DEF EvaluateForce, world
 <1>2. size \in 1 .. NumPlanes /\ StoresHold /\ (canonical => OneMass)
   BY <1>1 DEF PartitionInvariant
 <1>3. size' \in 1 .. NumPlanes /\ StoresHold' /\ (canonical' => OneMass')
   BY <1>1, <1>2, SameStores, SameTruth
 <1> QED  BY <1>1, <1>3, AtRest

LEMMA DriftKeeps ==
    ASSUME PartitionInvariant, NEW move \in [DOMAIN truth -> Moves], Drift(move)
    PROVE  PartitionInvariant'
 <1>1. /\ stage = "idle" /\ stage' = "idle"
       /\ size' = size /\ uniform' = uniform /\ canonical' = canonical
   BY DEF Drift
 <1>2. size \in 1 .. NumPlanes /\ StoresHold /\ (canonical => OneMass)
   BY <1>1 DEF PartitionInvariant
 <1>3. StoresHold'
   BY <1>2, DriftKeepsStores
 <1>4. canonical' => OneMass'
   BY <1>1, <1>2 DEF OneMass, Ranks
 <1> QED  BY <1>1, <1>2, <1>3, <1>4, AtRest

LEMMA StutterKeeps ==
    ASSUME PartitionInvariant, UNCHANGED vars  PROVE PartitionInvariant'
 <1>1. /\ UNCHANGED <<held, uniform, size>> /\ UNCHANGED <<held, uniform, world>>
       /\ UNCHANGED <<canonical, stage, incoming, ghosts>> /\ UNCHANGED world
       /\ Ranks' = Ranks
   BY DEF vars, stores, world, Ranks
 <1>2. Received'
  <2>1. /\ \A d : SortedById(Delivered(d, Ranks \ {d}))'
                    = SortedById(Delivered(d, Ranks \ {d}))
        /\ \A d : SortedById(Delivered(d, Ranks))' = SortedById(Delivered(d, Ranks))
        /\ \A d : SortedById(FlattenSeq(GhostLists(d)))'
                    = SortedById(FlattenSeq(GhostLists(d)))
   <3>1. /\ \A d : SortedById(Delivered(d, Ranks \ {d}))'
                     = SortedById(Delivered(d, Ranks \ {d})')
         /\ \A d : SortedById(Delivered(d, Ranks))' = SortedById(Delivered(d, Ranks)')
         /\ \A d : SortedById(FlattenSeq(GhostLists(d)))'
                     = SortedById(FlattenSeq(GhostLists(d)'))
     OBVIOUS
   <3>2. /\ \A d : Delivered(d, Ranks)' = Delivered(d, Ranks)
         /\ \A d : Delivered(d, Ranks \ {d})' = Delivered(d, Ranks \ {d})
         /\ \A d : GhostLists(d)' = GhostLists(d)
     BY <1>1, SameStores
   <3> QED  BY <3>1, <3>2
  <2>2. /\ stage = "sparse merge" =>
             \A d \in Ranks : incoming[d] = SortedById(Delivered(d, Ranks \ {d}))
        /\ stage = "rebuild" =>
             \A d \in Ranks : incoming[d] = SortedById(Delivered(d, Ranks))
        /\ stage = "ghosts" =>
             \A d \in Ranks : incoming[d] = SortedById(FlattenSeq(GhostLists(d)))
    BY DEF PartitionInvariant, Received, GhostLists
  <2>3. /\ stage' = "sparse merge" =>
             \A d \in Ranks' : incoming'[d] = SortedById(Delivered(d, Ranks \ {d}))'
        /\ stage' = "rebuild" =>
             \A d \in Ranks' : incoming'[d] = SortedById(Delivered(d, Ranks))'
        /\ stage' = "ghosts" =>
             \A d \in Ranks' : incoming'[d] = SortedById(FlattenSeq(GhostLists(d)))'
    BY <1>1, <2>1, <2>2
  <2> QED  BY <2>3 DEF Received, GhostLists
 <1>3. GhostsAreExact'
  <2>1. (stage = "sources" /\ ~ NoGhostsNeeded) =>
           \A r \in Ranks : GhostsFound(r, ghosts[r])
    BY DEF PartitionInvariant, GhostsAreExact, GhostsFound
  <2>2. NoGhostsNeeded' <=> NoGhostsNeeded
    BY <1>1 DEF NoGhostsNeeded
  <2>3. (stage' = "sources" /\ ~ NoGhostsNeeded') =>
           \A r \in Ranks' : GhostsFound(r, ghosts[r])'
    BY <1>1, <2>1, <2>2, SameReal
  <2> QED  BY <2>3 DEF GhostsAreExact, GhostsFound
 <1>4. /\ AllAscend' <=> AllAscend
       /\ OneMass' <=> OneMass
       /\ Placed' <=> Placed
       /\ MassesAgree' <=> MassesAgree
       /\ \A r : CanRetain(r)' <=> CanRetain(r)
       /\ NoGhostsNeeded' <=> NoGhostsNeeded
   BY <1>1, SameStores DEF NoGhostsNeeded
 <1>5. stage' # "broken" => StoresHold'
   BY <1>1, SameTruth DEF PartitionInvariant
 <1> QED
   BY <1>1, <1>2, <1>3, <1>4, <1>5 DEF PartitionInvariant, Sparse, Underway

LEMMA InvariantStays == PartitionInvariant /\ [Next]_vars => PartitionInvariant'
 <1> SUFFICES ASSUME PartitionInvariant, [Next]_vars
              PROVE  PartitionInvariant'
   OBVIOUS
 <1>1. CASE Preflight
   BY <1>1, PreflightKeeps
 <1>2. CASE PartitionAlone
   BY <1>2, AloneKeeps
 <1>3. CASE Retain
   BY <1>3, RetainKeeps
 <1>4. CASE Release
   BY <1>4, ReleaseKeeps
 <1>5. CASE ExchangeSparse
   BY <1>5, ExchangeSparseKeeps
 <1>6. CASE MergeSparse
   BY <1>6, MergeSparseKeeps
 <1>7. ASSUME NEW broken \in SUBSET Ranks, MergeFails(broken)
       PROVE  PartitionInvariant'
   BY <1>7, MergeFailsKeeps
 <1>8. CASE ExchangeAll
   BY <1>8, ExchangeAllKeeps
 <1>9. CASE Rebuild
   BY <1>9, RebuildKeeps
 <1>10. CASE SkipGhosts
   BY <1>10, SkipGhostsKeeps
 <1>11. CASE RouteGhosts
   BY <1>11, RouteGhostsKeeps
 <1>12. CASE PublishGhosts
   BY <1>12, PublishGhostsKeeps
 <1>13. ASSUME NEW appended \in [Ranks -> 0 .. 1], PublishGhostsFails(appended)
        PROVE  PartitionInvariant'
   BY <1>13, PublishGhostsFailsKeeps
 <1>14. CASE StageFails
   BY <1>14, StageFailsKeeps
 <1>15. CASE EvaluateForce
   BY <1>15, EvaluateForceKeeps
 <1>16. ASSUME NEW move \in [DOMAIN truth -> Moves], Drift(move)
        PROVE  PartitionInvariant'
   BY <1>16, DriftKeeps
 <1>17. CASE UNCHANGED vars
   BY <1>17, StutterKeeps
 <1> QED
   BY <1>1, <1>2, <1>3, <1>4, <1>5, <1>6, <1>7, <1>8, <1>9, <1>10, <1>11,
      <1>12, <1>13, <1>14, <1>15, <1>16, <1>17 DEF Next, Stopped

(* While a partition moves particles, and after it has, the stores hold    *)
(* every particle once with what it really is, and the exchange brings     *)
(* exactly what the stores say it must.                                    *)
THEOREM PartitionHolds == Spec => []PartitionInvariant
  BY InvariantAtStart, InvariantStays, PTL DEF Spec

(* Whatever path partition_domain takes, in whatever order and with        *)
(* whatever masses the run began, each rank has exactly the particles of   *)
(* its slab, in order, where they are, with their mass; and nothing        *)
(* derived from the old owners is called valid.                            *)
THEOREM PartitionsAreCanonical == Spec => []PartitionIsCanonical
 <1>1. PartitionInvariant /\ DerivedStateRetired => PartitionIsCanonical
  <2> SUFFICES ASSUME PartitionInvariant, DerivedStateRetired
               PROVE  PartitionIsCanonical
    OBVIOUS
  <2>1. ASSUME stage \in {"partitioned", "ghosts", "sources"}, NEW r \in Ranks
        PROVE  HoldsTheRealOnes(r)
   <3>1. /\ size \in 1 .. NumPlanes /\ StoresHold /\ Placed
         /\ (size > 1 => AllAscend)
     BY <2>1 DEF PartitionInvariant
   <3> QED  BY <3>1, PlacedIsCanonical
  <2>2. stage = "partitioned" /\ size > 1 => Retired
   <3>1. size \in Int
     BY DEF PartitionInvariant
   <3> QED  BY <3>1 DEF DerivedStateRetired
  <2> QED  BY <2>1, <2>2 DEF PartitionIsCanonical, Retired
 <1> QED  BY <1>1, PartitionHolds, DerivedRetires, PTL

(* When a force is computed after an exchange of ghosts, each rank has a   *)
(* copy of exactly the particles of others within the search radius of     *)
(* its slab, the shorter way around the box, once and where they are.      *)
THEOREM GhostsAreAsSearched == Spec => []GhostsAreExact
 <1>1. PartitionInvariant => GhostsAreExact
   BY DEF PartitionInvariant
 <1> QED  BY <1>1, PartitionHolds, PTL

(* Between two partitions, during one, and after one that failed outside   *)
(* the merge in place, the ranks together hold each particle, once, where  *)
(* it is and with its mass.                                                *)
THEOREM NothingIsLost == Spec => []NothingLostOnTheWay
 <1>1. PartitionInvariant => NothingLostOnTheWay
  <2> SUFFICES ASSUME PartitionInvariant,
                      stage \notin {"partitioned", "ghosts", "sources", "broken"}
               PROVE  /\ \A i \in DOMAIN truth : \E r \in Ranks : \E p \in ToSet(held[r]) :
                             /\ p.id = i
                             /\ p.x % Box = truth[i].x % Box
                             /\ MassAt(r, p) = truth[i].mass
                      /\ \A r, s \in Ranks :
                             r # s => Ids(held[r]) \intersect Ids(held[s]) = {}
    BY DEF NothingLostOnTheWay
  <2>1. StoresHold
    BY DEF PartitionInvariant
  <2>2. ASSUME NEW i \in DOMAIN truth
        PROVE  \E r \in Ranks : \E p \in ToSet(held[r]) :
                  /\ p.id = i
                  /\ p.x % Box = truth[i].x % Box
                  /\ MassAt(r, p) = truth[i].mass
   <3>1. PICK r \in Ranks : i \in Ids(held[r])
     BY <2>1 DEF StoresHold
   <3>2. PICK p \in ToSet(held[r]) : p.id = i
     BY <3>1, InIds
   <3>3. IsReal(p, MassAt(r, p))
     BY <2>1 DEF StoresHold
   <3> QED  BY <3>2, <3>3 DEF IsReal
  <2> QED  BY <2>1, <2>2 DEF StoresHold, HeldOnce
 <1> QED  BY <1>1, PartitionHolds, PTL
=============================================================================
