----------------------------- MODULE SlabGeometry -----------------------------
(***************************************************************************)
(* How the box is cut into slabs and which rank is concerned by a          *)
(* particle.  Only x matters.  Lengths are integers: a mesh plane is Cell  *)
(* wide, the box is NumPlanes planes, a particle is at one of its points,  *)
(* and slab r is the planes from SlabStart(r) up to SlabEnd(r).            *)
(* A definition marked "fault" is a plausible mistake in the next one.     *)
(***************************************************************************)
EXTENDS Integers, FiniteSetsExt

CONSTANTS NumPlanes, Cell

ASSUME GeometryAssumption == /\ NumPlanes \in Nat \ {0}
                             /\ Cell \in Nat \ {0}

VARIABLE size   \* MPI_Comm_size: at most NumPlanes, and it never changes

Ranks == 0 .. size - 1
Planes == 0 .. NumPlanes - 1
Box == NumPlanes * Cell

Wrap(x) == x % Box

-----------------------------------------------------------------------------
(* deterministic_fallback_layout: the first planes that do not divide      *)
(* evenly go to the first ranks, one each.                                 *)
Base == NumPlanes \div size
Remainder == NumPlanes % size

SlabCount(r) == Base + (IF r < Remainder THEN 1 ELSE 0)
SlabStart(r) == r * Base + (IF r < Remainder THEN r ELSE Remainder)
SlabEnd(r) == SlabStart(r) + SlabCount(r)

(* owner_rank: the first slab that ends after the plane of x.              *)
PlaneOf(x) == Wrap(x) \div Cell
Owner(x) == Min({r \in Ranks : SlabEnd(r) > PlaneOf(x)})

-----------------------------------------------------------------------------
(* Which slabs can see each other's particles: the planes between them,    *)
(* the shorter way around the box.                                         *)
DirectGap(a, b) ==                                               \* fault
    IF SlabEnd(a) <= SlabStart(b) THEN SlabStart(b) - SlabEnd(a)
    ELSE IF SlabEnd(b) <= SlabStart(a) THEN SlabStart(a) - SlabEnd(b)
    ELSE 0

GapPlanes(a, b) ==
    IF SlabEnd(a) <= SlabStart(b)
      THEN Min({SlabStart(b) - SlabEnd(a),
                NumPlanes - (SlabEnd(b) - SlabStart(a))})
    ELSE IF SlabEnd(b) <= SlabStart(a)
      THEN Min({SlabStart(a) - SlabEnd(b),
                NumPlanes - (SlabEnd(a) - SlabStart(b))})
    ELSE 0

Candidates(r, search) ==
    {d \in Ranks \ {r} : Box * GapPlanes(r, d) <= search * NumPlanes}

(* The image of x nearest to the centre of slab d, and its distance to the *)
(* slab; both in half units, the centre being a sum of two ends over two.  *)
Low2(d) == 2 * SlabStart(d) * Cell
High2(d) == 2 * SlabEnd(d) * Cell
Centre2(d) == (SlabStart(d) + SlabEnd(d)) * Cell

(* std::round of y / n for a positive n: halves away from zero.            *)
RoundedQuotient(y, n) == IF y >= 0 THEN (2 * y + n) \div (2 * n)
                                   ELSE - ((n - 2 * y) \div (2 * n))

NearestImage2(x, d) ==
    LET delta == 2 * x - Centre2(d)
    IN  Centre2(d) + delta - RoundedQuotient(delta, 2 * Box) * 2 * Box

DistanceToSlab2(x2, d) == IF x2 < Low2(d) THEN Low2(d) - x2
                          ELSE IF x2 > High2(d) THEN x2 - High2(d)
                          ELSE 0

Visible(x, d, search) == DistanceToSlab2(NearestImage2(x, d), d) <= 2 * search
=============================================================================
