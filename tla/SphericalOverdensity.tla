------------------------ MODULE SphericalOverdensity ------------------------
(***************************************************************************)
(* SphericalOverdensityFinder and StandardSOEvaluator: the first radius at *)
(* which the mean density about a centre falls to a threshold.  The        *)
(* particles about the centre are queried out to a radius that grows until *)
(* the crossing is certain or half the box is reached.                     *)
(*                                                                         *)
(* The radius at which mass m has the threshold density goes as the cube   *)
(* root of m: its cube is volume * m, volume being that of a unit mass at  *)
(* the threshold.  Distances are kept squared, and the two are compared    *)
(* exactly.  Query radii are in c-ths of a unit, as in NeighborIndex.      *)
(*                                                                         *)
(* A particle is [at, mass]; a definition marked "fault" is a plausible    *)
(* mistake in the one that follows.                                        *)
(***************************************************************************)
EXTENDS NeighborIndex

SixthPower(n) == Square(n) * Square(n) * Square(n)

(* A squared distance lies inside the crossing radius of a mass.           *)
InsideCrossing(d2, volume, mass) == d2 * d2 * d2 <= Square(volume * mass)

(* The crossing radius of a mass is at most radius / c.                    *)
CrossingWithin(volume, mass, radius, c) ==
    volume * mass * c * c * c <= radius * radius * radius

MassWithin(store, numbers) ==
    MapThenSumSet(LAMBDA i : store[i].mass, numbers)

(* One pass outwards over the shells of equal distance of what a query     *)
(* found: the last shell above the threshold, and whether one below it, or *)
(* a gap the crossing falls into, was seen.                                *)
ParticleByParticle(store, found, centre, L, volume) ==           \* fault
    LET d2(i) == Distance2(centre, store[i].at, L)
        inner(i) == {j \in found : d2(j) < d2(i) \/ (d2(j) = d2(i) /\ j <= i)}
        below == {i \in found :
                    ~ InsideCrossing(d2(i), volume, MassWithin(store, inner(i)))}
        above == {i \in found : \A j \in below : d2(i) < d2(j)}
    IN  [above |-> above, below |-> below # {}]
OutwardScan(store, found, centre, L, volume) ==
    LET d2(i) == Distance2(centre, store[i].at, L)
        inner(s) == {j \in found : d2(j) <= s}
        shells == {d2(i) : i \in found}
        holds(s) == InsideCrossing(s, volume, MassWithin(store, inner(s)))
        gap(s) == \E t \in shells :
                    /\ t > s /\ \A u \in shells : u > s => u >= t
                    /\ ~ InsideCrossing(t, volume, MassWithin(store, inner(s)))
        ends == {s \in shells : ~ holds(s) \/ gap(s)}
        last == {s \in shells : holds(s) /\ \A e \in ends : s <= e}
    IN  [above |-> UNION {inner(s) : s \in last}, below |-> ends # {}]

(* The next query radius.                                                  *)
Expanded(radius, L, c) == Min({(c * L) \div 2, Max({2 * radius, radius + L})})

(* The loop over query radii for one centre: the particles inside the      *)
(* crossing, or none when it is not inside half the box.                   *)
RECURSIVE Crossing(_, _, _, _, _)
Crossing(store, index, centre, volume, radius) ==
    LET L == index.side
        c == index.cells
        end == (c * L) \div 2
        places == [i \in DOMAIN store |-> store[i].at]
        found == ToSet(CollectWithin(index, places, centre, radius))
        scan == OutwardScan(store, found, centre, L, volume)
        mass == MassWithin(store, scan.above)
        resolved == scan.below \/ CrossingWithin(volume, mass, radius, c)
        again == Crossing(store, index, centre, volume, Expanded(radius, L, c))
    IN  IF found = {} THEN IF radius >= end THEN {} ELSE again
        ELSE IF scan.above = {} THEN {}
        ELSE IF ~ resolved THEN IF radius >= end THEN {} ELSE again
        ELSE IF CrossingWithin(volume, mass, end, c) THEN scan.above ELSE {}

(* find_halos, once the index is built: a record for each centre whose     *)
(* crossing was found, the number of the centre being its identity.        *)
SoIndex(store, L) ==
    Index([i \in DOMAIN store |-> store[i].at], Len(store[1].at), L, 2 * Len(store))

FindHalos(store, index, centres, volume) ==
    LET L == index.side
        inside(n) == Crossing(store, index, WrapPosition(centres[n], L), volume,
                              Min({(index.cells * L) \div 2, L}))
        halo(n, S) == [id |-> n, count |-> Cardinality(S), mass |-> MassWithin(store, S)]
    IN  UNION {{halo(n, S) : S \in {inside(n)} \ {{}}} : n \in DOMAIN centres}

(* StandardSOEvaluator::evaluate: every seed under every definition, zero  *)
(* where there was no crossing.                                            *)
Evaluate(store, index, seeds, volumes) ==
    LET centres == [n \in DOMAIN seeds |-> seeds[n].centre]
        row(halos) == [n \in DOMAIN seeds |->
                         IF \E h \in halos : h.id = n
                           THEN CHOOSE h \in halos : h.id = n
                           ELSE [id |-> n, count |-> 0, mass |-> 0]]
    IN  IF \E m, n \in DOMAIN seeds : m # n /\ seeds[m].seed = seeds[n].seed
          THEN Refused
          ELSE Found([v \in volumes |-> row(FindHalos(store, index, centres, v))])
=============================================================================
