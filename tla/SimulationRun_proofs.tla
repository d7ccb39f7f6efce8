-------------------------- MODULE SimulationRun_proofs --------------------------
(***************************************************************************)
(* The schedule, the stepper and the run, for every configuration, and the *)
(* snapshots a run on several ranks writes, for every number of them.      *)
(*                                                                         *)
(* The table: one segment first, which ends exactly on its stop, whose     *)
(* steps are never longer than the cadence by two places or more, and      *)
(* which fits into the storage planned for it; then the loop over the      *)
(* stops, by induction over them.  The stepper stands on that table.       *)
(*                                                                         *)
(* The run: its inductive invariant relates the particles to the step in   *)
(* which they are (also in the middle of it, and in every checkpoint), a   *)
(* valid force to the particles, and the outputs on disk to those that     *)
(* are still to come, of the current launch and of all its ancestors.      *)
(*                                                                         *)
(* The snapshot: sums over ranks first, from which the intervals of the    *)
(* ranks adjoin in the file; then the protocol.  Its inductive invariant   *)
(* says why rank 0 has published when anybody returns: exceptions wait for *)
(* the reduction of their stage, and only the last stage publishes.        *)
(*                                                                         *)
(* The ring that looks for identities with two owners: one pass over an    *)
(* ascending list first, then the invariant of the messages under way:     *)
(* between two partners they are those sent and not yet fetched, in order, *)
(* and what a rank has found is what the lists it has heard so far hold.   *)
(***************************************************************************)
EXTENDS SimulationRun, TimeStepper, DistributedSnapshot, SequenceTheorems,
        FiniteSetTheorems, WellFoundedInduction, TLAPS

(* Cadences of a schedule, in representable places.                        *)
Cadences == [num : Nat \ {0}, den : Nat \ {0}]

-----------------------------------------------------------------------------
(* Arithmetic.                                                             *)

(* The quotient of a rounding division brackets its dividend.              *)
LEMMA Quotient ==
    ASSUME NEW x \in Int, NEW y \in Nat \ {0}
    PROVE  /\ x \div y \in Int
           /\ y * (x \div y) <= x
           /\ x < y * (x \div y) + y
  OBVIOUS

(* A product of positive numbers is positive.                              *)
LEMMA ProductPositive ==
    ASSUME NEW x \in Nat \ {0}, NEW y \in Nat \ {0}
    PROVE  x * y \in Nat \ {0}
  OBVIOUS

(* Multiplying by a positive number keeps the order.                       *)
LEMMA Scaled ==
    ASSUME NEW x \in Int, NEW y \in Int, NEW z \in Nat \ {0}
    PROVE  (x <= y) <=> (z * x <= z * y)
  OBVIOUS

(* A set of naturals that is not empty has the least element Min names.    *)
LEMMA MinIsLeast ==
    ASSUME NEW S \in SUBSET Nat, S # {}
    PROVE  Min(S) \in S /\ \A y \in S : Min(S) <= y
 <1>1. PICK x \in S : \A y \in S : ~ (<<y, x>> \in OpToRel(<, Nat))
   BY NatLessThanWellFounded, WFMin
 <1>2. ASSUME NEW y \in S  PROVE x <= y
  <2>1. <<y, x>> \notin {ss \in Nat \X Nat : ss[1] < ss[2]}
    BY <1>1 DEF OpToRel
  <2> QED  BY <2>1
 <1> QED  BY <1>1, <1>2 DEF Min

-----------------------------------------------------------------------------
(* Cadence boundaries.                                                     *)

LEMMA AdvanceType ==
    ASSUME NEW anchor \in Int, NEW k \in Nat, NEW cadence \in Cadences
    PROVE  /\ Advance(anchor, k, cadence) \in Int
           /\ cadence.num * k \in Nat
           /\ (2 * cadence.den) * (Advance(anchor, k, cadence) - anchor)
                <= 2 * (cadence.num * k) + cadence.den
           /\ 2 * (cadence.num * k) + cadence.den
                < (2 * cadence.den) * (Advance(anchor, k, cadence) - anchor)
                  + 2 * cadence.den
 <1>1. cadence.num \in Nat \ {0} /\ cadence.den \in Nat \ {0}
   BY DEF Cadences
 <1>2. k * cadence.num \in Nat /\ k * cadence.num = cadence.num * k
   BY <1>1
 <1> DEFINE x == 2 * (k * cadence.num) + cadence.den
            y == 2 * cadence.den
 <1>3. x \in Int /\ y \in Nat \ {0}
   BY <1>1, <1>2
 <1>4. 2 * k * cadence.num + cadence.den = x
   BY <1>1, <1>2
 <1>5. Advance(anchor, k, cadence) = anchor + x \div y
   BY <1>4 DEF Advance
 <1> HIDE DEF x, y
 <1>6. x \div y \in Int /\ y * (x \div y) <= x /\ x < y * (x \div y) + y
   BY <1>3, Quotient
 <1>7. Advance(anchor, k, cadence) \in Int
       /\ Advance(anchor, k, cadence) - anchor = x \div y
   BY <1>5, <1>6
 <1> QED  BY <1>1, <1>2, <1>6, <1>7 DEF x, y

(* No boundary is before its anchor, and the first candidate is the anchor. *)
LEMMA AdvanceStarts ==
    ASSUME NEW anchor \in Int, NEW cadence \in Cadences
    PROVE  Advance(anchor, 0, cadence) = anchor
 <1> DEFINE n == cadence.num
            d == cadence.den
            z == Advance(anchor, 0, cadence) - anchor
 <1>1. n \in Nat \ {0} /\ d \in Nat \ {0}
   BY DEF Cadences
 <1>2. n * 0 = 0
   BY <1>1
 <1>3. /\ Advance(anchor, 0, cadence) \in Int
       /\ (2 * d) * z <= 2 * (n * 0) + d
       /\ 2 * (n * 0) + d < (2 * d) * z + 2 * d
  <2>1. 0 \in Nat
    OBVIOUS
  <2> QED  BY <2>1, AdvanceType
 <1>4. z \in Int /\ Advance(anchor, 0, cadence) = anchor + z
   BY <1>3
 <1> HIDE DEF n, d, z
 <1>5. (2 * d) * z <= d /\ d < (2 * d) * z + 2 * d
   BY <1>1, <1>2, <1>3
 <1>6. z < 1
   BY <1>1, <1>4, <1>5
 <1>7. z > -1
   BY <1>1, <1>4, <1>5
 <1>8. z = 0
   BY <1>4, <1>6, <1>7
 <1> QED  BY <1>4, <1>8

(* From one boundary to the next it is the cadence, but for the rounding.  *)
LEMMA AdvanceSteps ==
    ASSUME NEW anchor \in Int, NEW k \in Nat, NEW cadence \in Cadences
    PROVE  LET d == cadence.den
               far == Advance(anchor, k + 1, cadence) - Advance(anchor, k, cadence)
           IN  /\ far \in Int
               /\ (2 * d) * far < 2 * cadence.num + 2 * d
               /\ (2 * d) * far > 2 * cadence.num - 2 * d
               /\ d * far < cadence.num + d
 <1> DEFINE n == cadence.num
            d == cadence.den
            p == Advance(anchor, k, cadence) - anchor
            q == Advance(anchor, k + 1, cadence) - anchor
            w == n * k
 <1>1. n \in Nat \ {0} /\ d \in Nat \ {0}
   BY DEF Cadences
 <1>2. /\ p \in Int /\ w \in Nat
       /\ (2 * d) * p <= 2 * w + d
       /\ 2 * w + d < (2 * d) * p + 2 * d
   BY AdvanceType
 <1>3. /\ q \in Int
       /\ (2 * d) * q <= 2 * (n * (k + 1)) + d
       /\ 2 * (n * (k + 1)) + d < (2 * d) * q + 2 * d
   BY AdvanceType
 <1>4. n * (k + 1) = w + n
  <2> HIDE DEF n
  <2> QED  BY <1>1
 <1>5. Advance(anchor, k + 1, cadence) - Advance(anchor, k, cadence) = q - p
  <2>1. Advance(anchor, k, cadence) \in Int
        /\ Advance(anchor, k + 1, cadence) \in Int
    BY AdvanceType
  <2> QED  BY <2>1
 <1> HIDE DEF n, d, p, q, w
 <1>6. (2 * d) * q <= 2 * w + 2 * n + d
       /\ 2 * w + 2 * n + d < (2 * d) * q + 2 * d
   BY <1>1, <1>2, <1>3, <1>4
 <1>7. (2 * d) * (q - p) = (2 * d) * q - (2 * d) * p
   BY <1>1, <1>2, <1>3
 <1>8. (2 * d) * (q - p) < 2 * n + 2 * d
        /\ (2 * d) * (q - p) > 2 * n - 2 * d
   BY <1>1, <1>2, <1>3, <1>6, <1>7
 <1>9. d * (q - p) < n + d
   BY <1>1, <1>2, <1>3, <1>8
 <1> QED  BY <1>2, <1>3, <1>5, <1>8, <1>9 DEF n, d

(* A cadence of two places or more moves every boundary two places on.     *)
LEMMA AdvanceMoves ==
    ASSUME NEW anchor \in Int, NEW k \in Nat, NEW cadence \in Cadences,
           2 * cadence.den <= cadence.num
    PROVE  HasMidpoint(Advance(anchor, k, cadence),
                       Advance(anchor, k + 1, cadence))
 <1> DEFINE n == cadence.num
            d == cadence.den
            far == Advance(anchor, k + 1, cadence) - Advance(anchor, k, cadence)
 <1>1. n \in Nat \ {0} /\ d \in Nat \ {0} /\ 2 * d <= n
   BY DEF Cadences
 <1>2. far \in Int /\ (2 * d) * far > 2 * n - 2 * d
   BY AdvanceSteps
 <1> HIDE DEF n, d, far
 <1>3. (2 * d) * far > 2 * d
   BY <1>1, <1>2
 <1>4. far >= 2
   BY <1>1, <1>2, <1>3
 <1> QED  BY <1>4 DEF HasMidpoint, far

-----------------------------------------------------------------------------
(* The segment.                                                            *)

LEMMA CeilingType ==
    ASSUME NEW anchor \in Int, NEW stop \in Int, anchor < stop,
           NEW cadence \in Cadences
    PROVE  /\ StepCeiling(anchor, stop, cadence) \in Nat \ {0}
           /\ (stop - anchor) * cadence.den
                < cadence.num * StepCeiling(anchor, stop, cadence)
 <1> DEFINE x == (stop - anchor) * cadence.den
            y == cadence.num
 <1>1. cadence.den \in Nat \ {0} /\ stop - anchor \in Nat \ {0}
       /\ y \in Nat \ {0}
   BY DEF Cadences
 <1>2. x \in Nat \ {0}
   BY <1>1, ProductPositive
 <1>3. StepCeiling(anchor, stop, cadence) = x \div y + 1
   BY DEF StepCeiling
 <1> HIDE DEF x, y
 <1>4. x \div y \in Int /\ y * (x \div y) <= x /\ x < y * (x \div y) + y
   BY <1>1, <1>2, Quotient
 <1>5. x \div y >= 0
   BY <1>1, <1>2, <1>4
 <1>6. y * (x \div y + 1) = y * (x \div y) + y
   BY <1>1, <1>4
 <1> QED  BY <1>3, <1>4, <1>5, <1>6 DEF x, y

(* What the code's loop over the cadence boundaries leaves: `last' is the  *)
(* first candidate that does not stand, or the planned count.              *)
LEMMA SegmentShape ==
    ASSUME NEW anchor \in Int, NEW stop \in Int, anchor < stop,
           NEW cadence \in Cadences
    PROVE  \E last \in 1 .. StepCeiling(anchor, stop, cadence) :
              /\ Segment(anchor, stop, cadence) =
                    [k \in 1 .. last |-> IF k < last
                                           THEN Advance(anchor, k, cadence)
                                           ELSE stop]
              /\ \A k \in 1 .. last - 1 :
                    Stands(Advance(anchor, k, cadence), stop)
              /\ \/ last = StepCeiling(anchor, stop, cadence)
                 \/ ~ Stands(Advance(anchor, last, cadence), stop)
 <1> DEFINE count == StepCeiling(anchor, stop, cadence)
            ends == {k \in 1 .. count - 1 :
                        ~ Stands(Advance(anchor, k, cadence), stop)}
            last == Min(ends \union {count})
 <1>1. count \in Nat \ {0}
   BY CeilingType
 <1>2. last \in ends \union {count} /\ \A k \in ends \union {count} : last <= k
  <2>1. ends \union {count} \in SUBSET Nat /\ ends \union {count} # {}
    BY <1>1
  <2> HIDE DEF ends, count
  <2> QED  BY <2>1, MinIsLeast
 <1>3. last \in 1 .. count
   BY <1>1, <1>2
 <1>4. \A k \in 1 .. last - 1 : Stands(Advance(anchor, k, cadence), stop)
  <2> SUFFICES ASSUME NEW k \in 1 .. last - 1,
                      ~ Stands(Advance(anchor, k, cadence), stop)
               PROVE  FALSE
    OBVIOUS
  <2>1. k \in ends
    BY <1>1, <1>3
  <2> HIDE DEF ends
  <2> QED  BY <1>1, <1>2, <1>3, <2>1
 <1>5. last = count \/ ~ Stands(Advance(anchor, last, cadence), stop)
   BY <1>2
 <1>6. Segment(anchor, stop, cadence) =
         [k \in 1 .. last |-> IF k < last THEN Advance(anchor, k, cadence)
                               ELSE stop]
   BY DEF Segment
 <1> QED  BY <1>3, <1>4, <1>5, <1>6

(* The last step of a segment is shorter than the cadence plus two places. *)
LEMMA TailIsShort ==
    ASSUME NEW anchor \in Int, NEW stop \in Int, anchor < stop,
           NEW cadence \in Cadences,
           NEW last \in 1 .. StepCeiling(anchor, stop, cadence),
           \/ last = StepCeiling(anchor, stop, cadence)
           \/ ~ Stands(Advance(anchor, last, cadence), stop)
    PROVE  cadence.den * (stop - Advance(anchor, last - 1, cadence))
             < cadence.num + 2 * cadence.den
 <1> DEFINE n == cadence.num
            d == cadence.den
            count == StepCeiling(anchor, stop, cadence)
            before == Advance(anchor, last - 1, cadence)
            there == Advance(anchor, last, cadence)
 <1>1. n \in Nat \ {0} /\ d \in Nat \ {0} /\ count \in Nat \ {0}
       /\ last - 1 \in Nat /\ last \in Nat /\ (last - 1) + 1 = last
   BY CeilingType DEF Cadences
 <1>2. before \in Int /\ there \in Int
   BY <1>1, AdvanceType
 <1>3. CASE ~ Stands(there, stop)
  <2>1. d * (there - before) < n + d
    BY <1>1, AdvanceSteps
  <2>2. stop <= there + 1
    BY <1>2, <1>3 DEF Stands, HasMidpoint
  <2> HIDE DEF n, d, before, there
  <2>3. d * (stop - before) <= d * ((there - before) + 1)
   <3>1. stop - before <= (there - before) + 1
     BY <1>2, <2>2
   <3>2. stop - before \in Int /\ (there - before) + 1 \in Int
     BY <1>2
   <3> QED  BY <1>1, <3>1, <3>2, Scaled
  <2>4. d * ((there - before) + 1) = d * (there - before) + d
    BY <1>1, <1>2
  <2>5. d * (stop - before) < n + 2 * d
    BY <1>1, <1>2, <2>1, <2>3, <2>4
  <2> QED  BY <2>5 DEF n, d, before
 <1>4. CASE last = count
  <2> DEFINE p == before - anchor
             s == stop - anchor
  <2>1. 2 * (n * (last - 1)) + d < (2 * d) * p + 2 * d
    BY <1>1, AdvanceType
  <2>2. s * d < n * last
    BY <1>4, CeilingType
  <2>3. p \in Int /\ s \in Int /\ stop - before = s - p
    BY <1>2
  <2> HIDE DEF n, d, p, s
  <2>4. n * (last - 1) = n * last - n /\ n * last \in Int
    BY <1>1
  <2>5. d * (s - p) = s * d - d * p /\ d * p \in Int /\ s * d \in Int
        /\ (2 * d) * p = 2 * (d * p)
    BY <1>1, <2>3
  <2>6. d * (s - p) < n + 2 * d
   <3> DEFINE x == n * last
              y == s * d
              z == d * p
   <3>1. 2 * (x - n) + d < 2 * z + 2 * d /\ y < x
         /\ x \in Int /\ y \in Int /\ z \in Int /\ d * (s - p) = y - z
     BY <2>1, <2>2, <2>4, <2>5
   <3> HIDE DEF x, y, z
   <3> QED  BY <1>1, <3>1
  <2> QED  BY <2>3, <2>6 DEF n, d
 <1> QED  BY <1>3, <1>4

(* What there is to know of a segment and the path it continues.           *)
SegmentFacts(anchor, stop, cadence, part, path) ==
    /\ part \in Seq(Int) /\ Len(part) \in Nat \ {0}
    /\ Len(part) <= StepCeiling(anchor, stop, cadence)
    /\ part[Len(part)] = stop
    /\ \A i \in 1 .. Len(part) :
          cadence.den * (path[i + 1] - path[i])
            < cadence.num + 2 * cadence.den
    /\ \A i \in 1 .. Len(part) - 1 :
          /\ path[i] = Advance(anchor, i - 1, cadence)
          /\ path[i + 1] = Advance(anchor, i, cadence)
          /\ Stands(path[i + 1], stop)
    /\ path[Len(part)] = Advance(anchor, Len(part) - 1, cadence)

(* The segment after its anchor: it ends on the stop, no step of it        *)
(* reaches two places beyond the cadence, although a tail may be absorbed  *)
(* into the last one, and the storage planned for it is enough.            *)
LEMMA SegmentSteps ==
    ASSUME NEW anchor \in Int, NEW stop \in Int, anchor < stop,
           NEW cadence \in Cadences
    PROVE  LET part == Segment(anchor, stop, cadence)
           IN  SegmentFacts(anchor, stop, cadence, part, <<anchor>> \o part)
 <1> DEFINE count == StepCeiling(anchor, stop, cadence)
            part == Segment(anchor, stop, cadence)
            path == <<anchor>> \o part
 <1>1. count \in Nat \ {0}
   BY CeilingType
 <1>2. PICK last \in 1 .. count :
         /\ part = [k \in 1 .. last |-> IF k < last
                                         THEN Advance(anchor, k, cadence)
                                         ELSE stop]
         /\ \A k \in 1 .. last - 1 : Stands(Advance(anchor, k, cadence), stop)
         /\ \/ last = count
            \/ ~ Stands(Advance(anchor, last, cadence), stop)
   BY SegmentShape
 <1>3. \A k \in Nat : Advance(anchor, k, cadence) \in Int
   BY AdvanceType
 <1>4. Advance(anchor, 0, cadence) = anchor
   BY AdvanceStarts
 <1>5. part \in Seq(Int) /\ Len(part) = last /\ last \in Nat \ {0}
   BY <1>1, <1>2, <1>3
 <1>6. Len(path) = last + 1
   BY <1>5
 <1>7. path[last + 1] = stop /\ part[last] = stop
   BY <1>2, <1>5
 <1>8. ASSUME NEW i \in 1 .. last
       PROVE  path[i] = Advance(anchor, i - 1, cadence)
  <2>1. CASE i = 1
    BY <1>4, <1>5, <2>1
  <2>2. CASE i > 1
   <3>1. path[i] = part[i - 1] /\ i - 1 \in 1 .. last - 1
     BY <1>5, <2>2
   <3> QED  BY <1>2, <1>5, <3>1
  <2> QED  BY <1>5, <2>1, <2>2
 <1>9. ASSUME NEW i \in 1 .. last
       PROVE  cadence.den * (path[i + 1] - path[i])
            < cadence.num + 2 * cadence.den
  <2> HIDE DEF part, path
  <2>1. CASE i < last
   <3>1. i + 1 \in 1 .. last /\ i - 1 \in Nat /\ (i + 1) - 1 = (i - 1) + 1
     BY <1>5, <2>1
   <3>2. /\ path[i] = Advance(anchor, i - 1, cadence)
         /\ path[i + 1] = Advance(anchor, (i - 1) + 1, cadence)
     BY <1>8, <3>1
   <3>3. cadence.num \in Nat /\ cadence.den \in Nat
     BY DEF Cadences
   <3>4. cadence.den * (path[i + 1] - path[i]) < cadence.num + cadence.den
     BY <3>1, <3>2, AdvanceSteps
   <3>5. cadence.den * (path[i + 1] - path[i]) \in Int
     BY <1>3, <3>1, <3>2, <3>3
   <3> QED  BY <3>3, <3>4, <3>5
  <2>2. CASE i = last
   <3>1. path[i] = Advance(anchor, last - 1, cadence) /\ path[i + 1] = stop
     BY <1>7, <1>8, <2>2
   <3>2. cadence.den * (stop - Advance(anchor, last - 1, cadence))
           < cadence.num + 2 * cadence.den
     BY <1>1, <1>2, TailIsShort
   <3> QED  BY <3>1, <3>2
  <2> QED  BY <1>5, <2>1, <2>2
 <1>10. ASSUME NEW i \in 1 .. last - 1
        PROVE  /\ path[i] = Advance(anchor, i - 1, cadence)
           /\ path[i + 1] = Advance(anchor, i, cadence)
           /\ Stands(path[i + 1], stop)
  <2> HIDE DEF part, path
  <2>1. i \in 1 .. last /\ i + 1 \in 1 .. last /\ (i + 1) - 1 = i
    BY <1>5
  <2> QED  BY <1>2, <1>8, <2>1
 <1>11. path[last] = Advance(anchor, last - 1, cadence)
  <2> HIDE DEF part, path
  <2>1. last \in 1 .. last
    BY <1>5
  <2> QED  BY <1>8, <2>1
 <1>12. last <= count
   BY <1>1, <1>2
 <1> HIDE DEF part, path, count
 <1>13. SegmentFacts(anchor, stop, cadence, part, path)
   BY <1>5, <1>7, <1>9, <1>10, <1>11, <1>12 DEF SegmentFacts, count
 <1> QED  BY <1>13 DEF part, path

(* append_executable_boundary never throws in a segment, whatever the      *)
(* anchor, the stop and the cadence, provided the cadence is two           *)
(* representable places or more and the stop is not adjacent to the        *)
(* anchor: every step of it can be halved.                                 *)
THEOREM SegmentRuns ==
    ASSUME NEW anchor \in Int, NEW stop \in Int, HasMidpoint(anchor, stop),
           NEW cadence \in Cadences, 2 * cadence.den <= cadence.num
    PROVE  LET path == <<anchor>> \o Segment(anchor, stop, cadence)
           IN  /\ path[Len(path)] = stop
               /\ Executable(path)
               /\ \A i \in 1 .. Len(path) - 1 :
                     cadence.den * (path[i + 1] - path[i])
                       < cadence.num + 2 * cadence.den
               /\ Len(path) <= 1 + StepCeiling(anchor, stop, cadence)
 <1> DEFINE count == StepCeiling(anchor, stop, cadence)
            part == Segment(anchor, stop, cadence)
            path == <<anchor>> \o part
            last == Len(part)
 <1>1. anchor < stop /\ count \in Nat \ {0}
  <2>1. anchor < stop
    BY DEF HasMidpoint
  <2> QED  BY <2>1, CeilingType
 <1>2. SegmentFacts(anchor, stop, cadence, part, path)
   BY <1>1, SegmentSteps
 <1>3. Len(path) = last + 1 /\ path[last + 1] = stop /\ path[1] = anchor
       /\ last \in Nat \ {0} /\ last <= count
   BY <1>2 DEF SegmentFacts
 <1> HIDE DEF path, part
 <1>4. ASSUME NEW i \in 1 .. last
       PROVE  HasMidpoint(path[i], path[i + 1])
  <2>1. CASE i < last
   <3>1. i \in 1 .. last - 1 /\ i - 1 \in Nat /\ (i - 1) + 1 = i
     BY <1>3, <2>1
   <3> QED  BY <1>2, <1>3, <3>1, AdvanceMoves DEF SegmentFacts
  <2>2. CASE i = last
   <3>1. CASE last = 1
     BY <1>3, <2>2, <3>1
   <3>2. CASE last > 1
    <4>1. last - 1 \in 1 .. last - 1 /\ (last - 1) + 1 = last
      BY <1>3, <3>2
    <4>2. Stands(path[last], stop)
      BY <1>2, <4>1 DEF SegmentFacts
    <4> QED  BY <1>3, <2>2, <4>2 DEF Stands
   <3> QED  BY <1>3, <3>1, <3>2
  <2> QED  BY <1>3, <2>1, <2>2
 <1>5. Executable(path)
   BY <1>3, <1>4 DEF Executable
 <1>6. Len(path) <= 1 + count
   BY <1>1, <1>3
 <1>7. \A i \in 1 .. Len(path) - 1 :
          cadence.den * (path[i + 1] - path[i]) < cadence.num + 2 * cadence.den
   BY <1>2, <1>3 DEF SegmentFacts
 <1> QED  BY <1>3, <1>5, <1>6, <1>7 DEF path, part

-----------------------------------------------------------------------------
(* The table: one segment after the other.                                 *)

(* A set of numbers that has 0, and n + 1 with n, has them all.            *)
LEMMA CountingUp ==
    ASSUME NEW S, 0 \in S, \A n \in Nat : n \in S => n + 1 \in S
    PROVE  \A n \in Nat : n \in S
 <1> SUFFICES ASSUME Nat \ S # {}  PROVE FALSE
   OBVIOUS
 <1>1. Nat \ S \in SUBSET Nat
   OBVIOUS
 <1> DEFINE n == Min(Nat \ S)
 <1>2. n \in Nat \ S /\ \A m \in Nat \ S : n <= m
   BY <1>1, MinIsLeast
 <1> HIDE DEF n
 <1>3. n # 0 /\ n - 1 \in Nat /\ (n - 1) + 1 = n
   BY <1>2
 <1>4. n - 1 \notin Nat \ S
   BY <1>2, <1>3
 <1> QED  BY <1>2, <1>3, <1>4

(* The stops are the requested outputs and the end, in order.              *)
LEMMA StopsShape ==
    ASSUME NEW start \in Int, NEW final \in Int, start < final,
           NEW targets \in Seq(Int), LegalStops(start, final, targets),
           NEW stops, stops = Stops(final, targets)
    PROVE  /\ stops \in Seq(Int) /\ Len(stops) \in Nat \ {0}
           /\ stops[Len(stops)] = final
           /\ stops[1] > start
           /\ \A i \in 1 .. Len(stops) - 1 : stops[i] < stops[i + 1]
           /\ \A i \in DOMAIN targets : i \in DOMAIN stops /\ stops[i] = targets[i]
 <1>1. \A i \in DOMAIN targets : targets[i] > start /\ targets[i] <= final
   BY DEF LegalStops
 <1>2. \A i, j \in DOMAIN targets : i < j => targets[i] < targets[j]
   BY DEF LegalStops
 <1>3. DOMAIN targets = 1 .. Len(targets) /\ Len(targets) \in Nat
   OBVIOUS
 <1>4. CASE targets # <<>> /\ Last(targets) = final
  <2>1. stops = targets /\ targets[Len(targets)] = final
    BY <1>4 DEF Stops, Last
  <2>2. Len(targets) # 0
    BY <1>4
  <2> QED  BY <1>1, <1>2, <1>3, <2>1, <2>2
 <1>5. CASE ~ (targets # <<>> /\ Last(targets) = final)
  <2>1. stops = Append(targets, final)
    BY <1>5 DEF Stops
  <2>2. /\ stops \in Seq(Int) /\ Len(stops) = Len(targets) + 1
        /\ \A i \in 1 .. Len(targets) : stops[i] = targets[i]
        /\ stops[Len(targets) + 1] = final
    BY <2>1
  <2>3. ASSUME NEW i \in 1 .. Len(targets)  PROVE targets[i] < final
   <3>1. targets # <<>> /\ targets[Len(targets)] # final
     BY <1>5, <2>3 DEF Last
   <3>2. targets[Len(targets)] < final /\ targets[i] \in Int
         /\ targets[Len(targets)] \in Int /\ Len(targets) \in DOMAIN targets
     BY <1>1, <1>3, <3>1
   <3>3. i < Len(targets) => targets[i] < targets[Len(targets)]
     BY <1>2, <1>3, <3>2
   <3> QED  BY <1>3, <3>2, <3>3
  <2>4. ASSUME NEW i \in 1 .. Len(stops) - 1  PROVE stops[i] < stops[i + 1]
   <3>1. CASE i = Len(targets)
     BY <1>3, <2>2, <2>3, <3>1
   <3>2. CASE i < Len(targets)
    <4>1. i \in DOMAIN targets /\ i + 1 \in DOMAIN targets /\ i < i + 1
      BY <1>3, <2>2, <3>2
    <4> QED  BY <1>2, <1>3, <2>2, <4>1
   <3>3. Len(stops) = Len(targets) + 1 /\ Len(targets) \in Nat
     BY <1>3, <2>2
   <3>4. i = Len(targets) \/ i < Len(targets)
     BY <3>3
   <3> QED  BY <3>1, <3>2, <3>4
  <2>5. stops[1] > start
   <3>1. CASE Len(targets) = 0
    <4>1. Len(targets) + 1 = 1
      BY <3>1
    <4> QED  BY <2>2, <4>1
   <3>2. CASE Len(targets) # 0
    <4>1. 1 \in 1 .. Len(targets)
      BY <1>3, <3>2
    <4>2. stops[1] = targets[1] /\ targets[1] > start
      BY <1>1, <1>3, <2>2, <4>1
    <4> QED  BY <4>2
   <3> QED  BY <3>1, <3>2
  <2> QED  BY <1>3, <2>2, <2>4, <2>5
 <1> QED  BY <1>4, <1>5

(* The step of the constructor's loop over the stops, and its result.      *)
Extend(before, stop, cadence) == before \o Segment(Last(before), stop, cadence)

IsTable(f, n, start, stops, cadence) ==
    f = [m \in 0 .. n |-> IF m = 0 THEN <<start>>
                          ELSE Extend(f[m - 1], stops[m], cadence)]

LEMMA TableExists ==
    ASSUME NEW start, NEW stops, NEW cadence
    PROVE  \A n \in Nat : \E f : IsTable(f, n, start, stops, cadence)
 <1> DEFINE S == {n \in Nat : \E f : IsTable(f, n, start, stops, cadence)}
 <1>1. 0 \in S
  <2> DEFINE f == [m \in 0 .. 0 |-> <<start>>]
  <2>1. IsTable(f, 0, start, stops, cadence)
    BY DEF IsTable
  <2> QED  BY <2>1
 <1>2. ASSUME NEW n \in Nat, n \in S  PROVE n + 1 \in S
  <2>1. PICK f : IsTable(f, n, start, stops, cadence)
    BY <1>2
  <2> DEFINE g == [m \in 0 .. n + 1 |->
                     IF m = n + 1 THEN Extend(f[n], stops[n + 1], cadence)
                                  ELSE f[m]]
  <2>2. \A m \in 0 .. n : g[m] = f[m]
    OBVIOUS
  <2>3. ASSUME NEW m \in 0 .. n + 1
        PROVE  g[m] = IF m = 0 THEN <<start>>
                      ELSE Extend(g[m - 1], stops[m], cadence)
   <3>1. CASE m = n + 1
    <4>1. m # 0 /\ m - 1 = n /\ n \in 0 .. n
      BY <3>1
    <4> QED  BY <2>2, <3>1, <4>1
   <3>2. CASE m # n + 1
    <4>1. m \in 0 .. n /\ (m # 0 => m - 1 \in 0 .. n)
      BY <3>2
    <4>2. f[m] = IF m = 0 THEN <<start>>
                 ELSE Extend(f[m - 1], stops[m], cadence)
      BY <2>1, <4>1 DEF IsTable
    <4> QED  BY <2>2, <4>1, <4>2
   <3> QED  BY <3>1, <3>2
  <2>4. IsTable(g, n + 1, start, stops, cadence)
   <3>1. g = [m \in 0 .. n + 1 |-> g[m]]
     OBVIOUS
   <3> HIDE DEF g
   <3> QED  BY <2>3, <3>1 DEF IsTable
  <2> HIDE DEF g
  <2> QED  BY <2>4
 <1> HIDE DEF S
 <1>3. \A n \in Nat : n \in S
   BY <1>1, <1>2, CountingUp
 <1> QED  BY <1>3 DEF S

(* The same for the storage planned.                                       *)
IsPlan(f, n, stops, cadence) ==
    f = [m \in 0 .. n |-> IF m = 0 THEN 1
                          ELSE f[m - 1] + StepCeiling(stops[m], stops[m + 1], cadence)]

LEMMA PlanExists ==
    ASSUME NEW stops, NEW cadence
    PROVE  \A n \in Nat : \E f : IsPlan(f, n, stops, cadence)
 <1> DEFINE S == {n \in Nat : \E f : IsPlan(f, n, stops, cadence)}
 <1>1. 0 \in S
  <2> DEFINE f == [m \in 0 .. 0 |-> 1]
  <2>1. IsPlan(f, 0, stops, cadence)
    BY DEF IsPlan
  <2> QED  BY <2>1
 <1>2. ASSUME NEW n \in Nat, n \in S  PROVE n + 1 \in S
  <2>1. PICK f : IsPlan(f, n, stops, cadence)
    BY <1>2
  <2> DEFINE more(m) == StepCeiling(stops[m], stops[m + 1], cadence)
             g == [m \in 0 .. n + 1 |->
                     IF m = n + 1 THEN f[n] + more(n + 1) ELSE f[m]]
  <2>2. \A m \in 0 .. n : g[m] = f[m]
    OBVIOUS
  <2>3. ASSUME NEW m \in 0 .. n + 1
        PROVE  g[m] = IF m = 0 THEN 1 ELSE g[m - 1] + more(m)
   <3>1. CASE m = n + 1
    <4>1. m # 0 /\ m - 1 = n /\ n \in 0 .. n
      BY <3>1
    <4> HIDE DEF more
    <4> QED  BY <2>2, <3>1, <4>1
   <3>2. CASE m # n + 1
    <4>1. m \in 0 .. n /\ (m # 0 => m - 1 \in 0 .. n)
      BY <3>2
    <4>2. f[m] = IF m = 0 THEN 1 ELSE f[m - 1] + more(m)
      BY <2>1, <4>1 DEF IsPlan
    <4> HIDE DEF more
    <4> QED  BY <2>2, <4>1, <4>2
   <3> QED  BY <3>1, <3>2
  <2>4. IsPlan(g, n + 1, stops, cadence)
   <3>1. g = [m \in 0 .. n + 1 |-> g[m]]
     OBVIOUS
   <3> HIDE DEF g
   <3> QED  BY <2>3, <3>1 DEF IsPlan
  <2> HIDE DEF g
  <2> QED  BY <2>4
 <1> HIDE DEF S
 <1>3. \A n \in Nat : n \in S
   BY <1>1, <1>2, CountingUp
 <1> QED  BY <1>3 DEF S

(* Boundaries and Planned are what their loops leave after the last stop.  *)
LEMMA BoundariesLoop ==
    ASSUME NEW start \in Int, NEW final \in Int, start # final,
           NEW targets \in Seq(Int), NEW cadence,
           NEW stops, stops = Stops(final, targets), Len(stops) \in Nat
    PROVE  \E f : /\ IsTable(f, Len(stops), start, stops, cadence)
                  /\ Boundaries(start, final, cadence, targets) = f[Len(stops)]
 <1> DEFINE f == CHOOSE g : IsTable(g, Len(stops), start, stops, cadence)
 <1>1. IsTable(f, Len(stops), start, stops, cadence)
  <2>1. \E g : IsTable(g, Len(stops), start, stops, cadence)
    BY TableExists
  <2> QED  BY <2>1
 <1>2. Boundaries(start, final, cadence, targets) = f[Len(stops)]
   BY DEF Boundaries, IsTable, Extend
 <1> HIDE DEF f
 <1> QED  BY <1>1, <1>2

Route(start, final, targets) == <<start>> \o Stops(final, targets)

LEMMA PlannedLoop ==
    ASSUME NEW start \in Int, NEW final \in Int, start # final,
           NEW targets \in Seq(Int), NEW cadence,
           NEW path, path = Route(start, final, targets),
           NEW n \in Nat, n = Len(path) - 1
    PROVE  \E f : /\ IsPlan(f, n, path, cadence)
                  /\ Planned(start, final, cadence, targets) = f[n]
 <1> DEFINE f == CHOOSE g : IsPlan(g, n, path, cadence)
 <1>1. IsPlan(f, n, path, cadence)
  <2>1. \E g : IsPlan(g, n, path, cadence)
    BY PlanExists
  <2> QED  BY <2>1
 <1>2. Planned(start, final, cadence, targets) = f[n]
   BY DEF Planned, IsPlan, Route
 <1> HIDE DEF f
 <1> QED  BY <1>1, <1>2

(* A path from start to stop none of whose steps is too long.              *)
Leads(path, start, stop, cadence) ==
    /\ path \in Seq(Int) /\ Len(path) \in Nat \ {0}
    /\ path[1] = start /\ path[Len(path)] = stop
    /\ \A i \in 1 .. Len(path) - 1 :
          cadence.den * (path[i + 1] - path[i]) < cadence.num + 2 * cadence.den

LEMMA ExtendLeads ==
    ASSUME NEW start \in Int, NEW anchor \in Int, NEW stop \in Int, anchor < stop,
           NEW cadence \in Cadences, NEW path, Leads(path, start, anchor, cadence),
           NEW longer, longer = Extend(path, stop, cadence)
    PROVE  /\ Leads(longer, start, stop, cadence)
           /\ Len(longer) <= Len(path) + StepCeiling(anchor, stop, cadence)
           /\ Len(path) <= Len(longer)
           /\ \A i \in 1 .. Len(path) : longer[i] = path[i]
 <1> DEFINE part == Segment(anchor, stop, cadence)
            tail == <<anchor>> \o part
            l == Len(path)
            m == Len(part)
 <1>1. /\ path \in Seq(Int) /\ l \in Nat \ {0} /\ path[1] = start /\ path[l] = anchor
       /\ \A i \in 1 .. l - 1 :
            cadence.den * (path[i + 1] - path[i]) < cadence.num + 2 * cadence.den
   BY DEF Leads
 <1>2. longer = path \o part /\ l = Len(path) /\ m = Len(part)
   BY <1>1 DEF Extend, Last
 <1>3. SegmentFacts(anchor, stop, cadence, part, tail)
   BY SegmentSteps
 <1>4. /\ part \in Seq(Int) /\ m \in Nat \ {0} /\ part[m] = stop
       /\ m <= StepCeiling(anchor, stop, cadence)
       /\ \A i \in 1 .. m : cadence.den * (tail[i + 1] - tail[i])
                              < cadence.num + 2 * cadence.den
   BY <1>3 DEF SegmentFacts
 <1>5. /\ tail[1] = anchor
       /\ \A i \in 1 .. m : tail[i + 1] = part[i]
   BY <1>4
 <1>6. StepCeiling(anchor, stop, cadence) \in Nat
   BY CeilingType
 <1> HIDE DEF part, tail, l, m
 <1>7. /\ longer \in Seq(Int) /\ Len(longer) = l + m
       /\ \A i \in 1 .. l : longer[i] = path[i]
       /\ \A i \in 1 .. m : longer[l + i] = part[i]
   BY <1>1, <1>2, <1>4
 <1>8. ASSUME NEW i \in 1 .. m  PROVE tail[i] = longer[l + i - 1]
  <2>1. CASE i = 1
   <3>1. l + i - 1 = l /\ l \in 1 .. l
     BY <1>1, <2>1
   <3> QED  BY <1>1, <1>5, <1>7, <2>1, <3>1
  <2>2. CASE i > 1
   <3>1. i - 1 \in 1 .. m /\ (i - 1) + 1 = i /\ l + i - 1 = l + (i - 1)
     BY <1>1, <1>4, <2>2
   <3> QED  BY <1>5, <1>7, <3>1
  <2> QED  BY <1>4, <2>1, <2>2
 <1>9. ASSUME NEW i \in 1 .. Len(longer) - 1
       PROVE  cadence.den * (longer[i + 1] - longer[i])
                < cadence.num + 2 * cadence.den
  <2>1. CASE i < l
   <3>1. i \in 1 .. l - 1 /\ i \in 1 .. l /\ i + 1 \in 1 .. l
     BY <1>1, <2>1
   <3> QED  BY <1>1, <1>7, <3>1
  <2>2. CASE i >= l
   <3> DEFINE j == i - l + 1
   <3>1. j \in 1 .. m /\ l + j = i + 1 /\ l + j - 1 = i
     BY <1>1, <1>4, <1>7, <2>2
   <3> HIDE DEF j
   <3>2. tail[j] = longer[i] /\ tail[j + 1] = longer[i + 1]
     BY <1>5, <1>7, <1>8, <3>1
   <3> QED  BY <1>4, <3>1, <3>2
  <2> QED  BY <1>1, <1>4, <1>7, <2>1, <2>2
 <1>10. longer[1] = start /\ longer[Len(longer)] = stop
        /\ Len(longer) \in Nat \ {0}
  <2>1. 1 \in 1 .. l /\ m \in 1 .. m /\ l + m \in Nat \ {0}
    BY <1>1, <1>4
  <2>2. longer[1] = path[1] /\ longer[l + m] = part[m]
    BY <1>7, <2>1
  <2> QED  BY <1>1, <1>4, <1>7, <2>1, <2>2
 <1>11. Leads(longer, start, stop, cadence)
   BY <1>7, <1>9, <1>10 DEF Leads
 <1> QED  BY <1>1, <1>2, <1>4, <1>6, <1>7, <1>11

(* What every table is, whatever the stops and the cadence.                *)
LEMMA TableShape ==
    ASSUME NEW start \in Int, NEW final \in Int, start <= final,
           NEW cadence \in Cadences,
           NEW targets \in Seq(Int), LegalStops(start, final, targets),
           NEW path, path = Boundaries(start, final, cadence, targets)
    PROVE  /\ Leads(path, start, final, cadence)
           /\ \A i \in DOMAIN targets : \E k \in 1 .. Len(path) : path[k] = targets[i]
           /\ Len(path) <= Planned(start, final, cadence, targets)
 <1>1. CASE start = final
  <2>1. path = <<start>> /\ Planned(start, final, cadence, targets) = 1
    BY <1>1 DEF Boundaries, Planned
  <2>2. DOMAIN targets = {}
   <3>1. \A i \in DOMAIN targets : targets[i] \in Int /\ targets[i] > start
                                   /\ targets[i] <= final
     BY DEF LegalStops
   <3> QED  BY <1>1, <3>1
  <2>3. path \in Seq(Int) /\ Len(path) = 1 /\ path[1] = start
    BY <2>1
  <2>4. Leads(path, start, final, cadence)
   <3>1. 1 .. Len(path) - 1 = {} /\ path[Len(path)] = start
         /\ Len(path) \in Nat \ {0}
     BY <2>3
   <3> QED  BY <1>1, <2>3, <3>1, Zenon DEF Leads
  <2>5. Len(path) <= Planned(start, final, cadence, targets)
    BY <2>1, <2>3
  <2> QED  BY <2>2, <2>4, <2>5
 <1>2. CASE start # final
  <2> DEFINE stops == Stops(final, targets)
             n == Len(stops)
             all == <<start>> \o stops
  <2>1. start < final
    BY <1>2
  <2>2. /\ stops \in Seq(Int) /\ n \in Nat \ {0} /\ stops[n] = final
        /\ stops[1] > start
        /\ \A i \in 1 .. n - 1 : stops[i] < stops[i + 1]
        /\ \A i \in DOMAIN targets : i \in DOMAIN stops /\ stops[i] = targets[i]
    BY <2>1, StopsShape
  <2>3. all \in Seq(Int) /\ Len(all) = n + 1 /\ all[1] = start
        /\ \A i \in 1 .. n : all[i + 1] = stops[i]
    BY <2>2
  <2>4. PICK f : /\ IsTable(f, n, start, stops, cadence)
                 /\ path = f[n]
   <3>1. stops = Stops(final, targets) /\ n = Len(stops)
     OBVIOUS
   <3> HIDE DEF stops, n
   <3> QED  BY <1>2, <2>2, <3>1, BoundariesLoop
  <2>5. PICK g : /\ IsPlan(g, n, all, cadence)
                 /\ Planned(start, final, cadence, targets) = g[n]
   <3>1. all = Route(start, final, targets) /\ n \in Nat /\ n = Len(all) - 1
     BY <2>2, <2>3 DEF Route
   <3> HIDE DEF stops, n, all
   <3>2. \E h : /\ IsPlan(h, n, all, cadence)
                /\ Planned(start, final, cadence, targets) = h[n]
     BY <1>2, <3>1, PlannedLoop
   <3> QED  BY <3>2, Zenon
  <2> HIDE DEF stops, all, n
  <2>6. ASSUME NEW m \in 1 .. n  PROVE all[m] < all[m + 1] /\ all[m] \in Int
                                       /\ all[m + 1] \in Int
   <3>3. all[m] \in Int /\ all[m + 1] \in Int
    <4>1. m \in 1 .. n + 1 /\ m + 1 \in 1 .. n + 1
      BY <2>2
    <4> QED  BY <2>3, <4>1
   <3>1. CASE m = 1
     BY <2>2, <2>3, <3>1, <3>3
   <3>2. CASE m > 1
    <4> DEFINE k == m - 1
    <4>1. k \in 1 .. n - 1 /\ k \in 1 .. n /\ k + 1 = m /\ m \in 1 .. n
      BY <2>2, <3>2
    <4>2. stops[k] < stops[k + 1]
      BY <2>2, <4>1
    <4>3. all[k + 1] = stops[k] /\ all[m + 1] = stops[m]
      BY <2>3, <4>1
    <4>4. all[m] = stops[k] /\ stops[m] = stops[k + 1]
      BY <4>1, <4>3
    <4>5. stops[k] < stops[m]
      BY <4>2, <4>4
    <4> QED  BY <3>3, <4>3, <4>4, <4>5
   <3> QED  BY <2>2, <3>1, <3>2, <3>3
  <2> DEFINE Good(m) == /\ Leads(f[m], start, all[m + 1], cadence)
                        /\ g[m] \in Nat /\ Len(f[m]) <= g[m]
                        /\ \A j \in 1 .. m :
                              \E k \in 1 .. Len(f[m]) : f[m][k] = stops[j]
             S == {m \in Nat : m <= n => Good(m)}
  <2>7. 0 \in S
   <3>1. f[0] = <<start>> /\ g[0] = 1
     BY <2>2, <2>4, <2>5 DEF IsTable, IsPlan
   <3>2. f[0] \in Seq(Int) /\ Len(f[0]) = 1 /\ f[0][1] = start
     BY <3>1
   <3>3. Good(0)
     BY <2>3, <3>1, <3>2 DEF Leads
   <3> QED  BY <3>3
  <2>8. ASSUME NEW m \in Nat, m \in S  PROVE m + 1 \in S
   <3> SUFFICES ASSUME m + 1 <= n  PROVE Good(m + 1)
     OBVIOUS
   <3>1. Good(m)
     BY <2>2, <2>8
   <3>2. m + 1 \in 1 .. n /\ m + 1 \in 0 .. n /\ (m + 1) - 1 = m /\ m + 1 # 0
     BY <2>2
   <3> DEFINE anchor == all[m + 1]
              stop == all[m + 2]
   <3>3. anchor \in Int /\ stop \in Int /\ anchor < stop /\ stop = stops[m + 1]
         /\ (m + 1) + 1 = m + 2
     BY <2>3, <2>6, <3>2
   <3>4. f[m + 1] = Extend(f[m], stop, cadence)
     BY <2>4, <3>2, <3>3 DEF IsTable
   <3>5. g[m + 1] = g[m] + StepCeiling(anchor, stop, cadence)
     BY <2>5, <3>2, <3>3 DEF IsPlan
   <3>6. StepCeiling(anchor, stop, cadence) \in Nat
     BY <3>3, CeilingType
   <3> HIDE DEF anchor, stop
   <3>7. /\ Leads(f[m + 1], start, stop, cadence)
         /\ Len(f[m + 1]) <= Len(f[m]) + StepCeiling(anchor, stop, cadence)
         /\ Len(f[m]) <= Len(f[m + 1])
         /\ \A i \in 1 .. Len(f[m]) : f[m + 1][i] = f[m][i]
    <4>1. Leads(f[m], start, anchor, cadence)
      BY <3>1 DEF anchor
    <4> HIDE DEF Good
    <4> QED  BY <3>3, <3>4, <4>1, ExtendLeads
   <3>8. Len(f[m]) \in Nat /\ Len(f[m + 1]) \in Nat \ {0}
         /\ f[m + 1][Len(f[m + 1])] = stop
     BY <3>1, <3>7 DEF Leads
   <3>9. ASSUME NEW j \in 1 .. m + 1
         PROVE  \E k \in 1 .. Len(f[m + 1]) : f[m + 1][k] = stops[j]
    <4>1. CASE j = m + 1
      BY <3>3, <3>8, <4>1
    <4>2. CASE j # m + 1
     <5>1. j \in 1 .. m
       BY <4>2
     <5>2. PICK k \in 1 .. Len(f[m]) : f[m][k] = stops[j]
       BY <3>1, <5>1
     <5> QED  BY <3>7, <3>8, <5>2
    <4> QED  BY <4>1, <4>2
   <3>10. g[m + 1] \in Nat /\ Len(f[m + 1]) <= g[m + 1]
     BY <3>1, <3>5, <3>6, <3>7, <3>8
   <3>11. Leads(f[m + 1], start, all[(m + 1) + 1], cadence)
     BY <3>3, <3>7 DEF stop
   <3> QED  BY <3>9, <3>10, <3>11
  <2> HIDE DEF S
  <2>9. \A m \in Nat : m \in S
    BY <2>7, <2>8, CountingUp
  <2>10. Good(n)
   <3> HIDE DEF Good
   <3> QED  BY <2>2, <2>9 DEF S
  <2>11. all[n + 1] = final
    BY <2>2, <2>3
  <2>12. ASSUME NEW i \in DOMAIN targets
         PROVE  \E k \in 1 .. Len(path) : path[k] = targets[i]
   <3>1. i \in 1 .. n /\ stops[i] = targets[i]
     BY <2>2 DEF n
   <3> QED  BY <2>4, <2>10, <3>1
  <2> QED  BY <2>4, <2>5, <2>10, <2>11, <2>12
 <1> QED  BY <1>1, <1>2

-----------------------------------------------------------------------------
(* The stepper.                                                            *)

(* The stepper stands on the table of the input it was made from, whatever *)
(* it was restored from and whichever way it goes.                         *)
StandsOnTable ==
    /\ input \in Inputs /\ Executable(TableOf(input))
    /\ boundaries = TableOf(input)
    /\ index \in 0 .. StepCount
    /\ direction \in {1, -1}
    /\ current = Boundary(index)
    /\ finished \in BOOLEAN /\ (finished => index = End)

LEMMA TableOfInput ==
    ASSUME NEW c \in Inputs
    PROVE  /\ Leads(TableOf(c), c.start, c.final, c.cadence)
           /\ TableOf(c) \in Seq(Int) /\ Len(TableOf(c)) \in Nat \ {0}
           /\ c.cadence \in Cadences
           /\ \A i \in DOMAIN c.targets :
                 \E k \in 1 .. Len(TableOf(c)) : TableOf(c)[k] = c.targets[i]
           /\ Len(TableOf(c)) <= Planned(c.start, c.final, c.cadence, c.targets)
           /\ c.start = c.final => Len(TableOf(c)) = 1
           /\ TableOf(c)[1] = c.start
 <1>1. /\ c.start \in Int /\ c.final \in Int /\ c.start <= c.final
       /\ c.cadence \in Cadences /\ c.targets \in Seq(Int)
       /\ LegalStops(c.start, c.final, c.targets)
   BY StepperAssumption DEF Cadences
 <1>2. TableOf(c) = Boundaries(c.start, c.final, c.cadence, c.targets)
   BY DEF TableOf
 <1>3. /\ Leads(TableOf(c), c.start, c.final, c.cadence)
       /\ \A i \in DOMAIN c.targets :
             \E k \in 1 .. Len(TableOf(c)) : TableOf(c)[k] = c.targets[i]
       /\ Len(TableOf(c)) <= Planned(c.start, c.final, c.cadence, c.targets)
   BY <1>1, <1>2, TableShape
 <1>4. c.start = c.final => Len(TableOf(c)) = 1
  <2>1. c.start = c.final => TableOf(c) = <<c.start>>
    BY <1>2 DEF Boundaries
  <2> QED  BY <2>1
 <1> QED  BY <1>1, <1>3, <1>4 DEF Leads

LEMMA StepperStarts == StepperInit => StandsOnTable
 <1> SUFFICES ASSUME StepperInit  PROVE StandsOnTable
   OBVIOUS
 <1>1. input \in Inputs /\ Executable(TableOf(input))
       /\ boundaries = TableOf(input)
   BY DEF StepperInit
 <1>2. Len(boundaries) \in Nat \ {0} /\ boundaries[1] = input.start
       /\ (input.start = input.final => Len(boundaries) = 1)
   BY <1>1, TableOfInput
 <1>3. index = 0 /\ direction = 1 /\ current = input.start
       /\ finished = (input.start = input.final)
   BY DEF StepperInit
 <1>4. StepCount \in Nat /\ (input.start = input.final => StepCount = 0)
   BY <1>2 DEF StepCount
 <1>5. index \in 0 .. StepCount /\ current = Boundary(index)
   BY <1>2, <1>3, <1>4 DEF Boundary
 <1>6. finished => index = End
   BY <1>3, <1>4 DEF End
 <1> QED  BY <1>1, <1>3, <1>5, <1>6 DEF StandsOnTable

LEMMA StepperMoves == StandsOnTable /\ [StepperNext]_stepper => StandsOnTable'
 <1> SUFFICES ASSUME StandsOnTable, [StepperNext]_stepper  PROVE StandsOnTable'
   OBVIOUS
 <1>1. StepCount \in Nat
  <2>1. Len(boundaries) \in Nat \ {0}
    BY TableOfInput DEF StandsOnTable
  <2> QED  BY <2>1 DEF StepCount
 <1>2. index \in 0 .. StepCount /\ direction \in {1, -1}
   BY DEF StandsOnTable
 <1>3. CASE NextStep
  <2>1. index # End /\ index' = index + direction
        /\ current' = boundaries[index + direction + 1]
        /\ finished' = (index' = End)
        /\ UNCHANGED <<input, boundaries, direction>>
    BY <1>3 DEF NextStep, Boundary
  <2>2. index' \in 0 .. StepCount
    BY <1>1, <1>2, <2>1 DEF End
  <2>3. current' = boundaries[index' + 1]
    BY <2>1
  <2> QED  BY <2>1, <2>2, <2>3 DEF StandsOnTable, StepCount, Boundary, End
 <1>4. CASE Exhausted
   BY <1>4 DEF Exhausted, StandsOnTable, StepCount, Boundary, End
 <1>5. CASE ReverseDirection
  <2>1. direction' \in {1, -1} /\ finished' = FALSE
        /\ UNCHANGED <<input, boundaries, index, current>>
    BY <1>2, <1>5 DEF ReverseDirection
  <2> QED  BY <2>1 DEF StandsOnTable, StepCount, Boundary
 <1>6. CASE RestoreState
  <2>1. PICK p \in Positions :
          /\ Restorable(p[1], p[2])
          /\ index' = p[1] /\ current' = p[2]
          /\ finished' = (index' = End)
    BY <1>6 DEF RestoreState
  <2>2. PICK c \in Inputs : \E i \in 0 .. Len(TableOf(c)) - 1 :
                               p = <<i, TableOf(c)[i + 1]>>
    BY DEF Positions
  <2>3. p[1] \in Nat
    BY <2>2, TableOfInput
  <2>4. index' \in 0 .. StepCount /\ current' = Boundary(index')
    BY <1>1, <2>1, <2>3 DEF Restorable
  <2>5. UNCHANGED <<input, boundaries, direction>>
    BY <1>6 DEF RestoreState
  <2> QED  BY <2>1, <2>4, <2>5 DEF StandsOnTable, StepCount, Boundary, End
 <1>7. CASE UNCHANGED stepper
   BY <1>7 DEF stepper, StandsOnTable, StepCount, Boundary, End
 <1> QED  BY <1>3, <1>4, <1>5, <1>6, <1>7 DEF StepperNext

(* TimeStepper: whatever the configuration asks for and however the        *)
(* stepper is turned round or restored, its table runs from the start to   *)
(* the end through every requested output within the storage planned for   *)
(* it, and the stepper stands on it.                                       *)
THEOREM StepperHitsEveryTarget == StepperSpec => []HitsEveryTarget
 <1>1. StandsOnTable => HitsEveryTarget
  <2> SUFFICES ASSUME StandsOnTable  PROVE HitsEveryTarget
    OBVIOUS
  <2> DEFINE num == input.cadence.num
             den == input.cadence.den
  <2>1. /\ Leads(boundaries, input.start, input.final, input.cadence)
        /\ input.cadence \in Cadences
        /\ \A i \in DOMAIN input.targets :
              \E k \in 1 .. Len(boundaries) : boundaries[k] = input.targets[i]
        /\ Len(boundaries) <= Planned(input.start, input.final,
                                      input.cadence, input.targets)
    BY TableOfInput DEF StandsOnTable
  <2>2. /\ boundaries \in Seq(Int) /\ Len(boundaries) \in Nat \ {0}
        /\ boundaries[1] = input.start
        /\ boundaries[Len(boundaries)] = input.final
        /\ \A i \in 1 .. Len(boundaries) - 1 :
              den * (boundaries[i + 1] - boundaries[i]) < num + 2 * den
    BY <2>1 DEF Leads
  <2>3. num \in Nat \ {0} /\ den \in Nat \ {0}
    BY <2>1 DEF Cadences
  <2>4. ASSUME NEW i \in 1 .. StepCount
        PROVE  /\ boundaries[i] < boundaries[i + 1]
               /\ (boundaries[i + 1] - boundaries[i] - 2) * den <= num
   <3>1. i \in 1 .. Len(boundaries) - 1 /\ i \in 1 .. Len(boundaries)
         /\ i + 1 \in 1 .. Len(boundaries)
     BY <2>2 DEF StepCount
   <3>2. boundaries[i] \in Int /\ boundaries[i + 1] \in Int
     BY <2>2, <3>1
   <3>3. boundaries[i + 1] - boundaries[i] >= 2
     BY <3>1 DEF StandsOnTable, Executable, HasMidpoint
   <3> DEFINE far == boundaries[i + 1] - boundaries[i]
   <3>4. den * far < num + 2 * den
     BY <2>2, <3>1
   <3>5. far \in Int
     BY <3>2
   <3> HIDE DEF far, num, den
   <3>6. (far - 2) * den = den * far - 2 * den
     BY <2>3, <3>5
   <3>7. (far - 2) * den <= num
    <4> DEFINE x == den * far
    <4>1. x \in Int /\ x < num + 2 * den /\ (far - 2) * den = x - 2 * den
      BY <2>3, <3>4, <3>5, <3>6
    <4> HIDE DEF x
    <4> QED  BY <2>3, <4>1
   <3> QED  BY <3>2, <3>3, <3>7 DEF far
  <2>5. Head(boundaries) = input.start /\ Last(boundaries) = input.final
    BY <2>2 DEF Last
  <2>6. \A t \in Range(input.targets) : t \in Range(boundaries)
    BY <2>1, <2>2 DEF Range
  <2>7. current = Boundary(index) /\ (finished => index = End)
    BY DEF StandsOnTable
  <2> QED  BY <2>1, <2>4, <2>5, <2>6, <2>7 DEF HitsEveryTarget
 <1> QED  BY <1>1, StepperStarts, StepperMoves, PTL DEF StepperSpec

-----------------------------------------------------------------------------
(* The schedule of a run.                                                  *)

(* Numbers that grow from one place to the next grow from any to any later.*)
LEMMA Increasing ==
    ASSUME NEW s \in Seq(Int), NEW n, n = Len(s),
           \A i \in 1 .. n - 1 : s[i] < s[i + 1]
    PROVE  \A i, j \in 1 .. n : i < j => s[i] < s[j]
 <1> DEFINE S == {j \in Nat : j <= n => \A i \in 1 .. j - 1 : s[i] < s[j]}
 <1>1. n \in Nat /\ \A i \in 1 .. n : s[i] \in Int
   OBVIOUS
 <1>2. 0 \in S
   OBVIOUS
 <1>3. ASSUME NEW j \in Nat, j \in S  PROVE j + 1 \in S
  <2> SUFFICES ASSUME j + 1 <= n, NEW i \in 1 .. (j + 1) - 1
               PROVE  s[i] < s[j + 1]
    OBVIOUS
  <2>1. j \in 1 .. n - 1 /\ j \in 1 .. n /\ j + 1 \in 1 .. n /\ i \in 1 .. n
    BY <1>1
  <2>2. s[j] < s[j + 1]
    BY <2>1
  <2>3. CASE i = j
    BY <2>2, <2>3
  <2>4. CASE i # j
   <3>1. i \in 1 .. j - 1
     BY <2>4
   <3>2. s[i] < s[j]
     BY <1>3, <2>1, <3>1
   <3>3. s[i] \in Int /\ s[j] \in Int /\ s[j + 1] \in Int
     BY <1>1, <2>1
   <3> QED  BY <2>2, <3>2, <3>3
  <2> QED  BY <2>3, <2>4
 <1> HIDE DEF S
 <1>4. \A j \in Nat : j \in S
   BY <1>2, <1>3, CountingUp
 <1>5. ASSUME NEW i \in 1 .. n, NEW j \in 1 .. n, i < j  PROVE s[i] < s[j]
  <2>1. j \in S /\ i \in 1 .. j - 1 /\ j <= n
    BY <1>1, <1>4, <1>5
  <2> QED  BY <2>1 DEF S
 <1> QED  BY <1>5

Scheduled == /\ config \in Configs
             /\ table = Boundaries(config.start, config.final, config.cadence,
                                   config.targets)

(* What a run relies on: places grow from start to end, and every output   *)
(* is one of them.                                                         *)
Plan ==
    /\ table \in Seq(Int) /\ NumSteps \in Nat
    /\ \A i \in 0 .. NumSteps : At(i) \in Int
    /\ config.start \in Nat /\ At(0) = config.start /\ At(NumSteps) = config.final
    /\ \A i, j \in 0 .. NumSteps : i < j => At(i) < At(j)
    /\ Targets \in Seq(Nat) /\ Len(Targets) \in Nat
    /\ \A n \in DOMAIN Targets : /\ Targets[n] > config.start
                                 /\ Targets[n] <= config.final
                                 /\ \E k \in 0 .. NumSteps : At(k) = Targets[n]
    /\ \A i, j \in DOMAIN Targets : i < j => Targets[i] < Targets[j]

LEMMA RunPlan == Scheduled => Plan
 <1> SUFFICES ASSUME Scheduled  PROVE Plan
   OBVIOUS
 <1>1. /\ config.start \in Nat /\ config.final \in Nat
       /\ config.start <= config.final
       /\ config.cadence \in Cadences /\ config.targets \in Seq(Nat)
       /\ LegalStops(config.start, config.final, config.targets)
       /\ Executable(table)
   BY RunAssumption DEF Scheduled, Cadences
 <1>2. config.targets \in Seq(Int)
   BY <1>1
 <1>3. /\ Leads(table, config.start, config.final, config.cadence)
       /\ \A i \in DOMAIN config.targets :
             \E k \in 1 .. Len(table) : table[k] = config.targets[i]
  <2>1. table = Boundaries(config.start, config.final, config.cadence,
                           config.targets)
        /\ config.start \in Int /\ config.final \in Int
    BY <1>1 DEF Scheduled
  <2> QED  BY <1>1, <1>2, <2>1, TableShape
 <1>4. /\ table \in Seq(Int) /\ Len(table) \in Nat \ {0}
       /\ table[1] = config.start /\ table[Len(table)] = config.final
   BY <1>3 DEF Leads
 <1>5. \A i \in 1 .. Len(table) : table[i] \in Int
   BY <1>4
 <1>6. ASSUME NEW i \in 1 .. Len(table) - 1  PROVE table[i] < table[i + 1]
  <2>1. table[i] \in Int /\ table[i + 1] \in Int
    BY <1>4, <1>5
  <2>2. table[i + 1] - table[i] >= 2
    BY <1>1 DEF Executable, HasMidpoint
  <2> QED  BY <2>1, <2>2
 <1>7. \A i, j \in 1 .. Len(table) : i < j => table[i] < table[j]
   BY <1>4, <1>6, Increasing
 <1>8. NumSteps \in Nat /\ Len(table) = NumSteps + 1
   BY <1>4 DEF NumSteps
 <1>9. \A i \in 0 .. NumSteps : At(i) \in Int
   BY <1>5, <1>8 DEF At
 <1>10. At(0) = config.start /\ At(NumSteps) = config.final
   BY <1>4, <1>8 DEF At
 <1>11. ASSUME NEW i \in 0 .. NumSteps, NEW j \in 0 .. NumSteps, i < j
        PROVE  At(i) < At(j)
  <2>1. i + 1 \in 1 .. Len(table) /\ j + 1 \in 1 .. Len(table) /\ i + 1 < j + 1
    BY <1>8, <1>11
  <2> QED  BY <1>7, <2>1 DEF At
 <1>12. ASSUME NEW n \in DOMAIN config.targets
        PROVE  \E k \in 0 .. NumSteps : At(k) = config.targets[n]
  <2>1. PICK k \in 1 .. Len(table) : table[k] = config.targets[n]
    BY <1>3
  <2>2. k - 1 \in 0 .. NumSteps /\ (k - 1) + 1 = k
    BY <1>8
  <2>3. At(k - 1) = config.targets[n]
    BY <2>1, <2>2 DEF At
  <2> QED  BY <2>2, <2>3
 <1>13. /\ \A n \in DOMAIN config.targets : /\ config.targets[n] > config.start
                                            /\ config.targets[n] <= config.final
        /\ \A i, j \in DOMAIN config.targets :
              i < j => config.targets[i] < config.targets[j]
   BY <1>1 DEF LegalStops
 <1>14. Len(config.targets) \in Nat
   BY <1>1
 <1> QED  BY <1>1, <1>4, <1>8, <1>9, <1>10, <1>11, <1>12, <1>13, <1>14
          DEF Plan, Targets

(* An output between two neighbouring places is one of them.               *)
LEMMA NoneBetween ==
    ASSUME Plan, NEW k \in 0 .. NumSteps - 1, NEW n \in DOMAIN Targets
    PROVE  Targets[n] <= At(k) <=> Targets[n] < At(k + 1)
 <1>1. PICK j \in 0 .. NumSteps : At(j) = Targets[n]
   BY DEF Plan
 <1>2. NumSteps \in Nat /\ k \in 0 .. NumSteps /\ k + 1 \in 0 .. NumSteps
   BY DEF Plan
 <1>3. At(j) \in Int /\ At(k) \in Int /\ At(k + 1) \in Int /\ At(k) < At(k + 1)
   BY <1>2 DEF Plan
 <1>4. CASE j <= k
  <2>1. At(j) <= At(k)
   <3>1. CASE j = k
     BY <1>3, <3>1
   <3>2. CASE j < k
     BY <1>2, <1>3, <3>2 DEF Plan
   <3> QED  BY <1>4, <3>1, <3>2
  <2> QED  BY <1>1, <1>3, <2>1
 <1>5. CASE j >= k + 1
  <2>1. At(j) >= At(k + 1)
   <3>1. CASE j = k + 1
     BY <1>3, <3>1
   <3>2. CASE j > k + 1
     BY <1>2, <1>3, <3>2 DEF Plan
   <3> QED  BY <1>2, <1>5, <3>1, <3>2
  <2> QED  BY <1>1, <1>3, <2>1
 <1> QED  BY <1>2, <1>4, <1>5

-----------------------------------------------------------------------------
(* Which output comes next.                                                *)

LEMMA ReachedAreFirst ==
    ASSUME Plan, NEW scale \in Int
    PROVE  \E m \in 0 .. Len(Targets) :
              {i \in DOMAIN Targets : Targets[i] <= scale} = 1 .. m
 <1> DEFINE S == {l \in Nat : l <= Len(Targets) =>
                    \E m \in 0 .. l : {i \in 1 .. l : Targets[i] <= scale} = 1 .. m}
 <1>1. Len(Targets) \in Nat /\ DOMAIN Targets = 1 .. Len(Targets)
       /\ \A i \in DOMAIN Targets : Targets[i] \in Int
   BY DEF Plan
 <1>2. 0 \in S
  <2>1. {i \in 1 .. 0 : Targets[i] <= scale} = 1 .. 0
    OBVIOUS
  <2> QED  BY <2>1
 <1>3. ASSUME NEW l \in Nat, l \in S  PROVE l + 1 \in S
  <2> SUFFICES ASSUME l + 1 <= Len(Targets)
               PROVE  \E m \in 0 .. l + 1 :
                        {i \in 1 .. l + 1 : Targets[i] <= scale} = 1 .. m
    OBVIOUS
  <2>1. PICK m \in 0 .. l : {i \in 1 .. l : Targets[i] <= scale} = 1 .. m
    BY <1>1, <1>3
  <2>2. CASE Targets[l + 1] <= scale
   <3>1. ASSUME NEW i \in 1 .. l  PROVE Targets[i] <= scale
    <4>1. i \in DOMAIN Targets /\ l + 1 \in DOMAIN Targets /\ i < l + 1
      BY <1>1
    <4>2. Targets[i] < Targets[l + 1]
      BY <4>1 DEF Plan
    <4>3. Targets[i] \in Int /\ Targets[l + 1] \in Int
      BY <1>1, <4>1
    <4> QED  BY <2>2, <4>2, <4>3
   <3>2. {i \in 1 .. l + 1 : Targets[i] <= scale} = 1 .. l + 1
    <4>1. \A i \in 1 .. l + 1 : i \in 1 .. l \/ i = l + 1
      OBVIOUS
    <4> QED  BY <2>2, <3>1, <4>1
   <3> QED  BY <3>2
  <2>3. CASE ~ (Targets[l + 1] <= scale)
   <3>1. {i \in 1 .. l + 1 : Targets[i] <= scale} = {i \in 1 .. l : Targets[i] <= scale}
    <4>1. \A i : i \in 1 .. l + 1 <=> i \in 1 .. l \/ i = l + 1
      OBVIOUS
    <4> QED  BY <2>3, <4>1
   <3>2. m \in 0 .. l + 1
     OBVIOUS
   <3> QED  BY <2>1, <3>1, <3>2
  <2> QED  BY <2>2, <2>3
 <1> HIDE DEF S
 <1>4. Len(Targets) \in S
   BY <1>1, <1>2, <1>3, CountingUp
 <1> QED  BY <1>1, <1>4 DEF S

(* FirstSnapshot names the first output later than where a launch starts.  *)
LEMMA FirstSnapshotIsNext ==
    ASSUME Plan, NEW scale \in Int
    PROVE  /\ FirstSnapshot(scale) \in 1 .. Len(Targets) + 1
           /\ \A i \in DOMAIN Targets : i < FirstSnapshot(scale) <=> Targets[i] <= scale
 <1>1. PICK m \in 0 .. Len(Targets) :
          {i \in DOMAIN Targets : Targets[i] <= scale} = 1 .. m
   BY ReachedAreFirst
 <1>2. Cardinality(1 .. m) = m
  <2>1. 1 \in Int /\ m \in Int
    OBVIOUS
  <2> QED  BY <2>1, FS_Interval
 <1>3. Len(Targets) \in Nat /\ DOMAIN Targets = 1 .. Len(Targets)
   BY DEF Plan
 <1>4. FirstSnapshot(scale) = m + 1
   BY <1>1, <1>2 DEF FirstSnapshot, Reached
 <1>5. ASSUME NEW i \in DOMAIN Targets  PROVE i < m + 1 <=> Targets[i] <= scale
  <2>1. Targets[i] <= scale <=> i \in 1 .. m
    BY <1>1
  <2>2. i \in 1 .. m <=> i < m + 1
    BY <1>3
  <2> QED  BY <2>1, <2>2
 <1> QED  BY <1>3, <1>4, <1>5

-----------------------------------------------------------------------------
(* The trajectory.                                                         *)

HalfStep(i) == Trajectory(i) \o <<StepOf(i)[1], StepOf(i)[2]>>
ForceOf(i) == [a |-> At(i), drifts |-> i]

LEMMA StepEntries ==
    ASSUME NEW i
    PROVE  /\ StepOf(i)[1] = [kind |-> "kick", step |-> i, half |-> 1,
                              force |-> ForceOf(i)]
           /\ StepOf(i)[2] = [kind |-> "drift", step |-> i, half |-> 0,
                              force |-> None]
           /\ StepOf(i)[3] = [kind |-> "kick", step |-> i, half |-> 2,
                              force |-> ForceOf(i + 1)]
  BY DEF StepOf, ForceOf

(* The entries of a trajectory, by place.                                  *)
AllEntries == {StepOf(i)[j] : i \in Nat, j \in 1 .. 3}
EntryAt(n) == StepOf((n - 1) \div 3)[((n - 1) % 3) + 1]

IsWalk(b, l) == /\ b \in Seq(AllEntries) /\ Len(b) = l /\ DOMAIN b = 1 .. l
                /\ \A n \in 1 .. l : b[n] = EntryAt(n)

LEMMA EntryPlaces ==
    ASSUME NEW k \in Nat
    PROVE  /\ EntryAt(3 * k + 1) = StepOf(k)[1]
           /\ EntryAt(3 * k + 2) = StepOf(k)[2]
           /\ EntryAt(3 * k + 3) = StepOf(k)[3]
           /\ \A j \in 1 .. 3 : StepOf(k)[j] \in AllEntries
 <1>1. /\ ((3 * k + 1) - 1) \div 3 = k /\ ((3 * k + 1) - 1) % 3 = 0
       /\ ((3 * k + 2) - 1) \div 3 = k /\ ((3 * k + 2) - 1) % 3 = 1
       /\ ((3 * k + 3) - 1) \div 3 = k /\ ((3 * k + 3) - 1) % 3 = 2
   OBVIOUS
 <1>2. EntryAt(3 * k + 1) = StepOf(k)[1]
   BY <1>1 DEF EntryAt
 <1>3. EntryAt(3 * k + 2) = StepOf(k)[2]
   BY <1>1 DEF EntryAt
 <1>4. EntryAt(3 * k + 3) = StepOf(k)[3]
   BY <1>1 DEF EntryAt
 <1>5. \A j \in 1 .. 3 : StepOf(k)[j] \in AllEntries
   BY DEF AllEntries
 <1> QED  BY <1>2, <1>3, <1>4, <1>5

LEMMA TrajectoryShape ==
    ASSUME NEW k \in Nat
    PROVE  IsWalk(Trajectory(k), 3 * k)
 <1>1. ASSUME NEW n \in 1 .. 3 * k  PROVE EntryAt(n) \in AllEntries
  <2>1. (n - 1) \div 3 \in Nat /\ ((n - 1) % 3) + 1 \in 1 .. 3
    OBVIOUS
  <2> QED  BY <2>1 DEF EntryAt, AllEntries
 <1>2. Trajectory(k) = [n \in 1 .. 3 * k |-> EntryAt(n)]
   BY DEF Trajectory, EntryAt
 <1>3. 3 * k \in Nat
   OBVIOUS
 <1>4. Trajectory(k) \in [1 .. 3 * k -> AllEntries]
   BY <1>1, <1>2
 <1>5. Trajectory(k) \in Seq(AllEntries) /\ Len(Trajectory(k)) = 3 * k
   BY <1>3, <1>4
 <1> QED  BY <1>2, <1>5 DEF IsWalk

(* One entry more, and two entries more, of a walk.                        *)
LEMMA WalkOn ==
    ASSUME NEW l \in Nat, NEW b, IsWalk(b, l),
           NEW p \in AllEntries, p = EntryAt(l + 1)
    PROVE  IsWalk(Append(b, p), l + 1)
 <1> DEFINE w == Append(b, p)
 <1>1. b \in Seq(AllEntries) /\ Len(b) = l
   BY DEF IsWalk
 <1>2. /\ w \in Seq(AllEntries) /\ Len(w) = l + 1 /\ DOMAIN w = 1 .. l + 1
       /\ w[l + 1] = p
       /\ \A n \in 1 .. l : w[n] = b[n]
   BY <1>1
 <1> HIDE DEF w
 <1>3. ASSUME NEW n \in 1 .. l + 1  PROVE w[n] = EntryAt(n)
  <2>1. CASE n = l + 1
    BY <1>2, <2>1
  <2>2. CASE n \in 1 .. l
    BY <1>2, <2>2 DEF IsWalk
  <2> QED  BY <2>1, <2>2
 <1>4. IsWalk(w, l + 1)
   BY <1>2, <1>3 DEF IsWalk
 <1> QED  BY <1>4 DEF w

LEMMA HalfStepShape ==
    ASSUME NEW k \in Nat
    PROVE  IsWalk(HalfStep(k), 3 * k + 2)
 <1> DEFINE p == StepOf(k)[1]
            q == StepOf(k)[2]
            b == Trajectory(k)
 <1>1. IsWalk(b, 3 * k) /\ b \in Seq(AllEntries)
   BY TrajectoryShape DEF IsWalk
 <1>2. /\ p \in AllEntries /\ p = EntryAt(3 * k + 1)
       /\ q \in AllEntries /\ q = EntryAt(3 * k + 2)
   BY EntryPlaces
 <1>3. HalfStep(k) = b \o <<p, q>>
   BY DEF HalfStep
 <1> HIDE DEF p, q, b
 <1>4. b \o <<p, q>> = Append(Append(b, p), q)
   BY <1>1, <1>2
 <1>5. 3 * k \in Nat /\ 3 * k + 1 \in Nat /\ (3 * k + 1) + 1 = 3 * k + 2
   OBVIOUS
 <1>6. IsWalk(Append(b, p), 3 * k + 1)
   BY <1>1, <1>2, <1>5, WalkOn
 <1>7. IsWalk(Append(Append(b, p), q), 3 * k + 2)
   BY <1>2, <1>5, <1>6, WalkOn
 <1> QED  BY <1>3, <1>4, <1>7

LEMMA StepCompletes ==
    ASSUME NEW k \in Nat
    PROVE  Append(HalfStep(k), StepOf(k)[3]) = Trajectory(k + 1)
 <1> DEFINE w == Append(HalfStep(k), StepOf(k)[3])
            b == Trajectory(k + 1)
 <1>1. 3 * k + 2 \in Nat /\ (3 * k + 2) + 1 = 3 * (k + 1) /\ k + 1 \in Nat
       /\ 3 * (k + 1) = 3 * k + 3 /\ 3 \in 1 .. 3
   OBVIOUS
 <1>2. StepOf(k)[3] \in AllEntries /\ StepOf(k)[3] = EntryAt((3 * k + 2) + 1)
   BY <1>1, EntryPlaces
 <1>3. IsWalk(w, (3 * k + 2) + 1)
   BY <1>1, <1>2, HalfStepShape, WalkOn
 <1>4. IsWalk(b, 3 * (k + 1))
   BY <1>1, TrajectoryShape
 <1> HIDE DEF w, b
 <1>5. w = b
   BY <1>1, <1>3, <1>4 DEF IsWalk
 <1> QED  BY <1>5 DEF w, b

(* One drift to a step.                                                    *)
DriftPlaces(k) == {n \in 1 .. 3 * k : (n - 1) % 3 = 1}

LEMMA DriftCount ==
    \A k \in Nat : /\ IsFiniteSet(DriftPlaces(k)) /\ Cardinality(DriftPlaces(k)) = k
 <1> DEFINE S == {k \in Nat : /\ IsFiniteSet(DriftPlaces(k))
                              /\ Cardinality(DriftPlaces(k)) = k}
 <1>1. 0 \in S
  <2>1. DriftPlaces(0) = {}
    BY DEF DriftPlaces
  <2> QED  BY <2>1, FS_EmptySet
 <1>2. ASSUME NEW k \in Nat, k \in S  PROVE k + 1 \in S
  <2>1. DriftPlaces(k + 1) = DriftPlaces(k) \union {3 * k + 2}
   <3>1. ASSUME NEW n
         PROVE  n \in DriftPlaces(k + 1) <=> n \in DriftPlaces(k) \/ n = 3 * k + 2
    <4>1. n \in 1 .. 3 * (k + 1) <=> \/ n \in 1 .. 3 * k
                                     \/ n \in {3 * k + 1, 3 * k + 2, 3 * k + 3}
      OBVIOUS
    <4>2. /\ ((3 * k + 1) - 1) % 3 = 0 /\ ((3 * k + 2) - 1) % 3 = 1
          /\ ((3 * k + 3) - 1) % 3 = 2
      OBVIOUS
    <4>3. 3 * k + 2 \notin 1 .. 3 * k
      OBVIOUS
    <4>4. CASE n \in 1 .. 3 * k
      BY <4>1, <4>4 DEF DriftPlaces
    <4>5. CASE n \notin 1 .. 3 * k
     <5>1. n \in DriftPlaces(k + 1)
             <=> n \in {3 * k + 1, 3 * k + 2, 3 * k + 3} /\ (n - 1) % 3 = 1
       BY <4>1, <4>5 DEF DriftPlaces
     <5> QED  BY <4>2, <4>5, <5>1 DEF DriftPlaces
    <4> QED  BY <4>4, <4>5
   <3> QED  BY <3>1
  <2>2. 3 * k + 2 \notin DriftPlaces(k)
    BY DEF DriftPlaces
  <2> QED  BY <1>2, <2>1, <2>2, FS_AddElement
 <1> HIDE DEF S
 <1>3. \A k \in Nat : k \in S
   BY <1>1, <1>2, CountingUp
 <1> QED  BY <1>3 DEF S

LEMMA DriftOrKick ==
    ASSUME NEW n \in Nat \ {0}
    PROVE  EntryAt(n).kind = "drift" <=> (n - 1) % 3 = 1
 <1> DEFINE i == (n - 1) \div 3
            j == (n - 1) % 3
 <1>1. j = 0 \/ j = 1 \/ j = 2
   OBVIOUS
 <1>2. EntryAt(n) = StepOf(i)[j + 1]
   BY DEF EntryAt
 <1>3. (n - 1) % 3 = j
   OBVIOUS
 <1> HIDE DEF i, j
 <1>4. /\ StepOf(i)[1].kind = "kick" /\ StepOf(i)[2].kind = "drift"
       /\ StepOf(i)[3].kind = "kick"
   BY DEF StepOf
 <1>5. CASE j = 0
   BY <1>2, <1>3, <1>4, <1>5
 <1>6. CASE j = 1
   BY <1>2, <1>3, <1>4, <1>6
 <1>7. CASE j = 2
   BY <1>2, <1>3, <1>4, <1>7
 <1> QED  BY <1>1, <1>5, <1>6, <1>7

LEMMA DriftsOfWalk ==
    ASSUME NEW l \in Nat, NEW b, IsWalk(b, l)
    PROVE  Drifts(b) = Cardinality({n \in 1 .. l : (n - 1) % 3 = 1})
 <1>1. ASSUME NEW n \in 1 .. l  PROVE b[n].kind = "drift" <=> (n - 1) % 3 = 1
  <2>1. n \in Nat \ {0} /\ b[n] = EntryAt(n)
    BY DEF IsWalk
  <2> QED  BY <2>1, DriftOrKick
 <1>2. DOMAIN b = 1 .. l
   BY DEF IsWalk
 <1>3. {n \in DOMAIN b : b[n].kind = "drift"} = {n \in 1 .. l : (n - 1) % 3 = 1}
   BY <1>1, <1>2
 <1> QED  BY <1>3 DEF Drifts

LEMMA DriftsOfTrajectory ==
    ASSUME NEW k \in Nat
    PROVE  Drifts(Trajectory(k)) = k /\ Drifts(HalfStep(k)) = k + 1
 <1>1. Drifts(Trajectory(k)) = Cardinality(DriftPlaces(k))
  <2>1. 3 * k \in Nat
    OBVIOUS
  <2> QED  BY <2>1, TrajectoryShape, DriftsOfWalk DEF DriftPlaces
 <1>2. {n \in 1 .. 3 * k + 2 : (n - 1) % 3 = 1} = DriftPlaces(k + 1)
  <2>1. ((3 * k + 3) - 1) % 3 = 2
    OBVIOUS
  <2>2. \A n : n \in 1 .. 3 * (k + 1) <=> n \in 1 .. 3 * k + 2 \/ n = 3 * k + 3
    OBVIOUS
  <2> QED  BY <2>1, <2>2 DEF DriftPlaces
 <1>3. Drifts(HalfStep(k)) = Cardinality(DriftPlaces(k + 1))
  <2>1. 3 * k + 2 \in Nat
    OBVIOUS
  <2> QED  BY <1>2, <2>1, HalfStepShape, DriftsOfWalk
 <1>4. k + 1 \in Nat
   OBVIOUS
 <1> QED  BY <1>1, <1>3, <1>4, DriftCount

-----------------------------------------------------------------------------
(* The invariant.                                                          *)

(* Types.                                                                  *)
Forces == [a : Int, drifts : Int]
Entries == [kind : {"kick", "drift"}, step : Nat, half : Nat, force : Forces]
Bodies == Seq(Entries)
Points == [segment : Nat, step : Nat, a : Int, body : Bodies]
Outputs == [segment : Nat, index : Nat, a : Int, body : Bodies]

AtBoundary == {"sampling", "loop", "kick", "sample", "snapshot", "checkpoint", "done"}
Running == {"sampling", "loop", "kick", "refresh", "kick2", "sample", "snapshot",
            "checkpoint"}

TypeOK ==
    /\ Scheduled
    /\ segment \in Nat
    /\ parents \in Seq(Points)
    /\ pc \in Running \union {"idle", "failed", "done"}
    /\ step \in Nat /\ a \in Int /\ body \in Bodies
    /\ acceleration \in [validity : {"INVALID", "VALID", "STALE"}, force : Forces]
    /\ prepared \in Int /\ potential \in Forces /\ energy \in Forces
    /\ next_snapshot \in Nat \ {0} /\ final_written \in BOOLEAN
    /\ snapshots \in SUBSET Outputs /\ checkpoints \in SUBSET Points

(* Where a segment came from: nothing, or a checkpoint of an earlier one.  *)
OriginsAreEarlier ==
    /\ Len(parents) = segment
    /\ pc # "idle" => segment # 0
    /\ \A s \in 1 .. segment : parents[s] = Fresh \/ parents[s] \in checkpoints
    /\ \A s \in 1 .. segment : parents[s].segment < s
    /\ \A c \in checkpoints : c.segment \in 1 .. segment
    /\ \A x \in snapshots : x.segment \in 1 .. segment

(* The particles, also in the middle of a step and in every checkpoint.    *)
BodyOfStep ==
    /\ pc \in Running \union {"done"} => step \in 0 .. NumSteps /\ a = At(step)
    /\ pc \in {"kick", "refresh", "kick2"} => step < NumSteps
    /\ pc \in AtBoundary => body = Trajectory(step)
    /\ pc \in {"refresh", "kick2"} => body = HalfStep(step)
    /\ \A c \in checkpoints : /\ c.step \in 0 .. NumSteps
                              /\ c.a = At(c.step)
                              /\ c.body = Trajectory(c.step)

(* A force that is valid is the force of the particles as they are.        *)
ForceOfBody ==
    /\ (pc \in AtBoundary \ {"done"} /\ acceleration.validity = "VALID")
          => acceleration.force = [a |-> prepared, drifts |-> step]
    /\ pc = "kick" => acceleration.force = ForceOf(step)
    /\ pc = "kick2" => /\ acceleration = [validity |-> "VALID",
                                          force |-> ForceOf(step + 1)]
                       /\ prepared = At(step + 1)
                       /\ potential \in {None, ForceOf(step + 1)}
    /\ pc = "sample" => /\ acceleration.force = ForceOf(step)
                        /\ potential \in {None, ForceOf(step)}
    /\ (pc \in {"snapshot", "checkpoint"} /\ config.diagnostics)
          => energy = ForceOf(step)

(* How far the outputs have come.                                          *)
Own(s, i) == \E x \in snapshots : x.segment = s /\ x.index = i /\ x.a = Targets[i]

OutputsInStep ==
    /\ next_snapshot \in 1 .. Len(Targets) + 1
    /\ pc \in (Running \ {"sample", "snapshot"}) \union {"done"} =>
         \A i \in DOMAIN Targets : i < next_snapshot <=> Targets[i] <= a
    /\ pc \in {"sample", "snapshot"} =>
         \A i \in DOMAIN Targets : i < next_snapshot <=> Targets[i] < a
    /\ pc \in Running \union {"done"} =>
         \A i \in DOMAIN Targets :
            (i < next_snapshot /\ Targets[i] > parents[segment].a) => Own(segment, i)
    /\ \A c \in checkpoints : \A i \in DOMAIN Targets :
            (Targets[i] <= c.a /\ Targets[i] > parents[c.segment].a)
               => Own(c.segment, i)

FinalInStep ==
    /\ pc \in Running =>
         \A x \in snapshots : x.segment = segment =>
            /\ x.index < next_snapshot
            /\ x.a = config.final => final_written
    /\ (pc \in Running /\ final_written) \/ pc = "done" =>
         \E x \in snapshots : x.segment = segment /\ x.a = config.final
    /\ pc = "done" => a = config.final

IInv == /\ TypeOK /\ OriginsAreEarlier /\ BodyOfStep /\ ForceOfBody
        /\ OutputsInStep /\ FinalInStep /\ SnapshotsHoldTheirEpoch

-----------------------------------------------------------------------------
(* What the ancestors of a segment left.                                   *)

IsLineage(f, n) ==
    f = [s \in 0 .. n |->
           IF s = 0 THEN {}
           ELSE {x \in snapshots : x.segment = s}
                \union {x \in f[parents[s].segment] : x.a <= parents[s].a}]

LEMMA LineageExists ==
    ASSUME TypeOK, OriginsAreEarlier
    PROVE  IsLineage(Lineage, segment)
 <1>1. segment \in Nat
   BY DEF TypeOK
 <1>2. ASSUME NEW s \in 1 .. segment
       PROVE  parents[s].segment \in 0 .. s - 1
  <2>1. parents[s] \in Points
    BY DEF TypeOK, OriginsAreEarlier
  <2>2. parents[s].segment \in Nat /\ parents[s].segment < s
    BY <2>1 DEF Points, OriginsAreEarlier
  <2> QED  BY <2>2
 <1> DEFINE S == {n \in Nat : n <= segment => \E f : IsLineage(f, n)}
 <1>3. 0 \in S
  <2> DEFINE f == [s \in 0 .. 0 |-> {}]
  <2>1. IsLineage(f, 0)
    BY DEF IsLineage
  <2> QED  BY <2>1
 <1>4. ASSUME NEW n \in Nat, n \in S  PROVE n + 1 \in S
  <2> SUFFICES ASSUME n + 1 <= segment  PROVE \E f : IsLineage(f, n + 1)
    OBVIOUS
  <2>1. PICK f : IsLineage(f, n)
    BY <1>1, <1>4
  <2> DEFINE own(s) == {x \in snapshots : x.segment = s}
             more(h, s) == {x \in h[parents[s].segment] : x.a <= parents[s].a}
             g == [s \in 0 .. n + 1 |-> IF s = n + 1 THEN own(s) \union more(f, s)
                                                     ELSE f[s]]
  <2>2. \A s \in 0 .. n : g[s] = f[s]
    OBVIOUS
  <2>3. \A s \in 1 .. n + 1 : more(g, s) = more(f, s)
   <3> TAKE s \in 1 .. n + 1
   <3>1. s \in 1 .. segment
     BY <1>1
   <3>2. parents[s].segment \in 0 .. n
     BY <1>2, <3>1
   <3> HIDE DEF g
   <3> QED  BY <2>2, <3>2
  <2>4. ASSUME NEW s \in 0 .. n + 1
        PROVE  g[s] = IF s = 0 THEN {} ELSE own(s) \union more(g, s)
   <3>1. CASE s = n + 1
    <4>1. s \in 1 .. n + 1 /\ s # 0
      BY <3>1
    <4>2. g[s] = own(s) \union more(f, s)
      BY <3>1
    <4>3. more(g, s) = more(f, s)
      BY <2>3, <4>1
    <4> HIDE DEF g, own, more
    <4> QED  BY <4>1, <4>2, <4>3
   <3>2. CASE s # n + 1
    <4>1. s \in 0 .. n /\ (s # 0 => s \in 1 .. n + 1)
      BY <3>2
    <4>2. f[s] = IF s = 0 THEN {} ELSE own(s) \union more(f, s)
      BY <2>1, <4>1 DEF IsLineage
    <4> HIDE DEF g, own, more
    <4> QED  BY <2>2, <2>3, <4>1, <4>2
   <3> QED  BY <3>1, <3>2
  <2>5. IsLineage(g, n + 1)
   <3>1. g = [s \in 0 .. n + 1 |-> g[s]]
     OBVIOUS
   <3> HIDE DEF g
   <3> QED  BY <2>4, <3>1 DEF IsLineage
  <2> HIDE DEF g
  <2> QED  BY <2>5
 <1> HIDE DEF S
 <1>5. \E f : IsLineage(f, segment)
  <2>1. segment \in S
    BY <1>1, <1>3, <1>4, CountingUp
  <2> QED  BY <1>1, <2>1 DEF S
 <1> DEFINE f == CHOOSE h : IsLineage(h, segment)
 <1>6. IsLineage(f, segment)
   BY <1>5
 <1>7. Lineage = f
   BY DEF Lineage, IsLineage
 <1> HIDE DEF f
 <1> QED  BY <1>6, <1>7

(* What a segment did not write itself is with its ancestors.              *)
Inherited(s) ==
    \A i \in DOMAIN Targets : Targets[i] <= parents[s].a =>
       \E x \in Lineage[parents[s].segment] : x.index = i /\ x.a = Targets[i]

LEMMA LineageHolds ==
    ASSUME TypeOK, OriginsAreEarlier, NEW s \in 1 .. segment
    PROVE  /\ \A x \in snapshots : x.segment = s => x \in Lineage[s]
           /\ \A x \in Lineage[parents[s].segment] :
                 x.a <= parents[s].a => x \in Lineage[s]
 <1>1. IsLineage(Lineage, segment)
   BY LineageExists
 <1>2. s \in 0 .. segment /\ s # 0
   BY DEF TypeOK
 <1>3. Lineage[s] = {x \in snapshots : x.segment = s}
          \union {x \in Lineage[parents[s].segment] : x.a <= parents[s].a}
   BY <1>1, <1>2 DEF IsLineage
 <1> QED  BY <1>3

LEMMA AncestorsHoldTheRest ==
    ASSUME TypeOK, OriginsAreEarlier, OutputsInStep
    PROVE  \A s \in 1 .. segment : Inherited(s)
 <1>1. Plan /\ segment \in Nat
   BY RunPlan DEF TypeOK
 <1> DEFINE S == {n \in Nat : \A s \in 1 .. n : s <= segment => Inherited(s)}
 <1>2. 0 \in S
   OBVIOUS
 <1>3. ASSUME NEW n \in Nat, n \in S  PROVE n + 1 \in S
  <2> SUFFICES ASSUME n + 1 <= segment  PROVE Inherited(n + 1)
   <3>1. \A s \in 1 .. n + 1 : s \in 1 .. n \/ s = n + 1
     OBVIOUS
   <3> HIDE DEF Inherited
   <3> QED  BY <1>3, <3>1
  <2> DEFINE s == n + 1
             c == parents[s]
  <2>1. s \in 1 .. segment
    BY <1>1
  <2>2. c = Fresh \/ c \in checkpoints
    BY <2>1 DEF OriginsAreEarlier
  <2> SUFFICES ASSUME NEW i \in DOMAIN Targets, Targets[i] <= c.a
               PROVE  \E x \in Lineage[c.segment] : x.index = i /\ x.a = Targets[i]
    BY DEF Inherited
  <2>3. Targets[i] \in Nat
    BY <1>1 DEF Plan
  <2>4. CASE c = Fresh
   <3>1. c.a = -1
     BY <2>4 DEF Fresh
   <3> QED  BY <2>3, <3>1
  <2>5. CASE c \in checkpoints
   <3> DEFINE q == c.segment
   <3>1. q \in 1 .. segment /\ q < s
     BY <2>1, <2>5 DEF OriginsAreEarlier
   <3>2. q \in 1 .. n /\ q <= segment
     BY <1>1, <3>1
   <3>3. parents[q] \in Points
     BY <3>1 DEF TypeOK, OriginsAreEarlier
   <3>4. parents[q].a \in Int
     BY <3>3 DEF Points
   <3>7. /\ \A x \in snapshots : x.segment = q => x \in Lineage[q]
         /\ \A x \in Lineage[parents[q].segment] :
               x.a <= parents[q].a => x \in Lineage[q]
     BY <3>1, LineageHolds
   <3>5. CASE Targets[i] > parents[q].a
    <4>1. Own(q, i)
      BY <2>5, <3>5 DEF OutputsInStep
    <4> QED  BY <3>7, <4>1 DEF Own
   <3>6. CASE Targets[i] <= parents[q].a
    <4>1. Inherited(q)
      BY <1>3, <3>2
    <4>2. PICK x \in Lineage[parents[q].segment] :
             x.index = i /\ x.a = Targets[i]
      BY <3>6, <4>1 DEF Inherited
    <4> QED  BY <3>6, <3>7, <4>2
   <3> QED  BY <2>3, <3>4, <3>5, <3>6
  <2> QED  BY <2>2, <2>4, <2>5
 <1> HIDE DEF S
 <1>4. \A n \in Nat : n \in S
   BY <1>2, <1>3, CountingUp
 <1> QED  BY <1>1, <1>4 DEF S

-----------------------------------------------------------------------------
(* What the invariant implies.                                             *)

LEMMA InvariantIsKDK == IInv => TrajectoryIsKDK
  BY DEF IInv, BodyOfStep, TrajectoryIsKDK, AtBoundary, Running

LEMMA InvariantHoldsEpochs == IInv => OutputsHoldTheirEpoch
 <1> SUFFICES ASSUME IInv  PROVE OutputsHoldTheirEpoch
   OBVIOUS
 <1>1. ASSUME config.diagnostics, pc \in {"snapshot", "checkpoint"}
       PROVE  energy = [a |-> a, drifts |-> step]
   BY <1>1 DEF IInv, ForceOfBody, BodyOfStep, ForceOf, Running
 <1> QED  BY <1>1 DEF IInv, OutputsHoldTheirEpoch

LEMMA InvariantWritesOnce == IInv => EveryOutputOnce
 <1> SUFFICES ASSUME IInv  PROVE EveryOutputOnce
   OBVIOUS
 <1>1. Plan /\ TypeOK /\ OriginsAreEarlier /\ OutputsInStep
   BY RunPlan DEF IInv, TypeOK
 <1>2. ASSUME pc = "done", NEW i \in DOMAIN Targets
       PROVE  \E x \in Lineage[segment] : x.index = i /\ x.a = Targets[i]
  <2>1. segment \in 1 .. segment
    BY <1>1, <1>2 DEF TypeOK, OriginsAreEarlier
  <2>2. parents[segment].a \in Int
   <3>1. parents[segment] \in Points
     BY <1>1, <2>1 DEF TypeOK, OriginsAreEarlier
   <3> QED  BY <3>1 DEF Points
  <2>3. Targets[i] \in Int /\ Targets[i] <= a
    BY <1>1, <1>2 DEF IInv, FinalInStep, Plan
  <2>4. i < next_snapshot
    BY <1>1, <1>2, <2>3 DEF OutputsInStep
  <2>5. CASE Targets[i] > parents[segment].a
   <3>1. Own(segment, i)
     BY <1>1, <1>2, <2>4, <2>5 DEF OutputsInStep
   <3>2. \A x \in snapshots : x.segment = segment => x \in Lineage[segment]
     BY <1>1, <2>1, LineageHolds
   <3> QED  BY <3>1, <3>2 DEF Own
  <2>6. CASE Targets[i] <= parents[segment].a
   <3>1. Inherited(segment)
     BY <1>1, <2>1, AncestorsHoldTheRest
   <3>2. PICK x \in Lineage[parents[segment].segment] :
            x.index = i /\ x.a = Targets[i]
     BY <2>6, <3>1 DEF Inherited
   <3>3. x \in Lineage[segment]
     BY <1>1, <2>1, <2>6, <3>2, LineageHolds
   <3> QED  BY <3>2, <3>3
  <2> QED  BY <2>2, <2>3, <2>5, <2>6
 <1>3. pc = "done" => \E x \in snapshots : x.segment = segment /\ x.a = config.final
   BY DEF IInv, FinalInStep
 <1>4. \A x \in snapshots : x.index \in Nat /\ x.segment \in Nat
   BY <1>1 DEF TypeOK, Outputs
 <1>5. next_snapshot \in Nat \ {0}
   BY <1>1 DEF TypeOK
 <1>6. (pc = "snapshot" /\ SnapshotIsDue) => ~ Taken(next_snapshot)
   BY <1>4, <1>5 DEF IInv, FinalInStep, Running, Taken
 <1>7. ASSUME pc = "loop", step = NumSteps, ~ final_written
       PROVE  ~ Taken(FinalIndex)
  <2>1. a = config.final
    BY <1>1, <1>7 DEF IInv, BodyOfStep, Running, Plan
  <2>2. \A x \in snapshots : x.segment = segment =>
           x.index < next_snapshot /\ x.a # config.final
    BY <1>7 DEF IInv, FinalInStep, Running
  <2>3. CASE FinalIndex = next_snapshot
    BY <1>4, <1>5, <2>2, <2>3 DEF Taken
  <2>4. CASE FinalIndex # next_snapshot
   <3>1. /\ next_snapshot > 1 /\ Targets[next_snapshot - 1] = a
         /\ FinalIndex = next_snapshot - 1
     BY <2>4 DEF FinalIndex
   <3>2. next_snapshot - 1 <= Len(Targets)
     BY <1>1, <1>5 DEF OutputsInStep, Plan
   <3>3. ASSUME NEW x \in snapshots, x.index = next_snapshot - 1
         PROVE  x.a = config.final
     BY <2>1, <3>1, <3>2, <3>3 DEF IInv, SnapshotsHoldTheirEpoch
   <3> QED  BY <2>2, <3>1, <3>3 DEF Taken
  <2> QED  BY <2>3, <2>4
 <1> QED  BY <1>2, <1>3, <1>6, <1>7 DEF EveryOutputOnce

-----------------------------------------------------------------------------
(* The invariant holds at first.                                           *)

LEMMA InvariantStarts == Init => IInv
 <1> SUFFICES ASSUME Init  PROVE IInv
   OBVIOUS
 <1>1. Scheduled
   BY DEF Init, Scheduled
 <1>2. Plan
   BY <1>1, RunPlan
 <1>3. TypeOK
  <2>1. None \in Forces
    BY DEF None, Forces
  <2>2. /\ <<>> \in Seq(Points) /\ <<>> \in Bodies
        /\ [validity |-> "INVALID", force |-> None]
              \in [validity : {"INVALID", "VALID", "STALE"}, force : Forces]
    BY <2>1 DEF Bodies
  <2>3. /\ segment \in Nat /\ step \in Nat /\ a \in Int /\ prepared \in Int
        /\ next_snapshot \in Nat \ {0}
    BY DEF Init, NotPrepared
  <2>5. /\ final_written \in BOOLEAN
        /\ pc \in Running \union {"idle", "failed", "done"}
        /\ snapshots \in SUBSET Outputs /\ checkpoints \in SUBSET Points
    BY Zenon DEF Init
  <2>4. /\ parents \in Seq(Points) /\ body \in Bodies
        /\ acceleration \in [validity : {"INVALID", "VALID", "STALE"},
                            force : Forces]
        /\ potential \in Forces /\ energy \in Forces
    BY <2>1, <2>2 DEF Init
  <2> QED  BY <1>1, <2>3, <2>4, <2>5 DEF TypeOK
 <1>4. OriginsAreEarlier
   BY DEF Init, OriginsAreEarlier
 <1>5. BodyOfStep
   BY DEF Init, BodyOfStep, Running, AtBoundary
 <1>6. ForceOfBody
   BY DEF Init, ForceOfBody, AtBoundary
 <1>7. OutputsInStep
   BY <1>2 DEF Init, OutputsInStep, Running, Plan
 <1>8. FinalInStep
   BY DEF Init, FinalInStep, Running
 <1>9. SnapshotsHoldTheirEpoch
   BY DEF Init, SnapshotsHoldTheirEpoch
 <1> QED  BY <1>3, <1>4, <1>5, <1>6, <1>7, <1>8, <1>9 DEF IInv

-----------------------------------------------------------------------------
(* Every step keeps the schedule, so what it defines stays.                *)

LEMMA SameSchedule ==
    ASSUME UNCHANGED <<config, table>>
    PROVE  /\ Scheduled' <=> Scheduled
           /\ NumSteps' = NumSteps /\ Targets' = Targets
           /\ \A k : At(k)' = At(k)
           /\ \A k : Trajectory(k)' = Trajectory(k)
           /\ \A k : HalfStep(k)' = HalfStep(k)
           /\ \A k : ForceOf(k)' = ForceOf(k)
  BY DEF Scheduled, NumSteps, Targets, At, Trajectory, StepOf, HalfStep, ForceOf

(* What a step of a running segment that publishes nothing leaves alone.   *)
LEMMA OriginsStay ==
    ASSUME OriginsAreEarlier, pc # "idle",
           UNCHANGED <<segment, parents, snapshots, checkpoints>>
    PROVE  OriginsAreEarlier'
  BY DEF OriginsAreEarlier

LEMMA EpochsStay ==
    ASSUME SnapshotsHoldTheirEpoch, UNCHANGED <<config, table, snapshots>>
    PROVE  SnapshotsHoldTheirEpoch'
  BY SameSchedule DEF SnapshotsHoldTheirEpoch

LEMMA OutputsStay ==
    ASSUME OutputsInStep,
           UNCHANGED <<config, table, segment, parents, a, next_snapshot,
                       snapshots, checkpoints>>,
           \/ pc' = "failed"
           \/ /\ pc \in Running \ {"sample", "snapshot"}
              /\ pc' \in Running \ {"sample", "snapshot"}
           \/ pc \in {"sample", "snapshot"} /\ pc' \in {"sample", "snapshot"}
    PROVE  OutputsInStep'
 <1>1. Targets' = Targets
   BY SameSchedule
 <1>2. \A s, i : Own(s, i)' <=> Own(s, i)
   BY <1>1 DEF Own
 <1> QED  BY <1>1, <1>2 DEF OutputsInStep, Running

LEMMA FinalStays ==
    ASSUME FinalInStep, pc \in Running, pc' \in Running \union {"failed"},
           UNCHANGED <<config, segment, a, next_snapshot, final_written, snapshots>>
    PROVE  FinalInStep'
  BY DEF FinalInStep, Running

(* Every force that is computed is of the particles as they are.           *)
LEMMA ForceTypes ==
    ASSUME NEW scale \in Int, Drifts(body) \in Nat
    PROVE  /\ ForceAt(scale) \in Forces /\ None \in Forces
           /\ LeftPotential(scale) \in {None, ForceAt(scale)}
  BY DEF ForceAt, Forces, None, LeftPotential

LEMMA EnsuredForce ==
    ASSUME TypeOK, NEW scale \in Int, NEW kept \in Forces, NEW i \in Nat,
           Drifts(body) = i,
           acceleration.validity = "VALID" =>
              acceleration.force = [a |-> prepared, drifts |-> i],
           EnsureForceAt(scale, kept)
    PROVE  /\ acceleration' = [validity |-> "VALID",
                               force |-> [a |-> scale, drifts |-> i]]
           /\ prepared' = scale
           /\ potential' \in {kept, None, [a |-> scale, drifts |-> i]}
           /\ acceleration' \in [validity : {"INVALID", "VALID", "STALE"},
                                 force : Forces]
           /\ prepared' \in Int /\ potential' \in Forces
 <1> DEFINE force == [a |-> scale, drifts |-> i]
 <1>1. force \in Forces /\ None \in Forces /\ ForceAt(scale) = force
   BY DEF Forces, None, ForceAt
 <1>2. CASE ForceIsCurrent(scale) /\ potential' = kept
            /\ UNCHANGED <<acceleration, prepared>>
  <2>1. acceleration.validity = "VALID" /\ prepared = scale
        /\ acceleration.force = force
    BY <1>2 DEF ForceIsCurrent
  <2>2. acceleration = [validity |-> "VALID", force |-> force]
    BY <2>1 DEF TypeOK
  <2> QED  BY <1>1, <1>2, <2>1, <2>2 DEF TypeOK
 <1>3. CASE TriggerForceSolve(scale)
   BY <1>1, <1>3 DEF TriggerForceSolve, LeftPotential
 <1> QED  BY <1>2, <1>3 DEF EnsureForceAt

LEMMA PotentialType ==
    ASSUME NEW left \in Forces, NEW force \in Forces, NEW scale \in Int
    PROVE  PotentialOf(left, force, scale) \in Forces
  BY DEF PotentialOf, Forces

-----------------------------------------------------------------------------
(* The steps.                                                              *)

LEMMA FirstSampleKeeps == IInv /\ FirstSample => IInv'
 <1> SUFFICES ASSUME IInv, FirstSample  PROVE IInv'
   OBVIOUS
 <1>1. /\ TypeOK /\ OriginsAreEarlier /\ BodyOfStep /\ ForceOfBody
       /\ OutputsInStep /\ FinalInStep /\ SnapshotsHoldTheirEpoch
   BY DEF IInv
 <1>2. /\ pc = "sampling" /\ pc' = "loop" /\ EnsureForceAt(a, potential)
       /\ energy' = PotentialOf(potential', acceleration'.force, a)
       /\ UNCHANGED <<config, table, segment, parents, step, a, body,
                      next_snapshot, final_written, snapshots, checkpoints>>
   BY DEF FirstSample
 <1>3. /\ step \in Nat /\ step \in 0 .. NumSteps /\ a = At(step)
       /\ body = Trajectory(step) /\ a \in Int
   BY <1>1, <1>2 DEF TypeOK, BodyOfStep, Running, AtBoundary
 <1>4. Drifts(body) = step
   BY <1>3, DriftsOfTrajectory
 <1>5. acceleration.validity = "VALID" =>
         acceleration.force = [a |-> prepared, drifts |-> step]
   BY <1>1, <1>2 DEF ForceOfBody, AtBoundary
 <1>6. /\ acceleration' = [validity |-> "VALID",
                           force |-> [a |-> a, drifts |-> step]]
       /\ prepared' = a
       /\ acceleration' \in [validity : {"INVALID", "VALID", "STALE"},
                             force : Forces]
       /\ prepared' \in Int /\ potential' \in Forces
  <2>1. potential \in Forces
    BY <1>1 DEF TypeOK
  <2> QED  BY <1>1, <1>2, <1>3, <1>4, <1>5, <2>1, EnsuredForce
 <1>7. TypeOK'
  <2>1. energy' \in Forces
   <3>1. acceleration'.force \in Forces
     BY <1>6
   <3> QED  BY <1>2, <1>3, <1>6, <3>1, PotentialType
  <2> QED  BY <1>1, <1>2, <1>6, <2>1, SameSchedule DEF TypeOK, Running
 <1>8. BodyOfStep'
   BY <1>1, <1>2, <1>3, SameSchedule DEF BodyOfStep, Running, AtBoundary
 <1>9. ForceOfBody'
   BY <1>2, <1>6 DEF ForceOfBody, AtBoundary
 <1>10. OriginsAreEarlier' /\ SnapshotsHoldTheirEpoch'
   BY <1>1, <1>2, OriginsStay, EpochsStay
 <1>11. OutputsInStep'
   BY <1>1, <1>2, OutputsStay DEF Running
 <1>12. FinalInStep'
   BY <1>1, <1>2, FinalStays DEF Running
 <1> QED  BY <1>7, <1>8, <1>9, <1>10, <1>11, <1>12 DEF IInv

LEMMA BeginStepKeeps == IInv /\ BeginStep => IInv'
 <1> SUFFICES ASSUME IInv, BeginStep  PROVE IInv'
   OBVIOUS
 <1>1. /\ TypeOK /\ OriginsAreEarlier /\ BodyOfStep /\ ForceOfBody
       /\ OutputsInStep /\ FinalInStep /\ SnapshotsHoldTheirEpoch
   BY DEF IInv
 <1>2. /\ pc = "loop" /\ pc' = "kick" /\ step < NumSteps
       /\ EnsureForceAt(At(step), None)
       /\ UNCHANGED <<config, table, segment, parents, step, a, body, energy,
                      next_snapshot, final_written, snapshots, checkpoints>>
   BY DEF BeginStep
 <1>3. /\ step \in Nat /\ step \in 0 .. NumSteps /\ a = At(step)
       /\ body = Trajectory(step) /\ At(step) \in Int
   BY <1>1, <1>2 DEF TypeOK, BodyOfStep, Running, AtBoundary
 <1>4. Drifts(body) = step
   BY <1>3, DriftsOfTrajectory
 <1>5. acceleration.validity = "VALID" =>
         acceleration.force = [a |-> prepared, drifts |-> step]
   BY <1>1, <1>2 DEF ForceOfBody, AtBoundary
 <1>6. /\ acceleration' = [validity |-> "VALID",
                           force |-> [a |-> At(step), drifts |-> step]]
       /\ prepared' = At(step)
       /\ acceleration' \in [validity : {"INVALID", "VALID", "STALE"},
                             force : Forces]
       /\ prepared' \in Int /\ potential' \in Forces
  <2>1. None \in Forces
    BY DEF None, Forces
  <2> QED  BY <1>1, <1>2, <1>3, <1>4, <1>5, <2>1, EnsuredForce
 <1>7. TypeOK'
   BY <1>1, <1>2, <1>6, SameSchedule DEF TypeOK, Running
 <1>8. BodyOfStep'
   BY <1>1, <1>2, <1>3, SameSchedule DEF BodyOfStep, Running, AtBoundary
 <1>9. ForceOfBody'
  <2>1. acceleration'.force = ForceOf(step) /\ ForceOf(step)' = ForceOf(step)
    BY <1>2, <1>6, SameSchedule DEF ForceOf
  <2> QED  BY <1>2, <1>6, <2>1 DEF ForceOfBody, AtBoundary
 <1>10. OriginsAreEarlier' /\ SnapshotsHoldTheirEpoch'
   BY <1>1, <1>2, OriginsStay, EpochsStay
 <1>11. OutputsInStep'
   BY <1>1, <1>2, OutputsStay DEF Running
 <1>12. FinalInStep'
   BY <1>1, <1>2, FinalStays DEF Running
 <1> QED  BY <1>7, <1>8, <1>9, <1>10, <1>11, <1>12 DEF IInv

LEMMA KickDriftKeeps == IInv /\ KickDrift => IInv'
 <1> SUFFICES ASSUME IInv, KickDrift  PROVE IInv'
   OBVIOUS
 <1>1. /\ TypeOK /\ OriginsAreEarlier /\ BodyOfStep /\ ForceOfBody
       /\ OutputsInStep /\ FinalInStep /\ SnapshotsHoldTheirEpoch
   BY DEF IInv
 <1>2. /\ pc = "kick" /\ pc' = "refresh"
       /\ body' = body \o <<Kick(1), Drift>>
       /\ acceleration' = [acceleration EXCEPT !.validity = "STALE"]
       /\ prepared' = NotPrepared
       /\ UNCHANGED <<config, table, segment, parents, step, a, potential,
                      energy, next_snapshot, final_written, snapshots,
                      checkpoints>>
   BY DEF KickDrift, Retire
 <1>3. /\ step \in Nat /\ step \in 0 .. NumSteps /\ a = At(step)
       /\ step < NumSteps /\ body = Trajectory(step)
       /\ acceleration.force = ForceOf(step)
   BY <1>1, <1>2 DEF TypeOK, BodyOfStep, ForceOfBody, Running, AtBoundary
 <1>4. /\ Kick(1) = StepOf(step)[1] /\ Drift = StepOf(step)[2]
   BY <1>3 DEF Kick, Drift, StepOf, ForceOf
 <1>5. body' = HalfStep(step)
   BY <1>2, <1>3, <1>4 DEF HalfStep
 <1>6. TypeOK'
  <2>1. /\ Kick(1) \in Entries /\ Drift \in Entries
   <3>1. acceleration.force \in Forces /\ None \in Forces
     BY <1>1 DEF TypeOK, None, Forces
   <3> QED  BY <1>3, <3>1 DEF Kick, Drift, Entries
  <2>2. body' \in Bodies
   <3>1. body \in Seq(Entries)
     BY <1>1 DEF TypeOK, Bodies
   <3> HIDE DEF Kick, Drift, Entries
   <3>2. <<Kick(1), Drift>> \in Seq(Entries)
     BY <2>1
   <3>3. body \o <<Kick(1), Drift>> \in Seq(Entries)
     BY <3>1, <3>2
   <3> QED  BY <1>2, <3>3 DEF Bodies
  <2>3. acceleration' \in [validity : {"INVALID", "VALID", "STALE"},
                           force : Forces]
        /\ prepared' \in Int
    BY <1>1, <1>2 DEF TypeOK, NotPrepared
  <2> QED  BY <1>1, <1>2, <2>2, <2>3, SameSchedule DEF TypeOK, Running
 <1>7. BodyOfStep'
   BY <1>1, <1>2, <1>3, <1>5, SameSchedule DEF BodyOfStep, Running, AtBoundary
 <1>8. ForceOfBody'
   BY <1>2 DEF ForceOfBody, AtBoundary
 <1>9. OriginsAreEarlier' /\ SnapshotsHoldTheirEpoch'
   BY <1>1, <1>2, OriginsStay, EpochsStay
 <1>10. OutputsInStep'
   BY <1>1, <1>2, OutputsStay DEF Running
 <1>11. FinalInStep'
   BY <1>1, <1>2, FinalStays DEF Running
 <1> QED  BY <1>6, <1>7, <1>8, <1>9, <1>10, <1>11 DEF IInv

LEMMA RefreshForceKeeps == IInv /\ RefreshForce => IInv'
 <1> SUFFICES ASSUME IInv, RefreshForce  PROVE IInv'
   OBVIOUS
 <1>1. /\ TypeOK /\ OriginsAreEarlier /\ BodyOfStep /\ ForceOfBody
       /\ OutputsInStep /\ FinalInStep /\ SnapshotsHoldTheirEpoch
   BY DEF IInv
 <1>2. /\ pc = "refresh" /\ pc' = "kick2" /\ TriggerForceSolve(At(step + 1))
       /\ UNCHANGED <<config, table, segment, parents, step, a, body, energy,
                      next_snapshot, final_written, snapshots, checkpoints>>
   BY DEF RefreshForce
 <1>3. /\ step \in Nat /\ step \in 0 .. NumSteps /\ a = At(step)
       /\ step < NumSteps /\ body = HalfStep(step)
   BY <1>1, <1>2 DEF TypeOK, BodyOfStep, Running
 <1>4. Drifts(body) = step + 1
   BY <1>3, DriftsOfTrajectory
 <1>5. At(step + 1) \in Int
  <2>1. Plan
    BY <1>1, RunPlan DEF TypeOK
  <2>2. step + 1 \in 0 .. NumSteps
    BY <1>3, <2>1 DEF Plan
  <2> QED  BY <2>1, <2>2 DEF Plan
 <1>6. /\ ForceAt(At(step + 1)) = ForceOf(step + 1)
       /\ ForceOf(step + 1) \in Forces /\ None \in Forces
       /\ step + 1 \in Nat
   BY <1>3, <1>4, <1>5 DEF ForceAt, ForceOf, Forces, None
 <1>7. /\ acceleration' = [validity |-> "VALID", force |-> ForceOf(step + 1)]
       /\ prepared' = At(step + 1)
       /\ potential' \in {None, ForceOf(step + 1)}
   BY <1>2, <1>6 DEF TriggerForceSolve, LeftPotential
 <1>8. TypeOK'
  <2>1. acceleration' \in [validity : {"INVALID", "VALID", "STALE"},
                           force : Forces]
        /\ prepared' \in Int /\ potential' \in Forces
    BY <1>5, <1>6, <1>7
  <2> QED  BY <1>1, <1>2, <2>1, SameSchedule DEF TypeOK, Running
 <1>9. BodyOfStep'
   BY <1>1, <1>2, <1>3, SameSchedule DEF BodyOfStep, Running, AtBoundary
 <1>10. ForceOfBody'
   BY <1>2, <1>7, SameSchedule DEF ForceOfBody, AtBoundary
 <1>11. OriginsAreEarlier' /\ SnapshotsHoldTheirEpoch'
   BY <1>1, <1>2, OriginsStay, EpochsStay
 <1>12. OutputsInStep'
   BY <1>1, <1>2, OutputsStay DEF Running
 <1>13. FinalInStep'
   BY <1>1, <1>2, FinalStays DEF Running
 <1> QED  BY <1>8, <1>9, <1>10, <1>11, <1>12, <1>13 DEF IInv

LEMMA SecondKickKeeps == IInv /\ SecondKick => IInv'
 <1> SUFFICES ASSUME IInv, SecondKick  PROVE IInv'
   OBVIOUS
 <1>1. /\ TypeOK /\ OriginsAreEarlier /\ BodyOfStep /\ ForceOfBody
       /\ OutputsInStep /\ FinalInStep /\ SnapshotsHoldTheirEpoch
   BY DEF IInv
 <1>2. /\ pc = "kick2" /\ pc' \in {"sample", "snapshot"}
       /\ pc' = "sample" <=> config.diagnostics
       /\ body' = Append(body, Kick(2))
       /\ step' = step + 1 /\ a' = At(step + 1)
       /\ UNCHANGED <<config, table, segment, parents, acceleration, prepared,
                      potential, energy, next_snapshot, final_written,
                      snapshots, checkpoints>>
   BY DEF SecondKick
 <1>3. Plan
   BY <1>1, RunPlan DEF TypeOK
 <1>4. /\ step \in Nat /\ step \in 0 .. NumSteps - 1 /\ a = At(step)
       /\ body = HalfStep(step)
       /\ acceleration = [validity |-> "VALID", force |-> ForceOf(step + 1)]
       /\ prepared = At(step + 1) /\ potential \in {None, ForceOf(step + 1)}
   BY <1>1, <1>2, <1>3
      DEF TypeOK, BodyOfStep, ForceOfBody, Running, Plan
 <1>5. step + 1 \in 0 .. NumSteps /\ At(step + 1) \in Int
       /\ NumSteps \in Nat /\ step + 1 \in Nat
   BY <1>3, <1>4 DEF Plan
 <1>6. body' = Trajectory(step + 1)
  <2>1. Kick(2) = StepOf(step)[3]
    BY <1>4 DEF Kick, StepOf, ForceOf
  <2> QED  BY <1>2, <1>4, <2>1, StepCompletes
 <1>7. TypeOK'
  <2>1. body' \in Bodies
   <3>1. acceleration.force \in Forces
     BY <1>1 DEF TypeOK
   <3>2. Kick(2) \in Entries
     BY <1>4, <3>1 DEF Kick, Entries
   <3>3. body \in Seq(Entries)
     BY <1>1 DEF TypeOK, Bodies
   <3> QED  BY <1>2, <3>2, <3>3 DEF Bodies
  <2> QED  BY <1>1, <1>2, <1>5, <2>1, SameSchedule DEF TypeOK, Running
 <1>8. BodyOfStep'
   BY <1>1, <1>2, <1>5, <1>6, SameSchedule DEF BodyOfStep, Running, AtBoundary
 <1>9. ForceOfBody'
  <2>1. /\ acceleration'.force = ForceOf(step + 1) /\ step' = step + 1
        /\ potential' \in {None, ForceOf(step + 1)}
        /\ \A k : ForceOf(k)' = ForceOf(k)
    BY <1>2, <1>4, SameSchedule
  <2>2. acceleration'.force = [a |-> prepared', drifts |-> step']
    BY <1>2, <1>4, <2>1 DEF ForceOf
  <2> QED  BY <1>2, <2>1, <2>2 DEF ForceOfBody, AtBoundary
 <1>10. OriginsAreEarlier' /\ SnapshotsHoldTheirEpoch'
   BY <1>1, <1>2, OriginsStay, EpochsStay
 <1>11. OutputsInStep'
  <2>1. Targets' = Targets
    BY <1>2, SameSchedule
  <2>2. \A s, i : Own(s, i)' <=> Own(s, i)
    BY <1>2, <2>1 DEF Own
  <2>3. \A i \in DOMAIN Targets : i < next_snapshot <=> Targets[i] <= a
    BY <1>1, <1>2 DEF OutputsInStep, Running
  <2>4. \A i \in DOMAIN Targets : i < next_snapshot <=> Targets[i] < a'
    BY <1>2, <1>3, <1>4, <2>3, NoneBetween
  <2> QED  BY <1>1, <1>2, <2>1, <2>2, <2>4 DEF OutputsInStep, Running
 <1>12. FinalInStep'
  <2>1. /\ segment' = segment /\ config' = config
        /\ final_written' = final_written /\ snapshots' = snapshots
        /\ next_snapshot' = next_snapshot
    BY <1>2
  <2> QED  BY <1>1, <1>2, <2>1 DEF FinalInStep, Running
 <1> QED  BY <1>7, <1>8, <1>9, <1>10, <1>11, <1>12 DEF IInv

LEMMA SampleKeeps == IInv /\ Sample => IInv'
 <1> SUFFICES ASSUME IInv, Sample  PROVE IInv'
   OBVIOUS
 <1>1. /\ TypeOK /\ OriginsAreEarlier /\ BodyOfStep /\ ForceOfBody
       /\ OutputsInStep /\ FinalInStep /\ SnapshotsHoldTheirEpoch
   BY DEF IInv
 <1>2. /\ pc = "sample" /\ pc' = "snapshot"
       /\ energy' = PotentialOf(potential, acceleration.force, a)
       /\ UNCHANGED <<config, table, segment, parents, step, a, body,
                      acceleration, prepared, potential, next_snapshot,
                      final_written, snapshots, checkpoints>>
   BY DEF Sample
 <1>3. /\ a = At(step) /\ acceleration.force = ForceOf(step)
       /\ potential \in {None, ForceOf(step)}
   BY <1>1, <1>2 DEF BodyOfStep, ForceOfBody, Running
 <1>4. energy' = ForceOf(step)
   BY <1>2, <1>3 DEF PotentialOf, Reusable, ForceOf
 <1>5. TypeOK'
  <2>1. energy' \in Forces
   <3>1. acceleration.force \in Forces
     BY <1>1 DEF TypeOK
   <3> QED  BY <1>3, <1>4, <3>1
  <2> QED  BY <1>1, <1>2, <2>1, SameSchedule DEF TypeOK, Running
 <1>6. BodyOfStep'
   BY <1>1, <1>2, SameSchedule DEF BodyOfStep, Running, AtBoundary
 <1>7. ForceOfBody'
   BY <1>1, <1>2, <1>4, SameSchedule DEF ForceOfBody, AtBoundary
 <1>8. OriginsAreEarlier' /\ SnapshotsHoldTheirEpoch'
   BY <1>1, <1>2, OriginsStay, EpochsStay
 <1>9. OutputsInStep'
   BY <1>1, <1>2, OutputsStay DEF Running
 <1>10. FinalInStep'
   BY <1>1, <1>2, FinalStays DEF Running
 <1> QED  BY <1>5, <1>6, <1>7, <1>8, <1>9, <1>10 DEF IInv

LEMMA WriteSnapshotKeeps == IInv /\ WriteSnapshot => IInv'
 <1> SUFFICES ASSUME IInv, WriteSnapshot  PROVE IInv'
   OBVIOUS
 <1> DEFINE new == Snapshot(next_snapshot)
 <1>1. /\ TypeOK /\ OriginsAreEarlier /\ BodyOfStep /\ ForceOfBody
       /\ OutputsInStep /\ FinalInStep /\ SnapshotsHoldTheirEpoch
   BY DEF IInv
 <1>2. /\ pc = "snapshot" /\ pc' = "checkpoint"
       /\ next_snapshot <= Len(Targets) /\ a = Targets[next_snapshot]
       /\ snapshots' = snapshots \union {new}
       /\ final_written' = (final_written \/ a = config.final)
       /\ next_snapshot' = next_snapshot + 1
       /\ UNCHANGED <<config, table, segment, parents, step, a, body,
                      acceleration, prepared, potential, energy, checkpoints>>
   BY DEF WriteSnapshot, SnapshotIsDue, IsFinal
 <1>3. /\ new.segment = segment /\ new.index = next_snapshot /\ new.a = a
       /\ new.body = body /\ new = [segment |-> segment, index |-> next_snapshot,
                                    a |-> a, body |-> body]
   BY DEF Snapshot
 <1>4. Plan
   BY <1>1, RunPlan DEF TypeOK
 <1>5. /\ step \in 0 .. NumSteps /\ a = At(step) /\ body = Trajectory(step)
       /\ segment \in 1 .. segment /\ next_snapshot \in Nat \ {0} /\ a \in Int
   BY <1>1, <1>2 DEF TypeOK, BodyOfStep, OriginsAreEarlier, Running, AtBoundary
 <1>6. next_snapshot \in DOMAIN Targets /\ Len(Targets) \in Nat
       /\ DOMAIN Targets = 1 .. Len(Targets)
   BY <1>2, <1>4, <1>5 DEF Plan
 <1> HIDE DEF new
 <1>7. TypeOK'
  <2>1. new \in Outputs
    BY <1>1, <1>3 DEF TypeOK, Outputs
  <2>2. next_snapshot' \in Nat \ {0} /\ final_written' \in BOOLEAN
        /\ snapshots' \in SUBSET Outputs
    BY <1>1, <1>2, <1>5, <2>1 DEF TypeOK
  <2> QED  BY <1>1, <1>2, <2>2, SameSchedule DEF TypeOK, Running
 <1>8. BodyOfStep'
   BY <1>1, <1>2, SameSchedule DEF BodyOfStep, Running, AtBoundary
 <1>9. ForceOfBody'
   BY <1>1, <1>2, SameSchedule DEF ForceOfBody, AtBoundary
 <1>10. OriginsAreEarlier'
   BY <1>1, <1>2, <1>3, <1>5 DEF OriginsAreEarlier
 <1>11. SnapshotsHoldTheirEpoch'
  <2>1. /\ \E k \in 0 .. NumSteps : new.a = At(k) /\ new.body = Trajectory(k)
        /\ new.index <= Len(Targets) /\ new.a = Targets[new.index]
    BY <1>2, <1>3, <1>5
  <2>2. /\ NumSteps' = NumSteps /\ Targets' = Targets /\ config' = config
        /\ \A k : At(k)' = At(k)
        /\ \A k : Trajectory(k)' = Trajectory(k)
    BY <1>2, SameSchedule
  <2>3. ASSUME NEW s \in snapshots'
        PROVE  /\ \E k \in 0 .. NumSteps : s.a = At(k) /\ s.body = Trajectory(k)
               /\ IF s.index <= Len(Targets) THEN s.a = Targets[s.index]
                  ELSE s.a = config.final /\ s.a \notin Range(Targets)
   <3>1. CASE s \in snapshots
     BY <1>1, <3>1 DEF SnapshotsHoldTheirEpoch
   <3>2. CASE s = new
     BY <2>1, <3>2
   <3> QED  BY <1>2, <3>1, <3>2
  <2> QED  BY <2>2, <2>3 DEF SnapshotsHoldTheirEpoch
 <1>12. OutputsInStep'
  <2>1. Targets' = Targets
    BY <1>2, SameSchedule
  <2>2. \A s, i : Own(s, i) => Own(s, i)'
    BY <1>2, <2>1 DEF Own
  <2>3. \A s, i : (s = segment /\ i = next_snapshot) => Own(s, i)'
    BY <1>2, <1>3, <2>1 DEF Own
  <2>4. ASSUME NEW i \in DOMAIN Targets
        PROVE  i < next_snapshot + 1 <=> Targets[i] <= a
   <3>1. i < next_snapshot <=> Targets[i] < a
     BY <1>1, <1>2 DEF OutputsInStep
   <3>2. i \in Int /\ Targets[i] \in Int /\ Targets[next_snapshot] \in Int
     BY <1>4, <1>6 DEF Plan
   <3>3. i > next_snapshot => Targets[next_snapshot] < Targets[i]
     BY <1>4, <1>6 DEF Plan
   <3>4. CASE i < next_snapshot
     BY <1>5, <3>1, <3>2, <3>4
   <3>5. CASE i = next_snapshot
    <4>1. Targets[i] = a
      BY <1>2, <3>5, Zenon
    <4>2. i < next_snapshot + 1 /\ a <= a
      BY <1>5, <3>5
    <4> QED  BY <4>1, <4>2, Zenon
   <3>6. CASE i > next_snapshot
     BY <1>2, <1>5, <3>2, <3>3, <3>6
   <3> QED  BY <1>5, <3>2, <3>4, <3>5, <3>6
  <2>5. next_snapshot' \in 1 .. Len(Targets) + 1
    BY <1>2, <1>5, <1>6
  <2>6. ASSUME NEW i \in DOMAIN Targets, i < next_snapshot + 1,
               Targets[i] > parents[segment].a
        PROVE  \A s : s = segment => Own(s, i)'
   <3>1. i < next_snapshot \/ i = next_snapshot
     BY <1>5, <1>6, <2>6
   <3>2. i < next_snapshot => Own(segment, i)
     BY <1>1, <1>2, <2>6 DEF OutputsInStep, Running
   <3> QED  BY <2>2, <2>3, <3>1, <3>2
  <2>7. \A c \in checkpoints : \A i \in DOMAIN Targets :
           (Targets[i] <= c.a /\ Targets[i] > parents[c.segment].a)
              => \A s : s = c.segment => Own(s, i)'
    BY <1>1, <2>2 DEF OutputsInStep
  <2> QED  BY <1>2, <2>1, <2>4, <2>5, <2>6, <2>7 DEF OutputsInStep, Running
 <1>13. FinalInStep'
  <2>1. \A x \in snapshots : x.index \in Nat
    BY <1>1 DEF TypeOK, Outputs
  <2>4. final_written' <=> (final_written \/ a = config.final)
    BY <1>2, Zenon
  <2>2. \A x \in snapshots' : x.segment = segment =>
           /\ x.index < next_snapshot + 1
           /\ x.a = config.final => final_written'
   <3>1. \A x \in snapshots : x.segment = segment =>
            /\ x.index < next_snapshot
            /\ x.a = config.final => final_written
     BY <1>1, <1>2 DEF FinalInStep, Running
   <3>2. ASSUME NEW x \in snapshots, x.segment = segment
         PROVE  /\ x.index < next_snapshot + 1
                /\ x.a = config.final => final_written'
     BY <1>5, <2>1, <2>4, <3>1, <3>2
   <3>3. /\ new.index < next_snapshot + 1
         /\ new.a = config.final => final_written'
     BY <1>3, <1>5, <2>4
   <3> QED  BY <1>2, <3>2, <3>3
  <2>3. final_written' =>
           \E x \in snapshots' : x.segment = segment /\ x.a = config.final
   <3>1. final_written =>
            \E x \in snapshots : x.segment = segment /\ x.a = config.final
     BY <1>1, <1>2 DEF FinalInStep, Running
   <3> QED  BY <1>2, <1>3, <2>4, <3>1
  <2> QED  BY <1>2, <2>2, <2>3 DEF FinalInStep, Running
 <1> QED  BY <1>7, <1>8, <1>9, <1>10, <1>11, <1>12, <1>13 DEF IInv

LEMMA NoSnapshotKeeps == IInv /\ NoSnapshot => IInv'
 <1> SUFFICES ASSUME IInv, NoSnapshot  PROVE IInv'
   OBVIOUS
 <1>1. /\ TypeOK /\ OriginsAreEarlier /\ BodyOfStep /\ ForceOfBody
       /\ OutputsInStep /\ FinalInStep /\ SnapshotsHoldTheirEpoch
   BY DEF IInv
 <1>2. /\ pc = "snapshot" /\ pc' = "checkpoint"
       /\ ~ (next_snapshot <= Len(Targets) /\ a = Targets[next_snapshot])
       /\ UNCHANGED <<config, table, segment, parents, step, a, body,
                      acceleration, prepared, potential, energy, next_snapshot,
                      final_written, snapshots, checkpoints>>
   BY DEF NoSnapshot, SnapshotIsDue, run
 <1>3. Plan
   BY <1>1, RunPlan DEF TypeOK
 <1>4. TypeOK'
   BY <1>1, <1>2, SameSchedule DEF TypeOK, Running
 <1>5. BodyOfStep'
   BY <1>1, <1>2, SameSchedule DEF BodyOfStep, Running, AtBoundary
 <1>6. ForceOfBody'
   BY <1>1, <1>2, SameSchedule DEF ForceOfBody, AtBoundary
 <1>7. OriginsAreEarlier' /\ SnapshotsHoldTheirEpoch'
   BY <1>1, <1>2, OriginsStay, EpochsStay
 <1>8. OutputsInStep'
  <2>1. Targets' = Targets
    BY <1>2, SameSchedule
  <2>2. \A s, i : Own(s, i)' <=> Own(s, i)
    BY <1>2, <2>1 DEF Own
  <2>3. ASSUME NEW i \in DOMAIN Targets
        PROVE  i < next_snapshot <=> Targets[i] <= a
   <3>1. \A j \in DOMAIN Targets : j < next_snapshot <=> Targets[j] < a
     BY <1>1, <1>2 DEF OutputsInStep
   <3>2. /\ i \in 1 .. Len(Targets) /\ Targets[i] \in Int /\ a \in Int
         /\ next_snapshot \in 1 .. Len(Targets) + 1
         /\ DOMAIN Targets = 1 .. Len(Targets) /\ Len(Targets) \in Nat
     BY <1>1, <1>3 DEF Plan, TypeOK, OutputsInStep
   <3>3. CASE i = next_snapshot
     BY <1>2, <3>1, <3>2, <3>3
   <3>4. CASE i > next_snapshot
    <4>1. next_snapshot \in DOMAIN Targets
      BY <3>2, <3>4
    <4>2. Targets[next_snapshot] < Targets[i] /\ Targets[next_snapshot] \in Int
      BY <1>3, <3>4, <4>1 DEF Plan
    <4>3. ~ (Targets[next_snapshot] < a)
      BY <3>1, <3>2, <4>1
    <4> QED  BY <3>2, <3>4, <4>2, <4>3
   <3>5. CASE i < next_snapshot
     BY <3>1, <3>2, <3>5
   <3> QED  BY <3>2, <3>3, <3>4, <3>5
  <2> QED  BY <1>1, <1>2, <2>1, <2>2, <2>3 DEF OutputsInStep, Running
 <1>9. FinalInStep'
   BY <1>1, <1>2, FinalStays DEF Running
 <1> QED  BY <1>4, <1>5, <1>6, <1>7, <1>8, <1>9 DEF IInv

LEMMA WriteRestartKeeps == IInv /\ WriteRestart => IInv'
 <1> SUFFICES ASSUME IInv, WriteRestart  PROVE IInv'
   OBVIOUS
 <1> DEFINE new == [segment |-> segment, step |-> step, a |-> a, body |-> body]
 <1>1. /\ TypeOK /\ OriginsAreEarlier /\ BodyOfStep /\ ForceOfBody
       /\ OutputsInStep /\ FinalInStep /\ SnapshotsHoldTheirEpoch
   BY DEF IInv
 <1>2. /\ pc = "checkpoint" /\ pc' = "loop"
       /\ checkpoints' = checkpoints \union {new}
       /\ UNCHANGED <<config, table, segment, parents, step, a, body,
                      acceleration, prepared, potential, energy, next_snapshot,
                      final_written, snapshots>>
   BY DEF WriteRestart, run
 <1>3. /\ step \in 0 .. NumSteps /\ a = At(step) /\ body = Trajectory(step)
       /\ segment \in 1 .. segment
   BY <1>1, <1>2 DEF TypeOK, BodyOfStep, OriginsAreEarlier, Running, AtBoundary
 <1>4. new \in Points /\ new.segment = segment /\ new.step = step /\ new.a = a
       /\ new.body = body
   BY <1>1 DEF TypeOK, Points
 <1> HIDE DEF new
 <1>5. TypeOK'
  <2>1. checkpoints' \in SUBSET Points
    BY <1>1, <1>2, <1>4 DEF TypeOK
  <2> QED  BY <1>1, <1>2, <2>1, SameSchedule DEF TypeOK, Running
 <1>6. BodyOfStep'
   BY <1>1, <1>2, <1>3, <1>4, SameSchedule DEF BodyOfStep, Running, AtBoundary
 <1>7. ForceOfBody'
   BY <1>1, <1>2, SameSchedule DEF ForceOfBody, AtBoundary
 <1>8. OriginsAreEarlier'
   BY <1>1, <1>2, <1>3, <1>4 DEF OriginsAreEarlier
 <1>9. SnapshotsHoldTheirEpoch'
   BY <1>1, <1>2, EpochsStay
 <1>10. OutputsInStep'
  <2>1. Targets' = Targets
    BY <1>2, SameSchedule
  <2>2. \A s, i : Own(s, i)' <=> Own(s, i)
    BY <1>2, <2>1 DEF Own
  <2>3. ASSUME NEW i \in DOMAIN Targets, Targets[i] <= a,
               Targets[i] > parents[segment].a
        PROVE  Own(segment, i)
    BY <1>1, <1>2, <2>3 DEF OutputsInStep, Running
  <2>4. \A c \in checkpoints' : \A i \in DOMAIN Targets :
           (Targets[i] <= c.a /\ Targets[i] > parents[c.segment].a)
              => Own(c.segment, i)
    BY <1>1, <1>2, <1>4, <2>3 DEF OutputsInStep
  <2> QED  BY <1>1, <1>2, <2>1, <2>2, <2>4 DEF OutputsInStep, Running
 <1>11. FinalInStep'
   BY <1>1, <1>2, FinalStays DEF Running
 <1> QED  BY <1>5, <1>6, <1>7, <1>8, <1>9, <1>10, <1>11 DEF IInv

LEMMA NoRestartKeeps == IInv /\ NoRestart => IInv'
 <1> SUFFICES ASSUME IInv, NoRestart  PROVE IInv'
   OBVIOUS
 <1>1. /\ TypeOK /\ OriginsAreEarlier /\ BodyOfStep /\ ForceOfBody
       /\ OutputsInStep /\ FinalInStep /\ SnapshotsHoldTheirEpoch
   BY DEF IInv
 <1>2. /\ pc = "checkpoint" /\ pc' = "loop"
       /\ UNCHANGED <<config, table, segment, parents, step, a, body,
                      acceleration, prepared, potential, energy, next_snapshot,
                      final_written, snapshots, checkpoints>>
   BY DEF NoRestart, run
 <1>3. TypeOK'
   BY <1>1, <1>2, SameSchedule DEF TypeOK, Running
 <1>4. BodyOfStep'
   BY <1>1, <1>2, SameSchedule DEF BodyOfStep, Running, AtBoundary
 <1>5. ForceOfBody'
   BY <1>1, <1>2, SameSchedule DEF ForceOfBody, AtBoundary
 <1>6. OriginsAreEarlier' /\ SnapshotsHoldTheirEpoch'
   BY <1>1, <1>2, OriginsStay, EpochsStay
 <1>7. OutputsInStep'
   BY <1>1, <1>2, OutputsStay DEF Running
 <1>8. FinalInStep'
   BY <1>1, <1>2, FinalStays DEF Running
 <1> QED  BY <1>3, <1>4, <1>5, <1>6, <1>7, <1>8 DEF IInv

LEMMA FinishKeeps == IInv /\ Finish => IInv'
 <1> SUFFICES ASSUME IInv, Finish  PROVE IInv'
   OBVIOUS
 <1> DEFINE new == Snapshot(FinalIndex)
            last == FinalIndex
 <1>1. /\ TypeOK /\ OriginsAreEarlier /\ BodyOfStep /\ ForceOfBody
       /\ OutputsInStep /\ FinalInStep /\ SnapshotsHoldTheirEpoch
   BY DEF IInv
 <1>2. /\ pc = "loop" /\ pc' = "done" /\ step = NumSteps
       /\ snapshots' = IF final_written THEN snapshots ELSE snapshots \union {new}
       /\ UNCHANGED <<config, table, segment, parents, step, a, body,
                      acceleration, prepared, potential, energy, next_snapshot,
                      final_written, checkpoints>>
   BY DEF Finish, run
 <1>3. Plan
   BY <1>1, RunPlan DEF TypeOK
 <1>4. new = [segment |-> segment, index |-> last, a |-> a, body |-> body]
   BY DEF Snapshot
 <1>5. /\ step \in 0 .. NumSteps /\ a = At(step) /\ body = Trajectory(step)
       /\ a = config.final /\ a \in Int /\ segment \in 1 .. segment
   BY <1>1, <1>2, <1>3 DEF TypeOK, BodyOfStep, OriginsAreEarlier, Running,
                           AtBoundary, Plan
 <1>6. /\ next_snapshot \in 1 .. Len(Targets) + 1 /\ Len(Targets) \in Nat
       /\ DOMAIN Targets = 1 .. Len(Targets)
       /\ \A i \in DOMAIN Targets : i < next_snapshot <=> Targets[i] <= a
   BY <1>1, <1>2, <1>3 DEF OutputsInStep, Running, Plan
 <1>7. next_snapshot = Len(Targets) + 1
  <2> SUFFICES ASSUME next_snapshot <= Len(Targets)  PROVE FALSE
    BY <1>6
  <2>1. next_snapshot \in DOMAIN Targets
    BY <1>6
  <2>2. Targets[next_snapshot] <= a
    BY <1>3, <1>5, <2>1 DEF Plan
  <2> QED  BY <1>6, <2>1, <2>2
 <1>8. /\ last \in Nat
       /\ last <= Len(Targets) => a = Targets[last]
       /\ last > Len(Targets) => a \notin Range(Targets)
  <2>1. CASE next_snapshot > 1 /\ Targets[next_snapshot - 1] = a
   <3>1. last = next_snapshot - 1
     BY <2>1 DEF FinalIndex
   <3> QED  BY <1>6, <1>7, <2>1, <3>1
  <2>2. CASE ~ (next_snapshot > 1 /\ Targets[next_snapshot - 1] = a)
   <3>1. last = next_snapshot
     BY <2>2 DEF FinalIndex
   <3>2. ASSUME NEW i \in DOMAIN Targets  PROVE Targets[i] # a
    <4>1. i \in 1 .. Len(Targets) /\ Targets[i] \in Int
          /\ Len(Targets) \in DOMAIN Targets
      BY <1>3, <1>6 DEF Plan
    <4>2. CASE i = Len(Targets)
      BY <1>6, <1>7, <2>2, <4>1, <4>2
    <4>3. CASE i < Len(Targets)
     <5>1. Targets[i] < Targets[Len(Targets)]
           /\ Targets[Len(Targets)] <= config.final
           /\ Targets[Len(Targets)] \in Int
       BY <1>3, <4>1, <4>3 DEF Plan
     <5> QED  BY <1>5, <4>1, <5>1
    <4> QED  BY <1>6, <4>1, <4>2, <4>3
   <3>3. a \notin Range(Targets)
     BY <3>2 DEF Range
   <3> QED  BY <1>6, <1>7, <3>1, <3>3
  <2> QED  BY <2>1, <2>2
 <1> HIDE DEF new, last
 <1>9. new.segment = segment /\ new.index = last /\ new.a = a /\ new.body = body
   BY <1>4
 <1>10. TypeOK'
  <2>1. new \in Outputs
    BY <1>1, <1>4, <1>8 DEF TypeOK, Outputs
  <2>2. snapshots' \in SUBSET Outputs
    BY <1>1, <1>2, <2>1 DEF TypeOK
  <2> QED  BY <1>1, <1>2, <2>2, SameSchedule DEF TypeOK, Running
 <1>11. BodyOfStep'
   BY <1>1, <1>2, SameSchedule DEF BodyOfStep, Running, AtBoundary
 <1>12. ForceOfBody'
   BY <1>2 DEF ForceOfBody, AtBoundary
 <1>13. OriginsAreEarlier'
   BY <1>1, <1>2, <1>5, <1>9 DEF OriginsAreEarlier
 <1>14. SnapshotsHoldTheirEpoch'
  <2>1. /\ NumSteps' = NumSteps /\ Targets' = Targets /\ config' = config
        /\ \A k : At(k)' = At(k)
        /\ \A k : Trajectory(k)' = Trajectory(k)
    BY <1>2, SameSchedule
  <2>2. ASSUME NEW s \in snapshots'
        PROVE  /\ \E k \in 0 .. NumSteps : s.a = At(k) /\ s.body = Trajectory(k)
               /\ IF s.index <= Len(Targets) THEN s.a = Targets[s.index]
                  ELSE s.a = config.final /\ s.a \notin Range(Targets)
   <3>1. CASE s \in snapshots
     BY <1>1, <3>1 DEF SnapshotsHoldTheirEpoch
   <3>2. CASE s = new
    <4>1. /\ last <= Len(Targets) => new.a = Targets[new.index]
          /\ ~ (last <= Len(Targets)) => new.a \notin Range(Targets)
      BY <1>6, <1>8, <1>9
    <4> QED  BY <1>5, <1>9, <3>2, <4>1
   <3> QED  BY <1>2, <3>1, <3>2
  <2> QED  BY <2>1, <2>2 DEF SnapshotsHoldTheirEpoch
 <1>15. OutputsInStep'
  <2>1. Targets' = Targets
    BY <1>2, SameSchedule
  <2>2. \A s, i : Own(s, i) => Own(s, i)'
    BY <1>2, <2>1 DEF Own
  <2> QED  BY <1>1, <1>2, <2>1, <2>2 DEF OutputsInStep, Running
 <1>16. FinalInStep'
  <2>1. \E x \in snapshots' : x.segment = segment /\ x.a = config.final
   <3>1. CASE final_written
     BY <1>1, <1>2, <3>1 DEF FinalInStep, Running
   <3>2. CASE ~ final_written
     BY <1>2, <1>5, <1>9, <3>2
   <3> QED  BY <3>1, <3>2
  <2> QED  BY <1>2, <1>5, <2>1 DEF FinalInStep, Running
 <1> QED  BY <1>10, <1>11, <1>12, <1>13, <1>14, <1>15, <1>16 DEF IInv

LEMMA FailKeeps == IInv /\ Fail => IInv'
 <1> SUFFICES ASSUME IInv, Fail  PROVE IInv'
   OBVIOUS
 <1>1. /\ TypeOK /\ OriginsAreEarlier /\ BodyOfStep /\ ForceOfBody
       /\ OutputsInStep /\ FinalInStep /\ SnapshotsHoldTheirEpoch
   BY DEF IInv
 <1>2. /\ pc \in Running /\ pc' = "failed"
       /\ UNCHANGED <<config, table, segment, parents, step, a, body,
                      acceleration, prepared, potential, energy, next_snapshot,
                      final_written, snapshots, checkpoints>>
   BY <1>1 DEF Fail, run, TypeOK
 <1>3. TypeOK'
   BY <1>1, <1>2, SameSchedule DEF TypeOK
 <1>4. BodyOfStep'
   BY <1>1, <1>2, SameSchedule DEF BodyOfStep, Running, AtBoundary
 <1>5. ForceOfBody'
   BY <1>2 DEF ForceOfBody, AtBoundary
 <1>6. OriginsAreEarlier' /\ SnapshotsHoldTheirEpoch'
   BY <1>1, <1>2, OriginsStay, EpochsStay DEF Running
 <1>7. OutputsInStep'
   BY <1>1, <1>2, OutputsStay
 <1>8. FinalInStep'
   BY <1>1, <1>2, FinalStays
 <1> QED  BY <1>3, <1>4, <1>5, <1>6, <1>7, <1>8 DEF IInv

(* A launch, from nothing or from any checkpoint.                          *)
LEMMA LaunchKeeps ==
    ASSUME IInv, NEW origin \in checkpoints \union {Fresh}, Launch(origin)
    PROVE  IInv'
 <1>1. /\ TypeOK /\ OriginsAreEarlier /\ BodyOfStep /\ ForceOfBody
       /\ OutputsInStep /\ FinalInStep /\ SnapshotsHoldTheirEpoch
   BY DEF IInv
 <1>2. /\ pc' \in {"sampling", "loop"}
       /\ segment' = segment + 1 /\ parents' = Append(parents, origin)
       /\ step' = origin.step /\ body' = origin.body
       /\ a' = IF origin = Fresh THEN config.start ELSE origin.a
       /\ acceleration' = [validity |-> "INVALID", force |-> None]
       /\ prepared' = NotPrepared /\ potential' = None /\ energy' = None
       /\ next_snapshot' = FirstSnapshot(a') /\ final_written' = FALSE
       /\ UNCHANGED <<config, table, snapshots, checkpoints>>
   BY DEF Launch
 <1>3. Plan
   BY <1>1, RunPlan DEF TypeOK
 <1>4. origin \in Points
  <2>1. Fresh \in Points
    BY DEF Fresh, Points, Bodies
  <2> QED  BY <1>1, <2>1 DEF TypeOK
 <1>5. /\ origin.segment \in 0 .. segment
       /\ origin.step \in 0 .. NumSteps /\ a' = At(origin.step)
       /\ origin.body = Trajectory(origin.step) /\ a' \in Int
  <2>1. CASE origin = Fresh
   <3>1. Trajectory(0) = <<>>
    <4>1. 3 * 0 = 0 /\ 0 \in Nat
      OBVIOUS
    <4>2. Trajectory(0) \in Seq(AllEntries) /\ Len(Trajectory(0)) = 0
      BY <4>1, TrajectoryShape DEF IsWalk
    <4> QED  BY <4>2
   <3>2. /\ origin.step = 0 /\ origin.segment = 0 /\ origin.body = <<>>
     BY <2>1 DEF Fresh
   <3> QED  BY <1>1, <1>2, <1>3, <2>1, <3>1, <3>2 DEF Plan, TypeOK
  <2>2. CASE origin # Fresh
   <3>1. origin \in checkpoints
     BY <2>2
   <3>2. a' = origin.a /\ origin.a \in Int
     BY <1>2, <1>4, <2>2 DEF Points
   <3>3. origin.segment \in 1 .. segment /\ segment \in Nat
     BY <1>1, <3>1 DEF OriginsAreEarlier, TypeOK
   <3> QED  BY <1>1, <3>1, <3>2, <3>3 DEF BodyOfStep
  <2> QED  BY <2>1, <2>2
 <1>6. /\ next_snapshot' \in 1 .. Len(Targets) + 1
       /\ \A i \in DOMAIN Targets : i < next_snapshot' <=> Targets[i] <= a'
   BY <1>2, <1>3, <1>5, FirstSnapshotIsNext
 <1>7. segment \in Nat /\ parents \in Seq(Points) /\ Len(parents) = segment
   BY <1>1 DEF TypeOK, OriginsAreEarlier
 <1>8. /\ parents' \in Seq(Points) /\ Len(parents') = segment + 1
       /\ \A s \in 1 .. segment : parents'[s] = parents[s]
       /\ parents'[segment + 1] = origin
   BY <1>2, <1>4, <1>7
 <1>9. TypeOK'
  <2>1. /\ segment' \in Nat /\ step' \in Nat /\ a' \in Int
        /\ next_snapshot' \in Nat \ {0} /\ prepared' \in Int
        /\ body' \in Bodies
    BY <1>2, <1>3, <1>4, <1>5, <1>6, <1>7 DEF Points, NotPrepared, Plan
  <2>2. None \in Forces
    BY DEF None, Forces
  <2>3. /\ acceleration' \in [validity : {"INVALID", "VALID", "STALE"},
                              force : Forces]
        /\ potential' \in Forces /\ energy' \in Forces
        /\ final_written' \in BOOLEAN
    BY <1>2, <2>2
  <2> QED  BY <1>1, <1>2, <1>8, <2>1, <2>3, SameSchedule DEF TypeOK, Running
 <1>10. OriginsAreEarlier'
  <2>1. ASSUME NEW s \in 1 .. segment + 1
        PROVE  /\ parents'[s] = Fresh \/ parents'[s] \in checkpoints
               /\ parents'[s].segment < s
   <3>1. CASE s \in 1 .. segment
     BY <1>1, <1>8, <3>1 DEF OriginsAreEarlier
   <3>2. CASE s = segment + 1
     BY <1>5, <1>7, <1>8, <3>2
   <3> QED  BY <1>7, <3>1, <3>2
  <2>2. /\ \A c \in checkpoints : c.segment \in 1 .. segment + 1
        /\ \A x \in snapshots : x.segment \in 1 .. segment + 1
    BY <1>1, <1>7 DEF OriginsAreEarlier
  <2> QED  BY <1>2, <1>7, <1>8, <2>1, <2>2 DEF OriginsAreEarlier
 <1>11. BodyOfStep'
   BY <1>1, <1>2, <1>5, SameSchedule DEF BodyOfStep, Running, AtBoundary
 <1>12. ForceOfBody'
   BY <1>2 DEF ForceOfBody, AtBoundary
 <1>13. SnapshotsHoldTheirEpoch'
   BY <1>1, <1>2, EpochsStay
 <1>14. OutputsInStep'
  <2>1. Targets' = Targets
    BY <1>2, SameSchedule
  <2>2. \A s, i : Own(s, i)' <=> Own(s, i)
    BY <1>2, <2>1 DEF Own
  <2>3. ASSUME NEW i \in DOMAIN Targets, Targets[i] <= a'
        PROVE  ~ (Targets[i] > origin.a)  \/ origin = Fresh
    BY <1>2, <1>3, <1>4, <2>3 DEF Plan, Points
  <2>4. ASSUME NEW i \in DOMAIN Targets, Targets[i] <= a', origin = Fresh
        PROVE  FALSE
    BY <1>2, <1>3, <2>4 DEF Plan
  <2>5. \A c \in checkpoints : parents'[c.segment] = parents[c.segment]
    BY <1>1, <1>8 DEF OriginsAreEarlier
  <2>6. \A c \in checkpoints : \A i \in DOMAIN Targets :
           (Targets[i] <= c.a /\ Targets[i] > parents'[c.segment].a)
              => Own(c.segment, i)
    BY <1>1, <2>5 DEF OutputsInStep
  <2>7. \A i \in DOMAIN Targets :
           ~ (i < next_snapshot' /\ Targets[i] > parents'[segment + 1].a)
    BY <1>6, <1>8, <2>3, <2>4
  <2> QED  BY <1>2, <1>6, <2>1, <2>2, <2>6, <2>7 DEF OutputsInStep, Running
 <1>15. FinalInStep'
  <2>1. \A x \in snapshots : x.segment # segment + 1
    BY <1>1, <1>7 DEF OriginsAreEarlier
  <2> QED  BY <1>2, <2>1 DEF FinalInStep, Running
 <1> QED  BY <1>9, <1>10, <1>11, <1>12, <1>13, <1>14, <1>15 DEF IInv

LEMMA InvariantKept == IInv /\ [Next]_vars => IInv'
 <1> SUFFICES ASSUME IInv, [Next]_vars  PROVE IInv'
   OBVIOUS
 <1>1. CASE UNCHANGED vars
  <2>1. UNCHANGED <<config, table, segment, parents, pc, step, a, body,
                    acceleration, prepared, potential, energy, next_snapshot,
                    final_written, snapshots, checkpoints>>
    BY <1>1 DEF vars, run
  <2>2. TypeOK' <=> TypeOK
    BY <2>1, SameSchedule DEF TypeOK
  <2>3. /\ OriginsAreEarlier' <=> OriginsAreEarlier
        /\ FinalInStep' <=> FinalInStep
    BY <2>1 DEF OriginsAreEarlier, FinalInStep
  <2>4. /\ BodyOfStep' <=> BodyOfStep
        /\ ForceOfBody' <=> ForceOfBody
        /\ SnapshotsHoldTheirEpoch' <=> SnapshotsHoldTheirEpoch
    BY <2>1, SameSchedule DEF BodyOfStep, ForceOfBody, SnapshotsHoldTheirEpoch
  <2>5. OutputsInStep' <=> OutputsInStep
   <3>1. Targets' = Targets
     BY <2>1, SameSchedule
   <3>2. \A s, i : Own(s, i)' <=> Own(s, i)
     BY <2>1, <3>1 DEF Own
   <3> QED  BY <2>1, <3>1, <3>2 DEF OutputsInStep
  <2> QED  BY <2>2, <2>3, <2>4, <2>5 DEF IInv
 <1>2. CASE Initialize
   BY <1>2, LaunchKeeps DEF Initialize
 <1>3. CASE InitializeFromRestart
   BY <1>3, LaunchKeeps DEF InitializeFromRestart
 <1>4. CASE RunStep
   BY <1>4, FirstSampleKeeps, BeginStepKeeps, KickDriftKeeps, RefreshForceKeeps,
      SecondKickKeeps, SampleKeeps, WriteSnapshotKeeps, NoSnapshotKeeps,
      WriteRestartKeeps, NoRestartKeeps, FinishKeeps DEF RunStep
 <1>5. CASE Fail
   BY <1>5, FailKeeps
 <1> QED  BY <1>1, <1>2, <1>3, <1>4, <1>5 DEF Next

(* The invariant, of every launch.                                         *)
THEOREM RunInvariant == Spec => []IInv
  BY InvariantStarts, InvariantKept, PTL DEF Spec

-----------------------------------------------------------------------------
(* SimulationRun: however often a run was stopped and resumed, at every    *)
(* boundary of its loop the particles have gone through exactly the        *)
(* trajectory of an uninterrupted run.                                     *)
THEOREM RunTrajectoryIsKDK == Spec => []TrajectoryIsKDK
  BY RunInvariant, InvariantIsKDK, PTL

(* SimulationRun: a snapshot holds the synchronized state of its epoch,    *)
(* its index is that of the requested output it is, and an energy sample   *)
(* is of the state it is recorded for.                                     *)
THEOREM RunOutputsHoldTheirEpoch == Spec => []OutputsHoldTheirEpoch
  BY RunInvariant, InvariantHoldsEpochs, PTL

(* SimulationRun: a run that is done leaves every requested output, with   *)
(* its ancestors or in its own directory, the last state in its own, and   *)
(* no output was attempted twice.                                          *)
THEOREM RunWritesEveryOutputOnce == Spec => []EveryOutputOnce
  BY RunInvariant, InvariantWritesOnce, PTL

-----------------------------------------------------------------------------
(* The snapshots the run writes: sums over ranks.                          *)

(* A total that counts every member of a set once, whatever the order.     *)
Counts(w, S, g) ==
    /\ g \in [SUBSET S -> Nat]
    /\ g[{}] = 0
    /\ \A s \in SUBSET S : \A x \in s : g[s] = Len(w.ids[x]) + g[s \ {x}]

SumOver(w, S) == MapThenSumSet(LAMBDA r : Len(w.ids[r]), S)

LEMMA CountsExist ==
    ASSUME NEW w \in Worlds
    PROVE  \E g : Counts(w, Ranks, g)
 <1> DEFINE Q == {n \in Nat : n <= NumRanks => \E g : Counts(w, 0 .. n - 1, g)}
 <1>1. 0 \in Q
  <2> DEFINE g == [s \in SUBSET {} |-> 0]
  <2>1. 0 .. 0 - 1 = {}
    OBVIOUS
  <2>2. Counts(w, {}, g)
    BY DEF Counts
  <2> HIDE DEF g
  <2> QED  BY <2>1, <2>2
 <1>2. ASSUME NEW n \in Nat, n \in Q  PROVE n + 1 \in Q
  <2> SUFFICES ASSUME n + 1 <= NumRanks
               PROVE  \E g : Counts(w, 0 .. (n + 1) - 1, g)
    OBVIOUS
  <2>1. n \in Ranks /\ n <= NumRanks /\ (n + 1) - 1 = n
    BY SnapshotAssumption DEF Ranks
  <2>2. PICK g : Counts(w, 0 .. n - 1, g)
    BY <1>2, <2>1
  <2> DEFINE c(x) == Len(w.ids[x])
             low == 0 .. n - 1
             top == 0 .. n
             h == [s \in SUBSET top |-> IF n \in s THEN c(n) + g[s \ {n}]
                                                   ELSE g[s]]
  <2>3. \A x \in top : c(x) \in Nat
   <3>1. w.ids \in [Ranks -> Seq(Nat \ {0})]
     BY SnapshotAssumption
   <3>2. top \subseteq Ranks
     BY SnapshotAssumption, <2>1 DEF Ranks
   <3> QED  BY <3>1, <3>2
  <2>4. /\ g \in [SUBSET low -> Nat] /\ g[{}] = 0
        /\ \A s \in SUBSET low : \A x \in s : g[s] = c(x) + g[s \ {x}]
    BY <2>2 DEF Counts
  <2>5. n \in top /\ n \notin low /\ low \subseteq top
        /\ \A x \in top : x # n => x \in low
    OBVIOUS
  <2> HIDE DEF c, low, top
  <2>6. \A s \in SUBSET top : s \ {n} \in SUBSET low /\ (n \notin s => s \in SUBSET low)
    BY <2>5
  <2>7. \A s \in SUBSET top : (n \in s => h[s] = c(n) + g[s \ {n}])
                              /\ (n \notin s => h[s] = g[s])
    OBVIOUS
  <2>8. \A s \in SUBSET top : h[s] \in Nat
    BY <2>3, <2>4, <2>5, <2>6, <2>7
  <2>9. h \in [SUBSET top -> Nat]
   <3>1. h = [s \in SUBSET top |-> h[s]]
     OBVIOUS
   <3> HIDE DEF h
   <3> QED  BY <2>8, <3>1
  <2> HIDE DEF h
  <2>10. h[{}] = 0
    BY <2>4, <2>7
  <2>11. ASSUME NEW s \in SUBSET top, NEW x \in s
         PROVE  h[s] = c(x) + h[s \ {x}]
   <3> DEFINE t == s \ {x}
   <3>1. t \in SUBSET top /\ x \in top
     OBVIOUS
   <3>2. CASE x = n
    <4>1. n \in s /\ n \notin t /\ t = s \ {n}
      BY <3>2
    <4>2. h[s] = c(n) + g[t] /\ h[t] = g[t]
      BY <2>7, <3>1, <4>1
    <4> QED  BY <3>2, <4>2
   <3>3. CASE x # n /\ n \notin s
    <4>1. s \in SUBSET low /\ n \notin t
      BY <2>6, <3>3
    <4>2. h[s] = g[s] /\ h[t] = g[t]
      BY <2>7, <3>1, <3>3, <4>1
    <4>3. g[s] = c(x) + g[t]
      BY <2>4, <4>1
    <4> QED  BY <4>2, <4>3
   <3>4. CASE x # n /\ n \in s
    <4> DEFINE u == s \ {n}
    <4>1. u \in SUBSET low /\ x \in u /\ n \in t /\ u \ {x} = t \ {n}
      BY <2>6, <3>4
    <4>2. h[s] = c(n) + g[u] /\ h[t] = c(n) + g[t \ {n}]
      BY <2>7, <3>1, <3>4, <4>1
    <4>3. g[u] = c(x) + g[t \ {n}]
      BY <2>4, <4>1
    <4>4. g[t \ {n}] \in Nat /\ c(n) \in Nat /\ c(x) \in Nat
      BY <2>3, <2>4, <2>5, <2>6, <3>1
    <4> HIDE DEF t, u
    <4>5. h[s] = c(n) + (c(x) + g[t \ {n}])
      BY <4>2, <4>3
    <4>6. h[s] = c(x) + (c(n) + g[t \ {n}])
      BY <4>4, <4>5
    <4> QED  BY <4>2, <4>6 DEF t
   <3> QED  BY <3>2, <3>3, <3>4
  <2>12. Counts(w, top, h)
    BY <2>9, <2>10, <2>11 DEF Counts, c
  <2> QED  BY <2>1, <2>12 DEF top
 <1> HIDE DEF Q
 <1>3. NumRanks \in Q
   BY SnapshotAssumption, <1>1, <1>2, CountingUp
 <1> QED  BY SnapshotAssumption, <1>3 DEF Q, Ranks

(* The sum the ranks agree on is that total.                               *)
LEMMA SumOfCounts ==
    ASSUME NEW w, NEW S \in SUBSET Ranks, NEW g, Counts(w, Ranks, g)
    PROVE  SumOver(w, S) = g[S]
 <1> DEFINE c(x) == Len(w.ids[x])
            first(s) == CHOOSE x \in s : TRUE
            is(f) == f = [s \in SUBSET S |->
                            IF s = {} THEN 0 ELSE c(first(s)) + f[s \ {first(s)}]]
            h == [s \in SUBSET S |-> g[s]]
 <1>1. \A s \in SUBSET S : s # {} => first(s) \in s
   OBVIOUS
 <1>2. /\ g[{}] = 0
       /\ \A s \in SUBSET S : \A x \in s : g[s] = c(x) + g[s \ {x}]
   BY DEF Counts
 <1> HIDE DEF c, first
 <1>3. is(h)
  <2>1. \A s \in SUBSET S : h[s] = IF s = {} THEN 0
                                   ELSE c(first(s)) + h[s \ {first(s)}]
   <3> TAKE s \in SUBSET S
   <3>1. s \ {first(s)} \in SUBSET S
     OBVIOUS
   <3>2. h[s] = g[s] /\ h[s \ {first(s)}] = g[s \ {first(s)}]
     BY <3>1
   <3> HIDE DEF h
   <3> QED  BY <1>1, <1>2, <3>2
  <2>2. h = [s \in SUBSET S |-> h[s]]
    OBVIOUS
  <2> HIDE DEF h
  <2> QED  BY <2>1, <2>2
 <1> DEFINE f == CHOOSE e : is(e)
 <1>4. is(f)
  <2> HIDE DEF h
  <2> QED  BY <1>3
 <1>5. SumOver(w, S) = f[S]
   BY DEF SumOver, MapThenSumSet, MapThenFoldSet, c, first
 <1> HIDE DEF f
 <1> DEFINE Q == {k \in Nat : \A s \in SUBSET S : Cardinality(s) = k => f[s] = g[s]}
 <1>6. IsFiniteSet(Ranks)
   BY SnapshotAssumption, FS_Interval DEF Ranks
 <1>7. \A s \in SUBSET S : IsFiniteSet(s) /\ Cardinality(s) \in Nat
   BY <1>6, FS_Subset, FS_CardinalityType
 <1>8. 0 \in Q
  <2>1. \A s \in SUBSET S : Cardinality(s) = 0 => s = {}
    BY <1>7, FS_EmptySet
  <2>2. f[{}] = 0
    BY <1>4
  <2> QED  BY <1>2, <2>1, <2>2
 <1>9. ASSUME NEW k \in Nat, k \in Q  PROVE k + 1 \in Q
  <2> SUFFICES ASSUME NEW s \in SUBSET S, Cardinality(s) = k + 1
               PROVE  f[s] = g[s]
    OBVIOUS
  <2>1. s # {}
    BY <1>7, FS_EmptySet
  <2> DEFINE x == first(s)
             t == s \ {x}
  <2>2. x \in s /\ t \in SUBSET S
    BY <1>1, <2>1
  <2>3. Cardinality(t) = k
   <3>1. IsFiniteSet(s)
     BY <1>7
   <3>2. Cardinality(s \ {x}) = Cardinality(s) - 1
    <4> HIDE DEF x
    <4> QED  BY <2>2, <3>1, FS_RemoveElement
   <3> QED  BY <3>2
  <2>4. f[t] = g[t]
    BY <1>9, <2>2, <2>3
  <2>5. f[s] = c(x) + f[t]
    BY <1>4, <2>1
  <2> QED  BY <1>2, <2>2, <2>4, <2>5
 <1> HIDE DEF Q
 <1>10. \A k \in Nat : k \in Q
   BY <1>8, <1>9, CountingUp
 <1>11. S \in SUBSET S /\ Cardinality(S) \in Nat
   BY <1>7
 <1>12. f[S] = g[S]
   BY <1>10, <1>11 DEF Q
 <1> QED  BY <1>5, <1>12

(* The intervals of the ranks follow each other from the beginning of the  *)
(* file to its end.                                                        *)
LEMMA IntervalsAdjoin ==
    ASSUME NEW w \in Worlds
    PROVE  /\ SumOver(w, 0 .. 0 - 1) = 0
           /\ \A r \in Ranks : /\ SumOver(w, 0 .. r - 1) \in Nat
                               /\ Len(w.ids[r]) \in Nat
                               /\ SumOver(w, 0 .. (r + 1) - 1) =
                                    SumOver(w, 0 .. r - 1) + Len(w.ids[r])
           /\ SumOver(w, Ranks) = SumOver(w, 0 .. NumRanks - 1)
           /\ SumOver(w, Ranks) \in Nat
 <1>1. PICK g : Counts(w, Ranks, g)
   BY CountsExist
 <1>2. /\ g \in [SUBSET Ranks -> Nat] /\ g[{}] = 0
       /\ \A s \in SUBSET Ranks : \A x \in s : g[s] = Len(w.ids[x]) + g[s \ {x}]
   BY <1>1 DEF Counts
 <1>3. \A S \in SUBSET Ranks : SumOver(w, S) = g[S]
   BY <1>1, SumOfCounts
 <1>4. SumOver(w, 0 .. 0 - 1) = 0
  <2>1. 0 .. 0 - 1 = {} /\ {} \in SUBSET Ranks
    OBVIOUS
  <2> QED  BY <1>2, <1>3, <2>1
 <1>5. ASSUME NEW r \in Ranks
       PROVE  /\ SumOver(w, 0 .. r - 1) \in Nat
              /\ Len(w.ids[r]) \in Nat
              /\ SumOver(w, 0 .. (r + 1) - 1) =
                   SumOver(w, 0 .. r - 1) + Len(w.ids[r])
  <2> DEFINE low == 0 .. r - 1
             top == 0 .. (r + 1) - 1
  <2>1. low \in SUBSET Ranks /\ top \in SUBSET Ranks /\ r \in top
        /\ top \ {r} = low
    BY SnapshotAssumption DEF Ranks
  <2> HIDE DEF low, top
  <2>2. SumOver(w, low) = g[low] /\ SumOver(w, top) = g[top] /\ g[low] \in Nat
    BY <1>2, <1>3, <2>1
  <2>3. g[top] = Len(w.ids[r]) + g[low]
    BY <1>2, <2>1
  <2>4. Len(w.ids[r]) \in Nat
   <3>1. w.ids \in [Ranks -> Seq(Nat \ {0})]
     BY SnapshotAssumption
   <3> QED  BY <3>1
  <2>5. SumOver(w, low) \in Nat /\ Len(w.ids[r]) \in Nat
        /\ SumOver(w, top) = SumOver(w, low) + Len(w.ids[r])
    BY <2>2, <2>3, <2>4
  <2> QED  BY <2>5 DEF low, top
 <1>6. SumOver(w, Ranks) \in Nat
   BY <1>2, <1>3
 <1> QED  BY <1>4, <1>5, <1>6 DEF Ranks

(* Joining the intervals of a list gives the list back.                    *)
LEMMA JoinsBack ==
    ASSUME NEW V, NEW s \in Seq(V), NEW m \in Nat, NEW n \in Nat, m + n <= Len(s)
    PROVE  SubSeq(s, 1, m) \o SubSeq(s, m + 1, m + n) = SubSeq(s, 1, m + n)
 <1> DEFINE x == SubSeq(s, 1, m)
            y == SubSeq(s, m + 1, m + n)
            z == SubSeq(s, 1, m + n)
 <1>1. x \in Seq(V) /\ Len(x) = m /\ \A i \in 1 .. m : x[i] = s[i]
   OBVIOUS
 <1>2. y \in Seq(V) /\ Len(y) = n /\ \A i \in 1 .. n : y[i] = s[m + i]
   OBVIOUS
 <1>3. z \in Seq(V) /\ Len(z) = m + n /\ \A i \in 1 .. m + n : z[i] = s[i]
   OBVIOUS
 <1> HIDE DEF x, y, z
 <1>4. /\ x \o y \in Seq(V)
       /\ Len(x \o y) = m + n
       /\ \A i \in 1 .. m + n : (x \o y)[i] = IF i <= m THEN x[i] ELSE y[i - m]
   BY <1>1, <1>2, ConcatProperties
 <1>5. \A i \in 1 .. m + n : (x \o y)[i] = z[i]
  <2> TAKE i \in 1 .. m + n
  <2>1. CASE i <= m
    BY <1>1, <1>3, <1>4, <2>1
  <2>2. CASE i > m
   <3>1. i - m \in 1 .. n /\ m + (i - m) = i
     BY <2>2
   <3>2. y[i - m] = s[i]
     BY <1>2, <3>1
   <3>3. ~ (i <= m) /\ (x \o y)[i] = y[i - m]
     BY <1>4, <2>2
   <3> QED  BY <1>3, <3>2, <3>3
  <2>3. i <= m \/ i > m
    OBVIOUS
  <2> QED  BY <2>1, <2>2, <2>3
 <1>6. x \o y = z
   BY <1>3, <1>4, <1>5, SeqEqual
 <1> QED  BY <1>6 DEF x, y, z

(* A list whose consecutive intervals are the given lists is their join.   *)
LEMMA FlattenIntervals ==
    ASSUME NEW n \in Nat \ {0}, NEW V, NEW s \in Seq(V), NEW seqs, NEW end,
           seqs = [k \in 1 .. n |-> seqs[k]],
           end \in [0 .. n -> Nat], end[0] = 0, end[n] = Len(s),
           \A k \in 1 .. n : /\ end[k - 1] <= end[k] /\ end[k] <= Len(s)
                             /\ seqs[k] = SubSeq(s, end[k - 1] + 1, end[k])
    PROVE  FlattenSeq(seqs) = s
 <1> DEFINE is(f) == f = [i \in 1 .. n |-> IF i = 1 THEN seqs[i]
                                                    ELSE f[i - 1] \o seqs[i]]
            h == [i \in 1 .. n |-> SubSeq(s, 1, end[i])]
 <1>1. Len(seqs) = n
   OBVIOUS
 <1>2. ASSUME NEW i \in 1 .. n
       PROVE  h[i] = IF i = 1 THEN seqs[i] ELSE h[i - 1] \o seqs[i]
  <2>1. h[i] = SubSeq(s, 1, end[i])
    OBVIOUS
  <2>2. CASE i = 1
   <3>1. end[i - 1] + 1 = 1
     BY <2>2
   <3> HIDE DEF h
   <3> QED  BY <2>1, <2>2, <3>1
  <2>3. CASE i # 1
   <3>1. i - 1 \in 1 .. n /\ i - 1 \in 0 .. n /\ i \in 0 .. n
     BY <2>3
   <3>2. h[i - 1] = SubSeq(s, 1, end[i - 1])
     BY <3>1
   <3> DEFINE l == end[i - 1]
              d == end[i] - end[i - 1]
   <3>3. l \in Nat /\ d \in Nat /\ l + d = end[i] /\ l + d <= Len(s)
     BY <3>1
   <3>4. seqs[i] = SubSeq(s, l + 1, l + d)
     BY <3>3
   <3> HIDE DEF h, d
   <3>5. SubSeq(s, 1, l) \o SubSeq(s, l + 1, l + d) = SubSeq(s, 1, l + d)
    <4> HIDE DEF l
    <4>1. l \in Nat /\ d \in Nat /\ l + d <= Len(s)
      BY <3>3
    <4> QED  BY <4>1, JoinsBack
   <3> QED  BY <2>1, <2>3, <3>2, <3>3, <3>4, <3>5
  <2> QED  BY <2>2, <2>3
 <1>3. is(h)
  <2>1. h = [i \in 1 .. n |-> h[i]]
    OBVIOUS
  <2> HIDE DEF h
  <2> QED  BY <1>2, <2>1
 <1> DEFINE g == CHOOSE e : is(e)
 <1>4. is(g)
  <2> HIDE DEF h
  <2> QED  BY <1>3
 <1>5. FlattenSeq(seqs) = g[n]
  <2>1. Len(seqs) # 0
    BY <1>1
  <2>2. FlattenSeq(seqs) =
          (CHOOSE e : e = [i \in 1 .. Len(seqs) |-> IF i = 1 THEN seqs[i]
                                       ELSE e[i - 1] \o seqs[i]])[Len(seqs)]
    BY <2>1 DEF FlattenSeq
  <2> QED  BY <1>1, <2>2
 <1> DEFINE Q == {k \in Nat : k + 1 <= n => g[k + 1] = h[k + 1]}
 <1> HIDE DEF g, h
 <1>6. 0 \in Q
  <2>1. 1 \in 1 .. n /\ 0 + 1 = 1
    OBVIOUS
  <2>2. g[1] = seqs[1] /\ h[1] = seqs[1]
    BY <1>2, <1>4, <2>1
  <2> QED  BY <2>1, <2>2
 <1>7. ASSUME NEW k \in Nat, k \in Q  PROVE k + 1 \in Q
  <2> SUFFICES ASSUME (k + 1) + 1 <= n
               PROVE  g[(k + 1) + 1] = h[(k + 1) + 1]
    OBVIOUS
  <2> DEFINE m == (k + 1) + 1
  <2>1. m \in 1 .. n /\ m # 1 /\ m - 1 = k + 1 /\ k + 1 <= n
    OBVIOUS
  <2> HIDE DEF m
  <2>2. g[m] = g[m - 1] \o seqs[m] /\ h[m] = h[m - 1] \o seqs[m]
    BY <1>2, <1>4, <2>1
  <2>3. g[k + 1] = h[k + 1]
    BY <1>7, <2>1
  <2>4. g[m] = h[m]
    BY <2>1, <2>2, <2>3
  <2> QED  BY <2>4 DEF m
 <1> HIDE DEF Q
 <1>8. n - 1 \in Q
  <2>1. n - 1 \in Nat
    OBVIOUS
  <2> QED  BY <1>6, <1>7, <2>1, CountingUp
 <1>9. g[n] = h[n]
  <2>1. n - 1 \in Nat /\ (n - 1) + 1 = n
    OBVIOUS
  <2> QED  BY <1>8, <2>1 DEF Q
 <1>10. h[n] = s
  <2>1. h[n] = SubSeq(s, 1, Len(s))
    BY DEF h
  <2>2. SubSeq(s, 1, Len(s)) = s
    OBVIOUS
  <2> QED  BY <2>1, <2>2
 <1> QED  BY <1>5, <1>9, <1>10

-----------------------------------------------------------------------------
(* The snapshots the run writes: the protocol.                             *)

(* What the world of a call determines.                                    *)
SizeOf(w) == SumOver(w, Ranks)

FieldsOf(w) == {"coordinates", "velocities", "ids"} \union
    (IF \E r \in {q \in Ranks : Len(w.ids[q]) > 0} : w.mass[r] = "explicit"
       THEN {"masses"} ELSE {})

ListsOf(w) == [n \in 1 .. NumRanks |->
                 [k \in 1 .. Len(w.ids[n - 1]) |-> <<n - 1, k>>]]

MassesOf(w) ==
    \A r, s \in {q \in Ranks : Len(w.ids[q]) > 0} : w.mass[r] = w.mass[s]

AgreedOf(w) == /\ \A r, s \in Ranks : w.asked[r] = w.asked[s]
               /\ MassesOf(w)
               /\ SizeOf(w) = w.configured

Busy == {"work", "communicate", "store"}

WriterTypes ==
    /\ world \in Worlds
    /\ stage \in [Ranks -> 1 .. 8]
    /\ phase \in [Ranks -> Busy \union {"vote"} \union Ended]
    /\ bad \in [Ranks -> BOOLEAN]
    /\ \A f \in FieldsOf(world) :
           file[f] = [i \in 1 .. SizeOf(world) |-> file[f][i]]

(* An exception waits for the reduction; whoever left it by throwing had a *)
(* reason that is still there, and behind the preflight all agree.         *)
VotesStand ==
    /\ \A r \in Ranks : bad[r] => phase[r] \in {"vote"} \union Ended
    /\ \A r \in Ranks : phase[r] = "threw" => Refused(r)
    /\ \A r \in Ranks : stage[r] > 1 => AgreedOf(world)

(* A job that is aborted is over.                                          *)
AbortEndsAll ==
    \A r, s \in Ranks : phase[r] = "aborted" => phase[s] \in Ended

(* Rank 0 publishes in its last stage, or reports that it did not.         *)
RootPublishes ==
    /\ phase[0] = "store" => stage[0] = 7
    /\ stage[0] = 8 /\ phase[0] \in {"vote", "returned"} /\ ~ bad[0] =>
           canonical = "ours"
    /\ canonical = "ours" =>
         /\ stage[0] = 8 /\ phase[0] \in {"vote"} \union Ended
         /\ header = "right"
         /\ \A f \in FieldsOf(world) : file[f] = FlattenSeq(ListsOf(world))
         /\ ~ staged

(* Nobody returns before everybody is in the last reduction without an     *)
(* exception.                                                              *)
ReturnedTogether ==
    \A r \in Ranks : phase[r] = "returned" =>
        /\ canonical = "ours"
        /\ \A s \in Ranks : /\ stage[s] = 8 /\ ~ bad[s]
                            /\ phase[s] \in {"vote", "returned", "aborted"}

WriterInv == /\ WriterTypes
             /\ VotesStand
             /\ AbortEndsAll
             /\ RootPublishes
             /\ ReturnedTogether

(* What the world of a call determines, in the terms of the module.        *)
LEMMA WorldDetermines ==
    /\ Total = SizeOf(world) /\ Fields = FieldsOf(world)
    /\ AllParticles = FlattenSeq(ListsOf(world))
    /\ Agreed <=> AgreedOf(world)
    /\ \A r \in Ranks : Offset(r) = SumOver(world, 0 .. r - 1)
 <1>1. Total = SizeOf(world)
   BY DEF Total, SizeOf, SumOver, Count, MapThenSumSet, MapThenFoldSet
 <1>2. Fields = FieldsOf(world)
   BY DEF Fields, FieldsOf, Explicit, Owners, Count
 <1>3. AllParticles = FlattenSeq(ListsOf(world))
  <2>1. ListsOf(world) = [n \in 1 .. NumRanks |-> Announced(n - 1)]
    BY DEF ListsOf, Announced, Count
  <2> QED  BY <2>1 DEF AllParticles
 <1>4. MassesAgree <=> MassesOf(world)
   BY DEF MassesAgree, MassesOf, Owners, Count
 <1>5. Agreed <=> AgreedOf(world)
   BY <1>1, <1>4 DEF Agreed, AgreedOf
 <1>6. \A r \in Ranks : Offset(r) = SumOver(world, 0 .. r - 1)
   BY DEF Offset, SumOver, Count, MapThenSumSet, MapThenFoldSet
 <1> QED  BY <1>1, <1>2, <1>3, <1>5, <1>6

LEMMA WorldStays ==
    ASSUME world' = world
    PROVE  /\ Total' = SizeOf(world) /\ Fields' = FieldsOf(world)
           /\ SizeOf(world') = SizeOf(world) /\ FieldsOf(world') = FieldsOf(world)
           /\ AgreedOf(world') <=> AgreedOf(world)
           /\ Agreed' <=> Agreed
           /\ AllParticles' = AllParticles
           /\ FlattenSeq(ListsOf(world')) = FlattenSeq(ListsOf(world))
 <1>1. Total' = SizeOf(world') /\ Fields' = FieldsOf(world')
       /\ AllParticles' = FlattenSeq(ListsOf(world'))
       /\ (Agreed' <=> AgreedOf(world'))
  <2>1. Total' = SizeOf(world')
    BY DEF Total, SizeOf, SumOver, Count, MapThenSumSet, MapThenFoldSet
  <2>2. Fields' = FieldsOf(world')
    BY DEF Fields, FieldsOf, Explicit, Owners, Count
  <2>3. ListsOf(world') = [n \in 1 .. NumRanks |-> Announced(n - 1)']
    BY DEF ListsOf, Announced, Count
  <2>4. AllParticles' = FlattenSeq(ListsOf(world'))
    BY <2>3 DEF AllParticles
  <2>5. MassesAgree' <=> MassesOf(world')
    BY DEF MassesAgree, MassesOf, Owners, Count
  <2>6. Agreed' <=> AgreedOf(world')
    BY <2>1, <2>5 DEF Agreed, AgreedOf
  <2> QED  BY <2>1, <2>2, <2>4, <2>6
 <1>2. /\ Agreed <=> AgreedOf(world)
       /\ AllParticles = FlattenSeq(ListsOf(world))
   BY WorldDetermines
 <1> QED  BY <1>1, <1>2

(* What the read-back of the stage accepts is what the ranks announced.    *)
LEMMA ReadBackIsWhole ==
    ASSUME WriterTypes, PayloadMatches
    PROVE  \A f \in FieldsOf(world) : file[f] = FlattenSeq(ListsOf(world))
 <1> DEFINE end == [k \in 0 .. NumRanks |-> SumOver(world, 0 .. k - 1)]
            lists == ListsOf(world)
 <1>1. /\ SumOver(world, 0 .. 0 - 1) = 0
       /\ \A r \in Ranks : /\ SumOver(world, 0 .. r - 1) \in Nat
                           /\ Len(world.ids[r]) \in Nat
                           /\ SumOver(world, 0 .. (r + 1) - 1) =
                                SumOver(world, 0 .. r - 1) + Len(world.ids[r])
       /\ SumOver(world, Ranks) = SumOver(world, 0 .. NumRanks - 1)
       /\ SumOver(world, Ranks) \in Nat
   BY IntervalsAdjoin DEF WriterTypes
 <1>2. NumRanks \in Nat \ {0} /\ Ranks = 0 .. NumRanks - 1
   BY SnapshotAssumption DEF Ranks
 <1>3. end[0] = 0 /\ end[NumRanks] = SizeOf(world) /\ SizeOf(world) \in Nat
   BY <1>1, <1>2 DEF SizeOf
 <1>4. ASSUME NEW k \in 1 .. NumRanks
       PROVE  /\ k - 1 \in Ranks
              /\ end[k - 1] \in Nat /\ end[k] \in Nat
              /\ end[k - 1] = Offset(k - 1)
              /\ end[k] = end[k - 1] + Len(world.ids[k - 1])
              /\ Len(world.ids[k - 1]) \in Nat
  <2> DEFINE r == k - 1
  <2>1. r \in Ranks /\ r \in 0 .. NumRanks /\ k \in 0 .. NumRanks /\ r + 1 = k
    BY <1>2
  <2>2. end[r] = SumOver(world, 0 .. r - 1) /\ end[k] = SumOver(world, 0 .. k - 1)
    BY <2>1
  <2> HIDE DEF r, end
  <2>3. Offset(r) = SumOver(world, 0 .. r - 1)
    BY <2>1, WorldDetermines
  <2>4. /\ SumOver(world, 0 .. r - 1) \in Nat
        /\ Len(world.ids[r]) \in Nat
        /\ SumOver(world, 0 .. k - 1) =
             SumOver(world, 0 .. r - 1) + Len(world.ids[r])
    BY <1>1, <2>1
  <2>5. /\ r \in Ranks /\ end[r] \in Nat /\ end[k] \in Nat /\ end[r] = Offset(r)
        /\ end[k] = end[r] + Len(world.ids[r]) /\ Len(world.ids[r]) \in Nat
    BY <2>1, <2>2, <2>3, <2>4
  <2> QED  BY <2>5 DEF r
 <1>5. end \in [0 .. NumRanks -> Nat]
  <2>1. \A k \in 0 .. NumRanks : end[k] \in Nat
   <3> TAKE k \in 0 .. NumRanks
   <3>1. k = 0 \/ k \in 1 .. NumRanks
     OBVIOUS
   <3> HIDE DEF end
   <3> QED  BY <1>3, <1>4, <3>1
  <2> QED  BY <2>1
 <1> HIDE DEF end
 <1>6. ASSUME NEW k \in Nat, k <= NumRanks  PROVE end[k] <= SizeOf(world)
  <2> DEFINE Q == {m \in Nat : m <= NumRanks => end[NumRanks - m] <= SizeOf(world)}
  <2>1. 0 \in Q
    BY <1>2, <1>3
  <2>2. ASSUME NEW m \in Nat, m \in Q  PROVE m + 1 \in Q
   <3> SUFFICES ASSUME m + 1 <= NumRanks
                PROVE  end[NumRanks - (m + 1)] <= SizeOf(world)
     OBVIOUS
   <3> DEFINE l == NumRanks - m
   <3>1. l \in 1 .. NumRanks /\ l - 1 = NumRanks - (m + 1)
     BY <1>2
   <3>2. end[l] <= SizeOf(world)
     BY <1>2, <2>2
   <3> HIDE DEF l
   <3>3. end[l - 1] <= SizeOf(world)
     BY <1>3, <1>4, <3>1, <3>2
   <3> QED  BY <3>1, <3>3
  <2> HIDE DEF Q
  <2>3. NumRanks - k \in Nat /\ NumRanks - (NumRanks - k) = k
        /\ NumRanks - k <= NumRanks
    BY <1>2, <1>6
  <2>4. NumRanks - k \in Q
    BY <2>1, <2>2, <2>3, CountingUp
  <2> QED  BY <2>3, <2>4 DEF Q
 <1>7. ASSUME NEW f \in FieldsOf(world)  PROVE file[f] = FlattenSeq(lists)
  <2> DEFINE s == file[f]
             V == {s[i] : i \in 1 .. SizeOf(world)}
  <2>1. s = [i \in 1 .. SizeOf(world) |-> s[i]]
    BY DEF WriterTypes
  <2> HIDE DEF s
  <2>2. s \in Seq(V) /\ Len(s) = SizeOf(world)
   <3>1. s \in [1 .. SizeOf(world) -> V]
     BY <2>1
   <3> HIDE DEF V
   <3> QED  BY <1>3, <2>1, <3>1
  <2>3. lists = [k \in 1 .. NumRanks |-> lists[k]]
    BY DEF ListsOf
  <2>4. ASSUME NEW k \in 1 .. NumRanks
        PROVE  /\ end[k - 1] <= end[k] /\ end[k] <= Len(s)
               /\ lists[k] = SubSeq(s, end[k - 1] + 1, end[k])
   <3>1. end[k] <= SizeOf(world)
     BY <1>2, <1>6
   <3>2. end[k - 1] <= end[k]
     BY <1>4
   <3>3. f \in Fields
     BY WorldDetermines
   <3>4. SubSeq(s, Offset(k - 1) + 1, Offset(k - 1) + Count(k - 1)) =
           Announced(k - 1)
     BY <1>4, <3>3 DEF PayloadMatches, s
   <3>5. Offset(k - 1) = end[k - 1] /\ Offset(k - 1) + Count(k - 1) = end[k]
     BY <1>4 DEF Count
   <3>6. lists[k] = Announced(k - 1)
     BY DEF ListsOf, Announced, Count
   <3> HIDE DEF lists
   <3>7. lists[k] = SubSeq(s, end[k - 1] + 1, end[k])
     BY <3>4, <3>5, <3>6
   <3> QED  BY <2>2, <3>1, <3>2, <3>7
  <2> HIDE DEF lists, V
  <2>5. end[NumRanks] = Len(s)
    BY <1>3, <2>2
  <2>6. FlattenSeq(lists) = s
    BY <1>2, <1>3, <1>5, <2>2, <2>3, <2>4, <2>5, FlattenIntervals
  <2> QED  BY <2>6 DEF s
 <1> QED  BY <1>7

(* The names of the stages, as numbers.                                    *)
LEMMA StageNames ==
    ASSUME WriterTypes, NEW r \in Ranks
    PROVE  /\ stage[r] \in 1 .. 8
           /\ Name(r) = "agree" <=> stage[r] = 1
           /\ Name(r) = "transfer" <=> stage[r] = 7
           /\ Name(r) = "finish" <=> stage[r] = 8
           /\ Name(r) = "setup" <=> stage[r] = 6
  BY DEF WriterTypes, Name, Stages

LEMMA WriterStarts == SnapshotInit => WriterInv
 <1> SUFFICES ASSUME SnapshotInit  PROVE WriterInv
   OBVIOUS
 <1>1. 0 \in Ranks
   BY SnapshotAssumption DEF Ranks
 <1>2. Fields = FieldsOf(world) /\ Total = SizeOf(world)
   BY WorldDetermines
 <1>3. WriterTypes
   BY <1>2 DEF SnapshotInit, WriterTypes, Busy, Ended
 <1>4. \A r \in Ranks : phase[r] = "work" /\ stage[r] = 1 /\ bad[r] = FALSE
   BY DEF SnapshotInit
 <1>5. VotesStand /\ AbortEndsAll /\ ReturnedTogether
   BY <1>4 DEF VotesStand, AbortEndsAll, ReturnedTogether
 <1>6. RootPublishes
   BY <1>1, <1>4 DEF SnapshotInit, RootPublishes
 <1> QED  BY <1>3, <1>5, <1>6 DEF WriterInv

(* A reason to throw depends on the stages and the exceptions only.        *)
LEMMA ReasonStays ==
    ASSUME world' = world, NEW r \in Ranks, stage'[r] = stage[r], Refused(r),
           \A s \in Ranks : stage[s] = stage[r] /\ bad[s] =>
                                stage'[s] = stage[s] /\ bad'[s]
    PROVE  Refused(r)'
 <1>1. Agreed' <=> Agreed
   BY WorldStays
 <1>2. CASE \E s \in Ranks : stage[s] = stage[r] /\ bad[s]
   BY <1>2 DEF Refused
 <1>3. CASE Name(r) = "agree" /\ ~ Agreed
  <2>1. Name(r)' = Name(r)
    BY DEF Name, Stages
  <2> QED  BY <1>1, <1>3, <2>1 DEF Refused
 <1> QED  BY <1>2, <1>3 DEF Refused

(* Rank r works on inside its stage, or enters the reduction of the stage. *)
Proceeds(r) ==
    /\ world' = world /\ stage' = stage
    /\ phase[r] \in Busy /\ phase'[r] \in Busy \union {"vote"}
    /\ \A s \in Ranks \ {r} : phase'[s] = phase[s] /\ bad'[s] = bad[s]
    /\ phase'[r] # "vote" => bad'[r] = bad[r]
    /\ phase' \in [Ranks -> Busy \union {"vote"} \union Ended]
    /\ bad' \in [Ranks -> BOOLEAN]

(* The datasets keep their length whatever is stored in them.              *)
LEMMA ShapeStays ==
    ASSUME WriterTypes, world' = world, stage' \in [Ranks -> 1 .. 8],
           phase' \in [Ranks -> Busy \union {"vote"} \union Ended],
           bad' \in [Ranks -> BOOLEAN],
           \/ file' = file
           \/ \E parts, data : file' = Written(parts, data)
    PROVE  WriterTypes'
 <1>1. /\ SizeOf(world') = SizeOf(world) /\ FieldsOf(world') = FieldsOf(world)
       /\ SizeOf(world) = Total /\ FieldsOf(world) = Fields
   BY WorldStays, WorldDetermines
 <1>2. ASSUME NEW f \in Fields
       PROVE  file'[f] = [i \in 1 .. Total |-> file'[f][i]]
  <2>1. CASE file' = file
    BY <1>1, <2>1 DEF WriterTypes
  <2>2. CASE \E parts, data : file' = Written(parts, data)
   <3>1. PICK parts, data : file' = Written(parts, data)
     BY <2>2
   <3> DEFINE v(g, i) == IF g \in parts /\ i - BatchOffset(0) \in 1 .. BatchSize(0)
                           THEN data[g][i - BatchOffset(0)] ELSE file[g][i]
   <3>2. file' = [g \in Fields |-> [i \in 1 .. Total |-> v(g, i)]]
     BY <3>1 DEF Written
   <3> HIDE DEF v
   <3> QED  BY <3>2
  <2> QED  BY <2>1, <2>2
 <1> QED  BY <1>1, <1>2 DEF WriterTypes

(* While a rank works nobody has returned, and nothing is published by it. *)
LEMMA BusyIsAlone ==
    ASSUME WriterInv, NEW r \in Ranks, phase[r] \in Busy
    PROVE  /\ ~ bad[r]
           /\ \A s \in Ranks : phase[s] \notin {"aborted", "returned"}
           /\ r = 0 => canonical # "ours"
  BY DEF WriterInv, VotesStand, AbortEndsAll, ReturnedTogether, RootPublishes,
         Busy, Ended

(* Work inside a stage keeps the invariant, if only rank 0 touches the     *)
(* file and publishes nothing but a whole one.                             *)
LEMMA ProceedingKeeps ==
    ASSUME WriterInv, NEW r \in Ranks, Proceeds(r), WriterTypes',
           r # 0 => UNCHANGED <<header, file, staged, canonical>>,
           r = 0 =>
             /\ phase'[0] = "store" => stage[0] = 7
             /\ stage[0] = 8 /\ phase'[0] = "vote" /\ ~ bad'[0] =>
                    canonical' = "ours"
             /\ canonical' = "ours" =>
                  /\ stage[0] = 8 /\ phase'[0] = "vote" /\ header' = "right"
                  /\ \A f \in FieldsOf(world) : file'[f] = FlattenSeq(ListsOf(world))
                  /\ ~ staged'
    PROVE  WriterInv'
 <1>1. /\ ~ bad[r]
       /\ \A s \in Ranks : phase[s] \notin {"aborted", "returned"}
       /\ r = 0 => canonical # "ours"
   BY BusyIsAlone DEF Proceeds
 <1>2. 0 \in Ranks
   BY SnapshotAssumption DEF Ranks
 <1>3. /\ world' = world
       /\ FieldsOf(world') = FieldsOf(world)
       /\ AgreedOf(world') <=> AgreedOf(world)
       /\ FlattenSeq(ListsOf(world')) = FlattenSeq(ListsOf(world))
   BY WorldStays DEF Proceeds
 <1>4. VotesStand'
  <2>1. ASSUME NEW s \in Ranks, bad'[s]  PROVE phase'[s] \in {"vote"} \union Ended
    BY <1>1, <2>1 DEF WriterInv, VotesStand, Proceeds
  <2>2. ASSUME NEW s \in Ranks, phase'[s] = "threw"  PROVE Refused(s)'
   <3>1. s # r /\ phase[s] = "threw"
     BY <2>2 DEF Proceeds, Busy
   <3>2. Refused(s)
     BY <3>1 DEF WriterInv, VotesStand
   <3>3. \A q \in Ranks : stage[q] = stage[s] /\ bad[q] =>
             stage'[q] = stage[q] /\ bad'[q]
     BY <1>1 DEF Proceeds
   <3> QED  BY <1>3, <3>2, <3>3, ReasonStays DEF Proceeds
  <2>3. \A s \in Ranks : stage'[s] > 1 => AgreedOf(world')
    BY <1>3 DEF WriterInv, VotesStand, Proceeds
  <2> QED  BY <2>1, <2>2, <2>3 DEF VotesStand
 <1>5. AbortEndsAll' /\ ReturnedTogether'
  <2>1. \A s \in Ranks : phase'[s] \notin {"aborted", "returned"}
    BY <1>1 DEF Proceeds, Busy
  <2> QED  BY <2>1 DEF AbortEndsAll, ReturnedTogether
 <1>6. RootPublishes'
  <2>1. CASE r = 0
    BY <1>2, <1>3, <2>1 DEF RootPublishes, Proceeds, Busy
  <2>2. CASE r # 0
   <3>1. /\ phase'[0] = phase[0] /\ bad'[0] = bad[0] /\ stage'[0] = stage[0]
         /\ header' = header /\ file' = file /\ staged' = staged
         /\ canonical' = canonical
     BY <1>2, <2>2 DEF Proceeds
   <3> QED  BY <1>3, <3>1 DEF WriterInv, RootPublishes
  <2> QED  BY <2>1, <2>2
 <1> QED  BY <1>4, <1>5, <1>6 DEF WriterInv

(* From one stage to the next.                                             *)
LEMMA GoingOnKeeps ==
    ASSUME WriterInv, NEW r \in Ranks, GoOn(r), stage[r] \in 1 .. 7, ~ bad[r],
           stage[r] = 1 => Agreed,
           \A s \in Ranks : phase[s] # "aborted",
           world' = world, UNCHANGED <<header, file, staged, canonical>>
    PROVE  WriterInv'
 <1>1. /\ stage' = [stage EXCEPT ![r] = stage[r] + 1]
       /\ phase' = [phase EXCEPT ![r] = "work"] /\ bad' = bad
   BY DEF GoOn
 <1>2. /\ stage \in [Ranks -> 1 .. 8] /\ bad \in [Ranks -> BOOLEAN]
       /\ phase \in [Ranks -> Busy \union {"vote"} \union Ended]
   BY DEF WriterInv, WriterTypes
 <1>3. /\ stage' \in [Ranks -> 1 .. 8]
       /\ phase' \in [Ranks -> Busy \union {"vote"} \union Ended]
       /\ phase'[r] = "work" /\ stage'[r] = stage[r] + 1
       /\ \A s \in Ranks \ {r} : phase'[s] = phase[s] /\ stage'[s] = stage[s]
   BY <1>1, <1>2 DEF Busy
 <1>4. WriterTypes'
   BY <1>1, <1>2, <1>3, ShapeStays DEF WriterInv
 <1>5. /\ FieldsOf(world') = FieldsOf(world)
       /\ AgreedOf(world') <=> AgreedOf(world)
       /\ Agreed <=> AgreedOf(world)
       /\ FlattenSeq(ListsOf(world')) = FlattenSeq(ListsOf(world))
   BY WorldStays, WorldDetermines
 <1>6. VotesStand'
  <2>1. ASSUME NEW s \in Ranks, bad'[s]  PROVE phase'[s] \in {"vote"} \union Ended
    BY <1>1, <1>3, <2>1 DEF WriterInv, VotesStand
  <2>2. ASSUME NEW s \in Ranks, phase'[s] = "threw"  PROVE Refused(s)'
   <3>1. s # r /\ phase[s] = "threw" /\ stage'[s] = stage[s]
     BY <1>3, <2>2
   <3>2. Refused(s)
     BY <3>1 DEF WriterInv, VotesStand
   <3>3. \A q \in Ranks : stage[q] = stage[s] /\ bad[q] =>
             stage'[q] = stage[q] /\ bad'[q]
     BY <1>1, <1>3
   <3> QED  BY <3>1, <3>2, <3>3, ReasonStays
  <2>3. ASSUME NEW s \in Ranks, stage'[s] > 1  PROVE AgreedOf(world')
   <3>1. CASE s # r \/ stage[r] # 1
    <4>1. stage[s] > 1
      BY <1>2, <1>3, <2>3, <3>1
    <4> QED  BY <1>5, <4>1 DEF WriterInv, VotesStand
   <3>2. CASE stage[r] = 1
     BY <1>5, <3>2
   <3> QED  BY <3>1, <3>2
  <2> QED  BY <2>1, <2>2, <2>3 DEF VotesStand
 <1>7. \A s \in Ranks : phase'[s] # "aborted" /\ phase'[s] # "returned"
  <2>1. \A s \in Ranks : phase[s] # "returned"
    BY DEF WriterInv, ReturnedTogether
  <2> QED  BY <1>3, <2>1
 <1>8. AbortEndsAll' /\ ReturnedTogether'
   BY <1>7 DEF AbortEndsAll, ReturnedTogether
 <1>9. RootPublishes'
  <2>1. 0 \in Ranks
    BY SnapshotAssumption DEF Ranks
  <2>2. CASE r = 0
   <3>1. canonical' # "ours"
     BY <2>2 DEF WriterInv, RootPublishes
   <3> QED  BY <1>3, <2>1, <2>2, <3>1 DEF RootPublishes
  <2>3. CASE r # 0
   <3>1. /\ phase'[0] = phase[0] /\ bad'[0] = bad[0] /\ stage'[0] = stage[0]
     BY <1>1, <1>3, <2>1, <2>3
   <3> QED  BY <1>5, <3>1 DEF WriterInv, RootPublishes
  <2> QED  BY <2>2, <2>3
 <1> QED  BY <1>4, <1>6, <1>8, <1>9 DEF WriterInv

(* The reductions.                                                         *)
LEMMA PassKeeps ==
    ASSUME WriterInv, NEW r \in Ranks, Pass(r)
    PROVE  WriterInv'
 <1>1. /\ phase[r] = "vote" /\ \A s \in Ranks : Entered(r, s)
       /\ ~ Refused(r)
       /\ world' = world /\ UNCHANGED <<header, file, staged, canonical>>
   BY DEF Pass, Leaves, disk
 <1>2. /\ stage \in [Ranks -> 1 .. 8] /\ bad \in [Ranks -> BOOLEAN]
       /\ phase \in [Ranks -> Busy \union {"vote"} \union Ended]
       /\ stage[r] \in 1 .. 8
   BY DEF WriterInv, WriterTypes
 <1>3. /\ Name(r) = "agree" <=> stage[r] = 1
       /\ Name(r) = "finish" <=> stage[r] = 8
   BY StageNames DEF WriterInv
 <1>4. /\ \A s \in Ranks : stage[s] = stage[r] => ~ bad[s]
       /\ stage[r] = 1 => Agreed
   BY <1>1, <1>3 DEF Refused
 <1>5. \A s \in Ranks : phase[s] # "aborted"
  <2>1. phase[r] \notin Ended
    BY <1>1 DEF Ended
  <2> QED  BY <2>1 DEF WriterInv, AbortEndsAll
 <1>6. CASE Name(r) # "finish"
  <2>1. GoOn(r) /\ stage[r] \in 1 .. 7
    BY <1>2, <1>3, <1>6 DEF Pass
  <2> QED  BY <1>1, <1>4, <1>5, <2>1, GoingOnKeeps
 <1>7. CASE Name(r) = "finish"
  <2>1. /\ phase' = [phase EXCEPT ![r] = "returned"]
        /\ stage' = stage /\ bad' = bad
    BY <1>7 DEF Pass
  <2>2. /\ phase' \in [Ranks -> Busy \union {"vote"} \union Ended]
        /\ phase'[r] = "returned"
        /\ \A s \in Ranks \ {r} : phase'[s] = phase[s]
    BY <1>2, <2>1 DEF Ended
  <2>3. WriterTypes'
    BY <1>1, <1>2, <2>1, <2>2, ShapeStays DEF WriterInv
  <2>4. /\ FieldsOf(world') = FieldsOf(world)
        /\ AgreedOf(world') <=> AgreedOf(world)
        /\ FlattenSeq(ListsOf(world')) = FlattenSeq(ListsOf(world))
    BY <1>1, WorldStays
  <2>5. \A s \in Ranks : /\ stage[s] = 8 /\ ~ bad[s]
                         /\ phase[s] \in {"vote", "returned", "threw"}
   <3> TAKE s \in Ranks
   <3>1. stage[s] \in 1 .. 8 /\ stage[r] = 8
     BY <1>2, <1>3, <1>7
   <3>2. stage[s] = 8 /\ phase[s] \in {"vote"} \union Ended
     BY <1>1, <3>1 DEF Entered
   <3> QED  BY <1>4, <1>5, <3>1, <3>2 DEF Ended
  <2>6. ASSUME NEW s \in Ranks  PROVE phase[s] # "threw"
   <3> SUFFICES ASSUME phase[s] = "threw"  PROVE FALSE
     OBVIOUS
   <3>1. Refused(s)
     BY DEF WriterInv, VotesStand
   <3>2. Name(s) # "agree"
     BY <2>5, StageNames DEF WriterInv
   <3> QED  BY <2>5, <3>1, <3>2 DEF Refused
  <2>7. 0 \in Ranks
    BY SnapshotAssumption DEF Ranks
  <2>8. canonical = "ours"
    BY <2>5, <2>6, <2>7 DEF WriterInv, RootPublishes
  <2>9. VotesStand'
   <3>1. \A s \in Ranks : phase'[s] # "threw"
     BY <2>2, <2>6
   <3>2. \A s \in Ranks : ~ bad'[s]
     BY <2>1, <2>5
   <3> QED  BY <2>1, <2>4, <3>1, <3>2 DEF WriterInv, VotesStand
  <2>10. AbortEndsAll'
    BY <1>5, <2>2 DEF AbortEndsAll
  <2>11. ReturnedTogether'
   <3>1. canonical' = "ours" /\ \A s \in Ranks : stage'[s] = 8 /\ ~ bad'[s]
     BY <1>1, <2>1, <2>5, <2>8
   <3>2. \A s \in Ranks : phase'[s] \in {"vote", "returned", "aborted"}
     BY <2>2, <2>5, <2>6
   <3> QED  BY <3>1, <3>2 DEF ReturnedTogether
  <2>12. RootPublishes'
   <3>1. /\ phase'[0] \in {"vote"} \union Ended /\ phase'[0] # "store"
         /\ stage'[0] = 8 /\ bad'[0] = bad[0]
     BY <2>1, <2>2, <2>5, <2>7 DEF Ended
   <3> QED  BY <1>1, <2>4, <2>8, <3>1 DEF WriterInv, RootPublishes
  <2> QED  BY <2>3, <2>9, <2>10, <2>11, <2>12 DEF WriterInv
 <1> QED  BY <1>6, <1>7

(* A rank throws for a reason that stays.                                  *)
LEMMA ThrowKeeps ==
    ASSUME WriterInv, NEW r \in Ranks, Throw(r)
    PROVE  WriterInv'
 <1>1. /\ phase[r] = "vote" /\ Refused(r)
       /\ phase' = [phase EXCEPT ![r] = "threw"]
       /\ world' = world /\ stage' = stage /\ bad' = bad
       /\ UNCHANGED <<header, file, staged, canonical>>
   BY DEF Throw, Leaves, disk
 <1>2. /\ stage \in [Ranks -> 1 .. 8] /\ bad \in [Ranks -> BOOLEAN]
       /\ phase \in [Ranks -> Busy \union {"vote"} \union Ended]
   BY DEF WriterInv, WriterTypes
 <1>3. /\ phase' \in [Ranks -> Busy \union {"vote"} \union Ended]
       /\ phase'[r] = "threw"
       /\ \A s \in Ranks \ {r} : phase'[s] = phase[s]
   BY <1>1, <1>2 DEF Ended
 <1>4. WriterTypes'
   BY <1>1, <1>2, <1>3, ShapeStays DEF WriterInv
 <1>5. /\ FieldsOf(world') = FieldsOf(world)
       /\ AgreedOf(world') <=> AgreedOf(world)
       /\ FlattenSeq(ListsOf(world')) = FlattenSeq(ListsOf(world))
   BY <1>1, WorldStays
 <1>6. VotesStand'
  <2>1. ASSUME NEW s \in Ranks, bad'[s]  PROVE phase'[s] \in {"vote"} \union Ended
    BY <1>1, <1>3, <2>1 DEF WriterInv, VotesStand, Ended
  <2>2. ASSUME NEW s \in Ranks, phase'[s] = "threw"  PROVE Refused(s)'
   <3>1. Refused(s)
     BY <1>1, <1>3, <2>2 DEF WriterInv, VotesStand
   <3> QED  BY <1>1, <3>1, ReasonStays
  <2>3. \A s \in Ranks : stage'[s] > 1 => AgreedOf(world')
    BY <1>1, <1>5 DEF WriterInv, VotesStand
  <2> QED  BY <2>1, <2>2, <2>3 DEF VotesStand
 <1>7. \A s \in Ranks : phase[s] # "aborted" /\ phase[s] # "returned"
  <2>1. phase[r] \notin Ended
    BY <1>1 DEF Ended
  <2>2. \A s \in Ranks : phase[s] # "aborted"
    BY <2>1 DEF WriterInv, AbortEndsAll
  <2>3. ASSUME NEW s \in Ranks, phase[s] = "returned"  PROVE FALSE
   <3>1. \A q \in Ranks : stage[q] = 8 /\ ~ bad[q]
     BY <2>3 DEF WriterInv, ReturnedTogether
   <3>2. Name(r) # "agree"
     BY <3>1, StageNames DEF WriterInv
   <3> QED  BY <1>1, <3>1, <3>2 DEF Refused
  <2> QED  BY <2>2, <2>3
 <1>8. AbortEndsAll' /\ ReturnedTogether'
   BY <1>3, <1>7 DEF AbortEndsAll, ReturnedTogether
 <1>9. RootPublishes'
  <2>1. 0 \in Ranks
    BY SnapshotAssumption DEF Ranks
  <2>2. /\ stage'[0] = stage[0] /\ bad'[0] = bad[0]
        /\ header' = header /\ file' = file /\ staged' = staged
        /\ canonical' = canonical
        /\ phase'[0] = phase[0] \/ (phase[0] = "vote" /\ phase'[0] = "threw")
    BY <1>1, <1>3, <2>1
  <2> QED  BY <1>5, <2>2 DEF WriterInv, RootPublishes, Ended
 <1> QED  BY <1>4, <1>6, <1>8, <1>9 DEF WriterInv

LEMMA AbortKeeps ==
    ASSUME WriterInv, Abort
    PROVE  WriterInv'
 <1>1. /\ \E r \in Ranks : phase[r] \notin Ended
       /\ phase' = [r \in Ranks |-> IF phase[r] \in Ended THEN phase[r]
                                                          ELSE "aborted"]
       /\ world' = world /\ stage' = stage /\ bad' = bad
       /\ UNCHANGED <<header, file, staged, canonical>>
   BY DEF Abort, disk
 <1>2. /\ stage \in [Ranks -> 1 .. 8] /\ bad \in [Ranks -> BOOLEAN]
       /\ phase \in [Ranks -> Busy \union {"vote"} \union Ended]
   BY DEF WriterInv, WriterTypes
 <1>3. \A r \in Ranks : /\ phase[r] \in Ended => phase'[r] = phase[r]
                        /\ phase[r] \notin Ended => phase'[r] = "aborted"
                        /\ phase'[r] \in Ended
   BY <1>1 DEF Ended
 <1>4. phase' \in [Ranks -> Busy \union {"vote"} \union Ended]
   BY <1>1 DEF Ended
 <1>5. WriterTypes'
   BY <1>1, <1>2, <1>4, ShapeStays DEF WriterInv
 <1>6. /\ FieldsOf(world') = FieldsOf(world)
       /\ AgreedOf(world') <=> AgreedOf(world)
       /\ FlattenSeq(ListsOf(world')) = FlattenSeq(ListsOf(world))
   BY <1>1, WorldStays
 <1>7. VotesStand'
  <2>1. \A s \in Ranks : phase'[s] \in {"vote"} \union Ended
    BY <1>3
  <2>2. ASSUME NEW s \in Ranks, phase'[s] = "threw"  PROVE Refused(s)'
   <3>1. phase[s] = "threw"
     BY <1>3, <2>2
   <3>2. Refused(s)
     BY <3>1 DEF WriterInv, VotesStand
   <3> QED  BY <1>1, <3>2, ReasonStays
  <2>3. \A s \in Ranks : stage'[s] > 1 => AgreedOf(world')
    BY <1>1, <1>6 DEF WriterInv, VotesStand
  <2> QED  BY <2>1, <2>2, <2>3 DEF VotesStand
 <1>8. AbortEndsAll'
   BY <1>3 DEF AbortEndsAll
 <1>9. ReturnedTogether'
  <2> SUFFICES ASSUME NEW r \in Ranks, phase'[r] = "returned", NEW s \in Ranks
               PROVE  /\ canonical' = "ours" /\ stage'[s] = 8 /\ ~ bad'[s]
                      /\ phase'[s] \in {"vote", "returned", "aborted"}
    BY DEF ReturnedTogether
  <2>1. phase[r] = "returned"
    BY <1>3
  <2>2. /\ canonical = "ours" /\ stage[s] = 8 /\ ~ bad[s]
        /\ phase[s] \in {"vote", "returned", "aborted"}
    BY <2>1 DEF WriterInv, ReturnedTogether
  <2> QED  BY <1>1, <1>3, <2>2
 <1>10. RootPublishes'
  <2>1. 0 \in Ranks
    BY SnapshotAssumption DEF Ranks
  <2>2. /\ stage'[0] = stage[0] /\ bad'[0] = bad[0]
        /\ header' = header /\ file' = file /\ staged' = staged
        /\ canonical' = canonical
        /\ phase'[0] \in Ended /\ (phase'[0] = "returned" => phase[0] = "returned")
    BY <1>1, <1>3, <2>1
  <2> QED  BY <1>6, <2>2 DEF WriterInv, RootPublishes, Ended
 <1> QED  BY <1>5, <1>7, <1>8, <1>9, <1>10 DEF WriterInv

(* Steps that leave the stages, the phases and the published file alone.   *)
LEMMA StillKeeps ==
    ASSUME WriterInv, world' = world, UNCHANGED <<control, header, staged>>,
           \/ file' = file /\ (\/ canonical' = canonical
                               \/ (canonical = "absent" /\ canonical' = "other"))
           \/ /\ phase[0] \in Busy /\ canonical' = canonical
              /\ \E parts, data : file' = Written(parts, data)
    PROVE  WriterInv'
 <1>1. stage' = stage /\ phase' = phase /\ bad' = bad /\ header' = header
       /\ staged' = staged
   BY DEF control
 <1>2. 0 \in Ranks
   BY SnapshotAssumption DEF Ranks
 <1>3. WriterTypes'
  <2>1. file' = file \/ \E parts, data : file' = Written(parts, data)
    OBVIOUS
  <2>2. /\ stage' \in [Ranks -> 1 .. 8] /\ bad' \in [Ranks -> BOOLEAN]
        /\ phase' \in [Ranks -> Busy \union {"vote"} \union Ended]
    BY <1>1 DEF WriterInv, WriterTypes
  <2> QED  BY <2>1, <2>2, ShapeStays DEF WriterInv
 <1>4. /\ FieldsOf(world') = FieldsOf(world)
       /\ AgreedOf(world') <=> AgreedOf(world)
       /\ FlattenSeq(ListsOf(world')) = FlattenSeq(ListsOf(world))
   BY WorldStays
 <1>5. canonical' = "ours" <=> canonical = "ours"
   OBVIOUS
 <1>6. canonical = "ours" => file' = file
  <2>1. phase[0] \in Busy => canonical # "ours"
    BY <1>2, BusyIsAlone
  <2> QED  BY <2>1
 <1>7. VotesStand'
  <2>1. ASSUME NEW s \in Ranks, phase'[s] = "threw"  PROVE Refused(s)'
   <3>1. Refused(s)
     BY <1>1, <2>1 DEF WriterInv, VotesStand
   <3> QED  BY <1>1, <3>1, ReasonStays
  <2> QED  BY <1>1, <1>4, <2>1 DEF WriterInv, VotesStand
 <1>8. AbortEndsAll' /\ ReturnedTogether'
   BY <1>1, <1>5 DEF WriterInv, AbortEndsAll, ReturnedTogether
 <1>9. RootPublishes'
   BY <1>1, <1>4, <1>5, <1>6 DEF WriterInv, RootPublishes
 <1> QED  BY <1>3, <1>7, <1>8, <1>9 DEF WriterInv

(* A rank that reports to the reduction of its stage, or starts or ends a  *)
(* communication.                                                          *)
LEMMA PhaseSteps ==
    ASSUME WriterTypes, NEW r \in Ranks, NEW from \in Busy,
           NEW to \in Busy \union {"vote"}, phase[r] = from,
           phase' = [phase EXCEPT ![r] = to],
           \/ bad' = bad
           \/ to = "vote" /\ \E ok \in BOOLEAN : bad' = [bad EXCEPT ![r] = ~ ok],
           world' = world, stage' = stage
    PROVE  Proceeds(r) /\ phase'[r] = to
 <1>1. /\ bad \in [Ranks -> BOOLEAN]
       /\ phase \in [Ranks -> Busy \union {"vote"} \union Ended]
   BY DEF WriterTypes
 <1>2. /\ phase' \in [Ranks -> Busy \union {"vote"} \union Ended]
       /\ phase'[r] = to
       /\ \A s \in Ranks \ {r} : phase'[s] = phase[s]
   BY <1>1
 <1>3. /\ bad' \in [Ranks -> BOOLEAN]
       /\ \A s \in Ranks \ {r} : bad'[s] = bad[s]
       /\ to # "vote" => bad'[r] = bad[r]
   BY <1>1
 <1> QED  BY <1>1, <1>2, <1>3 DEF Proceeds

LEMMA ProceedingTypes ==
    ASSUME WriterTypes, NEW r \in Ranks, Proceeds(r),
           \/ file' = file
           \/ \E parts, data : file' = Written(parts, data)
    PROVE  WriterTypes'
 <1>1. /\ stage' \in [Ranks -> 1 .. 8] /\ bad' \in [Ranks -> BOOLEAN]
       /\ phase' \in [Ranks -> Busy \union {"vote"} \union Ended]
       /\ world' = world
   BY DEF Proceeds, WriterTypes
 <1> QED  BY <1>1, ShapeStays

(* A step inside a stage that leaves what rank 0 publishes alone.          *)
LEMMA QuietlyKeeps ==
    ASSUME WriterInv, NEW r \in Ranks, NEW from \in Busy,
           NEW to \in Busy \union {"vote"}, phase[r] = from,
           phase' = [phase EXCEPT ![r] = to],
           \/ bad' = bad
           \/ to = "vote" /\ \E ok \in BOOLEAN : bad' = [bad EXCEPT ![r] = ~ ok],
           world' = world, stage' = stage,
           UNCHANGED <<header, file, staged, canonical>>,
           r = 0 => /\ to = "store" => stage[0] = 7
                    /\ to = "vote" => stage[0] # 8
    PROVE  WriterInv'
 <1>1. Proceeds(r) /\ phase'[r] = to
   BY PhaseSteps DEF WriterInv
 <1>2. WriterTypes'
   BY <1>1, ProceedingTypes DEF WriterInv
 <1>3. r = 0 => canonical # "ours"
   BY BusyIsAlone
 <1> QED  BY <1>1, <1>2, <1>3, ProceedingKeeps

LEMMA RankStepKeeps ==
    ASSUME WriterInv, NEW r \in Ranks, RankStep(r)
    PROVE  WriterInv'
 <1> USE DEF disk
 <1>0. /\ stage[r] \in 1 .. 8
       /\ Name(r) = "agree" <=> stage[r] = 1
       /\ Name(r) = "transfer" <=> stage[r] = 7
       /\ Name(r) = "finish" <=> stage[r] = 8
       /\ Name(r) = "setup" <=> stage[r] = 6
   BY StageNames DEF WriterInv
 <1>b. "work" \in Busy /\ "communicate" \in Busy /\ "vote" \in Busy \union {"vote"}
       /\ "communicate" \in Busy \union {"vote"} /\ "work" \in Busy \union {"vote"}
   BY DEF Busy
 <1>1. ASSUME NEW ok \in BOOLEAN, Check(r, ok)  PROVE WriterInv'
  <2>1. /\ phase[r] = "work" /\ stage[r] # 8
        /\ phase' = [phase EXCEPT ![r] = "vote"] /\ bad' = [bad EXCEPT ![r] = ~ ok]
        /\ stage' = stage /\ world' = world
        /\ UNCHANGED <<header, file, staged, canonical>>
    BY <1>0, <1>1 DEF Check, Vote
  <2> QED  BY <1>b, <2>1, QuietlyKeeps
 <1>2. CASE StandBy(r)
  <2>1. /\ r # 0 /\ phase[r] = "work"
        /\ phase' = [phase EXCEPT ![r] = "vote"] /\ bad' = [bad EXCEPT ![r] = ~ TRUE]
        /\ stage' = stage /\ world' = world
        /\ UNCHANGED <<header, file, staged, canonical>>
    BY <1>2 DEF StandBy, Works, Vote
  <2>2. TRUE \in BOOLEAN
    OBVIOUS
  <2> QED  BY <1>b, <2>1, <2>2, QuietlyKeeps
 <1>3. CASE ReportIds(r)
  <2> DEFINE ok == ~ (ring[r].duplicate \/ ring[r].protocol_invalid)
  <2>1. /\ phase[r] = "work" /\ Name(r) = "ring"
        /\ phase' = [phase EXCEPT ![r] = "vote"] /\ bad' = [bad EXCEPT ![r] = ~ ok]
        /\ stage' = stage /\ world' = world
        /\ UNCHANGED <<header, file, staged, canonical>>
    BY <1>3 DEF ReportIds, Works, Vote
  <2>2. ok \in BOOLEAN /\ stage[r] # 8
    BY <1>0, <2>1
  <2> HIDE DEF ok
  <2> QED  BY <1>b, <2>1, <2>2, QuietlyKeeps
 <1>4. CASE StartExchange(r) \/ SendPart(r)
  <2>1. /\ phase[r] = "work"
        /\ phase' = [phase EXCEPT ![r] = "communicate"] /\ bad' = bad
        /\ stage' = stage /\ world' = world
        /\ UNCHANGED <<header, file, staged, canonical>>
    BY <1>4 DEF StartExchange, SendPart, Works
  <2> QED  BY <1>b, <2>1, QuietlyKeeps
 <1>5. CASE EndExchange(r, TRUE) \/ EndSend(r, TRUE)
  <2>1. /\ phase[r] = "communicate"
        /\ phase' = [phase EXCEPT ![r] = "work"] /\ bad' = bad
        /\ stage' = stage /\ world' = world
        /\ UNCHANGED <<header, file, staged, canonical>>
    BY <1>5 DEF EndExchange, EndSend
  <2> QED  BY <1>b, <2>1, QuietlyKeeps
 <1>6. CASE EndSending(r)
  <2>1. /\ phase[r] = "work" /\ stage[r] = 7 /\ GoOn(r) /\ world' = world
        /\ UNCHANGED <<header, file, staged, canonical>>
    BY <1>0, <1>6 DEF EndSending, Works
  <2>2. ~ bad[r] /\ \A s \in Ranks : phase[s] \notin {"aborted", "returned"}
    BY <1>b, <2>1, BusyIsAlone
  <2> QED  BY <2>1, <2>2, GoingOnKeeps
 <1>7. CASE Pass(r)
   BY <1>7, PassKeeps
 <1>8. CASE Throw(r)
   BY <1>8, ThrowKeeps
 <1> QED  BY <1>1, <1>2, <1>3, <1>4, <1>5, <1>6, <1>7, <1>8 DEF RankStep

LEMMA RootStepKeeps ==
    ASSUME WriterInv, RootStep
    PROVE  WriterInv'
 <1>0. /\ 0 \in Ranks
       /\ Name(0) = "transfer" <=> stage[0] = 7
       /\ Name(0) = "finish" <=> stage[0] = 8
       /\ Name(0) = "setup" <=> stage[0] = 6
  <2>1. 0 \in Ranks
    BY SnapshotAssumption DEF Ranks
  <2> QED  BY <2>1, StageNames DEF WriterInv
 <1>b. {"work", "communicate", "store"} = Busy
   BY DEF Busy
 <1>1. ASSUME NEW ok \in BOOLEAN, Publish(ok)  PROVE WriterInv'
  <2>1. /\ phase[0] = "work" /\ stage[0] = 8
        /\ phase' = [phase EXCEPT ![0] = "vote"] /\ bad' = [bad EXCEPT ![0] = ~ ok]
        /\ stage' = stage /\ world' = world
        /\ header = "right" /\ PayloadMatches
        /\ header' = header /\ file' = file
        /\ canonical' = "ours" /\ staged' = FALSE
    BY <1>0, <1>1 DEF Publish, Works, Vote, MetadataMatches
  <2>2. Proceeds(0) /\ phase'[0] = "vote"
    BY <1>0, <1>b, <2>1, PhaseSteps DEF WriterInv
  <2>3. WriterTypes'
    BY <1>0, <2>1, <2>2, ProceedingTypes DEF WriterInv
  <2>4. \A f \in FieldsOf(world) : file'[f] = FlattenSeq(ListsOf(world))
    BY <2>1, ReadBackIsWhole DEF WriterInv
  <2> QED  BY <1>0, <2>1, <2>2, <2>3, <2>4, ProceedingKeeps
 <1>2. CASE Setup \/ SetupFails \/ FailUnpublished
  <2>1. PICK ok \in BOOLEAN :
          /\ phase[0] = "work" /\ (stage[0] = 6 \/ ~ ok)
          /\ phase' = [phase EXCEPT ![0] = "vote"] /\ bad' = [bad EXCEPT ![0] = ~ ok]
          /\ stage' = stage /\ world' = world
          /\ file' = file /\ canonical' = canonical
   <3>1. CASE Setup
    <4>1. /\ phase[0] = "work" /\ stage[0] = 6
          /\ phase' = [phase EXCEPT ![0] = "vote"]
          /\ bad' = [bad EXCEPT ![0] = ~ TRUE]
          /\ stage' = stage /\ world' = world
          /\ file' = file /\ canonical' = canonical
      BY <1>0, <3>1 DEF Setup, Works, Vote
    <4> QED  BY <4>1
   <3>2. CASE SetupFails \/ FailUnpublished
    <4>1. /\ phase[0] = "work"
          /\ phase' = [phase EXCEPT ![0] = "vote"]
          /\ bad' = [bad EXCEPT ![0] = ~ FALSE]
          /\ stage' = stage /\ world' = world
          /\ file' = file /\ canonical' = canonical
      BY <3>2 DEF SetupFails, FailUnpublished, Works, Vote
    <4> QED  BY <4>1
   <3> QED  BY <1>2, <3>1, <3>2
  <2>2. Proceeds(0) /\ phase'[0] = "vote"
    BY <1>0, <1>b, <2>1, PhaseSteps DEF WriterInv
  <2>3. WriterTypes'
    BY <1>0, <2>1, <2>2, ProceedingTypes DEF WriterInv
  <2>4. canonical # "ours"
    BY <1>0, <1>b, <2>1, BusyIsAlone
  <2>5. stage[0] = 8 => bad'[0]
    BY <1>0, <2>1 DEF WriterInv, WriterTypes
  <2> QED  BY <1>0, <2>1, <2>2, <2>3, <2>4, <2>5, ProceedingKeeps
 <1>3. ASSUME NEW parts \in Outcomes, NEW reported \in BOOLEAN,
              StoreOwn(parts, reported)
       PROVE  WriterInv'
  <2>1. /\ phase[0] = "work" /\ world' = world
        /\ UNCHANGED <<control, header, staged, canonical>>
        /\ file' = file \/ \E data : file' = Written(parts, data)
    BY <1>3 DEF StoreOwn, Works, Store
  <2> QED  BY <1>b, <2>1, StillKeeps
 <1>4. ASSUME NEW parts \in Outcomes, NEW reported \in BOOLEAN,
              StoreBatch(parts, reported)
       PROVE  WriterInv'
  <2>1. /\ phase[0] = "store" /\ world' = world /\ stage' = stage
        /\ phase' = [phase EXCEPT ![0] = "work"] /\ bad' = bad
        /\ UNCHANGED <<header, staged, canonical>>
        /\ file' = file \/ \E data : file' = Written(parts, data)
    BY <1>4 DEF StoreBatch, Store, KeepDraining
  <2>2. Proceeds(0) /\ phase'[0] = "work"
    BY <1>0, <1>b, <2>1, PhaseSteps DEF WriterInv
  <2>3. WriterTypes'
    BY <1>0, <2>1, <2>2, ProceedingTypes DEF WriterInv
  <2>4. canonical # "ours"
    BY <1>0, <1>b, <2>1, BusyIsAlone
  <2> QED  BY <1>0, <2>1, <2>2, <2>3, <2>4, ProceedingKeeps
 <1>5. CASE NextSource
  <2>1. UNCHANGED <<world, control, header, file, staged, canonical>>
    BY <1>5 DEF NextSource, disk
  <2> QED  BY <2>1, StillKeeps
 <1>6. CASE Receive
  <2>1. /\ phase[0] = "work"
        /\ phase' = [phase EXCEPT ![0] = "communicate"] /\ bad' = bad
        /\ stage' = stage /\ world' = world
        /\ UNCHANGED <<header, file, staged, canonical>>
    BY <1>6 DEF Receive, Works, disk
  <2> QED  BY <1>0, <1>b, <2>1, QuietlyKeeps
 <1>7. CASE EndReceive
  <2>1. PICK to \in {"store", "work"} :
          /\ phase[0] = "communicate" /\ stage[0] = 7
          /\ phase' = [phase EXCEPT ![0] = to] /\ bad' = bad
          /\ stage' = stage /\ world' = world
          /\ UNCHANGED <<header, file, staged, canonical>>
    BY <1>0, <1>7 DEF EndReceive, disk
  <2> QED  BY <1>0, <1>b, <2>1, QuietlyKeeps
 <1>8. CASE EndReceiving
  <2>1. /\ phase[0] = "work" /\ stage[0] = 7 /\ GoOn(0) /\ world' = world
        /\ UNCHANGED <<header, file, staged, canonical>>
    BY <1>0, <1>8 DEF EndReceiving, Works, disk
  <2>2. ~ bad[0] /\ \A s \in Ranks : phase[s] \notin {"aborted", "returned"}
    BY <1>0, <1>b, <2>1, BusyIsAlone
  <2> QED  BY <1>0, <2>1, <2>2, GoingOnKeeps
 <1> QED  BY <1>1, <1>2, <1>3, <1>4, <1>5, <1>6, <1>7, <1>8 DEF RootStep

LEMMA WriterMoves == WriterInv /\ [SnapshotNext]_snapshot => WriterInv'
 <1> SUFFICES ASSUME WriterInv, [SnapshotNext]_snapshot  PROVE WriterInv'
   OBVIOUS
 <1>1. ASSUME NEW r \in Ranks, RankStep(r)  PROVE WriterInv'
   BY <1>1, RankStepKeeps
 <1>2. ASSUME NEW r \in Ranks, Buffered(r)  PROVE WriterInv'
  <2>1. /\ phase[r] = "communicate"
        /\ phase' = [phase EXCEPT ![r] = "work"] /\ bad' = bad
        /\ stage' = stage /\ world' = world
        /\ UNCHANGED <<header, file, staged, canonical>>
    BY <1>2 DEF Buffered, EndExchange, EndSend, disk
  <2>2. "communicate" \in Busy /\ "work" \in Busy \union {"vote"}
    BY DEF Busy
  <2> QED  BY <2>1, <2>2, QuietlyKeeps
 <1>3. ASSUME NEW r \in Ranks, Match(r)  PROVE WriterInv'
  <2>1. UNCHANGED <<world, control, header, file, staged, canonical>>
    BY <1>3 DEF Match, disk
  <2> QED  BY <2>1, StillKeeps
 <1>4. CASE RootStep
   BY <1>4, RootStepKeeps
 <1>5. CASE TakenByOther
  <2>1. /\ UNCHANGED <<world, control, header, file, staged>>
        /\ canonical = "absent" /\ canonical' = "other"
    BY <1>5 DEF TakenByOther
  <2> QED  BY <2>1, StillKeeps
 <1>6. CASE Abort
   BY <1>6, AbortKeeps
 <1>7. CASE Finished \/ UNCHANGED snapshot
  <2>1. UNCHANGED <<world, control, header, file, staged, canonical>>
    BY <1>7 DEF Finished, snapshot, disk
  <2> QED  BY <2>1, StillKeeps
 <1> QED  BY <1>1, <1>2, <1>3, <1>4, <1>5, <1>6, <1>7 DEF SnapshotNext

(* The invariant of the writer implies what it promises.                   *)
LEMMA WriterPublishes == WriterInv => PublishedHoldsEveryParticle
 <1> SUFFICES ASSUME WriterInv  PROVE PublishedHoldsEveryParticle
   OBVIOUS
 <1>1. /\ Total = SizeOf(world) /\ Fields = FieldsOf(world)
       /\ AllParticles = FlattenSeq(ListsOf(world))
   BY WorldDetermines
 <1>2. 0 \in Ranks /\ world \in Worlds
   BY SnapshotAssumption DEF Ranks, WriterInv, WriterTypes
 <1>3. ASSUME canonical = "ours"
       PROVE  /\ header = "right"
              /\ \A f \in Fields : file[f] = AllParticles
              /\ Len(AllParticles) = world.configured
              /\ \A r \in Ranks : world.asked[r] = world.asked[0]
              /\ ~ staged
  <2>1. /\ stage[0] = 8 /\ header = "right" /\ ~ staged
        /\ \A f \in Fields : file[f] = AllParticles
    BY <1>1, <1>3 DEF WriterInv, RootPublishes
  <2>2. AgreedOf(world)
    BY <1>2, <2>1 DEF WriterInv, VotesStand
  <2>3. SizeOf(world) \in Nat
    BY <1>2, IntervalsAdjoin DEF SizeOf
  <2>4. "ids" \in FieldsOf(world)
    BY DEF FieldsOf
  <2>5. AllParticles = [i \in 1 .. SizeOf(world) |-> file["ids"][i]]
    BY <1>1, <2>1, <2>4 DEF WriterInv, WriterTypes
  <2>6. Len(AllParticles) = SizeOf(world)
    BY <2>3, <2>5
  <2> QED  BY <1>2, <2>1, <2>2, <2>6 DEF AgreedOf
 <1>4. \A r, s \in Ranks : phase[r] = "returned" =>
           canonical = "ours" /\ phase[s] # "threw"
   BY DEF WriterInv, ReturnedTogether
 <1> QED  BY <1>3, <1>4 DEF PublishedHoldsEveryParticle

(* DistributedSnapshot: the inductive invariant of the writer, from the    *)
(* agreed preflight of write_snapshot to its last reduction.               *)
THEOREM WriterInvariant == SnapshotSpec => []WriterInv
  BY WriterStarts, WriterMoves, PTL DEF SnapshotSpec

(* DistributedSnapshot: a snapshot the writer put in place describes its   *)
(* data, holds every field of every particle of every rank once, in rank   *)
(* order, of an epoch and index all ranks asked for; and where one rank    *)
(* returned, it is in place and no rank threw.                             *)
THEOREM SnapshotHoldsEveryParticle ==
    SnapshotSpec => []PublishedHoldsEveryParticle
  BY WriterInvariant, WriterPublishes, PTL

-----------------------------------------------------------------------------
(* The identities of a snapshot: ascending lists and one pass over them.   *)

IdLists == Seq(Nat \ {0})

(* A list that ascends step by step ascends altogether.                    *)
LEMMA InOrder ==
    ASSUME NEW s \in IdLists, Sorted(s)
    PROVE  \A i, j \in 1 .. Len(s) : i < j => s[i] < s[j]
 <1>1. Len(s) \in Nat /\ \A i \in 1 .. Len(s) : s[i] \in Nat
   BY DEF IdLists
 <1> DEFINE S == {n \in Nat : \A i, j \in 1 .. Len(s) :
                                 i < j /\ j <= n => s[i] < s[j]}
 <1>2. 0 \in S
   OBVIOUS
 <1>3. ASSUME NEW n \in Nat, n \in S  PROVE n + 1 \in S
  <2> SUFFICES ASSUME NEW i \in 1 .. Len(s), NEW j \in 1 .. Len(s),
                      i < j, j <= n + 1
               PROVE  s[i] < s[j]
    OBVIOUS
  <2>1. CASE j <= n
    BY <1>3, <2>1
  <2>2. CASE j = n + 1
   <3>1. n \in 1 .. Len(s) - 1 /\ n \in 1 .. Len(s)
     BY <1>1, <2>2
   <3>2. s[n] < s[j]
     BY <2>2, <3>1 DEF Sorted
   <3>3. i = n \/ s[i] < s[n]
     BY <1>3, <2>2, <3>1
   <3> HIDE DEF S
   <3> QED  BY <1>1, <3>1, <3>2, <3>3
  <2> QED  BY <2>1, <2>2
 <1> HIDE DEF S
 <1>4. Len(s) \in S
   BY <1>1, <1>2, <1>3, CountingUp
 <1> QED  BY <1>4 DEF S

(* A bounded set of naturals that is not empty has the greatest element    *)
(* Max names.                                                              *)
LEMMA MaxIsGreatest ==
    ASSUME NEW S \in SUBSET Nat, S # {}, NEW b \in Nat, \A y \in S : y <= b
    PROVE  Max(S) \in S /\ \A y \in S : y <= Max(S)
 <1> DEFINE U == {u \in Nat : \A y \in S : y <= u}
            n == Min(U)
 <1>1. U \in SUBSET Nat /\ b \in U
   OBVIOUS
 <1>2. n \in U /\ \A u \in U : n <= u
   BY <1>1, MinIsLeast
 <1> HIDE DEF n
 <1>3. n \in Nat /\ \A y \in S : y <= n
   BY <1>2
 <1>4. n \in S
  <2> SUFFICES ASSUME n \notin S  PROVE FALSE
    OBVIOUS
  <2>1. \A y \in S : y \in Nat /\ y < n
    BY <1>3
  <2>2. PICK y \in S : TRUE
    OBVIOUS
  <2>3. n - 1 \in Nat
    BY <1>3, <2>1, <2>2
  <2>4. \A z \in S : z <= n - 1
    BY <1>3, <2>1
  <2>5. n - 1 \in U
    BY <2>3, <2>4
  <2> QED  BY <1>2, <1>3, <2>5
 <1> QED  BY <1>3, <1>4 DEF Max

(* The greater and the lesser of two numbers.                              *)
LEMMA GreaterOfTwo ==
    ASSUME NEW x \in Nat, NEW y \in Nat
    PROVE  Max({x, y}) = IF x <= y THEN y ELSE x
 <1> DEFINE S == {x, y}
            b == x + y
 <1>1. S \in SUBSET Nat /\ S # {} /\ b \in Nat /\ \A z \in S : z <= b
   OBVIOUS
 <1>2. Max(S) \in S /\ \A z \in S : z <= Max(S)
   BY <1>1, MaxIsGreatest
 <1> QED  BY <1>2

LEMMA LesserOfTwo ==
    ASSUME NEW x \in Nat, NEW y \in Nat
    PROVE  Min({x, y}) = IF x <= y THEN x ELSE y
 <1>1. Min({x, y}) \in {x, y} /\ \A z \in {x, y} : Min({x, y}) <= z
   BY MinIsLeast
 <1> QED  BY <1>1

(* Where an identity has its place in an ascending list.                   *)
Below(list, id) == Cardinality({i \in DOMAIN list : list[i] < id})

(* In an ascending list the identities below one come first.               *)
LEMMA BelowIsThere ==
    ASSUME NEW list \in IdLists, Sorted(list), NEW id \in Nat
    PROVE  /\ Below(list, id) \in 0 .. Len(list)
           /\ \A i \in 1 .. Len(list) : list[i] < id <=> i <= Below(list, id)
 <1> DEFINE S == {i \in DOMAIN list : list[i] < id}
 <1>1. /\ Len(list) \in Nat /\ DOMAIN list = 1 .. Len(list)
       /\ \A i \in 1 .. Len(list) : list[i] \in Nat
   BY DEF IdLists
 <1>2. \A i, j \in 1 .. Len(list) : i < j => list[i] < list[j]
   BY InOrder
 <1>3. PICK m \in 0 .. Len(list) : S = 1 .. m
  <2>1. CASE S = {}
   <3>1. S = 1 .. 0 /\ 0 \in 0 .. Len(list)
     BY <1>1, <2>1
   <3> QED  BY <3>1
  <2>2. CASE S # {}
   <3> DEFINE m == Max(S)
   <3>1. S \in SUBSET Nat /\ \A y \in S : y <= Len(list)
     BY <1>1
   <3>2. m \in S /\ \A y \in S : y <= m
    <4> HIDE DEF S
    <4> QED  BY <1>1, <2>2, <3>1, MaxIsGreatest
   <3> HIDE DEF m
   <3>3. m \in 1 .. Len(list) /\ list[m] < id
     BY <1>1, <3>2
   <3>4. \A i \in 1 .. m : i \in 1 .. Len(list) /\ (i = m \/ list[i] < list[m])
     BY <1>2, <3>3
   <3>5. \A i \in 1 .. m : i \in S
     BY <1>1, <3>3, <3>4
   <3>6. S = 1 .. m
     BY <1>1, <3>2, <3>3, <3>5
   <3> QED  BY <3>3, <3>6
  <2> QED  BY <2>1, <2>2
 <1>4. Cardinality(1 .. m) = m
   BY FS_Interval
 <1>5. Below(list, id) = m
   BY <1>3, <1>4 DEF Below
 <1>6. \A i \in 1 .. Len(list) : list[i] < id <=> i \in S
   BY <1>1
 <1> HIDE DEF S
 <1> QED  BY <1>3, <1>5, <1>6

(* More of a list is below a greater identity.                             *)
LEMMA BelowGrows ==
    ASSUME NEW list \in IdLists, Sorted(list),
           NEW x \in Nat, NEW y \in Nat, x <= y
    PROVE  Below(list, x) <= Below(list, y)
 <1> DEFINE p == Below(list, x)
            q == Below(list, y)
 <1>1. /\ p \in 0 .. Len(list) /\ q \in 0 .. Len(list)
       /\ \A i \in 1 .. Len(list) : list[i] < x <=> i <= p
       /\ \A i \in 1 .. Len(list) : list[i] < y <=> i <= q
   BY BelowIsThere
 <1>2. \A i \in 1 .. Len(list) : list[i] \in Nat
   BY DEF IdLists
 <1> HIDE DEF p, q
 <1>3. Len(list) \in Nat
   BY DEF IdLists
 <1>4. ASSUME p # 0  PROVE p <= q
  <2>1. p \in 1 .. Len(list)
    BY <1>1, <1>3, <1>4
  <2>2. list[p] < x
    BY <1>1, <2>1
  <2>3. list[p] < y
    BY <1>2, <2>1, <2>2
  <2> QED  BY <1>1, <2>1, <2>3
 <1>5. p <= q
   BY <1>1, <1>3, <1>4
 <1> QED  BY <1>5 DEF p, q

(* The next place holds the identity, if the list has it at all.           *)
LEMMA FoundBelow ==
    ASSUME NEW list \in IdLists, Sorted(list), NEW id \in Nat,
           NEW place, place = Below(list, id) + 1
    PROVE  (place <= Len(list) /\ list[place] = id) <=> id \in Range(list)
 <1>1. /\ Below(list, id) \in 0 .. Len(list)
       /\ \A i \in 1 .. Len(list) : list[i] < id <=> i <= Below(list, id)
   BY BelowIsThere
 <1>2. /\ Len(list) \in Nat /\ DOMAIN list = 1 .. Len(list)
       /\ \A i \in 1 .. Len(list) : list[i] \in Nat
   BY DEF IdLists
 <1>3. \A i, j \in 1 .. Len(list) : i < j => list[i] < list[j]
   BY InOrder
 <1>4. ASSUME place <= Len(list), list[place] = id  PROVE id \in Range(list)
  <2>1. place \in DOMAIN list
    BY <1>1, <1>2, <1>4
  <2> QED  BY <1>4, <2>1 DEF Range
 <1>5. ASSUME id \in Range(list)  PROVE place <= Len(list) /\ list[place] = id
  <2>1. PICK k \in 1 .. Len(list) : list[k] = id
    BY <1>2, <1>5 DEF Range
  <2>2. ~ (list[k] < id)
    BY <1>2, <2>1
  <2>3. k >= place
    BY <1>1, <2>1, <2>2
  <2>4. CASE k = place
    BY <1>2, <2>1, <2>4
  <2>5. CASE k > place
   <3>1. place \in 1 .. Len(list)
     BY <1>1, <1>2, <2>1, <2>5
   <3>2. list[place] < id
     BY <1>3, <2>1, <2>5, <3>1
   <3>3. place <= Below(list, id)
     BY <1>1, <3>1, <3>2
   <3> QED  BY <1>1, <3>3
  <2> QED  BY <1>1, <2>1, <2>3, <2>4, <2>5
 <1> QED  BY <1>4, <1>5

(* n identities of other behind the first m; and the states of a scan.     *)
Slice(data, other, m, n) ==
    DOMAIN data = 1 .. n /\ \A k \in 1 .. n : data[k] = other[m + k]

ScanLoop(f, state, data, n, list) ==
    f[0] = state /\ \A k \in 1 .. n : f[k] = Scan(f[k - 1], data[k], list)

(* A scan is a loop over what was received.                                *)
LEMMA ScanIsLoop ==
    ASSUME NEW list, NEW base, NEW data, NEW n \in Nat, DOMAIN data = 1 .. n
    PROVE  \E f : /\ FoldLeft(LAMBDA acc, id : Scan(acc, id, list), base, data) = f[n]
                  /\ ScanLoop(f, base, data, n, list)
 <1> DEFINE is(f, S) == f = [s \in SUBSET S |->
               IF s = {} THEN base
                         ELSE Scan(f[s \ {Max(s)}], data[Max(s)], list)]
            Q == {m \in Nat : \E f : is(f, 1 .. m)}
 <1>1. \A m \in Nat : \A s \in SUBSET (1 .. m) : s # {} =>
           Max(s) \in s /\ \A y \in s : y <= Max(s)
  <2> SUFFICES ASSUME NEW m \in Nat, NEW s \in SUBSET (1 .. m), s # {}
               PROVE  Max(s) \in s /\ \A y \in s : y <= Max(s)
    OBVIOUS
  <2>1. s \in SUBSET Nat /\ \A y \in s : y <= m
    OBVIOUS
  <2> QED  BY <2>1, MaxIsGreatest
 <1>2. 0 \in Q
  <2> DEFINE g == [s \in SUBSET (1 .. 0) |-> base]
  <2>1. \A s \in SUBSET (1 .. 0) : s = {}
    OBVIOUS
  <2>2. is(g, 1 .. 0)
    BY <2>1
  <2> HIDE DEF g
  <2> QED  BY <2>2
 <1>3. ASSUME NEW m \in Nat, m \in Q  PROVE m + 1 \in Q
  <2>1. PICK g : is(g, 1 .. m)
    BY <1>3
  <2> DEFINE low == 1 .. m
             top == 1 .. m + 1
             h == [s \in SUBSET top |->
                     IF m + 1 \in s THEN Scan(g[s \ {m + 1}], data[m + 1], list)
                                    ELSE g[s]]
  <2>2. \A s \in SUBSET top : /\ s \ {m + 1} \in SUBSET low
                              /\ m + 1 \notin s => s \in SUBSET low
    OBVIOUS
  <2>3. \A s \in SUBSET top : m + 1 \in s => Max(s) = m + 1
   <3> SUFFICES ASSUME NEW s \in SUBSET top, m + 1 \in s
                PROVE  Max(s) = m + 1
     OBVIOUS
   <3>1. Max(s) \in s /\ \A y \in s : y <= Max(s)
    <4>1. m + 1 \in Nat /\ s \in SUBSET (1 .. m + 1) /\ s # {}
      OBVIOUS
    <4> HIDE DEF h, top, low, is
    <4> QED  BY <1>1, <4>1
   <3>2. Max(s) \in 1 .. m + 1 /\ m + 1 <= Max(s)
    <4> HIDE DEF h, low, is
    <4> QED  BY <3>1
   <3> HIDE DEF h, top, low, is
   <3> QED  BY <3>2
  <2>4. \A s \in SUBSET low : g[s] = IF s = {} THEN base
                              ELSE Scan(g[s \ {Max(s)}], data[Max(s)], list)
    BY <2>1
  <2>5. \A s \in SUBSET top : h[s] = IF s = {} THEN base
                              ELSE Scan(h[s \ {Max(s)}], data[Max(s)], list)
   <3> TAKE s \in SUBSET top
   <3>1. CASE m + 1 \in s
    <4>1. h[s] = Scan(g[s \ {m + 1}], data[m + 1], list)
      BY <3>1
    <4>2. s \ {m + 1} \in SUBSET top /\ m + 1 \notin s \ {m + 1}
      OBVIOUS
    <4>3. h[s \ {m + 1}] = g[s \ {m + 1}]
      BY <4>2
    <4>4. s # {} /\ Max(s) = m + 1
      BY <2>3, <3>1
    <4> HIDE DEF h, top
    <4> QED  BY <4>1, <4>3, <4>4
   <3>2. CASE m + 1 \notin s
    <4>1. h[s] = g[s] /\ s \in SUBSET low
      BY <2>2, <3>2
    <4>2. h[s \ {Max(s)}] = g[s \ {Max(s)}]
      BY <3>2
    <4> HIDE DEF h, top, low
    <4> QED  BY <2>4, <4>1, <4>2
   <3> QED  BY <3>1, <3>2
  <2>6. is(h, top)
   <3>1. h = [s \in SUBSET top |-> h[s]]
     OBVIOUS
   <3> HIDE DEF h
   <3> QED  BY <2>5, <3>1
  <2>7. \E e : is(e, 1 .. m + 1)
   <3> HIDE DEF h, is
   <3> QED  BY <2>6
  <2>8. m + 1 \in Nat
    OBVIOUS
  <2> HIDE DEF h, top, low, is
  <2> QED  BY <2>7, <2>8
 <1> HIDE DEF Q
 <1>4. n \in Q
   BY <1>2, <1>3, CountingUp
 <1> DEFINE f == CHOOSE e : is(e, DOMAIN data)
 <1>5. is(f, DOMAIN data)
   BY <1>4 DEF Q
 <1>6. FoldLeft(LAMBDA acc, id : Scan(acc, id, list), base, data)
         = f[DOMAIN data]
   BY DEF FoldLeft, MapThenFoldSet
 <1> HIDE DEF f
 <1> DEFINE h == [k \in 0 .. n |-> f[1 .. k]]
 <1>7. f[{}] = base
   BY <1>5
 <1>8. h[0] = base
  <2>1. 1 .. 0 = {} /\ 0 \in 0 .. n
    OBVIOUS
  <2> QED  BY <1>7, <2>1
 <1>9. h[n] = f[DOMAIN data]
   OBVIOUS
 <1>10. ASSUME NEW k \in 1 .. n  PROVE h[k] = Scan(h[k - 1], data[k], list)
  <2> DEFINE s == 1 .. k
  <2>1. s \in SUBSET (1 .. n) /\ s # {} /\ k \in s /\ \A y \in s : y <= k
    OBVIOUS
  <2>2. Max(s) \in s /\ k <= Max(s)
    BY <1>1, <2>1
  <2>3. Max(s) = k
    BY <2>1, <2>2
  <2>4. s \ {k} = 1 .. k - 1
    OBVIOUS
  <2>5. f[s] = Scan(f[s \ {k}], data[k], list)
   <3> HIDE DEF s
   <3> QED  BY <1>5, <2>1, <2>3
  <2>6. h[k] = f[s] /\ h[k - 1] = f[1 .. k - 1]
    OBVIOUS
  <2> HIDE DEF s, h
  <2> QED  BY <2>4, <2>5, <2>6
 <1> HIDE DEF h
 <1> QED  BY <1>6, <1>8, <1>9, <1>10 DEF ScanLoop

RingStates == [offset : Nat, round : Nat, cursor : Nat \ {0},
               source_count : Nat, received : Nat, previous : Nat,
               duplicate : BOOLEAN, protocol_invalid : BOOLEAN]

(* A rank that owns list has scanned m identities of another rank's; it    *)
(* had, or had not, found an identity it shares before.                    *)
Scanned(state, list, other, m, before) ==
    /\ state.previous = IF m = 0 THEN 0 ELSE other[m]
    /\ state.cursor <= Below(list, state.previous) + 1
    /\ ~ state.protocol_invalid
    /\ state.duplicate <=> (before \/ \E i \in 1 .. m : other[i] \in Range(list))

(* What a scan leaves alone.                                               *)
SamePlace(state, other) ==
    /\ other.offset = state.offset /\ other.round = state.round
    /\ other.source_count = state.source_count
    /\ other.received = state.received

(* One identity more has been scanned.                                     *)
LEMMA ScanOne ==
    ASSUME NEW list \in IdLists, Sorted(list), NEW other \in IdLists, Sorted(other),
           NEW m \in Nat, m + 1 <= Len(other), NEW before \in BOOLEAN,
           NEW state \in RingStates, Scanned(state, list, other, m, before)
    PROVE  /\ Scan(state, other[m + 1], list) \in RingStates
           /\ Scanned(Scan(state, other[m + 1], list), list, other, m + 1, before)
           /\ SamePlace(state, Scan(state, other[m + 1], list))
 <1> DEFINE id == other[m + 1]
            place == Below(list, id) + 1
            next == Scan(state, id, list)
 <1>1. Len(other) \in Nat /\ \A i \in 1 .. Len(other) : other[i] \in Nat \ {0}
   BY DEF IdLists
 <1>2. id \in Nat \ {0} /\ m + 1 \in 1 .. Len(other)
   BY <1>1
 <1>3. state.previous \in Nat /\ state.previous < id
  <2>1. CASE m = 0
    BY <1>2, <2>1 DEF Scanned
  <2>2. CASE m # 0
   <3>1. m \in 1 .. Len(other) /\ m < m + 1
     BY <1>1, <2>2
   <3>2. other[m] < other[m + 1]
     BY <1>2, <3>1, InOrder
   <3> QED  BY <1>1, <2>2, <3>1, <3>2 DEF Scanned
  <2> QED  BY <2>1, <2>2
 <1>4. place \in Nat \ {0}
  <2>1. Below(list, id) \in 0 .. Len(list)
    BY <1>2, BelowIsThere
  <2>2. Len(list) \in Nat
    BY DEF IdLists
  <2> QED  BY <2>1, <2>2
 <1>5. state.cursor \in Nat /\ state.cursor <= place
  <2>1. Below(list, state.previous) <= Below(list, id)
    BY <1>2, <1>3, BelowGrows
  <2>2. Below(list, state.previous) \in 0 .. Len(list)
    BY <1>3, BelowIsThere
  <2>3. Below(list, id) \in 0 .. Len(list)
    BY <1>2, BelowIsThere
  <2>4. Len(list) \in Nat
    BY DEF IdLists
  <2>5. state.cursor <= Below(list, state.previous) + 1
    BY DEF Scanned
  <2>6. state.cursor \in Nat
    BY DEF RingStates
  <2> QED  BY <2>1, <2>2, <2>3, <2>4, <2>5, <2>6
 <1>6. Max({state.cursor, place}) = place
   BY <1>4, <1>5, GreaterOfTwo
 <1>7. next = [state EXCEPT !.cursor = place, !.previous = id,
                 !.protocol_invalid = @ \/ state.previous >= id,
                 !.duplicate = @ \/ (place <= Len(list) /\ list[place] = id)]
  <2>1. next = [state EXCEPT !.cursor = Max({state.cursor, place}),
                  !.previous = id,
                  !.protocol_invalid = @ \/ state.previous >= id,
                  !.duplicate = @ \/
                      (Max({state.cursor, place}) <= Len(list)
                         /\ list[Max({state.cursor, place})] = id)]
    BY DEF Scan, Below
  <2> HIDE DEF next, id, place
  <2> QED  BY <1>6, <2>1
 <1>8. (place <= Len(list) /\ list[place] = id) <=> id \in Range(list)
   BY <1>2, FoundBelow
 <1> HIDE DEF next, place, id
 <1>9. next \in RingStates /\ SamePlace(state, next)
   BY <1>2, <1>4, <1>7 DEF RingStates, SamePlace
 <1>10. /\ next.previous = id /\ next.cursor = place
        /\ next.protocol_invalid <=> (state.protocol_invalid \/ state.previous >= id)
        /\ next.duplicate <=> (state.duplicate \/ id \in Range(list))
   BY <1>7, <1>8 DEF RingStates
 <1>11. (state.previous >= id) <=> FALSE
   BY <1>2, <1>3
 <1>12. (\E i \in 1 .. m + 1 : other[i] \in Range(list)) <=>
        ((\E i \in 1 .. m : other[i] \in Range(list)) \/ id \in Range(list))
  <2>1. 1 .. m + 1 = (1 .. m) \union {m + 1}
    OBVIOUS
  <2> QED  BY <2>1 DEF id
 <1>13. Scanned(next, list, other, m + 1, before)
  <2>1. next.previous = IF m + 1 = 0 THEN 0 ELSE other[m + 1]
    BY <1>10 DEF id
  <2>2. next.cursor <= Below(list, next.previous) + 1
    BY <1>4, <1>10 DEF place
  <2>3. ~ next.protocol_invalid
    BY <1>10, <1>11 DEF Scanned
  <2>4. next.duplicate <=>
          (before \/ \E i \in 1 .. m + 1 : other[i] \in Range(list))
    BY <1>10, <1>12 DEF Scanned
  <2> QED  BY <2>1, <2>2, <2>3, <2>4 DEF Scanned
 <1> QED  BY <1>9, <1>13 DEF next, id

(* A whole chunk.                                                          *)
LEMMA ScanAll ==
    ASSUME NEW list \in IdLists, Sorted(list), NEW other \in IdLists, Sorted(other),
           NEW m \in Nat, NEW before \in BOOLEAN,
           NEW state \in RingStates, Scanned(state, list, other, m, before),
           NEW n \in Nat, NEW q, q = m + n, q <= Len(other),
           NEW data, Slice(data, other, m, n),
           NEW f, ScanLoop(f, state, data, n, list)
    PROVE  /\ f[n] \in RingStates
           /\ Scanned(f[n], list, other, q, before)
           /\ SamePlace(state, f[n])
 <1> DEFINE good(k) == /\ f[k] \in RingStates
                       /\ Scanned(f[k], list, other, m + k, before)
                       /\ SamePlace(state, f[k])
            Q == {k \in Nat : k <= n => good(k)}
 <1>2. Len(other) \in Nat
   BY DEF IdLists
 <1>3. 0 \in Q
   BY DEF SamePlace, ScanLoop
 <1>4. ASSUME NEW k \in Nat, k \in Q  PROVE k + 1 \in Q
  <2> SUFFICES ASSUME k + 1 <= n  PROVE good(k + 1)
    OBVIOUS
  <2>1. good(k)
    BY <1>4
  <2>2. k + 1 \in 1 .. n /\ (k + 1) - 1 = k /\ m + k \in Nat
        /\ (m + k) + 1 = m + (k + 1) /\ (m + k) + 1 <= Len(other)
    BY <1>2
  <2>3. f[k + 1] = Scan(f[k], other[(m + k) + 1], list)
    BY <2>2 DEF Slice, ScanLoop
  <2>4. /\ Scan(f[k], other[(m + k) + 1], list) \in RingStates
        /\ Scanned(Scan(f[k], other[(m + k) + 1], list), list, other, (m + k) + 1, before)
        /\ SamePlace(f[k], Scan(f[k], other[(m + k) + 1], list))
    BY <2>1, <2>2, ScanOne
  <2>5. SamePlace(state, f[k + 1])
    BY <2>1, <2>3, <2>4 DEF SamePlace
  <2> QED  BY <2>2, <2>3, <2>4, <2>5
 <1> HIDE DEF Q
 <1>5. n \in Q
   BY <1>3, <1>4, CountingUp
 <1>6. good(n)
   BY <1>5 DEF Q
 <1> QED  BY <1>6

-----------------------------------------------------------------------------
(* The ring: who sends to whom, and what.                                  *)

Back(r, o) == (r + NumRanks - o) % NumRanks
Forth(s, o) == (s + o) % NumRanks

(* Once around the ring.                                                   *)
LEMMA Wraps ==
    ASSUME NEW x \in Nat, x < 2 * NumRanks
    PROVE  x % NumRanks = IF x < NumRanks THEN x ELSE x - NumRanks
 <1>1. NumRanks \in Nat \ {0}
   BY SnapshotAssumption
 <1> QED  BY <1>1

(* Who is where a rank sends to receives from it.                          *)
LEMMA Neighbours ==
    ASSUME NEW r \in Ranks, NEW s \in Ranks, NEW o \in 1 .. NumRanks - 1
    PROVE  /\ Back(r, o) \in Ranks \ {r} /\ Forth(s, o) \in Ranks \ {s}
           /\ Back(r, o) = s <=> Forth(s, o) = r
 <1>1. NumRanks \in Nat \ {0} /\ r \in Nat /\ s \in Nat
       /\ r < NumRanks /\ s < NumRanks
   BY SnapshotAssumption DEF Ranks
 <1>2. Back(r, o) = IF r < o THEN r + NumRanks - o ELSE r - o
  <2>1. r + NumRanks - o \in Nat /\ r + NumRanks - o < 2 * NumRanks
    BY <1>1
  <2> QED  BY <1>1, <2>1, Wraps DEF Back
 <1>3. Forth(s, o) = IF s + o < NumRanks THEN s + o ELSE s + o - NumRanks
  <2>1. s + o \in Nat /\ s + o < 2 * NumRanks
    BY <1>1
  <2> QED  BY <1>1, <2>1, Wraps DEF Forth
 <1> QED  BY <1>1, <1>2, <1>3 DEF Ranks

(* At different offsets a rank hears different ranks.                      *)
LEMMA BackIsOne ==
    ASSUME NEW r \in Ranks, NEW o \in 1 .. NumRanks - 1,
           NEW p \in 1 .. NumRanks - 1, Back(r, o) = Back(r, p)
    PROVE  o = p
 <1>1. NumRanks \in Nat \ {0} /\ r \in Nat /\ r < NumRanks
   BY SnapshotAssumption DEF Ranks
 <1>2. \A q \in 1 .. NumRanks - 1 :
           Back(r, q) = IF r < q THEN r + NumRanks - q ELSE r - q
  <2> TAKE q \in 1 .. NumRanks - 1
  <2>1. r + NumRanks - q \in Nat /\ r + NumRanks - q < 2 * NumRanks
    BY <1>1
  <2> QED  BY <1>1, <2>1, Wraps DEF Back
 <1> QED  BY <1>1, <1>2

(* Before the ring is closed it hears every other rank.                    *)
LEMMA BackIsAll ==
    ASSUME NEW r \in Ranks, NEW s \in Ranks, s # r
    PROVE  \E o \in 1 .. NumRanks - 1 : Back(r, o) = s
 <1>1. NumRanks \in Nat \ {0} /\ r \in Nat /\ r < NumRanks
       /\ s \in Nat /\ s < NumRanks
   BY SnapshotAssumption DEF Ranks
 <1> DEFINE o == IF s < r THEN r - s ELSE r + NumRanks - s
 <1>2. o \in 1 .. NumRanks - 1 /\ r + NumRanks - o \in Nat
       /\ r + NumRanks - o < 2 * NumRanks
   BY <1>1
 <1>3. (r + NumRanks - o) % NumRanks = s
   BY <1>1, <1>2, Wraps
 <1> QED  BY <1>2, <1>3 DEF Back

(* At the end of the ring it would hear itself.                            *)
LEMMA BackToSelf ==
    ASSUME NEW r \in Ranks
    PROVE  Back(r, NumRanks) = r
 <1>1. NumRanks \in Nat \ {0} /\ r \in Nat /\ r < NumRanks
   BY SnapshotAssumption DEF Ranks
 <1>2. r + NumRanks - NumRanks = r
   BY <1>1
 <1> QED  BY <1>1, <1>2, Wraps DEF Back

(* Rounds, as a function of the lists.                                     *)
RoundsOf(w) == (Max({Len(w.ids[r]) : r \in Ranks}) + Chunk - 1) \div Chunk

(* The rounds take the longest list.                                       *)
LEMMA RoundsAreEnough ==
    ASSUME NEW w \in Worlds
    PROVE  /\ RoundsOf(w) \in Nat
           /\ \A r \in Ranks : Len(w.ids[r]) <= RoundsOf(w) * Chunk
 <1> DEFINE c(r) == Len(w.ids[r])
            S == {c(r) : r \in Ranks}
            Q == {n \in Nat : n <= NumRanks =>
                     \E b \in Nat : \A r \in 0 .. n - 1 : c(r) <= b}
 <1>1. NumRanks \in Nat \ {0} /\ Ranks = 0 .. NumRanks - 1
   BY SnapshotAssumption DEF Ranks
 <1>2. \A r \in Ranks : c(r) \in Nat
   BY SnapshotAssumption
 <1> HIDE DEF c
 <1>3. 0 \in Q
   OBVIOUS
 <1>4. ASSUME NEW n \in Nat, n \in Q  PROVE n + 1 \in Q
  <2> SUFFICES ASSUME n + 1 <= NumRanks
               PROVE  \E b \in Nat : \A r \in 0 .. (n + 1) - 1 : c(r) <= b
    OBVIOUS
  <2>1. PICK b \in Nat : \A r \in 0 .. n - 1 : c(r) <= b
    BY <1>1, <1>4
  <2>2. n \in Ranks /\ c(n) \in Nat
    BY <1>1, <1>2
  <2>3. \A r \in 0 .. (n + 1) - 1 : r = n \/ r \in 0 .. n - 1
    OBVIOUS
  <2>4. \A r \in 0 .. n - 1 : r \in Ranks
    BY <1>1
  <2>5. \A r \in 0 .. (n + 1) - 1 : c(r) <= b + c(n)
    BY <1>2, <2>1, <2>2, <2>3, <2>4
  <2> QED  BY <2>2, <2>5
 <1> HIDE DEF Q
 <1>5. NumRanks \in Q
   BY <1>1, <1>3, <1>4, CountingUp
 <1>6. PICK b \in Nat : \A r \in Ranks : c(r) <= b
   BY <1>1, <1>5 DEF Q
 <1>7. S \in SUBSET Nat /\ S # {} /\ \A y \in S : y <= b
   BY <1>1, <1>2, <1>6
 <1> DEFINE m == Max(S)
 <1>8. m \in S /\ \A y \in S : y <= m
  <2> HIDE DEF S
  <2> QED  BY <1>7, MaxIsGreatest
 <1>9. m \in Nat /\ \A r \in Ranks : c(r) <= m
   BY <1>7, <1>8
 <1>10. RoundsOf(w) = (m + Chunk - 1) \div Chunk
   BY DEF RoundsOf, c
 <1> HIDE DEF m
 <1> DEFINE k == (m + Chunk - 1) \div Chunk
 <1>11. Chunk \in Nat \ {0} /\ m + Chunk - 1 \in Int
   BY <1>9, SnapshotAssumption
 <1>12. k \in Int /\ Chunk * k <= m + Chunk - 1 /\ m + Chunk - 1 < Chunk * k + Chunk
   BY <1>11, Quotient
 <1> HIDE DEF k
 <1>13. Chunk * k = k * Chunk /\ m <= k * Chunk
   BY <1>9, <1>11, <1>12
 <1>14. k \in Nat
   BY <1>9, <1>11, <1>12, <1>13
 <1>15. \A r \in Ranks : c(r) <= k * Chunk
   BY <1>2, <1>9, <1>11, <1>13, <1>14
 <1> QED  BY <1>10, <1>14, <1>15 DEF k, c

(* How many of its identities a rank has sent after k rounds.              *)
Done(s, k) == Min({k * Chunk, Len(s)})

LEMMA DoneIs ==
    ASSUME NEW s \in IdLists, NEW k \in Nat
    PROVE  /\ Done(s, k) = IF k * Chunk <= Len(s) THEN k * Chunk ELSE Len(s)
           /\ k * Chunk \in Nat /\ (k + 1) * Chunk = k * Chunk + Chunk
           /\ Done(s, k) \in 0 .. Len(s) /\ Len(s) \in Nat /\ Done(s, 0) = 0
 <1>1. Len(s) \in Nat /\ Chunk \in Nat \ {0}
   BY SnapshotAssumption DEF IdLists
 <1>2. k * Chunk \in Nat /\ (k + 1) * Chunk = k * Chunk + Chunk /\ 0 * Chunk = 0
   BY <1>1
 <1>3. Done(s, k) = IF k * Chunk <= Len(s) THEN k * Chunk ELSE Len(s)
   BY <1>1, <1>2, LesserOfTwo DEF Done
 <1>4. Done(s, 0) = 0
   BY <1>1, <1>2, LesserOfTwo DEF Done
 <1> QED  BY <1>1, <1>2, <1>3, <1>4

LEMMA ChunkNumbers ==
    ASSUME NEW len \in Nat, NEW p \in Nat, NEW c \in Nat \ {0},
           NEW m \in Nat, m = (IF p <= len THEN p ELSE len),
           NEW e \in Nat, e = (IF p + c <= len THEN p + c ELSE len),
           NEW n \in Int, m + n = e
    PROVE  /\ n \in Nat /\ n = IF p + 1 <= e THEN e - (p + 1) + 1 ELSE 0
           /\ \A j \in 1 .. n : /\ j \in 1 .. e - (p + 1) + 1
                                /\ p + 1 + j - 1 = m + j
           /\ n = IF c <= len - m THEN c ELSE len - m
           /\ len - m \in Nat
  OBVIOUS

(* A chunk is the part of the list between two rounds.                     *)
LEMMA ChunkIs ==
    ASSUME NEW s \in IdLists, NEW k \in Nat, NEW l \in Nat, l = k + 1,
           NEW m \in Nat, m = Done(s, k), NEW n \in Int, m + n = Done(s, l)
    PROVE  /\ n \in Nat
           /\ Slice(ChunkOf(s, l), s, m, n) /\ Len(ChunkOf(s, l)) = n
           /\ Min({Chunk, Len(s) - m}) = n
 <1> DEFINE p == k * Chunk
            e == Done(s, l)
            len == Len(s)
            c == SubSeq(s, p + 1, e)
 <1>1. len \in Nat /\ Chunk \in Nat \ {0} /\ Chunk \in Nat
   BY SnapshotAssumption DEF IdLists
 <1>2. p \in Nat /\ l * Chunk = p + Chunk
   BY DoneIs
 <1>3. m = IF p <= len THEN p ELSE len
   BY DoneIs
 <1>4. /\ e \in 0 .. len
       /\ e = IF l * Chunk <= len THEN l * Chunk ELSE len
   BY DoneIs
 <1>5. ChunkOf(s, l) = c
  <2>1. l - 1 = k
    OBVIOUS
  <2>2. ChunkOf(s, l) = SubSeq(s, k * Chunk + 1, Done(s, l))
    BY <2>1 DEF ChunkOf, Done
  <2> QED  BY <2>2
 <1>15. m + n = e
   OBVIOUS
 <1>16. \A i \in 1 .. len : s[i] \in Nat \ {0}
   BY DEF IdLists
 <1> HIDE DEF p, e, len
 <1>6. e \in Nat /\ p + 1 \in Int /\ e \in Int
       /\ \A i \in p + 1 .. e : s[i] \in Nat \ {0}
   BY <1>1, <1>2, <1>4, <1>16
 <1>7. e = IF p + Chunk <= len THEN p + Chunk ELSE len
   BY <1>2, <1>4
 <1>8. /\ n \in Nat /\ n = IF p + 1 <= e THEN e - (p + 1) + 1 ELSE 0
       /\ \A j \in 1 .. n : /\ j \in 1 .. e - (p + 1) + 1
                            /\ p + 1 + j - 1 = m + j
       /\ n = IF Chunk <= len - m THEN Chunk ELSE len - m
       /\ len - m \in Nat
   BY <1>1, <1>2, <1>3, <1>6, <1>7, <1>15, ChunkNumbers
 <1>9. /\ c \in Seq(Nat \ {0})
       /\ Len(c) = IF p + 1 <= e THEN e - (p + 1) + 1 ELSE 0
       /\ \A i \in 1 .. e - (p + 1) + 1 : c[i] = s[p + 1 + i - 1]
   BY <1>6, SubSeqProperties
 <1> HIDE DEF c
 <1>10. Len(c) = n
   BY <1>8, <1>9
 <1>11. DOMAIN c = 1 .. n
   BY <1>9, <1>10
 <1>12. \A j \in 1 .. n : c[j] = s[m + j]
   BY <1>8, <1>9
 <1>13. Slice(c, s, m, n)
   BY <1>11, <1>12 DEF Slice
 <1>14. Min({Chunk, len - m}) = n
   BY <1>1, <1>8, LesserOfTwo
 <1> QED  BY <1>5, <1>8, <1>10, <1>13, <1>14 DEF len

(* Rank r has found an identity it shares with one of the ranks it heard   *)
(* before its partner at offset o.                                         *)
SharedBefore(w, r, o) ==
    \E p \in 1 .. o - 1 : \E i \in 1 .. Len(w.ids[Back(r, p)]) :
        w.ids[Back(r, p)][i] \in Range(w.ids[r])

(* Before a round, and when the message of a round has been worked in.     *)
Progress(w, r, state) ==
    LET other == w.ids[Back(r, state.offset)]
    IN  /\ state \in RingStates
        /\ state.offset \in 1 .. NumRanks
        /\ state.round \in 0 .. RoundsOf(w)
        /\ state.offset = NumRanks => state.round = 0
        /\ state.round = 0 => state.received = 0
        /\ state.round > 0 => /\ state.source_count = Len(other)
                              /\ state.received = Done(other, state.round - 1)
        /\ Scanned(state, w.ids[r], other, state.received,
                   SharedBefore(w, r, state.offset))

Heard(w, r, state) ==
    LET other == w.ids[Back(r, state.offset)]
    IN  /\ state \in RingStates
        /\ state.offset \in 1 .. NumRanks - 1
        /\ state.round \in 0 .. RoundsOf(w)
        /\ state.source_count = Len(other)
        /\ state.received = Done(other, state.round)
        /\ Scanned(state, w.ids[r], other, state.received,
                   SharedBefore(w, r, state.offset))

(* The messages of a rank to a partner, in the order in which they leave.  *)
Letter(w, s, j) ==
    IF j = 1 THEN [tag |-> "count", data |-> <<Len(w.ids[s])>>]
             ELSE [tag |-> "payload", data |-> ChunkOf(w.ids[s], j - 1)]

LEMMA BelowNothing ==
    ASSUME NEW list \in IdLists
    PROVE  Below(list, 0) = 0
 <1>1. {i \in DOMAIN list : list[i] < 0} = {}
   BY DEF IdLists
 <1> QED  BY <1>1, FS_EmptySet DEF Below

LEMMA ListsAre ==
    ASSUME NEW w \in Worlds, NEW r \in Ranks
    PROVE  w.ids[r] \in IdLists /\ Len(w.ids[r]) \in Nat
  BY SnapshotAssumption DEF IdLists

(* Before its first partner a rank has heard nobody.                       *)
LEMMA NobodyBefore ==
    ASSUME NEW w, NEW r
    PROVE  ~ SharedBefore(w, r, 1)
  BY DEF SharedBefore

(* One partner more has been heard.                                        *)
LEMMA OneMoreBefore ==
    ASSUME NEW w, NEW r, NEW o \in Nat \ {0}
    PROVE  SharedBefore(w, r, o + 1) <=>
             (SharedBefore(w, r, o) \/
                \E i \in 1 .. Len(w.ids[Back(r, o)]) :
                    w.ids[Back(r, o)][i] \in Range(w.ids[r]))
 <1> DEFINE at(p) == \E i \in 1 .. Len(w.ids[Back(r, p)]) :
                         w.ids[Back(r, p)][i] \in Range(w.ids[r])
 <1>1. 1 .. (o + 1) - 1 = (1 .. o - 1) \union {o}
   OBVIOUS
 <1> HIDE DEF at
 <1>2. (\E p \in 1 .. (o + 1) - 1 : at(p)) <=>
       ((\E p \in 1 .. o - 1 : at(p)) \/ at(o))
   BY <1>1
 <1> QED  BY <1>2 DEF SharedBefore, at

(* A new partner.                                                          *)
LEMMA FreshState ==
    ASSUME NEW w \in Worlds, NEW r \in Ranks, NEW o \in 1 .. NumRanks,
           NEW state \in RingStates,
           state.offset = o, state.round = 0, state.cursor = 1,
           state.received = 0, state.previous = 0, ~ state.protocol_invalid,
           state.duplicate <=> SharedBefore(w, r, o)
    PROVE  Progress(w, r, state)
 <1> DEFINE other == w.ids[Back(r, o)]
            list == w.ids[r]
 <1>1. Below(list, 0) = 0
   BY ListsAre, BelowNothing
 <1>2. RoundsOf(w) \in Nat
   BY RoundsAreEnough
 <1>3. 1 .. 0 = {}
   OBVIOUS
 <1> HIDE DEF other, list
 <1>4. Scanned(state, list, other, 0, SharedBefore(w, r, o))
  <2>1. state.cursor <= Below(list, state.previous) + 1
    BY <1>1
  <2>2. state.duplicate <=> (SharedBefore(w, r, o) \/
                               \E i \in 1 .. 0 : other[i] \in Range(list))
    BY <1>3
  <2> QED  BY <2>1, <2>2 DEF Scanned
 <1> QED  BY <1>2, <1>4 DEF Progress, other, list

(* The next round, or the next partner.                                    *)
LEMMA NextRoundIs ==
    ASSUME world \in Worlds, NEW r \in Ranks, NEW state, Heard(world, r, state)
    PROVE  Progress(world, r, NextRound(state))
 <1> DEFINE o == state.offset
            other == world.ids[Back(r, o)]
            list == world.ids[r]
            next == NextRound(state)
 <1>1. Rounds = RoundsOf(world) /\ Rounds \in Nat
   BY RoundsAreEnough DEF Rounds, RoundsOf, Count
 <1>2. /\ state \in RingStates /\ o \in 1 .. NumRanks - 1
       /\ state.round \in 0 .. Rounds
       /\ state.source_count = Len(other)
       /\ state.received = Done(other, state.round)
       /\ Scanned(state, list, other, state.received, SharedBefore(world, r, o))
   BY <1>1 DEF Heard
 <1>3. NumRanks \in Nat \ {0, 1}
   BY SnapshotAssumption
 <1>4. Back(r, o) \in Ranks
   BY <1>2, Neighbours
 <1>5. other \in IdLists /\ Len(other) \in Nat
   BY <1>4, ListsAre
 <1>6. CASE state.round < Rounds
  <2>1. next = [state EXCEPT !.round = @ + 1]
    BY <1>6 DEF NextRound
  <2> HIDE DEF next
  <2>2. /\ next \in RingStates /\ next.offset = o
        /\ next.round = state.round + 1 /\ next.source_count = Len(other)
        /\ next.received = state.received /\ next.cursor = state.cursor
        /\ next.previous = state.previous
        /\ next.protocol_invalid = state.protocol_invalid
        /\ next.duplicate = state.duplicate
    BY <1>2, <2>1 DEF RingStates
  <2>3. Scanned(next, list, other, next.received, SharedBefore(world, r, o))
    BY <1>2, <2>2 DEF Scanned
  <2>4. next.round \in 1 .. Rounds /\ next.round - 1 = state.round
        /\ next.round > 0 /\ next.round # 0
        /\ o \in 1 .. NumRanks /\ o # NumRanks
    BY <1>1, <1>2, <1>3, <1>6, <2>2
  <2>5. next.received = Done(other, next.round - 1)
    BY <1>2, <2>2, <2>4
  <2>6. next.round \in 0 .. RoundsOf(world)
    BY <1>1, <2>4
  <2> HIDE DEF o, list
  <2>7. Progress(world, r, next)
    BY <2>2, <2>3, <2>4, <2>5, <2>6 DEF Progress, list
  <2> QED  BY <2>7 DEF next
 <1>7. CASE ~ (state.round < Rounds)
  <2>1. state.round = Rounds
    BY <1>1, <1>2, <1>7
  <2>2. Done(other, Rounds) = Len(other)
   <3>1. Len(other) <= Rounds * Chunk
     BY <1>1, <1>4, RoundsAreEnough
   <3>2. /\ Done(other, Rounds) = IF Rounds * Chunk <= Len(other)
                                    THEN Rounds * Chunk ELSE Len(other)
         /\ Rounds * Chunk \in Nat
     BY <1>1, <1>5, DoneIs
   <3> QED  BY <1>5, <3>1, <3>2
  <2>3. state.received = Len(other)
    BY <1>2, <2>1, <2>2
  <2>4. next = [state EXCEPT !.offset = @ + 1, !.round = 0, !.previous = 0,
                  !.received = 0, !.cursor = 1,
                  !.protocol_invalid = @ \/
                      state.received # state.source_count]
    BY <1>7 DEF NextRound
  <2> HIDE DEF next
  <2>5. next = [state EXCEPT !.offset = o + 1, !.round = 0, !.previous = 0,
                  !.received = 0, !.cursor = 1, !.protocol_invalid = FALSE]
   <3> DEFINE odd == state.protocol_invalid
                       \/ state.received # state.source_count
   <3>1. odd = FALSE
     BY <1>2, <2>3 DEF Scanned
   <3>2. next = [state EXCEPT !.offset = o + 1, !.round = 0, !.previous = 0,
                   !.received = 0, !.cursor = 1, !.protocol_invalid = odd]
     BY <1>2, <2>4 DEF RingStates
   <3> HIDE DEF odd
   <3> QED  BY <3>1, <3>2
  <2>6. /\ next.offset = o + 1 /\ next.round = 0
        /\ next.cursor = 1 /\ next.received = 0 /\ next.previous = 0
        /\ next.duplicate = state.duplicate
        /\ ~ next.protocol_invalid /\ next \in RingStates
   <3>1. o + 1 \in Nat /\ 1 \in Nat \ {0}
     BY <1>2
   <3> HIDE DEF o
   <3>2. state \in RingStates
     BY <1>2
   <3> QED  BY <2>5, <3>1, <3>2 DEF RingStates
  <2>7. next.duplicate <=> SharedBefore(world, r, o + 1)
   <3>1. SharedBefore(world, r, o + 1) <=>
           (SharedBefore(world, r, o) \/
              \E i \in 1 .. Len(other) : other[i] \in Range(list))
    <4>1. o \in Nat \ {0}
      BY <1>2, <1>3
    <4> QED  BY <4>1, OneMoreBefore
   <3>2. state.duplicate <=>
           (SharedBefore(world, r, o) \/
              \E i \in 1 .. Len(other) : other[i] \in Range(list))
     BY <1>2, <2>3 DEF Scanned
   <3> HIDE DEF other, list, o
   <3> QED  BY <2>6, <3>1, <3>2
  <2>8. o + 1 \in 1 .. NumRanks
    BY <1>2, <1>3
  <2>9. Progress(world, r, next)
   <3> HIDE DEF o
   <3> QED  BY <2>6, <2>7, <2>8, FreshState
  <2> QED  BY <2>9 DEF next
 <1> QED  BY <1>6, <1>7

(* The message of a round, worked in.                                      *)
LEMMA CountHeard ==
    ASSUME NEW w \in Worlds, NEW r \in Ranks, NEW state,
           Progress(w, r, state), state.offset # NumRanks, state.round = 0,
           NEW data, data = Letter(w, Back(r, state.offset), 1).data,
           NEW next, next = [state EXCEPT !.source_count = data[1]]
    PROVE  /\ Heard(w, r, next)
           /\ next.offset = state.offset /\ next.round = state.round
 <1> DEFINE o == state.offset
            other == w.ids[Back(r, o)]
            list == w.ids[r]
 <1>1. NumRanks \in Nat \ {0, 1}
   BY SnapshotAssumption
 <1>2. /\ state \in RingStates /\ o \in 1 .. NumRanks - 1
       /\ state.round \in 0 .. RoundsOf(w) /\ state.received = 0
       /\ Scanned(state, list, other, state.received, SharedBefore(w, r, o))
   BY <1>1 DEF Progress
 <1>3. other \in IdLists /\ Len(other) \in Nat
   BY <1>2, Neighbours, ListsAre
 <1>4. data[1] = Len(other)
   BY DEF Letter
 <1> HIDE DEF list
 <1>5. /\ next \in RingStates /\ next.offset = o /\ next.round = state.round
       /\ next.source_count = Len(other)
       /\ next.received = state.received /\ next.cursor = state.cursor
       /\ next.previous = state.previous
       /\ next.protocol_invalid = state.protocol_invalid
       /\ next.duplicate = state.duplicate
   BY <1>2, <1>3, <1>4 DEF RingStates
 <1>6. Scanned(next, list, other, next.received, SharedBefore(w, r, o))
   BY <1>2, <1>5 DEF Scanned
 <1>7. next.received = Done(other, next.round)
   BY <1>2, <1>3, <1>5, DoneIs
 <1>8. next.round \in 0 .. RoundsOf(w)
   BY <1>2, <1>5
 <1>9. Heard(w, r, next)
   BY <1>2, <1>5, <1>6, <1>7, <1>8 DEF Heard, list
 <1> QED  BY <1>5, <1>9

(* One chunk more has been scanned.                                        *)
LEMMA ScannedChunk ==
    ASSUME NEW list \in IdLists, Sorted(list), NEW other \in IdLists, Sorted(other),
           NEW k \in Nat, NEW l \in Nat, l = k + 1,
           NEW m \in Nat, m = Done(other, k), NEW n \in Int,
           NEW q \in Nat, q = m + n, q = Done(other, l),
           NEW before \in BOOLEAN,
           NEW state \in RingStates, Scanned(state, list, other, m, before),
           NEW f, ScanLoop(f, state, ChunkOf(other, l), n, list)
    PROVE  /\ f[n] \in RingStates
           /\ Scanned(f[n], list, other, q, before)
           /\ SamePlace(state, f[n])
 <1>1. n \in Nat /\ Slice(ChunkOf(other, l), other, m, n)
   BY ChunkIs
 <1>2. q <= Len(other)
   BY DoneIs
 <1> QED  BY <1>1, <1>2, ScanAll

(* A rank expects of a round what its source sends in it.                  *)
LEMMA ChunkExpected ==
    ASSUME NEW w \in Worlds, NEW r \in Ranks, NEW state,
           Progress(w, r, state), state.offset # NumRanks, state.round # 0,
           NEW other, other = w.ids[Back(r, state.offset)]
    PROVE  /\ other \in IdLists /\ state.round - 1 \in Nat
           /\ (state.round - 1) + 1 = state.round
           /\ state.offset \in 1 .. NumRanks - 1
           /\ state.received = Done(other, state.round - 1)
           /\ state.received \in Nat
           /\ Expected(state) = Done(other, state.round) - state.received
           /\ Expected(state) \in Nat
           /\ DOMAIN ChunkOf(other, state.round) = 1 .. Expected(state)
           /\ Len(ChunkOf(other, state.round)) = Expected(state)
 <1> DEFINE o == state.offset
            k == state.round - 1
            m == Done(other, k)
            l == state.round
            q == Done(other, l)
            n == q - m
 <1>1. NumRanks \in Nat \ {0, 1} /\ RoundsOf(w) \in Nat
   BY SnapshotAssumption, RoundsAreEnough
 <1>2. /\ o \in 1 .. NumRanks - 1 /\ state.source_count = Len(other)
       /\ state.round \in 1 .. RoundsOf(w) /\ state.received = m
   BY <1>1 DEF Progress
 <1>3. Back(r, o) \in Ranks
   BY <1>2, Neighbours
 <1>4. other \in IdLists
   BY <1>3, ListsAre
 <1>5. k \in Nat /\ l \in Nat /\ l = k + 1
   BY <1>1, <1>2
 <1>6. m \in Nat /\ q \in Nat /\ n \in Int /\ m + n = q
  <2> HIDE DEF k, l
  <2>1. m \in 0 .. Len(other) /\ q \in 0 .. Len(other) /\ Len(other) \in Nat
    BY <1>4, <1>5, DoneIs
  <2> HIDE DEF m, q
  <2> QED  BY <2>1
 <1>7. m = Done(other, k) /\ m + n = Done(other, l)
   BY <1>6
 <1> HIDE DEF k, l, m, n
 <1>8. /\ n \in Nat
       /\ Slice(ChunkOf(other, l), other, m, n) /\ Len(ChunkOf(other, l)) = n
       /\ Min({Chunk, Len(other) - m}) = n
  <2> HIDE DEF q
  <2> QED  BY ONLY <1>4, <1>5, <1>6, <1>7, ChunkIs
 <1>9. Expected(state) = n
   BY <1>2, <1>8 DEF Expected
 <1>10. DOMAIN ChunkOf(other, l) = 1 .. n
   BY <1>8 DEF Slice
 <1>11. l = state.round /\ n = Done(other, l) - m
   BY DEF l, n
 <1> QED  BY <1>2, <1>4, <1>5, <1>6, <1>8, <1>9, <1>10, <1>11 DEF k, m

(* The chunk of a round, worked in.                                        *)
LEMMA ChunkHeard ==
    ASSUME NEW w \in Worlds, NEW r \in Ranks, NEW state,
           Progress(w, r, state), state.offset # NumRanks, state.round # 0,
           \A s \in Ranks : Sorted(w.ids[s]),
           NEW other, other = w.ids[Back(r, state.offset)],
           NEW e, e = Expected(state),
           NEW base, base = [state EXCEPT !.received = @ + e],
           NEW f, ScanLoop(f, base, ChunkOf(other, state.round), e, w.ids[r])
    PROVE  /\ Heard(w, r, f[e])
           /\ f[e].offset = state.offset /\ f[e].round = state.round
 <1> DEFINE o == state.offset
            list == w.ids[r]
            k == state.round - 1
            m == state.received
            before == SharedBefore(w, r, o)
            last == f[e]
 <1>1. NumRanks \in Nat \ {0, 1} /\ RoundsOf(w) \in Nat
   BY SnapshotAssumption, RoundsAreEnough
 <1>2. /\ other \in IdLists /\ k \in Nat /\ k + 1 = state.round
       /\ o \in 1 .. NumRanks - 1
       /\ m = Done(other, k) /\ m \in Nat
       /\ e = Done(other, state.round) - m /\ e \in Nat
   BY ChunkExpected
 <1>3. /\ state \in RingStates /\ state.round \in 0 .. RoundsOf(w)
       /\ state.round > 0 /\ state.source_count = Len(other)
       /\ Scanned(state, list, other, m, before)
   BY <1>1 DEF Progress
 <1>4. Sorted(other)
   BY <1>2, Neighbours
 <1>5. list \in IdLists /\ Sorted(list)
   BY ListsAre
 <1>6. before \in BOOLEAN
   BY DEF SharedBefore
 <1>7. m + e \in Nat /\ m + e = Done(other, state.round)
  <2>1. Done(other, state.round) \in Int
    BY <1>2, DoneIs
  <2> HIDE DEF k, m, o
  <2> QED  BY <1>2, <2>1
 <1>8. /\ base \in RingStates /\ base.offset = o /\ base.round = state.round
       /\ base.source_count = Len(other) /\ base.received = m + e
       /\ base.cursor = state.cursor /\ base.previous = state.previous
       /\ base.duplicate = state.duplicate
       /\ base.protocol_invalid = state.protocol_invalid
   BY <1>3, <1>7 DEF RingStates
 <1> HIDE DEF o, list, k, m, before, last
 <1>9. Scanned(base, list, other, m, before)
   BY <1>3, <1>8 DEF Scanned
 <1>10. /\ f[e] \in RingStates
        /\ Scanned(f[e], list, other, m + e, before)
        /\ SamePlace(base, f[e])
  <2>1. ScanLoop(f, base, ChunkOf(other, state.round), e, list)
    BY DEF list
  <2>2. PICK l \in Nat : l = state.round /\ l = k + 1
    BY <1>2
  <2>3. PICK q \in Nat : q = m + e /\ q = Done(other, l)
    BY <1>7, <2>2
  <2>4. m = Done(other, k) /\ m \in Nat /\ e \in Int /\ k \in Nat
    BY <1>2
  <2>5. ScanLoop(f, base, ChunkOf(other, l), e, list)
    BY <2>1, <2>2
  <2>6. /\ f[e] \in RingStates
        /\ Scanned(f[e], list, other, q, before)
        /\ SamePlace(base, f[e])
    BY <1>2, <1>4, <1>5, <1>6, <1>8, <1>9, <2>2, <2>3, <2>4, <2>5, ScannedChunk
  <2> QED  BY <2>3, <2>6
 <1>11. /\ last \in RingStates
        /\ Scanned(last, list, other, m + e, before)
        /\ SamePlace(base, last)
   BY <1>2, <1>7, <1>10 DEF last
 <1>12. /\ last.offset = o /\ last.round = state.round
        /\ last.source_count = Len(other) /\ last.received = m + e
   BY <1>8, <1>11 DEF SamePlace
 <1>13. Heard(w, r, last)
  <2>1. w.ids[Back(r, last.offset)] = other
    BY <1>12 DEF o
  <2>2. last.offset \in 1 .. NumRanks - 1 /\ last.round \in 0 .. RoundsOf(w)
    BY <1>2, <1>3, <1>12
  <2>3. Scanned(last, w.ids[r], w.ids[Back(r, last.offset)], last.received,
                SharedBefore(w, r, last.offset))
    BY <1>11, <1>12, <2>1 DEF list, before
  <2>4. last.source_count = Len(w.ids[Back(r, last.offset)])
        /\ last.received = Done(w.ids[Back(r, last.offset)], last.round)
    BY <1>7, <1>12, <2>1
  <2> QED  BY <1>11, <2>2, <2>3, <2>4 DEF Heard
 <1> QED  BY <1>12, <1>13 DEF last, o

-----------------------------------------------------------------------------
(* The ring: the protocol.                                                 *)

(* The messages to the partner at offset o that are behind a rank, given   *)
(* how much of the round it is in.                                         *)
Behind(state, rounds, o, part) ==
    IF state.offset > o THEN rounds + 1
    ELSE IF state.offset = o THEN state.round + part ELSE 0

Sent(s, o) ==
    Behind(ring[s], RoundsOf(world), o,
           IF phase[s] = "communicate" THEN 1 ELSE 0)
Fetched(r, o) ==
    Behind(ring[r], RoundsOf(world), o,
           IF phase[r] = "communicate" /\ want[r] = Nothing THEN 1 ELSE 0)

(* The messages of s after the first m, up to the n-th.                    *)
Letters(w, s, m, n) == [j \in 1 .. n - m |-> Letter(w, s, m + j)]

(* A rank that has not left the ring.                                      *)
InRing(r) == stage[r] <= 3 /\ phase[r] \notin Ended

(* What it waits for, or has received, is the next message of its source.  *)
WaitsInRing(r) ==
    IF phase[r] = "communicate"
      THEN LET s == Back(r, ring[r].offset)
               j == ring[r].round + 1
           IN  /\ stage[r] = 3 /\ ring[r].offset # NumRanks
               /\ \/ want[r] = [from |-> s, tag |-> Letter(world, r, j).tag]
                  \/ want[r] = Nothing /\ got[r] = Letter(world, s, j)
      ELSE want[r] = Nothing

(* What is under way to it is what was sent and not yet fetched.           *)
UnderWay(r) ==
    \A o \in 1 .. NumRanks - 1 :
        LET s == Back(r, o)
        IN  /\ Fetched(r, o) <= Sent(s, o)
            /\ wire[s][r] = Letters(world, s, Fetched(r, o), Sent(s, o))

RingShape ==
    /\ DOMAIN wire = Ranks /\ \A s \in Ranks : DOMAIN wire[s] = Ranks
    /\ DOMAIN want = Ranks /\ DOMAIN got = Ranks /\ DOMAIN ring = Ranks
    /\ \A r \in Ranks : Progress(world, r, ring[r])

RingLinks == \A r \in Ranks : InRing(r) => WaitsInRing(r) /\ UnderWay(r)

(* A rank leaves a stage behind when everybody is through its work.        *)
StagesClose ==
    \A r, s \in Ranks : stage[r] <= 3 =>
        /\ stage[s] <= stage[r] + 1
        /\ stage[s] = stage[r] + 1 => phase[r] \in {"vote"} \union Ended

(* Behind the second stage the lists are in order.                         *)
OrderKnown ==
    \A r \in Ranks :
        /\ stage[r] = 2 /\ phase[r] \in {"vote", "threw"} /\ ~ bad[r] =>
               Sorted(world.ids[r])
        /\ stage[r] >= 3 => \A s \in Ranks : Sorted(world.ids[s])

RingInv == RingShape /\ RingLinks /\ StagesClose /\ OrderKnown

(* A rank that has not left the ring's stage is ahead of nobody by two.    *)
LEMMA RingNames ==
    ASSUME WriterTypes, NEW r \in Ranks
    PROVE  /\ stage[r] \in 1 .. 8
           /\ Name(r) = "order" <=> stage[r] = 2
           /\ Name(r) = "ring" <=> stage[r] = 3
           /\ Name(r) \in {"preflight", "identity"} => stage[r] \in 4 .. 5
           /\ Name(r) \in {"setup", "transfer", "finish"} => stage[r] \in 6 .. 8
  BY DEF WriterTypes, Name, Stages

(* Nothing is under way when the call begins.                              *)
LEMMA RingStarts == SnapshotInit => RingInv
 <1> SUFFICES ASSUME SnapshotInit  PROVE RingInv
   OBVIOUS
 <1> DEFINE first == [offset |-> 1, round |-> 0, cursor |-> 1,
                      source_count |-> 0, received |-> 0, previous |-> 0,
                      duplicate |-> FALSE, protocol_invalid |-> FALSE]
 <1>a. /\ first \in RingStates /\ first.offset = 1 /\ first.round = 0
       /\ first.cursor = 1 /\ first.received = 0 /\ first.previous = 0
       /\ first.duplicate = FALSE /\ first.protocol_invalid = FALSE
   BY DEF RingStates
 <1>1. NumRanks \in Nat \ {0, 1} /\ world \in Worlds
   BY SnapshotAssumption DEF SnapshotInit
 <1>2. \A r \in Ranks : /\ stage[r] = 1 /\ phase[r] = "work" /\ want[r] = Nothing
                        /\ ring[r] = first
   BY DEF SnapshotInit
 <1> HIDE DEF first
 <1>3. \A r, s \in Ranks : wire[s][r] = <<>>
   BY DEF SnapshotInit
 <1>4. StagesClose /\ OrderKnown
   BY <1>2 DEF StagesClose, OrderKnown
 <1>5. ASSUME NEW r \in Ranks  PROVE Progress(world, r, ring[r])
  <2>1. ~ SharedBefore(world, r, 1)
    BY NobodyBefore
  <2>2. /\ ring[r] \in RingStates /\ ring[r].offset = 1 /\ ring[r].round = 0
        /\ ring[r].cursor = 1 /\ ring[r].received = 0 /\ ring[r].previous = 0
        /\ ~ ring[r].protocol_invalid /\ ~ ring[r].duplicate
    BY <1>2, <1>a
  <2>3. 1 \in 1 .. NumRanks
    BY <1>1
  <2>4. ring[r].duplicate <=> SharedBefore(world, r, 1)
    BY <2>1, <2>2
  <2> QED  BY <1>1, <2>2, <2>3, <2>4, FreshState
 <1>6. RingShape
   BY <1>5 DEF SnapshotInit, RingShape
 <1>7. ASSUME NEW r \in Ranks  PROVE WaitsInRing(r) /\ UnderWay(r)
  <2>1. WaitsInRing(r)
    BY <1>2 DEF WaitsInRing
  <2>2. ASSUME NEW o \in 1 .. NumRanks - 1
        PROVE  /\ Fetched(r, o) <= Sent(Back(r, o), o)
               /\ wire[Back(r, o)][r] =
                    Letters(world, Back(r, o), Fetched(r, o), Sent(Back(r, o), o))
   <3> DEFINE s == Back(r, o)
   <3>1. s \in Ranks
     BY Neighbours
   <3> HIDE DEF s
   <3>2. Fetched(r, o) = 0 /\ Sent(s, o) = 0
     BY <1>2, <1>a, <3>1 DEF Fetched, Sent, Behind
   <3>3. Letters(world, s, 0, 0) = <<>>
     BY DEF Letters
   <3>4. /\ Fetched(r, o) <= Sent(s, o)
         /\ wire[s][r] = Letters(world, s, Fetched(r, o), Sent(s, o))
     BY <1>3, <3>1, <3>2, <3>3
   <3> QED  BY <3>4 DEF s
  <2> QED  BY <2>1, <2>2 DEF UnderWay
 <1> QED  BY <1>4, <1>6, <1>7 DEF RingInv, RingLinks

(* Steps that leave what a rank's ring depends on alone.                   *)
LEMMA ReceiverStays ==
    ASSUME NEW r \in Ranks, world' = world, ring' = ring,
           want'[r] = want[r], got'[r] = got[r],
           \A s \in Ranks : wire'[s][r] = wire[s][r],
           \A s \in Ranks : phase[s] = "communicate" <=> phase'[s] = "communicate",
           phase[r] = "communicate" => stage'[r] = stage[r],
           InRing(r), WaitsInRing(r), UnderWay(r)
    PROVE  (WaitsInRing(r) /\ UnderWay(r))'
 <1>1. WaitsInRing(r)'
   BY DEF WaitsInRing
 <1>2. ASSUME NEW o \in 1 .. NumRanks - 1
       PROVE  /\ Fetched(r, o)' <= Sent(Back(r, o), o)'
              /\ wire'[Back(r, o)][r] =
                   Letters(world', Back(r, o), Fetched(r, o)', Sent(Back(r, o), o)')
  <2> DEFINE s == Back(r, o)
  <2>1. s \in Ranks
    BY Neighbours
  <2>2. Fetched(r, o) <= Sent(s, o)
        /\ wire[s][r] = Letters(world, s, Fetched(r, o), Sent(s, o))
    BY DEF UnderWay
  <2> HIDE DEF s
  <2>3. Fetched(r, o)' = Fetched(r, o) /\ Sent(s, o)' = Sent(s, o)
    BY <2>1 DEF Fetched, Sent
  <2>4. /\ Fetched(r, o)' <= Sent(s, o)'
        /\ wire'[s][r] = Letters(world', s, Fetched(r, o)', Sent(s, o)')
    BY <2>1, <2>2, <2>3
  <2> QED  BY <2>4 DEF s
 <1> QED  BY <1>1, <1>2 DEF UnderWay

(* Who is past the ring's reduction knows that everybody is.               *)
LEMMA LateKeeps ==
    ASSUME RingInv, WriterTypes, NEW r \in Ranks, stage[r] >= 5,
           world' = world, ring' = ring,
           \A s \in Ranks : stage'[s] \in 1 .. 8 /\ stage'[s] >= stage[s],
           DOMAIN wire' = Ranks, \A s \in Ranks : DOMAIN wire'[s] = Ranks,
           DOMAIN want' = Ranks, DOMAIN got' = Ranks
    PROVE  RingInv'
 <1>1. ASSUME NEW s \in Ranks  PROVE stage[s] > 3 /\ stage'[s] > 3
  <2>1. stage[s] \in 1 .. 8 /\ stage[r] \in 1 .. 8
    BY DEF WriterTypes
  <2>2. stage[s] > 3
    BY <2>1 DEF RingInv, StagesClose
  <2> QED  BY <2>1, <2>2
 <1>2. \A s \in Ranks : ~ (stage'[s] <= 3) /\ stage'[s] \in 1 .. 8
   BY <1>1
 <1>3. StagesClose' /\ RingLinks'
   BY <1>2 DEF StagesClose, RingLinks, InRing
 <1>4. OrderKnown'
  <2>1. stage[r] >= 3
    BY DEF WriterTypes
  <2>2. \A s \in Ranks : Sorted(world.ids[s])
    BY <2>1 DEF RingInv, OrderKnown
  <2>3. \A s \in Ranks : stage'[s] # 2 /\ Sorted(world'.ids[s])
    BY <1>2, <2>2
  <2> QED  BY <2>3 DEF OrderKnown
 <1>5. RingShape'
   BY DEF RingInv, RingShape
 <1> QED  BY <1>3, <1>4, <1>5 DEF RingInv

(* Steps of one rank through a stage, with nothing sent or received.       *)
LEMMA ControlKeeps ==
    ASSUME RingInv, world' = world, ring' = ring,
           wire' = wire, want' = want, got' = got, NEW r \in Ranks,
           phase[r] # "communicate", phase'[r] # "communicate",
           \A s \in Ranks \ {r} : stage'[s] = stage[s] /\ phase'[s] = phase[s],
           InRing(r)' => InRing(r), StagesClose', OrderKnown'
    PROVE  RingInv'
 <1>1. RingShape'
   BY DEF RingInv, RingShape
 <1>2. ASSUME NEW s \in Ranks, InRing(s)'  PROVE (WaitsInRing(s) /\ UnderWay(s))'
  <2>1. InRing(s)
   <3>1. CASE s = r
     BY <1>2, <3>1
   <3>2. CASE s # r
     BY <1>2, <3>2 DEF InRing
   <3> QED  BY <3>1, <3>2
  <2>2. WaitsInRing(s) /\ UnderWay(s)
    BY <2>1 DEF RingInv, RingLinks
  <2>3. /\ want'[s] = want[s] /\ got'[s] = got[s]
        /\ \A q \in Ranks : wire'[q][s] = wire[q][s]
        /\ \A q \in Ranks : phase[q] = "communicate" <=> phase'[q] = "communicate"
        /\ phase[s] = "communicate" => stage'[s] = stage[s]
    OBVIOUS
  <2> QED  BY <2>1, <2>2, <2>3, ReceiverStays
 <1> QED  BY <1>1, <1>2 DEF RingInv, RingLinks

(* What is under way grows at its end and shrinks at its head.             *)
LEMMA LettersGrow ==
    ASSUME NEW w, NEW s, NEW m \in Nat, NEW n \in Nat, m <= n,
           NEW k \in Nat, k = n + 1
    PROVE  Letters(w, s, m, k) = Append(Letters(w, s, m, n), Letter(w, s, k))
 <1> DEFINE old == Letters(w, s, m, n)
            new == Letters(w, s, m, k)
            c(j) == Letter(w, s, m + j)
 <1>1. old = [j \in 1 .. n - m |-> c(j)] /\ new = [j \in 1 .. k - m |-> c(j)]
   BY DEF Letters
 <1>2. n - m \in Nat /\ k - m = (n - m) + 1 /\ m + (k - m) = k
   OBVIOUS
 <1>3. c(k - m) = Letter(w, s, k)
   BY <1>2
 <1> HIDE DEF old, new, c
 <1>4. Append(old, c(k - m)) = new
   BY <1>1, <1>2
 <1> QED  BY <1>3, <1>4 DEF old, new

LEMMA LettersShrink ==
    ASSUME NEW w, NEW s, NEW m \in Nat, NEW n \in Nat, m < n,
           NEW k \in Nat, k = m + 1, NEW queue, queue = Letters(w, s, m, n)
    PROVE  /\ 1 \in DOMAIN queue /\ DOMAIN queue \subseteq Nat \ {0}
           /\ queue[1] = Letter(w, s, k)
           /\ RemoveAt(queue, 1) = Letters(w, s, k, n)
 <1> DEFINE c(j) == Letter(w, s, j)
 <1>1. /\ queue = [j \in 1 .. n - m |-> c(m + j)]
       /\ Letters(w, s, k, n) = [j \in 1 .. n - k |-> c(k + j)]
   BY DEF Letters
 <1>2. n - m \in Nat /\ 1 <= n - m /\ n - k = (n - m) - 1 /\ n - k \in Nat
   OBVIOUS
 <1> HIDE DEF c
 <1>3. /\ 1 \in DOMAIN queue /\ DOMAIN queue \subseteq Nat \ {0}
       /\ queue[1] = c(k) /\ Len(queue) = n - m
   BY <1>1, <1>2
 <1>4. RemoveAt(queue, 1) = [j \in 1 .. n - k |-> c(k + j)]
  <2>1. RemoveAt(queue, 1) = SubSeq(queue, 1, 0) \o SubSeq(queue, 2, Len(queue))
    BY DEF RemoveAt
  <2>2. SubSeq(queue, 1, 0) = <<>>
    BY <1>1
  <2>3. SubSeq(queue, 2, Len(queue)) = [j \in 1 .. n - k |-> queue[j + 1]]
    BY <1>1, <1>2, <1>3
  <2>4. \A j \in 1 .. n - k : queue[j + 1] = c(k + j)
    BY <1>1, <1>2
  <2>5. SubSeq(queue, 2, Len(queue)) = [j \in 1 .. n - k |-> c(k + j)]
    BY <2>3, <2>4
  <2>6. <<>> \o SubSeq(queue, 2, Len(queue)) = SubSeq(queue, 2, Len(queue))
    BY <1>2, <2>5
  <2> QED  BY <2>1, <2>2, <2>5, <2>6
 <1> QED  BY <1>1, <1>3, <1>4 DEF c

(* The place of a rank in the ring.                                        *)
LEMMA PlaceInRing ==
    ASSUME RingShape, WriterTypes, NEW r \in Ranks
    PROVE  /\ world \in Worlds /\ RoundsOf(world) = Rounds /\ Rounds \in Nat
           /\ ring[r].offset \in 1 .. NumRanks /\ ring[r].round \in 0 .. Rounds
           /\ ring[r].offset # NumRanks => ring[r].offset \in 1 .. NumRanks - 1
           /\ NumRanks \in Nat \ {0, 1}
           /\ Source(r) = Back(r, ring[r].offset)
           /\ Destination(r) = Forth(r, ring[r].offset)
           /\ IdMessage(r) = Letter(world, r, ring[r].round + 1)
 <1>1. world \in Worlds
   BY DEF WriterTypes
 <1>2. RoundsOf(world) = Rounds
   BY DEF RoundsOf, Rounds, Count
 <1>3. Rounds \in Nat
   BY <1>1, <1>2, RoundsAreEnough
 <1>4. Progress(world, r, ring[r]) /\ NumRanks \in Nat \ {0, 1}
   BY SnapshotAssumption DEF RingShape
 <1>5. ring[r].offset \in 1 .. NumRanks /\ ring[r].round \in 0 .. Rounds
   BY <1>2, <1>4 DEF Progress
 <1>6. IdMessage(r) = Letter(world, r, ring[r].round + 1)
  <2>1. ring[r].round \in Nat
    BY <1>3, <1>5
  <2>2. /\ ring[r].round = 0 <=> ring[r].round + 1 = 1
        /\ (ring[r].round + 1) - 1 = ring[r].round
    BY <2>1
  <2> QED  BY <2>2 DEF IdMessage, Letter, Count
 <1> QED  BY <1>1, <1>2, <1>3, <1>4, <1>5, <1>6 DEF Source, Destination, Back, Forth

(* How far a rank is with a partner is a number, and depends on the part   *)
(* of the round only at its place.                                         *)
LEMMA BehindIs ==
    ASSUME RingShape, WriterTypes, NEW r \in Ranks, NEW o \in 1 .. NumRanks - 1,
           NEW part \in {0, 1}
    PROVE  /\ Behind(ring[r], RoundsOf(world), o, part) \in Nat
           /\ ring[r].offset # o =>
                Behind(ring[r], RoundsOf(world), o, part) =
                Behind(ring[r], RoundsOf(world), o, 0)
           /\ ring[r].offset = o =>
                Behind(ring[r], RoundsOf(world), o, part) = ring[r].round + part
 <1>1. /\ RoundsOf(world) = Rounds /\ Rounds \in Nat
       /\ ring[r].offset \in 1 .. NumRanks /\ ring[r].round \in 0 .. Rounds
       /\ NumRanks \in Nat \ {0, 1}
   BY PlaceInRing
 <1> QED  BY <1>1 DEF Behind

(* A rank posts its receive and sends its next message.                    *)
LEMMA StartKeeps ==
    ASSUME RingInv, WriterInv, NEW r \in Ranks, StartExchange(r)
    PROVE  RingInv'
 <1> DEFINE o == ring[r].offset
            d == Forth(r, o)
            k == ring[r].round + 1
            m == Letter(world, r, k)
 <1>1. WriterTypes /\ RingShape
   BY DEF WriterInv, RingInv
 <1>2. /\ o \in 1 .. NumRanks - 1 /\ ring[r].round \in Nat /\ k \in Nat
       /\ NumRanks \in Nat \ {0, 1}
       /\ Source(r) = Back(r, o) /\ Destination(r) = d /\ IdMessage(r) = m
   BY <1>1, PlaceInRing DEF StartExchange
 <1>3. d \in Ranks \ {r} /\ Back(r, o) \in Ranks /\ Back(d, o) = r
   BY <1>2, Neighbours
 <1>4. stage[r] = 3
   BY <1>1, RingNames DEF StartExchange, Works
 <1> HIDE DEF o, d, k, m
 <1>5. /\ phase[r] = "work" /\ o # NumRanks
       /\ wire' = [wire EXCEPT ![r][d] = Append(@, m)]
       /\ want' = [want EXCEPT ![r] = [from |-> Back(r, o), tag |-> m.tag]]
       /\ phase' = [phase EXCEPT ![r] = "communicate"]
       /\ world' = world /\ stage' = stage /\ bad' = bad /\ got' = got
       /\ ring' = ring
   BY <1>2 DEF StartExchange, Works
 <1>6. /\ DOMAIN wire' = Ranks /\ \A s \in Ranks : DOMAIN wire'[s] = Ranks
       /\ wire'[r][d] = Append(wire[r][d], m)
       /\ \A s, q \in Ranks : s # r \/ q # d => wire'[s][q] = wire[s][q]
       /\ DOMAIN want' = Ranks
       /\ want'[r] = [from |-> Back(r, o), tag |-> m.tag]
       /\ \A q \in Ranks \ {r} : want'[q] = want[q]
   BY <1>1, <1>3, <1>5 DEF RingShape
 <1>7. phase'[r] = "communicate" /\ \A q \in Ranks \ {r} : phase'[q] = phase[q]
   BY <1>1, <1>5 DEF WriterTypes
 <1>8. RingShape'
   BY <1>1, <1>5, <1>6 DEF RingShape
 <1>9. StagesClose'
  <2>1. phase[r] \notin {"vote"} \union Ended
    BY <1>5 DEF Ended
  <2> QED  BY <1>5, <1>7, <2>1 DEF RingInv, StagesClose
 <1>10. OrderKnown'
   BY <1>4, <1>5, <1>7 DEF RingInv, OrderKnown
 <1>11. want'[r] # Nothing
   BY <1>3, <1>6 DEF Nothing, Ranks
 <1>12. ASSUME NEW q \in Ranks, InRing(q)'  PROVE (WaitsInRing(q) /\ UnderWay(q))'
  <2>1. InRing(q)
    BY <1>5, <1>7, <1>12 DEF InRing, Ended
  <2>2. WaitsInRing(q) /\ UnderWay(q)
    BY <2>1 DEF RingInv, RingLinks
  <2>3. WaitsInRing(q)'
   <3>1. CASE q = r
     BY <1>4, <1>5, <1>6, <1>7, <3>1 DEF WaitsInRing, o, k, m
   <3>2. CASE q # r
     BY <1>5, <1>6, <1>7, <2>2, <3>2 DEF WaitsInRing
   <3> QED  BY <3>1, <3>2
  <2>4. ASSUME NEW p \in 1 .. NumRanks - 1, NEW s \in Ranks, s = Back(q, p)
        PROVE  /\ Fetched(q, p)' <= Sent(s, p)'
               /\ wire'[s][q] =
                    Letters(world', s, Fetched(q, p)', Sent(s, p)')
   <3>1. /\ Fetched(q, p) <= Sent(s, p)
         /\ wire[s][q] = Letters(world, s, Fetched(q, p), Sent(s, p))
     BY <2>2, <2>4 DEF UnderWay
   <3>2. Fetched(q, p)' = Fetched(q, p)
     BY <1>5, <1>6, <1>7, <1>11 DEF Fetched
   <3>3. Fetched(q, p) \in Nat
     BY <1>1, BehindIs DEF Fetched
   <3>4. CASE s = r /\ q = d
    <4>1. p = o
      BY <1>2, <1>3, <2>4, <3>4, BackIsOne
    <4>2. Sent(s, p) = ring[r].round /\ Sent(s, p)' = k
      BY <1>1, <1>2, <1>5, <1>7, <3>4, <4>1, BehindIs DEF Sent, Behind, o, k
    <4>3. /\ wire'[s][q] = Append(wire[s][q], Letter(world, s, k))
          /\ k = ring[r].round + 1 /\ k \in Nat
      BY <1>2, <1>6, <3>4 DEF m, k
    <4>4. Letters(world, s, Fetched(q, p), k) =
            Append(Letters(world, s, Fetched(q, p), ring[r].round),
                   Letter(world, s, k))
      BY <1>2, <3>1, <3>3, <4>2, <4>3, LettersGrow
    <4>5. Fetched(q, p) <= k
      BY <1>2, <3>1, <3>3, <4>2, <4>3
    <4> QED  BY <1>5, <3>1, <3>2, <4>2, <4>3, <4>4, <4>5
   <3>5. CASE s # r \/ q # d
    <4>1. Sent(s, p)' = Sent(s, p)
     <5>1. CASE s # r
       BY <1>5, <1>7, <5>1 DEF Sent
     <5>2. CASE s = r
      <6>1. p # o
       <7>1. Back(q, p) = r
         BY <2>4, <5>2
       <7>2. Forth(r, p) = q
         BY <7>1, Neighbours
       <7> QED  BY <3>5, <5>2, <7>2 DEF d
      <6>2. Behind(ring[r], RoundsOf(world), p, 1) =
              Behind(ring[r], RoundsOf(world), p, 0)
        BY <1>1, <6>1, BehindIs DEF o
      <6> QED  BY <1>5, <1>7, <5>2, <6>2 DEF Sent
     <5> QED  BY <5>1, <5>2
    <4> QED  BY <1>5, <1>6, <3>1, <3>2, <3>5, <4>1
   <3> QED  BY <3>4, <3>5
  <2>5. UnderWay(q)'
    BY <2>4, Neighbours DEF UnderWay
  <2> QED  BY <2>3, <2>5
 <1> QED  BY <1>8, <1>9, <1>10, <1>12 DEF RingInv, RingLinks

(* MPI hands a rank the next message of its source.                        *)
LEMMA MatchKeeps ==
    ASSUME RingInv, WriterInv, NEW r \in Ranks, Match(r)
    PROVE  RingInv'
 <1> DEFINE s == want[r].from
            queue == wire[s][r]
            i == OldestWith(queue, want[r].tag)
 <1>1. WriterTypes /\ RingShape
   BY DEF WriterInv, RingInv
 <1>2. /\ want[r] # Nothing
       /\ \E j \in DOMAIN queue : queue[j].tag = want[r].tag
       /\ got' = [got EXCEPT ![r] = queue[i]]
       /\ wire' = [wire EXCEPT ![s][r] = RemoveAt(queue, i)]
       /\ want' = [want EXCEPT ![r] = Nothing]
       /\ world' = world /\ stage' = stage /\ phase' = phase /\ bad' = bad
       /\ ring' = ring
   BY DEF Match, control
 <1> HIDE DEF s, queue, i
 <1>3. /\ DOMAIN wire' = Ranks /\ \A q \in Ranks : DOMAIN wire'[q] = Ranks
       /\ s \in Ranks => wire'[s][r] = RemoveAt(queue, i)
       /\ \A p, q \in Ranks : p # s \/ q # r => wire'[p][q] = wire[p][q]
       /\ DOMAIN want' = Ranks /\ want'[r] = Nothing
       /\ DOMAIN got' = Ranks /\ got'[r] = queue[i]
       /\ \A q \in Ranks \ {r} : want'[q] = want[q] /\ got'[q] = got[q]
   BY <1>1, <1>2 DEF RingShape
 <1>4. RingShape' /\ StagesClose' /\ OrderKnown'
  <2>1. RingShape'
    BY <1>1, <1>2, <1>3 DEF RingShape
  <2>2. StagesClose'
    BY <1>2 DEF RingInv, StagesClose
  <2>3. OrderKnown'
    BY <1>2 DEF RingInv, OrderKnown
  <2> QED  BY <2>1, <2>2, <2>3
 <1>5. ASSUME NEW q \in Ranks, InRing(q)', q # r
       PROVE  (WaitsInRing(q) /\ UnderWay(q))'
  <2>1. InRing(q)
    BY <1>2, <1>5 DEF InRing
  <2>2. WaitsInRing(q) /\ UnderWay(q)
    BY <2>1 DEF RingInv, RingLinks
  <2> QED  BY <1>2, <1>3, <1>5, <2>1, <2>2, ReceiverStays
 <1>6. ASSUME InRing(r)'  PROVE (WaitsInRing(r) /\ UnderWay(r))'
  <2>1. InRing(r)
    BY <1>2, <1>6 DEF InRing
  <2>2. WaitsInRing(r) /\ UnderWay(r)
    BY <2>1 DEF RingInv, RingLinks
  <2>3. PICK o \in 1 .. NumRanks - 1, n \in Nat, k \in Nat, z \in Ranks :
          /\ o = ring[r].offset /\ n = ring[r].round /\ k = n + 1 /\ z = s
          /\ phase[r] = "communicate" /\ stage[r] = 3
          /\ z = Back(r, o) /\ want[r].tag = Letter(world, r, k).tag
   <3>1. /\ phase[r] = "communicate" /\ stage[r] = 3
         /\ ring[r].offset # NumRanks /\ s = Back(r, ring[r].offset)
         /\ want[r].tag = Letter(world, r, ring[r].round + 1).tag
     BY <1>2, <2>2 DEF WaitsInRing, s
   <3>2. /\ ring[r].offset \in 1 .. NumRanks - 1 /\ ring[r].round \in Nat
         /\ ring[r].round + 1 \in Nat
     BY <1>1, <3>1, PlaceInRing
   <3>3. s \in Ranks
     BY <3>1, <3>2, Neighbours
   <3> QED  BY <3>1, <3>2, <3>3
  <2>4. NumRanks \in Nat \ {0, 1}
    BY SnapshotAssumption
  <2>5. ring'[r].offset = o /\ ring'[r].round = n
    BY <1>2, <2>3
  <2>6. /\ Fetched(r, o) = n /\ Fetched(r, o)' = k
        /\ Sent(z, o) \in Nat /\ Sent(z, o)' = Sent(z, o)
   <3>1. Sent(z, o) \in Nat
     BY <1>1, BehindIs DEF Sent
   <3>2. Fetched(r, o) = n
     BY <1>2, <2>3 DEF Fetched, Behind
   <3>3. Fetched(r, o)' = k
     BY <1>2, <1>3, <2>3, <2>5 DEF Fetched, Behind
   <3> QED  BY <1>2, <3>1, <3>2, <3>3 DEF Sent
  <2>7. n <= Sent(z, o) /\ queue = Letters(world, z, n, Sent(z, o))
    BY <2>2, <2>3, <2>6 DEF UnderWay, queue
  <2>8. n < Sent(z, o)
   <3> SUFFICES ASSUME n = Sent(z, o)  PROVE FALSE
     BY <2>6, <2>7
   <3>1. DOMAIN queue = 1 .. 0
     BY <2>3, <2>7 DEF Letters
   <3> QED  BY <1>2, <3>1
  <2>9. /\ 1 \in DOMAIN queue /\ DOMAIN queue \subseteq Nat \ {0}
        /\ queue[1] = Letter(world, z, k)
        /\ RemoveAt(queue, 1) = Letters(world, z, k, Sent(z, o))
   <3>1. PICK t \in Nat : t = Sent(z, o)
     BY <2>6
   <3>2. n < t /\ k = n + 1 /\ queue = Letters(world, z, n, t)
     BY <2>3, <2>7, <2>8, <3>1
   <3>3. /\ 1 \in DOMAIN queue /\ DOMAIN queue \subseteq Nat \ {0}
         /\ queue[1] = Letter(world, z, k)
         /\ RemoveAt(queue, 1) = Letters(world, z, k, t)
     BY <3>2, LettersShrink
   <3> QED  BY <3>1, <3>3
  <2>10. i = 1
   <3> DEFINE T == {j \in DOMAIN queue : queue[j].tag = want[r].tag}
   <3>1. queue[1].tag = want[r].tag
     BY <2>3, <2>9 DEF Letter
   <3>2. T \in SUBSET Nat /\ 1 \in T /\ \A j \in T : j \in Nat /\ j # 0
     BY <2>9, <3>1
   <3>3. i = Min(T)
     BY DEF i, OldestWith
   <3> HIDE DEF T
   <3>4. Min(T) \in T /\ \A j \in T : Min(T) <= j
     BY <3>2, MinIsLeast
   <3>5. i \in Nat /\ i # 0 /\ i <= 1
     BY <3>2, <3>3, <3>4
   <3> QED  BY <3>5
  <2>11. /\ got'[r] = Letter(world, z, k)
         /\ wire'[z][r] = Letters(world, z, k, Sent(z, o))
    BY <1>3, <2>3, <2>9, <2>10
  <2>12. WaitsInRing(r)'
    BY <1>2, <1>3, <2>3, <2>5, <2>11 DEF WaitsInRing
  <2>13. ASSUME NEW p \in 1 .. NumRanks - 1, NEW q \in Ranks, q = Back(r, p)
         PROVE  /\ Fetched(r, p)' <= Sent(q, p)'
                /\ wire'[q][r] = Letters(world', q, Fetched(r, p)', Sent(q, p)')
   <3>1. CASE p = o
    <4>1. q = z /\ k <= Sent(z, o)
      BY <2>3, <2>6, <2>8, <2>13, <3>1
    <4>2. /\ Fetched(r, o)' <= Sent(z, o)'
          /\ wire'[z][r] = Letters(world', z, Fetched(r, o)', Sent(z, o)')
      BY <1>2, <2>6, <2>11, <4>1
    <4> QED  BY <3>1, <4>1, <4>2
   <3>2. CASE p # o
    <4>1. q # z
      BY <2>3, <2>13, <3>2, BackIsOne
    <4>2. /\ Fetched(r, p) <= Sent(q, p)
          /\ wire[q][r] = Letters(world, q, Fetched(r, p), Sent(q, p))
      BY <2>2, <2>13 DEF UnderWay
    <4>3. Behind(ring[r], RoundsOf(world), p, 1) =
            Behind(ring[r], RoundsOf(world), p, 0)
      BY <1>1, <2>3, <3>2, BehindIs
    <4>4. Fetched(r, p)' = Fetched(r, p)
      BY <1>2, <4>3 DEF Fetched
    <4>5. Sent(q, p)' = Sent(q, p)
      BY <1>2 DEF Sent
    <4>6. wire'[q][r] = wire[q][r]
      BY <1>3, <2>3, <4>1
    <4> QED  BY <1>2, <4>2, <4>4, <4>5, <4>6
   <3> QED  BY <3>1, <3>2
  <2>14. UnderWay(r)'
    BY <2>13, Neighbours DEF UnderWay
  <2> QED  BY <2>12, <2>14
 <1> QED  BY <1>4, <1>5, <1>6 DEF RingInv, RingLinks

(* What a rank makes of the message it received.                           *)
WorkedIn(r, state, data) ==
    IF state.round = 0 THEN [state EXCEPT !.source_count = data[1]]
    ELSE FoldLeft(LAMBDA acc, id : Scan(acc, id, world.ids[r]),
                  [state EXCEPT !.received = @ + Expected(state),
                                !.protocol_invalid = @ \/
                                    Len(data) # Expected(state)],
                  IF Len(data) = Expected(state) THEN data ELSE <<>>)

(* Either message, as the code works it in.                                *)
LEMMA MessageHeard ==
    ASSUME world \in Worlds, NEW r \in Ranks, NEW state, Progress(world, r, state),
           state.offset # NumRanks, \A s \in Ranks : Sorted(world.ids[s]),
           NEW j \in Nat, j = state.round + 1, NEW data,
           data = Letter(world, Back(r, state.offset), j).data,
           NEW next, next = WorkedIn(r, state, data)
    PROVE  /\ Heard(world, r, next)
           /\ next.offset = state.offset /\ next.round = state.round
 <1>1. state.round \in Nat
   BY DEF Progress, RingStates
 <1>2. CASE state.round = 0
  <2>1. /\ next = [state EXCEPT !.source_count = data[1]]
        /\ data = Letter(world, Back(r, state.offset), 1).data
    BY <1>2 DEF WorkedIn
  <2> QED  BY <1>2, <2>1, CountHeard
 <1>3. CASE state.round # 0
  <2> DEFINE other == world.ids[Back(r, state.offset)]
             e == Expected(state)
             base == [state EXCEPT !.received = @ + e]
             odd == state.protocol_invalid \/ Len(data) # e
             list == world.ids[r]
  <2>1. data = ChunkOf(other, state.round)
   <3>1. j # 1 /\ j - 1 = state.round
     BY <1>1, <1>3
   <3> QED  BY <3>1 DEF Letter
  <2>2. /\ e \in Nat /\ DOMAIN data = 1 .. e /\ Len(data) = e
    BY <1>3, <2>1, ChunkExpected
  <2>3. odd = FALSE
    BY <2>2 DEF Progress, Scanned
  <2>4. state.protocol_invalid = FALSE /\ state \in RingStates
    BY DEF Progress, Scanned, RingStates
  <2>5. next = FoldLeft(LAMBDA acc, id : Scan(acc, id, list),
                        [state EXCEPT !.received = @ + e,
                                      !.protocol_invalid = odd], data)
    BY <1>3, <2>2 DEF WorkedIn
  <2> HIDE DEF odd, e
  <2>6. [state EXCEPT !.received = @ + e, !.protocol_invalid = odd] = base
    BY <2>3, <2>4 DEF RingStates
  <2>7. next = FoldLeft(LAMBDA acc, id : Scan(acc, id, list), base, data)
    BY <2>5, <2>6
  <2> HIDE DEF base, list, other
  <2>8. PICK f : /\ FoldLeft(LAMBDA acc, id : Scan(acc, id, list), base, data) = f[e]
                 /\ ScanLoop(f, base, data, e, list)
    BY <2>2, ScanIsLoop
  <2>9. next = f[e]
    BY <2>7, <2>8
  <2>10. ScanLoop(f, base, ChunkOf(other, state.round), e, world.ids[r])
    BY <2>1, <2>8 DEF list
  <2>11. /\ other = world.ids[Back(r, state.offset)] /\ e = Expected(state)
         /\ base = [state EXCEPT !.received = @ + e]
    BY DEF other, e, base
  <2> QED  BY <1>3, <2>9, <2>10, <2>11, ChunkHeard
 <1> QED  BY <1>2, <1>3

(* The end of a round counts like the round's exchange.                    *)
LEMMA RoundCounts ==
    ASSUME NEW state, NEW next, next.offset = state.offset,
           next.round = state.round, state.offset \in 1 .. NumRanks - 1,
           state.round \in 0 .. Rounds, Rounds \in Nat, NumRanks \in Nat,
           next \in RingStates, NEW o \in 1 .. NumRanks - 1
    PROVE  Behind(NextRound(next), Rounds, o, 0) = Behind(state, Rounds, o, 1)
 <1>1. CASE state.round < Rounds
  <2>1. /\ NextRound(next).offset = state.offset
        /\ NextRound(next).round = state.round + 1
    BY <1>1 DEF NextRound, RingStates
  <2> QED  BY <2>1 DEF Behind
 <1>2. CASE ~ (state.round < Rounds)
  <2>1. state.round = Rounds
    BY <1>2
  <2>2. /\ NextRound(next).offset = state.offset + 1
        /\ NextRound(next).round = 0
    BY <1>2 DEF NextRound, RingStates
  <2> QED  BY <2>1, <2>2 DEF Behind
 <1> QED  BY <1>1, <1>2

(* A rank works the message in and goes on to the next round.              *)
LEMMA EndKeeps ==
    ASSUME RingInv, WriterInv, NEW r \in Ranks, NEW matched,
           EndExchange(r, matched)
    PROVE  RingInv'
 <1> DEFINE state == ring[r]
            data == got[r].data
            next == WorkedIn(r, state, data)
 <1>1. WriterTypes /\ RingShape
   BY DEF WriterInv, RingInv
 <1>2. /\ phase[r] = "communicate" /\ stage[r] = 3
       /\ want[r] = Nothing /\ got[r] # Silence
   BY <1>1, RingNames DEF EndExchange, ReceiveReturns
 <1>3. /\ ring' = [ring EXCEPT ![r] = NextRound(next)]
       /\ got' = [got EXCEPT ![r] = Silence]
       /\ phase' = [phase EXCEPT ![r] = "work"]
       /\ world' = world /\ stage' = stage /\ bad' = bad
       /\ wire' = wire /\ want' = want
   BY DEF EndExchange, WorkedIn
 <1>4. InRing(r)
   BY <1>2 DEF InRing, Ended
 <1>5. WaitsInRing(r)
   BY <1>4 DEF RingInv, RingLinks
 <1>6. /\ state.offset # NumRanks
       /\ got[r] = Letter(world, Back(r, state.offset), state.round + 1)
  <2>1. state.offset # NumRanks
    BY <1>2, <1>5 DEF WaitsInRing
  <2>2. state.offset \in 1 .. NumRanks - 1
    BY <1>1, <2>1, PlaceInRing
  <2>3. Back(r, state.offset) \in Ranks
    BY <2>2, Neighbours
  <2> QED  BY <1>2, <1>5, <2>1, <2>3 DEF WaitsInRing, Nothing, Ranks
 <1>7. /\ world \in Worlds /\ RoundsOf(world) = Rounds /\ Rounds \in Nat
       /\ state.offset \in 1 .. NumRanks - 1 /\ state.round \in 0 .. Rounds
       /\ state.round + 1 \in Nat /\ NumRanks \in Nat
   BY <1>1, <1>6, PlaceInRing
 <1>8. Progress(world, r, state)
   BY <1>1 DEF RingShape
 <1>9. \A s \in Ranks : Sorted(world.ids[s])
   BY <1>2 DEF RingInv, OrderKnown
 <1> HIDE DEF next, state
 <1>10. /\ Heard(world, r, next)
        /\ next.offset = state.offset /\ next.round = state.round
   BY <1>6, <1>7, <1>8, <1>9, MessageHeard DEF next
 <1>11. Progress(world, r, NextRound(next))
   BY <1>7, <1>10, NextRoundIs
 <1>12. \A o \in 1 .. NumRanks - 1 :
            Behind(NextRound(next), Rounds, o, 0) = Behind(state, Rounds, o, 1)
   BY <1>7, <1>10, RoundCounts DEF Heard
 <1>13. /\ DOMAIN ring' = Ranks /\ ring'[r] = NextRound(next)
        /\ \A q \in Ranks \ {r} : ring'[q] = ring[q]
        /\ DOMAIN got' = Ranks /\ \A q \in Ranks \ {r} : got'[q] = got[q]
        /\ phase'[r] = "work" /\ \A q \in Ranks \ {r} : phase'[q] = phase[q]
   BY <1>1, <1>3 DEF RingShape, WriterTypes
 <1>14. RingShape'
  <2>1. \A q \in Ranks : Progress(world', q, ring'[q])
    BY <1>1, <1>3, <1>11, <1>13 DEF RingShape
  <2> QED  BY <1>1, <1>3, <1>13, <2>1 DEF RingShape
 <1>15. StagesClose'
  <2>1. phase[r] \notin {"vote"} \union Ended
    BY <1>2 DEF Ended
  <2> QED  BY <1>3, <1>13, <2>1 DEF RingInv, StagesClose
 <1>16. OrderKnown'
   BY <1>2, <1>3, <1>13 DEF RingInv, OrderKnown
 <1>17. ASSUME NEW q \in Ranks, NEW o \in 1 .. NumRanks - 1
        PROVE  Sent(q, o)' = Sent(q, o) /\ Fetched(q, o)' = Fetched(q, o)
  <2>1. CASE q # r
    BY <1>3, <1>13, <2>1 DEF Sent, Fetched
  <2>2. CASE q = r
   <3>1. RoundsOf(world') = Rounds /\ RoundsOf(world) = Rounds
     BY <1>3, <1>7
   <3>2. Behind(ring'[r], Rounds, o, 0) = Behind(ring[r], Rounds, o, 1)
     BY <1>12, <1>13 DEF state
   <3> QED  BY <1>2, <1>13, <2>2, <3>1, <3>2 DEF Sent, Fetched
  <2> QED  BY <2>1, <2>2
 <1>18. ASSUME NEW q \in Ranks, InRing(q)'  PROVE (WaitsInRing(q) /\ UnderWay(q))'
  <2>1. InRing(q)
    BY <1>3, <1>4, <1>13, <1>18 DEF InRing
  <2>2. WaitsInRing(q) /\ UnderWay(q)
    BY <2>1 DEF RingInv, RingLinks
  <2>3. WaitsInRing(q)'
    BY <1>2, <1>3, <1>13, <2>2 DEF WaitsInRing
  <2>4. ASSUME NEW o \in 1 .. NumRanks - 1, NEW s \in Ranks, s = Back(q, o)
        PROVE  /\ Fetched(q, o)' <= Sent(s, o)'
               /\ wire'[s][q] = Letters(world', s, Fetched(q, o)', Sent(s, o)')
   <3>1. /\ Fetched(q, o) <= Sent(s, o)
         /\ wire[s][q] = Letters(world, s, Fetched(q, o), Sent(s, o))
     BY <2>2, <2>4 DEF UnderWay
   <3> QED  BY <1>3, <1>17, <3>1
  <2>5. UnderWay(q)'
    BY <2>4, Neighbours DEF UnderWay
  <2> QED  BY <2>3, <2>5
 <1> QED  BY <1>14, <1>15, <1>16, <1>18 DEF RingInv, RingLinks

(* A rank reports to the reduction of its stage.                           *)
LEMMA VotingKeepsRing ==
    ASSUME RingInv, WriterInv, NEW r \in Ranks, NEW ok \in BOOLEAN,
           phase[r] = "work", Vote(r, ok),
           ok /\ stage[r] = 2 => Sorted(world.ids[r]),
           world' = world, ring' = ring, wire' = wire, want' = want, got' = got
    PROVE  RingInv'
 <1>1. WriterTypes
   BY DEF WriterInv
 <1>2. /\ phase'[r] = "vote" /\ bad'[r] = ~ ok /\ stage' = stage
       /\ \A s \in Ranks \ {r} : phase'[s] = phase[s] /\ bad'[s] = bad[s]
   BY <1>1 DEF Vote, WriterTypes
 <1>3. StagesClose'
   BY <1>2 DEF RingInv, StagesClose
 <1>4. OrderKnown'
  <2>1. ASSUME NEW s \in Ranks, stage'[s] = 2, phase'[s] \in {"vote", "threw"},
               ~ bad'[s]
        PROVE  Sorted(world'.ids[s])
   <3>1. CASE s = r
     BY <1>2, <2>1, <3>1
   <3>2. CASE s # r
     BY <1>2, <2>1, <3>2 DEF RingInv, OrderKnown
   <3> QED  BY <3>1, <3>2
  <2>2. \A s \in Ranks : stage'[s] >= 3 =>
            \A q \in Ranks : Sorted(world'.ids[q])
    BY <1>2 DEF RingInv, OrderKnown
  <2> QED  BY <2>1, <2>2 DEF OrderKnown
 <1>5. InRing(r)' => InRing(r)
   BY <1>2 DEF InRing, Ended
 <1> QED  BY <1>2, <1>3, <1>4, <1>5, ControlKeeps

(* It leaves the stage with the others.                                    *)
LEMMA PassKeepsRing ==
    ASSUME RingInv, WriterInv, NEW r \in Ranks, Pass(r)
    PROVE  RingInv'
 <1>1. WriterTypes /\ RingShape
   BY DEF WriterInv, RingInv
 <1>2. /\ phase[r] = "vote" /\ (\A s \in Ranks : Entered(r, s)) /\ ~ Refused(r)
       /\ world' = world /\ ring' = ring
       /\ wire' = wire /\ want' = want /\ got' = got
   BY DEF Pass, Leaves, mpi
 <1>3. \A s \in Ranks : stage[s] \in 1 .. 8
   BY <1>1 DEF WriterTypes
 <1>4. CASE Name(r) = "finish"
  <2>1. stage[r] >= 5 /\ stage' = stage
    BY <1>1, <1>4, RingNames DEF Pass
  <2>2. \A s \in Ranks : stage'[s] \in 1 .. 8 /\ stage'[s] >= stage[s]
    BY <1>3, <2>1
  <2>3. /\ DOMAIN wire' = Ranks /\ \A s \in Ranks : DOMAIN wire'[s] = Ranks
        /\ DOMAIN want' = Ranks /\ DOMAIN got' = Ranks
    BY <1>1, <1>2 DEF RingShape
  <2> QED  BY <1>1, <1>2, <2>1, <2>2, <2>3, LateKeeps
 <1>5. CASE Name(r) # "finish"
  <2>1. /\ stage'[r] = stage[r] + 1 /\ phase'[r] = "work" /\ bad' = bad
        /\ \A s \in Ranks \ {r} : stage'[s] = stage[s] /\ phase'[s] = phase[s]
    BY <1>1, <1>5 DEF Pass, GoOn, WriterTypes
  <2>2. \A s \in Ranks : \/ stage[s] > stage[r]
                         \/ stage[s] = stage[r]
                            /\ phase[s] \in {"vote"} \union Ended /\ ~ bad[s]
    BY <1>2 DEF Entered, Refused
  <2>3. phase[r] \notin Ended
    BY <1>2 DEF Ended
  <2>4. StagesClose'
   <3>1. ASSUME NEW p \in Ranks, NEW q \in Ranks, stage'[p] <= 3
         PROVE  /\ stage'[q] <= stage'[p] + 1
                /\ stage'[q] = stage'[p] + 1 =>
                       phase'[p] \in {"vote"} \union Ended
    <4>1. /\ stage[p] <= 3 =>
               /\ stage[q] <= stage[p] + 1
               /\ stage[q] = stage[p] + 1 => phase[p] \in {"vote"} \union Ended
          /\ stage[r] <= 3 => stage[q] <= stage[r] + 1
          /\ stage[p] \in 1 .. 8 /\ stage[q] \in 1 .. 8 /\ stage[r] \in 1 .. 8
      BY <1>3 DEF RingInv, StagesClose
    <4>2. CASE p = r
      BY <2>1, <3>1, <4>1, <4>2
    <4>3. CASE p # r /\ q = r
      BY <2>1, <2>2, <3>1, <4>1, <4>3
    <4>4. CASE p # r /\ q # r
      BY <2>1, <3>1, <4>1, <4>4
    <4> QED  BY <4>2, <4>3, <4>4
   <3> QED  BY <3>1 DEF StagesClose
  <2>5. OrderKnown'
   <3>1. ASSUME stage[r] = 2  PROVE \A s \in Ranks : Sorted(world.ids[s])
    <4>1. CASE \E s \in Ranks : stage[s] >= 3
      BY <4>1 DEF RingInv, OrderKnown
    <4>2. CASE \A s \in Ranks : ~ (stage[s] >= 3)
     <5> TAKE s \in Ranks
     <5>1. /\ stage[s] = 2 /\ ~ bad[s]
           /\ phase[s] \in {"vote"} \union Ended
       BY <1>3, <2>2, <3>1, <4>2
     <5>2. phase[s] \notin {"aborted", "returned"}
       BY <1>2, <2>3, <5>1 DEF WriterInv, AbortEndsAll, ReturnedTogether
     <5>3. phase[s] \in {"vote", "threw"}
       BY <5>1, <5>2 DEF Ended
     <5> QED  BY <5>1, <5>3 DEF RingInv, OrderKnown
    <4> QED  BY <4>1, <4>2
   <3>2. ASSUME NEW s \in Ranks, stage'[s] = 2, phase'[s] \in {"vote", "threw"},
                ~ bad'[s]
         PROVE  Sorted(world'.ids[s])
     BY <1>2, <2>1, <3>2 DEF RingInv, OrderKnown
   <3>3. ASSUME NEW s \in Ranks, stage'[s] >= 3, NEW q \in Ranks
         PROVE  Sorted(world'.ids[q])
    <4>1. CASE s = r /\ stage[r] = 2
      BY <1>2, <3>1, <4>1
    <4>2. CASE s # r \/ stage[r] # 2
     <5>1. stage[s] >= 3
       BY <1>3, <2>1, <3>3, <4>2
     <5> QED  BY <1>2, <5>1 DEF RingInv, OrderKnown
    <4> QED  BY <4>1, <4>2
   <3> QED  BY <3>2, <3>3 DEF OrderKnown
  <2>6. InRing(r)' => InRing(r)
    BY <1>3, <2>1, <2>3 DEF InRing
  <2> QED  BY <1>2, <2>1, <2>4, <2>5, <2>6, ControlKeeps
 <1> QED  BY <1>4, <1>5

(* Who throws has left the ring.                                           *)
LEMMA ThrowKeepsRing ==
    ASSUME RingInv, WriterInv, NEW r \in Ranks, Throw(r)
    PROVE  RingInv'
 <1>1. /\ phase[r] = "vote" /\ phase' = [phase EXCEPT ![r] = "threw"]
       /\ world' = world /\ ring' = ring /\ stage' = stage /\ bad' = bad
       /\ wire' = wire /\ want' = want /\ got' = got
   BY DEF Throw, Leaves, mpi
 <1>2. /\ phase'[r] = "threw"
       /\ \A s \in Ranks \ {r} : phase'[s] = phase[s]
   BY <1>1 DEF WriterInv, WriterTypes
 <1>3. StagesClose'
   BY <1>1, <1>2 DEF RingInv, StagesClose, Ended
 <1>4. OrderKnown'
   BY <1>1, <1>2 DEF RingInv, OrderKnown
 <1>5. ~ InRing(r)'
   BY <1>2 DEF InRing, Ended
 <1> QED  BY <1>1, <1>2, <1>3, <1>4, <1>5, ControlKeeps

(* An aborted job has no ring.                                             *)
LEMMA AbortKeepsRing ==
    ASSUME RingInv, Abort
    PROVE  RingInv'
 <1>1. /\ phase' = [r \in Ranks |-> IF phase[r] \in Ended THEN phase[r]
                                                          ELSE "aborted"]
       /\ world' = world /\ ring' = ring /\ stage' = stage /\ bad' = bad
       /\ wire' = wire /\ want' = want /\ got' = got
   BY DEF Abort, mpi
 <1>2. \A r \in Ranks : /\ phase'[r] \in Ended
                        /\ phase'[r] \in {"vote", "threw"} => phase'[r] = phase[r]
   BY <1>1 DEF Ended
 <1>3. RingShape'
   BY <1>1 DEF RingInv, RingShape
 <1>4. RingLinks' /\ StagesClose'
   BY <1>1, <1>2 DEF RingInv, RingLinks, InRing, StagesClose
 <1>5. OrderKnown'
   BY <1>1, <1>2 DEF RingInv, OrderKnown
 <1> QED  BY <1>3, <1>4, <1>5 DEF RingInv

(* What happens to the files, while nobody's ring moves.                   *)
LEMMA NothingMovesRing ==
    ASSUME RingInv, world' = world, ring' = ring, stage' = stage, phase' = phase,
           bad' = bad, wire' = wire, want' = want, got' = got
    PROVE  RingInv'
 <1>1. RingShape'
   BY DEF RingInv, RingShape
 <1>2. StagesClose' /\ OrderKnown'
   BY DEF RingInv, StagesClose, OrderKnown
 <1>3. ASSUME NEW r \in Ranks, InRing(r)'  PROVE (WaitsInRing(r) /\ UnderWay(r))'
  <2>1. InRing(r)
    BY <1>3 DEF InRing
  <2>2. WaitsInRing(r) /\ UnderWay(r)
    BY <2>1 DEF RingInv, RingLinks
  <2> QED  BY <2>1, <2>2, ReceiverStays
 <1> QED  BY <1>1, <1>2, <1>3 DEF RingInv, RingLinks

(* The stages behind the ring.                                             *)
LEMMA LateStepsKeepRing ==
    ASSUME RingInv, WriterInv,
           \/ RootStep
           \/ \E r \in Ranks : \/ SendPart(r) \/ EndSending(r)
                               \/ \E m \in BOOLEAN : EndSend(r, m)
    PROVE  RingInv'
 <1>1. WriterTypes /\ RingShape /\ 0 \in Ranks
   BY SnapshotAssumption DEF WriterInv, RingInv, Ranks
 <1>2. \A s \in Ranks : stage[s] \in 1 .. 8
   BY <1>1 DEF WriterTypes
 <1>3. \A s \in Ranks : \/ phase[s] = "store" /\ s = 0
                        \/ Name(s) \in {"setup", "transfer", "finish"}
                        => stage[s] >= 5
   BY <1>1, RingNames DEF WriterInv, RootPublishes
 <1>4. \A s \in Ranks : Name(s) = "transfer" => stage[s] = 7
   BY <1>1, StageNames
 <1>5. ASSUME NEW r \in Ranks, stage[r] >= 5, world' = world, ring' = ring,
              \/ stage' = stage
              \/ stage[r] = 7 /\ stage' = [stage EXCEPT ![r] = @ + 1],
              DOMAIN wire' = Ranks, \A s \in Ranks : DOMAIN wire'[s] = Ranks,
              DOMAIN want' = Ranks, DOMAIN got' = Ranks
       PROVE  RingInv'
  <2>1. \A s \in Ranks : stage'[s] \in 1 .. 8 /\ stage'[s] >= stage[s]
    BY <1>1, <1>2, <1>5 DEF WriterTypes
  <2> QED  BY <1>1, <1>5, <2>1, LateKeeps
 <1>6. ASSUME NEW r \in Ranks, SendPart(r)  PROVE RingInv'
  <2>1. /\ stage[r] >= 5 /\ world' = world /\ ring' = ring /\ stage' = stage
        /\ \E x : wire' = [wire EXCEPT ![r][0] = x]
        /\ want' = want /\ got' = got
    BY <1>3, <1>6 DEF SendPart, Works
  <2> QED  BY <1>1, <1>5, <2>1 DEF RingShape
 <1>7. ASSUME NEW r \in Ranks, NEW m \in BOOLEAN, EndSend(r, m)  PROVE RingInv'
  <2>1. /\ stage[r] >= 5 /\ world' = world /\ ring' = ring /\ stage' = stage
        /\ wire' = wire /\ want' = want /\ got' = got
    BY <1>3, <1>7 DEF EndSend, mpi
  <2> QED  BY <1>1, <1>5, <2>1 DEF RingShape
 <1>8. ASSUME NEW r \in Ranks, EndSending(r) \/ (EndReceiving /\ r = 0)
       PROVE  RingInv'
  <2>1. /\ stage[r] = 7 /\ world' = world /\ ring' = ring
        /\ stage' = [stage EXCEPT ![r] = @ + 1]
        /\ wire' = wire /\ want' = want /\ got' = got
    BY <1>4, <1>8 DEF EndSending, EndReceiving, Works, GoOn, mpi
  <2>2. /\ DOMAIN wire' = Ranks /\ (\A s \in Ranks : DOMAIN wire'[s] = Ranks)
        /\ DOMAIN want' = Ranks /\ DOMAIN got' = Ranks
    BY <1>1, <2>1 DEF RingShape
  <2>3. stage[r] >= 5
    BY <2>1
  <2> QED  BY <1>5, <2>1, <2>2, <2>3
 <1>9. CASE RootStep /\ ~ EndReceiving
  <2>1. /\ stage[0] >= 5 /\ world' = world /\ ring' = ring /\ stage' = stage
        /\ DOMAIN wire' = Ranks /\ (\A s \in Ranks : DOMAIN wire'[s] = Ranks)
        /\ DOMAIN want' = Ranks /\ DOMAIN got' = Ranks
   <3>1. CASE \/ \E ok \in BOOLEAN : Publish(ok)
              \/ Setup \/ SetupFails \/ FailUnpublished \/ NextSource
              \/ \E parts \in Outcomes, reported \in BOOLEAN :
                    StoreOwn(parts, reported)
    <4>1. /\ Works(0, "setup") \/ Works(0, "transfer") \/ Works(0, "finish")
          /\ world' = world /\ ring' = ring /\ stage' = stage
          /\ wire' = wire /\ want' = want /\ got' = got
      BY <3>1 DEF Publish, Setup, SetupFails, FailUnpublished, NextSource,
                  StoreOwn, Vote, control, mpi
    <4> QED  BY <1>1, <1>3, <4>1 DEF Works, RingShape
   <3>2. ASSUME NEW parts \in Outcomes, NEW reported \in BOOLEAN,
                StoreBatch(parts, reported)
         PROVE  /\ stage[0] >= 5 /\ world' = world /\ ring' = ring
                /\ stage' = stage
                /\ DOMAIN wire' = Ranks
                /\ (\A s \in Ranks : DOMAIN wire'[s] = Ranks)
                /\ DOMAIN want' = Ranks /\ DOMAIN got' = Ranks
    <4>1. /\ phase[0] = "store"
          /\ world' = world /\ ring' = ring /\ stage' = stage
          /\ wire' = wire /\ want' = want /\ got' = got
      BY <3>2 DEF StoreBatch, KeepDraining, mpi
    <4> QED  BY <1>1, <1>3, <4>1 DEF RingShape
   <3>3. CASE Receive \/ EndReceive
    <4>1. /\ Name(0) = "transfer"
          /\ world' = world /\ ring' = ring /\ stage' = stage /\ wire' = wire
          /\ \/ want' = want
             \/ \E x : want' = [want EXCEPT ![0] = x]
          /\ \/ got' = got
             \/ \E x : got' = [got EXCEPT ![0] = x]
      BY <3>3 DEF Receive, EndReceive, Works
    <4> QED  BY <1>1, <1>3, <4>1 DEF RingShape
   <3> QED  BY <1>9, <3>1, <3>2, <3>3 DEF RootStep
  <2> QED  BY <1>1, <1>5, <2>1
 <1> QED  BY <1>1, <1>6, <1>7, <1>8, <1>9

(* Every step keeps the invariant of the ring.                             *)
LEMMA RingMoves == RingInv /\ WriterInv /\ [SnapshotNext]_snapshot => RingInv'
 <1> SUFFICES ASSUME RingInv, WriterInv, [SnapshotNext]_snapshot  PROVE RingInv'
   OBVIOUS
 <1>1. WriterTypes
   BY DEF WriterInv
 <1>2. ASSUME NEW r \in Ranks, NEW ok \in BOOLEAN, Check(r, ok)  PROVE RingInv'
  <2>1. /\ phase[r] = "work" /\ Vote(r, ok)
        /\ ok /\ stage[r] = 2 => Sorted(world.ids[r])
        /\ world' = world /\ ring' = ring
        /\ wire' = wire /\ want' = want /\ got' = got
    BY <1>1, <1>2, RingNames DEF Check, mpi
  <2> QED  BY <2>1, VotingKeepsRing
 <1>3. ASSUME NEW r \in Ranks, StandBy(r) \/ ReportIds(r)  PROVE RingInv'
  <2>1. PICK ok \in BOOLEAN :
          /\ phase[r] = "work" /\ Vote(r, ok) /\ Name(r) # "order"
          /\ world' = world /\ ring' = ring
          /\ wire' = wire /\ want' = want /\ got' = got
   <3>1. CASE StandBy(r)
     BY <3>1 DEF StandBy, Works, mpi
   <3>2. CASE ReportIds(r)
     BY <3>2 DEF ReportIds, Works, mpi
   <3> QED  BY <1>3, <3>1, <3>2
  <2>2. stage[r] # 2
    BY <1>1, <2>1, RingNames
  <2> QED  BY <2>1, <2>2, VotingKeepsRing
 <1>4. ASSUME NEW r \in Ranks, RankStep(r)  PROVE RingInv'
  <2>1. CASE Pass(r)
    BY <2>1, PassKeepsRing
  <2>2. CASE Throw(r)
    BY <2>2, ThrowKeepsRing
  <2>3. CASE StartExchange(r)
    BY <2>3, StartKeeps
  <2>4. CASE EndExchange(r, TRUE)
    BY <2>4, EndKeeps
  <2>5. CASE SendPart(r) \/ EndSend(r, TRUE) \/ EndSending(r)
    BY <2>5, LateStepsKeepRing
  <2> QED  BY <1>2, <1>3, <1>4, <2>1, <2>2, <2>3, <2>4, <2>5 DEF RankStep
 <1>5. ASSUME NEW r \in Ranks, Buffered(r)  PROVE RingInv'
  <2>1. CASE EndExchange(r, FALSE)
    BY <2>1, EndKeeps
  <2>2. CASE EndSend(r, FALSE)
    BY <2>2, LateStepsKeepRing
  <2> QED  BY <1>5, <2>1, <2>2 DEF Buffered
 <1>6. CASE RootStep
   BY <1>6, LateStepsKeepRing
 <1>7. CASE Abort
   BY <1>7, AbortKeepsRing
 <1>8. CASE TakenByOther \/ Finished \/ UNCHANGED snapshot
  <2>1. /\ world' = world /\ ring' = ring /\ stage' = stage /\ phase' = phase
        /\ bad' = bad /\ wire' = wire /\ want' = want /\ got' = got
    BY <1>8 DEF TakenByOther, Finished, snapshot, control, mpi
  <2> QED  BY <2>1, NothingMovesRing
 <1>9. ASSUME NEW r \in Ranks, Match(r)  PROVE RingInv'
   BY <1>9, MatchKeeps
 <1> QED  BY <1>4, <1>5, <1>6, <1>7, <1>8, <1>9 DEF SnapshotNext

(* At the end of the ring a rank has heard everybody.                      *)
LEMMA RingIsExact == RingInv /\ WriterInv => IdCheckIsExact
 <1> SUFFICES ASSUME RingInv, WriterInv, NEW r \in Ranks,
                     ring[r].offset = NumRanks
              PROVE  /\ ring[r].duplicate <=> Shared(r)
                     /\ ~ ring[r].protocol_invalid
   BY DEF IdCheckIsExact
 <1>1. Progress(world, r, ring[r]) /\ world \in Worlds
   BY DEF RingInv, RingShape, WriterInv, WriterTypes
 <1>2. NumRanks \in Nat \ {0, 1}
   BY SnapshotAssumption
 <1>3. /\ ring[r].received = 0 /\ ~ ring[r].protocol_invalid
       /\ ring[r].duplicate <=> SharedBefore(world, r, NumRanks)
  <2>1. ring[r].received = 0
    BY <1>1 DEF Progress
  <2>2. /\ ~ ring[r].protocol_invalid
        /\ ring[r].duplicate <=>
             (SharedBefore(world, r, NumRanks) \/
                \E i \in 1 .. 0 : world.ids[Back(r, NumRanks)][i] \in
                                      Range(world.ids[r]))
    BY <1>1, <2>1 DEF Progress, Scanned
  <2> QED  BY <2>1, <2>2
 <1>4. ASSUME NEW s \in Ranks
       PROVE  \A x : x \in Range(world.ids[s]) <=>
                      \E i \in 1 .. Len(world.ids[s]) : x = world.ids[s][i]
  <2>1. world.ids[s] \in IdLists
    BY <1>1, ListsAre
  <2>2. DOMAIN world.ids[s] = 1 .. Len(world.ids[s])
    BY <2>1 DEF IdLists
  <2> QED  BY <2>2 DEF Range
 <1>5. SharedBefore(world, r, NumRanks) => Shared(r)
  <2> SUFFICES ASSUME SharedBefore(world, r, NumRanks)  PROVE Shared(r)
    OBVIOUS
  <2>1. PICK p \in 1 .. NumRanks - 1 :
          \E i \in 1 .. Len(world.ids[Back(r, p)]) :
              world.ids[Back(r, p)][i] \in Range(world.ids[r])
    BY DEF SharedBefore
  <2>2. PICK s \in Ranks \ {r} : s = Back(r, p)
    BY Neighbours
  <2>3. PICK i \in 1 .. Len(world.ids[s]) :
          world.ids[s][i] \in Range(world.ids[r])
    BY <2>1, <2>2
  <2>4. world.ids[s][i] \in Range(world.ids[s])
    BY <1>4, <2>3
  <2> QED  BY <2>3, <2>4 DEF Shared
 <1>6. Shared(r) => SharedBefore(world, r, NumRanks)
  <2> SUFFICES ASSUME Shared(r)  PROVE SharedBefore(world, r, NumRanks)
    OBVIOUS
  <2>0. PICK s \in Ranks \ {r} :
          Range(world.ids[r]) \intersect Range(world.ids[s]) # {}
    BY DEF Shared
  <2>1. PICK x \in Range(world.ids[s]) : x \in Range(world.ids[r])
    BY <2>0
  <2>2. PICK i \in 1 .. Len(world.ids[s]) : x = world.ids[s][i]
    BY <1>4, <2>1
  <2>3. PICK p \in 1 .. NumRanks - 1 : Back(r, p) = s
    BY <2>0, BackIsAll
  <2> QED  BY <2>1, <2>2, <2>3 DEF SharedBefore
 <1> QED  BY <1>3, <1>5, <1>6

(* The search for identities with two owners, by DistributedSnapshot's     *)
(* ring: whatever the lists, their lengths and the chunks are, whatever    *)
(* MPI buffers, and in every order of the ranks' steps, who has gone round *)
(* it knows exactly whether an identity it owns has another owner.         *)
THEOREM RingFindsSharedIdentities == SnapshotSpec => []IdCheckIsExact
 <1>1. SnapshotInit => RingInv /\ WriterInv
   BY RingStarts, WriterStarts
 <1>2. RingInv /\ WriterInv /\ [SnapshotNext]_snapshot => (RingInv /\ WriterInv)'
   BY RingMoves, WriterMoves
 <1>3. RingInv /\ WriterInv => IdCheckIsExact
   BY RingIsExact
 <1> QED  BY <1>1, <1>2, <1>3, PTL DEF SnapshotSpec
=============================================================================
