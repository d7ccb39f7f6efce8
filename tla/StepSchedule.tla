----------------------------- MODULE StepSchedule -----------------------------
(***************************************************************************)
(* The table of scale factors a run steps through.  TimeStepper's          *)
(* constructor builds it before anything moves: from one requested stop to *)
(* the next it places boundaries at a fixed logarithmic cadence counted    *)
(* from the segment's anchor, and ends the segment on the stop exactly.    *)
(*                                                                         *)
(* A representable number is an integer here (the place of the number      *)
(* among the representable ones), so "no representable number in between"  *)
(* is what it is in the code, and the cadence is a fraction num/den of     *)
(* such places: a boundary is rounded to the nearest one.  On this scale   *)
(* the logarithmic cadence is a fixed distance.                            *)
(*                                                                         *)
(* A definition marked "fault" is a plausible mistake in the definition    *)
(* that follows it; nothing uses it.                                       *)
(***************************************************************************)
EXTENDS Integers, Sequences, SequencesExt, FiniteSetsExt

(* advance_logarithmically: the k-th cadence boundary after an anchor.     *)
Advance(anchor, k, cadence) ==
    anchor + (2 * k * cadence.num + cadence.den) \div (2 * cadence.den)

(* stable_geometric_mean: a step needs two kick intervals that are not     *)
(* empty, hence a number strictly between its ends.                        *)
HasMidpoint(lower, upper) == upper - lower >= 2

NearestCeiling(anchor, stop, cadence) ==                         \* fault
    Max({1, (2 * (stop - anchor) * cadence.den + cadence.num)
              \div (2 * cadence.num)})

(* conservative_step_count_real: the ceiling of a ratio biased upwards, so *)
(* that an exact ratio counts one candidate more than it needs.            *)
StepCeiling(anchor, stop, cadence) ==
    ((stop - anchor) * cadence.den) \div cadence.num + 1

(* A cadence boundary stands unless it reaches the stop or is so close     *)
(* below it that the rest of the segment would have no midpoint.           *)
Stands(next, stop) == next < stop /\ HasMidpoint(next, stop)

(* The boundaries of one segment: those that stand, then the stop.         *)
Segment(anchor, stop, cadence) ==
    LET count == StepCeiling(anchor, stop, cadence)
        ends == {k \in 1 .. count - 1 :
                    ~ Stands(Advance(anchor, k, cadence), stop)}
        last == Min(ends \union {count})
    IN  [k \in 1 .. last |-> IF k < last THEN Advance(anchor, k, cadence)
                                         ELSE stop]

(* normalized_stops: the end of the run is the last stop.                  *)
LegalStops(start, final, targets) ==
    /\ \A i \in DOMAIN targets : targets[i] > start /\ targets[i] <= final
    /\ \A i, j \in DOMAIN targets : i < j => targets[i] < targets[j]

Stops(final, targets) ==
    IF targets # <<>> /\ Last(targets) = final THEN targets
                                               ELSE Append(targets, final)

(* The segments one after the other, each from the last boundary so far.   *)
Boundaries(start, final, cadence, targets) ==
    IF start = final THEN <<start>>
    ELSE LET stops == Stops(final, targets)
             placed[m \in 0 .. Len(stops)] ==
                 IF m = 0 THEN <<start>>
                 ELSE LET before == placed[m - 1]
                      IN  before \o Segment(Last(before), stops[m], cadence)
         IN  placed[Len(stops)]

(* planned_boundary_count: the storage reserved for the table.             *)
Planned(start, final, cadence, targets) ==
    IF start = final THEN 1
    ELSE LET stops == <<start>> \o Stops(final, targets)
             total[m \in 0 .. Len(stops) - 1] ==
                 IF m = 0 THEN 1
                 ELSE total[m - 1] + StepCeiling(stops[m], stops[m + 1], cadence)
         IN  total[Len(stops) - 1]

(* append_executable_boundary: what the constructor does not throw on.     *)
Executable(places) ==
    \A i \in 1 .. Len(places) - 1 : HasMidpoint(places[i], places[i + 1])
=============================================================================
