------------------------------ MODULE TimeStepper ------------------------------
(***************************************************************************)
(* TimeStepper: an iterator over the schedule that can be turned round and *)
(* put back to the place a restart file names.  The object is created      *)
(* with one of the inputs a configuration can give; a table that cannot be *)
(* executed is refused by the constructor and never exists.                *)
(*                                                                         *)
(* A restart file written under one input may be offered to a stepper made *)
(* from another: every (index, scale factor) of the bounded domain is      *)
(* offered to restore_state.                                               *)
(*                                                                         *)
(* A definition marked "fault" is a plausible mistake in the definition    *)
(* that follows it; no action uses it.                                     *)
(***************************************************************************)
EXTENDS StepSchedule, FiniteSets

CONSTANTS Inputs,        \* [start, final, cadence, targets]
          MaxTurns       \* calls of reverse_direction and restore_state

ASSUME StepperAssumption ==
    /\ MaxTurns \in Nat
    /\ \A c \in Inputs :
         /\ c.start \in Int /\ c.final \in Int /\ c.start <= c.final
         /\ c.cadence \in [num : Nat \ {0}, den : Nat \ {0}]
         /\ c.targets \in Seq(Int)
         /\ LegalStops(c.start, c.final, c.targets)

VARIABLES input,       \* what the stepper was made from
          boundaries,  \* boundaries_
          index,       \* current_step_idx_
          current,     \* current_a_
          direction,   \* direction_
          finished,    \* finished_
          returned,    \* what the last call of next_step returned
          turns

stepper == <<input, boundaries, index, current, direction, finished, returned,
             turns>>

NoStep == [from |-> 0, to |-> 0]

TableOf(c) == Boundaries(c.start, c.final, c.cadence, c.targets)

(* The positions restart files can name: of this schedule or of another.   *)
Positions == UNION {{<<i, TableOf(c)[i + 1]>> : i \in 0 .. Len(TableOf(c)) - 1}
                    : c \in Inputs}

StepCount == Len(boundaries) - 1
Boundary(i) == boundaries[i + 1]

StepperInit == /\ input \in {c \in Inputs : Executable(TableOf(c))}
               /\ boundaries = TableOf(input)
               /\ index = 0
               /\ current = input.start
               /\ direction = 1
               /\ finished = (input.start = input.final)
               /\ returned = NoStep
               /\ turns = 0

End == IF direction = 1 THEN StepCount ELSE 0

(* next_step: at the end it says so and returns nothing.                   *)
Exhausted == /\ ~ finished
             /\ index = End
             /\ finished' = TRUE
             /\ returned' = NoStep
             /\ UNCHANGED <<input, boundaries, index, current, direction, turns>>

NextStep == /\ ~ finished
            /\ index # End
            /\ returned' = [from |-> Boundary(index),
                            to |-> Boundary(index + direction)]
            /\ index' = index + direction
            /\ current' = returned'.to
            /\ finished' = (index' = End)
            /\ UNCHANGED <<input, boundaries, direction, turns>>

ReverseDirection == /\ turns < MaxTurns
                    /\ turns' = turns + 1
                    /\ direction' = - direction
                    /\ finished' = FALSE
                    /\ UNCHANGED <<input, boundaries, index, current, returned>>

(* restore_state(step_index, scale_factor): a mismatch throws and leaves   *)
(* the stepper as it was.                                                  *)
Restorable(i, scale) == i <= StepCount /\ scale = Boundary(i)

RestoreState == /\ turns < MaxTurns
                /\ turns' = turns + 1
                /\ \E p \in Positions :
                     /\ Restorable(p[1], p[2])
                     /\ index' = p[1]
                     /\ current' = p[2]
                     /\ finished' = (index' = End)
                /\ UNCHANGED <<input, boundaries, direction, returned>>

StepperNext == NextStep \/ Exhausted \/ ReverseDirection \/ RestoreState

StepperSpec == StepperInit /\ [][StepperNext]_stepper

-----------------------------------------------------------------------------
(* The table runs from the start to the end of the run through every       *)
(* requested output, and no step is longer than the cadence by more than   *)
(* what rounding and an absorbed tail can add.  Whatever is requested is   *)
(* hit exactly: the loop tests for outputs with ==.  The table fits the    *)
(* storage planned for it: a run whose plan was admitted cannot exhaust    *)
(* memory in the constructor.  And the stepper stands on the table,        *)
(* whatever was restored from whichever file, at its end when it says so:  *)
(* no step is skipped, none taken twice.                                   *)
HitsEveryTarget ==
    /\ Head(boundaries) = input.start
    /\ Last(boundaries) = input.final
    /\ \A t \in Range(input.targets) : t \in Range(boundaries)
    /\ \A i \in 1 .. StepCount :
         /\ boundaries[i] < boundaries[i + 1]
         /\ (boundaries[i + 1] - boundaries[i] - 2) * input.cadence.den
              <= input.cadence.num
    /\ Len(boundaries)
         <= Planned(input.start, input.final, input.cadence, input.targets)
    /\ current = Boundary(index) /\ (finished => index = End)
=============================================================================
