---------------------------- MODULE MCSimulationRun ----------------------------
(***************************************************************************)
(* Three machines in one bench: a behaviour is the life of a simulation,   *)
(* that of the stepper whose table every launch of it rebuilds, or the     *)
(* making of the initial conditions it starts from.                        *)
(***************************************************************************)
EXTENDS SimulationRun, TimeStepper

CONSTANTS Machines, Requests, Threads, BlockSize

VARIABLES machine,
          request, stage, progress, field, lanes, pass, density, reads,
          invariant, particles, ids, caller

generation == <<request, stage, progress, field, lanes, pass, density, reads,
                invariant, particles, ids, caller>>

G == INSTANCE InitialConditions

ASSUME G!GenerationAssumption

(* Three steps of the cadence, an output off the cadence and one at its    *)
(* last step; an output at the end; no outputs; no checkpoints.            *)
Short(targets, every, solver, diagnostics) ==
    [start |-> 0, final |-> 9, cadence |-> [num |-> 3, den |-> 1],
     targets |-> targets, restart_cadence |-> every,
     solver |-> solver, diagnostics |-> diagnostics]

MCConfigs ==
    {Short(<<5, 9>>, 1, "pm", TRUE),
     Short(<<3, 6>>, 2, "distributed_treepm", TRUE),
     Short(<<>>, 3, "treepm", TRUE),
     Short(<<3>>, 0, "treepm", FALSE),
     [Short(<<>>, 1, "pm", FALSE) EXCEPT !.final = 0]}

(* Cadences below and above one place, whole and fractional; up to two     *)
(* stops besides the end, also next to each other and next to the end.     *)
Cadences == {[num |-> n, den |-> d] : n \in {2, 5, 7, 9}, d \in {1, 2}}

TargetLists(final) ==
    {<<>>} \union {<<t>> : t \in 1 .. final}
           \union {s \in (1 .. final) \X (1 .. final) : s[1] < s[2]}

MCInputs ==
    UNION {[start : {0}, final : {f}, cadence : Cadences,
            targets : TargetLists(f)] : f \in {0, 9, 10}}

(* Both orders, on the mesh of the particles and on finer ones; a selected *)
(* limit; pairs; scratch files; requests no configuration admits; spectra  *)
(* without a value somewhere, also at the largest mode; displacements that *)
(* are not finite at one of their steps; cells without unique edges.       *)
Field(n, mesh, limit, order) ==
    [n |-> n, mesh |-> mesh, limit |-> limit, order |-> order, fixed |-> FALSE,
     reversed |-> FALSE, disk |-> FALSE, defect |-> [at |-> 0, is |-> "proper"],
     breaks |-> {}, folded |-> {}]

MCRequests ==
    {Field(3, 0, 0, 1), Field(4, 0, 0, 2), Field(5, 0, 0, 2), Field(5, 0, 1, 2),
     Field(6, 12, 0, 1), Field(3, 4, 0, 1), Field(5, 5, 0, 2), Field(2, 0, 0, 1),
     [Field(3, 0, 1, 2) EXCEPT !.disk = TRUE, !.folded = {0, 13, 26}],
     [Field(5, 0, 0, 1) EXCEPT !.reversed = TRUE, !.fixed = TRUE]}
      \union {[Field(5, 0, 0, 1) EXCEPT !.defect = [at |-> l, is |-> w]] :
                 l \in {1, 5, 12}, w \in {"throws", "invalid", "amplitude"}}
      \union {[Field(4, 0, 0, 2) EXCEPT !.breaks = {b}, !.disk = TRUE] :
                 b \in {3, 5, 8, 11, 13}}

(* The start of the machine that does not run is one fixed state.          *)
BenchInit ==
    /\ machine \in Machines
    /\ StepperInit
    /\ machine # "stepper" => input = CHOOSE c \in Inputs : c.start = c.final
    /\ Init
    /\ machine # "run" => config = CHOOSE c \in Configs : c.start = c.final
    /\ G!GenerationInit
    /\ machine # "realisation" => request = Field(2, 0, 0, 1)

BenchNext ==
    /\ UNCHANGED machine
    /\ \/ machine = "stepper" /\ StepperNext /\ UNCHANGED <<vars, generation>>
       \/ machine = "run" /\ Next /\ UNCHANGED <<stepper, generation>>
       \/ machine = "realisation" /\ G!GenerationNext /\ UNCHANGED <<stepper, vars>>

BenchSpec == BenchInit /\ [][BenchNext]_<<machine, stepper, vars, generation>>

(* What InitialConditions states of the realisation.                       *)
FieldIsOfItsSeed == machine = "realisation" => G!FieldIsOfItsSeed
RealisationIsWhole == machine = "realisation" => G!RealisationIsWhole
=============================================================================
