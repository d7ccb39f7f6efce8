----------------------------- MODULE SimulationRun -----------------------------
(***************************************************************************)
(* SimulationRunner::run and the life of a simulation around it: a launch  *)
(* (a segment) starts from initial conditions or from a checkpoint of an   *)
(* earlier segment, steps through the schedule with the kick-drift-kick    *)
(* leapfrog, writes a snapshot when the scale factor is exactly a          *)
(* requested one, a checkpoint at a cadence of steps, and a last snapshot  *)
(* at the end.  It may stop anywhere (an exception, a kill, a crash); the  *)
(* operator then resumes from a checkpoint that was published, or starts   *)
(* afresh.  Every segment writes into a run directory of its own.          *)
(*                                                                         *)
(* The ranks of a run take these steps together (CollectiveStage) and move *)
(* the particles among themselves in the force callback (DomainPartition); *)
(* a published file is complete and durable (DurablePublication,           *)
(* RestartCheckpoint), so one step here writes it.                         *)
(*                                                                         *)
(* What happened to the particles is their state: the sequence of kicks    *)
(* and drifts, each with the step it belongs to and a kick with the force  *)
(* it used.  A force is named by the scale factor it was asked for and by  *)
(* the number of drifts of the positions it was computed from.             *)
(*                                                                         *)
(* A definition marked "fault" is a plausible mistake in the definition    *)
(* that follows it; no action uses it.                                     *)
(***************************************************************************)
EXTENDS StepSchedule, FiniteSets

CONSTANTS Configs,       \* what a configuration file can ask for
          MaxSegments    \* launches

ASSUME RunAssumption ==
    /\ MaxSegments \in Nat \ {0}
    /\ \A c \in Configs :
         /\ c.start \in Nat /\ c.final \in Nat /\ c.start <= c.final
         /\ c.cadence \in [num : Nat \ {0}, den : Nat \ {0}]
         /\ c.targets \in Seq(Nat)
         /\ LegalStops(c.start, c.final, c.targets)
         /\ c.restart_cadence \in Nat
         /\ c.solver \in {"pm", "treepm", "distributed_treepm"}
         /\ c.diagnostics \in BOOLEAN
         /\ Executable(Boundaries(c.start, c.final, c.cadence, c.targets))

VARIABLES config,       \* the configuration, the same for every segment
          table,        \* the schedule, which every segment rebuilds
          segment,      \* the current launch; 0 before the first
          parents,      \* parents[s]: the checkpoint segment s came from
          pc,           \* where run() is
          step,         \* current_step_ and the stepper's index
          a,            \* current_a_
          body,         \* what has been done to positions and momenta
          acceleration, \* its validity and the force in the arrays
          prepared,     \* prepared_force_scale_factor_
          potential,    \* latest_force_potential or the pure PM endpoint
          energy,       \* the last Layzer-Irvine sample: where W was taken
          next_snapshot,
          final_written,
          snapshots, checkpoints   \* published, of all segments

run == <<step, a, body, acceleration, prepared, potential, energy,
         next_snapshot, final_written>>
vars == <<config, table, segment, parents, pc, run, snapshots, checkpoints>>

None == [a |-> -1, drifts |-> -1]
NotPrepared == -1
Fresh == [segment |-> 0, step |-> 0, a |-> -1, body |-> <<>>]

NumSteps == Len(table) - 1
At(i) == table[i + 1]
Targets == config.targets

Drifts(b) == Cardinality({i \in DOMAIN b : b[i].kind = "drift"})

(* The force the solver computes when it is asked now.                     *)
ForceAt(scale) == [a |-> scale, drifts |-> Drifts(body)]

Init == /\ config \in Configs
        /\ table = Boundaries(config.start, config.final,
                              config.cadence, config.targets)
        /\ segment = 0
        /\ parents = <<>>
        /\ pc = "idle"
        /\ step = 0
        /\ a = -1
        /\ body = <<>>
        /\ acceleration = [validity |-> "INVALID", force |-> None]
        /\ prepared = NotPrepared
        /\ potential = None
        /\ energy = None
        /\ next_snapshot = 1
        /\ final_written = FALSE
        /\ snapshots = {}
        /\ checkpoints = {}

-----------------------------------------------------------------------------
(* Forces.                                                                 *)

(* trigger_force_solve: the callback computes the force for the positions  *)
(* as they are.  Distributed TreePM also leaves its potential, with the    *)
(* scale factor, for a diagnostic that is to come.                         *)
LeftPotential(scale) ==
    IF config.solver = "distributed_treepm" /\ config.diagnostics
      THEN ForceAt(scale) ELSE None

TriggerForceSolve(scale) ==
    /\ acceleration' = [validity |-> "VALID", force |-> ForceAt(scale)]
    /\ prepared' = scale
    /\ potential' = LeftPotential(scale)

(* ensure_force_at: a valid force for this scale factor is used again, and *)
(* the callback does not run.                                              *)
ForceIsCurrent(scale) ==
    acceleration.validity = "VALID" /\ prepared = scale

EnsureForceAt(scale, kept) ==
    \/ /\ ForceIsCurrent(scale)
       /\ potential' = kept
       /\ UNCHANGED <<acceleration, prepared>>
    \/ /\ ~ ForceIsCurrent(scale)
       /\ TriggerForceSolve(scale)

-----------------------------------------------------------------------------
(* A launch.                                                               *)

Reached(scale) == Cardinality({i \in DOMAIN Targets : Targets[i] <= scale})
BeforeNow(scale) == Cardinality({i \in DOMAIN Targets : Targets[i] < scale})

(* Outputs the resumed state has already passed are not written again.     *)
AtOrAfter(scale) == BeforeNow(scale) + 1                         \* fault
FirstSnapshot(scale) == Reached(scale) + 1

Launch(origin) ==
    /\ pc \in {"idle", "failed", "done"}
    /\ segment < MaxSegments
    /\ segment' = segment + 1
    /\ parents' = Append(parents, origin)
    /\ step' = origin.step
    /\ a' = IF origin = Fresh THEN config.start ELSE origin.a
    /\ body' = origin.body
    /\ acceleration' = [validity |-> "INVALID", force |-> None]
    /\ prepared' = NotPrepared
    /\ potential' = None
    /\ energy' = None
    /\ next_snapshot' = FirstSnapshot(a')
    /\ final_written' = FALSE
    /\ pc' = IF config.diagnostics THEN "sampling" ELSE "loop"
    /\ UNCHANGED <<config, table, snapshots, checkpoints>>

Initialize == Launch(Fresh)
InitializeFromRestart == \E c \in checkpoints : Launch(c)

(* capture_pure_pm_endpoint and evaluate_potential_diagnostic: pure PM     *)
(* reads W from the potential mesh of its last force solve, TreePM walks   *)
(* the tree of its last force solve, and what distributed TreePM left is   *)
(* used when it is for this scale factor.                                  *)
Reusable(left, scale) == left # None /\ left.a = scale

PotentialOf(left, force, scale) ==
    IF config.solver = "distributed_treepm" /\ Reusable(left, scale) THEN left
    ELSE [a |-> scale, drifts |-> force.drifts]

(* Before the loop: the first sample needs a force at the current state.   *)
FirstSample ==
    /\ pc = "sampling"
    /\ EnsureForceAt(a, potential)
    /\ energy' = PotentialOf(potential', acceleration'.force, a)
    /\ pc' = "loop"
    /\ UNCHANGED <<config, table, segment, parents, step, a, body,
                   next_snapshot, final_written, snapshots, checkpoints>>

-----------------------------------------------------------------------------
(* One step of the leapfrog.  The potential of the previous step is        *)
(* dropped first.                                                          *)
BeginStep ==
    /\ pc = "loop"
    /\ step < NumSteps
    /\ EnsureForceAt(At(step), None)
    /\ pc' = "kick"
    /\ UNCHANGED <<config, table, segment, parents, step, a, body, energy,
                   next_snapshot, final_written, snapshots, checkpoints>>

Kick(n) == [kind |-> "kick", step |-> step, half |-> n,
            force |-> acceleration.force]
Drift == [kind |-> "drift", step |-> step, half |-> 0, force |-> None]

Retire == /\ acceleration' = [acceleration EXCEPT !.validity = "STALE"]
          /\ prepared' = NotPrepared

KickDrift ==
    /\ pc = "kick"
    /\ body' = body \o <<Kick(1), Drift>>
    /\ Retire
    /\ pc' = "refresh"
    /\ UNCHANGED <<config, table, segment, parents, step, a, potential, energy,
                   next_snapshot, final_written, snapshots, checkpoints>>

RefreshAtBegin ==                                                \* fault
    /\ pc = "refresh"
    /\ TriggerForceSolve(At(step))
    /\ pc' = "kick2"
    /\ UNCHANGED <<config, table, segment, parents, step, a, body, energy,
                   next_snapshot, final_written, snapshots, checkpoints>>

RefreshForce ==
    /\ pc = "refresh"
    /\ TriggerForceSolve(At(step + 1))
    /\ pc' = "kick2"
    /\ UNCHANGED <<config, table, segment, parents, step, a, body, energy,
                   next_snapshot, final_written, snapshots, checkpoints>>

SecondKick ==
    /\ pc = "kick2"
    /\ body' = Append(body, Kick(2))
    /\ step' = step + 1
    /\ a' = At(step + 1)
    /\ pc' = IF config.diagnostics THEN "sample" ELSE "snapshot"
    /\ UNCHANGED <<config, table, segment, parents, acceleration, prepared,
                   potential, energy, next_snapshot, final_written,
                   snapshots, checkpoints>>

Sample ==
    /\ pc = "sample"
    /\ energy' = PotentialOf(potential, acceleration.force, a)
    /\ pc' = "snapshot"
    /\ UNCHANGED <<config, table, segment, parents, step, a, body, acceleration,
                   prepared, potential, next_snapshot, final_written,
                   snapshots, checkpoints>>

-----------------------------------------------------------------------------
(* Outputs.                                                                *)

Snapshot(n) == [segment |-> segment, index |-> n, a |-> a, body |-> body]

SnapshotIsDue == next_snapshot <= Len(Targets) /\ a = Targets[next_snapshot]

IsFinal == a = config.final

WriteSnapshot ==
    /\ pc = "snapshot"
    /\ SnapshotIsDue
    /\ snapshots' = snapshots \union {Snapshot(next_snapshot)}
    /\ final_written' = (final_written \/ IsFinal)
    /\ next_snapshot' = next_snapshot + 1
    /\ pc' = "checkpoint"
    /\ UNCHANGED <<config, table, segment, parents, step, a, body, acceleration,
                   prepared, potential, energy, checkpoints>>

NoSnapshot == /\ pc = "snapshot"
              /\ ~ SnapshotIsDue
              /\ pc' = "checkpoint"
              /\ UNCHANGED <<config, table, segment, parents, run,
                             snapshots, checkpoints>>

CheckpointIsDue ==
    config.restart_cadence > 0 /\ step % config.restart_cadence = 0

WriteRestart ==
    /\ pc = "checkpoint"
    /\ CheckpointIsDue
    /\ checkpoints' = checkpoints \union
         {[segment |-> segment, step |-> step, a |-> a, body |-> body]}
    /\ pc' = "loop"
    /\ UNCHANGED <<config, table, segment, parents, run, snapshots>>

NoRestart == /\ pc = "checkpoint"
             /\ ~ CheckpointIsDue
             /\ pc' = "loop"
             /\ UNCHANGED <<config, table, segment, parents, run,
                            snapshots, checkpoints>>

(* The end of the loop: the last snapshot unless the loop has written it.  *)
(* A run resumed at the end of its schedule writes it under the index the  *)
(* last requested output has.                                              *)
NextIndex == next_snapshot                                       \* fault
FinalIndex ==
    IF next_snapshot > 1 /\ Targets[next_snapshot - 1] = a
      THEN next_snapshot - 1 ELSE next_snapshot

Finish ==
    /\ pc = "loop"
    /\ step = NumSteps
    /\ snapshots' = IF final_written THEN snapshots
                    ELSE snapshots \union {Snapshot(FinalIndex)}
    /\ pc' = "done"
    /\ UNCHANGED <<config, table, segment, parents, run, checkpoints>>

-----------------------------------------------------------------------------
(* An exception on some rank, a kill, a crash: what is in memory is gone.  *)
Fail == /\ pc \notin {"idle", "failed", "done"}
        /\ pc' = "failed"
        /\ UNCHANGED <<config, table, segment, parents, run,
                       snapshots, checkpoints>>

RunStep == \/ FirstSample \/ BeginStep \/ KickDrift \/ RefreshForce
           \/ SecondKick \/ Sample
           \/ WriteSnapshot \/ NoSnapshot \/ WriteRestart \/ NoRestart \/ Finish

Next == RunStep \/ Initialize \/ InitializeFromRestart \/ Fail

Spec == Init /\ [][Next]_vars

-----------------------------------------------------------------------------
(* The trajectory the schedule defines: kick, drift, kick for every step,  *)
(* each kick with the force at the positions and the scale factor of its   *)
(* end of the step.                                                        *)
StepOf(i) ==
    <<[kind |-> "kick", step |-> i, half |-> 1,
       force |-> [a |-> At(i), drifts |-> i]],
      [kind |-> "drift", step |-> i, half |-> 0, force |-> None],
      [kind |-> "kick", step |-> i, half |-> 2,
       force |-> [a |-> At(i + 1), drifts |-> i + 1]]>>

Trajectory(k) ==
    [n \in 1 .. 3 * k |-> StepOf((n - 1) \div 3)[((n - 1) % 3) + 1]]

(* At every boundary of the loop, however often the run was interrupted    *)
(* and resumed, the particles have gone through exactly the trajectory of  *)
(* an uninterrupted run: no kick is lost, repeated or made with a force of *)
(* other positions or another epoch.                                       *)
TrajectoryIsKDK ==
    pc \in {"sampling", "loop", "sample", "snapshot", "checkpoint", "done"} =>
        body = Trajectory(step) /\ a = At(step)

(* What the ancestors of a segment wrote before the checkpoint it came     *)
(* from, and what it wrote itself.                                         *)
Lineage[s \in 0 .. segment] ==
    IF s = 0 THEN {}
    ELSE {x \in snapshots : x.segment = s}
         \union {x \in Lineage[parents[s].segment] : x.a <= parents[s].a}

(* Publication is exclusive: a second snapshot under the same index in a   *)
(* run directory would end the run.                                        *)
Taken(n) == \E x \in snapshots : x.segment = segment /\ x.index = n

(* A run that is done leaves every requested output, and the final state   *)
(* in its own directory: none fell between a snapshot and a checkpoint.    *)
(* And no output is attempted twice, neither in the loop nor at the end of *)
(* a run that was resumed at its last step.                                *)
EveryOutputOnce ==
    /\ pc = "done" =>
         /\ \A i \in DOMAIN Targets :
              \E x \in Lineage[segment] : x.index = i /\ x.a = Targets[i]
         /\ \E x \in snapshots : x.segment = segment /\ x.a = config.final
    /\ (pc = "snapshot" /\ SnapshotIsDue) => ~ Taken(next_snapshot)
    /\ (pc = "loop" /\ step = NumSteps /\ ~ final_written) => ~ Taken(FinalIndex)

SnapshotsHoldTheirEpoch ==
    \A s \in snapshots :
        /\ \E k \in 0 .. NumSteps : s.a = At(k) /\ s.body = Trajectory(k)
        /\ IF s.index <= Len(Targets) THEN s.a = Targets[s.index]
             ELSE s.a = config.final /\ s.a \notin Range(Targets)

(* A snapshot holds the synchronized state of its own epoch, and its index *)
(* says which output it is: the same index is the same epoch in every run  *)
(* directory.  An energy sample describes the state it is recorded for,    *)
(* although W is taken from a field the force solve left behind.           *)
OutputsHoldTheirEpoch ==
    /\ SnapshotsHoldTheirEpoch
    /\ config.diagnostics /\ pc \in {"snapshot", "checkpoint"} =>
           energy = [a |-> a, drifts |-> step]
=============================================================================
