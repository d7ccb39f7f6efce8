# HYOWON: a verification project

HYOWON is a cosmological N-body code: it creates or reads particles, steps them
with a leapfrog whose forces come from a particle mesh or a tree and a mesh,
writes snapshots and restart checkpoints, and finds and measures halos in them.
It runs as one process or as an MPI job with threads in each rank. This directory
holds TLA+ models of the parts of it whose correctness is discrete: the order of
processes, messages, threads, crashes and calls, and the algorithms that have an
exact answer. TLC checks them on small instances, TLAPS proves theorems about eight
of them for instances of any size.

`PROJECT.json` is the index: components, runs, the source lines each definition
stands for, the mutants that show each property can fail, hazards, findings and
theorems. Paths below are relative to `src/` (so `src/io/x.cpp` is the file
`src/src/io/x.cpp` from the top of the tree). `hpp` headers live under
`include/cosmo_nbody/`.

## 1. Inventory

What each part keeps, what it offers, whom it talks to, and what would make it
wrong. M = modelled, P = partly, - = not (section 8 says what is missing and why).

| part | state | operations | talks to | correct when |
|---|---|---|---|---|
| M collective stages (`runtime/mpi_collective_stage`) | none between calls | run local work, reduce "failed", return or rethrow | every collective operation of the program is a sequence of these | all ranks leave with one outcome; nobody is ahead of a failed stage |
| M durable publication (`io/durable_*_publication`) | stage file, its identity, visible/committed flags | construct, write, publish_nonempty, discard, destructor | file system; all products | a name leads to nothing, or to a whole object; a commit survives power loss |
| M distributed snapshot (`io/parallel_snapshot_*`) | stage of the file at rank 0, batches in flight | write_snapshot | identity ring, collective stages, durable file | a visible snapshot holds every particle; a storage error strands nobody |
| M global identities (`domain/mpi_global_id_check`) | cursors while a list streams by; one bucket per rank | unique, capture, preserved | snapshot, initial conditions, ingest | finds exactly the identities with two owners, and exactly the changes of a population |
| M distributed snapshot ingest (`ic/distributed_snapshot_ingest`, `io/verified_snapshot_source`) | opened file and its digest, counts per owner, candidate particles | load, admit provenance | identities, partition, serial readers | a run holds the one sound file whose digest it records, or nothing |
| M bounded exchange (`domain/bounded_migration`) | requests in flight, receive buffer | exchange particles, exchange ghosts | partition, ghosts, ingest | each record arrives once, in its place; no rank waits for a round nobody sends |
| M time stepping schedule (`time/time_stepper`) | table of boundaries, position, direction | next_step, reverse, restore | runner, restart | stands exactly on every requested output |
| P restart checkpoints (`io/restart_checkpoint_io`, `io/restart_io`) | a directory of shards and a manifest | write / read on all ranks | collective stages, durable files, runner | a manifest proves a whole checkpoint; no mixture is ever resumed |
| P domain partition and ghosts (`domain/domain_decomposition`, `domain/ghost_exchange`, `mesh/mpi_slab_layout`) | the particle stores of all ranks, "canonical" flag | partition_domain (3 paths), ghost exchange | exchange, force solvers, runner | same result on every path; ghosts exactly the particles in reach; derived values retired |
| P runner and leapfrog (`runtime/simulation_runner*`, `time/leapfrog_integrator`) | step, scale factor, force validity, next output | initialize (fresh/restart), run | all of the above | an interrupted run is the uninterrupted one |
| P launch and run directory (`app/hyowon_entry`, `app/hyowon`, `io/run_artifact_layout`) | the configuration each process read, run directory, metadata record | main, preflight, program, provenance | MPI, file system | one program or none; the record tells the truth; every process ends |
| P runtime context and host threads (`runtime/runtime_context`, `thread_policy`, `mpi_execution_identity`) | process-wide lease: MPI, its error handler, OpenMP settings | construct, share, release | launch, everything on ranks | MPI started and ended once; what the program around had is put back |
| P particle-mesh solvers (`gravity/*pm_solver*`) | density, spectrum, potential in shared buffers | compute_forces, energies | partition, mesh, FFT | a valid force has every term; an energy is of the last solve |
| P tree and TreePM (`gravity/octree`, `tree_walk`, `treepm_solver`) | tree, workers' failure flag | build, walk, compute_forces | PM solver, ghosts | every source in reach counts once; a failed worker's forces are not published |
| P FFT registry (`mesh/mpi_fft_layout_registry`) | cached layouts | entry, publish, erase | PM solver | all ranks query or all use their cache |
| P mesh (`mesh/mass_assignment*`) | thread bins, sorted order, lent memory | deposit | PM solver, analysis | the sum a single thread would make |
| P initial conditions (`ic/*`) | spectra in shared storage, evidence | generate | FFT, identities | depends on the seed alone; all or nothing |
| P halo finding (`halo/*`) | cell index, disjoint sets, peaks | link, deblend, overdensity | analysis | what the definitions say, whatever the cells and orders |
| P analysis, analysis programs (`analysis/*`, `app/nbody_analyze*`) | products in a staged directory, member buffers | run a pipeline, publish | snapshots, halo finding, publication | a published directory is complete and of one snapshot |
| P serial snapshots, descriptor and metadata (`io/snapshot_*`, `io/metadata`) | one file, one record | ranged read, validate | ingest, analysis | ranges cover the file once; header, record and configuration agree |
| P exact sums (`math/exact_*`, `math/deterministic_*`) | limbs, carry | add, merge, reduce, round | masses, energies, launch evidence | the nearest number to the exact sum, on every rank |
| - particle store, restart shard file, cosmology and configuration, validation, scratch and output files, build and examples | - | - | - | section 8 |

How they interact. `hyowon_entry.cpp` starts the processes and compares what they
were given; `hyowon.cpp` creates the run directory and a `SimulationRunner` inside a
`RuntimeContext`; the runner generates or ingests the particles, walks a
`TimeStepper`'s table, asks a force solver for accelerations (which partitions the
particles and exchanges ghosts first), kicks and drifts, and hands its state to a
snapshot writer and a checkpoint writer, both of which end in a durable publication.
`hyowon_analyze` reads a snapshot back, finds halos and publishes a directory.
Everything that involves several ranks is a sequence of synchronized stages, except
where ranks run unsynchronized for efficiency: the rounds of the bounded exchange,
the identity ring and buckets, the planes neighbouring slabs exchange, and the
batches of a snapshot. There is no shared memory between ranks; threads inside a
rank are fork-join.

What is hard here, and which property looks at it:

- one rank fails while its peers succeed, anywhere (`NoRunAhead`, `BlameIsTrue`,
  `ImplementsAgreedOutcome`, `EverybodyLeaves`, `EveryProcessEnds`, `CollectivesMeet`);
- crash and power failure between any two steps of a publication or of a
  checkpoint made of many files (`NoTornFile`, `CommittedIsDurable`,
  `ProofsMeanWhole`, `ResumedIsWhole`, `PublishedIsFinal`);
- several processes under one name, or writing a file that is being read
  (`NameIsKept`, `FailedLeavesNothing`, `IngestedIsSound`);
- messages of different rounds with one tag (`ReturnsEveryRecord`, `IdCheckIsExact`),
  blocking sends that MPI need not buffer (`EverybodyLeaves`, `EveryWriterLeaves`);
- values that are valid until somebody moves the particles or reuses a buffer
  (`PartitionIsCanonical`, `TrajectoryIsKDK`, `OutputsHoldTheirEpoch`,
  `EnergyIsOfItsSolve`, `RealisationIsWhole`);
- threads that fail or reorder terms (`ValidForceIsComplete`, `DepositIsSerial`,
  `SumsAreNearest`, `FieldIsOfItsSeed`, `PublishedProductsAgree`);
- a context that outlives another, or the program around it (`LeasesAreWhole`);
- boundaries: an output next to a cadence boundary, a slab without particles, a
  run resumed at its last step, a source outside its cell, a particle on a cell's
  face (`HitsEveryTarget`, `GhostsAreExact`, `EveryOutputOnce`, `EverySourceOnce`,
  `MembershipsAreComponents`, `HostsFollowTheDensity`, `SpheresAreExact`).

The full list, with lines, is "hazards" in `PROJECT.json`.

## 2. Modules

    AgreedOutcome          one decision every rank learns            (abstract)
      ^ refined by
    CollectiveStage        N stages of work, reduction, leave/throw
      : a stage is one agreed step in
      RestartCheckpoint, DistributedSnapshot, SnapshotIngest, BoundedMigration,
      DomainPartition, ForcePipeline, RunLaunch, SimulationRun
    RuntimeLease           contexts of a process, MPI, threads
    DurablePublication     publishers, readers, kills, power
      : a published file is whole, visible before durable, in
      RestartCheckpoint, DistributedSnapshot, SimulationRun, AnalysisRun
    BoundedMigration       rounds of nonblocking messages
      : an exchange delivers each record once, in
    DomainPartition  ->  SlabGeometry   (EXTENDS)
      : particles in place with their ghosts, in
    ForcePipeline    (force of one solve)
      : one force evaluation, in
    SimulationRun    ->  StepSchedule   (EXTENDS)
    TimeStepper      ->  StepSchedule
    MassAssignment         the threaded deposit;  TreeWalk -> PeriodicBox
    ExactReduction   ->  ExactLimbs;       InitialConditions -> RandomField
    IdBuckets              hashed comparison of identities
    SnapshotIngest   ->  SnapshotProvenance
                           a file another program may write, to particles
    HaloFinding      ->  FriendsOfFriends, DensityPeaks, SphericalOverdensity,
                         PairLinks -> NeighborIndex, PeriodicBox, Answers
    AnalysisRun      ->  MembershipTable
    RunLaunch              processes from main to exit

The composition is by abstraction: a module lower in the list takes as ONE step
what a module above it shows to behave as one. The refinement
`CollectiveStage => AgreedOutcome` is checked and proved. The other steps are
arguments from checked properties, not a mechanised refinement: `NoTornFile`,
`CommittedIsDurable` and `NameIsKept` are what the users of a publication assume;
`ReturnsEveryRecord` is what `DomainPartition!Exchange` assumes; `ValidForceIsComplete`
is what `SimulationRun` assumes of a force. Modules do not assume an agreed outcome
where a stage has side effects on files or messages: there they model work, vote and
departure of every rank one by one.

A run of TLC is a bench: `MCStagedExchange`, `MCDistributedSnapshot`, `MCForcePipeline`,
`MCSimulationRun` and `MCParticles` put several machines side by side that share
nothing. A behaviour of a bench chooses one machine at the start and is a behaviour of
that module's specification; the variables of the others stay as they are. A bench
EXTENDS the modules whose names do not clash (`MCStagedExchange`: `CollectiveStage`,
`BoundedMigration` and `RuntimeLease`; `MCSimulationRun`: `SimulationRun` and
`TimeStepper`), so that a run and a theorem speak of the same definition, and takes the
others as instances. The
benches also give the data of the instance. The other runs take their module
directly. `*_proofs` modules hold theorems and nothing else. A definition marked
`\* fault` is a plausible mistake in the definition after it. Nothing uses it; it
documents what the neighbouring property guards against.

### How state and actions correspond to the code

**CollectiveStage** (`mpi_collective_stage.cpp`). `pc[r]`/`stage[r]` is where rank
r is in the operation; `contrib[k][r]` is what it put into the reduction of stage
k; `error[r]` is which exception it leaves with. `Work` is the try-block around
the stage's callable, `Proceed` and `Throw` are the code after `MPI_Allreduce`
(enabled when every rank has contributed), `TransportFailure` is `MPI_Abort`.

**DurablePublication**. One variable per thing the file system knows: `entry`
(what the name leads to), `durable` (what it may lead to if power fails now),
`data`/`flushed`/`stage` for each publisher's object, `closeErr` for the HDF5
close-integrity epoch. One action per call: constructor, the caller's writing,
`SyncStage` and `Preflight` and `Rename*` and `Commit` for the four parts of
`publish_nonempty`, `Discard` for the destructor. They are separate because a
kill, a power failure or another publisher can come between them.

**RestartCheckpoint**. `shard[c][r]` and `manifest[c]` are what a pathname leads
to, `unsynced` the names whose directory entry is not durable. `WriteStages` and
`ReadStages` are the stages of the collective writer and reader in the order of
the source. A shard is `<<checkpoint, rank>>`: SHA-256 is taken to tell any two
apart. The environment kills, cuts power and copies files between checkpoints.

**DistributedSnapshot**. `wire[s][d]` are messages sent and not yet matched,
`want`/`got` a rank's posted receive and what it brought. `ring[r]` holds
the cursors of `require_sorted_mpi_ids_unique`, `turn[r]` the batch loop,
`failed`/`mismatch` the two errors rank 0 remembers while it drains.
A particle is `<<owner, place>>`, so that "the right particle in the right row"
is an equality.

**BoundedMigration**. `exchange[r]`, `place[r]` and `round[r]` are where a rank is;
`posted[d][s]` and `sent[s][d]` are MPI's queues of a pair; `Match` is MPI. `PostReceives`, `PostSends` and `Wait*` are the three parts of a
round. Records carry exchange, source and place, so a misdelivered one is seen.

**DomainPartition**. `held`, `uniform`, `accel`, `ghosts`, `ghostState` are the
store of each rank; `truth` is what the particles are, whoever holds them. Each
path of `partition_domain` is its sequence of stages (`Retain`; `Release`,
`ExchangeSparse`, `MergeSparse`; `ExchangeAll`, `Rebuild`), each of which may fail
with the damage the code leaves (`MergeFails`, `PublishGhostsFails`,
`StageFails`). The in-place merge is a loop with the code's two cursors.

**StepSchedule / TimeStepper**. A binary64 number is its place among the
representable numbers, so "there is no number in between" means what it means in
the code, and a logarithmic cadence is a fixed distance `num/den` of places that
is rounded to the nearest one. `Boundaries` is the constructor's table;
`NextStep`, `Exhausted`, the reversal and both `restore_state` are the actions.

**SimulationRun**. `body` is the sequence of kicks and drifts the particles have
gone through, each kick with the force it used, so that "the same trajectory" is
an equality; `acceleration`, `prepared` and `potential` are the leapfrog's and the
runner's caches. `Launch` is `initialize` or `initialize_from_restart`, `Fail` is
anything that ends a process, in front of any step.

**RunLaunch**. `line[r]` and `file` are what a process is given, `first[r]` and
`config[r]` what it read the first and the second time; `Stages` are the
synchronized points from the entry's preflight to the provenance, in the order
of the source; `owner` and `metadata` are the run directories.

**RuntimeLease** (`runtime_context.cpp`). `lease[r]` is the shared `State`, `contexts[r]`
who holds it; `mpi`, `handler`, `openmp` are what the process has of them. `Share`,
`Attach`, `FormTeam`, `Compare`, `Gather`, `Started` are the constructor up to the
agreed start, `Destroy`/`Release` the destructor, `HostFinalizes` the program
around the library. `told[k]` are the collectives of call k: a rank goes on from one
when all have told something.

**IdBuckets** (`mpi_global_id_check.cpp`). `place[r]` is the pass, the collective and
the point in it; `channel` the messages of the ring's rounds, `bucket` what arrived,
`before` the captured set. `LayOut`, `Post`/`Match`/`Account`, `Judge`, `Compare` are
the parts of `capture` and `preserved`.

**SnapshotIngest** (`distributed_snapshot_ingest.cpp`, `verified_snapshot_source.cpp`,
`snapshot_ic.cpp`). `path` and `content` are the file system, changed by `Overwrite`
and `Rename` at any time; `source`, `descriptor`, `census`, `batch`, `candidate` are
what the call has read so far; `verified` and `particles` what it hands over. The
serial loader, re-admission at a restart and the analysis reader are the other kinds
of `load`, with the parts they share.

**SnapshotProvenance** (`snapshot_descriptor.cpp`, `metadata.cpp`,
`simulation_parameters.cpp`, `snapshot_io_write_impl.inc`). What a content says of the
origin of its particles, without states: `Generated`, `Inherited` and `Unverified` are the
three outcomes of `RunMetadata::from_config`, `Json` and `Snapshot` what a writer makes of
them, `ReadsAsProvenance` and `ReadsAsDescriptor` what a reader believes, `HasOrigin` what a
run that starts from it demands besides. `IngestedIsSound` uses both sides: the record a
run takes from its source must let the run's own snapshots start a run again, and tell the
same origin (`ProvenanceSurvives`). `GenerationsReadBack`, an assumption TLC evaluates in
the run `snapshot`, says so of every generator and lattice up to six particles a side.

**ForcePipeline** (`leapfrog_integrator.cpp`, `distributed_pm_solver.cpp`,
`treepm_solver.cpp`, `mpi_fft_layout_registry.cpp`, `potential_halo*`). Each rank has the
list `todo` of the steps left of its call; `waiting` says that it is inside the
collective of the step in front, `Catcher` which try-block a failure unwinds to.
Collectives match by order alone, so `CollectivesMeet` is a statement about two
ranks' positions in two lists. A buffer's content says what field it is, of which
solve; transforms destroy their input. `chunk` and `place` are the threads of the
short-range walk.

**MassAssignment** (`mass_assignment*.inc`). `CountShare`,
`ThreadRanges`, `PrefixSums`, `ScatterOne` are the sort with its barriers;
`DepositPlane` a worker's next plane. A plane is the sequence of its terms.

**TreeWalk** (`octree.cpp`, `tree_walk.cpp`). The tree is built cell by cell with
rounded centres; `Prune`, `TakeLeaf`, `TakeMultipole`, `Open` are the four things a walk
does with the node on top of its stack.

**ExactLimbs / ExactReduction** (`math/exact_*`). Limbs of `Width` bits with the code's
carries and borrows and its one rounding at the end; the reduction shares terms among
workers, workers' sums among ranks, and broadcasts one result or one refusal.

**RandomField / InitialConditions** (`ic/*`). `DrawSlab` and `CountLane` are the loops of the
team, each step of `Passes` one transform of the displacements; `density` says which
spectrum the shared storage holds when a pass reads it. `Publish` hands over.

**HaloFinding** and its parts (`halo/*`). A behaviour draws a call and takes its answer
step by step: a particle of the friends-of-friends walk, a pass of the deblender,
a query of the overdensity. `MembershipsAreComponents`, `LinksAreOrderFree`,
`HostsFollowTheDensity` and `SpheresAreExact` compare the answer with definitions
that know nothing of cells, trees, radii of queries or orders of visiting.

**AnalysisRun / MembershipTable** (`app/nbody_analyze*`, `analysis/*`). `at` is the stage of
`run_pipeline`, `loop` and `results` a `parallel_for_indices` with its failure flag,
`tables` the buffered membership catalogue; `products` are the files, each with
what it was computed from.

## 3. What the runs check

Twelve runs. Eight pass; four are expected to find a violation, one for each
disagreement between the code and what it says of itself (section 6).

| run | asks | properties |
|---|---|---|
| `publication` | what can be found under a name four publishers contend for, with kills and a power failure? | `NoTornFile`, `CommittedIsDurable`, `FailedLeavesNothing`, `NameIsKept` |
| `checkpoint` | what do a manifest, a return and a resumption prove? | `ProofsMeanWhole`, `ResumedIsWhole`, `PublishedIsFinal` |
| `snapshot` | is a visible snapshot whole, are identity checks exact, is an ingested file sound, does everybody leave when storage fails? | `PublishedHoldsEveryParticle`, `IdCheckIsExact`, `IngestedIsSound`, `EveryWriterLeaves` |
| `exchange` | do the ranks of an operation leave with one outcome, do unsynchronized rounds deliver every record, are shared contexts sound? | `NoRunAhead`, `BlameIsTrue`, `ImplementsAgreedOutcome`, `ReturnsEveryRecord`, `EverybodyLeaves`, `LeasesAreWhole` |
| `force` | do collectives meet through failures and retries, is a published force whole, is every energy, deposit, walk and sum what it claims? | `CollectivesMeet`, `ValidForceIsComplete`, `EnergyIsOfItsSolve`, `DepositIsSerial`, `EverySourceOnce`, `SumsAreNearest` |
| `run` | is an interrupted and resumed run the uninterrupted one, is every output hit, is a realisation that of its seed? | `TrajectoryIsKDK`, `OutputsHoldTheirEpoch`, `EveryOutputOnce`, `HitsEveryTarget`, `FieldIsOfItsSeed`, `RealisationIsWhole` |
| `launch` | one program or none, a truthful record, no process left behind? | `OneProgram`, `CompleteMeansEveryRankRan`, `EveryProcessEnds` |
| `particles` | do the three paths of a partition agree, are ghosts and halos what their definitions say, is a published analysis of one snapshot and complete? | `PartitionIsCanonical`, `GhostsAreExact`, `NothingLostOnTheWay`, `MembershipsAreComponents`, `LinksAreOrderFree`, `HostsFollowTheDensity`, `SpheresAreExact`, `PublishedProductsAgree` |
| `publication_late_error` | a rename that is reported as an error although it happened | `FailedLeavesNothing` is violated |
| `checkpoint_durable` | are the shards durable before the manifest is published? | `ShardsDurableBeforeManifest` is violated |
| `force_local` | a failure in the rank-local work of the force callback that no stage synchronizes | `CollectivesMeet` is violated |
| `launch_serial` | a configuration that loses MPI between its two readings | `NobodyRunsAlone` is violated |

Every property of a passing run has a mutant in `PROJECT.json`: a plausible bug in
one mapped definition under which TLC finds that property violated.

### Bounds, and why they are enough

- **stages** (of `exchange`): 3 ranks, 3 stages. The interesting case needs one rank a
  stage ahead, one behind, and one that failed; the theorems cover the rest.
- **rounds** (of `exchange`): 3 ranks, 2 exchanges, 2 records per message, lists of 0 to 5
  records: edges with 0, 1, 2 and 3 rounds side by side.
- **leases** (of `exchange`): jobs of 1 to 3 ranks, two contexts at a time, up to four calls,
  masks that coincide, are disjoint, or hold one processor, ranks that fail to start.
  Two contexts are the first, the last and the one in between.
- **publication**: two replacing writers, one create-only writer, one directory
  publisher: every pair of policies contends, also two of the same kind; the two
  replacing writers are symmetric (no liveness is checked). One power failure:
  what follows it starts from an ordinary state; theorems allow any number.
- **checkpoint**: 2 ranks, 2 checkpoints (so that there is another one to mix
  with), a reader with the same or one rank fewer, one killed process, and one
  disturbance, either a power failure or a file copied between checkpoints. A
  second disturbance would let the user copy a shard AND its manifest, which is
  simply the other checkpoint. Theorems allow any number of all of them.
- **writing a snapshot** (of `snapshot`): 3 ranks, so that the ring has a rank that is
  neither neighbour and rank 0 has two sources to drain; chunks of 2 and lists of 0 to 3
  identities, so that lists end in, before and after a chunk; batches of one to three
  particles with a tighter MPI limit in one case; one unreported storage error. The
  worlds are one per reason to refuse plus those without one.
- **comparing identities** (of `snapshot`): 3 ranks, chunks of 2, two hash functions, one of
  which sends everything to one rank.
- **ingesting** (of `snapshot`): a file of 27 particles (the smallest cube that has a mode
  to generate from) read 9 at a time;
  another program writes once, in place or by renaming: another sound file, one with
  a particle elsewhere, or one with an identity twice. The first content is one of four
  sound ones (one mass or a list, the support of the modes left open or asked for,
  generated or inherited) or of twenty-four that have one thing wrong each. A
  file changed in place and changed back between two digests is not seen by the
  code, which compares digests, and needs two writes.
- **force solves** (of `force`): 1 to 3 ranks on 3 planes (one, or none, per rank), 2 threads,
  two failures anywhere, in solve - measure - solve: a failure, a retry that fails, and a
  success after it.
- **deposits**: up to 9 particles on 3 planes with up to 3 threads, wide and narrow
  orders, lent and kept memory, one failing worker; two calls in a row with one workspace.
- **trees**: a box of side 14 in which centres are rounded, 5 or 6 sources on one or two
  axes, cutoffs 4, 5, 6 and none, opening angles 0 to 3.
- **sums**: words of 4 bits, significands of 3 digits, exponents with a subnormal end, up
  to 3 ranks (6 for sums of words) and 2 workers: every carry, borrow, tie and
  overflow of the code's 64-bit limbs has its small counterpart.
- **run**: five configurations (outputs on and off the cadence, at the last step,
  none; three solvers; with and without diagnostics; checkpoints every step, every
  second or third, never; a run without steps) and three launches, each of which
  may stop before any step: a resumption of a resumption is included.
- **stepper** (of `run`): 9 or 10 places, cadences of 1 to 9 places in halves, every choice of
  up to two outputs (also adjacent, and adjacent to the end), two turns; a restart
  file may come from any of these schedules.
- **realisation** (of `run`): 2 to 6 particles per axis, meshes up to 12, 2 threads; fields with
  a defect on one shell; displacements that break in different passes.
- **launch**: 3 processes with any command lines of four kinds, a configuration
  that may be edited once between any two reads, two names for the run directory
  of which another launch may take the preferred one. The contents offered keep
  MPI enabled; what happens otherwise is run `launch_serial`.
- **partition** (of `particles`): 5 planes on 4 ranks (uneven: one slab has two planes), box of
  10 points, search radius of half a plane, moves of -3, 0, +4 points (none, one and
  two slabs, both directions, around the box), 3 particles, five starts: equal
  masses, mixed masses, masses that disagree, already in place, one rank.
- **halos** (of `particles`): 2 to 9 particles on a line or in a plane, placed on faces of
  cells, at equal distances, across the boundary of the box.
- **analysis** (of `particles`): 7 particles in 3 candidates, 2 threads, batches of 2 shapes,
  buffers of 2 rows and 3 members (one membership is larger), one failing operation.

`CHECK_DEADLOCK FALSE` appears once, in `run`: `TimeStepper` is an iterator that nobody
has to call again once its turns are used up, and `SimulationRun` ends when all
launches are used up. Everywhere else a final stuttering action is enabled exactly
when all processes have ended, so a deadlock is a real one.

### Fairness

Weak fairness per process (`WF` of the rank's own steps) in `CollectiveStage`,
`BoundedMigration`, `DistributedSnapshot` and `RunLaunch`: an operating system
schedules every process, and nothing in the code needs more than that, because a
step of a rank, once enabled, is not disabled by the others except by ending the
job. Weak fairness of `Match`: MPI guarantees progress of a matched pair. There is
deliberately NO fairness on the actions in which MPI buffers a send
(`WaitBuffered`, `Buffered`): MPI may buffer, the code must not rely on it.
There is none on failures, kills or edits either. `EverybodyLeaves` and
`EveryWriterLeaves` therefore hold for an MPI in which every send is synchronous.

## 4. What is proved

TLAPS (SMT, Zenon, LS4) checks the theorems listed in `PROJECT.json` for every value
of the constants that satisfies the named assumptions of the modules.

**StagedExchange_proofs**. *The stages* (`StageAssumption`: some ranks, at least one stage). Any
communicator, any number of stages. That no rank returned while another threw
(`RanksAgree`) is not inductive: it follows from which stage each is in. The invariant is
`TypeOK /\ NoRunAhead /\ NotYetEntered /\ ThrewForCause /\ ErrorOnlyOutside /\ BlameIsTrue`.
`NotYetEntered` (nothing is contributed to a reduction ahead of time) and
`NoRunAhead` together pin a failed rank to the stage it failed in, which is the
lemma `FailedStaysInStage` everything else rests on. From it: `StagesInOrder`,
`RanksAgree`, `BlameCorrect`, `TypeCorrect`, and by case distinction on the actions
`StagesImplementOutcome`, the refinement of `AgreedOutcome`.

*The rounds* (`MigrationAssumption`). Any number of ranks, exchanges and
rounds, any routing. Nobody synchronizes the rounds, so the invariant looks at one ordered
pair of ranks and the exchange both have reached: `SentBy` and `PostedBy` say how many
blocks of it each has put into its queue, as a function of where the rank is; for
one number m the blocks before m are in place and the two queues hold exactly the
blocks from m on. `NobodyLeftBehind` is why two are enough: the vote keeps the ranks within
one exchange of each other, and a rank leaves when its own blocks have arrived.
`OwnInPlace`, `ReceivesAwaited` and `BufferSized` complete it. The arithmetic is in
three lemmas: the rounds cover a list (`RoundsCover`), no rank stops before its
longest list is through (`RoundsSuffice`), each block lies inside the buffer and
beside the others (`RoomForAll`). From it: `RoundsReturnEveryRecord`.

*The contexts* (`LeaseAssumption`: ranks are numbered from 0, a rank has a mask of
processors and a limit of at least one thread). Any job on any nodes, any settings, any
number of calls, and any rank may fail to start in any of them. Beside the types, `LeasesInv` has three
parts.
`RankIsWhole` is what a rank is by itself: what it holds, what it changed in the process,
and what it gives back. `ToldInTime` is what it has told its peers, as a function of where
it is. `OnePast` is needed because calls need not be collective: sharing a context or
dropping one that is not the last synchronizes nobody, so ranks may be any number of
calls apart, and only a start, an agreement or `MPI_Finalize` brings them together.
It says that there is ONE past: a view (lease, setting, contexts, MPI, answer)
after each call that some rank has made, each following from the one before by the call
alone (`After`), with every rank at the view of its own calls. Where a view rests on a
verdict of all ranks the verdict is `Settled`: everyone has told its part of that call
and tells no more. (A job of one rank has nobody to agree with.) A step then owes at most the next view (`Owes`). `PartsFit` is the
arithmetic of the teams of a node. From it: `LeasesInvariant` and `LeasesHold`.

**DurablePublication_proofs** (`PublisherAssumption`: sets of publishers as declared).
Any publishers, any number of power failures, and except for the last theorem also
for `LateErrors = TRUE`. The invariant adds three facts to the properties:
`FlushedIsFull` (what was flushed had been closed without error),
`DurableIsFlushed` (a name can lead only to flushed objects) and
`VisibleOrReplaced` (a visible object is there, or a complete one took its place).
From it: `ReadersSeeWholeFiles`, `CommitIsDurable`, `TypeCorrect`, and the action
properties `CreateOnly`, `NameNeverLost` and their union `NameKept`. `FailureIsQuiet`
needs `LateErrors = FALSE` (finding 3 is what happens without it) and the further
invariant `OnlyMovedIsNamed`: the name leads to a publisher's object only after that
publisher's own rename.

**RunLaunch_proofs** (`LaunchAssumption`, and the explicit hypothesis `MpiStays`:
no content of the configuration file disables MPI). Any number of processes and
names, any number of edits. The difficulty is the second reading: between the
entry's last vote and the program's first one nobody waits, so ranks may be two
stages apart there (`Barriers`). What a rank compared when it voted becomes a fact
about all ranks when one leaves the stage, and stays one because nobody can change
it any more: `LinesAgree`, `ModeAgrees`, `ConfigsAgree`, `Directories`, `Ran`,
`Metadata` each have that shape. `Deaths` says why a process is dead. From it:
`OneProgramRuns`, `RecordTellsTheTruth`, `TypeCorrect`. The hypothesis is needed:
`launch_serial` is what happens without it.

**RestartCheckpoint_proofs**. Any number of ranks, checkpoints, kills, power
failures and copied files. The invariant has four parts besides `TypeOK`. `StageInv` and
`TeamInv`: ranks are in order along the stages, one that threw had a cause, ranks that
returned did so together; a stage is then done on all ranks when one is past it. `ReadInv`:
what a reader has compared by each stage. `WriteInv`: what is on disk at each stage of
the writer - which names an outage may take (`OutageInv`, `DirectoryInv`), that every shard
passed is flushed (`ShardInv`), that a manifest was published over whole shards
(`ManifestInv`, `WholeInv`). The step that matters: a power failure ends the job, so what
the writers had found stays true as long as somebody relies on it. A checkpoint the
user copied a file into proves nothing by its manifest; that no job resumes from a
mixture rests on what the readers compare (`ReadInv`). From it: `ProofsProveWhole`, `ResumeIsWhole`, `PublishedStays`,
`TypeCorrect`.

**SimulationRun_proofs** (`RunAssumption`, `StepperAssumption`, `SnapshotAssumption`). Any table,
cadence, list of outputs, number of launches and failures. Two machines share the operators of
`StepSchedule`. *The table*: `SegmentRuns` says what one segment is (it ends exactly on
its stop, each of its steps can be halved, none goes two places beyond the cadence,
the planned storage holds it); the whole table follows by induction over the stops
(`Placed`: what has been placed ends on the last stop and contains every stop so far).
`StepperHitsEveryTarget` adds that the stepper stands on its table, whatever was
restored. *The run*: the invariant says of the particles, the caches and the files
which step of the uninterrupted run they are of: `BodyOfStep` (the kicks and drifts done
are those of the step and the place inside it), `ForceOfBody` (a valid acceleration is the
one of these positions), `OutputsInStep`, `FinalInStep` (what has been written by now),
`SnapshotsHoldTheirEpoch`, `OriginsAreEarlier` (a launch resumes a checkpoint of an earlier
one). That the lineage of a resumed run holds every output once is an induction over
launches. From it: `RunTrajectoryIsKDK`, `RunOutputsHoldTheirEpoch`,
`RunWritesEveryOutputOnce`, and `RunInvariant` itself. *The snapshots*: any number of ranks,
particles, batches and storage faults. `SnapshotHoldsEveryParticle` needs two things. One is
arithmetic: the offsets are folds over sets of ranks; a total that counts every member of a
set once exists (`CountsExist`) and is that fold (`SumOfCounts`), so the intervals of the
ranks adjoin (`IntervalsAdjoin`) and a file that agrees with every rank on its interval is
all their particles joined (`FlattenIntervals`, `ReadBackIsWhole`). The other is the
protocol, `WriterInv`: an exception waits for the reduction of its stage and outlives it in
whoever left (`VotesStand`); rank 0 publishes in the last stage or holds an exception
(`RootPublishes`); who returns has seen everybody in the last reduction without one
(`ReturnedTogether`). What travelled between the ranks is no part of it: the read-back
decides, so a lost or misplaced batch can only end in an exception.
*The ring of identities*, `RingFindsSharedIdentities`: any lists, chunk and number of ranks,
sends that MPI buffers or holds back. First the pass over one list: a scan is a loop
(`ScanIsLoop`), and the cursor never passes an identity it still has to meet (`Scanned`),
because both lists ascend and the cursor starts anew with every source. Then who sends to
whom (`Neighbours`, `BackIsOne`, `BackIsAll`), and `RingInv`. The messages under way from a
source to a rank are those it sent and the rank has not fetched, in the order of the rounds
(`UnderWay`: `Sent`, `Fetched`); so what a rank waits for is always the oldest message with
its tag, although all chunks have the same one. What a rank has found is what the lists it
has heard so far hold (`Progress`). No rank is more than one stage ahead of one still in the
ring (`StagesClose`), so no batch of the transfer meets a message of the ring; and behind
the second stage all lists are in order (`OrderKnown`), which the ring relies on and the
ranks agreed on. TLC checks `RingInv` on the writer of run `snapshot`.

**ForcePipeline_proofs**. `ChunksShareOut`: for any numbers of particles, threads and
chunks, the chunks of the tree walk partition the owned particles and differ by at most
one. This is why threads may add to accelerations without a lock.
`ForceCollectivesMeet` (`ForcePipelineAssumption` and the explicit hypothesis
`Unprotected = {}`: no rank-local work outside a synchronized stage; run `force_local` shows
that it is needed, which is finding 4). Any number of ranks, threads, solves and
failures. `PipelineInv` is `PipelineTypes`, `CallsInOrder` and a statement about any two
ranks: they are in the same call (`SameCall`) or one has left it and the other is past its
last collective (`WaitsForAll`, `SameEnd`); the lists of steps they have left are
suffixes of one list, and one that is ahead is ahead by local steps only (`OnPath`,
`Inside`, `Before`); what the steps are decided by is the same on all (`SameLayout`,
`SameWorkspace`). Each action is then one of four kinds - it enters a call, continues it,
throws out of it, or leaves the place where it is (`Enters`, `Continues`, `Throws`,
`Stands`) - and each meeting of all ranks is `Meets`: the invariant is shown once for
each kind. TLC checks `PipelineInv` on two ranks with two failures. The
second half of the module describes the lists of a call from any step on (`Planned`:
`Due`, the milestones that are left; `Gathers`, the force planes still to be gathered;
`Leads`, what follows what while the mesh is at work), for every list the code can make
(`SolvePlanned`, `MeasurePlanned`).

**ForceContents_proofs** (in addition `OwnedAssumption`: a rank counts its particles;
and again `Unprotected = {}`). `PublishedForceIsComplete`: an acceleration that is declared
valid holds every term of its own solve once, at every particle, and a force is remembered
only when every rank has it. Any mesh, ranks, particles, threads, chunks, solves, measurements
and failures. The flags say nothing of what is in the memory, so the invariant
`PipelineInv /\ ForceInv` says what each buffer holds before each step, as a function
of the steps that are left (`Ahead`): `MeshHolds` (density, modes, force planes and
potential, all made in the same two buffers), `BuiltHolds`, `AccHolds`, `WalkHolds` (what
the chunks have done, one particle at a time). Neighbours' planes carry a tag and no
number, so `PlanesMatch` relates the lists of two neighbours to what is under way between
them, and `AskedFor` the planes a rank needs to what their owners were asked. `ValidHolds`
adds why a flag stays true: nothing that writes an acceleration is left before the next
`prepare` clears it. The steps of one rank keep it (`RankStepKeeps`) and so do the meetings
(`MeetingKeeps`). TLC checks `ForceInv` on one and two ranks with one failure.
`MeasuredEnergyIsOfItsSolve` (in addition `MeasureAssumption`: a measurement follows a
solve of the pure PM force, which `evolution_pm_solver_handle.hpp:59-96` enforces with
`post_force_energy_available_`): an energy that is returned was summed over the potential
of its own solve, the neighbour's plane included, and over the kernel of an impulse made
in the same memory. Here too what is left decides what is there. `EnergyAt` says of each
step which potential and kernel the memory holds and which sums are made (`Summed`): the
kernel is made in the buffers the potential was in, so a step that reads the potential is
never behind one that makes the kernel. `PlaneOf` says whose potential a plane under way
is, `ResultAt` what a returned call leaves for the measurement after it; after a call that
threw, nothing is measured. TLC checks `EnergyInv` on the same instances as `ForceInv`.

**DomainPartition_proofs** (`GeometryAssumption`, `SearchAssumption`: a run begins with
identities that occur once, on one rank, which the program checks when particles are made
or read). Any mesh, ranks, radius, stores, drifts and failures. *Geometry*: `OneOwner`,
each position has one owner; `GhostSearchIsExact`, the coarse test on slabs and the exact
one on the nearest image send a copy exactly when a particle is within the search radius,
the nearer way around. *Derived state*: `DerivedRetires`. *Lists*: what selecting, sorting,
joining and the merge from the back return (`ThoseAreKept`, `SortIsOrdered`, `FlattenJoins`,
`MergedIsOrdered`), each by induction on the loop (`Loop`, `CountingUp`); the merge's
invariant is `Merging`: what is above the write cursor is in order and above everything
that is left, and the retained particles still to be read are where they were, because the
cursor is as far ahead of them as there are received ones left. *Stores*: a path of
`partition_domain` succeeds when it leaves each rank a `NewStore`, in order a copy of each
particle it owns; `RetainPartitions`, `SparsePartitions`, `RebuildPartitions` and
`AlonePartitions` show it of the four, `PartitionedKeeps` that nothing else is needed. The
invariant `PartitionInvariant` adds what each stage relies on: the stores hold every
particle once (`StoresHold`) except after a failed merge; what was received is the exchange
of the stores as they are (`Received`); one agreed mass on all ranks once a partition is
canonical (`OneMass`, without which a received particle could be given its new rank's
mass). TLC checks it on the run `particles`' instance. From it: `PartitionsAreCanonical`,
`GhostsAreAsSearched`, `NothingIsLost`.

Only model-checked: the liveness properties (they need ENABLED); results of
recursive operators (sums, deposits, trees, halo finders, catalogues); and the protocols of
`IdBuckets`, `SnapshotIngest`, `InitialConditions` and `AnalysisRun` as a whole.

## 5. What the models leave out

- Floating-point arithmetic, except rounding where it is the subject (`ExactLimbs`,
  `TreeWalk`, `StepSchedule`). Positions are integers, scale factors are places
  among the representable numbers, a force is the terms it was made of. Rounding of a
  plane boundary and overflow of a logarithm are not covered.
- One coordinate instead of three in the partition; one or two axes in trees and halos
  (one loop body per axis in the code).
- The bytes: HDF5 layout, JSON, digests, MPI datatypes. A digest is what it is a
  digest of, so a collision is excluded. 64-bit counts do not overflow.
- MPI errors. The world communicator returns errors instead of aborting
  (`runtime_context.cpp`), but what MPI does after one is outside the code.
  `CollectiveStage` has the transport failure that ends the job; the rounds of
  `BoundedMigration` (`bounded_migration.cpp:553`) throw on one rank there, and what its
  peers then see depends on the MPI library.
- A process launched with `--help`, `--version` or no argument ends before it starts
  MPI (`hyowon_entry.cpp:222`): no command line of `RunLaunch`. What its peers'
  `MPI_Init` then does is the launcher's.
- Memory exhaustion inside a single library call, except where the code leaves a
  visible half-done state (`MergeFails`, `PublishGhostsFails`, the steps of a force solve,
  the reduction of a sum).
- The file system is POSIX as `DurablePublication` describes it; a flushed
  directory is durable, an fsync that returned did its work.

## 6. Findings

1. **A launch may turn into independent serial runs** (`launch_serial`).
   The entry refuses several ranks without MPI (`hyowon_entry.cpp:186`), drops what
   it loaded, and the program reads the file again (`hyowon.cpp:577`). If the file
   is edited in between and disables MPI, each process becomes a run of its own:
   its `RuntimeContext` has size 1 and every comparison between ranks passes
   unseen. As long as the file keeps MPI enabled, any edit is caught
   (`OneProgramRuns`).
2. **Shards are not durable before the manifest** (`checkpoint_durable`).
   Nothing flushes the directory that holds a checkpoint's directory
   (`restart_checkpoint_io.cpp:136`), so after a power failure the manifest's
   promise (`restart_checkpoint_io.hpp:13`) may be gone together with it.
   What a reader does find is still whole (`ProofsProveWhole`): the manifest
   goes with its shards.
3. **A late error of rename leaves a published file behind a failed publication**
   (`publication_late_error`). `DurableDirectoryPublication` looks whether the
   rename happened after all (only a look that fails too misses it);
   `DurableFilePublication` does not look, and its destructor
   (`durable_file_publication.cpp:455`) assumes that nothing was published.
4. **The force callback does rank-local work no stage synchronizes** (`force_local`).
   `leapfrog_integrator.cpp:85` says that callbacks which perform collectives must
   synchronize their own internal stages. `SimulationRunner`'s allocates the
   accelerations between two collectives (`simulation_runner.cpp:1058`),
   `TreePMSolver` sets up (`treepm_solver.cpp:651-694`) and reports (`:342`) on its own. A
   rank that throws there enters the integrator's reduction while its peers are in
   the solver's. With these three places protected, collectives meet (`force`).

## 7. What could follow

- Theorems: `IngestedIsSound`, `RealisationIsWhole`.
- A mechanised refinement from `ForcePipeline` to the one force step of `SimulationRun`,
  and from `BoundedMigration` to the one exchange step of `DomainPartition`.
- The batches of the serial snapshot writer and the datasets of a restart shard.
- Of `SnapshotProvenance`, for every lattice: a valid generation reads back, and
  inheritance keeps what is read (`GenerationsReadBack`, which TLC checks up to six
  particles a side).
- A faulty MPI call inside the rounds of the exchange, once it is decided what the
  program should do then.

## 8. Not modelled, and why

**Not at all.** The particle store's columns and flags appear in the modules that use
them; growing a column reserves first and then appends, in one call of one thread.
A restart shard's datasets are one fixed list of columns, written and read by one
process without a step anybody could come between. Cosmology (quadratures) and
configuration (parsing and validation) are pure functions of numbers and text.
Validation is energy sums and tolerances of floating-point state; when they are taken,
and from which force, is in `SimulationRun` and `ForcePipeline`. Scratch files, checked
streams and SHA-256 are one call of one process. Build files, examples and data are
not code of the program.

**In the parts marked P.** Checkpoints: the HDF5 encoding and the serial guards. Partition:
y and z, the slabs FFTW itself may report, provenance digests. Runner: telemetry and
reports. Launch: failing MPI calls. Context: failing MPI calls, memory and topology
diagnostics. PM: the serial and replicated backend, Green functions, force splits.
Tree: force kernels, softening. FFT: the transforms are FFTW's; the serial backend and its
wisdom files. Mesh: weights, gathers and gradients as arithmetic. Initial conditions:
amplitudes, growth factors, the tabulated spectrum, the generating program. Halos:
the virial threshold, centres, memory budgets. Analysis: estimators of fields and
shapes (`analysis/halo_shape.cpp` and its like are arithmetic on one thread), values of
options, the text of files. Snapshots: the serial writer's batches, planning records and
the metadata of analyses. Sums:
compensated blocks and means.

## 9. Running

    tlc -config MCParticles.cfg MCParticles      (any run: cfg and module of PROJECT.json)
    tlapm RestartCheckpoint_proofs.tla

`checkpoint`, `snapshot`, `force` and `particles` take one to three minutes, the others
less. Configurations name every bound at the top.
