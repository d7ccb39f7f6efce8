----------------------------- MODULE ForcePipeline ------------------------------
(***************************************************************************)
(* One force evaluation over MPI ranks: LeapfrogIntegrator's force         *)
(* transaction around the callback, PMSolver and DistributedPMSolver on    *)
(* slabs of the mesh, and TreePMSolver's short-range half on top of them.  *)
(*                                                                         *)
(* A rank runs through a list of steps.  Most steps are rank-local work    *)
(* followed by a collective that tells every rank whether anyone failed;   *)
(* MPI matches those collectives by their order alone, whatever they are   *)
(* for.  Other steps are purely local, or exchange a plane with the two    *)
(* neighbours on the ring of slabs.                                        *)
(*                                                                         *)
(* The content of a buffer is a tuple that says what it holds, of which    *)
(* solve, and of which rank where that matters; Torn is content nobody     *)
(* may use.  An acceleration is the sequence of the terms added to it.     *)
(*                                                                         *)
(* A definition marked "fault" is a plausible mistake in the definition    *)
(* that follows it; no action uses it.                                     *)
(***************************************************************************)
EXTENDS Integers, Sequences, FiniteSets, SequencesExt, FiniteSetsExt

CONSTANTS Setups,        \* [kind, size, collect, calls] of a process
          Mesh,          \* planes of the mesh
          Owned,         \* particles of each rank
          Workers,       \* host threads of a rank
          ChunksPerWorker,
          Unprotected,   \* steps that may throw outside any stage
          MaxFailures    \* local failures per behaviour

ASSUME ForcePipelineAssumption ==
    /\ Setups \subseteq [kind : {"pm", "treepm"}, size : Nat \ {0},
                         collect : BOOLEAN, calls : Seq({"solve", "measure"})]
    /\ Mesh \in Nat \ {0}
    /\ Workers \in Nat \ {0}
    /\ ChunksPerWorker \in Nat \ {0}
    /\ MaxFailures \in Nat

(* A rank counts its particles, perhaps none.                              *)
ASSUME OwnedAssumption ==
    \A s \in Setups : \A r \in 0 .. s.size - 1 : Owned[r] \in Nat

(* Energy is measured of a pure PM force alone, and once after a refresh:  *)
(* a measurement consumes the potential the force left behind.             *)
ASSUME MeasureAssumption ==
    \A s \in Setups : \A i \in DOMAIN s.calls : s.calls[i] = "measure" =>
        s.kind = "pm" /\ i > 1 /\ s.calls[i - 1] = "solve"

VARIABLES setup,      \* how the program was started
          calls,      \* calls each rank has still to make
          solve,      \* number of the solve each rank is in
          todo,       \* steps left of the call a rank is in
          waiting,    \* the rank is inside the collective of its step
          error,      \* the rank holds an exception
          mem,        \* what a rank keeps in its solver and its buffers
          cached,     \* the FFT layout is in the rank's registry
          spills,     \* planes under way to the right neighbour (tag 4101)
          planes,     \* planes under way to the left neighbour (tag 4201)
          acc,        \* the particles' accelerations
          valid,      \* FieldValidity of the accelerations
          prepared,   \* the solve prepared_force_scale_factor_ stands for
          chunk,      \* what each chunk of the tree walk is doing
          place,      \* particles each chunk has done
          flag,       \* worker_failed
          ended,      \* how the last call ended
          failures    \* failures so far

vars == <<setup, calls, solve, todo, waiting, error, mem, cached, spills, planes,
          acc, valid, prepared, chunk, place, flag, ended, failures>>
messages == <<spills, planes>>
products == <<acc, valid, prepared>>
threads == <<chunk, place, flag>>

Size == setup.size
Ranks == 0 .. Size - 1
Left(r) == (r + Size - 1) % Size
Right(r) == (r + 1) % Size
Tree == setup.kind = "treepm"
Torn == <<"torn">>
Short == 4

-----------------------------------------------------------------------------
(* FFTW gives every rank a block of planes; the last block may be smaller. *)
Block == (Mesh + Size - 1) \div Size
SlabStart(r) == r * Block
SlabPlanes(r) == {p \in 0 .. Mesh - 1 : p \div Block = r}
OwnerOf(p) == p \div Block

(* The planes a gradient needs beside the slab: one to the left and two to *)
(* the right, each asked for once.                                         *)
HaloPlan(r) ==
    LET after == SlabStart(r) + Cardinality(SlabPlanes(r))
    IN  {(SlabStart(r) + Mesh - 1) % Mesh, after % Mesh, (after + 1) % Mesh}

(* The planes the stencil of a particle of the slab reads.                 *)
Support(r) == UNION {{(p + Mesh - 1) % Mesh, p, (p + 1) % Mesh, (p + 2) % Mesh} :
                        p \in SlabPlanes(r)}

-----------------------------------------------------------------------------
(* The steps of a call, in order.  A layout that is not in the registry is *)
(* asked of FFTW by all ranks, and a solver's workspace is made by all.    *)
SlabQuery == <<"agree_grid", "planner", "slab", "slab_valid">>
LayoutQuery == SlabQuery \o <<"gather_storage", "construct">>

Lookup(r) == IF cached[r] THEN <<>>
             ELSE <<"prequery">> \o LayoutQuery \o <<"publish_layout">>

Plans == <<"planner_again", "plan_storage", "forward_plan", "inverse_plan">>
PlanRecord == <<"plan_identity", "plan_record">>

Creation(r) == IF mem[r].workspace THEN <<>>
               ELSE <<"parameters", "agree_parameters">> \o Lookup(r)
                    \o <<"layout", "allocate">> \o Plans \o PlanRecord
                    \o <<"post_plan">>

Spill == IF Size = 1 THEN <<>>
         ELSE <<"spill_mass", "send_spill", "receive_spill", "spilled_mass">>
Ghost(field) == IF Size = 1 THEN <<>>
                ELSE <<IF field = "force" THEN "send_force_plane"
                                          ELSE "send_potential_plane",
                       "receive_plane">>

Interpolation == <<"axis_prepared">> \o Ghost("force") \o <<"axis_gather", "axis_finite">>
Axis == <<"axis_modes", "axis_inverse">> \o Interpolation

HaloSteps == <<"halo_request", "halo_counts", "halo_buffers", "halo_planes",
               "halo_response", "halo_values", "halo_unpack">>

GradientSteps ==
    <<"inverse", "potential_finite">>
    \o (IF Size = 1 THEN <<>> ELSE <<"halo_plan">> \o HaloSteps \o <<"gradient_check">>)
    \o <<"gradient">>

Kernel(r) == IF mem[r].kernel THEN <<>>
             ELSE <<"origin", "impulse">> \o Spill
                  \o <<"impulse_conserved", "normalize", "source", "forward",
                       "inverse", "potential_finite", "lag_kernel">>

KernelFirst(r) == (IF Tree THEN <<"inverse">> ELSE <<>>)         \* fault
                  \o <<"potential_finite">> \o Kernel(r) \o Ghost("potential")
                  \o <<"weighted_sum", "rank_sum", "self_energy">>

Energy(r) == (IF Tree THEN <<"inverse">> ELSE <<>>)
             \o <<"potential_finite">> \o Ghost("potential")
             \o <<"weighted_sum", "rank_sum">> \o Kernel(r) \o <<"self_energy">>

MeshSolve(r) == <<"sizes", "input_mass", "deposit">> \o Spill
                \o <<"density_valid", "mass_conserved", "normalize", "source",
                     "forward", "modes_finite">>
                \o (IF Tree THEN Axis \o Axis \o Axis ELSE GradientSteps)
                \o (IF Tree /\ setup.collect THEN Energy(r) ELSE <<>>)

Report == IF setup.collect
          THEN <<"report", "report_metrics", "report_storage", "report_gather", "emit">>
          ELSE <<>>

Balance == IF setup.collect THEN <<"balance">> ELSE <<>>

Solve(r) == <<"prepare", "migrate", "materialize">>
            \o (IF Tree
                THEN <<"set_up">> \o Creation(r) \o <<"ready", "private">>
                     \o MeshSolve(r) \o <<"tree", "walk", "complete">> \o Report
                     \o <<"validate">>
                ELSE <<"preflight", "transaction">> \o Creation(r) \o <<"private">>
                     \o MeshSolve(r) \o <<"commit_check", "commit">>)
            \o Balance \o <<"callback">>

Measure(r) == <<"measure", "measure_input">> \o Energy(r) \o <<"self_direction">>

(* Where an exception of a step is caught: behind the registry's caller,   *)
(* the solver's set-up, the tree walk or the whole callback, if at all.    *)
LookupSteps == {"prequery", "publish_layout"} \union ToSet(LayoutQuery)
CreateSteps == {"parameters", "agree_parameters", "layout", "allocate", "post_plan"}
               \union ToSet(Plans) \union ToSet(PlanRecord)

Catcher(s) == CASE s \in LookupSteps -> "layout"
                [] s \in CreateSteps \union {"set_up"} -> IF Tree THEN "ready" ELSE "private"
                [] s \in {"tree", "walk"} -> "complete"
                [] s = "prepare" -> "nowhere"
                [] OTHER -> "callback"

From(steps, s) == LET i == SelectInSeq(steps, LAMBDA x : x = s)
                  IN  IF i = 0 THEN <<>> ELSE SubSeq(steps, i, Len(steps))

Unwound(r) == From(Tail(todo[r]), Catcher(Head(todo[r])))

-----------------------------------------------------------------------------
At(r, s) == ~ waiting[r] /\ todo[r] # <<>> /\ Head(todo[r]) = s

MayThrow == failures < MaxFailures

(* Work that goes on to the next step without asking the other ranks.      *)
Continue(r) == /\ todo' = [todo EXCEPT ![r] = Tail(@)]
               /\ UNCHANGED <<waiting, error, failures>>

(* Work that throws where no stage of its own catches it: the rank is next *)
(* heard of in the collective behind the handler.                          *)
Throw(r) == /\ todo' = [todo EXCEPT ![r] = Unwound(r)]
            /\ waiting' = [waiting EXCEPT ![r] = TRUE]
            /\ error' = [error EXCEPT ![r] = TRUE]

(* The rank enters the collective of its step, with an exception or not.   *)
Enter(r, failed) == /\ waiting' = [waiting EXCEPT ![r] = TRUE]
                    /\ error' = [error EXCEPT ![r] = failed]
                    /\ UNCHANGED todo

(* The work of a step fails, or does not.                                  *)
Fails == MayThrow /\ failures' = failures + 1
Succeeds == UNCHANGED failures

(* Buffers are written over those that are there.                          *)
Over(buffers, there) ==
    [b \in DOMAIN buffers \union DOMAIN there |->
        IF b \in DOMAIN buffers THEN buffers[b] ELSE there[b]]

Keep(r, buffers) == mem' = [mem EXCEPT ![r] = Over(buffers, @)]
Spoil(buffers) == [b \in DOMAIN buffers |-> Torn]

(* Every rank is in a collective.  If anyone brought an exception, every   *)
(* rank unwinds from the step it is at; else every rank goes on.           *)
AllWait == \A r \in Ranks : waiting[r]
Failed == \E r \in Ranks : error[r]
Rest(r) == IF Failed THEN Unwound(r) ELSE Tail(todo[r])

Proceed == /\ AllWait
           /\ todo' = [r \in Ranks |-> Rest(r)]
           /\ waiting' = [r \in Ranks |-> Failed /\ Rest(r) # <<>>]
           /\ error' = [r \in Ranks |-> Failed /\ Rest(r) # <<>>]
           /\ ended' = [r \in Ranks |-> IF Rest(r) # <<>> THEN "running"
                                        ELSE IF Failed THEN "threw" ELSE "returned"]
           /\ UNCHANGED <<setup, calls, solve, failures>>

(* All of them are in the same collective, and it moves data.              *)
Joint(s) == AllWait /\ ~ Failed /\ \A r \in Ranks : Head(todo[r]) = s

-----------------------------------------------------------------------------
EmptyMemory == [workspace |-> FALSE, ready |-> FALSE, kernel |-> FALSE,
                density |-> Torn, out |-> Torn, right |-> Torn, phi |-> Torn,
                modes |-> Torn, force |-> Torn, axis |-> 0, needs |-> {},
                asked |-> {}, reply |-> Torn, halo |-> <<>>, built |-> <<>>,
                lags |-> Torn, energy |-> <<>>, self |-> <<>>]

Init == /\ setup \in Setups
        /\ calls = [r \in Ranks |-> setup.calls]
        /\ solve = [r \in Ranks |-> 0]
        /\ todo = [r \in Ranks |-> <<>>]
        /\ waiting = [r \in Ranks |-> FALSE]
        /\ error = [r \in Ranks |-> FALSE]
        /\ mem = [r \in Ranks |-> EmptyMemory]
        /\ cached = [r \in Ranks |-> FALSE]
        /\ spills = [r \in Ranks |-> <<>>]
        /\ planes = [r \in Ranks |-> <<>>]
        /\ acc = [r \in Ranks |-> [p \in 1 .. Owned[r] |-> <<>>]]
        /\ valid = [r \in Ranks |-> FALSE]
        /\ prepared = [r \in Ranks |-> 0]
        /\ chunk = [r \in Ranks |-> <<>>]
        /\ place = [r \in Ranks |-> <<>>]
        /\ flag = [r \in Ranks |-> FALSE]
        /\ ended = [r \in Ranks |-> "returned"]
        /\ failures = 0

(* The program gives up after an exception; a caller of the classes may    *)
(* solve again.  Energy is measured once after a force that was returned.  *)
Call(r) ==
    /\ todo[r] = <<>>
    /\ calls[r] # <<>>
    /\ calls' = [calls EXCEPT ![r] = Tail(@)]
    /\ IF Head(calls[r]) = "solve"
       THEN /\ todo' = [todo EXCEPT ![r] = Solve(r)]
            /\ Keep(r, [energy |-> <<>>, self |-> <<>>])
       ELSE /\ todo' = [todo EXCEPT ![r] = IF ended[r] = "returned" THEN Measure(r) ELSE <<>>]
            /\ UNCHANGED mem
    /\ UNCHANGED <<setup, solve, waiting, error, cached, messages, products,
                   threads, ended, failures>>

-----------------------------------------------------------------------------
(* Steps of the solver that only check, or only reduce a number.           *)
Checks == {"parameters", "agree_parameters", "prequery", "agree_grid", "planner",
           "slab", "slab_valid", "gather_storage", "construct", "layout",
           "allocate", "planner_again", "plan_storage", "forward_plan",
           "inverse_plan", "plan_identity", "plan_record", "post_plan",
           "preflight", "sizes", "input_mass", "spill_mass", "spilled_mass",
           "normalize", "modes_finite", "axis_prepared", "axis_finite",
           "potential_finite", "inverse", "halo_plan", "halo_counts", "halo_buffers",
           "halo_unpack", "origin", "commit_check", "complete", "report",
           "report_metrics", "report_storage", "report_gather", "balance",
           "measure", "measure_input", "rank_sum", "self_direction", "callback"}

Check(r) ==
    /\ \E s \in Checks : At(r, s)
    /\ \/ Enter(r, FALSE) /\ Succeeds
       \/ Enter(r, TRUE) /\ Fails
    /\ UNCHANGED <<setup, calls, solve, mem, cached, messages, products,
                   threads, ended>>

(* A stage that fills buffers leaves them in no usable state if it fails.  *)
Stage(r, s, buffers) ==
    /\ At(r, s)
    /\ \/ Enter(r, FALSE) /\ Keep(r, buffers) /\ Succeeds
       \/ Enter(r, TRUE) /\ Keep(r, Spoil(buffers)) /\ Fails
    /\ UNCHANGED <<setup, calls, solve, cached, messages, products, threads, ended>>

(* A stage that checks what it was handed, and fails on a bad hand-over.   *)
Examine(r, s, good, buffers) ==
    /\ At(r, s)
    /\ Enter(r, ~ good)
    /\ Keep(r, buffers)
    /\ Succeeds
    /\ UNCHANGED <<setup, calls, solve, cached, messages, products, threads, ended>>

Nothing == [b \in {} |-> Torn]

(* A successful rank must not keep a layout a peer failed to publish: it    *)
(* would skip the query on a retry, which the peer enters alone.           *)
KeepInserted == cached                                           \* fault
KeptLayouts == [r \in Ranks |-> cached[r] /\ ~ (Failed /\ Head(todo[r]) = "publish_layout")]

JointSteps == {"forward", "inverse", "axis_inverse", "halo_planes", "halo_values",
               "lag_kernel", "callback"}

Agree == /\ Proceed
         /\ \A s \in JointSteps : ~ Joint(s)
         /\ cached' = KeptLayouts
         /\ UNCHANGED <<mem, messages, products, threads>>

(* Collectives that no work of the rank precedes.                          *)
Arrive(r) ==
    /\ \E s \in {"axis_inverse", "halo_planes", "halo_values", "lag_kernel"} : At(r, s)
    /\ Enter(r, FALSE)
    /\ Succeeds
    /\ UNCHANGED <<setup, calls, solve, mem, cached, messages, products,
                   threads, ended>>

-----------------------------------------------------------------------------
(* The integrator invalidates before anything can be replaced, and the     *)
(* runner moves the particles to their owners, which releases the storage  *)
(* of the accelerations.                                                   *)
Zero(r) == [p \in 1 .. Owned[r] |-> <<>>]
Scratch(r) == [p \in 1 .. Owned[r] |-> Torn]

Prepare(r) ==
    /\ At(r, "prepare")
    /\ solve' = [solve EXCEPT ![r] = @ + 1]
    /\ valid' = [valid EXCEPT ![r] = FALSE]
    /\ prepared' = [prepared EXCEPT ![r] = 0]
    /\ \/ Enter(r, FALSE) /\ Succeeds
       \/ Enter(r, TRUE) /\ Fails
    /\ UNCHANGED <<setup, calls, mem, cached, messages, acc, threads, ended>>

Migrate(r) ==
    /\ At(r, "migrate")
    /\ acc' = [acc EXCEPT ![r] = Scratch(r)]
    /\ \/ Enter(r, FALSE) /\ Succeeds
       \/ Enter(r, TRUE) /\ Fails
    /\ UNCHANGED <<setup, calls, solve, mem, cached, messages, valid, prepared,
                   threads, ended>>

(* mutable_accelerations allocates the storage again: it may throw here,   *)
(* where no stage catches it.                                              *)
Materialize(r) ==
    /\ At(r, "materialize")
    /\ \/ /\ Continue(r)
          /\ acc' = [acc EXCEPT ![r] = IF Tree THEN @ ELSE Zero(r)]
       \/ /\ "materialize" \in Unprotected
          /\ Throw(r) /\ Fails
          /\ UNCHANGED acc
    /\ UNCHANGED <<setup, calls, solve, mem, cached, messages, valid, prepared,
                   threads, ended>>

(* TreePMSolver's set-up checks the population before it creates the       *)
(* solver's workspace, which is collective, under the same handler.        *)
SetUp(r) ==
    /\ At(r, "set_up")
    /\ \/ /\ Continue(r)
          /\ acc' = [acc EXCEPT ![r] = Zero(r)]
       \/ /\ "set_up" \in Unprotected
          /\ Throw(r) /\ Fails
          /\ UNCHANGED acc
    /\ UNCHANGED <<setup, calls, solve, mem, cached, messages, valid, prepared,
                   threads, ended>>

PublishLayout(r) ==
    /\ At(r, "publish_layout")
    /\ \/ Enter(r, FALSE) /\ Succeeds /\ cached' = [cached EXCEPT ![r] = TRUE]
       \/ Enter(r, TRUE) /\ Fails /\ UNCHANGED cached
    /\ UNCHANGED <<setup, calls, solve, mem, messages, products, threads, ended>>

KeepWorkspace(r) ==
    \E s \in {"ready", "private"} : Examine(r, s, TRUE, [workspace |-> TRUE])

Transaction(r) == Stage(r, "transaction", [built |-> <<>>])

-----------------------------------------------------------------------------
(* Density, right-hand spill and source of one field: the particles' mass, *)
(* or the unit impulse the self-energy kernel is made of.                  *)
Deposit(r, s, what) ==
    Stage(r, s, [density |-> <<what, "own", solve[r]>>,
                 out |-> <<what, "spill", solve[r], r>>, axis |-> 0])

DepositMass(r) == Deposit(r, "deposit", "mass")
DepositImpulse(r) == Deposit(r, "impulse", "impulse")

SendSpill(r) ==
    /\ At(r, "send_spill")
    /\ Continue(r)
    /\ spills' = [spills EXCEPT ![Right(r)] = Append(@, mem[r].out)]
    /\ UNCHANGED <<setup, calls, solve, mem, cached, planes, products, threads, ended>>

Is(content, part) == Len(content) > 2 /\ content[2] = part
As(content, part) == [content EXCEPT ![2] = part]

ReceiveSpill(r) ==
    LET d == mem[r].density
    IN  /\ At(r, "receive_spill")
        /\ spills[r] # <<>>
        /\ Continue(r)
        /\ spills' = [spills EXCEPT ![r] = Tail(@)]
        /\ Keep(r, [density |-> IF /\ Is(d, "own")
                                   /\ Head(spills[r]) = Append(As(d, "spill"), Left(r))
                                THEN As(d, "whole") ELSE Torn])
        /\ UNCHANGED <<setup, calls, solve, cached, planes, products, threads, ended>>

Whole(r) == Is(mem[r].density, IF Size = 1 THEN "own" ELSE "whole")

(* The compact overwrite is declared once every rank has deposited.        *)
DensityValid(r) == Examine(r, "density_valid", TRUE, [ready |-> TRUE])
MassConserved(r) == Examine(r, "mass_conserved", Whole(r), Nothing)
ImpulseConserved(r) == Examine(r, "impulse_conserved", Whole(r), [ready |-> TRUE])

Source(r) == Stage(r, "source", [density |-> IF Whole(r) THEN As(mem[r].density, "source")
                                             ELSE Torn])

Forward(r) == Examine(r, "forward", mem[r].ready, Nothing)

(* A transform of the whole mesh needs every rank's slab of the same.      *)
Transformed(field, from, to) ==
    LET c == mem[0][field]
    IN  IF Is(c, from) /\ \A r \in Ranks : mem[r][field] = c THEN As(c, to) ELSE Torn

Everywhere(buffers) == mem' = [r \in Ranks |-> Over(buffers, mem[r])]

(* The forward transform destroys the density; the inverse one leaves the  *)
(* potential in its place.                                                 *)
ForwardTransform ==
    /\ Joint("forward") /\ Proceed
    /\ Everywhere([phi |-> Transformed("density", "source", "phi"),
                   density |-> Torn, ready |-> FALSE])
    /\ UNCHANGED <<cached, messages, products, threads>>

InverseTransform ==
    /\ Joint("inverse") /\ Proceed
    /\ Everywhere([density |-> Transformed("phi", "phi", "potential"), ready |-> TRUE])
    /\ UNCHANGED <<cached, messages, products, threads>>

-----------------------------------------------------------------------------
(* TreePM: one force component after the other, straight into the          *)
(* particles' accelerations.  The inverse transform runs through the       *)
(* density's memory.                                                       *)
AxisModes(r) ==
    Stage(r, "axis_modes",
          [modes |-> IF Is(mem[r].phi, "phi")
                     THEN Append(As(mem[r].phi, "axis"), mem[r].axis + 1) ELSE Torn,
           axis |-> mem[r].axis + 1])

AxisTransform ==
    /\ Joint("axis_inverse") /\ Proceed
    /\ Everywhere([force |-> Transformed("modes", "axis", "force"), modes |-> Torn,
                   density |-> Torn, ready |-> FALSE])
    /\ UNCHANGED <<cached, messages, products, threads>>

(* Plane 0 of a field goes to the left neighbour, through the plane the    *)
(* spill was in.                                                           *)
SendPlane(r) ==
    LET field == IF At(r, "send_force_plane") THEN "force" ELSE "density"
        plane == Append(mem[r][field], r)
    IN  /\ At(r, "send_force_plane") \/ At(r, "send_potential_plane")
        /\ Continue(r)
        /\ Keep(r, [out |-> plane])
        /\ planes' = [planes EXCEPT ![Left(r)] = Append(@, plane)]
        /\ UNCHANGED <<setup, calls, solve, cached, spills, products, threads, ended>>

ReceivePlane(r) ==
    /\ At(r, "receive_plane")
    /\ planes[r] # <<>>
    /\ Continue(r)
    /\ Keep(r, [right |-> Head(planes[r])])
    /\ planes' = [planes EXCEPT ![r] = Tail(@)]
    /\ UNCHANGED <<setup, calls, solve, cached, spills, products, threads, ended>>

(* What a particle between two planes reads.                               *)
Seen(r, field) == IF Size = 1 \/ mem[r].right = Append(mem[r][field], Right(r))
                  THEN mem[r][field] ELSE Torn

Add(r, term) == [p \in DOMAIN acc[r] |-> Append(acc[r][p], term)]
Component(content) == IF Is(content, "force") THEN <<content[3], content[4]>> ELSE Torn

AxisGather(r) ==
    /\ At(r, "axis_gather")
    /\ \/ /\ Enter(r, FALSE) /\ Succeeds
          /\ acc' = [acc EXCEPT ![r] = Add(r, Component(Seen(r, "force")))]
       \/ /\ Enter(r, TRUE) /\ Fails
          /\ acc' = [acc EXCEPT ![r] = Scratch(r)]
    /\ UNCHANGED <<setup, calls, solve, mem, cached, messages, valid, prepared,
                   threads, ended>>

-----------------------------------------------------------------------------
(* Pure PM: the gradient of the potential, from the slab and the planes    *)
(* of other ranks it reaches into.                                         *)
HaloRequest(r) ==
    Stage(r, "halo_request",
          [halo |-> [p \in HaloPlan(r) \intersect SlabPlanes(r) |-> mem[r].density],
           needs |-> HaloPlan(r) \ SlabPlanes(r)])

ExchangeRequests ==
    /\ Joint("halo_planes") /\ Proceed
    /\ mem' = [r \in Ranks |->
                  [mem[r] EXCEPT !.asked = {ask \in Ranks \X (0 .. Mesh - 1) :
                                                /\ ask[2] \in mem[ask[1]].needs
                                                /\ OwnerOf(ask[2]) = r}]]
    /\ UNCHANGED <<cached, messages, products, threads>>

HaloResponse(r) == Examine(r, "halo_response",
                           \A x \in mem[r].asked : x[2] \in SlabPlanes(r),
                           [reply |-> mem[r].density])

Reply(r, p) == IF <<r, p>> \in mem[OwnerOf(p)].asked THEN mem[OwnerOf(p)].reply ELSE Torn

ExchangeValues ==
    /\ Joint("halo_values") /\ Proceed
    /\ mem' = [r \in Ranks |->
                  [mem[r] EXCEPT !.halo = Over([p \in mem[r].needs |-> Reply(r, p)], @)]]
    /\ UNCHANGED <<cached, messages, products, threads>>

GradientCheck(r) == Examine(r, "gradient_check",
                            Support(r) \subseteq SlabPlanes(r) \union DOMAIN mem[r].halo,
                            Nothing)

Potential(n) == <<"mass", "potential", n>>
PlaneContent(r, p) == IF p \in SlabPlanes(r) THEN mem[r].density ELSE mem[r].halo[p]

Gradients(r) == IF \A p \in Support(r) : PlaneContent(r, p) = Potential(solve[r])
                THEN <<<<solve[r], 1>>, <<solve[r], 2>>, <<solve[r], 3>>>>
                ELSE <<Torn>>

Gradient(r) == Stage(r, "gradient", [built |-> mem[r].built \o Gradients(r)])

Commit(r) ==
    /\ At(r, "commit")
    /\ Continue(r)
    /\ acc' = [acc EXCEPT ![r] = [p \in DOMAIN @ |-> @[p] \o mem[r].built]]
    /\ UNCHANGED <<setup, calls, solve, mem, cached, messages, valid, prepared,
                   threads, ended>>

-----------------------------------------------------------------------------
(* The energy is a sum over the potential; the kernel of the self-energy   *)
(* is made in the same buffers.                                            *)
WeightedSum(r) == Stage(r, "weighted_sum", [energy |-> Seen(r, "density")])

LagKernel ==
    /\ Joint("lag_kernel") /\ Proceed
    /\ Everywhere([kernel |-> TRUE,
                   lags |-> IF \A r \in Ranks : mem[r].density = <<"impulse", "potential", solve[r]>>
                            THEN <<"impulse">> ELSE Torn])
    /\ UNCHANGED <<cached, messages, products, threads>>

SelfEnergy(r) == Stage(r, "self_energy", [self |-> mem[r].lags])

-----------------------------------------------------------------------------
(* TreePM's short-range walk: the owned particles in contiguous chunks,    *)
(* taken by the threads of the rank as they become free.                   *)
ChunkCount(r) == Min({Owned[r], ChunksPerWorker * Workers})

ChunkStart(r, c) ==
    (c - 1) * (Owned[r] \div ChunkCount(r)) + Min({c - 1, Owned[r] % ChunkCount(r)})
ChunkSize(r, c) == ChunkStart(r, c + 1) - ChunkStart(r, c)

Running(r) == {c \in DOMAIN chunk[r] : chunk[r][c] = "running"}

BuildTree(r) ==
    /\ At(r, "tree")
    /\ \/ /\ Continue(r)
          /\ chunk' = [chunk EXCEPT ![r] = [c \in 1 .. ChunkCount(r) |-> "waiting"]]
          /\ place' = [place EXCEPT ![r] = [c \in 1 .. ChunkCount(r) |-> 0]]
          /\ flag' = [flag EXCEPT ![r] = FALSE]
       \/ Throw(r) /\ Fails /\ UNCHANGED threads
    /\ UNCHANGED <<setup, calls, solve, mem, cached, messages, products, ended>>

Walking(r, c, state) == At(r, "walk") /\ chunk[r][c] = state
Turn(r, c, state) == chunk' = [chunk EXCEPT ![r][c] = state]
WalkOnly == UNCHANGED <<setup, calls, solve, todo, waiting, error, mem, cached,
                        messages, valid, prepared, ended>>

TakeChunk(r, c) == /\ Walking(r, c, "waiting")
                   /\ Cardinality(Running(r)) < Workers
                   /\ Turn(r, c, "running")
                   /\ UNCHANGED <<acc, place, flag, failures>> /\ WalkOnly

(* The flag is read with relaxed order: a thread may see it late.          *)
SkipChunk(r, c) == /\ Walking(r, c, "waiting") \/ Walking(r, c, "running")
                   /\ flag[r]
                   /\ Turn(r, c, "done")
                   /\ UNCHANGED <<acc, place, flag, failures>> /\ WalkOnly

WalkOne(r, c) ==
    /\ Walking(r, c, "running")
    /\ place[r][c] < ChunkSize(r, c)
    /\ acc' = [acc EXCEPT ![r][ChunkStart(r, c) + place[r][c] + 1] =
                             Append(@, <<solve[r], Short>>)]
    /\ place' = [place EXCEPT ![r][c] = @ + 1]
    /\ UNCHANGED <<chunk, flag, failures>> /\ WalkOnly

FinishChunk(r, c) == /\ Walking(r, c, "running")
                     /\ place[r][c] = ChunkSize(r, c)
                     /\ Turn(r, c, "done")
                     /\ UNCHANGED <<acc, place, flag, failures>> /\ WalkOnly

(* A thread that fails raises the flag first and stores its exception      *)
(* afterwards.                                                             *)
RaiseFlag(r, c) == /\ Walking(r, c, "running")
                   /\ place[r][c] < ChunkSize(r, c)
                   /\ Fails
                   /\ Turn(r, c, "failing")
                   /\ flag' = [flag EXCEPT ![r] = TRUE]
                   /\ UNCHANGED <<acc, place>> /\ WalkOnly

StoreException(r, c) == /\ Walking(r, c, "failing")
                        /\ Turn(r, c, "failed")
                        /\ UNCHANGED <<acc, place, flag, failures>> /\ WalkOnly

Forgotten(r) == FALSE                                            \* fault
WorkerException(r) == \E c \in DOMAIN chunk[r] : chunk[r][c] = "failed"

Join(r) ==
    /\ At(r, "walk")
    /\ \A c \in DOMAIN chunk[r] : chunk[r][c] \in {"done", "failed"}
    /\ IF WorkerException(r) THEN Throw(r) /\ Succeeds ELSE Continue(r)
    /\ chunk' = [chunk EXCEPT ![r] = <<>>]
    /\ place' = [place EXCEPT ![r] = <<>>]
    /\ UNCHANGED <<setup, calls, solve, mem, cached, messages, products, flag, ended>>

-----------------------------------------------------------------------------
(* Rank 0 prints the report.                                               *)
Emit(r) ==
    /\ At(r, "emit")
    /\ \/ Continue(r)
       \/ r = 0 /\ "emit" \in Unprotected /\ Throw(r) /\ Fails
    /\ UNCHANGED <<setup, calls, solve, mem, cached, messages, products, threads, ended>>

Validate(r) ==
    /\ At(r, "validate")
    /\ Continue(r)
    /\ valid' = [valid EXCEPT ![r] = TRUE]
    /\ UNCHANGED <<setup, calls, solve, mem, cached, messages, acc, prepared,
                   threads, ended>>

(* No rank publishes a force before every rank's callback returned.        *)
Publish ==
    /\ Joint("callback") /\ Proceed
    /\ valid' = [r \in Ranks |-> TRUE]
    /\ prepared' = [r \in Ranks |-> solve[r]]
    /\ UNCHANGED <<mem, cached, messages, acc, threads>>

Done == /\ \A r \in Ranks : todo[r] = <<>> /\ calls[r] = <<>>
        /\ UNCHANGED vars

MeshStep(r) == \/ Transaction(r) \/ DepositMass(r) \/ DepositImpulse(r)
               \/ SendSpill(r) \/ ReceiveSpill(r) \/ DensityValid(r)
               \/ MassConserved(r) \/ ImpulseConserved(r) \/ Source(r)
               \/ Forward(r) \/ AxisModes(r) \/ SendPlane(r) \/ ReceivePlane(r)
               \/ AxisGather(r) \/ HaloRequest(r) \/ HaloResponse(r)
               \/ GradientCheck(r) \/ Gradient(r) \/ Commit(r)
               \/ WeightedSum(r) \/ SelfEnergy(r)

WalkStep(r, c) == \/ TakeChunk(r, c) \/ SkipChunk(r, c) \/ WalkOne(r, c)
                  \/ FinishChunk(r, c) \/ RaiseFlag(r, c) \/ StoreException(r, c)

RankStep(r) == \/ Call(r) \/ Check(r) \/ Arrive(r) \/ Prepare(r) \/ Migrate(r)
               \/ Materialize(r) \/ SetUp(r) \/ PublishLayout(r) \/ KeepWorkspace(r)
               \/ MeshStep(r) \/ BuildTree(r) \/ Join(r) \/ Emit(r) \/ Validate(r)
               \/ \E c \in DOMAIN chunk[r] : WalkStep(r, c)

Meeting == \/ Agree \/ ForwardTransform \/ InverseTransform \/ AxisTransform
           \/ ExchangeRequests \/ ExchangeValues \/ LagKernel \/ Publish

Next == (\E r \in Ranks : RankStep(r)) \/ Meeting \/ Done

Spec == Init /\ [][Next]_vars

-----------------------------------------------------------------------------
(* "Callbacks that perform collectives must synchronize their own internal *)
(* stages": two ranks inside a collective are inside the same one, through *)
(* every failure, and in a later call after it.                            *)
CollectivesMeet ==
    \A q, r \in Ranks : waiting[q] /\ waiting[r] => Head(todo[q]) = Head(todo[r])

(* An acceleration marked valid is the whole force of this solve, each     *)
(* term once; and a force is only ever published for a scale factor when   *)
(* the particles of every rank have it.                                    *)
Complete(r, n) ==
    \A p \in DOMAIN acc[r] : acc[r][p] = [k \in 1 .. (IF Tree THEN 4 ELSE 3) |-> <<n, k>>]

ValidForceIsComplete ==
    /\ \A r \in Ranks : valid[r] => Complete(r, solve[r])
    /\ \A r \in Ranks : prepared[r] # 0 => \A q \in Ranks : Complete(q, prepared[r])

(* An energy a call returns was summed over the potential of the last      *)
(* solve, neighbour's plane included, and its self-energy over the kernel  *)
(* of an impulse, although both are made in the same memory.               *)
EnergyIsOfItsSolve ==
    \A r \in Ranks : ended[r] = "returned" =>
        /\ mem[r].energy \in {<<>>, Potential(solve[r])}
        /\ mem[r].self \in {<<>>, <<"impulse">>}
=============================================================================
