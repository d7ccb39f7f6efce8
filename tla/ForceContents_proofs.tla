------------------------- MODULE ForceContents_proofs -------------------------
(***************************************************************************)
(* An acceleration that is declared valid is whole, and an energy that is  *)
(* returned was summed over what it claims, for every mesh, every number   *)
(* of ranks and particles, every list of solves and measurements and all   *)
(* failures inside the stages.                                             *)
(*                                                                         *)
(* What a buffer holds before a step follows from the steps still to come  *)
(* (Planned, in ForcePipeline_proofs).  MeshAt, BuiltHolds and AccHolds    *)
(* say so of the mesh, of the acceleration under construction and of the   *)
(* one of the particles.  A rank that waits in a stage has done its work   *)
(* already: Ahead is what is left of it.  Planes are matched by order      *)
(* alone: Match relates the two lists of neighbours to what is under way   *)
(* between them.  ValidHolds is what the flags promise, and why no rank    *)
(* can still break it.  Of the energies, EnergyAt says which potential,    *)
(* kernel and sums a rank has, by the steps that are left (Summed),        *)
(* PlaneOf whose potential is under way, and ResultAt what is returned.    *)
(***************************************************************************)
EXTENDS ForcePipeline_proofs

-----------------------------------------------------------------------------
(* The steps whose effect is still to come.                                *)
Ahead(r) == IF waiting[r] /\ Head(todo[r]) \notin JointSteps THEN Tail(todo[r]) ELSE todo[r]

(* The fields of a rank's memory, the first k terms of solve n, and how    *)
(* many of the first n calls are solves.                                   *)
Fields == DOMAIN EmptyMemory
Terms(n, k) == [i \in 1 .. k |-> <<n, i>>]
Solves(n) == Cardinality({j \in 1 .. n : setup.calls[j] = "solve"})

ForceTypes ==
    /\ solve \in [Ranks -> Nat]
    /\ prepared \in [Ranks -> Nat] /\ valid \in [Ranks -> BOOLEAN]
    /\ DOMAIN acc = Ranks /\ DOMAIN planes = Ranks /\ DOMAIN chunk = Ranks
    /\ DOMAIN place = Ranks /\ flag \in [Ranks -> BOOLEAN]
    /\ \A r \in Ranks : DOMAIN mem[r] = Fields
    /\ \A r \in Ranks : DOMAIN acc[r] = 1 .. Owned[r]

(* An exception that is not on its way out waits to be compared.           *)
Calm == \A r \in Ranks : error[r] => waiting[r]

ListsPlanned == \A r \in Ranks : Planned(todo[r]) /\ Rooted(todo[r])

(* The number of a solve is the one of its call.                           *)
Numbered == \A r \in Ranks :
    solve[r] + (IF "prepare" \in Due(Ahead(r)) THEN 1 ELSE 0) = Solves(Made(r))

(* What the two fields that are sent stand for is decided for all ranks.   *)
Alike == \A q, r \in Ranks : mem[q].phi = mem[r].phi /\ mem[q].force = mem[r].force

(* A list that begins with a plane to send or to receive.                  *)
Exchanging(steps) == /\ steps # <<>>
                     /\ Head(steps) \in Sends \union {"receive_plane"}
ToSend(steps) == steps # <<>> /\ Head(steps) \in Sends
ForceAhead(steps) == \/ Head(steps) = "send_force_plane"
                     \/ Head(steps) = "receive_plane" /\ steps[2] = "axis_gather"

(* A list and its right neighbour's, and what is under way to it.          *)
Match(t, tq, sent, force, q) ==
    /\ ToSend(tq) => t = tq \/ t = Tail(tq)
    /\ IF Exchanging(t) /\ ~ ToSend(tq) THEN sent = <<Head(sent)>> ELSE sent = <<>>
    /\ sent # <<>> /\ ForceAhead(t) => sent = <<Append(force, q)>>

PlanesMatch == \A r \in Ranks :
    Match(todo[r], todo[Right(r)], planes[r], mem[r].force, Right(r))

(* What the mesh of a rank holds before step h, with g gathers to come.    *)
MeshAt(h, gathers, g, m, n, r) ==
    /\ h \in Raw => m.density = Torn \/ \E x \in {"own", "whole"} : m.density = <<"mass", x, n>>
    /\ h \in Massed => m.density = <<"mass", IF Size = 1 THEN "own" ELSE "whole", n>>
    /\ h = "forward" => m.density = <<"mass", "source", n>>
    /\ h \in {"modes_finite", "inverse", "axis_inverse"} \union Between \union Forced
          => m.phi = <<"mass", "phi", n>>
    /\ gathers /\ h \in Region => g <= 3
    /\ gathers /\ h \in Raw \union Massed \union Between \union {"forward", "modes_finite"}
          => m.axis = 3 - g
    /\ gathers /\ h = "axis_inverse" => m.axis = 4 - g /\ m.modes = <<"mass", "axis", n, 4 - g>>
    /\ gathers /\ h \in Forced => m.axis = 4 - g /\ m.force = <<"mass", "force", n, 4 - g>>
    /\ gathers /\ h = "axis_gather" /\ Size # 1 => m.right = Append(m.force, Right(r))
    /\ h \in Known => m.density = Potential(n)
    /\ h \in Asking \union Answering \union Answered /\ Size # 1
          => \A p \in DOMAIN m.halo : m.halo[p] = Potential(n)
    /\ h \in Asking \union Answering => m.needs \subseteq 0 .. Mesh - 1
    /\ h = "halo_values" => m.reply = Potential(n)
    /\ h = "gradient" /\ Size # 1 => Support(r) \subseteq SlabPlanes(r) \union DOMAIN m.halo

MeshHolds(steps, m, n, r) ==
    Needed(steps) => MeshAt(Head(steps), "axis_gather" \in Due(steps), Gathers(steps), m, n, r)

(* The acceleration a PM solve builds beside the published one.            *)
BuiltHolds(steps, m, n) ==
    /\ "gradient" \in Due(steps) /\ "transaction" \notin Due(steps) => m.built = <<>>
    /\ "commit" \in Due(steps) /\ "gradient" \notin Due(steps) => m.built = Terms(n, 3)

Has(a, terms) == \A p \in DOMAIN a : a[p] = terms

(* The accelerations of the particles, before each step that writes them   *)
(* and after the last.                                                     *)
AccHolds(steps, a, n) ==
    "callback" \in Due(steps) /\ "materialize" \notin Due(steps) /\ "set_up" \notin Due(steps) =>
        /\ "walk" \in Due(steps) /\ Head(steps) # "walk" => Has(a, Terms(n, 3 - Gathers(steps)))
        /\ "commit" \in Due(steps) => Has(a, Terms(n, 0))
        /\ "walk" \notin Due(steps) /\ "commit" \notin Due(steps)
             => Has(a, Terms(n, IF Tree THEN 4 ELSE 3))

(* All of it, of every rank that has not thrown.                           *)
Contents == \A r \in Ranks : ~ error[r] =>
    /\ MeshHolds(Ahead(r), mem[r], solve[r], r)
    /\ BuiltHolds(Ahead(r), mem[r], solve[r])
    /\ AccHolds(Ahead(r), acc[r], solve[r])

(* A rank that will be answered has asked the owners of what it needs.     *)
AskedFor == \A r \in Ranks : ~ error[r] /\ Needed(Ahead(r)) /\ Head(Ahead(r)) \in Answering =>
    \A p \in mem[r].needs : <<r, p>> \in mem[OwnerOf(p)].asked

(* What the chunks of a walk have done to the accelerations.               *)
WalkAt(r, states, places, raised, a, n) ==
    /\ DOMAIN states = 1 .. ChunkCount(r) /\ DOMAIN places = 1 .. ChunkCount(r)
    /\ raised => \E c \in DOMAIN states : states[c] \in {"failing", "failed"}
    /\ \A c \in DOMAIN states :
         /\ places[c] \in 0 .. ChunkSize(r, c)
         /\ states[c] = "done" => places[c] = ChunkSize(r, c) \/ raised
         /\ \A k \in 0 .. ChunkSize(r, c) - 1 :
              a[Particle(r, c, k)] = Terms(n, IF k < places[c] THEN 4 ELSE 3)

WalkHolds == \A r \in Ranks :
    StepOf(r) = "walk" => WalkAt(r, chunk[r], place[r], flag[r], acc[r], solve[r])

(* What writes accelerations, and a list that will not, or not before the  *)
(* flags are taken back.                                                   *)
Changers == {"migrate", "materialize", "set_up", "axis_gather", "walk", "commit"}
Settled(steps) == Changers \intersect Due(steps) = {} \/ "prepare" \in Due(steps)

(* What a flag of a rank says of that rank, and the number that stands for *)
(* a prepared force of all of them.                                        *)
ValidHolds ==
    /\ \A r \in Ranks : valid[r] => Complete(r, solve[r]) /\ Settled(Ahead(r))
    /\ \A r \in Ranks : prepared[r] # 0 =>
          \A q \in Ranks : Complete(q, prepared[r]) /\ Settled(todo[q])
    /\ \A r \in Ranks : waiting[r] /\ Head(todo[r]) = "prepare" => prepared[r] = 0

ForceInv == /\ ForceTypes /\ Calm /\ ListsPlanned /\ Numbered /\ Alike /\ PlanesMatch
            /\ Contents /\ AskedFor /\ WalkHolds /\ ValidHolds
-----------------------------------------------------------------------------
(* What a step of a rank writes.                                           *)
Written(s) ==
    CASE s \in Keeping -> {"workspace"}
      [] s \in {"transaction", "gradient"} -> {"built"}
      [] s \in {"deposit", "impulse"} -> {"density", "out", "axis"}
      [] s \in {"receive_spill", "source"} -> {"density"}
      [] s \in {"density_valid", "impulse_conserved"} -> {"ready"}
      [] s = "axis_modes" -> {"modes", "axis"}
      [] s \in Sends -> {"out"}
      [] s = "receive_plane" -> {"right"}
      [] s = "halo_request" -> {"halo", "needs"}
      [] s = "halo_response" -> {"reply"}
      [] s = "weighted_sum" -> {"energy"}
      [] s = "self_energy" -> {"self"}
      [] s = "nothing" -> {"energy", "self"}
      [] OTHER -> {}

Writes(r, W) == /\ DOMAIN mem' = Ranks
                /\ \A q \in Ranks \ {r} : mem'[q] = mem[q]
                /\ DOMAIN mem'[r] = Fields
                /\ \A f \in Fields \ W : mem'[r][f] = mem[r][f]

Elsewhere(r) == \A q \in Ranks \ {r} :
    /\ solve'[q] = solve[q] /\ acc'[q] = acc[q] /\ valid'[q] = valid[q]
    /\ prepared'[q] = prepared[q] /\ chunk'[q] = chunk[q] /\ place'[q] = place[q]
    /\ flag'[q] = flag[q]

Frame(r) ==
    /\ setup' = setup /\ Elsewhere(r) /\ Writes(r, Written(StepOf(r))) /\ ForceTypes'
    /\ solve'[r] = solve[r] + (IF StepOf(r) = "prepare" THEN 1 ELSE 0)
    /\ valid'[r] = IF StepOf(r) = "prepare" THEN FALSE
                   ELSE IF StepOf(r) = "validate" THEN TRUE ELSE valid[r]
    /\ prepared'[r] = IF StepOf(r) = "prepare" THEN 0 ELSE prepared[r]
    /\ StepOf(r) \notin Changers => acc'[r] = acc[r]
    /\ StepOf(r) \notin Sends \union {"receive_plane"} => planes' = planes

(* A step that touches its memory alone.                                   *)
Privately == /\ setup' = setup /\ solve' = solve /\ acc' = acc /\ valid' = valid
             /\ prepared' = prepared /\ planes' = planes /\ chunk' = chunk
             /\ place' = place /\ flag' = flag

LEMMA FieldNames ==
    Fields = {"workspace", "ready", "kernel", "density", "out", "right", "phi", "modes", "force",
              "axis", "needs", "asked", "reply", "halo", "built", "lags", "energy", "self"}
  BY DEF Fields, EmptyMemory

LEMMA KeepWrites ==
    ASSUME PipelineTypes, ForceTypes, NEW r \in Ranks, NEW b, Keep(r, b), DOMAIN b \subseteq Fields
    PROVE  /\ Writes(r, DOMAIN b) /\ \A f \in DOMAIN b : mem'[r][f] = b[f]
           /\ mem'[r] = Over(b, mem[r])
 <1>1. DOMAIN mem = Ranks /\ DOMAIN mem[r] = Fields
   BY DEF PipelineTypes, ForceTypes
 <1>2. mem'[r] = Over(b, mem[r]) /\ DOMAIN mem' = Ranks
       /\ \A q \in Ranks \ {r} : mem'[q] = mem[q]
   BY <1>1 DEF Keep
 <1>3. DOMAIN b \union DOMAIN mem[r] = Fields
   BY <1>1
 <1>4. /\ DOMAIN Over(b, mem[r]) = Fields
       /\ \A f \in Fields : Over(b, mem[r])[f] = IF f \in DOMAIN b THEN b[f] ELSE mem[r][f]
   BY <1>3 DEF Over
 <1> QED  BY <1>2, <1>4 DEF Writes

LEMMA NothingWritten ==
    ASSUME PipelineTypes, ForceTypes, NEW r \in Ranks, NEW W, mem' = mem
    PROVE  Writes(r, W)
  BY DEF Writes, PipelineTypes, ForceTypes

LEMMA MoreWritten ==
    ASSUME NEW r, NEW V, NEW W, Writes(r, V), V \subseteq W
    PROVE  Writes(r, W)
  BY DEF Writes

LEMMA PrivateFrame ==
    ASSUME PipelineTypes, ForceTypes, NEW r \in Ranks, Privately,
           Writes(r, Written(StepOf(r))), StepOf(r) # "prepare", StepOf(r) # "validate"
    PROVE  Frame(r)
 <1>1. Ranks' = Ranks
   BY DEF Privately, Ranks, Size
 <1>2. Elsewhere(r)
   BY DEF Privately, Elsewhere
 <1>3. \A q \in Ranks : DOMAIN mem'[q] = Fields
   BY DEF Writes, ForceTypes
 <1>4. Fields' = Fields
   BY DEF Fields, EmptyMemory
 <1>5. ForceTypes'
   BY <1>1, <1>3, <1>4 DEF ForceTypes, Privately
 <1>6. solve[r] \in Nat
   BY DEF ForceTypes
 <1> QED  BY <1>2, <1>5, <1>6 DEF Frame, Privately

LEMMA StageFrame ==
    ASSUME PipelineTypes, ForceTypes, NEW r \in Ranks, NEW s, NEW b, Stage(r, s, b),
           DOMAIN b = Written(s), DOMAIN b \subseteq Fields, s # "prepare", s # "validate"
    PROVE  Frame(r)
 <1>1. StepOf(r) = s
   BY DEF Stage, At, StepOf
 <1>2. Privately
   BY DEF Stage, Privately, messages, products, threads
 <1> DEFINE c == Spoil(b)
 <1>3. DOMAIN c = DOMAIN b
   BY DEF Spoil
 <1>4. Keep(r, b) \/ Keep(r, c)
   BY DEF Stage
 <1> HIDE DEF c
 <1>5. Writes(r, Written(s))
  <2>1. CASE Keep(r, b)
   <3>1. Writes(r, DOMAIN b)
     BY <2>1, KeepWrites
   <3> QED  BY <3>1
  <2>2. CASE Keep(r, c)
   <3>1. DOMAIN c \subseteq Fields
     BY <1>3
   <3>2. Writes(r, DOMAIN c)
     BY <2>2, <3>1, KeepWrites
   <3> QED  BY <1>3, <3>2
  <2> QED  BY <1>4, <2>1, <2>2
 <1> QED  BY <1>1, <1>2, <1>5, PrivateFrame

LEMMA ExamineFrame ==
    ASSUME PipelineTypes, ForceTypes, NEW r \in Ranks, NEW s, NEW b, NEW good,
           Examine(r, s, good, b),
           DOMAIN b = Written(s), DOMAIN b \subseteq Fields, s # "prepare", s # "validate"
    PROVE  Frame(r)
 <1>1. StepOf(r) = s
   BY DEF Examine, At, StepOf
 <1>2. Privately
   BY DEF Examine, Privately, messages, products, threads
 <1>3. Writes(r, DOMAIN b)
   BY KeepWrites DEF Examine
 <1>4. Writes(r, Written(StepOf(r)))
   BY <1>1, <1>3
 <1> QED  BY <1>1, <1>2, <1>4, PrivateFrame

LEMMA UnwrittenFrame ==
    ASSUME PipelineTypes, ForceTypes, NEW r \in Ranks, Privately, mem' = mem,
           StepOf(r) # "prepare", StepOf(r) # "validate"
    PROVE  Frame(r)
 <1>1. Writes(r, Written(StepOf(r)))
   BY NothingWritten
 <1> QED  BY <1>1, PrivateFrame
-----------------------------------------------------------------------------
(* Every step of a rank stays within its frame.                            *)
LEMMA WrittenBy ==
    /\ Written("ready") = {"workspace"} /\ Written("private") = {"workspace"}
    /\ Written("transaction") = {"built"} /\ Written("gradient") = {"built"}
    /\ Written("deposit") = {"density", "out", "axis"}
    /\ Written("impulse") = {"density", "out", "axis"}
    /\ Written("receive_spill") = {"density"} /\ Written("source") = {"density"}
    /\ Written("density_valid") = {"ready"} /\ Written("impulse_conserved") = {"ready"}
    /\ Written("mass_conserved") = {} /\ Written("forward") = {}
    /\ Written("gradient_check") = {}
    /\ Written("axis_modes") = {"modes", "axis"}
    /\ Written("send_force_plane") = {"out"} /\ Written("send_potential_plane") = {"out"}
    /\ Written("receive_plane") = {"right"} /\ Written("halo_request") = {"halo", "needs"}
    /\ Written("halo_response") = {"reply"} /\ Written("weighted_sum") = {"energy"}
    /\ Written("self_energy") = {"self"} /\ Written("nothing") = {"energy", "self"}
  BY DEF Written, Keeping, Sends

LEMMA StagesStay ==
    ASSUME PipelineTypes, ForceTypes, NEW r \in Ranks,
           \/ Transaction(r) \/ DepositMass(r) \/ DepositImpulse(r) \/ Source(r)
           \/ AxisModes(r) \/ HaloRequest(r) \/ Gradient(r) \/ WeightedSum(r)
           \/ SelfEnergy(r)
    PROVE  Frame(r)
 <1>1. ASSUME Transaction(r)  PROVE Frame(r)
  <2> DEFINE b == [built |-> <<>>]
  <2>1. Stage(r, "transaction", b)
    BY <1>1 DEF Transaction
  <2>2. DOMAIN b = Written("transaction") /\ DOMAIN b \subseteq Fields
    BY WrittenBy, FieldNames
  <2> HIDE DEF b
  <2> QED  BY <2>1, <2>2, StageFrame
 <1>2. ASSUME DepositMass(r)  PROVE Frame(r)
  <2> DEFINE b == [density |-> <<"mass", "own", solve[r]>>,
                out |-> <<"mass", "spill", solve[r], r>>, axis |-> 0]
  <2>1. Stage(r, "deposit", b)
    BY <1>2 DEF Deposit, DepositMass
  <2>2. DOMAIN b = Written("deposit") /\ DOMAIN b \subseteq Fields
    BY WrittenBy, FieldNames
  <2> HIDE DEF b
  <2> QED  BY <2>1, <2>2, StageFrame
 <1>3. ASSUME DepositImpulse(r)  PROVE Frame(r)
  <2> DEFINE b == [density |-> <<"impulse", "own", solve[r]>>,
                out |-> <<"impulse", "spill", solve[r], r>>, axis |-> 0]
  <2>1. Stage(r, "impulse", b)
    BY <1>3 DEF Deposit, DepositImpulse
  <2>2. DOMAIN b = Written("impulse") /\ DOMAIN b \subseteq Fields
    BY WrittenBy, FieldNames
  <2> HIDE DEF b
  <2> QED  BY <2>1, <2>2, StageFrame
 <1>4. ASSUME Source(r)  PROVE Frame(r)
  <2> DEFINE b == [density |-> IF Whole(r) THEN As(mem[r].density, "source") ELSE Torn]
  <2>1. Stage(r, "source", b)
    BY <1>4 DEF Source
  <2>2. DOMAIN b = Written("source") /\ DOMAIN b \subseteq Fields
    BY WrittenBy, FieldNames
  <2> HIDE DEF b
  <2> QED  BY <2>1, <2>2, StageFrame
 <1>5. ASSUME AxisModes(r)  PROVE Frame(r)
  <2> DEFINE b == [modes |-> IF Is(mem[r].phi, "phi")
                         THEN Append(As(mem[r].phi, "axis"), mem[r].axis + 1) ELSE Torn,
                axis |-> mem[r].axis + 1]
  <2>1. Stage(r, "axis_modes", b)
    BY <1>5 DEF AxisModes
  <2>2. DOMAIN b = Written("axis_modes") /\ DOMAIN b \subseteq Fields
    BY WrittenBy, FieldNames
  <2> HIDE DEF b
  <2> QED  BY <2>1, <2>2, StageFrame
 <1>6. ASSUME HaloRequest(r)  PROVE Frame(r)
  <2> DEFINE b == [halo |-> [p \in HaloPlan(r) \intersect SlabPlanes(r) |-> mem[r].density],
                needs |-> HaloPlan(r) \ SlabPlanes(r)]
  <2>1. Stage(r, "halo_request", b)
    BY <1>6 DEF HaloRequest
  <2>2. DOMAIN b = Written("halo_request") /\ DOMAIN b \subseteq Fields
    BY WrittenBy, FieldNames
  <2> HIDE DEF b
  <2> QED  BY <2>1, <2>2, StageFrame
 <1>7. ASSUME Gradient(r)  PROVE Frame(r)
  <2> DEFINE b == [built |-> mem[r].built \o Gradients(r)]
  <2>1. Stage(r, "gradient", b)
    BY <1>7 DEF Gradient
  <2>2. DOMAIN b = Written("gradient") /\ DOMAIN b \subseteq Fields
    BY WrittenBy, FieldNames
  <2> HIDE DEF b
  <2> QED  BY <2>1, <2>2, StageFrame
 <1>8. ASSUME WeightedSum(r)  PROVE Frame(r)
  <2> DEFINE b == [energy |-> Seen(r, "density")]
  <2>1. Stage(r, "weighted_sum", b)
    BY <1>8 DEF WeightedSum
  <2>2. DOMAIN b = Written("weighted_sum") /\ DOMAIN b \subseteq Fields
    BY WrittenBy, FieldNames
  <2> HIDE DEF b
  <2> QED  BY <2>1, <2>2, StageFrame
 <1>9. ASSUME SelfEnergy(r)  PROVE Frame(r)
  <2> DEFINE b == [self |-> mem[r].lags]
  <2>1. Stage(r, "self_energy", b)
    BY <1>9 DEF SelfEnergy
  <2>2. DOMAIN b = Written("self_energy") /\ DOMAIN b \subseteq Fields
    BY WrittenBy, FieldNames
  <2> HIDE DEF b
  <2> QED  BY <2>1, <2>2, StageFrame
 <1> QED  BY <1>1, <1>2, <1>3, <1>4, <1>5, <1>6, <1>7, <1>8, <1>9

LEMMA ExaminationsStay ==
    ASSUME PipelineTypes, ForceTypes, NEW r \in Ranks,
           \/ DensityValid(r) \/ MassConserved(r) \/ ImpulseConserved(r) \/ Forward(r)
           \/ HaloResponse(r) \/ GradientCheck(r) \/ KeepWorkspace(r)
    PROVE  Frame(r)
 <1>1. ASSUME DensityValid(r)  PROVE Frame(r)
  <2> DEFINE b == [ready |-> TRUE]
             g == TRUE
  <2>1. Examine(r, "density_valid", g, b)
    BY <1>1 DEF DensityValid
  <2>2. DOMAIN b = Written("density_valid") /\ DOMAIN b \subseteq Fields
    BY WrittenBy, FieldNames DEF Nothing
  <2> HIDE DEF b, g
  <2> QED  BY <2>1, <2>2, ExamineFrame
 <1>2. ASSUME MassConserved(r)  PROVE Frame(r)
  <2> DEFINE b == Nothing
             g == Whole(r)
  <2>1. Examine(r, "mass_conserved", g, b)
    BY <1>2 DEF MassConserved
  <2>2. DOMAIN b = Written("mass_conserved") /\ DOMAIN b \subseteq Fields
    BY WrittenBy, FieldNames DEF Nothing
  <2> HIDE DEF b, g
  <2> QED  BY <2>1, <2>2, ExamineFrame
 <1>3. ASSUME ImpulseConserved(r)  PROVE Frame(r)
  <2> DEFINE b == [ready |-> TRUE]
             g == Whole(r)
  <2>1. Examine(r, "impulse_conserved", g, b)
    BY <1>3 DEF ImpulseConserved
  <2>2. DOMAIN b = Written("impulse_conserved") /\ DOMAIN b \subseteq Fields
    BY WrittenBy, FieldNames DEF Nothing
  <2> HIDE DEF b, g
  <2> QED  BY <2>1, <2>2, ExamineFrame
 <1>4. ASSUME Forward(r)  PROVE Frame(r)
  <2> DEFINE b == Nothing
             g == mem[r].ready
  <2>1. Examine(r, "forward", g, b)
    BY <1>4 DEF Forward
  <2>2. DOMAIN b = Written("forward") /\ DOMAIN b \subseteq Fields
    BY WrittenBy, FieldNames DEF Nothing
  <2> HIDE DEF b, g
  <2> QED  BY <2>1, <2>2, ExamineFrame
 <1>5. ASSUME HaloResponse(r)  PROVE Frame(r)
  <2> DEFINE b == [reply |-> mem[r].density]
             g == \A x \in mem[r].asked : x[2] \in SlabPlanes(r)
  <2>1. Examine(r, "halo_response", g, b)
    BY <1>5 DEF HaloResponse
  <2>2. DOMAIN b = Written("halo_response") /\ DOMAIN b \subseteq Fields
    BY WrittenBy, FieldNames DEF Nothing
  <2> HIDE DEF b, g
  <2> QED  BY <2>1, <2>2, ExamineFrame
 <1>6. ASSUME GradientCheck(r)  PROVE Frame(r)
  <2> DEFINE b == Nothing
             g == Support(r) \subseteq SlabPlanes(r) \union DOMAIN mem[r].halo
  <2>1. Examine(r, "gradient_check", g, b)
    BY <1>6 DEF GradientCheck
  <2>2. DOMAIN b = Written("gradient_check") /\ DOMAIN b \subseteq Fields
    BY WrittenBy, FieldNames DEF Nothing
  <2> HIDE DEF b, g
  <2> QED  BY <2>1, <2>2, ExamineFrame
 <1>7. ASSUME KeepWorkspace(r)  PROVE Frame(r)
  <2> DEFINE b == [workspace |-> TRUE]
  <2>1. PICK s \in {"ready", "private"} : Examine(r, s, TRUE, b)
    BY <1>7 DEF KeepWorkspace
  <2>2. DOMAIN b = Written(s) /\ DOMAIN b \subseteq Fields /\ s # "prepare" /\ s # "validate"
    BY WrittenBy, FieldNames
  <2> HIDE DEF b
  <2> QED  BY <2>1, <2>2, ExamineFrame
 <1> QED  BY <1>1, <1>2, <1>3, <1>4, <1>5, <1>6, <1>7

LEMMA PlainStepsStay ==
    ASSUME PipelineTypes, ForceTypes, NEW r \in Ranks,
           Check(r) \/ Arrive(r) \/ PublishLayout(r) \/ Emit(r) \/ SendSpill(r) \/ ReceiveSpill(r)
    PROVE  Frame(r)
 <1>1. ASSUME Check(r)  PROVE Frame(r)
  <2>1. PICK s \in Checks : At(r, s)
    BY <1>1 DEF Check
  <2>2. StepOf(r) \in Checks
    BY <2>1 DEF At, StepOf
  <2>3. "prepare" \notin Checks /\ "validate" \notin Checks
    BY DEF Checks
  <2>4. Privately /\ mem' = mem
    BY <1>1 DEF Check, Privately, messages, products, threads
  <2> QED  BY <2>2, <2>3, <2>4, UnwrittenFrame
 <1>2. ASSUME Arrive(r)  PROVE Frame(r)
  <2>1. StepOf(r) \in {"axis_inverse", "halo_planes", "halo_values", "lag_kernel"}
    BY <1>2 DEF Arrive, At, StepOf
  <2>2. Privately /\ mem' = mem
    BY <1>2 DEF Arrive, Privately, messages, products, threads
  <2> QED  BY <2>1, <2>2, UnwrittenFrame
 <1>3. ASSUME PublishLayout(r)  PROVE Frame(r)
  <2>1. StepOf(r) = "publish_layout"
    BY <1>3 DEF PublishLayout, At, StepOf
  <2>2. Privately /\ mem' = mem
    BY <1>3 DEF PublishLayout, Privately, messages, products, threads
  <2> QED  BY <2>1, <2>2, UnwrittenFrame
 <1>4. ASSUME Emit(r)  PROVE Frame(r)
  <2>1. StepOf(r) = "emit"
    BY <1>4 DEF Emit, At, StepOf
  <2>2. Privately /\ mem' = mem
    BY <1>4 DEF Emit, Privately, messages, products, threads
  <2> QED  BY <2>1, <2>2, UnwrittenFrame
 <1>5. ASSUME SendSpill(r)  PROVE Frame(r)
  <2>1. StepOf(r) = "send_spill"
    BY <1>5 DEF SendSpill, At, StepOf
  <2>2. Privately /\ mem' = mem
    BY <1>5 DEF SendSpill, Privately, products, threads
  <2> QED  BY <2>1, <2>2, UnwrittenFrame
 <1>6. ASSUME ReceiveSpill(r)  PROVE Frame(r)
  <2>1. StepOf(r) = "receive_spill"
    BY <1>6 DEF ReceiveSpill, At, StepOf
  <2>2. Privately
    BY <1>6 DEF ReceiveSpill, Privately, products, threads
  <2> DEFINE b == [density |-> IF /\ Is(mem[r].density, "own")
                                  /\ Head(spills[r]) = Append(As(mem[r].density, "spill"), Left(r))
                               THEN As(mem[r].density, "whole") ELSE Torn]
  <2>3. Keep(r, b)
    BY <1>6 DEF ReceiveSpill
  <2>4. DOMAIN b = Written("receive_spill") /\ DOMAIN b \subseteq Fields
    BY WrittenBy, FieldNames
  <2> HIDE DEF b
  <2>5. Writes(r, Written(StepOf(r)))
    BY <2>1, <2>3, <2>4, KeepWrites
  <2> QED  BY <2>1, <2>2, <2>5, PrivateFrame
 <1> QED  BY <1>1, <1>2, <1>3, <1>4, <1>5, <1>6
-----------------------------------------------------------------------------
(* The steps that touch the particles, the planes or the threads.          *)
Only(f, g, r) == DOMAIN g = Ranks /\ \A q \in Ranks \ {r} : g[q] = f[q]

LEMMA OnlyChanged ==
    ASSUME NEW f, NEW g, NEW r \in Ranks, NEW x, DOMAIN f = Ranks, g = [f EXCEPT ![r] = x]
    PROVE  Only(f, g, r) /\ g[r] = x
  BY DEF Only

LEMMA OnlySame ==
    ASSUME NEW f, NEW r, DOMAIN f = Ranks
    PROVE  Only(f, f, r)
  BY DEF Only

LEMMA FrameOf ==
    ASSUME PipelineTypes, ForceTypes, NEW r \in Ranks, setup' = setup,
           Writes(r, Written(StepOf(r))),
           solve' = [solve EXCEPT ![r] = solve[r] + (IF StepOf(r) = "prepare" THEN 1 ELSE 0)],
           Only(acc, acc', r), DOMAIN acc'[r] = 1 .. Owned[r],
           StepOf(r) \notin Changers => acc'[r] = acc[r],
           valid' = [valid EXCEPT ![r] = IF StepOf(r) = "prepare" THEN FALSE
                                         ELSE IF StepOf(r) = "validate" THEN TRUE ELSE valid[r]],
           prepared' = [prepared EXCEPT ![r] = IF StepOf(r) = "prepare" THEN 0 ELSE prepared[r]],
           DOMAIN planes' = Ranks,
           StepOf(r) \notin Sends \union {"receive_plane"} => planes' = planes,
           Only(chunk, chunk', r), Only(place, place', r), Only(flag, flag', r),
           flag' \in [Ranks -> BOOLEAN]
    PROVE  Frame(r)
 <1>1. Ranks' = Ranks
   BY DEF Ranks, Size
 <1>2. /\ solve[r] \in Nat /\ solve \in [Ranks -> Nat] /\ valid \in [Ranks -> BOOLEAN]
       /\ prepared \in [Ranks -> Nat]
   BY DEF ForceTypes
 <1>3. /\ solve'[r] = solve[r] + (IF StepOf(r) = "prepare" THEN 1 ELSE 0)
       /\ \A q \in Ranks \ {r} : solve'[q] = solve[q]
       /\ solve' \in [Ranks -> Nat]
   BY <1>2
 <1>4. /\ valid'[r] = IF StepOf(r) = "prepare" THEN FALSE
                      ELSE IF StepOf(r) = "validate" THEN TRUE ELSE valid[r]
       /\ \A q \in Ranks \ {r} : valid'[q] = valid[q]
       /\ valid' \in [Ranks -> BOOLEAN]
   BY <1>2
 <1>5. /\ prepared'[r] = IF StepOf(r) = "prepare" THEN 0 ELSE prepared[r]
       /\ \A q \in Ranks \ {r} : prepared'[q] = prepared[q]
       /\ prepared' \in [Ranks -> Nat]
   BY <1>2
 <1>6. Elsewhere(r)
   BY <1>3, <1>4, <1>5 DEF Elsewhere, Only
 <1>7. \A q \in Ranks : DOMAIN mem'[q] = Fields
   BY DEF Writes, ForceTypes
 <1>8. Fields' = Fields
   BY DEF Fields, EmptyMemory
 <1>9. \A q \in Ranks : DOMAIN acc'[q] = 1 .. Owned[q]
   BY DEF Only, ForceTypes
 <1>10. DOMAIN acc' = Ranks /\ DOMAIN chunk' = Ranks /\ DOMAIN place' = Ranks
   BY DEF Only
 <1>11. ForceTypes'
   BY <1>1, <1>3, <1>4, <1>5, <1>7, <1>8, <1>9, <1>10 DEF ForceTypes
 <1> QED  BY <1>3, <1>4, <1>5, <1>6, <1>11 DEF Frame

LEMMA ForceSteps ==
    ASSUME PipelineTypes, ForceTypes, NEW r \in Ranks,
           Prepare(r) \/ Migrate(r) \/ Materialize(r) \/ SetUp(r) \/ AxisGather(r) \/ Commit(r)
           \/ Validate(r)
    PROVE  Frame(r)
 <1>0. /\ solve \in [Ranks -> Nat] /\ solve[r] \in Nat
       /\ valid \in [Ranks -> BOOLEAN] /\ prepared \in [Ranks -> Nat]
       /\ flag \in [Ranks -> BOOLEAN]
       /\ DOMAIN acc = Ranks /\ DOMAIN planes = Ranks /\ DOMAIN chunk = Ranks
       /\ DOMAIN place = Ranks /\ DOMAIN acc[r] = 1 .. Owned[r] /\ DOMAIN flag = Ranks
   BY DEF ForceTypes
 <1>1. setup' = setup /\ mem' = mem /\ planes' = planes /\ chunk' = chunk /\ place' = place
       /\ flag' = flag
   BY DEF Prepare, Migrate, Materialize, SetUp, AxisGather, Commit, Validate, messages, threads
 <1>2. Writes(r, Written(StepOf(r)))
   BY <1>1, NothingWritten
 <1>3. Only(chunk, chunk', r) /\ Only(place, place', r) /\ Only(flag, flag', r)
       /\ flag' \in [Ranks -> BOOLEAN] /\ DOMAIN planes' = Ranks
   BY <1>0, <1>1, OnlySame
 <1>4. /\ Only(acc, acc', r) /\ DOMAIN acc'[r] = 1 .. Owned[r]
       /\ StepOf(r) \notin Changers => acc'[r] = acc[r]
  <2>1. acc' = acc \/ (StepOf(r) \in Changers /\ \E a : acc' = [acc EXCEPT ![r] = a]
                                                     /\ DOMAIN a = 1 .. Owned[r])
   <3>1. CASE Prepare(r) \/ Validate(r)
     BY <3>1 DEF Prepare, Validate
   <3>2. CASE Migrate(r)
    <4>1. acc' = [acc EXCEPT ![r] = Scratch(r)] /\ StepOf(r) \in Changers
      BY <3>2 DEF Migrate, At, StepOf, Changers
    <4>2. DOMAIN Scratch(r) = 1 .. Owned[r]
      BY DEF Scratch
    <4> QED  BY <4>1, <4>2
   <3>3. CASE Materialize(r)
    <4>1. PICK a : (acc' = [acc EXCEPT ![r] = a] /\ a \in {acc[r], Zero(r)}) \/ acc' = acc
      BY <3>3 DEF Materialize
    <4>2. DOMAIN Zero(r) = 1 .. Owned[r]
      BY DEF Zero
    <4>3. StepOf(r) \in Changers
      BY <3>3 DEF Materialize, At, StepOf, Changers
    <4> QED  BY <1>0, <4>1, <4>2, <4>3
   <3>4. CASE SetUp(r)
    <4>1. (acc' = [acc EXCEPT ![r] = Zero(r)] \/ acc' = acc) /\ StepOf(r) \in Changers
      BY <3>4 DEF SetUp, At, StepOf, Changers
    <4>2. DOMAIN Zero(r) = 1 .. Owned[r]
      BY DEF Zero
    <4> QED  BY <4>1, <4>2
   <3>5. CASE AxisGather(r)
    <4>1. PICK a : /\ acc' = [acc EXCEPT ![r] = a]
                   /\ a = Scratch(r) \/ a = Add(r, Component(Seen(r, "force")))
      BY <3>5 DEF AxisGather
    <4>2. DOMAIN a = 1 .. Owned[r]
      BY <1>0, <4>1 DEF Scratch, Add
    <4>3. StepOf(r) \in Changers
      BY <3>5 DEF AxisGather, At, StepOf, Changers
    <4> QED  BY <4>1, <4>2, <4>3
   <3>6. CASE Commit(r)
    <4> DEFINE a == [p \in DOMAIN acc[r] |-> acc[r][p] \o mem[r].built]
    <4>1. acc' = [acc EXCEPT ![r] = a]
      BY <1>0, <3>6 DEF Commit
    <4>2. DOMAIN a = 1 .. Owned[r]
      BY <1>0
    <4>3. StepOf(r) \in Changers
      BY <3>6 DEF Commit, At, StepOf, Changers
    <4> HIDE DEF a
    <4> QED  BY <4>1, <4>2, <4>3
   <3> QED  BY <3>1, <3>2, <3>3, <3>4, <3>5, <3>6
  <2>2. CASE acc' = acc
    BY <1>0, <2>2, OnlySame
  <2>3. CASE acc' # acc
   <3>1. PICK a : acc' = [acc EXCEPT ![r] = a] /\ DOMAIN a = 1 .. Owned[r]
     BY <2>1, <2>3
   <3>2. Only(acc, acc', r) /\ acc'[r] = a
     BY <1>0, <3>1, OnlyChanged
   <3> QED  BY <2>1, <2>3, <3>1, <3>2
  <2> QED  BY <2>2, <2>3
 <1>5. CASE Prepare(r)
  <2>1. StepOf(r) = "prepare"
    BY <1>5 DEF Prepare, At, StepOf
  <2>2. /\ solve' = [solve EXCEPT ![r] = solve[r] + 1]
        /\ valid' = [valid EXCEPT ![r] = FALSE] /\ prepared' = [prepared EXCEPT ![r] = 0]
    BY <1>5 DEF Prepare
  <2> QED  BY <1>1, <1>2, <1>3, <1>4, <2>1, <2>2, FrameOf
 <1>6. CASE Validate(r)
  <2>1. StepOf(r) = "validate"
    BY <1>6 DEF Validate, At, StepOf
  <2>2. /\ solve' = solve
        /\ valid' = [valid EXCEPT ![r] = TRUE] /\ prepared' = prepared
    BY <1>6 DEF Validate
  <2>3. /\ solve' = [solve EXCEPT ![r] = solve[r] + 0]
        /\ prepared' = [prepared EXCEPT ![r] = prepared[r]]
    BY <1>0, <2>2
  <2> QED  BY <1>1, <1>2, <1>3, <1>4, <2>1, <2>2, <2>3, FrameOf
 <1>7. CASE Migrate(r) \/ Materialize(r) \/ SetUp(r) \/ AxisGather(r) \/ Commit(r)
  <2>1. StepOf(r) # "prepare" /\ StepOf(r) # "validate"
    BY <1>7 DEF Migrate, Materialize, SetUp, AxisGather, Commit, At, StepOf
  <2>2. solve' = solve /\ valid' = valid /\ prepared' = prepared
    BY <1>7 DEF Migrate, Materialize, SetUp, AxisGather, Commit
  <2>3. /\ solve' = [solve EXCEPT ![r] = solve[r] + 0]
        /\ valid' = [valid EXCEPT ![r] = valid[r]]
        /\ prepared' = [prepared EXCEPT ![r] = prepared[r]]
    BY <1>0, <2>2
  <2> QED  BY <1>1, <1>2, <1>3, <1>4, <2>1, <2>3, FrameOf
 <1> QED  BY <1>5, <1>6, <1>7

LEMMA PlaneSteps ==
    ASSUME PipelineTypes, ForceTypes, NEW r \in Ranks, SendPlane(r) \/ ReceivePlane(r)
    PROVE  Frame(r)
 <1>0. /\ solve \in [Ranks -> Nat] /\ solve[r] \in Nat
       /\ valid \in [Ranks -> BOOLEAN] /\ prepared \in [Ranks -> Nat]
       /\ flag \in [Ranks -> BOOLEAN]
       /\ DOMAIN acc = Ranks /\ DOMAIN planes = Ranks /\ DOMAIN chunk = Ranks
       /\ DOMAIN place = Ranks /\ DOMAIN acc[r] = 1 .. Owned[r] /\ DOMAIN flag = Ranks
   BY DEF ForceTypes
 <1>1. /\ setup' = setup /\ solve' = solve /\ acc' = acc /\ valid' = valid
       /\ prepared' = prepared /\ chunk' = chunk /\ place' = place /\ flag' = flag
   BY DEF SendPlane, ReceivePlane, products, threads
 <1>2. StepOf(r) \in Sends \union {"receive_plane"} /\ StepOf(r) # "prepare"
       /\ StepOf(r) # "validate"
   BY DEF SendPlane, ReceivePlane, At, StepOf, Sends
 <1>3. DOMAIN planes' = Ranks
   BY <1>0 DEF SendPlane, ReceivePlane
 <1>4. Writes(r, Written(StepOf(r)))
  <2>1. CASE SendPlane(r)
   <3>1. PICK b : Keep(r, b) /\ DOMAIN b = {"out"}
    <4> DEFINE b == [out |-> Append(mem[r][IF At(r, "send_force_plane") THEN "force" ELSE "density"], r)]
    <4>1. Keep(r, b)
      BY <2>1 DEF SendPlane
    <4>2. DOMAIN b = {"out"}
      OBVIOUS
    <4> HIDE DEF b
    <4> QED  BY <4>1, <4>2
   <3>2. Writes(r, DOMAIN b)
     BY <3>1, KeepWrites, FieldNames
   <3>3. Written(StepOf(r)) = {"out"}
     BY <2>1, WrittenBy DEF SendPlane, At, StepOf
   <3> QED  BY <3>1, <3>2, <3>3
  <2>2. CASE ReceivePlane(r)
   <3>1. PICK b : Keep(r, b) /\ DOMAIN b = {"right"}
    <4> DEFINE b == [right |-> Head(planes[r])]
    <4>1. Keep(r, b)
      BY <2>2 DEF ReceivePlane
    <4>2. DOMAIN b = {"right"}
      OBVIOUS
    <4> HIDE DEF b
    <4> QED  BY <4>1, <4>2
   <3>2. Writes(r, DOMAIN b)
     BY <3>1, KeepWrites, FieldNames
   <3>3. Written(StepOf(r)) = {"right"}
     BY <2>2, WrittenBy DEF ReceivePlane, At, StepOf
   <3> QED  BY <3>1, <3>2, <3>3
  <2> QED  BY <2>1, <2>2
 <1>5. /\ solve' = [solve EXCEPT ![r] = solve[r] + 0]
       /\ valid' = [valid EXCEPT ![r] = valid[r]]
       /\ prepared' = [prepared EXCEPT ![r] = prepared[r]]
   BY <1>0, <1>1
 <1>6. Only(acc, acc', r) /\ Only(chunk, chunk', r) /\ Only(place, place', r)
       /\ Only(flag, flag', r) /\ flag' \in [Ranks -> BOOLEAN] /\ acc'[r] = acc[r]
   BY <1>0, <1>1, OnlySame
 <1> QED  BY <1>0, <1>1, <1>2, <1>3, <1>4, <1>5, <1>6, FrameOf
LEMMA ThreadSteps ==
    ASSUME PipelineTypes, ForceTypes, NEW r \in Ranks,
           \/ BuildTree(r) \/ Join(r)
           \/ \E c \in DOMAIN chunk[r] : WalkStep(r, c)
    PROVE  Frame(r)
 <1>0. /\ solve \in [Ranks -> Nat] /\ solve[r] \in Nat
       /\ valid \in [Ranks -> BOOLEAN] /\ prepared \in [Ranks -> Nat]
       /\ flag \in [Ranks -> BOOLEAN]
       /\ DOMAIN acc = Ranks /\ DOMAIN planes = Ranks /\ DOMAIN chunk = Ranks
       /\ DOMAIN place = Ranks /\ DOMAIN acc[r] = 1 .. Owned[r] /\ DOMAIN flag = Ranks
   BY DEF ForceTypes
 <1>1. /\ setup' = setup /\ solve' = solve /\ valid' = valid /\ mem' = mem
       /\ prepared' = prepared /\ planes' = planes
       /\ StepOf(r) \in {"tree", "walk"}
  <2>1. CASE BuildTree(r)
    BY <2>1 DEF BuildTree, messages, products, At, StepOf
  <2>2. CASE Join(r)
    BY <2>2 DEF Join, messages, products, At, StepOf
  <2>3. CASE \E c \in DOMAIN chunk[r] : WalkStep(r, c)
   <3>1. PICK c \in DOMAIN chunk[r] : WalkStep(r, c)
     BY <2>3
   <3>2. WalkOnly
     BY <3>1 DEF WalkStep, TakeChunk, SkipChunk, WalkOne, FinishChunk, RaiseFlag, StoreException
   <3>3. At(r, "walk")
     BY <3>1 DEF WalkStep, TakeChunk, SkipChunk, WalkOne, FinishChunk, RaiseFlag,
                 StoreException, Walking
   <3> QED  BY <3>2, <3>3 DEF WalkOnly, messages, At, StepOf
  <2> QED  BY <2>1, <2>2, <2>3
 <1>2. Writes(r, Written(StepOf(r)))
   BY <1>1, NothingWritten
 <1>3. /\ Only(acc, acc', r) /\ DOMAIN acc'[r] = 1 .. Owned[r]
       /\ StepOf(r) \notin Changers => acc'[r] = acc[r]
  <2>1. CASE acc' = acc
    BY <1>0, <2>1, OnlySame
  <2>2. CASE acc' # acc
   <3>1. PICK c \in DOMAIN chunk[r] : WalkOne(r, c)
     BY <2>2 DEF BuildTree, Join, products, WalkStep, TakeChunk, SkipChunk, FinishChunk,
                 RaiseFlag, StoreException
   <3>2. StepOf(r) \in Changers
     BY <3>1 DEF WalkOne, Walking, At, StepOf, Changers
   <3> DEFINE k == ChunkStart(r, c) + place[r][c] + 1
              a == [acc[r] EXCEPT ![k] = Append(acc[r][k], <<solve[r], Short>>)]
   <3>3. acc' = [acc EXCEPT ![r] = a]
     BY <3>1 DEF WalkOne
   <3>4. DOMAIN a = 1 .. Owned[r]
     BY <1>0
   <3> HIDE DEF a
   <3> QED  BY <1>0, <3>2, <3>3, <3>4, OnlyChanged
  <2> QED  BY <2>1, <2>2
 <1>4. /\ Only(chunk, chunk', r) /\ Only(place, place', r) /\ Only(flag, flag', r)
       /\ flag' \in [Ranks -> BOOLEAN]
  <2>1. CASE BuildTree(r)
    BY <1>0, <2>1 DEF BuildTree, threads, Only
  <2>2. CASE Join(r)
    BY <1>0, <2>2 DEF Join, Only
  <2>3. CASE \E c \in DOMAIN chunk[r] : WalkStep(r, c)
   <3>1. PICK c \in DOMAIN chunk[r] : WalkStep(r, c)
     BY <2>3
   <3>2. chunk' = chunk \/ \E s : chunk' = [chunk EXCEPT ![r][c] = s]
     BY <3>1 DEF WalkStep, TakeChunk, SkipChunk, WalkOne, FinishChunk, RaiseFlag,
                 StoreException, Turn
   <3>3. Only(chunk, chunk', r)
     BY <1>0, <3>2 DEF Only
   <3>4. Only(place, place', r)
     BY <1>0, <3>1 DEF WalkStep, TakeChunk, SkipChunk, WalkOne, FinishChunk, RaiseFlag,
                 StoreException, Only
   <3>5. flag' = flag \/ flag' = [flag EXCEPT ![r] = TRUE]
     BY <3>1 DEF WalkStep, TakeChunk, SkipChunk, WalkOne, FinishChunk, RaiseFlag,
                 StoreException
   <3>6. Only(flag, flag', r) /\ flag' \in [Ranks -> BOOLEAN]
     BY <1>0, <3>5 DEF Only
   <3> QED  BY <3>3, <3>4, <3>6
  <2> QED  BY <2>1, <2>2, <2>3
 <1>5. /\ solve' = [solve EXCEPT ![r] = solve[r] + 0]
       /\ valid' = [valid EXCEPT ![r] = valid[r]]
       /\ prepared' = [prepared EXCEPT ![r] = prepared[r]]
   BY <1>0, <1>1
 <1> QED  BY <1>0, <1>1, <1>2, <1>3, <1>4, <1>5, FrameOf

LEMMA CallStays ==
    ASSUME PipelineTypes, ForceTypes, NEW r \in Ranks, Call(r)
    PROVE  Frame(r)
 <1>1. StepOf(r) = "nothing"
   BY DEF Call, StepOf
 <1>2. Privately
   BY DEF Call, Privately, messages, products, threads
 <1> DEFINE b == [energy |-> <<>>, self |-> <<>>]
 <1>3. Keep(r, b) \/ mem' = mem
   BY DEF Call
 <1>4. DOMAIN b = Written("nothing") /\ DOMAIN b \subseteq Fields
   BY WrittenBy, FieldNames
 <1> HIDE DEF b
 <1>5. Writes(r, Written(StepOf(r)))
   BY <1>1, <1>3, <1>4, KeepWrites, NothingWritten
 <1> QED  BY <1>1, <1>2, <1>5, PrivateFrame

LEMMA RankFrame ==
    ASSUME PipelineTypes, ForceTypes, NEW r \in Ranks, RankStep(r)
    PROVE  Frame(r)
 <1>1. ASSUME MeshStep(r)
       PROVE  Frame(r)
   BY <1>1, StagesStay, ExaminationsStay, PlainStepsStay, PlaneSteps, ForceSteps DEF MeshStep
 <1> QED  BY <1>1, CallStays, PlainStepsStay, ForceSteps, ExaminationsStay, ThreadSteps
          DEF RankStep
-----------------------------------------------------------------------------
(* How a step moves the list of its rank.                                  *)
LEMMA StillWalks ==
    ASSUME PipelineTypes, NEW r \in Ranks, RankStep(r), Stands,
           todo[r] \in Seq(Steps), todo[r] # <<>>
    PROVE  StepOf(r) = "walk"
 <1>1. todo' = todo /\ waiting' = waiting /\ waiting \in [Ranks -> BOOLEAN] /\ DOMAIN todo = Ranks
   BY DEF Stands, PipelineTypes
 <1>2. Tail(todo[r]) # todo[r]
  <2>1. Len(Tail(todo[r])) = Len(todo[r]) - 1 /\ Len(todo[r]) \in Nat
    BY TailIsRear
  <2> DEFINE x == Len(Tail(todo[r]))
             y == Len(todo[r])
  <2>2. x # y
   <3>1. x = y - 1 /\ y \in Nat
     BY <2>1
   <3> HIDE DEF x, y
   <3> QED  BY <3>1
  <2> QED  BY <2>2, Zenon
 <1>3. ~ Continue(r)
   BY <1>1, <1>2 DEF Continue
 <1>4. ASSUME ~ waiting[r]  PROVE ~ Throw(r) /\ ~ Enter(r, TRUE) /\ ~ Enter(r, FALSE)
   BY <1>1, <1>4 DEF Throw, Enter
 <1>5. \A s : At(r, s) => ~ waiting[r]
   BY DEF At
 <1>6. \A s, b : ~ Stage(r, s, b)
   BY <1>4, <1>5 DEF Stage
 <1>7. \A s, g, b : ~ Examine(r, s, g, b)
  <2>1. SUFFICES ASSUME NEW s, NEW g, NEW b, Examine(r, s, g, b)  PROVE FALSE
    OBVIOUS
  <2>2. At(r, s) /\ Enter(r, ~ g)
    BY <2>1 DEF Examine
  <2> QED  BY <1>1, <1>5, <2>2 DEF Enter
 <1>8. ~ Call(r)
   BY DEF Call
 <1>9. ~ Check(r) /\ ~ Arrive(r) /\ ~ PublishLayout(r) /\ ~ KeepWorkspace(r)
  <2>1. ~ Check(r)
    BY <1>4, <1>5 DEF Check
  <2>2. ~ Arrive(r)
    BY <1>4, <1>5 DEF Arrive
  <2>3. ~ PublishLayout(r)
    BY <1>4, <1>5 DEF PublishLayout
  <2>4. ~ KeepWorkspace(r)
    BY <1>7 DEF KeepWorkspace
  <2> QED  BY <2>1, <2>2, <2>3, <2>4
 <1>10. ~ Prepare(r) /\ ~ Migrate(r) /\ ~ AxisGather(r)
   BY <1>4, <1>5 DEF Prepare, Migrate, AxisGather
 <1>11. ~ Materialize(r) /\ ~ SetUp(r) /\ ~ Commit(r) /\ ~ Validate(r) /\ ~ Emit(r)
   BY <1>3, <1>4, <1>5 DEF Materialize, SetUp, Commit, Validate, Emit
 <1>12. ~ SendSpill(r) /\ ~ ReceiveSpill(r) /\ ~ SendPlane(r) /\ ~ ReceivePlane(r)
   BY <1>3 DEF SendSpill, ReceiveSpill, SendPlane, ReceivePlane
 <1>13. ~ BuildTree(r) /\ ~ Join(r)
   BY <1>3, <1>4, <1>5 DEF BuildTree, Join
 <1>14. ~ MeshStep(r)
   BY <1>6, <1>7, <1>10, <1>11, <1>12
      DEF MeshStep, Transaction, DepositMass, DepositImpulse, Deposit, DensityValid,
          MassConserved, ImpulseConserved, Source, Forward, AxisModes, HaloRequest,
          HaloResponse, GradientCheck, Gradient, WeightedSum, SelfEnergy
 <1>15. PICK c \in DOMAIN chunk[r] : WalkStep(r, c)
   BY <1>8, <1>9, <1>10, <1>11, <1>13, <1>14 DEF RankStep
 <1> QED  BY <1>15 DEF WalkStep, TakeChunk, SkipChunk, WalkOne, FinishChunk, RaiseFlag,
                       StoreException, Walking, At, StepOf

(* A rank in a call goes on, enters a collective, throws, or walks.        *)
Breaks(r, t, u) == /\ error'[r] /\ waiting'[r] /\ Head(t) \notin Locals /\ todo'[r] = t
                   /\ Ahead(r)' = IF Head(t) \in JointSteps THEN t ELSE u
Joins(r, t, u) == /\ ~ error'[r] /\ waiting'[r] /\ Head(t) \notin Locals /\ todo'[r] = t
                  /\ Ahead(r)' = IF Head(t) \in JointSteps THEN t ELSE u
Passes(r, t, u) == /\ ~ error'[r] /\ ~ waiting'[r] /\ Head(t) \in Locals /\ todo'[r] = u
                   /\ Ahead(r)' = u
Jumps(r, t, u) == /\ error'[r] /\ waiting'[r] /\ Head(t) \in {"tree", "walk"}
                  /\ todo'[r] = From(u, "complete") /\ todo'[r] # <<>>
                  /\ Ahead(r)' = Tail(todo'[r])
Walks(r, t) == /\ ~ error'[r] /\ ~ waiting'[r] /\ Head(t) = "walk" /\ todo'[r] = t
               /\ Ahead(r)' = t

LEMMA HowItMoves ==
    ASSUME PipelineInv, Calm, ListsPlanned, Unprotected = {}, NEW r \in Ranks, RankStep(r),
           todo[r] # <<>>, NEW t, t = todo[r], NEW u, u = Tail(t)
    PROVE  /\ ~ waiting[r] /\ ~ error[r] /\ Ahead(r) = t /\ StepOf(r) = Head(t)
           /\ calls' = calls /\ ended' = ended
           /\ \A q \in Ranks \ {r} : /\ todo'[q] = todo[q] /\ waiting'[q] = waiting[q]
                                     /\ error'[q] = error[q]
           /\ \/ Breaks(r, t, u) \/ Joins(r, t, u) \/ Passes(r, t, u) \/ Jumps(r, t, u)
              \/ Walks(r, t)
 <1>1. PipelineTypes /\ SameCall /\ WaitsForAll
   BY DEF PipelineInv
 <1>2. Moves(r)
   BY <1>1, StepsMove DEF Call
 <1>3. SameProgram /\ \A q \in Ranks \ {r} : SameRank(q)
   BY <1>1, <1>2, MovesAlone
 <1>4. ~ waiting[r]
  <2>1. CASE Stands
   <3>1. StepOf(r) = "walk"
     BY <1>1, <2>1, StillWalks DEF ListsPlanned, Planned
   <3>2. "walk" \in Locals
     BY DEF Locals
   <3> QED  BY <1>1, <3>1, <3>2 DEF WaitsForAll, StepOf
  <2> QED  BY <1>2, <2>1 DEF Moves, Enters, EntersAlike, Continues, Throws, Standing
 <1>5. ~ error[r] /\ Ahead(r) = t /\ StepOf(r) = Head(t)
   BY <1>4 DEF Calm, Ahead, StepOf
 <1>6. DOMAIN todo = Ranks /\ waiting \in [Ranks -> BOOLEAN] /\ error \in [Ranks -> BOOLEAN]
   BY <1>1 DEF PipelineTypes
 <1>7. JointSteps' = JointSteps
   BY DEF JointSteps
 <1>8. Ahead(r)' = IF waiting'[r] /\ Head(todo'[r]) \notin JointSteps THEN Tail(todo'[r])
                   ELSE todo'[r]
   BY <1>7 DEF Ahead
 <1>9. CASE Enters(r)
  <2>1. Head(t) \notin Locals /\ (Enter(r, TRUE) \/ Enter(r, FALSE))
    BY <1>9 DEF Enters, EntersAlike
  <2>2. todo'[r] = t /\ waiting'[r] = TRUE
    BY <1>6, <2>1 DEF Enter
  <2>3. CASE Enter(r, TRUE)
   <3>1. error'[r] = TRUE
     BY <1>6, <2>3 DEF Enter
   <3>2. Breaks(r, t, u)
     BY <1>8, <2>1, <2>2, <3>1 DEF Breaks
   <3> QED  BY <1>3, <1>4, <1>5, <3>2 DEF SameProgram, SameRank
  <2>4. CASE Enter(r, FALSE)
   <3>1. error'[r] = FALSE
     BY <1>6, <2>4 DEF Enter
   <3>2. Joins(r, t, u)
     BY <1>8, <2>1, <2>2, <3>1 DEF Joins
   <3> QED  BY <1>3, <1>4, <1>5, <3>2 DEF SameProgram, SameRank
  <2> QED  BY <2>1, <2>3, <2>4
 <1>10. CASE Continues(r)
  <2>1. Head(t) \in Locals /\ todo'[r] = u /\ ~ waiting'[r] /\ ~ error'[r]
    BY <1>4, <1>5, <1>6, <1>10 DEF Continues
  <2>2. Passes(r, t, u)
    BY <1>8, <2>1 DEF Passes
  <2> QED  BY <1>3, <1>4, <1>5, <2>2 DEF SameProgram, SameRank
 <1>11. CASE Throws(r)
  <2>1. Head(t) \in {"tree", "walk"} /\ todo'[r] = Unwound(r) /\ waiting'[r] = TRUE
        /\ error'[r] = TRUE
    BY <1>6, <1>11 DEF Throws, Throw
  <2>2. Unwound(r) = From(u, "complete")
    BY <2>1, TreeIsCaught DEF Unwound
  <2>3. PICK n \in 1 .. Len(setup.calls), steps \in Seq(Steps) :
           InCall(n, steps) /\ Inside(r, n, steps)
    BY <1>1, MoverIsInside
  <2>4. Unwound(r) # <<>> /\ Head(Unwound(r)) = "complete"
    BY <2>1, <2>3, ThrownOnPath DEF InCall, Inside
  <2>5. "complete" \notin JointSteps
    BY DEF JointSteps
  <2>6. Jumps(r, t, u)
    BY <1>8, <2>1, <2>2, <2>4, <2>5 DEF Jumps
  <2> QED  BY <1>3, <1>4, <1>5, <2>6 DEF SameProgram, SameRank
 <1>12. CASE Stands
  <2>1. StepOf(r) = "walk"
    BY <1>1, <1>12, StillWalks DEF ListsPlanned, Planned
  <2>2. todo'[r] = t /\ ~ waiting'[r] /\ ~ error'[r]
    BY <1>4, <1>5, <1>12 DEF Stands
  <2>3. Walks(r, t)
    BY <1>5, <1>8, <2>1, <2>2 DEF Walks
  <2> QED  BY <1>3, <1>4, <1>5, <2>3 DEF SameProgram, SameRank
 <1> QED  BY <1>2, <1>9, <1>10, <1>11, <1>12 DEF Moves
-----------------------------------------------------------------------------
(* What does not depend on the state of a run.                             *)
LEMMA SameSetup ==
    ASSUME setup' = setup
    PROVE  /\ Ranks' = Ranks /\ Size' = Size /\ Tree' = Tree
           /\ \A s : Planned(s)' <=> Planned(s)
           /\ \A n : Solves(n)' = Solves(n)
           /\ \A q : Right(q)' = Right(q)
 <1>1. Ranks' = Ranks /\ Size' = Size /\ Tree' = Tree
   BY DEF Ranks, Size, Tree
 <1>2. \A s : Planned(s)' <=> Planned(s)
   BY DEF Planned, Fits, Leads, Later, Mine, Needed, Due, Tree, Size, Milestones, Gathers,
          Sends, Taker, Locals, Steps, Region, Rear
 <1>3. \A n : Solves(n)' = Solves(n)
   BY DEF Solves
 <1>4. \A q : Right(q)' = Right(q)
   BY DEF Right, Size
 <1> QED  BY <1>1, <1>2, <1>3, <1>4

LEMMA NeverWritten ==
    ASSUME NEW s
    PROVE  /\ {"phi", "force", "asked", "kernel", "lags"} \intersect Written(s) = {}
           /\ {"phi", "force", "asked", "kernel", "lags"} \subseteq Fields
  BY FieldNames DEF Written, Keeping, Sends

(* A rank that another one steps beside.                                   *)
LEMMA Beside ==
    ASSUME NEW r \in Ranks, Frame(r), NEW q \in Ranks \ {r},
           todo'[q] = todo[q], waiting'[q] = waiting[q]
    PROVE  /\ Ahead(q)' = Ahead(q) /\ StepOf(q)' = StepOf(q) /\ mem'[q] = mem[q]
           /\ solve'[q] = solve[q] /\ acc'[q] = acc[q] /\ valid'[q] = valid[q]
           /\ prepared'[q] = prepared[q] /\ chunk'[q] = chunk[q] /\ place'[q] = place[q]
           /\ flag'[q] = flag[q]
 <1>1. JointSteps' = JointSteps
   BY DEF JointSteps
 <1>2. Ahead(q)' = Ahead(q) /\ StepOf(q)' = StepOf(q)
   BY <1>1 DEF Ahead, StepOf
 <1> QED  BY <1>2 DEF Frame, Elsewhere, Writes

LEMMA AlikeStays ==
    ASSUME Alike, ForceTypes, NEW r \in Ranks, Frame(r)
    PROVE  Alike'
 <1>1. Ranks' = Ranks
   BY SameSetup DEF Frame
 <1>2. ASSUME NEW q \in Ranks
       PROVE  mem'[q].phi = mem[q].phi /\ mem'[q].force = mem[q].force
   BY NeverWritten DEF Frame, Writes
 <1> QED  BY <1>1, <1>2 DEF Alike

LEMMA SolvesOfNext ==
    ASSUME setup.calls \in Seq({"solve", "measure"}), NEW n \in 0 .. Len(setup.calls) - 1
    PROVE  Solves(n + 1) = Solves(n) + (IF setup.calls[n + 1] = "solve" THEN 1 ELSE 0)
 <1> DEFINE S == {j \in 1 .. n : setup.calls[j] = "solve"}
            T == {j \in 1 .. n + 1 : setup.calls[j] = "solve"}
 <1>1. n \in Nat /\ IsFiniteSet(1 .. n)
  <2>1. n \in Nat
    OBVIOUS
  <2> QED  BY <2>1, FS_Interval
 <1>2. IsFiniteSet(S) /\ Cardinality(S) \in Nat
   BY <1>1, FS_Subset, FS_CardinalityType
 <1>3. T = IF setup.calls[n + 1] = "solve" THEN S \union {n + 1} ELSE S
   BY <1>1
 <1>4. n + 1 \notin S
   BY <1>1
 <1> HIDE DEF S, T
 <1>5. Cardinality(S \union {n + 1}) = Cardinality(S) + 1
   BY <1>2, <1>4, FS_AddElement
 <1>6. Cardinality(T) = Cardinality(S) + (IF setup.calls[n + 1] = "solve" THEN 1 ELSE 0)
   BY <1>2, <1>3, <1>5
 <1> QED  BY <1>6 DEF S, T, Solves

(* The lists, the failures and the numbers of the solves.                  *)
Courses == Calm /\ ListsPlanned /\ Numbered

LEMMA CoursesStay ==
    ASSUME PipelineInv, ForceTypes, Courses, Unprotected = {}, NEW r \in Ranks, RankStep(r),
           Frame(r), todo[r] # <<>>
    PROVE  Courses'
 <1> DEFINE t == todo[r]
            u == Tail(t)
 <1>1. /\ ~ waiting[r] /\ ~ error[r] /\ Ahead(r) = t /\ StepOf(r) = Head(t)
       /\ calls' = calls
       /\ \A q \in Ranks \ {r} : /\ todo'[q] = todo[q] /\ waiting'[q] = waiting[q]
                                 /\ error'[q] = error[q]
       /\ \/ Breaks(r, t, u) \/ Joins(r, t, u) \/ Passes(r, t, u) \/ Jumps(r, t, u)
          \/ Walks(r, t)
   BY HowItMoves DEF Courses
 <1>2. /\ Planned(t) /\ Rooted(t) /\ t # <<>>
       /\ setup' = setup /\ Ranks' = Ranks /\ \A s : Planned(s)' <=> Planned(s)
       /\ \A n : Solves(n)' = Solves(n)
   BY SameSetup DEF Courses, ListsPlanned, Frame
 <1>3. /\ Planned(u) /\ Rooted(u)
       /\ Planned(From(u, "complete")) /\ Rooted(From(u, "complete"))
       /\ "prepare" \notin Due(u) /\ "prepare" \notin Due(From(u, "complete"))
       /\ "prepare" \in Due(t) <=> Head(t) = "prepare"
       /\ Due(t) = Due(u) \union ({Head(t)} \intersect Milestones)
   BY <1>2, Leaving
 <1> HIDE DEF t, u
 <1>4. Calm'
  <2>1. error'[r] => waiting'[r]
    BY <1>1 DEF Breaks, Joins, Passes, Jumps, Walks
  <2> QED  BY <1>1, <1>2, <2>1 DEF Courses, Calm
 <1>5. ListsPlanned'
  <2>1. todo'[r] \in {t, u, From(u, "complete")}
    BY <1>1 DEF Breaks, Joins, Passes, Jumps, Walks
  <2>2. Planned(todo'[r]) /\ Rooted(todo'[r])
    BY <1>2, <1>3, <2>1
  <2>3. ASSUME NEW q \in Ranks
        PROVE  Planned(todo'[q]) /\ Rooted(todo'[q])
    BY <1>1, <2>2, <2>3 DEF Courses, ListsPlanned
  <2> QED  BY <1>2, <2>3 DEF ListsPlanned
 <1>6. Numbered'
  <2> DEFINE P(x) == IF "prepare" \in Due(x) THEN 1 ELSE 0
  <2>1. solve'[r] = solve[r] + (IF Head(t) = "prepare" THEN 1 ELSE 0)
    BY <1>1 DEF Frame
  <2>2. P(Ahead(r)') = 0 \/ (Ahead(r)' = t /\ Head(t) # "prepare")
   <3>1. CASE Jumps(r, t, u)
    <4> DEFINE v == From(u, "complete")
    <4>1. v # <<>> /\ Ahead(r)' = Tail(v)
      BY <3>1 DEF Jumps
    <4>2. "prepare" \notin Due(Tail(v))
      BY <1>3, <4>1, Leaving
    <4> QED  BY <4>1, <4>2
   <3>2. CASE Breaks(r, t, u) \/ Joins(r, t, u)
     BY <1>3, <3>2 DEF Breaks, Joins, JointSteps
   <3>3. CASE Passes(r, t, u)
     BY <1>3, <3>3 DEF Passes
   <3>4. CASE Walks(r, t)
     BY <3>4 DEF Walks
   <3> QED  BY <1>1, <3>1, <3>2, <3>3, <3>4
  <2>3. P(t) = IF Head(t) = "prepare" THEN 1 ELSE 0
    BY <1>3
  <2>4. solve[r] + P(t) = Solves(Made(r)) /\ solve[r] \in Nat
    BY <1>1 DEF Courses, Numbered, ForceTypes
  <2>5. solve'[r] + P(Ahead(r)') = Solves(Made(r))
   <3>1. P(Ahead(r)') = IF Ahead(r)' = t /\ Head(t) # "prepare" THEN P(t) ELSE 0
     BY <2>2, <2>3
   <3>2. CASE Head(t) = "prepare"
     BY <2>1, <2>3, <2>4, <3>1, <3>2
   <3>3. CASE Head(t) # "prepare"
     BY <2>1, <2>2, <2>3, <2>4, <3>1, <3>3
   <3> QED  BY <3>2, <3>3
  <2>6. \A q \in Ranks : Made(q)' = Made(q)
    BY <1>1, <1>2 DEF Made
  <2>7. ASSUME NEW q \in Ranks \ {r}
        PROVE  solve'[q] + P(Ahead(q)') = Solves(Made(q))
   <3>1. Ahead(q)' = Ahead(q) /\ solve'[q] = solve[q]
     BY <1>1, Beside
   <3> QED  BY <3>1 DEF Courses, Numbered
  <2>8. \A q \in Ranks : solve'[q] + P(Ahead(q)') = Solves(Made(q))
    BY <2>5, <2>7
  <2>9. \A q \in Ranks : solve'[q] + P(Ahead(q)') = (Solves(Made(q)))'
    BY <1>2, <2>6, <2>8
  <2> QED  BY <1>2, <2>9 DEF Numbered
 <1> QED  BY <1>4, <1>5, <1>6 DEF Courses

LEMMA CallKeepsCourses ==
    ASSUME PipelineInv, ForceTypes, Courses, NEW r \in Ranks, Call(r), Frame(r)
    PROVE  Courses'
 <1> DEFINE j == Made(r) + 1
            v == todo'[r]
 <1>1. /\ CallsInOrder /\ WaitsForAll /\ PipelineTypes
   BY DEF PipelineInv
 <1>2. /\ Ranks' = Ranks /\ setup' = setup /\ waiting' = waiting /\ error' = error
       /\ ~ waiting[r]
       /\ \A q \in Ranks \ {r} : todo'[q] = todo[q] /\ Made(q)' = Made(q)
       /\ todo[r] = <<>> /\ Made(r)' = j /\ j \in 1 .. Len(setup.calls)
       /\ v = IF Skipped(r, j) THEN <<>> ELSE Fresh(r, j)
   BY <1>1, CallAlone
 <1>3. (\A s : Planned(s)' <=> Planned(s)) /\ (\A n : Solves(n)' = Solves(n))
   BY <1>2, SameSetup
 <1>4. /\ Planned(v) /\ Rooted(v)
       /\ "prepare" \in Due(v) <=> setup.calls[j] = "solve"
  <2>1. CASE v = <<>>
   <3>1. Rooted(<<>>)
     BY DEF Rooted
   <3>2. Skipped(r, j)
     BY <1>2, <2>1, FreshIsPath
   <3> QED  BY <2>1, <3>1, <3>2, NothingIsPlanned DEF Skipped
  <2>2. CASE v = Solve(r) /\ setup.calls[j] = "solve"
   <3>1. Planned(Solve(r)) /\ Solve(r) # <<>> /\ Head(Solve(r)) = "prepare"
     BY SolvePlanned
   <3>2. Rooted(Solve(r))
     BY SolveIsGrown DEF Grown
   <3>3. "prepare" \in Due(Solve(r))
     BY <3>1, <3>2, Leaving
   <3> QED  BY <2>2, <3>1, <3>2, <3>3
  <2>3. CASE v = Measure(r) /\ setup.calls[j] # "solve"
    BY <2>3, MeasurePlanned, MeasureIsGrown DEF Grown
  <2> QED  BY <1>2, <2>1, <2>2, <2>3 DEF Fresh
 <1>5. solve'[r] = solve[r] /\ solve[r] \in Nat
   BY <1>2 DEF Frame, StepOf, ForceTypes
 <1>6. Ahead(r) = <<>> /\ Ahead(r)' = v
   BY <1>2 DEF Ahead
 <1> HIDE DEF v
 <1>7. Calm'
   BY <1>2 DEF Courses, Calm
 <1>8. ListsPlanned'
  <2>1. ASSUME NEW q \in Ranks
        PROVE  Planned(todo'[q]) /\ Rooted(todo'[q])
    BY <1>2, <1>4, <2>1 DEF Courses, ListsPlanned, v
  <2> QED  BY <1>2, <1>3, <2>1 DEF ListsPlanned
 <1>9. Numbered'
  <2> DEFINE P(x) == IF "prepare" \in Due(x) THEN 1 ELSE 0
  <2>1. solve[r] = Solves(Made(r))
   <3>1. solve[r] + P(<<>>) = Solves(Made(r))
     BY <1>6 DEF Courses, Numbered
   <3> QED  BY <1>5, <3>1, NothingIsPlanned
  <2>2. Solves(j) = Solves(Made(r)) + P(v)
   <3>1. setup.calls \in Seq({"solve", "measure"}) /\ Made(r) \in 0 .. Len(setup.calls) - 1
     BY <1>1, <1>2, RankZero DEF CallsInOrder
   <3> QED  BY <1>4, <3>1, SolvesOfNext
  <2>3. solve'[r] + P(Ahead(r)') = Solves(Made(r)')
    BY <1>2, <1>5, <1>6, <2>1, <2>2
  <2>4. ASSUME NEW q \in Ranks \ {r}
        PROVE  solve'[q] + P(Ahead(q)') = Solves(Made(q)')
   <3>1. Ahead(q)' = Ahead(q) /\ solve'[q] = solve[q]
     BY <1>2, Beside
   <3> QED  BY <1>2, <3>1 DEF Courses, Numbered
  <2>5. \A q \in Ranks : solve'[q] + P(Ahead(q)') = (Solves(Made(q)))'
    BY <1>3, <2>3, <2>4
  <2> QED  BY <1>2, <2>5 DEF Numbered
 <1> QED  BY <1>7, <1>8, <1>9 DEF Courses
-----------------------------------------------------------------------------
(* The planes between neighbours.                                          *)
LEMMA Ring ==
    ASSUME PipelineTypes, NEW r \in Ranks
    PROVE  /\ Right(r) \in Ranks /\ Left(r) \in Ranks
           /\ Left(Right(r)) = r /\ Right(Left(r)) = r
 <1>1. Size \in Nat \ {0}
   BY ForcePipelineAssumption DEF PipelineTypes, Size
 <1>2. r \in 0 .. Size - 1
   BY DEF Ranks
 <1> DEFINE N == Size
 <1> HIDE DEF N
 <1>3. N \in Nat \ {0} /\ r \in 0 .. N - 1
   BY <1>1, <1>2 DEF N
 <1>4. (r + 1) % N = IF r + 1 < N THEN r + 1 ELSE 0
   BY <1>3
 <1>5. (r + N - 1) % N = IF r > 0 THEN r - 1 ELSE N - 1
  <2>1. CASE r = 0
    BY <1>3, <2>1
  <2>2. CASE r > 0
   <3>1. r + N - 1 = N * 1 + (r - 1) /\ r - 1 \in 0 .. N - 1
     BY <1>3, <2>2
   <3>2. (r + N - 1) % N = r - 1
     BY <1>3, <3>1
   <3> QED  BY <2>2, <3>2
  <2> QED  BY <1>3, <2>1, <2>2
 <1>6. Right(r) = (r + 1) % N /\ Left(r) = (r + N - 1) % N
   BY DEF Right, Left, N
 <1>7. Right(r) = IF r + 1 < N THEN r + 1 ELSE 0
   BY <1>4, <1>6
 <1>8. Left(r) = IF r > 0 THEN r - 1 ELSE N - 1
   BY <1>5, <1>6
 <1>9. \A q \in 0 .. N - 1 : /\ Right(q) = IF q + 1 < N THEN q + 1 ELSE 0
                             /\ Left(q) = IF q > 0 THEN q - 1 ELSE N - 1
  <2> SUFFICES ASSUME NEW q \in 0 .. N - 1
               PROVE  /\ Right(q) = IF q + 1 < N THEN q + 1 ELSE 0
                      /\ Left(q) = IF q > 0 THEN q - 1 ELSE N - 1
    OBVIOUS
  <2>1. (q + 1) % N = IF q + 1 < N THEN q + 1 ELSE 0
    BY <1>3
  <2>2. (q + N - 1) % N = IF q > 0 THEN q - 1 ELSE N - 1
   <3>1. CASE q = 0
     BY <1>3, <3>1
   <3>2. CASE q > 0
    <4>1. q + N - 1 = N * 1 + (q - 1) /\ q - 1 \in 0 .. N - 1
      BY <1>3, <3>2
    <4>2. (q + N - 1) % N = q - 1
      BY <1>3, <4>1
    <4> QED  BY <3>2, <4>2
   <3> QED  BY <1>3, <3>1, <3>2
  <2>3. Right(q) = (q + 1) % N /\ Left(q) = (q + N - 1) % N
    BY DEF Right, Left, N
  <2> QED  BY <2>1, <2>2, <2>3
 <1>10. Right(r) \in 0 .. N - 1 /\ Left(r) \in 0 .. N - 1
   BY <1>3, <1>7, <1>8
 <1>11. /\ Left(Right(r)) = IF Right(r) > 0 THEN Right(r) - 1 ELSE N - 1
        /\ Right(Left(r)) = IF Left(r) + 1 < N THEN Left(r) + 1 ELSE 0
   BY <1>9, <1>10
 <1>12. Left(Right(r)) = r /\ Right(Left(r)) = r
   BY <1>3, <1>7, <1>8, <1>11
 <1>13. Ranks = 0 .. N - 1
   BY DEF Ranks, N
 <1> QED  BY <1>10, <1>12, <1>13

(* What a planned list says of the exchange.                               *)
LEMMA PlannedExchange ==
    ASSUME NEW t, Planned(t), Rooted(t), t # <<>>
    PROVE  /\ ToSend(t) => /\ Tail(t) # <<>> /\ Head(Tail(t)) = "receive_plane"
                           /\ Exchanging(Tail(t)) /\ ~ ToSend(Tail(t)) /\ Exchanging(t)
                           /\ ForceAhead(Tail(t)) <=> Head(t) = "send_force_plane"
           /\ Head(t) \in Locals \ Sends => ~ Exchanging(Tail(t))
           /\ Head(t) \notin Sends /\ Tail(t) # <<>> => Head(Tail(t)) # "receive_plane"
 <1> DEFINE u == Tail(t)
            h == Head(t)
 <1>1. Fits(h, u) /\ t \in Seq(Steps) /\ u \in Seq(Steps)
   BY Leaving
 <1> HIDE DEF u, h
 <1>2. h \in Sends => /\ u # <<>> /\ Head(u) = "receive_plane"
                      /\ Tail(u) # <<>> /\ Head(Tail(u)) = Taker(h)
   BY <1>1 DEF Fits
 <1>3. ASSUME h \in Sends
       PROVE  ForceAhead(u) <=> h = "send_force_plane"
  <2>1. u[2] = Taker(h)
   <3>1. u # <<>> /\ Tail(u) # <<>> /\ Head(Tail(u)) = Taker(h)
     BY <1>2, <1>3
   <3>2. Len(u) \in Nat \ {0} /\ Len(Tail(u)) = Len(u) - 1
         /\ \A j \in 1 .. Len(Tail(u)) : Tail(u)[j] = u[1 + j]
         /\ Tail(u) \in Seq(Steps)
     BY <1>1, <3>1, TailIsRear
   <3>3. Head(Tail(u)) = Tail(u)[1] /\ Len(Tail(u)) \in Nat \ {0}
     BY <3>1, <3>2, TailIsRear
   <3>4. Tail(u)[1] = u[1 + 1]
     BY <3>2, <3>3
   <3> QED  BY <3>1, <3>3, <3>4
  <2> QED  BY <1>2, <1>3, <2>1 DEF ForceAhead, Taker, Sends
 <1>4. u # <<>> => /\ Head(u) = "receive_plane" => h \in Sends
                   /\ Head(u) \in Sends => h \notin Locals
   BY <1>1 DEF Fits
 <1>5. ToSend(t) <=> h \in Sends
   BY DEF ToSend, h
 <1>6. h \in Sends => Exchanging(t) /\ Exchanging(u) /\ ~ ToSend(u)
   BY <1>2 DEF Exchanging, ToSend, Sends, h
 <1>7. h \in Locals \ Sends => ~ Exchanging(u)
   BY <1>4 DEF Exchanging
 <1> QED  BY <1>2, <1>3, <1>4, <1>5, <1>6, <1>7 DEF u, h

(* A list that is not in the exchange is not beside one that is to send.   *)
LEMMA NoSender ==
    ASSUME NEW t, NEW tq, NEW sent, NEW f, NEW q, Match(t, tq, sent, f, q), ~ Exchanging(t),
           tq = <<>> \/ (Planned(tq) /\ Rooted(tq))
    PROVE  ~ ToSend(tq) /\ sent = <<>>
 <1>1. ASSUME ToSend(tq)  PROVE FALSE
  <2>1. tq # <<>>
    BY <1>1 DEF ToSend
  <2>2. Exchanging(tq) /\ Exchanging(Tail(tq))
    BY <1>1, <2>1, PlannedExchange
  <2> QED  BY <1>1, <2>2 DEF Match
 <1> QED  BY <1>1 DEF Match

(* A rank outside the exchange goes on to a step outside it.               *)
LEMMA MatchElsewhere ==
    ASSUME NEW t, NEW v, NEW tq, NEW sent, NEW f, NEW q, ~ Exchanging(t), ~ Exchanging(v)
    PROVE  /\ Match(t, tq, sent, f, q) /\ (tq = <<>> \/ (Planned(tq) /\ Rooted(tq)))
                => Match(v, tq, sent, f, q)
           /\ Match(tq, t, sent, f, q) => Match(tq, v, sent, f, q)
           /\ Match(t, t, sent, f, q) => Match(v, v, sent, f, q)
 <1>1. ~ ToSend(t) /\ ~ ToSend(v)
   BY DEF ToSend, Exchanging
 <1>2. ASSUME Match(t, tq, sent, f, q), tq = <<>> \/ (Planned(tq) /\ Rooted(tq))
       PROVE  Match(v, tq, sent, f, q)
  <2>1. ~ ToSend(tq) /\ sent = <<>>
    BY <1>2, NoSender
  <2> QED  BY <2>1 DEF Match
 <1>3. Match(tq, t, sent, f, q) => Match(tq, v, sent, f, q)
   BY <1>1 DEF Match
 <1>4. Match(t, t, sent, f, q) => Match(v, v, sent, f, q)
   BY <1>1 DEF Match
 <1> QED  BY <1>2, <1>3, <1>4

LEMMA MatchSend ==
    ASSUME NEW t, Planned(t), Rooted(t), ToSend(t), NEW tq, NEW sent, NEW f, NEW q,
           tq = <<>> \/ (Planned(tq) /\ Rooted(tq))
    PROVE  /\ Match(t, tq, sent, f, q) => Match(Tail(t), tq, sent, f, q)
           /\ Match(tq, t, sent, f, q) =>
                 \A x : (Head(t) = "send_force_plane" => x = Append(f, q))
                           => Match(tq, Tail(t), Append(sent, x), f, q)
           /\ Match(t, t, sent, f, q) =>
                 \A x : (Head(t) = "send_force_plane" => x = Append(f, q))
                           => Match(Tail(t), Tail(t), Append(sent, x), f, q)
 <1> DEFINE u == Tail(t)
 <1>1. t # <<>> /\ Head(t) \in Sends
   BY DEF ToSend
 <1>2. /\ Exchanging(u) /\ ~ ToSend(u) /\ Exchanging(t) /\ u # <<>>
       /\ Head(u) = "receive_plane"
       /\ ForceAhead(u) <=> Head(t) = "send_force_plane"
   BY <1>1, PlannedExchange
 <1>3. ForceAhead(t) <=> Head(t) = "send_force_plane"
   BY <1>1 DEF ForceAhead, Sends
 <1> HIDE DEF u
 <1>4. ASSUME Match(t, tq, sent, f, q)
       PROVE  Match(u, tq, sent, f, q)
  <2>1. ToSend(tq) => u = Tail(tq)
   <3>1. ASSUME ToSend(tq), t = Tail(tq)  PROVE FALSE
    <4>1. tq # <<>>
      BY <3>1 DEF ToSend
    <4>2. Head(Tail(tq)) = "receive_plane"
      BY <3>1, <4>1, PlannedExchange
    <4> QED  BY <1>1, <3>1, <4>2 DEF Sends
   <3> QED  BY <1>4, <3>1 DEF Match, u
  <2> QED  BY <1>2, <1>3, <1>4, <2>1 DEF Match
 <1>5. ASSUME NEW s \in {t, u}, sent = <<>>, NEW x,
              Head(t) = "send_force_plane" => x = Append(f, q)
       PROVE  Match(s, u, Append(sent, x), f, q)
  <2>1. Append(sent, x) = <<x>> /\ Head(<<x>>) = x
    BY <1>5
  <2>2. Exchanging(s) /\ (ForceAhead(s) <=> Head(t) = "send_force_plane")
    BY <1>2, <1>3, <1>5
  <2> QED  BY <1>2, <1>5, <2>1, <2>2 DEF Match
 <1>6. ASSUME Match(tq, t, sent, f, q)
       PROVE  tq \in {t, u} /\ sent = <<>>
   BY <1>6 DEF Match, u
 <1>7. ASSUME Match(t, t, sent, f, q)
       PROVE  sent = <<>>
   BY <1>7 DEF Match
 <1> QED  BY <1>4, <1>5, <1>6, <1>7 DEF u

LEMMA MatchReceive ==
    ASSUME NEW t, Planned(t), Rooted(t), t # <<>>, Head(t) = "receive_plane",
           NEW tq, NEW sent, NEW f, NEW q
    PROVE  /\ Match(t, tq, sent, f, q) /\ sent # <<>> => Match(Tail(t), tq, Tail(sent), f, q)
           /\ Match(tq, t, sent, f, q) => Match(tq, Tail(t), sent, f, q)
           /\ Match(t, t, sent, f, q) /\ sent # <<>> =>
                 Match(Tail(t), Tail(t), Tail(sent), f, q)
 <1> DEFINE u == Tail(t)
 <1>1. Exchanging(t) /\ ~ ToSend(t) /\ "receive_plane" \in Locals \ Sends
   BY DEF Exchanging, ToSend, Sends, Locals
 <1>2. ~ Exchanging(u)
   BY <1>1, PlannedExchange
 <1> HIDE DEF u
 <1>3. ~ ToSend(u)
   BY <1>2 DEF Exchanging, ToSend
 <1>4. ASSUME NEW x, Match(t, x, sent, f, q), sent # <<>>
       PROVE  ~ ToSend(x) /\ Tail(sent) = <<>>
  <2>1. sent = <<Head(sent)>> /\ ~ ToSend(x)
    BY <1>4 DEF Match
  <2>2. \A y : Tail(<<y>>) = <<>>
    OBVIOUS
  <2>3. Tail(<<Head(sent)>>) = <<>>
    BY <2>2
  <2> QED  BY <2>1, <2>3
 <1>5. ASSUME Match(t, tq, sent, f, q), sent # <<>>
       PROVE  Match(u, tq, Tail(sent), f, q)
   BY <1>2, <1>4, <1>5 DEF Match
 <1>6. Match(tq, t, sent, f, q) => Match(tq, u, sent, f, q)
   BY <1>1, <1>3 DEF Match
 <1>7. ASSUME Match(t, t, sent, f, q), sent # <<>>
       PROVE  Match(u, u, Tail(sent), f, q)
   BY <1>2, <1>3, <1>4, <1>7 DEF Match
 <1> QED  BY <1>5, <1>6, <1>7 DEF u
-----------------------------------------------------------------------------
(* Which step of a rank it is.                                             *)
Plain == Checks \union {"axis_inverse", "halo_planes", "halo_values", "lag_kernel"}

LEMMA NamedSteps ==
    ASSUME NEW r, RankStep(r), todo[r] # <<>>
    PROVE  \/ (Check(r) \/ Arrive(r)) /\ Head(todo[r]) \in Plain
           \/ KeepWorkspace(r) /\ Head(todo[r]) \in Keeping
           \/ SendPlane(r) /\ Head(todo[r]) \in Sends
           \/ (\E c \in DOMAIN chunk[r] : WalkStep(r, c)) /\ Head(todo[r]) = "walk"
           \/ Prepare(r) /\ Head(todo[r]) = "prepare"
           \/ Migrate(r) /\ Head(todo[r]) = "migrate"
           \/ Materialize(r) /\ Head(todo[r]) = "materialize"
           \/ SetUp(r) /\ Head(todo[r]) = "set_up"
           \/ PublishLayout(r) /\ Head(todo[r]) = "publish_layout"
           \/ Transaction(r) /\ Head(todo[r]) = "transaction"
           \/ DepositMass(r) /\ Head(todo[r]) = "deposit"
           \/ DepositImpulse(r) /\ Head(todo[r]) = "impulse"
           \/ SendSpill(r) /\ Head(todo[r]) = "send_spill"
           \/ ReceiveSpill(r) /\ Head(todo[r]) = "receive_spill"
           \/ DensityValid(r) /\ Head(todo[r]) = "density_valid"
           \/ MassConserved(r) /\ Head(todo[r]) = "mass_conserved"
           \/ ImpulseConserved(r) /\ Head(todo[r]) = "impulse_conserved"
           \/ Source(r) /\ Head(todo[r]) = "source"
           \/ Forward(r) /\ Head(todo[r]) = "forward"
           \/ AxisModes(r) /\ Head(todo[r]) = "axis_modes"
           \/ ReceivePlane(r) /\ Head(todo[r]) = "receive_plane"
           \/ AxisGather(r) /\ Head(todo[r]) = "axis_gather"
           \/ HaloRequest(r) /\ Head(todo[r]) = "halo_request"
           \/ HaloResponse(r) /\ Head(todo[r]) = "halo_response"
           \/ GradientCheck(r) /\ Head(todo[r]) = "gradient_check"
           \/ Gradient(r) /\ Head(todo[r]) = "gradient"
           \/ Commit(r) /\ Head(todo[r]) = "commit"
           \/ WeightedSum(r) /\ Head(todo[r]) = "weighted_sum"
           \/ SelfEnergy(r) /\ Head(todo[r]) = "self_energy"
           \/ BuildTree(r) /\ Head(todo[r]) = "tree"
           \/ Join(r) /\ Head(todo[r]) = "walk"
           \/ Emit(r) /\ Head(todo[r]) = "emit"
           \/ Validate(r) /\ Head(todo[r]) = "validate"
 <1>1. ASSUME Call(r)  PROVE FALSE
   BY <1>1 DEF Call
 <1>2. Check(r) \/ Arrive(r) => Head(todo[r]) \in Plain
   BY DEF Check, Arrive, At, Plain
 <1>3. KeepWorkspace(r) => Head(todo[r]) \in Keeping
   BY DEF KeepWorkspace, Examine, At, Keeping
 <1>4. SendPlane(r) => Head(todo[r]) \in Sends
   BY DEF SendPlane, At, Sends
 <1>5. (\E c \in DOMAIN chunk[r] : WalkStep(r, c)) => Head(todo[r]) = "walk"
   BY DEF WalkStep, TakeChunk, SkipChunk, WalkOne, FinishChunk, RaiseFlag, StoreException,
          Walking, At
 <1>6. Prepare(r) => Head(todo[r]) = "prepare"
   BY DEF Prepare, At
 <1>7. Migrate(r) => Head(todo[r]) = "migrate"
   BY DEF Migrate, At
 <1>8. Materialize(r) => Head(todo[r]) = "materialize"
   BY DEF Materialize, At
 <1>9. SetUp(r) => Head(todo[r]) = "set_up"
   BY DEF SetUp, At
 <1>10. PublishLayout(r) => Head(todo[r]) = "publish_layout"
   BY DEF PublishLayout, At
 <1>11. Transaction(r) => Head(todo[r]) = "transaction"
   BY DEF Transaction, Stage, Examine, At
 <1>12. DepositMass(r) => Head(todo[r]) = "deposit"
   BY DEF DepositMass, Deposit, Stage, At
 <1>13. DepositImpulse(r) => Head(todo[r]) = "impulse"
   BY DEF DepositImpulse, Deposit, Stage, At
 <1>14. SendSpill(r) => Head(todo[r]) = "send_spill"
   BY DEF SendSpill, At
 <1>15. ReceiveSpill(r) => Head(todo[r]) = "receive_spill"
   BY DEF ReceiveSpill, At
 <1>16. DensityValid(r) => Head(todo[r]) = "density_valid"
   BY DEF DensityValid, Stage, Examine, At
 <1>17. MassConserved(r) => Head(todo[r]) = "mass_conserved"
   BY DEF MassConserved, Stage, Examine, At
 <1>18. ImpulseConserved(r) => Head(todo[r]) = "impulse_conserved"
   BY DEF ImpulseConserved, Stage, Examine, At
 <1>19. Source(r) => Head(todo[r]) = "source"
   BY DEF Source, Stage, Examine, At
 <1>20. Forward(r) => Head(todo[r]) = "forward"
   BY DEF Forward, Stage, Examine, At
 <1>21. AxisModes(r) => Head(todo[r]) = "axis_modes"
   BY DEF AxisModes, Stage, Examine, At
 <1>22. ReceivePlane(r) => Head(todo[r]) = "receive_plane"
   BY DEF ReceivePlane, At
 <1>23. AxisGather(r) => Head(todo[r]) = "axis_gather"
   BY DEF AxisGather, At
 <1>24. HaloRequest(r) => Head(todo[r]) = "halo_request"
   BY DEF HaloRequest, Stage, Examine, At
 <1>25. HaloResponse(r) => Head(todo[r]) = "halo_response"
   BY DEF HaloResponse, Stage, Examine, At
 <1>26. GradientCheck(r) => Head(todo[r]) = "gradient_check"
   BY DEF GradientCheck, Stage, Examine, At
 <1>27. Gradient(r) => Head(todo[r]) = "gradient"
   BY DEF Gradient, Stage, Examine, At
 <1>28. Commit(r) => Head(todo[r]) = "commit"
   BY DEF Commit, At
 <1>29. WeightedSum(r) => Head(todo[r]) = "weighted_sum"
   BY DEF WeightedSum, Stage, Examine, At
 <1>30. SelfEnergy(r) => Head(todo[r]) = "self_energy"
   BY DEF SelfEnergy, Stage, Examine, At
 <1>31. BuildTree(r) => Head(todo[r]) = "tree"
   BY DEF BuildTree, At
 <1>32. Join(r) => Head(todo[r]) = "walk"
   BY DEF Join, At
 <1>33. Emit(r) => Head(todo[r]) = "emit"
   BY DEF Emit, At
 <1>34. Validate(r) => Head(todo[r]) = "validate"
   BY DEF Validate, At
 <1>35. ASSUME MeshStep(r)
       PROVE  \/ SendPlane(r) /\ Head(todo[r]) \in Sends
              \/ Transaction(r) /\ Head(todo[r]) = "transaction"
              \/ DepositMass(r) /\ Head(todo[r]) = "deposit"
              \/ DepositImpulse(r) /\ Head(todo[r]) = "impulse"
              \/ SendSpill(r) /\ Head(todo[r]) = "send_spill"
              \/ ReceiveSpill(r) /\ Head(todo[r]) = "receive_spill"
              \/ DensityValid(r) /\ Head(todo[r]) = "density_valid"
              \/ MassConserved(r) /\ Head(todo[r]) = "mass_conserved"
              \/ ImpulseConserved(r) /\ Head(todo[r]) = "impulse_conserved"
              \/ Source(r) /\ Head(todo[r]) = "source"
              \/ Forward(r) /\ Head(todo[r]) = "forward"
              \/ AxisModes(r) /\ Head(todo[r]) = "axis_modes"
              \/ ReceivePlane(r) /\ Head(todo[r]) = "receive_plane"
              \/ AxisGather(r) /\ Head(todo[r]) = "axis_gather"
              \/ HaloRequest(r) /\ Head(todo[r]) = "halo_request"
              \/ HaloResponse(r) /\ Head(todo[r]) = "halo_response"
              \/ GradientCheck(r) /\ Head(todo[r]) = "gradient_check"
              \/ Gradient(r) /\ Head(todo[r]) = "gradient"
              \/ Commit(r) /\ Head(todo[r]) = "commit"
              \/ WeightedSum(r) /\ Head(todo[r]) = "weighted_sum"
              \/ SelfEnergy(r) /\ Head(todo[r]) = "self_energy"
   BY <1>35, <1>4, <1>11, <1>12, <1>13, <1>14, <1>15, <1>16, <1>17, <1>18, <1>19, <1>20, <1>21, 
      <1>22, <1>23, <1>24, <1>25, <1>26, <1>27, <1>28, <1>29, <1>30 DEF MeshStep
 <1> QED  BY <1>1, <1>2, <1>3, <1>5, <1>6, <1>7, <1>8, <1>9, <1>10, <1>31, <1>32, <1>33, <1>34, <1>35 DEF RankStep

LEMMA StepIs ==
    ASSUME NEW r, RankStep(r), todo[r] # <<>>
    PROVE  /\ Head(todo[r]) \in Sends => SendPlane(r)
           /\ Head(todo[r]) = "walk" => Join(r) \/ \E c \in DOMAIN chunk[r] : WalkStep(r, c)
           /\ Head(todo[r]) = "prepare" => Prepare(r)
           /\ Head(todo[r]) = "migrate" => Migrate(r)
           /\ Head(todo[r]) = "materialize" => Materialize(r)
           /\ Head(todo[r]) = "set_up" => SetUp(r)
           /\ Head(todo[r]) = "transaction" => Transaction(r)
           /\ Head(todo[r]) = "deposit" => DepositMass(r)
           /\ Head(todo[r]) = "receive_spill" => ReceiveSpill(r)
           /\ Head(todo[r]) = "mass_conserved" => MassConserved(r)
           /\ Head(todo[r]) = "source" => Source(r)
           /\ Head(todo[r]) = "axis_modes" => AxisModes(r)
           /\ Head(todo[r]) = "receive_plane" => ReceivePlane(r)
           /\ Head(todo[r]) = "axis_gather" => AxisGather(r)
           /\ Head(todo[r]) = "halo_request" => HaloRequest(r)
           /\ Head(todo[r]) = "halo_response" => HaloResponse(r)
           /\ Head(todo[r]) = "gradient_check" => GradientCheck(r)
           /\ Head(todo[r]) = "gradient" => Gradient(r)
           /\ Head(todo[r]) = "commit" => Commit(r)
           /\ Head(todo[r]) = "tree" => BuildTree(r)
           /\ Head(todo[r]) = "validate" => Validate(r)
  BY NamedSteps DEF Plain, Checks, Keeping, Sends
-----------------------------------------------------------------------------
LEMMA OnlyCalls ==
    ASSUME NEW r, RankStep(r), todo[r] = <<>>
    PROVE  Call(r)
  BY DEF RankStep, Check, Arrive, Prepare, Migrate, Materialize, SetUp, PublishLayout,
         KeepWorkspace, MeshStep, BuildTree, Join, Emit, Validate, WalkStep, TakeChunk,
         SkipChunk, WalkOne, FinishChunk, RaiseFlag, StoreException, Walking, At, Stage,
         Examine, Transaction, DepositMass, DepositImpulse, Deposit, SendSpill,
         ReceiveSpill, DensityValid, MassConserved, ImpulseConserved, Source, Forward,
         AxisModes, SendPlane, ReceivePlane, AxisGather, HaloRequest, HaloResponse,
         GradientCheck, Gradient, Commit, WeightedSum, SelfEnergy

(* A step of one rank changes the lists it is paired in.                   *)
LEMMA PairsChange ==
    ASSUME PipelineTypes, ForceTypes, PlanesMatch, Alike, NEW r \in Ranks, Frame(r),
           \A q \in Ranks \ {r} : todo'[q] = todo[q],
           \A q \in Ranks \ {r, Left(r)} : planes'[q] = planes[q],
           Right(r) # r =>
              /\ Match(todo[r], todo[Right(r)], planes[r], mem[r].force, Right(r))
                    => Match(todo'[r], todo[Right(r)], planes'[r], mem[r].force, Right(r))
              /\ Match(todo[Left(r)], todo[r], planes[Left(r)], mem[Left(r)].force, r)
                    => Match(todo[Left(r)], todo'[r], planes'[Left(r)], mem[Left(r)].force, r),
           Right(r) = r =>
              (Match(todo[r], todo[r], planes[r], mem[r].force, r)
                 => Match(todo'[r], todo'[r], planes'[r], mem[r].force, r))
    PROVE  PlanesMatch'
 <1>1. /\ Ranks' = Ranks /\ \A q : Right(q)' = Right(q)
   BY SameSetup DEF Frame
 <1>2. \A q \in Ranks : mem'[q].force = mem[q].force
   BY NeverWritten DEF Frame, Writes
 <1>3. \A q \in Ranks : /\ Right(q) \in Ranks /\ Left(q) \in Ranks
                        /\ Left(Right(q)) = q /\ Right(Left(q)) = q
   BY Ring
 <1>4. \A q \in Ranks : Match(todo[q], todo[Right(q)], planes[q], mem[q].force, Right(q))
   BY DEF PlanesMatch
 <1>5. ASSUME NEW p \in Ranks
       PROVE  Match(todo'[p], todo'[Right(p)], planes'[p], mem[p].force, Right(p))
  <2>1. CASE p = r /\ Right(r) = r
    BY <1>4, <2>1
  <2>2. CASE p = r /\ Right(r) # r
   <3>1. todo'[Right(r)] = todo[Right(r)]
     BY <1>3, <2>2
   <3> QED  BY <1>4, <2>2, <3>1
  <2>3. CASE p # r /\ Right(p) = r
   <3>1. p = Left(r) /\ Right(r) # r /\ todo'[p] = todo[p]
     BY <1>3, <2>3
   <3>2. Match(todo[Left(r)], todo[r], planes[Left(r)], mem[Left(r)].force, r)
     BY <1>4, <2>3, <3>1
   <3> QED  BY <2>3, <3>1, <3>2
  <2>4. CASE p # r /\ Right(p) # r
   <3>1. p # Left(r) /\ todo'[p] = todo[p] /\ todo'[Right(p)] = todo[Right(p)]
     BY <1>3, <2>4
   <3>2. planes'[p] = planes[p]
     BY <2>4, <3>1
   <3> QED  BY <1>4, <3>1, <3>2
  <2> QED  BY <2>1, <2>2, <2>3, <2>4
 <1>6. \A p \in Ranks : Match(todo'[p], todo'[Right(p)], planes'[p], mem'[p].force, Right(p))
   BY <1>2, <1>5
 <1>7. \A a, b, c, d, e : Match(a, b, c, d, e)' <=> Match(a, b, c, d, e)
   BY DEF Match, Exchanging, ToSend, ForceAhead, Sends
 <1>8. \A p \in Ranks : Match(todo[p], todo[Right(p)], planes[p], mem[p].force, Right(p))'
   BY <1>1, <1>6, <1>7
 <1> QED  BY <1>1, <1>8 DEF PlanesMatch

LEMMA PlanesStay ==
    ASSUME PipelineInv, ForceTypes, Courses, Alike, PlanesMatch, Unprotected = {},
           NEW r \in Ranks, RankStep(r), Frame(r)
    PROVE  PlanesMatch'
 <1> DEFINE t == todo[r]
            v == todo'[r]
            L == Left(r)
            R == Right(r)
            f == mem[r].force
 <1>1. PipelineTypes /\ WaitsForAll /\ CallsInOrder
   BY DEF PipelineInv
 <1>2. L \in Ranks /\ R \in Ranks
   BY <1>1, Ring
 <1>3. \A q \in Ranks : todo[q] = <<>> \/ (Planned(todo[q]) /\ Rooted(todo[q]))
   BY DEF Courses, ListsPlanned
 <1>4. \A q \in Ranks \ {r} : todo'[q] = todo[q]
  <2>1. CASE todo[r] = <<>>
    BY <1>1, <2>1, OnlyCalls, CallAlone
  <2>2. CASE todo[r] # <<>>
    BY <2>2, HowItMoves DEF Courses
  <2> QED  BY <2>1, <2>2
 <1>5. CASE v = t /\ planes' = planes
   BY <1>1, <1>4, <1>5, PairsChange
 <1>6. CASE ~ Exchanging(t) /\ ~ Exchanging(v) /\ planes' = planes
  <2>1. /\ Match(t, todo[R], planes[r], f, R) => Match(v, todo[R], planes[r], f, R)
        /\ Match(todo[L], t, planes[L], mem[L].force, r)
              => Match(todo[L], v, planes[L], mem[L].force, r)
        /\ Match(t, t, planes[r], f, r) => Match(v, v, planes[r], f, r)
    BY <1>2, <1>3, <1>6, MatchElsewhere
  <2> QED  BY <1>1, <1>4, <1>6, <2>1, PairsChange
 <1>7. CASE t = <<>>
  <2>1. Call(r)
    BY <1>7, OnlyCalls
  <2>2. v = <<>> \/ v = Solve(r) \/ v = Measure(r)
   <3>1. v = IF Skipped(r, Made(r) + 1) THEN <<>> ELSE Fresh(r, Made(r) + 1)
     BY <1>1, <2>1, CallAlone
   <3> QED  BY <3>1 DEF Fresh
  <2>3. ~ Exchanging(v)
   <3>1. Head(Solve(r)) = "prepare" /\ Head(Measure(r)) = "measure"
     BY SolvePlanned, MeasurePlanned
   <3> QED  BY <2>2, <3>1 DEF Exchanging, Sends
  <2>4. ~ Exchanging(t) /\ planes' = planes
    BY <1>7, <2>1 DEF Exchanging, Call, messages
  <2> QED  BY <1>6, <2>3, <2>4
 <1>8. CASE t # <<>>
  <2> DEFINE u == Tail(t)
  <2>1. /\ ~ waiting[r] /\ StepOf(r) = Head(t)
        /\ \/ Breaks(r, t, u) \/ Joins(r, t, u) \/ Passes(r, t, u) \/ Jumps(r, t, u)
           \/ Walks(r, t)
    BY <1>8, HowItMoves DEF Courses
  <2>2. Planned(t) /\ Rooted(t)
    BY <1>3, <1>8
  <2> HIDE DEF u
  <2>3. CASE Head(t) \notin Sends \union {"receive_plane"}
   <3>1. ~ Exchanging(t) /\ planes' = planes
     BY <2>1, <2>3 DEF Exchanging, Frame
   <3>2. CASE Breaks(r, t, u) \/ Joins(r, t, u) \/ Walks(r, t)
     BY <1>5, <3>1, <3>2 DEF Breaks, Joins, Walks
   <3>3. CASE Passes(r, t, u)
    <4>1. v = u /\ Head(t) \in Locals \ Sends
      BY <2>3, <3>3 DEF Passes
    <4>2. ~ Exchanging(u)
      BY <1>8, <2>2, <4>1, PlannedExchange DEF u
    <4> QED  BY <1>6, <3>1, <4>1, <4>2
   <3>4. CASE Jumps(r, t, u)
    <4>1. v = From(u, "complete") /\ v # <<>>
      BY <3>4 DEF Jumps
    <4>2. Head(v) = "complete"
      BY <1>8, <2>2, <4>1, Leaving DEF u
    <4>3. ~ Exchanging(v)
      BY <4>2 DEF Exchanging, Sends
    <4> QED  BY <1>6, <3>1, <4>3
   <3> QED  BY <2>1, <3>2, <3>3, <3>4
  <2>4. CASE Head(t) \in Sends
   <3>1. SendPlane(r)
     BY <1>8, <2>4, StepIs
   <3> DEFINE x == Append(mem[r][IF At(r, "send_force_plane") THEN "force" ELSE "density"], r)
   <3>2. planes' = [planes EXCEPT ![L] = Append(planes[L], x)] /\ v = u
     BY <1>1, <3>1 DEF SendPlane, Continue, u, PipelineTypes
   <3>3. DOMAIN planes = Ranks
     BY DEF ForceTypes
   <3>4. ToSend(t)
     BY <1>8, <2>4 DEF ToSend
   <3>5. Head(t) = "send_force_plane" => x = Append(f, r) /\ f = mem[L].force
    <4>1. f = mem[L].force
      BY <1>2 DEF Alike
    <4>2. Head(t) = "send_force_plane" => At(r, "send_force_plane")
      BY <1>8, <2>1 DEF At
    <4> QED  BY <4>1, <4>2
   <3> HIDE DEF x
   <3>6. Match(t, todo[R], planes[r], f, R) => Match(u, todo[R], planes[r], f, R)
     BY <1>2, <1>3, <2>2, <3>4, MatchSend DEF u
   <3>7. Match(todo[L], t, planes[L], mem[L].force, r)
            => Match(todo[L], u, Append(planes[L], x), mem[L].force, r)
     BY <1>2, <1>3, <2>2, <3>4, <3>5, MatchSend DEF u
   <3>8. Match(t, t, planes[r], f, r) => Match(u, u, Append(planes[r], x), f, r)
     BY <1>2, <1>3, <2>2, <3>4, <3>5, MatchSend DEF u
   <3>9. /\ planes'[L] = Append(planes[L], x)
         /\ \A q \in Ranks \ {L} : planes'[q] = planes[q]
         /\ R = r => L = r
         /\ R # r => L # r
     BY <1>1, <1>2, <3>2, <3>3, Ring
   <3>10. R # r => planes'[r] = planes[r]
     BY <3>9
   <3> QED  BY <1>1, <1>4, <3>2, <3>6, <3>7, <3>8, <3>9, <3>10, PairsChange
  <2>5. CASE Head(t) = "receive_plane"
   <3>1. ReceivePlane(r)
     BY <1>8, <2>5, StepIs
   <3>2. planes' = [planes EXCEPT ![r] = Tail(planes[r])] /\ v = u /\ planes[r] # <<>>
     BY <1>1, <3>1 DEF ReceivePlane, Continue, u, PipelineTypes
   <3>3. DOMAIN planes = Ranks
     BY DEF ForceTypes
   <3>4. Match(t, todo[R], planes[r], f, R) => Match(u, todo[R], Tail(planes[r]), f, R)
     BY <1>8, <2>2, <2>5, <3>2, MatchReceive DEF u
   <3>5. Match(todo[L], t, planes[L], mem[L].force, r)
            => Match(todo[L], u, planes[L], mem[L].force, r)
     BY <1>8, <2>2, <2>5, MatchReceive DEF u
   <3>6. Match(t, t, planes[r], f, r) => Match(u, u, Tail(planes[r]), f, r)
     BY <1>8, <2>2, <2>5, <3>2, MatchReceive DEF u
   <3>7. /\ planes'[r] = Tail(planes[r])
         /\ \A q \in Ranks \ {r} : planes'[q] = planes[q]
         /\ R # r => L # r
     BY <1>1, <1>2, <3>2, <3>3, Ring
   <3>8. R # r => planes'[L] = planes[L]
     BY <1>2, <3>7
   <3> QED  BY <1>1, <1>4, <3>2, <3>4, <3>5, <3>6, <3>7, <3>8, PairsChange
  <2> QED  BY <2>3, <2>4, <2>5
 <1> QED  BY <1>7, <1>8
-----------------------------------------------------------------------------
(* What a mesh holds before each group of steps.                           *)
Massing(m, n) == m.density = Torn \/ \E x \in {"own", "whole"} : m.density = <<"mass", x, n>>
Waved(m, n) == m.phi = <<"mass", "phi", n>>
On(gathers, g, m, k) == gathers => g <= 3 /\ m.axis = k - g
Pulled(gathers, g, m, n) == gathers => m.force = <<"mass", "force", n, 4 - g>>
Haloed(m, n) == Size # 1 => \A p \in DOMAIN m.halo : m.halo[p] = Potential(n)
Asked(m) == m.needs \subseteq 0 .. Mesh - 1

LEMMA MeshReads ==
    ASSUME NEW gathers \in BOOLEAN, NEW g, NEW m, NEW n, NEW r
    PROVE  /\ \A h \in Raw : MeshAt(h, gathers, g, m, n, r)
                 <=> Massing(m, n) /\ On(gathers, g, m, 3)
           /\ \A h \in Massed : MeshAt(h, gathers, g, m, n, r)
                 <=> /\ m.density = <<"mass", IF Size = 1 THEN "own" ELSE "whole", n>>
                     /\ On(gathers, g, m, 3)
           /\ MeshAt("forward", gathers, g, m, n, r)
                 <=> m.density = <<"mass", "source", n>> /\ On(gathers, g, m, 3)
           /\ MeshAt("modes_finite", gathers, g, m, n, r)
                 <=> Waved(m, n) /\ On(gathers, g, m, 3)
           /\ MeshAt("inverse", gathers, g, m, n, r)
                 <=> Waved(m, n) /\ (gathers => g <= 3)
           /\ MeshAt("axis_inverse", gathers, g, m, n, r)
                 <=> /\ Waved(m, n) /\ On(gathers, g, m, 4)
                     /\ gathers => m.modes = <<"mass", "axis", n, 4 - g>>
           /\ \A h \in Between : MeshAt(h, gathers, g, m, n, r)
                 <=> Waved(m, n) /\ On(gathers, g, m, 3)
           /\ \A h \in Forced \ {"axis_gather"} : MeshAt(h, gathers, g, m, n, r)
                 <=> Waved(m, n) /\ On(gathers, g, m, 4) /\ Pulled(gathers, g, m, n)
           /\ MeshAt("axis_gather", gathers, g, m, n, r)
                 <=> /\ Waved(m, n) /\ On(gathers, g, m, 4) /\ Pulled(gathers, g, m, n)
                     /\ gathers /\ Size # 1 => m.right = Append(m.force, Right(r))
           /\ \A h \in {"potential_finite", "halo_plan", "halo_request"} :
                 MeshAt(h, gathers, g, m, n, r)
                 <=> m.density = Potential(n) /\ (gathers => g <= 3)
           /\ \A h \in Asking \union {"halo_response"} : MeshAt(h, gathers, g, m, n, r)
                 <=> m.density = Potential(n) /\ (gathers => g <= 3) /\ Haloed(m, n) /\ Asked(m)
           /\ MeshAt("halo_values", gathers, g, m, n, r)
                 <=> /\ m.density = Potential(n) /\ (gathers => g <= 3) /\ Haloed(m, n)
                     /\ Asked(m) /\ m.reply = Potential(n)
           /\ \A h \in {"halo_unpack", "gradient_check"} : MeshAt(h, gathers, g, m, n, r)
                 <=> m.density = Potential(n) /\ (gathers => g <= 3) /\ Haloed(m, n)
           /\ MeshAt("gradient", gathers, g, m, n, r)
                 <=> /\ m.density = Potential(n) /\ (gathers => g <= 3) /\ Haloed(m, n)
                     /\ Size # 1 => Support(r) \subseteq SlabPlanes(r) \union DOMAIN m.halo
           /\ \A h : h \notin Region => MeshAt(h, gathers, g, m, n, r)
 <1> USE DEF MeshAt, Massing, Waved, On, Pulled, Haloed, Asked, Region, Raw, Massed, Forced,
             Between, Known, Asking, Answering, Answered
 <1>1. \A h \in Raw : MeshAt(h, gathers, g, m, n, r) <=> Massing(m, n) /\ On(gathers, g, m, 3)
   OBVIOUS
 <1>2. \A h \in Massed : MeshAt(h, gathers, g, m, n, r)
          <=> /\ m.density = <<"mass", IF Size = 1 THEN "own" ELSE "whole", n>>
              /\ On(gathers, g, m, 3)
   OBVIOUS
 <1>3. MeshAt("forward", gathers, g, m, n, r)
          <=> m.density = <<"mass", "source", n>> /\ On(gathers, g, m, 3)
   OBVIOUS
 <1>4. MeshAt("modes_finite", gathers, g, m, n, r) <=> Waved(m, n) /\ On(gathers, g, m, 3)
   OBVIOUS
 <1>5. MeshAt("inverse", gathers, g, m, n, r) <=> Waved(m, n) /\ (gathers => g <= 3)
   OBVIOUS
 <1>6. MeshAt("axis_inverse", gathers, g, m, n, r)
          <=> /\ Waved(m, n) /\ On(gathers, g, m, 4)
              /\ gathers => m.modes = <<"mass", "axis", n, 4 - g>>
   OBVIOUS
 <1>7. \A h \in Between : MeshAt(h, gathers, g, m, n, r)
          <=> Waved(m, n) /\ On(gathers, g, m, 3)
   OBVIOUS
 <1>8. \A h \in Forced \ {"axis_gather"} : MeshAt(h, gathers, g, m, n, r)
          <=> Waved(m, n) /\ On(gathers, g, m, 4) /\ Pulled(gathers, g, m, n)
   OBVIOUS
 <1>9. MeshAt("axis_gather", gathers, g, m, n, r)
          <=> /\ Waved(m, n) /\ On(gathers, g, m, 4) /\ Pulled(gathers, g, m, n)
              /\ gathers /\ Size # 1 => m.right = Append(m.force, Right(r))
   OBVIOUS
 <1>10. \A h \in {"potential_finite", "halo_plan", "halo_request"} :
           MeshAt(h, gathers, g, m, n, r)
           <=> m.density = Potential(n) /\ (gathers => g <= 3)
   OBVIOUS
 <1>11. \A h \in Asking \union {"halo_response"} : MeshAt(h, gathers, g, m, n, r)
           <=> m.density = Potential(n) /\ (gathers => g <= 3) /\ Haloed(m, n) /\ Asked(m)
   OBVIOUS
 <1>12. MeshAt("halo_values", gathers, g, m, n, r)
           <=> /\ m.density = Potential(n) /\ (gathers => g <= 3) /\ Haloed(m, n)
               /\ Asked(m) /\ m.reply = Potential(n)
   OBVIOUS
 <1>13. \A h \in {"halo_unpack", "gradient_check"} : MeshAt(h, gathers, g, m, n, r)
           <=> m.density = Potential(n) /\ (gathers => g <= 3) /\ Haloed(m, n)
   OBVIOUS
 <1>14. MeshAt("gradient", gathers, g, m, n, r)
           <=> /\ m.density = Potential(n) /\ (gathers => g <= 3) /\ Haloed(m, n)
               /\ Size # 1 => Support(r) \subseteq SlabPlanes(r) \union DOMAIN m.halo
   OBVIOUS
 <1>15. \A h : h \notin Region => MeshAt(h, gathers, g, m, n, r)
   OBVIOUS
 <1> HIDE DEF MeshAt, Massing, Waved, On, Pulled, Haloed, Asked, Region, Raw, Massed, Forced,
             Between, Known, Asking, Answering, Answered
 <1> QED  BY <1>1, <1>2, <1>3, <1>4, <1>5, <1>6, <1>7, <1>8, <1>9, <1>10, <1>11, <1>12, <1>13,
             <1>14, <1>15
-----------------------------------------------------------------------------
(* From one step of the mesh to the next.                                  *)
LEMMA LeadsAre ==
    ASSUME NEW x
    PROVE  /\ x \in Leads("deposit") => x = IF Size = 1 THEN "density_valid" ELSE "spill_mass"
           /\ x \in Leads("spill_mass") => x = "send_spill"
           /\ x \in Leads("send_spill") => x = "receive_spill"
           /\ x \in Leads("receive_spill") => x = "spilled_mass"
           /\ x \in Leads("spilled_mass") => x = "density_valid"
           /\ x \in Leads("density_valid") => x = "mass_conserved"
           /\ x \in Leads("mass_conserved") => x = "normalize"
           /\ x \in Leads("normalize") => x = "source"
           /\ x \in Leads("source") => x = "forward"
           /\ x \in Leads("forward") => x = "modes_finite"
           /\ x \in Leads("modes_finite") => x = IF Tree THEN "axis_modes" ELSE "inverse"
           /\ x \in Leads("axis_modes") => x = "axis_inverse"
           /\ x \in Leads("axis_inverse") => x = "axis_prepared"
           /\ x \in Leads("axis_prepared") => x = IF Size = 1 THEN "axis_gather" ELSE "send_force_plane"
           /\ x \in Leads("send_force_plane") => x = "receive_plane"
           /\ x \in Leads("receive_plane") => x = "axis_gather"
           /\ x \in Leads("axis_gather") => x = "axis_finite"
           /\ x \in Leads("axis_finite") => x = "axis_modes"
           /\ x \in Leads("inverse") => x = "potential_finite"
           /\ x \in Leads("potential_finite") => x = IF Size = 1 THEN "gradient" ELSE "halo_plan"
           /\ x \in Leads("halo_plan") => x = "halo_request"
           /\ x \in Leads("halo_request") => x = "halo_counts"
           /\ x \in Leads("halo_counts") => x = "halo_buffers"
           /\ x \in Leads("halo_buffers") => x = "halo_planes"
           /\ x \in Leads("halo_planes") => x = "halo_response"
           /\ x \in Leads("halo_response") => x = "halo_values"
           /\ x \in Leads("halo_values") => x = "halo_unpack"
           /\ x \in Leads("halo_unpack") => x = "gradient_check"
           /\ x \in Leads("gradient_check") => x = "gradient"
           /\ \A s : s \notin (Region \ {"gradient"}) \union {"deposit"} /\ x \in Leads(s)
                 => x \notin Region
  BY DEF Leads, Region, Raw, Massed, Forced, Between, Known, Asking, Answering, Answered

Contained == {"density", "phi", "modes", "force", "axis", "right", "halo", "needs", "reply"}
Kept(m, m2, W) == \A f \in W : m2[f] = m[f]

(* What does not touch the mesh passes on what it holds.                   *)
LEMMA MeshPasses ==
    ASSUME NEW h \in {"spill_mass", "send_spill", "spilled_mass", "density_valid", "normalize",
                      "modes_finite", "axis_prepared", "send_force_plane", "axis_finite",
                      "potential_finite", "halo_plan", "halo_counts", "halo_buffers",
                      "halo_unpack"},
           NEW h2 \in Leads(h), NEW gathers \in BOOLEAN, NEW g, NEW m, NEW m2, NEW n, NEW r,
           Kept(m, m2, Contained), MeshAt(h, gathers, g, m, n, r)
    PROVE  MeshAt(h2, gathers, g, m2, n, r)
 <1>1. /\ Massing(m2, n) <=> Massing(m, n)
       /\ Waved(m2, n) <=> Waved(m, n)
       /\ \A k : On(gathers, g, m2, k) <=> On(gathers, g, m, k)
       /\ Pulled(gathers, g, m2, n) <=> Pulled(gathers, g, m, n)
       /\ Haloed(m2, n) <=> Haloed(m, n)
       /\ Asked(m2) <=> Asked(m)
       /\ m2.density = m.density /\ m2.right = m.right /\ m2.halo = m.halo
   BY DEF Kept, Contained, Massing, Waved, On, Pulled, Haloed, Asked
 <1>2. CASE h \in {"spill_mass", "send_spill", "spilled_mass", "density_valid"}
  <2>1. h \in Raw /\ h2 \in Raw
    BY <1>2, LeadsAre DEF Raw
  <2> QED  BY <1>1, <2>1, MeshReads
 <1>3. CASE h = "normalize"
  <2>1. h \in Massed /\ h2 \in Massed
    BY <1>3, LeadsAre DEF Massed
  <2>2. m.density = <<"mass", IF Size = 1 THEN "own" ELSE "whole", n>> /\ On(gathers, g, m, 3)
    BY <2>1, MeshReads
  <2>3. m2.density = <<"mass", IF Size = 1 THEN "own" ELSE "whole", n>> /\ On(gathers, g, m2, 3)
    BY <1>1, <2>2
  <2> QED  BY <2>1, <2>3, MeshReads
 <1>4. CASE h = "modes_finite"
  <2>1. Waved(m, n) /\ On(gathers, g, m, 3)
    BY <1>4, MeshReads
  <2>2. h2 = "inverse" \/ h2 \in Between
   <3>1. h2 = IF Tree THEN "axis_modes" ELSE "inverse"
     BY <1>4, LeadsAre
   <3> QED  BY <3>1 DEF Between
  <2>3. gathers => g <= 3
    BY <2>1 DEF On
  <2>4. Waved(m2, n) /\ On(gathers, g, m2, 3)
    BY <1>1, <2>1
  <2>5. CASE h2 = "inverse"
    BY <2>3, <2>4, <2>5, MeshReads
  <2>6. CASE h2 \in Between
    BY <2>4, <2>6, MeshReads
  <2> QED  BY <2>2, <2>5, <2>6
 <1>5. CASE h = "axis_prepared"
  <2>1. Waved(m, n) /\ On(gathers, g, m, 4) /\ Pulled(gathers, g, m, n)
    BY <1>5, MeshReads DEF Forced
  <2>2. (h2 = "axis_gather" /\ Size = 1) \/ h2 \in Forced \ {"axis_gather"}
    BY <1>5, LeadsAre DEF Forced
  <2> QED  BY <1>1, <2>1, <2>2, MeshReads
 <1>6. CASE h = "send_force_plane"
  <2>1. h \in Forced \ {"axis_gather"} /\ h2 \in Forced \ {"axis_gather"}
    BY <1>6, LeadsAre DEF Forced
  <2> QED  BY <1>1, <2>1, MeshReads
 <1>7. CASE h = "axis_finite"
  <2>1. h \in Between /\ h2 \in Between
    BY <1>7, LeadsAre DEF Between
  <2> QED  BY <1>1, <2>1, MeshReads
 <1>8. CASE h = "potential_finite" \/ h = "halo_plan"
  <2>1. h2 \in {"halo_plan", "halo_request"} \/ (h2 = "gradient" /\ Size = 1)
   <3>1. h = "potential_finite" => h2 = IF Size = 1 THEN "gradient" ELSE "halo_plan"
     BY LeadsAre
   <3>2. h = "halo_plan" => h2 = "halo_request"
     BY LeadsAre
   <3>3. CASE h = "halo_plan"
     BY <3>2, <3>3
   <3>4. CASE h = "potential_finite" /\ Size = 1
     BY <3>1, <3>4
   <3>5. CASE h = "potential_finite" /\ Size # 1
     BY <3>1, <3>5
   <3> QED  BY <1>8, <3>3, <3>4, <3>5
  <2>2. m.density = Potential(n) /\ (gathers => g <= 3)
    BY <1>8, MeshReads
  <2>3. Size = 1 => Haloed(m2, n)
    BY DEF Haloed
  <2> QED  BY <1>1, <2>1, <2>2, <2>3, MeshReads
 <1>9. CASE h = "halo_counts" \/ h = "halo_buffers"
  <2>1. h \in Asking /\ h2 \in Asking
    BY <1>9, LeadsAre DEF Asking
  <2>2. m.density = Potential(n) /\ (gathers => g <= 3) /\ Haloed(m, n) /\ Asked(m)
    BY <2>1, MeshReads
  <2>3. m2.density = Potential(n) /\ Haloed(m2, n) /\ Asked(m2)
    BY <1>1, <2>2
  <2> QED  BY <2>1, <2>2, <2>3, MeshReads
 <1>10. CASE h = "halo_unpack"
  <2>1. h2 = "gradient_check"
    BY <1>10, LeadsAre
  <2> QED  BY <1>1, <1>10, <2>1, MeshReads
 <1> QED  BY <1>2, <1>3, <1>4, <1>5, <1>6, <1>7, <1>8, <1>9, <1>10

(* Where a rank stays, its mesh holds what it held.                        *)
LEMMA MeshSame ==
    ASSUME NEW steps, NEW m, NEW m2, NEW n, NEW r, Kept(m, m2, Contained),
           MeshHolds(steps, m, n, r)
    PROVE  MeshHolds(steps, m2, n, r)
  BY DEF MeshHolds, MeshAt, Kept, Contained
-----------------------------------------------------------------------------
(* What a label says.                                                      *)
LEMMA LabelsRead ==
    /\ \A a, b, n, c : Is(<<a, b, n>>, c) <=> b = c
    /\ \A a, b, n, c : As(<<a, b, n>>, c) = <<a, c, n>>
    /\ \A c : ~ Is(Torn, c)
    /\ \A a, b, n, k : Append(<<a, b, n>>, k) = <<a, b, n, k>>
    /\ \A a, b, n, k, c : Is(<<a, b, n, k>>, c) <=> b = c
    /\ \A a, b, n, k, c : As(<<a, b, n, k>>, c) = <<a, c, n, k>>
    /\ \A a, n, k : Component(<<a, "force", n, k>>) = <<n, k>>
    /\ \A a, b, n : <<a, b, n>> # Torn
 <1>1. ASSUME NEW a, NEW b, NEW n, NEW c
       PROVE  Is(<<a, b, n>>, c) <=> b = c
   BY DEF Is
 <1>2. ASSUME NEW a, NEW b, NEW n, NEW c
       PROVE  As(<<a, b, n>>, c) = <<a, c, n>>
  <2> DEFINE x == <<a, b, n>>
             y == <<a, c, n>>
  <2>1. x \in Seq({a, b, n}) /\ Len(x) = 3 /\ DOMAIN x = 1 .. 3 /\ x = [i \in 1 .. 3 |-> x[i]]
    OBVIOUS
  <2>2. DOMAIN y = 1 .. 3 /\ y = [i \in 1 .. 3 |-> y[i]]
    OBVIOUS
  <2>3. \A i \in 1 .. 3 : As(x, c)[i] = y[i]
    BY <2>1 DEF As
  <2>4. As(x, c) = [i \in 1 .. 3 |-> As(x, c)[i]]
    BY <2>1 DEF As
  <2> QED  BY <2>2, <2>3, <2>4
 <1>3. ASSUME NEW c
       PROVE  ~ Is(Torn, c)
   BY DEF Is, Torn
 <1>4. ASSUME NEW a, NEW b, NEW n, NEW k
       PROVE  Append(<<a, b, n>>, k) = <<a, b, n, k>>
  <2> DEFINE S == {a, b, n, k}
             x == <<a, b, n>>
             y == <<a, b, n, k>>
             z == Append(x, k)
  <2>1. /\ x \in Seq(S) /\ k \in S /\ Len(x) = 3 /\ x[1] = a /\ x[2] = b /\ x[3] = n
        /\ y \in Seq(S) /\ Len(y) = 4 /\ y[1] = a /\ y[2] = b /\ y[3] = n /\ y[4] = k
    OBVIOUS
  <2> HIDE DEF S, x, y
  <2>2. z \in Seq(S) /\ Len(z) = Len(x) + 1 /\ z[Len(x) + 1] = k
        /\ \A i \in 1 .. Len(x) : z[i] = x[i]
   <3>0. x \in Seq(S) /\ k \in S
     BY <2>1
   <3>1. /\ Append(x, k) \in Seq(S) /\ Len(Append(x, k)) = Len(x) + 1
         /\ \A i \in 1 .. Len(x) : Append(x, k)[i] = x[i]
         /\ Append(x, k)[Len(x) + 1] = k
     BY ONLY <3>0, AppendProperties
   <3> QED  BY <3>1
  <2>3. Len(z) = 4 /\ z[1] = a /\ z[2] = b /\ z[3] = n /\ z[4] = k
    BY <2>1, <2>2
  <2> HIDE DEF z
  <2>4. \A i \in 1 .. 4 : z[i] = y[i]
    BY <2>1, <2>3
  <2>5. z = y
    BY <2>1, <2>2, <2>3, <2>4, SeqEqual
  <2> QED  BY <2>5 DEF x, y, z
 <1>5. ASSUME NEW a, NEW b, NEW n, NEW k, NEW c
       PROVE  Is(<<a, b, n, k>>, c) <=> b = c
   BY DEF Is
 <1>6. ASSUME NEW a, NEW b, NEW n, NEW k, NEW c
       PROVE  As(<<a, b, n, k>>, c) = <<a, c, n, k>>
  <2> DEFINE x == <<a, b, n, k>>
             y == <<a, c, n, k>>
  <2>1. Len(x) = 4 /\ DOMAIN x = 1 .. 4 /\ x = [i \in 1 .. 4 |-> x[i]]
    OBVIOUS
  <2>2. DOMAIN y = 1 .. 4 /\ y = [i \in 1 .. 4 |-> y[i]]
    OBVIOUS
  <2>3. \A i \in 1 .. 4 : As(x, c)[i] = y[i]
    BY <2>1 DEF As
  <2>4. As(x, c) = [i \in 1 .. 4 |-> As(x, c)[i]]
    BY <2>1 DEF As
  <2> QED  BY <2>2, <2>3, <2>4
 <1>7. ASSUME NEW a, NEW n, NEW k
       PROVE  Component(<<a, "force", n, k>>) = <<n, k>>
  <2>1. Is(<<a, "force", n, k>>, "force")
    BY DEF Is
  <2> QED  BY <2>1 DEF Component
 <1>8. ASSUME NEW a, NEW b, NEW n
       PROVE  <<a, b, n>> # Torn
  <2>1. Len(<<a, b, n>>) = 3 /\ Len(<<"torn">>) = 1
    OBVIOUS
  <2> QED  BY <2>1 DEF Torn
 <1> QED  BY <1>1, <1>2, <1>3, <1>4, <1>5, <1>6, <1>7, <1>8

(* What a stage, or an examination, that succeeds leaves.                  *)
LEMMA StageKeeps ==
    ASSUME PipelineTypes, ForceTypes, NEW r \in Ranks, NEW s, NEW b, Stage(r, s, b),
           DOMAIN b \subseteq Fields, ~ error'[r]
    PROVE  \A f \in DOMAIN b : mem'[r][f] = b[f]
 <1>1. Keep(r, b)
   BY DEF Stage, Enter, PipelineTypes
 <1> QED  BY <1>1, KeepWrites

LEMMA ExamineKeeps ==
    ASSUME PipelineTypes, ForceTypes, NEW r \in Ranks, NEW s, NEW b, NEW good,
           Examine(r, s, good, b), DOMAIN b \subseteq Fields, ~ error'[r]
    PROVE  /\ \A f \in DOMAIN b : mem'[r][f] = b[f]
           /\ good
 <1>1. Keep(r, b) /\ error' = [error EXCEPT ![r] = ~ good] /\ r \in DOMAIN error
   BY DEF Examine, Enter, PipelineTypes
 <1> QED  BY <1>1, KeepWrites

-----------------------------------------------------------------------------
(* What the steps that write the mesh leave in it.                         *)
LEMMA SlabArithmetic ==
    ASSUME PipelineTypes, NEW r \in Ranks
    PROVE  HaloPlan(r) \subseteq 0 .. Mesh - 1
 <1>1. Mesh \in Nat \ {0} /\ Size \in Nat \ {0} /\ r \in Nat
   BY ForcePipelineAssumption DEF PipelineTypes, Size, Ranks
 <1>2. Block \in Nat
   BY <1>1 DEF Block
 <1>3. SlabStart(r) \in Nat
   BY <1>1, <1>2 DEF SlabStart
 <1>4. Cardinality(SlabPlanes(r)) \in Nat
  <2>1. IsFiniteSet(0 .. Mesh - 1)
    BY <1>1, FS_Interval
  <2> QED  BY <2>1, FS_Subset, FS_CardinalityType DEF SlabPlanes
 <1> DEFINE s == SlabStart(r)
            c == Cardinality(SlabPlanes(r))
            M == Mesh
 <1>5. s \in Nat /\ c \in Nat /\ M \in Nat \ {0}
   BY <1>1, <1>3, <1>4
 <1>6. HaloPlan(r) = {(s + M - 1) % M, (s + c) % M, (s + c + 1) % M}
   BY DEF HaloPlan
 <1> HIDE DEF s, c, M
 <1>7. \A x \in Nat : x % M \in 0 .. M - 1
   BY <1>5
 <1>8. s + M - 1 \in Nat /\ s + c \in Nat /\ s + c + 1 \in Nat
   BY <1>5
 <1> QED  BY <1>6, <1>7, <1>8 DEF M

(* The mass on the way to the source of the potential.                     *)
LEMMA MassTurns ==
    ASSUME PipelineTypes, ForceTypes, NEW r \in Ranks, ~ error'[r], Frame(r), todo[r] # <<>>,
           RankStep(r), NEW h, h = Head(todo[r]), StepOf(r) = h,
           NEW n, n = solve[r], NEW gathers \in BOOLEAN, NEW g \in Nat, NEW h2 \in Leads(h),
           h \in {"deposit", "receive_spill", "mass_conserved", "source"},
           h = "deposit" => (gathers => g = 3),
           h # "deposit" => MeshAt(h, gathers, g, mem[r], n, r)
    PROVE  MeshAt(h2, gathers, g, mem'[r], n, r)
 <1> DEFINE m == mem[r]
            m2 == mem'[r]
 <1>1. \A f \in Fields \ Written(h) : m2[f] = m[f]
   BY DEF Frame, Writes
 <1>2. {"density", "axis", "out"} \subseteq Fields
   BY FieldNames
 <1>3. CASE h = "deposit"
  <2> DEFINE b == [density |-> <<"mass", "own", solve[r]>>,
                   out |-> <<"mass", "spill", solve[r], r>>, axis |-> 0]
  <2>1. Stage(r, "deposit", b)
    BY <1>3, StepIs DEF DepositMass, Deposit
  <2>2. DOMAIN b = {"density", "out", "axis"} /\ b.density = <<"mass", "own", n>> /\ b.axis = 0
    OBVIOUS
  <2> HIDE DEF b
  <2>3. m2.density = b.density /\ m2.axis = b.axis
    BY <1>2, <2>1, <2>2, StageKeeps
  <2>4. Massing(m2, n) /\ On(gathers, g, m2, 3)
    BY <1>3, <2>2, <2>3 DEF Massing, On
  <2>5. h2 \in Raw
   <3>1. h2 = IF Size = 1 THEN "density_valid" ELSE "spill_mass"
     BY <1>3, LeadsAre
   <3> QED  BY <3>1 DEF Raw
  <2> QED  BY <2>4, <2>5, MeshReads
 <1>4. CASE h = "receive_spill"
  <2> DEFINE y == IF /\ Is(m.density, "own")
                     /\ Head(spills[r]) = Append(As(m.density, "spill"), Left(r))
                  THEN As(m.density, "whole") ELSE Torn
             b == [density |-> y]
  <2>1. Keep(r, b)
    BY <1>4, StepIs DEF ReceiveSpill
  <2>2. DOMAIN b = {"density"} /\ b.density = y
    OBVIOUS
  <2>3. m2.density = y /\ m2.axis = m.axis
   <3>1. m2.axis = m.axis
     BY <1>1, <1>2, <1>4, WrittenBy
   <3> HIDE DEF b, y
   <3> QED  BY <1>2, <2>1, <2>2, <3>1, KeepWrites
  <2>4. Massing(m, n) /\ On(gathers, g, m, 3)
    BY <1>4, MeshReads DEF Raw
  <2>5. y \in {Torn, <<"mass", "whole", n>>}
   <3>1. y = Torn \/ (Is(m.density, "own") /\ y = As(m.density, "whole"))
     OBVIOUS
   <3>2. CASE m.density = Torn
     BY <3>1, <3>2, LabelsRead
   <3>3. ASSUME NEW x \in {"own", "whole"}, m.density = <<"mass", x, n>>
         PROVE  y \in {Torn, <<"mass", "whole", n>>}
    <4>1. As(m.density, "whole") = <<"mass", "whole", n>>
      BY <3>3, LabelsRead
    <4> QED  BY <3>1, <4>1
   <3> QED  BY <2>4, <3>2, <3>3 DEF Massing
  <2>6. Massing(m2, n) /\ On(gathers, g, m2, 3)
    BY <2>3, <2>4, <2>5 DEF Massing, On
  <2>7. h2 \in Raw
    BY <1>4, LeadsAre DEF Raw
  <2> QED  BY <2>6, <2>7, MeshReads
 <1>5. CASE h = "mass_conserved"
  <2>1. Examine(r, "mass_conserved", Whole(r), Nothing) /\ DOMAIN Nothing = {}
    BY <1>5, StepIs DEF MassConserved, Nothing
  <2>2. Whole(r)
    BY <2>1, ExamineKeeps
  <2>3. Massing(m, n) /\ On(gathers, g, m, 3)
    BY <1>5, MeshReads DEF Raw
  <2>4. m.density = <<"mass", IF Size = 1 THEN "own" ELSE "whole", n>>
   <3>1. m.density # Torn
     BY <2>2, LabelsRead DEF Whole
   <3>2. PICK x \in {"own", "whole"} : m.density = <<"mass", x, n>>
     BY <2>3, <3>1 DEF Massing
   <3>3. Is(<<"mass", x, n>>, IF Size = 1 THEN "own" ELSE "whole")
     BY <2>2, <3>2 DEF Whole
   <3>4. x = IF Size = 1 THEN "own" ELSE "whole"
     BY <3>3, LabelsRead
   <3> QED  BY <3>2, <3>4
  <2>5. m2.density = m.density /\ m2.axis = m.axis
    BY <1>1, <1>2, <1>5, WrittenBy
  <2>6. h2 \in Massed
    BY <1>5, LeadsAre DEF Massed
  <2>7. On(gathers, g, m2, 3)
    BY <2>3, <2>5 DEF On
  <2> QED  BY <2>4, <2>5, <2>6, <2>7, MeshReads
 <1>6. CASE h = "source"
  <2> DEFINE y == IF Whole(r) THEN As(m.density, "source") ELSE Torn
             b == [density |-> y]
  <2>1. Stage(r, "source", b)
    BY <1>6, StepIs DEF Source
  <2>2. DOMAIN b = {"density"} /\ b.density = y
    OBVIOUS
  <2>3. m.density = <<"mass", IF Size = 1 THEN "own" ELSE "whole", n>> /\ On(gathers, g, m, 3)
    BY <1>6, MeshReads DEF Massed
  <2>4. y = <<"mass", "source", n>>
   <3>1. As(m.density, "source") = <<"mass", "source", n>>
     BY <2>3, LabelsRead
   <3>2. Is(m.density, IF Size = 1 THEN "own" ELSE "whole")
     BY <2>3, LabelsRead
   <3>3. Whole(r)
     BY <3>2 DEF Whole
   <3> QED  BY <3>1, <3>3
  <2>5. m2.density = y /\ m2.axis = m.axis
   <3>1. m2.axis = m.axis
     BY <1>1, <1>2, <1>6, WrittenBy
   <3> HIDE DEF b, y
   <3> QED  BY <1>2, <2>1, <2>2, <3>1, StageKeeps
  <2>6. h2 = "forward"
    BY <1>6, LeadsAre
  <2>7. On(gathers, g, m2, 3)
    BY <2>3, <2>5 DEF On
  <2> QED  BY <2>4, <2>5, <2>6, <2>7, MeshReads
 <1> QED  BY <1>3, <1>4, <1>5, <1>6

(* The waves on the way to a force, and the potential to its neighbours.   *)
LEMMA WaveTurns ==
    ASSUME PipelineTypes, ForceTypes, PlanesMatch, NEW r \in Ranks, ~ error'[r], Frame(r),
           todo[r] \in Seq(Steps), todo[r] # <<>>, Tail(todo[r]) # <<>>,
           RankStep(r), NEW h, h = Head(todo[r]), StepOf(r) = h,
           NEW n, n = solve[r], NEW gathers \in BOOLEAN, NEW g \in Nat, NEW h2 \in Leads(h),
           h2 = Head(Tail(todo[r])),
           h \in {"axis_modes", "receive_plane"},
           MeshAt(h, gathers, g, mem[r], n, r)
    PROVE  MeshAt(h2, gathers, g, mem'[r], n, r)
 <1> DEFINE m == mem[r]
            m2 == mem'[r]
 <1>1. \A f \in Fields \ Written(h) : m2[f] = m[f]
   BY DEF Frame, Writes
 <1>2. {"phi", "axis", "modes", "force", "right"} \subseteq Fields
   BY FieldNames
 <1>3. CASE h = "axis_modes"
  <2> DEFINE y == IF Is(m.phi, "phi") THEN Append(As(m.phi, "axis"), m.axis + 1) ELSE Torn
             x == m.axis + 1
             b == [modes |-> y, axis |-> x]
  <2>1. Stage(r, "axis_modes", b)
    BY <1>3, StepIs DEF AxisModes
  <2>2. DOMAIN b = {"modes", "axis"} /\ b.modes = y /\ b.axis = x
    OBVIOUS
  <2>3. Waved(m, n) /\ On(gathers, g, m, 3)
    BY <1>3, MeshReads DEF Between
  <2>4. y = <<"mass", "axis", n, x>>
   <3>1. m.phi = <<"mass", "phi", n>>
     BY <2>3 DEF Waved
   <3>2. Is(m.phi, "phi") /\ As(m.phi, "axis") = <<"mass", "axis", n>>
     BY <3>1, LabelsRead
   <3>3. y = Append(<<"mass", "axis", n>>, x)
     BY <3>2
   <3> HIDE DEF x, y
   <3> QED  BY <3>3, LabelsRead
  <2>5. gathers => x = 4 - g /\ g <= 3
    BY <2>3 DEF On
  <2> HIDE DEF b, y, x
  <2>6. m2.modes = y /\ m2.axis = x
    BY <1>2, <2>1, <2>2, StageKeeps
  <2>7. m2.phi = m.phi
    BY <1>1, <1>2, NeverWritten
  <2>8. Waved(m2, n) /\ On(gathers, g, m2, 4)
    BY <2>3, <2>5, <2>6, <2>7 DEF Waved, On
  <2>9. h2 = "axis_inverse"
    BY <1>3, LeadsAre
  <2>10. gathers => m2.modes = <<"mass", "axis", n, 4 - g>>
    BY <2>4, <2>5, <2>6
  <2> QED  BY <2>8, <2>9, <2>10, MeshReads
 <1>4. CASE h = "receive_plane"
  <2> DEFINE b == [right |-> Head(planes[r])]
  <2>1. Keep(r, b) /\ planes[r] # <<>>
    BY <1>4, StepIs DEF ReceivePlane
  <2>2. DOMAIN b = {"right"} /\ b.right = Head(planes[r])
    OBVIOUS
  <2> HIDE DEF b
  <2>3. m2.right = Head(planes[r])
    BY <1>2, <2>1, <2>2, KeepWrites
  <2>4. m2.phi = m.phi /\ m2.force = m.force /\ m2.axis = m.axis
    BY <1>1, <1>2, <1>4, WrittenBy
  <2>5. Waved(m, n) /\ On(gathers, g, m, 4) /\ Pulled(gathers, g, m, n)
    BY <1>4, MeshReads DEF Forced
  <2>6. h2 = "axis_gather"
    BY <1>4, LeadsAre
  <2>7. ForceAhead(todo[r])
   <3> DEFINE t == todo[r]
              u == Tail(t)
   <3>1. /\ t \in Seq(Steps) /\ t # <<>> /\ u # <<>> /\ Head(u) = "axis_gather"
         /\ Head(t) = "receive_plane"
     BY <1>4, <2>6
   <3>2. u \in Seq(Steps) /\ \A j \in 1 .. Len(u) : u[j] = t[1 + j]
     BY <3>1, TailIsRear
   <3> HIDE DEF u
   <3>3. Head(u) = u[1] /\ Len(u) \in Nat \ {0}
     BY <3>1, <3>2, TailIsRear
   <3>4. t[1 + 1] = "axis_gather"
     BY <3>1, <3>2, <3>3
   <3> QED  BY <3>1, <3>4 DEF ForceAhead
  <2>8. planes[r] = <<Append(m.force, Right(r))>>
    BY <2>1, <2>7 DEF PlanesMatch, Match
  <2>9. m2.right = Append(m2.force, Right(r))
   <3>1. \A x : Head(<<x>>) = x
     OBVIOUS
   <3>2. Head(<<Append(m.force, Right(r))>>) = Append(m.force, Right(r))
     BY <3>1
   <3> QED  BY <2>3, <2>4, <2>8, <3>2
  <2>10. Waved(m2, n) /\ On(gathers, g, m2, 4) /\ Pulled(gathers, g, m2, n)
    BY <2>4, <2>5 DEF Waved, On, Pulled
  <2> HIDE DEF m2
  <2>11. gathers /\ Size # 1 => m2.right = Append(m2.force, Right(r))
    BY <2>9
  <2>12. MeshAt("axis_gather", gathers, g, m2, n, r)
    BY <2>10, <2>11, MeshReads
  <2> QED  BY <2>6, <2>12 DEF m2
 <1> QED  BY <1>3, <1>4

LEMMA PotentialTurns ==
    ASSUME PipelineTypes, ForceTypes, NEW r \in Ranks, ~ error'[r], Frame(r), todo[r] # <<>>,
           RankStep(r), NEW h, h = Head(todo[r]), StepOf(r) = h,
           NEW n, n = solve[r], NEW gathers \in BOOLEAN, NEW g \in Nat, NEW h2 \in Leads(h),
           h \in {"halo_request", "halo_response", "gradient_check"},
           MeshAt(h, gathers, g, mem[r], n, r)
    PROVE  MeshAt(h2, gathers, g, mem'[r], n, r)
 <1> DEFINE m == mem[r]
            m2 == mem'[r]
 <1>1. \A f \in Fields \ Written(h) : m2[f] = m[f]
   BY DEF Frame, Writes
 <1>2. {"density", "halo", "needs", "reply"} \subseteq Fields
   BY FieldNames
 <1>3. m2.density = m.density
   BY <1>1, <1>2, WrittenBy
 <1>4. m.density = Potential(n) /\ (gathers => g <= 3)
   BY MeshReads DEF Asking
 <1>5. CASE h = "halo_request"
  <2> DEFINE x == [p \in HaloPlan(r) \intersect SlabPlanes(r) |-> m.density]
             y == HaloPlan(r) \ SlabPlanes(r)
             b == [halo |-> x, needs |-> y]
  <2>1. Stage(r, "halo_request", b)
    BY <1>5, StepIs DEF HaloRequest
  <2>2. DOMAIN b = {"halo", "needs"} /\ b.halo = x /\ b.needs = y
    OBVIOUS
  <2>3. \A p \in DOMAIN x : x[p] = m.density
    OBVIOUS
  <2>4. y \subseteq 0 .. Mesh - 1
    BY SlabArithmetic
  <2> HIDE DEF b, x, y
  <2>5. m2.halo = x /\ m2.needs = y
    BY <1>2, <2>1, <2>2, StageKeeps
  <2>6. Haloed(m2, n) /\ Asked(m2)
    BY <1>4, <2>3, <2>4, <2>5 DEF Haloed, Asked
  <2>7. h2 \in Asking
    BY <1>5, LeadsAre DEF Asking
  <2> QED  BY <1>3, <1>4, <2>6, <2>7, MeshReads
 <1>6. CASE h = "halo_response"
  <2> DEFINE b == [reply |-> m.density]
  <2>1. Examine(r, "halo_response", \A x \in m.asked : x[2] \in SlabPlanes(r), b)
    BY <1>6, StepIs DEF HaloResponse
  <2>2. DOMAIN b = {"reply"} /\ b.reply = m.density
    OBVIOUS
  <2> HIDE DEF b
  <2>3. m2.reply = m.density
    BY <1>2, <2>1, <2>2, ExamineKeeps
  <2>4. m2.halo = m.halo /\ m2.needs = m.needs
    BY <1>1, <1>2, <1>6, WrittenBy
  <2>5. Haloed(m, n) /\ Asked(m)
    BY <1>6, MeshReads
  <2>6. Haloed(m2, n) /\ Asked(m2)
    BY <2>4, <2>5 DEF Haloed, Asked
  <2>7. h2 = "halo_values"
    BY <1>6, LeadsAre
  <2> QED  BY <1>3, <1>4, <2>3, <2>6, <2>7, MeshReads
 <1>7. CASE h = "gradient_check"
  <2> DEFINE G == Support(r) \subseteq SlabPlanes(r) \union DOMAIN m.halo
  <2>1. Examine(r, "gradient_check", G, Nothing) /\ DOMAIN Nothing = {}
    BY <1>7, StepIs DEF GradientCheck, Nothing
  <2>2. G
    BY <2>1, ExamineKeeps
  <2>3. m2.halo = m.halo
    BY <1>1, <1>2, <1>7, WrittenBy
  <2>4. Haloed(m, n)
    BY <1>7, MeshReads
  <2>5. Haloed(m2, n)
    BY <2>3, <2>4 DEF Haloed
  <2>6. h2 = "gradient"
    BY <1>7, LeadsAre
  <2> QED  BY <1>3, <1>4, <2>2, <2>3, <2>5, <2>6, MeshReads
 <1> QED  BY <1>5, <1>6, <1>7
-----------------------------------------------------------------------------
(* Where the steps of a call stand to what they write.                     *)
LEMMA LittleWritten ==
    /\ \A s \in JointSteps \union {"walk", "axis_gather"} : Written(s) = {}
    /\ \A s \in {"spill_mass", "send_spill", "spilled_mass", "density_valid", "normalize",
                 "modes_finite", "axis_prepared", "send_force_plane", "axis_finite",
                 "potential_finite", "halo_plan", "halo_counts", "halo_buffers",
                 "halo_unpack"} : Written(s) \intersect Contained = {}
    /\ Contained \subseteq Fields
  BY FieldNames DEF Written, Keeping, Sends, JointSteps, Contained

LEMMA RegionNames ==
    ASSUME NEW h \in (Region \ {"gradient"}) \union {"deposit"}, h \notin JointSteps
    PROVE  \/ h \in {"spill_mass", "send_spill", "spilled_mass", "density_valid", "normalize",
                     "modes_finite", "axis_prepared", "send_force_plane", "axis_finite",
                     "potential_finite", "halo_plan", "halo_counts", "halo_buffers",
                     "halo_unpack"}
           \/ h \in {"deposit", "receive_spill", "mass_conserved", "source"}
           \/ h \in {"axis_modes", "receive_plane"}
           \/ h \in {"halo_request", "halo_response", "gradient_check"}
           \/ h = "axis_gather"
  BY DEF Region, Raw, Massed, Forced, Between, Known, Asking, Answering, Answered, JointSteps

(* What a rank that goes on has before it.                                 *)
LEMMA Onwards ==
    ASSUME PipelineInv, Courses, Unprotected = {}, NEW r \in Ranks, RankStep(r),
           todo[r] # <<>>, ~ error'[r]
    PROVE  \/ Ahead(r)' = todo[r] /\ Head(todo[r]) \in JointSteps \union {"walk"}
           \/ Ahead(r)' = Tail(todo[r]) /\ Head(todo[r]) \notin JointSteps
 <1>1. \/ Joins(r, todo[r], Tail(todo[r])) \/ Passes(r, todo[r], Tail(todo[r]))
       \/ Walks(r, todo[r])
   BY HowItMoves DEF Courses, Breaks, Jumps
 <1>2. Locals \intersect JointSteps = {}
   BY DEF Locals, JointSteps
 <1> QED  BY <1>1, <1>2 DEF Joins, Passes, Walks

LEMMA MeshStays ==
    ASSUME PipelineInv, ForceTypes, Courses, PlanesMatch, Unprotected = {},
           NEW r \in Ranks, RankStep(r), Frame(r), todo[r] # <<>>, ~ error'[r],
           MeshHolds(todo[r], mem[r], solve[r], r)
    PROVE  MeshHolds(Ahead(r)', mem'[r], solve'[r], r)
 <1> DEFINE t == todo[r]
            u == Tail(t)
            h == Head(t)
            h2 == Head(u)
            m == mem[r]
            m2 == mem'[r]
            n == solve[r]
 <1>1. PipelineTypes
   BY DEF PipelineInv
 <1>2. StepOf(r) = h /\ Planned(t) /\ Rooted(t) /\ t \in Seq(Steps)
   BY DEF StepOf, Courses, ListsPlanned, Planned
 <1>3. h # "prepare" => solve'[r] = n
   BY <1>2 DEF Frame, ForceTypes
 <1>4. \A f \in Fields \ Written(h) : m2[f] = m[f]
   BY <1>2 DEF Frame, Writes
 <1>5. CASE Ahead(r)' = t /\ h \in JointSteps \union {"walk"}
  <2>1. Kept(m, m2, Contained)
    BY <1>4, <1>5, LittleWritten DEF Kept
  <2>2. h # "prepare"
    BY <1>5 DEF JointSteps
  <2> QED  BY <1>3, <1>5, <2>1, <2>2, MeshSame
 <1>6. CASE Ahead(r)' = u /\ h \notin JointSteps
  <2> SUFFICES ASSUME Needed(u)
               PROVE  MeshAt(h2, "axis_gather" \in Due(u), Gathers(u), m2, solve'[r], r)
    BY <1>6 DEF MeshHolds
  <2>1. /\ Fits(h, u) /\ u \in Seq(Steps)
        /\ Due(t) = Due(u) \union ({h} \intersect Milestones)
    BY <1>2, Leaving
  <2>2. h2 \in Leads(h)
    BY <2>1 DEF Fits
  <2>3. u # <<>>
    BY NothingIsPlanned DEF Needed
  <2>4. CASE h \notin (Region \ {"gradient"}) \union {"deposit"}
   <3>1. h2 \notin Region
     BY <2>2, <2>4, LeadsAre
   <3> DEFINE b == "axis_gather" \in Due(u)
              k == Gathers(u)
              l == solve'[r]
   <3>2. b \in BOOLEAN
     OBVIOUS
   <3> HIDE DEF b, k, l, h2, m2
   <3>3. MeshAt(h2, b, k, m2, l, r)
     BY <3>1, <3>2, MeshReads
   <3> QED  BY <3>3 DEF b, k, l, h2, m2
  <2>5. CASE h \in (Region \ {"gradient"}) \union {"deposit"}
   <3> DEFINE G == "axis_gather" \in Due(t)
              G2 == "axis_gather" \in Due(u)
              g == Gathers(t)
              g2 == Gathers(u)
   <3>1. h # "prepare" /\ solve'[r] = n
     BY <1>3, <2>5 DEF Region, Raw, Massed, Forced, Between, Known, Asking, Answering, Answered
   <3>2. MeshAt(h, G, g, m, n, r)
     BY <2>1 DEF MeshHolds, Needed
   <3>3. /\ g2 \in Nat /\ g = g2 + (IF h = "axis_gather" THEN 1 ELSE 0)
     BY <1>2, <2>1, GathersOf
   <3>4. G \in BOOLEAN /\ G2 \in BOOLEAN /\ (h # "axis_gather" => G = G2)
         /\ (h = "axis_gather" => G)
    <4>1. "axis_gather" \in Milestones
      BY DEF Milestones
    <4> HIDE DEF h, t, u
    <4>2. "axis_gather" \in Due(t) <=> "axis_gather" \in Due(u) \/ h = "axis_gather"
      BY <2>1, <4>1
    <4> QED  BY <4>2
   <3>5. h = "deposit" => (G2 => g2 = 3)
     BY <2>1 DEF Fits
   <3> HIDE DEF G, G2, g, g2
   <3>6. h # "axis_gather" => g2 = g
     BY <3>3
   <3> SUFFICES MeshAt(h2, G2, g2, m2, n, r)
     BY <3>1 DEF G2, g2
   <3>7. CASE h \in {"spill_mass", "send_spill", "spilled_mass", "density_valid",
                     "normalize", "modes_finite", "axis_prepared", "send_force_plane",
                     "axis_finite", "potential_finite", "halo_plan", "halo_counts",
                     "halo_buffers", "halo_unpack"}
    <4>1. Kept(m, m2, Contained)
      BY <1>4, <3>7, LittleWritten DEF Kept
    <4>2. h # "axis_gather"
      BY <3>7
    <4> HIDE DEF h, h2, m, m2, n
    <4> QED  BY <2>2, <3>2, <3>4, <3>6, <3>7, <4>1, <4>2, MeshPasses
   <3>8. CASE h \in {"deposit", "receive_spill", "mass_conserved", "source"}
    <4>1. h # "axis_gather"
      BY <3>8
    <4> QED  BY <1>1, <1>2, <2>2, <3>2, <3>3, <3>4, <3>5, <3>6, <3>8, <4>1, MassTurns
   <3>9. CASE h \in {"axis_modes", "receive_plane"}
    <4>1. h # "axis_gather"
      BY <3>9
    <4> QED  BY <1>1, <1>2, <2>2, <2>3, <3>2, <3>3, <3>4, <3>6, <3>9, <4>1, WaveTurns
   <3>10. CASE h \in {"halo_request", "halo_response", "gradient_check"}
    <4>1. h # "axis_gather"
      BY <3>10
    <4> QED  BY <1>1, <1>2, <2>2, <3>2, <3>3, <3>4, <3>6, <3>10, <4>1, PotentialTurns
   <3>11. CASE h = "axis_gather"
    <4>1. Kept(m, m2, Contained)
      BY <1>4, <3>11, LittleWritten DEF Kept
    <4>2. h2 = "axis_finite" /\ "axis_finite" \in Between
      BY <2>2, <3>11, LeadsAre DEF Between
    <4>3. g = g2 + 1 /\ G
      BY <3>3, <3>4, <3>11
    <4> HIDE DEF h, h2, m, m2, n
    <4>4. Waved(m, n) /\ On(G, g, m, 4)
      BY <3>2, <3>4, <3>11, MeshReads
    <4>5. m2.phi = m.phi /\ m2.axis = m.axis
      BY <4>1 DEF Kept, Contained
    <4>6. Waved(m2, n) /\ On(G2, g2, m2, 3)
      BY <3>3, <4>3, <4>4, <4>5 DEF Waved, On
    <4> QED  BY <3>4, <4>2, <4>6, MeshReads
   <3> QED  BY <1>6, <2>5, <3>7, <3>8, <3>9, <3>10, <3>11, RegionNames
  <2> QED  BY <2>4, <2>5
 <1> QED  BY <1>5, <1>6, Onwards
-----------------------------------------------------------------------------
(* The terms of a force.                                                   *)
LEMMA TermsAre ==
    /\ \A n : Terms(n, 0) = <<>>
    /\ \A n : \A k \in Nat : Append(Terms(n, k), <<n, k + 1>>) = Terms(n, k + 1)
    /\ \A n : Terms(n, 3) = <<<<n, 1>>, <<n, 2>>, <<n, 3>>>>
    /\ \A n : <<>> \o Terms(n, 3) = Terms(n, 3)
 <1>1. ASSUME NEW n, NEW k \in Nat
       PROVE  /\ Terms(n, k) \in Seq({<<n, i>> : i \in Nat}) /\ Len(Terms(n, k)) = k
              /\ \A i \in 1 .. k : Terms(n, k)[i] = <<n, i>>
   BY DEF Terms
 <1>2. ASSUME NEW n
       PROVE  Terms(n, 0) = <<>>
   BY DEF Terms
 <1>3. ASSUME NEW n, NEW k \in Nat
       PROVE  Append(Terms(n, k), <<n, k + 1>>) = Terms(n, k + 1)
  <2> DEFINE S == {<<n, i>> : i \in Nat}
             x == Terms(n, k)
             y == Terms(n, k + 1)
             e == <<n, k + 1>>
             z == Append(x, e)
  <2>1. x \in Seq(S) /\ Len(x) = k /\ \A i \in 1 .. k : x[i] = <<n, i>>
    BY <1>1
  <2>2. /\ k + 1 \in Nat /\ y \in Seq(S) /\ Len(y) = k + 1
        /\ \A i \in 1 .. k + 1 : y[i] = <<n, i>>
   <3>1. k + 1 \in Nat
     OBVIOUS
   <3> QED  BY <1>1, <3>1
  <2>3. e \in S
    BY <2>2
  <2> HIDE DEF S, x, y, e
  <2>4. z \in Seq(S) /\ Len(z) = Len(x) + 1 /\ z[Len(x) + 1] = e
        /\ \A i \in 1 .. Len(x) : z[i] = x[i]
   <3>0. x \in Seq(S) /\ e \in S
     BY <2>1, <2>3
   <3>1. /\ Append(x, e) \in Seq(S) /\ Len(Append(x, e)) = Len(x) + 1
         /\ \A i \in 1 .. Len(x) : Append(x, e)[i] = x[i]
         /\ Append(x, e)[Len(x) + 1] = e
     BY ONLY <3>0, AppendProperties
   <3> QED  BY <3>1
  <2> HIDE DEF z
  <2>5. y[k + 1] = e
    BY <2>2 DEF e
  <2>6. ASSUME NEW i \in 1 .. Len(z)
        PROVE  z[i] = y[i]
   <3>1. i \in 1 .. k + 1 /\ Len(x) = k
     BY <2>1, <2>4
   <3>2. CASE i = k + 1
     BY <2>4, <2>5, <3>1, <3>2
   <3>3. CASE i \in 1 .. k
    <4>1. z[i] = x[i]
      BY <2>4, <3>1, <3>3
    <4>2. x[i] = <<n, i>>
      BY <2>1, <3>3
    <4>3. y[i] = <<n, i>>
      BY <2>2, <3>1
    <4> QED  BY <4>1, <4>2, <4>3
   <3> QED  BY <3>1, <3>2, <3>3
  <2>7. z = y
    BY <2>1, <2>2, <2>4, <2>6, SeqEqual
  <2> QED  BY <2>7 DEF x, y, z, e
 <1>4. ASSUME NEW n
       PROVE  Terms(n, 3) = <<<<n, 1>>, <<n, 2>>, <<n, 3>>>>
  <2> DEFINE S == {<<n, i>> : i \in Nat}
             x == Terms(n, 3)
             y == <<<<n, 1>>, <<n, 2>>, <<n, 3>>>>
  <2>1. x \in Seq(S) /\ Len(x) = 3 /\ \A i \in 1 .. 3 : x[i] = <<n, i>>
    BY <1>1
  <2>2. y \in Seq(S) /\ Len(y) = 3 /\ y[1] = <<n, 1>> /\ y[2] = <<n, 2>> /\ y[3] = <<n, 3>>
    OBVIOUS
  <2> HIDE DEF S, x, y
  <2>3. x[1] = <<n, 1>> /\ x[2] = <<n, 2>> /\ x[3] = <<n, 3>>
   <3>1. 1 \in 1 .. 3 /\ 2 \in 1 .. 3 /\ 3 \in 1 .. 3
     OBVIOUS
   <3> QED  BY <2>1, <3>1
  <2>4. x[1] = y[1] /\ x[2] = y[2] /\ x[3] = y[3]
    BY <2>2, <2>3
  <2>5. \A i \in 1 .. 3 : i = 1 \/ i = 2 \/ i = 3
    OBVIOUS
  <2>6. \A i \in 1 .. Len(x) : x[i] = y[i]
    BY <2>1, <2>4, <2>5
  <2> QED  BY <2>1, <2>2, <2>6, SeqEqual DEF x, y
 <1>5. ASSUME NEW n
       PROVE  <<>> \o Terms(n, 3) = Terms(n, 3)
  <2>1. Terms(n, 3) \in Seq({<<n, i>> : i \in Nat})
    BY <1>1
  <2> QED  BY <2>1
 <1> QED  BY <1>2, <1>3, <1>4, <1>5

(* A gradient from the right planes has its three terms.                   *)
LEMMA AlonePlanes ==
    ASSUME PipelineTypes, NEW r \in Ranks, Size = 1
    PROVE  Support(r) \subseteq SlabPlanes(r)
 <1>1. Mesh \in Nat \ {0} /\ r = 0
   BY ForcePipelineAssumption DEF Ranks
 <1>2. Block = Mesh
  <2>1. Mesh + 1 - 1 = Mesh /\ Mesh \div 1 = Mesh
    BY <1>1
  <2> QED  BY <2>1 DEF Block
 <1>3. \A p \in 0 .. Mesh - 1 : p \div Mesh = 0
   BY <1>1
 <1>4. SlabPlanes(r) = 0 .. Mesh - 1
   BY <1>1, <1>2, <1>3 DEF SlabPlanes
 <1>5. \A x \in Nat : x % Mesh \in 0 .. Mesh - 1
   BY <1>1
 <1>6. ASSUME NEW p \in 0 .. Mesh - 1
       PROVE  {(p + Mesh - 1) % Mesh, p, (p + 1) % Mesh, (p + 2) % Mesh} \subseteq 0 .. Mesh - 1
  <2>1. p + Mesh - 1 \in Nat /\ p + 1 \in Nat /\ p + 2 \in Nat
    BY <1>1
  <2> QED  BY <1>5, <2>1
 <1> QED  BY <1>4, <1>6 DEF Support

LEMMA WholeGradient ==
    ASSUME PipelineTypes, NEW r \in Ranks, NEW gathers \in BOOLEAN, NEW g,
           MeshAt("gradient", gathers, g, mem[r], solve[r], r)
    PROVE  Gradients(r) = Terms(solve[r], 3)
 <1> DEFINE m == mem[r]
            n == solve[r]
 <1>1. /\ m.density = Potential(n) /\ Haloed(m, n)
       /\ Size # 1 => Support(r) \subseteq SlabPlanes(r) \union DOMAIN m.halo
   BY MeshReads
 <1>2. ASSUME NEW p \in Support(r)
       PROVE  PlaneContent(r, p) = Potential(n)
  <2>1. CASE p \in SlabPlanes(r)
    BY <1>1, <2>1 DEF PlaneContent
  <2>2. CASE p \notin SlabPlanes(r)
   <3>1. Size # 1 /\ p \in DOMAIN m.halo
     BY <1>1, <2>2, AlonePlanes
   <3>2. m.halo[p] = Potential(n)
     BY <1>1, <3>1 DEF Haloed
   <3> QED  BY <2>2, <3>2 DEF PlaneContent
  <2> QED  BY <2>1, <2>2
 <1> QED  BY <1>2, TermsAre DEF Gradients

LEMMA BuiltStays ==
    ASSUME PipelineInv, ForceTypes, Courses, Unprotected = {},
           NEW r \in Ranks, RankStep(r), Frame(r), todo[r] # <<>>, ~ error'[r],
           MeshHolds(todo[r], mem[r], solve[r], r), BuiltHolds(todo[r], mem[r], solve[r])
    PROVE  BuiltHolds(Ahead(r)', mem'[r], solve'[r])
 <1> DEFINE t == todo[r]
            u == Tail(t)
            h == Head(t)
            m == mem[r]
            m2 == mem'[r]
            n == solve[r]
 <1>1. PipelineTypes
   BY DEF PipelineInv
 <1>2. StepOf(r) = h /\ Planned(t) /\ Rooted(t) /\ t \in Seq(Steps)
   BY DEF StepOf, Courses, ListsPlanned, Planned
 <1>3. h # "prepare" => solve'[r] = n
   BY <1>2 DEF Frame, ForceTypes
 <1>4. \A f \in Fields \ Written(h) : m2[f] = m[f]
   BY <1>2 DEF Frame, Writes
 <1>5. "built" \in Fields
   BY FieldNames
 <1>6. CASE Ahead(r)' = t /\ h \in JointSteps \union {"walk"}
  <2>1. m2.built = m.built
    BY <1>4, <1>5, <1>6, LittleWritten
  <2>2. h # "prepare"
    BY <1>6 DEF JointSteps
  <2> QED  BY <1>3, <1>6, <2>1, <2>2 DEF BuiltHolds
 <1>7. CASE Ahead(r)' = u /\ h \notin JointSteps
  <2>1. /\ Fits(h, u) /\ u \in Seq(Steps)
        /\ Due(t) = Due(u) \union ({h} \intersect Milestones)
    BY <1>2, Leaving
  <2>2. CASE h = "prepare"
   <3>1. Due(u) = Later(h)
     BY <2>1, <2>2 DEF Fits, Milestones
   <3>2. IF Tree THEN "gradient" \notin Due(u) /\ "commit" \notin Due(u)
                 ELSE "transaction" \in Due(u) /\ "gradient" \in Due(u)
     BY <2>2, <3>1 DEF Later
   <3> QED  BY <1>7, <3>2 DEF BuiltHolds
  <2>3. CASE h = "transaction"
   <3>1. Due(u) = Later(h) /\ Later(h) = {"gradient", "commit", "callback"}
     BY <2>1, <2>3 DEF Fits, Milestones, Later
   <3> DEFINE b == [built |-> <<>>]
   <3>2. Stage(r, "transaction", b)
     BY <2>3, StepIs DEF Transaction
   <3>3. DOMAIN b = {"built"} /\ b.built = <<>>
     OBVIOUS
   <3> HIDE DEF b
   <3>4. m2.built = <<>>
     BY <1>1, <1>5, <3>2, <3>3, StageKeeps
   <3> QED  BY <1>7, <3>1, <3>4 DEF BuiltHolds
  <2>4. CASE h = "gradient"
   <3>1. Due(u) = Later(h) /\ Later(h) = {"commit", "callback"}
     BY <2>1, <2>4 DEF Fits, Milestones, Later
   <3>2. Due(t) = {"gradient", "commit", "callback"}
     BY <2>1, <2>4, <3>1 DEF Milestones
   <3>3. m.built = <<>>
     BY <3>2 DEF BuiltHolds
   <3> DEFINE y == m.built \o Gradients(r)
              b == [built |-> y]
   <3>4. Stage(r, "gradient", b)
     BY <2>4, StepIs DEF Gradient
   <3>5. DOMAIN b = {"built"} /\ b.built = y
     OBVIOUS
   <3>6. MeshAt("gradient", "axis_gather" \in Due(t), Gathers(t), m, n, r)
     BY <2>4, <3>2 DEF MeshHolds, Needed
   <3>7. Gradients(r) = Terms(n, 3)
    <4> DEFINE G == "axis_gather" \in Due(t)
               g == Gathers(t)
    <4>1. G \in BOOLEAN /\ MeshAt("gradient", G, g, m, n, r)
      BY <3>6
    <4> HIDE DEF G, g
    <4> QED  BY <1>1, <4>1, WholeGradient
   <3>8. y = Terms(n, 3)
     BY <3>3, <3>7, TermsAre
   <3> HIDE DEF b, y
   <3>9. m2.built = Terms(n, 3)
     BY <1>1, <1>5, <3>4, <3>5, <3>8, StageKeeps
   <3>10. solve'[r] = n
     BY <1>3, <2>4
   <3> QED  BY <1>7, <3>1, <3>9, <3>10 DEF BuiltHolds
  <2>5. CASE h \notin {"prepare", "transaction", "gradient"}
   <3>1. "built" \notin Written(h)
     BY <2>5 DEF Written
   <3>2. m2.built = m.built /\ solve'[r] = n
     BY <1>3, <1>4, <1>5, <2>5, <3>1
   <3>3. /\ "gradient" \in Due(u) => "gradient" \in Due(t)
         /\ "commit" \in Due(u) => "commit" \in Due(t)
         /\ "transaction" \in Due(t) => "transaction" \in Due(u)
         /\ "gradient" \in Due(t) => "gradient" \in Due(u)
     BY <2>1, <2>5
   <3> QED  BY <1>7, <3>2, <3>3 DEF BuiltHolds
  <2> QED  BY <2>2, <2>3, <2>4, <2>5
 <1> QED  BY <1>6, <1>7, Onwards
-----------------------------------------------------------------------------
(* The walk of a rank's particles.                                         *)
LEMMA OwnedType ==
    ASSUME PipelineTypes, NEW r \in Ranks
    PROVE  Owned[r] \in Nat
  BY OwnedAssumption DEF PipelineTypes, Ranks, Size

LEMMA PlacesOfWalk ==
    ASSUME NEW r, Owned[r] \in Nat
    PROVE  /\ Owned[r] = 0 => 1 .. ChunkCount(r) = {}
           /\ \A c \in 1 .. ChunkCount(r) :
                /\ c \in Nat /\ ChunkSize(r, c) \in Nat /\ ChunkStart(r, c) \in Nat
                /\ \A k \in 0 .. ChunkSize(r, c) - 1 : Particle(r, c, k) \in 1 .. Owned[r]
           /\ \A c, d \in 1 .. ChunkCount(r) :
                 \A k \in 0 .. ChunkSize(r, c) - 1, l \in 0 .. ChunkSize(r, d) - 1 :
                    Particle(r, c, k) = Particle(r, d, l) => c = d /\ k = l
           /\ \A p \in 1 .. Owned[r] : \E c \in 1 .. ChunkCount(r) :
                 \E k \in 0 .. ChunkSize(r, c) - 1 : Particle(r, c, k) = p
 <1>1. CASE Owned[r] = 0
  <2> DEFINE y == ChunksPerWorker * Workers
  <2>1. y \in Nat \ {0}
    BY ForcePipelineAssumption
  <2>2. ChunkCount(r) = Min({0, y})
    BY <1>1 DEF ChunkCount
  <2> HIDE DEF y
  <2>3. ChunkCount(r) = 0
   <3> DEFINE x == 0
   <3>1. x \in Int /\ y \in Int
     BY <2>1
   <3> HIDE DEF x
   <3>2. Min({x, y}) \in {x, y} /\ Min({x, y}) <= x
     BY <3>1, MinOfTwo
   <3> QED  BY <2>1, <2>2, <3>2 DEF x
  <2> QED  BY <1>1, <2>3
 <1>2. CASE Owned[r] # 0
  <2>1. Owned[r] \in Nat \ {0} /\ ChunkCount(r) \in 1 .. Owned[r]
    BY <1>2, ChunkCountType
  <2>2. ASSUME NEW c \in 1 .. ChunkCount(r)
        PROVE  c \in Nat /\ ChunkSize(r, c) \in Nat /\ ChunkStart(r, c) \in Nat
   <3>1. c \in 1 .. ChunkCount(r) + 1 /\ c \in Nat
     BY <2>1
   <3> QED  BY <2>1, <3>1, SizeOfChunk, StartsAt
  <2> QED  BY <1>2, <2>1, <2>2, ChunksShareOut
 <1> QED  BY <1>1, <1>2

(* A walk without a failed chunk has given every particle its last term.   *)
LEMMA WalkedAll ==
    ASSUME NEW r, Owned[r] \in Nat, NEW states, NEW places, NEW raised, NEW a, NEW n,
           WalkAt(r, states, places, raised, a, n), DOMAIN a = 1 .. Owned[r],
           \A c \in DOMAIN states : states[c] = "done"
    PROVE  Has(a, Terms(n, 4))
 <1>1. /\ DOMAIN states = 1 .. ChunkCount(r)
       /\ raised => \E c \in DOMAIN states : states[c] \in {"failing", "failed"}
   BY DEF WalkAt
 <1>2. ~ raised
   BY <1>1
 <1>3. \A c \in 1 .. ChunkCount(r) :
          /\ places[c] = ChunkSize(r, c)
          /\ \A k \in 0 .. ChunkSize(r, c) - 1 :
                a[Particle(r, c, k)] = Terms(n, IF k < places[c] THEN 4 ELSE 3)
   BY <1>1, <1>2 DEF WalkAt
 <1>4. ASSUME NEW c \in 1 .. ChunkCount(r), NEW k \in 0 .. ChunkSize(r, c) - 1
       PROVE  a[Particle(r, c, k)] = Terms(n, 4)
  <2>1. ChunkSize(r, c) \in Nat
    BY PlacesOfWalk
  <2>2. k < places[c]
    BY <1>3, <2>1
  <2> QED  BY <1>3, <2>2
 <1>5. ASSUME NEW p \in 1 .. Owned[r]
       PROVE  a[p] = Terms(n, 4)
  <2>1. PICK c \in 1 .. ChunkCount(r) : \E k \in 0 .. ChunkSize(r, c) - 1 : Particle(r, c, k) = p
    BY PlacesOfWalk
  <2> QED  BY <1>4, <2>1
 <1> QED  BY <1>5 DEF Has

(* A walk begins with three terms at every particle.                       *)
LEMMA WalkBegins ==
    ASSUME NEW r, Owned[r] \in Nat, NEW a, NEW n, Has(a, Terms(n, 3)), DOMAIN a = 1 .. Owned[r]
    PROVE  WalkAt(r, [c \in 1 .. ChunkCount(r) |-> "waiting"], [c \in 1 .. ChunkCount(r) |-> 0],
                  FALSE, a, n)
 <1>1. ASSUME NEW c \in 1 .. ChunkCount(r)
       PROVE  /\ 0 \in 0 .. ChunkSize(r, c)
              /\ \A k \in 0 .. ChunkSize(r, c) - 1 :
                    /\ ~ k < 0
                    /\ a[Particle(r, c, k)] = Terms(n, 3)
  <2>1. ChunkSize(r, c) \in Nat
    BY PlacesOfWalk
  <2>2. ASSUME NEW k \in 0 .. ChunkSize(r, c) - 1
        PROVE  ~ k < 0 /\ a[Particle(r, c, k)] = Terms(n, 3)
   <3>1. Particle(r, c, k) \in 1 .. Owned[r]
     BY PlacesOfWalk
   <3>2. ~ k < 0
     BY <2>1
   <3> QED  BY <3>1, <3>2 DEF Has
  <2> QED  BY <2>1, <2>2
 <1> DEFINE s == [c \in 1 .. ChunkCount(r) |-> "waiting"]
            p == [c \in 1 .. ChunkCount(r) |-> 0]
 <1>2. /\ DOMAIN s = 1 .. ChunkCount(r) /\ DOMAIN p = 1 .. ChunkCount(r)
       /\ \A c \in 1 .. ChunkCount(r) : s[c] = "waiting" /\ p[c] = 0
   OBVIOUS
 <1> HIDE DEF s, p
 <1>3. WalkAt(r, s, p, FALSE, a, n)
   BY <1>1, <1>2 DEF WalkAt
 <1> QED  BY <1>3 DEF s, p

(* A chunk turns from one state to another.                                *)
LEMMA ChunkTurns ==
    ASSUME NEW r, Owned[r] \in Nat, NEW states, NEW places, NEW raised \in BOOLEAN, NEW a, NEW n,
           WalkAt(r, states, places, raised, a, n), NEW c \in DOMAIN states, NEW to,
           NEW now \in BOOLEAN,
           to = "done" => places[c] = ChunkSize(r, c) \/ now,
           raised => now,
           \/ now = raised /\ (states[c] \in {"failing", "failed"} => to \in {"failing", "failed"})
           \/ now /\ to \in {"failing", "failed"}
    PROVE  WalkAt(r, [states EXCEPT ![c] = to], places, now, a, n)
 <1> DEFINE s == [states EXCEPT ![c] = to]
 <1>1. DOMAIN s = DOMAIN states /\ s[c] = to /\ \A d \in DOMAIN states \ {c} : s[d] = states[d]
   OBVIOUS
 <1> HIDE DEF s
 <1>2. now => \E d \in DOMAIN s : s[d] \in {"failing", "failed"}
  <2>1. CASE to \in {"failing", "failed"}
    BY <1>1, <2>1
  <2>2. CASE now = raised /\ states[c] \notin {"failing", "failed"}
   <3>1. raised => \E d \in DOMAIN states \ {c} : states[d] \in {"failing", "failed"}
     BY <2>2 DEF WalkAt
   <3> QED  BY <1>1, <2>2, <3>1
  <2> QED  BY <2>1, <2>2
 <1>3. \A d \in DOMAIN s : s[d] = "done" => places[d] = ChunkSize(r, d) \/ now
   BY <1>1 DEF WalkAt
 <1>4. WalkAt(r, s, places, now, a, n)
   BY <1>1, <1>2, <1>3 DEF WalkAt
 <1> QED  BY <1>4 DEF s

(* A chunk adds the last term to the particle it has reached.              *)
LEMMA ChunkAdds ==
    ASSUME NEW r, Owned[r] \in Nat, NEW states, NEW places, NEW raised, NEW a, NEW n,
           WalkAt(r, states, places, raised, a, n), DOMAIN a = 1 .. Owned[r],
           NEW c \in DOMAIN states, states[c] = "running", places[c] < ChunkSize(r, c),
           NEW b, b = [a EXCEPT ![ChunkStart(r, c) + places[c] + 1] = Append(@, <<n, Short>>)]
    PROVE  WalkAt(r, states, [places EXCEPT ![c] = @ + 1], raised, b, n)
 <1> DEFINE k == places[c]
            e == Particle(r, c, k)
            p == [places EXCEPT ![c] = @ + 1]
 <1>1. /\ DOMAIN states = 1 .. ChunkCount(r) /\ DOMAIN places = 1 .. ChunkCount(r)
       /\ \A d \in DOMAIN states :
            /\ places[d] \in 0 .. ChunkSize(r, d)
            /\ states[d] = "done" => places[d] = ChunkSize(r, d) \/ raised
            /\ \A l \in 0 .. ChunkSize(r, d) - 1 :
                 a[Particle(r, d, l)] = Terms(n, IF l < places[d] THEN 4 ELSE 3)
   BY DEF WalkAt
 <1>2. c \in 1 .. ChunkCount(r) /\ ChunkSize(r, c) \in Nat /\ k \in Nat
       /\ k \in 0 .. ChunkSize(r, c) - 1
  <2>1. c \in 1 .. ChunkCount(r) /\ k \in 0 .. ChunkSize(r, c)
    BY <1>1
  <2>2. ChunkSize(r, c) \in Nat
    BY <2>1, PlacesOfWalk
  <2> QED  BY <2>1, <2>2
 <1>3. e \in DOMAIN a
   BY <1>2, PlacesOfWalk
 <1>4. ~ k < places[c]
   BY <1>2
 <1>5. a[e] = Terms(n, 3)
   BY <1>1, <1>2, <1>4
 <1>6. e = ChunkStart(r, c) + places[c] + 1
   BY DEF Particle
 <1>7. /\ b[e] = Append(a[e], <<n, 4>>) /\ \A x \in DOMAIN a \ {e} : b[x] = a[x]
   BY <1>3, <1>6 DEF Short
 <1>8. b[e] = Terms(n, 4)
  <2>1. 3 \in Nat /\ 3 + 1 = 4
    OBVIOUS
  <2>2. Append(Terms(n, 3), <<n, 3 + 1>>) = Terms(n, 3 + 1)
    BY <2>1, TermsAre
  <2> QED  BY <1>5, <1>7, <2>1, <2>2
 <1>9. DOMAIN p = DOMAIN places /\ p[c] = k + 1 /\ \A d \in DOMAIN places \ {c} : p[d] = places[d]
   BY <1>1
 <1> HIDE DEF p, k, e
 <1>10. ASSUME NEW d \in DOMAIN states
        PROVE  p[d] \in 0 .. ChunkSize(r, d) /\ (states[d] = "done" => p[d] = ChunkSize(r, d) \/ raised)
  <2>1. CASE d = c
   <3>1. k + 1 \in 0 .. ChunkSize(r, c)
     BY <1>2
   <3> QED  BY <1>9, <2>1, <3>1
  <2>2. CASE d # c
    BY <1>1, <1>9, <2>2
  <2> QED  BY <2>1, <2>2
 <1>11. ASSUME NEW d \in DOMAIN states, NEW l \in 0 .. ChunkSize(r, d) - 1
        PROVE  b[Particle(r, d, l)] = Terms(n, IF l < p[d] THEN 4 ELSE 3)
  <2>1. /\ Particle(r, d, l) \in DOMAIN a /\ ChunkSize(r, d) \in Nat
        /\ a[Particle(r, d, l)] = Terms(n, IF l < places[d] THEN 4 ELSE 3)
        /\ Particle(r, d, l) = e => d = c /\ l = k
    BY <1>1, <1>2, PlacesOfWalk DEF e
  <2>2. CASE d = c /\ l = k
   <3>1. l < p[d]
     BY <1>2, <1>9, <2>2
   <3> QED  BY <1>8, <2>2, <3>1 DEF e
  <2>3. CASE ~ (d = c /\ l = k)
   <3>1. b[Particle(r, d, l)] = a[Particle(r, d, l)]
     BY <1>7, <2>1, <2>3
   <3>2. l < p[d] <=> l < places[d]
    <4>1. CASE d # c
      BY <1>1, <1>9, <4>1
    <4>2. CASE d = c
     <5>1. l # k /\ l \in Int /\ p[d] = k + 1 /\ places[d] = k
       BY <1>9, <2>1, <2>3, <4>2 DEF k
     <5> QED  BY <1>2, <5>1
    <4> QED  BY <4>1, <4>2
   <3> QED  BY <2>1, <3>1, <3>2
  <2> QED  BY <2>2, <2>3
 <1>12. WalkAt(r, states, p, raised, b, n)
   BY <1>1, <1>9, <1>10, <1>11 DEF WalkAt
 <1> QED  BY <1>12 DEF p
-----------------------------------------------------------------------------
(* The walk stays on its way.                                              *)
LEMMA TailDiffers ==
    ASSUME NEW steps \in Seq(Steps), steps # <<>>
    PROVE  Tail(steps) # steps
 <1> DEFINE x == Len(Tail(steps))
            y == Len(steps)
 <1>1. x = y - 1 /\ y \in Nat
   BY TailIsRear
 <1> HIDE DEF x, y
 <1>2. x # y
   BY <1>1
 <1> QED  BY <1>2, Zenon DEF x, y

LEMMA WalkSteps ==
    ASSUME PipelineTypes, ForceTypes, NEW r \in Ranks, NEW c \in DOMAIN chunk[r], WalkStep(r, c),
           WalkAt(r, chunk[r], place[r], flag[r], acc[r], solve[r])
    PROVE  WalkAt(r, chunk'[r], place'[r], flag'[r], acc'[r], solve'[r])
 <1>1. Owned[r] \in Nat
   BY OwnedType
 <1>2. /\ DOMAIN chunk = Ranks /\ DOMAIN place = Ranks /\ flag[r] \in BOOLEAN
       /\ DOMAIN flag = Ranks /\ DOMAIN acc = Ranks /\ DOMAIN acc[r] = 1 .. Owned[r]
   BY DEF ForceTypes
 <1>3. solve' = solve
   BY DEF WalkStep, TakeChunk, SkipChunk, WalkOne, FinishChunk, RaiseFlag, StoreException,
          WalkOnly
 <1>4. ASSUME NEW to, Turn(r, c, to)
       PROVE  chunk'[r] = [chunk[r] EXCEPT ![c] = to]
   BY <1>2, <1>4 DEF Turn
 <1> DEFINE s == chunk[r]
            p == place[r]
            f == flag[r]
            a == acc[r]
            n == solve[r]
 <1>5. CASE TakeChunk(r, c)
  <2>1. s[c] = "waiting" /\ chunk'[r] = [s EXCEPT ![c] = "running"]
        /\ acc' = acc /\ place' = place /\ flag' = flag
    BY <1>4, <1>5 DEF TakeChunk, Walking
  <2>2. WalkAt(r, [s EXCEPT ![c] = "running"], p, f, a, n)
   <3> HIDE DEF s, p, f, a, n
   <3> QED  BY <1>1, <1>2, <2>1, ChunkTurns DEF s, f, p, a, n
  <2> QED  BY <1>3, <2>1, <2>2
 <1>6. CASE SkipChunk(r, c)
  <2>1. s[c] \in {"waiting", "running"} /\ chunk'[r] = [s EXCEPT ![c] = "done"] /\ f
        /\ acc' = acc /\ place' = place /\ flag' = flag
    BY <1>4, <1>6 DEF SkipChunk, Walking
  <2>2. WalkAt(r, [s EXCEPT ![c] = "done"], p, f, a, n)
   <3>1. /\ WalkAt(r, s, p, f, a, n) /\ c \in DOMAIN s /\ f \in BOOLEAN /\ f
         /\ s[c] \notin {"failing", "failed"}
     BY <1>2, <2>1
   <3> HIDE DEF s, p, f, a, n
   <3>2. f = TRUE
     BY <3>1
   <3>3. WalkAt(r, s, p, TRUE, a, n)
     BY <3>1, <3>2
   <3>4. WalkAt(r, [s EXCEPT ![c] = "done"], p, TRUE, a, n)
     BY <1>1, <3>1, <3>3, ChunkTurns
   <3> QED  BY <3>2, <3>4
  <2> QED  BY <1>3, <2>1, <2>2
 <1>7. CASE WalkOne(r, c)
  <2>1. /\ s[c] = "running" /\ p[c] < ChunkSize(r, c) /\ chunk' = chunk /\ flag' = flag
        /\ acc' = [acc EXCEPT ![r][ChunkStart(r, c) + place[r][c] + 1] =
                                   Append(@, <<solve[r], Short>>)]
        /\ place' = [place EXCEPT ![r][c] = @ + 1]
    BY <1>7 DEF WalkOne, Walking
  <2>2. /\ acc'[r] = [a EXCEPT ![ChunkStart(r, c) + p[c] + 1] = Append(@, <<n, Short>>)]
        /\ place'[r] = [p EXCEPT ![c] = @ + 1]
    BY <1>2, <2>1
  <2>3. WalkAt(r, s, [p EXCEPT ![c] = @ + 1], f, acc'[r], n)
    BY <1>1, <1>2, <2>1, <2>2, ChunkAdds
  <2> QED  BY <1>3, <2>1, <2>2, <2>3
 <1>8. CASE FinishChunk(r, c)
  <2>1. s[c] = "running" /\ chunk'[r] = [s EXCEPT ![c] = "done"] /\ p[c] = ChunkSize(r, c)
        /\ acc' = acc /\ place' = place /\ flag' = flag
    BY <1>4, <1>8 DEF FinishChunk, Walking
  <2>2. WalkAt(r, [s EXCEPT ![c] = "done"], p, f, a, n)
    BY <1>1, <1>2, <2>1, ChunkTurns
  <2> QED  BY <1>3, <2>1, <2>2
 <1>9. CASE RaiseFlag(r, c)
  <2>1. chunk'[r] = [s EXCEPT ![c] = "failing"]
        /\ acc' = acc /\ place' = place /\ flag'[r] = TRUE
    BY <1>2, <1>4, <1>9 DEF RaiseFlag
  <2>2. WalkAt(r, [s EXCEPT ![c] = "failing"], p, TRUE, a, n)
    BY <1>1, <1>2, ChunkTurns
  <2> QED  BY <1>3, <2>1, <2>2
 <1>10. CASE StoreException(r, c)
  <2>1. s[c] = "failing" /\ chunk'[r] = [s EXCEPT ![c] = "failed"]
        /\ acc' = acc /\ place' = place /\ flag' = flag
    BY <1>4, <1>10 DEF StoreException, Walking
  <2>2. WalkAt(r, [s EXCEPT ![c] = "failed"], p, f, a, n)
    BY <1>1, <1>2, <2>1, ChunkTurns
  <2> QED  BY <1>3, <2>1, <2>2
 <1> QED  BY <1>5, <1>6, <1>7, <1>8, <1>9, <1>10 DEF WalkStep

(* A rank at its walk joins its threads, or one of them moves.             *)
LEMMA JoinOrWalk ==
    ASSUME PipelineInv, Courses, Unprotected = {}, NEW r \in Ranks, RankStep(r),
           todo[r] # <<>>, Head(todo[r]) = "walk"
    PROVE  /\ Walks(r, todo[r]) => \E c \in DOMAIN chunk[r] : WalkStep(r, c)
           /\ Ahead(r)' = Tail(todo[r]) /\ ~ error'[r] => Join(r) /\ ~ WorkerException(r)
 <1>1. Join(r) \/ \E c \in DOMAIN chunk[r] : WalkStep(r, c)
   BY StepIs
 <1>2. todo[r] \in Seq(Steps) /\ Tail(todo[r]) # todo[r]
  <2>1. todo[r] \in Seq(Steps)
    BY DEF Courses, ListsPlanned, Planned
  <2> QED  BY <2>1, TailDiffers
 <1>3. DOMAIN todo = Ranks /\ DOMAIN waiting = Ranks /\ DOMAIN error = Ranks /\ ~ waiting[r]
   BY HowItMoves DEF PipelineInv, PipelineTypes, Courses
 <1>4. ASSUME Join(r)
       PROVE  ~ Walks(r, todo[r]) /\ (~ error'[r] => ~ WorkerException(r))
  <2>1. IF WorkerException(r) THEN Throw(r) ELSE Continue(r)
    BY <1>4 DEF Join
  <2>2. CASE WorkerException(r)
   <3>1. waiting'[r] /\ error'[r]
     BY <1>3, <2>1, <2>2 DEF Throw
   <3> QED  BY <3>1 DEF Walks
  <2>3. CASE ~ WorkerException(r)
   <3>1. todo'[r] = Tail(todo[r])
     BY <1>3, <2>1, <2>3 DEF Continue
   <3> QED  BY <1>2, <2>3, <3>1 DEF Walks
  <2> QED  BY <2>2, <2>3
 <1>5. ASSUME NEW c \in DOMAIN chunk[r], WalkStep(r, c)
       PROVE  Ahead(r)' # Tail(todo[r])
  <2>1. todo' = todo /\ waiting' = waiting
    BY <1>5 DEF WalkStep, TakeChunk, SkipChunk, WalkOne, FinishChunk, RaiseFlag,
                StoreException, WalkOnly
  <2>2. Ahead(r)' = todo[r]
    BY <1>3, <2>1 DEF Ahead
  <2> QED  BY <1>2, <2>2
 <1> QED  BY <1>1, <1>4, <1>5
-----------------------------------------------------------------------------
(* What the particles hold between the milestones of a solve.              *)
LEMMA Gathered ==
    ASSUME PipelineTypes, ForceTypes, NEW r \in Ranks, AxisGather(r), ~ error'[r],
           NEW g \in Nat, MeshAt("axis_gather", TRUE, g, mem[r], solve[r], r),
           Has(acc[r], Terms(solve[r], 3 - g))
    PROVE  g <= 3 /\ Has(acc'[r], Terms(solve[r], 4 - g))
 <1> DEFINE m == mem[r]
            n == solve[r]
 <1>1. /\ g <= 3 /\ m.force = <<"mass", "force", n, 4 - g>>
       /\ Size # 1 => m.right = Append(m.force, Right(r))
  <2> DEFINE G == TRUE
  <2>1. G \in BOOLEAN /\ MeshAt("axis_gather", G, g, m, n, r)
    OBVIOUS
  <2> HIDE DEF G, m, n
  <2>2. /\ On(G, g, m, 4) /\ Pulled(G, g, m, n)
        /\ G /\ Size # 1 => m.right = Append(m.force, Right(r))
    BY <2>1, MeshReads
  <2> QED  BY <2>2 DEF On, Pulled, G
 <1>2. Seen(r, "force") = m.force
   BY <1>1 DEF Seen
 <1>3. Component(Seen(r, "force")) = <<n, 4 - g>>
   BY <1>1, <1>2, LabelsRead
 <1>4. acc' = [acc EXCEPT ![r] = Add(r, Component(Seen(r, "force")))]
  <2>1. ~ Enter(r, TRUE)
    BY DEF Enter, PipelineTypes
  <2> QED  BY <2>1 DEF AxisGather
 <1>5. acc'[r] = Add(r, <<n, 4 - g>>)
   BY <1>3, <1>4 DEF ForceTypes
 <1>6. /\ DOMAIN acc'[r] = DOMAIN acc[r]
       /\ \A p \in DOMAIN acc[r] : acc'[r][p] = Append(acc[r][p], <<n, 4 - g>>)
   BY <1>5 DEF Add
 <1>7. Append(Terms(n, 3 - g), <<n, 4 - g>>) = Terms(n, 4 - g)
  <2> DEFINE k == 3 - g
  <2>1. k \in Nat /\ 4 - g = k + 1
    BY <1>1
  <2> HIDE DEF k
  <2>2. Append(Terms(n, k), <<n, k + 1>>) = Terms(n, k + 1)
    BY <2>1, TermsAre
  <2> QED  BY <2>1, <2>2 DEF k
 <1> QED  BY <1>1, <1>6, <1>7 DEF Has

LEMMA Committed ==
    ASSUME PipelineTypes, ForceTypes, NEW r \in Ranks, Commit(r),
           mem[r].built = Terms(solve[r], 3), Has(acc[r], Terms(solve[r], 0))
    PROVE  Has(acc'[r], Terms(solve[r], 3))
 <1>1. acc'[r] = [p \in DOMAIN acc[r] |-> acc[r][p] \o mem[r].built]
   BY DEF Commit, ForceTypes
 <1>2. \A p \in DOMAIN acc[r] : acc[r][p] = <<>>
   BY TermsAre DEF Has
 <1>3. <<>> \o Terms(solve[r], 3) = Terms(solve[r], 3)
   BY TermsAre
 <1> QED  BY <1>1, <1>2, <1>3 DEF Has

LEMMA Zeroed ==
    ASSUME PipelineTypes, ForceTypes, Unprotected = {}, NEW r \in Ranks,
           SetUp(r) \/ (Materialize(r) /\ ~ Tree)
    PROVE  \A n : Has(acc'[r], Terms(n, 0))
 <1>1. acc'[r] = Zero(r)
   BY DEF SetUp, Materialize, ForceTypes
 <1> QED  BY <1>1, TermsAre DEF Has, Zero

LEMMA LastTerms ==
    ASSUME PipelineTypes, ForceTypes, NEW r \in Ranks, Join(r), ~ WorkerException(r),
           WalkAt(r, chunk[r], place[r], flag[r], acc[r], solve[r])
    PROVE  Has(acc'[r], Terms(solve[r], 4))
 <1>1. acc' = acc
   BY DEF Join, products
 <1>2. \A c \in DOMAIN chunk[r] : chunk[r][c] = "done"
   BY DEF Join, WorkerException
 <1>3. Owned[r] \in Nat /\ DOMAIN acc[r] = 1 .. Owned[r]
   BY OwnedType DEF ForceTypes
 <1> QED  BY <1>1, <1>2, <1>3, WalkedAll

LEMMA AccStays ==
    ASSUME PipelineInv, ForceTypes, Courses, WalkHolds, Unprotected = {},
           NEW r \in Ranks, RankStep(r), Frame(r), todo[r] # <<>>, ~ error'[r],
           MeshHolds(todo[r], mem[r], solve[r], r), BuiltHolds(todo[r], mem[r], solve[r]),
           AccHolds(todo[r], acc[r], solve[r])
    PROVE  AccHolds(Ahead(r)', acc'[r], solve'[r])
 <1> DEFINE t == todo[r]
            u == Tail(t)
            h == Head(t)
            n == solve[r]
 <1>1. PipelineTypes
   BY DEF PipelineInv
 <1>2. StepOf(r) = h /\ Planned(t) /\ Rooted(t) /\ t \in Seq(Steps)
   BY DEF StepOf, Courses, ListsPlanned, Planned
 <1>3. h # "prepare" => solve'[r] = n
   BY <1>2 DEF Frame, ForceTypes
 <1>4. h \notin Changers => acc'[r] = acc[r]
   BY <1>2 DEF Frame
 <1>5. /\ Fits(h, u) /\ u \in Seq(Steps)
       /\ Due(t) = Due(u) \union ({h} \intersect Milestones)
   BY <1>2, Leaving
 <1>6. CASE Ahead(r)' = t /\ h \in JointSteps
  <2>1. h # "prepare" /\ h \notin Changers
    BY <1>6 DEF JointSteps, Changers
  <2> QED  BY <1>3, <1>4, <1>6, <2>1
 <1>7. CASE Ahead(r)' = t /\ h = "walk"
  <2>1. Due(u) = {"validate", "callback"}
    BY <1>5, <1>7 DEF Fits, Later, Milestones
  <2>2. "walk" \in Due(t) /\ "commit" \notin Due(t)
    BY <1>5, <1>7, <2>1 DEF Milestones
  <2> QED  BY <1>7, <2>2 DEF AccHolds
 <1>8. CASE Ahead(r)' = u /\ h \notin JointSteps
  <2>0. h \notin {"callback"}
    BY <1>8 DEF JointSteps
  <2>1. CASE h \in {"prepare", "migrate"}
   <3>1. Due(u) = Later(h)
     BY <1>5, <2>1 DEF Fits, Milestones
   <3>2. "materialize" \in Due(u)
     BY <2>1, <3>1 DEF Later
   <3> QED  BY <1>8, <3>2 DEF AccHolds
  <2>2. CASE h = "materialize"
   <3>1. Due(u) = Later(h)
     BY <1>5, <2>2 DEF Fits, Milestones
   <3>2. CASE Tree
    <4>1. "set_up" \in Due(u)
      BY <2>2, <3>1, <3>2 DEF Later
    <4> QED  BY <1>8, <4>1 DEF AccHolds
   <3>3. CASE ~ Tree
    <4>1. "commit" \in Due(u) /\ "walk" \notin Due(u)
      BY <2>2, <3>1, <3>3 DEF Later
    <4>2. Has(acc'[r], Terms(solve'[r], 0))
      BY <1>1, <2>2, <3>3, StepIs, Zeroed
    <4> QED  BY <1>8, <4>1, <4>2 DEF AccHolds
   <3> QED  BY <3>2, <3>3
  <2>3. CASE h = "set_up"
   <3>1. Due(u) = Later(h) /\ Later(h) = {"axis_gather", "tree", "walk", "validate", "callback"}
     BY <1>5, <2>3 DEF Fits, Milestones, Later
   <3>2. Gathers(u) = 3
     BY <1>5, <2>3, <3>1 DEF Fits
   <3>3. Has(acc'[r], Terms(solve'[r], 0))
     BY <1>1, <2>3, StepIs, Zeroed
   <3>4. 3 - Gathers(u) = 0
     BY <3>2
   <3> QED  BY <1>8, <3>1, <3>3, <3>4 DEF AccHolds
  <2>4. CASE h = "axis_gather"
   <3>1. Due(u) \in {Later(h), Later(h) \union {h}}
         /\ Later(h) = {"tree", "walk", "validate", "callback"}
     BY <1>5, <2>4 DEF Fits, Milestones, Later
   <3>2. Due(t) = {"axis_gather", "tree", "walk", "validate", "callback"}
     BY <1>5, <2>4, <3>1 DEF Milestones
   <3> DEFINE g == Gathers(t)
              k == Gathers(u)
   <3>3. g \in Nat /\ k \in Nat /\ g = k + 1
     BY <1>2, <1>5, <2>4, GathersOf
   <3>4. MeshAt("axis_gather", "axis_gather" \in Due(t), g, mem[r], n, r)
     BY <2>4, <3>2 DEF MeshHolds, Needed
   <3>5. MeshAt("axis_gather", TRUE, g, mem[r], n, r)
    <4>1. ("axis_gather" \in Due(t)) = TRUE
      BY <3>2
    <4> QED  BY <3>4, <4>1
   <3>6. Has(acc[r], Terms(n, 3 - g))
     BY <2>4, <3>2 DEF AccHolds
   <3>7. AxisGather(r)
     BY <2>4, StepIs
   <3> HIDE DEF g, k, n
   <3>8. Has(acc'[r], Terms(n, 4 - g))
     BY <1>1, <3>3, <3>5, <3>6, <3>7, Gathered DEF n
   <3>9. 4 - g = 3 - k
     BY <3>3
   <3>10. solve'[r] = n
     BY <1>3, <2>4
   <3>11. /\ Has(acc'[r], Terms(solve'[r], 3 - Gathers(u)))
          /\ "walk" \in Due(u) /\ "commit" \notin Due(u)
    <4>1. Has(acc'[r], Terms(solve'[r], 3 - k))
      BY <3>8, <3>9, <3>10
    <4>2. "walk" \in Due(u) /\ "commit" \notin Due(u)
      BY <2>4, <3>1
    <4> QED  BY <4>1, <4>2 DEF k
   <3> HIDE DEF u
   <3>12. AccHolds(u, acc'[r], solve'[r])
     BY <3>11 DEF AccHolds
   <3> QED  BY <1>8, <3>12
  <2>5. CASE h = "walk"
   <3>1. Due(u) = Later(h) /\ Later(h) = {"validate", "callback"} /\ h \in Mine
     BY <1>5, <2>5 DEF Fits, Milestones, Later
   <3>2. Tree
     BY <2>5, <3>1 DEF Mine, Later
   <3>3. Has(acc'[r], Terms(solve'[r], 4))
    <4>1. Join(r) /\ ~ WorkerException(r)
      BY <1>8, <2>5, JoinOrWalk
    <4>2. WalkAt(r, chunk[r], place[r], flag[r], acc[r], solve[r])
      BY <1>2, <2>5 DEF WalkHolds
    <4>3. solve'[r] = solve[r]
      BY <1>3, <2>5
    <4> QED  BY <1>1, <4>1, <4>2, <4>3, LastTerms
   <3> QED  BY <1>8, <3>1, <3>2, <3>3 DEF AccHolds
  <2>6. CASE h = "commit"
   <3>1. Due(u) = Later(h) /\ Later(h) = {"callback"} /\ h \in Mine
     BY <1>5, <2>6 DEF Fits, Milestones, Later
   <3>2. ~ Tree
     BY <2>6, <3>1 DEF Mine, Later
   <3>3. Due(t) = {"commit", "callback"}
     BY <1>5, <2>6, <3>1 DEF Milestones
   <3>4. mem[r].built = Terms(n, 3) /\ Has(acc[r], Terms(n, 0))
     BY <3>3 DEF BuiltHolds, AccHolds
   <3>5. Has(acc'[r], Terms(solve'[r], 3))
    <4>1. Commit(r) /\ solve'[r] = n
      BY <1>3, <2>6, StepIs
    <4> QED  BY <1>1, <3>4, <4>1, Committed
   <3> QED  BY <1>8, <3>1, <3>2, <3>5 DEF AccHolds
  <2>7. CASE h \notin Changers \union {"prepare"}
   <3>1. acc'[r] = acc[r] /\ solve'[r] = n
     BY <1>3, <1>4, <2>7
   <3>2. \A x \in {"callback", "materialize", "set_up", "walk", "commit"} :
            x \in Due(u) <=> x \in Due(t)
     BY <1>5, <2>0, <2>7 DEF Changers
   <3>3. Gathers(t) = Gathers(u) /\ h # "walk"
    <4>1. Gathers(u) \in Nat
      BY <1>5, GathersOf
    <4>2. h # "axis_gather" /\ h # "walk"
      BY <2>7 DEF Changers
    <4>3. Gathers(t) = Gathers(u) + 0
      BY <1>2, <4>2, GathersOf
    <4> QED  BY <4>1, <4>2, <4>3
   <3> HIDE DEF t, u, h, n
   <3>4. AccHolds(t, acc[r], n)
     BY DEF t, n
   <3>5. AccHolds(u, acc[r], n)
     BY <3>2, <3>3, <3>4 DEF AccHolds, h
   <3> QED  BY <1>8, <3>1, <3>5
  <2> QED  BY <2>1, <2>2, <2>3, <2>4, <2>5, <2>6, <2>7 DEF Changers
 <1> QED  BY <1>6, <1>7, <1>8, Onwards
-----------------------------------------------------------------------------
LEMMA WalksElsewhere ==
    ASSUME WalkHolds, NEW r \in Ranks, Frame(r),
           \A q \in Ranks \ {r} : todo'[q] = todo[q] /\ waiting'[q] = waiting[q],
           StepOf(r)' = "walk" => WalkAt(r, chunk'[r], place'[r], flag'[r], acc'[r], solve'[r])
    PROVE  WalkHolds'
 <1>1. Ranks' = Ranks
   BY SameSetup DEF Frame
 <1>2. ASSUME NEW q \in Ranks, StepOf(q)' = "walk"
       PROVE  WalkAt(q, chunk'[q], place'[q], flag'[q], acc'[q], solve'[q])
  <2>1. CASE q = r
    BY <1>2, <2>1
  <2>2. CASE q # r
   <3>1. /\ StepOf(q)' = StepOf(q) /\ solve'[q] = solve[q] /\ acc'[q] = acc[q]
         /\ chunk'[q] = chunk[q] /\ place'[q] = place[q] /\ flag'[q] = flag[q]
     BY <2>2, Beside
   <3>2. WalkAt(q, chunk[q], place[q], flag[q], acc[q], solve[q])
     BY <1>2, <3>1 DEF WalkHolds
   <3> QED  BY <3>1, <3>2
  <2> QED  BY <2>1, <2>2
 <1>3. \A q \in Ranks : StepOf(q)' = "walk" =>
           WalkAt(q, chunk[q], place[q], flag[q], acc[q], solve[q])'
   BY <1>2 DEF WalkAt
 <1> QED  BY <1>1, <1>3 DEF WalkHolds

LEMMA WalkStays ==
    ASSUME PipelineInv, ForceTypes, Courses, WalkHolds, Unprotected = {},
           NEW r \in Ranks, RankStep(r), Frame(r), todo[r] # <<>>,
           AccHolds(todo[r], acc[r], solve[r])
    PROVE  WalkHolds'
 <1> DEFINE t == todo[r]
            u == Tail(t)
            h == Head(t)
            n == solve[r]
 <1>1. PipelineTypes /\ Owned[r] \in Nat
   BY OwnedType DEF PipelineInv
 <1>2. StepOf(r) = h /\ Planned(t) /\ Rooted(t) /\ t \in Seq(Steps)
   BY DEF StepOf, Courses, ListsPlanned, Planned
 <1>3. \A q \in Ranks \ {r} : todo'[q] = todo[q] /\ waiting'[q] = waiting[q]
   BY HowItMoves DEF Courses
 <1>4. /\ Fits(h, u) /\ u \in Seq(Steps)
       /\ Due(t) = Due(u) \union ({h} \intersect Milestones)
       /\ u # <<>> /\ Head(u) = "walk" => h = "tree"
       /\ From(u, "complete") # <<>> => Head(From(u, "complete")) = "complete"
   BY <1>2, Leaving
 <1> SUFFICES ASSUME StepOf(r)' = "walk"
              PROVE  WalkAt(r, chunk'[r], place'[r], flag'[r], acc'[r], solve'[r])
   BY <1>3, WalksElsewhere
 <1>5. todo'[r] # <<>> /\ Head(todo'[r]) = "walk"
   BY DEF StepOf
 <1>6. \/ Walks(r, t) \/ Passes(r, t, u)
  <2>1. ~ Breaks(r, t, u) /\ ~ Joins(r, t, u)
    BY <1>5 DEF Breaks, Joins, Locals
  <2>2. ~ Jumps(r, t, u)
    BY <1>4, <1>5 DEF Jumps
  <2> QED  BY <2>1, <2>2, HowItMoves DEF Courses
 <1>7. CASE Walks(r, t)
  <2>1. h = "walk"
    BY <1>7 DEF Walks
  <2>2. WalkAt(r, chunk[r], place[r], flag[r], acc[r], solve[r])
    BY <1>2, <2>1 DEF WalkHolds
  <2>3. PICK c \in DOMAIN chunk[r] : WalkStep(r, c)
    BY <1>7, <2>1, JoinOrWalk
  <2> QED  BY <1>1, <2>2, <2>3, WalkSteps
 <1>8. CASE Passes(r, t, u)
  <2>1. h = "tree" /\ ~ error'[r] /\ ~ waiting'[r]
    BY <1>4, <1>5, <1>8 DEF Passes
  <2>2. Due(u) = {"walk", "validate", "callback"}
    BY <1>4, <2>1 DEF Fits, Milestones, Later
  <2>3. Due(t) = {"tree", "walk", "validate", "callback"}
    BY <1>4, <2>1, <2>2 DEF Milestones
  <2>4. Gathers(t) = 0
    BY <1>2, <2>3, GathersOf
  <2>5. Has(acc[r], Terms(n, 3))
   <3>1. Has(acc[r], Terms(n, 3 - Gathers(t)))
     BY <2>1, <2>3 DEF AccHolds
   <3>2. 3 - Gathers(t) = 3
     BY <2>4
   <3> QED  BY <3>1, <3>2
  <2>6. BuildTree(r)
    BY <2>1, StepIs
  <2>7. /\ chunk' = [chunk EXCEPT ![r] = [c \in 1 .. ChunkCount(r) |-> "waiting"]]
        /\ place' = [place EXCEPT ![r] = [c \in 1 .. ChunkCount(r) |-> 0]]
        /\ flag' = [flag EXCEPT ![r] = FALSE]
        /\ solve' = solve /\ acc' = acc
   <3>1. ~ Throw(r)
     BY <1>1, <2>1 DEF Throw, PipelineTypes
   <3> QED  BY <2>6, <3>1 DEF BuildTree, products
  <2>8. /\ chunk'[r] = [c \in 1 .. ChunkCount(r) |-> "waiting"]
        /\ place'[r] = [c \in 1 .. ChunkCount(r) |-> 0]
        /\ flag'[r] = FALSE
    BY <2>7 DEF ForceTypes
  <2>9. DOMAIN acc[r] = 1 .. Owned[r]
    BY DEF ForceTypes
  <2>10. WalkAt(r, [c \in 1 .. ChunkCount(r) |-> "waiting"],
                [c \in 1 .. ChunkCount(r) |-> 0], FALSE, acc[r], n)
    BY <1>1, <2>5, <2>9, WalkBegins
  <2> QED  BY <2>7, <2>8, <2>10
 <1> QED  BY <1>6, <1>7, <1>8

(* The first step of a call.                                               *)
LEMMA CallStarts ==
    ASSUME PipelineInv, NEW r \in Ranks, Call(r)
    PROVE  /\ \A q \in Ranks \ {r} : todo'[q] = todo[q] /\ waiting'[q] = waiting[q]
           /\ todo[r] = <<>> /\ ~ waiting[r] /\ ~ waiting'[r] /\ setup' = setup
           /\ error' = error
           /\ \/ todo'[r] = <<>>
              \/ todo'[r] = Measure(r)
              \/ todo'[r] = Solve(r)
           /\ todo'[r] # <<>> => Head(todo'[r]) \in {"prepare", "measure"}
 <1>1. CallsInOrder /\ WaitsForAll /\ PipelineTypes
   BY DEF PipelineInv
 <1>2. /\ setup' = setup /\ waiting' = waiting /\ error' = error /\ ~ waiting[r]
       /\ \A q \in Ranks \ {r} : todo'[q] = todo[q] /\ Made(q)' = Made(q)
       /\ todo[r] = <<>>
       /\ todo'[r] = IF Skipped(r, Made(r) + 1) THEN <<>> ELSE Fresh(r, Made(r) + 1)
   BY <1>1, CallAlone
 <1>3. todo'[r] \in {<<>>, Measure(r), Solve(r)}
   BY <1>2 DEF Fresh
 <1>4. Head(Solve(r)) = "prepare" /\ Head(Measure(r)) = "measure"
   BY SolvePlanned, MeasurePlanned
 <1> QED  BY <1>2, <1>3, <1>4

LEMMA CallKeepsWalk ==
    ASSUME PipelineInv, WalkHolds, NEW r \in Ranks, Call(r), Frame(r)
    PROVE  WalkHolds'
 <1>1. StepOf(r)' # "walk"
   BY CallStarts DEF StepOf
 <1> QED  BY <1>1, CallStarts, WalksElsewhere
-----------------------------------------------------------------------------
(* The contents stay while one rank steps.                                 *)
ContentAt(steps, m, a, n, r) == /\ MeshHolds(steps, m, n, r)
                                /\ BuiltHolds(steps, m, n)
                                /\ AccHolds(steps, a, n)

LEMMA ContentsNext ==
    ASSUME setup' = setup,
           \A q \in Ranks : ~ error'[q] => ContentAt(Ahead(q)', mem'[q], acc'[q], solve'[q], q)
    PROVE  Contents'
 <1>1. Ranks' = Ranks
   BY SameSetup
 <1>2. ASSUME NEW q \in Ranks, ~ error'[q]
       PROVE  /\ (MeshHolds(Ahead(q), mem[q], solve[q], q))'
              /\ (BuiltHolds(Ahead(q), mem[q], solve[q]))'
              /\ (AccHolds(Ahead(q), acc[q], solve[q]))'
  <2>1. /\ MeshHolds(Ahead(q)', mem'[q], solve'[q], q)
        /\ BuiltHolds(Ahead(q)', mem'[q], solve'[q])
        /\ AccHolds(Ahead(q)', acc'[q], solve'[q])
    BY <1>2 DEF ContentAt
  <2>2. (MeshHolds(Ahead(q), mem[q], solve[q], q))'
    BY <2>1 DEF MeshHolds, MeshAt, Size, Right, Support, SlabPlanes, Block
  <2>3. (BuiltHolds(Ahead(q), mem[q], solve[q]))'
    BY <2>1 DEF BuiltHolds
  <2>4. (AccHolds(Ahead(q), acc[q], solve[q]))'
    BY <2>1 DEF AccHolds, Tree
  <2> QED  BY <2>2, <2>3, <2>4
 <1> QED  BY <1>1, <1>2 DEF Contents

LEMMA ContentsStay ==
    ASSUME PipelineInv, ForceTypes, Courses, PlanesMatch, Contents, WalkHolds,
           Unprotected = {}, NEW r \in Ranks, RankStep(r), Frame(r), todo[r] # <<>>
    PROVE  Contents'
 <1>1. /\ ~ error[r] /\ Ahead(r) = todo[r]
       /\ \A q \in Ranks \ {r} : /\ todo'[q] = todo[q] /\ waiting'[q] = waiting[q]
                                 /\ error'[q] = error[q]
   BY HowItMoves DEF Courses
 <1>2. /\ MeshHolds(todo[r], mem[r], solve[r], r) /\ BuiltHolds(todo[r], mem[r], solve[r])
       /\ AccHolds(todo[r], acc[r], solve[r])
   BY <1>1 DEF Contents
 <1>3. ASSUME ~ error'[r]
       PROVE  ContentAt(Ahead(r)', mem'[r], acc'[r], solve'[r], r)
   BY <1>2, <1>3, MeshStays, BuiltStays, AccStays DEF ContentAt
 <1>4. ASSUME NEW q \in Ranks \ {r}, ~ error'[q]
       PROVE  ContentAt(Ahead(q)', mem'[q], acc'[q], solve'[q], q)
  <2>1. /\ Ahead(q)' = Ahead(q) /\ mem'[q] = mem[q] /\ acc'[q] = acc[q] /\ solve'[q] = solve[q]
        /\ ~ error[q]
    BY <1>1, <1>4, Beside
  <2>2. ContentAt(Ahead(q), mem[q], acc[q], solve[q], q)
    BY <2>1 DEF Contents, ContentAt
  <2> QED  BY <2>1, <2>2
 <1> QED  BY <1>3, <1>4, ContentsNext DEF Frame

(* What a call begins with asks nothing of what is there.                  *)
LEMMA FirstDue ==
    ASSUME NEW v, Planned(v), Rooted(v), v # <<>>, Head(v) = "prepare"
    PROVE  /\ Due(v) = Later("prepare") \union {"prepare"}
           /\ "materialize" \in Due(v)
           /\ IF Tree THEN "gradient" \notin Due(v) /\ "commit" \notin Due(v)
                      ELSE "transaction" \in Due(v) /\ "gradient" \in Due(v)
 <1>1. Fits("prepare", Tail(v)) /\ Due(v) = Due(Tail(v)) \union ({"prepare"} \intersect Milestones)
  <2>1. Fits(Head(v), Tail(v)) /\ Due(v) = Due(Tail(v)) \union ({Head(v)} \intersect Milestones)
    BY Leaving
  <2> QED  BY <2>1
 <1>2. "prepare" \in Milestones /\ Due(Tail(v)) = Later("prepare")
   BY <1>1 DEF Fits, Milestones
 <1>3. Due(v) = Later("prepare") \union {"prepare"}
   BY <1>1, <1>2
 <1> QED  BY <1>3 DEF Later

LEMMA FreshAsksNothing ==
    ASSUME NEW v, v = <<>> \/ Due(v) = {} \/ (Planned(v) /\ Rooted(v) /\ v # <<>> /\ Head(v) = "prepare"),
           NEW m, NEW a, NEW n, NEW r
    PROVE  ContentAt(v, m, a, n, r)
 <1>1. CASE Due(v) = {}
   BY <1>1 DEF ContentAt, MeshHolds, BuiltHolds, AccHolds, Needed
 <1>2. CASE Planned(v) /\ Rooted(v) /\ v # <<>> /\ Head(v) = "prepare"
  <2>1. /\ "materialize" \in Due(v)
        /\ IF Tree THEN "gradient" \notin Due(v) /\ "commit" \notin Due(v)
                   ELSE "transaction" \in Due(v) /\ "gradient" \in Due(v)
    BY <1>2, FirstDue
  <2>2. "prepare" \notin Region
    BY DEF Region, Raw, Massed, Forced, Between, Known, Asking, Answering, Answered
  <2>3. MeshAt("prepare", "axis_gather" \in Due(v), Gathers(v), m, n, r)
   <3> DEFINE G == "axis_gather" \in Due(v)
              g == Gathers(v)
   <3>1. G \in BOOLEAN
     OBVIOUS
   <3> HIDE DEF G, g
   <3>2. MeshAt("prepare", G, g, m, n, r)
     BY <2>2, <3>1, MeshReads
   <3> QED  BY <3>2 DEF G, g
  <2> QED  BY <1>2, <2>1, <2>3 DEF ContentAt, MeshHolds, BuiltHolds, AccHolds
 <1> QED  BY <1>1, <1>2, NothingIsPlanned

LEMMA CallKeepsContents ==
    ASSUME PipelineInv, ForceTypes, Courses, Contents, NEW r \in Ranks, Call(r), Frame(r)
    PROVE  Contents'
 <1>1. /\ \A q \in Ranks \ {r} : todo'[q] = todo[q] /\ waiting'[q] = waiting[q]
       /\ ~ waiting'[r] /\ setup' = setup /\ error' = error
       /\ \/ todo'[r] = <<>>
          \/ todo'[r] = Measure(r)
          \/ todo'[r] = Solve(r)
   BY CallStarts
 <1>2. Ahead(r)' = todo'[r]
   BY <1>1 DEF Ahead
 <1>3. \/ todo'[r] = <<>> \/ Due(todo'[r]) = {}
       \/ /\ Planned(todo'[r]) /\ Rooted(todo'[r]) /\ todo'[r] # <<>>
          /\ Head(todo'[r]) = "prepare"
  <2>1. Planned(Solve(r)) /\ Rooted(Solve(r)) /\ Solve(r) # <<>> /\ Head(Solve(r)) = "prepare"
    BY SolvePlanned, SolveIsGrown DEF Grown
  <2>2. Due(Measure(r)) = {}
    BY MeasurePlanned
  <2> QED  BY <1>1, <2>1, <2>2
 <1>4. ContentAt(Ahead(r)', mem'[r], acc'[r], solve'[r], r)
   BY <1>2, <1>3, FreshAsksNothing
 <1>5. ASSUME NEW q \in Ranks \ {r}, ~ error'[q]
       PROVE  ContentAt(Ahead(q)', mem'[q], acc'[q], solve'[q], q)
  <2>1. /\ Ahead(q)' = Ahead(q) /\ mem'[q] = mem[q] /\ acc'[q] = acc[q] /\ solve'[q] = solve[q]
        /\ ~ error[q]
    BY <1>1, <1>5, Beside
  <2>2. ContentAt(Ahead(q), mem[q], acc[q], solve[q], q)
    BY <2>1 DEF Contents, ContentAt
  <2> QED  BY <2>1, <2>2
 <1> QED  BY <1>1, <1>4, <1>5, ContentsNext
-----------------------------------------------------------------------------
(* Every plane has its owner, who was asked for it.                        *)
LEMMA BlocksReach ==
    ASSUME NEW M \in Nat \ {0}, NEW S \in Nat \ {0}, NEW p \in 0 .. M - 1
    PROVE  p \div ((M + S - 1) \div S) \in 0 .. S - 1
 <1> DEFINE w == M + S - 1
            B == w \div S
            e == w % S
            q == p \div B
            d == p % B
 <1>1. w \in Nat /\ w = M + S - 1
   OBVIOUS
 <1> HIDE DEF w
 <1>2. B \in Nat /\ e \in 0 .. S - 1 /\ w = S * B + e
   BY <1>1, Division
 <1> HIDE DEF B, e
 <1>3. S * B >= M
  <2> DEFINE x == S * B
  <2>1. x \in Int
    BY <1>2
  <2> HIDE DEF x
  <2>2. w = x + e
    BY <1>2 DEF x
  <2>3. x >= M
    BY <1>1, <1>2, <2>1, <2>2
  <2> QED  BY <2>3 DEF x
 <1>4. B \in Nat \ {0}
  <2> SUFFICES ASSUME B = 0  PROVE FALSE
    BY <1>2
  <2>1. S * B = 0
    OBVIOUS
  <2> HIDE DEF B
  <2> QED  BY <1>3, <2>1
 <1>5. q \in Nat /\ d \in 0 .. B - 1 /\ p = B * q + d
  <2>1. p \in Nat
    OBVIOUS
  <2> QED  BY <1>4, <2>1, Division
 <1> HIDE DEF q, d
 <1>6. ~ q >= S
  <2> SUFFICES ASSUME q >= S  PROVE FALSE
    OBVIOUS
  <2>1. B * q >= B * S
    BY <1>4, <1>5
  <2>2. B * S = S * B
    BY <1>4
  <2> DEFINE x == B * q
             y == S * B
  <2>3. x \in Int /\ y \in Int
    BY <1>4, <1>5
  <2>4. x >= y /\ y >= M /\ p = x + d
    BY <1>3, <1>5, <2>1, <2>2
  <2> HIDE DEF x, y
  <2> QED  BY <1>4, <1>5, <2>3, <2>4
 <1>7. q \in 0 .. S - 1
   BY <1>5, <1>6
 <1> QED  BY <1>7 DEF q, B, w

LEMMA OwnerIsRank ==
    ASSUME PipelineTypes, NEW p \in 0 .. Mesh - 1
    PROVE  OwnerOf(p) \in Ranks
 <1>1. Mesh \in Nat \ {0} /\ Size \in Nat \ {0}
   BY ForcePipelineAssumption DEF PipelineTypes, Size
 <1> QED  BY <1>1, BlocksReach DEF OwnerOf, Block, Ranks

(* What a rank waits for the answer of lies in the mesh.                   *)
LEMMA NeedsInMesh ==
    ASSUME Contents, NEW q \in Ranks, ~ error[q], Needed(Ahead(q)), Head(Ahead(q)) \in Answering
    PROVE  mem[q].needs \subseteq 0 .. Mesh - 1
  BY DEF Contents, MeshHolds, MeshAt

AskedAt(steps, needs, r) ==
    Needed(steps) /\ Head(steps) \in Answering =>
        \A p \in needs : <<r, p>> \in mem[OwnerOf(p)].asked

LEMMA AnsweringNames ==
    ASSUME NEW h, NEW h2 \in Leads(h), h2 \in Answering
    PROVE  h = "halo_planes" \/ h = "halo_response"
 <1>1. h2 \in Region /\ h2 \in {"halo_response", "halo_values"}
   BY DEF Answering, Region, Known
 <1>2. h \in (Region \ {"gradient"}) \union {"deposit"}
   BY <1>1, LeadsAre
 <1> QED  BY <1>1, <1>2, LeadsAre DEF Region, Raw, Massed, Forced, Between, Known, Asking,
                                      Answering, Answered

LEMMA AskedNext ==
    ASSUME PipelineTypes, ForceTypes, Contents, AskedFor, NEW r \in Ranks, Frame(r),
           \A q \in Ranks \ {r} : /\ todo'[q] = todo[q] /\ waiting'[q] = waiting[q]
                                  /\ error'[q] = error[q],
           ~ error'[r] /\ Needed(Ahead(r)') /\ Head(Ahead(r)') \in Answering =>
                /\ ~ error[r] /\ Needed(Ahead(r)) /\ Head(Ahead(r)) \in Answering
                /\ mem'[r].needs = mem[r].needs
    PROVE  AskedFor'
 <1>1. Ranks' = Ranks /\ setup' = setup
   BY SameSetup DEF Frame
 <1>2. ASSUME NEW q \in Ranks
       PROVE  mem'[q].asked = mem[q].asked
   BY NeverWritten, <1>2 DEF Frame, Writes
 <1>3. \A p : OwnerOf(p)' = OwnerOf(p)
   BY <1>1 DEF OwnerOf, Block, Size
 <1>4. ASSUME NEW q \in Ranks, ~ error'[q], Needed(Ahead(q)'), Head(Ahead(q)') \in Answering,
              NEW p \in mem'[q].needs
       PROVE  <<q, p>> \in mem'[OwnerOf(p)].asked
  <2>1. /\ ~ error[q] /\ Needed(Ahead(q)) /\ Head(Ahead(q)) \in Answering
        /\ mem'[q].needs = mem[q].needs
   <3>1. CASE q = r
     BY <1>4, <3>1
   <3>2. CASE q # r
    <4>1. Ahead(q)' = Ahead(q) /\ mem'[q] = mem[q] /\ error'[q] = error[q]
      BY <3>2, Beside
    <4> QED  BY <1>4, <4>1
   <3> QED  BY <3>1, <3>2
  <2>2. <<q, p>> \in mem[OwnerOf(p)].asked
    BY <1>4, <2>1 DEF AskedFor
  <2>3. OwnerOf(p) \in Ranks
    BY <1>4, <2>1, NeedsInMesh, OwnerIsRank
  <2> QED  BY <1>2, <2>2, <2>3
 <1>5. \A q \in Ranks : (~ error'[q] /\ Needed(Ahead(q)') /\ Head(Ahead(q)') \in Answering) =>
           \A p \in mem'[q].needs : <<q, p>> \in (mem[OwnerOf(p)].asked)'
  <2>1. \A p : (mem[OwnerOf(p)].asked)' = mem'[OwnerOf(p)].asked
    BY <1>3
  <2> QED  BY <1>4, <2>1
 <1> QED  BY <1>1, <1>5 DEF AskedFor

LEMMA AskedStays ==
    ASSUME PipelineInv, ForceTypes, Courses, Contents, AskedFor, Unprotected = {},
           NEW r \in Ranks, RankStep(r), Frame(r), todo[r] # <<>>
    PROVE  AskedFor'
 <1> DEFINE t == todo[r]
            u == Tail(t)
            h == Head(t)
 <1>1. /\ ~ error[r] /\ Ahead(r) = t /\ StepOf(r) = h
       /\ \A q \in Ranks \ {r} : /\ todo'[q] = todo[q] /\ waiting'[q] = waiting[q]
                                 /\ error'[q] = error[q]
   BY HowItMoves DEF Courses
 <1>2. Planned(t) /\ Rooted(t) /\ PipelineTypes
   BY DEF Courses, ListsPlanned, PipelineInv
 <1>3. /\ Fits(h, u) /\ Due(t) = Due(u) \union ({h} \intersect Milestones)
   BY <1>2, Leaving
 <1>4. ASSUME ~ error'[r], Needed(Ahead(r)'), Head(Ahead(r)') \in Answering
       PROVE  /\ Needed(t) /\ Head(t) \in Answering
              /\ mem'[r].needs = mem[r].needs
  <2>1. \A f \in Fields \ Written(h) : mem'[r][f] = mem[r][f]
    BY <1>1 DEF Frame, Writes
  <2>2. "needs" \in Fields
    BY FieldNames
  <2>3. CASE Ahead(r)' = t
   <3>1. "needs" \notin Written(h)
     BY <1>4, <2>3, LittleWritten, WrittenBy DEF Answering, JointSteps
   <3> QED  BY <1>4, <2>1, <2>2, <2>3, <3>1
  <2>4. CASE Ahead(r)' = u /\ h \notin JointSteps
   <3>1. Head(u) \in Leads(h)
     BY <1>3, <1>4, <2>4 DEF Fits
   <3>2. h = "halo_response"
    <4>1. Head(u) \in Answering
      BY <1>4, <2>4
    <4>2. "halo_planes" \in JointSteps
      BY DEF JointSteps
    <4> HIDE DEF h, u
    <4> QED  BY <2>4, <3>1, <4>1, <4>2, AnsweringNames
   <3>3. mem'[r].needs = mem[r].needs
     BY <2>1, <2>2, <3>2, WrittenBy
   <3>4. Needed(t)
     BY <1>3, <1>4, <2>4 DEF Needed
   <3> QED  BY <3>2, <3>3, <3>4 DEF Answering
  <2> QED  BY <1>4, <2>3, <2>4, Onwards
 <1> QED  BY <1>1, <1>2, <1>4, AskedNext

LEMMA CallKeepsAsked ==
    ASSUME PipelineInv, ForceTypes, Contents, AskedFor, NEW r \in Ranks, Call(r), Frame(r)
    PROVE  AskedFor'
 <1>1. /\ \A q \in Ranks \ {r} : /\ todo'[q] = todo[q] /\ waiting'[q] = waiting[q]
                                 /\ error'[q] = error[q]
       /\ ~ waiting'[r]
       /\ todo'[r] # <<>> => Head(todo'[r]) \in {"prepare", "measure"}
   BY CallStarts
 <1>2. Ahead(r)' = todo'[r]
   BY <1>1 DEF Ahead
 <1>3. ~ (Needed(Ahead(r)') /\ Head(Ahead(r)') \in Answering)
  <2>1. CASE todo'[r] = <<>>
    BY <1>2, <2>1, NothingIsPlanned DEF Needed
  <2>2. CASE todo'[r] # <<>>
    BY <1>1, <1>2, <2>2 DEF Answering
  <2> QED  BY <2>1, <2>2
 <1> QED  BY <1>1, <1>3, AskedNext DEF PipelineInv
-----------------------------------------------------------------------------
(* A force stands for what it says it stands for.                          *)
Worth(a, n) == Has(a, Terms(n, IF Tree THEN 4 ELSE 3))

LEMMA CompleteIs ==
    /\ \A q, n : Complete(q, n) <=> Worth(acc[q], n)
    /\ setup' = setup => \A a, n : Worth(a, n)' <=> Worth(a, n)
  BY DEF Complete, Has, Terms, Tree, Worth

LEMMA ValidHoldsIs ==
    ValidHolds <=>
      /\ \A r \in Ranks : valid[r] => Worth(acc[r], solve[r]) /\ Settled(Ahead(r))
      /\ \A r \in Ranks : prepared[r] # 0 =>
            \A q \in Ranks : Worth(acc[q], prepared[r]) /\ Settled(todo[q])
      /\ \A r \in Ranks : waiting[r] /\ Head(todo[r]) = "prepare" => prepared[r] = 0
  BY CompleteIs DEF ValidHolds

LEMMA ValidHoldsNext ==
    ASSUME setup' = setup,
           \A r \in Ranks : valid'[r] => Worth(acc'[r], solve'[r]) /\ Settled(Ahead(r)'),
           \A r \in Ranks : prepared'[r] # 0 =>
              \A q \in Ranks : Worth(acc'[q], prepared'[r]) /\ Settled(todo'[q]),
           \A r \in Ranks : waiting'[r] /\ Head(todo'[r]) = "prepare" => prepared'[r] = 0
    PROVE  ValidHolds'
 <1>1. Ranks' = Ranks
   BY SameSetup
 <1>2. ASSUME NEW r \in Ranks, valid'[r]
       PROVE  (Complete(r, solve[r]))' /\ (Settled(Ahead(r)))'
  <2>1. Worth(acc'[r], solve'[r]) /\ Settled(Ahead(r)')
    BY <1>2
  <2>2. (Complete(r, solve[r]))'
    BY <2>1 DEF Complete, Worth, Has, Terms, Tree
  <2>3. (Settled(Ahead(r)))'
    BY <2>1
  <2> QED  BY <2>2, <2>3
 <1>3. \A r \in Ranks : prepared'[r] # 0 =>
           \A q \in Ranks : (Complete(q, prepared[r]))' /\ (Settled(todo[q]))'
   BY DEF Complete, Worth, Has, Terms, Tree
 <1> QED  BY <1>1, <1>2, <1>3 DEF ValidHolds

LEMMA SettledAlong ==
    ASSUME NEW s, NEW v, Settled(s), "prepare" \notin Due(s), Due(v) \subseteq Due(s)
    PROVE  Settled(v)
  BY DEF Settled

(* No step of a rank leaves it with more ahead.                            *)
LEMMA NoMoreDue ==
    ASSUME PipelineInv, Courses, Unprotected = {}, NEW r \in Ranks, RankStep(r), todo[r] # <<>>
    PROVE  /\ Due(todo'[r]) \subseteq Due(todo[r]) /\ Due(Ahead(r)') \subseteq Due(todo[r])
           /\ Head(todo[r]) # "prepare" => ~ (waiting'[r] /\ Head(todo'[r]) = "prepare")
           /\ Head(todo[r]) = "prepare" => todo'[r] = todo[r]
           /\ "prepare" \in Due(todo[r]) <=> Head(todo[r]) = "prepare"
 <1> DEFINE t == todo[r]
            u == Tail(t)
            v == From(u, "complete")
 <1>1. \/ Breaks(r, t, u) \/ Joins(r, t, u) \/ Passes(r, t, u) \/ Jumps(r, t, u) \/ Walks(r, t)
   BY HowItMoves DEF Courses
 <1>2. Planned(t) /\ Rooted(t) /\ t # <<>>
   BY DEF Courses, ListsPlanned
 <1>3. /\ Due(u) \subseteq Due(t) /\ Due(v) \subseteq Due(t)
       /\ "prepare" \in Due(t) <=> Head(t) = "prepare"
       /\ v # <<>> => Head(v) = "complete"
       /\ Planned(v) /\ Rooted(v)
  <2>1. /\ Due(v) \subseteq Due(u) /\ Due(t) = Due(u) \union ({Head(t)} \intersect Milestones)
        /\ "prepare" \in Due(t) <=> Head(t) = "prepare"
        /\ v # <<>> => Head(v) = "complete"
        /\ Planned(v) /\ Rooted(v)
    BY <1>2, Leaving
  <2> HIDE DEF t, u, v
  <2> QED  BY <2>1
 <1>4. v # <<>> => Due(Tail(v)) \subseteq Due(v)
   BY <1>3, Leaving
 <1>5. "prepare" \notin Locals
   BY DEF Locals
 <1> HIDE DEF t, u, v
 <1>6. CASE Breaks(r, t, u) \/ Joins(r, t, u)
   BY <1>3, <1>6 DEF Breaks, Joins, t
 <1>7. CASE Passes(r, t, u)
   BY <1>3, <1>5, <1>7 DEF Passes, t
 <1>8. CASE Jumps(r, t, u)
  <2>1. todo'[r] = v /\ v # <<>> /\ Ahead(r)' = Tail(v) /\ Head(t) \in {"tree", "walk"}
    BY <1>8 DEF Jumps, v
  <2> QED  BY <1>3, <1>4, <2>1 DEF t
 <1>9. CASE Walks(r, t)
   BY <1>3, <1>9 DEF Walks, t
 <1> QED  BY <1>1, <1>6, <1>7, <1>8, <1>9

(* What is to be kept of one rank's step, and of the others'.              *)
LEMMA ValidNext ==
    ASSUME ValidHolds, NEW r \in Ranks, Frame(r),
           \A q \in Ranks \ {r} : todo'[q] = todo[q] /\ waiting'[q] = waiting[q],
           valid'[r] => Worth(acc'[r], solve'[r]) /\ Settled(Ahead(r)'),
           \A s \in Ranks : prepared'[s] # 0 =>
                Worth(acc'[r], prepared[s]) /\ Settled(todo'[r]),
           waiting'[r] /\ Head(todo'[r]) = "prepare" => prepared'[r] = 0
    PROVE  ValidHolds'
 <1>1. setup' = setup
   BY DEF Frame
 <1>2. \A s \in Ranks : prepared'[s] # 0 => prepared'[s] = prepared[s]
  <2>1. \A s \in Ranks \ {r} : prepared'[s] = prepared[s]
    BY DEF Frame, Elsewhere
  <2>2. prepared'[r] # 0 => prepared'[r] = prepared[r]
    BY DEF Frame
  <2> QED  BY <2>1, <2>2
 <1>3. \A q \in Ranks \ {r} :
          /\ Ahead(q)' = Ahead(q) /\ solve'[q] = solve[q] /\ valid'[q] = valid[q]
          /\ prepared'[q] = prepared[q] /\ acc'[q] = acc[q]
          /\ todo'[q] = todo[q] /\ waiting'[q] = waiting[q]
   BY Beside
 <1>4. \A q \in Ranks : valid'[q] => Worth(acc'[q], solve'[q]) /\ Settled(Ahead(q)')
   BY <1>3, ValidHoldsIs
 <1>5. ASSUME NEW s \in Ranks, prepared'[s] # 0, NEW q \in Ranks
       PROVE  Worth(acc'[q], prepared'[s]) /\ Settled(todo'[q])
  <2>1. prepared'[s] = prepared[s] /\ prepared[s] # 0
    BY <1>2, <1>5
  <2>2. CASE q = r
    BY <1>5, <2>1, <2>2
  <2>3. CASE q # r
   <3>1. Worth(acc[q], prepared[s]) /\ Settled(todo[q])
     BY <2>1, ValidHoldsIs
   <3>2. acc'[q] = acc[q] /\ todo'[q] = todo[q]
     BY <1>3, <2>3
   <3> QED  BY <2>1, <3>1, <3>2
  <2> QED  BY <2>2, <2>3
 <1>6. \A q \in Ranks : waiting'[q] /\ Head(todo'[q]) = "prepare" => prepared'[q] = 0
   BY <1>3, ValidHoldsIs
 <1> QED  BY <1>1, <1>4, <1>5, <1>6, ValidHoldsNext
-----------------------------------------------------------------------------
LEMMA ValidStays ==
    ASSUME PipelineInv, ForceTypes, Courses, Contents, ValidHolds, Unprotected = {},
           NEW r \in Ranks, RankStep(r), Frame(r), todo[r] # <<>>
    PROVE  ValidHolds'
 <1> DEFINE t == todo[r]
            u == Tail(t)
            h == Head(t)
 <1>1. /\ ~ error[r] /\ Ahead(r) = t /\ StepOf(r) = h
       /\ \A q \in Ranks \ {r} : todo'[q] = todo[q] /\ waiting'[q] = waiting[q]
   BY HowItMoves DEF Courses
 <1>2. /\ Due(todo'[r]) \subseteq Due(t) /\ Due(Ahead(r)') \subseteq Due(t)
       /\ h # "prepare" => ~ (waiting'[r] /\ Head(todo'[r]) = "prepare")
       /\ h = "prepare" => todo'[r] = t
       /\ "prepare" \in Due(t) <=> h = "prepare"
   BY NoMoreDue
 <1>3. Planned(t) /\ Rooted(t)
   BY DEF Courses, ListsPlanned
 <1>4. /\ Fits(h, u) /\ Due(t) = Due(u) \union ({h} \intersect Milestones)
   BY <1>3, Leaving
 <1>5. /\ valid'[r] = IF h = "prepare" THEN FALSE ELSE IF h = "validate" THEN TRUE ELSE valid[r]
       /\ prepared'[r] = IF h = "prepare" THEN 0 ELSE prepared[r]
       /\ h \notin Changers => acc'[r] = acc[r]
       /\ h # "prepare" => solve'[r] = solve[r]
   BY <1>1 DEF Frame, ForceTypes
 <1>6. /\ valid[r] => Worth(acc[r], solve[r]) /\ Settled(t)
       /\ \A s \in Ranks : prepared[s] # 0 => Worth(acc[r], prepared[s]) /\ Settled(t)
   BY <1>1, ValidHoldsIs
 <1>7. \A s \in Ranks : prepared'[s] # 0 => prepared[s] # 0
   BY <1>5 DEF Frame, Elsewhere
 <1>8. waiting'[r] /\ Head(todo'[r]) = "prepare" => prepared'[r] = 0
   BY <1>2, <1>5
 <1>9. h # "prepare" /\ Settled(t) => Settled(todo'[r]) /\ Settled(Ahead(r)')
   BY <1>2, SettledAlong
 <1> HIDE DEF t, u, h
 <1>10. CASE h \in Changers
  <2>1. ~ Settled(t) /\ h # "prepare" /\ h # "validate"
   <3>1. h \in Milestones /\ h # "prepare" /\ h # "validate"
     BY <1>10 DEF Changers, Milestones
   <3> QED  BY <1>2, <1>4, <1>10, <3>1 DEF Settled
  <2>2. ~ valid'[r] /\ \A s \in Ranks : prepared'[s] = 0
    BY <1>5, <1>6, <1>7, <2>1
  <2> QED  BY <1>1, <1>8, <2>2, ValidNext
 <1>11. CASE h = "prepare"
  <2>1. acc'[r] = acc[r] /\ ~ valid'[r]
    BY <1>5, <1>11 DEF Changers
  <2>2. Settled(todo'[r])
    BY <1>2, <1>11 DEF Settled
  <2>3. \A s \in Ranks : prepared'[s] # 0 => Worth(acc'[r], prepared[s]) /\ Settled(todo'[r])
    BY <1>6, <1>7, <2>1, <2>2
  <2> QED  BY <1>1, <1>8, <2>1, <2>3, ValidNext
 <1>12. CASE h = "validate"
  <2>1. Due(u) = {"callback"} /\ Due(t) = {"validate", "callback"}
    BY <1>4, <1>12 DEF Fits, Later, Milestones
  <2>2. Worth(acc[r], solve[r])
   <3>1. AccHolds(t, acc[r], solve[r])
     BY <1>1 DEF Contents
   <3> QED  BY <2>1, <3>1 DEF AccHolds, Worth
  <2>3. Settled(t)
    BY <2>1 DEF Settled, Changers
  <2>4. acc'[r] = acc[r] /\ solve'[r] = solve[r] /\ h # "prepare"
    BY <1>5, <1>12 DEF Changers
  <2>5. Worth(acc'[r], solve'[r]) /\ Settled(Ahead(r)') /\ Settled(todo'[r])
    BY <1>9, <2>2, <2>3, <2>4
  <2>6. \A s \in Ranks : prepared'[s] # 0 => Worth(acc'[r], prepared[s]) /\ Settled(todo'[r])
    BY <1>6, <1>7, <2>4, <2>5
  <2> QED  BY <1>1, <1>8, <2>5, <2>6, ValidNext
 <1>13. CASE h \notin Changers \union {"prepare", "validate"}
  <2>1. acc'[r] = acc[r] /\ solve'[r] = solve[r] /\ valid'[r] = valid[r] /\ h # "prepare"
    BY <1>5, <1>13
  <2>2. valid'[r] => Worth(acc'[r], solve'[r]) /\ Settled(Ahead(r)')
    BY <1>6, <1>9, <2>1
  <2>3. \A s \in Ranks : prepared'[s] # 0 => Worth(acc'[r], prepared[s]) /\ Settled(todo'[r])
    BY <1>6, <1>7, <1>9, <2>1
  <2> QED  BY <1>1, <1>8, <2>2, <2>3, ValidNext
 <1> QED  BY <1>10, <1>11, <1>12, <1>13

LEMMA CallKeepsValid ==
    ASSUME PipelineInv, ForceTypes, ValidHolds, NEW r \in Ranks, Call(r), Frame(r)
    PROVE  ValidHolds'
 <1>1. /\ \A q \in Ranks \ {r} : todo'[q] = todo[q] /\ waiting'[q] = waiting[q]
       /\ todo[r] = <<>> /\ ~ waiting[r] /\ ~ waiting'[r]
       /\ todo'[r] = <<>> \/ todo'[r] = Measure(r) \/ todo'[r] = Solve(r)
   BY CallStarts
 <1>2. Ahead(r)' = todo'[r] /\ StepOf(r) = "nothing"
   BY <1>1 DEF Ahead, StepOf
 <1>3. /\ valid'[r] = valid[r] /\ prepared'[r] = prepared[r] /\ acc'[r] = acc[r]
       /\ solve'[r] = solve[r]
   BY <1>2 DEF Frame, ForceTypes, Changers
 <1>4. Settled(todo'[r])
  <2>1. Due(<<>>) = {} /\ Due(Measure(r)) = {}
    BY NothingIsPlanned, MeasurePlanned
  <2>2. "prepare" \in Due(Solve(r))
   <3>1. Planned(Solve(r)) /\ Rooted(Solve(r)) /\ Solve(r) # <<>> /\ Head(Solve(r)) = "prepare"
     BY SolvePlanned, SolveIsGrown DEF Grown
   <3> QED  BY <3>1, FirstDue
  <2> QED  BY <1>1, <2>1, <2>2 DEF Settled
 <1>5. /\ valid[r] => Worth(acc[r], solve[r])
       /\ \A s \in Ranks : prepared[s] # 0 => Worth(acc[r], prepared[s])
   BY ValidHoldsIs
 <1>6. \A s \in Ranks : prepared'[s] # 0 => prepared[s] # 0
   BY <1>3 DEF Frame, Elsewhere
 <1>7. \A s \in Ranks : prepared'[s] # 0 => Worth(acc'[r], prepared[s]) /\ Settled(todo'[r])
   BY <1>3, <1>4, <1>5, <1>6
 <1> QED  BY <1>1, <1>2, <1>3, <1>4, <1>5, <1>7, ValidNext

(* One rank's step keeps everything.                                       *)
LEMMA RankStepKeeps ==
    ASSUME PipelineInv, ForceInv, Unprotected = {}, NEW r \in Ranks, RankStep(r)
    PROVE  ForceInv'
 <1>1. PipelineTypes /\ ForceTypes /\ Courses
   BY DEF ForceInv, Courses, PipelineInv
 <1>2. Frame(r)
   BY <1>1, RankFrame
 <1>3. ForceTypes' /\ Alike' /\ PlanesMatch'
   BY <1>1, <1>2, AlikeStays, PlanesStay DEF Frame, ForceInv
 <1>4. CASE todo[r] # <<>>
  <2>1. AccHolds(todo[r], acc[r], solve[r])
    BY <1>1, <1>4, HowItMoves DEF ForceInv, Contents, Courses
  <2>2. Courses'
    BY <1>1, <1>2, <1>4, CoursesStay
  <2>3. Contents' /\ AskedFor' /\ WalkHolds' /\ ValidHolds'
    BY <1>1, <1>2, <1>4, <2>1, ContentsStay, AskedStays, WalkStays, ValidStays DEF ForceInv
  <2> QED  BY <1>3, <2>2, <2>3 DEF ForceInv, Courses
 <1>5. CASE todo[r] = <<>>
  <2>1. Call(r)
    BY <1>5, OnlyCalls
  <2>2. Courses'
    BY <1>1, <1>2, <2>1, CallKeepsCourses
  <2>3. Contents' /\ AskedFor' /\ WalkHolds' /\ ValidHolds'
    BY <1>1, <1>2, <2>1, CallKeepsContents, CallKeepsAsked, CallKeepsWalk, CallKeepsValid
       DEF ForceInv
  <2> QED  BY <1>3, <2>2, <2>3 DEF ForceInv, Courses
 <1> QED  BY <1>4, <1>5
-----------------------------------------------------------------------------
(* A collective all ranks are in, with t left before it and v behind it,   *)
(* in the n-th solve.                                                      *)
Together(t, v, n) ==
    /\ setup' = setup /\ calls' = calls /\ solve' = solve
    /\ t # <<>> /\ Planned(t) /\ Rooted(t) /\ Head(t) \notin Locals
    /\ Planned(v) /\ Rooted(v) /\ Due(v) \subseteq Due(Tail(t)) /\ "prepare" \notin Due(v)
    /\ IF Failed THEN v = <<>> \/ Head(v) \notin Locals ELSE v = Tail(t)
    /\ \A q \in Ranks :
         /\ todo[q] = t /\ waiting[q] /\ solve[q] = n
         /\ Ahead(q) = IF Head(t) \notin JointSteps THEN Tail(t) ELSE t
         /\ todo'[q] = v
         /\ (waiting'[q] <=> Failed /\ v # <<>>) /\ (error'[q] <=> Failed /\ v # <<>>)
         /\ Due(Ahead(q)') \subseteq Due(v)
         /\ ~ error'[q] => Ahead(q)' = v

LEMMA MeetsAlike ==
    ASSUME PipelineInv, ForceTypes, Courses, Meets
    PROVE  \E t, v, n : Together(t, v, n)
 <1>1. PipelineTypes /\ WaitsForAll /\ ListsPlanned /\ Numbered
   BY DEF PipelineInv, Courses
 <1>2. 0 \in Ranks
   BY <1>1, RankZero
 <1>3. /\ setup' = setup /\ calls' = calls /\ solve' = solve
       /\ \A q \in Ranks : /\ waiting[q] /\ todo'[q] = Rest(q)
                           /\ waiting'[q] = (Failed /\ Rest(q) # <<>>)
                           /\ error'[q] = (Failed /\ Rest(q) # <<>>)
   BY DEF Meets, Proceed, AllWait
 <1>4. PICK t : t = todo[0]
   OBVIOUS
 <1>5. PICK v : v = Rest(0)
   OBVIOUS
 <1>6. PICK m \in 1 .. Len(setup.calls) : \A q \in Ranks : Made(q) = m
   BY MeetsTogether
 <1>7. \A q \in Ranks : todo[q] = t /\ Rest(q) = v
   BY <1>2, <1>4, <1>5, MeetsTogether
 <1>8. t # <<>> /\ (Failed /\ v # <<>> => Head(v) \notin Locals)
   BY <1>2, <1>4, <1>5, MeetsTogether
 <1>9. Planned(t) /\ Rooted(t) /\ Head(t) \notin Locals
   BY <1>1, <1>2, <1>3, <1>4 DEF ListsPlanned, WaitsForAll
 <1>10. v = IF Failed THEN From(Tail(t), Catcher(Head(t))) ELSE Tail(t)
   BY <1>4, <1>5 DEF Rest, Unwound
 <1>11. /\ Planned(v) /\ Rooted(v) /\ Due(v) \subseteq Due(Tail(t)) /\ "prepare" \notin Due(v)
        /\ "prepare" \notin Due(Tail(t)) /\ ("prepare" \in Due(t) <=> Head(t) = "prepare")
   BY <1>8, <1>9, <1>10, Leaving
 <1>12. \A q \in Ranks : Ahead(q) = IF Head(t) \notin JointSteps THEN Tail(t) ELSE t
   BY <1>3, <1>7 DEF Ahead
 <1>13. \A q \in Ranks : "prepare" \notin Due(Ahead(q))
   BY <1>11, <1>12 DEF JointSteps
 <1>14. \A q \in Ranks : solve[q] = Solves(m)
  <2>1. ASSUME NEW q \in Ranks
        PROVE  solve[q] = Solves(m)
   <3>1. solve[q] + 0 = Solves(m) /\ solve[q] \in Nat
     BY <1>1, <1>6, <1>13 DEF Numbered, ForceTypes
   <3> QED  BY <3>1
  <2> QED  BY <2>1
 <1>15. ASSUME NEW q \in Ranks
        PROVE  Due(Ahead(q)') \subseteq Due(v) /\ (~ error'[q] => Ahead(q)' = v)
  <2>1. Ahead(q)' = IF (Failed /\ v # <<>>) /\ Head(v) \notin JointSteps THEN Tail(v) ELSE v
    BY <1>3, <1>7 DEF Ahead, JointSteps
  <2>2. v # <<>> => Due(Tail(v)) \subseteq Due(v)
    BY <1>11, Leaving
  <2> QED  BY <1>3, <1>7, <2>1, <2>2
 <1>16. IF Failed THEN v = <<>> \/ Head(v) \notin Locals ELSE v = Tail(t)
   BY <1>8, <1>10
 <1>17. Together(t, v, Solves(m))
   BY <1>3, <1>7, <1>8, <1>9, <1>11, <1>12, <1>14, <1>15, <1>16 DEF Together
 <1> QED  BY <1>17

LEMMA CoursesMeet ==
    ASSUME PipelineInv, ForceTypes, Courses, NEW t, NEW v, NEW n, Together(t, v, n)
    PROVE  Courses'
 <1>1. setup' = setup /\ calls' = calls /\ solve' = solve /\ Planned(v) /\ Rooted(v)
       /\ "prepare" \notin Due(v) /\ Due(Tail(t)) \subseteq Due(t)
  <2>1. t # <<>> /\ Planned(t) /\ Rooted(t)
    BY DEF Together
  <2>2. Due(Tail(t)) \subseteq Due(t)
    BY <2>1, Leaving
  <2> QED  BY <2>2 DEF Together
 <1>2. Ranks' = Ranks /\ \A m : Solves(m)' = Solves(m)
   BY <1>1, SameSetup
 <1>3. Calm'
   BY <1>2 DEF Calm, Together
 <1>4. ListsPlanned'
  <2>1. setup' = setup
    BY <1>1
  <2>2. \A s : Planned(s)' <=> Planned(s)
    BY <2>1, SameSetup
  <2>3. \A q \in Ranks : Planned(todo'[q]) /\ Rooted(todo'[q])
    BY <1>1 DEF Together
  <2> QED  BY <1>2, <2>2, <2>3 DEF ListsPlanned
 <1>5. Numbered'
  <2> DEFINE P(x) == IF "prepare" \in Due(x) THEN 1 ELSE 0
  <2>1. \A q \in Ranks : Made(q)' = Made(q)
    BY <1>1 DEF Made
  <2>2. ASSUME NEW q \in Ranks
        PROVE  solve'[q] + P(Ahead(q)') = Solves(Made(q))
   <3>1. /\ Ahead(q) = IF Head(t) \notin JointSteps THEN Tail(t) ELSE t
         /\ Due(Ahead(q)') \subseteq Due(v) /\ t # <<>> /\ Planned(t) /\ Rooted(t)
     BY DEF Together
   <3>2. "prepare" \notin Due(Tail(t)) /\ ("prepare" \in Due(t) <=> Head(t) = "prepare")
     BY <3>1, Leaving
   <3>3. "prepare" \notin Due(Ahead(q)) /\ "prepare" \notin Due(Ahead(q)')
     BY <1>1, <3>1, <3>2 DEF JointSteps
   <3>4. solve[q] + P(Ahead(q)) = Solves(Made(q))
     BY DEF Courses, Numbered
   <3> QED  BY <1>1, <3>3, <3>4
  <2>3. \A q \in Ranks : solve'[q] + P(Ahead(q)') = Solves(Made(q)')
    BY <2>1, <2>2
  <2>4. \A n1 : Solves(n1)' = Solves(n1)
    BY <1>2
  <2> QED  BY <1>2, <2>3, <2>4 DEF Numbered
 <1> QED  BY <1>3, <1>4, <1>5 DEF Courses
-----------------------------------------------------------------------------
(* What a collective writes beside the lists.                              *)
Other == UNCHANGED <<planes, acc, chunk, place, flag>>

MeetAt(h) ==
    \/ Failed /\ mem' = mem /\ UNCHANGED <<valid, prepared>>
    \/ ~ Failed /\ h \notin JointSteps /\ mem' = mem /\ UNCHANGED <<valid, prepared>>
    \/ ~ Failed /\ h = "callback" /\ Publish
    \/ /\ ~ Failed /\ UNCHANGED <<valid, prepared>>
       /\ \/ h = "forward" /\ ForwardTransform
          \/ h = "inverse" /\ InverseTransform
          \/ h = "axis_inverse" /\ AxisTransform
          \/ h = "halo_planes" /\ ExchangeRequests
          \/ h = "halo_values" /\ ExchangeValues
          \/ h = "lag_kernel" /\ LagKernel

LEMMA MeetingIs ==
    ASSUME PipelineTypes, NEW t, NEW v, NEW n, Together(t, v, n), Meeting
    PROVE  Other /\ MeetAt(Head(t))
 <1>1. 0 \in Ranks
   BY RankZero
 <1>2. \A s : Joint(s) => ~ Failed /\ Head(t) = s
   BY <1>1 DEF Together, Joint
 <1>3. CASE Agree
  <2>1. mem' = mem /\ UNCHANGED <<valid, prepared>> /\ Other
    BY <1>3 DEF Agree, Other, messages, products, threads
  <2>2. \A s : ~ Failed /\ Head(t) = s => Joint(s)
    BY DEF Together, Joint, AllWait
  <2>3. ~ Failed => Head(t) \notin JointSteps
    BY <1>3, <2>2 DEF Agree
  <2> QED  BY <2>1, <2>3 DEF MeetAt
 <1>4. CASE ForwardTransform
   BY <1>2, <1>4 DEF ForwardTransform, MeetAt, Other, messages, products, threads
 <1>5. CASE InverseTransform
   BY <1>2, <1>5 DEF InverseTransform, MeetAt, Other, messages, products, threads
 <1>6. CASE AxisTransform
   BY <1>2, <1>6 DEF AxisTransform, MeetAt, Other, messages, products, threads
 <1>7. CASE ExchangeRequests
   BY <1>2, <1>7 DEF ExchangeRequests, MeetAt, Other, messages, products, threads
 <1>8. CASE ExchangeValues
   BY <1>2, <1>8 DEF ExchangeValues, MeetAt, Other, messages, products, threads
 <1>9. CASE LagKernel
   BY <1>2, <1>9 DEF LagKernel, MeetAt, Other, messages, products, threads
 <1>10. CASE Publish
   BY <1>2, <1>10 DEF Publish, MeetAt, Other, messages, threads
 <1> QED  BY <1>3, <1>4, <1>5, <1>6, <1>7, <1>8, <1>9, <1>10 DEF Meeting

(* A buffer made by all of them at once.                                   *)
LEMMA EverywhereWrites ==
    ASSUME PipelineTypes, ForceTypes, NEW b, Everywhere(b), DOMAIN b \subseteq Fields
    PROVE  /\ DOMAIN mem' = Ranks
           /\ \A q \in Ranks : /\ DOMAIN mem'[q] = Fields
                               /\ \A f \in DOMAIN b : mem'[q][f] = b[f]
                               /\ \A f \in Fields \ DOMAIN b : mem'[q][f] = mem[q][f]
 <1>1. DOMAIN mem' = Ranks /\ \A q \in Ranks : mem'[q] = Over(b, mem[q])
   BY DEF Everywhere
 <1>2. \A q \in Ranks : DOMAIN mem[q] = Fields
   BY DEF ForceTypes
 <1> HIDE DEF Fields
 <1> QED  BY <1>1, <1>2 DEF Over

(* What each of them leaves in a rank's memory.                            *)
Leaves(q, W) == DOMAIN mem'[q] = Fields /\ \A f \in Fields \ W : mem'[q][f] = mem[q][f]

LEMMA MeetingWrites ==
    ASSUME PipelineTypes, ForceTypes, NEW q \in Ranks
    PROVE  /\ mem' = mem => Leaves(q, {})
           /\ ForwardTransform =>
                /\ Leaves(q, {"phi", "density", "ready"})
                /\ mem'[q].phi = Transformed("density", "source", "phi")
           /\ InverseTransform =>
                /\ Leaves(q, {"density", "ready"})
                /\ mem'[q].density = Transformed("phi", "phi", "potential")
           /\ AxisTransform =>
                /\ Leaves(q, {"force", "modes", "density", "ready"})
                /\ mem'[q].force = Transformed("modes", "axis", "force")
           /\ ExchangeRequests =>
                /\ Leaves(q, {"asked"})
                /\ mem'[q].asked = {ask \in Ranks \X (0 .. Mesh - 1) :
                                       /\ ask[2] \in mem[ask[1]].needs
                                       /\ OwnerOf(ask[2]) = q}
           /\ ExchangeValues =>
                /\ Leaves(q, {"halo"})
                /\ mem'[q].halo = Over([p \in mem[q].needs |-> Reply(q, p)], mem[q].halo)
           /\ LagKernel => Leaves(q, {"kernel", "lags"})
 <1>1. DOMAIN mem[q] = Fields
   BY DEF ForceTypes
 <1>2. mem' = mem => Leaves(q, {})
   BY <1>1 DEF Leaves
 <1>3. /\ {"phi", "density", "ready"} \subseteq Fields
       /\ {"force", "modes", "asked", "halo", "kernel", "lags"} \subseteq Fields
   BY FieldNames
 <1>4. ASSUME ForwardTransform
       PROVE  /\ Leaves(q, {"phi", "density", "ready"})
              /\ mem'[q].phi = Transformed("density", "source", "phi")
  <2> DEFINE x == Transformed("density", "source", "phi")
             b == [phi |-> x, density |-> Torn, ready |-> FALSE]
  <2>1. Everywhere(b)
    BY <1>4 DEF ForwardTransform
  <2>2. DOMAIN b = {"phi", "density", "ready"} /\ b.phi = x
    OBVIOUS
  <2> HIDE DEF b
  <2>3. /\ DOMAIN mem'[q] = Fields
        /\ \A f \in DOMAIN b : mem'[q][f] = b[f]
        /\ \A f \in Fields \ DOMAIN b : mem'[q][f] = mem[q][f]
    BY <1>3, <2>1, <2>2, EverywhereWrites
  <2> HIDE DEF x
  <2>4. mem'[q].phi = x
    BY <2>2, <2>3
  <2> QED  BY <2>2, <2>3, <2>4 DEF Leaves, x
 <1>5. ASSUME InverseTransform
       PROVE  /\ Leaves(q, {"density", "ready"})
              /\ mem'[q].density = Transformed("phi", "phi", "potential")
  <2> DEFINE x == Transformed("phi", "phi", "potential")
             b == [density |-> x, ready |-> TRUE]
  <2>1. Everywhere(b)
    BY <1>5 DEF InverseTransform
  <2>2. DOMAIN b = {"density", "ready"} /\ b.density = x
    OBVIOUS
  <2> HIDE DEF b
  <2>3. /\ DOMAIN mem'[q] = Fields
        /\ \A f \in DOMAIN b : mem'[q][f] = b[f]
        /\ \A f \in Fields \ DOMAIN b : mem'[q][f] = mem[q][f]
    BY <1>3, <2>1, <2>2, EverywhereWrites
  <2> HIDE DEF x
  <2>4. mem'[q].density = x
    BY <2>2, <2>3
  <2> QED  BY <2>2, <2>3, <2>4 DEF Leaves, x
 <1>6. ASSUME AxisTransform
       PROVE  /\ Leaves(q, {"force", "modes", "density", "ready"})
              /\ mem'[q].force = Transformed("modes", "axis", "force")
  <2> DEFINE x == Transformed("modes", "axis", "force")
             b == [force |-> x, modes |-> Torn, density |-> Torn, ready |-> FALSE]
  <2>1. Everywhere(b)
    BY <1>6 DEF AxisTransform
  <2>2. DOMAIN b = {"force", "modes", "density", "ready"} /\ b.force = x
    OBVIOUS
  <2> HIDE DEF b
  <2>3. /\ DOMAIN mem'[q] = Fields
        /\ \A f \in DOMAIN b : mem'[q][f] = b[f]
        /\ \A f \in Fields \ DOMAIN b : mem'[q][f] = mem[q][f]
    BY <1>3, <2>1, <2>2, EverywhereWrites
  <2> HIDE DEF x
  <2>4. mem'[q].force = x
    BY <2>2, <2>3
  <2> QED  BY <2>2, <2>3, <2>4 DEF Leaves, x
 <1>7. ASSUME LagKernel
       PROVE  Leaves(q, {"kernel", "lags"})
  <2> DEFINE x == IF \A r \in Ranks : mem[r].density = <<"impulse", "potential", solve[r]>>
                  THEN <<"impulse">> ELSE Torn
             b == [kernel |-> TRUE, lags |-> x]
  <2>1. Everywhere(b)
    BY <1>7 DEF LagKernel
  <2>2. DOMAIN b = {"kernel", "lags"}
    OBVIOUS
  <2> HIDE DEF b
  <2>3. /\ DOMAIN mem'[q] = Fields
        /\ \A f \in Fields \ DOMAIN b : mem'[q][f] = mem[q][f]
    BY <1>3, <2>1, <2>2, EverywhereWrites
  <2> QED  BY <2>2, <2>3 DEF Leaves
 <1>8. ASSUME ExchangeRequests
       PROVE  /\ Leaves(q, {"asked"})
              /\ mem'[q].asked = {ask \in Ranks \X (0 .. Mesh - 1) :
                                      /\ ask[2] \in mem[ask[1]].needs
                                      /\ OwnerOf(ask[2]) = q}
  <2> DEFINE x == {ask \in Ranks \X (0 .. Mesh - 1) : /\ ask[2] \in mem[ask[1]].needs
                                                     /\ OwnerOf(ask[2]) = q}
  <2>1. mem'[q] = [mem[q] EXCEPT !.asked = x]
    BY <1>8 DEF ExchangeRequests
  <2> HIDE DEF x
  <2>2. mem'[q].asked = x
    BY <1>1, <1>3, <2>1
  <2>3. Leaves(q, {"asked"})
    BY <1>1, <2>1 DEF Leaves
  <2> QED  BY <2>2, <2>3 DEF x
 <1>9. ASSUME ExchangeValues
       PROVE  /\ Leaves(q, {"halo"})
              /\ mem'[q].halo = Over([p \in mem[q].needs |-> Reply(q, p)], mem[q].halo)
  <2> DEFINE x == Over([p \in mem[q].needs |-> Reply(q, p)], mem[q].halo)
  <2>1. mem'[q] = [mem[q] EXCEPT !.halo = x]
    BY <1>9 DEF ExchangeValues
  <2> HIDE DEF x
  <2>2. mem'[q].halo = x
    BY <1>1, <1>3, <2>1
  <2>3. Leaves(q, {"halo"})
    BY <1>1, <2>1 DEF Leaves
  <2> QED  BY <2>2, <2>3 DEF x
 <1> QED  BY <1>2, <1>4, <1>5, <1>6, <1>7, <1>8, <1>9
LEMMA TypesMeet ==
    ASSUME PipelineTypes, ForceTypes, NEW t, NEW v, NEW n, Together(t, v, n), Meeting
    PROVE  ForceTypes'
 <1>1. Other /\ MeetAt(Head(t)) /\ setup' = setup /\ solve' = solve /\ Ranks' = Ranks
   BY MeetingIs, SameSetup DEF Together
 <1>2. valid' \in [Ranks -> BOOLEAN] /\ prepared' \in [Ranks -> Nat]
  <2>1. UNCHANGED <<valid, prepared>> \/ Publish
    BY <1>1 DEF MeetAt
  <2>2. /\ valid \in [Ranks -> BOOLEAN] /\ prepared \in [Ranks -> Nat]
        /\ solve \in [Ranks -> Nat]
    BY DEF ForceTypes
  <2>3. CASE Publish
    BY <2>2, <2>3 DEF Publish
  <2> QED  BY <2>1, <2>2, <2>3
 <1>3. \A q \in Ranks : DOMAIN mem'[q] = Fields
  <2>1. ASSUME NEW q \in Ranks
        PROVE  DOMAIN mem'[q] = Fields
   <3>1. \/ mem' = mem \/ ForwardTransform \/ InverseTransform \/ AxisTransform
         \/ ExchangeRequests \/ ExchangeValues \/ LagKernel
     BY <1>1 DEF MeetAt, Publish
   <3>2. \E W : Leaves(q, W)
     BY <3>1, MeetingWrites
   <3> QED  BY <3>2 DEF Leaves
  <2> QED  BY <2>1
 <1>4. /\ acc' = acc /\ planes' = planes /\ chunk' = chunk /\ place' = place /\ flag' = flag
   BY <1>1 DEF Other
 <1> HIDE DEF Fields
 <1>5. Fields' = Fields
   BY DEF Fields, EmptyMemory, Torn
 <1> QED  BY <1>1, <1>2, <1>3, <1>4, <1>5 DEF ForceTypes

LEMMA AlikeMeets ==
    ASSUME PipelineTypes, ForceTypes, Alike, NEW t, NEW v, NEW n, Together(t, v, n), Meeting
    PROVE  Alike'
 <1>1. Other /\ MeetAt(Head(t)) /\ Ranks' = Ranks
   BY MeetingIs, SameSetup DEF Together
 <1>2. \/ mem' = mem \/ ForwardTransform \/ InverseTransform \/ AxisTransform
       \/ ExchangeRequests \/ ExchangeValues \/ LagKernel
   BY <1>1 DEF MeetAt, Publish
 <1>3. "phi" \in Fields /\ "force" \in Fields
   BY FieldNames
 <1>4. ASSUME NEW q \in Ranks, NEW r \in Ranks
       PROVE  mem'[q].phi = mem'[r].phi /\ mem'[q].force = mem'[r].force
  <2>1. mem[q].phi = mem[r].phi /\ mem[q].force = mem[r].force
    BY DEF Alike
  <2>2. CASE ForwardTransform
   <3>1. /\ mem'[q].phi = mem'[r].phi
         /\ Leaves(q, {"phi", "density", "ready"}) /\ Leaves(r, {"phi", "density", "ready"})
     BY <2>2, MeetingWrites
   <3> QED  BY <1>3, <2>1, <3>1 DEF Leaves
  <2>3. CASE AxisTransform
   <3>1. /\ mem'[q].force = mem'[r].force
         /\ Leaves(q, {"force", "modes", "density", "ready"})
         /\ Leaves(r, {"force", "modes", "density", "ready"})
     BY <2>3, MeetingWrites
   <3> QED  BY <1>3, <2>1, <3>1 DEF Leaves
  <2>4. CASE mem' = mem
    BY <2>1, <2>4
  <2>5. CASE InverseTransform \/ ExchangeRequests \/ ExchangeValues \/ LagKernel
   <3>1. \E W : /\ "phi" \notin W /\ "force" \notin W
                /\ Leaves(q, W) /\ Leaves(r, W)
    <4>1. InverseTransform => Leaves(q, {"density", "ready"}) /\ Leaves(r, {"density", "ready"})
      BY MeetingWrites
    <4>2. ExchangeRequests => Leaves(q, {"asked"}) /\ Leaves(r, {"asked"})
      BY MeetingWrites
    <4>3. ExchangeValues => Leaves(q, {"halo"}) /\ Leaves(r, {"halo"})
      BY MeetingWrites
    <4>4. LagKernel => Leaves(q, {"kernel", "lags"}) /\ Leaves(r, {"kernel", "lags"})
      BY MeetingWrites
    <4> HIDE DEF Leaves
    <4> QED  BY <2>5, <4>1, <4>2, <4>3, <4>4
   <3> QED  BY <1>3, <2>1, <3>1 DEF Leaves
  <2> QED  BY <1>2, <2>2, <2>3, <2>4, <2>5
 <1> QED  BY <1>1, <1>4 DEF Alike

(* No plane is under way while all are in a collective.                    *)
LEMMA PlanesMeet ==
    ASSUME PipelineTypes, ForceTypes, PlanesMatch, NEW t, NEW v, NEW n, Together(t, v, n), Meeting
    PROVE  PlanesMatch'
 <1>1. /\ Other /\ setup' = setup /\ Ranks' = Ranks /\ \A q : Right(q)' = Right(q)
       /\ t # <<>> /\ Planned(t) /\ Rooted(t) /\ Head(t) \notin Locals
   BY MeetingIs, SameSetup DEF Together
 <1>2. ~ Exchanging(t)
   BY <1>1 DEF Exchanging, Sends, Locals
 <1>3. ToSend(v) \/ ~ Exchanging(v)
  <2>1. CASE Failed
    BY <2>1 DEF Together, Exchanging, Sends, Locals
  <2>2. CASE ~ Failed
   <3>1. v = Tail(t) /\ Head(t) \notin Sends
     BY <1>1, <2>2 DEF Together, Sends, Locals
   <3>2. v # <<>> => Head(v) # "receive_plane"
     BY <1>1, <3>1, PlannedExchange
   <3> QED  BY <3>2 DEF Exchanging, ToSend
  <2> QED  BY <2>1, <2>2
 <1>4. ASSUME NEW r \in Ranks, NEW f
       PROVE  Match(todo'[r], todo'[Right(r)], planes'[r], f, Right(r))
  <2>1. Right(r) \in Ranks
    BY Ring
  <2>2. /\ todo[r] = t /\ todo[Right(r)] = t /\ todo'[r] = v /\ todo'[Right(r)] = v
    BY <2>1 DEF Together
  <2>3. planes[r] = <<>>
   <3>1. Match(t, t, planes[r], mem[r].force, Right(r))
     BY <2>2 DEF PlanesMatch
   <3> QED  BY <1>1, <1>2, <3>1, NoSender
  <2>4. planes'[r] = <<>>
    BY <1>1, <2>3 DEF Other
  <2> QED  BY <1>3, <2>2, <2>4 DEF Match
 <1>5. ASSUME NEW r \in Ranks
       PROVE  Match(todo'[r], todo'[Right(r)], planes'[r], mem'[r].force, Right(r))
   BY <1>4
 <1> QED  BY <1>1, <1>5 DEF PlanesMatch, Match, ToSend, Exchanging, ForceAhead, Sends

(* A walk is not begun in a collective.                                    *)
LEMMA WalkMeets ==
    ASSUME PipelineTypes, NEW t, NEW v, NEW n, Together(t, v, n)
    PROVE  WalkHolds'
 <1>1. /\ Ranks' = Ranks
       /\ t # <<>> /\ Planned(t) /\ Rooted(t) /\ Head(t) \notin Locals
   BY SameSetup DEF Together
 <1>2. v # <<>> => Head(v) # "walk"
  <2>1. CASE Failed
    BY <2>1 DEF Together, Locals
  <2>2. CASE ~ Failed
   <3>1. v = Tail(t)
     BY <2>2 DEF Together
   <3>2. Head(t) # "tree"
     BY <1>1 DEF Locals
   <3> QED  BY <1>1, <3>1, <3>2, Leaving
  <2> QED  BY <2>1, <2>2
 <1>3. \A r \in Ranks : StepOf(r)' # "walk"
   BY <1>2 DEF Together, StepOf
 <1> QED  BY <1>1, <1>3 DEF WalkHolds
(* A force is published whole, and by the collective of the callback only. *)
LEMMA ValidMeets ==
    ASSUME PipelineTypes, ForceTypes, Contents, ValidHolds,
           NEW t, NEW v, NEW n, Together(t, v, n), Meeting
    PROVE  ValidHolds'
 <1>1. /\ Other /\ MeetAt(Head(t)) /\ setup' = setup /\ solve' = solve /\ Ranks' = Ranks
       /\ t # <<>> /\ Planned(t) /\ Rooted(t) /\ Planned(v) /\ Rooted(v)
       /\ Due(v) \subseteq Due(Tail(t)) /\ "prepare" \notin Due(v)
   BY MeetingIs, SameSetup DEF Together
 <1>2. /\ Fits(Head(t), Tail(t)) /\ "prepare" \notin Due(Tail(t))
       /\ Due(t) = Due(Tail(t)) \union ({Head(t)} \intersect Milestones)
       /\ ("prepare" \in Due(t) <=> Head(t) = "prepare")
       /\ v # <<>> => ("prepare" \in Due(v) <=> Head(v) = "prepare")
   BY <1>1, Leaving
 <1>3. \A r \in Ranks : ~ (waiting'[r] /\ Head(todo'[r]) = "prepare")
   BY <1>1, <1>2 DEF Together
 <1>4. \A r \in Ranks : Due(Ahead(r)') \subseteq Due(v) /\ todo'[r] = v /\ acc'[r] = acc[r]
   BY <1>1 DEF Together, Other
 <1>5. CASE valid' = valid /\ prepared' = prepared
  <2>1. ASSUME NEW r \in Ranks, valid'[r]
        PROVE  Worth(acc'[r], solve'[r]) /\ Settled(Ahead(r)')
   <3>1. Worth(acc[r], solve[r]) /\ Settled(Ahead(r))
     BY <1>5, <2>1, ValidHoldsIs
   <3>2. Ahead(r) = IF Head(t) \notin JointSteps THEN Tail(t) ELSE t
     BY DEF Together
   <3>3. /\ "prepare" \notin Due(Ahead(r)) /\ Due(Ahead(r)') \subseteq Due(Ahead(r))
     BY <1>1, <1>2, <1>4, <3>2 DEF JointSteps
   <3> QED  BY <1>1, <1>4, <3>1, <3>3, SettledAlong
  <2>2. ASSUME NEW r \in Ranks, prepared'[r] # 0, NEW q \in Ranks
        PROVE  Worth(acc'[q], prepared'[r]) /\ Settled(todo'[q])
   <3>1. Worth(acc[q], prepared[r]) /\ Settled(todo[q])
     BY <1>5, <2>2, ValidHoldsIs
   <3>2. todo[q] = t /\ todo[r] = t /\ waiting[r]
     BY DEF Together
   <3>3. Head(t) # "prepare"
     BY <1>5, <2>2, <3>2, ValidHoldsIs
   <3>4. Settled(v)
     BY <1>1, <1>2, <3>1, <3>2, <3>3, SettledAlong
   <3> QED  BY <1>4, <1>5, <3>1, <3>4
  <2> QED  BY <1>1, <1>3, <2>1, <2>2, ValidHoldsNext
 <1>6. CASE ~ Failed /\ Head(t) = "callback" /\ Publish
  <2>1. v = <<>> /\ Tail(t) = <<>> /\ Due(<<>>) = {}
    BY <1>2, <1>6, NothingIsPlanned DEF Together, Fits
  <2>2. Due(t) = {"callback"}
    BY <1>2, <1>6, <2>1 DEF Milestones
  <2>3. \A s : Due(s) = {} => Settled(s)
    BY DEF Settled
  <2>4. ASSUME NEW q \in Ranks
        PROVE  Worth(acc[q], n) /\ solve[q] = n
   <3>1. ~ error[q] /\ Ahead(q) = t /\ solve[q] = n
     BY <1>6 DEF Together, Failed, JointSteps
   <3>2. AccHolds(t, acc[q], n)
     BY <3>1 DEF Contents
   <3>3. Has(acc[q], Terms(n, IF Tree THEN 4 ELSE 3))
     BY <2>2, <3>2 DEF AccHolds
   <3> QED  BY <3>1, <3>3 DEF Worth
  <2>5. \A r \in Ranks : Worth(acc'[r], solve'[r]) /\ Settled(Ahead(r)')
    BY <1>1, <1>4, <2>1, <2>3, <2>4
  <2>6. \A r \in Ranks : prepared'[r] = n
    BY <1>6, <2>4 DEF Publish
  <2>7. \A r \in Ranks : \A q \in Ranks : Worth(acc'[q], prepared'[r]) /\ Settled(todo'[q])
    BY <1>4, <2>1, <2>3, <2>4, <2>6
  <2> QED  BY <1>1, <1>3, <2>5, <2>7, ValidHoldsNext
 <1> QED  BY <1>1, <1>5, <1>6 DEF MeetAt

(* The exchange of requests tells every owner what is asked of it.         *)
LEMMA AskedMeets ==
    ASSUME PipelineTypes, ForceTypes, Contents, AskedFor,
           NEW t, NEW v, NEW n, Together(t, v, n), Meeting
    PROVE  AskedFor'
 <1>1. /\ MeetAt(Head(t)) /\ setup' = setup /\ Ranks' = Ranks
       /\ t # <<>> /\ Planned(t) /\ Rooted(t)
   BY MeetingIs, SameSetup DEF Together
 <1>2. \A p : OwnerOf(p)' = OwnerOf(p)
   BY <1>1 DEF OwnerOf, Block, Size
 <1>3. Fits(Head(t), Tail(t)) /\ Due(t) = Due(Tail(t)) \union ({Head(t)} \intersect Milestones)
   BY <1>1, Leaving
 <1>4. "asked" \in Fields /\ "needs" \in Fields
   BY FieldNames
 <1>5. ASSUME NEW q \in Ranks, ~ error'[q], Needed(Ahead(q)'), Head(Ahead(q)') \in Answering,
              NEW p \in mem'[q].needs
       PROVE  <<q, p>> \in mem'[OwnerOf(p)].asked
  <2>1. Ahead(q)' = v /\ Due(<<>>) = {}
    BY <1>5, NothingIsPlanned DEF Together
  <2>2. v # <<>>
    BY <1>5, <2>1 DEF Needed
  <2>3. ~ Failed /\ v = Tail(t) /\ ~ error[q]
    BY <1>5, <2>2 DEF Together, Failed
  <2>4. Needed(v) /\ Head(v) \in Leads(Head(t)) /\ Head(v) \in Answering
    BY <1>3, <1>5, <2>1, <2>3 DEF Fits
  <2>5. Head(t) = "halo_planes" \/ Head(t) = "halo_response"
    BY <2>4, AnsweringNames
  <2>6. CASE Head(t) = "halo_response"
   <3>1. mem' = mem /\ Ahead(q) = v
     BY <1>1, <2>3, <2>6 DEF MeetAt, JointSteps, Together
   <3>2. <<q, p>> \in mem[OwnerOf(p)].asked
     BY <1>5, <2>3, <2>4, <3>1 DEF AskedFor
   <3> QED  BY <3>1, <3>2
  <2>7. CASE Head(t) = "halo_planes"
   <3>1. ExchangeRequests /\ Ahead(q) = t /\ solve[q] = n
     BY <1>1, <2>3, <2>7 DEF MeetAt, JointSteps, Together
   <3>2. Needed(t)
     BY <1>3, <2>3, <2>4 DEF Needed
   <3> DEFINE G == "axis_gather" \in Due(t)
              g == Gathers(t)
   <3>3. MeshAt("halo_planes", G, g, mem[q], n, q)
     BY <2>3, <2>7, <3>1, <3>2 DEF Contents, MeshHolds
   <3>4. G \in BOOLEAN /\ "halo_planes" \in Asking
     BY DEF Asking
   <3> HIDE DEF G, g
   <3>5. mem[q].needs \subseteq 0 .. Mesh - 1
     BY <3>3, <3>4, MeshReads DEF Asked
   <3>6. mem'[q].needs = mem[q].needs
    <4>1. Leaves(q, {"asked"})
      BY <3>1, MeetingWrites
    <4> QED  BY <1>4, <4>1 DEF Leaves
   <3>7. p \in 0 .. Mesh - 1 /\ p \in mem[q].needs
     BY <1>5, <3>5, <3>6
   <3> DEFINE o == OwnerOf(p)
   <3>8. o \in Ranks
     BY <3>7, OwnerIsRank
   <3>9. mem'[o].asked = {ask \in Ranks \X (0 .. Mesh - 1) :
                                    /\ ask[2] \in mem[ask[1]].needs
                                    /\ OwnerOf(ask[2]) = o}
    <4> HIDE DEF o
    <4> QED  BY <3>1, <3>8, MeetingWrites
   <3> QED  BY <3>7, <3>9
  <2> QED  BY <2>5, <2>6, <2>7
 <1>6. \A q \in Ranks : (~ error'[q] /\ Needed(Ahead(q)') /\ Head(Ahead(q)') \in Answering) =>
           \A p \in mem'[q].needs : <<q, p>> \in (mem[OwnerOf(p)].asked)'
  <2>1. \A p : (mem[OwnerOf(p)].asked)' = mem'[OwnerOf(p)].asked
    BY <1>2
  <2> QED  BY <1>5, <2>1
 <1> QED  BY <1>1, <1>6 DEF AskedFor
(* What a collective makes of the mesh, all ranks' of it being alike.      *)
LEMMA Transforms ==
    ASSUME PipelineTypes, NEW field, NEW from, NEW to, NEW c, Is(c, from),
           \A q \in Ranks : mem[q][field] = c
    PROVE  Transformed(field, from, to) = As(c, to)
  BY RankZero DEF Transformed

LEMMA MeshMeets ==
    ASSUME PipelineTypes, ForceTypes, NEW h, h \in JointSteps \intersect Region, ~ Failed, MeetAt(h),
           NEW n, NEW G \in BOOLEAN, NEW g \in Nat,
           \A r \in Ranks : MeshAt(h, G, g, mem[r], n, r),
           NEW q \in Ranks,
           h = "halo_values" => \A p \in mem[q].needs : <<q, p>> \in mem[OwnerOf(p)].asked,
           NEW h2 \in Leads(h)
    PROVE  MeshAt(h2, G, g, mem'[q], n, q)
 <1>1. /\ {"density", "phi", "modes", "force", "axis", "right"} \subseteq Fields
       /\ {"halo", "needs", "reply"} \subseteq Fields
   BY FieldNames
 <1>2. h \in {"forward", "inverse", "axis_inverse", "halo_planes", "halo_values"}
   BY DEF JointSteps, Region, Raw, Massed, Forced, Between, Known, Asking, Answering, Answered
 <1>3. CASE h = "forward"
  <2>1. ForwardTransform /\ h2 = "modes_finite"
    BY <1>3, LeadsAre DEF MeetAt, JointSteps
  <2>2. \A r \in Ranks : mem[r].density = <<"mass", "source", n>> /\ On(G, g, mem[r], 3)
    BY <1>3, MeshReads
  <2>3. Is(<<"mass", "source", n>>, "source")
        /\ As(<<"mass", "source", n>>, "phi") = <<"mass", "phi", n>>
    BY LabelsRead
  <2>4. Transformed("density", "source", "phi") = <<"mass", "phi", n>>
    BY <2>2, <2>3, Transforms
  <2>5. Waved(mem'[q], n)
    BY <2>1, <2>4, MeetingWrites DEF Waved
  <2>6. mem'[q].axis = mem[q].axis
   <3>1. Leaves(q, {"phi", "density", "ready"})
     BY <2>1, MeetingWrites
   <3> QED  BY <1>1, <3>1 DEF Leaves
  <2>7. On(G, g, mem'[q], 3)
    BY <2>2, <2>6 DEF On
  <2> QED  BY <2>1, <2>5, <2>7, MeshReads
 <1>4. CASE h = "inverse"
  <2>1. InverseTransform /\ h2 = "potential_finite"
    BY <1>4, LeadsAre DEF MeetAt, JointSteps
  <2>2. (\A r \in Ranks : mem[r].phi = <<"mass", "phi", n>>) /\ (G => g <= 3)
    BY <1>4, MeshReads DEF Waved
  <2>3. Is(<<"mass", "phi", n>>, "phi")
        /\ As(<<"mass", "phi", n>>, "potential") = <<"mass", "potential", n>>
    BY LabelsRead
  <2>4. Transformed("phi", "phi", "potential") = <<"mass", "potential", n>>
    BY <2>2, <2>3, Transforms
  <2>5. mem'[q].density = Potential(n)
    BY <2>1, <2>4, MeetingWrites DEF Potential
  <2> QED  BY <2>1, <2>2, <2>5, MeshReads
 <1>5. CASE h = "axis_inverse"
  <2>1. AxisTransform /\ h2 = "axis_prepared"
    BY <1>5, LeadsAre DEF MeetAt, JointSteps
  <2>2. \A r \in Ranks : /\ Waved(mem[r], n) /\ On(G, g, mem[r], 4)
                         /\ G => mem[r].modes = <<"mass", "axis", n, 4 - g>>
    BY <1>5, MeshReads
  <2>3. mem'[q].axis = mem[q].axis /\ mem'[q].phi = mem[q].phi
   <3>1. Leaves(q, {"force", "modes", "density", "ready"})
     BY <2>1, MeetingWrites
   <3> QED  BY <1>1, <3>1 DEF Leaves
  <2>4. Pulled(G, g, mem'[q], n)
   <3> SUFFICES ASSUME G  PROVE mem'[q].force = <<"mass", "force", n, 4 - g>>
     BY DEF Pulled
   <3> DEFINE k == 4 - g
   <3>1. \A r \in Ranks : mem[r].modes = <<"mass", "axis", n, k>>
     BY <2>2
   <3> HIDE DEF k
   <3>2. Is(<<"mass", "axis", n, k>>, "axis")
     BY LabelsRead
   <3>3. As(<<"mass", "axis", n, k>>, "force") = <<"mass", "force", n, k>>
     BY LabelsRead
   <3>4. Transformed("modes", "axis", "force") = <<"mass", "force", n, k>>
     BY <3>1, <3>2, <3>3, Transforms
   <3>5. mem'[q].force = <<"mass", "force", n, k>>
     BY <2>1, <3>4, MeetingWrites
   <3> QED  BY <3>5 DEF k
  <2>5. Waved(mem'[q], n) /\ On(G, g, mem'[q], 4)
    BY <2>2, <2>3 DEF Waved, On
  <2>6. "axis_prepared" \in Forced \ {"axis_gather"}
    BY DEF Forced
  <2> QED  BY <2>1, <2>4, <2>5, <2>6, MeshReads
 <1>6. CASE h = "halo_planes"
  <2>1. ExchangeRequests /\ h2 = "halo_response" /\ h \in Asking
    BY <1>6, LeadsAre DEF MeetAt, JointSteps, Asking
  <2>2. /\ mem[q].density = Potential(n) /\ (G => g <= 3) /\ Haloed(mem[q], n) /\ Asked(mem[q])
    BY <2>1, MeshReads
  <2>3. /\ mem'[q].density = mem[q].density /\ mem'[q].halo = mem[q].halo
        /\ mem'[q].needs = mem[q].needs
   <3>1. Leaves(q, {"asked"})
     BY <2>1, MeetingWrites
   <3> QED  BY <1>1, <3>1 DEF Leaves
  <2>4. Haloed(mem'[q], n) /\ Asked(mem'[q])
    BY <2>2, <2>3 DEF Haloed, Asked
  <2> QED  BY <2>1, <2>2, <2>3, <2>4, MeshReads
 <1>7. CASE h = "halo_values"
  <2>1. ExchangeValues /\ h2 = "halo_unpack"
    BY <1>7, LeadsAre DEF MeetAt, JointSteps
  <2>2. \A r \in Ranks : /\ mem[r].density = Potential(n) /\ (G => g <= 3)
                         /\ Haloed(mem[r], n) /\ Asked(mem[r]) /\ mem[r].reply = Potential(n)
    BY <1>7, MeshReads
  <2>3. mem'[q].density = mem[q].density
   <3>1. Leaves(q, {"halo"})
     BY <2>1, MeetingWrites
   <3> QED  BY <1>1, <3>1 DEF Leaves
  <2>4. ASSUME NEW p \in mem[q].needs
        PROVE  Reply(q, p) = Potential(n)
   <3>1. p \in 0 .. Mesh - 1
     BY <2>2 DEF Asked
   <3>2. OwnerOf(p) \in Ranks
     BY <3>1, OwnerIsRank
   <3> QED  BY <1>7, <2>2, <3>2 DEF Reply
  <2>5. mem'[q].halo = Over([p \in mem[q].needs |-> Reply(q, p)], mem[q].halo)
    BY <2>1, MeetingWrites
  <2>6. Haloed(mem'[q], n)
   <3> SUFFICES ASSUME Size # 1, NEW p \in DOMAIN mem'[q].halo
                PROVE  mem'[q].halo[p] = Potential(n)
     BY DEF Haloed
   <3> DEFINE b == [x \in mem[q].needs |-> Reply(q, x)]
              m == mem[q].halo
   <3>1. \A x \in DOMAIN b : b[x] = Potential(n)
     BY <2>4
   <3>2. \A x \in DOMAIN m : m[x] = Potential(n)
     BY <2>2 DEF Haloed
   <3>3. mem'[q].halo = Over(b, m)
     BY <2>5
   <3> HIDE DEF b, m
   <3> QED  BY <3>1, <3>2, <3>3 DEF Over
  <2> QED  BY <2>1, <2>2, <2>3, <2>6, MeshReads
 <1> QED  BY <1>2, <1>3, <1>4, <1>5, <1>6, <1>7
LEMMA ContentsMeet ==
    ASSUME PipelineTypes, ForceTypes, Contents, AskedFor,
           NEW t, NEW v, NEW n, Together(t, v, n), Meeting
    PROVE  Contents'
 <1> DEFINE h == Head(t)
            u == Tail(t)
 <1>1. /\ Other /\ MeetAt(h) /\ setup' = setup /\ solve' = solve
       /\ t # <<>> /\ Planned(t) /\ Rooted(t)
   BY MeetingIs DEF Together
 <1>2. /\ t \in Seq(Steps) /\ u \in Seq(Steps) /\ Fits(h, u)
       /\ Due(t) = Due(u) \union ({h} \intersect Milestones)
   BY <1>1, Leaving
 <1>3. ASSUME NEW q \in Ranks
       PROVE  /\ solve'[q] = n /\ acc'[q] = acc[q] /\ solve[q] = n
              /\ ~ error'[q] => Ahead(q)' = v
              /\ ~ error'[q] /\ Failed => v = <<>>
              /\ ~ Failed => v = u /\ ~ error[q]
              /\ Ahead(q) = IF h \notin JointSteps THEN u ELSE t
   BY <1>1 DEF Together, Other, Failed
 <1> HIDE DEF h, u
 <1>4. ASSUME NEW q \in Ranks, ~ Failed, h \notin JointSteps
       PROVE  ContentAt(u, mem'[q], acc[q], n, q)
  <2>1. mem' = mem
    BY <1>1, <1>4 DEF MeetAt, JointSteps
  <2>2. ContentAt(u, mem[q], acc[q], n, q)
    BY <1>3, <1>4 DEF Contents, ContentAt
  <2> QED  BY <2>1, <2>2
 <1>5. ASSUME NEW q \in Ranks, ~ Failed, h \in JointSteps
       PROVE  ContentAt(u, mem'[q], acc[q], n, q)
  <2>1. CASE h = "callback"
   <3>1. u = <<>>
     BY <1>2, <2>1 DEF Fits
   <3> QED  BY <3>1, FreshAsksNothing
  <2>2. CASE h # "callback"
   <3>1. h \notin Milestones /\ h # "axis_gather" /\ h # "walk" /\ Due(u) = Due(t)
     BY <1>2, <1>5, <2>2 DEF JointSteps, Milestones
   <3>2. Gathers(u) = Gathers(t) /\ Gathers(t) \in Nat
    <4>1. /\ t # <<>> => Gathers(t) = Gathers(Tail(t))
                            + (IF Head(t) = "axis_gather" THEN 1 ELSE 0)
          /\ Gathers(t) \in Nat
      BY <1>2, GathersOf
    <4>2. Gathers(u) \in Nat
      BY <1>2, GathersOf
    <4>3. Gathers(t) = Gathers(u) + 0
      BY <1>1, <3>1, <4>1 DEF h, u
    <4> QED  BY <4>1, <4>2, <4>3
   <3>3. \A r \in Ranks : ContentAt(t, mem[r], acc[r], n, r)
     BY <1>3, <1>5 DEF Contents, ContentAt
   <3>4. mem'[q].built = mem[q].built
    <4>1. "built" \in Fields
      BY FieldNames
    <4>2. \E W : "built" \notin W /\ Leaves(q, W)
     <5>1. \/ mem' = mem \/ ForwardTransform \/ InverseTransform \/ AxisTransform
           \/ ExchangeRequests \/ ExchangeValues \/ LagKernel
       BY <1>1 DEF MeetAt, Publish
     <5>2. \/ Leaves(q, {}) \/ Leaves(q, {"phi", "density", "ready"})
           \/ Leaves(q, {"density", "ready"}) \/ Leaves(q, {"force", "modes", "density", "ready"})
           \/ Leaves(q, {"asked"}) \/ Leaves(q, {"halo"}) \/ Leaves(q, {"kernel", "lags"})
       BY <5>1, MeetingWrites
     <5> HIDE DEF Leaves
     <5> QED  BY <5>2
    <4> QED  BY <4>1, <4>2 DEF Leaves
   <3>5. BuiltHolds(u, mem'[q], n)
    <4>1. BuiltHolds(t, mem[q], n)
      BY <3>3 DEF ContentAt
    <4> QED  BY <3>1, <3>4, <4>1 DEF BuiltHolds
   <3>6. AccHolds(u, acc[q], n)
    <4>1. AccHolds(t, acc[q], n) /\ Head(t) # "walk"
      BY <3>1, <3>3 DEF ContentAt, h
    <4> QED  BY <3>1, <3>2, <4>1 DEF AccHolds
   <3>7. MeshHolds(u, mem'[q], n, q)
    <4> SUFFICES ASSUME Needed(u)
                 PROVE  MeshAt(Head(u), "axis_gather" \in Due(u), Gathers(u), mem'[q], n, q)
      BY DEF MeshHolds
    <4> DEFINE G == "axis_gather" \in Due(u)
               g == Gathers(u)
    <4>1. G \in BOOLEAN /\ g \in Nat /\ Head(u) \in Leads(h)
      BY <1>2, <3>2 DEF Fits
    <4>2. Needed(t)
      BY <3>1 DEF Needed
    <4>3. \A r \in Ranks : MeshAt(h, G, g, mem[r], n, r)
      BY <3>1, <3>2, <3>3, <4>2 DEF ContentAt, MeshHolds, h
    <4>4. h = "halo_values" => \A p \in mem[q].needs : <<q, p>> \in mem[OwnerOf(p)].asked
     <5>1. ~ error[q] /\ Ahead(q) = t
       BY <1>3, <1>5
     <5> QED  BY <4>2, <5>1 DEF AskedFor, h, Answering
    <4> HIDE DEF G, g
    <4>5. CASE h \in Region
     <5>1. MeshAt(Head(u), G, g, mem'[q], n, q)
       BY <1>1, <1>5, <4>1, <4>3, <4>4, <4>5, MeshMeets
     <5> QED  BY <5>1 DEF G, g
    <4>6. CASE h \notin Region
     <5>1. h \notin (Region \ {"gradient"}) \union {"deposit"}
       BY <1>5, <4>6 DEF JointSteps
     <5>2. Head(u) \notin Region
       BY <4>1, <5>1, LeadsAre
     <5>3. MeshAt(Head(u), G, g, mem'[q], n, q)
       BY <4>1, <5>2, MeshReads
     <5> QED  BY <5>3 DEF G, g
    <4> QED  BY <4>5, <4>6
   <3> QED  BY <3>5, <3>6, <3>7 DEF ContentAt
  <2> QED  BY <2>1, <2>2
 <1>6. ASSUME NEW q \in Ranks, ~ error'[q]
       PROVE  ContentAt(Ahead(q)', mem'[q], acc'[q], solve'[q], q)
  <2>1. CASE Failed
    BY <1>3, <1>6, <2>1, FreshAsksNothing
  <2>2. CASE ~ Failed
    BY <1>3, <1>4, <1>5, <1>6, <2>2
  <2> QED  BY <2>1, <2>2
 <1> QED  BY <1>1, <1>6, ContentsNext

(* A collective of all ranks keeps everything.                             *)
LEMMA MeetingKeeps ==
    ASSUME PipelineInv, ForceInv, Meeting
    PROVE  ForceInv'
 <1>1. PipelineTypes /\ ForceTypes /\ Courses
   BY DEF ForceInv, Courses, PipelineInv
 <1>2. PICK t, v, n : Together(t, v, n)
   BY <1>1, MeetingsMeet, MeetsAlike
 <1>3. ForceTypes' /\ Courses'
   BY <1>1, <1>2, TypesMeet, CoursesMeet
 <1>4. Alike' /\ PlanesMatch' /\ WalkHolds'
   BY <1>1, <1>2, AlikeMeets, PlanesMeet, WalkMeets DEF ForceInv
 <1>5. Contents' /\ AskedFor' /\ ValidHolds'
   BY <1>1, <1>2, ContentsMeet, AskedMeets, ValidMeets DEF ForceInv
 <1> QED  BY <1>3, <1>4, <1>5 DEF ForceInv, Courses

LEMMA StartsEmpty ==
    ASSUME Init
    PROVE  ForceInv
 <1>1. PipelineInv /\ PipelineTypes
   BY StartsTogether DEF PipelineInv
 <1>2. /\ \A r \in Ranks : /\ todo[r] = <<>> /\ ~ waiting[r] /\ ~ error[r] /\ solve[r] = 0
                           /\ mem[r] = EmptyMemory /\ planes[r] = <<>> /\ valid[r] = FALSE
                           /\ prepared[r] = 0 /\ calls[r] = setup.calls
   BY DEF Init
 <1>3. \A r \in Ranks : Ahead(r) = <<>> /\ StepOf(r) = "nothing"
   BY <1>2 DEF Ahead, StepOf
 <1>4. ForceTypes
  <2> HIDE DEF EmptyMemory
  <2>1. /\ solve \in [Ranks -> Nat] /\ prepared \in [Ranks -> Nat]
        /\ valid \in [Ranks -> BOOLEAN] /\ flag \in [Ranks -> BOOLEAN]
        /\ DOMAIN acc = Ranks /\ DOMAIN planes = Ranks /\ DOMAIN chunk = Ranks
        /\ DOMAIN place = Ranks
    BY DEF Init
  <2>2. \A r \in Ranks : DOMAIN acc[r] = 1 .. Owned[r]
    BY DEF Init
  <2> QED  BY <1>2, <2>1, <2>2 DEF ForceTypes, Fields
 <1>5. Calm /\ ListsPlanned
  <2>1. Planned(<<>>) /\ Rooted(<<>>)
    BY NothingIsPlanned DEF Rooted
  <2> QED  BY <1>2, <2>1 DEF Calm, ListsPlanned
 <1>6. Numbered
  <2>1. \A r \in Ranks : Made(r) = 0
   <3>1. Len(setup.calls) \in Nat
     BY <1>1, RankZero
   <3> QED  BY <1>2, <3>1 DEF Made
  <2>2. Solves(0) = 0
   <3>1. {j \in 1 .. 0 : setup.calls[j] = "solve"} = {}
     OBVIOUS
   <3> QED  BY <3>1, FS_EmptySet DEF Solves
  <2>3. "prepare" \notin Due(<<>>)
    BY NothingIsPlanned
  <2> QED  BY <1>2, <1>3, <2>1, <2>2, <2>3 DEF Numbered
 <1>7. Alike
   BY <1>2 DEF Alike
 <1>8. PlanesMatch
  <2>1. ASSUME NEW r \in Ranks
        PROVE  Match(todo[r], todo[Right(r)], planes[r], mem[r].force, Right(r))
   <3>1. Right(r) \in Ranks
     BY <1>1, Ring
   <3>2. todo[r] = <<>> /\ todo[Right(r)] = <<>> /\ planes[r] = <<>>
     BY <1>2, <3>1
   <3> QED  BY <3>2 DEF Match, ToSend, Exchanging
  <2> QED  BY <2>1 DEF PlanesMatch
 <1>9. Contents
  <2>1. ASSUME NEW r \in Ranks
        PROVE  ContentAt(Ahead(r), mem[r], acc[r], solve[r], r)
    BY <1>3, FreshAsksNothing
  <2> QED  BY <2>1 DEF Contents, ContentAt
 <1>10. AskedFor
  <2>1. ~ Needed(<<>>)
    BY NothingIsPlanned DEF Needed
  <2> QED  BY <1>3, <2>1 DEF AskedFor
 <1>11. WalkHolds
   BY <1>3 DEF WalkHolds
 <1>12. ValidHolds
   BY <1>2 DEF ValidHolds
 <1> QED  BY <1>4, <1>5, <1>6, <1>7, <1>8, <1>9, <1>10, <1>11, <1>12 DEF ForceInv

LEMMA NothingDone ==
    ASSUME ForceInv, UNCHANGED vars
    PROVE  ForceInv'
 <1>1. setup' = setup
   BY DEF vars
 <1>2. /\ Ranks' = Ranks /\ (\A s : Planned(s)' <=> Planned(s))
       /\ (\A n : Solves(n)' = Solves(n)) /\ (\A q : Right(q)' = Right(q))
   BY <1>1, SameSetup
 <1>3. \A q \in Ranks : Ahead(q)' = Ahead(q) /\ Made(q)' = Made(q) /\ StepOf(q)' = StepOf(q)
   BY DEF vars, Ahead, Made, StepOf
 <1>4. ForceTypes'
  <2> HIDE DEF Fields
  <2>1. Fields' = Fields
    BY DEF Fields, EmptyMemory, Torn
  <2> QED  BY <1>2, <2>1 DEF vars, ForceInv, ForceTypes
 <1>5. Calm' /\ ListsPlanned' /\ Numbered' /\ Alike'
  <2>1. Calm' /\ Alike'
    BY <1>2 DEF vars, ForceInv, Calm, Alike
  <2>2. \A q \in Ranks : Planned(todo'[q]) /\ Rooted(todo'[q])
    BY DEF vars, ForceInv, ListsPlanned
  <2>3. ListsPlanned'
    BY <1>2, <2>2 DEF ListsPlanned
  <2>4. ASSUME NEW q \in Ranks
        PROVE  solve'[q] + (IF "prepare" \in Due(Ahead(q)') THEN 1 ELSE 0) = (Solves(Made(q)))'
   <3>1. solve[q] + (IF "prepare" \in Due(Ahead(q)) THEN 1 ELSE 0) = Solves(Made(q))
     BY DEF ForceInv, Numbered
   <3> QED  BY <1>2, <1>3, <3>1 DEF vars
  <2>5. Numbered'
    BY <1>2, <2>4 DEF Numbered
  <2> QED  BY <2>1, <2>3, <2>5
 <1>6. PlanesMatch'
  <2>1. \A q \in Ranks :
           Match(todo'[q], todo'[Right(q)], planes'[q], mem'[q].force, Right(q))
    BY DEF vars, ForceInv, PlanesMatch
  <2> QED  BY <1>2, <2>1 DEF PlanesMatch
 <1>7. Contents'
  <2>1. \A q \in Ranks : ~ error[q] => ContentAt(Ahead(q), mem[q], acc[q], solve[q], q)
    BY DEF ForceInv, Contents, ContentAt
  <2>2. \A q \in Ranks :
           ~ error'[q] => ContentAt(Ahead(q)', mem'[q], acc'[q], solve'[q], q)
    BY <1>3, <2>1 DEF vars
  <2> QED  BY <1>1, <2>2, ContentsNext
 <1>8. AskedFor'
  <2>1. \A p : OwnerOf(p)' = OwnerOf(p)
    BY <1>1 DEF OwnerOf, Block, Size
  <2>2. \A q \in Ranks : (~ error'[q] /\ Needed(Ahead(q)') /\ Head(Ahead(q)') \in Answering) =>
           \A p \in mem'[q].needs : <<q, p>> \in mem'[OwnerOf(p)].asked
    BY <1>3 DEF vars, ForceInv, AskedFor
  <2>3. \A p : (mem[OwnerOf(p)].asked)' = mem'[OwnerOf(p)].asked
    BY <2>1
  <2>4. \A q \in Ranks : (~ error'[q] /\ Needed(Ahead(q)') /\ Head(Ahead(q)') \in Answering) =>
           \A p \in mem'[q].needs : <<q, p>> \in (mem[OwnerOf(p)].asked)'
    BY <2>2, <2>3
  <2> QED  BY <1>2, <2>4 DEF AskedFor
 <1>9. WalkHolds'
  <2>1. \A q \in Ranks : StepOf(q)' = "walk" =>
           WalkAt(q, chunk'[q], place'[q], flag'[q], acc'[q], solve'[q])
    BY <1>3 DEF vars, ForceInv, WalkHolds
  <2> QED  BY <1>2, <2>1 DEF WalkHolds
 <1>10. ValidHolds'
  <2>1. /\ \A q \in Ranks : valid'[q] => Worth(acc'[q], solve'[q]) /\ Settled(Ahead(q)')
        /\ \A q \in Ranks : prepared'[q] # 0 =>
              \A p \in Ranks : Worth(acc'[p], prepared'[q]) /\ Settled(todo'[p])
        /\ \A q \in Ranks : waiting'[q] /\ Head(todo'[q]) = "prepare" => prepared'[q] = 0
    BY <1>3, ValidHoldsIs DEF vars, ForceInv
  <2> QED  BY <1>1, <2>1, ValidHoldsNext
 <1> QED  BY <1>4, <1>5, <1>6, <1>7, <1>8, <1>9, <1>10 DEF ForceInv

(* An acceleration marked valid is the whole force of this solve, each     *)
(* term once, and a force is published for a scale factor only when the    *)
(* particles of every rank have it: if nothing is thrown outside a stage,  *)
(* with any number of ranks, planes, particles, threads, chunks, calls and *)
(* failures.                                                               *)
THEOREM PublishedForceIsComplete ==
    ASSUME Unprotected = {}
    PROVE  Spec => []ValidForceIsComplete
 <1>1. Init => PipelineInv /\ ForceInv
   BY StartsTogether, StartsEmpty
 <1>2. PipelineInv /\ ForceInv /\ [Next]_vars => PipelineInv' /\ ForceInv'
  <2> SUFFICES ASSUME PipelineInv, ForceInv, [Next]_vars
               PROVE  PipelineInv' /\ ForceInv'
    OBVIOUS
  <2>1. PipelineInv'
    BY StepsKeepTogether
  <2>2. ForceInv'
    BY RankStepKeeps, MeetingKeeps, NothingDone DEF Next, Done
  <2> QED  BY <2>1, <2>2
 <1>3. ForceInv => ValidForceIsComplete
   BY DEF ForceInv, ValidHolds, ValidForceIsComplete
 <1> QED  BY <1>1, <1>2, <1>3, PTL DEF Spec

-----------------------------------------------------------------------------
(* The potential of a solve, from the force to the sum over it: the steps  *)
(* in between, and the ones of the impulse whose kernel is made behind it, *)
(* in the same memory.                                                     *)
Potentials == {"measure_input", "potential_finite", "send_potential_plane", "receive_plane",
               "weighted_sum"}
Torrent == {"spill_mass", "send_spill", "receive_spill", "spilled_mass"}

KernelLeads(h) ==
    CASE h = "impulse" -> IF Size = 1 THEN {"impulse_conserved"} ELSE {"spill_mass"}
      [] h = "spill_mass" -> {"send_spill"}
      [] h = "send_spill" -> {"receive_spill"}
      [] h = "receive_spill" -> {"spilled_mass"}
      [] h = "spilled_mass" -> {"impulse_conserved"}
      [] h = "impulse_conserved" -> {"normalize"}
      [] h = "normalize" -> {"source"}
      [] h = "source" -> {"forward"}
      [] h = "forward" -> {"inverse"}
      [] h = "inverse" -> {"potential_finite"}
      [] h = "potential_finite" -> {"lag_kernel"}
      [] OTHER -> {"rank_sum", "origin", "impulse"}

(* What is still to come, of the steps that make an energy.                *)
Sum(steps) == "weighted_sum" \in ToSet(steps)
Lags(steps) == "lag_kernel" \in ToSet(steps)
Self(steps) == "self_energy" \in ToSet(steps)
Forcing(steps) == ~ Tree /\ "callback" \in Due(steps) /\ ~ Needed(steps)

(* A step h before the steps u of a call.                                  *)
Sums(h, u) ==
    /\ Sum(u) /\ ~ Needed(u) =>
         \/ h = "axis_gather" /\ Head(u) = "axis_finite"
         \/ h = "axis_finite" /\ Head(u) = "inverse"
         \/ h \in {"inverse", "measure"} \union Potentials /\ Head(u) \in Potentials
    /\ u # <<>> /\ Head(u) = "weighted_sum" /\ Size # 1 => h = "receive_plane"
    /\ h \in {"weighted_sum", "lag_kernel"} => ~ Sum(u) /\ ~ Needed(u)
    /\ h = "self_energy" => ~ Lags(u)
    /\ Lags(u) /\ ~ Sum(u) => Head(u) \in KernelLeads(h)
    /\ Forcing(u) => h \in {"gradient", "commit_check", "commit", "balance", "callback"}

Summed(steps) == /\ steps \in Seq(Steps)
                 /\ \A i \in 1 .. Len(steps) : Sums(steps[i], Rear(steps, i))

(* What the impulse's buffers hold before step h.                          *)
Impulsive(m, n) == m.density = Torn \/ \E x \in {"own", "whole"} : m.density = <<"impulse", x, n>>

ImpulseAt(h, m, n) ==
    /\ h \in Torrent \union {"impulse_conserved"} => Impulsive(m, n)
    /\ h \in Massed => m.density = <<"impulse", IF Size = 1 THEN "own" ELSE "whole", n>>
    /\ h = "forward" => m.density = <<"impulse", "source", n>>
    /\ h = "inverse" => m.phi = <<"impulse", "phi", n>>
    /\ h \in {"potential_finite", "lag_kernel"} => m.density = <<"impulse", "potential", n>>

(* What a rank's memory holds with these steps to come.                    *)
EnergyAt(steps, m, n, r) ==
    /\ Sum(steps) /\ ~ Needed(steps) =>
         IF Head(steps) \in {"axis_finite", "inverse"} THEN m.phi = <<"mass", "phi", n>>
                                                       ELSE m.density = Potential(n)
    /\ steps # <<>> /\ Head(steps) = "weighted_sum" /\ Size # 1
         => m.right = Append(m.density, Right(r))
    /\ Lags(steps) /\ ~ Sum(steps) => ImpulseAt(Head(steps), m, n)
    /\ Forcing(steps) => m.density = Potential(n)
    /\ Self(steps) /\ ~ Lags(steps) => m.kernel

ResultAt(m, n) == m.energy \in {<<>>, Potential(n)} /\ m.self \in {<<>>, <<"impulse">>}

(* A measurement is next, of what the force that returned has left.        *)
Measuring(r) == calls[r] # <<>> /\ Head(calls[r]) = "measure"

EnergyOf(r) ==
    /\ ~ error[r] => Summed(todo[r]) /\ EnergyAt(Ahead(r), mem[r], solve[r], r)
    /\ mem[r].kernel => mem[r].lags = <<"impulse">>
    /\ ended[r] = "returned" \/ (~ error[r] /\ todo[r] # <<>>) => ResultAt(mem[r], solve[r])
    /\ ~ waiting[r] /\ StepOf(r) = "prepare" => mem[r].energy = <<>>
    /\ ended[r] = "returned" => StepOf(r) \in {"nothing", "prepare", "measure"}
    /\ Measuring(r) /\ ended[r] = "returned" /\ todo[r] = <<>>
         => mem[r].density = Potential(solve[r])
    /\ Measuring(r) /\ ~ error[r] /\ todo[r] # <<>> => "callback" \in Due(todo[r])

(* A potential's plane is under way to a rank of the same solve.           *)
PlaneOf(r) == planes[r] # <<>> /\ Exchanging(todo[r]) /\ ~ ForceAhead(todo[r]) =>
                 planes[r] = <<Append(Potential(solve[r]), Right(r))>>

EnergyInv == \A r \in Ranks : EnergyOf(r) /\ PlaneOf(r)

-----------------------------------------------------------------------------
(* Lists that make an energy, from their end.                              *)
LEMMA OfNames ==
    ASSUME NEW steps \in Seq(Steps)
    PROVE  /\ Due(steps) = ToSet(steps) \intersect Milestones
           /\ "callback" \in Due(steps) <=> "callback" \in ToSet(steps)
           /\ Needed(steps) <=> "axis_gather" \in ToSet(steps) \/ "gradient" \in ToSet(steps)
           /\ \A i \in 1 .. Len(steps) : steps[i] \in ToSet(steps)
           /\ steps # <<>> => Head(steps) \in ToSet(steps)
           /\ \A x \in ToSet(steps) : \E i \in 1 .. Len(steps) : steps[i] = x
 <1>1. DOMAIN steps = 1 .. Len(steps)
   OBVIOUS
 <1>2. ToSet(steps) = {steps[i] : i \in 1 .. Len(steps)}
   BY <1>1 DEF ToSet
 <1>3. Due(steps) = ToSet(steps) \intersect Milestones
   BY <1>2 DEF Due
 <1>4. {"callback", "axis_gather", "gradient"} \subseteq Milestones
   BY DEF Milestones
 <1>5. steps # <<>> => Head(steps) = steps[1] /\ 1 \in 1 .. Len(steps)
   OBVIOUS
 <1> QED  BY <1>2, <1>3, <1>4, <1>5 DEF Needed

LEMMA OfBefore ==
    ASSUME NEW b \in Seq(Steps), NEW s \in Steps
    PROVE  ToSet(Onto(s, b)) = {s} \union ToSet(b)
 <1> DEFINE c == <<s>> \o b
 <1>1. /\ c \in Seq(Steps) /\ Len(c) = Len(b) + 1 /\ c[1] = s
       /\ \A i \in 1 .. Len(b) : c[i + 1] = b[i]
   BY Onward
 <1>2. Len(b) \in Nat
   OBVIOUS
 <1> HIDE DEF c
 <1>3. ASSUME NEW x \in ToSet(c)  PROVE x \in {s} \union ToSet(b)
  <2>1. PICK i \in 1 .. Len(c) : c[i] = x
    BY <1>1, <1>3, OfNames
  <2>2. CASE i = 1
    BY <1>1, <2>1, <2>2
  <2>3. CASE i # 1
   <3>1. i - 1 \in 1 .. Len(b) /\ (i - 1) + 1 = i
     BY <1>1, <1>2, <2>3
   <3>2. x = b[i - 1]
     BY <1>1, <2>1, <3>1
   <3> QED  BY <3>1, <3>2, OfNames
  <2> QED  BY <2>2, <2>3
 <1>4. ASSUME NEW x \in {s} \union ToSet(b)  PROVE x \in ToSet(c)
  <2>1. CASE x = s
   <3>1. 1 \in 1 .. Len(c)
     BY <1>1, <1>2
   <3> QED  BY <1>1, <2>1, <3>1, OfNames
  <2>2. CASE x \in ToSet(b)
   <3>1. PICK i \in 1 .. Len(b) : b[i] = x
     BY <2>2, OfNames
   <3>2. i + 1 \in 1 .. Len(c) /\ c[i + 1] = x
     BY <1>1, <1>2, <3>1
   <3> QED  BY <1>1, <3>2, OfNames
  <2> QED  BY <2>1, <2>2
 <1>5. ToSet(c) = {s} \union ToSet(b)
   BY <1>3, <1>4
 <1> QED  BY <1>5 DEF c, Onto

LEMMA SummedBefore ==
    ASSUME NEW b, Summed(b), NEW s \in Steps, Sums(s, b)
    PROVE  /\ Summed(Onto(s, b)) /\ Onto(s, b) # <<>> /\ Head(Onto(s, b)) = s
           /\ ToSet(Onto(s, b)) = {s} \union ToSet(b)
 <1> DEFINE c == Onto(s, b)
 <1>1. b \in Seq(Steps)
   BY DEF Summed
 <1>2. /\ c \in Seq(Steps) /\ c # <<>> /\ Len(c) = Len(b) + 1 /\ Len(b) \in Nat
       /\ Head(c) = s /\ Tail(c) = b /\ c[1] = s
       /\ \A i \in 1 .. Len(b) : c[i + 1] = b[i]
   BY <1>1, Onward DEF Onto
 <1>3. ToSet(c) = {s} \union ToSet(b)
   BY <1>1, OfBefore
 <1> HIDE DEF c
 <1>4. Rear(c, 1) = b
   BY <1>2, TailIsRear
 <1>5. ASSUME NEW i \in 1 .. Len(c)
       PROVE  Sums(c[i], Rear(c, i))
  <2>1. CASE i = 1
    BY <1>2, <1>4, <2>1
  <2>2. CASE i # 1
   <3> DEFINE j == i - 1
   <3>1. j \in 1 .. Len(b) /\ i = 1 + j /\ c[i] = b[j] /\ 1 \in 0 .. Len(c)
         /\ j \in 0 .. Len(c) - 1
     BY <1>2, <2>2
   <3>2. Sums(b[j], Rear(b, j))
     BY <3>1 DEF Summed
   <3> HIDE DEF j
   <3>3. Rear(Rear(c, 1), j) = Rear(c, 1 + j)
     BY <1>2, <3>1, RearOfRear
   <3> QED  BY <1>4, <3>1, <3>2, <3>3
  <2> QED  BY <2>1, <2>2
 <1>6. Summed(c)
   BY <1>2, <1>5 DEF Summed
 <1> QED  BY <1>2, <1>3, <1>6 DEF c

LEMMA OfRear ==
    ASSUME NEW steps \in Seq(Steps), NEW i \in 0 .. Len(steps)
    PROVE  /\ Rear(steps, i) \in Seq(Steps) /\ ToSet(Rear(steps, i)) \subseteq ToSet(steps)
           /\ i < Len(steps) => Rear(steps, i) # <<>> /\ Head(Rear(steps, i)) = steps[i + 1]
           /\ i = Len(steps) => Rear(steps, i) = <<>>
 <1> DEFINE u == Rear(steps, i)
 <1>1. /\ u \in Seq(Steps) /\ Len(u) = Len(steps) - i
       /\ \A j \in 1 .. Len(steps) - i : u[j] = steps[i + j]
   BY RearOf
 <1>2. Len(steps) \in Nat /\ i \in Nat
   OBVIOUS
 <1> HIDE DEF u
 <1>3. ASSUME NEW x \in ToSet(u)  PROVE x \in ToSet(steps)
  <2>1. PICK j \in 1 .. Len(u) : u[j] = x
    BY <1>1, <1>3, OfNames
  <2>2. i + j \in 1 .. Len(steps) /\ steps[i + j] = x
    BY <1>1, <1>2, <2>1
  <2> QED  BY <2>2, OfNames
 <1>4. ASSUME i < Len(steps)  PROVE u # <<>> /\ Head(u) = steps[i + 1]
  <2>1. 1 \in 1 .. Len(steps) - i /\ Len(u) # 0
    BY <1>1, <1>2, <1>4
  <2>2. u # <<>>
    BY <2>1
  <2> QED  BY <1>1, <2>1, <2>2, TailIsRear
 <1>5. ASSUME i = Len(steps)  PROVE u = <<>>
  <2>1. Len(u) = 0
    BY <1>1, <1>2, <1>5
  <2> QED  BY <1>1, <2>1
 <1> QED  BY <1>1, <1>3, <1>4, <1>5 DEF u

(* A list without a sum and without lags.                                  *)
LEMMA PlainSummed ==
    ASSUME NEW b \in Seq(Steps \ {"weighted_sum", "lag_kernel"}),
           Tree \/ "callback" \notin ToSet(b)
    PROVE  Summed(b) /\ ~ Sum(b) /\ ~ Lags(b)
 <1>1. b \in Seq(Steps)
   OBVIOUS
 <1>2. \A i \in 1 .. Len(b) : b[i] \notin {"weighted_sum", "lag_kernel"}
   OBVIOUS
 <1>3. "weighted_sum" \notin ToSet(b) /\ "lag_kernel" \notin ToSet(b)
   BY <1>1, <1>2, OfNames
 <1>4. ASSUME NEW i \in 1 .. Len(b)
       PROVE  Sums(b[i], Rear(b, i))
  <2> DEFINE u == Rear(b, i)
  <2>1. i \in 0 .. Len(b)
    OBVIOUS
  <2>2. u \in Seq(Steps) /\ ToSet(u) \subseteq ToSet(b)
    BY <1>1, <2>1, OfRear
  <2> HIDE DEF u
  <2>3. "weighted_sum" \notin ToSet(u) /\ "lag_kernel" \notin ToSet(u)
        /\ (Tree \/ "callback" \notin ToSet(u))
    BY <1>3, <2>2
  <2>4. (u # <<>> => Head(u) \in ToSet(u)) /\ (Tree \/ "callback" \notin Due(u))
    BY <2>2, <2>3, OfNames
  <2>5. Sums(b[i], u)
    BY <2>3, <2>4 DEF Sums, Sum, Lags, Forcing
  <2> QED  BY <2>5 DEF u
 <1> QED  BY <1>1, <1>3, <1>4 DEF Summed, Sum, Lags

-----------------------------------------------------------------------------
(* Two lists together.                                                     *)
LEMMA OfThen ==
    ASSUME NEW a \in Lists, NEW b \in Lists
    PROVE  /\ ToSet(Then(a, b)) = ToSet(a) \union ToSet(b)
           /\ Len(Then(a, b)) = Len(a) + Len(b)
           /\ \A i \in 1 .. Len(a) : Then(a, b)[i] = a[i]
           /\ \A i \in Len(a) + 1 .. Len(a) + Len(b) : Then(a, b)[i] = b[i - Len(a)]
           /\ \A i \in Len(a) .. Len(a) + Len(b) : Rear(Then(a, b), i) = Rear(b, i - Len(a))
           /\ a # <<>> => Then(a, b) # <<>> /\ Head(Then(a, b)) = a[1]
           /\ b # <<>> => Then(a, b) # <<>>
 <1> DEFINE c == a \o b
            A == Len(a)
            B == Len(b)
 <1>1. b \in Seq(Steps) /\ a \in Seq(Steps) /\ A \in Nat /\ B \in Nat
   BY DEF Lists
 <1>2. /\ c \in Seq(Steps) /\ Len(c) = A + B
       /\ \A i \in 1 .. A + B : c[i] = IF i <= A THEN a[i] ELSE b[i - A]
   BY <1>1, ConcatProperties
 <1> HIDE DEF c
 <1>3. ASSUME NEW i \in 1 .. A  PROVE c[i] = a[i]
   BY <1>1, <1>2
 <1>4. ASSUME NEW i \in A + 1 .. A + B  PROVE c[i] = b[i - A]
   BY <1>1, <1>2
 <1>5. ToSet(c) = ToSet(a) \union ToSet(b)
  <2>1. ASSUME NEW x \in ToSet(c)  PROVE x \in ToSet(a) \union ToSet(b)
   <3>1. PICK i \in 1 .. A + B : c[i] = x
     BY <1>2, <2>1, OfNames
   <3>2. CASE i <= A
     BY <1>1, <1>3, <3>1, <3>2, OfNames
   <3>3. CASE ~ (i <= A)
    <4>1. i - A \in 1 .. B /\ b[i - A] = x
      BY <1>1, <1>4, <3>1, <3>3
    <4> QED  BY <1>1, <4>1, OfNames
   <3> QED  BY <3>2, <3>3
  <2>2. ASSUME NEW x \in ToSet(a)  PROVE x \in ToSet(c)
   <3>1. PICK i \in 1 .. A : a[i] = x
     BY <1>1, <2>2, OfNames
   <3>2. i \in 1 .. Len(c) /\ c[i] = x
     BY <1>1, <1>2, <1>3, <3>1
   <3> QED  BY <1>2, <3>2, OfNames
  <2>3. ASSUME NEW x \in ToSet(b)  PROVE x \in ToSet(c)
   <3>1. PICK i \in 1 .. B : b[i] = x
     BY <1>1, <2>3, OfNames
   <3>2. A + i \in 1 .. Len(c) /\ A + i \in A + 1 .. A + B /\ (A + i) - A = i
     BY <1>1, <1>2
   <3>3. c[A + i] = x
     BY <1>4, <3>1, <3>2
   <3> QED  BY <1>2, <3>2, <3>3, OfNames
  <2> QED  BY <2>1, <2>2, <2>3
 <1>6. ASSUME NEW i \in A .. A + B
       PROVE  Rear(c, i) = Rear(b, i - A)
  <2> DEFINE u == Rear(b, i - A)
  <2>1. i - A \in 0 .. B /\ i \in 0 .. Len(c)
    BY <1>1, <1>2
  <2>2. u \in Seq(Steps) /\ Len(u) = B - (i - A)
        /\ \A j \in 1 .. B - (i - A) : u[j] = b[(i - A) + j]
    BY <1>1, <2>1, RearOf
  <2> HIDE DEF u
  <2>3. Len(u) = Len(c) - i
    BY <1>1, <1>2, <2>2
  <2>4. ASSUME NEW j \in 1 .. Len(c) - i
        PROVE  u[j] = c[i + j]
   <3>1. i + j \in A + 1 .. A + B /\ (i + j) - A = (i - A) + j /\ j \in 1 .. B - (i - A)
     BY <1>1, <1>2
   <3> QED  BY <1>4, <2>2, <3>1
  <2>5. u = Rear(c, i)
    BY <1>2, <2>1, <2>2, <2>3, <2>4, RearIs
  <2> QED  BY <2>5 DEF u
 <1>7. ASSUME a # <<>>  PROVE c # <<>> /\ Head(c) = a[1]
  <2>1. 1 \in 1 .. A /\ Len(c) # 0
    BY <1>1, <1>2, <1>7
  <2>2. c # <<>>
    BY <2>1
  <2> QED  BY <1>2, <1>3, <2>1, <2>2, TailIsRear
 <1>8. ASSUME b # <<>>  PROVE c # <<>>
  <2>1. Len(c) # 0
    BY <1>1, <1>2, <1>8
  <2> QED  BY <2>1
 <1> QED  BY <1>2, <1>3, <1>4, <1>5, <1>6, <1>7, <1>8 DEF c, Then

(* Steps that may stand before an energy that is out of the way: behind    *)
(* the mesh solve, or not there.                                           *)
Common == Steps \ {"weighted_sum", "lag_kernel", "self_energy", "callback"}

Clear(b) == /\ Summed(b) /\ b # <<>> /\ Head(b) # "weighted_sum"
            /\ Sum(b) => Needed(b)
            /\ Lags(b) => Sum(b)
            /\ ~ Forcing(b)

LEMMA ClearBefore ==
    ASSUME NEW a \in Seq(Common), NEW b, Clear(b)
    PROVE  /\ Clear(Then(a, b))
           /\ Sum(Then(a, b)) <=> Sum(b)
           /\ Lags(Then(a, b)) <=> Lags(b)
           /\ Self(Then(a, b)) <=> Self(b)
 <1> DEFINE c == Then(a, b)
            A == Len(a)
            B == Len(b)
 <1>1. a \in Lists /\ b \in Lists /\ c \in Lists /\ A \in Nat /\ B \in Nat
  <2>1. a \in Lists /\ b \in Lists
    BY DEF Lists, Common, Clear, Summed
  <2> QED  BY <2>1, ThenIsList DEF Lists
 <1>2. \A i \in 1 .. A : a[i] \in Common
   OBVIOUS
 <1>3. ToSet(a) \subseteq Common
   BY <1>1, <1>2, OfNames DEF Lists
 <1>4. /\ ToSet(c) = ToSet(a) \union ToSet(b) /\ Len(c) = A + B /\ c # <<>>
       /\ \A i \in 1 .. A : c[i] = a[i]
       /\ \A i \in A + 1 .. A + B : c[i] = b[i - A]
       /\ \A i \in A .. A + B : Rear(c, i) = Rear(b, i - A)
   BY <1>1, OfThen DEF Clear
 <1> HIDE DEF c
 <1>5. b \in Seq(Steps) /\ c \in Seq(Steps) /\ B # 0
   BY <1>1 DEF Lists, Clear
 (* What is behind a step of the first list.                              *)
 <1>6. ASSUME NEW i \in 0 .. A, NEW u, u = Rear(c, i)
       PROVE  /\ u \in Seq(Steps) /\ ToSet(b) \subseteq ToSet(u)
              /\ ToSet(u) \subseteq ToSet(a) \union ToSet(b)
              /\ u # <<>> /\ Head(u) # "weighted_sum"
  <2>1. i \in 0 .. Len(c) /\ i < Len(c)
    BY <1>1, <1>4, <1>5
  <2>2. u \in Seq(Steps) /\ ToSet(u) \subseteq ToSet(c) /\ u # <<>> /\ Head(u) = c[i + 1]
    BY <1>5, <1>6, <2>1, OfRear
  <2>3. Head(u) # "weighted_sum"
   <3>1. CASE i < A
    <4>1. i + 1 \in 1 .. A
      BY <1>1, <3>1
    <4>2. Head(u) \in Common
      BY <1>2, <1>4, <2>2, <4>1
    <4> QED  BY <4>2 DEF Common
   <3>2. CASE i = A
    <4>1. i + 1 \in A + 1 .. A + B /\ (i + 1) - A = 1 /\ b # <<>>
      BY <1>1, <1>5, <3>2
    <4>2. Head(b) = b[1]
      BY <1>5, <4>1, TailIsRear
    <4>3. c[i + 1] = b[(i + 1) - A]
      BY <1>4, <4>1
    <4>4. Head(u) # "weighted_sum"
      BY <2>1, <2>2, <4>1, <4>2, <4>3 DEF Clear
    <4> QED  BY <4>4
   <3> QED  BY <3>1, <3>2
  <2>4. ToSet(b) \subseteq ToSet(u)
   <3>1. A \in 0 .. Len(c) /\ A - i \in 0 .. Len(c) - i /\ i + (A - i) = A /\ A - A = 0
         /\ A \in A .. A + B /\ A - i \in 0 .. Len(u)
    <4>1. Len(u) = Len(c) - i
      BY <1>5, <1>6, <2>1, RearOf
    <4> QED  BY <1>1, <1>4, <4>1
   <3>2. Rear(u, A - i) = Rear(c, A)
     BY <1>5, <1>6, <2>1, <3>1, RearOfRear
   <3>3. Rear(c, A) = Rear(b, 0)
     BY <1>4, <3>1
   <3>4. Rear(b, 0) = b
     BY <1>5 DEF Rear
   <3>5. ToSet(Rear(u, A - i)) \subseteq ToSet(u)
     BY <2>2, <3>1, OfRear
   <3> QED  BY <3>2, <3>3, <3>4, <3>5
  <2> QED  BY <1>4, <2>2, <2>3, <2>4
 <1>7. ASSUME NEW u \in Seq(Steps), ToSet(b) \subseteq ToSet(u),
              ToSet(u) \subseteq ToSet(a) \union ToSet(b)
       PROVE  /\ Sum(u) <=> Sum(b)
              /\ Lags(u) <=> Lags(b)
              /\ Self(u) <=> Self(b)
              /\ ~ Forcing(u) /\ (Sum(u) => Needed(u)) /\ (Lags(u) => Sum(u))
  <2>1. (Sum(u) <=> Sum(b)) /\ (Lags(u) <=> Lags(b)) /\ (Self(u) <=> Self(b))
    BY <1>3, <1>7 DEF Sum, Lags, Self, Common
  <2>2. "callback" \in Due(u) <=> "callback" \in Due(b)
   <3>1. "callback" \in Due(u) <=> "callback" \in ToSet(u)
     BY OfNames
   <3>2. "callback" \in Due(b) <=> "callback" \in ToSet(b)
     BY <1>5, OfNames
   <3> QED  BY <1>3, <1>7, <3>1, <3>2 DEF Common
  <2>3. Needed(b) => Needed(u)
   <3>1. Needed(b) <=> "axis_gather" \in ToSet(b) \/ "gradient" \in ToSet(b)
     BY <1>5, OfNames
   <3>2. Needed(u) <=> "axis_gather" \in ToSet(u) \/ "gradient" \in ToSet(u)
     BY OfNames
   <3> QED  BY <1>7, <3>1, <3>2
  <2> QED  BY <2>1, <2>2, <2>3 DEF Clear, Forcing
 <1>8. ASSUME NEW i \in 1 .. A + B
       PROVE  Sums(c[i], Rear(c, i))
  <2>1. CASE i <= A
   <3> DEFINE u == Rear(c, i)
   <3>1. i \in 0 .. A /\ i \in 1 .. A
     BY <1>1, <2>1
   <3>2. c[i] \in Common
     BY <1>2, <1>4, <3>1
   <3>3. /\ u \in Seq(Steps) /\ ToSet(b) \subseteq ToSet(u)
         /\ ToSet(u) \subseteq ToSet(a) \union ToSet(b)
         /\ u # <<>> /\ Head(u) # "weighted_sum"
     BY <1>6, <3>1
   <3> HIDE DEF u
   <3>4. ~ Forcing(u) /\ (Sum(u) => Needed(u)) /\ (Lags(u) => Sum(u))
     BY <1>7, <3>3
   <3>5. Sums(c[i], u)
     BY <3>2, <3>3, <3>4 DEF Sums, Common
   <3> QED  BY <3>5 DEF u
  <2>2. CASE ~ (i <= A)
   <3>1. i \in A + 1 .. A + B /\ i \in A .. A + B /\ i - A \in 1 .. B
     BY <1>1, <2>2
   <3>2. c[i] = b[i - A] /\ Rear(c, i) = Rear(b, i - A)
     BY <1>4, <3>1
   <3>3. Sums(b[i - A], Rear(b, i - A))
     BY <3>1 DEF Clear, Summed
   <3> QED  BY <3>2, <3>3
  <2> QED  BY <2>1, <2>2
 <1>9. Summed(c)
   BY <1>4, <1>5, <1>8 DEF Summed
 <1>10. Rear(c, 0) = c /\ 0 \in 0 .. A
   BY <1>1, <1>5 DEF Rear
 <1>11. /\ ToSet(b) \subseteq ToSet(c) /\ ToSet(c) \subseteq ToSet(a) \union ToSet(b)
        /\ c # <<>> /\ Head(c) # "weighted_sum"
   BY <1>6, <1>10
 <1>12. /\ Sum(c) <=> Sum(b)
        /\ Lags(c) <=> Lags(b)
        /\ Self(c) <=> Self(b)
        /\ ~ Forcing(c) /\ (Sum(c) => Needed(c)) /\ (Lags(c) => Sum(c))
   BY <1>5, <1>7, <1>11
 <1> QED  BY <1>9, <1>11, <1>12 DEF Clear, c

(* The energy before what follows it, from its end: no gather or gradient  *)
(* is left, and the sum and the kernel are, or are not.                    *)
Runs(b, h, sum, lags) ==
    /\ Summed(b) /\ b # <<>> /\ Head(b) = h
    /\ Sum(b) <=> sum
    /\ Lags(b) <=> lags
    /\ ~ Needed(b) /\ (Tree \/ "callback" \notin ToSet(b))

Late == Steps \ {"weighted_sum", "lag_kernel", "self_energy", "axis_gather", "gradient"}
Spent == Late \union {"weighted_sum", "lag_kernel", "self_energy"}

LEMMA RunsBefore ==
    ASSUME NEW b, NEW h, NEW sum \in BOOLEAN, NEW lags \in BOOLEAN, Runs(b, h, sum, lags),
           NEW s \in Spent \ {"callback"}, NEW more \in BOOLEAN, NEW most \in BOOLEAN,
           more <=> sum \/ s = "weighted_sum", most <=> lags \/ s = "lag_kernel",
           s \in {"weighted_sum", "lag_kernel"} => ~ sum, s = "self_energy" => ~ lags,
           sum => s \in {"inverse", "measure"} \union Potentials /\ h \in Potentials,
           h = "weighted_sum" /\ Size # 1 => s = "receive_plane",
           lags /\ ~ sum => h \in KernelLeads(s)
    PROVE  Runs(Onto(s, b), s, more, most)
 <1> DEFINE c == Onto(s, b)
 <1>1. b \in Seq(Steps) /\ s \in Steps /\ s \notin {"axis_gather", "gradient", "callback"}
   BY DEF Runs, Summed, Spent, Late, Steps, Quiet, Checks, JointSteps
 <1>2. "callback" \in Due(b) <=> "callback" \in ToSet(b)
   BY <1>1, OfNames
 <1>3. Sums(s, b)
   BY <1>2 DEF Sums, Runs, Forcing
 <1>4. Summed(c) /\ c # <<>> /\ Head(c) = s /\ ToSet(c) = {s} \union ToSet(b)
   BY <1>1, <1>3, SummedBefore DEF Runs
 <1> HIDE DEF c
 <1>5. ~ Needed(c)
  <2>1. ~ ("axis_gather" \in ToSet(b) \/ "gradient" \in ToSet(b))
    BY <1>1, OfNames DEF Runs
  <2>2. c \in Seq(Steps)
    BY <1>4 DEF Summed
  <2> QED  BY <1>1, <1>4, <2>1, <2>2, OfNames
 <1>6. (Sum(c) <=> more) /\ (Lags(c) <=> most) /\ (Tree \/ "callback" \notin ToSet(c))
   BY <1>1, <1>4 DEF Runs, Sum, Lags
 <1> QED  BY <1>4, <1>5, <1>6 DEF Runs, c

LEMMA EnergyNames ==
    /\ \A s \in {"self_energy", "lag_kernel", "potential_finite", "inverse", "forward", "source",
                 "normalize", "impulse_conserved", "impulse", "origin", "rank_sum",
                 "weighted_sum", "receive_plane", "send_potential_plane", "measure_input",
                 "measure", "spill_mass", "send_spill", "receive_spill", "spilled_mass"} :
          s \in Spent \ {"callback"} /\ s \in Steps
    /\ \A s \in {"potential_finite", "receive_plane", "send_potential_plane", "weighted_sum",
                 "measure_input"} : s \in Potentials
  BY DEF Spent, Late, Potentials, Steps, Quiet, Checks, JointSteps

LEMMA KernelOrder ==
    /\ "lag_kernel" \in KernelLeads("potential_finite")
    /\ "potential_finite" \in KernelLeads("inverse") /\ "inverse" \in KernelLeads("forward")
    /\ "forward" \in KernelLeads("source") /\ "source" \in KernelLeads("normalize")
    /\ "normalize" \in KernelLeads("impulse_conserved")
    /\ "impulse_conserved" \in KernelLeads("spilled_mass")
    /\ "spilled_mass" \in KernelLeads("receive_spill")
    /\ "receive_spill" \in KernelLeads("send_spill")
    /\ "send_spill" \in KernelLeads("spill_mass")
    /\ (IF Size = 1 THEN "impulse_conserved" ELSE "spill_mass") \in KernelLeads("impulse")
    /\ "impulse" \in KernelLeads("origin") /\ "origin" \in KernelLeads("rank_sum")
    /\ "rank_sum" \in KernelLeads("weighted_sum")
  BY DEF KernelLeads

LEMMA KernelRuns ==
    ASSUME NEW r, ~ mem[r].kernel, NEW b, Runs(b, "self_energy", FALSE, FALSE)
    PROVE  Runs(Then(Kernel(r), b), "origin", FALSE, TRUE)
 <1> DEFINE k7 == Onto("lag_kernel", b)
            k6 == Onto("potential_finite", k7)
            k5 == Onto("inverse", k6)
            k4 == Onto("forward", k5)
            k3 == Onto("source", k4)
            k2 == Onto("normalize", k3)
            k1 == Onto("impulse_conserved", k2)
            s4 == Onto("spilled_mass", k1)
            s3 == Onto("receive_spill", s4)
            s2 == Onto("send_spill", s3)
            s1 == Onto("spill_mass", s2)
            k0 == Then(Spill, k1)
            j1 == Onto("impulse", k0)
            j0 == Onto("origin", j1)
            h == IF Size = 1 THEN "impulse_conserved" ELSE "spill_mass"
 <1>b. b \in Lists
   BY DEF Runs, Summed, Lists
 <1>7. Runs(k7, "lag_kernel", FALSE, TRUE)
  <2> DEFINE s == "lag_kernel"
             h0 == "self_energy"
  <2>1. Runs(b, h0, FALSE, FALSE) /\ s \in Spent \ {"callback"} /\ s # "weighted_sum"
        /\ h0 # "weighted_sum" /\ s = "lag_kernel"
    BY EnergyNames
  <2> HIDE DEF s, h0
  <2>2. Runs(Onto(s, b), s, FALSE, TRUE)
    BY <2>1, RunsBefore
  <2> QED BY <2>2 DEF s
 <1> HIDE DEF k7
 <1>6. Runs(k6, "potential_finite", FALSE, TRUE)
   BY <1>7, EnergyNames, KernelOrder, RunsBefore
 <1> HIDE DEF k6
 <1>5. Runs(k5, "inverse", FALSE, TRUE)
   BY <1>6, EnergyNames, KernelOrder, RunsBefore
 <1> HIDE DEF k5
 <1>4. Runs(k4, "forward", FALSE, TRUE)
   BY <1>5, EnergyNames, KernelOrder, RunsBefore
 <1> HIDE DEF k4
 <1>3. Runs(k3, "source", FALSE, TRUE)
   BY <1>4, EnergyNames, KernelOrder, RunsBefore
 <1> HIDE DEF k3
 <1>2. Runs(k2, "normalize", FALSE, TRUE)
   BY <1>3, EnergyNames, KernelOrder, RunsBefore
 <1> HIDE DEF k2
 <1>1. Runs(k1, "impulse_conserved", FALSE, TRUE)
   BY <1>2, EnergyNames, KernelOrder, RunsBefore
 <1>l. k1 \in Lists
   BY <1>1 DEF Runs, Summed, Lists
 <1> HIDE DEF k1
 <1>8. Runs(k0, h, FALSE, TRUE)
  <2>1. CASE Size = 1
    BY <1>1, <1>l, <2>1, ThenEmpty DEF Spill
  <2>2. CASE Size # 1
   <3>4. Runs(s4, "spilled_mass", FALSE, TRUE)
     BY <1>1, EnergyNames, KernelOrder, RunsBefore
   <3> HIDE DEF s4
   <3>3. Runs(s3, "receive_spill", FALSE, TRUE)
     BY <3>4, EnergyNames, KernelOrder, RunsBefore
   <3> HIDE DEF s3
   <3>2. Runs(s2, "send_spill", FALSE, TRUE)
     BY <3>3, EnergyNames, KernelOrder, RunsBefore
   <3> HIDE DEF s2
   <3>1. Runs(s1, "spill_mass", FALSE, TRUE)
     BY <3>2, EnergyNames, KernelOrder, RunsBefore
   <3>5. k0 = s1
     BY <1>l, <2>2, EnergyNames, Written4 DEF Spill, s2, s3, s4
   <3> QED  BY <2>2, <3>1, <3>5
  <2> QED  BY <2>1, <2>2
 <1> HIDE DEF k0
 <1>9. Runs(j1, "impulse", FALSE, TRUE)
   BY <1>8, EnergyNames, KernelOrder, RunsBefore
 <1> HIDE DEF j1
 <1>10. Runs(j0, "origin", FALSE, TRUE)
   BY <1>9, EnergyNames, KernelOrder, RunsBefore
 <1>11. Then(Kernel(r), b) = j0
  <2> DEFINE o == <<"origin", "impulse">>
             e == <<"normalize", "source", "forward", "inverse", "potential_finite",
                    "lag_kernel">>
             f == <<"impulse_conserved", "normalize", "source", "forward",
                    "inverse", "potential_finite", "lag_kernel">>
  <2>1. Kernel(r) = Then(Then(o, Spill), f)
    BY DEF Kernel, Then
  <2>2. /\ o \in Lists /\ e \in Lists /\ f \in Lists /\ "impulse_conserved" \in Steps
        /\ f # <<>> /\ Head(f) = "impulse_conserved" /\ Tail(f) = e
    BY EnergyNames DEF Lists
  <2>3. Spill \in Lists
   <3>1. Spill \in Seq(Quiet)
     BY QuietPieces
   <3> HIDE DEF Spill
   <3> QED  BY <3>1 DEF Lists, Steps
  <2>4. Then(e, b) = k2
   <3> DEFINE u == "normalize"
              v == "source"
              w == "forward"
              x == "inverse"
              y == "potential_finite"
              z == "lag_kernel"
   <3>1. u \in Steps /\ v \in Steps /\ w \in Steps /\ x \in Steps /\ y \in Steps
         /\ z \in Steps
     BY EnergyNames
   <3>2. e = <<u, v, w, x, y, z>>
         /\ k2 = Onto(u, Onto(v, Onto(w, Onto(x, Onto(y, Onto(z, b))))))
     BY DEF k2, k3, k4, k5, k6, k7
   <3> HIDE DEF u, v, w, x, y, z, e
   <3> QED  BY <1>b, <3>1, <3>2, Written6
  <2>5. k0 \in Lists
    BY <1>8 DEF Runs, Summed, Lists
  <2>6. Then(o, k0) = j0
    BY <2>5, EnergyNames, Written2 DEF j1
  <2> HIDE DEF o, e, f, j0
  <2>7. f = Onto("impulse_conserved", e)
    BY <2>2, Peel
  <2>8. Then(f, b) = k1
    BY <1>b, <2>2, <2>4, <2>7, ThenOfBefore DEF k1
  <2>9. Then(o, Spill) \in Lists
    BY <2>2, <2>3, ThenIsList
  <2>10. Then(Kernel(r), b) = Then(Then(o, Spill), k1)
    BY <1>b, <2>1, <2>2, <2>8, <2>9, ThenRegroups
  <2> QED  BY <1>l, <2>2, <2>3, <2>6, <2>10, ThenRegroups DEF k0
 <1> QED  BY <1>10, <1>11

LEMMA EnergyRuns ==
    ASSUME NEW r, NEW b \in Seq(Late), b # <<>>, Tree \/ "callback" \notin ToSet(b),
           NEW lags \in BOOLEAN, lags <=> ~ mem[r].kernel
    PROVE  Runs(Then(Energy(r), b), IF Tree THEN "inverse" ELSE "potential_finite", TRUE, lags)
 <1> DEFINE b1 == Then(<<"self_energy">>, b)
            b2 == Then(Kernel(r), b1)
            b3 == Then(<<"weighted_sum", "rank_sum">>, b2)
            b4 == Then(Ghost("potential"), b3)
            b5 == Then(<<"potential_finite">>, b4)
            b6 == Then(IF Tree THEN <<"inverse">> ELSE <<>>, b5)
 <1>n. \A s \in {"self_energy", "potential_finite", "inverse", "rank_sum", "weighted_sum",
                 "receive_plane", "send_potential_plane"} : s \in Steps
   BY EnergyNames
 <1>b. b \in Lists /\ b \in Seq(Steps \ {"weighted_sum", "lag_kernel"})
   BY DEF Late, Lists
 <1>0. Runs(b, Head(b), FALSE, FALSE)
  <2>1. "axis_gather" \notin ToSet(b) /\ "gradient" \notin ToSet(b)
   <3>1. \A i \in 1 .. Len(b) : b[i] \in Late
     OBVIOUS
   <3> QED  BY <1>b, <3>1, OfNames DEF Late, Lists
  <2>2. ~ Needed(b)
    BY <1>b, <2>1, OfNames DEF Lists
  <2> QED  BY <1>b, <2>2, PlainSummed DEF Runs
 <1>1. Runs(b1, "self_energy", FALSE, FALSE)
  <2>1. Runs(Onto("self_energy", b), "self_energy", FALSE, FALSE)
   <3> DEFINE s == "self_energy"
              h == Head(b)
   <3>1. Runs(b, h, FALSE, FALSE) /\ s \in Spent \ {"callback"} /\ s # "weighted_sum"
         /\ s # "lag_kernel" /\ h # "weighted_sum"
    <4>1. h \in ToSet(b) /\ \A i \in 1 .. Len(b) : b[i] \in Late
      BY <1>b, OfNames DEF Lists
    <4>2. h \in Late
      BY <1>b, <4>1, OfNames DEF Lists
    <4> HIDE DEF h
    <4>3. h # "weighted_sum"
      BY <4>2 DEF Late
    <4> QED  BY <1>0, <4>3, EnergyNames DEF h
   <3> HIDE DEF s, h
   <3>2. Runs(Onto(s, b), s, FALSE, FALSE)
     BY <3>1, RunsBefore
   <3> QED  BY <3>2 DEF s
  <2> QED  BY <1>b, <1>n, <2>1, Written1
 <1> HIDE DEF b1
 <1>2. \E k : Runs(b2, k, FALSE, lags) /\ k \in {"self_energy", "origin"} /\ (lags => k = "origin")
  <2>1. CASE mem[r].kernel
   <3>1. b1 \in Lists
     BY <1>1 DEF Runs, Summed, Lists
   <3>2. b2 = b1
     BY <2>1, <3>1, ThenEmpty DEF Kernel
   <3>3. lags = FALSE
     BY <2>1
   <3> QED  BY <1>1, <3>2, <3>3
  <2>2. CASE ~ mem[r].kernel
   <3>1. Runs(b2, "origin", FALSE, TRUE)
     BY <1>1, <2>2, KernelRuns
   <3>2. lags = TRUE
     BY <2>2
   <3> QED  BY <3>1, <3>2
  <2> QED  BY <2>1, <2>2
 <1>3. Runs(b3, "weighted_sum", TRUE, lags)
  <2>1. PICK k : Runs(b2, k, FALSE, lags) /\ k \in {"self_energy", "origin"}
                 /\ (lags => k = "origin")
    BY <1>2
  <2> HIDE DEF b2
  <2> DEFINE c == Onto("rank_sum", b2)
             d == Onto("weighted_sum", c)
  <2>2. Runs(c, "rank_sum", FALSE, lags)
    BY <2>1, EnergyNames, KernelOrder, RunsBefore
  <2>3. b3 = d
   <3>1. b2 \in Lists
     BY <2>1 DEF Runs, Summed, Lists
   <3> QED  BY <1>n, <3>1, Written2
  <2> HIDE DEF c
  <2>4. Runs(d, "weighted_sum", TRUE, lags)
   <3> DEFINE s == "weighted_sum"
              h == "rank_sum"
   <3>1. Runs(c, h, FALSE, lags) /\ s \in Spent \ {"callback"} /\ s = "weighted_sum"
         /\ s # "lag_kernel" /\ h # "weighted_sum" /\ h \in KernelLeads(s)
     BY <2>2, EnergyNames, KernelOrder
   <3> HIDE DEF s, h, d
   <3>2. Runs(Onto(s, c), s, TRUE, lags)
     BY <3>1, RunsBefore
   <3> QED  BY <3>2 DEF s, d
  <2> QED  BY <2>3, <2>4
 <1> HIDE DEF b3
 <1>4. \E k \in Potentials : Runs(b4, k, TRUE, lags) /\ (k = "weighted_sum" => Size = 1)
  <2>0. b3 \in Lists
    BY <1>3 DEF Runs, Summed, Lists
  <2>1. CASE Size = 1
    BY <1>3, <2>0, <2>1, ThenEmpty DEF Ghost, Potentials
  <2>2. CASE Size # 1
   <3> DEFINE c == Onto("receive_plane", b3)
              d == Onto("send_potential_plane", c)
   <3>1. Runs(c, "receive_plane", TRUE, lags)
     BY <1>3, EnergyNames, RunsBefore
   <3>2. b4 = d
     BY <1>n, <2>0, <2>2, Written2 DEF Ghost
   <3> HIDE DEF c
   <3>3. Runs(d, "send_potential_plane", TRUE, lags)
     BY <3>1, EnergyNames, RunsBefore
   <3> QED  BY <3>2, <3>3 DEF Potentials
  <2> QED  BY <2>1, <2>2
 <1> HIDE DEF b4
 <1>5. Runs(b5, "potential_finite", TRUE, lags)
  <2>1. PICK k \in Potentials : Runs(b4, k, TRUE, lags) /\ (k = "weighted_sum" => Size = 1)
    BY <1>4
  <2>2. b4 \in Lists
    BY <2>1 DEF Runs, Summed, Lists
  <2>3. Runs(Onto("potential_finite", b4), "potential_finite", TRUE, lags)
    BY <2>1, EnergyNames, RunsBefore
  <2> QED  BY <1>n, <2>2, <2>3, Written1
 <1> HIDE DEF b5
 <1>6. Runs(b6, IF Tree THEN "inverse" ELSE "potential_finite", TRUE, lags)
  <2>1. b5 \in Lists
    BY <1>5 DEF Runs, Summed, Lists
  <2>2. CASE Tree
   <3>1. Runs(Onto("inverse", b5), "inverse", TRUE, lags)
    <4> DEFINE s == "inverse"
               h == "potential_finite"
    <4>1. Runs(b5, h, TRUE, lags) /\ s \in Spent \ {"callback"} /\ s = "inverse"
          /\ s \notin {"weighted_sum", "lag_kernel"} /\ h # "weighted_sum" /\ h \in Potentials
      BY <1>5, EnergyNames
    <4> HIDE DEF s, h
    <4>2. Runs(Onto(s, b5), s, TRUE, lags)
      BY <4>1, RunsBefore
    <4> QED  BY <4>2 DEF s
   <3> QED  BY <1>n, <2>1, <2>2, <3>1, Written1
  <2>3. CASE ~ Tree
    BY <1>5, <2>1, <2>3, ThenEmpty
  <2> QED  BY <2>2, <2>3
 <1>7. Then(Energy(r), b) = b6
   BY <1>b, EnergyRegroups DEF b1, b2, b3, b4, b5
 <1> QED  BY <1>6, <1>7

-----------------------------------------------------------------------------
(* A list with a piece in it, behind common steps and before those of S.   *)
Ends(L, piece, S) == \E a \in Seq(Common), c \in Seq(S) : L = Then(a, Then(piece, c))

LEMMA ListsTogether ==
    ASSUME NEW S, NEW a \in Seq(S), NEW b \in Seq(S)
    PROVE  Then(a, b) \in Seq(S)
  BY ConcatProperties DEF Then

LEMMA ListsOf ==
    ASSUME NEW S \in SUBSET Steps, NEW a \in Seq(S)
    PROVE  a \in Lists
  BY DEF Lists

LEMMA EndsWith ==
    ASSUME NEW L, NEW piece \in Lists, NEW S \in SUBSET Steps, Ends(L, piece, S)
    PROVE  /\ L \in Lists
           /\ \A x \in Seq(Common) : Ends(Then(x, L), piece, S)
           /\ \A y \in Seq(S) : Ends(Then(L, y), piece, S)
 <1>1. PICK a \in Seq(Common), c \in Seq(S) : L = Then(a, Then(piece, c))
   BY DEF Ends
 <1>2. Common \in SUBSET Steps
   BY DEF Common
 <1>3. a \in Lists /\ c \in Lists
   BY <1>2, ListsOf
 <1> DEFINE e == Then(piece, c)
 <1>4. e \in Lists
   BY <1>3, ThenIsList
 <1>5. L = Then(a, e)
   BY <1>1
 <1>6. ASSUME NEW x \in Seq(Common)  PROVE Ends(Then(x, L), piece, S)
  <2>1. x \in Lists /\ Then(x, a) \in Seq(Common)
    BY <1>2, ListsOf, ListsTogether
  <2> HIDE DEF e
  <2>2. Then(x, L) = Then(Then(x, a), e)
    BY <1>3, <1>4, <1>5, <2>1, ThenRegroups
  <2> QED  BY <2>1, <2>2 DEF Ends, e
 <1>7. ASSUME NEW y \in Seq(S)  PROVE Ends(Then(L, y), piece, S)
  <2>1. y \in Lists /\ Then(c, y) \in Seq(S)
    BY ListsOf, ListsTogether
  <2>2. Then(e, y) = Then(piece, Then(c, y))
    BY <1>3, <2>1, ThenRegroups
  <2> HIDE DEF e
  <2>3. Then(L, y) = Then(a, Then(e, y))
    BY <1>3, <1>4, <1>5, <2>1, ThenRegroups
  <2> QED  BY <2>1, <2>2, <2>3 DEF Ends
 <1>8. L \in Lists
  <2> HIDE DEF e
  <2> QED  BY <1>3, <1>4, <1>5, ThenIsList
 <1> QED  BY <1>6, <1>7, <1>8

LEMMA EndsHere ==
    ASSUME NEW a \in Seq(Common), NEW piece \in Lists, NEW S \in SUBSET Steps
    PROVE  Ends(Then(a, piece), piece, S)
 <1>1. <<>> \in Seq(S) /\ Then(piece, <<>>) = piece
   BY ThenEmpty
 <1> QED  BY <1>1 DEF Ends

(* The pieces of a call that are common.                                   *)
LEMMA CommonPieces ==
    ASSUME NEW r
    PROVE  /\ Creation(r) \in Seq(Common) /\ Report \in Seq(Common) /\ Balance \in Seq(Common)
           /\ Spill \in Seq(Common) /\ Ghost("force") \in Seq(Common)
           /\ Axis \in Seq(Common) /\ GradientSteps \in Seq(Common)
           /\ Report \in Seq(Late) /\ Balance \in Seq(Late)
           /\ Common \in SUBSET Steps /\ Late \in SUBSET Steps
 <1>1. PieceNames \subseteq Common /\ PieceNames \subseteq Late
   BY DEF PieceNames, Common, Late, Steps, Quiet, Checks, JointSteps
 <1>2. /\ {"spill_mass", "send_spill", "receive_spill", "spilled_mass",
           "send_force_plane", "receive_plane", "axis_prepared", "axis_gather",
           "axis_finite", "axis_modes", "axis_inverse", "inverse", "potential_finite",
           "halo_plan", "halo_request", "halo_counts", "halo_buffers", "halo_planes",
           "halo_response", "halo_values", "halo_unpack", "gradient_check",
           "gradient"} \subseteq Common
       /\ Common \in SUBSET Steps /\ Late \in SUBSET Steps
   BY DEF Common, Late, Steps, Quiet, Checks, JointSteps
 <1> HIDE DEF Common, Late
 <1>3. Spill \in Seq(Common)
   BY <1>2 DEF Spill
 <1>4. Ghost("force") \in Seq(Common)
   BY <1>2 DEF Ghost
 <1>5. Axis \in Seq(Common)
  <2>1. <<"axis_modes", "axis_inverse">> \in Seq(Common)
    BY <1>2
  <2>2. <<"axis_prepared">> \in Seq(Common) /\ <<"axis_gather", "axis_finite">> \in Seq(Common)
    BY <1>2
  <2>3. Interpolation \in Seq(Common)
    BY <1>4, <2>2, ListsTogether DEF Interpolation, Then
  <2> QED  BY <2>1, <2>3, ListsTogether DEF Axis, Then
 <1>6. GradientSteps \in Seq(Common)
  <2> DEFINE e == IF Size = 1 THEN <<>> ELSE <<"halo_plan">> \o HaloSteps \o <<"gradient_check">>
  <2>1. HaloSteps \in Seq(Common)
    BY <1>2 DEF HaloSteps
  <2>2. /\ <<"halo_plan">> \in Seq(Common) /\ <<"gradient_check">> \in Seq(Common)
        /\ <<"inverse", "potential_finite">> \in Seq(Common) /\ <<"gradient">> \in Seq(Common)
        /\ <<>> \in Seq(Common)
    BY <1>2
  <2>3. e \in Seq(Common)
    BY <2>1, <2>2, ListsTogether DEF Then
  <2> HIDE DEF e
  <2>4. Then(<<"inverse", "potential_finite">>, e) \in Seq(Common)
    BY <2>2, <2>3, ListsTogether
  <2>5. Then(Then(<<"inverse", "potential_finite">>, e), <<"gradient">>) \in Seq(Common)
    BY <2>2, <2>4, ListsTogether
  <2> QED  BY <2>5 DEF GradientSteps, Then, e
 <1> QED  BY <1>1, <1>2, <1>3, <1>4, <1>5, <1>6, PiecesIn

(* The force of all three axes ends with a gather; the energy is behind it. *)
Gathering == <<"axis_gather", "axis_finite">>

LEMMA MeshEnds ==
    ASSUME NEW r, NEW piece \in Lists, NEW S \in SUBSET Steps,
           Ends(Then(IF Tree THEN Axis \o Axis \o Axis ELSE GradientSteps,
                     IF Tree /\ setup.collect THEN Energy(r) ELSE <<>>), piece, S)
    PROVE  Ends(MeshSolve(r), piece, S)
 <1> DEFINE P == <<"sizes", "input_mass", "deposit">>
            Q == <<"density_valid", "mass_conserved", "normalize", "source",
                   "forward", "modes_finite">>
            X == IF Tree THEN Axis \o Axis \o Axis ELSE GradientSteps
            E == IF Tree /\ setup.collect THEN Energy(r) ELSE <<>>
            V == Then(Then(P, Spill), Q)
 <1>1. P \in Seq(Common) /\ Q \in Seq(Common)
   BY DEF Common, Steps, Quiet, Checks, JointSteps
 <1>2. Common \in SUBSET Steps /\ Spill \in Seq(Common) /\ Axis \in Seq(Common)
       /\ GradientSteps \in Seq(Common)
   BY CommonPieces
 <1>3. X \in Seq(Common)
  <2>1. Then(Axis, Axis) \in Seq(Common)
    BY <1>2, ListsTogether
  <2>2. Then(Then(Axis, Axis), Axis) \in Seq(Common)
    BY <1>2, <2>1, ListsTogether
  <2> QED  BY <1>2, <2>2 DEF Then
 <1>4. E \in Lists
  <2>1. Energy(r) \in Seq(Quiet)
    BY EnergyIsQuiet
  <2> HIDE DEF Quiet
  <2> QED  BY <2>1 DEF Lists, Steps
 <1>5. MeshSolve(r) = Then(Then(V, X), E)
   BY DEF MeshSolve, Then
 <1> HIDE DEF P, Q, X, E
 <1>6. V \in Seq(Common)
  <2>1. Then(P, Spill) \in Seq(Common)
    BY <1>1, <1>2, ListsTogether
  <2> QED  BY <1>1, <2>1, ListsTogether
 <1> HIDE DEF V
 <1>7. V \in Lists /\ X \in Lists
   BY <1>2, <1>3, <1>6, ListsOf
 <1>8. MeshSolve(r) = Then(V, Then(X, E))
   BY <1>4, <1>5, <1>7, ThenRegroups
 <1>9. Ends(Then(X, E), piece, S)
   BY DEF X, E
 <1> QED  BY <1>6, <1>8, <1>9, EndsWith

LEMMA TreeEnds ==
    ASSUME Tree, setup.collect, NEW r
    PROVE  Then(Gathering, Energy(r)) \in Lists
           /\ Ends(MeshSolve(r), Then(Gathering, Energy(r)), Late)
 <1> DEFINE A == <<"axis_modes", "axis_inverse">>
            B == <<"axis_prepared">>
            piece == Then(Gathering, Energy(r))
 <1>1. A \in Seq(Common) /\ B \in Seq(Common) /\ Gathering \in Seq(Common)
   BY DEF Common, Steps, Quiet, Checks, JointSteps, Gathering
 <1>2. Common \in SUBSET Steps /\ Late \in SUBSET Steps /\ Axis \in Seq(Common)
       /\ Ghost("force") \in Seq(Common)
   BY CommonPieces
 <1>3. Energy(r) \in Lists
  <2>1. Energy(r) \in Seq(Quiet)
    BY EnergyIsQuiet
  <2> HIDE DEF Quiet
  <2> QED  BY <2>1 DEF Lists, Steps
 <1>4. Axis = Then(A, Then(Then(B, Ghost("force")), Gathering))
   BY DEF Axis, Interpolation, Then, Gathering
 <1> HIDE DEF A, B, Gathering
 <1> DEFINE C == Then(B, Ghost("force"))
            D == Then(A, C)
            H == Then(Axis, Axis)
            K == Then(H, D)
 <1>5. C \in Seq(Common)
   BY <1>1, <1>2, ListsTogether
 <1> HIDE DEF C
 <1>6. D \in Seq(Common)
   BY <1>1, <1>5, ListsTogether
 <1>7. H \in Seq(Common)
   BY <1>2, ListsTogether
 <1>8. A \in Lists /\ C \in Lists /\ Gathering \in Lists
   BY <1>1, <1>2, <1>5, ListsOf
 <1>9. Axis = Then(D, Gathering)
  <2>1. Axis = Then(A, Then(C, Gathering))
    BY <1>4 DEF C
  <2> QED  BY <1>8, <2>1, ThenRegroups
 <1> HIDE DEF D, H
 <1>10. K \in Seq(Common)
   BY <1>6, <1>7, ListsTogether
 <1>11. D \in Lists /\ H \in Lists
   BY <1>2, <1>6, <1>7, ListsOf
 <1>12. Axis \o Axis \o Axis = Then(K, Gathering)
  <2>1. Axis \o Axis \o Axis = Then(H, Axis)
    BY DEF H, Then
  <2>2. Then(H, Axis) = Then(H, Then(D, Gathering))
    BY <1>9
  <2> QED  BY <1>8, <1>11, <2>1, <2>2, ThenRegroups
 <1> HIDE DEF K
 <1>13. K \in Lists
   BY <1>2, <1>10, ListsOf
 <1>14. piece \in Lists
   BY <1>3, <1>8, ThenIsList
 <1>15. Then(Axis \o Axis \o Axis, Energy(r)) = Then(K, piece)
   BY <1>3, <1>8, <1>12, <1>13, ThenRegroups
 <1>16. Ends(Then(K, piece), piece, Late)
  <2> HIDE DEF piece
  <2> QED  BY <1>2, <1>10, <1>14, EndsHere
 <1>17. Ends(MeshSolve(r), piece, Late)
   BY <1>2, <1>14, <1>15, <1>16, MeshEnds
 <1> QED  BY <1>14, <1>17

Closing == {"commit_check", "commit", "balance", "callback"}

LEMMA PlainEnds ==
    ASSUME ~ Tree, NEW r
    PROVE  <<"gradient">> \in Lists /\ Ends(MeshSolve(r), <<"gradient">>, Closing)
           /\ Closing \in SUBSET Steps
 <1> DEFINE A == <<"inverse", "potential_finite">>
            e == IF Size = 1 THEN <<>> ELSE <<"halo_plan">> \o HaloSteps \o <<"gradient_check">>
            piece == <<"gradient">>
            K == Then(A, e)
 <1>1. A \in Seq(Common) /\ <<"halo_plan">> \in Seq(Common)
       /\ <<"gradient_check">> \in Seq(Common) /\ HaloSteps \in Seq(Common)
       /\ <<>> \in Seq(Common) /\ piece \in Lists /\ Closing \in SUBSET Steps
   BY DEF Common, Steps, Quiet, Checks, JointSteps, Lists, Closing, HaloSteps
 <1>2. e \in Seq(Common)
   BY <1>1, ListsTogether DEF Then
 <1>3. GradientSteps = Then(K, piece)
   BY DEF GradientSteps, Then
 <1> HIDE DEF A, e, piece
 <1>4. K \in Seq(Common)
   BY <1>1, <1>2, ListsTogether
 <1> HIDE DEF K
 <1>5. Ends(Then(K, piece), piece, Closing) /\ Then(K, piece) \in Lists
  <2>1. Ends(Then(K, piece), piece, Closing)
    BY <1>1, <1>4, EndsHere
  <2> QED  BY <1>1, <2>1, EndsWith
 <1>6. Then(GradientSteps, <<>>) = Then(K, piece)
   BY <1>3, <1>5, ThenEmpty
 <1>7. Ends(MeshSolve(r), piece, Closing)
   BY <1>1, <1>5, <1>6, MeshEnds
 <1> QED  BY <1>1, <1>7 DEF piece

(* The whole of a force: what is at its end, and what is before it.        *)
LEMMA SolveEnds ==
    ASSUME NEW r, NEW piece \in Lists, NEW S \in SUBSET Steps, Ends(MeshSolve(r), piece, S),
           IF Tree THEN Late \subseteq S ELSE Closing \subseteq S
    PROVE  \E a \in Seq(Common), c \in Seq(S) :
              c # <<>> /\ Solve(r) = Then(a, Then(piece, c))
 <1> DEFINE P == <<"prepare", "migrate", "materialize">>
            B1 == IF Tree THEN <<"set_up">> ELSE <<"preflight", "transaction">>
            R == IF Tree THEN <<"ready", "private">> ELSE <<"private">>
            F1 == IF Tree THEN <<"tree", "walk", "complete">> ELSE <<"commit_check", "commit">>
            F2 == IF Tree THEN Report ELSE <<>>
            F3 == IF Tree THEN <<"validate">> ELSE <<>>
            M == MeshSolve(r)
            C == Creation(r)
            x1 == Then(B1, C)
            x2 == Then(x1, R)
            x3 == Then(x2, M)
            x4 == Then(x3, F1)
            x5 == Then(x4, F2)
            W == Then(x5, F3)
            y1 == Then(P, W)
            y2 == Then(y1, Balance)
            last == <<"callback">>
 <1>1. P \in Seq(Common) /\ B1 \in Seq(Common) /\ R \in Seq(Common)
  <2>1. {"prepare", "migrate", "materialize", "set_up", "preflight", "transaction", "ready",
         "private"} \subseteq Common
    BY DEF Common, Steps, Quiet, Checks, JointSteps
  <2> HIDE DEF Common
  <2> QED  BY <2>1
 <1>2. Common \in SUBSET Steps /\ C \in Seq(Common)
   BY CommonPieces
 <1>3. F1 \in Seq(S) /\ F3 \in Seq(S) /\ last \in Seq(S) /\ last # <<>>
  <2>1. Tree => {"tree", "walk", "complete", "validate", "callback"} \subseteq S
    BY DEF Late, Steps, Quiet, Checks, JointSteps
  <2>2. ~ Tree => {"commit_check", "commit", "callback"} \subseteq S
    BY DEF Closing
  <2> QED  BY <2>1, <2>2
 <1>4. F2 \in Seq(S) /\ Balance \in Seq(S)
  <2>1. CASE Tree
   <3>1. PieceNames \subseteq S
     BY <2>1 DEF Late, PieceNames, Steps, Quiet, Checks, JointSteps
   <3> QED  BY <2>1, <3>1, PiecesIn
  <2>2. CASE ~ Tree
   <3>1. "balance" \in S
     BY <2>2 DEF Closing
   <3> QED  BY <2>2, <3>1 DEF Balance
  <2> QED  BY <2>1, <2>2
 <1>5. Solve(r) = Then(y2, last)
  <2>2. CASE Tree
    BY <2>2 DEF Solve, Then
  <2>3. CASE ~ Tree
   <3>1. x4 \in Lists
    <4>1. x1 \in Seq(Common)
      BY <1>1, <1>2, ListsTogether
    <4>2. x2 \in Seq(Common)
     <5> HIDE DEF x1
     <5> QED  BY <1>1, <4>1, ListsTogether
    <4>3. x2 \in Lists /\ F1 \in Lists /\ M \in Lists
      BY <1>2, <1>3, <4>2, ListsOf, EndsWith
    <4>4. x3 \in Lists
     <5> HIDE DEF x2, M
     <5> QED  BY <4>3, ThenIsList
    <4> HIDE DEF x3, F1
    <4> QED  BY <4>3, <4>4, ThenIsList
   <3> HIDE DEF x4
   <3>2. x5 = x4
     BY <2>3, <3>1, ThenEmpty
   <3>3. W = x4
    <4> HIDE DEF x5
    <4> QED  BY <2>3, <3>1, <3>2, ThenEmpty
   <3> HIDE DEF W
   <3> QED  BY <2>3, <3>3 DEF Solve, Then, x4
  <2> QED  BY <2>2, <2>3
 <1> HIDE DEF P, B1, R, F1, F2, F3, M, C, last
 <1>6. x1 \in Seq(Common)
   BY <1>1, <1>2, ListsTogether
 <1> HIDE DEF x1
 <1>7. x2 \in Seq(Common)
   BY <1>1, <1>6, ListsTogether
 <1> HIDE DEF x2
 <1>m. Ends(M, piece, S)
   BY DEF M
 <1>8. Ends(x3, piece, S)
   BY <1>7, <1>m, EndsWith
 <1> HIDE DEF x3
 <1>9. Ends(x4, piece, S)
   BY <1>3, <1>8, EndsWith
 <1> HIDE DEF x4
 <1>10. Ends(x5, piece, S)
   BY <1>4, <1>9, EndsWith
 <1> HIDE DEF x5
 <1>11. Ends(W, piece, S)
   BY <1>3, <1>10, EndsWith
 <1> HIDE DEF W
 <1>12. Ends(y1, piece, S)
   BY <1>1, <1>11, EndsWith
 <1> HIDE DEF y1
 <1>13. Ends(y2, piece, S)
   BY <1>4, <1>12, EndsWith
 <1> HIDE DEF y2
 <1>14. PICK a \in Seq(Common), b \in Seq(S) : y2 = Then(a, Then(piece, b))
   BY <1>13 DEF Ends
 <1> DEFINE c == Then(b, last)
            e == Then(piece, b)
 <1>15. a \in Lists /\ b \in Lists /\ last \in Lists /\ y2 = Then(a, e)
   BY <1>2, <1>3, <1>14, ListsOf
 <1>16. e \in Lists
   BY <1>15, ThenIsList
 <1>17. Then(e, last) = Then(piece, c)
   BY <1>15, ThenRegroups
 <1> HIDE DEF e
 <1>18. Then(Then(a, e), last) = Then(a, Then(e, last))
   BY <1>15, <1>16, ThenRegroups
 <1>19. c \in Seq(S)
   BY <1>3, <1>14, ListsTogether
 <1>20. c # <<>>
   BY <1>3, <1>15, OfThen
 <1> HIDE DEF c
 <1>21. Solve(r) = Then(a, Then(piece, c))
   BY <1>5, <1>15, <1>17, <1>18
 <1> QED  BY <1>14, <1>19, <1>20, <1>21

(* Behind a gradient there is no energy.                                   *)
LEMMA GradientIsClear ==
    ASSUME NEW b \in Seq(Closing), b # <<>>
    PROVE  Clear(Onto("gradient", b)) /\ ~ Sum(Onto("gradient", b)) /\ ~ Self(Onto("gradient", b))
 <1> DEFINE c == Onto("gradient", b)
 <1>1. Closing \in SUBSET Steps /\ "gradient" \in Steps
   BY DEF Closing, Steps, Quiet, Checks, JointSteps
 <1>2. b \in Seq(Steps)
   BY <1>1, ListsOf DEF Lists
 <1>3. \A i \in 1 .. Len(b) : b[i] \in Closing
   OBVIOUS
 <1>4. ToSet(b) \subseteq Closing
   BY <1>2, <1>3, OfNames
 <1>5. ASSUME NEW u \in Seq(Steps), ToSet(u) \subseteq Closing,
              NEW s \in Closing \union {"gradient"}
       PROVE  Sums(s, u) /\ ~ Sum(u) /\ ~ Lags(u) /\ ~ Self(u)
  <2>1. u # <<>> => Head(u) \in Closing
    BY <1>5, OfNames
  <2> QED  BY <1>5, <2>1 DEF Sums, Sum, Lags, Self, Closing
 <1>6. ASSUME NEW i \in 1 .. Len(b)  PROVE Sums(b[i], Rear(b, i))
  <2>1. i \in 0 .. Len(b)
    OBVIOUS
  <2>2. Rear(b, i) \in Seq(Steps) /\ ToSet(Rear(b, i)) \subseteq Closing
    BY <1>2, <1>4, <2>1, OfRear
  <2> QED  BY <1>3, <1>5, <2>2
 <1>7. Summed(b)
   BY <1>2, <1>6 DEF Summed
 <1>8. Sums("gradient", b)
   BY <1>2, <1>4, <1>5
 <1>9. Summed(c) /\ c # <<>> /\ Head(c) = "gradient" /\ ToSet(c) = {"gradient"} \union ToSet(b)
   BY <1>1, <1>7, <1>8, SummedBefore
 <1> HIDE DEF c
 <1>10. Needed(c)
   BY <1>9, OfNames DEF Summed
 <1>11. ~ Sum(c) /\ ~ Lags(c) /\ ~ Self(c)
   BY <1>4, <1>9 DEF Sum, Lags, Self, Closing
 <1>12. Clear(c)
   BY <1>9, <1>10, <1>11 DEF Clear, Forcing
 <1> QED  BY <1>11, <1>12 DEF c

LEMMA GatherIsClear ==
    ASSUME NEW b, NEW lags \in BOOLEAN, Runs(b, "inverse", TRUE, lags)
    PROVE  /\ Clear(Then(Gathering, b))
           /\ Lags(Then(Gathering, b)) <=> lags
 <1> DEFINE d == Onto("axis_finite", b)
            c == Onto("axis_gather", d)
 <1>1. {"axis_finite", "axis_gather"} \subseteq Steps /\ b \in Lists
   BY DEF Steps, Quiet, Checks, JointSteps, Runs, Summed, Lists
 <1>6. ~ Forcing(b)
  <2>1. "callback" \in Due(b) <=> "callback" \in ToSet(b)
    BY <1>1, OfNames DEF Lists
  <2> QED  BY <2>1 DEF Forcing, Runs
 <1>2. Sums("axis_finite", b)
   BY <1>6 DEF Runs, Sums
 <1>3. Summed(d) /\ d # <<>> /\ Head(d) = "axis_finite" /\ ToSet(d) = {"axis_finite"} \union ToSet(b)
   BY <1>1, <1>2, SummedBefore DEF Runs
 <1>4. c = Then(Gathering, b)
   BY <1>1, Written2 DEF Gathering
 <1> HIDE DEF d
 <1>5. Sum(d) /\ (Lags(d) <=> lags) /\ (Forcing(d) <=> Forcing(b))
  <2>1. Due(d) = Due(b)
   <3>1. Due(d) = ToSet(d) \intersect Milestones /\ Due(b) = ToSet(b) \intersect Milestones
     BY <1>1, <1>3, OfNames DEF Summed, Lists
   <3> QED  BY <1>3, <3>1 DEF Milestones
  <2> QED  BY <1>3, <2>1 DEF Sum, Lags, Forcing, Needed, Runs
 <1>7. Sums("axis_gather", d)
   BY <1>3, <1>5, <1>6 DEF Sums
 <1>8. Summed(c) /\ c # <<>> /\ Head(c) = "axis_gather"
       /\ ToSet(c) = {"axis_gather"} \union ToSet(d)
   BY <1>1, <1>3, <1>7, SummedBefore
 <1> HIDE DEF c
 <1>9. Needed(c)
   BY <1>8, OfNames DEF Summed
 <1>10. Sum(c) /\ (Lags(c) <=> lags)
   BY <1>5, <1>8 DEF Sum, Lags
 <1>11. Clear(c)
   BY <1>8, <1>9, <1>10 DEF Clear, Forcing
 <1> QED  BY <1>4, <1>10, <1>11

(* A force asks for what it has made itself, and for a kernel if it makes  *)
(* none; a measurement, for the potential and a kernel.                    *)
LEMMA SolveSummed ==
    ASSUME NEW r
    PROVE  Clear(Solve(r)) /\ (Self(Solve(r)) /\ ~ Lags(Solve(r)) => mem[r].kernel)
 <1>1. CASE Tree /\ setup.collect
  <2> DEFINE piece == Then(Gathering, Energy(r))
             lags == ~ mem[r].kernel
  <2>1. piece \in Lists /\ Ends(MeshSolve(r), piece, Late) /\ Late \in SUBSET Steps
    BY <1>1, TreeEnds, CommonPieces
  <2>2. Gathering \in Lists /\ Energy(r) \in Lists
   <3>1. Energy(r) \in Seq(Quiet)
     BY EnergyIsQuiet
   <3>2. Gathering \in Lists
     BY DEF Gathering, Lists, Steps, Quiet, Checks, JointSteps
   <3> HIDE DEF Quiet
   <3> QED  BY <3>1, <3>2 DEF Lists, Steps
  <2>3. \E a \in Seq(Common), c \in Seq(Late) : c # <<>> /\ Solve(r) = Then(a, Then(piece, c))
   <3> HIDE DEF piece
   <3> QED  BY <1>1, <2>1, SolveEnds
  <2>4. PICK a \in Seq(Common), c \in Seq(Late) :
           c # <<>> /\ Solve(r) = Then(a, Then(piece, c))
    BY <2>3
  <2> DEFINE e == Then(Energy(r), c)
             g == Then(Gathering, e)
  <2>5. c \in Lists
    BY <2>1, ListsOf
  <2>6. Then(piece, c) = g
    BY <2>2, <2>5, ThenRegroups
  <2>7. Runs(e, "inverse", TRUE, lags) /\ lags \in BOOLEAN
    BY <1>1, <2>4, EnergyRuns
  <2> HIDE DEF e
  <2>8. Clear(g) /\ (Lags(g) <=> lags)
   <3> HIDE DEF lags
   <3> QED  BY <2>7, GatherIsClear
  <2> HIDE DEF g, piece
  <2> QED  BY <2>4, <2>6, <2>8, ClearBefore
 <1>2. CASE Tree /\ ~ setup.collect
  <2> DEFINE S == Steps \ {"weighted_sum", "lag_kernel", "self_energy"}
             P == <<"prepare", "migrate", "materialize">>
             B1 == <<"set_up">>
             R == <<"ready", "private">>
             F1 == <<"tree", "walk", "complete">>
             F3 == <<"validate">>
             last == <<"callback">>
             M == MeshSolve(r)
             C == Creation(r)
             p1 == <<"sizes", "input_mass", "deposit">>
             p2 == <<"density_valid", "mass_conserved", "normalize", "source",
                    "forward", "modes_finite">>
  <2>1. /\ {"prepare", "migrate", "materialize", "set_up", "ready", "private", "tree", "walk",
            "complete", "validate", "callback", "sizes", "input_mass", "deposit",
            "density_valid", "mass_conserved", "normalize", "source", "forward",
            "modes_finite"} \subseteq S
        /\ Common \subseteq S
    BY DEF Common, Steps, Quiet, Checks, JointSteps
  <2> HIDE DEF S
  <2>2. \A x \in Seq(Common) : x \in Seq(S)
    BY <2>1
  <2>3. C \in Seq(S) /\ Report \in Seq(S) /\ Balance \in Seq(S) /\ Spill \in Seq(S)
        /\ Axis \in Seq(S)
    BY <2>2, CommonPieces
  <2>4. /\ P \in Seq(S) /\ B1 \in Seq(S) /\ R \in Seq(S) /\ F1 \in Seq(S) /\ F3 \in Seq(S)
        /\ last \in Seq(S) /\ p1 \in Seq(S) /\ p2 \in Seq(S) /\ <<>> \in Seq(S)
    BY <2>1
  <2> DEFINE W == B1 \o C \o R \o M \o F1 \o Report \o F3
  <2>5. M = p1 \o Spill \o p2 \o (Axis \o Axis \o Axis) \o <<>>
    BY <1>2 DEF MeshSolve
  <2>6. Solve(r) = P \o W \o Balance \o last
    BY <1>2 DEF Solve
  <2> HIDE DEF P, B1, R, F1, F3, last, M, C, p1, p2, Balance, Report, Spill, Axis
  <2>7. \A a, b \in Seq(S) : a \o b \in Seq(S)
    BY ListsTogether DEF Then
  <2>8. M \in Seq(S)
    BY <2>3, <2>4, <2>5, <2>7
  <2>9. W \in Seq(S)
    BY <2>3, <2>4, <2>7, <2>8
  <2> HIDE DEF W
  <2> DEFINE v == Solve(r)
  <2>10. v \in Seq(S)
    BY <2>3, <2>4, <2>6, <2>7, <2>9
  <2>11. v # <<>> /\ Head(v) = "prepare"
    BY SolvePlanned
  <2> HIDE DEF v
  <2>12. Summed(v) /\ ~ Sum(v) /\ ~ Lags(v)
   <3>1. v \in Seq(Steps \ {"weighted_sum", "lag_kernel"})
     BY <2>10 DEF S
   <3> QED  BY <1>2, <3>1, PlainSummed
  <2>13. ~ Self(v)
   <3>1. \A i \in 1 .. Len(v) : v[i] # "self_energy"
     BY <2>10 DEF S
   <3> QED  BY <2>12, <3>1, OfNames DEF Summed, Self
  <2> QED  BY <1>2, <2>11, <2>12, <2>13 DEF v, Clear, Forcing
 <1>3. CASE ~ Tree
  <2> DEFINE piece == <<"gradient">>
  <2>1. piece \in Lists /\ Ends(MeshSolve(r), piece, Closing) /\ Closing \in SUBSET Steps
    BY <1>3, PlainEnds
  <2>2. "gradient" \in Steps
    BY StepNames DEF Milestones
  <2>3. \E a \in Seq(Common), c \in Seq(Closing) :
           c # <<>> /\ Solve(r) = Then(a, Then(piece, c))
   <3> HIDE DEF piece
   <3> QED  BY <1>3, <2>1, SolveEnds
  <2>4. PICK a \in Seq(Common), c \in Seq(Closing) :
           c # <<>> /\ Solve(r) = Then(a, Then(piece, c))
    BY <2>3
  <2> DEFINE g == Onto("gradient", c)
  <2>5. Then(piece, c) = g
   <3>1. c \in Lists
     BY <2>1, ListsOf
   <3> QED  BY <2>2, <3>1, Written1
  <2>6. Clear(g) /\ ~ Sum(g) /\ ~ Self(g)
    BY <2>4, GradientIsClear
  <2> HIDE DEF g, piece
  <2> QED  BY <2>4, <2>5, <2>6, ClearBefore
 <1> QED  BY <1>1, <1>2, <1>3

LEMMA MeasureSummed ==
    ASSUME ~ Tree, NEW r
    PROVE  /\ Summed(Measure(r)) /\ Sum(Measure(r)) /\ ~ Needed(Measure(r))
           /\ ~ Forcing(Measure(r)) /\ Head(Measure(r)) = "measure"
           /\ ~ Lags(Measure(r)) => mem[r].kernel
 <1> DEFINE lags == ~ mem[r].kernel
            d == <<"self_direction">>
            e == Then(Energy(r), d)
            f == Onto("measure_input", e)
            g == Onto("measure", f)
            A == <<"measure", "measure_input">>
 <1>0. lags \in BOOLEAN
   OBVIOUS
 <1>1. d \in Seq(Late) /\ d # <<>> /\ "callback" \notin ToSet(d) /\ d \in Lists
  <2>1. "self_direction" \in Late /\ Late \subseteq Steps
    BY DEF Late, Steps, Quiet, Checks, JointSteps
  <2>2. d \in Seq(Late)
    BY <2>1
  <2>3. ToSet(d) = {"self_direction"}
    BY DEF ToSet
  <2> QED  BY <2>1, <2>2, <2>3 DEF Lists
 <1>2. Energy(r) \in Lists
  <2>1. Energy(r) \in Seq(Quiet)
    BY EnergyIsQuiet
  <2> HIDE DEF Quiet
  <2> QED  BY <2>1 DEF Lists, Steps
 <1> HIDE DEF d
 <1>3. Runs(e, "potential_finite", TRUE, lags)
   BY <1>0, <1>1, EnergyRuns
 <1>4. e \in Lists
   BY <1>1, <1>2, ThenIsList
 <1>5. A \in Lists
   BY EnergyNames DEF Lists
 <1>6. Measure(r) = g
  <2>1. Measure(r) = Then(Then(A, Energy(r)), d)
    BY DEF Measure, Then, d
  <2>2. Then(A, e) = g
   <3> HIDE DEF e
   <3> QED  BY <1>4, EnergyNames, Written2
  <2> HIDE DEF A
  <2>3. Then(Then(A, Energy(r)), d) = Then(A, e)
    BY <1>1, <1>2, <1>5, ThenRegroups
  <2> QED  BY <2>1, <2>2, <2>3
 <1> HIDE DEF e
 <1>7. Runs(f, "measure_input", TRUE, lags)
  <2> DEFINE s == "measure_input"
             h == "potential_finite"
  <2>1. Runs(e, h, TRUE, lags) /\ s \in Spent \ {"callback"}
        /\ s \notin {"weighted_sum", "lag_kernel", "self_energy"} /\ h # "weighted_sum"
        /\ h \in Potentials
        /\ s \in Potentials
    BY <1>3, EnergyNames
  <2> HIDE DEF s, h, lags
  <2>2. Runs(Onto(s, e), s, TRUE, lags)
    BY <1>0, <2>1, RunsBefore
  <2> QED  BY <2>2 DEF s
 <1> HIDE DEF f
 <1>8. Runs(g, "measure", TRUE, lags)
  <2> DEFINE s == "measure"
             h == "measure_input"
  <2>1. Runs(f, h, TRUE, lags) /\ s \in Spent \ {"callback"}
        /\ s \notin {"weighted_sum", "lag_kernel", "self_energy"} /\ h # "weighted_sum"
        /\ h \in Potentials
        /\ s = "measure"
    BY <1>7, EnergyNames
  <2> HIDE DEF s, h, lags
  <2>2. Runs(Onto(s, f), s, TRUE, lags)
    BY <1>0, <2>1, RunsBefore
  <2> QED  BY <2>2 DEF s
 <1> HIDE DEF g
 <1>9. ~ Forcing(g)
  <2>1. "callback" \in Due(g) <=> "callback" \in ToSet(g)
    BY <1>8, OfNames DEF Runs, Summed
  <2> QED  BY <1>8, <2>1 DEF Forcing, Runs
 <1> QED  BY <1>6, <1>8, <1>9 DEF Runs

-----------------------------------------------------------------------------
(* A step on the way.                                                      *)
LEMMA SummedStep ==
    ASSUME NEW steps, Summed(steps), steps # <<>>
    PROVE  /\ Sums(Head(steps), Tail(steps)) /\ Summed(Tail(steps))
           /\ ToSet(steps) = {Head(steps)} \union ToSet(Tail(steps))
           /\ steps \in Seq(Steps) /\ Tail(steps) \in Seq(Steps) /\ Head(steps) \in Steps
 <1> DEFINE u == Tail(steps)
 <1>1. steps \in Seq(Steps)
   BY DEF Summed
 <1>2. /\ u = Rear(steps, 1) /\ Head(steps) = steps[1] /\ Head(steps) \in Steps
       /\ u \in Seq(Steps) /\ Len(steps) \in Nat \ {0} /\ Len(u) = Len(steps) - 1
       /\ \A j \in 1 .. Len(u) : u[j] = steps[1 + j]
   BY <1>1, TailIsRear
 <1> HIDE DEF u
 <1>3. 1 \in 1 .. Len(steps)
   BY <1>2
 <1>4. Sums(Head(steps), u)
   BY <1>2, <1>3 DEF Summed
 <1>5. ASSUME NEW i \in 1 .. Len(u)  PROVE Sums(u[i], Rear(u, i))
  <2>1. 1 + i \in 1 .. Len(steps) /\ i \in 0 .. Len(steps) - 1 /\ 1 \in 0 .. Len(steps)
    BY <1>2
  <2>2. Sums(steps[1 + i], Rear(steps, 1 + i))
    BY <2>1 DEF Summed
  <2>3. Rear(u, i) = Rear(steps, 1 + i)
    BY <1>1, <1>2, <2>1, RearOfRear
  <2> QED  BY <1>2, <2>2, <2>3
 <1>6. Summed(u)
   BY <1>2, <1>5 DEF Summed
 <1>7. steps = Onto(Head(steps), u)
   BY <1>1, Peel DEF u, Lists
 <1>8. ToSet(steps) = {Head(steps)} \union ToSet(u)
   BY <1>2, <1>7, OfBefore
 <1> QED  BY <1>1, <1>2, <1>4, <1>6, <1>8 DEF u

LEMMA NothingSummed ==
    /\ Summed(<<>>) /\ ~ Sum(<<>>) /\ ~ Lags(<<>>) /\ ~ Self(<<>>) /\ ~ Forcing(<<>>)
    /\ \A m, n, r : EnergyAt(<<>>, m, n, r)
 <1>1. ToSet(<<>>) = {} /\ Due(<<>>) = {}
   BY NothingIsPlanned DEF ToSet
 <1>2. Summed(<<>>)
   BY DEF Summed
 <1> QED  BY <1>1, <1>2 DEF Sum, Lags, Self, Forcing, EnergyAt

Energetic == {"density", "phi", "right", "kernel"}

LEMMA EnergySame ==
    ASSUME NEW steps, NEW m, NEW m2, NEW n, NEW r, Kept(m, m2, Energetic), EnergyAt(steps, m, n, r)
    PROVE  EnergyAt(steps, m2, n, r)
 <1>1. m2.density = m.density /\ m2.phi = m.phi /\ m2.right = m.right /\ m2.kernel = m.kernel
   BY DEF Kept, Energetic
 <1> QED  BY <1>1 DEF EnergyAt, ImpulseAt, Impulsive

(* The setup decides what the lists mean.                                  *)
LEMMA SameEnergy ==
    ASSUME setup' = setup
    PROVE  /\ \A s : Summed(s)' <=> Summed(s)
           /\ \A s : Forcing(s)' <=> Forcing(s)
           /\ \A s, m, n, r : EnergyAt(s, m, n, r)' <=> EnergyAt(s, m, n, r)
 <1>1. Size' = Size /\ Tree' = Tree /\ \A r : Right(r)' = Right(r)
   BY SameSetup
 <1>2. \A h : KernelLeads(h)' = KernelLeads(h)
   BY <1>1 DEF KernelLeads
 <1>3. \A s : Forcing(s)' <=> Forcing(s)
   BY <1>1 DEF Forcing
 <1>4. \A h, u : Sums(h, u)' <=> Sums(h, u)
   BY <1>1, <1>2, <1>3 DEF Sums
 <1>5. \A s : Summed(s)' <=> Summed(s)
   BY <1>4 DEF Summed
 <1>6. \A h, m, n : ImpulseAt(h, m, n)' <=> ImpulseAt(h, m, n)
   BY <1>1 DEF ImpulseAt, Impulsive
 <1>7. \A s, m, n, r : EnergyAt(s, m, n, r)' <=> EnergyAt(s, m, n, r)
   BY <1>1, <1>3, <1>6 DEF EnergyAt
 <1> QED  BY <1>3, <1>5, <1>7

LEMMA KernelLed ==
    ASSUME NEW x
    PROVE  /\ x \in KernelLeads("impulse")
                => x = IF Size = 1 THEN "impulse_conserved" ELSE "spill_mass"
           /\ x \in KernelLeads("spill_mass") => x = "send_spill"
           /\ x \in KernelLeads("send_spill") => x = "receive_spill"
           /\ x \in KernelLeads("receive_spill") => x = "spilled_mass"
           /\ x \in KernelLeads("spilled_mass") => x = "impulse_conserved"
           /\ x \in KernelLeads("impulse_conserved") => x = "normalize"
           /\ x \in KernelLeads("normalize") => x = "source"
           /\ x \in KernelLeads("source") => x = "forward"
           /\ x \in KernelLeads("forward") => x = "inverse"
           /\ x \in KernelLeads("inverse") => x = "potential_finite"
           /\ x \in KernelLeads("potential_finite") => x = "lag_kernel"
           /\ \A h : h \notin {"impulse", "impulse_conserved", "normalize", "source", "forward",
                               "inverse", "potential_finite"} \union Torrent
                       /\ x \in KernelLeads(h) => x \in {"rank_sum", "origin", "impulse"}
  BY DEF KernelLeads, Torrent

(* What the impulse's buffers hold, step by step.                          *)
LEMMA ImpulseReads ==
    ASSUME NEW m, NEW n
    PROVE  /\ \A h \in Torrent \union {"impulse_conserved"} :
                 ImpulseAt(h, m, n) <=> Impulsive(m, n)
           /\ \A h \in Massed : ImpulseAt(h, m, n)
                 <=> m.density = <<"impulse", IF Size = 1 THEN "own" ELSE "whole", n>>
           /\ ImpulseAt("forward", m, n) <=> m.density = <<"impulse", "source", n>>
           /\ ImpulseAt("inverse", m, n) <=> m.phi = <<"impulse", "phi", n>>
           /\ \A h \in {"potential_finite", "lag_kernel"} :
                 ImpulseAt(h, m, n) <=> m.density = <<"impulse", "potential", n>>
           /\ \A h \in {"rank_sum", "origin", "impulse"} : ImpulseAt(h, m, n)
  BY DEF ImpulseAt, Torrent, Massed

-----------------------------------------------------------------------------
(* What the steps of a rank do to the impulse.                             *)
LEMMA EnergyStepIs ==
    ASSUME NEW r, RankStep(r), todo[r] # <<>>
    PROVE  /\ Head(todo[r]) = "impulse" => DepositImpulse(r)
           /\ Head(todo[r]) = "impulse_conserved" => ImpulseConserved(r)
           /\ Head(todo[r]) = "weighted_sum" => WeightedSum(r)
           /\ Head(todo[r]) = "self_energy" => SelfEnergy(r)
  BY NamedSteps DEF Plain, Checks, Keeping, Sends

LEMMA EnergyWrites ==
    /\ \A s \in {"send_spill", "spill_mass", "spilled_mass", "impulse_conserved", "normalize",
                 "potential_finite", "measure", "measure_input", "send_potential_plane",
                 "receive_plane", "commit_check", "commit", "balance", "gradient"} :
          "density" \notin Written(s)
    /\ \A s \in JointSteps \union {"walk", "axis_gather", "prepare", "measure"} : Written(s) = {}
    /\ \A s : s # "weighted_sum" /\ s # "nothing" => "energy" \notin Written(s)
    /\ \A s : s # "self_energy" /\ s # "nothing" => "self" \notin Written(s)
    /\ \A s : {"phi", "kernel", "lags"} \intersect Written(s) = {}
    /\ {"density", "phi", "right", "kernel", "lags", "energy", "self"} \subseteq Fields
  BY FieldNames DEF Written, Keeping, Sends, JointSteps

LEMMA ImpulseTurns ==
    ASSUME PipelineTypes, ForceTypes, NEW r \in Ranks, ~ error'[r], Frame(r), todo[r] # <<>>,
           RankStep(r), NEW h, h = Head(todo[r]), StepOf(r) = h,
           NEW n, n = solve[r], NEW h2 \in KernelLeads(h),
           h \notin JointSteps, ImpulseAt(h, mem[r], n)
    PROVE  ImpulseAt(h2, mem'[r], n)
 <1> DEFINE m == mem[r]
            m2 == mem'[r]
            whole == IF Size = 1 THEN "own" ELSE "whole"
 <1>1. \A f \in Fields \ Written(h) : m2[f] = m[f]
   BY DEF Frame, Writes
 <1>2. "density" \in Fields
   BY FieldNames
 <1>3. CASE h = "impulse"
  <2> DEFINE b == [density |-> <<"impulse", "own", solve[r]>>,
                   out |-> <<"impulse", "spill", solve[r], r>>, axis |-> 0]
  <2>1. Stage(r, "impulse", b)
    BY <1>3, EnergyStepIs DEF DepositImpulse, Deposit
  <2>2. DOMAIN b = {"density", "out", "axis"} /\ b.density = <<"impulse", "own", n>>
    OBVIOUS
  <2> HIDE DEF b
  <2>3. m2.density = b.density
    BY FieldNames, <2>1, <2>2, StageKeeps
  <2>4. Impulsive(m2, n)
    BY <2>2, <2>3 DEF Impulsive
  <2>5. h2 \in Torrent \union {"impulse_conserved"}
   <3>1. h2 = IF Size = 1 THEN "impulse_conserved" ELSE "spill_mass"
     BY <1>3, KernelLed
   <3> QED  BY <3>1 DEF Torrent
  <2> QED  BY <2>4, <2>5, ImpulseReads
 <1>4. CASE h \in {"spill_mass", "send_spill", "spilled_mass"}
  <2>1. m2.density = m.density
    BY <1>1, <1>2, <1>4, EnergyWrites
  <2>2. h \in Torrent /\ h2 \in Torrent \union {"impulse_conserved"}
    BY <1>4, KernelLed DEF Torrent
  <2>3. Impulsive(m, n)
    BY <2>2, ImpulseReads
  <2>4. Impulsive(m2, n)
    BY <2>1, <2>3 DEF Impulsive
  <2> QED  BY <2>2, <2>4, ImpulseReads
 <1>5. CASE h = "receive_spill"
  <2> DEFINE y == IF /\ Is(m.density, "own")
                     /\ Head(spills[r]) = Append(As(m.density, "spill"), Left(r))
                  THEN As(m.density, "whole") ELSE Torn
             b == [density |-> y]
  <2>1. Keep(r, b)
    BY <1>5, StepIs DEF ReceiveSpill
  <2>2. DOMAIN b = {"density"} /\ b.density = y
    OBVIOUS
  <2>3. m2.density = y
   <3> HIDE DEF b, y
   <3> QED  BY <1>2, <2>1, <2>2, KeepWrites
  <2>4. Impulsive(m, n)
    BY <1>5, ImpulseReads DEF Torrent
  <2>5. y \in {Torn, <<"impulse", "whole", n>>}
   <3>1. y = Torn \/ (Is(m.density, "own") /\ y = As(m.density, "whole"))
     OBVIOUS
   <3>2. CASE m.density = Torn
     BY <3>1, <3>2, LabelsRead
   <3>3. ASSUME NEW x \in {"own", "whole"}, m.density = <<"impulse", x, n>>
         PROVE  y \in {Torn, <<"impulse", "whole", n>>}
    <4>1. As(m.density, "whole") = <<"impulse", "whole", n>>
      BY <3>3, LabelsRead
    <4> QED  BY <3>1, <4>1
   <3> QED  BY <2>4, <3>2, <3>3 DEF Impulsive
  <2>6. Impulsive(m2, n)
    BY <2>3, <2>5 DEF Impulsive
  <2>7. h2 \in Torrent
    BY <1>5, KernelLed DEF Torrent
  <2> QED  BY <2>6, <2>7, ImpulseReads
 <1>6. CASE h = "impulse_conserved"
  <2> DEFINE b == [ready |-> TRUE]
  <2>1. Examine(r, "impulse_conserved", Whole(r), b) /\ DOMAIN b = {"ready"}
    BY <1>6, EnergyStepIs DEF ImpulseConserved
  <2> HIDE DEF b
  <2>2. Whole(r)
    BY <2>1, FieldNames, ExamineKeeps
  <2>3. Impulsive(m, n)
   <3>1. h \in Torrent \union {"impulse_conserved"}
     BY <1>6
   <3> QED  BY <3>1, ImpulseReads
  <2>4. m.density = <<"impulse", whole, n>>
   <3>1. m.density # Torn
     BY <2>2, LabelsRead DEF Whole
   <3>2. PICK x \in {"own", "whole"} : m.density = <<"impulse", x, n>>
     BY <2>3, <3>1 DEF Impulsive
   <3>3. Is(<<"impulse", x, n>>, whole)
     BY <2>2, <3>2 DEF Whole
   <3>4. x = whole
     BY <3>3, LabelsRead
   <3> QED  BY <3>2, <3>4
  <2>5. m2.density = m.density
    BY <1>1, <1>2, <1>6, EnergyWrites
  <2>6. h2 \in Massed
    BY <1>6, KernelLed DEF Massed
  <2> QED  BY <2>4, <2>5, <2>6, ImpulseReads
 <1>7. CASE h = "normalize"
  <2>1. m2.density = m.density
    BY <1>1, <1>2, <1>7, EnergyWrites
  <2>2. h \in Massed /\ h2 \in Massed
    BY <1>7, KernelLed DEF Massed
  <2>3. m.density = <<"impulse", whole, n>>
    BY <2>2, ImpulseReads
  <2> QED  BY <2>1, <2>2, <2>3, ImpulseReads
 <1>8. CASE h = "source"
  <2> DEFINE y == IF Whole(r) THEN As(m.density, "source") ELSE Torn
             b == [density |-> y]
  <2>1. Stage(r, "source", b)
    BY <1>8, StepIs DEF Source
  <2>2. DOMAIN b = {"density"} /\ b.density = y
    OBVIOUS
  <2>3. m.density = <<"impulse", whole, n>>
    BY <1>8, ImpulseReads DEF Massed
  <2>4. y = <<"impulse", "source", n>>
   <3>1. As(m.density, "source") = <<"impulse", "source", n>>
     BY <2>3, LabelsRead
   <3>2. Is(m.density, whole)
     BY <2>3, LabelsRead
   <3>3. Whole(r)
     BY <3>2 DEF Whole
   <3> QED  BY <3>1, <3>3
  <2>5. m2.density = y
   <3> HIDE DEF b, y
   <3> QED  BY <1>2, <2>1, <2>2, StageKeeps
  <2>6. h2 = "forward"
    BY <1>8, KernelLed
  <2> QED  BY <2>4, <2>5, <2>6, ImpulseReads
 <1>9. CASE h = "potential_finite"
  <2>1. m2.density = m.density
    BY <1>1, <1>2, <1>9, EnergyWrites
  <2>2. h2 = "lag_kernel"
    BY <1>9, KernelLed
  <2> QED  BY <1>9, <2>1, <2>2, ImpulseReads
 <1>10. CASE h \notin {"impulse", "impulse_conserved", "normalize", "source", "forward",
                       "inverse", "potential_finite"} \union Torrent
  <2>1. h2 \in {"rank_sum", "origin", "impulse"}
    BY <1>10, KernelLed
  <2> QED  BY <2>1, ImpulseReads
 <1> QED  BY <1>3, <1>4, <1>5, <1>6, <1>7, <1>8, <1>9, <1>10 DEF JointSteps, Torrent

(* The clauses of EnergyAt, one rank's step on.                            *)
LEMMA EnergyGoesOn ==
    ASSUME PipelineTypes, ForceTypes, Courses, NEW r \in Ranks, ~ error'[r], Frame(r),
           RankStep(r), NEW t, t = todo[r], t # <<>>, NEW u, u = Tail(t), NEW h, h = Head(t),
           StepOf(r) = h, h \notin JointSteps,
           Summed(t), EnergyAt(t, mem[r], solve[r], r), MeshHolds(t, mem[r], solve[r], r),
           PlaneOf(r)
    PROVE  EnergyAt(u, mem'[r], solve'[r], r)
 <1> DEFINE m == mem[r]
            m2 == mem'[r]
            n == solve[r]
            n2 == solve'[r]
            h2 == Head(u)
 <1>1. /\ Fits(h, u) /\ u \in Seq(Steps) /\ t \in Seq(Steps)
       /\ Due(t) = Due(u) \union ({h} \intersect Milestones)
  <2>1. Planned(t) /\ Rooted(t)
    BY DEF Courses, ListsPlanned
  <2>2. /\ Fits(Head(t), Tail(t)) /\ Tail(t) \in Seq(Steps) /\ t \in Seq(Steps)
        /\ Due(t) = Due(Tail(t)) \union ({Head(t)} \intersect Milestones)
    BY <2>1, Leaving
  <2> QED  BY <2>2
 <1>2. Sums(h, u) /\ ToSet(t) = {h} \union ToSet(u)
   BY SummedStep
 <1>3. /\ \A f \in Fields \ Written(h) : m2[f] = m[f]
       /\ h # "prepare" => n2 = n
       /\ m2.phi = m.phi /\ m2.kernel = m.kernel
  <2>1. \A f \in Fields \ Written(h) : m2[f] = m[f]
    BY DEF Frame, Writes
  <2>2. h # "prepare" => n2 = n
    BY DEF Frame, ForceTypes
  <2> QED  BY <2>1, <2>2, EnergyWrites
 <1>4. /\ Needed(t) <=> Needed(u) \/ h \in {"axis_gather", "gradient"}
       /\ Sum(t) <=> Sum(u) \/ h = "weighted_sum"
       /\ Lags(t) <=> Lags(u) \/ h = "lag_kernel"
       /\ Self(t) <=> Self(u) \/ h = "self_energy"
       /\ h # "lag_kernel"
   BY <1>1, <1>2 DEF Needed, Milestones, Sum, Lags, Self, JointSteps
 <1>5. Sum(u) /\ ~ Needed(u) =>
          IF h2 \in {"axis_finite", "inverse"} THEN m2.phi = <<"mass", "phi", n2>>
                                               ELSE m2.density = Potential(n2)
  <2> SUFFICES ASSUME Sum(u), ~ Needed(u)
               PROVE  IF h2 \in {"axis_finite", "inverse"} THEN m2.phi = <<"mass", "phi", n2>>
                                              ELSE m2.density = Potential(n2)
    OBVIOUS
  <2>1. \/ h = "axis_gather" /\ h2 = "axis_finite"
        \/ h = "axis_finite" /\ h2 = "inverse"
        \/ h \in {"inverse", "measure"} \union Potentials /\ h2 \in Potentials
    BY <1>2 DEF Sums
  <2>2. CASE h = "axis_gather" /\ h2 = "axis_finite"
   <3>1. Needed(t)
     BY <1>4, <2>2
   <3>2. MeshAt("axis_gather", "axis_gather" \in Due(t), Gathers(t), m, n, r)
     BY <2>2, <3>1 DEF MeshHolds
   <3>3. m.phi = <<"mass", "phi", n>>
     BY <3>2 DEF MeshAt, Forced
   <3> QED  BY <1>3, <2>2, <3>3
  <2>3. CASE h = "axis_finite" /\ h2 = "inverse"
   <3>1. Sum(t) /\ ~ Needed(t)
     BY <1>4, <2>3
   <3>2. m.phi = <<"mass", "phi", n>>
     BY <2>3, <3>1 DEF EnergyAt
   <3> QED  BY <1>3, <2>3, <3>2
  <2>4. CASE h \in {"inverse", "measure"} \union Potentials /\ h2 \in Potentials
   <3>1. h # "inverse" /\ h # "weighted_sum"
     BY <1>2 DEF JointSteps, Sums
   <3>2. h \in {"measure", "measure_input", "potential_finite", "send_potential_plane",
                "receive_plane"}
     BY <2>4, <3>1 DEF Potentials
   <3>3. Sum(t) /\ ~ Needed(t)
     BY <1>4, <3>2
   <3>4. m.density = Potential(n)
     BY <3>2, <3>3 DEF EnergyAt
   <3>5. m2.density = m.density /\ n2 = n
     BY <1>3, <3>2, EnergyWrites
   <3>6. h2 \notin {"axis_finite", "inverse"}
     BY <2>4 DEF Potentials
   <3> QED  BY <3>4, <3>5, <3>6
  <2> QED  BY <2>1, <2>2, <2>3, <2>4
 <1>6. u # <<>> /\ h2 = "weighted_sum" /\ Size # 1 => m2.right = Append(m2.density, Right(r))
  <2> SUFFICES ASSUME u # <<>>, h2 = "weighted_sum", Size # 1
               PROVE  m2.right = Append(m2.density, Right(r))
    OBVIOUS
  <2>1. h = "receive_plane"
    BY <1>2 DEF Sums
  <2>2. Sum(u)
    BY <1>1, OfNames DEF Sum
  <2>3. ~ Needed(u)
   <3>1. Needed(u) => h2 \in Leads(h)
     BY <1>1 DEF Fits
   <3> QED  BY <2>1, <3>1, LeadsAre
  <2>4. m2.density = Potential(n2) /\ n2 = n
    BY <1>3, <1>5, <2>1, <2>2, <2>3
  <2>5. ReceivePlane(r)
    BY <2>1, StepIs
  <2>6. planes[r] = <<Append(Potential(n), Right(r))>>
   <3>1. t[2] = "weighted_sum"
    <4>1. /\ Len(u) = Len(t) - 1 /\ Len(t) \in Nat
          /\ \A j \in 1 .. Len(u) : u[j] = t[1 + j]
      BY <1>1, TailIsRear
    <4>2. h2 = u[1] /\ Len(u) # 0
      BY <1>1
    <4>3. 1 \in 1 .. Len(u) /\ 1 + 1 = 2
      BY <4>1, <4>2
    <4> QED  BY <4>1, <4>2, <4>3
   <3>2. Exchanging(t) /\ ~ ForceAhead(t)
     BY <2>1, <3>1 DEF Exchanging, ForceAhead
   <3>3. planes[r] # <<>>
     BY <2>5 DEF ReceivePlane
   <3> QED  BY <3>2, <3>3 DEF PlaneOf
  <2>7. m2.right = Head(planes[r])
   <3> DEFINE b == [right |-> Head(planes[r])]
   <3>1. Keep(r, b) /\ DOMAIN b = {"right"} /\ b.right = Head(planes[r])
     BY <2>5 DEF ReceivePlane
   <3> HIDE DEF b
   <3> QED  BY <3>1, FieldNames, KeepWrites
  <2>8. m2.right = Append(Potential(n), Right(r))
    BY <2>6, <2>7
  <2> QED  BY <2>4, <2>8
 <1>7. Lags(u) /\ ~ Sum(u) => ImpulseAt(h2, m2, n2)
  <2> SUFFICES ASSUME Lags(u), ~ Sum(u)
               PROVE  ImpulseAt(h2, m2, n2)
    OBVIOUS
  <2>1. h2 \in KernelLeads(h)
    BY <1>2 DEF Sums
  <2>2. CASE h \in {"weighted_sum", "prepare"}
   <3>1. h2 \in {"rank_sum", "origin", "impulse"}
     BY <2>1, <2>2, KernelLed DEF Torrent
   <3> QED  BY <3>1, ImpulseReads
  <2>3. CASE h \notin {"weighted_sum", "prepare"}
   <3>1. ImpulseAt(h, m, n)
     BY <1>4, <2>3 DEF EnergyAt
   <3>2. ImpulseAt(h2, m2, n)
     BY <2>1, <3>1, ImpulseTurns
   <3> QED  BY <1>3, <2>3, <3>2
  <2> QED  BY <2>2, <2>3
 <1>8. Forcing(u) => m2.density = Potential(n2)
  <2> SUFFICES ASSUME Forcing(u)
               PROVE  m2.density = Potential(n2)
    OBVIOUS
  <2>1. h \in {"gradient", "commit_check", "commit", "balance"}
    BY <1>2 DEF Sums, JointSteps
  <2>2. m.density = Potential(n)
   <3>1. CASE h = "gradient"
    <4>1. Needed(t)
      BY <1>4, <3>1
    <4>2. MeshAt("gradient", "axis_gather" \in Due(t), Gathers(t), m, n, r)
      BY <3>1, <4>1 DEF MeshHolds
    <4> QED  BY <4>2 DEF MeshAt, Known, Answered
   <3>2. CASE h # "gradient"
    <4>1. Forcing(t)
      BY <1>1, <1>4, <2>1, <3>2 DEF Forcing
    <4> QED  BY <4>1 DEF EnergyAt
   <3> QED  BY <3>1, <3>2
  <2>3. m2.density = m.density /\ n2 = n
    BY <1>3, <2>1, EnergyWrites
  <2> QED  BY <2>2, <2>3
 <1>9. Self(u) /\ ~ Lags(u) => m2.kernel
   BY <1>3, <1>4 DEF EnergyAt
 <1> QED  BY <1>5, <1>6, <1>7, <1>8, <1>9 DEF EnergyAt

-----------------------------------------------------------------------------
(* What is to be shown of a rank.                                          *)
LEMMA EnergyNext ==
    ASSUME setup' = setup, NEW q,
           ~ error'[q] => Summed(todo'[q]) /\ EnergyAt(Ahead(q)', mem'[q], solve'[q], q),
           mem'[q].kernel => mem'[q].lags = <<"impulse">>,
           ended'[q] = "returned" \/ (~ error'[q] /\ todo'[q] # <<>>)
             => ResultAt(mem'[q], solve'[q]),
           ~ waiting'[q] /\ StepOf(q)' = "prepare" => mem'[q].energy = <<>>,
           ended'[q] = "returned" => StepOf(q)' \in {"nothing", "prepare", "measure"},
           Measuring(q)' /\ ended'[q] = "returned" /\ todo'[q] = <<>>
             => mem'[q].density = Potential(solve'[q]),
           Measuring(q)' /\ ~ error'[q] /\ todo'[q] # <<>> => "callback" \in Due(todo'[q])
    PROVE  EnergyOf(q)'
 <1>1. /\ \A s : Summed(s)' <=> Summed(s)
       /\ \A s, m, n : EnergyAt(s, m, n, q)' <=> EnergyAt(s, m, n, q)
   BY SameEnergy
 <1>2. /\ \A m, n : ResultAt(m, n)' <=> ResultAt(m, n)
       /\ \A n : Potential(n)' = Potential(n)
       /\ \A s : Due(s)' = Due(s)
   BY DEF ResultAt, Potential, Due, Milestones
 <1> QED  BY <1>1, <1>2 DEF EnergyOf

LEMMA EnergyBeside ==
    ASSUME setup' = setup, NEW q, EnergyOf(q), Ahead(q)' = Ahead(q), todo'[q] = todo[q],
           waiting'[q] = waiting[q], error'[q] = error[q], mem'[q] = mem[q],
           solve'[q] = solve[q], calls'[q] = calls[q], ended'[q] = ended[q]
    PROVE  EnergyOf(q)'
 <1>1. StepOf(q)' = StepOf(q) /\ (Measuring(q)' <=> Measuring(q))
   BY DEF StepOf, Measuring
 <1> QED  BY <1>1, EnergyNext DEF EnergyOf

(* A sum over a potential, and the kernel's part of it.                    *)
LEMMA SumIsRight ==
    ASSUME PipelineTypes, ForceTypes, NEW r \in Ranks, RankStep(r), ~ error'[r], todo[r] # <<>>,
           Head(todo[r]) = "weighted_sum", Summed(todo[r]),
           EnergyAt(todo[r], mem[r], solve[r], r)
    PROVE  mem'[r].energy = Potential(solve[r])
 <1> DEFINE t == todo[r]
            u == Tail(t)
            b == [energy |-> Seen(r, "density")]
 <1>1. Sums("weighted_sum", u) /\ ToSet(t) = {"weighted_sum"} \union ToSet(u)
       /\ t \in Seq(Steps) /\ u \in Seq(Steps)
   BY SummedStep
 <1>2. ~ Needed(u)
   BY <1>1 DEF Sums
 <1>3. Sum(t) /\ ~ Needed(t)
  <2>1. Needed(t) => Needed(u)
    BY <1>1, OfNames
  <2> QED  BY <1>1, <1>2, <2>1 DEF Sum
 <1>4. mem[r].density = Potential(solve[r])
       /\ (Size # 1 => mem[r].right = Append(mem[r].density, Right(r)))
   BY <1>3 DEF EnergyAt
 <1>5. Seen(r, "density") = Potential(solve[r])
   BY <1>4 DEF Seen
 <1>6. Stage(r, "weighted_sum", b)
   BY EnergyStepIs DEF WeightedSum
 <1>7. DOMAIN b = {"energy"} /\ b.energy = Seen(r, "density")
   OBVIOUS
 <1> HIDE DEF b
 <1>8. DOMAIN b \subseteq Fields
   BY <1>7, FieldNames
 <1>9. mem'[r].energy = b.energy
   BY <1>6, <1>7, <1>8, StageKeeps
 <1> QED  BY <1>5, <1>7, <1>9

LEMMA SelfIsRight ==
    ASSUME PipelineTypes, ForceTypes, NEW r \in Ranks, RankStep(r), ~ error'[r], todo[r] # <<>>,
           Head(todo[r]) = "self_energy", Summed(todo[r]),
           EnergyAt(todo[r], mem[r], solve[r], r), mem[r].kernel => mem[r].lags = <<"impulse">>
    PROVE  mem'[r].self = <<"impulse">>
 <1> DEFINE t == todo[r]
            u == Tail(t)
            b == [self |-> mem[r].lags]
 <1>1. Sums("self_energy", u) /\ ToSet(t) = {"self_energy"} \union ToSet(u)
   BY SummedStep
 <1>2. Self(t) /\ ~ Lags(t)
   BY <1>1 DEF Sums, Self, Lags
 <1>3. mem[r].lags = <<"impulse">>
   BY <1>2 DEF EnergyAt
 <1>4. Stage(r, "self_energy", b)
   BY EnergyStepIs DEF SelfEnergy
 <1>5. DOMAIN b = {"self"} /\ b.self = mem[r].lags
   OBVIOUS
 <1> HIDE DEF b
 <1>6. DOMAIN b \subseteq Fields
   BY <1>5, FieldNames
 <1>7. mem'[r].self = b.self
   BY <1>4, <1>5, <1>6, StageKeeps
 <1> QED  BY <1>3, <1>5, <1>7

LEMMA EnergyMoves ==
    ASSUME PipelineInv, ForceInv, EnergyInv, Unprotected = {}, NEW r \in Ranks, RankStep(r),
           Frame(r), todo[r] # <<>>
    PROVE  EnergyOf(r)'
 <1> DEFINE t == todo[r]
            u == Tail(t)
            h == Head(t)
            m == mem[r]
            m2 == mem'[r]
            n == solve[r]
 <1>1. /\ PipelineTypes /\ ForceTypes /\ Courses /\ Contents /\ EnergyOf(r) /\ PlaneOf(r)
       /\ setup' = setup
   BY DEF PipelineInv, ForceInv, EnergyInv, Courses, Frame
 <1>2. /\ ~ waiting[r] /\ ~ error[r] /\ Ahead(r) = t /\ StepOf(r) = h
       /\ calls' = calls /\ ended' = ended
       /\ \/ Breaks(r, t, u) \/ Joins(r, t, u) \/ Passes(r, t, u) \/ Jumps(r, t, u)
          \/ Walks(r, t)
   BY <1>1, HowItMoves DEF Courses
 <1>3. /\ Summed(t) /\ EnergyAt(t, m, n, r) /\ ResultAt(m, n) /\ t # <<>>
       /\ m.kernel => m.lags = <<"impulse">>
       /\ MeshHolds(t, m, n, r)
   BY <1>1, <1>2 DEF EnergyOf, Contents
 <1>4. Summed(u) /\ t \in Seq(Steps) /\ h \in Steps
   BY <1>3, SummedStep
 <1>5. /\ \A f \in Fields \ Written(h) : m2[f] = m[f]
       /\ h # "prepare" => solve'[r] = n
   BY <1>1, <1>2 DEF Frame, Writes, ForceTypes
 <1>6. m2.kernel = m.kernel /\ m2.lags = m.lags
   BY <1>5, EnergyWrites
 <1>7. Planned(t) /\ Rooted(t)
   BY <1>1 DEF Courses, ListsPlanned
 <1>8. /\ "prepare" \notin Due(u) /\ u \in Seq(Steps)
       /\ Due(t) = Due(u) \union ({h} \intersect Milestones)
   BY <1>3, <1>7, Leaving
 <1>9. ~ error'[r] => \/ Ahead(r)' = t /\ h \in JointSteps \union {"walk"}
                      \/ Ahead(r)' = u /\ h \notin JointSteps
   BY <1>1, Onwards
 <1>10. /\ h \notin Locals \union {"tree", "walk"} => todo'[r] = t
        /\ ~ error'[r] => todo'[r] = t \/ (todo'[r] = u /\ h \in Locals)
        /\ ~ waiting'[r] => (todo'[r] = t /\ h = "walk") \/ todo'[r] = u
   BY <1>2 DEF Breaks, Joins, Passes, Jumps, Walks, Locals
 <1>11. ended[r] = "returned" => h \in {"prepare", "measure"} /\ todo'[r] = t
  <2>1. h # "nothing" /\ {"prepare", "measure"} \intersect (Locals \union {"tree", "walk"}) = {}
    BY <1>4 DEF Steps, Quiet, Checks, JointSteps, Locals
  <2> QED  BY <1>1, <1>2, <1>10, <2>1 DEF EnergyOf
 <1>12. ~ error'[r] => Summed(todo'[r]) /\ EnergyAt(Ahead(r)', m2, solve'[r], r)
  <2> SUFFICES ASSUME ~ error'[r]
               PROVE  EnergyAt(Ahead(r)', m2, solve'[r], r)
    BY <1>3, <1>4, <1>10
  <2>1. CASE Ahead(r)' = t /\ h \in JointSteps \union {"walk"}
   <3>1. Written(h) = {} /\ h # "prepare"
     BY <2>1, EnergyWrites DEF JointSteps
   <3>2. Kept(m, m2, Energetic)
     BY <1>5, <3>1, EnergyWrites DEF Kept, Energetic
   <3>3. solve'[r] = n
     BY <1>5, <3>1
   <3> QED  BY <1>3, <2>1, <3>2, <3>3, EnergySame
  <2>2. CASE Ahead(r)' = u /\ h \notin JointSteps
   <3>1. EnergyAt(u, mem'[r], solve'[r], r)
    <4> HIDE DEF t, u, h
    <4>1. t = todo[r] /\ u = Tail(t) /\ h = Head(t)
      BY DEF t, u, h
    <4> QED  BY <1>1, <1>2, <1>3, <2>2, <4>1, EnergyGoesOn
   <3> QED  BY <2>2, <3>1
  <2> QED  BY <1>9, <2>1, <2>2
 <1>13. m2.kernel => m2.lags = <<"impulse">>
   BY <1>3, <1>6
 <1>14. ended'[r] = "returned" \/ (~ error'[r] /\ todo'[r] # <<>>) => ResultAt(m2, solve'[r])
  <2> SUFFICES ASSUME ended[r] = "returned" \/ ~ error'[r]
               PROVE  ResultAt(m2, solve'[r])
    BY <1>2
  <2>1. m.energy \in {<<>>, Potential(n)} /\ m.self \in {<<>>, <<"impulse">>}
    BY <1>3 DEF ResultAt
  <2>2. m2.self \in {<<>>, <<"impulse">>}
   <3>1. CASE h = "self_energy"
     BY <1>1, <1>3, <1>11, <3>1, SelfIsRight
   <3>2. CASE h # "self_energy"
     BY <1>4, <1>5, <2>1, <3>2, EnergyWrites DEF Steps, Quiet, Checks, JointSteps
   <3> QED  BY <3>1, <3>2
  <2>3. m2.energy \in {<<>>, Potential(solve'[r])}
   <3>1. CASE h = "weighted_sum"
     BY <1>1, <1>3, <1>5, <1>11, <3>1, SumIsRight
   <3>2. CASE h # "weighted_sum"
    <4>1. m2.energy = m.energy
      BY <1>4, <1>5, <3>2, EnergyWrites DEF Steps, Quiet, Checks, JointSteps
    <4>2. h = "prepare" => m.energy = <<>>
      BY <1>1, <1>2 DEF EnergyOf
    <4> QED  BY <1>5, <2>1, <4>1, <4>2
   <3> QED  BY <3>1, <3>2
  <2> QED  BY <2>2, <2>3 DEF ResultAt
 <1>15. ~ waiting'[r] => StepOf(r)' # "prepare"
  <2>1. u # <<>> /\ Head(u) = "prepare" => "prepare" \in Due(u)
    BY <1>8, OfNames DEF Milestones
  <2> QED  BY <1>8, <1>10, <2>1 DEF StepOf
 <1>16. ended'[r] = "returned" => StepOf(r)' \in {"prepare", "measure"} /\ todo'[r] # <<>>
   BY <1>2, <1>3, <1>11 DEF StepOf
 <1>17. Measuring(r)' /\ ~ error'[r] /\ todo'[r] # <<>> => "callback" \in Due(todo'[r])
  <2>1. Measuring(r)' <=> Measuring(r)
    BY <1>2 DEF Measuring
  <2>2. Measuring(r) => "callback" \in Due(t)
    BY <1>1, <1>2, <1>3 DEF EnergyOf
  <2>3. h \in Locals => h # "callback"
    BY DEF Locals
  <2> QED  BY <1>8, <1>10, <2>1, <2>2, <2>3
 <1> HIDE DEF t, u, h, n
 <1> QED  BY <1>1, <1>12, <1>13, <1>14, <1>15, <1>16, <1>17, EnergyNext

-----------------------------------------------------------------------------
(* The plane of a potential that is under way.                             *)
LEMMA PlaneNext ==
    ASSUME setup' = setup, NEW q,
           planes'[q] # <<>> /\ Exchanging(todo'[q]) /\ ~ ForceAhead(todo'[q])
             => planes'[q] = <<Append(Potential(solve'[q]), Right(q))>>
    PROVE  PlaneOf(q)'
 <1>1. Right(q)' = Right(q) /\ \A n : Potential(n)' = Potential(n)
   BY SameSetup DEF Potential
 <1>2. \A s : /\ Exchanging(s)' <=> Exchanging(s)
              /\ ForceAhead(s)' <=> ForceAhead(s)
   BY DEF Exchanging, ForceAhead, Sends
 <1> QED  BY <1>1, <1>2 DEF PlaneOf

LEMMA NoPlane ==
    ASSUME ForceInv, NEW r \in Ranks, PipelineTypes, ~ Exchanging(todo[r])
    PROVE  planes[r] = <<>>
 <1>1. Right(r) \in Ranks
   BY Ring
 <1>2. /\ Match(todo[r], todo[Right(r)], planes[r], mem[r].force, Right(r))
       /\ Planned(todo[Right(r)]) /\ Rooted(todo[Right(r)])
   BY <1>1 DEF ForceInv, PlanesMatch, ListsPlanned
 <1> QED  BY <1>2, NoSender

(* Ranks that exchange are in the same solve.                              *)
LEMMA SameSolve ==
    ASSUME PipelineInv, ForceInv, NEW q \in Ranks, NEW r \in Ranks,
           Exchanging(todo[q]), Exchanging(todo[r])
    PROVE  solve[q] = solve[r]
 <1>1. todo[q] # <<>> /\ todo[r] # <<>>
   BY DEF Exchanging
 <1>2. Made(q) = Made(r)
  <2>1. PICK n \in 1 .. Len(setup.calls), steps \in Seq(Steps) :
           InCall(n, steps) /\ Inside(r, n, steps)
    BY <1>1, MoverIsInside DEF PipelineInv
  <2>2. Inside(q, n, steps)
    BY <1>1, <2>1 DEF InCall, Before
  <2> QED  BY <2>1, <2>2 DEF Inside
 <1>3. ASSUME NEW s \in Ranks, Exchanging(todo[s])
       PROVE  solve[s] = Solves(Made(s))
  <2>1. /\ Planned(todo[s]) /\ Rooted(todo[s]) /\ todo[s] # <<>>
        /\ Head(todo[s]) \in Locals /\ Head(todo[s]) # "prepare"
    BY <1>3 DEF ForceInv, ListsPlanned, Exchanging, Sends, Locals
  <2>2. "prepare" \notin Due(todo[s])
    BY <2>1, Leaving
  <2>3. Ahead(s) = todo[s]
    BY <2>1 DEF PipelineInv, WaitsForAll, Ahead
  <2>4. solve[s] + (IF "prepare" \in Due(Ahead(s)) THEN 1 ELSE 0) = Solves(Made(s))
        /\ solve[s] \in Nat
    BY DEF ForceInv, Numbered, ForceTypes
  <2> QED  BY <2>2, <2>3, <2>4
 <1> QED  BY <1>2, <1>3

(* What is sent of a potential is of the solve.                            *)
LEMMA SentIsRight ==
    ASSUME PipelineInv, ForceInv, EnergyInv, NEW r \in Ranks, ~ error[r], todo[r] # <<>>,
           Ahead(r) = todo[r], Head(todo[r]) = "send_potential_plane"
    PROVE  mem[r].density = Potential(solve[r])
 <1> DEFINE t == todo[r]
            u == Tail(t)
 <1>1. Planned(t) /\ Rooted(t) /\ EnergyAt(t, mem[r], solve[r], r)
   BY DEF ForceInv, ListsPlanned, EnergyInv, EnergyOf
 <1>2. /\ Fits("send_potential_plane", u) /\ u \in Seq(Steps) /\ t \in Seq(Steps)
       /\ Due(t) = Due(u) \union ({"send_potential_plane"} \intersect Milestones)
   BY <1>1, Leaving
 <1>3. /\ u # <<>> /\ Head(u) = "receive_plane" /\ Tail(u) # <<>>
       /\ Head(Tail(u)) = "weighted_sum"
   BY <1>2 DEF Fits, Sends, Taker
 <1>4. Sum(t)
  <2>1. /\ Tail(t) = Rear(t, 1) /\ Len(t) \in Nat \ {0}
        /\ Tail(u) \in Seq(Steps) /\ Tail(u) = Rear(u, 1) /\ Len(u) \in Nat \ {0}
   <3>1. t # <<>>
     OBVIOUS
   <3> HIDE DEF t, u
   <3> QED  BY <1>2, <1>3, <3>1, TailIsRear
  <2>2. ToSet(u) \subseteq ToSet(t) /\ ToSet(Tail(u)) \subseteq ToSet(u)
   <3>1. 1 \in 0 .. Len(t) /\ 1 \in 0 .. Len(u)
     BY <2>1
   <3> QED  BY <1>2, <2>1, <3>1, OfRear
  <2>3. Head(Tail(u)) \in ToSet(Tail(u))
    BY <1>3, <2>1, OfNames
  <2> QED  BY <1>3, <2>2, <2>3 DEF Sum
 <1>5. ~ Needed(t)
  <2>1. Needed(u) => Head(u) \in Leads("send_potential_plane")
    BY <1>2 DEF Fits
  <2>2. "receive_plane" \notin Leads("send_potential_plane")
    BY DEF Leads, Region, Forced
  <2>3. ~ Needed(u)
    BY <1>3, <2>1, <2>2
  <2> QED  BY <1>2, <2>3 DEF Needed, Milestones
 <1>6. Head(t) \notin {"axis_finite", "inverse"}
   OBVIOUS
 <1> HIDE DEF t
 <1> QED  BY <1>1, <1>4, <1>5, <1>6 DEF EnergyAt

LEMMA PlanesMove ==
    ASSUME PipelineInv, ForceInv, EnergyInv, Unprotected = {}, NEW r \in Ranks, RankStep(r),
           Frame(r), NEW q \in Ranks
    PROVE  PlaneOf(q)'
 <1>1. /\ PipelineTypes /\ ForceTypes /\ Courses /\ setup' = setup
       /\ \A s \in Ranks : PlaneOf(s)
   BY DEF PipelineInv, ForceInv, EnergyInv, Courses, Frame
 <1>2. \A s \in Ranks \ {r} : solve'[s] = solve[s]
   BY DEF Frame, Elsewhere
 <1>3. CASE todo[r] = <<>>
  <2>1. Call(r)
    BY <1>3, OnlyCalls
  <2>2. \A s \in Ranks \ {r} : todo'[s] = todo[s]
    BY <2>1, CallStarts
  <2>3. planes' = planes
    BY <2>1 DEF Call, messages
  <2>4. planes[r] = <<>>
    BY <1>1, <1>3, NoPlane DEF Exchanging
  <2> QED  BY <1>1, <1>2, <2>2, <2>3, <2>4, PlaneNext DEF PlaneOf
 <1>4. CASE todo[r] # <<>>
  <2> DEFINE t == todo[r]
             u == Tail(t)
             h == Head(t)
  <2>1. /\ ~ waiting[r] /\ ~ error[r] /\ Ahead(r) = t /\ StepOf(r) = h
        /\ \A s \in Ranks \ {r} : todo'[s] = todo[s]
        /\ \/ Breaks(r, t, u) \/ Joins(r, t, u) \/ Passes(r, t, u) \/ Jumps(r, t, u)
           \/ Walks(r, t)
    BY <1>1, <1>4, HowItMoves DEF Courses
  <2>2. /\ Planned(t) /\ Rooted(t)
        /\ h # "prepare" => solve'[r] = solve[r]
    BY <1>1, <2>1 DEF Courses, ListsPlanned, Frame, ForceTypes
  <2>3. CASE h \notin Sends \union {"receive_plane"}
   <3>1. planes' = planes
     BY <2>1, <2>3 DEF Frame
   <3>2. planes[r] = <<>>
     BY <1>1, <2>3, NoPlane DEF Exchanging
   <3> QED  BY <1>1, <1>2, <2>1, <3>1, <3>2, PlaneNext DEF PlaneOf
  <2>4. CASE h = "receive_plane"
   <3>1. ReceivePlane(r)
     BY <1>4, <2>4, StepIs
   <3>2. planes[r] # <<>> /\ planes' = [planes EXCEPT ![r] = Tail(@)]
     BY <3>1 DEF ReceivePlane
   <3>3. planes[r] = <<Head(planes[r])>>
    <4>1. Match(t, todo[Right(r)], planes[r], mem[r].force, Right(r))
      BY DEF ForceInv, PlanesMatch
    <4> QED  BY <3>2, <4>1 DEF Match
   <3>4. planes'[r] = <<>>
    <4>1. DOMAIN planes = Ranks
      BY <1>1 DEF ForceTypes
    <4>2. planes'[r] = Tail(planes[r])
      BY <3>2, <4>1
    <4>3. \A x : Tail(<<x>>) = <<>>
      OBVIOUS
    <4> QED  BY <3>3, <4>2, <4>3
   <3>5. q # r => planes'[q] = planes[q]
     BY <3>2, <1>1 DEF ForceTypes
   <3> QED  BY <1>1, <1>2, <2>1, <3>4, <3>5, PlaneNext DEF PlaneOf
  <2>5. CASE h \in Sends
   <3> DEFINE field == IF h = "send_force_plane" THEN "force" ELSE "density"
              plane == Append(mem[r][field], r)
   <3>1. planes' = [planes EXCEPT ![Left(r)] = Append(@, plane)]
    <4>1. SendPlane(r)
      BY <1>4, <2>5, StepIs
    <4>2. At(r, "send_force_plane") <=> h = "send_force_plane"
      BY <1>4, <2>1 DEF At
    <4> QED  BY <4>1, <4>2 DEF SendPlane
   <3>2. todo'[r] = u /\ solve'[r] = solve[r]
     BY <2>1, <2>2, <2>5 DEF Breaks, Joins, Passes, Jumps, Walks, Sends, Locals
   <3>3. /\ ToSend(t) /\ Exchanging(t) /\ Exchanging(u)
         /\ ForceAhead(u) <=> h = "send_force_plane"
         /\ ForceAhead(t) <=> h = "send_force_plane"
    <4>1. ToSend(t)
      BY <1>4, <2>5 DEF ToSend
    <4> QED  BY <1>4, <2>2, <2>5, <4>1, PlannedExchange DEF ForceAhead, Sends
   <3>4. DOMAIN planes = Ranks /\ Left(r) \in Ranks /\ Right(Left(r)) = r
     BY <1>1, Ring DEF ForceTypes
   <3> HIDE DEF t, u, h, plane
   <3>5. CASE q # Left(r)
    <4>1. planes'[q] = planes[q]
      BY <3>1, <3>4, <3>5
    <4>2. CASE q = r
      BY <1>1, <3>2, <3>3, <4>1, <4>2, PlaneNext DEF PlaneOf, t
    <4> QED  BY <1>1, <1>2, <2>1, <4>1, <4>2, PlaneNext DEF PlaneOf
   <3>6. CASE q = Left(r)
    <4>1. /\ todo[q] = t \/ todo[q] = u
          /\ planes[q] = <<>>
     <5>1. Match(todo[q], t, planes[q], mem[q].force, r)
       BY <3>4, <3>6 DEF ForceInv, PlanesMatch, t
     <5> QED  BY <3>3, <5>1 DEF Match, u
    <4>2. planes'[q] = <<plane>>
     <5>1. planes'[q] = Append(planes[q], plane)
       BY <3>1, <3>4, <3>6
     <5>2. \A x : Append(<<>>, x) = <<x>>
       OBVIOUS
     <5> QED  BY <4>1, <5>1, <5>2
    <4>3. solve'[q] = solve[r]
     <5>1. solve[q] = solve[r]
       BY <3>3, <4>1, SameSolve DEF t
     <5> QED  BY <1>2, <3>2, <5>1
    <4>4. (todo'[q] = t \/ todo'[q] = u) /\ Right(q) = r
      BY <2>1, <3>2, <3>4, <3>6, <4>1
    <4>5. ~ ForceAhead(todo'[q]) => plane = Append(Potential(solve[r]), r)
     <5>1. h # "send_force_plane" => h = "send_potential_plane"
       BY <2>5 DEF Sends
     <5>2. h = "send_potential_plane" => mem[r].density = Potential(solve[r])
       BY <1>4, <2>1, SentIsRight DEF h, t
     <5> QED  BY <3>3, <4>4, <5>1, <5>2 DEF plane
    <4> QED  BY <1>1, <4>2, <4>3, <4>4, <4>5, PlaneNext
   <3> QED  BY <3>5, <3>6
  <2> QED  BY <2>3, <2>4, <2>5
 <1> QED  BY <1>3, <1>4

-----------------------------------------------------------------------------
(* A measurement is of a pure PM force, and another force is before the    *)
(* next one.                                                               *)
LEMMA MeasureIs ==
    ASSUME PipelineTypes, CallsInOrder, NEW r \in Ranks, Measuring(r)
    PROVE  ~ Tree /\ (Tail(calls[r]) # <<>> => Head(Tail(calls[r])) # "measure")
 <1> DEFINE N == Len(setup.calls)
            m == Made(r)
            s == setup.calls
            c == calls[r]
 <1>1. s \in Seq({"solve", "measure"}) /\ N \in Nat /\ setup \in Setups /\ DOMAIN s = 1 .. N
   BY RankZero DEF PipelineTypes
 <1>2. m \in 0 .. N /\ c = SubSeq(s, m + 1, N) /\ c # <<>> /\ Head(c) = "measure"
   BY DEF CallsInOrder, Measuring
 <1> HIDE DEF m, s, c, N
 <1>3. m + 1 \in 1 .. N
   BY <1>1, <1>2
 <1>4. Head(c) = s[m + 1] /\ Tail(c) = SubSeq(s, m + 2, N)
  <2>1. N \in m + 1 .. N
    BY <1>1, <1>3
  <2>2. Head(SubSeq(s, m + 1, N)) = s[m + 1]
        /\ Tail(SubSeq(s, m + 1, N)) = SubSeq(s, (m + 1) + 1, N)
    BY <1>1, <1>3, <2>1, HeadTailOfSubSeq DEF N, s
  <2>3. (m + 1) + 1 = m + 2
    BY <1>2
  <2> QED  BY <1>2, <2>2, <2>3
 <1>5. \A i \in 1 .. N : s[i] = "measure" =>
          setup.kind = "pm" /\ i > 1 /\ s[i - 1] = "solve"
   BY <1>1, MeasureAssumption DEF s
 <1>6. ~ Tree
   BY <1>2, <1>3, <1>4, <1>5 DEF Tree
 <1>7. Tail(c) # <<>> => Head(Tail(c)) # "measure"
  <2> SUFFICES ASSUME Tail(c) # <<>>, Head(Tail(c)) = "measure"
               PROVE  FALSE
    OBVIOUS
  <2>1. m + 2 \in 1 .. N /\ Head(Tail(c)) = s[m + 2]
    BY <1>1, <1>2, <1>4
  <2> DEFINE i == m + 2
  <2>2. i \in 1 .. N /\ s[i] = "measure" /\ i - 1 = m + 1
    BY <1>1, <1>2, <2>1
  <2> HIDE DEF i
  <2>3. s[i - 1] = "solve"
    BY <1>5, <2>2
  <2> QED  BY <1>2, <1>4, <2>2, <2>3
 <1> QED  BY <1>6, <1>7 DEF c

LEMMA EnergyCalls ==
    ASSUME PipelineInv, ForceInv, EnergyInv, NEW r \in Ranks, Call(r), Frame(r)
    PROVE  EnergyOf(r)'
 <1> DEFINE m == mem[r]
            m2 == mem'[r]
            n == solve[r]
            v == todo'[r]
 <1>1. /\ PipelineTypes /\ ForceTypes /\ CallsInOrder /\ setup' = setup /\ EnergyOf(r)
       /\ solve'[r] = n
  <2>1. solve' = solve
    BY DEF Call
  <2> QED  BY <2>1 DEF PipelineInv, ForceInv, EnergyInv, Frame
 <1>2. /\ ~ waiting[r] /\ ~ waiting'[r] /\ todo[r] = <<>> /\ ~ error[r] /\ ~ error'[r]
       /\ ended' = ended /\ calls[r] # <<>> /\ calls'[r] = Tail(calls[r])
  <2>1. /\ ~ waiting[r] /\ ~ waiting'[r] /\ todo[r] = <<>> /\ error' = error
    BY CallStarts
  <2>2. ended' = ended /\ calls[r] # <<>> /\ calls'[r] = Tail(calls[r])
    BY <1>1 DEF Call, PipelineTypes
  <2> QED  BY <2>1, <2>2 DEF ForceInv, Calm
 <1>3. Ahead(r)' = v
   BY <1>2 DEF Ahead
 <1>4. m.kernel => m.lags = <<"impulse">>
   BY <1>1 DEF EnergyOf
 <1>5. CASE Head(calls[r]) = "solve"
  <2>1. v = Solve(r)
    BY <1>1, <1>5 DEF Call, PipelineTypes
  <2>2. /\ m2.energy = <<>> /\ m2.self = <<>> /\ m2.kernel = m.kernel /\ m2.lags = m.lags
   <3> DEFINE b == [energy |-> <<>>, self |-> <<>>]
   <3>1. Keep(r, b) /\ DOMAIN b = {"energy", "self"} /\ b.energy = <<>> /\ b.self = <<>>
     BY <1>5 DEF Call
   <3> HIDE DEF b
   <3>2. DOMAIN b \subseteq Fields
     BY <3>1, FieldNames
   <3>3. /\ Writes(r, DOMAIN b) /\ \A f \in DOMAIN b : mem'[r][f] = b[f]
     BY <1>1, <3>1, <3>2, KeepWrites
   <3>4. {"kernel", "lags"} \subseteq Fields \ DOMAIN b
     BY <3>1, FieldNames
   <3> QED  BY <3>1, <3>3, <3>4 DEF Writes
  <2>3. /\ Clear(Solve(r)) /\ (Self(Solve(r)) /\ ~ Lags(Solve(r)) => m.kernel)
        /\ Solve(r) # <<>> /\ Head(Solve(r)) = "prepare"
        /\ Planned(Solve(r)) /\ Rooted(Solve(r))
    BY SolveSummed, SolvePlanned, SolveIsGrown DEF Grown
  <2>4. Summed(v) /\ EnergyAt(v, m2, n, r)
    BY <2>1, <2>2, <2>3 DEF Clear, EnergyAt
  <2>5. "callback" \in Due(v)
    BY <2>1, <2>3, FirstDue DEF Later
  <2>6. ResultAt(m2, n)
    BY <2>2 DEF ResultAt
  <2>7. StepOf(r)' = "prepare" /\ v # <<>>
    BY <2>1, <2>3 DEF StepOf
  <2> HIDE DEF m, n, v
  <2> QED  BY <1>1, <1>3, <1>4, <2>2, <2>4, <2>5, <2>6, <2>7, EnergyNext DEF m, n, v
 <1>6. CASE Head(calls[r]) # "solve"
  <2>1. v = IF ended[r] = "returned" THEN Measure(r) ELSE <<>>
    BY <1>1, <1>6 DEF Call, PipelineTypes
  <2>2. mem' = mem
    BY <1>6 DEF Call
  <2>3. CASE ended[r] # "returned"
   <3>1. Summed(v) /\ EnergyAt(v, m2, n, r) /\ v = <<>>
     BY <2>1, <2>3, NothingSummed
   <3>2. StepOf(r)' = "nothing"
     BY <3>1 DEF StepOf
   <3> HIDE DEF m, n, v
   <3> QED  BY <1>1, <1>2, <1>3, <1>4, <2>2, <2>3, <3>1, <3>2, EnergyNext DEF m, n, v
  <2>4. CASE ended[r] = "returned"
   <3>1. Measuring(r)
    <4>1. Head(calls[r]) \in {"solve", "measure"}
      BY <1>1, <1>2 DEF PipelineTypes
    <4> QED  BY <1>2, <1>6, <4>1 DEF Measuring
   <3>2. ~ Tree /\ ~ Measuring(r)'
    <4>1. ~ Tree /\ (Tail(calls[r]) # <<>> => Head(Tail(calls[r])) # "measure")
      BY <1>1, <3>1, MeasureIs
    <4> QED  BY <1>2, <4>1 DEF Measuring
   <3>3. m.density = Potential(n)
     BY <1>1, <1>2, <2>4, <3>1 DEF EnergyOf
   <3>4. v = Measure(r) /\ v # <<>>
     BY <2>1, <2>4, MeasurePlanned
   <3>5. Summed(v) /\ EnergyAt(v, m2, n, r) /\ Head(v) = "measure"
     BY <2>2, <3>2, <3>3, <3>4, MeasureSummed DEF EnergyAt
   <3>6. ResultAt(m2, n)
     BY <1>1, <2>2, <2>4 DEF EnergyOf
   <3>7. StepOf(r)' = "measure"
     BY <3>4, <3>5 DEF StepOf
   <3> HIDE DEF m, n, v
   <3> QED  BY <1>1, <1>2, <1>3, <1>4, <2>2, <3>2, <3>4, <3>5, <3>6, <3>7, EnergyNext
               DEF m, n, v
  <2> QED  BY <2>3, <2>4
 <1> QED  BY <1>5, <1>6

LEMMA EnergyStays ==
    ASSUME PipelineInv, ForceInv, EnergyInv, Unprotected = {}, NEW r \in Ranks, RankStep(r)
    PROVE  EnergyInv'
 <1>1. PipelineTypes /\ ForceTypes /\ Courses /\ Frame(r)
   BY RankFrame DEF PipelineInv, ForceInv, Courses
 <1>2. Ranks' = Ranks /\ setup' = setup
   BY <1>1, SameSetup DEF Frame
 <1>3. \A q \in Ranks : PlaneOf(q)'
   BY <1>1, PlanesMove
 <1>4. EnergyOf(r)'
   BY <1>1, EnergyMoves, EnergyCalls, OnlyCalls
 <1>5. ASSUME NEW q \in Ranks \ {r}
       PROVE  EnergyOf(q)'
  <2>1. /\ todo'[q] = todo[q] /\ waiting'[q] = waiting[q] /\ error'[q] = error[q]
        /\ calls'[q] = calls[q] /\ ended' = ended
   <3>1. CASE todo[r] # <<>>
     BY <1>1, <3>1, HowItMoves DEF Courses
   <3>2. CASE todo[r] = <<>>
    <4>1. Call(r)
      BY <3>2, OnlyCalls
    <4>2. calls'[q] = calls[q] /\ ended' = ended
      BY <1>1, <4>1 DEF Call, PipelineTypes
    <4> QED  BY <4>1, <4>2, CallStarts
   <3> QED  BY <3>1, <3>2
  <2>2. Ahead(q)' = Ahead(q) /\ mem'[q] = mem[q] /\ solve'[q] = solve[q]
    BY <1>1, <2>1, Beside
  <2> QED  BY <1>2, <2>1, <2>2, EnergyBeside DEF EnergyInv
 <1> QED  BY <1>2, <1>3, <1>4, <1>5 DEF EnergyInv

-----------------------------------------------------------------------------
(* What a collective leaves of the energies.                               *)
LEMMA MeetingEnds ==
    ASSUME PipelineTypes, NEW t, NEW v, NEW n, Together(t, v, n), Meeting, NEW q \in Ranks
    PROVE  /\ ended'[q] = IF v # <<>> THEN "running" ELSE IF Failed THEN "threw" ELSE "returned"
           /\ todo'[q] = v /\ (Failed /\ ~ error'[q] => v = <<>>)
           /\ ~ Failed => ~ error[q] /\ ~ error'[q]
           /\ ~ waiting'[q] => ~ Failed \/ v = <<>>
 <1>1. Proceed
   BY MeetingsMeet DEF Meets
 <1>2. Rest(q) = v
   BY <1>1 DEF Proceed, Together
 <1>3. ended'[q] = IF Rest(q) # <<>> THEN "running" ELSE IF Failed THEN "threw" ELSE "returned"
   BY <1>1 DEF Proceed
 <1> QED  BY <1>2, <1>3 DEF Together, Failed

LEMMA EnergyLeft ==
    ASSUME PipelineTypes, ForceTypes, NEW h, ~ Failed, MeetAt(h), NEW q \in Ranks
    PROVE  /\ \A f \in {"energy", "self", "right"} : mem'[q][f] = mem[q][f]
           /\ h # "lag_kernel" => mem'[q].kernel = mem[q].kernel /\ mem'[q].lags = mem[q].lags
           /\ h = "callback" => mem'[q].density = mem[q].density
 <1> DEFINE W == IF h = "lag_kernel" THEN {"kernel", "lags"}
                 ELSE {"phi", "density", "ready", "force", "modes", "asked", "halo"}
 <1>1. \A f \in Fields \ W : mem'[q][f] = mem[q][f]
  <2>1. mem' = mem \/ ForwardTransform \/ InverseTransform \/ AxisTransform \/ ExchangeRequests
        \/ ExchangeValues \/ (LagKernel /\ h = "lag_kernel")
    BY DEF MeetAt, Publish
  <2>2. h = "lag_kernel" => mem' = mem \/ LagKernel
    BY DEF MeetAt, JointSteps
  <2> QED  BY <2>1, <2>2, MeetingWrites DEF Leaves
 <1>2. {"energy", "self", "right", "kernel", "lags"} \subseteq Fields
   BY FieldNames
 <1>3. h = "callback" => mem' = mem
   BY DEF MeetAt, Publish, JointSteps
 <1> QED  BY <1>1, <1>2, <1>3

LEMMA LagsMade ==
    ASSUME PipelineTypes, ForceTypes, ~ Failed, MeetAt("lag_kernel"), NEW q \in Ranks,
           \A r \in Ranks : mem[r].density = <<"impulse", "potential", solve[r]>>
    PROVE  mem'[q].kernel /\ mem'[q].lags = <<"impulse">>
 <1> DEFINE x == IF \A r \in Ranks : mem[r].density = <<"impulse", "potential", solve[r]>>
                 THEN <<"impulse">> ELSE Torn
            b == [kernel |-> TRUE, lags |-> x]
 <1>1. LagKernel
   BY DEF MeetAt, JointSteps
 <1>2. Everywhere(b)
   BY <1>1 DEF LagKernel
 <1>3. DOMAIN b = {"kernel", "lags"} /\ b.kernel = TRUE /\ b.lags = x
   OBVIOUS
 <1>4. x = <<"impulse">>
   OBVIOUS
 <1> HIDE DEF b, x
 <1>5. \A f \in DOMAIN b : mem'[q][f] = b[f]
  <2>1. DOMAIN b \subseteq Fields
    BY <1>3, FieldNames
  <2> QED  BY <1>2, <2>1, EverywhereWrites
 <1> QED  BY <1>3, <1>4, <1>5

(* The transforms of the impulse, and of the potential back.               *)
LEMMA ImpulseMeets ==
    ASSUME PipelineTypes, ForceTypes, NEW h \in JointSteps, ~ Failed, MeetAt(h), NEW n,
           h # "callback" => \A r \in Ranks : ImpulseAt(h, mem[r], n),
           NEW q \in Ranks, NEW h2 \in KernelLeads(h)
    PROVE  ImpulseAt(h2, mem'[q], n)
 <1>1. CASE h = "forward"
  <2>1. ForwardTransform /\ h2 = "inverse"
    BY <1>1, KernelLed DEF MeetAt, JointSteps
  <2>2. \A r \in Ranks : mem[r].density = <<"impulse", "source", n>>
    BY <1>1, ImpulseReads
  <2>3. Is(<<"impulse", "source", n>>, "source")
        /\ As(<<"impulse", "source", n>>, "phi") = <<"impulse", "phi", n>>
    BY LabelsRead
  <2>4. mem'[q].phi = <<"impulse", "phi", n>>
   <3>1. Transformed("density", "source", "phi") = <<"impulse", "phi", n>>
     BY <2>2, <2>3, Transforms
   <3> QED  BY <2>1, <3>1, MeetingWrites
  <2> QED  BY <2>1, <2>4, ImpulseReads
 <1>2. CASE h = "inverse"
  <2>1. InverseTransform /\ h2 = "potential_finite"
    BY <1>2, KernelLed DEF MeetAt, JointSteps
  <2>2. \A r \in Ranks : mem[r].phi = <<"impulse", "phi", n>>
    BY <1>2, ImpulseReads
  <2>3. Is(<<"impulse", "phi", n>>, "phi")
        /\ As(<<"impulse", "phi", n>>, "potential") = <<"impulse", "potential", n>>
    BY LabelsRead
  <2>4. mem'[q].density = <<"impulse", "potential", n>>
   <3>1. Transformed("phi", "phi", "potential") = <<"impulse", "potential", n>>
     BY <2>2, <2>3, Transforms
   <3> QED  BY <2>1, <3>1, MeetingWrites
  <2> QED  BY <2>1, <2>4, ImpulseReads
 <1>3. CASE h \notin {"forward", "inverse"}
  <2>1. h \notin {"impulse", "impulse_conserved", "normalize", "source", "forward",
                  "inverse", "potential_finite"} \union Torrent
    BY <1>3 DEF JointSteps, Torrent
  <2>2. h2 \in {"rank_sum", "origin", "impulse"}
    BY <2>1, KernelLed
  <2> QED  BY <2>2, ImpulseReads
 <1> QED  BY <1>1, <1>2, <1>3

LEMMA EnergyJoins ==
    ASSUME PipelineTypes, ForceTypes, NEW h \in JointSteps, ~ Failed, MeetAt(h), NEW n,
           NEW t, t \in Seq(Steps), t # <<>>, Head(t) = h, Summed(t), NEW v, v = Tail(t),
           Fits(h, v), Due(t) = Due(v) \union ({h} \intersect Milestones),
           \A r \in Ranks : EnergyAt(t, mem[r], n, r), \A r \in Ranks : solve[r] = n,
           NEW q \in Ranks
    PROVE  /\ EnergyAt(v, mem'[q], n, q)
           /\ h = "lag_kernel" => mem'[q].kernel /\ mem'[q].lags = <<"impulse">>
 <1> DEFINE m2 == mem'[q]
            h2 == Head(v)
 <1>1. Sums(h, v) /\ ToSet(t) = {h} \union ToSet(v) /\ v \in Seq(Steps)
   BY SummedStep
 <1>2. /\ Needed(t) <=> Needed(v)
       /\ Sum(t) <=> Sum(v)
       /\ Lags(t) <=> Lags(v) \/ h = "lag_kernel"
       /\ Self(t) <=> Self(v)
   BY <1>1 DEF Needed, Milestones, Sum, Lags, Self, JointSteps
 <1>3. h = "lag_kernel" => m2.kernel /\ m2.lags = <<"impulse">>
  <2> SUFFICES ASSUME h = "lag_kernel"
               PROVE  m2.kernel /\ m2.lags = <<"impulse">>
    OBVIOUS
  <2>1. Lags(t) /\ ~ Sum(t)
    BY <1>1, <1>2 DEF Sums
  <2>2. \A r \in Ranks : ImpulseAt("lag_kernel", mem[r], n)
    BY <2>1 DEF EnergyAt
  <2>3. \A r \in Ranks : mem[r].density = <<"impulse", "potential", solve[r]>>
    BY <2>2, ImpulseReads
  <2> QED  BY <2>3, LagsMade
 <1>4. Sum(v) /\ ~ Needed(v) =>
          IF h2 \in {"axis_finite", "inverse"} THEN m2.phi = <<"mass", "phi", n>>
                                               ELSE m2.density = Potential(n)
  <2> SUFFICES ASSUME Sum(v), ~ Needed(v)
               PROVE  h2 \notin {"axis_finite", "inverse"} /\ m2.density = Potential(n)
    OBVIOUS
  <2>1. h = "inverse" /\ h2 \in Potentials
    BY <1>1 DEF Sums, JointSteps, Potentials
  <2>2. InverseTransform
    BY <2>1 DEF MeetAt, JointSteps
  <2>3. \A r \in Ranks : mem[r].phi = <<"mass", "phi", n>>
    BY <1>2, <2>1 DEF EnergyAt
  <2>4. Is(<<"mass", "phi", n>>, "phi")
        /\ As(<<"mass", "phi", n>>, "potential") = <<"mass", "potential", n>>
    BY LabelsRead
  <2>5. m2.density = <<"mass", "potential", n>>
   <3>1. Transformed("phi", "phi", "potential") = <<"mass", "potential", n>>
     BY <2>3, <2>4, Transforms
   <3> QED  BY <2>2, <3>1, MeetingWrites
  <2> QED  BY <2>1, <2>5 DEF Potential, Potentials
 <1>5. ~ (v # <<>> /\ h2 = "weighted_sum" /\ Size # 1)
   BY <1>1 DEF Sums, JointSteps
 <1>6. Lags(v) /\ ~ Sum(v) => ImpulseAt(h2, m2, n)
  <2> SUFFICES ASSUME Lags(v), ~ Sum(v)
               PROVE  ImpulseAt(h2, m2, n)
    OBVIOUS
  <2>1. h2 \in KernelLeads(h)
    BY <1>1 DEF Sums
  <2>2. \A r \in Ranks : ImpulseAt(h, mem[r], n)
    BY <1>2 DEF EnergyAt
  <2> QED  BY <2>1, <2>2, ImpulseMeets
 <1>7. ~ Forcing(v)
  <2> SUFFICES ASSUME Forcing(v)
               PROVE  FALSE
    OBVIOUS
  <2>1. h = "callback"
    BY <1>1 DEF Sums, JointSteps
  <2> QED  BY <2>1, NothingSummed DEF Fits
 <1>8. Self(v) /\ ~ Lags(v) => m2.kernel
  <2>1. CASE h = "lag_kernel"
    BY <1>3, <2>1
  <2>2. CASE h # "lag_kernel"
    BY <1>2, <2>2, EnergyLeft DEF EnergyAt
  <2> QED  BY <2>1, <2>2
 <1> HIDE DEF m2, h2
 <1> QED  BY <1>3, <1>4, <1>5, <1>6, <1>7, <1>8 DEF EnergyAt, m2, h2

LEMMA EnergyMeets ==
    ASSUME PipelineInv, ForceInv, EnergyInv, Meeting
    PROVE  EnergyInv'
 <1>1. PipelineTypes /\ ForceTypes /\ Courses /\ CallsInOrder
   BY DEF ForceInv, Courses, PipelineInv
 <1>2. PICK t, v, n : Together(t, v, n)
   BY <1>1, MeetingsMeet, MeetsAlike
 <1> DEFINE h == Head(t)
 <1>3. /\ Other /\ MeetAt(h) /\ setup' = setup /\ Ranks' = Ranks
       /\ t # <<>> /\ Planned(t) /\ Rooted(t) /\ h \notin Locals /\ solve' = solve
       /\ calls' = calls /\ "prepare" \notin Due(v) /\ Planned(v) /\ v \in Seq(Steps)
       /\ \A q \in Ranks : todo[q] = t /\ todo'[q] = v /\ solve[q] = n
   BY <1>1, <1>2, MeetingIs, SameSetup DEF Together, Planned
 <1>4. /\ Fits(Head(t), Tail(t)) /\ t \in Seq(Steps)
       /\ Due(t) = Due(Tail(t)) \union ({Head(t)} \intersect Milestones)
   BY <1>3, Leaving
 <1> HIDE DEF h
 <1>5. ASSUME NEW q \in Ranks
       PROVE  PlaneOf(q)'
  <2>1. ~ Exchanging(t)
    BY <1>3 DEF Exchanging, Sends, Locals, h
  <2>2. planes'[q] = <<>>
    BY <1>1, <1>3, <2>1, NoPlane DEF Other
  <2> QED  BY <1>3, <2>2, PlaneNext
 <1>6. ASSUME NEW q \in Ranks
       PROVE  EnergyOf(q)'
  <2> DEFINE m == mem[q]
             m2 == mem'[q]
  <2>1. /\ ended'[q] = IF v # <<>> THEN "running" ELSE IF Failed THEN "threw" ELSE "returned"
        /\ todo'[q] = v /\ (Failed /\ ~ error'[q] => v = <<>>)
        /\ ~ Failed => ~ error[q] /\ ~ error'[q]
        /\ ~ waiting'[q] => ~ Failed \/ v = <<>>
        /\ solve'[q] = n /\ todo[q] = t
    BY <1>1, <1>2, <1>3, MeetingEnds
  <2>2. EnergyOf(q) /\ (m.kernel => m.lags = <<"impulse">>)
    BY DEF EnergyInv, EnergyOf
  <2>3. v # <<>> => Head(v) # "prepare"
    BY <1>3, OfNames DEF Milestones
  <2>4. StepOf(q)' # "prepare" /\ (v = <<>> => StepOf(q)' = "nothing")
    BY <2>1, <2>3 DEF StepOf
  <2>5. Measuring(q)' <=> Measuring(q)
    BY <1>3 DEF Measuring
  <2>6. ~ error'[q] => Ahead(q)' = v
    BY <1>2 DEF Together
  <2>7. CASE Failed
   <3>1. mem' = mem
     BY <1>3, <2>7 DEF MeetAt
   <3>2. ~ error'[q] => Summed(v) /\ EnergyAt(v, m2, n, q)
     BY <2>1, <2>7, NothingSummed
   <3> HIDE DEF m, m2
   <3> QED  BY <1>3, <2>1, <2>2, <2>4, <2>6, <2>7, <3>1, <3>2, EnergyNext DEF m, m2
  <2>8. CASE ~ Failed
   <3>1. /\ v = Tail(t) /\ ~ error[q] /\ ~ error'[q]
         /\ \A r \in Ranks : ~ error[r] /\ todo[r] = t /\ solve[r] = n
         /\ \A r \in Ranks : Ahead(r) = IF h \notin JointSteps THEN Tail(t) ELSE t
     BY <1>2, <1>3, <2>1, <2>8 DEF Together, Failed, h
   <3>2. Summed(t) /\ Summed(v)
    <4>1. Summed(t)
      BY <3>1 DEF EnergyInv, EnergyOf
    <4> QED  BY <1>3, <3>1, <4>1, SummedStep
   <3>3. ResultAt(m, n)
     BY <1>3, <2>1, <2>2, <3>1 DEF EnergyOf
   <3>4. /\ m2.energy = m.energy /\ m2.self = m.self
         /\ h # "lag_kernel" => m2.kernel = m.kernel /\ m2.lags = m.lags
         /\ h = "callback" => m2.density = m.density
     BY <1>1, <1>3, <2>8, EnergyLeft
   <3>5. ResultAt(m2, n)
     BY <3>3, <3>4 DEF ResultAt
   <3>6. EnergyAt(v, m2, n, q) /\ (m2.kernel => m2.lags = <<"impulse">>)
    <4>1. CASE h \in JointSteps
     <5>1. \A r \in Ranks : EnergyAt(t, mem[r], n, r)
       BY <3>1, <4>1 DEF EnergyInv, EnergyOf
     <5>2. /\ Fits(h, v) /\ Head(t) = h
           /\ Due(t) = Due(v) \union ({h} \intersect Milestones)
       BY <1>4, <3>1 DEF h
     <5>3. /\ EnergyAt(v, mem'[q], n, q)
           /\ h = "lag_kernel" => mem'[q].kernel /\ mem'[q].lags = <<"impulse">>
      <6>1. /\ MeetAt(h) /\ t \in Seq(Steps) /\ t # <<>> /\ v = Tail(t)
            /\ \A r \in Ranks : solve[r] = n
        BY <1>3, <1>4, <3>1
      <6> QED  BY <1>1, <2>8, <3>2, <4>1, <5>1, <5>2, <6>1, EnergyJoins
     <5> QED  BY <2>2, <3>4, <5>3
    <4>2. CASE h \notin JointSteps
     <5>1. mem' = mem
       BY <1>3, <2>8, <4>2 DEF MeetAt, JointSteps
     <5>2. EnergyAt(v, m, n, q)
       BY <2>1, <2>2, <3>1, <4>2 DEF EnergyOf
     <5> QED  BY <2>2, <5>1, <5>2
    <4> QED  BY <4>1, <4>2
   <3>7. Measuring(q) => "callback" \in Due(t) /\ ~ Tree
     BY <1>1, <1>3, <2>1, <2>2, <3>1, MeasureIs DEF EnergyOf
   <3>8. Due(t) = Due(v) \union ({h} \intersect Milestones) /\ (h = "callback" => v = <<>>)
     BY <1>4, <3>1 DEF h, Fits
   <3>9. Measuring(q) /\ v # <<>> => "callback" \in Due(v)
     BY <3>7, <3>8
   <3>10. Measuring(q) /\ v = <<>> => m2.density = Potential(n)
    <4> SUFFICES ASSUME Measuring(q), v = <<>>
                 PROVE  m2.density = Potential(n)
      OBVIOUS
    <4>1. Due(v) = {}
      BY NothingIsPlanned
    <4>2. h = "callback" /\ Due(t) \subseteq {"callback"}
      BY <3>7, <3>8, <4>1
    <4>3. Forcing(t)
      BY <3>7, <4>2 DEF Forcing, Needed
    <4>4. EnergyAt(t, m, n, q)
      BY <2>1, <2>2, <3>1, <4>2 DEF EnergyOf, JointSteps
    <4>5. m.density = Potential(n)
      BY <4>3, <4>4 DEF EnergyAt
    <4> QED  BY <3>4, <4>2, <4>5
   <3> HIDE DEF m, m2
   <3> QED  BY <1>3, <2>1, <2>4, <2>5, <2>6, <3>1, <3>2, <3>5, <3>6, <3>9, <3>10, EnergyNext
               DEF m, m2
  <2> QED  BY <2>7, <2>8
 <1> QED  BY <1>3, <1>5, <1>6 DEF EnergyInv
-----------------------------------------------------------------------------
LEMMA NoEnergyYet ==
    ASSUME Init
    PROVE  EnergyInv
 <1> SUFFICES ASSUME NEW r \in Ranks
              PROVE  EnergyOf(r) /\ PlaneOf(r)
   BY DEF EnergyInv
 <1>1. /\ todo[r] = <<>> /\ ~ waiting[r] /\ ~ error[r] /\ solve[r] = 0
       /\ mem[r] = EmptyMemory /\ planes[r] = <<>> /\ calls[r] = setup.calls
   BY DEF Init
 <1>2. /\ mem[r].kernel = FALSE /\ mem[r].energy = <<>> /\ mem[r].self = <<>>
   BY <1>1 DEF EmptyMemory
 <1>3. Ahead(r) = <<>> /\ StepOf(r) = "nothing"
   BY <1>1 DEF Ahead, StepOf
 <1>4. ~ Measuring(r)
  <2> SUFFICES ASSUME calls[r] # <<>>, Head(calls[r]) = "measure"
               PROVE  FALSE
    BY DEF Measuring
  <2>1. setup \in Setups /\ setup.calls \in Seq({"solve", "measure"})
    BY StartsTogether, RankZero DEF PipelineInv, PipelineTypes
  <2>2. 1 \in DOMAIN setup.calls /\ setup.calls[1] = "measure"
    BY <1>1, <2>1
  <2> QED  BY <2>1, <2>2, MeasureAssumption
 <1> QED  BY <1>1, <1>2, <1>3, <1>4, NothingSummed DEF EnergyOf, ResultAt, PlaneOf

LEMMA EnergyRests ==
    ASSUME EnergyInv, UNCHANGED vars
    PROVE  EnergyInv'
 <1>1. setup' = setup /\ Ranks' = Ranks
   BY SameSetup DEF vars
 <1>2. ASSUME NEW q \in Ranks
       PROVE  EnergyOf(q)' /\ PlaneOf(q)'
  <2>1. /\ Ahead(q)' = Ahead(q) /\ todo'[q] = todo[q] /\ waiting'[q] = waiting[q]
        /\ error'[q] = error[q] /\ mem'[q] = mem[q] /\ solve'[q] = solve[q]
        /\ calls'[q] = calls[q] /\ ended'[q] = ended[q] /\ planes'[q] = planes[q]
    BY DEF vars, Ahead, messages
  <2>2. EnergyOf(q) /\ PlaneOf(q)
    BY DEF EnergyInv
  <2>3. EnergyOf(q)'
    BY <1>1, <2>1, <2>2, EnergyBeside
  <2>4. PlaneOf(q)'
    BY <1>1, <2>1, <2>2, PlaneNext DEF PlaneOf
  <2> QED  BY <2>3, <2>4
 <1> QED  BY <1>1, <1>2 DEF EnergyInv

(* An energy a call returns was summed over the potential of the last      *)
(* solve, the neighbour's plane included, and its self-energy over the     *)
(* kernel of an impulse made in the same memory: if nothing is thrown      *)
(* outside a stage, with any number of ranks, planes, calls and failures.  *)
THEOREM MeasuredEnergyIsOfItsSolve ==
    ASSUME Unprotected = {}
    PROVE  Spec => []EnergyIsOfItsSolve
 <1>1. Init => PipelineInv /\ ForceInv /\ EnergyInv
   BY StartsTogether, StartsEmpty, NoEnergyYet
 <1>2. PipelineInv /\ ForceInv /\ EnergyInv /\ [Next]_vars => PipelineInv' /\ ForceInv' /\ EnergyInv'
  <2> SUFFICES ASSUME PipelineInv, ForceInv, EnergyInv, [Next]_vars
               PROVE  PipelineInv' /\ ForceInv' /\ EnergyInv'
    OBVIOUS
  <2>1. PipelineInv'
    BY StepsKeepTogether
  <2>2. ForceInv'
    BY RankStepKeeps, MeetingKeeps, NothingDone DEF Next, Done
  <2>3. EnergyInv'
    BY EnergyStays, EnergyMeets, EnergyRests DEF Next, Done
  <2> QED  BY <2>1, <2>2, <2>3
 <1>3. EnergyInv => EnergyIsOfItsSolve
   BY DEF EnergyInv, EnergyOf, ResultAt, EnergyIsOfItsSolve
 <1> QED  BY <1>1, <1>2, <1>3, PTL DEF Spec

=============================================================================
