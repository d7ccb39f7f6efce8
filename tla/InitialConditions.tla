----------------------------- MODULE InitialConditions -----------------------------
(***************************************************************************)
(* InitialConditions::generate: a team of threads draws the modes of a     *)
(* random field slab by slab and counts them for the evidence lane by      *)
(* lane; displacements of first and second order move the particles off    *)
(* their lattice; particles and evidence are handed over together, or not  *)
(* at all (ic/initial_conditions.cpp, random_field.cpp,                    *)
(* realised_ic_evidence.cpp, lpt_displacement.cpp,                         *)
(* realised_ic_checks.cpp).  A request also has                            *)
(*   disk     scratch arrays are files                                     *)
(*   breaks   the step of the displacements at which a value is not finite *)
(*   folded   the particles whose cell has no unique edges                 *)
(***************************************************************************)
EXTENDS RandomField

CONSTANTS Requests,   \* what is asked for
          Threads,    \* of the team
          BlockSize   \* particles per block of the validation

VARIABLES request,
          stage,      \* of the call
          progress,   \* of the threads in the loop of the stage
          field,      \* the slabs drawn
          lanes,      \* the mode counts of the lanes
          pass,       \* how many steps of the displacements are done
          density,    \* what the storage of the spectrum holds
          reads,      \* what each step found in it
          invariant,  \* the real-space source of second order
          particles,  \* each one's site and what has moved it
          ids,        \* their identities, once they have any
          caller      \* what the caller has

generation == <<request, stage, progress, field, lanes, pass, density, reads,
                invariant, particles, ids, caller>>

GenerationAssumption == Threads \in Nat \ {0} /\ BlockSize \in Nat \ {0}

displacing == <<pass, density, reads, invariant>>

Team == 1 .. Threads
N == request.n
Mesh == MeshOf(request)
Ratio == Mesh \div N

Before == [particles |-> <<>>, ids |-> <<>>, evidence |-> {}, edges |-> <<>>, why |-> <<>>]

Holds(what, sums) == [what |-> what, sums |-> sums]

GenerationInit ==
    /\ request \in Requests
    /\ stage = "call" /\ progress = [t \in Team |-> 0]
    /\ field = <<>> /\ lanes = <<>> /\ pass = 0
    /\ density = Holds("nothing", <<>>) /\ reads = <<>> /\ invariant = <<>>
    /\ particles = <<>> /\ ids = <<>>
    /\ caller = Before

Fails(why) == /\ stage' = "failed"
              /\ caller' = [caller EXCEPT !.why = why]

-----------------------------------------------------------------------------
(* The lattice.                                                            *)

Site(p) == <<p \div (N * N), (p \div N) % N, p % N>>
Everyone == 0 .. N * N * N - 1

(* The particles have their identities from the start, unless their state  *)
(* is a file.  Spectra are asked for the largest mode first.               *)
StartGeneration ==
    LET largest == 3 * EffectiveLimit(request) * EffectiveLimit(request)
    IN  /\ stage = "call"
        /\ IF ~ ValidFields(request) THEN Fails(<<"refused">>) /\ UNCHANGED <<particles, ids>>
           ELSE /\ particles' = [p \in Everyone |-> [site |-> Site(p), moved |-> <<>>]]
                /\ ids' = IF request.disk THEN <<>> ELSE [p \in Everyone |-> p]
                /\ IF SpectrumAt(request, largest) = "throws" THEN Fails(<<"spectrum">>)
                   ELSE stage' = "field" /\ UNCHANGED caller
        /\ UNCHANGED <<request, progress, field, lanes, displacing>>

-----------------------------------------------------------------------------
(* Each thread has a run of slabs, or of lanes; the first ones have one    *)
(* more if they do not come out even.                                      *)
Start(t, work) == (t - 1) * (work \div Threads) + Least({t - 1, work % Threads})
Share(t, work) == (work \div Threads) + IF t <= work % Threads THEN 1 ELSE 0
Takes(t, work) == /\ progress[t] < Share(t, work)
                  /\ progress' = [progress EXCEPT ![t] = @ + 1]
TeamIsThrough(work) == \A t \in Team : progress[t] = Share(t, work)

DrawSlab(t) ==
    LET i == Start(t, Mesh) + progress[t]
    IN  /\ stage = "field" /\ Takes(t, Mesh)
        /\ field' = (i :> Slab(request, i)) @@ field
        /\ UNCHANGED <<request, stage, lanes, displacing, particles, ids, caller>>

(* The exception of the first slab that has one goes before the refusals.  *)
FirstRefusal ==
    LET thrown == {i \in DOMAIN field : Throwing(field[i]) # {}}
    IN  IF thrown # {} THEN <<"threw", FirstThrow(Least(thrown), field[Least(thrown)])>>
        ELSE IF \E i \in DOMAIN field : Refused(field[i], "invalid") THEN <<"invalid">>
        ELSE IF \E i \in DOMAIN field : Refused(field[i], "amplitude") THEN <<"amplitude">>
        ELSE <<>>

JoinField ==
    /\ stage = "field" /\ TeamIsThrough(Mesh)
    /\ progress' = [t \in Team |-> 0]
    /\ IF FirstRefusal # <<>> THEN Fails(FirstRefusal) /\ UNCHANGED density
       ELSE stage' = "evidence" /\ density' = Holds("spectrum", <<>>) /\ UNCHANGED caller
    /\ UNCHANGED <<request, field, lanes, pass, reads, invariant, particles, ids>>

CountLane(t) ==
    LET lane == Start(t, LaneCount(request)) + progress[t]
    IN  /\ stage = "evidence" /\ Takes(t, LaneCount(request))
        /\ lanes' = (lane :> LaneModes(request, lane)) @@ lanes
        /\ UNCHANGED <<request, stage, field, displacing, particles, ids, caller>>

JoinEvidence ==
    /\ stage = "evidence" /\ TeamIsThrough(LaneCount(request))
    /\ stage' = "displace"
    /\ UNCHANGED <<request, progress, field, lanes, displacing, particles, ids, caller>>

-----------------------------------------------------------------------------
(* The displacements: one transform after another, through the same two    *)
(* work arrays.  The source of second order takes the place of the         *)
(* spectrum.                                                               *)

Pass(what, axes) == [what |-> what, axes |-> axes]

Axes == 1 .. 3
Single(what) == [d \in Axes |-> Pass(what, <<d, d>>)]
Crosses == <<Pass("cross", <<1, 2>>), Pass("cross", <<1, 3>>), Pass("cross", <<2, 3>>)>>

Passes == IF request.order = 1 THEN Single("first")
          ELSE Single("first") \o Single("diagonal") \o Crosses
                 \o <<Pass("trace", <<>>), Pass("source", <<>>)>> \o Single("second")

Now(what) == /\ stage = "displace" /\ pass < Len(Passes)
             /\ Passes[pass + 1].what = what
Axis == Passes[pass + 1].axes

Advances == /\ pass' = pass + 1
            /\ reads' = Append(reads, density.what)
            /\ UNCHANGED <<request, progress, field, lanes, ids>>

Breaks == pass + 1 \in request.breaks

(* A particle takes its displacement from the node of the mesh it began    *)
(* at.  All of them are looked at before one that is not finite throws.    *)
Move(order) ==
    /\ particles' = [p \in Everyone |-> [particles[p] EXCEPT !.moved =
           Append(@, [order |-> order, axis |-> Axis[1],
                      node |-> [d \in Axes |-> Site(p)[d] * Ratio]])]]
    /\ IF Breaks THEN Fails(<<"displacement">>) ELSE UNCHANGED <<stage, caller>>

FirstOrder == Now("first") /\ Move(1) /\ Advances /\ UNCHANGED <<density, invariant>>
SecondOrder == Now("second") /\ Move(2) /\ Advances /\ UNCHANGED <<density, invariant>>

(* Coefficients, doubled, of the products of two second derivatives.       *)
Diagonals == {<<d, d>> : d \in Axes}
Derivatives == Diagonals \union {Crosses[n].axes : n \in DOMAIN Crosses}
Products == {{g, h} : g, h \in Derivatives}

Derive(coefficients) ==
    /\ IF Breaks THEN Fails(<<"derivative">>) /\ UNCHANGED invariant
       ELSE invariant' = coefficients /\ UNCHANGED <<stage, caller>>
    /\ Advances /\ UNCHANGED <<density, particles>>

(* The first one finds the storage as it is, and sets it.                  *)
Diagonal ==
    /\ Now("diagonal")
    /\ Derive(IF Axis[1] = 1 THEN [g \in Products |-> IF g = {Axis} THEN -1 ELSE 0]
              ELSE [invariant EXCEPT ![{Axis}] = @ - 1])

Cross == Now("cross") /\ Derive([invariant EXCEPT ![{Axis}] = @ - 2])

(* The square of the trace: the spectrum without its zero mode.            *)
Trace ==
    /\ Now("trace")
    /\ invariant' = [g \in Products |-> invariant[g] +
           IF g \subseteq Diagonals THEN Cardinality(g) ELSE 0]
    /\ Advances /\ UNCHANGED <<stage, caller, density, particles>>

Source ==
    /\ Now("source")
    /\ IF Breaks THEN Fails(<<"source">>) /\ UNCHANGED density
       ELSE /\ density' = Holds("source", BandLimited(request,
                              [i \in Indices(request) |-> SumsAt(request, i)]))
            /\ UNCHANGED <<stage, caller>>
    /\ Advances /\ UNCHANGED <<invariant, particles>>

EndOfPasses ==
    /\ stage = "displace" /\ pass = Len(Passes)
    /\ stage' = "validate"
    /\ UNCHANGED <<request, progress, field, lanes, displacing, particles, ids, caller>>

-----------------------------------------------------------------------------
(* Particles are looked at in blocks.  Cells are judged by the particles   *)
(* one further along each axis, if there are three along each.             *)
InBlock(b) == {p \in Everyone : p \div BlockSize = b}
Blocks == 0 .. (N * N * N - 1) \div BlockSize

Edges ==
    IF N < 3 THEN <<0, 0>>
    ELSE <<MapThenSumSet(LAMBDA b : Cardinality(InBlock(b) \ request.folded), Blocks),
           MapThenSumSet(LAMBDA b : Cardinality(InBlock(b) \cap request.folded), Blocks)>>

ValidateParticles ==
    /\ stage = "validate"
    /\ stage' = IF request.disk THEN "materialize" ELSE "publish"
    /\ UNCHANGED <<request, progress, field, lanes, displacing, particles, ids, caller>>

Materialize ==
    /\ stage = "materialize"
    /\ ids' = [p \in Everyone |-> p]
    /\ stage' = "publish"
    /\ UNCHANGED <<request, progress, field, lanes, displacing, particles, caller>>

Publish ==
    /\ stage = "publish"
    /\ caller' = [particles |-> particles, ids |-> ids, edges |-> Edges, why |-> <<>>,
                  evidence |-> Evidence(request, [l \in 1 .. LaneCount(request) |->
                                 IF l - 1 \in DOMAIN lanes THEN lanes[l - 1]
                                                           ELSE NoModes(request)])]
    /\ stage' = "done"
    /\ UNCHANGED <<request, progress, field, lanes, displacing, particles, ids>>

GenerationNext ==
    \/ StartGeneration
    \/ \E t \in Team : DrawSlab(t) \/ CountLane(t)
    \/ JoinField \/ JoinEvidence
    \/ FirstOrder \/ Diagonal \/ Cross \/ Trace \/ Source \/ SecondOrder \/ EndOfPasses
    \/ ValidateParticles \/ Materialize \/ Publish
    \/ stage \in {"done", "failed"} /\ UNCHANGED generation
-----------------------------------------------------------------------------
Places == Indices(request) \X Indices(request) \X Heights(request)
Stored(p) == field[p[1]][p[2]][p[3]]
Precedes(p, q) == \/ p[1] < q[1]
                  \/ p[1] = q[1] /\ p[2] < q[2]
                  \/ p[1] = q[1] /\ p[2] = q[2] /\ p[3] < q[3]

OnMesh(mesh, m) ==
    Coefficient([request EXCEPT !.mesh = mesh], m[1] % mesh, m[2] % mesh, m[3]).value

(* The field is that of a real density, and of its seed alone: where both  *)
(* modes of a conjugate pair are stored they are made of one block, one of *)
(* them conjugated; no other mode is made of it; a mode has the value it   *)
(* has on a mesh of any other fineness, and none beyond the limit.  If     *)
(* something was wrong, what is reported does not depend on the threads:   *)
(* the first place that threw, or else a power, or else an amplitude.      *)
FieldIsOfItsSeed ==
    /\ stage \in {"evidence", "done"} =>
         \A p \in Places :
           LET m == ModeAt(request, p[1], p[2], p[3])
               here == Stored(p).value
               mirror == <<Mirror(request, p[1]), Mirror(request, p[2]), p[3]>>
           IN  /\ here = Zero <=> ~ Kept(request, m)
               /\ here # Zero =>
                    /\ here.drawn.mode \in {m, <<- m[1], - m[2], - m[3]>>}
                    /\ \A mesh \in {N, 2 * N, 3 * N} : OnMesh(mesh, m) = here
                    /\ OnConjugatePlane(request, p[3]) =>
                         IF mirror = p THEN here.real
                         ELSE [here EXCEPT !.conjugate = ~ @] = Stored(mirror).value
    /\ stage = "failed" /\ field # <<>> /\ pass = 0 =>
         LET wrong(why) == {p \in Places : Stored(p).wrong = why}
         IN  caller.why =
               IF wrong("throws") # {}
                 THEN <<"threw", CHOOSE p \in wrong("throws") :
                                   \A q \in wrong("throws") \ {p} : Precedes(p, q)>>
               ELSE IF wrong("invalid") # {} THEN <<"invalid">> ELSE <<"amplitude">>

(* The modes of a shell among all modes, not only the stored half.         *)
ModesOf(shell) ==
    LET axis == IF request.limit # 0 THEN - request.limit .. request.limit ELSE - N .. N
    IN  Count(axis \X axis \X axis, LAMBDA m : InShell(request, m, shell))

Updates == {<<o, d>> : o \in 1 .. request.order, d \in Axes}

(* What the caller gets is whole, and it gets nothing else: every particle *)
(* of the lattice under its identity, moved once along every axis in every *)
(* order, by what was found at its own site in the spectrum or the source  *)
(* proper; the source is the second invariant of the second derivatives,   *)
(* and no mode that is kept of it has a contribution from round the mesh;  *)
(* the evidence counts every mode of a shell, and every cell is accounted  *)
(* for.                                                                    *)
RealisationIsWhole ==
    /\ stage # "done" => [caller EXCEPT !.why = <<>>] = Before
    /\ stage = "done" =>
         /\ caller.ids = [p \in Everyone |-> p]
         /\ \A p \in Everyone :
              LET moved == caller.particles[p].moved
              IN  /\ caller.particles[p].site = Site(p)
                  /\ Len(moved) = Cardinality(Updates)
                  /\ {<<moved[u].order, moved[u].axis>> : u \in DOMAIN moved} = Updates
                  /\ \A u \in DOMAIN moved : \A d \in Axes :
                       moved[u].node[d] * N = Site(p)[d] * Mesh
         /\ \A u \in DOMAIN reads :
              reads[u] = IF Passes[u].what = "second" THEN "source" ELSE "spectrum"
         /\ request.order = 2 =>
              /\ \A g \in Products :
                   invariant[g] = IF g \subseteq Diagonals /\ Cardinality(g) = 2 THEN 2
                                  ELSE IF Cardinality(g) = 1 /\ ~ g \subseteq Diagonals THEN -2
                                  ELSE 0
              /\ \A i \in Indices(request) :
                   LET mode == ModeNumber(i, Mesh)
                   IN  density.sums[i] = IF WithinAxisLimit(mode, EffectiveLimit(request))
                                           THEN {mode} ELSE {}
         /\ \A shell \in 0 .. N :
              LET bins == {b \in caller.evidence : b.shell = shell}
              IN  IF ModesOf(shell) = 0 THEN bins = {}
                  ELSE bins = {[shell |-> shell, modes |-> ModesOf(shell)]}
         /\ caller.edges[1] + caller.edges[2] = IF N < 3 THEN 0 ELSE N * N * N
=============================================================================
