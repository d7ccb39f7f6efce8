------------------------------ MODULE MCParticles ------------------------------
(***************************************************************************)
(* Three machines in one bench: a behaviour is one of the particles        *)
(* between their slabs, a call of a halo finder, or a call of              *)
(* hyowon_analyze.                                                         *)
(***************************************************************************)
EXTENDS DomainPartition, HaloFinding

CONSTANTS Machines, AnalysisCalls, Threads, ShapeRoom, MaxFaults, RowRoom,
          MemberRoom, NoResult

VARIABLES machine, job, at, directory, products, loop, results, have, cursor,
          draft, tables, faults

analysis == <<job, at, directory, products, loop, results, have, cursor, draft,
              tables, faults>>

A == INSTANCE AnalysisRun WITH Calls <- AnalysisCalls, None <- NoResult

ASSUME RunAssumption == A!AnalysisRunAssumption
ASSUME TableAssumption == A!MembershipTableAssumption

P(i, x, m) == [id |-> i, x |-> x, mass |-> m]
Store(s, m) == [held |-> s, uniform |-> m]

(* Four ranks, most of them without particles.                             *)
Spread(f) == [r \in 0 .. 3 |-> IF r \in DOMAIN f THEN f[r] ELSE Store(<<>>, 0)]

Alone == [r \in {0} |-> Store(<<P(2, 11, 2), P(1, 4, 1), P(3, 0, 1)>>, 0)]

(* Equal masses, one by one, out of order and in the wrong slabs; masses   *)
(* that differ, of which one rank holds two as equal; already in place     *)
(* before the first partition; equal masses that disagree; one rank alone. *)
MCStarts == { Spread([r \in {0} |->
                Store(<<P(3, 0, 0), P(1, 9, 0), P(2, 4, 0)>>, 1)]),
              Spread([r \in {0, 3} |-> IF r = 0
                THEN Store(<<P(2, 7, 2)>>, 0)
                ELSE Store(<<P(1, 9, 0), P(3, 8, 0)>>, 1)]),
              Spread([r \in {0} |->
                Store(<<P(1, -10, 0), P(2, 1, 0), P(3, 3, 0)>>, 1)]),
              Spread([r \in {1, 2} |-> IF r = 1
                THEN Store(<<P(1, 1, 0)>>, 1) ELSE Store(<<P(2, 1, 0)>>, 2)]),
              Alone }

MCMoves == {-3, 0, 4}

(* A line of six cells of width two: two particles anywhere, one of which  *)
(* has moved since; spheres from nothing to more than half the box.        *)
Line(a, b) == <<<<a>>, <<b>>, <<11>>, <<4>>, <<7>>, <<7>>>>

MCApertureCalls ==
    {[finder |-> "aperture", built |-> Line(a, b), now |-> Line(a + m, b),
      side |-> 12, cap |-> cap, centre |-> <<c>>, radius |-> r] :
        a \in -1 .. 10, b \in {0, 5, 6}, m \in {0, 1, 7}, cap \in {6, 9, 12},
        c \in {0, 5, 13}, r \in {0, 6, 11, 12, 18, 36, 37}}

(* Four particles on a line and nine in a plane of nine cells.             *)
Named(ids, places) == [i \in DOMAIN ids |-> [id |-> ids[i], at |-> places[i]]]

Fof(store, axes, side, link, minimum) ==
    [finder |-> "fof", store |-> store, axes |-> axes, side |-> side,
     link |-> link, minimum |-> minimum]

MCFofCalls ==
    {Fof(Named(ids, <<<<a>>, <<b>>, <<c>>, <<11>>>>), 1, 12, link, m) :
        ids \in {<<1, 2, 3, 4>>, <<7, 3, 9, 1>>}, a \in -1 .. 10, b \in 0 .. 11,
        c \in {0, 3, 8}, link \in {2, 3}, m \in {2, 3}}
    \union
    {Fof(Named(<<4, 8, 1, 9, 2, 3, 5, 7, 6>>,
               <<<<a, b>>, <<c, d>>, <<0, 0>>, <<0, 3>>, <<5, 5>>, <<2, 2>>,
                 <<4, 4>>, <<4, 1>>, <<1, 4>>>>), 2, 6, link, 2) :
        a \in 0 .. 5, b \in {0, 2, 5}, c \in {1, 3}, d \in 0 .. 5, link \in {1, 2}}

(* Three particles in two candidates of either snapshot, or in none.        *)
Halo(id, mass, particles) ==
    [id |-> id, mass |-> mass, members |-> InOrder(particles, <)]

Catalogue(f, masses) ==
    <<Halo(5, masses[1], {p \in DOMAIN f : f[p] = 1}),
      Halo(2, masses[2], {p \in DOMAIN f : f[p] = 2})>>

MCLinkCalls ==
    {[finder |-> "links", earlier |-> Catalogue(f, masses),
      later |-> Catalogue(g, <<1, 1>>), minimum |-> m.minimum,
      fraction |-> m.fraction] :
        f \in [1 .. 3 -> 0 .. 2], g \in [1 .. 3 -> 0 .. 2],
        masses \in {<<1, 1>>, <<1, 2>>},
        m \in {[minimum |-> 1, fraction |-> [num |-> 0, den |-> 1]],
               [minimum |-> 1, fraction |-> [num |-> 2, den |-> 3]]}}
    \union
    {[finder |-> "links", earlier |-> <<Halo(1, 1, {1, 2}), Halo(2, 1, S)>>,
      later |-> <<Halo(1, 1, {1, 2, 3})>>, minimum |-> 2,
      fraction |-> [num |-> 0, den |-> 1]] : S \in SUBSET {2, 3}}

(* Five particles on a line, also in one place, or seven in a plane.       *)
Candidate(ids, places, masses) ==
    [i \in DOMAIN ids |-> [id |-> ids[i], at |-> places[i], mass |-> masses[i]]]

Split(candidate, side, k, ratio) ==
    [finder |-> "deblend", candidate |-> candidate, side |-> side, k |-> k,
     ratio |-> ratio]

MCDeblendCalls ==
    {Split(Candidate(ids, <<<<a>>, <<b>>, <<c>>, <<0>>, <<10>>>>,
                     <<1, 1, m, 1, 2>>), 12, k, ratio) :
        ids \in {<<1, 2, 3, 4, 5>>, <<9, 4, 2, 7, 6>>}, a \in 0 .. 3,
        b \in 4 .. 9, c \in {0, 2, 5, 7, 13}, m \in {1, 3}, k \in {1, 2},
        ratio \in {[num |-> 1, den |-> 4], [num |-> 1, den |-> 1]}}
    \union
    {Split(Candidate(<<6, 2, 5, 1, 3, 7, 4>>,
                     <<<<0, a>>, <<b, 1>>, <<6, c>>, <<3, 3>>, <<4, 2>>, <<1, 6>>,
                       <<5, 5>>>>, <<1, 1, 1, 1, 1, 1, 2>>), 7, 3, ratio) :
        a \in {0, 1, 4}, b \in {1, 2, 5}, c \in {0, 3, 6},
        ratio \in {[num |-> 1, den |-> 3], [num |-> 9, den |-> 10]}}
    \union {Split(Candidate(<<1, 2>>, <<<<0>>, <<1>>>>, <<1, 1>>), 12, 2,
                  [num |-> 1, den |-> 2])}

(* Six particles on a line, two seeds, crossings at one to six units.      *)
MCSoCalls ==
    {[finder |-> "so", side |-> 12, volumes |-> {2, 9, 24, 40},
      store |-> [i \in 1 .. 6 |-> [at |-> <<<<a, b, c, 2, 10, 9>>[i]>>,
                                   mass |-> <<1, 1, m, 1, 1, 1>>[i]]],
      seeds |-> <<[seed |-> 1, centre |-> <<0>>],
                  [seed |-> s, centre |-> <<b + 12>>]>>] :
        a \in 0 .. 6, b \in 0 .. 11, c \in {1, 4, 6, 11}, m \in {1, 5},
        s \in {1, 2}}

(* Seven particles, their identities not in the order of the store.        *)
TheIds == <<4, 9, 2, 7, 1, 6, 3>>
HostOf(peak, members, large, m200m, m200c, mvir) ==
    [peak |-> peak, members |-> members, large |-> large,
     so |-> [M200m |-> m200m, M200c |-> m200c, Mvir_BN98 |-> mvir]]
Grouped(members, hosts) == [members |-> members, hosts |-> hosts, merged |-> {}]
Absorbing(group, peak, into) ==
    [group EXCEPT !.merged = {[peak |-> peak, into |-> into]}]

SnapshotOf(object, volume, epoch, side, groups) ==
    [object |-> object, volume |-> volume, physics |-> "flat", epoch |-> epoch,
     side |-> side, ids |-> TheIds, mass |-> <<1, 1, 2, 1, 1, 1, 3>>,
     radius |-> <<3, 1, 2, 1, 4, 5, 2>>, groups |-> groups]

(* Two hosts in one candidate, one of them too small to be a seed; one     *)
(* seed without a crossing, one with another under each definition; the    *)
(* only host of the second candidate has absorbed another peak.            *)
ThreeGroups == << Grouped(<<3, 7, 1>>, <<HostOf(2, <<1, 3>>, TRUE, <<1, 3, 2>>, <<3, 1>>, <<>>),
                                HostOf(3, <<7>>, FALSE, <<>>, <<>>, <<>>)>>),
            Absorbing(Grouped(<<6, 2>>,
                <<HostOf(6, <<6, 2>>, TRUE, <<6>>, <<4, 6, 2, 7>>, <<2, 6>>)>>), 9, 6),
            Grouped(<<5, 4>>, <<HostOf(7, <<4, 5>>, TRUE, <<>>, <<5>>, <<4, 2, 5>>)>>) >>
Single == SubSeq(ThreeGroups, 1, 1)

MainOf(groups) == SnapshotOf("main", 8, 3, 2, groups)
TheEarlier == SnapshotOf("earlier", 8, 1, 2, <<Grouped(<<5, 3>>, <<>>), Grouped(<<7, 1>>, <<>>)>>)
TheReference == SnapshotOf("reference", 8, 3, 2, <<>>)

AskedOf(arguments) ==
    [arguments |-> arguments, main |-> MainOf(ThreeGroups), cross |-> TheReference,
     earlier |-> TheEarlier, meshHolds |-> TRUE, reach |-> 4, k |-> 1,
     edges |-> <<2, 3, 6>>]

Fields == <<"field", "tidal", "tidal options", "bispectrum", "bispectrum bins",
            "cross", "cross mesh", "phase">>
HaloOptions == <<"field", "fof">>
StandardHalos == HaloOptions \o <<"so", "deblend", "shape options">>
Everything == Fields \o <<"fof", "so", "deblend", "shape options", "hmf",
                          "hmf bins", "xi", "xi bins", "shapes", "earlier">>

MCAnalysisCalls ==
    { AskedOf(arguments) : arguments \in
        { Fields \o <<"skip">>, HaloOptions, Everything, StandardHalos,
          <<"field", "skip", "subtract">>,
          HaloOptions \o <<"earlier">>, HaloOptions \o <<"shapes", "shape options">>,
          <<"field">>, Append(HaloOptions, "skip"), Append(HaloOptions, "field"),
          Append(HaloOptions, "depth"), Append(HaloOptions, "so"), Append(HaloOptions, "shapes"),
          HaloOptions \o <<"interlaced", "subtract">>, Append(HaloOptions, "hmf"),
          Append(HaloOptions, "phase"), <<"field", "skip", "earlier">>,
          <<"field", "skip", "xi", "xi bins">> } }
    \union
    { [AskedOf(StandardHalos) EXCEPT !.k = 2],
      [AskedOf(Everything) EXCEPT !.main = MainOf(Single)],
      [AskedOf(Everything) EXCEPT !.reach = 5],
      [AskedOf(Everything) EXCEPT !.meshHolds = FALSE],
      [AskedOf(Everything) EXCEPT !.cross.epoch = 2],
      [AskedOf(Everything) EXCEPT !.cross.volume = 9],
      [AskedOf(Append(HaloOptions, "earlier")) EXCEPT !.earlier.epoch = 3],
      [AskedOf(Append(HaloOptions, "earlier")) EXCEPT !.earlier.physics = "curved"],
      [AskedOf(StandardHalos) EXCEPT !.main = MainOf(<<>>)] }

-----------------------------------------------------------------------------
(* The start of a machine that does not run is one fixed state.            *)
NoCall == [finder |-> "none"]

NoFinding == call = NoCall /\ work = Called /\ answer = Refused
NoPartition == Init /\ size = 1
NoAnalysis == /\ job = NoCall /\ at = "returned" /\ directory = "none"
              /\ products = 0 /\ loop = 0 /\ results = 0 /\ have = 0
              /\ cursor = 0 /\ draft = 0 /\ tables = 0 /\ faults = 0

BenchInit ==
    /\ machine \in Machines
    /\ \/ machine = "partition" /\ Init /\ NoFinding /\ NoAnalysis
       \/ machine = "halos" /\ NoPartition /\ FindingInit /\ NoAnalysis
       \/ machine = "analysis" /\ NoPartition /\ NoFinding /\ A!Init

BenchNext ==
    /\ UNCHANGED machine
    /\ \/ machine = "partition" /\ Next /\ UNCHANGED <<finding, analysis>>
       \/ machine = "halos" /\ FindingNext /\ UNCHANGED <<vars, analysis>>
       \/ machine = "analysis" /\ A!Next /\ UNCHANGED <<vars, finding>>
       \/ /\ machine = "analysis" /\ at \in A!Ended
          /\ UNCHANGED <<vars, finding, analysis>>

BenchSpec == BenchInit /\ [][BenchNext]_<<machine, vars, finding, analysis>>

(* A directory of products that is visible holds what was asked for, of    *)
(* the right snapshots, for every candidate and every membership; a call   *)
(* of hyowon_analyze refuses only for a reason.                            *)
PublishedProductsAgree == machine = "analysis" => A!PublishedProductsAgree
=============================================================================
