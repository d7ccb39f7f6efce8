--------------------------- MODULE MCStagedExchange ---------------------------
(***************************************************************************)
(* Three machines in one bench: a behaviour is one of the synchronized     *)
(* stages every collective operation is made of, one of the rounds without *)
(* synchronization that carry the records between two of them, or the life *)
(* of the contexts in which all of it runs.                                *)
(***************************************************************************)
EXTENDS CollectiveStage, BoundedMigration, RuntimeLease, TLC

CONSTANT Machines

VARIABLE machine

ASSUME StageAssumption

(* Three rounds on one edge, one or two on others, none on the rest; and   *)
(* the other way round, with a rank that has nothing to do at all.         *)
Skewed == (0 :> (0 :> 1 @@ 1 :> 5 @@ 2 :> 0)) @@
          (1 :> (0 :> 1 @@ 1 :> 0 @@ 2 :> 2)) @@
          (2 :> (0 :> 3 @@ 1 :> 0 @@ 2 :> 2))

Lonely == (0 :> (0 :> 2 @@ 1 :> 0 @@ 2 :> 4)) @@
          (1 :> (0 :> 0 @@ 1 :> 1 @@ 2 :> 0)) @@
          (2 :> (0 :> 1 @@ 1 :> 0 @@ 2 :> 0))

MCLoads == {Skewed, Lonely}

(* Jobs of one rank, of two on one node, on the same processors or each on *)
(* its own, and of three, one of which is alone on its node.               *)
JobOf(n, calls, initialized, masks, limits, identities, frail) ==
    [ranks |-> 0 .. n - 1, calls |-> calls, initialized |-> initialized,
     funneled |-> TRUE,
     node |-> [r \in 0 .. n - 1 |-> IF r = 2 THEN "y" ELSE "x"],
     mask |-> [r \in 0 .. n - 1 |-> masks[r + 1]],
     limit |-> [r \in 0 .. n - 1 |-> limits[r + 1]],
     openmp |-> [dynamic |-> TRUE, levels |-> 3, threads |-> 4],
     identity |-> [r \in 0 .. n - 1 |-> identities[r + 1]], frail |-> frail]

MCHosts ==
    {[JobOf(1, 4, i, <<1 .. 3>>, <<2>>, <<"a">>, {0}) EXCEPT !.funneled = f] :
        i \in BOOLEAN, f \in BOOLEAN}
      \union {JobOf(2, 3, TRUE, <<1 .. 4, 1 .. 4>>, <<4, 4>>, <<"a", "a">>, {1}),
              JobOf(2, 2, FALSE, <<{3}, {3}>>, <<4, 1>>, <<"a", "b">>, {0, 1}),
              JobOf(2, 2, FALSE, <<1 .. 2, 3 .. 4>>, <<4, 4>>,
                  <<"incomplete", "b">>, {0}),
              JobOf(3, 1, FALSE, <<1 .. 4, 1 .. 4, 1 .. 4>>, <<4, 4, 4>>,
                  <<"a", "a", "a">>, {1, 2})}

MCSettings == [mpi : BOOLEAN, threads : {0, 2}]

(* The start of a machine that does not run is one fixed state.            *)
BenchInit ==
    /\ machine \in Machines
    /\ Init /\ RoundsInit /\ LeaseInit
    /\ machine # "rounds" => counts = [e \in Exchanges |-> Lonely]
    /\ machine # "leases" => host = CHOOSE h \in Hosts : TRUE

BenchNext == /\ UNCHANGED machine
             /\ \/ machine = "stages" /\ Next /\ UNCHANGED <<rounds, leases>>
                \/ machine = "rounds" /\ RoundsNext /\ UNCHANGED <<vars, leases>>
                \/ machine = "leases" /\ LeaseNext /\ UNCHANGED <<vars, rounds>>

InRounds(step) ==
    machine = "rounds" /\ step /\ UNCHANGED <<machine, vars, leases>>

InStages(step) ==
    machine = "stages" /\ step /\ UNCHANGED <<machine, rounds, leases>>

(* A rank that is not blocked in MPI keeps running, a message both sides   *)
(* have posted arrives, and a reduction every rank has entered completes.  *)
BenchSpec ==
    /\ BenchInit /\ [][BenchNext]_<<machine, vars, rounds, leases>>
    /\ \A r \in World : WF_rounds(InRounds(RankStep(r)))
    /\ \A s, d \in World : WF_rounds(InRounds(Match(s, d)))
    /\ \A r \in Ranks : WF_vars(InStages(Step(r)))

(* Nobody is left waiting in MPI for a rank that has gone, neither in the  *)
(* stages nor in the rounds.                                               *)
EverybodyLeaves == /\ machine = "stages" => EveryRankLeaves
                   /\ machine = "rounds" => EveryRankFinishes
=============================================================================
