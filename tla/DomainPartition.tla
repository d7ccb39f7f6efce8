--------------------------- MODULE DomainPartition ---------------------------
(***************************************************************************)
(* The particles of a run, spread over the ranks by the slab their         *)
(* position is in: DomainDecomposition::partition_domain, GhostExchange    *)
(* and what happens to them between two force solves.                      *)
(*                                                                         *)
(* partition_domain takes one of three paths, the same on every rank: no   *)
(* particle has to move; or the stores are known to be canonical and only  *)
(* the particles that left their slab travel and are merged in place; or   *)
(* everything is routed into a new store.  A path is a sequence of         *)
(* synchronized stages.  CollectiveStage shows that a stage ends in the    *)
(* same way on every rank, and BoundedMigration that the exchange delivers *)
(* each record once, so that a stage is one step of all ranks here: it     *)
(* passes, or it fails on some ranks and every rank throws, keeping what   *)
(* the stage had already done to its store.                                *)
(*                                                                         *)
(* A particle is its identity, its x, and its mass where the store keeps   *)
(* masses one by one; y, z and the momentum travel with the identity.      *)
(* truth is what the particles really are, whoever holds them.             *)
(*                                                                         *)
(* A definition marked "fault" is a plausible mistake in the definition    *)
(* that follows it; no action uses it.                                     *)
(***************************************************************************)
EXTENDS SlabGeometry, SequencesExt

CONSTANTS Starts,   \* stores a run begins with: [rank -> [held, uniform]]
          Moves,    \* how far a drift may take a particle
          Search    \* required_ghost_width

Bodies == [id : Int, x : Int, mass : Nat]
Ids(s) == {p.id : p \in ToSet(s)}

(* A run begins with identities that occur once, on one rank: they have    *)
(* been checked when the particles were made or read.                      *)
ASSUME SearchAssumption ==
    /\ Search \in Nat
    /\ Moves \subseteq Int
    /\ \A start \in Starts :
         /\ \E n \in 1 .. NumPlanes : DOMAIN start = 0 .. n - 1
         /\ \A r \in DOMAIN start :
              /\ start[r].held \in Seq(Bodies) /\ start[r].uniform \in Nat
              /\ \A i, j \in DOMAIN start[r].held :
                   start[r].held[i].id = start[r].held[j].id => i = j
         /\ \A r, s \in DOMAIN start :
              r # s => Ids(start[r].held) \intersect Ids(start[s].held) = {}

VARIABLES held,       \* held[r]: the owned prefix of the store of rank r
          uniform,    \* uniform[r]: the mass all its particles share, or None
          accel,      \* accel[r]: validity of the accelerations
          ghosts,     \* ghosts[r]: the ghost suffix
          ghostState, \* ghostState[r]: its validity
          canonical,  \* canonical_partition_established_
          stage,      \* the stage of the collective operation the ranks are in
          incoming,   \* incoming[r]: what the exchange brought to rank r
          truth       \* [identity -> [x, mass]]

stores == <<held, uniform, accel, ghosts, ghostState>>
world == <<size, truth>>
vars == <<stores, canonical, stage, incoming, world>>

None == 0

(* The particles of a list that are in S, in its order.                    *)
Those(s, S) ==
    LET those[n \in 0 .. Len(s)] ==
            IF n = 0 THEN <<>>
            ELSE IF s[n] \in S THEN Append(those[n - 1], s[n]) ELSE those[n - 1]
    IN  those[Len(s)]

(* A sort by identity.                                                     *)
Inserted(t, p) ==
    InsertAt(t, Min({i \in 1 .. Len(t) : p.id < t[i].id} \union {Len(t) + 1}), p)

SortedById(s) ==
    LET sorted[n \in 0 .. Len(s)] ==
            IF n = 0 THEN <<>> ELSE Inserted(sorted[n - 1], s[n])
    IN  sorted[Len(s)]

StrictlySorted(s) == \A i \in 1 .. Len(s) - 1 : s[i].id < s[i + 1].id

MassAt(r, p) == IF uniform[r] # None THEN uniform[r] ELSE p.mass

Init == /\ \E start \in Starts :
             /\ size = Cardinality(DOMAIN start)
             /\ held = [r \in Ranks |-> start[r].held]
             /\ uniform = [r \in Ranks |-> start[r].uniform]
             /\ LET all == UNION {{<<r, p>> : p \in ToSet(start[r].held)} :
                                  r \in Ranks}
                IN truth = [i \in {x[2].id : x \in all} |->
                     LET x == CHOOSE x \in all : x[2].id = i
                     IN  [x |-> x[2].x,
                          mass |-> IF start[x[1]].uniform # None
                                     THEN start[x[1]].uniform
                                     ELSE x[2].mass]]
        /\ accel = [r \in Ranks |-> "INVALID"]
        /\ ghosts = [r \in Ranks |-> <<>>]
        /\ ghostState = [r \in Ranks |-> "INVALID"]
        /\ canonical = FALSE
        /\ stage = "idle"
        /\ incoming = [r \in Ranks |-> <<>>]

-----------------------------------------------------------------------------
(* Masses.                                                                 *)

NonEmpty(r) == held[r] # <<>>

(* collective_uniform_mass_representation.                                 *)
AgreedMass ==
    IF \E r \in Ranks : NonEmpty(r) /\ uniform[r] = None THEN None
    ELSE IF \A r \in Ranks : ~ NonEmpty(r) THEN None
    ELSE uniform[Min({r \in Ranks : NonEmpty(r)})]

MassesAgree == AgreedMass = None
               \/ \A r \in Ranks : NonEmpty(r) => uniform[r] = AgreedMass

(* set_uniform_mass: masses are written out, or dropped.                   *)
SetMasses(r, s, agreed) ==
    [i \in DOMAIN s |-> [s[i] EXCEPT !.mass =
        IF agreed # None THEN None ELSE MassAt(r, s[i])]]

-----------------------------------------------------------------------------
(* The paths.                                                              *)

CanRetain(r) ==
    /\ StrictlySorted(held[r])
    /\ NonEmpty(r) => uniform[r] = AgreedMass
    /\ \A i \in 1 .. Len(held[r]) : Owner(held[r][i].x) = r

Path == IF \A r \in Ranks : CanRetain(r) THEN "retain"
        ELSE IF canonical /\ \A r \in Ranks : StrictlySorted(held[r])
        THEN "sparse" ELSE "route all"

WrapAll(s) == [i \in DOMAIN s |-> [s[i] EXCEPT !.x = Wrap(@)]]
InSlab(s, d) == Those(s, {p \in ToSet(s) : Owner(p.x) = d})

(* What rank r sends: wrapped, with its mass written out, sorted by        *)
(* identity for each destination.                                          *)
Copies(r, s) ==
    [i \in DOMAIN s |-> [s[i] EXCEPT !.x = Wrap(@), !.mass = MassAt(r, s[i])]]
Routed(r, d) == SortedById(Copies(r, InSlab(held[r], d)))

(* What the exchange returns on rank d from the given sources.             *)
Delivered(d, sources) ==
    FlattenSeq([k \in 1 .. size |->
                  IF k - 1 \in sources THEN Routed(k - 1, d) ELSE <<>>])

(* The merge of the sparse path, from the back, in the buffer that holds   *)
(* the retained particles in front.                                        *)
MergeTaken(m, inc) ==
    /\ m.in > 0
    /\ m.kept > 0 => m.buffer[m.kept].id < inc[m.in].id

MergeStep(m, inc) ==
    IF m.in = 0 THEN m
    ELSE IF MergeTaken(m, inc)
      THEN [m EXCEPT !.buffer[m.out] = inc[m.in], !.in = @ - 1, !.out = @ - 1]
      ELSE [m EXCEPT !.buffer[m.out] = m.buffer[m.kept],
                     !.kept = @ - 1, !.out = @ - 1]

FrontToBack(kept, inc) == kept \o inc                            \* fault
Merged(kept, inc) ==
    LET n == Len(kept) + Len(inc)
        begin == [buffer |-> [i \in 1 .. n |-> IF i <= Len(kept) THEN kept[i]
                                                                 ELSE inc[1]],
                  kept |-> Len(kept), in |-> Len(inc), out |-> n]
        merge[k \in 0 .. n] == IF k = 0 THEN begin
                                        ELSE MergeStep(merge[k - 1], inc)
    IN  merge[n].buffer

-----------------------------------------------------------------------------
(* partition_domain.                                                       *)

Throws == stage' = "threw"

(* The preflight, the provenance and mass agreement and the choice of the  *)
(* path, all reductions: nothing is changed.                               *)
Preflight ==
    /\ size > 1
    /\ stage = "idle"
    /\ IF MassesAgree THEN stage' = Path ELSE Throws
    /\ UNCHANGED <<stores, canonical, incoming, world>>

(* One rank: everything is local, and the accelerations are left alone.    *)
PartitionAlone ==
    /\ size = 1
    /\ stage = "idle"
    /\ held' = [r \in Ranks |-> WrapAll(held[r])]
    /\ ghosts' = [r \in Ranks |-> <<>>]
    /\ ghostState' = [r \in Ranks |-> "VALID"]
    /\ canonical' = TRUE
    /\ stage' = "partitioned"
    /\ UNCHANGED <<uniform, accel, incoming, world>>

(* Nothing has to move.                                                    *)
Retain ==
    /\ stage = "retain"
    /\ held' = [r \in Ranks |-> WrapAll(SetMasses(r, held[r], AgreedMass))]
    /\ uniform' = [r \in Ranks |-> AgreedMass]
    /\ accel' = [r \in Ranks |-> "INVALID"]
    /\ ghosts' = [r \in Ranks |-> <<>>]
    /\ ghostState' = [r \in Ranks |-> "INVALID"]
    /\ canonical' = TRUE
    /\ stage' = "partitioned"
    /\ UNCHANGED <<incoming, world>>

(* Sparse: the old derived state is released, whatever comes after.        *)
ReleaseLeavers ==                                                \* fault
    /\ stage = "sparse"
    /\ held' = [r \in Ranks |-> InSlab(held[r], r)]
    /\ ghosts' = [r \in Ranks |-> <<>>]
    /\ ghostState' = [r \in Ranks |-> "INVALID"]
    /\ accel' = [r \in Ranks |-> "INVALID"]
    /\ stage' = "sparse route"
    /\ UNCHANGED <<uniform, canonical, incoming, world>>

Release ==
    /\ stage = "sparse"
    /\ ghosts' = [r \in Ranks |-> <<>>]
    /\ ghostState' = [r \in Ranks |-> "INVALID"]
    /\ accel' = [r \in Ranks |-> "INVALID"]
    /\ stage' = "sparse route"
    /\ UNCHANGED <<held, uniform, canonical, incoming, world>>

Exchange(sources, next) ==
    /\ incoming' = [d \in Ranks |-> SortedById(Delivered(d, sources[d]))]
    /\ stage' = next
    /\ UNCHANGED <<stores, canonical, world>>

ExchangeSparse == /\ stage = "sparse route"
                  /\ Exchange([d \in Ranks |-> Ranks \ {d}], "sparse merge")

(* Compaction, merge and the check of the order, in place.                 *)
MergeSparse ==
    /\ stage = "sparse merge"
    /\ held' = [r \in Ranks |->
         Merged(InSlab(WrapAll(SetMasses(r, held[r], AgreedMass)), r),
                SetMasses(r, incoming[r], AgreedMass))]
    /\ uniform' = [r \in Ranks |-> AgreedMass]
    /\ stage' = "partitioned"
    /\ canonical' = TRUE
    /\ incoming' = [r \in Ranks |-> <<>>]
    /\ UNCHANGED <<accel, ghosts, ghostState, world>>

(* The error stays with the rank that found it: nobody synchronizes.       *)
MergeUnsynchronized(broken) ==                                   \* fault
    /\ stage = "sparse merge"
    /\ broken # {}
    /\ held' = [r \in Ranks |->
         LET kept == InSlab(WrapAll(SetMasses(r, held[r], AgreedMass)), r)
         IN  IF r \in broken THEN kept
             ELSE Merged(kept, SetMasses(r, incoming[r], AgreedMass))]
    /\ uniform' = [r \in Ranks |-> AgreedMass]
    /\ stage' = "partitioned"
    /\ UNCHANGED <<accel, ghosts, ghostState, canonical, incoming, world>>

(* The same stage when it fails on some ranks: they have compacted their   *)
(* store and not merged into it, the others have merged.                   *)
MergeFails(broken) ==
    /\ stage = "sparse merge"
    /\ broken # {}
    /\ held' = [r \in Ranks |->
         LET kept == InSlab(WrapAll(SetMasses(r, held[r], AgreedMass)), r)
         IN  IF r \in broken THEN kept
             ELSE Merged(kept, SetMasses(r, incoming[r], AgreedMass))]
    /\ uniform' = [r \in Ranks |-> AgreedMass]
    /\ stage' = "broken"
    /\ UNCHANGED <<accel, ghosts, ghostState, canonical, incoming, world>>

(* Route all: into a private store, published at the end.                  *)
ExchangeAll == /\ stage = "route all"
               /\ Exchange([d \in Ranks |-> Ranks], "rebuild")

Rebuild ==
    /\ stage = "rebuild"
    /\ held' = [r \in Ranks |->
         [i \in DOMAIN incoming[r] |-> [incoming[r][i] EXCEPT !.mass =
             IF AgreedMass # None THEN None ELSE @]]]
    /\ uniform' = [r \in Ranks |-> AgreedMass]
    /\ accel' = [r \in Ranks |-> "INVALID"]
    /\ ghosts' = [r \in Ranks |-> <<>>]
    /\ ghostState' = [r \in Ranks |-> "INVALID"]
    /\ canonical' = TRUE
    /\ stage' = "partitioned"
    /\ incoming' = [r \in Ranks |-> <<>>]
    /\ UNCHANGED world

-----------------------------------------------------------------------------
(* GhostExchange::exchange.                                                *)

NoGhostsNeeded == size = 1 \/ Search = 0

SkipGhosts ==
    /\ stage = "partitioned"
    /\ NoGhostsNeeded
    /\ ghosts' = [r \in Ranks |-> <<>>]
    /\ ghostState' = [r \in Ranks |-> "VALID"]
    /\ stage' = "sources"
    /\ UNCHANGED <<held, uniform, accel, canonical, incoming, world>>

(* What rank s makes visible to rank d.                                    *)
GhostsFor(s, d) ==
    IF d \notin Candidates(s, Search) THEN <<>>
    ELSE Copies(s, Those(held[s],
                         {p \in ToSet(held[s]) : Visible(Wrap(p.x), d, Search)}))

RouteGhosts ==
    /\ stage = "partitioned"
    /\ ~ NoGhostsNeeded
    /\ incoming' = [d \in Ranks |-> SortedById(FlattenSeq(
         [k \in 1 .. size |-> GhostsFor(k - 1, d)]))]
    /\ stage' = "ghosts"
    /\ UNCHANGED <<stores, canonical, world>>

(* Receive validation: inside the search radius, in order, of the one mass *)
(* where all have the same, no identity the rank owns.                     *)
AdmitGhosts(r) ==
    /\ \A i \in DOMAIN incoming[r] :
          /\ Visible(incoming[r][i].x, r, Search)
          /\ uniform[r] # None => incoming[r][i].mass = uniform[r]
    /\ StrictlySorted(incoming[r])
    /\ StrictlySorted(held[r])
    /\ Ids(incoming[r]) \intersect Ids(held[r]) = {}

PublishGhosts ==
    /\ stage = "ghosts"
    /\ IF \A r \in Ranks : AdmitGhosts(r)
         THEN /\ ghosts' = incoming
              /\ ghostState' = [r \in Ranks |-> "VALID"]
              /\ stage' = "sources"
         ELSE /\ Throws
              /\ UNCHANGED <<ghosts, ghostState>>
    /\ incoming' = [r \in Ranks |-> <<>>]
    /\ UNCHANGED <<held, uniform, accel, canonical, world>>

(* Some rank cannot append: its suffix stays incomplete, and valid after   *)
(* the first append_ghost_particle.                                        *)
PublishGhostsFails(appended) ==
    /\ stage = "ghosts"
    /\ \A r \in Ranks : appended[r] <= Len(incoming[r])
    /\ \E r \in Ranks : appended[r] < Len(incoming[r])
    /\ ghosts' = [r \in Ranks |-> SubSeq(incoming[r], 1, appended[r])]
    /\ ghostState' = [r \in Ranks |->
                        IF appended[r] > 0 THEN "VALID" ELSE "INVALID"]
    /\ Throws
    /\ UNCHANGED <<held, uniform, accel, canonical, incoming, world>>

(* A stage before a publication fails somewhere; no store has changed.     *)
StageFails ==
    /\ stage \in {"retain", "sparse", "sparse route", "sparse merge",
                  "route all", "rebuild", "ghosts"}
    /\ Throws
    /\ UNCHANGED <<stores, canonical, incoming, world>>

-----------------------------------------------------------------------------
(* Between two partitions: the force is computed from the sources, and the *)
(* drift moves every particle and makes the accelerations stale.           *)
EvaluateForce ==
    /\ stage = "sources"
    /\ accel' = [r \in Ranks |-> "VALID"]
    /\ stage' = "idle"
    /\ UNCHANGED <<held, uniform, ghosts, ghostState, canonical, incoming, world>>

Drift(move) ==
    /\ stage = "idle"
    /\ \A r \in Ranks : accel[r] = "VALID"
    /\ held' = [r \in Ranks |-> [i \in DOMAIN held[r] |->
                  [held[r][i] EXCEPT !.x = Wrap(@ + move[held[r][i].id])]]]
    /\ truth' = [i \in DOMAIN truth |->
                  [truth[i] EXCEPT !.x = Wrap(@ + move[i])]]
    /\ accel' = [r \in Ranks |-> "STALE"]
    /\ UNCHANGED <<size, uniform, ghosts, ghostState, canonical, stage,
                    incoming>>

Stopped == stage \in {"threw", "broken"} /\ UNCHANGED vars

Next == \/ Preflight \/ PartitionAlone \/ Retain
        \/ Release \/ ExchangeSparse \/ MergeSparse
        \/ \E broken \in SUBSET Ranks : MergeFails(broken)
        \/ ExchangeAll \/ Rebuild
        \/ SkipGhosts \/ RouteGhosts \/ PublishGhosts
        \/ \E appended \in [Ranks -> 0 .. 1] : PublishGhostsFails(appended)
        \/ StageFails
        \/ EvaluateForce
        \/ \E move \in [DOMAIN truth -> Moves] : Drift(move)
        \/ Stopped

Spec == Init /\ [][Next]_vars

-----------------------------------------------------------------------------
RealOnes(r) == {i \in DOMAIN truth :
                  LET plane == (truth[i].x % Box) \div Cell
                  IN  SlabStart(r) <= plane /\ plane < SlabEnd(r)}

HoldsTheRealOnes(r) ==
    /\ Ids(held[r]) = RealOnes(r)
    /\ Len(held[r]) = Cardinality(RealOnes(r))
    /\ size > 1 => StrictlySorted(held[r])
    /\ \A p \in ToSet(held[r]) : /\ p.x = truth[p.id].x % Box
                                 /\ MassAt(r, p) = truth[p.id].mass

(* Whatever path it took, a partition of several ranks leaves the same     *)
(* stores: each rank has exactly the particles whose position lies in its  *)
(* slab, sorted by identity, where they really are and with the mass they  *)
(* really have.  None is lost, doubled, or given a neighbour's mass; and   *)
(* accelerations and ghosts that belong to the old order, or to particles  *)
(* that left, are never called valid again.  One rank keeps its own order. *)
PartitionIsCanonical ==
    /\ stage \in {"partitioned", "ghosts", "sources"} =>
          \A r \in Ranks : HoldsTheRealOnes(r)
    /\ stage = "partitioned" /\ size > 1 =>
          \A r \in Ranks : /\ accel[r] = "INVALID"
                           /\ ghostState[r] = "INVALID" /\ ghosts[r] = <<>>

(* Before a force is computed every rank sees every particle within the    *)
(* search radius of its slab, around the box too, once, with its mass, and *)
(* no other.                                                               *)
PeriodicDistance(x, d) ==
    Min({ Max({0, SlabStart(d) * Cell - (x + k * Box),
                  (x + k * Box) - SlabEnd(d) * Cell}) : k \in {-1, 0, 1} })

GhostsAreExact ==
    (stage = "sources" /\ ~ NoGhostsNeeded) =>
        \A r \in Ranks :
            /\ Ids(ghosts[r]) =
                 {i \in DOMAIN truth \ RealOnes(r) :
                    PeriodicDistance(truth[i].x % Box, r) <= Search}
            /\ StrictlySorted(ghosts[r])
            /\ \A p \in ToSet(ghosts[r]) : /\ p.x = truth[p.id].x % Box
                                          /\ p.mass = truth[p.id].mass

(* While a partition is under way, and after one that failed, the ranks    *)
(* together still hold every particle once, where it is, with its mass:    *)
(* only a failure inside the merge in place can lose some.                 *)
NothingLostOnTheWay ==
    stage \notin {"partitioned", "ghosts", "sources", "broken"} =>
        /\ \A i \in DOMAIN truth : \E r \in Ranks : \E p \in ToSet(held[r]) :
               /\ p.id = i
               /\ p.x % Box = truth[i].x % Box
               /\ MassAt(r, p) = truth[i].mass
        /\ \A r, s \in Ranks :
               r # s => Ids(held[r]) \intersect Ids(held[s]) = {}
=============================================================================
