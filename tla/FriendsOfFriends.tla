-------------------------- MODULE FriendsOfFriends --------------------------
(***************************************************************************)
(* FoFMembershipFinder: particles no further apart than the linking length *)
(* are friends, and a membership is a set of friends of friends of at      *)
(* least MinParticles.  A particle is [id, at]; a store is a sequence of   *)
(* them.  The grid has cells no narrower than the linking length and the   *)
(* pairs are found by walking a particle's cell and those next to it that  *)
(* its sphere touches; the sets are joined by size.                        *)
(*                                                                         *)
(* A definition marked "fault" is a plausible mistake in the one that      *)
(* follows.                                                                *)
(***************************************************************************)
EXTENDS NeighborIndex

(* grid_plan_for_particle_count, with exact arithmetic.                    *)
FofCells(n, d, L, link) == Max({1, Min({L \div link, FloorRoot(n, d)})})

FofPlaced(store) == [i \in 1 .. Len(store) |-> store[i].at]

(* overlapping_axis_cells: the neighbour on a side is walked when the      *)
(* linking length reaches across that face of the cell.                    *)
OneSidedCells(x, L, link, c) ==                                  \* fault
    LET cell == AxisCell(x, L, c) IN
    {cell} \union (IF (cell + 1) * L - WrapAxis(x, L) * c <= link * c
                     THEN {(cell + 1) % c} ELSE {})
OverlappingAxisCells(x, L, link, c) ==
    LET cell == AxisCell(x, L, c)
        at == WrapAxis(x, L) * c
    IN  {cell}
        \union (IF at - cell * L <= link * c THEN {(cell + c - 1) % c} ELSE {})
        \union (IF (cell + 1) * L - at <= link * c THEN {(cell + 1) % c} ELSE {})

(* find_memberships, one particle of the walk at a time.  The work begins  *)
(* with the chains of the cells and every particle a set of its own.       *)
FofWork(store, d, L, link) ==
    LET c == FofCells(Len(store), d, L, link)
    IN  [at |-> "work", store |-> store, side |-> L, link |-> link, cells |-> c,
         chains |-> Chained(FofPlaced(store), d, L, c),
         sets |-> Singletons(1 .. Len(store)), walked |-> 0]

(* The particles after i that its walk compares with it and finds close.   *)
FriendsAfter(work, i) ==
    LET at == work.store[i].at
        near == {cell \in DOMAIN work.chains : \A axis \in DOMAIN cell :
                   cell[axis] \in OverlappingAxisCells(at[axis], work.side,
                                                      work.link, work.cells)}
        walked == UNION {ToSet(work.chains[cell]) : cell \in near}
    IN  {j \in walked : /\ j > i
                        /\ Distance2(at, work.store[j].at, work.side)
                             <= Square(work.link)}

WalkNext(work) ==
    LET i == work.walked + 1
    IN  [work EXCEPT
           !.walked = i,
           !.sets = FoldSet(LAMBDA j, sets : UniteBySize(sets, i, j), @,
                            FriendsAfter(work, i))]

(* Larger first, then the one with the smallest identity first.            *)
EarlierMembership(a, b) ==
    \/ Len(a) > Len(b)
    \/ Len(a) = Len(b) /\ Head(a) < Head(b)

(* The sets that are large enough by their count at the root, each sorted  *)
(* by identity.                                                            *)
Memberships(work, minimum) ==
    LET n == Len(work.store)
        root(i) == RootIn(work.sets.parent, i)
        kept == {r \in {root(i) : i \in 1 .. n} : work.sets.size[r] >= minimum}
        members(r) == {work.store[i].id : i \in {j \in 1 .. n : root(j) = r}}
    IN  InOrder({InOrder(members(r), <) : r \in kept}, EarlierMembership)

(* Identities that repeat are refused before anything is done.             *)
UniqueIds(store) == Cardinality({store[i].id : i \in DOMAIN store}) = Len(store)
=============================================================================
