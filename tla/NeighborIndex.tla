---------------------------- MODULE NeighborIndex ----------------------------
(***************************************************************************)
(* PeriodicNeighborIndex and the aperture query over it: the particles of  *)
(* a store chained by cell, a query that walks the cells a sphere can      *)
(* reach, and the check that an index still describes the store it was     *)
(* built from.  A store is a sequence of positions; the index keeps        *)
(* particle numbers and reads the positions when it is queried.            *)
(*                                                                         *)
(* A radius is given in c-ths of a unit, c being the cells per axis, so    *)
(* that the width of a cell is L of them.  A definition marked "fault" is  *)
(* a plausible mistake in the one that follows.                            *)
(***************************************************************************)
EXTENDS PeriodicBox, Answers, Sequences, SequencesExt

CeilDiv(a, b) == (a + b - 1) \div b

(* make_plan: one link per particle and as many heads as fit, at most one  *)
(* per particle.  cap counts elements.                                     *)
IndexFits(n, cap) == n = 0 \/ cap > n

CellsPerAxis(n, d, cap) == FloorRoot(Min({cap - n, Max({1, n})}), d)

Cells(d, c) == [1 .. d -> 0 .. c - 1]

(* Each particle becomes the head of the chain of its cell.                *)
Chained(store, d, L, c) ==
    FoldLeft(LAMBDA chains, i :
               [chains EXCEPT ![CellOf(store[i], L, c)] = <<i>> \o @],
             [cell \in Cells(d, c) |-> <<>>],
             [i \in 1 .. Len(store) |-> i])

Index(store, d, L, cap) ==
    LET c == CellsPerAxis(Len(store), d, cap)
    IN  [count |-> Len(store), cells |-> c, axes |-> d, side |-> L,
         chains |-> Chained(store, d, L, c)]

(* The index describes a store when its chains hold each particle of it in *)
(* the cell the particle is in now.                                        *)
Describes(index, store) ==
    /\ index.count = Len(store)
    /\ \A cell \in DOMAIN index.chains :
         \A i \in ToSet(index.chains[cell]) :
           cell = CellOf(store[i], index.side, index.cells)

(* The cells of one axis a sphere about x can reach.                       *)
AxisCells(x, radius, L, c) ==
    LET reach == CeilDiv(radius, L) + 1
    IN  IF 2 * radius >= c * L \/ reach >= c \div 2 THEN 0 .. c - 1
        ELSE {(AxisCell(x, L, c) + o) % c : o \in -reach .. reach}

Reached(index, center, radius) ==
    {cell \in DOMAIN index.chains :
        \A axis \in DOMAIN cell :
          cell[axis] \in AxisCells(center[axis], radius, index.side, index.cells)}

Within(index, store, center, radius, i) ==
    Square(index.cells) * Distance2(center, store[i], index.side) <= Square(radius)

(* collect_within: the chains of the reached cells, one after another.     *)
CollectWithin(index, store, center, radius) ==
    FoldSet(LAMBDA cell, found :
              found \o SelectSeq(index.chains[cell],
                                 LAMBDA i : Within(index, store, center, radius, i)),
            <<>>, Reached(index, center, radius))

(* ExactPeriodicApertureQuery: a radius in (0, L/2], an index that         *)
(* describes the store.                                                    *)
Aperture(index, store, center, radius) ==
    IF /\ Describes(index, store)
       /\ radius > 0
       /\ 2 * radius <= index.cells * index.side
      THEN Found(CollectWithin(index, store, center, radius))
      ELSE Refused
=============================================================================
