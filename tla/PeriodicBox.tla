----------------------------- MODULE PeriodicBox -----------------------------
(***************************************************************************)
(* Positions in the periodic box of side L: one coordinate per axis, in    *)
(* units fine enough for every coordinate and radius to be an integer.     *)
(* The code decides which of two distances is the larger exactly, whatever *)
(* the rounding of a component, and so squared distances are compared.     *)
(***************************************************************************)
EXTENDS Integers, FiniteSets, FiniteSetsExt

WrapAxis(x, L) == x % L

WrapPosition(p, L) == [axis \in DOMAIN p |-> WrapAxis(p[axis], L)]

(* The represented displacement, in [-L/2, L/2).                           *)
MinimumImage(dx, L) ==
    LET v == dx % L IN IF 2 * v >= L THEN v - L ELSE v

Square(n) == n * n

(* The squared distance of two positions around the torus.                 *)
Distance2(p, q, L) ==
    MapThenSumSet(LAMBDA axis :
                    LET d == WrapAxis(p[axis], L) - WrapAxis(q[axis], L)
                        away == IF d < 0 THEN -d ELSE d
                    IN  Square(IF 2 * away > L THEN L - away ELSE away),
                  DOMAIN p)

(* The largest number of cells per axis that n allows in d axes.           *)
FloorRoot(n, d) == Max({c \in 0 .. n : c ^ d <= n})

(* The cell of a wrapped coordinate among c of them.                       *)
AxisCell(x, L, c) == Min({(WrapAxis(x, L) * c) \div L, c - 1})

CellOf(p, L, c) == [axis \in DOMAIN p |-> AxisCell(p[axis], L, c)]
=============================================================================
