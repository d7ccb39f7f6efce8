------------------------------ MODULE Answers -------------------------------
(***************************************************************************)
(* What the analysis calls have in common: they return a value or throw,   *)
(* they sort, and they join sets.                                          *)
(***************************************************************************)
EXTENDS Naturals, FiniteSets

Refused == [refused |-> TRUE]
Found(value) == [refused |-> FALSE, value |-> value]

(* The elements of S, sorted; Before is a strict total order.              *)
InOrder(S, Before(_, _)) ==
    [n \in 1 .. Cardinality(S) |->
        CHOOSE x \in S : Cardinality({y \in S : Before(y, x)}) = n - 1]

-----------------------------------------------------------------------------
(* Sets kept as trees of parents, for the friends of friends and for the   *)
(* peaks.  In the code a walk to the root also shortens the paths it has   *)
(* walked, which changes the length of later walks and nothing else.       *)
Singletons(S) == [parent |-> [e \in S |-> e], size |-> [e \in S |-> 1]]

RECURSIVE RootIn(_, _)
RootIn(parent, e) == IF parent[e] = e THEN e ELSE RootIn(parent, parent[e])

(* The root of the larger set becomes the root of both; lhs when equal.    *)
UniteBySize(sets, lhs, rhs) ==
    LET l == RootIn(sets.parent, lhs)
        r == RootIn(sets.parent, rhs)
        small == IF sets.size[l] < sets.size[r] THEN l ELSE r
        large == IF small = l THEN r ELSE l
    IN  IF l = r THEN sets
        ELSE [parent |-> [sets.parent EXCEPT ![small] = large],
              size |-> [sets.size EXCEPT ![large] = @ + sets.size[small]]]
=============================================================================
