---------------------------- MODULE MCForcePipeline -----------------------------
(***************************************************************************)
(* Four machines in one bench: a behaviour is one of the force pipeline,   *)
(* or one of the deposit a rank makes inside it, or one of the traversal   *)
(* of its tree for one particle, or one of the sums of masses by which the *)
(* ranks check a solve.                                                    *)
(***************************************************************************)
EXTENDS ForcePipeline

CONSTANTS DepositCalls, Available, CompactLimit, Machines, Problems, NoCutoff,
          Width, Digits, ExponentBits, Subnormal, LimbCount, MaxFactors,
          ProductLimbs, ProductSumLimbs, Requests

VARIABLES machine, depositCalls, call, store, counts, offsets, cursors, pc,
          position, bounds, task, failed, slab, outcome,
          problem, tree, target, stack, pairs, multipoles, result,
          request, place_of, partial, local, global, allocated, answer

deposit == <<depositCalls, call, store, counts, offsets, cursors, pc, position,
             bounds, task, failed, slab, outcome>>

traversal == <<problem, tree, target, stack, pairs, multipoles, result>>

D == INSTANCE MassAssignment
     WITH Calls <- DepositCalls, MaxFailures <- 1, calls <- depositCalls, planes <- slab

ASSUME D!MassAssignmentAssumption

T == INSTANCE TreeWalk

reduction == <<request, place_of, partial, local, global, allocated, answer>>

S == INSTANCE ExactReduction
     WITH MaxFailures <- 1, at <- place_of, outcome <- answer

ASSUME S!ReductionAssumption
ASSUME S!LimbsAssumption

(* Rank 0 owns three particles, rank 1 one, rank 2 none.                   *)
MCOwned == [r \in 0 .. 2 |-> CASE r = 0 -> 3 [] r = 1 -> 1 [] OTHER -> 0]

Start(kind, size, collect, made) ==
    [kind |-> kind, size |-> size, collect |-> collect, calls |-> made]

(* Two solves, so that a failed first one is retried with whatever it left *)
(* behind, and an energy measured after the first.                         *)
MCSetups ==
    {Start("treepm", 1, TRUE, <<"solve", "solve">>),
     Start("treepm", 2, TRUE, <<"solve", "solve">>),
     Start("treepm", 3, FALSE, <<"solve", "solve">>),
     Start("pm", 1, FALSE, <<"solve", "measure", "solve">>),
     Start("pm", 2, TRUE, <<"solve", "measure", "solve", "measure">>),
     Start("pm", 3, FALSE, <<"solve", "measure", "solve">>)}

MCCall(positions, start, count, ghost, loan, malformed) ==
    [positions |-> positions, start |-> start, planes |-> count,
     ghost |-> ghost, loan |-> loan, malformed |-> malformed]

(* Any six particles on three planes, which two threads sort; then, with   *)
(* the workspace left behind, fewer of them or nine, which three sort.     *)
MCFirst == {MCCall(s, own[1], own[2], own[2] < Mesh, 6, FALSE) :
              s \in {s \in [1 .. 6 -> 0 .. Mesh - 1] : s[1] = 1 /\ s[6] \in {0, 2}},
              own \in {<<0, 3>>, <<1, 2>>, <<0, 2>>}}
           \union {MCCall(<<>>, 1, 1, TRUE, 0, FALSE), MCCall(<<1>>, 1, 1, FALSE, 0, FALSE),
                   MCCall(<<1, 3>>, 0, 2, TRUE, 1, TRUE)}

MCThen == {MCCall(<<1, 1, 1>>, 1, 1, TRUE, 0, FALSE),
           MCCall(<<2, 1, 0, 2, 3, 2, 1, 1, 3>>, 0, 3, FALSE, 18, FALSE)}

MCDepositCalls == {<<c, d>> : c \in MCFirst, d \in MCThen}

Body(at, mass) == [at |-> at, mass |-> mass]

MCProblem(sources, side, cutoff, num, den) ==
    [store |-> sources, axes |-> Len(sources[1].at), side |-> side, owned |-> 2,
     cutoff |-> cutoff, theta |-> [num |-> num, den |-> den]]

(* Sources on a line and in a plane, in any place or in one place, for two *)
(* of which the tree is walked.  The side is divided until the centres of  *)
(* the cells are no longer coordinates there are.                          *)
MCProblems ==
    {MCProblem(<<Body(<<a>>, 1), Body(<<b>>, 1), Body(<<c>>, m), Body(<<9>>, 1),
                 Body(<<c + 1>>, 1)>>, 14, cutoff, theta[1], theta[2]) :
       a \in 0 .. 13, b \in {0, 1, 4, 5, 6, 10}, c \in {0, 3, 7}, m \in {1, 4},
       cutoff \in {NoCutoff, 4, 6}, theta \in {<<1, 2>>, <<1, 1>>, <<3, 1>>}}
    \union
    {MCProblem(<<Body(<<a, 1>>, 1), Body(<<b, c>>, 1), Body(<<c, c>>, 1),
                 Body(<<9, 2>>, 3), Body(<<b, 7>>, 1), Body(<<11, 11>>, 1)>>,
               14, cutoff, theta[1], theta[2]) :
       a \in 0 .. 13, b \in {0, 1, 5, 6}, c \in {0, 3, 7, 8},
       cutoff \in {NoCutoff, 4, 5}, theta \in {<<0, 1>>, <<1, 1>>, <<3, 1>>}}

(* Sums of a large, a middling and a small number, whose rounding hangs on *)
(* the last of them; repeated terms, also more of them than can be counted *)
(* in all; terms that are none; segments shared among workers; words with  *)
(* a carry; what cancels, with and without a rest, and products below and  *)
(* above what there is.                                                    *)
Number(negative, e, f) == [negative |-> negative, exponent |-> e, fraction |-> f]

Plus == {Number(FALSE, e, f) : e \in 0 .. 6, f \in 0 .. 3}
Few == {Number(FALSE, 0, 3), Number(FALSE, 1, 2), Number(FALSE, 3, 1), Number(FALSE, 6, 3)}
Tiny == {Number(FALSE, 0, 0), Number(FALSE, 0, 1), Number(FALSE, 1, 1)}
Nil == Number(FALSE, 0, 0)
Infinite == Number(FALSE, 7, 0)
Negated(v) == [v EXCEPT !.negative = ~ @]

Empty == [explicit |-> <<>>, repeated |-> FALSE, term |-> Nil, count |-> 0,
          segments |-> <<>>, products |-> <<>>, word |-> 0]
Of(terms) == [Empty EXCEPT !.explicit = terms]
Copies(v, n) == [Empty EXCEPT !.repeated = TRUE, !.term = v, !.count = n]
Segments(segments) == [Empty EXCEPT !.segments = segments]
Word(n) == [Empty EXCEPT !.word = n]
Products(terms) == <<[Empty EXCEPT !.products = terms]>>

Ask(kind, inputs) == [kind |-> kind, inputs |-> inputs]

MCRequests ==
    {Ask("terms", <<Of(<<a, b>>), Of(<<c>>)>>) :
       a \in {v \in Plus : v.exponent >= 4}, b \in Plus, c \in Tiny}
    \union {Ask("terms", <<Copies(v, n), Copies(v, m), Of(<<>>)>>) :
              v \in Plus, n \in {1, 7, 8}, m \in {0, 5, 8}}
    \union {Ask("terms", <<Of(<<Nil>>), x, Of(<<Nil, Infinite>>)>>) :
              x \in {Of(<<Infinite>>), Copies(Number(TRUE, 1, 1), 0),
                     Copies(Negated(Nil), 2), Of([k \in 1 .. 16 |-> Nil])}}
    \union {Ask("segments", <<Segments(<<<<a, b, a>>, <<b>>>>), Segments(s)>>) :
              a \in Few \union {Infinite}, b \in Few,
              s \in {<<>>, <<<<>>, <<Number(FALSE, 5, 1)>>>>,
                     <<<<Nil, Nil>>, <<Number(TRUE, 0, 1)>>>>}}
    \union {Ask("words", <<Word(a), Word(b), Word(c)>>) :
              a \in 0 .. 15, b \in 0 .. 15, c \in {0, 1, 7}}
    \union {Ask("words", [r \in 1 .. n |-> Word(r)]) : n \in {1, 6}}
    \union {Ask("signed", <<Of(<<a, Negated(b), c>>)>>) : a \in Plus, b \in Plus, c \in Tiny}
    \union {Ask("signed", <<Of(<<a, b, c>>)>>) : a \in Few, b \in Few,
              c \in {Infinite, Number(TRUE, 0, 1)}}
    \union {Ask("products", Products(<<<<a, b>>, <<Negated(c)>>>>)) :
              a \in Plus, b \in Few, c \in Plus}
    \union {Ask("products", Products(<<<<a, b>>, <<c, Negated(a)>>>>)) :
              a \in Plus \union {Infinite}, b \in Few, c \in Few \union Tiny}

(* The start of a machine that does not run is one fixed state.            *)
ForceRests == Init /\ setup = CHOOSE s \in Setups : s.size = 1

DepositRests ==
    /\ depositCalls = <<>> /\ call = <<>> /\ store = <<>> /\ counts = <<>>
    /\ offsets = <<>> /\ cursors = <<>> /\ pc = <<>> /\ position = <<>>
    /\ bounds = <<>> /\ task = <<>> /\ failed = {} /\ slab = <<>>
    /\ outcome = "idle"

TreeRests == /\ problem = <<>> /\ tree = T!EmptyTree /\ target = 0
             /\ stack = <<>> /\ pairs = <<>> /\ multipoles = <<>>
             /\ result = "none"

SumRests == /\ request = <<>> /\ place_of = <<>> /\ partial = <<>>
            /\ local = <<>> /\ global = <<>> /\ allocated = FALSE
            /\ answer = <<>>

BenchInit ==
    /\ machine \in Machines
    /\ IF machine = "force" THEN Init ELSE ForceRests
    /\ IF machine = "deposit" THEN D!Init ELSE DepositRests
    /\ IF machine = "tree" THEN T!WalkInit ELSE TreeRests
    /\ IF machine = "sum" THEN S!ReductionInit ELSE SumRests

(* A walk and a sum end.                                                   *)
TreeNext == \/ T!WalkNext
            \/ result \notin {"none", "walking"} /\ UNCHANGED traversal

SumNext == \/ S!ReductionNext
           \/ S!Ended /\ UNCHANGED reduction

BenchNext ==
    /\ UNCHANGED machine
    /\ \/ machine = "force" /\ Next /\ UNCHANGED <<deposit, traversal, reduction>>
       \/ machine = "deposit" /\ D!Next /\ UNCHANGED <<vars, traversal, reduction>>
       \/ machine = "tree" /\ TreeNext /\ UNCHANGED <<vars, deposit, reduction>>
       \/ machine = "sum" /\ SumNext /\ UNCHANGED <<vars, deposit, traversal>>

BenchSpec == BenchInit /\ [][BenchNext]_<<machine, vars, deposit, traversal, reduction>>

(* What MassAssignment, TreeWalk and ExactReduction state of a deposit, of *)
(* a traversal and of a sum.                                               *)
DepositIsSerial == machine = "deposit" => D!DepositIsSerial
EverySourceOnce == machine = "tree" => T!EverySourceOnce
SumsAreNearest == machine = "sum" => S!SumsAreNearest
=============================================================================
