----------------------------- MODULE MassAssignment -----------------------------
(***************************************************************************)
(* CICMassAssignment::deposit: a team of threads sorts the particles of a  *)
(* slab by the mesh plane they fall on, then workers add each particle to  *)
(* its own plane and to the next one.  Every plane is a floating-point     *)
(* sum, so the order of its terms is part of the result: a plane is kept   *)
(* here as the sequence of the contributions added to it.                  *)
(*                                                                         *)
(* One workspace serves several calls.  The sorted order is kept in memory *)
(* of its own, or in memory the caller lends for the length of a call.     *)
(*                                                                         *)
(* A position is the number of cells from the origin, and Mesh is the far  *)
(* side of the periodic box, which is plane 0 again.                       *)
(*                                                                         *)
(* A definition marked "fault" is a plausible mistake in the definition    *)
(* that follows it; no action uses it.                                     *)
(***************************************************************************)
EXTENDS Integers, Sequences, SequencesExt, FiniteSetsExt

CONSTANTS Mesh,          \* planes of the whole mesh
          Calls,         \* sequences of calls one workspace serves
          Available,     \* omp_get_max_threads
          CompactLimit,  \* particles a compact index can number
          MaxFailures    \* worker exceptions per behaviour

MassAssignmentAssumption ==
    /\ Mesh \in Nat \ {0}
    /\ Available \in Nat \ {0}
    /\ CompactLimit \in Nat
    /\ MaxFailures \in Nat

-----------------------------------------------------------------------------
(* How the plane tasks are shared out: contiguous ranges, one per worker,  *)
(* whose largest load is as small as it can be.                            *)

(* contiguous_groups_required: filled greedily from the left.              *)
GroupsRequired(weights, limit) ==
    FoldLeft(LAMBDA s, w : IF s.load + w > limit
                           THEN [groups |-> s.groups + 1, load |-> w]
                           ELSE [s EXCEPT !.load = @ + w],
             [groups |-> 1, load |-> 0], weights).groups

Total(weights) == FoldLeft(+, 0, weights)
Heaviest(weights) == Max(Range(weights))

(* The bisection ends on the least load that needs no more groups than     *)
(* there are workers.                                                      *)
OptimalLoad(weights, workers) ==
    LET average == (Total(weights) + workers - 1) \div workers
    IN  Min({limit \in Max({Heaviest(weights), average}) .. Total(weights) :
                 GroupsRequired(weights, limit) <= workers})

(* Without work the tasks are shared out evenly.                           *)
EvenShares(tasks, workers) ==
    [w \in 1 .. workers + 1 |->
        (w - 1) * (tasks \div workers) + Min({w - 1, tasks % workers})]

(* The end of a worker's range: as many tasks as the load admits, but one  *)
(* is left for each worker still to come.                                  *)
RangeEnd(weights, start, limit, last) ==
    Max({start} \union
        {e \in start + 1 .. last : Total(SubSeq(weights, start + 1, e)) <= limit})

LoadedShares(weights, workers) ==
    LET limit == OptimalLoad(weights, workers)
        tasks == Len(weights)
    IN  FoldLeft(LAMBDA ends, w :
                     Append(ends, IF w = workers THEN tasks
                                  ELSE RangeEnd(weights, Last(ends), limit,
                                                tasks - (workers - w))),
                 <<0>>, [w \in 1 .. workers |-> w])

PlaneBoundaries(weights, requested) ==
    LET workers == Min({Len(weights), requested})
    IN  IF Total(weights) = 0 THEN EvenShares(Len(weights), workers)
                              ELSE LoadedShares(weights, workers)

-----------------------------------------------------------------------------
Loads(weights, ends) ==
    {Total(SubSeq(weights, ends[w] + 1, ends[w + 1])) : w \in 1 .. Len(ends) - 1}

(* Every way to cut the tasks into non-empty contiguous ranges.            *)
Cuts(tasks, workers) ==
    {<<0>> \o SetToSortSeq(S, <) \o <<tasks>> : S \in kSubset(workers - 1, 1 .. tasks - 1)}

IsMinimax(weights, ends) ==
    /\ ends \in Cuts(Len(weights), Len(ends) - 1)
    /\ \A cut \in Cuts(Len(weights), Len(ends) - 1) :
           Max(Loads(weights, ends)) <= Max(Loads(weights, cut))

-----------------------------------------------------------------------------
VARIABLES calls,     \* the calls still to serve
          call,      \* the one being served
          store,     \* StableParticleOrder: whose memory, how wide, its content
          counts,    \* thread_counts
          offsets,   \* offsets of the bins
          cursors,   \* thread_offsets
          pc,        \* where each thread of the team is
          position,  \* the next particle each thread scatters
          bounds,    \* worker_boundaries
          task,      \* the next plane task of each worker
          failed,    \* workers whose exception is kept
          planes,    \* the mesh slab, and the plane to its right
          outcome    \* of the call being served

vars == <<calls, call, store, counts, offsets, cursors, pc, position, bounds,
          task, failed, planes, outcome>>

Cells == 0 .. Mesh - 1
Wrap(i) == i % Mesh

Particles(c) == 1 .. Len(c.positions)
Base(c, p) == Wrap(c.positions[p])

Decomposed(c) == c.planes < Mesh
Owns(c, cell) == cell \in c.start .. c.start + c.planes - 1

(* The plane a task works on; the task after the last plane of the slab    *)
(* works on the plane to the right.                                        *)
TaskCount(c) == c.planes + (IF Decomposed(c) THEN 1 ELSE 0)
TaskPlane(c, t) == Wrap(c.start + t)
Slots(c) == 0 .. TaskCount(c) - 1
Blank(c) == [t \in Slots(c) |-> <<>>]
Untouched(c) == [t \in Slots(c) |-> <<"before">>]

(* The memory plan: a thread must have a row's worth of particles to sort, *)
(* a worker at least one plane that can be visited.                        *)
BinningThreads(n) == Max({1, Min({Available, n, Max({1, n \div Mesh})})})
PlaneWorkers(c, n) == Max({1, Min({Available, TaskCount(c), 2 * n})})

IndexBytes(n) == IF n <= CompactLimit THEN n ELSE 2 * n

(* StableParticleOrder::ensure: what was lent if it is large enough, else  *)
(* the memory kept from earlier calls, else new memory.                    *)
Ensure(c) ==
    LET n == Len(c.positions)
        compact == n <= CompactLimit
        fresh == [i \in 0 .. n - 1 |-> 0]
    IN  CASE c.loan >= IndexBytes(n) ->
                 [lent |-> c.loan, own |-> 0, compact |-> compact, order |-> fresh]
          [] /\ c.loan < IndexBytes(n)
             /\ store.own >= IndexBytes(n)
             /\ store.compact = compact ->
                 [store EXCEPT !.lent = 0, !.order = store.order @@ fresh]
          [] OTHER ->
                 [lent |-> 0, own |-> IndexBytes(n), compact |-> compact,
                  order |-> fresh]

Team == DOMAIN pc
First(t) == (Len(call.positions) * t) \div Cardinality(Team)
Share(t) == First(t) + 1 .. First(t + 1)

Init == /\ calls \in Calls
        /\ call = Head(calls)
        /\ store = [lent |-> 0, own |-> 0, compact |-> TRUE, order |-> <<>>]
        /\ counts = <<>> /\ offsets = <<>> /\ cursors = <<>>
        /\ pc = <<>> /\ position = <<>>
        /\ bounds = <<>> /\ task = <<>> /\ failed = {}
        /\ planes = Untouched(call)
        /\ outcome = "called"

(* The checks before anything is touched.                                  *)
Refused(c) == c.malformed \/ (Decomposed(c) /\ ~ c.ghost)

Refuse == /\ outcome = "called"
          /\ Refused(call)
          /\ outcome' = "refused"
          /\ store' = [store EXCEPT !.lent = 0]
          /\ UNCHANGED <<calls, call, counts, offsets, cursors, pc, position,
                         bounds, task, failed, planes>>

DepositNothing == /\ outcome = "called"
                  /\ ~ Refused(call)
                  /\ call.positions = <<>>
                  /\ planes' = Blank(call)
                  /\ outcome' = "returned"
                  /\ UNCHANGED <<calls, call, store, counts, offsets, cursors,
                                 pc, position, bounds, task, failed>>

(* The team may come out smaller than it was asked to be.  The rows of     *)
(* threads that did not come stay zero.                                    *)
StartBinning ==
    LET rows == 0 .. BinningThreads(Len(call.positions)) - 1
        zero == [t \in rows |-> [b \in Cells |-> 0]]
    IN  /\ outcome = "called"
        /\ ~ Refused(call)
        /\ call.positions # <<>>
        /\ store' = Ensure(call)
        /\ counts' = zero
        /\ cursors' = zero
        /\ offsets' = [b \in 0 .. Mesh |-> 0]
        /\ \E size \in 1 .. Cardinality(rows) :
             /\ pc' = [t \in 0 .. size - 1 |-> "count"]
             /\ position' = [t \in 0 .. size - 1 |-> 0]
        /\ outcome' = "binning"
        /\ UNCHANGED <<calls, call, bounds, task, failed, planes>>

(* A thread counts the bins of its own contiguous range.                   *)
CountShare(t) ==
    /\ pc[t] = "count"
    /\ counts' = [counts EXCEPT ![t] = [b \in Cells |->
                     Cardinality({p \in Share(t) : Base(call, p) = b})]]
    /\ pc' = [pc EXCEPT ![t] = "counted"]
    /\ UNCHANGED <<calls, call, store, offsets, cursors, position, bounds,
                   task, failed, planes, outcome>>

SumOver(S, f(_)) == FoldSet(LAMBDA x, total : f(x) + total, 0, S)
BinStart(b) == SumOver({c \in Cells : c < b},
                       LAMBDA c : SumOver(DOMAIN counts, LAMBDA t : counts[t][c]))

(* After the barrier one thread turns the counts into places: the ranges   *)
(* of the threads follow each other within a bin in thread order.          *)
ThreadRanges ==
    [t \in DOMAIN counts |-> [b \in Cells |->
        BinStart(b) + SumOver({o \in DOMAIN counts : o < t},
                              LAMBDA o : counts[o][b])]]

PrefixSums == /\ outcome = "binning"
              /\ \A t \in Team : pc[t] = "counted"
              /\ offsets' = [b \in 0 .. Mesh |-> BinStart(b)]
              /\ cursors' = ThreadRanges
              /\ pc' = [t \in Team |-> "scatter"]
              /\ position' = [t \in Team |-> First(t) + 1]
              /\ UNCHANGED <<calls, call, store, counts, bounds, task, failed,
                             planes, outcome>>

(* After the second barrier the threads write into one shared array.       *)
ScatterOne(t) ==
    LET b == Base(call, position[t])
    IN  /\ pc[t] = "scatter"
        /\ position[t] \in Share(t)
        /\ store' = [store EXCEPT !.order[cursors[t][b]] = position[t]]
        /\ cursors' = [cursors EXCEPT ![t][b] = @ + 1]
        /\ position' = [position EXCEPT ![t] = @ + 1]
        /\ UNCHANGED <<calls, call, counts, offsets, pc, bounds, task, failed,
                       planes, outcome>>

LeaveTeam(t) == /\ pc[t] = "scatter"
                /\ position[t] \notin Share(t)
                /\ pc' = [pc EXCEPT ![t] = "left"]
                /\ UNCHANGED <<calls, call, store, counts, offsets, cursors,
                               position, bounds, task, failed, planes, outcome>>

Binned == outcome = "binning" /\ \A t \in Team : pc[t] = "left"

(* A particle of another slab is refused while the output is still intact. *)
Foreign == \E b \in Cells : ~ Owns(call, b) /\ offsets[b] # offsets[b + 1]

RefuseForeign == /\ Binned
                 /\ Decomposed(call) /\ Foreign
                 /\ outcome' = "refused"
                 /\ store' = [store EXCEPT !.lent = 0]
                 /\ UNCHANGED <<calls, call, counts, offsets, cursors, pc,
                                position, bounds, task, failed, planes>>

BinSize(b) == offsets[b + 1] - offsets[b]
Visits == [i \in 1 .. TaskCount(call) |->
              LET x == TaskPlane(call, i - 1)
              IN  BinSize(x) + BinSize(Wrap(x + Mesh - 1))]

StartDeposit ==
    LET workers == PlaneWorkers(call, Len(call.positions))
    IN  /\ Binned
        /\ ~ (Decomposed(call) /\ Foreign)
        /\ planes' = Blank(call)
        /\ bounds' = PlaneBoundaries(Visits, workers)
        /\ task' = [w \in 1 .. workers |-> bounds'[w]]
        /\ failed' = {}
        /\ outcome' = "depositing"
        /\ UNCHANGED <<calls, call, store, counts, offsets, cursors, pc, position>>

Bin(b) == [i \in 1 .. BinSize(b) |-> store.order[offsets[b] + i - 1]]
Weighted(b, side) == [i \in 1 .. BinSize(b) |-> <<side, Bin(b)[i]>>]

PlaneSum(x) == Weighted(x, "lower") \o Weighted(Wrap(x + Mesh - 1), "upper")

(* A worker adds to one plane after the other of its range.                *)
DepositPlane(w) ==
    /\ outcome = "depositing"
    /\ w \notin failed
    /\ task[w] < bounds[w + 1]
    /\ planes' = [planes EXCEPT ![task[w]] = @ \o PlaneSum(TaskPlane(call, task[w]))]
    /\ task' = [task EXCEPT ![w] = @ + 1]
    /\ UNCHANGED <<calls, call, store, counts, offsets, cursors, pc, position,
                   bounds, failed, outcome>>

(* An exception is kept for the caller; the other workers finish.          *)
WorkerFails(w) == /\ outcome = "depositing"
                  /\ Cardinality(failed) < MaxFailures
                  /\ w \notin failed
                  /\ task[w] < bounds[w + 1]
                  /\ failed' = failed \union {w}
                  /\ UNCHANGED <<calls, call, store, counts, offsets, cursors,
                                 pc, position, bounds, task, planes, outcome>>

IgnoreFailures == "returned"                                     \* fault
Verdict == IF failed = {} THEN "returned" ELSE "threw"

(* The loan ends with the call, however it ends.                           *)
Finish == /\ outcome = "depositing"
          /\ \A w \in DOMAIN task : w \in failed \/ task[w] = bounds[w + 1]
          /\ outcome' = Verdict
          /\ store' = [store EXCEPT !.lent = 0]
          /\ UNCHANGED <<calls, call, counts, offsets, cursors, pc, position,
                         bounds, task, failed, planes>>

Ended == outcome \in {"returned", "refused", "threw"}

NextCall == /\ Ended
            /\ Tail(calls) # <<>>
            /\ calls' = Tail(calls)
            /\ call' = Head(calls')
            /\ pc' = <<>>
            /\ planes' = Untouched(call')
            /\ outcome' = "called"
            /\ UNCHANGED <<store, counts, offsets, cursors, position, bounds,
                           task, failed>>

AllServed == Ended /\ Tail(calls) = <<>> /\ UNCHANGED vars

Next == \/ Refuse \/ DepositNothing \/ StartBinning
        \/ \E t \in Team : CountShare(t) \/ ScatterOne(t) \/ LeaveTeam(t)
        \/ PrefixSums \/ RefuseForeign \/ StartDeposit
        \/ \E w \in DOMAIN task : DepositPlane(w) \/ WorkerFails(w)
        \/ Finish \/ NextCall \/ AllServed

Spec == Init /\ [][Next]_vars

-----------------------------------------------------------------------------
(* What one thread would add to a plane: the particles based on it in      *)
(* their own order, then those based on the plane before.                  *)
InOrder(x, side) ==
    LET based == {p \in Particles(call) : Base(call, p) = x}
    IN  [i \in 1 .. Cardinality(based) |-> <<side, SetToSortSeq(based, <)[i]>>]

SerialSum(x) == InOrder(x, "lower") \o InOrder(Wrap(x + Mesh - 1), "upper")

(* While they scatter, no two threads can write to one place of the shared *)
(* order, and none past its end.                                           *)
Remaining(t) == {p \in Share(t) : p >= position[t]}
Reach(t) == UNION {cursors[t][b] .. cursors[t][b]
                       + Cardinality({p \in Remaining(t) : Base(call, p) = b}) - 1
                   : b \in Cells}

PlacesAreDisjoint ==
    outcome = "binning" /\ (\E t \in Team : pc[t] = "scatter") =>
        /\ \A t, u \in Team : t # u => Reach(t) \intersect Reach(u) = {}
        /\ \A t \in Team : Reach(t) \subseteq DOMAIN store.order

(* A deposit that returned left in every plane the very sum one thread     *)
(* would have left, term by term, for every team size, interleaving and    *)
(* memory the order was kept in; one that was refused left the planes as   *)
(* they were; and no call keeps what it was lent.  On the way the threads  *)
(* sort into disjoint places, and every plane belongs to one worker, no    *)
(* other contiguous way to share the planes out having a lighter heaviest  *)
(* worker.                                                                 *)
DepositIsSerial ==
    /\ outcome = "returned" =>
           \A t \in Slots(call) : planes[t] = SerialSum(TaskPlane(call, t))
    /\ outcome = "refused" => planes = Untouched(call)
    /\ Ended => store.lent = 0
    /\ PlacesAreDisjoint
    /\ outcome = "depositing" => IsMinimax(Visits, bounds)
=============================================================================
