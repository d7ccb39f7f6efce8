----------------------------- MODULE ExactReduction -----------------------------
(***************************************************************************)
(* Sums over all ranks that do not depend on who holds which terms         *)
(* (math/mpi_exact_nonnegative_sum.cpp, mpi_exact_uint64_sum.cpp): workers *)
(* of a rank accumulate shares of its terms, the rank combines them, rank  *)
(* 0 combines the ranks' and rounds once for all.  A rank meets the others *)
(* after every step that may fail.  The signed sums and the sums of        *)
(* products one rank makes by itself are here too.                         *)
(***************************************************************************)
EXTENDS ExactLimbs

CONSTANTS Requests,     \* what is summed: a kind, and what each rank has
          Workers,      \* omp_get_max_threads
          MaxFailures   \* allocations of rank 0 that fail

VARIABLES request,
          at,           \* where each rank is
          partial,      \* the sums of its workers
          local,        \* its own sum
          global,       \* of rank 0
          allocated,    \* did rank 0 get its memory?
          outcome       \* of each rank: a value, or whose exception

reduction == <<request, at, partial, local, global, allocated, outcome>>

ReductionAssumption == Workers \in Nat \ {0} /\ MaxFailures \in {0, 1}

Members == DOMAIN request.inputs
Input(r) == request.inputs[r]

Pending == [how |-> "pending", value |-> 0]
Answer(n) == [how |-> "value", value |-> n]
Throws(who) == [how |-> who, value |-> 0]

ReductionInit == /\ request \in Requests
                 /\ at = [r \in Members |-> "start"]
                 /\ partial = [r \in Members |-> <<>>]
                 /\ local = [r \in Members |-> EmptySum]
                 /\ global = EmptySum
                 /\ allocated = TRUE
                 /\ outcome = [r \in Members |-> Pending]

-----------------------------------------------------------------------------
(* The local sum of a rank.                                                *)

WorkItems(r) == FoldLeft(LAMBDA n, s : n + Len(s), 0, Input(r).segments)
WorkerCount(r) == Max({1, Min({Workers, WorkItems(r)})})

(* The w-th of contiguous shares that differ by one at most.               *)
ShareOf(segment, w, workers) ==
    LET block == Len(segment) \div workers
        remainder == Len(segment) % workers
        begin == (w - 1) * block + Min({w - 1, remainder})
    IN  SubSeq(segment, begin + 1,
               begin + block + IF w <= remainder THEN 1 ELSE 0)

Shares(r, w) == FoldLeft(LAMBDA s, segment : s \o ShareOf(segment, w, WorkerCount(r)),
                         <<>>, Input(r).segments)

(* Uniform terms are checked before they are counted, even if there are    *)
(* none.                                                                   *)
AccumulateTerms(r) ==
    /\ request.kind = "terms" /\ at[r] = "start"
    /\ local' = [local EXCEPT ![r] =
           IF Input(r).repeated THEN AddRepeated(EmptySum, Input(r).term, Input(r).count)
                                ELSE AddAll(EmptySum, Input(r).explicit)]
    /\ at' = [at EXCEPT ![r] = "accumulated"]
    /\ UNCHANGED <<request, partial, global, allocated, outcome>>

AccumulateSerially(r) ==
    /\ request.kind = "segments" /\ at[r] = "start" /\ WorkerCount(r) = 1
    /\ local' = [local EXCEPT ![r] = AddAll(EmptySum, FlattenSeq(Input(r).segments))]
    /\ at' = [at EXCEPT ![r] = "accumulated"]
    /\ UNCHANGED <<request, partial, global, allocated, outcome>>

StartTeam(r) ==
    /\ request.kind = "segments" /\ at[r] = "start" /\ WorkerCount(r) > 1
    /\ partial' = [partial EXCEPT ![r] = [w \in 1 .. WorkerCount(r) |-> EmptySum]]
    /\ at' = [at EXCEPT ![r] = "team"]
    /\ UNCHANGED <<request, local, global, allocated, outcome>>

(* A worker ends with its share in its sum, or with its exception.         *)
AddShare(r, w) ==
    /\ at[r] = "team" /\ partial[r][w] = EmptySum /\ Shares(r, w) # <<>>
    /\ partial' = [partial EXCEPT ![r][w] = AddAll(EmptySum, Shares(r, w))]
    /\ UNCHANGED <<request, at, local, global, allocated, outcome>>

(* The exception of the first worker that has one, or the sums combined.   *)
Joined(r) ==
    LET thrown == SelectSeq(partial[r], LAMBDA s : s.error # "none")
    IN  IF thrown # <<>> THEN Head(thrown) ELSE FoldLeft(Combine, EmptySum, partial[r])

JoinTeam(r) ==
    /\ at[r] = "team"
    /\ \A w \in DOMAIN partial[r] : partial[r][w] # EmptySum \/ Shares(r, w) = <<>>
    /\ local' = [local EXCEPT ![r] = Joined(r)]
    /\ at' = [at EXCEPT ![r] = "accumulated"]
    /\ UNCHANGED <<request, partial, global, allocated, outcome>>

-----------------------------------------------------------------------------
(* The ranks together.  Whoever failed throws what it caught, the others   *)
(* that another rank failed.                                               *)

AllAt(place) == \A r \in Members : at[r] = place
GoOn(place) == at' = [r \in Members |-> place]

EverybodyThrows(failed) ==
    /\ outcome' = [r \in Members |-> Throws(IF r \in failed THEN "own" ELSE "other")]
    /\ GoOn("left")

Rounding(sum) == IF Value(sum.limbs) <= MaxFinite THEN Answer(Value(sum.limbs))
                                                  ELSE Throws("own")

(* A rank alone rounds at once.                                            *)
MeetLocal ==
    LET failed == {r \in Members : local[r].error # "none"}
    IN  /\ AllAt("accumulated")
        /\ \/ failed # {} /\ EverybodyThrows(failed)
           \/ /\ failed = {} /\ Len(request.inputs) = 1
              /\ outcome' = [r \in Members |-> Rounding(local[r])]
              /\ GoOn("left")
           \/ /\ failed = {} /\ Len(request.inputs) > 1
              /\ GoOn("allocate") /\ UNCHANGED outcome
        /\ UNCHANGED <<request, partial, local, global, allocated>>

Root == 1

Allocate ==
    /\ AllAt("allocate")
    /\ allocated' \in {TRUE} \union (IF MaxFailures > 0 THEN {FALSE} ELSE {})
    /\ IF allocated' THEN GoOn("gathered") /\ UNCHANGED outcome
                     ELSE EverybodyThrows({Root})
    /\ UNCHANGED <<request, partial, local, global>>

(* Rank 0 adds what it gathered, in the order of the ranks.                *)
CombineRanks ==
    /\ at[Root] = "gathered"
    /\ global' = FoldLeft(Combine, EmptySum, local)
    /\ at' = [at EXCEPT ![Root] = "combined"]
    /\ UNCHANGED <<request, partial, local, allocated, outcome>>

Broadcast ==
    LET whole == IF global.error = "none" THEN Rounding(global) ELSE Throws("own")
    IN  /\ at[Root] = "combined" /\ \A r \in Members \ {Root} : at[r] = "gathered"
        /\ IF whole.how = "value"
             THEN outcome' = [r \in Members |-> whole] /\ GoOn("left")
             ELSE EverybodyThrows({Root})
        /\ UNCHANGED <<request, partial, local, global, allocated>>

-----------------------------------------------------------------------------
(* mpi_exact_uint64_sum: the halves of the words are added by MPI, and     *)
(* every rank puts them together.                                          *)
SumOf(f) == FoldLeft(+, 0, f)

SumWords ==
    LET size == Len(request.inputs)
        high == SumOf([r \in Members |-> Input(r).word \div Half]) % Base
        low == SumOf([r \in Members |-> Input(r).word % Half]) % Base
        carried == high + (low \div Half)
    IN  /\ request.kind = "words" /\ AllAt("start")
        /\ outcome' = [r \in Members |->
               IF size = 1 THEN Answer(Input(r).word)
               ELSE IF size > MaxWord \div (Half - 1) \/ carried >= Half
                 THEN Throws("own")
                 ELSE Answer(carried * Half + (low % Half))]
        /\ GoOn("left")
        /\ UNCHANGED <<request, partial, local, global, allocated>>

-----------------------------------------------------------------------------
(* The sums one rank makes by itself.                                      *)

Units(v) == (IF v.negative THEN -1 ELSE 1) * Decode(v).mantissa * 2 ^ Decode(v).shift

AloneSigned(terms) ==
    IF \E k \in DOMAIN terms : ~ IsFinite(terms[k]) THEN Throws("own")
    ELSE IF Max({SignedSum(terms), - SignedSum(terms)}) > MaxFinite THEN Throws("own")
    ELSE Answer(SignedSum(terms))

AloneProducts(terms) ==
    LET sum == ProductSum(terms)
    IN  IF sum.status = "value" THEN Answer(Units(sum)) ELSE Throws(sum.status)

SumAlone(r) ==
    /\ request.kind \in {"signed", "products"} /\ at[r] = "start"
    /\ outcome' = [outcome EXCEPT ![r] = IF request.kind = "signed"
                                           THEN AloneSigned(Input(r).explicit)
                                           ELSE AloneProducts(Input(r).products)]
    /\ at' = [at EXCEPT ![r] = "left"]
    /\ UNCHANGED <<request, partial, local, global, allocated>>

ReductionNext ==
    \/ \E r \in Members : \/ AccumulateTerms(r) \/ AccumulateSerially(r)
                          \/ StartTeam(r) \/ JoinTeam(r) \/ SumAlone(r)
                          \/ \E w \in DOMAIN partial[r] : AddShare(r, w)
    \/ MeetLocal \/ Allocate \/ CombineRanks \/ Broadcast \/ SumWords

-----------------------------------------------------------------------------
(* The reference: the number nearest to a whole number of units of         *)
(* 2 ^ -(Subnormal + fine), of two nearest the one with the even           *)
(* significand.                                                            *)
Magnitudes == {m * 2 ^ e : m \in 0 .. 2 ^ Digits - 1, e \in 0 .. 2 ^ ExponentBits - 3}

Distance(n, x) == Max({n - x, x - n})

IsNearest(x, n, fine) ==
    LET scaled(y) == y * 2 ^ fine
        d == Distance(n, scaled(x))
    IN  /\ Max({x, - x}) \in Magnitudes
        /\ \A y \in Magnitudes \union {- m : m \in Magnitudes} :
               \/ y = x
               \/ d < Distance(n, scaled(y))
               \/ /\ d = Distance(n, scaled(y))
                  /\ (x \div Distance(x, y)) % 2 = 0

(* Half of the last place above the largest number is rounded away.        *)
Overflows(n, fine) ==
    2 * Max({n, - n}) >= (2 * MaxFinite + 2 ^ (2 ^ ExponentBits - 3)) * 2 ^ fine

TermsOf(r) ==
    CASE request.kind = "terms" ->
             IF Input(r).repeated THEN [k \in 1 .. Input(r).count |-> Input(r).term]
                                  ELSE Input(r).explicit
      [] request.kind = "segments" -> FlattenSeq(Input(r).segments)
      [] request.kind = "signed" -> Input(r).explicit

Exact == SumOf([r \in Members |-> SumOf([k \in DOMAIN TermsOf(r) |-> Units(TermsOf(r)[k])])])
Terms == SumOf([r \in Members |-> Len(TermsOf(r))])

ExactProduct(factors) ==
    FoldLeft(LAMBDA n, v : n * Units(v), 1, factors)
    * 2 ^ ((MaxFactors - Len(factors)) * Subnormal)
ExactProducts(terms) == SumOf([k \in DOMAIN terms |-> ExactProduct(terms[k])])

Malformed(r) ==
    \/ \E k \in DOMAIN TermsOf(r) : ~ IsTerm(TermsOf(r)[k])
    \/ request.kind = "terms" /\ Input(r).repeated /\ ~ IsTerm(Input(r).term)

Ended == AllAt("left")
Everybody(o) == \A r \in Members : outcome[r] = o

(* However the terms are spread over ranks, segments and workers, every    *)
(* rank leaves with the one number nearest to their exact sum, or none     *)
(* does, for a reason: a term that is none, too many terms, no memory on   *)
(* rank 0 or a sum beyond the largest number; and only the ranks with a    *)
(* reason of their own blame themselves.  A sum of signed terms or of      *)
(* products is rounded as well, whatever cancelled in it.                  *)
SumsOverRanks ==
    IF \E r \in Members : Malformed(r) \/ Len(TermsOf(r)) > MaxWord
      THEN \A r \in Members : outcome[r] = Throws(
               IF Malformed(r) \/ Len(TermsOf(r)) > MaxWord THEN "own" ELSE "other")
    ELSE IF ~ allocated \/ Terms > MaxWord \/ Overflows(Exact, 0)
      THEN \A r \in Members : outcome[r] = Throws(IF r = Root THEN "own" ELSE "other")
    ELSE \E r \in Members : /\ IsNearest(outcome[r].value, Exact, 0)
                            /\ Everybody(Answer(outcome[r].value))

SumsAreNearest ==
    Ended =>
        CASE request.kind \in {"terms", "segments"} -> SumsOverRanks
          [] request.kind = "words" ->
                 LET sum == SumOf([r \in Members |-> Input(r).word])
                 IN  Everybody(IF sum <= MaxWord THEN Answer(sum) ELSE Throws("own"))
          [] request.kind = "signed" ->
                 \A r \in Members :
                     IF \/ \E k \in DOMAIN TermsOf(r) : ~ IsFinite(TermsOf(r)[k])
                        \/ Overflows(Exact, 0)
                       THEN outcome[r] = Throws("own")
                     ELSE /\ outcome[r].how = "value"
                          /\ IsNearest(outcome[r].value, Exact, 0)
          [] request.kind = "products" ->
                 \A r \in Members :
                     LET products == Input(r).products
                         exact == ExactProducts(products)
                     IN  IF \E k \in DOMAIN products :
                                \E f \in DOMAIN products[k] : ~ IsFinite(products[k][f])
                           THEN outcome[r] = Throws("invalid")
                         ELSE IF Overflows(exact, Finest)
                           THEN outcome[r] = Throws("overflow")
                         ELSE \/ /\ outcome[r] = Throws("underflow")
                                 /\ exact # 0 /\ IsNearest(0, exact, Finest)
                              \/ /\ outcome[r].how = "value"
                                 /\ outcome[r].value = 0 => exact = 0
                                 /\ IsNearest(outcome[r].value, exact, Finest)
=============================================================================
