------------------------- MODULE StagedExchange_proofs -------------------------
(***************************************************************************)
(* The synchronized stages, the rounds that carry records between two of   *)
(* them, and the contexts in which all of it runs.                         *)
(*                                                                         *)
(* Of the stages, for every communicator and every number of them: the     *)
(* type invariant, agreement, the true blame, and that they implement one  *)
(* agreed outcome.                                                         *)
(*                                                                         *)
(* Of the rounds: every record arrives once and in place, for every number *)
(* of ranks, every load and every limit of a message.                      *)
(*                                                                         *)
(* Of the contexts: leases are whole and shared, for every job and every   *)
(* number of calls.                                                        *)
(***************************************************************************)
EXTENDS CollectiveStage, BoundedMigration, RuntimeLease, WellFoundedInduction,
        FiniteSetTheorems, TLAPS

(* A rank has passed nothing to the reductions it has not reached, nor to  *)
(* the one of the stage it is still working in.                            *)
NotYetEntered ==
    \A r \in Ranks : \A k \in Stages :
        (k > stage[r] \/ (k = stage[r] /\ pc[r] = "work"))
            => contrib[k][r] = "absent"

(* A rank that threw did so because some rank failed in its stage.         *)
ThrewForCause == \A r \in Ranks : pc[r] = "threw" => AnyFailed(stage[r])

(* An error is recorded only by leaving.                                   *)
ErrorOnlyOutside ==
    \A r \in Ranks : error[r] # "none" => pc[r] \in {"threw", "aborted"}

IInv == /\ TypeOK
        /\ NoRunAhead
        /\ NotYetEntered
        /\ ThrewForCause
        /\ ErrorOnlyOutside
        /\ BlameIsTrue

-----------------------------------------------------------------------------
(* A rank that failed in stage k is still in stage k: NoRunAhead keeps it  *)
(* from having passed it and NotYetEntered from not having reached it.     *)
LEMMA FailedStaysInStage ==
    ASSUME StageAssumption, IInv,
           NEW r \in Ranks, NEW k \in Stages, contrib[k][r] = "failed"
    PROVE  stage[r] = k
 <1>1. k \in Nat /\ stage[r] \in Nat
   BY StageAssumption DEF StageAssumption, IInv, TypeOK, Stages
 <1>2. ~ (k < stage[r])
   BY DEF IInv, NoRunAhead
 <1>3. ~ (k > stage[r])
   BY DEF IInv, NotYetEntered
 <1> QED
   BY <1>1, <1>2, <1>3

LEMMA InitEstablishes ==
    ASSUME StageAssumption PROVE Init => IInv
  BY StageAssumption
  DEF StageAssumption, Init, IInv, TypeOK, NoRunAhead, NotYetEntered,
      ThrewForCause, ErrorOnlyOutside, BlameIsTrue, Stages, Terminal, AnyFailed

(* Entering the reduction writes only an absent contribution, so no fact   *)
(* about contributions already made is disturbed.                          *)
LEMMA WorkPreserves ==
    ASSUME StageAssumption, IInv, NEW r \in Ranks, NEW ending \in {"ok", "failed"},
           Work(r, ending)
    PROVE  IInv'
 <1> USE DEF IInv, Work
 <1>1. stage[r] \in Stages /\ contrib[stage[r]][r] = "absent"
   BY DEF TypeOK, NotYetEntered
 <1>2. \A k \in Stages, s \in Ranks :
           contrib'[k][s] = IF k = stage[r] /\ s = r THEN ending
                            ELSE contrib[k][s]
   BY DEF TypeOK
 <1>3. TypeOK'
   BY <1>1 DEF TypeOK
 <1>4. NoRunAhead'
  <2> SUFFICES ASSUME NEW q \in Ranks, NEW s \in Ranks, NEW k \in Stages,
                      k < stage[q] \/ pc'[q] = "returned"
               PROVE  contrib'[k][s] = "ok"
    BY DEF NoRunAhead
  <2>1. k < stage[q] \/ pc[q] = "returned"
    BY DEF TypeOK
  <2>2. contrib[k][s] = "ok"
    BY <2>1 DEF NoRunAhead
  <2> QED
    BY <1>1, <1>2, <2>2
 <1>5. NotYetEntered'
  <2> SUFFICES ASSUME NEW s \in Ranks, NEW k \in Stages,
                      k > stage[s] \/ (k = stage[s] /\ pc'[s] = "work")
               PROVE  contrib'[k][s] = "absent"
    BY DEF NotYetEntered
  <2>1. CASE s = r
   <3>1. k > stage[r]
     BY <2>1 DEF TypeOK
   <3>2. k # stage[r]
     BY <3>1, <1>1, StageAssumption DEF StageAssumption, Stages
   <3>3. contrib[k][r] = "absent"
     BY <3>1 DEF NotYetEntered
   <3> QED
     BY <3>2, <3>3, <2>1, <1>2
  <2>2. CASE s # r
    BY <2>2, <1>2 DEF TypeOK, NotYetEntered
  <2> QED
    BY <2>1, <2>2
 <1>6. ThrewForCause'
  <2> SUFFICES ASSUME NEW s \in Ranks, pc'[s] = "threw"
               PROVE  AnyFailed(stage[s])'
    BY DEF ThrewForCause
  <2>1. pc[s] = "threw" /\ stage[s] \in Stages
    BY DEF TypeOK
  <2>2. PICK q \in Ranks : contrib[stage[s]][q] = "failed"
    BY <2>1 DEF ThrewForCause, AnyFailed
  <2> QED
    BY <1>1, <1>2, <2>1, <2>2 DEF AnyFailed
 <1>7. ErrorOnlyOutside'
   BY DEF ErrorOnlyOutside, TypeOK
 <1>8. BlameIsTrue'
  <2> SUFFICES ASSUME NEW s \in Ranks, error[s] # "none"
               PROVE  /\ error[s] = "own"  => contrib'[stage[s]][s] = "failed"
                      /\ error[s] = "peer" =>
                            /\ contrib'[stage[s]][s] = "ok"
                            /\ \E q \in Ranks \ {s} :
                                  /\ contrib'[stage[s]][q] = "failed"
                                  /\ stage[q] = stage[s]
    BY DEF BlameIsTrue
  <2>1. s # r /\ stage[s] \in Stages
    BY DEF ErrorOnlyOutside, TypeOK
  <2>2. error[s] = "peer" =>
           \E q \in Ranks \ {s} : /\ contrib'[stage[s]][q] = "failed"
                                  /\ stage[q] = stage[s]
    BY <1>1, <1>2, <2>1 DEF BlameIsTrue
  <2> QED
    BY <1>1, <1>2, <2>1, <2>2 DEF BlameIsTrue
 <1> QED
   BY <1>3, <1>4, <1>5, <1>6, <1>7, <1>8

(* A rank passes a stage only when every contribution to it is "ok".       *)
LEMMA ProceedPreserves ==
    ASSUME StageAssumption, IInv, NEW r \in Ranks, Proceed(r)
    PROVE  IInv'
 <1> USE DEF IInv, Proceed
 <1>1. stage[r] \in Stages /\ stage[r] \in Nat /\ NumStages \in Nat
   BY StageAssumption DEF StageAssumption, TypeOK, Stages
 <1>2. \A s \in Ranks : contrib[stage[r]][s] = "ok"
   BY <1>1 DEF Complete, AnyFailed, TypeOK
 <1>3. /\ \A s \in Ranks \ {r} : stage'[s] = stage[s] /\ pc'[s] = pc[s]
       /\ \/ stage[r] = NumStages /\ stage'[r] = stage[r] /\ pc'[r] = "returned"
          \/ stage[r] # NumStages /\ stage'[r] = stage[r] + 1 /\ pc'[r] = "work"
   BY DEF TypeOK
 <1>4. TypeOK'
  <2>1. stage[r] # NumStages => stage[r] + 1 \in Stages
    BY <1>1 DEF Stages
  <2>2. stage' \in [Ranks -> Stages]
    BY <2>1 DEF TypeOK
  <2> QED
    BY <2>2 DEF TypeOK, Terminal
 <1>5. NoRunAhead'
  <2> SUFFICES ASSUME NEW q \in Ranks, NEW s \in Ranks, NEW k \in Stages,
                      k < stage'[q] \/ pc'[q] = "returned"
               PROVE  contrib[k][s] = "ok"
    BY DEF NoRunAhead
  <2>1. CASE q # r
    BY <2>1, <1>3 DEF NoRunAhead
  <2>2. CASE q = r
   <3>1. k < stage[r] \/ k = stage[r]
     BY <2>2, <1>1, <1>3 DEF Stages
   <3> QED
     BY <3>1, <1>2 DEF NoRunAhead
  <2> QED
    BY <2>1, <2>2
 <1>6. NotYetEntered'
  <2> SUFFICES ASSUME NEW s \in Ranks, NEW k \in Stages,
                      k > stage'[s] \/ (k = stage'[s] /\ pc'[s] = "work")
               PROVE  contrib[k][s] = "absent"
    BY DEF NotYetEntered
  <2>1. CASE s # r
    BY <2>1, <1>3 DEF NotYetEntered
  <2>2. CASE s = r
   <3>1. k > stage[r]
     BY <2>2, <1>1, <1>3 DEF Stages
   <3> QED
     BY <3>1, <2>2 DEF NotYetEntered
  <2> QED
    BY <2>1, <2>2
 <1>7. ThrewForCause' /\ ErrorOnlyOutside'
   BY <1>3 DEF ThrewForCause, ErrorOnlyOutside, AnyFailed
 <1>8. BlameIsTrue'
  <2> SUFFICES ASSUME NEW s \in Ranks, error[s] # "none"
               PROVE  /\ error[s] = "own"  => contrib[stage'[s]][s] = "failed"
                      /\ error[s] = "peer" =>
                            /\ contrib[stage'[s]][s] = "ok"
                            /\ \E q \in Ranks \ {s} :
                                  /\ contrib[stage'[s]][q] = "failed"
                                  /\ stage'[q] = stage'[s]
    BY DEF BlameIsTrue
  <2>1. s # r /\ stage'[s] = stage[s]
    BY <1>3 DEF ErrorOnlyOutside
  <2>2. ASSUME NEW q \in Ranks, stage[q] = stage[s],
               contrib[stage[s]][q] = "failed"
        PROVE  stage'[q] = stage'[s]
   <3>1. q # r
     BY <2>2, <1>2
   <3> QED
     BY <3>1, <2>1, <2>2, <1>3
  <2> QED
    BY <2>1, <2>2 DEF BlameIsTrue
 <1> QED
   BY <1>4, <1>5, <1>6, <1>7, <1>8

(* Leaving by an exception: the peer that failed is in the same stage.     *)
LEMMA ThrowPreserves ==
    ASSUME StageAssumption, IInv, NEW r \in Ranks, Throw(r)
    PROVE  IInv'
 <1> USE DEF Throw
 <1>1. PICK q \in Ranks : contrib[stage[r]][q] = "failed"
   BY DEF AnyFailed
 <1>2. stage[r] \in Stages
   BY DEF IInv, TypeOK
 <1>3. stage[q] = stage[r]
   BY <1>1, <1>2, FailedStaysInStage
 <1>4. contrib[stage[r]][r] \in {"ok", "failed"}
   BY <1>2 DEF IInv, TypeOK, Complete
 <1>5. TypeOK'
   BY DEF IInv, TypeOK, Terminal
 <1>6. NoRunAhead' /\ NotYetEntered' /\ ThrewForCause' /\ ErrorOnlyOutside'
   BY DEF IInv, TypeOK, NoRunAhead, NotYetEntered, ThrewForCause,
          ErrorOnlyOutside, AnyFailed
 <1>7. BlameIsTrue'
  <2> SUFFICES ASSUME NEW s \in Ranks
               PROVE  /\ error'[s] = "own"  => contrib[stage[s]][s] = "failed"
                      /\ error'[s] = "peer" =>
                            /\ contrib[stage[s]][s] = "ok"
                            /\ \E p \in Ranks \ {s} :
                                  /\ contrib[stage[s]][p] = "failed"
                                  /\ stage[p] = stage[s]
    BY DEF BlameIsTrue
  <2>1. CASE s = r
    BY <2>1, <1>1, <1>3, <1>4 DEF IInv, TypeOK
  <2>2. CASE s # r
    BY <2>2 DEF IInv, TypeOK, BlameIsTrue
  <2> QED
    BY <2>1, <2>2
 <1> QED
   BY <1>5, <1>6, <1>7 DEF IInv

LEMMA TransportFailurePreserves ==
    ASSUME IInv, NEW r \in Ranks, TransportFailure(r)
    PROVE  IInv'
  BY DEF IInv, TransportFailure, TypeOK, NoRunAhead, NotYetEntered,
         ThrewForCause, ErrorOnlyOutside, BlameIsTrue, Terminal

LEMMA StepPreserves ==
    ASSUME StageAssumption PROVE IInv /\ [Next]_vars => IInv'
 <1> SUFFICES ASSUME IInv, [Next]_vars PROVE IInv'
   OBVIOUS
 <1>1. ASSUME NEW r \in Ranks, NEW ending \in {"ok", "failed"},
              Work(r, ending)
       PROVE  IInv'
   BY <1>1, WorkPreserves
 <1>2. ASSUME NEW r \in Ranks, Proceed(r) PROVE IInv'
   BY <1>2, ProceedPreserves
 <1>3. ASSUME NEW r \in Ranks, Throw(r) PROVE IInv'
   BY <1>3, ThrowPreserves
 <1>4. ASSUME NEW r \in Ranks, TransportFailure(r) PROVE IInv'
   BY <1>4, TransportFailurePreserves
 <1>5. CASE UNCHANGED vars
   BY <1>5 DEF vars, IInv, TypeOK, NoRunAhead, NotYetEntered, ThrewForCause,
               ErrorOnlyOutside, BlameIsTrue, AnyFailed
 <1> QED
   BY <1>1, <1>2, <1>3, <1>4, <1>5 DEF Next, Step, Finished

-----------------------------------------------------------------------------
(* The inductive invariant holds in every behaviour.                       *)
THEOREM Inductive ==
    ASSUME StageAssumption PROVE Spec => []IInv
  BY InitEstablishes, StepPreserves, PTL DEF Spec

(* Type correctness of the collective stages.                              *)
THEOREM TypeCorrect ==
    ASSUME StageAssumption PROVE Spec => []TypeOK
 <1>1. IInv => TypeOK
   BY DEF IInv
 <1> QED
   BY <1>1, Inductive, PTL

(* A later stage starts only after every rank passed the earlier ones.     *)
THEOREM StagesInOrder ==
    ASSUME StageAssumption PROVE Spec => []NoRunAhead
 <1>1. IInv => NoRunAhead
   BY DEF IInv
 <1> QED
   BY <1>1, Inductive, PTL

(* No two ranks leave synchronize_mpi_exception-delimited operations with  *)
(* different outcomes.                                                     *)
THEOREM RanksAgree ==
    ASSUME StageAssumption PROVE Spec => []Agreement
 <1>1. IInv => Agreement
   BY DEF IInv, TypeOK, Agreement, NoRunAhead, ThrewForCause, AnyFailed
 <1> QED
   BY <1>1, Inductive, PTL

(* The message a rank throws names the rank that failed.                   *)
THEOREM BlameCorrect ==
    ASSUME StageAssumption PROVE Spec => []BlameIsTrue
 <1>1. IInv => BlameIsTrue
   BY DEF IInv
 <1> QED
   BY <1>1, Inductive, PTL

-----------------------------------------------------------------------------
(* Refinement.  Contributions are only added, so a verdict once reached is *)
(* never revised.                                                          *)
LEMMA InitRefines ==
    ASSUME StageAssumption PROVE Init => A!Init
  BY StageAssumption
  DEF StageAssumption, Init, A!Init, Verdict, Result, Outcome, AnyFailed,
      AllOk, Stages

LEMMA WorkRefines ==
    ASSUME IInv, NEW r \in Ranks, NEW ending \in {"ok", "failed"},
           Work(r, ending)
    PROVE  [A!Next]_A!vars
 <1>1. stage[r] \in Stages /\ contrib[stage[r]][r] = "absent"
   BY DEF IInv, TypeOK, NotYetEntered, Work
 <1>2. \A k \in Stages, s \in Ranks :
           contrib'[k][s] = IF k = stage[r] /\ s = r THEN ending
                            ELSE contrib[k][s]
   BY DEF IInv, TypeOK, Work
 <1>3. Result' = Result
   BY DEF Work, Result, Outcome, IInv, TypeOK
 <1>4. ~ AllOk
   BY <1>1 DEF AllOk
 <1>5. CASE \E k \in Stages : AnyFailed(k)
  <2>1. \E k \in Stages : AnyFailed(k)'
    BY <1>1, <1>2, <1>5 DEF AnyFailed
  <2>2. Verdict' = Verdict
    BY <1>5, <2>1 DEF Verdict
  <2> QED
    BY <2>2, <1>3 DEF A!vars
 <1>6. CASE ~ \E k \in Stages : AnyFailed(k)
  <2>1. Verdict = "undecided"
    BY <1>4, <1>6 DEF Verdict
  <2>2. Verdict' \in {"fail", "commit", "undecided"}
    BY DEF Verdict
  <2> QED
    BY <2>1, <2>2, <1>3
    DEF A!Next, A!Decide, A!Verdicts, A!vars
 <1> QED
   BY <1>5, <1>6

LEMMA ProceedRefines ==
    ASSUME StageAssumption, IInv, NEW r \in Ranks, Proceed(r)
    PROVE  [A!Next]_A!vars
 <1>1. Verdict' = Verdict
   BY DEF Proceed, Verdict, AllOk, AnyFailed
 <1>2. CASE stage[r] # NumStages
  <2>1. Result' = Result
    BY <1>2 DEF Proceed, Result, Outcome, IInv, TypeOK
  <2> QED
    BY <1>1, <2>1 DEF A!vars
 <1>3. CASE stage[r] = NumStages
  <2>1. \A k \in Stages : k < stage[r] \/ k = stage[r]
    BY <1>3, StageAssumption DEF StageAssumption, Stages
  <2>2. \A k \in Stages : \A s \in Ranks : contrib[k][s] = "ok"
    BY <2>1 DEF Proceed, Complete, AnyFailed, IInv, TypeOK, NoRunAhead
  <2>3. Verdict = "commit"
    BY <2>2 DEF Verdict, AllOk, AnyFailed
  <2>4. Result[r] = "none" /\ Result' = [Result EXCEPT ![r] = "commit"]
    BY <1>3 DEF Proceed, Result, Outcome, IInv, TypeOK
  <2> QED
    BY <1>1, <2>3, <2>4 DEF A!Next, A!Learn, A!Verdicts
 <1> QED
   BY <1>2, <1>3

LEMMA ThrowRefines ==
    ASSUME IInv, NEW r \in Ranks, Throw(r)
    PROVE  [A!Next]_A!vars
 <1>1. Verdict' = Verdict
   BY DEF Throw, Verdict, AllOk, AnyFailed
 <1>2. Verdict = "fail"
   BY DEF Throw, Verdict, IInv, TypeOK
 <1>3. Result[r] = "none" /\ Result' = [Result EXCEPT ![r] = "fail"]
   BY DEF Throw, Result, Outcome, IInv, TypeOK
 <1> QED
   BY <1>1, <1>2, <1>3 DEF A!Next, A!Learn, A!Verdicts

LEMMA TransportFailureRefines ==
    ASSUME IInv, NEW r \in Ranks, TransportFailure(r)
    PROVE  [A!Next]_A!vars
 <1>1. Verdict' = Verdict
   BY DEF TransportFailure, Verdict, AllOk, AnyFailed
 <1>2. Result' = [s \in Ranks |-> "aborted"]
   BY DEF TransportFailure, Result, Outcome
 <1> QED
   BY <1>1, <1>2 DEF A!Next, A!Kill

(* A collective operation of any number of synchronized stages implements  *)
(* one decision that every rank learns.                                    *)
THEOREM StagesImplementOutcome ==
    ASSUME StageAssumption PROVE Spec => ImplementsAgreedOutcome
 <1>1. IInv /\ [Next]_vars => [A!Next]_A!vars
  <2> SUFFICES ASSUME IInv, [Next]_vars PROVE [A!Next]_A!vars
    OBVIOUS
  <2>1. CASE UNCHANGED vars
    BY <2>1 DEF vars, A!vars, Verdict, Result, AllOk, AnyFailed
  <2> QED
    BY <2>1, WorkRefines, ProceedRefines, ThrowRefines,
       TransportFailureRefines DEF Next, Step, Finished
 <1> QED
   BY <1>1, InitRefines, Inductive, PTL
   DEF Spec, A!Spec, ImplementsAgreedOutcome
-----------------------------------------------------------------------------
(***************************************************************************)
(* The inductive invariant looks at one ordered pair of ranks and at the   *)
(* exchange both of them have reached.  Of the blocks the list is cut      *)
(* into, the sender has sent those before SentBy and the receiver has      *)
(* posted receives for those before PostedBy; both follow from where the   *)
(* two ranks are.  For one number m the blocks before the m-th have met    *)
(* their receives and are in place, and the two queues hold exactly the    *)
(* blocks from the m-th on.  A pair moves to the next exchange when the    *)
(* second of its ranks does, and then both queues are empty: the vote of   *)
(* the preparation keeps every rank within one exchange of every other.    *)
(***************************************************************************)

Least(a, b) == IF a <= b THEN a ELSE b

(* The blocks of a list, from the m-th to the one before the n-th.         *)
BlockOf(e, records, k) == [exchange |-> e,
                           begin |-> RoundBegin(k),
                           count |-> RoundCount(records, k)]
Blocks(e, records, m, n) ==
    [i \in 1 .. n - m |-> BlockOf(e, records, m + i - 1)]

(* How many of the blocks needed in exchange e a rank has issued: it is in *)
(* exchange own, at a place, in round k, and has issued those of round k   *)
(* at the places after.                                                    *)
Issued(own, where, k, e, needed, after) ==
    IF own > e \/ where = "returned" THEN needed
    ELSE IF where \in {"prepare", "vote", "threw"} THEN 0
    ELSE IF where \in after THEN Least(k + 1, needed)
    ELSE Least(k, needed)

Common(s, d) == Least(exchange[s], exchange[d])
Records(s, d) == counts[Common(s, d)][s][d]
Needed(s, d) == RoundsRequired(Records(s, d))

SentBy(s, d) ==
    Issued(exchange[s], place[s], round[s], Common(s, d), Needed(s, d), {"wait"})
PostedBy(s, d) ==
    Issued(exchange[d], place[d], round[d], Common(s, d), Needed(s, d),
           {"send", "wait"})

(* The receive storage of the rank's exchange is there.                    *)
Holding(d) == place[d] \in {"receive", "send", "wait", "returned"}

(* The records of s in the blocks before the n-th are in place at d.       *)
Arrived(d, s, n) ==
    \A i \in 1 .. Incoming(d, s) :
        i <= RoundBegin(n) => received[d][Offset(d, s) + i] = <<exchange[d], s, i>>

Progress(s, d, m) ==
    /\ m <= SentBy(s, d) /\ m <= PostedBy(s, d)
    /\ sent[s][d] = Blocks(Common(s, d), Records(s, d), m, SentBy(s, d))
    /\ posted[d][s] = Blocks(Common(s, d), Records(s, d), m, PostedBy(s, d))
    /\ Holding(d) /\ exchange[d] = Common(s, d) => Arrived(d, s, m)

PairsInStep == \A s, d \in World : s # d => \E m \in Nat : Progress(s, d, m)

(* A rank sends itself nothing; it copies.                                 *)
OwnInPlace ==
    \A r \in World :
        /\ sent[r][r] = <<>> /\ posted[r][r] = <<>>
        /\ Holding(r) => \A i \in 1 .. Incoming(r, r) :
                            received[r][Offset(r, r) + i] = <<exchange[r], r, i>>

ReceivesAwaited == \A r \in World : place[r] \notin {"send", "wait"} => ReceivesDone(r)

NobodyLeftBehind ==
    \A r, s \in World :
        /\ exchange[r] <= exchange[s] + 1
        /\ place[r] \notin {"prepare", "vote"} => exchange[r] <= exchange[s]

BufferSized == \A r \in World : Holding(r) => Len(received[r]) = Total(r)

Messages == [exchange : Nat, begin : Nat, count : Nat]
Entries == Nat \X World \X Nat
Routings == [World -> [World -> Nat]]
Places == {"prepare", "vote", "receive", "send", "wait", "returned", "threw"}

RoundsTypeOK == /\ counts \in [Exchanges -> Routings]
                /\ exchange \in [World -> Exchanges]
                /\ place \in [World -> Places]
                /\ bad \in [World -> BOOLEAN]
                /\ round \in [World -> Nat]
                /\ sent \in [World -> [World -> Seq(Messages)]]
                /\ posted \in [World -> [World -> Seq(Messages)]]
                /\ received \in [World -> Seq(Entries)]

RoundsInv == /\ RoundsTypeOK
             /\ PairsInStep
             /\ OwnInPlace
             /\ ReceivesAwaited
             /\ NobodyLeftBehind
             /\ BufferSized

-----------------------------------------------------------------------------
(* Numbers.                                                                *)

(* A set of naturals that is not empty has the least element Min names.    *)
LEMMA MinIsLeast ==
    ASSUME NEW S \in SUBSET Nat, S # {}
    PROVE  Min(S) \in S /\ \A y \in S : Min(S) <= y
 <1>1. PICK x \in S : \A y \in S : ~ (<<y, x>> \in OpToRel(<, Nat))
   BY NatLessThanWellFounded, WFMin
 <1>2. ASSUME NEW y \in S  PROVE x <= y
  <2>1. <<y, x>> \notin {ss \in Nat \X Nat : ss[1] < ss[2]}
    BY <1>1 DEF OpToRel
  <2> QED  BY <2>1
 <1> QED  BY <1>1, <1>2 DEF Min

(* A set of numbers that has 0, and n + 1 with n, has them all.            *)
LEMMA CountingUp ==
    ASSUME NEW S, 0 \in S, \A n \in Nat : n \in S => n + 1 \in S
    PROVE  \A n \in Nat : n \in S
 <1> SUFFICES ASSUME Nat \ S # {}  PROVE FALSE
   OBVIOUS
 <1>1. Nat \ S \in SUBSET Nat
   OBVIOUS
 <1> DEFINE n == Min(Nat \ S)
 <1>2. n \in Nat \ S /\ \A m \in Nat \ S : n <= m
   BY <1>1, MinIsLeast
 <1> HIDE DEF n
 <1>3. n # 0 /\ n - 1 \in Nat /\ (n - 1) + 1 = n
   BY <1>2
 <1>4. n - 1 \notin Nat \ S
   BY <1>2, <1>3
 <1> QED  BY <1>2, <1>3, <1>4

(* A bounded set of naturals that is not empty has the greatest element    *)
(* Max names.                                                              *)
LEMMA MaxIsGreatest ==
    ASSUME NEW S \in SUBSET Nat, S # {}, NEW b \in Nat, \A y \in S : y <= b
    PROVE  Max(S) \in S /\ \A y \in S : y <= Max(S)
 <1> DEFINE U == {u \in Nat : \A y \in S : y <= u}
            n == Min(U)
 <1>1. U \in SUBSET Nat /\ b \in U
   OBVIOUS
 <1>2. n \in U /\ \A u \in U : n <= u
   BY <1>1, MinIsLeast
 <1> HIDE DEF n
 <1>3. n \in Nat /\ \A y \in S : y <= n
   BY <1>2
 <1>4. n \in S
  <2> SUFFICES ASSUME n \notin S  PROVE FALSE
    OBVIOUS
  <2>1. \A y \in S : y \in Nat /\ y < n
    BY <1>3
  <2>2. PICK y \in S : TRUE
    OBVIOUS
  <2>3. n - 1 \in Nat
    BY <1>3, <2>1, <2>2
  <2>4. \A z \in S : z <= n - 1
    BY <1>3, <2>1
  <2>5. n - 1 \in U
    BY <2>3, <2>4
  <2> QED  BY <1>2, <1>3, <2>5
 <1> QED  BY <1>3, <1>4 DEF Max

(* Finitely many naturals are bounded.                                     *)
LEMMA Bounded ==
    ASSUME NEW f, \A p \in World : f[p] \in Nat
    PROVE  \E b \in Nat : \A p \in World : f[p] <= b
 <1> DEFINE S == {n \in Nat : n <= NumRanks =>
                     \E b \in Nat : \A p \in 0 .. n - 1 : f[p] <= b}
 <1>0. NumRanks \in Nat
   BY MigrationAssumption
 <1>1. 0 \in S
   OBVIOUS
 <1>2. ASSUME NEW n \in Nat, n \in S  PROVE n + 1 \in S
  <2> SUFFICES ASSUME n + 1 <= NumRanks
               PROVE  \E b \in Nat : \A p \in 0 .. (n + 1) - 1 : f[p] <= b
    OBVIOUS
  <2>1. PICK b \in Nat : \A p \in 0 .. n - 1 : f[p] <= b
    BY <1>0, <1>2
  <2>2. f[n] \in Nat
    BY <1>0 DEF World
  <2>3. ASSUME NEW p \in 0 .. (n + 1) - 1  PROVE f[p] <= b + f[n]
   <3>1. CASE p = n
     BY <2>2, <3>1
   <3>2. CASE p # n
    <4>1. p \in 0 .. n - 1 /\ p \in World
      BY <1>0, <3>2 DEF World
    <4>2. f[p] <= b /\ f[p] \in Nat
      BY <2>1, <4>1
    <4> QED  BY <2>2, <4>2
   <3> QED  BY <3>1, <3>2
  <2> QED  BY <2>2, <2>3
 <1> HIDE DEF S
 <1>3. NumRanks \in S
   BY <1>0, <1>1, <1>2, CountingUp
 <1> QED  BY <1>0, <1>3 DEF S, World

-----------------------------------------------------------------------------
(* Rounds and blocks.                                                      *)

LEMMA BeginOfRound ==
    ASSUME NEW k \in Nat
    PROVE  /\ RoundBegin(k) \in Nat /\ RoundBegin(0) = 0
           /\ RoundBegin(k + 1) = RoundBegin(k) + Limit
           /\ Limit \in Nat \ {0}
 <1>1. Limit \in Nat \ {0}
   BY MigrationAssumption
 <1> QED  BY <1>1 DEF RoundBegin

LEMMA CountOfRound ==
    ASSUME NEW records \in Nat, NEW k \in Nat
    PROVE  RoundCount(records, k) =
             IF RoundBegin(k) >= records THEN 0
             ELSE Least(records - RoundBegin(k), Limit)
 <1> DEFINE b == RoundBegin(k)
 <1>1. b \in Nat /\ Limit \in Nat \ {0}
   BY BeginOfRound
 <1> HIDE DEF b
 <1>2. CASE b < records
  <2> DEFINE S == {records - b, Limit}
  <2>1. S \in SUBSET Nat /\ S # {}
    BY <1>1, <1>2
  <2>2. Min(S) \in S /\ \A y \in S : Min(S) <= y
    BY <2>1, MinIsLeast
  <2>3. Min(S) = Least(records - b, Limit)
    BY <1>1, <1>2, <2>2 DEF Least
  <2> QED  BY <1>1, <1>2, <2>3 DEF RoundCount, b
 <1> QED  BY <1>1, <1>2 DEF RoundCount, b

(* A list has a block in a round exactly while rounds are required, and    *)
(* the blocks required cover it.                                           *)
LEMMA RoundsCover ==
    ASSUME NEW records \in Nat
    PROVE  /\ RoundsRequired(records) \in Nat
           /\ RoundsRequired(records) <= records
           /\ records <= RoundBegin(RoundsRequired(records))
           /\ \A k \in Nat : /\ RoundCount(records, k) \in Nat
                             /\ RoundCount(records, k) > 0 <=> k < RoundsRequired(records)
 <1> DEFINE q == (records - 1) \div Limit
 <1>1. Limit \in Nat \ {0}
   BY MigrationAssumption
 <1>2. CASE records = 0
  <2>1. RoundsRequired(records) = 0
    BY <1>2 DEF RoundsRequired
  <2>2. ASSUME NEW k \in Nat  PROVE RoundCount(records, k) = 0
    BY <1>2, BeginOfRound, CountOfRound
  <2> QED  BY <1>2, <2>1, <2>2, BeginOfRound
 <1>3. CASE records # 0
  <2>1. /\ q \in Int /\ q * Limit <= records - 1
        /\ records - 1 < q * Limit + Limit
    BY <1>1
  <2>2. RoundsRequired(records) = q + 1
    BY <1>3 DEF RoundsRequired
  <2>3. q \in Nat /\ q <= records - 1
    BY <1>1, <1>3
  <2> HIDE DEF q
  <2>4. RoundBegin(q + 1) = q * Limit + Limit
    BY <2>3, BeginOfRound DEF RoundBegin
  <2>5. ASSUME NEW k \in Nat  PROVE RoundBegin(k) < records <=> k < q + 1
   <3>1. CASE k <= q
    <4>1. k * Limit <= q * Limit
      BY <1>1, <2>3, <3>1
    <4> QED  BY <1>1, <2>1, <2>3, <3>1, <4>1 DEF RoundBegin
   <3>2. CASE k >= q + 1
    <4>1. k * Limit >= (q + 1) * Limit
      BY <1>1, <2>3, <3>2
    <4>2. (q + 1) * Limit = q * Limit + Limit
      BY <1>1, <2>3
    <4> QED  BY <1>1, <2>1, <2>3, <3>2, <4>1, <4>2 DEF RoundBegin
   <3> QED  BY <2>3, <3>1, <3>2
  <2>6. ASSUME NEW k \in Nat
        PROVE  /\ RoundCount(records, k) \in Nat
               /\ RoundCount(records, k) > 0 <=> k < q + 1
   <3>1. RoundBegin(k) \in Nat
     BY BeginOfRound
   <3> QED  BY <1>1, <2>5, <3>1, CountOfRound DEF Least
  <2>7. q + 1 \in Nat /\ q + 1 <= records
    BY <2>3
  <2>8. records <= RoundBegin(q + 1)
   <3>1. q * Limit \in Int
     BY <1>1, <2>3
   <3> QED  BY <1>1, <2>1, <2>4, <3>1
  <2> QED  BY <2>2, <2>6, <2>7, <2>8
 <1> QED  BY <1>2, <1>3

LEMMA BlockType ==
    ASSUME NEW e \in Nat, NEW records \in Nat, NEW k \in Nat
    PROVE  BlockOf(e, records, k) \in Messages
 <1>1. RoundBegin(k) \in Nat /\ RoundCount(records, k) \in Nat
   BY BeginOfRound, RoundsCover
 <1> QED  BY <1>1 DEF BlockOf, Messages

LEMMA BlocksEmpty ==
    ASSUME NEW e, NEW records, NEW m \in Nat, NEW n \in Nat, m <= n
    PROVE  Blocks(e, records, m, n) = <<>> <=> m = n
 <1>1. Blocks(e, records, m, n) \in [1 .. n - m -> {BlockOf(e, records, k) : k \in Nat}]
  <2>1. \A i \in 1 .. n - m : m + i - 1 \in Nat
    OBVIOUS
  <2> QED  BY <2>1 DEF Blocks
 <1>2. Blocks(e, records, m, n) \in Seq({BlockOf(e, records, k) : k \in Nat})
       /\ Len(Blocks(e, records, m, n)) = n - m
   BY <1>1
 <1> QED  BY <1>2

LEMMA BlocksGrow ==
    ASSUME NEW e, NEW records, NEW m \in Nat, NEW n \in Nat, m <= n
    PROVE  Append(Blocks(e, records, m, n), BlockOf(e, records, n))
             = Blocks(e, records, m, n + 1)
 <1> DEFINE S == {BlockOf(e, records, k) : k \in Nat}
 <1>1. \A k \in Nat : BlockOf(e, records, k) \in S
   OBVIOUS
 <1> HIDE DEF S
 <1>2. \A j \in Nat : m <= j => /\ Blocks(e, records, m, j) \in Seq(S)
                                /\ Len(Blocks(e, records, m, j)) = j - m
                                /\ \A i \in 1 .. j - m : Blocks(e, records, m, j)[i]
                                       = BlockOf(e, records, m + i - 1)
  <2> TAKE j \in Nat
  <2> HAVE m <= j
  <2>1. \A i \in 1 .. j - m : m + i - 1 \in Nat
    OBVIOUS
  <2> QED  BY <1>1, <2>1 DEF Blocks
 <1> DEFINE old == Blocks(e, records, m, n)
            new == Blocks(e, records, m, n + 1)
            longer == Append(old, BlockOf(e, records, n))
 <1>3. old \in Seq(S) /\ Len(old) = n - m
       /\ \A i \in 1 .. n - m : old[i] = BlockOf(e, records, m + i - 1)
   BY <1>2
 <1>4. new \in Seq(S) /\ Len(new) = n + 1 - m
       /\ \A i \in 1 .. n + 1 - m : new[i] = BlockOf(e, records, m + i - 1)
  <2>1. n + 1 \in Nat /\ m <= n + 1
    OBVIOUS
  <2> QED  BY <1>2, <2>1
 <1> HIDE DEF old, new
 <1>5. BlockOf(e, records, n) \in S
   BY <1>1
 <1>6. longer \in Seq(S) /\ Len(longer) = n + 1 - m
   BY <1>3, <1>5
 <1>7. ASSUME NEW i \in 1 .. n + 1 - m  PROVE longer[i] = new[i]
  <2>1. CASE i = n + 1 - m
   <3>1. i = Len(old) + 1 /\ m + i - 1 = n
     BY <1>3, <2>1
   <3>2. longer[i] = BlockOf(e, records, n)
     BY <1>3, <1>5, <3>1
   <3>3. new[i] = BlockOf(e, records, n)
     BY <1>4, <3>1
   <3> QED  BY <3>2, <3>3
  <2>2. CASE i # n + 1 - m
   <3>1. i \in 1 .. Len(old) /\ i \in 1 .. n - m
     BY <1>3, <2>2
   <3>2. longer[i] = old[i]
     BY <1>3, <1>5, <3>1
   <3> QED  BY <1>3, <1>4, <3>1, <3>2
  <2> QED  BY <2>1, <2>2
 <1> HIDE DEF longer
 <1>8. longer = new
   BY <1>4, <1>6, <1>7
 <1> QED  BY <1>8 DEF longer, old, new

LEMMA BlocksShrink ==
    ASSUME NEW e, NEW records, NEW m \in Nat, NEW n \in Nat, m < n
    PROVE  /\ Head(Blocks(e, records, m, n)) = BlockOf(e, records, m)
           /\ Tail(Blocks(e, records, m, n)) = Blocks(e, records, m + 1, n)
 <1> DEFINE S == {BlockOf(e, records, k) : k \in Nat}
            old == Blocks(e, records, m, n)
            new == Blocks(e, records, m + 1, n)
 <1>1. \A k \in Nat : BlockOf(e, records, k) \in S
   OBVIOUS
 <1> HIDE DEF S
 <1>2. /\ \A i \in 1 .. n - m : m + i - 1 \in Nat
       /\ \A i \in 1 .. n - (m + 1) : (m + 1) + i - 1 \in Nat
       /\ n - m \in Nat /\ n - (m + 1) \in Nat
   OBVIOUS
 <1>3. old \in Seq(S) /\ Len(old) = n - m
       /\ \A i \in 1 .. n - m : old[i] = BlockOf(e, records, m + i - 1)
   BY <1>1, <1>2 DEF Blocks
 <1>4. new \in Seq(S) /\ Len(new) = n - (m + 1)
       /\ \A i \in 1 .. n - (m + 1) : new[i] = BlockOf(e, records, (m + 1) + i - 1)
   BY <1>1, <1>2 DEF Blocks
 <1> HIDE DEF old, new
 <1>5. old # <<>> /\ Head(old) = old[1] /\ m + 1 - 1 = m /\ 1 \in 1 .. n - m
   BY <1>3
 <1>6. Head(old) = BlockOf(e, records, m)
   BY <1>3, <1>5
 <1>7. Tail(old) \in Seq(S) /\ Len(Tail(old)) = n - (m + 1)
   BY <1>3, <1>5
 <1>8. ASSUME NEW i \in 1 .. n - (m + 1)  PROVE Tail(old)[i] = new[i]
  <2>1. Tail(old)[i] = old[i + 1] /\ i + 1 \in 1 .. n - m
    BY <1>3, <1>5, <1>7
  <2>2. m + (i + 1) - 1 = (m + 1) + i - 1
    OBVIOUS
  <2> QED  BY <1>3, <1>4, <2>1, <2>2
 <1>9. Tail(old) = new
   BY <1>4, <1>7, <1>8
 <1> QED  BY <1>6, <1>9 DEF old, new

-----------------------------------------------------------------------------
(* The receive buffer.                                                     *)

IsBelow(f, n, load, r) ==
    f = [t \in 0 .. n |-> IF t = 0 THEN 0 ELSE f[t - 1] + load[t - 1][r]]

LEMMA BelowExists ==
    ASSUME NEW load, NEW r
    PROVE  \A n \in Nat : \E f : IsBelow(f, n, load, r)
 <1> DEFINE S == {n \in Nat : \E f : IsBelow(f, n, load, r)}
 <1>1. 0 \in S
  <2> DEFINE f == [t \in 0 .. 0 |-> 0]
  <2>1. IsBelow(f, 0, load, r)
    BY DEF IsBelow
  <2> QED  BY <2>1
 <1>2. ASSUME NEW n \in Nat, n \in S  PROVE n + 1 \in S
  <2>1. PICK f : IsBelow(f, n, load, r)
    BY <1>2
  <2> DEFINE more(t) == load[t - 1][r]
             g == [t \in 0 .. n + 1 |->
                     IF t = n + 1 THEN f[n] + more(n + 1) ELSE f[t]]
  <2>2. \A t \in 0 .. n : g[t] = f[t]
    OBVIOUS
  <2>3. ASSUME NEW t \in 0 .. n + 1
        PROVE  g[t] = IF t = 0 THEN 0 ELSE g[t - 1] + more(t)
   <3>1. CASE t = n + 1
    <4>1. t # 0 /\ t - 1 = n /\ n \in 0 .. n
      BY <3>1
    <4> HIDE DEF more
    <4> QED  BY <2>2, <3>1, <4>1
   <3>2. CASE t # n + 1
    <4>1. t \in 0 .. n /\ (t # 0 => t - 1 \in 0 .. n)
      BY <3>2
    <4>2. f[t] = IF t = 0 THEN 0 ELSE f[t - 1] + more(t)
      BY <2>1, <4>1 DEF IsBelow
    <4> HIDE DEF more
    <4> QED  BY <2>2, <4>1, <4>2
   <3> QED  BY <3>1, <3>2
  <2>4. IsBelow(g, n + 1, load, r)
   <3>1. g = [t \in 0 .. n + 1 |-> g[t]]
     OBVIOUS
   <3> HIDE DEF g
   <3> QED  BY <2>3, <3>1 DEF IsBelow
  <2> HIDE DEF g
  <2> QED  BY <2>4
 <1> HIDE DEF S
 <1>3. \A n \in Nat : n \in S
   BY <1>1, <1>2, CountingUp
 <1> QED  BY <1>3 DEF S

(* RecordsBelow is the running sum of what the sources route to r.         *)
LEMMA BelowAddsUp ==
    ASSUME NEW load \in Routings, NEW r \in World
    PROVE  /\ RecordsBelow(load, r, 0) = 0
           /\ \A s \in World :
                 RecordsBelow(load, r, s + 1) = RecordsBelow(load, r, s) + load[s][r]
           /\ \A s \in 0 .. NumRanks : RecordsBelow(load, r, s) \in Nat
 <1>0. NumRanks \in Nat
   BY MigrationAssumption
 <1> DEFINE f == CHOOSE g : IsBelow(g, NumRanks, load, r)
 <1>1. IsBelow(f, NumRanks, load, r)
  <2>1. \E g : IsBelow(g, NumRanks, load, r)
    BY <1>0, BelowExists
  <2> QED  BY <2>1
 <1>2. \A s : RecordsBelow(load, r, s) = f[s]
   BY DEF RecordsBelow, IsBelow
 <1> HIDE DEF f
 <1>3. f[0] = 0
   BY <1>0, <1>1 DEF IsBelow
 <1>4. ASSUME NEW s \in World  PROVE f[s + 1] = f[s] + load[s][r]
  <2>1. s + 1 \in 0 .. NumRanks /\ s + 1 # 0 /\ (s + 1) - 1 = s
    BY <1>0 DEF World
  <2>2. f[s + 1] = f[(s + 1) - 1] + load[(s + 1) - 1][r]
    BY <1>1, <2>1 DEF IsBelow
  <2> QED  BY <2>1, <2>2
 <1>5. \A s \in World : load[s][r] \in Nat
   BY DEF Routings
 <1>6. \A s \in 0 .. NumRanks : f[s] \in Nat
  <2> DEFINE S == {n \in Nat : n <= NumRanks => f[n] \in Nat}
  <2>1. 0 \in S
    BY <1>3
  <2>2. ASSUME NEW n \in Nat, n \in S  PROVE n + 1 \in S
   <3> SUFFICES ASSUME n + 1 <= NumRanks  PROVE f[n + 1] \in Nat
     OBVIOUS
   <3>1. n \in World /\ f[n] \in Nat
     BY <1>0, <2>2 DEF World
   <3> QED  BY <1>4, <1>5, <3>1
  <2> HIDE DEF S
  <2>3. \A n \in Nat : n \in S
    BY <2>1, <2>2, CountingUp
  <2> QED  BY <1>0, <2>3 DEF S
 <1> QED  BY <1>2, <1>3, <1>4, <1>6

(* A source's records end where the next source's begin at the latest.     *)
LEMMA BelowGrows ==
    ASSUME NEW load \in Routings, NEW r \in World,
           NEW s \in World, NEW t \in 0 .. NumRanks, s < t
    PROVE  RecordsBelow(load, r, s) + load[s][r] <= RecordsBelow(load, r, t)
 <1>0. NumRanks \in Nat /\ s \in Nat /\ s + 1 \in 0 .. NumRanks
   BY MigrationAssumption DEF World
 <1> DEFINE end == RecordsBelow(load, r, s + 1)
            S == {n \in Nat : s + 1 + n <= NumRanks =>
                     end <= RecordsBelow(load, r, s + 1 + n)}
 <1>1. end \in Nat /\ end = RecordsBelow(load, r, s) + load[s][r]
   BY <1>0, BelowAddsUp
 <1> HIDE DEF end
 <1>2. 0 \in S
  <2>1. s + 1 + 0 = s + 1
    BY <1>0
  <2>2. end <= end
    BY <1>1
  <2> QED  BY <2>1, <2>2 DEF end
 <1>3. ASSUME NEW n \in Nat, n \in S  PROVE n + 1 \in S
  <2> SUFFICES ASSUME s + 1 + (n + 1) <= NumRanks
               PROVE  end <= RecordsBelow(load, r, s + 1 + (n + 1))
    OBVIOUS
  <2> DEFINE k == s + 1 + n
  <2>1. k \in World /\ k \in 0 .. NumRanks /\ s + 1 + (n + 1) = k + 1
    BY <1>0 DEF World
  <2>2. end <= RecordsBelow(load, r, k)
    BY <1>0, <1>3
  <2> HIDE DEF k
  <2>3. /\ RecordsBelow(load, r, k + 1) = RecordsBelow(load, r, k) + load[k][r]
        /\ RecordsBelow(load, r, k) \in Nat
    BY <2>1, BelowAddsUp
  <2>4. load[k][r] \in Nat
    BY <2>1 DEF Routings
  <2>5. end <= RecordsBelow(load, r, k + 1)
    BY <1>1, <2>2, <2>3, <2>4
  <2> QED  BY <2>1, <2>5
 <1> HIDE DEF S
 <1>4. \A n \in Nat : n \in S
   BY <1>2, <1>3, CountingUp
 <1>5. t - (s + 1) \in Nat /\ s + 1 + (t - (s + 1)) = t
   BY <1>0
 <1>6. t - (s + 1) \in S
   BY <1>4, <1>5
 <1>7. end <= RecordsBelow(load, r, t)
   BY <1>0, <1>5, <1>6 DEF S
 <1> QED  BY <1>1, <1>7

LEMMA LoadType ==
    ASSUME RoundsTypeOK, NEW r \in World, NEW s \in World
    PROVE  /\ exchange[r] \in Exchanges /\ exchange[r] \in Nat
           /\ counts[exchange[r]] \in Routings
           /\ Incoming(r, s) \in Nat /\ Outgoing(r, s) \in Nat
           /\ Incoming(r, s) = counts[exchange[r]][s][r]
           /\ Outgoing(r, s) = counts[exchange[r]][r][s]
 <1>1. exchange[r] \in Exchanges /\ Exchanges \subseteq Nat
   BY MigrationAssumption DEF RoundsTypeOK, Exchanges
 <1>2. counts[exchange[r]] \in Routings
   BY <1>1 DEF RoundsTypeOK
 <1>3. counts[exchange[r]][s][r] \in Nat /\ counts[exchange[r]][r][s] \in Nat
   BY <1>2 DEF Routings
 <1> QED  BY <1>1, <1>2, <1>3 DEF Incoming, Outgoing

(* Every record has a place of its own in the buffer.                      *)
LEMMA RoomForAll ==
    ASSUME RoundsTypeOK, NEW r \in World
    PROVE  /\ Total(r) \in Nat
           /\ \A s \in World :
                 /\ Offset(r, s) \in Nat
                 /\ \A i \in 1 .. Incoming(r, s) : Offset(r, s) + i \in 1 .. Total(r)
           /\ \A s, t \in World : \A i \in 1 .. Incoming(r, s), j \in 1 .. Incoming(r, t) :
                 s # t => Offset(r, s) + i # Offset(r, t) + j
 <1> DEFINE load == counts[exchange[r]]
            B(s) == RecordsBelow(load, r, s)
 <1>0. NumRanks \in Nat /\ \A s \in World : s \in 0 .. NumRanks /\ s < NumRanks /\ s \in Nat
   BY MigrationAssumption DEF World
 <1>1. load \in Routings /\ \A s \in World : Incoming(r, s) = load[s][r] /\ load[s][r] \in Nat
   BY LoadType
 <1>2. (\A s : Offset(r, s) = B(s)) /\ Total(r) = B(NumRanks)
   BY DEF Offset, Total
 <1> HIDE DEF load
 <1>3. \A s \in 0 .. NumRanks : B(s) \in Nat
   BY <1>1, BelowAddsUp
 <1>4. \A s \in World : \A t \in 0 .. NumRanks : s < t => B(s) + load[s][r] <= B(t)
   BY <1>1, BelowGrows
 <1> HIDE DEF B
 <1>5. Total(r) \in Nat
   BY <1>0, <1>2, <1>3
 <1>6. ASSUME NEW s \in World
       PROVE  /\ Offset(r, s) \in Nat
              /\ \A i \in 1 .. Incoming(r, s) : Offset(r, s) + i \in 1 .. Total(r)
  <2>1. B(s) \in Nat /\ B(s) + load[s][r] <= B(NumRanks) /\ B(NumRanks) \in Nat
    BY <1>0, <1>3, <1>4
  <2>2. Offset(r, s) = B(s) /\ Total(r) = B(NumRanks) /\ Incoming(r, s) = load[s][r]
    BY <1>1, <1>2
  <2>3. load[s][r] \in Nat
    BY <1>1
  <2> QED  BY <2>1, <2>2, <2>3
 <1>7. ASSUME NEW s \in World, NEW t \in World, NEW i \in 1 .. Incoming(r, s),
              NEW j \in 1 .. Incoming(r, t), s # t
       PROVE  Offset(r, s) + i # Offset(r, t) + j
  <2>1. /\ B(s) \in Nat /\ B(t) \in Nat /\ load[s][r] \in Nat /\ load[t][r] \in Nat
        /\ Offset(r, s) = B(s) /\ Offset(r, t) = B(t)
        /\ Incoming(r, s) = load[s][r] /\ Incoming(r, t) = load[t][r]
    BY <1>0, <1>1, <1>2, <1>3
  <2>2. CASE s < t
   <3>1. B(s) + load[s][r] <= B(t)
     BY <1>0, <1>4, <2>2
   <3> QED  BY <2>1, <3>1
  <2>3. CASE t < s
   <3>1. B(t) + load[t][r] <= B(s)
     BY <1>0, <1>4, <2>3
   <3> QED  BY <2>1, <3>1
  <2> QED  BY <1>0, <1>7, <2>2, <2>3
 <1> QED  BY <1>5, <1>6, <1>7

(* A rank runs as many rounds as the longest of its lists needs.           *)
LEMMA RoundsSuffice ==
    ASSUME RoundsTypeOK, NEW r \in World
    PROVE  /\ LocalRounds(r) \in Nat
           /\ \A p \in Peers(r) : /\ RoundsRequired(Outgoing(r, p)) <= LocalRounds(r)
                                  /\ RoundsRequired(Incoming(r, p)) <= LocalRounds(r)
 <1> DEFINE f == [p \in World |-> RoundsRequired(Outgoing(r, p))]
            g == [p \in World |-> RoundsRequired(Incoming(r, p))]
            Out == {RoundsRequired(Outgoing(r, p)) : p \in Peers(r)}
            In == {RoundsRequired(Incoming(r, p)) : p \in Peers(r)}
            S == {0} \union Out \union In
 <1>1. \A p \in World : f[p] \in Nat /\ g[p] \in Nat
   BY LoadType, RoundsCover
 <1>2. PICK b \in Nat : \A p \in World : f[p] <= b
   BY <1>1, Bounded
 <1>3. PICK c \in Nat : \A p \in World : g[p] <= c
   BY <1>1, Bounded
 <1>4. \A p \in Peers(r) : /\ p \in World
                           /\ RoundsRequired(Outgoing(r, p)) = f[p]
                           /\ RoundsRequired(Incoming(r, p)) = g[p]
   BY DEF Peers
 <1> HIDE DEF f, g
 <1>5. \A y \in S : y \in Nat /\ y <= b + c
  <2>1. \A p \in Peers(r) : /\ f[p] \in Nat /\ f[p] <= b + c
                            /\ g[p] \in Nat /\ g[p] <= b + c
    BY <1>1, <1>2, <1>3, <1>4
  <2>2. 0 \in Nat /\ 0 <= b + c
    OBVIOUS
  <2> QED  BY <1>4, <2>1, <2>2
 <1>6. S \in SUBSET Nat /\ S # {} /\ b + c \in Nat
  <2>1. 0 \in S
    OBVIOUS
  <2> HIDE DEF S
  <2> QED  BY <1>5, <2>1
 <1>7. Max(S) \in S /\ \A y \in S : y <= Max(S)
  <2> HIDE DEF S
  <2> QED  BY <1>5, <1>6, MaxIsGreatest
 <1>8. LocalRounds(r) = Max(S)
   BY DEF LocalRounds
 <1>9. \A p \in Peers(r) : /\ RoundsRequired(Outgoing(r, p)) \in S
                           /\ RoundsRequired(Incoming(r, p)) \in S
   OBVIOUS
 <1> HIDE DEF S
 <1> QED  BY <1>6, <1>7, <1>8, <1>9

-----------------------------------------------------------------------------
(* Types.                                                                  *)

LEMMA RoundsStartTyped == RoundsInit => RoundsTypeOK
 <1> SUFFICES ASSUME RoundsInit  PROVE RoundsTypeOK
   OBVIOUS
 <1>1. counts \in [Exchanges -> Routings]
   BY MigrationAssumption DEF RoundsInit, Routings
 <1>2. 1 \in Exchanges
   BY MigrationAssumption DEF Exchanges
 <1>3. <<>> \in Seq(Messages) /\ <<>> \in Seq(Entries)
   OBVIOUS
 <1> QED  BY <1>1, <1>2, <1>3 DEF RoundsInit, RoundsTypeOK, Places

LEMMA BlockIsTyped ==
    ASSUME RoundsTypeOK, NEW r \in World, NEW records \in Nat
    PROVE  /\ Block(r, round[r], records) = BlockOf(exchange[r], records, round[r])
           /\ Block(r, round[r], records) \in Messages
 <1>1. exchange[r] \in Nat /\ round[r] \in Nat
   BY LoadType DEF RoundsTypeOK
 <1> QED  BY <1>1, BlockType DEF Block, BlockOf

LEMMA SelfCopiedType ==
    ASSUME RoundsTypeOK, NEW r \in World
    PROVE  /\ SelfCopied(r) \in Seq(Entries) /\ Len(SelfCopied(r)) = Total(r)
           /\ \A i \in 1 .. Incoming(r, r) :
                 SelfCopied(r)[Offset(r, r) + i] = <<exchange[r], r, i>>
 <1>1. /\ Total(r) \in Nat /\ Offset(r, r) \in Nat /\ Incoming(r, r) \in Nat
       /\ exchange[r] \in Nat
       /\ \A i \in 1 .. Incoming(r, r) : Offset(r, r) + i \in 1 .. Total(r)
   BY RoomForAll, LoadType
 <1>2. 0 \in World
   BY MigrationAssumption DEF World
 <1> DEFINE begin == Offset(r, r)
            entry(i) == IF i \in begin + 1 .. begin + Incoming(r, r)
                          THEN <<exchange[r], r, i - begin>> ELSE NoRecord
 <1>3. SelfCopied(r) = [i \in 1 .. Total(r) |-> entry(i)]
   BY DEF SelfCopied
 <1>4. \A i \in 1 .. Total(r) : entry(i) \in Entries
  <2> TAKE i \in 1 .. Total(r)
  <2>1. NoRecord \in Entries
    BY <1>2 DEF NoRecord, Entries
  <2>2. CASE i \in begin + 1 .. begin + Incoming(r, r)
   <3>1. i - begin \in Nat
     BY <1>1, <2>2
   <3> QED  BY <1>1, <2>2, <3>1 DEF Entries
  <2> QED  BY <2>1, <2>2
 <1>5. \A i \in 1 .. Incoming(r, r) : entry(begin + i) = <<exchange[r], r, i>>
  <2> TAKE i \in 1 .. Incoming(r, r)
  <2>1. begin + i \in begin + 1 .. begin + Incoming(r, r) /\ (begin + i) - begin = i
    BY <1>1
  <2> QED  BY <2>1
 <1> HIDE DEF entry
 <1> QED  BY <1>1, <1>3, <1>4, <1>5

(* What a matched message leaves in the buffer.                            *)
Filled(d, s, message, start) ==
    [i \in DOMAIN received[d] |->
        IF i \in start + 1 .. start + message.count
          THEN <<message.exchange, s, message.begin + i - start>>
          ELSE received[d][i]]

LEMMA FilledType ==
    ASSUME RoundsTypeOK, NEW d \in World, NEW s \in World,
           NEW message \in Messages, NEW start \in Nat
    PROVE  /\ Filled(d, s, message, start) \in Seq(Entries)
           /\ Len(Filled(d, s, message, start)) = Len(received[d])
           /\ \A i \in 1 .. Len(received[d]) :
                 Filled(d, s, message, start)[i] =
                    IF i \in start + 1 .. start + message.count
                      THEN <<message.exchange, s, message.begin + i - start>>
                      ELSE received[d][i]
 <1> DEFINE entry(i) == IF i \in start + 1 .. start + message.count
                          THEN <<message.exchange, s, message.begin + i - start>>
                          ELSE received[d][i]
 <1>1. received[d] \in Seq(Entries) /\ DOMAIN received[d] = 1 .. Len(received[d])
       /\ Len(received[d]) \in Nat
   BY DEF RoundsTypeOK
 <1>2. message.exchange \in Nat /\ message.begin \in Nat /\ message.count \in Nat
   BY DEF Messages
 <1>3. \A i \in 1 .. Len(received[d]) : entry(i) \in Entries
  <2> TAKE i \in 1 .. Len(received[d])
  <2>1. CASE i \in start + 1 .. start + message.count
   <3>1. message.begin + i - start \in Nat
     BY <1>2, <2>1
   <3> QED  BY <1>2, <2>1, <3>1 DEF Entries
  <2>2. CASE i \notin start + 1 .. start + message.count
   <3>1. received[d][i] \in Entries
     BY <1>1
   <3> QED  BY <2>2, <3>1
  <2> QED  BY <2>1, <2>2
 <1>4. Filled(d, s, message, start) = [i \in 1 .. Len(received[d]) |-> entry(i)]
   BY <1>1 DEF Filled
 <1> HIDE DEF entry
 <1>5. /\ Filled(d, s, message, start) \in Seq(Entries)
       /\ Len(Filled(d, s, message, start)) = Len(received[d])
       /\ \A i \in 1 .. Len(received[d]) : Filled(d, s, message, start)[i] = entry(i)
   BY <1>1, <1>3, <1>4
 <1> QED  BY <1>5 DEF entry

(* Whose queues, buffer and place a matched message changes.               *)
LEMMA MatchUpdates ==
    ASSUME RoundsTypeOK, NEW s \in World, NEW d \in World, Match(s, d)
    PROVE  /\ sent[s][d] # <<>> /\ posted[d][s] # <<>>
           /\ Head(sent[s][d]) \in Messages /\ Head(posted[d][s]) \in Messages
           /\ Offset(d, s) + Head(posted[d][s]).begin \in Nat
           /\ received' = [received EXCEPT ![d] =
                Filled(d, s, Head(sent[s][d]), Offset(d, s) + Head(posted[d][s]).begin)]
           /\ sent'[s][d] = Tail(sent[s][d]) /\ posted'[d][s] = Tail(posted[d][s])
           /\ \A x, y \in World : (x # s \/ y # d) =>
                 sent'[x][y] = sent[x][y] /\ posted'[y][x] = posted[y][x]
           /\ sent' \in [World -> [World -> Seq(Messages)]]
           /\ posted' \in [World -> [World -> Seq(Messages)]]
           /\ UNCHANGED <<counts, exchange, place, bad, round>>
 <1>1. sent[s][d] \in Seq(Messages) /\ posted[d][s] \in Seq(Messages)
   BY DEF RoundsTypeOK
 <1>2. sent[s][d] # <<>> /\ posted[d][s] # <<>>
   BY DEF Match
 <1>3. /\ Head(sent[s][d]) \in Messages /\ Head(posted[d][s]) \in Messages
       /\ Tail(sent[s][d]) \in Seq(Messages) /\ Tail(posted[d][s]) \in Seq(Messages)
   BY <1>1, <1>2
 <1>4. Head(posted[d][s]).begin \in Nat
   BY <1>3 DEF Messages
 <1>5. Offset(d, s) \in Nat
   BY RoomForAll
 <1>6. received' = [received EXCEPT ![d] =
         Filled(d, s, Head(sent[s][d]), Offset(d, s) + Head(posted[d][s]).begin)]
   BY DEF Match, Filled
 <1>7. /\ sent' = [sent EXCEPT ![s][d] = Tail(sent[s][d])]
       /\ posted' = [posted EXCEPT ![d][s] = Tail(posted[d][s])]
       /\ UNCHANGED <<counts, exchange, place, bad, round>>
   BY DEF Match
 <1>8. /\ sent \in [World -> [World -> Seq(Messages)]]
       /\ posted \in [World -> [World -> Seq(Messages)]]
   BY DEF RoundsTypeOK
 <1>9. /\ sent' \in [World -> [World -> Seq(Messages)]]
       /\ posted' \in [World -> [World -> Seq(Messages)]]
   BY <1>3, <1>7, <1>8
 <1>10. /\ sent'[s][d] = Tail(sent[s][d]) /\ posted'[d][s] = Tail(posted[d][s])
        /\ \A x, y \in World : (x # s \/ y # d) =>
              sent'[x][y] = sent[x][y] /\ posted'[y][x] = posted[y][x]
   BY <1>7, <1>8
 <1> QED  BY <1>2, <1>3, <1>4, <1>5, <1>6, <1>7, <1>9, <1>10

(* What posting does to the queues.                                        *)
LEMMA PostReceivesUpdates ==
    ASSUME RoundsTypeOK, NEW r \in World, PostReceives(r)
    PROVE  /\ posted' \in [World -> [World -> Seq(Messages)]]
           /\ \A d, s \in World : d # r => posted'[d][s] = posted[d][s]
           /\ posted'[r][r] = posted[r][r]
           /\ \A s \in World \ {r} : posted'[r][s] =
                IF RoundCount(Incoming(r, s), round[r]) > 0
                  THEN Append(posted[r][s],
                              BlockOf(exchange[r], Incoming(r, s), round[r]))
                  ELSE posted[r][s]
 <1> DEFINE new == [s \in World |->
                   IF s # r /\ RoundCount(Incoming(r, s), round[r]) > 0
                     THEN Append(posted[r][s], Block(r, round[r], Incoming(r, s)))
                     ELSE posted[r][s]]
 <1>1. posted' = [posted EXCEPT ![r] = new]
   BY DEF PostReceives
 <1>2. posted \in [World -> [World -> Seq(Messages)]]
   BY DEF RoundsTypeOK
 <1>3. \A s \in World : /\ Block(r, round[r], Incoming(r, s)) \in Messages
                        /\ Block(r, round[r], Incoming(r, s))
                             = BlockOf(exchange[r], Incoming(r, s), round[r])
   BY LoadType, BlockIsTyped
 <1>4. new \in [World -> Seq(Messages)]
   BY <1>2, <1>3
 <1>5. /\ new[r] = posted[r][r]
       /\ \A s \in World \ {r} : new[s] =
            IF RoundCount(Incoming(r, s), round[r]) > 0
              THEN Append(posted[r][s],
                          BlockOf(exchange[r], Incoming(r, s), round[r]))
              ELSE posted[r][s]
   BY <1>3
 <1> HIDE DEF new
 <1>6. posted' \in [World -> [World -> Seq(Messages)]]
   BY <1>1, <1>2, <1>4
 <1>7. posted'[r] = new /\ \A d \in World : d # r => posted'[d] = posted[d]
   BY <1>1, <1>2
 <1> QED  BY <1>5, <1>6, <1>7

LEMMA PostSendsUpdates ==
    ASSUME RoundsTypeOK, NEW r \in World, PostSends(r)
    PROVE  /\ sent' \in [World -> [World -> Seq(Messages)]]
           /\ \A s, d \in World : s # r => sent'[s][d] = sent[s][d]
           /\ sent'[r][r] = sent[r][r]
           /\ \A d \in World \ {r} : sent'[r][d] =
                IF RoundCount(Outgoing(r, d), round[r]) > 0
                  THEN Append(sent[r][d],
                              BlockOf(exchange[r], Outgoing(r, d), round[r]))
                  ELSE sent[r][d]
 <1> DEFINE new == [d \in World |->
                   IF d # r /\ RoundCount(Outgoing(r, d), round[r]) > 0
                     THEN Append(sent[r][d], Block(r, round[r], Outgoing(r, d)))
                     ELSE sent[r][d]]
 <1>1. sent' = [sent EXCEPT ![r] = new]
   BY DEF PostSends
 <1>2. sent \in [World -> [World -> Seq(Messages)]]
   BY DEF RoundsTypeOK
 <1>3. \A d \in World : /\ Block(r, round[r], Outgoing(r, d)) \in Messages
                        /\ Block(r, round[r], Outgoing(r, d))
                             = BlockOf(exchange[r], Outgoing(r, d), round[r])
   BY LoadType, BlockIsTyped
 <1>4. new \in [World -> Seq(Messages)]
   BY <1>2, <1>3
 <1>5. /\ new[r] = sent[r][r]
       /\ \A d \in World \ {r} : new[d] =
            IF RoundCount(Outgoing(r, d), round[r]) > 0
              THEN Append(sent[r][d],
                          BlockOf(exchange[r], Outgoing(r, d), round[r]))
              ELSE sent[r][d]
   BY <1>3
 <1> HIDE DEF new
 <1>6. sent' \in [World -> [World -> Seq(Messages)]]
   BY <1>1, <1>2, <1>4
 <1>7. sent'[r] = new /\ \A s \in World : s # r => sent'[s] = sent[s]
   BY <1>1, <1>2
 <1> QED  BY <1>5, <1>6, <1>7

LEMMA RoundsKeepTypes == RoundsTypeOK /\ [RoundsNext]_rounds => RoundsTypeOK'
 <1> SUFFICES ASSUME RoundsTypeOK, [RoundsNext]_rounds  PROVE RoundsTypeOK'
   OBVIOUS
 <1> USE DEF RoundsTypeOK
 <1>1. ASSUME NEW r \in World, NEW ok \in BOOLEAN, Prepare(r, ok)  PROVE RoundsTypeOK'
   BY <1>1 DEF Prepare, Places
 <1>2. ASSUME NEW r \in World, Admit(r)  PROVE RoundsTypeOK'
  <2>1. SelfCopied(r) \in Seq(Entries)
    BY SelfCopiedType
  <2> QED  BY <1>2, <2>1 DEF Admit, Places
 <1>3. ASSUME NEW r \in World, Reject(r)  PROVE RoundsTypeOK'
   BY <1>3 DEF Reject, Places
 <1>4. ASSUME NEW r \in World, PostReceives(r)  PROVE RoundsTypeOK'
  <2>1. posted' \in [World -> [World -> Seq(Messages)]]
    BY <1>4, PostReceivesUpdates
  <2>2. /\ place' = [place EXCEPT ![r] = "send"]
        /\ UNCHANGED <<counts, exchange, bad, round, sent, received>>
    BY <1>4 DEF PostReceives
  <2> QED  BY <2>1, <2>2 DEF Places
 <1>5. ASSUME NEW r \in World, PostSends(r)  PROVE RoundsTypeOK'
  <2>1. sent' \in [World -> [World -> Seq(Messages)]]
    BY <1>5, PostSendsUpdates
  <2>2. /\ place' = [place EXCEPT ![r] = "wait"]
        /\ UNCHANGED <<counts, exchange, bad, round, posted, received>>
    BY <1>5 DEF PostSends
  <2> QED  BY <2>1, <2>2 DEF Places
 <1>6. ASSUME NEW r \in World, EndRound(r)  PROVE RoundsTypeOK'
   BY <1>6 DEF EndRound, Places
 <1>7. ASSUME NEW r \in World, Again(r)  PROVE RoundsTypeOK'
  <2>1. exchange[r] + 1 \in Exchanges
    BY <1>7, MigrationAssumption DEF Again, Exchanges
  <2> QED  BY <1>7, <2>1 DEF Again, Places
 <1>8. ASSUME NEW s \in World, NEW d \in World, Match(s, d)  PROVE RoundsTypeOK'
  <2> DEFINE new == Filled(d, s, Head(sent[s][d]),
                           Offset(d, s) + Head(posted[d][s]).begin)
  <2>1. /\ Head(sent[s][d]) \in Messages
        /\ Offset(d, s) + Head(posted[d][s]).begin \in Nat
        /\ received' = [received EXCEPT ![d] = new]
        /\ sent' \in [World -> [World -> Seq(Messages)]]
        /\ posted' \in [World -> [World -> Seq(Messages)]]
        /\ UNCHANGED <<counts, exchange, place, bad, round>>
    BY <1>8, MatchUpdates
  <2>2. new \in Seq(Entries)
    BY <2>1, FilledType
  <2> HIDE DEF new
  <2> QED  BY <2>1, <2>2
 <1>9. CASE UNCHANGED rounds
   BY <1>9 DEF rounds
 <1> QED  BY <1>1, <1>2, <1>3, <1>4, <1>5, <1>6, <1>7, <1>8, <1>9
             DEF RoundsNext, RankStep, WaitMatched, WaitBuffered, AllFinished

-----------------------------------------------------------------------------
(* One pair.                                                               *)

LEMMA PairTypes ==
    ASSUME RoundsTypeOK, NEW s \in World, NEW d \in World
    PROVE  /\ exchange[s] \in Nat /\ exchange[d] \in Nat
           /\ round[s] \in Nat /\ round[d] \in Nat
           /\ Common(s, d) \in Nat /\ Records(s, d) \in Nat
           /\ Needed(s, d) \in Nat
           /\ SentBy(s, d) \in Nat /\ PostedBy(s, d) \in Nat
           /\ SentBy(s, d) <= Needed(s, d) /\ PostedBy(s, d) <= Needed(s, d)
 <1>1. /\ exchange[s] \in Nat /\ exchange[d] \in Nat
       /\ counts[exchange[s]] \in Routings /\ counts[exchange[d]] \in Routings
       /\ round[s] \in Nat /\ round[d] \in Nat
   BY LoadType DEF RoundsTypeOK
 <1>2. Common(s, d) \in Nat /\ counts[Common(s, d)] \in Routings
   BY <1>1 DEF Common, Least
 <1>3. Records(s, d) \in Nat
   BY <1>2 DEF Records, Routings
 <1>4. Needed(s, d) \in Nat
   BY <1>3, RoundsCover DEF Needed
 <1>5. /\ SentBy(s, d) \in Nat /\ SentBy(s, d) <= Needed(s, d)
       /\ PostedBy(s, d) \in Nat /\ PostedBy(s, d) <= Needed(s, d)
   BY <1>1, <1>4 DEF SentBy, PostedBy, Issued, Least
 <1> QED  BY <1>1, <1>2, <1>3, <1>4, <1>5

(* The exchange of a pair is the one of the rank that is behind.           *)
LEMMA Behind ==
    ASSUME RoundsTypeOK, NEW s \in World, NEW d \in World
    PROVE  /\ exchange[d] <= exchange[s] =>
                Common(s, d) = exchange[d] /\ Records(s, d) = Incoming(d, s)
           /\ exchange[s] <= exchange[d] =>
                Common(s, d) = exchange[s] /\ Records(s, d) = Outgoing(s, d)
 <1>1. exchange[s] \in Nat /\ exchange[d] \in Nat
   BY PairTypes
 <1> QED  BY <1>1 DEF Common, Least, Records, Incoming, Outgoing

(* A step that changes neither what the two ranks have issued nor their    *)
(* queues, nor the buffer of the receiver.                                 *)
LEMMA PairKept ==
    ASSUME NEW s, NEW d, NEW m, Progress(s, d, m),
           UNCHANGED <<counts, exchange>>,
           SentBy(s, d)' = SentBy(s, d), PostedBy(s, d)' = PostedBy(s, d),
           sent'[s][d] = sent[s][d], posted'[d][s] = posted[d][s],
           Holding(d)' => Holding(d) /\ received'[d] = received[d]
    PROVE  Progress(s, d, m)'
 <1>1. Common(s, d)' = Common(s, d) /\ Records(s, d)' = Records(s, d)
   BY DEF Common, Records
 <1>2. Holding(d)' => \A n : Arrived(d, s, n)' <=> Arrived(d, s, n)
   BY DEF Arrived, Incoming, Offset
 <1> QED  BY <1>1, <1>2 DEF Progress

(* Places before the rounds.                                               *)
LEMMA PairPrepare ==
    ASSUME RoundsTypeOK, NEW r \in World, NEW s \in World, NEW d \in World,
           NEW m, Progress(s, d, m),
           (\E ok \in BOOLEAN : Prepare(r, ok)) \/ Reject(r)
    PROVE  Progress(s, d, m)'
 <1>1. /\ UNCHANGED <<counts, exchange, round, sent, posted, received>>
       /\ place[r] \in {"prepare", "vote"} /\ place'[r] \in {"vote", "threw"}
       /\ \A x \in World : x # r => place'[x] = place[x]
   BY DEF Prepare, Reject, RoundsTypeOK
 <1>2. SentBy(s, d)' = SentBy(s, d) /\ PostedBy(s, d)' = PostedBy(s, d)
   BY <1>1 DEF SentBy, PostedBy, Issued, Common, Needed, Records
 <1>3. Holding(d)' => Holding(d)
   BY <1>1 DEF Holding
 <1> QED  BY <1>1, <1>2, <1>3, PairKept

(* A rank enters the rounds, or returns because it needs none.             *)
LEMMA PairAdmit ==
    ASSUME RoundsTypeOK, NEW r \in World, NEW s \in World, NEW d \in World,
           s # d, NEW m \in Nat, Progress(s, d, m), Admit(r)
    PROVE  Progress(s, d, m)'
 <1>1. /\ UNCHANGED <<counts, exchange, sent, posted>>
       /\ place[r] = "vote"
       /\ place'[r] = IF LocalRounds(r) = 0 THEN "returned" ELSE "receive"
       /\ round'[r] = 0
       /\ \A x \in World : x # r => /\ place'[x] = place[x] /\ round'[x] = round[x]
                                    /\ received'[x] = received[x]
   BY DEF Admit, RoundsTypeOK
 <1>2. /\ Common(s, d)' = Common(s, d) /\ Records(s, d)' = Records(s, d)
       /\ Needed(s, d)' = Needed(s, d)
   BY <1>1 DEF Common, Records, Needed
 <1>3. /\ exchange[s] \in Nat /\ exchange[d] \in Nat /\ Needed(s, d) \in Nat
       /\ LocalRounds(r) \in Nat
   BY PairTypes, RoundsSuffice
 <1>4. SentBy(s, d)' = SentBy(s, d)
  <2>1. CASE s # r
    BY <1>1, <1>2, <2>1 DEF SentBy, Issued
  <2>2. CASE s = r /\ exchange[s] > Common(s, d)
    BY <1>1, <1>2, <2>2 DEF SentBy, Issued
  <2>3. CASE s = r /\ ~ (exchange[s] > Common(s, d))
   <3>1. exchange[s] <= exchange[d]
     BY <1>3, <2>3 DEF Common, Least
   <3>2. Needed(s, d) = RoundsRequired(Outgoing(s, d))
     BY <3>1, Behind DEF Needed
   <3>3. Needed(s, d) <= LocalRounds(r)
     BY <2>3, <3>2, RoundsSuffice DEF Peers
   <3>4. SentBy(s, d) = 0
     BY <1>1, <2>3 DEF SentBy, Issued
   <3>5. SentBy(s, d)' = 0
     BY <1>1, <1>2, <1>3, <2>3, <3>3 DEF SentBy, Issued, Least
   <3> QED  BY <3>4, <3>5
  <2> QED  BY <2>1, <2>2, <2>3
 <1>5. PostedBy(s, d)' = PostedBy(s, d)
       /\ (d = r /\ exchange[d] = Common(s, d) => PostedBy(s, d) = 0)
  <2>1. CASE d # r
    BY <1>1, <1>2, <2>1 DEF PostedBy, Issued
  <2>2. CASE d = r /\ exchange[d] > Common(s, d)
    BY <1>1, <1>2, <1>3, <2>2 DEF PostedBy, Issued
  <2>3. CASE d = r /\ ~ (exchange[d] > Common(s, d))
   <3>1. exchange[d] <= exchange[s]
     BY <1>3, <2>3 DEF Common, Least
   <3>2. Needed(s, d) = RoundsRequired(Incoming(d, s))
     BY <3>1, Behind DEF Needed
   <3>3. Needed(s, d) <= LocalRounds(r)
     BY <2>3, <3>2, RoundsSuffice DEF Peers
   <3>4. PostedBy(s, d) = 0
     BY <1>1, <2>3 DEF PostedBy, Issued
   <3>5. PostedBy(s, d)' = 0
     BY <1>1, <1>2, <1>3, <2>3, <3>3 DEF PostedBy, Issued, Least
   <3> QED  BY <3>4, <3>5
  <2> QED  BY <2>1, <2>2, <2>3
 <1>6. CASE d # r
  <2>1. (Holding(d)' => Holding(d)) /\ received'[d] = received[d]
    BY <1>1, <1>6 DEF Holding
  <2> QED  BY <1>1, <1>4, <1>5, <2>1, PairKept
 <1>7. CASE d = r
  <2>1. exchange[d] = Common(s, d) => m = 0
    BY <1>5, <1>7 DEF Progress
  <2>2. Incoming(d, s) \in Nat /\ Incoming(d, s)' = Incoming(d, s)
    BY <1>1, LoadType DEF Incoming
  <2>3. exchange[d] = Common(s, d) => Arrived(d, s, m)'
    BY <2>1, <2>2, BeginOfRound DEF Arrived
  <2> QED  BY <1>1, <1>2, <1>4, <1>5, <2>3 DEF Progress
 <1> QED  BY <1>6, <1>7

(* The ranks of a pair that are in the rounds of an exchange have reached  *)
(* it together.                                                            *)
LEMMA InRounds ==
    ASSUME RoundsTypeOK, NobodyLeftBehind, NEW r \in World,
           place[r] \notin {"prepare", "vote"}
    PROVE  \A p \in World :
              /\ Common(r, p) = exchange[r] /\ Records(r, p) = Outgoing(r, p)
              /\ Common(p, r) = exchange[r] /\ Records(p, r) = Incoming(r, p)
 <1> TAKE p \in World
 <1>1. exchange[r] <= exchange[p]
   BY DEF NobodyLeftBehind
 <1> QED  BY <1>1, Behind

LEMMA PairReceives ==
    ASSUME RoundsTypeOK, NobodyLeftBehind,
           NEW r \in World, NEW s \in World, NEW d \in World,
           s # d, NEW m \in Nat, Progress(s, d, m), PostReceives(r)
    PROVE  Progress(s, d, m)'
 <1>1. /\ UNCHANGED <<counts, exchange, round, sent, received>>
       /\ place[r] = "receive" /\ place'[r] = "send"
       /\ \A x \in World : x # r => place'[x] = place[x]
   BY DEF PostReceives, RoundsTypeOK
 <1>2. /\ Common(s, d)' = Common(s, d) /\ Records(s, d)' = Records(s, d)
       /\ Needed(s, d)' = Needed(s, d)
   BY <1>1 DEF Common, Records, Needed
 <1>3. SentBy(s, d)' = SentBy(s, d)
   BY <1>1, <1>2 DEF SentBy, Issued
 <1>4. Holding(d)' => Holding(d)
   BY <1>1 DEF Holding
 <1>5. CASE d # r
  <2>1. PostedBy(s, d)' = PostedBy(s, d)
    BY <1>1, <1>2, <1>5 DEF PostedBy, Issued
  <2>2. posted'[d][s] = posted[d][s]
    BY <1>5, PostReceivesUpdates
  <2> QED  BY <1>1, <1>3, <1>4, <2>1, <2>2, PairKept
 <1>6. CASE d = r
  <2> DEFINE e == Common(s, d)
             x == Records(s, d)
             k == round[d]
  <2>1. e = exchange[d] /\ x = Incoming(d, s)
    BY <1>1, <1>6, InRounds
  <2>2. e \in Nat /\ x \in Nat /\ k \in Nat /\ Needed(s, d) \in Nat
    BY PairTypes
  <2>3. PostedBy(s, d) = Least(k, Needed(s, d))
    BY <1>1, <1>6, <2>1, <2>2 DEF PostedBy, Issued
  <2>4. PostedBy(s, d)' = Least(k + 1, Needed(s, d))
    BY <1>1, <1>2, <1>6, <2>1, <2>2 DEF PostedBy, Issued
  <2>5. RoundCount(x, k) > 0 <=> k < Needed(s, d)
    BY <2>2, RoundsCover DEF Needed
  <2>6. posted'[d][s] = IF RoundCount(x, k) > 0
                          THEN Append(posted[d][s], BlockOf(e, x, k))
                          ELSE posted[d][s]
    BY <1>6, <2>1, PostReceivesUpdates
  <2>7. m <= PostedBy(s, d) /\ posted[d][s] = Blocks(e, x, m, PostedBy(s, d))
    BY DEF Progress
  <2>8. m <= PostedBy(s, d)' /\ posted'[d][s] = Blocks(e, x, m, PostedBy(s, d)')
   <3> HIDE DEF e, x, k
   <3>1. CASE k < Needed(s, d)
    <4>1. PostedBy(s, d) = k /\ PostedBy(s, d)' = k + 1
      BY <2>2, <2>3, <2>4, <3>1 DEF Least
    <4>2. posted'[d][s] = Append(Blocks(e, x, m, k), BlockOf(e, x, k))
      BY <2>5, <2>6, <2>7, <3>1, <4>1
    <4>3. m <= k
      BY <2>7, <4>1
    <4> QED  BY <2>2, <4>1, <4>2, <4>3, BlocksGrow
   <3>2. CASE ~ (k < Needed(s, d))
    <4>1. PostedBy(s, d)' = PostedBy(s, d)
      BY <2>2, <2>3, <2>4, <3>2 DEF Least
    <4> QED  BY <2>5, <2>6, <2>7, <3>2, <4>1
   <3> QED  BY <3>1, <3>2
  <2>9. Arrived(d, s, m)' <=> Arrived(d, s, m)
    BY <1>1 DEF Arrived, Incoming, Offset
  <2> QED  BY <1>1, <1>2, <1>3, <1>4, <2>8, <2>9 DEF Progress
 <1> QED  BY <1>5, <1>6

LEMMA PairSends ==
    ASSUME RoundsTypeOK, NobodyLeftBehind,
           NEW r \in World, NEW s \in World, NEW d \in World,
           s # d, NEW m \in Nat, Progress(s, d, m), PostSends(r)
    PROVE  Progress(s, d, m)'
 <1>1. /\ UNCHANGED <<counts, exchange, round, posted, received>>
       /\ place[r] = "send" /\ place'[r] = "wait"
       /\ \A x \in World : x # r => place'[x] = place[x]
   BY DEF PostSends, RoundsTypeOK
 <1>2. /\ Common(s, d)' = Common(s, d) /\ Records(s, d)' = Records(s, d)
       /\ Needed(s, d)' = Needed(s, d)
   BY <1>1 DEF Common, Records, Needed
 <1>3. PostedBy(s, d)' = PostedBy(s, d)
   BY <1>1, <1>2 DEF PostedBy, Issued
 <1>4. Holding(d)' => Holding(d)
   BY <1>1 DEF Holding
 <1>5. CASE s # r
  <2>1. SentBy(s, d)' = SentBy(s, d)
    BY <1>1, <1>2, <1>5 DEF SentBy, Issued
  <2>2. sent'[s][d] = sent[s][d]
    BY <1>5, PostSendsUpdates
  <2> QED  BY <1>1, <1>3, <1>4, <2>1, <2>2, PairKept
 <1>6. CASE s = r
  <2> DEFINE e == Common(s, d)
             x == Records(s, d)
             k == round[s]
  <2>1. e = exchange[s] /\ x = Outgoing(s, d)
    BY <1>1, <1>6, InRounds
  <2>2. e \in Nat /\ x \in Nat /\ k \in Nat /\ Needed(s, d) \in Nat
    BY PairTypes
  <2>3. SentBy(s, d) = Least(k, Needed(s, d))
    BY <1>1, <1>6, <2>1, <2>2 DEF SentBy, Issued
  <2>4. SentBy(s, d)' = Least(k + 1, Needed(s, d))
    BY <1>1, <1>2, <1>6, <2>1, <2>2 DEF SentBy, Issued
  <2>5. RoundCount(x, k) > 0 <=> k < Needed(s, d)
    BY <2>2, RoundsCover DEF Needed
  <2>6. sent'[s][d] = IF RoundCount(x, k) > 0
                        THEN Append(sent[s][d], BlockOf(e, x, k))
                        ELSE sent[s][d]
    BY <1>6, <2>1, PostSendsUpdates
  <2>7. m <= SentBy(s, d) /\ sent[s][d] = Blocks(e, x, m, SentBy(s, d))
    BY DEF Progress
  <2>8. m <= SentBy(s, d)' /\ sent'[s][d] = Blocks(e, x, m, SentBy(s, d)')
   <3> HIDE DEF e, x, k
   <3>1. CASE k < Needed(s, d)
    <4>1. SentBy(s, d) = k /\ SentBy(s, d)' = k + 1
      BY <2>2, <2>3, <2>4, <3>1 DEF Least
    <4>2. sent'[s][d] = Append(Blocks(e, x, m, k), BlockOf(e, x, k))
      BY <2>5, <2>6, <2>7, <3>1, <4>1
    <4>3. m <= k
      BY <2>7, <4>1
    <4> QED  BY <2>2, <4>1, <4>2, <4>3, BlocksGrow
   <3>2. CASE ~ (k < Needed(s, d))
    <4>1. SentBy(s, d)' = SentBy(s, d)
      BY <2>2, <2>3, <2>4, <3>2 DEF Least
    <4> QED  BY <2>5, <2>6, <2>7, <3>2, <4>1
   <3> QED  BY <3>1, <3>2
  <2>9. Arrived(d, s, m)' <=> Arrived(d, s, m)
    BY <1>1 DEF Arrived, Incoming, Offset
  <2> QED  BY <1>1, <1>2, <1>3, <1>4, <2>8, <2>9 DEF Progress
 <1> QED  BY <1>5, <1>6

LEMMA PairEndsRound ==
    ASSUME RoundsTypeOK, NobodyLeftBehind,
           NEW r \in World, NEW s \in World, NEW d \in World,
           s # d, NEW m \in Nat, Progress(s, d, m), EndRound(r)
    PROVE  Progress(s, d, m)'
 <1>1. /\ UNCHANGED <<counts, exchange, sent, posted, received>>
       /\ place[r] = "wait" /\ round'[r] = round[r] + 1
       /\ place'[r] = IF round[r] + 1 = LocalRounds(r) THEN "returned" ELSE "receive"
       /\ \A x \in World : x # r => place'[x] = place[x] /\ round'[x] = round[x]
   BY DEF EndRound, RoundsTypeOK
 <1>2. /\ Common(s, d)' = Common(s, d) /\ Records(s, d)' = Records(s, d)
       /\ Needed(s, d)' = Needed(s, d)
   BY <1>1 DEF Common, Records, Needed
 <1>3. Holding(d)' => Holding(d)
   BY <1>1 DEF Holding
 <1>4. /\ exchange[s] \in Nat /\ exchange[d] \in Nat /\ Needed(s, d) \in Nat
       /\ round[s] \in Nat /\ round[d] \in Nat /\ LocalRounds(r) \in Nat
   BY PairTypes, RoundsSuffice
 <1>5. SentBy(s, d)' = SentBy(s, d)
  <2>1. CASE s # r
    BY <1>1, <1>2, <2>1 DEF SentBy, Issued
  <2>2. CASE s = r
   <3>1. Common(s, d) = exchange[s] /\ Records(s, d) = Outgoing(s, d)
     BY <1>1, <2>2, InRounds
   <3>2. Needed(s, d) <= LocalRounds(r)
     BY <2>2, <3>1, RoundsSuffice DEF Needed, Peers
   <3>3. SentBy(s, d) = Least(round[s] + 1, Needed(s, d))
     BY <1>1, <1>4, <2>2, <3>1 DEF SentBy, Issued
   <3>4. CASE round[r] + 1 = LocalRounds(r)
    <4>1. SentBy(s, d)' = Needed(s, d)
      BY <1>1, <1>2, <2>2, <3>4 DEF SentBy, Issued
    <4> QED  BY <1>4, <2>2, <3>2, <3>3, <3>4, <4>1 DEF Least
   <3>5. CASE round[r] + 1 # LocalRounds(r)
     BY <1>1, <1>2, <1>4, <2>2, <3>1, <3>3, <3>5 DEF SentBy, Issued
   <3> QED  BY <3>4, <3>5
  <2> QED  BY <2>1, <2>2
 <1>6. PostedBy(s, d)' = PostedBy(s, d)
  <2>1. CASE d # r
    BY <1>1, <1>2, <2>1 DEF PostedBy, Issued
  <2>2. CASE d = r
   <3>1. Common(s, d) = exchange[d] /\ Records(s, d) = Incoming(d, s)
     BY <1>1, <2>2, InRounds
   <3>2. Needed(s, d) <= LocalRounds(r)
     BY <2>2, <3>1, RoundsSuffice DEF Needed, Peers
   <3>3. PostedBy(s, d) = Least(round[d] + 1, Needed(s, d))
     BY <1>1, <1>4, <2>2, <3>1 DEF PostedBy, Issued
   <3>4. CASE round[r] + 1 = LocalRounds(r)
    <4>1. PostedBy(s, d)' = Needed(s, d)
      BY <1>1, <1>2, <2>2, <3>4 DEF PostedBy, Issued
    <4> QED  BY <1>4, <2>2, <3>2, <3>3, <3>4, <4>1 DEF Least
   <3>5. CASE round[r] + 1 # LocalRounds(r)
     BY <1>1, <1>2, <1>4, <2>2, <3>1, <3>3, <3>5 DEF PostedBy, Issued
   <3> QED  BY <3>4, <3>5
  <2> QED  BY <2>1, <2>2
 <1> QED  BY <1>1, <1>3, <1>5, <1>6, PairKept

(* A message and the receive it meets are the same block.                  *)
LEMMA SameBlock ==
    ASSUME RoundsInv, NEW s \in World, NEW d \in World, s # d,
           NEW m \in Nat, Progress(s, d, m),
           sent[s][d] # <<>>, posted[d][s] # <<>>
    PROVE  /\ place[d] \in {"send", "wait"}
           /\ Common(s, d) = exchange[d] /\ Records(s, d) = Incoming(d, s)
           /\ m < SentBy(s, d) /\ m < PostedBy(s, d)
           /\ m < RoundsRequired(Incoming(d, s))
           /\ Head(sent[s][d]) = BlockOf(exchange[d], Incoming(d, s), m)
           /\ Head(posted[d][s]) = BlockOf(exchange[d], Incoming(d, s), m)
 <1> USE DEF RoundsInv
 <1>1. place[d] \in {"send", "wait"}
   BY DEF ReceivesAwaited, ReceivesDone
 <1>2. Common(s, d) = exchange[d] /\ Records(s, d) = Incoming(d, s)
   BY <1>1, InRounds
 <1>3. /\ SentBy(s, d) \in Nat /\ PostedBy(s, d) \in Nat
       /\ PostedBy(s, d) <= Needed(s, d) /\ Needed(s, d) \in Nat
   BY PairTypes
 <1>4. m < SentBy(s, d) /\ m < PostedBy(s, d)
  <2>1. m <= SentBy(s, d) /\ m <= PostedBy(s, d)
    BY DEF Progress
  <2>2. m # SentBy(s, d)
    BY <1>3, <2>1, BlocksEmpty DEF Progress
  <2>3. m # PostedBy(s, d)
    BY <1>3, <2>1, BlocksEmpty DEF Progress
  <2> QED  BY <1>3, <2>1, <2>2, <2>3
 <1>5. /\ Head(sent[s][d]) = BlockOf(exchange[d], Incoming(d, s), m)
       /\ Head(posted[d][s]) = BlockOf(exchange[d], Incoming(d, s), m)
   BY <1>2, <1>3, <1>4, BlocksShrink DEF Progress
 <1>6. m < RoundsRequired(Incoming(d, s))
   BY <1>2, <1>3, <1>4 DEF Needed
 <1> QED  BY <1>1, <1>2, <1>4, <1>5, <1>6

(* A block fills its own part of the buffer and nothing else.              *)
LEMMA BlockFills ==
    ASSUME RoundsTypeOK, NEW s \in World, NEW d \in World, NEW m \in Nat,
           m < RoundsRequired(Incoming(d, s)), Len(received[d]) = Total(d),
           NEW block, block = BlockOf(exchange[d], Incoming(d, s), m),
           NEW new, new = Filled(d, s, block, Offset(d, s) + block.begin)
    PROVE  /\ \A i \in 1 .. Incoming(d, s) : i <= RoundBegin(m + 1) =>
                 new[Offset(d, s) + i] =
                    IF i <= RoundBegin(m) THEN received[d][Offset(d, s) + i]
                                          ELSE <<exchange[d], s, i>>
           /\ \A t \in World : t # s => \A j \in 1 .. Incoming(d, t) :
                 new[Offset(d, t) + j] = received[d][Offset(d, t) + j]
 <1> DEFINE x == Incoming(d, s)
            b == RoundBegin(m)
            o == Offset(d, s)
            c == RoundCount(x, m)
 <1>1. x \in Nat /\ exchange[d] \in Nat
   BY LoadType
 <1>2. b \in Nat /\ RoundBegin(m + 1) = b + Limit /\ Limit \in Nat \ {0}
   BY BeginOfRound
 <1>3. block \in Messages /\ block.exchange = exchange[d]
       /\ block.begin = b /\ block.count = c
   BY <1>1, BlockType DEF BlockOf
 <1>4. c \in Nat /\ b < x /\ c = Least(x - b, Limit)
  <2>1. c \in Nat /\ c > 0
    BY <1>1, RoundsCover
  <2> QED  BY <1>1, <1>2, <2>1, CountOfRound
 <1>5. /\ Total(d) \in Nat /\ o \in Nat
       /\ \A t \in World : Offset(d, t) \in Nat /\ \A j \in 1 .. Incoming(d, t) :
             Offset(d, t) + j \in 1 .. Total(d)
       /\ \A t \in World : \A i \in 1 .. x, j \in 1 .. Incoming(d, t) :
             s # t => o + i # Offset(d, t) + j
   BY RoomForAll
 <1>6. \A i \in 1 .. Total(d) :
          new[i] = IF i \in (o + b) + 1 .. (o + b) + c
                     THEN <<exchange[d], s, b + i - (o + b)>>
                     ELSE received[d][i]
  <2> DEFINE start == o + b
  <2>1. start \in Nat /\ new = Filled(d, s, block, start)
    BY <1>2, <1>3, <1>5
  <2> HIDE DEF start
  <2>2. \A i \in 1 .. Len(received[d]) :
           new[i] = IF i \in start + 1 .. start + block.count
                      THEN <<block.exchange, s, block.begin + i - start>>
                      ELSE received[d][i]
    BY <1>3, <2>1, FilledType
  <2> QED  BY <1>3, <2>2 DEF start
 <1> HIDE DEF x, b, o, c
 <1>7. ASSUME NEW i \in 1 .. x, i <= b + Limit
       PROVE  new[o + i] = IF i <= b THEN received[d][o + i]
                                     ELSE <<exchange[d], s, i>>
  <2>1. o + i \in 1 .. Total(d)
    BY <1>5 DEF x, o
  <2>2. o + i \in (o + b) + 1 .. (o + b) + c <=> i > b
    BY <1>1, <1>2, <1>4, <1>5, <1>7 DEF Least
  <2>3. b + (o + i) - (o + b) = i
    BY <1>2, <1>5
  <2> QED  BY <1>2, <1>6, <2>1, <2>2, <2>3
 <1>8. ASSUME NEW t \in World, t # s, NEW j \in 1 .. Incoming(d, t)
       PROVE  new[Offset(d, t) + j] = received[d][Offset(d, t) + j]
  <2> DEFINE k == Offset(d, t) + j
  <2>1. k \in 1 .. Total(d) /\ k \in Nat
    BY <1>5, <1>8
  <2>2. k \notin (o + b) + 1 .. (o + b) + c
   <3> SUFFICES ASSUME k \in (o + b) + 1 .. (o + b) + c  PROVE FALSE
     OBVIOUS
   <3> HIDE DEF k
   <3>1. k - o \in 1 .. x /\ o + (k - o) = k
     BY <1>1, <1>2, <1>4, <1>5, <2>1 DEF Least
   <3> QED  BY <1>5, <1>8, <3>1 DEF k
  <2> QED  BY <1>6, <2>1, <2>2
 <1> QED  BY <1>2, <1>7, <1>8 DEF x, b, o

LEMMA PairMatches ==
    ASSUME RoundsInv, NEW x \in World, NEW y \in World, Match(x, y),
           NEW s \in World, NEW d \in World, s # d,
           NEW m \in Nat, Progress(s, d, m)
    PROVE  \E n \in Nat : Progress(s, d, n)'
 <1> USE DEF RoundsInv
 <1> DEFINE new == Filled(y, x, Head(sent[x][y]),
                          Offset(y, x) + Head(posted[y][x]).begin)
 <1>1. /\ sent[x][y] # <<>> /\ posted[y][x] # <<>>
       /\ received' = [received EXCEPT ![y] = new]
       /\ sent'[x][y] = Tail(sent[x][y]) /\ posted'[y][x] = Tail(posted[y][x])
       /\ \A p, q \in World : (p # x \/ q # y) =>
             sent'[p][q] = sent[p][q] /\ posted'[q][p] = posted[q][p]
       /\ UNCHANGED <<counts, exchange, place, bad, round>>
  <2>1. RoundsTypeOK
    OBVIOUS
  <2>2. /\ sent[x][y] # <<>> /\ posted[y][x] # <<>>
        /\ received' = [received EXCEPT ![y] = new]
        /\ sent'[x][y] = Tail(sent[x][y]) /\ posted'[y][x] = Tail(posted[y][x])
        /\ UNCHANGED <<counts, exchange, place, bad, round>>
    BY <2>1, MatchUpdates
  <2>3. \A p, q \in World : (p # x \/ q # y) =>
           sent'[p][q] = sent[p][q] /\ posted'[q][p] = posted[q][p]
    BY <2>1, MatchUpdates
  <2> QED  BY <2>2, <2>3
 <1> HIDE DEF new
 <1>2. x # y
   BY <1>1 DEF OwnInPlace
 <1>3. SentBy(s, d)' = SentBy(s, d) /\ PostedBy(s, d)' = PostedBy(s, d)
       /\ Common(s, d)' = Common(s, d) /\ Records(s, d)' = Records(s, d)
       /\ (Holding(d)' <=> Holding(d))
   BY <1>1 DEF SentBy, PostedBy, Common, Records, Needed, Holding
 <1>4. received \in [World -> Seq(Entries)]
   BY DEF RoundsTypeOK
 <1>5. CASE d # y
  <2>1. (s # x \/ d # y) /\ received'[d] = received[d]
    BY <1>1, <1>4, <1>5
  <2> QED  BY <1>1, <1>3, <2>1, PairKept
 <1>6. CASE d = y
  <2>1. PICK k \in Nat : Progress(x, y, k)
    BY <1>2 DEF PairsInStep
  <2> DEFINE block == BlockOf(exchange[d], Incoming(d, x), k)
  <2>2. /\ place[d] \in {"send", "wait"}
        /\ Common(x, d) = exchange[d] /\ Records(x, d) = Incoming(d, x)
        /\ k < SentBy(x, d) /\ k < PostedBy(x, d)
        /\ k < RoundsRequired(Incoming(d, x))
        /\ Head(sent[x][d]) = block /\ Head(posted[d][x]) = block
    BY <1>1, <1>2, <1>6, <2>1, SameBlock
  <2>3. Len(received[d]) = Total(d)
    BY <2>2 DEF BufferSized, Holding
  <2>4. received'[d] = new /\ new = Filled(d, x, block, Offset(d, x) + block.begin)
    BY <1>1, <1>4, <1>6, <2>2 DEF new
  <2> HIDE DEF block
  <2>5. /\ \A i \in 1 .. Incoming(d, x) : i <= RoundBegin(k + 1) =>
             new[Offset(d, x) + i] =
                IF i <= RoundBegin(k) THEN received[d][Offset(d, x) + i]
                                      ELSE <<exchange[d], x, i>>
        /\ \A t \in World : t # x => \A j \in 1 .. Incoming(d, t) :
             new[Offset(d, t) + j] = received[d][Offset(d, t) + j]
    BY <2>2, <2>3, <2>4, BlockFills DEF block
  <2>6. \A t : Incoming(d, t)' = Incoming(d, t) /\ Offset(d, t)' = Offset(d, t)
    BY <1>1 DEF Incoming, Offset
  <2>7. CASE s # x
   <3>1. Arrived(d, s, m) => Arrived(d, s, m)'
     BY <1>1, <2>4, <2>5, <2>6, <2>7 DEF Arrived
   <3>2. s # x \/ d # y
     BY <2>7
   <3> QED  BY <1>1, <1>3, <3>1, <3>2 DEF Progress
  <2>8. CASE s = x
   <3>1. Holding(d)
     BY <2>2 DEF Holding
   <3>2. Arrived(d, s, k)
     BY <1>6, <2>1, <2>2, <2>8, <3>1 DEF Progress
   <3>3. Arrived(d, s, k + 1)'
    <4>1. ASSUME NEW i \in 1 .. Incoming(d, s), i <= RoundBegin(k + 1)
          PROVE  new[Offset(d, s) + i] = <<exchange[d], s, i>>
     <5>1. i <= RoundBegin(k) =>
             received[d][Offset(d, s) + i] = <<exchange[d], s, i>>
       BY <3>2 DEF Arrived
     <5> QED  BY <2>5, <2>8, <4>1, <5>1
    <4> QED  BY <1>1, <2>4, <2>6, <4>1 DEF Arrived
   <3>4. /\ sent[s][d] = Blocks(Common(s, d), Records(s, d), k, SentBy(s, d))
         /\ posted[d][s] = Blocks(Common(s, d), Records(s, d), k, PostedBy(s, d))
         /\ k < SentBy(s, d) /\ k < PostedBy(s, d)
     BY <1>6, <2>1, <2>2, <2>8 DEF Progress
   <3>5. SentBy(s, d) \in Nat /\ PostedBy(s, d) \in Nat
     BY PairTypes
   <3>6. /\ Tail(sent[s][d]) = Blocks(Common(s, d), Records(s, d), k + 1, SentBy(s, d))
         /\ Tail(posted[d][s]) = Blocks(Common(s, d), Records(s, d), k + 1, PostedBy(s, d))
    <4> DEFINE e == Common(s, d)
               l == Records(s, d)
               a == SentBy(s, d)
               b == PostedBy(s, d)
    <4> HIDE DEF e, l, a, b
    <4>1. /\ sent[s][d] = Blocks(e, l, k, a) /\ posted[d][s] = Blocks(e, l, k, b)
          /\ k < a /\ k < b /\ a \in Nat /\ b \in Nat
      BY <3>4, <3>5 DEF e, l, a, b
    <4>2. Tail(Blocks(e, l, k, a)) = Blocks(e, l, k + 1, a)
      BY <4>1, BlocksShrink
    <4>3. Tail(Blocks(e, l, k, b)) = Blocks(e, l, k + 1, b)
      BY <4>1, BlocksShrink
    <4> QED  BY <4>1, <4>2, <4>3 DEF e, l, a, b
   <3>7. k + 1 <= SentBy(s, d) /\ k + 1 <= PostedBy(s, d)
     BY <3>4, <3>5
   <3>8. Progress(s, d, k + 1)'
     BY <1>1, <1>3, <1>6, <2>8, <3>3, <3>6, <3>7 DEF Progress
   <3>9. k + 1 \in Nat
     OBVIOUS
   <3> QED  BY <3>8, <3>9
  <2> QED  BY <2>7, <2>8
 <1> QED  BY <1>5, <1>6

(* A rank goes on to the next exchange: a pair goes with the second of its *)
(* ranks, and leaves nothing behind.                                       *)
LEMMA PairGoesOn ==
    ASSUME RoundsInv, NEW r \in World, Again(r),
           NEW s \in World, NEW d \in World, s # d,
           NEW m \in Nat, Progress(s, d, m)
    PROVE  \E n \in Nat : Progress(s, d, n)'
 <1> USE DEF RoundsInv
 <1>1. /\ UNCHANGED <<counts, round, sent, posted, received>>
       /\ place[r] = "returned" /\ place'[r] = "prepare"
       /\ exchange'[r] = exchange[r] + 1
       /\ \A x \in World : x # r => place'[x] = place[x] /\ exchange'[x] = exchange[x]
   BY DEF Again, RoundsTypeOK
 <1>2. /\ exchange[s] \in Nat /\ exchange[d] \in Nat
       /\ SentBy(s, d) \in Nat /\ PostedBy(s, d) \in Nat /\ Needed(s, d) \in Nat
       /\ SentBy(s, d) <= Needed(s, d) /\ PostedBy(s, d) <= Needed(s, d)
   BY PairTypes
 <1>3. \A x \in World : exchange[r] <= exchange[x] /\ exchange[x] <= exchange[r] + 1
   BY <1>1 DEF NobodyLeftBehind
 <1>4. CASE r # s /\ r # d
  <2>1. /\ exchange'[s] = exchange[s] /\ exchange'[d] = exchange[d]
        /\ place'[s] = place[s] /\ place'[d] = place[d]
    BY <1>1, <1>4
  <2>2. /\ Common(s, d)' = Common(s, d) /\ Records(s, d)' = Records(s, d)
        /\ Needed(s, d)' = Needed(s, d)
    BY <1>1, <2>1 DEF Common, Records, Needed
  <2>3. SentBy(s, d)' = SentBy(s, d) /\ PostedBy(s, d)' = PostedBy(s, d)
    BY <1>1, <2>1, <2>2 DEF SentBy, PostedBy, Issued
  <2>4. Arrived(d, s, m)' <=> Arrived(d, s, m)
    BY <1>1, <2>1 DEF Arrived, Incoming, Offset
  <2>5. Holding(d)' <=> Holding(d)
    BY <2>1 DEF Holding
  <2> QED  BY <1>1, <2>1, <2>2, <2>3, <2>4, <2>5 DEF Progress
 <1>5. CASE r = s \/ r = d
  <2> DEFINE p == IF r = s THEN d ELSE s
  <2>1. p \in World /\ p # r /\ exchange'[p] = exchange[p] /\ place'[p] = place[p]
        /\ exchange[p] \in Nat /\ exchange[r] \in Nat
    BY <1>1, <1>2, <1>5
  <2>2. /\ Common(s, d) = exchange[r]
        /\ exchange[p] = exchange[r] \/ exchange[p] = exchange[r] + 1
    BY <1>2, <1>3, <1>5, <2>1 DEF Common, Least
  <2>3. CASE exchange[p] = exchange[r]
   <3>1. Common(s, d)' = exchange[r]
     BY <1>1, <1>5, <2>1, <2>3 DEF Common, Least
   <3>2. Records(s, d)' = Records(s, d) /\ Needed(s, d)' = Needed(s, d)
     BY <1>1, <2>2, <3>1 DEF Records, Needed
   <3>3. SentBy(s, d)' = SentBy(s, d) /\ PostedBy(s, d)' = PostedBy(s, d)
     BY <1>1, <1>5, <2>1, <2>2, <2>3, <3>1, <3>2 DEF SentBy, PostedBy, Issued
   <3>4. Holding(d)' /\ exchange'[d] = Common(s, d)' =>
           Holding(d) /\ exchange[d] = Common(s, d)
           /\ (Arrived(d, s, m)' <=> Arrived(d, s, m))
    <4>1. CASE r = d
      BY <1>1, <4>1 DEF Holding
    <4>2. CASE r = s
     <5>1. exchange'[d] = exchange[d] /\ place'[d] = place[d]
       BY <2>1, <4>2
     <5> QED  BY <1>1, <2>2, <3>1, <5>1 DEF Holding, Arrived, Incoming, Offset
    <4> QED  BY <1>5, <4>1, <4>2
   <3> QED  BY <1>1, <2>2, <3>1, <3>2, <3>3, <3>4 DEF Progress
  <2>4. CASE exchange[p] = exchange[r] + 1
   <3>1. ~ (exchange[p] <= exchange[r])
     BY <2>1, <2>4
   <3>2. place[p] \in {"prepare", "vote"}
     BY <2>1, <3>1 DEF NobodyLeftBehind
   <3>3. exchange[p] > Common(s, d)
     BY <2>1, <2>2, <2>4
   <3>4. SentBy(s, d) = Needed(s, d) /\ PostedBy(s, d) = Needed(s, d)
     BY <1>1, <1>5, <3>3 DEF SentBy, PostedBy, Issued
   <3>5. posted[d][s] = <<>>
    <4>1. place[d] \notin {"send", "wait"}
      BY <1>1, <1>5, <3>2
    <4> QED  BY <4>1 DEF ReceivesAwaited, ReceivesDone
   <3>6. m = Needed(s, d) /\ sent[s][d] = <<>>
    <4>1. m <= Needed(s, d)
      BY <3>4 DEF Progress
    <4>2. m = Needed(s, d)
      BY <1>2, <3>4, <3>5, <4>1, BlocksEmpty DEF Progress
    <4>3. m = SentBy(s, d) /\ m <= SentBy(s, d)
      BY <1>2, <3>4, <4>2
    <4> QED  BY <1>2, <4>2, <4>3, BlocksEmpty DEF Progress
   <3>7. Common(s, d)' = exchange'[s] /\ Common(s, d)' = exchange'[d]
         /\ Common(s, d)' \in Nat
     BY <1>1, <1>5, <2>1, <2>4 DEF Common, Least
   <3>8. place'[s] \in {"prepare", "vote"} /\ place'[d] \in {"prepare", "vote"}
     BY <1>1, <1>5, <2>1, <3>2
   <3>9. SentBy(s, d)' = 0 /\ PostedBy(s, d)' = 0
     BY <3>7, <3>8 DEF SentBy, PostedBy, Issued
   <3>10. ~ Holding(d)'
     BY <3>8 DEF Holding
   <3>11. /\ sent'[s][d] = Blocks(Common(s, d)', Records(s, d)', 0, 0)
          /\ posted'[d][s] = Blocks(Common(s, d)', Records(s, d)', 0, 0)
     BY <1>1, <3>5, <3>6, BlocksEmpty
   <3>12. Progress(s, d, 0)'
     BY <3>9, <3>10, <3>11 DEF Progress
   <3> QED  BY <3>12
  <2> QED  BY <2>2, <2>3, <2>4
 <1> QED  BY <1>4, <1>5

LEMMA PairsStayInStep == RoundsInv /\ [RoundsNext]_rounds => PairsInStep'
 <1> SUFFICES ASSUME RoundsInv, [RoundsNext]_rounds,
                     NEW s \in World, NEW d \in World, s # d
              PROVE  \E n \in Nat : Progress(s, d, n)'
   BY DEF PairsInStep
 <1>0. RoundsTypeOK /\ NobodyLeftBehind
   BY DEF RoundsInv
 <1>1. PICK m \in Nat : Progress(s, d, m)
   BY DEF RoundsInv, PairsInStep
 <1>2. ASSUME NEW r \in World, (\E ok \in BOOLEAN : Prepare(r, ok)) \/ Reject(r)
       PROVE  Progress(s, d, m)'
   BY <1>0, <1>1, <1>2, PairPrepare
 <1>3. ASSUME NEW r \in World, Admit(r)  PROVE Progress(s, d, m)'
   BY <1>0, <1>1, <1>3, PairAdmit
 <1>4. ASSUME NEW r \in World, PostReceives(r)  PROVE Progress(s, d, m)'
   BY <1>0, <1>1, <1>4, PairReceives
 <1>5. ASSUME NEW r \in World, PostSends(r)  PROVE Progress(s, d, m)'
   BY <1>0, <1>1, <1>5, PairSends
 <1>6. ASSUME NEW r \in World, EndRound(r)  PROVE Progress(s, d, m)'
   BY <1>0, <1>1, <1>6, PairEndsRound
 <1>7. ASSUME NEW r \in World, Again(r)  PROVE \E n \in Nat : Progress(s, d, n)'
   BY <1>1, <1>7, PairGoesOn
 <1>8. ASSUME NEW x \in World, NEW y \in World, Match(x, y)
       PROVE  \E n \in Nat : Progress(s, d, n)'
   BY <1>1, <1>8, PairMatches
 <1>9. CASE UNCHANGED rounds
  <2>1. UNCHANGED <<counts, exchange, place, bad, round, sent, posted, received>>
    BY <1>9 DEF rounds
  <2>2. SentBy(s, d)' = SentBy(s, d) /\ PostedBy(s, d)' = PostedBy(s, d)
    BY <2>1 DEF SentBy, PostedBy, Issued, Common, Needed, Records
  <2>3. Holding(d)' => Holding(d)
    BY <2>1 DEF Holding
  <2> QED  BY <1>1, <2>1, <2>2, <2>3, PairKept
 <1> QED  BY <1>2, <1>3, <1>4, <1>5, <1>6, <1>7, <1>8, <1>9
             DEF RoundsNext, RankStep, WaitMatched, WaitBuffered, AllFinished

-----------------------------------------------------------------------------
(* The other parts of the invariant.                                       *)

LEMMA NobodyIsLeftBehind == RoundsInv /\ [RoundsNext]_rounds => NobodyLeftBehind'
 <1> SUFFICES ASSUME RoundsInv, [RoundsNext]_rounds  PROVE NobodyLeftBehind'
   OBVIOUS
 <1>0. RoundsTypeOK /\ NobodyLeftBehind
   BY DEF RoundsInv
 <1>a. \A r \in World : exchange[r] \in Nat
   BY <1>0, LoadType
 <1>b. ASSUME UNCHANGED exchange,
              \A r \in World : place'[r] \notin {"prepare", "vote"} =>
                 place[r] \notin {"prepare", "vote"}
       PROVE  NobodyLeftBehind'
   BY <1>0, <1>b DEF NobodyLeftBehind
 <1>1. ASSUME NEW r \in World, NEW ok \in BOOLEAN, Prepare(r, ok)
       PROVE  NobodyLeftBehind'
  <2>1. UNCHANGED exchange /\ place'[r] = "vote"
        /\ \A x \in World : x # r => place'[x] = place[x]
    BY <1>0, <1>1 DEF Prepare, RoundsTypeOK
  <2> QED  BY <1>b, <2>1
 <1>2. ASSUME NEW r \in World, Admit(r) \/ Reject(r)  PROVE NobodyLeftBehind'
  <2>1. UNCHANGED exchange /\ AllEntered(r)
        /\ \A x \in World : x # r => place'[x] = place[x]
    BY <1>0, <1>2 DEF Admit, Reject, RoundsTypeOK
  <2>2. \A s \in World : exchange[r] <= exchange[s]
    BY <1>a, <2>1 DEF AllEntered
  <2> QED  BY <1>0, <2>1, <2>2 DEF NobodyLeftBehind
 <1>3. ASSUME NEW r \in World, PostReceives(r) \/ PostSends(r) \/ EndRound(r)
       PROVE  NobodyLeftBehind'
  <2>1. UNCHANGED exchange /\ place[r] \in {"receive", "send", "wait"}
        /\ \A x \in World : x # r => place'[x] = place[x]
    BY <1>0, <1>3 DEF PostReceives, PostSends, EndRound, RoundsTypeOK
  <2> QED  BY <1>b, <2>1
 <1>4. ASSUME NEW r \in World, Again(r)  PROVE NobodyLeftBehind'
  <2>1. /\ place[r] = "returned" /\ place'[r] = "prepare"
        /\ exchange'[r] = exchange[r] + 1
        /\ \A x \in World : x # r => place'[x] = place[x] /\ exchange'[x] = exchange[x]
    BY <1>0, <1>4 DEF Again, RoundsTypeOK
  <2>2. \A s \in World : exchange[r] <= exchange[s]
    BY <1>0, <2>1 DEF NobodyLeftBehind
  <2>3. ASSUME NEW p \in World, NEW s \in World
        PROVE  /\ exchange'[p] <= exchange'[s] + 1
               /\ place'[p] \notin {"prepare", "vote"} => exchange'[p] <= exchange'[s]
   <3>1. exchange[p] \in Nat /\ exchange[s] \in Nat /\ exchange[r] \in Nat
         /\ exchange[p] <= exchange[s] + 1 /\ exchange[r] <= exchange[s]
         /\ (place[p] \notin {"prepare", "vote"} => exchange[p] <= exchange[s])
     BY <1>0, <1>a, <2>2 DEF NobodyLeftBehind
   <3>2. CASE p = r
     BY <2>1, <3>1, <3>2
   <3>3. CASE p # r
    <4>1. exchange'[s] \in Nat /\ exchange'[s] >= exchange[s]
      BY <2>1, <3>1
    <4> QED  BY <2>1, <3>1, <3>3, <4>1
   <3> QED  BY <3>2, <3>3
  <2> QED  BY <2>3 DEF NobodyLeftBehind
 <1>5. ASSUME NEW s \in World, NEW d \in World, Match(s, d)  PROVE NobodyLeftBehind'
   BY <1>b, <1>5 DEF Match
 <1>6. CASE UNCHANGED rounds
   BY <1>b, <1>6 DEF rounds
 <1> QED  BY <1>1, <1>2, <1>3, <1>4, <1>5, <1>6
             DEF RoundsNext, RankStep, WaitMatched, WaitBuffered, AllFinished

LEMMA ReceivesStayAwaited == RoundsInv /\ [RoundsNext]_rounds => ReceivesAwaited'
 <1> SUFFICES ASSUME RoundsInv, [RoundsNext]_rounds  PROVE ReceivesAwaited'
   OBVIOUS
 <1>0. RoundsTypeOK /\ ReceivesAwaited
   BY DEF RoundsInv
 <1>b. ASSUME UNCHANGED posted,
              \A x \in World : place'[x] \notin {"send", "wait"} =>
                 place[x] \notin {"send", "wait"} \/ ReceivesDone(x)
       PROVE  ReceivesAwaited'
   BY <1>0, <1>b DEF ReceivesAwaited, ReceivesDone
 <1>1. ASSUME NEW r \in World,
              \/ \E ok \in BOOLEAN : Prepare(r, ok)
              \/ Admit(r) \/ Reject(r) \/ PostSends(r) \/ Again(r)
       PROVE  ReceivesAwaited'
  <2>1. /\ UNCHANGED posted
        /\ place[r] \in {"prepare", "vote", "returned"} \/ place'[r] = "wait"
        /\ \A x \in World : x # r => place'[x] = place[x]
    BY <1>0, <1>1 DEF Prepare, Admit, Reject, PostSends, Again, RoundsTypeOK
  <2> QED  BY <1>b, <2>1
 <1>2. ASSUME NEW r \in World, EndRound(r)  PROVE ReceivesAwaited'
  <2>1. /\ UNCHANGED posted /\ ReceivesDone(r)
        /\ \A x \in World : x # r => place'[x] = place[x]
    BY <1>0, <1>2 DEF EndRound, RoundsTypeOK
  <2> QED  BY <1>b, <2>1
 <1>3. ASSUME NEW r \in World, PostReceives(r)  PROVE ReceivesAwaited'
  <2>1. /\ place'[r] = "send"
        /\ \A x \in World : x # r => place'[x] = place[x]
    BY <1>0, <1>3 DEF PostReceives, RoundsTypeOK
  <2>2. \A d, s \in World : d # r => posted'[d][s] = posted[d][s]
    BY <1>0, <1>3, PostReceivesUpdates
  <2> QED  BY <1>0, <2>1, <2>2 DEF ReceivesAwaited, ReceivesDone
 <1>4. ASSUME NEW x \in World, NEW y \in World, Match(x, y)  PROVE ReceivesAwaited'
  <2>1. /\ UNCHANGED place /\ posted[y][x] # <<>>
        /\ \A p, q \in World : (p # x \/ q # y) => posted'[q][p] = posted[q][p]
    BY <1>0, <1>4, MatchUpdates
  <2>2. place[y] \in {"send", "wait"}
    BY <1>0, <2>1 DEF ReceivesAwaited, ReceivesDone
  <2> QED  BY <1>0, <2>1, <2>2 DEF ReceivesAwaited, ReceivesDone
 <1>5. CASE UNCHANGED rounds
   BY <1>b, <1>5 DEF rounds
 <1> QED  BY <1>1, <1>2, <1>3, <1>4, <1>5
             DEF RoundsNext, RankStep, WaitMatched, WaitBuffered, AllFinished

(* What a buffer holds beside the records that are still to come.          *)
Stored(r) ==
    /\ sent[r][r] = <<>> /\ posted[r][r] = <<>>
    /\ Holding(r) => /\ Len(received[r]) = Total(r)
                     /\ \A i \in 1 .. Incoming(r, r) :
                           received[r][Offset(r, r) + i] = <<exchange[r], r, i>>

LEMMA StoredIs == (\A r \in World : Stored(r)) <=> OwnInPlace /\ BufferSized
  BY DEF Stored, OwnInPlace, BufferSized

LEMMA StoredKept ==
    ASSUME NEW r, Stored(r), UNCHANGED counts,
           sent'[r][r] = sent[r][r], posted'[r][r] = posted[r][r],
           Holding(r)' => /\ Holding(r) /\ exchange'[r] = exchange[r]
                          /\ received'[r] = received[r]
    PROVE  Stored(r)'
  BY DEF Stored, Total, Incoming, Offset

LEMMA BuffersStayStored ==
    ASSUME RoundsInv, [RoundsNext]_rounds, NEW p \in World
    PROVE  Stored(p)'
 <1>0. RoundsTypeOK /\ OwnInPlace /\ BufferSized
   BY DEF RoundsInv
 <1>a. Stored(p)
   BY <1>0, StoredIs
 <1>1. ASSUME NEW r \in World,
              \/ \E ok \in BOOLEAN : Prepare(r, ok)
              \/ Reject(r) \/ EndRound(r) \/ Again(r)
       PROVE  Stored(p)'
  <2>1. /\ UNCHANGED <<counts, sent, posted, received>>
        /\ Holding(p)' => Holding(p) /\ exchange'[p] = exchange[p]
    BY <1>0, <1>1 DEF Prepare, Reject, EndRound, Again, RoundsTypeOK, Holding
  <2> QED  BY <1>a, <2>1, StoredKept
 <1>2. ASSUME NEW r \in World, PostReceives(r)  PROVE Stored(p)'
  <2>1. /\ UNCHANGED <<counts, exchange, sent, received>>
        /\ Holding(p)' => Holding(p)
    BY <1>0, <1>2 DEF PostReceives, RoundsTypeOK, Holding
  <2>2. posted'[p][p] = posted[p][p]
    BY <1>0, <1>2, PostReceivesUpdates
  <2> QED  BY <1>a, <2>1, <2>2, StoredKept
 <1>3. ASSUME NEW r \in World, PostSends(r)  PROVE Stored(p)'
  <2>1. /\ UNCHANGED <<counts, exchange, posted, received>>
        /\ Holding(p)' => Holding(p)
    BY <1>0, <1>3 DEF PostSends, RoundsTypeOK, Holding
  <2>2. sent'[p][p] = sent[p][p]
    BY <1>0, <1>3, PostSendsUpdates
  <2> QED  BY <1>a, <2>1, <2>2, StoredKept
 <1>4. ASSUME NEW r \in World, Admit(r)  PROVE Stored(p)'
  <2>1. /\ UNCHANGED <<counts, exchange, sent, posted>>
        /\ received' = [received EXCEPT ![r] = SelfCopied(r)]
        /\ \A x \in World : x # r => place'[x] = place[x]
    BY <1>0, <1>4 DEF Admit, RoundsTypeOK
  <2>2. received \in [World -> Seq(Entries)]
    BY <1>0 DEF RoundsTypeOK
  <2>3. CASE p # r
   <3>1. (Holding(p)' => Holding(p)) /\ received'[p] = received[p]
     BY <2>1, <2>2, <2>3 DEF Holding
   <3> QED  BY <1>a, <2>1, <3>1, StoredKept
  <2>4. CASE p = r
   <3>1. received'[p] = SelfCopied(p)
     BY <2>1, <2>2, <2>4
   <3>2. Total(p)' = Total(p) /\ Incoming(p, p)' = Incoming(p, p)
         /\ Offset(p, p)' = Offset(p, p)
     BY <2>1 DEF Total, Incoming, Offset
   <3>3. /\ Len(SelfCopied(p)) = Total(p)
         /\ \A i \in 1 .. Incoming(p, p) :
               SelfCopied(p)[Offset(p, p) + i] = <<exchange[p], p, i>>
     BY <1>0, SelfCopiedType
   <3> QED  BY <1>a, <2>1, <3>1, <3>2, <3>3 DEF Stored
  <2> QED  BY <2>3, <2>4
 <1>5. ASSUME NEW x \in World, NEW y \in World, Match(x, y)  PROVE Stored(p)'
  <2> DEFINE new == Filled(y, x, Head(sent[x][y]),
                           Offset(y, x) + Head(posted[y][x]).begin)
  <2>1. /\ sent[x][y] # <<>> /\ posted[y][x] # <<>>
        /\ received' = [received EXCEPT ![y] = new]
        /\ Head(sent[x][y]) \in Messages
        /\ Offset(y, x) + Head(posted[y][x]).begin \in Nat
        /\ UNCHANGED <<counts, exchange, place, bad, round>>
    BY <1>0, <1>5, MatchUpdates
  <2>2. \A a, b \in World : (a # x \/ b # y) =>
           sent'[a][b] = sent[a][b] /\ posted'[b][a] = posted[b][a]
    BY <1>0, <1>5, MatchUpdates
  <2>3. x # y
    BY <1>0, <2>1 DEF OwnInPlace
  <2>4. sent'[p][p] = sent[p][p] /\ posted'[p][p] = posted[p][p]
    BY <2>2, <2>3
  <2>5. received \in [World -> Seq(Entries)]
    BY <1>0 DEF RoundsTypeOK
  <2>6. Len(new) = Len(received[y])
   <3> DEFINE message == Head(sent[x][y])
              start == Offset(y, x) + Head(posted[y][x]).begin
   <3>1. message \in Messages /\ start \in Nat /\ new = Filled(y, x, message, start)
     BY <2>1
   <3> HIDE DEF new, message, start
   <3> QED  BY <1>0, <3>1, FilledType
  <2>7. Holding(p)' <=> Holding(p)
    BY <2>1 DEF Holding
  <2>8. CASE p # y
   <3>1. received'[p] = received[p]
    <4> HIDE DEF new
    <4> QED  BY <2>1, <2>5, <2>8
   <3> QED  BY <1>a, <2>1, <2>4, <2>7, <3>1, StoredKept
  <2>9. CASE p = y
   <3>1. PICK k \in Nat : Progress(x, y, k)
     BY <2>3 DEF RoundsInv, PairsInStep
   <3> DEFINE block == BlockOf(exchange[y], Incoming(y, x), k)
   <3>2. /\ place[y] \in {"send", "wait"}
         /\ k < RoundsRequired(Incoming(y, x))
         /\ Head(sent[x][y]) = block /\ Head(posted[y][x]) = block
     BY <2>1, <2>3, <3>1, SameBlock
   <3>3. Len(received[y]) = Total(y)
     BY <1>0, <3>2 DEF BufferSized, Holding
   <3>4. new = Filled(y, x, block, Offset(y, x) + block.begin)
     BY <3>2
   <3> HIDE DEF new, block
   <3>5. \A j \in 1 .. Incoming(y, y) :
            new[Offset(y, y) + j] = received[y][Offset(y, y) + j]
     BY <1>0, <2>3, <3>2, <3>3, <3>4, BlockFills DEF block
   <3>6. received'[y] = new
     BY <2>1, <2>5
   <3>7. Total(y)' = Total(y) /\ Incoming(y, y)' = Incoming(y, y)
         /\ Offset(y, y)' = Offset(y, y)
     BY <2>1 DEF Total, Incoming, Offset
   <3> QED  BY <1>a, <2>1, <2>4, <2>6, <2>7, <2>9, <3>5, <3>6, <3>7 DEF Stored
  <2> QED  BY <2>8, <2>9
 <1>6. CASE UNCHANGED rounds
  <2>1. UNCHANGED <<counts, exchange, place, sent, posted, received>>
    BY <1>6 DEF rounds
  <2>2. Holding(p)' => Holding(p)
    BY <2>1 DEF Holding
  <2> QED  BY <1>a, <2>1, <2>2, StoredKept
 <1> QED  BY <1>1, <1>2, <1>3, <1>4, <1>5, <1>6
             DEF RoundsNext, RankStep, WaitMatched, WaitBuffered, AllFinished

-----------------------------------------------------------------------------
(* The rounds keep their invariant, with any number of ranks, of exchanges *)
(* and of records: however far the pairs are apart in their rounds.        *)

LEMMA RoundsBegin == RoundsInit => RoundsInv
 <1> SUFFICES ASSUME RoundsInit  PROVE RoundsInv
   OBVIOUS
 <1>1. RoundsTypeOK
   BY RoundsStartTyped
 <1>2. \A r \in World : exchange[r] = 1 /\ place[r] = "prepare"
   BY DEF RoundsInit
 <1>3. \A s, d \in World : sent[s][d] = <<>> /\ posted[d][s] = <<>>
   BY DEF RoundsInit
 <1>4. ASSUME NEW s \in World, NEW d \in World  PROVE Progress(s, d, 0)
  <2>1. Common(s, d) = 1
    BY <1>2 DEF Common, Least
  <2>2. SentBy(s, d) = 0 /\ PostedBy(s, d) = 0
    BY <1>2, <2>1 DEF SentBy, PostedBy, Issued
  <2>3. Blocks(Common(s, d), Records(s, d), 0, 0) = <<>>
    BY BlocksEmpty
  <2> QED  BY <1>2, <1>3, <2>2, <2>3 DEF Progress, Holding
 <1>5. PairsInStep
   BY <1>4 DEF PairsInStep
 <1>6. OwnInPlace /\ BufferSized
   BY <1>2, <1>3 DEF OwnInPlace, BufferSized, Holding
 <1>7. ReceivesAwaited
   BY <1>3 DEF ReceivesAwaited, ReceivesDone
 <1>8. NobodyLeftBehind
   BY <1>2 DEF NobodyLeftBehind
 <1> QED  BY <1>1, <1>5, <1>6, <1>7, <1>8 DEF RoundsInv

LEMMA RoundsGoOn == RoundsInv /\ [RoundsNext]_rounds => RoundsInv'
 <1> SUFFICES ASSUME RoundsInv, [RoundsNext]_rounds  PROVE RoundsInv'
   OBVIOUS
 <1>1. RoundsTypeOK'
   BY RoundsKeepTypes DEF RoundsInv
 <1>2. PairsInStep'
   BY PairsStayInStep
 <1>3. (OwnInPlace /\ BufferSized)'
   BY BuffersStayStored DEF Stored, OwnInPlace, BufferSized
 <1>4. ReceivesAwaited'
   BY ReceivesStayAwaited
 <1>5. NobodyLeftBehind'
   BY NobodyIsLeftBehind
 <1> QED  BY <1>1, <1>2, <1>3, <1>4, <1>5 DEF RoundsInv

THEOREM RoundsInvariant == RoundsSpec => []RoundsInv
 <1>1. RoundsInit => RoundsInv
   BY RoundsBegin
 <1>2. RoundsInv /\ [RoundsNext]_rounds => RoundsInv'
   BY RoundsGoOn
 <1> QED  BY <1>1, <1>2, PTL DEF RoundsSpec

LEMMA MessagesMeet == RoundsInv => MessagesMeetTheirReceives
 <1> SUFFICES ASSUME RoundsInv, NEW s \in World, NEW d \in World,
                     sent[s][d] # <<>>, posted[d][s] # <<>>
              PROVE  Head(sent[s][d]) = Head(posted[d][s])
   BY DEF MessagesMeetTheirReceives
 <1>1. s # d
   BY DEF RoundsInv, OwnInPlace
 <1>2. PICK m \in Nat : Progress(s, d, m)
   BY <1>1 DEF RoundsInv, PairsInStep
 <1> QED  BY <1>1, <1>2, SameBlock

LEMMA AllDelivered ==
    ASSUME RoundsInv, NEW r \in World, place[r] = "returned"
    PROVE  Delivered(r) /\ Len(received[r]) = Total(r)
 <1> USE DEF RoundsInv
 <1>1. Holding(r) /\ Len(received[r]) = Total(r) /\ ReceivesDone(r)
   BY DEF Holding, BufferSized, ReceivesAwaited
 <1>2. ASSUME NEW s \in World, NEW i \in 1 .. Incoming(r, s)
       PROVE  received[r][Offset(r, s) + i] = <<exchange[r], s, i>>
  <2>1. CASE s = r
    BY <1>1, <2>1 DEF OwnInPlace
  <2>2. CASE s # r
   <3>1. PICK m \in Nat : Progress(s, r, m)
     BY <2>2 DEF PairsInStep
   <3>2. Common(s, r) = exchange[r] /\ Records(s, r) = Incoming(r, s)
     BY InRounds
   <3>3. PostedBy(s, r) = Needed(s, r)
     BY DEF PostedBy, Issued
   <3>4. PostedBy(s, r) \in Nat
     BY PairTypes
   <3>5. m = PostedBy(s, r)
    <4>1. posted[r][s] = <<>>
      BY <1>1 DEF ReceivesDone
    <4>2. m <= PostedBy(s, r)
          /\ posted[r][s] = Blocks(Common(s, r), Records(s, r), m, PostedBy(s, r))
      BY <3>1 DEF Progress
    <4> QED  BY <3>4, <4>1, <4>2, BlocksEmpty
   <3>6. Arrived(r, s, m) /\ m = RoundsRequired(Incoming(r, s))
     BY <1>1, <3>1, <3>2, <3>3, <3>5 DEF Progress, Needed
   <3>7. Incoming(r, s) \in Nat
     BY LoadType
   <3>8. Incoming(r, s) <= RoundBegin(m) /\ RoundBegin(m) \in Nat
     BY <3>6, <3>7, RoundsCover, BeginOfRound
   <3>9. i <= RoundBegin(m)
     BY <3>7, <3>8
   <3> QED  BY <3>6, <3>9 DEF Arrived
  <2> QED  BY <2>1, <2>2
 <1> QED  BY <1>1, <1>2 DEF Delivered

(* A message meets the receive posted for it, and a rank returns with      *)
(* every record routed to it, each once and at its place.                  *)
THEOREM RoundsReturnEveryRecord == RoundsSpec => []ReturnsEveryRecord
 <1>1. RoundsInv => ReturnsEveryRecord
   BY MessagesMeet, AllDelivered DEF ReturnsEveryRecord
 <1> QED  BY <1>1, RoundsInvariant, PTL

-----------------------------------------------------------------------------
(* The contexts of RuntimeLease.  What the ranks of a job share of a call  *)
(* is what they hold when it is over; the views of the calls some rank has *)
(* made form a past every rank goes through.                               *)
Starting == {"available", "gather", "started"}
Spots == Starting \union {"call", "agree", "finalize"}
ScriptCalls == {Open(slot, setting) : slot \in Slots, setting \in Settings}
                 \union {Close(slot) : slot \in Slots}
                 \union {Agree, FinalizeUnder}

Identities == {"absent"} \union {host.identity[r] : r \in Job}
Passed == [available : {"absent", "yes", "no"}, gathered : BOOLEAN,
           started : {"absent", "ok", "failed"}, identity : Identities]
Leases == [setting : Settings, owns : BOOLEAN, handler : {"host", "return"},
           slot : Slots, ceiling : Nat, started : BOOLEAN, before : {host.openmp}]
Teams == [dynamic : BOOLEAN, levels : Nat, threads : Nat \ {0}]

(* What the program may have called: it finalizes only the MPI it brought, *)
(* and more than one rank need MPI.                                        *)
Callable(call) ==
    /\ call = FinalizeUnder => host.initialized
    /\ call.do = "open" => call.setting.mpi \/ Cardinality(Job) = 1

LeaseTypeOK ==
    /\ host \in Hosts
    /\ script \in Seq(ScriptCalls) /\ Len(script) <= host.calls
    /\ \A k \in 1 .. Len(script) : Callable(script[k])
    /\ at \in [Job -> Nat]
    /\ spot \in [Job -> Spots]
    /\ \A r \in Job : /\ at[r] \in 1 .. Len(script) + 1
                      /\ spot[r] # "call" => at[r] <= Len(script)
    /\ mpi \in [Job -> {"fresh", "live", "finalizing", "finalized"}]
    /\ handler \in [Job -> {"host", "return"}]
    /\ openmp \in [Job -> Teams]
    /\ lease \in [Job -> Leases \union {NoLease}]
    /\ contexts \in [Job -> SUBSET Slots]
    /\ told \in [1 .. host.calls -> [Job -> Passed]]
    /\ outcome \in [Job -> {"none", "ok", "threw"}]

(* The team a rank has formed is the one its settings ask for, and with an *)
(* equal part of the node no larger than that.                             *)
HasTeam(r) ==
    \E n \in 1 .. host.limit[r] :
        /\ openmp[r] = TeamOf(n)
        /\ lease[r].setting.threads # 0 => n = lease[r].setting.threads
        /\ lease[r].setting.threads = 0 /\ lease[r].ceiling > 0 =>
             n <= lease[r].ceiling

TakesItsPart(r) ==
    lease[r].ceiling > 0 =>
        /\ \A s \in Node(r) : host.mask[s] = host.mask[r]
        /\ lease[r].ceiling =
             Max({1, Cardinality(host.mask[r]) \div Cardinality(Node(r))})

(* A rank by itself, in any place.                                         *)
WithoutLease(r) ==
    /\ contexts[r] = {} /\ openmp[r] = host.openmp
    /\ spot[r] \notin Starting
    /\ mpi[r] = "live" => host.initialized /\ handler[r] = "host"

WithLease(r) ==
    /\ lease[r].handler = "host"
    /\ lease[r].owns <=> lease[r].setting.mpi /\ ~ host.initialized
    /\ lease[r].setting.mpi \/ Cardinality(Job) = 1
    /\ IF lease[r].setting.mpi
         THEN /\ mpi[r] = "live" => handler[r] = "return"
              /\ mpi[r] # "live" => host.initialized
         ELSE mpi[r] = "live" => host.initialized /\ handler[r] = "host"
    /\ IF lease[r].started THEN HasTeam(r) ELSE openmp[r] = host.openmp
    /\ TakesItsPart(r)
    /\ IF spot[r] \in Starting
         THEN /\ contexts[r] = {} /\ lease[r].setting.mpi /\ mpi[r] = "live"
              /\ script[at[r]] = Open(lease[r].slot, lease[r].setting)
              /\ host.funneled
         ELSE contexts[r] # {} /\ lease[r].started
    /\ spot[r] \in {"available", "gather"} =>
         ~ lease[r].started /\ lease[r].ceiling = 0

RankIsWhole(r) ==
    /\ mpi[r] = "finalizing" <=> spot[r] = "finalize"
    /\ mpi[r] = "fresh" => ~ host.initialized /\ handler[r] = "host"
    /\ IF lease[r] = NoLease THEN WithoutLease(r) ELSE WithLease(r)

(* What it has passed to the collectives of a call, and when.              *)
ToldInTime(r) ==
    /\ \A k \in 1 .. host.calls :
         (k > at[r] \/ (k = at[r] /\ spot[r] = "call")) => told[k][r] = Silent
    /\ spot[r] \in {"available", "gather"} => Told(r, r).started = "absent"
    /\ spot[r] = "started" =>
         Told(r, r).started = IF lease[r].started THEN "ok" ELSE "failed"
    /\ spot[r] = "agree" => script[at[r]] = Agree

-----------------------------------------------------------------------------
ViewOf(leased, setting, slots, ours, ending) ==
    [leased |-> leased, setting |-> setting, contexts |-> slots, mpi |-> ours,
     outcome |-> ending]

(* What rank r holds, or would if its MPI were as given.                   *)
ViewWith(r, ours) == ViewOf(lease[r] # NoLease, lease[r].setting, contexts[r],
                            ours, outcome[r])
View(r) == ViewWith(r, mpi[r])

(* What a rank without a lease holds.                                      *)
BareView(ending) ==
    ViewOf(FALSE, "none", {}, IF host.initialized THEN "live" ELSE "fresh", ending)

(* A call that starts MPI's lease, whose verdict is common to the ranks.   *)
Asks(v, k) == /\ script[k].do = "open" /\ ~ v.leased
              /\ v.mpi \in {"live", "fresh"} /\ host.funneled

StartFailed(k) == \E s \in Job : told[k][s].started = "failed"
SameIdentity(k) == /\ \A s \in Job : told[k][s].identity # "incomplete"
                   /\ \A s \in Job : told[k][s].identity = told[k][0].identity

AfterOpen(v, k) ==
    IF v.leased
      THEN IF v.setting = script[k].setting
             THEN ViewOf(TRUE, v.setting, v.contexts \union {script[k].slot},
                         v.mpi, "ok")
             ELSE ViewOf(TRUE, v.setting, v.contexts, v.mpi, "threw")
      ELSE IF Asks(v, k) /\ ~ StartFailed(k)
             THEN ViewOf(TRUE, script[k].setting, {script[k].slot}, "live", "ok")
             ELSE ViewOf(FALSE, v.setting, v.contexts,
                         IF v.mpi = "fresh" THEN "finalized" ELSE v.mpi, "threw")

AfterClose(v, k) ==
    IF v.contexts = {script[k].slot}
      THEN ViewOf(FALSE, "none", {},
                  IF host.initialized THEN v.mpi ELSE "finalized", "ok")
      ELSE ViewOf(v.leased, v.setting, v.contexts \ {script[k].slot}, v.mpi, "ok")

(* What a rank holds after call k, if it held v before.                    *)
After(v, k) ==
    CASE script[k].do = "open"  -> AfterOpen(v, k)
      [] script[k].do = "close" -> AfterClose(v, k)
      [] script[k].do = "agree" ->
           ViewOf(v.leased, v.setting, v.contexts, v.mpi,
                  IF SameIdentity(k) THEN "ok" ELSE "threw")
      [] script[k].do = "finalize" ->
           ViewOf(v.leased, v.setting, v.contexts, "finalized", "ok")

(* Everyone has spoken, and what they said will not change.                *)
Settled(v, k) ==
    /\ Asks(v, k) => \A s \in Job : told[k][s].started # "absent"
    /\ script[k].do = "agree" => \A s \in Job : told[k][s].identity # "absent"

Made(k) == \E r \in Job : at[r] > k

IsPast(past) ==
    /\ past = [k \in 0 .. host.calls |-> past[k]]
    /\ past[0] = BareView("none")
    /\ \A k \in 1 .. host.calls :
         Made(k) => past[k] = After(past[k - 1], k) /\ Settled(past[k - 1], k)

Follows(past, r) ==
    LET v == past[at[r] - 1] IN
    CASE spot[r] \in {"call", "agree"} -> View(r) = v
      [] spot[r] \in Starting -> v = BareView(outcome[r])
      [] spot[r] = "finalize" ->
           /\ ViewWith(r, "finalized") = After(v, at[r])
           /\ Settled(v, at[r])

OnePast == \E past : IsPast(past) /\ \A r \in Job : Follows(past, r)

LeasesInv == /\ LeaseTypeOK
             /\ \A r \in Job : RankIsWhole(r) /\ ToldInTime(r)
             /\ (Cardinality(Job) = 1 \/ OnePast)

-----------------------------------------------------------------------------
(* The job and the teams.                                                  *)

LEMMA JobIsFinite ==
    ASSUME HostsAssumption, host \in Hosts
    PROVE  /\ IsFiniteSet(Job) /\ Job # {} /\ host.calls \in Nat
           /\ host.initialized \in BOOLEAN /\ host.funneled \in BOOLEAN
           /\ host.openmp \in Teams
           /\ \A r \in Job : /\ IsFiniteSet(host.mask[r]) /\ host.mask[r] # {}
                             /\ host.limit[r] \in Nat \ {0}
                             /\ host.identity[r] # "absent"
  BY DEF HostsAssumption, Job, Teams

LEMMA SizesAreNumbers ==
    ASSUME HostsAssumption, host \in Hosts, NEW r \in Job
    PROVE  /\ Cardinality(host.mask[r]) \in Nat \ {0}
           /\ Cardinality(Node(r)) \in Nat \ {0}
 <1>1. IsFiniteSet(host.mask[r]) /\ host.mask[r] # {} /\ IsFiniteSet(Job)
   BY JobIsFinite
 <1>2. Node(r) \subseteq Job /\ r \in Node(r)
   BY DEF Node
 <1>3. IsFiniteSet(Node(r))
   BY <1>1, <1>2, FS_Subset
 <1>4. Cardinality(host.mask[r]) \in Nat /\ Cardinality(host.mask[r]) # 0
   BY <1>1, FS_CardinalityType, FS_EmptySet
 <1>5. Cardinality(Node(r)) \in Nat /\ Cardinality(Node(r)) # 0
   BY <1>2, <1>3, FS_CardinalityType, FS_EmptySet
 <1> QED  BY <1>4, <1>5

LEMMA GreaterOfTwo ==
    ASSUME NEW m \in Nat, NEW n \in Nat
    PROVE  /\ Max({m, n}) \in {m, n}
           /\ m <= Max({m, n}) /\ n <= Max({m, n})
 <1>1. {m, n} \in SUBSET Nat /\ {m, n} # {} /\ m + n \in Nat
   OBVIOUS
 <1>2. \A y \in {m, n} : y <= m + n
   OBVIOUS
 <1> QED  BY <1>1, <1>2, MaxIsGreatest

(* A team that is admitted has a thread and no more than the limit, what   *)
(* was asked for if anything was, and keeps to the ceiling if there is one.*)
LEMMA TeamIsAsked ==
    ASSUME HostsAssumption, SettingsAssumption, host \in Hosts, NEW r \in Job,
           NEW setting \in Settings, NEW ceiling \in Nat, Admitted(r, setting)
    PROVE  /\ Team(r, setting, ceiling) \in 1 .. host.limit[r]
           /\ setting.threads # 0 =>
                Team(r, setting, ceiling) = setting.threads
           /\ setting.threads = 0 /\ ceiling > 0 =>
                Team(r, setting, ceiling) <= ceiling
 <1>1. /\ host.limit[r] \in Nat \ {0} /\ host.openmp.threads \in Nat \ {0}
       /\ setting.threads \in Nat
   BY JobIsFinite DEF SettingsAssumption, Teams
 <1>2. Cardinality(host.mask[r]) \in Nat \ {0}
   BY SizesAreNumbers
 <1> DEFINE offers == {host.openmp.threads, Cardinality(host.mask[r]),
                       host.limit[r]}
 <1>3. offers \in SUBSET Nat /\ offers # {}
   BY <1>1, <1>2
 <1>4. Capacity(r) \in offers /\ Capacity(r) <= host.limit[r]
   BY <1>3, MinIsLeast DEF Capacity
 <1>5. Capacity(r) \in 1 .. host.limit[r]
   BY <1>1, <1>2, <1>4
 <1>6. ASSUME ceiling > 0
       PROVE  Min({Capacity(r), ceiling}) \in 1 .. host.limit[r]
              /\ Min({Capacity(r), ceiling}) <= ceiling
  <2>1. {Capacity(r), ceiling} \in SUBSET Nat /\ {Capacity(r), ceiling} # {}
    BY <1>5
  <2>2. /\ Min({Capacity(r), ceiling}) \in {Capacity(r), ceiling}
        /\ Min({Capacity(r), ceiling}) <= Capacity(r)
        /\ Min({Capacity(r), ceiling}) <= ceiling
    BY <2>1, MinIsLeast
  <2> QED  BY <1>1, <1>5, <1>6, <2>2
 <1>7. setting.threads # 0 => setting.threads \in 1 .. host.limit[r]
   BY <1>1 DEF Admitted
 <1> QED  BY <1>1, <1>5, <1>6, <1>7 DEF Team, AutomaticCapacity

LEMMA CeilingIsPart ==
    ASSUME HostsAssumption, host \in Hosts, NEW r \in Job
    PROVE  /\ CeilingOf(r) \in Nat
           /\ CeilingOf(r) > 0 =>
                /\ \A s \in Node(r) : host.mask[s] = host.mask[r]
                /\ CeilingOf(r) = Max({1, Cardinality(host.mask[r])
                                            \div Cardinality(Node(r))})
 <1>1. /\ Cardinality(host.mask[r]) \in Nat
       /\ Cardinality(Node(r)) \in Nat \ {0}
   BY SizesAreNumbers
 <1>2. Cardinality(host.mask[r]) \div Cardinality(Node(r)) \in Nat
   BY <1>1
 <1>3. Max({1, Cardinality(host.mask[r]) \div Cardinality(Node(r))}) \in Nat
   BY <1>2, GreaterOfTwo
 <1> QED  BY <1>3 DEF CeilingOf

(* A rank makes the next call of the script, or adds one the program may   *)
(* make.                                                                   *)
ScriptKept ==
    /\ script' \in Seq(ScriptCalls)
    /\ Len(script) <= Len(script') /\ Len(script') <= host.calls
    /\ \A k \in 1 .. Len(script') : Callable(script'[k])
    /\ \A k \in 1 .. Len(script) : script'[k] = script[k]

LEMMA CallMade ==
    ASSUME HostsAssumption, LeaseTypeOK, NEW r \in Job,
           NEW call \in ScriptCalls, Makes(r, call)
    PROVE  /\ host' = host /\ spot[r] = "call"
           /\ ScriptKept
           /\ at[r] \in 1 .. Len(script') /\ script'[at[r]] = call
           /\ at[r] \in 1 .. host.calls
 <1>1. /\ host \in Hosts /\ script \in Seq(ScriptCalls)
       /\ Len(script) <= host.calls /\ at[r] \in 1 .. Len(script) + 1
       /\ host.calls \in Nat /\ Len(script) \in Nat
       /\ \A k \in 1 .. Len(script) : Callable(script[k])
   BY JobIsFinite DEF LeaseTypeOK
 <1>2. host' = host /\ spot[r] = "call"
   BY DEF Makes
 <1>3. CASE at[r] <= Len(script)
  <2>1. script' = script /\ call = script[at[r]]
    BY <1>3 DEF Makes
  <2> QED  BY <1>1, <1>2, <1>3, <2>1 DEF ScriptKept
 <1>4. CASE ~ (at[r] <= Len(script))
  <2>1. /\ at[r] <= host.calls /\ call \in Calls(r)
        /\ script' = Append(script, call)
    BY <1>4 DEF Makes
  <2>2. at[r] = Len(script) + 1
    BY <1>1, <1>4
  <2>3. Callable(call)
    BY <2>1 DEF Calls, Callable, Open, Close, Agree, FinalizeUnder
  <2>4. /\ script' \in Seq(ScriptCalls) /\ Len(script') = Len(script) + 1
        /\ \A k \in 1 .. Len(script) : script'[k] = script[k]
        /\ script'[Len(script) + 1] = call
    BY <1>1, <2>1
  <2>5. \A k \in 1 .. Len(script') : Callable(script'[k])
    BY <1>1, <2>3, <2>4
  <2> QED  BY <1>1, <1>2, <2>1, <2>2, <2>4, <2>5 DEF ScriptKept
 <1> QED  BY <1>3, <1>4

-----------------------------------------------------------------------------
(* A rank steps beside the others: it writes what is its own, and leaves   *)
(* a call for the next one or goes on in it.                               *)
OthersKeep(r) ==
    \A s \in Job \ {r} :
        /\ at'[s] = at[s] /\ spot'[s] = spot[s] /\ mpi'[s] = mpi[s]
        /\ handler'[s] = handler[s] /\ openmp'[s] = openmp[s]
        /\ lease'[s] = lease[s] /\ contexts'[s] = contexts[s]
        /\ outcome'[s] = outcome[s]

ToldIsOwn(r) ==
    /\ told' \in [1 .. host.calls -> [Job -> Passed]]
    /\ \A k \in 1 .. host.calls, s \in Job :
         (k # at[r] \/ s # r) => told'[k][s] = told[k][s]

Beside(r) ==
    /\ host' = host /\ ScriptKept /\ at[r] \in 1 .. Len(script')
    /\ at' \in [Job -> Nat] /\ spot' \in [Job -> Spots]
    /\ mpi' \in [Job -> {"fresh", "live", "finalizing", "finalized"}]
    /\ handler' \in [Job -> {"host", "return"}]
    /\ openmp' \in [Job -> Teams]
    /\ lease' \in [Job -> Leases \union {NoLease}]
    /\ contexts' \in [Job -> SUBSET Slots]
    /\ outcome' \in [Job -> {"none", "ok", "threw"}]
    /\ at'[r] = IF spot'[r] = "call" THEN at[r] + 1 ELSE at[r]
    /\ OthersKeep(r)
    /\ ToldIsOwn(r)

LEMMA LeaseIsSome == ASSUME NEW l \in Leases  PROVE l # NoLease
 <1>1. DOMAIN l = {"setting", "owns", "handler", "slot", "ceiling", "started",
                   "before"}
   BY DEF Leases
 <1>2. DOMAIN NoLease = {"setting"}
   BY DEF NoLease
 <1> QED  BY <1>1, <1>2

LEMMA BesideKeepsTypes ==
    ASSUME HostsAssumption, LeaseTypeOK, NEW r \in Job, Beside(r)
    PROVE  LeaseTypeOK'
 <1> USE DEF LeaseTypeOK, Beside
 <1>1. /\ host' = host /\ Job' = Job /\ Passed' = Passed /\ Leases' = Leases
       /\ Len(script) \in Nat /\ Len(script') \in Nat /\ host.calls \in Nat
   BY JobIsFinite DEF Job, Passed, Identities, Leases, ScriptKept
 <1>2. \A call : Callable(call)' <=> Callable(call)
   BY <1>1 DEF Callable
 <1>3. \A k \in 1 .. Len(script') : Callable(script[k])'
   BY <1>1 DEF ScriptKept, Callable
 <1>4. /\ script' \in Seq(ScriptCalls) /\ Len(script') <= host.calls
       /\ Len(script) <= Len(script')
   BY DEF ScriptKept
 <1>5. ASSUME NEW s \in Job
       PROVE  /\ at'[s] \in 1 .. Len(script') + 1
              /\ spot'[s] # "call" => at'[s] <= Len(script')
  <2>1. CASE s = r
    BY <1>1, <2>1
  <2>2. CASE s # r
   <3>1. at'[s] = at[s] /\ spot'[s] = spot[s]
     BY <2>2 DEF OthersKeep
   <3> QED  BY <1>1, <1>4, <3>1
  <2> QED  BY <2>1, <2>2
 <1>6. /\ told' \in [1 .. host.calls -> [Job -> Passed]]
       /\ lease' \in [Job -> Leases \union {NoLease}]
   BY DEF ToldIsOwn
 <1> QED  BY <1>1, <1>3, <1>4, <1>5, <1>6

LEMMA BesideKeepsOthers ==
    ASSUME HostsAssumption, LeaseTypeOK, NEW r \in Job, Beside(r),
           NEW s \in Job, s # r, RankIsWhole(s), ToldInTime(s)
    PROVE  RankIsWhole(s)' /\ ToldInTime(s)'
 <1>1. /\ host' = host /\ Job' = Job /\ at'[s] = at[s] /\ spot'[s] = spot[s]
       /\ mpi'[s] = mpi[s] /\ handler'[s] = handler[s]
       /\ openmp'[s] = openmp[s] /\ lease'[s] = lease[s]
       /\ contexts'[s] = contexts[s]
   BY DEF Beside, OthersKeep, Job
 <1>2. /\ Len(script) \in Nat /\ host.calls \in Nat /\ at[s] \in Nat
       /\ Len(script) <= host.calls /\ 1 <= at[s]
       /\ spot[s] # "call" => at[s] <= Len(script)
   BY JobIsFinite DEF LeaseTypeOK
 <1>3. spot[s] # "call" => script'[at[s]] = script[at[s]]
   BY <1>2 DEF Beside, ScriptKept
 <1>4. \A k \in 1 .. host.calls : told'[k][s] = told[k][s]
   BY DEF Beside, ToldIsOwn
 <1>5. spot[s] # "call" => Told(s, s)' = Told(s, s)
   BY <1>1, <1>2, <1>4 DEF Told
 <1>6. TakesItsPart(s)' <=> TakesItsPart(s)
   BY <1>1 DEF TakesItsPart, Node, Job
 <1>7. HasTeam(s)' <=> HasTeam(s)
   BY <1>1 DEF HasTeam
 <1>8. WithoutLease(s)' <=> WithoutLease(s)
   BY <1>1 DEF WithoutLease
 <1>9. WithLease(s) => WithLease(s)'
   BY <1>1, <1>3, <1>6, <1>7 DEF WithLease, Starting
 <1>10. RankIsWhole(s)'
   BY <1>1, <1>8, <1>9 DEF RankIsWhole
 <1>11. ToldInTime(s)'
  <2>1. \A k \in 1 .. host'.calls :
          (k > at'[s] \/ (k = at'[s] /\ spot'[s] = "call"))
            => told'[k][s] = Silent
    BY <1>1, <1>4 DEF ToldInTime
  <2>2. spot'[s] \in {"available", "gather"} => Told(s, s)'.started = "absent"
    BY <1>1, <1>5 DEF ToldInTime
  <2>3. spot'[s] = "started" =>
          Told(s, s)'.started = IF lease'[s].started THEN "ok" ELSE "failed"
    BY <1>1, <1>5 DEF ToldInTime
  <2>4. spot'[s] = "agree" => script'[at'[s]] = Agree
    BY <1>1, <1>3 DEF ToldInTime
  <2> QED  BY <2>1, <2>2, <2>3, <2>4 DEF ToldInTime
 <1> QED  BY <1>10, <1>11

-----------------------------------------------------------------------------
(* What every action of a rank does, one action at a time.                 *)
Standing ==
    /\ HostsAssumption /\ SettingsAssumption /\ LeaseTypeOK
    /\ \A r \in Job : RankIsWhole(r) /\ ToldInTime(r)

StepsWell(r) == Beside(r) /\ RankIsWhole(r)' /\ ToldInTime(r)'

LEMMA EndingIs ==
    ASSUME LeaseTypeOK, NEW r \in Job, NEW how \in {"none", "ok", "threw"},
           Ends(r, how)
    PROVE  /\ at' \in [Job -> Nat] /\ spot' \in [Job -> Spots]
           /\ outcome' \in [Job -> {"none", "ok", "threw"}]
           /\ spot'[r] = "call" /\ at'[r] = at[r] + 1 /\ outcome'[r] = how
           /\ \A s \in Job \ {r} : /\ at'[s] = at[s] /\ spot'[s] = spot[s]
                                   /\ outcome'[s] = outcome[s]
  BY DEF LeaseTypeOK, Ends, Spots

LEMMA GoingIs ==
    ASSUME LeaseTypeOK, NEW r \in Job, NEW where \in Spots, Goes(r, where)
    PROVE  /\ at' = at /\ outcome' = outcome /\ spot' \in [Job -> Spots]
           /\ spot'[r] = where
           /\ \A s \in Job \ {r} : spot'[s] = spot[s]
  BY DEF LeaseTypeOK, Goes

LEMMA TellingIs ==
    ASSUME HostsAssumption, LeaseTypeOK, NEW r \in Job, at[r] \in 1 .. host.calls,
           NEW what \in Passed, Tells(r, what)
    PROVE  ToldIsOwn(r) /\ told'[at[r]][r] = what
  BY DEF LeaseTypeOK, Tells, ToldIsOwn

LEMMA PassedParts ==
    ASSUME HostsAssumption, LeaseTypeOK, NEW r \in Job,
           at[r] \in 1 .. host.calls
    PROVE  /\ Told(r, r) \in Passed
           /\ \A x \in {"absent", "yes", "no"} :
                /\ [Told(r, r) EXCEPT !.available = x] \in Passed
                /\ [Told(r, r) EXCEPT !.available = x].started
                     = Told(r, r).started
           /\ [Told(r, r) EXCEPT !.gathered = TRUE] \in Passed
           /\ [Told(r, r) EXCEPT !.gathered = TRUE].started = Told(r, r).started
           /\ \A x \in {"absent", "ok", "failed"} :
                /\ [Told(r, r) EXCEPT !.started = x] \in Passed
                /\ [Told(r, r) EXCEPT !.started = x].started = x
           /\ \A x \in Identities :
                /\ [Told(r, r) EXCEPT !.identity = x] \in Passed
                /\ [Told(r, r) EXCEPT !.identity = x].identity = x
 <1>1. Told(r, r) \in Passed
   BY DEF LeaseTypeOK, Told
 <1> QED  BY <1>1 DEF Passed

LEMMA NothingTold ==
    ASSUME HostsAssumption, LeaseTypeOK, NEW r \in Job, told' = told
    PROVE  ToldIsOwn(r)
  BY DEF LeaseTypeOK, ToldIsOwn

(* A call that is over, or is about to be, has nothing more to say.        *)
LEMMA SilentAfterwards ==
    ASSUME HostsAssumption, LeaseTypeOK, NEW r \in Job, ToldInTime(r),
           Beside(r), told' = told, spot'[r] \in {"call", "finalize"}
    PROVE  ToldInTime(r)'
 <1>1. /\ host' = host /\ at[r] \in Nat
       /\ at'[r] = IF spot'[r] = "call" THEN at[r] + 1 ELSE at[r]
   BY DEF LeaseTypeOK, Beside
 <1>2. ASSUME NEW k \in 1 .. host.calls,
              k > at'[r] \/ (k = at'[r] /\ spot'[r] = "call")
       PROVE  told'[k][r] = Silent
   BY <1>1, <1>2, JobIsFinite DEF LeaseTypeOK, ToldInTime
 <1> QED  BY <1>1, <1>2 DEF ToldInTime

(* And one that goes on says it in its own call.                           *)
LEMMA SilentAhead ==
    ASSUME HostsAssumption, LeaseTypeOK, NEW r \in Job, ToldInTime(r),
           Beside(r), spot'[r] # "call"
    PROVE  \A k \in 1 .. host'.calls :
             (k > at'[r] \/ (k = at'[r] /\ spot'[r] = "call"))
               => told'[k][r] = Silent
 <1>1. /\ host' = host /\ at'[r] = at[r] /\ at[r] \in Nat /\ host.calls \in Nat
   BY JobIsFinite DEF LeaseTypeOK, Beside
 <1>2. \A k \in 1 .. host.calls : k # at[r] => told'[k][r] = told[k][r]
   BY DEF Beside, ToldIsOwn
 <1> QED  BY <1>1, <1>2 DEF ToldInTime

LEMMA ShareSteps ==
    ASSUME Standing, NEW r \in Job, NEW slot \in Slots, NEW setting \in Settings,
           Share(r, slot, setting)
    PROVE  StepsWell(r)
 <1> USE DEF Standing
 <1>1. Open(slot, setting) \in ScriptCalls /\ Makes(r, Open(slot, setting))
   BY DEF ScriptCalls, Share
 <1>2. /\ host' = host /\ spot[r] = "call" /\ ScriptKept
       /\ at[r] \in 1 .. Len(script')
   BY <1>1, CallMade
 <1>3. /\ mpi' = mpi /\ handler' = handler /\ openmp' = openmp
       /\ lease' = lease /\ told' = told /\ lease[r] # NoLease
   BY DEF Share, process
 <1>4. PICK how \in {"ok", "threw"} : Ends(r, how)
   BY DEF Share
 <1>5. /\ contexts' \in [Job -> SUBSET Slots]
       /\ \A s \in Job \ {r} : contexts'[s] = contexts[s]
       /\ contexts'[r] \in {contexts[r], contexts[r] \union {slot}}
   BY DEF Share, LeaseTypeOK
 <1>6. /\ at' \in [Job -> Nat] /\ spot' \in [Job -> Spots]
       /\ outcome' \in [Job -> {"none", "ok", "threw"}]
       /\ spot'[r] = "call" /\ at'[r] = at[r] + 1
       /\ \A s \in Job \ {r} : /\ at'[s] = at[s] /\ spot'[s] = spot[s]
                               /\ outcome'[s] = outcome[s]
   BY <1>4, EndingIs
 <1>7. Beside(r)
  <2>1. OthersKeep(r)
    BY <1>3, <1>5, <1>6 DEF OthersKeep
  <2>2. ToldIsOwn(r)
    BY <1>3, NothingTold
  <2> QED  BY <1>2, <1>3, <1>5, <1>6, <2>1, <2>2 DEF Beside, LeaseTypeOK
 <1>8. RankIsWhole(r)'
  <2>1. WithLease(r) /\ mpi[r] # "finalizing"
    BY <1>2, <1>3 DEF RankIsWhole
  <2>2. HasTeam(r)' <=> HasTeam(r)
    BY <1>2, <1>3 DEF HasTeam
  <2>3. TakesItsPart(r)' <=> TakesItsPart(r)
    BY <1>2, <1>3 DEF TakesItsPart, Node, Job
  <2>4. contexts[r] # {} /\ lease[r].started
    BY <1>2, <2>1 DEF WithLease, Starting
  <2>5. WithLease(r)'
    BY <1>2, <1>3, <1>5, <1>6, <2>1, <2>2, <2>3, <2>4
    DEF WithLease, Starting, Job
  <2> QED  BY <1>2, <1>3, <1>6, <2>1, <2>5 DEF RankIsWhole
 <1>9. ToldInTime(r)'
   BY <1>3, <1>6, <1>7, SilentAfterwards
 <1> QED  BY <1>7, <1>8, <1>9 DEF StepsWell

(* The threads are formed, or fail to be; either way the rank says so.     *)
LEMMA FormTeamSteps ==
    ASSUME Standing, NEW r \in Job, spot[r] \in {"available", "gather"},
           NEW ceiling \in Nat, NEW forms \in BOOLEAN,
           ceiling > 0 =>
             /\ \A s \in Node(r) : host.mask[s] = host.mask[r]
             /\ ceiling = Max({1, Cardinality(host.mask[r])
                                    \div Cardinality(Node(r))}),
           FormTeam(r, ceiling, forms), UNCHANGED <<host, script, contexts>>
    PROVE  StepsWell(r)
 <1> USE DEF Standing
 <1> DEFINE ok == Admitted(r, lease[r].setting) /\ forms
 <1>1. /\ lease[r] # NoLease /\ WithLease(r)
       /\ mpi[r] # "finalizing" /\ mpi[r] # "fresh"
   BY DEF RankIsWhole, WithoutLease, WithLease, Starting
 <1>2. /\ lease[r] \in Leases /\ lease[r].setting \in Settings
       /\ lease[r].started = FALSE /\ lease[r].ceiling = 0
   BY <1>1 DEF LeaseTypeOK, WithLease, Leases
 <1>3. /\ host' = host /\ script' = script /\ contexts' = contexts
       /\ mpi' = mpi /\ handler' = handler
       /\ at[r] \in 1 .. Len(script) /\ at[r] \in 1 .. host.calls
       /\ ScriptKept
   BY JobIsFinite DEF FormTeam, LeaseTypeOK, ScriptKept
 <1>4. /\ lease' = [lease EXCEPT ![r].started = ok, ![r].ceiling = ceiling]
       /\ openmp' = [openmp EXCEPT ![r] =
                       IF ok THEN TeamOf(Team(r, lease[r].setting, ceiling))
                             ELSE @]
       /\ Tells(r, [Told(r, r) EXCEPT !.started = IF ok THEN "ok" ELSE "failed"])
       /\ Goes(r, "started")
   BY DEF FormTeam
 <1>5. ok \in BOOLEAN
   OBVIOUS
 <1>6. ok => /\ Team(r, lease[r].setting, ceiling) \in 1 .. host.limit[r]
             /\ lease[r].setting.threads # 0 =>
                  Team(r, lease[r].setting, ceiling) = lease[r].setting.threads
             /\ lease[r].setting.threads = 0 /\ ceiling > 0 =>
                  Team(r, lease[r].setting, ceiling) <= ceiling
   BY <1>2, TeamIsAsked DEF LeaseTypeOK
 <1>7. host.limit[r] \in Nat
   BY JobIsFinite DEF LeaseTypeOK
 <1> HIDE DEF ok
 <1>8. /\ at' = at /\ outcome' = outcome /\ spot' \in [Job -> Spots]
       /\ spot'[r] = "started"
       /\ \A s \in Job \ {r} : spot'[s] = spot[s]
   BY <1>4, GoingIs DEF Spots, Starting
 <1>9. ToldIsOwn(r) /\ told'[at[r]][r].started = IF ok THEN "ok" ELSE "failed"
  <2> DEFINE what == [Told(r, r) EXCEPT !.started = IF ok THEN "ok"
                                                          ELSE "failed"]
  <2>1. what \in Passed /\ what.started = IF ok THEN "ok" ELSE "failed"
    BY <1>3, PassedParts
  <2>2. Tells(r, what)
    BY <1>4
  <2> HIDE DEF what
  <2> QED  BY <1>3, <2>1, <2>2, TellingIs
 <1>10. /\ lease'[r] \in Leases
        /\ lease'[r].started = ok /\ lease'[r].ceiling = ceiling
        /\ lease'[r].setting = lease[r].setting
        /\ lease'[r].owns = lease[r].owns
        /\ lease'[r].handler = lease[r].handler
        /\ lease'[r].slot = lease[r].slot
        /\ \A s \in Job \ {r} : lease'[s] = lease[s]
        /\ lease' \in [Job -> Leases \union {NoLease}]
  <2>1. lease \in [Job -> Leases \union {NoLease}]
    BY DEF LeaseTypeOK
  <2>2. lease'[r] = [lease[r] EXCEPT !.started = ok, !.ceiling = ceiling]
    BY <1>4, <2>1
  <2>3. \A s \in Job \ {r} : lease'[s] = lease[s]
    BY <1>4, <2>1
  <2>4. lease' = [s \in Job |-> lease'[s]]
    BY <1>4, <2>1
  <2>5. /\ lease'[r] \in Leases
        /\ lease'[r].started = ok /\ lease'[r].ceiling = ceiling
        /\ lease'[r].setting = lease[r].setting
        /\ lease'[r].owns = lease[r].owns
        /\ lease'[r].handler = lease[r].handler
        /\ lease'[r].slot = lease[r].slot
    BY <1>2, <1>5, <2>2 DEF Leases
  <2> QED  BY <2>1, <2>3, <2>4, <2>5
 <1>11. /\ openmp' \in [Job -> Teams]
        /\ \A s \in Job \ {r} : openmp'[s] = openmp[s]
        /\ openmp'[r] = IF ok THEN TeamOf(Team(r, lease[r].setting, ceiling))
                              ELSE openmp[r]
  <2>1. ok => TeamOf(Team(r, lease[r].setting, ceiling)) \in Teams
    BY <1>6, <1>7 DEF TeamOf, Teams
  <2> QED  BY <1>4, <2>1 DEF LeaseTypeOK
 <1>12. Beside(r)
  <2>1. OthersKeep(r)
    BY <1>3, <1>8, <1>10, <1>11 DEF OthersKeep
  <2> QED  BY <1>3, <1>8, <1>9, <1>10, <1>11, <2>1 DEF Beside, LeaseTypeOK
 <1>13. RankIsWhole(r)'
  <2>1. lease'[r] # NoLease
    BY <1>10, LeaseIsSome
  <2>2. ok => HasTeam(r)'
    BY <1>3, <1>6, <1>10, <1>11 DEF HasTeam
  <2>3. ~ ok => openmp'[r] = host.openmp
    BY <1>1, <1>2, <1>11 DEF WithLease
  <2>4. TakesItsPart(r)'
    BY <1>3, <1>10 DEF TakesItsPart, Node, Job
  <2>5. script'[at'[r]] = Open(lease'[r].slot, lease'[r].setting)
    BY <1>1, <1>3, <1>8, <1>10 DEF WithLease, Starting
  <2>6. WithLease(r)'
    BY <1>1, <1>3, <1>8, <1>10, <2>2, <2>3, <2>4, <2>5
    DEF WithLease, Starting, Job
  <2> QED  BY <1>1, <1>3, <1>8, <2>1, <2>6 DEF RankIsWhole
 <1>14. ToldInTime(r)'
  <2>1. Told(r, r)'.started = IF lease'[r].started THEN "ok" ELSE "failed"
    BY <1>8, <1>9, <1>10 DEF Told
  <2> QED  BY <1>8, <1>12, <2>1, SilentAhead DEF ToldInTime
 <1> QED  BY <1>12, <1>13, <1>14 DEF StepsWell

(* The lease is given up, and with it everything it had changed.           *)
LEMMA ReleaseSteps ==
    ASSUME Standing, NEW r \in Job, NEW how \in {"ok", "threw"},
           lease[r] # NoLease, spot[r] \in {"call", "started"},
           Release(r, how), host' = host, told' = told, ScriptKept,
           at[r] \in 1 .. Len(script'),
           contexts' \in [Job -> SUBSET Slots], contexts'[r] = {},
           \A s \in Job \ {r} : contexts'[s] = contexts[s]
    PROVE  StepsWell(r)
 <1> USE DEF Standing
 <1>1. /\ WithLease(r) /\ mpi[r] # "finalizing" /\ lease[r] \in Leases
       /\ mpi[r] = "fresh" => ~ host.initialized /\ handler[r] = "host"
   BY DEF RankIsWhole, LeaseTypeOK
 <1>2. lease[r].handler = "host" /\ lease[r].before = host.openmp
   BY <1>1 DEF WithLease, Leases
 <1>3. /\ openmp' \in [Job -> Teams] /\ openmp'[r] = host.openmp
       /\ \A s \in Job \ {r} : openmp'[s] = openmp[s]
  <2>1. host.openmp \in Teams
    BY JobIsFinite DEF LeaseTypeOK
  <2>2. ~ lease[r].started => openmp[r] = host.openmp
    BY <1>1 DEF WithLease
  <2> QED  BY <1>2, <2>1, <2>2 DEF Release, LeaseTypeOK
 <1>4. /\ handler' \in [Job -> {"host", "return"}]
       /\ handler'[r] = IF lease[r].setting.mpi /\ mpi[r] = "live"
                          THEN "host" ELSE handler[r]
       /\ \A s \in Job \ {r} : handler'[s] = handler[s]
   BY <1>2 DEF Release, LeaseTypeOK
 <1>5. /\ lease' \in [Job -> Leases \union {NoLease}] /\ lease'[r] = NoLease
       /\ \A s \in Job \ {r} : lease'[s] = lease[s]
   BY DEF Release, LeaseTypeOK
 <1>6. CASE lease[r].owns /\ mpi[r] = "live"
  <2>1. /\ mpi' = [mpi EXCEPT ![r] = "finalizing"]
        /\ spot' = [spot EXCEPT ![r] = "finalize"]
        /\ outcome' = [outcome EXCEPT ![r] = how] /\ at' = at
    BY <1>6 DEF Release
  <2>2. /\ mpi' \in [Job -> {"fresh", "live", "finalizing", "finalized"}]
        /\ spot' \in [Job -> Spots]
        /\ outcome' \in [Job -> {"none", "ok", "threw"}]
        /\ spot'[r] = "finalize" /\ mpi'[r] = "finalizing" /\ at'[r] = at[r]
        /\ \A s \in Job \ {r} :
             /\ at'[s] = at[s] /\ spot'[s] = spot[s] /\ mpi'[s] = mpi[s]
             /\ outcome'[s] = outcome[s]
    BY <2>1 DEF LeaseTypeOK, Spots
  <2>3. Beside(r)
   <3>1. OthersKeep(r)
     BY <1>3, <1>4, <1>5, <2>2 DEF OthersKeep
   <3> QED  BY <1>3, <1>4, <1>5, <2>1, <2>2, <3>1, NothingTold
            DEF Beside, LeaseTypeOK
  <2>4. RankIsWhole(r)'
    BY <1>3, <1>5, <2>2 DEF RankIsWhole, WithoutLease, Starting
  <2> QED  BY <2>2, <2>3, <2>4, SilentAfterwards DEF StepsWell
 <1>7. CASE ~ (lease[r].owns /\ mpi[r] = "live")
  <2>1. Ends(r, how) /\ mpi' = mpi
    BY <1>7 DEF Release
  <2>2. /\ at' \in [Job -> Nat] /\ spot' \in [Job -> Spots]
        /\ outcome' \in [Job -> {"none", "ok", "threw"}]
        /\ spot'[r] = "call" /\ at'[r] = at[r] + 1
        /\ \A s \in Job \ {r} : /\ at'[s] = at[s] /\ spot'[s] = spot[s]
                                /\ outcome'[s] = outcome[s]
    BY <2>1, EndingIs
  <2>3. Beside(r)
   <3>1. OthersKeep(r)
     BY <1>3, <1>4, <1>5, <2>1, <2>2 DEF OthersKeep
   <3> QED  BY <1>3, <1>4, <1>5, <2>1, <2>2, <3>1, NothingTold
            DEF Beside, LeaseTypeOK
  <2>4. RankIsWhole(r)'
   <3>1. mpi[r] = "live" => host.initialized /\ handler'[r] = "host"
     BY <1>1, <1>4, <1>7 DEF WithLease
   <3>2. WithoutLease(r)'
     BY <1>3, <2>1, <2>2, <3>1 DEF WithoutLease, Starting
   <3> QED  BY <1>1, <1>4, <1>5, <2>1, <2>2, <3>2 DEF RankIsWhole
  <2> QED  BY <2>2, <2>3, <2>4, SilentAfterwards DEF StepsWell
 <1> QED  BY <1>6, <1>7

LEMMA StartThreadsSteps ==
    ASSUME Standing, NEW r \in Job, NEW slot \in Slots, NEW setting \in Settings,
           NEW forms \in BOOLEAN, StartThreads(r, slot, setting, forms)
    PROVE  StepsWell(r)
 <1> USE DEF Standing
 <1> DEFINE ok == Admitted(r, setting) /\ forms
            given == [setting |-> setting, owns |-> FALSE, handler |-> "host",
                      slot |-> slot, ceiling |-> 0, started |-> TRUE,
                      before |-> openmp[r]]
            team == Team(r, setting, 0)
 <1>1. Open(slot, setting) \in ScriptCalls /\ Makes(r, Open(slot, setting))
   BY DEF ScriptCalls, StartThreads
 <1>2. /\ host' = host /\ spot[r] = "call" /\ ScriptKept
       /\ at[r] \in 1 .. Len(script')
       /\ Callable(Open(slot, setting))
   BY <1>1, CallMade DEF ScriptKept
 <1>3. /\ mpi' = mpi /\ handler' = handler /\ told' = told
       /\ lease[r] = NoLease /\ ~ setting.mpi
   BY DEF StartThreads
 <1>4. Cardinality(Job) = 1
   BY <1>2, <1>3 DEF Callable, Open
 <1>5. /\ WithoutLease(r) /\ mpi[r] # "finalizing"
       /\ mpi[r] = "fresh" => ~ host.initialized /\ handler[r] = "host"
   BY <1>2, <1>3 DEF RankIsWhole
 <1>6. openmp[r] = host.openmp /\ contexts[r] = {}
   BY <1>5 DEF WithoutLease
 <1>7. given \in Leases
   BY <1>6 DEF Leases
 <1>8. ok => /\ team \in 1 .. host.limit[r]
             /\ setting.threads # 0 => team = setting.threads
   BY TeamIsAsked DEF LeaseTypeOK
 <1>9. host.limit[r] \in Nat
   BY JobIsFinite DEF LeaseTypeOK
 <1>10. PICK how \in {"ok", "threw"} : Ends(r, how)
   BY DEF StartThreads
 <1>11. /\ at' \in [Job -> Nat] /\ spot' \in [Job -> Spots]
        /\ outcome' \in [Job -> {"none", "ok", "threw"}]
        /\ spot'[r] = "call" /\ at'[r] = at[r] + 1
        /\ \A s \in Job \ {r} : /\ at'[s] = at[s] /\ spot'[s] = spot[s]
                                /\ outcome'[s] = outcome[s]
   BY <1>10, EndingIs
 <1>12. CASE ok
  <2>1. /\ lease' = [lease EXCEPT ![r] = given]
        /\ openmp' = [openmp EXCEPT ![r] = TeamOf(team)]
        /\ contexts' = [contexts EXCEPT ![r] = {slot}]
    BY <1>12 DEF StartThreads
  <2>2. TeamOf(team) \in Teams
    BY <1>8, <1>9, <1>12 DEF TeamOf, Teams
  <2> HIDE DEF ok, team
  <2>3. /\ lease' \in [Job -> Leases \union {NoLease}] /\ lease'[r] = given
        /\ openmp' \in [Job -> Teams] /\ openmp'[r] = TeamOf(team)
        /\ contexts' \in [Job -> SUBSET Slots] /\ contexts'[r] = {slot}
        /\ \A s \in Job \ {r} :
             /\ lease'[s] = lease[s] /\ openmp'[s] = openmp[s]
             /\ contexts'[s] = contexts[s]
   <3> HIDE DEF given
   <3> QED  BY <1>7, <2>1, <2>2 DEF LeaseTypeOK
  <2>4. Beside(r)
   <3> HIDE DEF given
   <3>1. OthersKeep(r)
     BY <1>3, <1>11, <2>3 DEF OthersKeep
   <3> QED  BY <1>2, <1>3, <1>11, <2>3, <3>1, NothingTold
            DEF Beside, LeaseTypeOK
  <2>5. RankIsWhole(r)'
   <3>1. lease'[r] # NoLease
     BY <1>7, <2>3, LeaseIsSome
   <3>2. HasTeam(r)'
     BY <1>2, <1>8, <1>12, <2>3 DEF HasTeam
   <3>3. TakesItsPart(r)'
     BY <2>3 DEF TakesItsPart
   <3>4. mpi[r] = "live" => host.initialized /\ handler[r] = "host"
     BY <1>5 DEF WithoutLease
   <3>5. Cardinality(Job') = 1
     BY <1>2, <1>4 DEF Job
   <3>6. WithLease(r)'
     BY <1>2, <1>3, <1>11, <2>3, <3>2, <3>3, <3>4, <3>5
     DEF WithLease, Starting
   <3> QED  BY <1>2, <1>3, <1>5, <1>11, <3>1, <3>6 DEF RankIsWhole
  <2> QED  BY <1>3, <1>11, <2>4, <2>5, SilentAfterwards DEF StepsWell
 <1>13. CASE ~ ok
  <2>1. lease' = lease /\ openmp' = openmp /\ contexts' = contexts
    BY <1>13 DEF StartThreads
  <2>2. OthersKeep(r)
    BY <1>3, <1>11, <2>1 DEF OthersKeep
  <2>3. Beside(r)
    BY <1>2, <1>3, <1>11, <2>1, <2>2, NothingTold DEF Beside, LeaseTypeOK
  <2>4. WithoutLease(r)'
    BY <1>2, <1>3, <1>5, <1>11, <2>1 DEF WithoutLease, Starting
  <2>5. RankIsWhole(r)'
    BY <1>2, <1>3, <1>5, <1>11, <2>1, <2>4 DEF RankIsWhole
  <2> QED  BY <1>3, <1>11, <2>3, <2>5, SilentAfterwards DEF StepsWell
 <1> QED  BY <1>12, <1>13

LEMMA AttachSteps ==
    ASSUME Standing, NEW r \in Job, NEW slot \in Slots, NEW setting \in Settings,
           NEW available \in {"yes", "no"}, Attach(r, slot, setting, available)
    PROVE  StepsWell(r)
 <1> USE DEF Standing
 <1> DEFINE given == [setting |-> setting, owns |-> mpi[r] = "fresh",
                      handler |-> handler[r], slot |-> slot, ceiling |-> 0,
                      started |-> FALSE, before |-> openmp[r]]
            what == [Told(r, r) EXCEPT !.available = available]
 <1>1. Open(slot, setting) \in ScriptCalls /\ Makes(r, Open(slot, setting))
   BY DEF ScriptCalls, Attach
 <1>2. /\ host' = host /\ spot[r] = "call" /\ ScriptKept
       /\ at[r] \in 1 .. Len(script') /\ at[r] \in 1 .. host.calls
       /\ script'[at[r]] = Open(slot, setting)
   BY <1>1, CallMade
 <1>3. /\ openmp' = openmp /\ contexts' = contexts
       /\ lease[r] = NoLease /\ setting.mpi
   BY DEF Attach
 <1>4. /\ WithoutLease(r) /\ mpi[r] # "finalizing"
       /\ mpi[r] = "fresh" => ~ host.initialized /\ handler[r] = "host"
   BY <1>2, <1>3 DEF RankIsWhole
 <1>5. /\ openmp[r] = host.openmp /\ contexts[r] = {}
       /\ mpi[r] = "live" => host.initialized /\ handler[r] = "host"
   BY <1>4 DEF WithoutLease
 <1>6. CASE mpi[r] \in {"live", "fresh"} /\ host.funneled
  <2>1. /\ lease' = [lease EXCEPT ![r] = given]
        /\ mpi' = [mpi EXCEPT ![r] = "live"]
        /\ handler' = [handler EXCEPT ![r] = "return"]
        /\ Tells(r, what) /\ Goes(r, "available")
    BY <1>6 DEF Attach
  <2>2. given \in Leases
    BY <1>4, <1>5, <1>6 DEF Leases
  <2>3. what \in Passed /\ what.started = "absent"
   <3>1. Told(r, r) = Silent
     BY <1>2 DEF ToldInTime, Told, LeaseTypeOK
   <3>2. what \in Passed /\ what.started = Told(r, r).started
     BY <1>2, PassedParts
   <3>3. Silent.started = "absent"
     BY DEF Silent
   <3> HIDE DEF what
   <3> QED  BY <3>1, <3>2, <3>3
  <2> HIDE DEF what
  <2>4. ToldIsOwn(r) /\ told'[at[r]][r] = what
    BY <1>2, <2>1, <2>3, TellingIs
  <2>5. /\ at' = at /\ outcome' = outcome /\ spot' \in [Job -> Spots]
        /\ spot'[r] = "available"
        /\ \A s \in Job \ {r} : spot'[s] = spot[s]
    BY <2>1, GoingIs DEF Spots, Starting
  <2>6. /\ lease' \in [Job -> Leases \union {NoLease}] /\ lease'[r] = given
        /\ mpi' \in [Job -> {"fresh", "live", "finalizing", "finalized"}]
        /\ mpi'[r] = "live"
        /\ handler' \in [Job -> {"host", "return"}] /\ handler'[r] = "return"
        /\ \A s \in Job \ {r} : /\ lease'[s] = lease[s] /\ mpi'[s] = mpi[s]
                                /\ handler'[s] = handler[s]
   <3> HIDE DEF given
   <3> QED  BY <2>1, <2>2 DEF LeaseTypeOK
  <2>7. Beside(r)
   <3> HIDE DEF given
   <3>1. OthersKeep(r)
     BY <1>3, <2>5, <2>6 DEF OthersKeep
   <3> QED  BY <1>2, <1>3, <2>4, <2>5, <2>6, <3>1 DEF Beside, LeaseTypeOK
  <2>8. RankIsWhole(r)'
   <3>1. lease'[r] # NoLease
     BY <2>2, <2>6, LeaseIsSome
   <3>2. TakesItsPart(r)'
     BY <2>6 DEF TakesItsPart
   <3>3. given.handler = "host" /\ (given.owns <=> ~ host.initialized)
     BY <1>4, <1>5, <1>6
   <3>4. script'[at'[r]] = Open(lease'[r].slot, lease'[r].setting)
     BY <1>2, <2>5, <2>6
   <3>5. WithLease(r)'
     BY <1>2, <1>3, <1>5, <1>6, <2>5, <2>6, <3>2, <3>3, <3>4
     DEF WithLease, Starting
   <3> QED  BY <2>5, <2>6, <3>1, <3>5 DEF RankIsWhole
  <2>9. ToldInTime(r)'
   <3>1. Told(r, r)'.started = "absent"
     BY <2>3, <2>4, <2>5 DEF Told
   <3> QED  BY <2>5, <2>7, <3>1, SilentAhead DEF ToldInTime
  <2> QED  BY <2>7, <2>8, <2>9 DEF StepsWell
 <1>7. CASE ~ (mpi[r] \in {"live", "fresh"} /\ host.funneled)
  <2>1. lease' = lease /\ handler' = handler /\ told' = told
    BY <1>7 DEF Attach
  <2>2. CASE mpi[r] = "fresh"
   <3>1. /\ mpi' = [mpi EXCEPT ![r] = "finalizing"]
         /\ spot' = [spot EXCEPT ![r] = "finalize"]
         /\ outcome' = [outcome EXCEPT ![r] = "threw"] /\ at' = at
     BY <1>7, <2>2 DEF Attach
   <3>2. /\ mpi' \in [Job -> {"fresh", "live", "finalizing", "finalized"}]
         /\ spot' \in [Job -> Spots]
         /\ outcome' \in [Job -> {"none", "ok", "threw"}]
         /\ spot'[r] = "finalize" /\ mpi'[r] = "finalizing" /\ at'[r] = at[r]
         /\ \A s \in Job \ {r} :
              /\ at'[s] = at[s] /\ spot'[s] = spot[s] /\ mpi'[s] = mpi[s]
              /\ outcome'[s] = outcome[s]
     BY <3>1 DEF LeaseTypeOK, Spots
   <3>3. OthersKeep(r)
     BY <1>3, <2>1, <3>2 DEF OthersKeep
   <3>4. Beside(r)
     BY <1>2, <1>3, <2>1, <3>1, <3>2, <3>3, NothingTold
     DEF Beside, LeaseTypeOK
   <3>5. RankIsWhole(r)'
     BY <1>2, <1>3, <1>5, <2>1, <3>2 DEF RankIsWhole, WithoutLease, Starting
   <3> QED  BY <2>1, <3>2, <3>4, <3>5, SilentAfterwards DEF StepsWell
  <2>3. CASE mpi[r] # "fresh"
   <3>1. Ends(r, "threw") /\ mpi' = mpi
     BY <1>7, <2>3 DEF Attach
   <3>2. /\ at' \in [Job -> Nat] /\ spot' \in [Job -> Spots]
         /\ outcome' \in [Job -> {"none", "ok", "threw"}]
         /\ spot'[r] = "call" /\ at'[r] = at[r] + 1
         /\ \A s \in Job \ {r} : /\ at'[s] = at[s] /\ spot'[s] = spot[s]
                                 /\ outcome'[s] = outcome[s]
     BY <3>1, EndingIs
   <3>3. OthersKeep(r)
     BY <1>3, <2>1, <3>1, <3>2 DEF OthersKeep
   <3>4. Beside(r)
     BY <1>2, <1>3, <2>1, <3>1, <3>2, <3>3, NothingTold
     DEF Beside, LeaseTypeOK
   <3>5. RankIsWhole(r)'
     BY <1>2, <1>3, <1>4, <1>5, <2>1, <3>1, <3>2
     DEF RankIsWhole, WithoutLease, Starting
   <3> QED  BY <2>1, <3>2, <3>4, <3>5, SilentAfterwards DEF StepsWell
  <2> QED  BY <2>2, <2>3
 <1> QED  BY <1>6, <1>7

(* A step that leaves everything a rank holds.                             *)
LEMMA StaysWhole ==
    ASSUME Standing, NEW r \in Job, Beside(r),
           mpi'[r] = mpi[r], handler'[r] = handler[r], openmp'[r] = openmp[r],
           lease'[r] = lease[r], contexts'[r] = contexts[r],
           \/ /\ spot[r] = "available" /\ spot'[r] = "gather"
              /\ script' = script
           \/ spot[r] \in {"call", "agree"} /\ spot'[r] \in {"call", "agree"}
    PROVE  RankIsWhole(r)'
 <1>1. /\ host' = host /\ Job' = Job /\ RankIsWhole(r)
       /\ at'[r] = IF spot'[r] = "call" THEN at[r] + 1 ELSE at[r]
   BY DEF Beside, Job, Standing
 <1>2. HasTeam(r)' <=> HasTeam(r)
   BY <1>1 DEF HasTeam
 <1>3. TakesItsPart(r)' <=> TakesItsPart(r)
   BY <1>1 DEF TakesItsPart, Node
 <1>4. CASE spot[r] = "available" /\ spot'[r] = "gather" /\ script' = script
  <2>1. lease[r] # NoLease /\ WithLease(r)
    BY <1>1, <1>4 DEF RankIsWhole, WithoutLease, Starting
  <2>2. WithLease(r)'
    BY <1>1, <1>2, <1>3, <1>4, <2>1 DEF WithLease, Starting
  <2> QED  BY <1>1, <1>4, <2>1, <2>2 DEF RankIsWhole
 <1>5. CASE spot[r] \in {"call", "agree"} /\ spot'[r] \in {"call", "agree"}
  <2>1. WithLease(r) => WithLease(r)'
    BY <1>1, <1>2, <1>3, <1>5 DEF WithLease, Starting
  <2>2. WithoutLease(r) => WithoutLease(r)'
    BY <1>1, <1>5 DEF WithoutLease, Starting
  <2> QED  BY <1>1, <1>5, <2>1, <2>2 DEF RankIsWhole
 <1> QED  BY <1>4, <1>5

LEMMA CompareSteps ==
    ASSUME Standing, NEW r \in Job, NEW forms \in BOOLEAN, Compare(r, forms)
    PROVE  StepsWell(r)
 <1>1. spot[r] = "available" /\ UNCHANGED <<host, script, contexts>>
   BY DEF Compare
 <1>2. CASE EveryMaskIsThere(r) /\ Cardinality(Node(r)) > 1
  <2> USE DEF Standing
  <2> DEFINE what == [Told(r, r) EXCEPT !.gathered = TRUE]
  <2>1. /\ Tells(r, what) /\ Goes(r, "gather")
        /\ mpi' = mpi /\ handler' = handler /\ openmp' = openmp
        /\ lease' = lease
    BY <1>2 DEF Compare, process
  <2>2. /\ at[r] \in 1 .. Len(script) /\ at[r] \in 1 .. host.calls /\ ScriptKept
    BY <1>1, JobIsFinite DEF LeaseTypeOK, ScriptKept
  <2>3. what \in Passed /\ what.started = Told(r, r).started
    BY <2>2, PassedParts
  <2>4. Told(r, r).started = "absent"
    BY <1>1 DEF ToldInTime
  <2> HIDE DEF what
  <2>5. ToldIsOwn(r) /\ told'[at[r]][r] = what
    BY <2>1, <2>2, <2>3, TellingIs
  <2>6. /\ at' = at /\ outcome' = outcome /\ spot' \in [Job -> Spots]
        /\ spot'[r] = "gather"
        /\ \A s \in Job \ {r} : spot'[s] = spot[s]
    BY <2>1, GoingIs DEF Spots, Starting
  <2>7. OthersKeep(r)
    BY <1>1, <2>1, <2>6 DEF OthersKeep
  <2>8. Beside(r)
    BY <1>1, <2>1, <2>2, <2>5, <2>6, <2>7 DEF Beside, LeaseTypeOK
  <2>9. RankIsWhole(r)'
    BY <1>1, <2>1, <2>6, <2>8, StaysWhole
  <2>10. Told(r, r)'.started = "absent"
    BY <2>3, <2>4, <2>5, <2>6 DEF Told
  <2>11. ToldInTime(r)'
    BY <2>6, <2>8, <2>10, SilentAhead DEF ToldInTime
  <2> QED  BY <2>8, <2>9, <2>11 DEF StepsWell
 <1>3. CASE ~ (EveryMaskIsThere(r) /\ Cardinality(Node(r)) > 1)
  <2>1. FormTeam(r, 0, forms)
    BY <1>3 DEF Compare
  <2>2. spot[r] \in {"available", "gather"} /\ 0 \in Nat /\ ~ (0 > 0)
    BY <1>1
  <2> QED  BY <1>1, <2>1, <2>2, FormTeamSteps
 <1> QED  BY <1>2, <1>3

LEMMA GatherSteps ==
    ASSUME Standing, NEW r \in Job, NEW forms \in BOOLEAN, Gather(r, forms)
    PROVE  StepsWell(r)
 <1>1. /\ spot[r] = "gather" /\ UNCHANGED <<host, script, contexts>>
       /\ FormTeam(r, CeilingOf(r), forms)
   BY DEF Gather
 <1>2. /\ CeilingOf(r) \in Nat
       /\ CeilingOf(r) > 0 =>
            /\ \A s \in Node(r) : host.mask[s] = host.mask[r]
            /\ CeilingOf(r) = Max({1, Cardinality(host.mask[r])
                                        \div Cardinality(Node(r))})
   BY CeilingIsPart DEF Standing, LeaseTypeOK
 <1> QED  BY <1>1, <1>2, FormTeamSteps

LEMMA StartedSteps ==
    ASSUME Standing, NEW r \in Job, Started(r)
    PROVE  StepsWell(r)
 <1> USE DEF Standing
 <1>1. /\ spot[r] = "started" /\ host' = host /\ script' = script /\ told' = told
   BY DEF Started
 <1>2. /\ lease[r] # NoLease /\ WithLease(r) /\ contexts[r] = {}
       /\ mpi[r] = "live" /\ lease[r] \in Leases
   BY <1>1 DEF RankIsWhole, WithoutLease, WithLease, Starting, LeaseTypeOK
 <1>3. at[r] \in 1 .. Len(script) /\ ScriptKept
   BY <1>1, JobIsFinite DEF LeaseTypeOK, ScriptKept
 <1>4. CASE SomeRankFailed(r)
  <2>1. Release(r, "threw") /\ contexts' = contexts
    BY <1>4 DEF Started
  <2> QED  BY <1>1, <1>2, <1>3, <2>1, ReleaseSteps DEF LeaseTypeOK
 <1>5. CASE ~ SomeRankFailed(r)
  <2>1. /\ contexts' = [contexts EXCEPT ![r] = {lease[r].slot}]
        /\ Ends(r, "ok")
        /\ mpi' = mpi /\ handler' = handler /\ openmp' = openmp
        /\ lease' = lease
    BY <1>5 DEF Started, process
  <2>2. /\ at' \in [Job -> Nat] /\ spot' \in [Job -> Spots]
        /\ outcome' \in [Job -> {"none", "ok", "threw"}]
        /\ spot'[r] = "call" /\ at'[r] = at[r] + 1
        /\ \A s \in Job \ {r} : /\ at'[s] = at[s] /\ spot'[s] = spot[s]
                                /\ outcome'[s] = outcome[s]
    BY <2>1, EndingIs
  <2>3. lease[r].slot \in Slots
    BY <1>2 DEF Leases
  <2>4. /\ contexts' \in [Job -> SUBSET Slots]
        /\ contexts'[r] = {lease[r].slot}
        /\ \A s \in Job \ {r} : contexts'[s] = contexts[s]
    BY <2>1, <2>3 DEF LeaseTypeOK
  <2>5. OthersKeep(r)
    BY <2>1, <2>2, <2>4 DEF OthersKeep
  <2>6. Beside(r)
    BY <1>1, <1>3, <2>1, <2>2, <2>4, <2>5, NothingTold DEF Beside, LeaseTypeOK
  <2>7. lease[r].started
   <3>1. Told(r, r).started = IF lease[r].started THEN "ok" ELSE "failed"
     BY <1>1 DEF ToldInTime
   <3>2. Told(r, r).started # "failed"
     BY <1>5 DEF SomeRankFailed
   <3>3. lease[r].started \in BOOLEAN
     BY <1>2 DEF Leases
   <3> QED  BY <3>1, <3>2, <3>3
  <2>8. RankIsWhole(r)'
   <3>1. HasTeam(r)'
     BY <1>1, <1>2, <2>1, <2>7 DEF WithLease, HasTeam
   <3>2. TakesItsPart(r)'
     BY <1>1, <1>2, <2>1 DEF WithLease, TakesItsPart, Node, Job
   <3>3. WithLease(r)'
     BY <1>1, <1>2, <2>1, <2>2, <2>4, <2>7, <3>1, <3>2
     DEF WithLease, Starting, Job
   <3> QED  BY <1>2, <2>1, <2>2, <3>3 DEF RankIsWhole
  <2> QED  BY <1>1, <2>2, <2>6, <2>8, SilentAfterwards DEF StepsWell
 <1> QED  BY <1>4, <1>5

LEMMA DestroySteps ==
    ASSUME Standing, NEW r \in Job, NEW slot \in Slots, Destroy(r, slot)
    PROVE  StepsWell(r)
 <1> USE DEF Standing
 <1>1. Close(slot) \in ScriptCalls /\ Makes(r, Close(slot))
   BY DEF ScriptCalls, Destroy
 <1>2. /\ host' = host /\ spot[r] = "call" /\ ScriptKept
       /\ at[r] \in 1 .. Len(script')
   BY <1>1, CallMade
 <1>3. /\ told' = told /\ contexts' \in [Job -> SUBSET Slots]
       /\ contexts'[r] = contexts[r] \ {slot}
       /\ \A s \in Job \ {r} : contexts'[s] = contexts[s]
   BY DEF Destroy, LeaseTypeOK
 <1>4. CASE contexts[r] = {slot}
  <2>1. Release(r, "ok") /\ lease[r] # NoLease /\ contexts'[r] = {}
    BY <1>3, <1>4 DEF Destroy, RankIsWhole, WithoutLease
  <2> QED  BY <1>2, <1>3, <2>1, ReleaseSteps
 <1>5. CASE contexts[r] # {slot}
  <2>1. /\ Ends(r, "ok") /\ lease' = lease
        /\ mpi' = mpi /\ handler' = handler /\ openmp' = openmp
    BY <1>5 DEF Destroy, process
  <2>2. /\ at' \in [Job -> Nat] /\ spot' \in [Job -> Spots]
        /\ outcome' \in [Job -> {"none", "ok", "threw"}]
        /\ spot'[r] = "call" /\ at'[r] = at[r] + 1
        /\ \A s \in Job \ {r} : /\ at'[s] = at[s] /\ spot'[s] = spot[s]
                                /\ outcome'[s] = outcome[s]
    BY <2>1, EndingIs
  <2>3. OthersKeep(r)
    BY <1>3, <2>1, <2>2 DEF OthersKeep
  <2>4. Beside(r)
    BY <1>2, <1>3, <2>1, <2>2, <2>3, NothingTold DEF Beside, LeaseTypeOK
  <2>5. (contexts[r] = {}) <=> (contexts'[r] = {})
    BY <1>3, <1>5
  <2>6. HasTeam(r)' <=> HasTeam(r)
    BY <1>2, <2>1 DEF HasTeam
  <2>7. TakesItsPart(r)' <=> TakesItsPart(r)
    BY <1>2, <2>1 DEF TakesItsPart, Node, Job
  <2>8. WithLease(r) => WithLease(r)'
    BY <1>2, <2>1, <2>2, <2>5, <2>6, <2>7 DEF WithLease, Starting, Job
  <2>9. WithoutLease(r) => WithoutLease(r)'
    BY <1>2, <2>1, <2>2, <2>5 DEF WithoutLease, Starting
  <2>10. RankIsWhole(r)'
    BY <1>2, <2>1, <2>2, <2>8, <2>9 DEF RankIsWhole
  <2> QED  BY <1>3, <2>2, <2>4, <2>10, SilentAfterwards DEF StepsWell
 <1> QED  BY <1>4, <1>5

LEMMA FinalizedSteps ==
    ASSUME Standing, NEW r \in Job, Finalized(r)
    PROVE  StepsWell(r)
 <1> USE DEF Standing
 <1>1. /\ spot[r] = "finalize" /\ host' = host /\ script' = script
       /\ handler' = handler /\ openmp' = openmp /\ lease' = lease
       /\ contexts' = contexts /\ told' = told
       /\ mpi' = [mpi EXCEPT ![r] = "finalized"] /\ Ends(r, outcome[r])
   BY DEF Finalized
 <1>2. outcome[r] \in {"none", "ok", "threw"}
   BY DEF LeaseTypeOK
 <1>3. /\ at' \in [Job -> Nat] /\ spot' \in [Job -> Spots]
       /\ outcome' \in [Job -> {"none", "ok", "threw"}]
       /\ spot'[r] = "call" /\ at'[r] = at[r] + 1
       /\ \A s \in Job \ {r} : /\ at'[s] = at[s] /\ spot'[s] = spot[s]
                               /\ outcome'[s] = outcome[s]
   BY <1>1, <1>2, EndingIs
 <1>4. /\ mpi' \in [Job -> {"fresh", "live", "finalizing", "finalized"}]
       /\ mpi'[r] = "finalized"
       /\ \A s \in Job \ {r} : mpi'[s] = mpi[s]
   BY <1>1 DEF LeaseTypeOK
 <1>5. at[r] \in 1 .. Len(script) /\ ScriptKept
   BY <1>1, JobIsFinite DEF LeaseTypeOK, ScriptKept
 <1>6. OthersKeep(r)
   BY <1>1, <1>3, <1>4 DEF OthersKeep
 <1>7. Beside(r)
   BY <1>1, <1>3, <1>4, <1>5, <1>6, NothingTold DEF Beside, LeaseTypeOK
 <1>8. RankIsWhole(r)'
  <2>1. mpi[r] = "finalizing"
    BY <1>1 DEF RankIsWhole
  <2>2. HasTeam(r)' <=> HasTeam(r)
    BY <1>1 DEF HasTeam
  <2>3. TakesItsPart(r)' <=> TakesItsPart(r)
    BY <1>1 DEF TakesItsPart, Node, Job
  <2>4. WithLease(r) => WithLease(r)'
    BY <1>1, <1>3, <1>4, <2>1, <2>2, <2>3 DEF WithLease, Starting, Job
  <2>5. WithoutLease(r) => WithoutLease(r)'
    BY <1>1, <1>3, <1>4 DEF WithoutLease, Starting
  <2> QED  BY <1>1, <1>3, <1>4, <2>4, <2>5 DEF RankIsWhole
 <1> QED  BY <1>1, <1>3, <1>7, <1>8, SilentAfterwards DEF StepsWell

LEMMA PresentSteps ==
    ASSUME Standing, NEW r \in Job, Present(r)
    PROVE  StepsWell(r)
 <1> USE DEF Standing
 <1>1. Agree \in ScriptCalls /\ Makes(r, Agree)
   BY DEF ScriptCalls, Present
 <1>2. /\ host' = host /\ spot[r] = "call" /\ ScriptKept
       /\ at[r] \in 1 .. Len(script') /\ at[r] \in 1 .. host.calls
       /\ script'[at[r]] = Agree
   BY <1>1, CallMade
 <1>3. /\ mpi' = mpi /\ handler' = handler /\ openmp' = openmp
       /\ lease' = lease /\ contexts' = contexts
   BY DEF Present, process
 <1>4. CASE Cardinality(Job) = 1
  <2>1. Ends(r, "ok") /\ told' = told
    BY <1>4 DEF Present
  <2>2. /\ at' \in [Job -> Nat] /\ spot' \in [Job -> Spots]
        /\ outcome' \in [Job -> {"none", "ok", "threw"}]
        /\ spot'[r] = "call" /\ at'[r] = at[r] + 1
        /\ \A s \in Job \ {r} : /\ at'[s] = at[s] /\ spot'[s] = spot[s]
                                /\ outcome'[s] = outcome[s]
    BY <2>1, EndingIs
  <2>3. OthersKeep(r)
    BY <1>3, <2>2 DEF OthersKeep
  <2>4. Beside(r)
    BY <1>2, <1>3, <2>1, <2>2, <2>3, NothingTold DEF Beside, LeaseTypeOK
  <2> QED  BY <1>2, <1>3, <2>1, <2>2, <2>4, StaysWhole, SilentAfterwards
           DEF StepsWell
 <1>5. CASE Cardinality(Job) # 1
  <2> DEFINE what == [Told(r, r) EXCEPT !.identity = IdentityOf(r)]
  <2>1. Tells(r, what) /\ Goes(r, "agree")
    BY <1>5 DEF Present
  <2>2. IdentityOf(r) \in Identities
    BY DEF IdentityOf, Identities
  <2>3. what \in Passed
    BY <1>2, <2>2, PassedParts
  <2> HIDE DEF what
  <2>4. ToldIsOwn(r)
    BY <1>2, <2>1, <2>3, TellingIs
  <2>5. /\ at' = at /\ outcome' = outcome /\ spot' \in [Job -> Spots]
        /\ spot'[r] = "agree"
        /\ \A s \in Job \ {r} : spot'[s] = spot[s]
    BY <2>1, GoingIs DEF Spots
  <2>6. OthersKeep(r)
    BY <1>3, <2>5 DEF OthersKeep
  <2>7. Beside(r)
    BY <1>2, <1>3, <2>4, <2>5, <2>6 DEF Beside, LeaseTypeOK
  <2>8. ToldInTime(r)'
    BY <1>2, <2>5, <2>7, SilentAhead DEF ToldInTime
  <2> QED  BY <1>2, <1>3, <2>5, <2>7, <2>8, StaysWhole DEF StepsWell
 <1> QED  BY <1>4, <1>5

LEMMA AgreedSteps ==
    ASSUME Standing, NEW r \in Job, Agreed(r)
    PROVE  StepsWell(r)
 <1> USE DEF Standing
 <1>1. /\ spot[r] = "agree" /\ host' = host /\ script' = script
       /\ mpi' = mpi /\ handler' = handler /\ openmp' = openmp
       /\ lease' = lease /\ contexts' = contexts /\ told' = told
   BY DEF Agreed, process
 <1>2. PICK how \in {"ok", "threw"} : Ends(r, how)
   BY DEF Agreed
 <1>3. /\ at' \in [Job -> Nat] /\ spot' \in [Job -> Spots]
       /\ outcome' \in [Job -> {"none", "ok", "threw"}]
       /\ spot'[r] = "call" /\ at'[r] = at[r] + 1
       /\ \A s \in Job \ {r} : /\ at'[s] = at[s] /\ spot'[s] = spot[s]
                               /\ outcome'[s] = outcome[s]
   BY <1>2, EndingIs
 <1>4. at[r] \in 1 .. Len(script) /\ ScriptKept
   BY <1>1, JobIsFinite DEF LeaseTypeOK, ScriptKept
 <1>5. OthersKeep(r)
   BY <1>1, <1>3 DEF OthersKeep
 <1>6. Beside(r)
   BY <1>1, <1>3, <1>4, <1>5, NothingTold DEF Beside, LeaseTypeOK
 <1> QED  BY <1>1, <1>3, <1>6, StaysWhole, SilentAfterwards DEF StepsWell

LEMMA HostFinalizesSteps ==
    ASSUME Standing, NEW r \in Job, HostFinalizes(r)
    PROVE  StepsWell(r)
 <1> USE DEF Standing
 <1>1. FinalizeUnder \in ScriptCalls /\ Makes(r, FinalizeUnder)
   BY DEF ScriptCalls, HostFinalizes
 <1>2. /\ host' = host /\ spot[r] = "call" /\ ScriptKept
       /\ at[r] \in 1 .. Len(script')
       /\ Callable(FinalizeUnder)
   BY <1>1, CallMade DEF ScriptKept
 <1>3. host.initialized
   BY <1>2 DEF Callable
 <1>4. /\ mpi' = [mpi EXCEPT ![r] = "finalizing"]
       /\ spot' = [spot EXCEPT ![r] = "finalize"]
       /\ outcome' = [outcome EXCEPT ![r] = "ok"]
       /\ at' = at /\ handler' = handler /\ openmp' = openmp
       /\ lease' = lease /\ contexts' = contexts /\ told' = told
   BY DEF HostFinalizes
 <1>5. /\ mpi' \in [Job -> {"fresh", "live", "finalizing", "finalized"}]
       /\ spot' \in [Job -> Spots]
       /\ outcome' \in [Job -> {"none", "ok", "threw"}]
       /\ spot'[r] = "finalize" /\ mpi'[r] = "finalizing"
       /\ \A s \in Job \ {r} :
            /\ spot'[s] = spot[s] /\ mpi'[s] = mpi[s]
            /\ outcome'[s] = outcome[s]
   BY <1>4 DEF LeaseTypeOK, Spots
 <1>6. OthersKeep(r)
   BY <1>4, <1>5 DEF OthersKeep
 <1>7. Beside(r)
   BY <1>2, <1>4, <1>5, <1>6, NothingTold DEF Beside, LeaseTypeOK
 <1>8. RankIsWhole(r)'
  <2>1. HasTeam(r)' <=> HasTeam(r)
    BY <1>2, <1>4 DEF HasTeam
  <2>2. TakesItsPart(r)' <=> TakesItsPart(r)
    BY <1>2, <1>4 DEF TakesItsPart, Node, Job
  <2>3. WithLease(r) => WithLease(r)'
    BY <1>2, <1>3, <1>4, <1>5, <2>1, <2>2 DEF WithLease, Starting, Job
  <2>4. WithoutLease(r) => WithoutLease(r)'
    BY <1>2, <1>4, <1>5 DEF WithoutLease, Starting
  <2> QED  BY <1>2, <1>4, <1>5, <2>3, <2>4 DEF RankIsWhole
 <1> QED  BY <1>4, <1>5, <1>7, <1>8, SilentAfterwards DEF StepsWell

LEMMA EveryStepSteps ==
    ASSUME Standing, NEW r \in Job, LeaseStep(r)
    PROVE  StepsWell(r)
 <1>1. /\ Formed(r) \subseteq BOOLEAN /\ Seen(r) \subseteq {"yes", "no"}
   BY DEF Formed, Seen
 <1> QED
   BY <1>1, ShareSteps, StartThreadsSteps, AttachSteps, CompareSteps,
      GatherSteps, StartedSteps, DestroySteps, FinalizedSteps, PresentSteps,
      AgreedSteps, HostFinalizesSteps DEF LeaseStep

-----------------------------------------------------------------------------
(* One past for all ranks.                                                 *)

(* What a rank owes the past: it speaks in no call that is settled, and    *)
(* comes out of its call k with what follows from the view v it went in    *)
(* with.                                                                   *)
Owes(v, k, r) ==
    /\ told' # told => ~ (k <= Len(script) /\ Settled(v, k))
    /\ spot'[r] = "call" => View(r)' = After(v, k)' /\ Settled(v, k)'
    /\ spot'[r] = "agree" => View(r)' = v
    /\ spot'[r] \in Starting => v = BareView(outcome[r])'
    /\ spot'[r] = "finalize" =>
         /\ ViewWith(r, "finalized")' = After(v, k)'
         /\ Settled(v, k)'

LEMMA CallUnmoved ==
    ASSUME NEW v, NEW k, host' = host, told'[k] = told[k], script'[k] = script[k]
    PROVE  After(v, k)' = After(v, k) /\ (Settled(v, k)' <=> Settled(v, k))
 <1>1. /\ Job' = Job /\ Asks(v, k)' = Asks(v, k)
       /\ StartFailed(k)' = StartFailed(k)
       /\ SameIdentity(k)' = SameIdentity(k)
   BY DEF Job, Asks, StartFailed, SameIdentity
 <1>2. AfterOpen(v, k)' = AfterOpen(v, k) /\ AfterClose(v, k)' = AfterClose(v, k)
   BY <1>1 DEF AfterOpen, AfterClose
 <1>3. Settled(v, k)' <=> Settled(v, k)
   BY <1>1 DEF Settled
 <1>4. After(v, k)' = After(v, k)
   BY <1>1, <1>2 DEF After
 <1> QED  BY <1>3, <1>4

LEMMA OnePastGoesOn ==
    ASSUME Standing, NEW r \in Job, Beside(r), NEW past, IsPast(past),
           \A s \in Job : Follows(past, s),
           NEW k, k = at[r], NEW v, v = past[k - 1], Owes(v, k, r)
    PROVE  OnePast'
 <1> USE DEF Standing
 <1>1. /\ k \in Nat /\ k >= 1 /\ k <= host.calls /\ host.calls \in Nat
       /\ Len(script) \in Nat /\ Len(script) <= host.calls
   BY JobIsFinite DEF Beside, ScriptKept, LeaseTypeOK
 <1>2. /\ host' = host /\ Job' = Job
       /\ \A s \in Job : at[s] \in Nat /\ at[s] >= 1 /\ at[s] <= Len(script) + 1
       /\ \A s \in Job : spot[s] # "call" => at[s] <= Len(script)
   BY DEF Beside, LeaseTypeOK, Job
 <1>3. /\ at'[r] = IF spot'[r] = "call" THEN k + 1 ELSE k
       /\ \A s \in Job \ {r} : at'[s] = at[s] /\ spot'[s] = spot[s]
   BY DEF Beside, OthersKeep
 <1>4. /\ past = [j \in 0 .. host.calls |-> past[j]] /\ past[0] = BareView("none")
       /\ \A j \in 1 .. host.calls :
            Made(j) => past[j] = After(past[j - 1], j) /\ Settled(past[j - 1], j)
   BY DEF IsPast
 <1>5. ASSUME NEW j \in 1 .. host.calls, j <= Len(script),
              Settled(past[j - 1], j)
       PROVE  told'[j] = told[j] /\ script'[j] = script[j]
  <2>1. script'[j] = script[j]
    BY <1>1, <1>5 DEF Beside, ScriptKept
  <2>2. CASE j = k
    BY <1>5, <2>1, <2>2 DEF Owes
  <2>3. CASE j # k
   <3>1. told' \in [1 .. host.calls -> [Job -> Passed]]
         /\ told \in [1 .. host.calls -> [Job -> Passed]]
     BY DEF Beside, ToldIsOwn, LeaseTypeOK
   <3>2. told[j] \in [Job -> Passed] /\ told'[j] \in [Job -> Passed]
     BY <3>1
   <3>3. \A s \in Job : told'[j][s] = told[j][s]
     BY <2>3 DEF Beside, ToldIsOwn
   <3>4. told'[j] = told[j]
     BY <3>2, <3>3
   <3> QED  BY <2>1, <3>4
  <2> QED  BY <2>2, <2>3
 <1>6. ASSUME NEW j \in 1 .. host.calls, j <= Len(script), NEW w,
              w = past[j - 1], Settled(w, j)
       PROVE  After(w, j)' = After(w, j) /\ Settled(w, j)'
  <2>1. told'[j] = told[j] /\ script'[j] = script[j]
    BY <1>5, <1>6
  <2> QED  BY <1>2, <1>6, <2>1, CallUnmoved
 <1>7. \A j \in 1 .. host.calls : Made(j) => j <= Len(script)
   BY <1>1, <1>2 DEF Made
 <1>8. PICK later : later = [j \in 0 .. host.calls |->
                               IF j = k /\ spot'[r] = "call" THEN View(r)'
                                                             ELSE past[j]]
   OBVIOUS
 <1>9. ASSUME spot'[r] = "call", Made(k)  PROVE View(r)' = past[k]
  <2>0. k \in 1 .. host.calls
    BY <1>1
  <2>1. past[k] = After(v, k) /\ Settled(v, k) /\ k <= Len(script)
    BY <1>4, <1>7, <1>9, <2>0
  <2>2. After(v, k)' = After(v, k)
    BY <1>1, <1>6, <2>1
  <2> QED  BY <1>9, <2>1, <2>2 DEF Owes
 <1>10. \A j \in 0 .. host.calls : j # k \/ Made(k) \/ spot'[r] # "call" =>
           later[j] = past[j]
   BY <1>8, <1>9
 <1>11. ASSUME NEW s \in Job  PROVE (at[s] - 1 = k => Made(k))
   BY <1>1, <1>2, <1>11 DEF Made
 <1>12. later[k - 1] = v /\ later[0] = BareView("none")
   BY <1>1, <1>4, <1>8
 <1>13. ASSUME NEW j \in 1 .. host.calls, Made(j)'
        PROVE  (later[j] = After(later[j - 1], j) /\ Settled(later[j - 1], j))'
  <2>1. CASE spot'[r] = "call" /\ j = k
   <3>1. later[k] = View(r)' /\ View(r)' = After(v, k)' /\ Settled(v, k)'
     BY <1>1, <1>8, <2>1 DEF Owes
   <3> QED  BY <1>12, <2>1, <3>1
  <2>2. CASE ~ (spot'[r] = "call" /\ j = k)
   <3>1. Made(j)
    <4>1. PICK s \in Job : at'[s] > j
      BY <1>2, <1>13 DEF Made
    <4>2. CASE s = r
      BY <1>1, <1>3, <2>2, <4>1, <4>2 DEF Made
    <4>3. CASE s # r
      BY <1>3, <4>1, <4>3 DEF Made
    <4> QED  BY <4>2, <4>3
   <3>2. later[j] = past[j]
     BY <1>10, <2>2
   <3>3. later[j - 1] = past[j - 1]
    <4>1. j - 1 = k => Made(k)
      BY <1>1, <1>2, <3>1 DEF Made
    <4> QED  BY <1>1, <1>10, <4>1
   <3>4. PICK w : w = past[j - 1]
     OBVIOUS
   <3>5. past[j] = After(w, j) /\ Settled(w, j) /\ j <= Len(script)
     BY <1>4, <1>7, <3>1, <3>4
   <3>6. After(w, j)' = After(w, j) /\ Settled(w, j)'
     BY <1>6, <3>4, <3>5
   <3> QED  BY <3>2, <3>3, <3>4, <3>5, <3>6
  <2> QED  BY <2>1, <2>2
 <1>14. IsPast(later)'
   BY <1>2, <1>8, <1>12, <1>13 DEF IsPast, BareView
 <1>15. ASSUME NEW s \in Job, s # r  PROVE Follows(later, s)'
  <2>1. PICK j : j = at[s]
    OBVIOUS
  <2>2. j \in 1 .. Len(script) + 1 /\ at'[s] = j
    BY <1>2, <1>3, <1>15, <2>1
  <2>3. j - 1 \in 0 .. host.calls
    BY <1>1, <2>2
  <2>4. PICK w : w = past[j - 1]
    OBVIOUS
  <2>5. later[j - 1] = w
    BY <1>10, <1>11, <2>1, <2>3, <2>4
  <2>6. /\ View(s)' = View(s) /\ spot'[s] = spot[s] /\ outcome'[s] = outcome[s]
        /\ ViewWith(s, "finalized")' = ViewWith(s, "finalized")
    BY <1>15 DEF Beside, OthersKeep, View, ViewWith
  <2>7. Follows(past, s)
    OBVIOUS
  <2>8. CASE spot[s] \in {"call", "agree"}
   <3>1. View(s) = w
     BY <2>1, <2>4, <2>7, <2>8 DEF Follows, Starting
   <3>2. View(s)' = later[at'[s] - 1]
     BY <2>2, <2>5, <2>6, <3>1
   <3> QED  BY <2>6, <2>8, <3>2 DEF Follows, Starting
  <2>9. CASE spot[s] \in Starting
   <3>1. w = BareView(outcome[s])
     BY <2>1, <2>4, <2>7, <2>9 DEF Follows, Starting
   <3>2. BareView(outcome[s])' = BareView(outcome[s])
     BY <1>2, <2>6 DEF BareView
   <3> QED  BY <2>2, <2>5, <2>6, <2>9, <3>1, <3>2 DEF Follows, Starting
  <2>10. CASE spot[s] = "finalize"
   <3>1. /\ ViewWith(s, "finalized") = After(w, j)
         /\ Settled(w, j)
     BY <2>1, <2>4, <2>7, <2>10 DEF Follows, Starting
   <3>2. j <= Len(script) /\ j \in 1 .. host.calls
     BY <1>1, <1>2, <2>1, <2>2, <2>10
   <3>3. After(w, j)' = After(w, j) /\ Settled(w, j)'
     BY <1>6, <2>4, <3>1, <3>2
   <3> QED  BY <2>2, <2>5, <2>6, <2>10, <3>1, <3>3 DEF Follows, Starting
  <2> QED  BY <2>8, <2>9, <2>10 DEF LeaseTypeOK, Spots
 <1>16. Follows(later, r)'
  <2>1. spot'[r] \in Spots
    BY DEF Beside
  <2>2. CASE spot'[r] = "call"
   <3>1. later[k] = View(r)' /\ at'[r] - 1 = k
     BY <1>1, <1>3, <1>8, <2>2
   <3> QED  BY <2>2, <3>1 DEF Follows, Starting
  <2>3. CASE spot'[r] # "call"
   <3>1. later[at'[r] - 1] = v /\ at'[r] = k
     BY <1>3, <1>12, <2>3
   <3> QED  BY <1>2, <2>1, <2>3, <3>1 DEF Follows, Owes, Spots, Starting
  <2> QED  BY <2>2, <2>3
 <1>17. (\A s \in Job : Follows(later, s))'
   BY <1>2, <1>15, <1>16
 <1> QED  BY <1>14, <1>17 DEF OnePast

(* A rank that went into its call k with the view v.                       *)
WentIn(v, k, r) ==
    /\ k = at[r]
    /\ spot[r] \in {"call", "agree"} => View(r) = v
    /\ spot[r] \in Starting => v = BareView(outcome[r])
    /\ spot[r] = "finalize" =>
         ViewWith(r, "finalized") = After(v, k) /\ Settled(v, k)

LEMMA FollowsWentIn ==
    ASSUME NEW r, NEW past, Follows(past, r),
           NEW k, k = at[r], NEW v, v = past[k - 1]
    PROVE  WentIn(v, k, r)
  BY DEF Follows, WentIn, Starting

LEMMA OpensAre ==
    ASSUME NEW slot, NEW setting
    PROVE  /\ Open(slot, setting).do = "open"
           /\ Open(slot, setting).slot = slot
           /\ Open(slot, setting).setting = setting
           /\ Close(slot).do = "close" /\ Close(slot).slot = slot
           /\ Agree.do = "agree" /\ FinalizeUnder.do = "finalize"
  BY DEF Open, Close, Agree, FinalizeUnder

LEMMA ShareOwes ==
    ASSUME Standing, NEW r \in Job, NEW v, NEW k, WentIn(v, k, r),
           NEW slot \in Slots, NEW setting \in Settings, Share(r, slot, setting)
    PROVE  Owes(v, k, r)
 <1> USE DEF Standing
 <1>1. Open(slot, setting) \in ScriptCalls /\ Makes(r, Open(slot, setting))
   BY DEF ScriptCalls, Share
 <1>2. /\ host' = host /\ spot[r] = "call" /\ k = at[r]
       /\ script'[k] = Open(slot, setting)
   BY <1>1, CallMade DEF WentIn
 <1>3. /\ mpi' = mpi /\ lease' = lease /\ told' = told /\ lease[r] # NoLease
       /\ View(r) = v
   BY <1>2 DEF Share, process, WentIn
 <1>4. /\ script'[k].do = "open" /\ script'[k].slot = slot
       /\ script'[k].setting = setting
   BY <1>2, OpensAre
 <1>5. /\ v.leased = TRUE /\ v.setting = lease[r].setting
       /\ v.contexts = contexts[r] /\ v.mpi = mpi[r]
  <2>1. v = ViewOf(TRUE, lease[r].setting, contexts[r], mpi[r], outcome[r])
    BY <1>3 DEF View, ViewWith
  <2> QED  BY <2>1 DEF ViewOf
 <1>6. Settled(v, k)'
   BY <1>4, <1>5 DEF Settled, Asks
 <1>7. spot'[r] = "call"
   BY EndingIs DEF Share
 <1>8. CASE lease[r].setting = setting
  <2>1. Ends(r, "ok") /\ contexts'[r] = contexts[r] \union {slot}
    BY <1>8 DEF Share, LeaseTypeOK
  <2>2. outcome'[r] = "ok"
    BY <2>1, EndingIs
  <2>3. View(r)' = ViewOf(TRUE, lease[r].setting, contexts[r] \union {slot},
                          mpi[r], "ok")
    BY <1>3, <2>1, <2>2 DEF View, ViewWith
  <2>4. After(v, k)' = View(r)'
    BY <1>4, <1>5, <1>8, <2>3 DEF After, AfterOpen
  <2> QED  BY <1>3, <1>6, <1>7, <2>4 DEF Owes, Starting
 <1>9. CASE lease[r].setting # setting
  <2>1. Ends(r, "threw") /\ contexts'[r] = contexts[r]
    BY <1>9 DEF Share, LeaseTypeOK
  <2>2. outcome'[r] = "threw"
    BY <2>1, EndingIs
  <2>3. View(r)' = ViewOf(TRUE, lease[r].setting, contexts[r], mpi[r], "threw")
    BY <1>3, <2>1, <2>2 DEF View, ViewWith
  <2>4. After(v, k)' = View(r)'
    BY <1>4, <1>5, <1>9, <2>3 DEF After, AfterOpen
  <2> QED  BY <1>3, <1>6, <1>7, <2>4 DEF Owes, Starting
 <1> QED  BY <1>8, <1>9

LEMMA AttachOwes ==
    ASSUME Standing, NEW r \in Job, NEW v, NEW k, WentIn(v, k, r),
           NEW slot \in Slots, NEW setting \in Settings,
           NEW available \in {"yes", "no"}, Attach(r, slot, setting, available)
    PROVE  Owes(v, k, r)
 <1> USE DEF Standing
 <1>1. Open(slot, setting) \in ScriptCalls /\ Makes(r, Open(slot, setting))
   BY DEF ScriptCalls, Attach
 <1>2. /\ host' = host /\ spot[r] = "call" /\ k = at[r] /\ ScriptKept
       /\ k \in 1 .. host.calls /\ script'[k] = Open(slot, setting)
   BY <1>1, CallMade DEF WentIn
 <1>3. /\ contexts' = contexts /\ lease[r] = NoLease /\ View(r) = v
   BY <1>2 DEF Attach, WentIn
 <1>4. /\ script'[k].do = "open" /\ script'[k].slot = slot
       /\ script'[k].setting = setting
   BY <1>2, OpensAre
 <1>5. /\ WithoutLease(r) /\ mpi[r] # "finalizing"
       /\ mpi[r] = "fresh" => ~ host.initialized
   BY <1>2, <1>3 DEF RankIsWhole
 <1>6. /\ v.leased = FALSE /\ v.setting = "none" /\ v.contexts = {}
       /\ v.mpi = mpi[r] /\ v.outcome = outcome[r]
       /\ v = ViewOf(FALSE, "none", {}, mpi[r], outcome[r])
  <2>1. contexts[r] = {} /\ lease[r].setting = "none"
    BY <1>3, <1>5 DEF NoLease, WithoutLease
  <2>2. v = ViewOf(FALSE, "none", {}, mpi[r], outcome[r])
    BY <1>3, <2>1 DEF View, ViewWith
  <2> QED  BY <2>2 DEF ViewOf
 <1>7. CASE mpi[r] \in {"live", "fresh"} /\ host.funneled
  <2>1. Goes(r, "available")
    BY <1>7 DEF Attach
  <2>2. spot'[r] = "available" /\ outcome' = outcome
    BY <2>1, GoingIs DEF Spots, Starting
  <2>3. mpi[r] = IF host.initialized THEN "live" ELSE "fresh"
    BY <1>5, <1>7 DEF WithoutLease
  <2>4. ASSUME k <= Len(script), Settled(v, k)  PROVE FALSE
   <3>1. script[k] = script'[k]
     BY <1>2, <2>4 DEF ScriptKept, LeaseTypeOK
   <3>2. Asks(v, k)
     BY <1>4, <1>6, <1>7, <3>1 DEF Asks
   <3>3. told[k][r].started # "absent"
     BY <2>4, <3>2 DEF Settled
   <3>4. told[k][r] = Silent
     BY <1>2 DEF ToldInTime
   <3> QED  BY <3>3, <3>4 DEF Silent
  <2>5. v = BareView(outcome[r])'
    BY <1>2, <1>6, <2>2, <2>3 DEF BareView
  <2> QED  BY <2>2, <2>4, <2>5 DEF Owes, Starting
 <1>8. CASE ~ (mpi[r] \in {"live", "fresh"} /\ host.funneled)
  <2>0. contexts[r] = {} /\ lease[r].setting = "none"
    BY <1>3, <1>5 DEF NoLease, WithoutLease
  <2>1. lease' = lease /\ told' = told
    BY <1>8 DEF Attach
  <2>2. ~ Asks(v, k)' /\ Settled(v, k)'
    BY <1>2, <1>4, <1>6, <1>8 DEF Asks, Settled
  <2>3. After(v, k)' = ViewOf(FALSE, "none", {},
                              IF mpi[r] = "fresh" THEN "finalized" ELSE mpi[r],
                              "threw")
    BY <1>4, <1>6, <2>2 DEF After, AfterOpen
  <2>4. CASE mpi[r] = "fresh"
   <3>1. /\ mpi'[r] = "finalizing" /\ spot'[r] = "finalize"
         /\ outcome'[r] = "threw"
     BY <1>8, <2>4 DEF Attach, LeaseTypeOK
   <3>2. ViewWith(r, "finalized")' = After(v, k)'
     BY <1>3, <2>0, <2>1, <2>3, <2>4, <3>1 DEF ViewWith
   <3> QED  BY <2>1, <2>2, <3>1, <3>2 DEF Owes, Starting
  <2>5. CASE mpi[r] # "fresh"
   <3>1. Ends(r, "threw") /\ mpi' = mpi
     BY <1>8, <2>5 DEF Attach
   <3>2. spot'[r] = "call" /\ outcome'[r] = "threw"
     BY <3>1, EndingIs
   <3>3. View(r)' = After(v, k)'
     BY <1>3, <2>0, <2>1, <2>3, <2>5, <3>1, <3>2 DEF View, ViewWith
   <3> QED  BY <2>1, <2>2, <3>2, <3>3 DEF Owes, Starting
  <2> QED  BY <2>4, <2>5
 <1> QED  BY <1>7, <1>8

(* A rank that has not said how its start went keeps the call open.        *)
LEMMA StartingIsOpen ==
    ASSUME Standing, NEW r \in Job, NEW v, NEW k, WentIn(v, k, r),
           spot[r] \in Starting
    PROVE  /\ Asks(v, k) /\ lease[r] # NoLease
           /\ script[k].slot = lease[r].slot
           /\ script[k].setting = lease[r].setting
           /\ ~ v.leased
           /\ v.mpi = IF host.initialized THEN "live" ELSE "fresh"
           /\ spot[r] \in {"available", "gather"} => ~ Settled(v, k)
 <1> USE DEF Standing
 <1>1. /\ lease[r] # NoLease /\ WithLease(r) /\ k = at[r]
   BY DEF RankIsWhole, WithoutLease, WentIn
 <1>2. /\ script[k] = Open(lease[r].slot, lease[r].setting) /\ host.funneled
   BY <1>1 DEF WithLease
 <1>3. /\ script[k].do = "open" /\ script[k].slot = lease[r].slot
       /\ script[k].setting = lease[r].setting
   BY <1>2, OpensAre
 <1>4. ~ v.leased /\ v.mpi = IF host.initialized THEN "live" ELSE "fresh"
   BY DEF WentIn, BareView, ViewOf
 <1>5. Asks(v, k)
   BY <1>2, <1>3, <1>4 DEF Asks
 <1>6. spot[r] \in {"available", "gather"} => ~ Settled(v, k)
   BY <1>1, <1>5 DEF ToldInTime, Told, Settled
 <1> QED  BY <1>1, <1>3, <1>4, <1>5, <1>6

LEMMA FormTeamOwes ==
    ASSUME Standing, NEW r \in Job, NEW v, NEW k, WentIn(v, k, r),
           spot[r] \in {"available", "gather"}, host' = host,
           NEW where \in Starting, Goes(r, where)
    PROVE  Owes(v, k, r)
 <1>1. spot'[r] = where /\ outcome' = outcome
   BY GoingIs DEF Spots, Standing
 <1>2. spot[r] \in Starting /\ ~ Settled(v, k)
   BY StartingIsOpen DEF Starting
 <1>3. v = BareView(outcome[r])'
   BY <1>1, <1>2 DEF WentIn, BareView
 <1> QED  BY <1>1, <1>2, <1>3 DEF Owes, Starting

(* Where MPI is the context's own, giving up the lease finalizes it.       *)
LEMMA ReleasedView ==
    ASSUME Standing, NEW r \in Job, Cardinality(Job) # 1, lease[r] # NoLease,
           spot[r] \in {"call", "started"}, NEW how \in {"ok", "threw"},
           Release(r, how), contexts'[r] = {},
           NEW m, m = IF host.initialized THEN mpi[r] ELSE "finalized"
    PROVE  \/ /\ spot'[r] = "finalize"
              /\ ViewWith(r, "finalized")' = ViewOf(FALSE, "none", {}, m, how)
           \/ /\ spot'[r] = "call"
              /\ View(r)' = ViewOf(FALSE, "none", {}, m, how)
 <1> USE DEF Standing
 <1>1. /\ WithLease(r) /\ lease'[r] = NoLease
       /\ lease'[r].setting = "none"
   BY DEF RankIsWhole, Release, LeaseTypeOK, NoLease
 <1>2. lease[r].setting.mpi
   BY <1>1 DEF WithLease
 <1>3. CASE lease[r].owns /\ mpi[r] = "live"
  <2>1. spot'[r] = "finalize" /\ outcome'[r] = how
    BY <1>3 DEF Release, LeaseTypeOK
  <2>2. m = "finalized"
    BY <1>1, <1>3 DEF WithLease
  <2> QED  BY <1>1, <2>1, <2>2 DEF ViewWith
 <1>4. CASE ~ (lease[r].owns /\ mpi[r] = "live")
  <2>1. Ends(r, how) /\ mpi' = mpi
    BY <1>4 DEF Release
  <2>2. spot'[r] = "call" /\ outcome'[r] = how
    BY <2>1, EndingIs
  <2>3. m = mpi[r]
    BY <1>1, <1>2, <1>4 DEF WithLease
  <2> QED  BY <1>1, <2>1, <2>2, <2>3 DEF View, ViewWith
 <1> QED  BY <1>3, <1>4

LEMMA StartedOwes ==
    ASSUME Standing, NEW r \in Job, NEW v, NEW k, WentIn(v, k, r),
           Cardinality(Job) # 1, Started(r)
    PROVE  Owes(v, k, r)
 <1> USE DEF Standing
 <1>1. /\ spot[r] = "started" /\ host' = host /\ script' = script /\ told' = told
       /\ k = at[r]
   BY DEF Started, WentIn
 <1>2. /\ Asks(v, k) /\ lease[r] # NoLease
       /\ script[k].slot = lease[r].slot /\ script[k].setting = lease[r].setting
   BY <1>1, StartingIsOpen DEF Starting
 <1>3. /\ ~ v.leased /\ v.setting = "none" /\ v.contexts = {}
       /\ v.mpi = IF host.initialized THEN "live" ELSE "fresh"
   BY <1>1 DEF WentIn, Starting, BareView, ViewOf
 <1>4. \A s \in Job : told[k][s].started # "absent"
   BY <1>1 DEF Started, Told
 <1>5. script[k].do = "open"
   BY <1>2 DEF Asks
 <1>6. Settled(v, k)' /\ After(v, k)' = AfterOpen(v, k)
  <2>1. Settled(v, k)
    BY <1>4, <1>5 DEF Settled
  <2>2. After(v, k)' = After(v, k) /\ (Settled(v, k)' <=> Settled(v, k))
    BY <1>1, CallUnmoved
  <2> QED  BY <1>5, <2>1, <2>2 DEF After
 <1>7. StartFailed(k) <=> SomeRankFailed(r)
   BY <1>1 DEF StartFailed, SomeRankFailed, Told
 <1>8. WithLease(r) /\ contexts[r] = {} /\ mpi[r] = "live"
   BY <1>1, <1>2 DEF RankIsWhole, WithLease, Starting
 <1>9. CASE SomeRankFailed(r)
  <2>1. Release(r, "threw") /\ contexts'[r] = {}
    BY <1>8, <1>9 DEF Started
  <2>2. PICK m : m = IF host.initialized THEN mpi[r] ELSE "finalized"
    OBVIOUS
  <2>3. AfterOpen(v, k) = ViewOf(FALSE, "none", {}, m, "threw")
    BY <1>3, <1>7, <1>8, <1>9, <2>2 DEF AfterOpen
  <2>4. \/ /\ spot'[r] = "finalize"
           /\ ViewWith(r, "finalized")' = ViewOf(FALSE, "none", {}, m, "threw")
        \/ /\ spot'[r] = "call"
           /\ View(r)' = ViewOf(FALSE, "none", {}, m, "threw")
    BY <1>1, <1>2, <2>1, <2>2, ReleasedView
  <2> QED  BY <1>1, <1>6, <2>3, <2>4 DEF Owes, Starting
 <1>10. CASE ~ SomeRankFailed(r)
  <2>1. /\ contexts'[r] = {lease[r].slot} /\ Ends(r, "ok")
        /\ mpi' = mpi /\ lease' = lease
    BY <1>10 DEF Started, process, LeaseTypeOK
  <2>2. spot'[r] = "call" /\ outcome'[r] = "ok"
    BY <2>1, EndingIs
  <2>3. AfterOpen(v, k) = ViewOf(TRUE, lease[r].setting, {lease[r].slot},
                                 "live", "ok")
    BY <1>2, <1>3, <1>7, <1>10 DEF AfterOpen
  <2>4. View(r)' = ViewOf(TRUE, lease[r].setting, {lease[r].slot}, "live", "ok")
    BY <1>2, <1>8, <2>1, <2>2 DEF View, ViewWith
  <2> QED  BY <1>1, <1>6, <2>2, <2>3, <2>4 DEF Owes, Starting
 <1> QED  BY <1>9, <1>10

LEMMA DestroyOwes ==
    ASSUME Standing, NEW r \in Job, NEW v, NEW k, WentIn(v, k, r),
           Cardinality(Job) # 1, NEW slot \in Slots, Destroy(r, slot)
    PROVE  Owes(v, k, r)
 <1> USE DEF Standing
 <1>1. Close(slot) \in ScriptCalls /\ Makes(r, Close(slot))
   BY DEF ScriptCalls, Destroy
 <1>2. /\ host' = host /\ spot[r] = "call" /\ k = at[r]
       /\ script'[k] = Close(slot)
   BY <1>1, CallMade DEF WentIn
 <1>3. /\ script'[k].do = "close" /\ script'[k].slot = slot
   BY <1>2, OpensAre
 <1>4. /\ v = View(r) /\ told' = told /\ contexts'[r] = contexts[r] \ {slot}
   BY <1>2 DEF WentIn, Destroy, LeaseTypeOK
 <1>5. Settled(v, k)'
   BY <1>3 DEF Settled, Asks
 <1>6. /\ v.contexts = contexts[r] /\ v.mpi = mpi[r]
       /\ v.setting = lease[r].setting
   BY <1>4 DEF View, ViewWith, ViewOf
 <1>7. After(v, k)' = AfterClose(v, k)'
   BY <1>3 DEF After
 <1>8. CASE contexts[r] = {slot}
  <2>1. Release(r, "ok") /\ lease[r] # NoLease /\ contexts'[r] = {}
    BY <1>4, <1>8 DEF Destroy, RankIsWhole, WithoutLease
  <2>2. PICK m : m = IF host.initialized THEN mpi[r] ELSE "finalized"
    OBVIOUS
  <2>3. AfterClose(v, k)' = ViewOf(FALSE, "none", {}, m, "ok")
    BY <1>2, <1>3, <1>6, <1>8, <2>2 DEF AfterClose
  <2>4. \/ /\ spot'[r] = "finalize"
           /\ ViewWith(r, "finalized")' = ViewOf(FALSE, "none", {}, m, "ok")
        \/ /\ spot'[r] = "call"
           /\ View(r)' = ViewOf(FALSE, "none", {}, m, "ok")
    BY <1>2, <2>1, <2>2, ReleasedView
  <2> QED  BY <1>4, <1>5, <1>7, <2>3, <2>4 DEF Owes, Starting
 <1>9. CASE contexts[r] # {slot}
  <2>1. /\ Ends(r, "ok") /\ lease' = lease /\ mpi' = mpi
    BY <1>9 DEF Destroy, process
  <2>2. spot'[r] = "call" /\ outcome'[r] = "ok"
    BY <2>1, EndingIs
  <2>3. PICK leased : leased = (lease[r] # NoLease)
    OBVIOUS
  <2>4. View(r) = ViewOf(leased, lease[r].setting, contexts[r], mpi[r], outcome[r])
    BY <2>3 DEF View, ViewWith
  <2>5. v.leased = leased
    BY <1>4, <2>4 DEF ViewOf
  <2>6. View(r)' = ViewOf(leased, lease[r].setting, contexts[r] \ {slot},
                          mpi[r], "ok")
    BY <1>4, <2>1, <2>2, <2>3 DEF View, ViewWith
  <2>7. AfterClose(v, k)' = ViewOf(leased, lease[r].setting,
                                   contexts[r] \ {slot}, mpi[r], "ok")
    BY <1>3, <1>6, <1>9, <2>5 DEF AfterClose
  <2> QED  BY <1>4, <1>5, <1>7, <2>2, <2>6, <2>7 DEF Owes, Starting
 <1> QED  BY <1>8, <1>9

LEMMA FinalizedOwes ==
    ASSUME Standing, NEW r \in Job, NEW v, NEW k, WentIn(v, k, r), Finalized(r)
    PROVE  Owes(v, k, r)
 <1> USE DEF Standing
 <1>1. /\ spot[r] = "finalize" /\ host' = host /\ script' = script
       /\ lease' = lease /\ contexts' = contexts /\ told' = told
       /\ mpi'[r] = "finalized" /\ Ends(r, outcome[r])
   BY DEF Finalized, LeaseTypeOK
 <1>2. spot'[r] = "call" /\ outcome'[r] = outcome[r]
   BY <1>1, EndingIs DEF LeaseTypeOK
 <1>3. ViewWith(r, "finalized") = After(v, k) /\ Settled(v, k)
   BY <1>1 DEF WentIn
 <1>4. After(v, k)' = After(v, k) /\ (Settled(v, k)' <=> Settled(v, k))
   BY <1>1, CallUnmoved
 <1>5. View(r)' = ViewWith(r, "finalized")
   BY <1>1, <1>2 DEF View, ViewWith
 <1> QED  BY <1>1, <1>2, <1>3, <1>4, <1>5 DEF Owes, Starting

LEMMA PresentOwes ==
    ASSUME Standing, NEW r \in Job, NEW v, NEW k, WentIn(v, k, r),
           Cardinality(Job) # 1, Present(r)
    PROVE  Owes(v, k, r)
 <1> USE DEF Standing
 <1>1. Agree \in ScriptCalls /\ Makes(r, Agree)
   BY DEF ScriptCalls, Present
 <1>2. /\ host' = host /\ spot[r] = "call" /\ k = at[r] /\ ScriptKept
       /\ k \in 1 .. host.calls /\ script'[k] = Agree
   BY <1>1, CallMade DEF WentIn
 <1>3. /\ mpi' = mpi /\ lease' = lease /\ contexts' = contexts
       /\ Goes(r, "agree") /\ View(r) = v
   BY <1>2 DEF Present, process, WentIn
 <1>4. spot'[r] = "agree" /\ outcome' = outcome
   BY <1>3, GoingIs DEF Spots
 <1>5. View(r)' = v
   BY <1>3, <1>4 DEF View, ViewWith
 <1>6. ASSUME k <= Len(script), Settled(v, k)  PROVE FALSE
  <2>0. script[k] = script'[k]
    BY <1>2, <1>6 DEF ScriptKept, LeaseTypeOK
  <2>1. script[k].do = "agree"
    BY <1>2, <2>0, OpensAre
  <2>2. told[k][r].identity # "absent"
    BY <1>6, <2>1 DEF Settled
  <2>3. told[k][r] = Silent
    BY <1>2 DEF ToldInTime
  <2> QED  BY <2>2, <2>3 DEF Silent
 <1> QED  BY <1>4, <1>5, <1>6 DEF Owes, Starting

LEMMA AgreedOwes ==
    ASSUME Standing, NEW r \in Job, NEW v, NEW k, WentIn(v, k, r), Agreed(r)
    PROVE  Owes(v, k, r)
 <1> USE DEF Standing
 <1>1. /\ spot[r] = "agree" /\ host' = host /\ script' = script
       /\ mpi' = mpi /\ lease' = lease /\ contexts' = contexts /\ told' = told
       /\ k = at[r] /\ View(r) = v
   BY DEF Agreed, process, WentIn
 <1>2. script[k].do = "agree"
   BY <1>1, OpensAre DEF ToldInTime
 <1>3. Settled(v, k)
   BY <1>1, <1>2 DEF Agreed, Told, Settled, Asks
 <1>4. After(v, k)' = After(v, k) /\ (Settled(v, k)' <=> Settled(v, k))
   BY <1>1, CallUnmoved
 <1>5. PICK how : how = IF SameIdentity(k) THEN "ok" ELSE "threw"
   OBVIOUS
 <1>6. Ends(r, how) /\ how \in {"ok", "threw"}
   BY <1>1, <1>5 DEF Agreed, OneIdentity, SameIdentity, Told
 <1>7. spot'[r] = "call" /\ outcome'[r] = how
   BY <1>6, EndingIs
 <1>8. PICK leased : leased = (lease[r] # NoLease)
   OBVIOUS
 <1>9. v = ViewOf(leased, lease[r].setting, contexts[r], mpi[r], outcome[r])
   BY <1>1, <1>8 DEF View, ViewWith
 <1>10. View(r)' = ViewOf(leased, lease[r].setting, contexts[r], mpi[r], how)
   BY <1>1, <1>7, <1>8 DEF View, ViewWith
 <1>11. /\ v.leased = leased /\ v.setting = lease[r].setting
        /\ v.contexts = contexts[r] /\ v.mpi = mpi[r]
   BY <1>9 DEF ViewOf
 <1>12. After(v, k) = ViewOf(leased, lease[r].setting, contexts[r], mpi[r], how)
   BY <1>2, <1>5, <1>11 DEF After
 <1> QED  BY <1>1, <1>3, <1>4, <1>7, <1>10, <1>12 DEF Owes, Starting

LEMMA HostFinalizesOwes ==
    ASSUME Standing, NEW r \in Job, NEW v, NEW k, WentIn(v, k, r),
           HostFinalizes(r)
    PROVE  Owes(v, k, r)
 <1> USE DEF Standing
 <1>1. FinalizeUnder \in ScriptCalls /\ Makes(r, FinalizeUnder)
   BY DEF ScriptCalls, HostFinalizes
 <1>2. /\ host' = host /\ spot[r] = "call" /\ k = at[r]
       /\ script'[k] = FinalizeUnder
   BY <1>1, CallMade DEF WentIn
 <1>3. /\ script'[k].do = "finalize" /\ View(r) = v
   BY <1>2, OpensAre DEF WentIn
 <1>4. /\ spot'[r] = "finalize" /\ outcome'[r] = "ok"
       /\ lease' = lease /\ contexts' = contexts /\ told' = told
   BY DEF HostFinalizes, LeaseTypeOK
 <1>5. PICK leased : leased = (lease[r] # NoLease)
   OBVIOUS
 <1>6. v = ViewOf(leased, lease[r].setting, contexts[r], mpi[r], outcome[r])
   BY <1>3, <1>5 DEF View, ViewWith
 <1>7. /\ v.leased = leased /\ v.setting = lease[r].setting
       /\ v.contexts = contexts[r]
   BY <1>6 DEF ViewOf
 <1>8. ViewWith(r, "finalized")'
         = ViewOf(leased, lease[r].setting, contexts[r], "finalized", "ok")
   BY <1>4, <1>5 DEF ViewWith
 <1>9. After(v, k)'
         = ViewOf(leased, lease[r].setting, contexts[r], "finalized", "ok")
   BY <1>3, <1>7 DEF After
 <1>10. Settled(v, k)'
   BY <1>3 DEF Settled, Asks
 <1> QED  BY <1>4, <1>8, <1>9, <1>10 DEF Owes, Starting

LEMMA EveryStepOwes ==
    ASSUME Standing, NEW r \in Job, NEW v, NEW k, WentIn(v, k, r),
           Cardinality(Job) # 1, LeaseStep(r)
    PROVE  Owes(v, k, r)
 <1>1. /\ Formed(r) \subseteq BOOLEAN /\ Seen(r) \subseteq {"yes", "no"}
   BY DEF Formed, Seen
 <1>2. CASE \E slot \in Slots, setting \in Settings : Share(r, slot, setting)
   BY <1>2, ShareOwes
 <1>3. ASSUME NEW slot \in Slots, NEW setting \in Settings, NEW forms \in BOOLEAN,
              StartThreads(r, slot, setting, forms)
       PROVE  FALSE
  <2>1. /\ Open(slot, setting) \in ScriptCalls /\ Makes(r, Open(slot, setting))
        /\ ~ setting.mpi
    BY <1>3 DEF ScriptCalls, StartThreads
  <2>2. Callable(Open(slot, setting))
    BY <2>1, CallMade DEF ScriptKept, Standing
  <2> QED  BY <2>1, <2>2, OpensAre DEF Callable
 <1>4. CASE \E slot \in Slots, setting \in Settings, available \in {"yes", "no"} :
              Attach(r, slot, setting, available)
   BY <1>4, AttachOwes
 <1>5. ASSUME NEW forms \in BOOLEAN, Compare(r, forms) \/ Gather(r, forms)
       PROVE  Owes(v, k, r)
  <2>1. spot[r] \in {"available", "gather"} /\ host' = host
    BY <1>5 DEF Compare, Gather
  <2>2. Goes(r, "gather") \/ Goes(r, "started")
    BY <1>5 DEF Compare, Gather, FormTeam
  <2> QED  BY <2>1, <2>2, FormTeamOwes DEF Starting
 <1> QED
   BY <1>1, <1>2, <1>3, <1>4, <1>5, StartedOwes, DestroyOwes, FinalizedOwes,
      PresentOwes, AgreedOwes, HostFinalizesOwes DEF LeaseStep

-----------------------------------------------------------------------------
LEMMA LeasesBegin ==
    ASSUME HostsAssumption, SettingsAssumption, LeaseInit
    PROVE  LeasesInv
 <1> USE DEF LeaseInit
 <1>1. host.calls \in Nat /\ host.openmp \in Teams /\ host \in Hosts
   BY JobIsFinite
 <1>2. Silent \in Passed
   BY DEF Silent, Passed, Identities
 <1>3. LeaseTypeOK
  <2>1. script = <<>> /\ script \in Seq(ScriptCalls) /\ Len(script) = 0
    OBVIOUS
  <2>2. told \in [1 .. host.calls -> [Job -> Passed]]
    BY <1>2
  <2>3. lease \in [Job -> Leases \union {NoLease}]
    OBVIOUS
  <2> QED  BY <1>1, <2>1, <2>2, <2>3 DEF LeaseTypeOK, Spots
 <1>4. ASSUME NEW r \in Job  PROVE RankIsWhole(r) /\ ToldInTime(r)
  <2>1. /\ lease[r] = NoLease /\ spot[r] = "call" /\ contexts[r] = {}
        /\ openmp[r] = host.openmp /\ handler[r] = "host"
        /\ mpi[r] = IF host.initialized THEN "live" ELSE "fresh"
    OBVIOUS
  <2>2. RankIsWhole(r)
    BY <2>1 DEF RankIsWhole, WithoutLease, Starting
  <2>3. ToldInTime(r)
    BY <2>1 DEF ToldInTime
  <2> QED  BY <2>2, <2>3
 <1>5. OnePast
  <2> DEFINE past == [k \in 0 .. host.calls |-> BareView("none")]
  <2>1. IsPast(past)
   <3>1. \A k \in 1 .. host.calls : ~ Made(k)
     BY <1>1 DEF Made
   <3>2. past[0] = BareView("none")
     BY <1>1
   <3> QED  BY <3>1, <3>2 DEF IsPast
  <2>2. ASSUME NEW r \in Job  PROVE Follows(past, r)
   <3>1. View(r) = BareView("none")
     BY DEF View, ViewWith, BareView, NoLease
   <3>2. spot[r] = "call" /\ past[at[r] - 1] = BareView("none")
     BY <1>1
   <3> HIDE DEF past
   <3> QED  BY <3>1, <3>2 DEF Follows, Starting
  <2> HIDE DEF past
  <2> QED  BY <2>1, <2>2 DEF OnePast
 <1> QED  BY <1>3, <1>4, <1>5 DEF LeasesInv

LEMMA LeasesGoOn ==
    ASSUME HostsAssumption, SettingsAssumption, LeasesInv, [LeaseNext]_leases
    PROVE  LeasesInv'
 <1>1. Standing
   BY DEF LeasesInv, Standing
 <1>2. CASE UNCHANGED leases
  <2>1. /\ host' = host /\ script' = script /\ at' = at /\ spot' = spot
        /\ mpi' = mpi /\ handler' = handler /\ openmp' = openmp
        /\ lease' = lease /\ contexts' = contexts /\ told' = told
        /\ outcome' = outcome
    BY <1>2 DEF leases, process
  <2>2. LeaseTypeOK'
    BY <2>1 DEF LeasesInv, LeaseTypeOK, Callable, Job, Passed, Identities, Leases
  <2>3. Job' = Job
    BY <2>1 DEF Job
  <2>4. ASSUME NEW r \in Job  PROVE RankIsWhole(r)' /\ ToldInTime(r)'
   <3>1. RankIsWhole(r) /\ ToldInTime(r)
     BY DEF LeasesInv
   <3>2. HasTeam(r)' = HasTeam(r) /\ TakesItsPart(r)' = TakesItsPart(r)
     BY <2>1, <2>3 DEF HasTeam, TakesItsPart, Node
   <3>3. WithLease(r)' = WithLease(r) /\ WithoutLease(r)' = WithoutLease(r)
     BY <2>1, <2>3, <3>2 DEF WithLease, WithoutLease
   <3>4. RankIsWhole(r)' = RankIsWhole(r)
     BY <2>1, <3>3 DEF RankIsWhole
   <3>5. ToldInTime(r)' = ToldInTime(r)
     BY <2>1 DEF ToldInTime, Told
   <3> QED  BY <3>1, <3>4, <3>5
  <2>5. OnePast => OnePast'
   <3> SUFFICES ASSUME OnePast  PROVE OnePast'
     OBVIOUS
   <3>1. PICK past : IsPast(past) /\ \A r \in Job : Follows(past, r)
     BY DEF OnePast
   <3>2. ASSUME NEW v, NEW k  PROVE After(v, k)' = After(v, k)
                                    /\ (Settled(v, k)' <=> Settled(v, k))
     BY <2>1, CallUnmoved
   <3>3. \A k : Made(k)' <=> Made(k)
     BY <2>1, <2>3 DEF Made
   <3>4. IsPast(past)'
     BY <2>1, <3>1, <3>2, <3>3 DEF IsPast, BareView
   <3>5. ASSUME NEW r \in Job  PROVE Follows(past, r)'
    <4>1. PICK k : k = at[r]
      OBVIOUS
    <4>2. PICK v : v = past[k - 1]
      OBVIOUS
    <4>3. WentIn(v, k, r)
      BY <3>1, <4>1, <4>2, FollowsWentIn
    <4>4. /\ View(r)' = View(r)
          /\ ViewWith(r, "finalized")' = ViewWith(r, "finalized")
          /\ BareView(outcome[r])' = BareView(outcome[r])
      BY <2>1 DEF View, ViewWith, BareView
    <4>5. After(v, k)' = After(v, k) /\ (Settled(v, k)' <=> Settled(v, k))
      BY <3>2
    <4>6. v = past[at'[r] - 1] /\ k = at'[r] /\ spot'[r] = spot[r]
          /\ spot[r] \in Spots
      BY <2>1, <4>1, <4>2 DEF LeasesInv, LeaseTypeOK
    <4> QED  BY <4>3, <4>4, <4>5, <4>6 DEF WentIn, Follows, Spots, Starting
   <3> QED  BY <2>3, <3>4, <3>5 DEF OnePast
  <2> QED  BY <2>2, <2>3, <2>4, <2>5 DEF LeasesInv
 <1>3. ASSUME NEW r \in Job, LeaseStep(r)  PROVE LeasesInv'
  <2>1. Beside(r) /\ RankIsWhole(r)' /\ ToldInTime(r)'
    BY <1>1, <1>3, EveryStepSteps DEF StepsWell
  <2>2. LeaseTypeOK' /\ Job' = Job
    BY <1>1, <2>1, BesideKeepsTypes DEF Standing, Beside, Job
  <2>3. ASSUME NEW s \in Job  PROVE RankIsWhole(s)' /\ ToldInTime(s)'
   <3>1. CASE s = r
     BY <2>1, <3>1
   <3>2. CASE s # r
     BY <1>1, <2>1, <3>2, BesideKeepsOthers DEF Standing
   <3> QED  BY <3>1, <3>2
  <2>4. ASSUME Cardinality(Job) # 1  PROVE OnePast'
   <3>1. PICK past : IsPast(past) /\ \A s \in Job : Follows(past, s)
     BY <2>4 DEF LeasesInv, OnePast
   <3>2. PICK k : k = at[r]
     OBVIOUS
   <3>3. PICK v : v = past[k - 1]
     OBVIOUS
   <3>4. WentIn(v, k, r)
     BY <3>1, <3>2, <3>3, FollowsWentIn
   <3>5. Owes(v, k, r)
     BY <1>1, <1>3, <2>4, <3>4, EveryStepOwes
   <3> QED  BY <1>1, <2>1, <3>1, <3>2, <3>3, <3>5, OnePastGoesOn
  <2> QED  BY <2>2, <2>3, <2>4 DEF LeasesInv
 <1> QED  BY <1>2, <1>3 DEF LeaseNext, LeasesDone

(* Teams that keep to their part fit on the node together.                 *)
LEMMA PartsFit ==
    ASSUME NEW m \in Nat, NEW n \in Nat \ {0}, NEW t \in Nat,
           t <= Max({1, m \div n})
    PROVE  t * n <= Max({m, n})
 <1>1. m \div n \in Nat /\ (m \div n) * n <= m
   OBVIOUS
 <1>2. PICK q \in Nat : q = m \div n /\ q * n <= m
   BY <1>1
 <1>3. t <= 1 \/ t <= q
   BY <1>2, GreaterOfTwo
 <1>4. m <= Max({m, n}) /\ n <= Max({m, n}) /\ Max({m, n}) \in Nat
   BY GreaterOfTwo
 <1>5. CASE t <= 1
  <2>1. t = 0 \/ t = 1
    BY <1>5
  <2>2. t * n = 0 \/ t * n = n
    BY <2>1
  <2> QED  BY <1>4, <2>2
 <1>6. CASE t <= q
  <2>1. t * n <= q * n
    BY <1>2, <1>6
  <2>2. t * n \in Nat /\ q * n \in Nat
    BY <1>2
  <2> QED  BY <1>2, <1>4, <2>1, <2>2
 <1> QED  BY <1>3, <1>5, <1>6

LEMMA WholeLeases ==
    ASSUME HostsAssumption, SettingsAssumption, LeasesInv
    PROVE  LeasesAreWhole
 <1> USE DEF LeasesInv
 <1>1. ASSUME NEW r \in Job, spot[r] = "call"
       PROVE  /\ lease[r] = NoLease <=> contexts[r] = {}
              /\ contexts[r] # {} =>
                   /\ WithLease(r) /\ HasTeam(r) /\ lease[r] \in Leases
              /\ contexts[r] = {} => WithoutLease(r)
   BY <1>1 DEF RankIsWhole, WithLease, WithoutLease, Starting, LeaseTypeOK
 <1>2. LeaseIsWhole
  <2> SUFFICES ASSUME NEW r \in Job, spot[r] = "call"
               PROVE  /\ lease[r] = NoLease <=> contexts[r] = {}
                      /\ contexts[r] # {} =>
                           /\ openmp[r] \in {TeamOf(n) : n \in 1 .. host.limit[r]}
                           /\ lease[r].setting.threads # 0 =>
                                openmp[r].threads = lease[r].setting.threads
                           /\ lease[r].setting.mpi =>
                                /\ mpi[r] = "live" => handler[r] = "return"
                                /\ mpi[r] # "live" => host.initialized
                      /\ contexts[r] = {} =>
                           /\ openmp[r] = host.openmp
                           /\ mpi[r] = "live" =>
                                host.initialized /\ handler[r] = "host"
    BY DEF LeaseIsWhole
  <2>1. ASSUME contexts[r] # {}
        PROVE  /\ openmp[r] \in {TeamOf(n) : n \in 1 .. host.limit[r]}
               /\ lease[r].setting.threads # 0 =>
                    openmp[r].threads = lease[r].setting.threads
   <3>1. PICK n \in 1 .. host.limit[r] :
            /\ openmp[r] = TeamOf(n)
            /\ lease[r].setting.threads # 0 => n = lease[r].setting.threads
     BY <1>1, <2>1 DEF HasTeam
   <3>2. openmp[r].threads = n
     BY <3>1 DEF TeamOf
   <3> QED  BY <3>1, <3>2
  <2> QED  BY <1>1, <2>1 DEF WithLease, WithoutLease
 <1>3. ASSUME NEW r \in Job, NEW s \in Job, at[r] = at[s],
              spot[r] = "call", spot[s] = "call"
       PROVE  outcome[r] = outcome[s] /\ contexts[r] = contexts[s]
  <2>1. CASE Cardinality(Job) = 1
   <3>1. PICK x : Job = {x}
     BY <2>1, JobIsFinite, FS_Singleton DEF LeaseTypeOK
   <3> QED  BY <3>1
  <2>2. CASE Cardinality(Job) # 1
   <3>1. PICK past : IsPast(past) /\ \A q \in Job : Follows(past, q)
     BY <2>2 DEF OnePast
   <3>2. View(r) = past[at[r] - 1] /\ View(s) = past[at[s] - 1]
     BY <1>3, <3>1 DEF Follows, Starting
   <3>3. View(r) = View(s)
     BY <1>3, <3>2
   <3> QED  BY <3>3 DEF View, ViewWith, ViewOf
  <2> QED  BY <2>1, <2>2
 <1>4. ASSUME NEW r \in Job,
              \A q \in Node(r) : /\ spot[q] = "call" /\ contexts[q] # {}
                                 /\ lease[q].ceiling > 0
                                 /\ lease[q].setting.threads = 0,
              NEW q \in Node(r)
       PROVE  openmp[q].threads * Cardinality(Node(r))
                <= Max({Cardinality(host.mask[r]), Cardinality(Node(r))})
  <2>1. q \in Job /\ r \in Node(q) /\ Node(q) = Node(r)
    BY DEF Node
  <2>2. WithLease(q) /\ HasTeam(q)
    BY <1>1, <1>4, <2>1
  <2>3. PICK n \in 1 .. host.limit[q] :
           openmp[q] = TeamOf(n) /\ n <= lease[q].ceiling
    BY <1>4, <2>2 DEF HasTeam
  <2>4. host.limit[q] \in Nat /\ n \in Nat /\ openmp[q].threads = n
    BY <2>1, <2>3, JobIsFinite DEF LeaseTypeOK, TeamOf
  <2>5. /\ host.mask[r] = host.mask[q]
        /\ lease[q].ceiling = Max({1, Cardinality(host.mask[q])
                                        \div Cardinality(Node(q))})
    BY <1>4, <2>1, <2>2 DEF WithLease, TakesItsPart
  <2>6. /\ Cardinality(host.mask[r]) \in Nat
        /\ Cardinality(Node(r)) \in Nat \ {0}
    BY SizesAreNumbers DEF LeaseTypeOK
  <2>7. n <= Max({1, Cardinality(host.mask[r]) \div Cardinality(Node(r))})
    BY <2>1, <2>3, <2>5
  <2> QED  BY <2>4, <2>6, <2>7, PartsFit
 <1>5. StartedTogether
   BY <1>3, <1>4 DEF StartedTogether
 <1> QED  BY <1>2, <1>5 DEF LeasesAreWhole

(* In every job the lease of a process is whole and its ranks are of one   *)
(* mind: RankIsWhole for each by itself, one past for all of them.         *)
THEOREM LeasesInvariant == LeaseSpec => []LeasesInv
 <1>1. LeaseInit => LeasesInv
   BY LeaseAssumption, LeasesBegin
 <1>2. LeasesInv /\ [LeaseNext]_leases => LeasesInv'
   BY LeaseAssumption, LeasesGoOn
 <1> QED  BY <1>1, <1>2, PTL DEF LeaseSpec

(* What the leases promise to the program: between two calls the settings  *)
(* are those of the lease or those it found, on every rank, whatever       *)
(* failed in a start; the ranks got the same answers and hold the same     *)
(* contexts; and the automatic teams of a node fit on it.                  *)
THEOREM LeasesHold == LeaseSpec => []LeasesAreWhole
 <1>1. LeasesInv => LeasesAreWhole
   BY LeaseAssumption, WholeLeases
 <1> QED  BY <1>1, LeasesInvariant, PTL
=============================================================================
