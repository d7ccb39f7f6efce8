-------------------------- MODULE CollectiveStage --------------------------
(***************************************************************************)
(* A collective operation of HYOWON is a sequence of stages.  In a stage   *)
(* every rank does its local work in a try block, keeps the exception it   *)
(* caught, if any, and calls runtime::synchronize_mpi_exception, which     *)
(* reduces "I failed" with MPI_MAX over the communicator: a rank leaves    *)
(* the call when every rank has entered it, and leaves by an exception if  *)
(* any rank failed.  Checkpoints, particle migration, ghost exchange, the  *)
(* integrator and the start of the runtime are all written this way.       *)
(*                                                                         *)
(* MPI itself is external.  The reduction is modelled by the contribution  *)
(* of each rank to the k-th call; an MPI status other than MPI_SUCCESS     *)
(* leads the code to MPI_Abort, which ends every process of the job.       *)
(*                                                                         *)
(* A definition marked "fault" is a plausible mistake in the definition    *)
(* that follows it; no action uses it.                                     *)
(***************************************************************************)
EXTENDS Naturals

CONSTANTS Ranks,      \* the processes of MPI_COMM_WORLD
          NumStages   \* synchronized stages in the operation

StageAssumption == /\ Ranks # {}
                   /\ NumStages \in Nat \ {0}

VARIABLES stage,    \* stage[r]: the stage rank r is in
          pc,       \* pc[r]: where rank r is inside that stage
          contrib,  \* contrib[k][r]: what r passed to the k-th MPI_Allreduce
          error     \* error[r]: whose exception rank r left with

vars == <<stage, pc, contrib, error>>

Stages == 1 .. NumStages
Terminal == {"returned", "threw", "aborted"}

Init == /\ stage = [r \in Ranks |-> 1]
        /\ pc = [r \in Ranks |-> "work"]
        /\ contrib = [k \in Stages |-> [r \in Ranks |-> "absent"]]
        /\ error = [r \in Ranks |-> "none"]

-----------------------------------------------------------------------------
(* The k-th MPI_Allreduce: it completes when every rank has called it, and *)
(* its MPI_MAX is 1 when some rank passed 1.                               *)
LeaveAlone(k) == TRUE                                            \* fault
Complete(k) == \A r \in Ranks : contrib[k][r] # "absent"

EveryoneFailed(k) == \A r \in Ranks : contrib[k][r] = "failed"   \* fault
AnyFailed(k) == \E r \in Ranks : contrib[k][r] = "failed"

(* The try block and the catch (...) of a stage, then the entry of the     *)
(* reduction with local_failed.                                            *)
ThrowBeforeReduction(r, outcome) ==                              \* fault
    /\ pc[r] = "work"
    /\ IF outcome = "failed"
         THEN /\ pc' = [pc EXCEPT ![r] = "threw"]
              /\ error' = [error EXCEPT ![r] = "own"]
              /\ UNCHANGED contrib
         ELSE /\ pc' = [pc EXCEPT ![r] = "reduce"]
              /\ contrib' = [contrib EXCEPT ![stage[r]][r] = outcome]
              /\ UNCHANGED error
    /\ UNCHANGED stage

Work(r, outcome) ==
    /\ pc[r] = "work"
    /\ contrib' = [contrib EXCEPT ![stage[r]][r] = outcome]
    /\ pc' = [pc EXCEPT ![r] = "reduce"]
    /\ UNCHANGED <<stage, error>>

(* any_failed == 0: the rank goes on to the next stage, or returns after   *)
(* the last one.                                                           *)
Proceed(r) ==
    /\ pc[r] = "reduce"
    /\ Complete(stage[r])
    /\ ~ AnyFailed(stage[r])
    /\ IF stage[r] = NumStages
         THEN /\ pc' = [pc EXCEPT ![r] = "returned"]
              /\ UNCHANGED stage
         ELSE /\ pc' = [pc EXCEPT ![r] = "work"]
              /\ stage' = [stage EXCEPT ![r] = @ + 1]
    /\ UNCHANGED <<contrib, error>>

(* any_failed != 0: a rank that holds an exception rethrows it, every      *)
(* other rank throws "failed on another MPI rank".                         *)
OwnErrorLost(r) ==                                               \* fault
    /\ pc[r] = "reduce"
    /\ Complete(stage[r])
    /\ AnyFailed(stage[r])
    /\ pc' = [pc EXCEPT ![r] = "threw"]
    /\ error' = [error EXCEPT ![r] = "peer"]
    /\ UNCHANGED <<stage, contrib>>

Throw(r) ==
    /\ pc[r] = "reduce"
    /\ Complete(stage[r])
    /\ AnyFailed(stage[r])
    /\ pc' = [pc EXCEPT ![r] = "threw"]
    /\ error' = [error EXCEPT ![r] =
                   IF contrib[stage[r]][r] = "failed" THEN "own" ELSE "peer"]
    /\ UNCHANGED <<stage, contrib>>

(* status != MPI_SUCCESS: MPI_Abort(MPI_COMM_WORLD) and std::abort.        *)
TransportFailure(r) ==
    /\ pc[r] = "reduce"
    /\ pc' = [s \in Ranks |-> "aborted"]
    /\ UNCHANGED <<stage, contrib, error>>

Finished == /\ \A r \in Ranks : pc[r] \in Terminal
            /\ UNCHANGED vars

Step(r) == \/ \E outcome \in {"ok", "failed"} : Work(r, outcome)
           \/ Proceed(r)
           \/ Throw(r)

Next == \/ \E r \in Ranks : Step(r) \/ TransportFailure(r)
        \/ Finished

Spec == Init /\ [][Next]_vars

(* A rank that is not blocked in MPI keeps running, and a reduction that   *)
(* every rank has entered completes: both are what MPI promises.           *)
FairSpec == Spec /\ \A r \in Ranks : WF_vars(Step(r))

-----------------------------------------------------------------------------
TypeOK == /\ stage \in [Ranks -> Stages]
          /\ pc \in [Ranks -> {"work", "reduce"} \union Terminal]
          /\ contrib \in [Stages -> [Ranks -> {"absent", "ok", "failed"}]]
          /\ error \in [Ranks -> {"none", "own", "peer"}]

(* No two ranks leave one collective operation with different outcomes:    *)
(* the code after the last stage publishes on every rank or on none.       *)
Agreement == \A r, s \in Ranks : ~ (pc[r] = "returned" /\ pc[s] = "threw")

(* A rank starts the work of a later stage only after every rank finished  *)
(* all the earlier ones without an exception: the second stage may rely on *)
(* what the peers did in the first (the directory rank 0 made, a count).   *)
NoRunAhead ==
    \A r, s \in Ranks : \A k \in Stages :
        (k < stage[r] \/ pc[r] = "returned") => contrib[k][s] = "ok"

(* The rank that failed reports its own error, and a rank told of a peer's *)
(* failure is told the truth: that peer's exception is in the same stage.  *)
BlameIsTrue ==
    \A r \in Ranks :
        /\ error[r] = "own"  => contrib[stage[r]][r] = "failed"
        /\ error[r] = "peer" => /\ contrib[stage[r]][r] = "ok"
                                /\ \E s \in Ranks \ {r} :
                                     /\ contrib[stage[r]][s] = "failed"
                                     /\ stage[s] = stage[r]

(* No rank is left waiting in MPI for one that has already gone: a failure *)
(* on one rank still brings every rank out of the operation.               *)
EveryRankLeaves == <>(\A r \in Ranks : pc[r] \in Terminal)

-----------------------------------------------------------------------------
(* The stages implement one agreed outcome.                                *)
AllOk == \A k \in Stages : \A r \in Ranks : contrib[k][r] = "ok"

Verdict == IF \E k \in Stages : AnyFailed(k) THEN "fail"
           ELSE IF AllOk THEN "commit" ELSE "undecided"

Outcome(p) == IF p = "returned" THEN "commit"
              ELSE IF p = "threw" THEN "fail"
              ELSE IF p = "aborted" THEN "aborted" ELSE "none"

Result == [r \in Ranks |-> Outcome(pc[r])]

A == INSTANCE AgreedOutcome WITH verdict <- Verdict, result <- Result

(* Seen through the outcome each rank leaves with, any number of stages is *)
(* a single decision that every rank learns.                               *)
ImplementsAgreedOutcome == A!Spec
=============================================================================
