--------------------------- MODULE AgreedOutcome ---------------------------
(***************************************************************************)
(* What a collective operation of HYOWON promises to the ranks that take   *)
(* part in it: one verdict for the whole communicator.  Every caller of    *)
(* runtime::synchronize_mpi_exception writes the code after the call as if *)
(* this were all that happened.  A transport error is the only way out of  *)
(* the promise, and it takes the whole job down (MPI_Abort).               *)
(***************************************************************************)
CONSTANT Ranks

VARIABLES verdict,   \* what the communicator decided
          result     \* what each rank has returned with

vars == <<verdict, result>>

Verdicts == {"commit", "fail"}
Results  == Verdicts \union {"none", "aborted"}

Init == /\ verdict = "undecided"
        /\ result = [r \in Ranks |-> "none"]

Decide(v) == /\ verdict = "undecided"
             /\ verdict' = v
             /\ UNCHANGED result

Learn(r) == /\ verdict \in Verdicts
            /\ result[r] = "none"
            /\ result' = [result EXCEPT ![r] = verdict]
            /\ UNCHANGED verdict

Kill == /\ result' = [r \in Ranks |-> "aborted"]
        /\ UNCHANGED verdict

Next == \/ \E v \in Verdicts : Decide(v)
        \/ \E r \in Ranks : Learn(r)
        \/ Kill

Spec == Init /\ [][Next]_vars
=============================================================================
