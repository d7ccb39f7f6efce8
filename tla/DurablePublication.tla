------------------------ MODULE DurablePublication -------------------------
(***************************************************************************)
(* How HYOWON makes a product visible under its canonical pathname:        *)
(* DurableFilePublication and DurableDirectoryPublication.  A publisher    *)
(* writes a private sibling ("stage"), flushes it, renames it onto the     *)
(* canonical name and flushes the parent directory.  Several processes may *)
(* publish the same name, the machine may lose power at any point, and a   *)
(* network file system may report an error for a rename it has carried     *)
(* out.                                                                    *)
(*                                                                         *)
(* The file system is external: the canonical name leads to the object of  *)
(* one publisher; a directory operation is durable once the parent was     *)
(* flushed, and until then a power failure leaves any of the states since  *)
(* the last flush; the bytes of an object that was not flushed are         *)
(* arbitrary after a power failure.                                        *)
(***************************************************************************)
EXTENDS FiniteSets, Naturals, TLC

CONSTANTS Publishers,   \* processes that publish under the canonical name
          Replacers,    \* those that use ReplaceExisting; the others RequireAbsent
          Directories,  \* those that publish a directory (always create-only)
          LateErrors,   \* can a completed rename be reported as an error?
          MaxCrashes,   \* bound on power failures
          None,         \* no object under the canonical name
          Old           \* an object that was there at the start

ASSUME PublisherAssumption ==
    /\ Replacers \subseteq Publishers
    /\ Directories \subseteq Publishers \ Replacers
    /\ {None, Old} \cap Publishers = {}
    /\ None # Old
    /\ LateErrors \in BOOLEAN
    /\ MaxCrashes \in Nat

VARIABLES entry,     \* the object the canonical name leads to
          durable,   \* what the name may lead to after a power failure now
          data,      \* data[p]: the bytes of p's object
          flushed,   \* flushed[p]: fsync of p's object returned
          stage,     \* stage[p]: p's staging pathname exists
          closeErr,  \* closeErr[p]: an HDF5 close failed since the construction
          pc,        \* where p is in its publication
          crashes    \* power failures so far

vars == <<entry, durable, data, flushed, stage, closeErr, pc, crashes>>

(* For a configuration: replacing writers are interchangeable.             *)
Symmetry == Permutations(Replacers)

Terminal == {"committed", "failed", "dead"}
Visible(p) == pc[p] \in {"visible", "committed"}

Init == /\ entry \in {None, Old}
        /\ durable = {entry}
        /\ data = [p \in Publishers |-> "nothing"]
        /\ flushed = [p \in Publishers |-> FALSE]
        /\ stage = [p \in Publishers |-> FALSE]
        /\ closeErr = [p \in Publishers |-> FALSE]
        /\ pc = [p \in Publishers |-> "idle"]
        /\ crashes = 0

Goto(p, label) == pc' = [pc EXCEPT ![p] = label]

-----------------------------------------------------------------------------
(* require_destination_policy: absent, or a regular file to be replaced.   *)
PolicyAdmits(p) == \/ entry = None
                   \/ p \in Replacers /\ entry \notin Directories

(* DurableFilePublication::DurableFilePublication *)
ConstructFile(p) ==
    /\ pc[p] = "idle"
    /\ p \notin Directories
    /\ Goto(p, IF PolicyAdmits(p) THEN "writing" ELSE "failed")
    /\ UNCHANGED <<entry, durable, data, flushed, stage, closeErr, crashes>>

(* DurableDirectoryPublication::DurableDirectoryPublication makes the      *)
(* staging directory itself.                                               *)
ConstructDirectory(p) ==
    /\ pc[p] = "idle"
    /\ p \in Directories
    /\ \/ /\ entry = None
          /\ Goto(p, "writing")
          /\ stage' = [stage EXCEPT ![p] = TRUE]
       \/ /\ Goto(p, "failed")
          /\ UNCHANGED stage
    /\ UNCHANGED <<entry, durable, data, flushed, closeErr, crashes>>

(* The caller writes the stage.  It may throw, leaving what it wrote, and  *)
(* an HDF5 handle of the process may fail to close, with or without loss.  *)
WriteStage(p, bytes, failedClose) ==
    /\ pc[p] = "writing"
    /\ bytes = "partial" => failedClose
    /\ data' = [data EXCEPT ![p] = bytes]
    /\ stage' = [stage EXCEPT ![p] = TRUE]
    /\ closeErr' = [closeErr EXCEPT ![p] = failedClose]
    /\ Goto(p, "written")
    /\ UNCHANGED <<entry, durable, flushed, crashes>>

WriterThrows(p) ==
    /\ pc[p] = "writing"
    /\ \/ UNCHANGED <<data, stage>>
       \/ /\ data' = [data EXCEPT ![p] = "partial"]
          /\ stage' = [stage EXCEPT ![p] = TRUE]
    /\ Goto(p, "failing")
    /\ UNCHANGED <<entry, durable, flushed, closeErr, crashes>>

(* The first half of publish_nonempty: the close-integrity epoch, the size *)
(* check and fsync of the stage, any of which may throw.                   *)
SyncWithoutCloseCheck(p) ==                                      \* fault
    /\ pc[p] = "written"
    /\ Goto(p, "synced")
    /\ flushed' = [flushed EXCEPT ![p] = TRUE]
    /\ UNCHANGED <<entry, durable, data, stage, closeErr, crashes>>

SyncStage(p) ==
    /\ pc[p] = "written"
    /\ \/ /\ ~ closeErr[p]
          /\ Goto(p, "synced")
          /\ flushed' = [flushed EXCEPT ![p] = TRUE]
       \/ /\ Goto(p, "failing")
          /\ UNCHANGED flushed
    /\ UNCHANGED <<entry, durable, data, stage, closeErr, crashes>>

(* The preflight before the rename of a file: only a diagnostic for        *)
(* RequireAbsent, because another process may still come in between.       *)
Preflight(p) ==
    /\ pc[p] = "synced"
    /\ Goto(p, IF p \in Directories \/ PolicyAdmits(p) THEN "ready"
                                                       ELSE "failing")
    /\ UNCHANGED <<entry, durable, data, flushed, stage, closeErr, crashes>>

(* renameat2(RENAME_NOREPLACE), or rename for ReplaceExisting.  The        *)
(* object moves from the stage to the canonical name in one step.          *)
PlainRename(p) == entry \notin Directories                       \* fault
MayRename(p) == PolicyAdmits(p)

Move(p) == /\ entry' = p
           /\ durable' = durable \union {p}
           /\ stage' = [stage EXCEPT ![p] = FALSE]

(* atomic_publish of a file: an error is thrown as it is reported.         *)
MarkedLate(p) ==                                                 \* fault
    /\ pc[p] = "ready"
    /\ p \notin Directories
    /\ \/ MayRename(p) /\ Move(p) /\ pc' \in {[pc EXCEPT ![p] = l] :
                                              l \in {"visible", "failing"}}
       \/ UNCHANGED <<entry, durable, stage>> /\ Goto(p, "failing")
    /\ UNCHANGED <<data, flushed, closeErr, crashes>>

RenameFile(p) ==
    /\ pc[p] = "ready"
    /\ p \notin Directories
    /\ \/ MayRename(p) /\ Move(p) /\ Goto(p, "visible")
       \/ LateErrors /\ MayRename(p) /\ Move(p) /\ Goto(p, "failing")
       \/ UNCHANGED <<entry, durable, stage>> /\ Goto(p, "failing")
    /\ UNCHANGED <<data, flushed, closeErr, crashes>>

(* publish_nonempty of a directory: after an error it looks whether the    *)
(* canonical name leads to its own object and the stage is gone, and then  *)
(* continues as after a success.  The look may fail as well (fstatat).     *)
RenameDirectory(p) ==
    /\ pc[p] = "ready"
    /\ p \in Directories
    /\ \/ MayRename(p) /\ Move(p) /\ Goto(p, "visible")
       \/ LateErrors /\ MayRename(p) /\ Move(p) /\ Goto(p, "failing")
       \/ UNCHANGED <<entry, durable, stage>> /\ Goto(p, "failing")
    /\ UNCHANGED <<data, flushed, closeErr, crashes>>

(* The second half of publish_nonempty: the object under the name is       *)
(* checked, the parent is flushed, the publication is committed.  A throw  *)
(* here leaves the object where it is.                                     *)
CommitUnsynced(p) ==                                             \* fault
    /\ pc[p] = "visible"
    /\ Goto(p, "committed")
    /\ UNCHANGED <<entry, durable, data, flushed, stage, closeErr, crashes>>

Commit(p) ==
    /\ pc[p] = "visible"
    /\ \/ /\ p \in Directories => entry = p
          /\ durable' = {entry}
          /\ Goto(p, "committed")
       \/ /\ Goto(p, "failed")
          /\ UNCHANGED durable
    /\ UNCHANGED <<entry, data, flushed, stage, closeErr, crashes>>

(* The destructor, or the caller's discard_unpublished: remove the stage   *)
(* if it is there and flush the parent.  Cleanup errors are swallowed.     *)
Discard(p) ==
    /\ pc[p] = "failing"
    /\ \/ /\ stage[p]
          /\ stage' = [stage EXCEPT ![p] = FALSE]
          /\ durable' \in {durable, {entry}}
       \/ UNCHANGED <<stage, durable>>
    /\ Goto(p, "failed")
    /\ UNCHANGED <<entry, data, flushed, closeErr, crashes>>

-----------------------------------------------------------------------------
(* The process of p is killed; the file system does not notice.            *)
Kill(p) == /\ pc[p] \notin Terminal \union {"idle"}
           /\ Goto(p, "dead")
           /\ UNCHANGED <<entry, durable, data, flushed, stage, closeErr, crashes>>

(* Power fails: every running publisher dies, the name leads to one of its *)
(* possible durable objects, and unflushed bytes are whatever they are.    *)
PowerFailure ==
    /\ crashes < MaxCrashes
    /\ crashes' = crashes + 1
    /\ entry' \in durable
    /\ durable' = {entry'}
    /\ \E lost \in SUBSET {p \in Publishers : ~ flushed[p]} :
          data' = [p \in Publishers |->
                     IF p \in lost /\ data[p] # "nothing" THEN "partial"
                                                          ELSE data[p]]
    /\ pc' = [p \in Publishers |->
                IF pc[p] \in Terminal \union {"idle"} THEN pc[p] ELSE "dead"]
    /\ UNCHANGED <<flushed, stage, closeErr>>

Publish(p) ==
    \/ ConstructFile(p) \/ ConstructDirectory(p)
    \/ \E bytes \in {"partial", "full"}, failedClose \in BOOLEAN :
          WriteStage(p, bytes, failedClose)
    \/ WriterThrows(p) \/ SyncStage(p) \/ Preflight(p)
    \/ RenameFile(p) \/ RenameDirectory(p) \/ Commit(p) \/ Discard(p)

Finished == /\ \A p \in Publishers : pc[p] \in Terminal
            /\ UNCHANGED vars

Next == \/ \E p \in Publishers : Publish(p) \/ Kill(p)
        \/ PowerFailure
        \/ Finished

Spec == Init /\ [][Next]_vars

-----------------------------------------------------------------------------
Objects == Publishers \union {None, Old}

TypeOK ==
    /\ entry \in Objects
    /\ durable \subseteq Objects /\ entry \in durable
    /\ data \in [Publishers -> {"nothing", "partial", "full"}]
    /\ flushed \in [Publishers -> BOOLEAN]
    /\ stage \in [Publishers -> BOOLEAN]
    /\ closeErr \in [Publishers -> BOOLEAN]
    /\ pc \in [Publishers -> Terminal \union
                 {"idle", "writing", "written", "synced", "ready",
                  "visible", "failing"}]
    /\ crashes \in 0 .. MaxCrashes

(* Whoever opens the canonical name, at any time and after any power       *)
(* failure, finds a complete object: the stage is flushed and its handles  *)
(* closed without error before the name can lead to it.                    *)
NoTornFile == \A e \in durable : e \in Publishers => data[e] = "full"

(* A publication that returned survives power loss: the name leads to it,  *)
(* or to a complete replacement, never to what was there before.           *)
CommittedIsDurable ==
    \A p \in Publishers : pc[p] = "committed" =>
        \A e \in durable : e = p \/ e \in Replacers

(* A publication that failed without having become visible has not changed *)
(* the canonical name (what the destructor assumes when it is quiet about  *)
(* its own errors).                                                        *)
FailedLeavesNothing ==
    \A p \in Publishers :
        pc[p] = "failing" => p \notin durable

(* Create-only never takes the name away from an object that has it, even  *)
(* when the object appeared after the preflight: only a ReplaceExisting    *)
(* publisher, and only over a file, or a power failure changes it.         *)
CreateOnlyNeverReplaces ==
    [][entry # None /\ entry' # entry =>
         \/ crashes' # crashes
         \/ entry' \in Replacers /\ entry \notin Directories]_vars

(* Once the name certainly leads to something it always does: there is no  *)
(* moment, and no power failure, in which a replacement is half done.      *)
NeverLost == [][None \notin durable => None \notin durable']_vars

(* What may happen to a name that leads to an object, in one property.     *)
NameIsKept == CreateOnlyNeverReplaces /\ NeverLost
=============================================================================
