--------------------- MODULE DurablePublication_proofs ---------------------
(***************************************************************************)
(* Proofs about DurablePublication for any set of publishers, any mixture  *)
(* of policies, any number of power failures, and with or without late     *)
(* errors: a reader never finds a torn product, a committed product is     *)
(* durable, create-only never replaces, and a name is never lost.          *)
(***************************************************************************)
EXTENDS DurablePublication, TLAPS

(* What has been flushed is complete: the writer finished it, or the close *)
(* check sent the publication away.                                        *)
FlushedIsFull ==
    \A p \in Publishers :
        /\ pc[p] = "written" /\ ~ closeErr[p] => data[p] = "full"
        /\ pc[p] \in {"synced", "ready"} => flushed[p]
        /\ flushed[p] => data[p] = "full" /\ pc[p] \notin {"idle", "writing"}

(* The name can lead only to objects that were flushed before the rename.  *)
DurableIsFlushed ==
    /\ entry \in durable
    /\ durable \subseteq Publishers \union {None, Old}
    /\ \A p \in Publishers : p \in durable => flushed[p]

(* A visible object is still there, or was replaced by a complete one.     *)
VisibleOrReplaced ==
    \A p \in Publishers :
        pc[p] \in {"visible", "committed"} => entry = p \/ entry \in Replacers

IInv == /\ TypeOK
        /\ FlushedIsFull
        /\ DurableIsFlushed
        /\ VisibleOrReplaced
        /\ CommittedIsDurable

-----------------------------------------------------------------------------
LEMMA InitEstablishes == Init => IInv
  BY PublisherAssumption
  DEF Init, IInv, TypeOK, Objects, FlushedIsFull, DurableIsFlushed,
      VisibleOrReplaced, CommittedIsDurable, Terminal

(* The steps before the rename touch neither the name nor another object.  *)
LEMMA BeforeRenamePreserves ==
    ASSUME IInv, NEW p \in Publishers,
           \/ ConstructFile(p) \/ ConstructDirectory(p)
           \/ \E bytes \in {"partial", "full"}, failedClose \in BOOLEAN :
                 WriteStage(p, bytes, failedClose)
           \/ WriterThrows(p) \/ SyncStage(p) \/ Preflight(p)
    PROVE  IInv'
 <1> USE DEF Goto, Terminal
 <1>1. entry' = entry /\ durable' = durable /\ crashes' = crashes
   BY DEF ConstructFile, ConstructDirectory, WriteStage, WriterThrows,
          SyncStage, Preflight
 <1>2. /\ pc' \in [Publishers -> Terminal \union
                     {"idle", "writing", "written", "synced", "ready",
                      "visible", "failing"}]
       /\ \A q \in Publishers : pc'[q] \in {"visible", "committed"} =>
              pc'[q] = pc[q]
   BY DEF IInv, TypeOK, ConstructFile, ConstructDirectory, WriteStage,
          WriterThrows, SyncStage, Preflight
 <1>3. /\ data' \in [Publishers -> {"nothing", "partial", "full"}]
       /\ flushed' \in [Publishers -> BOOLEAN]
       /\ stage' \in [Publishers -> BOOLEAN]
       /\ closeErr' \in [Publishers -> BOOLEAN]
  <2>1. CASE \E bytes \in {"partial", "full"}, failedClose \in BOOLEAN :
               WriteStage(p, bytes, failedClose)
    BY <2>1 DEF IInv, TypeOK, WriteStage
  <2>2. CASE ~ \E bytes \in {"partial", "full"}, failedClose \in BOOLEAN :
               WriteStage(p, bytes, failedClose)
    BY <2>2 DEF IInv, TypeOK, ConstructFile, ConstructDirectory,
                WriterThrows, SyncStage, Preflight
  <2> QED
    BY <2>1, <2>2
 <1>4. TypeOK'
   BY <1>1, <1>2, <1>3 DEF IInv, TypeOK, Objects
 <1>5. FlushedIsFull' /\ \A q \in Publishers : flushed[q] => flushed'[q]
   BY DEF IInv, TypeOK, FlushedIsFull, ConstructFile, ConstructDirectory,
          WriteStage, WriterThrows, SyncStage, Preflight
 <1>6. DurableIsFlushed'
   BY <1>1, <1>5 DEF IInv, DurableIsFlushed
 <1>7. VisibleOrReplaced' /\ CommittedIsDurable'
   BY <1>1, <1>2 DEF IInv, VisibleOrReplaced, CommittedIsDurable
 <1> QED
   BY <1>4, <1>5, <1>6, <1>7 DEF IInv

(* The rename: whoever is already visible can only be replaced by a        *)
(* ReplaceExisting publisher.                                              *)
LEMMA RenamePreserves ==
    ASSUME IInv, NEW p \in Publishers, RenameFile(p) \/ RenameDirectory(p)
    PROVE  IInv'
 <1> USE DEF Goto, Terminal
 <1>1. pc[p] = "ready"
   BY DEF RenameFile, RenameDirectory
 <1>2. /\ UNCHANGED <<data, flushed, closeErr, crashes>>
       /\ \/ pc' = [pc EXCEPT ![p] = "visible"]
             /\ MayRename(p) /\ Move(p)
          \/ pc' = [pc EXCEPT ![p] = "failing"]
             /\ MayRename(p) /\ Move(p)
          \/ pc' = [pc EXCEPT ![p] = "failing"]
             /\ UNCHANGED <<entry, durable, stage>>
   BY DEF RenameFile, RenameDirectory
 <1>3. CASE UNCHANGED <<entry, durable, stage>>
   BY <1>1, <1>2, <1>3 DEF IInv, TypeOK, Objects, FlushedIsFull,
      DurableIsFlushed, VisibleOrReplaced, CommittedIsDurable, Move
 <1>4. CASE MayRename(p) /\ Move(p)
  <2>1. flushed[p]
    BY <1>1 DEF IInv, FlushedIsFull
  <2>2. TypeOK'
    BY <1>2, <1>4 DEF IInv, TypeOK, Objects, Move
  <2>3. FlushedIsFull' /\ DurableIsFlushed'
    BY <1>1, <1>2, <1>4, <2>1
    DEF IInv, TypeOK, FlushedIsFull, DurableIsFlushed, Move
  <2>4. \A q \in Publishers : pc'[q] \in {"visible", "committed"} =>
           q = p \/ (q # p /\ pc'[q] = pc[q])
    BY <1>2 DEF IInv, TypeOK
  <2>5. entry = None \/ p \in Replacers
    BY <1>4 DEF MayRename, PolicyAdmits
  <2>6. \A q \in Publishers : pc[q] \in {"visible", "committed"} =>
           entry # None
    BY PublisherAssumption DEF IInv, VisibleOrReplaced
  <2>7. VisibleOrReplaced'
    BY <1>4, <2>4, <2>5, <2>6 DEF VisibleOrReplaced, Move
  <2>8. CommittedIsDurable'
    BY <1>2, <1>4, <2>4, <2>5, <2>6
    DEF IInv, TypeOK, CommittedIsDurable, Move
  <2> QED
    BY <2>2, <2>3, <2>7, <2>8 DEF IInv
 <1> QED
   BY <1>2, <1>3, <1>4

(* Flushing the parent narrows what a power failure may leave to what the  *)
(* name leads to now.                                                      *)
LEMMA AfterRenamePreserves ==
    ASSUME IInv, NEW p \in Publishers, Commit(p) \/ Discard(p) \/ Kill(p)
    PROVE  IInv'
 <1> USE DEF Goto, Terminal
 <1>1. /\ UNCHANGED <<entry, data, flushed, closeErr, crashes>>
       /\ durable' \in {durable, {entry}}
       /\ stage' \in [Publishers -> BOOLEAN]
   BY DEF IInv, TypeOK, Commit, Discard, Kill
 <1>2. \/ pc' = [pc EXCEPT ![p] = "committed"] /\ durable' = {entry}
          /\ pc[p] = "visible"
       \/ \E l \in {"failed", "dead"} : pc' = [pc EXCEPT ![p] = l]
   BY DEF Commit, Discard, Kill
 <1>3. TypeOK'
   BY <1>1, <1>2 DEF IInv, TypeOK, Objects
 <1>4. FlushedIsFull'
   BY <1>1, <1>2 DEF IInv, TypeOK, FlushedIsFull
 <1>5. DurableIsFlushed' /\ VisibleOrReplaced' /\ CommittedIsDurable'
   BY <1>1, <1>2 DEF IInv, TypeOK, DurableIsFlushed, VisibleOrReplaced,
                     CommittedIsDurable
 <1> QED
   BY <1>3, <1>4, <1>5 DEF IInv

(* A power failure leaves the name at one of its durable objects, all of   *)
(* which were flushed.                                                     *)
LEMMA PowerFailurePreserves == IInv /\ PowerFailure => IInv'
 <1> SUFFICES ASSUME IInv, PowerFailure PROVE IInv'
   OBVIOUS
 <1> USE DEF Terminal
 <1>1. PICK lost \in SUBSET {p \in Publishers : ~ flushed[p]} :
          data' = [p \in Publishers |->
                     IF p \in lost /\ data[p] # "nothing" THEN "partial"
                                                          ELSE data[p]]
   BY DEF PowerFailure
 <1>2. \A p \in Publishers : flushed[p] => data'[p] = data[p]
   BY <1>1
 <1>3. /\ entry' \in durable /\ durable' = {entry'}
       /\ UNCHANGED <<flushed, stage, closeErr>>
       /\ pc' = [p \in Publishers |->
                   IF pc[p] \in Terminal \union {"idle"} THEN pc[p]
                                                         ELSE "dead"]
   BY DEF PowerFailure
 <1>4. TypeOK'
  <2>1. crashes' \in 0 .. MaxCrashes
    BY PublisherAssumption DEF PowerFailure, IInv, TypeOK
  <2>2. data' \in [Publishers -> {"nothing", "partial", "full"}]
    BY <1>1 DEF IInv, TypeOK
  <2>3. pc' \in [Publishers -> Terminal \union
                    {"idle", "writing", "written", "synced", "ready",
                     "visible", "failing"}]
    BY <1>3 DEF IInv, TypeOK
  <2> QED
    BY <1>3, <2>1, <2>2, <2>3 DEF IInv, TypeOK, Objects
 <1>5. FlushedIsFull'
   BY <1>2, <1>3 DEF IInv, TypeOK, FlushedIsFull
 <1>6. DurableIsFlushed'
   BY <1>3 DEF IInv, DurableIsFlushed
 <1>7. VisibleOrReplaced' /\ CommittedIsDurable'
   BY <1>3 DEF IInv, TypeOK, VisibleOrReplaced, CommittedIsDurable
 <1> QED
   BY <1>4, <1>5, <1>6, <1>7 DEF IInv

LEMMA StepPreserves == IInv /\ [Next]_vars => IInv'
 <1> SUFFICES ASSUME IInv, [Next]_vars PROVE IInv'
   OBVIOUS
 <1>1. CASE UNCHANGED vars
   BY <1>1 DEF vars, IInv, TypeOK, FlushedIsFull, DurableIsFlushed,
               VisibleOrReplaced, CommittedIsDurable
 <1>2. ASSUME NEW p \in Publishers, Publish(p) \/ Kill(p) PROVE IInv'
   BY <1>2, BeforeRenamePreserves, RenamePreserves, AfterRenamePreserves
   DEF Publish
 <1> QED
   BY <1>1, <1>2, PowerFailurePreserves DEF Next, Finished

-----------------------------------------------------------------------------
(* The inductive invariant holds in every behaviour.                       *)
THEOREM Inductive == Spec => []IInv
  BY InitEstablishes, StepPreserves, PTL DEF Spec

(* Type correctness, and: the present object is one a power failure may    *)
(* leave.                                                                  *)
THEOREM TypeCorrect == Spec => []TypeOK
 <1>1. IInv => TypeOK
   BY DEF IInv
 <1> QED
   BY <1>1, Inductive, PTL

(* A reader of the canonical name never finds a torn product.              *)
THEOREM ReadersSeeWholeFiles == Spec => []NoTornFile
 <1>1. IInv => NoTornFile
   BY DEF IInv, FlushedIsFull, DurableIsFlushed, NoTornFile
 <1> QED
   BY <1>1, Inductive, PTL

(* publish_nonempty returns only when the product survives power loss.     *)
THEOREM CommitIsDurable == Spec => []CommittedIsDurable
 <1>1. IInv => CommittedIsDurable
   BY DEF IInv
 <1> QED
   BY <1>1, Inductive, PTL

(* RequireAbsent and directory publication take the name from nobody.      *)
THEOREM CreateOnly == Spec => CreateOnlyNeverReplaces
 <1> DEFINE Good == entry # None /\ entry' # entry =>
                      \/ crashes' # crashes
                      \/ entry' \in Replacers /\ entry \notin Directories
 <1>1. IInv /\ [Next]_vars => [Good]_vars
  <2> SUFFICES ASSUME IInv, Next, entry # None, entry' # entry
               PROVE  \/ crashes' # crashes
                      \/ entry' \in Replacers /\ entry \notin Directories
    BY DEF vars
  <2>1. ASSUME NEW p \in Publishers, Publish(p) \/ Kill(p)
        PROVE  entry' \in Replacers /\ entry \notin Directories
   <3>1. RenameFile(p) \/ RenameDirectory(p)
     BY <2>1 DEF Publish, Kill, ConstructFile, ConstructDirectory,
        WriteStage, WriterThrows, SyncStage, Preflight, Commit, Discard
   <3> QED
     BY <3>1 DEF RenameFile, RenameDirectory, MayRename, PolicyAdmits, Move
  <2>2. CASE PowerFailure
    BY <2>2 DEF PowerFailure, IInv, TypeOK
  <2> QED
    BY <2>1, <2>2 DEF Next, Finished, vars
 <1>2. Spec => [][Good]_vars
   BY <1>1, Inductive, PTL DEF Spec
 <1> QED
   BY <1>2 DEF CreateOnlyNeverReplaces

(* A name that certainly leads to something keeps doing so.                *)
THEOREM NameNeverLost == Spec => NeverLost
 <1> DEFINE Good == None \notin durable => None \notin durable'
 <1>1. IInv /\ [Next]_vars => [Good]_vars
  <2> SUFFICES ASSUME IInv, Next, None \notin durable
               PROVE  None \notin durable'
    OBVIOUS
  <2>1. entry # None
    BY DEF IInv, DurableIsFlushed
  <2>2. ASSUME NEW p \in Publishers, Publish(p) \/ Kill(p)
        PROVE  None \notin durable'
    BY <2>1, <2>2, PublisherAssumption
    DEF Publish, Kill, ConstructFile, ConstructDirectory, WriteStage,
        WriterThrows, SyncStage, Preflight, RenameFile, RenameDirectory,
        Move, Commit, Discard
  <2>3. CASE PowerFailure
    BY <2>3 DEF PowerFailure
  <2> QED
    BY <2>2, <2>3 DEF Next, Finished, vars
 <1>2. Spec => [][Good]_vars
   BY <1>1, Inductive, PTL DEF Spec
 <1> QED
   BY <1>2 DEF NeverLost

(* A name that leads to an object is neither taken by a create-only        *)
(* publisher nor lost.                                                     *)
THEOREM NameKept == Spec => NameIsKept
  BY CreateOnly, NameNeverLost DEF NameIsKept

(* Only a rename, and none that is reported as an error, puts an object    *)
(* where the name may lead to it.                                          *)
OnlyMovedIsNamed ==
    \A p \in Publishers :
        p \in durable => pc[p] \in {"visible", "committed", "failed", "dead"}

LEMMA MovedPreserves ==
    ASSUME LateErrors = FALSE, TypeOK, OnlyMovedIsNamed, [Next]_vars
    PROVE  OnlyMovedIsNamed'
 <1> USE DEF Goto, OnlyMovedIsNamed, TypeOK
 <1>1. ASSUME NEW q \in Publishers, Publish(q) \/ Kill(q)
       PROVE  OnlyMovedIsNamed'
  <2>1. CASE ConstructFile(q) \/ ConstructDirectory(q) \/ Preflight(q)
    BY <2>1 DEF ConstructFile, ConstructDirectory, Preflight
  <2>2. CASE \E bytes \in {"partial", "full"}, failedClose \in BOOLEAN :
                WriteStage(q, bytes, failedClose)
    BY <2>2 DEF WriteStage
  <2>3. CASE WriterThrows(q)
    BY <2>3 DEF WriterThrows
  <2>4. CASE SyncStage(q)
    BY <2>4 DEF SyncStage
  <2>5. CASE RenameFile(q) \/ RenameDirectory(q)
   <3>1. \/ durable' = durable \union {q} /\ pc' = [pc EXCEPT ![q] = "visible"]
         \/ /\ durable' = durable
            /\ pc[q] = "ready"
            /\ pc' = [pc EXCEPT ![q] = "failing"]
     BY <2>5 DEF RenameFile, RenameDirectory, Move
   <3> QED
     BY <3>1
  <2>6. CASE Commit(q)
   <3>1. /\ durable' \subseteq durable
         /\ \E l \in {"committed", "failed"} : pc' = [pc EXCEPT ![q] = l]
     BY <2>6 DEF Commit
   <3> QED
     BY <3>1
  <2>7. CASE Discard(q)
   <3>1. durable' \subseteq durable /\ pc' = [pc EXCEPT ![q] = "failed"]
     BY <2>7 DEF Discard
   <3> QED
     BY <3>1
  <2>8. CASE Kill(q)
    BY <2>8 DEF Kill
  <2> QED
    BY <1>1, <2>1, <2>2, <2>3, <2>4, <2>5, <2>6, <2>7, <2>8 DEF Publish
 <1>2. CASE PowerFailure
  <2>1. durable' \subseteq durable
    BY <1>2 DEF PowerFailure
  <2>2. \A p \in Publishers : pc'[p] = pc[p] \/ pc'[p] = "dead"
    BY <1>2 DEF PowerFailure
  <2> QED
    BY <2>1, <2>2
 <1>3. CASE UNCHANGED vars
   BY <1>3 DEF vars
 <1> QED
   BY <1>1, <1>2, <1>3 DEF Next, Finished

(* Where the file system reports no error for a rename it carried out, a   *)
(* publication that is about to fail has not changed the canonical name.   *)
THEOREM FailureIsQuiet ==
    ASSUME LateErrors = FALSE PROVE Spec => []FailedLeavesNothing
 <1>1. Init => OnlyMovedIsNamed
   BY PublisherAssumption DEF Init, OnlyMovedIsNamed, PublisherAssumption
 <1>2. TypeOK /\ OnlyMovedIsNamed /\ [Next]_vars => OnlyMovedIsNamed'
   BY MovedPreserves
 <1>3. OnlyMovedIsNamed => FailedLeavesNothing
   BY DEF OnlyMovedIsNamed, FailedLeavesNothing
 <1> QED
   BY <1>1, <1>2, <1>3, TypeCorrect, PTL DEF Spec
=============================================================================
