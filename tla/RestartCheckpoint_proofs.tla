---------------------- MODULE RestartCheckpoint_proofs ----------------------
(***************************************************************************)
(* Proofs about RestartCheckpoint for every number of ranks, checkpoints,  *)
(* kills and disturbances: the type invariant, that a manifest and a       *)
(* return each prove a whole checkpoint, that a job resumes from nothing   *)
(* else, and that the program rewrites nothing a manifest covers.          *)
(***************************************************************************)
EXTENDS RestartCheckpoint, FiniteSetTheorems, TLAPS

Open == {"idle", "work", "renamed"}

Returned(j, r) == r \in Members(j) /\ phase[j][r] = "returned"

(* Rank s has voted, without an exception, and not thrown since.           *)
Voted(j, s) == phase[j][s] \in {"vote", "lost", "returned"} /\ ~ bad[j][s]

(* Some rank has left stage n of job j, so all did their work in it.       *)
Past(j, n) == \E q \in Members(j) : \/ at[j][q] > n
                                    \/ at[j][q] = n /\ phase[j][q] = "returned"

(* What rank s does in stage n is done.                                    *)
Done(j, n, s) == Past(j, n) \/ (at[j][s] = n /\ Voted(j, s))

(* Ranks are one stage apart at most, and only one that is out of its work *)
(* is left behind.                                                         *)
InOrder(j) ==
    \A r, s \in Members(j) :
        at[j][r] > at[j][s] => at[j][r] = at[j][s] + 1 /\ phase[j][s] \notin Open

ThrewForCause(j) ==
    \A s \in Members(j) : phase[j][s] = "threw" =>
        \E t \in Members(j) : /\ at[j][t] = at[j][s]
                              /\ bad[j][t]
                              /\ phase[j][t] \notin Open

ReturnedTogether(j) ==
    \A r, s \in Members(j) : phase[j][r] = "returned" =>
        /\ at[j][r] = LastStage(j) /\ at[j][s] = LastStage(j)
        /\ phase[j][s] \notin Open \union {"threw"}
        /\ ~ bad[j][s]

StageInv == \A j \in Jobs : InOrder(j) /\ ThrewForCause(j) /\ ReturnedTogether(j)

(* The reader before and after its start.                                  *)
TeamInv == /\ source = None => team = {}
           /\ team = {} => \A r \in Ranks : at["read"][r] = 1

(* What the reading stages established.                                    *)
ReadInv == \A s \in team :
    /\ Done("read", 2, s) => team = Ranks /\ seen[s] # None
    /\ Done("read", 3, s) => seen[s] = seen[0]
    /\ Done("read", 4, s) => loaded[s] = <<seen[s], s>>

NobodyWrites == \A r \in Ranks : phase["write"][r] \in Terminal

OutageInv == outages # 0 => NobodyWrites

(* The stage of checkpoint c with the index i of WriteStages.              *)
Nth(c, i) == (c - 1) * 5 + i

(* What the writing stages established, while the power lasts.             *)
DirectoryInv == \A c \in Checkpoints :
    outages = 0 /\ Done("write", Nth(c, 2), 0) => dir[c] # "absent"

ShardInv == \A c \in Checkpoints \ copied : \A s \in Ranks :
    outages = 0 =>
        /\ Done("write", Nth(c, 3), s) =>
              shard[c][s] = <<c, s>> /\ <<c, s>> \notin unsynced
        /\ at["write"][s] = Nth(c, 3) /\ phase["write"][s] = "renamed" =>
              shard[c][s] = <<c, s>>

ManifestInv == \A c \in Checkpoints \ copied :
    outages = 0 =>
        /\ Done("write", Nth(c, 5), 0) =>
              manifest[c] = c /\ ManifestName(c) \notin unsynced
        /\ at["write"][0] = Nth(c, 5) /\ phase["write"][0] = "renamed" =>
              manifest[c] = c

(* A manifest is there only after its stage.                               *)
WholeInv == \A c \in Checkpoints : manifest[c] # None =>
    /\ c \notin copied => Whole(c)
    /\ at["write"][0] >= Nth(c, 5)
    /\ at["write"][0] = Nth(c, 5) => phase["write"][0] # "work"

WriteInv == OutageInv /\ DirectoryInv /\ ShardInv /\ ManifestInv /\ WholeInv

IInv == TypeOK /\ StageInv /\ TeamInv /\ ReadInv /\ WriteInv

-----------------------------------------------------------------------------
(* The place of a stage in the sequences of the two jobs.                  *)
LEMMA Lengths == Len(WriteStages) = 5 /\ Len(ReadStages) = 5
  BY DEF WriteStages, ReadStages

LEMMA NthTarget ==
    ASSUME NEW n \in Nat \ {0}
    PROVE  LET c == (n - 1) \div 5 + 1
               i == ((n - 1) % 5) + 1
           IN  c \in Nat \ {0} /\ i \in 1 .. 5 /\ n = Nth(c, i)
  BY DEF Nth

LEMMA WritePlace ==
    ASSUME CheckpointAssumption, TypeOK, NEW r \in Ranks
    PROVE  /\ Target(r) \in Checkpoints
           /\ \E i \in 1 .. 5 : /\ at["write"][r] = Nth(Target(r), i)
                                /\ Stage("write", r) = WriteStages[i]
 <1> DEFINE n == at["write"][r]
            i == ((n - 1) % 5) + 1
 <1>1. n \in Nat \ {0} /\ n <= NumCheckpoints * 5 /\ NumCheckpoints \in Nat
   BY Lengths DEF CheckpointAssumption, TypeOK, LastStage, Jobs
 <1>2. Target(r) = (n - 1) \div 5 + 1 /\ Stage("write", r) = WriteStages[i]
   BY Lengths DEF Target, Stage
 <1>3. Target(r) \in Nat \ {0} /\ i \in 1 .. 5 /\ n = Nth(Target(r), i)
   BY <1>1, <1>2, NthTarget
 <1>4. Target(r) <= NumCheckpoints
   BY <1>1, <1>3 DEF Nth
 <1> QED
   BY <1>1, <1>2, <1>3, <1>4 DEF Checkpoints

LEMMA NthInjective ==
    ASSUME NEW c \in Nat, NEW e \in Nat, NEW i \in 1 .. 5, NEW k \in 1 .. 5,
           Nth(c, i) = Nth(e, k)
    PROVE  c = e /\ i = k
  BY DEF Nth

(* The writing rank's stage by name and by number.                         *)
LEMMA WriteStageNumbers ==
    ASSUME CheckpointAssumption, TypeOK, NEW r \in Ranks
    PROVE  /\ Stage("write", r) = "create" => at["write"][r] = Nth(Target(r), 2)
           /\ Stage("write", r) = "shard" => at["write"][r] = Nth(Target(r), 3)
           /\ Stage("write", r) = "manifest" => at["write"][r] = Nth(Target(r), 5)
           /\ \A c \in Checkpoints :
                 /\ at["write"][r] = Nth(c, 2) => Stage("write", r) = "create"
                 /\ at["write"][r] = Nth(c, 3) => Stage("write", r) = "shard"
                 /\ at["write"][r] = Nth(c, 5) => Stage("write", r) = "manifest"
 <1>1. PICK i \in 1 .. 5 : /\ at["write"][r] = Nth(Target(r), i)
                           /\ Stage("write", r) = WriteStages[i]
   BY WritePlace
 <1>2. WriteStages[1] = "admit" /\ WriteStages[2] = "create"
       /\ WriteStages[3] = "shard" /\ WriteStages[4] = "gather"
       /\ WriteStages[5] = "manifest"
   BY DEF WriteStages
 <1>3. i = 1 \/ i = 2 \/ i = 3 \/ i = 4 \/ i = 5
   OBVIOUS
 <1>4. Target(r) \in Nat /\ \A c \in Checkpoints : c \in Nat
   BY WritePlace, CheckpointAssumption DEF Checkpoints, CheckpointAssumption
 <1>5. \A c \in Checkpoints, k \in 1 .. 5 : at["write"][r] = Nth(c, k) => k = i
   BY <1>1, <1>4, NthInjective
 <1> QED
   BY <1>1, <1>2, <1>3, <1>5

LEMMA ReadStageNumbers ==
    ASSUME NEW r \in Ranks, TypeOK
    PROVE  /\ Stage("read", r) = "prepare" => at["read"][r] = 1
           /\ Stage("read", r) = "manifest" => at["read"][r] = 2
           /\ Stage("read", r) = "identity" => at["read"][r] = 3
           /\ Stage("read", r) = "shard" => at["read"][r] = 4
           /\ Stage("read", r) = "admit" => at["read"][r] = 5
 <1>1. at["read"][r] \in 1 .. 5 /\ Stage("read", r) = ReadStages[at["read"][r]]
   BY Lengths DEF TypeOK, Stage, LastStage, Jobs
 <1>2. ReadStages[1] = "prepare" /\ ReadStages[2] = "manifest"
       /\ ReadStages[3] = "identity" /\ ReadStages[4] = "shard"
       /\ ReadStages[5] = "admit"
   BY DEF ReadStages
 <1>3. \A i \in 1 .. 5 : i = 1 \/ i = 2 \/ i = 3 \/ i = 4 \/ i = 5
   OBVIOUS
 <1> QED
   BY <1>1, <1>2, <1>3

-----------------------------------------------------------------------------
Phases == {"idle", "work", "renamed", "vote"} \union Terminal

(* What a step of the program does to the stages of the two jobs.          *)
VoteStep(j, r, ok) == /\ r \in Members(j)
                      /\ phase[j][r] \in {"work", "renamed"}
                      /\ Vote(j, r, ok)
                      /\ team' = team

RenameStep(r) == /\ phase["write"][r] = "work"
                 /\ phase' = [phase EXCEPT !["write"][r] = "renamed"]
                 /\ UNCHANGED <<at, bad, team>>

(* Processes are killed, or nothing happens to them.                       *)
Fall == /\ phase' \in [Jobs -> [Ranks -> Phases]]
        /\ \A j \in Jobs : \A r \in Ranks :
              \/ phase'[j][r] = phase[j][r]
              \/ phase[j][r] \notin Terminal /\ phase'[j][r] = "killed"
              \/ phase[j][r] = "vote" /\ phase'[j][r] = "lost"
        /\ UNCHANGED <<at, bad, team>>

StageMoves == \/ \E j \in Jobs, r \in Ranks : \/ \E ok \in BOOLEAN : VoteStep(j, r, ok)
                                              \/ Pass(j, r)
                                              \/ Throw(j, r)
              \/ \E r \in Ranks : RenameStep(r)
              \/ \E c \in Checkpoints, n \in {NumRanks - 1, NumRanks} :
                    n > 0 /\ Start(c, n)
              \/ Fall

LEMMA MoveTyped ==
    ASSUME TypeOK, NEW j \in Jobs, NEW r \in Ranks, NEW p \in Phases,
           phase' = [phase EXCEPT ![j][r] = p]
    PROVE  /\ phase' \in [Jobs -> [Ranks -> Phases]]
           /\ \A i \in Jobs, s \in Ranks :
                 phase'[i][s] = IF i = j /\ s = r THEN p ELSE phase[i][s]
 <1>1. phase \in [Jobs -> [Ranks -> Phases]]
   BY DEF TypeOK, Phases
 <1> QED
   BY <1>1

LEMMA VoteTyped ==
    ASSUME TypeOK, NEW j \in Jobs, NEW r \in Ranks, NEW ok \in BOOLEAN,
           Vote(j, r, ok)
    PROVE  /\ phase' \in [Jobs -> [Ranks -> Phases]]
           /\ bad' \in [Jobs -> [Ranks -> BOOLEAN]]
           /\ at' = at
 <1>1. phase' \in [Jobs -> [Ranks -> Phases]]
   BY MoveTyped DEF Vote, Phases
 <1> QED
   BY <1>1 DEF TypeOK, Vote

LEMMA PassTyped ==
    ASSUME CheckpointAssumption, TypeOK, NEW j \in Jobs, NEW r \in Ranks, Pass(j, r)
    PROVE  /\ phase' \in [Jobs -> [Ranks -> Phases]]
           /\ at' \in [Jobs -> [Ranks -> Nat]]
           /\ \A i \in Jobs : \A s \in Ranks : at'[i][s] \in 1 .. LastStage(i)
 <1>0. at \in [Jobs -> [Ranks -> Nat]]
       /\ \A i \in Jobs : \A s \in Ranks : at[i][s] \in 1 .. LastStage(i)
   BY DEF TypeOK
 <1>1. CASE at[j][r] = LastStage(j)
  <2>1. phase' = [phase EXCEPT ![j][r] = "returned"] /\ at' = at
    BY <1>1 DEF Pass
  <2> QED
    BY <2>1, <1>0, MoveTyped DEF Phases, Terminal
 <1>2. CASE at[j][r] # LastStage(j)
  <2>1. phase' = [phase EXCEPT ![j][r] = "work"]
        /\ at' = [at EXCEPT ![j][r] = @ + 1]
    BY <1>2 DEF Pass
  <2>2. at' \in [Jobs -> [Ranks -> Nat]]
    BY <2>1, <1>0
  <2>3. LastStage(j) \in Nat
    BY Lengths DEF LastStage, CheckpointAssumption
  <2>4. at[j][r] + 1 \in 1 .. LastStage(j)
    BY <1>0, <1>2, <2>3
  <2>5. \A i \in Jobs : \A s \in Ranks : at'[i][s] \in 1 .. LastStage(i)
    BY <1>0, <2>1, <2>4
  <2> QED
    BY <2>1, <2>2, <2>5, MoveTyped DEF Phases
 <1> QED
   BY <1>1, <1>2

LEMMA MembersAreRanks ==
    ASSUME TypeOK, NEW j \in Jobs
    PROVE  Members(j) \subseteq Ranks
  BY DEF TypeOK, Members

LEMMA SourceIsCheckpoint ==
    ASSUME TypeOK, TeamInv, team # {}
    PROVE  source \in Checkpoints
  BY DEF TypeOK, TeamInv

LEMMA RootIsRank ==
    ASSUME CheckpointAssumption
    PROVE  0 \in Ranks /\ Ranks \subseteq Nat /\ NumRanks \notin Ranks
  BY DEF CheckpointAssumption, Ranks

LEMMA TypePreserved ==
    ASSUME CheckpointAssumption, TypeOK, TeamInv, [Next]_vars
    PROVE  TypeOK'
 <1> USE CheckpointAssumption, RootIsRank
 <1>j. "write" \in Jobs /\ "read" \in Jobs
   BY DEF Jobs
 <1>0. \A r \in Ranks : Target(r) \in Checkpoints
   BY WritePlace
 <1>n. \A r \in Ranks, c \in Checkpoints : <<c, r>> \in Names
                                           /\ ManifestName(c) \in Names
   BY DEF Names, Ranks, ManifestName, CheckpointAssumption
 <1>1. ASSUME NEW j \in Jobs, NEW r \in Ranks, Pass(j, r)
       PROVE  TypeOK'
   BY <1>1, PassTyped DEF Pass, TypeOK, files, reader, world, Phases
 <1>2. ASSUME NEW j \in Jobs, NEW r \in Ranks, Throw(j, r) \/ Kill(j, r)
       PROVE  TypeOK'
  <2>4. phase' \in [Jobs -> [Ranks -> Phases]]
   <3>1. CASE Throw(j, r)
     BY <3>1, MoveTyped DEF Throw, Phases, Terminal
   <3>2. CASE Kill(j, r)
    <4> DEFINE p == IF phase[j][r] = "vote" THEN "lost" ELSE "killed"
    <4>1. phase' = [phase EXCEPT ![j][r] = p] /\ p \in Phases
      BY <3>2 DEF Kill, Phases, Terminal
    <4> QED
      BY <4>1, MoveTyped
   <3> QED
     BY <1>2, <3>1, <3>2
  <2> QED
    BY <1>2, <2>4 DEF Throw, Kill, TypeOK, files, reader, world, Phases
 <1>3. ASSUME NEW j \in Jobs, NEW r \in Ranks, NEW ok \in BOOLEAN,
              \/ Work(j, r, ok)
              \/ j = "write" /\ ok = TRUE /\ StandBy(r)
              \/ j = "write" /\ ok = FALSE /\ GiveUp(r)
              \/ j = "read" /\ ok = SameAsRoot(r) /\ CompareManifest(r)
       PROVE  TypeOK'
  <2>1. Vote(j, r, ok) /\ UNCHANGED <<files, reader, world>>
    BY <1>3 DEF Work, StandBy, GiveUp, CompareManifest
  <2> QED
    BY <2>1, VoteTyped, <1>j DEF TypeOK, files, reader, world, Phases
 <1>4. ASSUME NEW made \in BOOLEAN, NEW ok \in BOOLEAN, CreateDirectory(made, ok)
       PROVE  TypeOK'
  <2>1. Vote("write", 0, ok) /\ UNCHANGED <<shard, manifest, unsynced, reader, world>>
    BY <1>4 DEF CreateDirectory
  <2>2. dir' \in [Checkpoints -> {"absent", "unsynced", "synced"}]
    BY <1>4, <1>0 DEF CreateDirectory, TypeOK
  <2> QED
    BY <2>1, <2>2, VoteTyped, <1>j DEF TypeOK, reader, world, Phases
 <1>5. ASSUME NEW r \in Ranks, RenameShard(r)
       PROVE  TypeOK'
  <2>1. Target(r) \in Checkpoints /\ <<Target(r), r>> \in Names
    BY <1>0, <1>n
  <2>2. shard' \in [Checkpoints ->
                      [Ranks -> (Checkpoints \union {None}) \X Ranks]]
    BY <1>5, <2>1 DEF RenameShard, TypeOK
  <2>3. unsynced' \in SUBSET Names
    BY <1>5, <2>1 DEF RenameShard, TypeOK
  <2>4. phase' \in [Jobs -> [Ranks -> Phases]]
    BY <1>5, <1>j, MoveTyped DEF RenameShard, Phases
  <2> QED
    BY <1>5, <2>2, <2>3, <2>4
    DEF RenameShard, TypeOK, reader, world, Phases
 <1>6. ASSUME NEW r \in Ranks, NEW ok \in BOOLEAN, SyncShard(r, ok)
       PROVE  TypeOK'
  <2>1. Vote("write", r, ok) /\ UNCHANGED <<dir, shard, manifest, reader, world>>
        /\ unsynced' \subseteq unsynced
    BY <1>6 DEF SyncShard
  <2> QED
    BY <2>1, VoteTyped, <1>j DEF TypeOK, reader, world, Phases
 <1>7. ASSUME RenameManifest
       PROVE  TypeOK'
  <2>1. Target(0) \in Checkpoints /\ ManifestName(Target(0)) \in Names
    BY <1>0, <1>n
  <2>2. manifest' \in [Checkpoints -> Checkpoints \union {None}]
    BY <1>7, <2>1 DEF RenameManifest, TypeOK
  <2>3. unsynced' \in SUBSET Names
    BY <1>7, <2>1 DEF RenameManifest, TypeOK
  <2>4. phase' \in [Jobs -> [Ranks -> Phases]]
    BY <1>7, <1>j, MoveTyped DEF RenameManifest, Phases
  <2> QED
    BY <1>7, <2>2, <2>3, <2>4
    DEF RenameManifest, TypeOK, reader, world, Phases
 <1>8. ASSUME NEW ok \in BOOLEAN, SyncManifest(ok)
       PROVE  TypeOK'
  <2>1. Vote("write", 0, ok) /\ UNCHANGED <<dir, shard, manifest, reader, world>>
        /\ unsynced' \subseteq unsynced
    BY <1>8 DEF SyncManifest
  <2> QED
    BY <2>1, VoteTyped, <1>j DEF TypeOK, reader, world, Phases
 <1>9. ASSUME NEW r \in Ranks, NEW ok \in BOOLEAN, ReadManifest(r, ok)
       PROVE  TypeOK'
  <2>1. Vote("read", r, ok) /\ UNCHANGED <<source, team, loaded, files, world>>
    BY <1>9 DEF ReadManifest
  <2>2. source \in Checkpoints
    BY <1>9, SourceIsCheckpoint DEF ReadManifest, Working, Members
  <2>3. seen' \in [Ranks -> Checkpoints \union {None}]
    BY <1>9, <2>2 DEF ReadManifest, TypeOK
  <2> QED
    BY <2>1, <2>3, VoteTyped, <1>j DEF TypeOK, files, world, Phases
 <1>10. ASSUME NEW r \in Ranks, NEW ok \in BOOLEAN, ReadShard(r, ok)
        PROVE  TypeOK'
  <2>1. Vote("read", r, ok) /\ UNCHANGED <<source, team, seen, files, world>>
    BY <1>10 DEF ReadShard
  <2>2. source \in Checkpoints
    BY <1>10, SourceIsCheckpoint DEF ReadShard, Working, Members
  <2>3. loaded' \in [Ranks -> (Checkpoints \union {None}) \X Ranks]
    BY <1>10, <2>2 DEF ReadShard, TypeOK
  <2> QED
    BY <2>1, <2>3, VoteTyped, <1>j DEF TypeOK, files, world, Phases
 <1>11. ASSUME NEW j \in Jobs, EndJob(j)
        PROVE  TypeOK'
  <2>4. phase' \in [Jobs -> [Ranks -> Phases]]
    BY <1>11 DEF EndJob, TypeOK, Phases, Terminal
  <2> QED
    BY <1>11, <2>4 DEF EndJob, TypeOK, files, reader, world, Phases
 <1>12. ASSUME NEW c \in Checkpoints, NEW n \in {NumRanks - 1, NumRanks},
               n > 0, Start(c, n)
        PROVE  TypeOK'
  <2>1. team' \in SUBSET Ranks
    BY <1>12 DEF Start, Ranks, CheckpointAssumption
  <2>2. phase' \in [Jobs -> [Ranks -> Phases]]
    BY <1>12, <1>j DEF Start, TypeOK, Phases
  <2> QED
    BY <1>12, <2>1, <2>2 DEF Start, TypeOK, files, world, Phases
 <1>13. ASSUME NEW lostDirs \in SUBSET Checkpoints, NEW lostNames \in SUBSET unsynced,
               PowerFailure(lostDirs, lostNames)
        PROVE  TypeOK'
  <2>1. phase' \in [Jobs -> [Ranks -> Phases]]
    BY <1>13 DEF PowerFailure, TypeOK, Phases, Terminal
  <2>2. shard' \in [Checkpoints ->
                      [Ranks -> (Checkpoints \union {None}) \X Ranks]]
    BY <1>13 DEF PowerFailure, TypeOK
  <2>3. /\ dir' \in [Checkpoints -> {"absent", "unsynced", "synced"}]
        /\ manifest' \in [Checkpoints -> Checkpoints \union {None}]
        /\ unsynced' \in SUBSET Names
        /\ outages' \in Nat
    BY <1>13 DEF PowerFailure, TypeOK
  <2> QED
    BY <1>13, <2>1, <2>2, <2>3 DEF PowerFailure, TypeOK, reader, Phases
 <1>14. ASSUME NEW c \in Checkpoints, NEW e \in Checkpoints,
               NEW r \in Ranks, NEW s \in Ranks, CopyShard(c, e, r, s)
        PROVE  TypeOK'
  <2>1. shard' \in [Checkpoints ->
                      [Ranks -> (Checkpoints \union {None}) \X Ranks]]
    BY <1>14 DEF CopyShard, TypeOK
  <2>2. copied' \in SUBSET Checkpoints
    BY <1>14 DEF CopyShard, TypeOK
  <2> QED
    BY <1>14, <2>1, <2>2 DEF CopyShard, TypeOK, jobs, reader, Phases
 <1>15. ASSUME NEW c \in Checkpoints, NEW e \in Checkpoints, CopyManifest(c, e)
        PROVE  TypeOK'
  <2>1. manifest' \in [Checkpoints -> Checkpoints \union {None}]
    BY <1>15 DEF CopyManifest, TypeOK
  <2>2. copied' \in SUBSET Checkpoints
    BY <1>15 DEF CopyManifest, TypeOK
  <2> QED
    BY <1>15, <2>1, <2>2 DEF CopyManifest, TypeOK, jobs, reader, Phases
 <1>16. CASE UNCHANGED vars
   BY <1>16 DEF vars, files, jobs, reader, world, TypeOK, Phases
 <1>17. CASE \E j \in Jobs, r \in Ranks : StageStep(j, r)
   BY <1>17, <1>1, <1>2, <1>3 DEF StageStep
 <1>18. CASE \E r \in Ranks : WriteStep(r)
  <2>1. ASSUME NEW r \in Ranks, StandBy(r) PROVE TypeOK'
    BY <2>1, <1>3, <1>j
  <2>2. ASSUME NEW r \in Ranks, GiveUp(r) PROVE TypeOK'
    BY <2>2, <1>3, <1>j
  <2> QED
    BY <1>18, <2>1, <2>2, <1>5, <1>6 DEF WriteStep
 <1>19. CASE \E r \in Ranks : ReadStep(r)
  <2>1. ASSUME NEW r \in Ranks, CompareManifest(r) PROVE TypeOK'
   <3>1. SameAsRoot(r) \in BOOLEAN
     BY DEF SameAsRoot
   <3> QED
     BY <2>1, <3>1, <1>3, <1>j
  <2> QED
    BY <1>19, <2>1, <1>9, <1>10 DEF ReadStep
 <1>20. CASE ManifestStep
   BY <1>20, <1>4, <1>7, <1>8 DEF ManifestStep
 <1>21. CASE Environment
   BY <1>21, <1>2, <1>12, <1>13, <1>14, <1>15 DEF Environment
 <1> QED
   BY <1>11, <1>16, <1>17, <1>18, <1>19, <1>20, <1>21 DEF Next, Finished

-----------------------------------------------------------------------------
(* Every step, by what it does: the votes without an effect together, and  *)
(* the ends of processes together.                                         *)
QuietVote(j, r, ok) ==
    /\ r \in Members(j)
    /\ phase[j][r] = "work"
    /\ Vote(j, r, ok)
    /\ j = "read" /\ ok =>
          \/ Stage("read", r) \in {"prepare", "admit"}
          \/ Stage("read", r) = "identity" /\ SameAsRoot(r)
    /\ j = "write" /\ ok =>
          \/ Stage("write", r) \in {"admit", "gather"}
          \/ r # 0 /\ Stage("write", r) \in {"create", "manifest"}
    /\ UNCHANGED <<files, reader, world>>

QuietFall == Fall /\ UNCHANGED <<files, reader, world>>

AnyStep == \/ \E j \in Jobs, r \in Ranks : Pass(j, r) \/ Throw(j, r)
           \/ \E j \in Jobs, r \in Ranks, ok \in BOOLEAN : QuietVote(j, r, ok)
           \/ QuietFall
           \/ ManifestStep
           \/ \E r \in Ranks : RenameShard(r)
           \/ \E r \in Ranks, ok \in BOOLEAN : SyncShard(r, ok)
           \/ \E r \in Ranks, ok \in BOOLEAN : ReadManifest(r, ok)
           \/ \E r \in Ranks, ok \in BOOLEAN : ReadShard(r, ok)
           \/ \E c \in Checkpoints, n \in {NumRanks - 1, NumRanks} :
                 n > 0 /\ Start(c, n)
           \/ \E lostDirs \in SUBSET Checkpoints :
                \E lostNames \in SUBSET unsynced : PowerFailure(lostDirs, lostNames)
           \/ \E c, e \in Checkpoints, r, s \in Ranks : CopyShard(c, e, r, s)
           \/ \E c, e \in Checkpoints : CopyManifest(c, e)

LEMMA StepCases ==
    ASSUME TypeOK, [Next]_vars
    PROVE  AnyStep
 <1>j. "write" \in Jobs /\ "read" \in Jobs /\ \A j \in Jobs : j = "write" \/ j = "read"
   BY DEF Jobs
 <1>1. ASSUME NEW j \in Jobs, NEW r \in Ranks, NEW ok \in BOOLEAN, Work(j, r, ok)
       PROVE  QuietVote(j, r, ok)
   BY <1>1, <1>j DEF Work, Quiet, Working, QuietVote
 <1>2. ASSUME NEW r \in Ranks, StandBy(r)
       PROVE  QuietVote("write", r, TRUE)
   BY <1>2 DEF StandBy, Working, QuietVote
 <1>3. ASSUME NEW r \in Ranks, GiveUp(r)
       PROVE  QuietVote("write", r, FALSE)
   BY <1>3 DEF GiveUp, Working, QuietVote
 <1>4. ASSUME NEW r \in Ranks, CompareManifest(r)
       PROVE  QuietVote("read", r, SameAsRoot(r)) /\ SameAsRoot(r) \in BOOLEAN
  <2>1. SameAsRoot(r) \in BOOLEAN
    BY DEF SameAsRoot
  <2> QED
    BY <1>4, <2>1 DEF CompareManifest, Working, QuietVote
 <1>5. ASSUME NEW j \in Jobs, NEW r \in Ranks, Kill(j, r)
       PROVE  QuietFall
  <2> DEFINE p == IF phase[j][r] = "vote" THEN "lost" ELSE "killed"
  <2>1. phase' = [phase EXCEPT ![j][r] = p] /\ p \in Phases
    BY <1>5 DEF Kill, Phases, Terminal
  <2> HIDE DEF p
  <2>2. /\ phase' \in [Jobs -> [Ranks -> Phases]]
        /\ \A i \in Jobs, s \in Ranks :
              phase'[i][s] = IF i = j /\ s = r THEN p ELSE phase[i][s]
    BY <2>1, MoveTyped
  <2>3. phase[j][r] \notin Terminal
        /\ UNCHANGED <<at, bad, files, reader, world>>
    BY <1>5 DEF Kill
  <2> QED
    BY <2>2, <2>3 DEF QuietFall, Fall, reader, p
 <1>6. ASSUME NEW j \in Jobs, EndJob(j)
       PROVE  QuietFall
  <2>1. phase' \in [Jobs -> [Ranks -> Phases]]
    BY <1>6 DEF EndJob, TypeOK, Phases, Terminal
  <2> QED
    BY <1>6, <2>1 DEF EndJob, QuietFall, Fall, TypeOK, reader
 <1>7. CASE UNCHANGED vars
  <2>1. UNCHANGED <<phase, at, bad, team, files, reader, world>>
    BY <1>7 DEF vars, jobs, reader
  <2>2. phase \in [Jobs -> [Ranks -> Phases]]
    BY DEF TypeOK, Phases
  <2>3. Fall
    BY <2>1, <2>2 DEF Fall
  <2> QED
    BY <2>1, <2>3 DEF QuietFall, AnyStep
 <1>8. CASE \E j \in Jobs, r \in Ranks : StageStep(j, r)
   BY <1>8, <1>1 DEF StageStep, AnyStep
 <1>9. CASE \E r \in Ranks : WriteStep(r)
  <2> USE DEF AnyStep
  <2>1. ASSUME NEW r \in Ranks, StandBy(r) \/ GiveUp(r) PROVE AnyStep
    BY <2>1, <1>2, <1>3, <1>j
  <2> QED
    BY <1>9, <2>1 DEF WriteStep
 <1>10. CASE \E r \in Ranks : ReadStep(r)
  <2>1. ASSUME NEW r \in Ranks, CompareManifest(r) PROVE AnyStep
    BY <2>1, <1>4, <1>j DEF AnyStep
  <2> QED
    BY <1>10, <2>1 DEF ReadStep, AnyStep
 <1>11. CASE Environment
   BY <1>11, <1>5 DEF Environment, AnyStep
 <1> QED
   BY <1>6, <1>7, <1>8, <1>9, <1>10, <1>11 DEF Next, Finished, AnyStep

(* ... and what each does to the stages of the two jobs.                   *)
LEMMA ActionMoves ==
    ASSUME CheckpointAssumption, TypeOK
    PROVE  /\ \A j \in Jobs, r \in Ranks, ok \in BOOLEAN :
                 QuietVote(j, r, ok) => VoteStep(j, r, ok)
           /\ \A made, ok \in BOOLEAN :
                 CreateDirectory(made, ok) => VoteStep("write", 0, ok)
           /\ \A r \in Ranks : RenameShard(r) => RenameStep(r)
           /\ \A r \in Ranks, ok \in BOOLEAN :
                 SyncShard(r, ok) => VoteStep("write", r, ok)
           /\ RenameManifest => RenameStep(0)
           /\ \A ok \in BOOLEAN : SyncManifest(ok) => VoteStep("write", 0, ok)
           /\ \A r \in Ranks, ok \in BOOLEAN :
                 ReadManifest(r, ok) \/ ReadShard(r, ok) => VoteStep("read", r, ok)
           /\ \A lostDirs \in SUBSET Checkpoints, lostNames \in SUBSET unsynced :
                 PowerFailure(lostDirs, lostNames) => Fall
           /\ \A c, e \in Checkpoints, r, s \in Ranks : CopyShard(c, e, r, s) => Fall
           /\ \A c, e \in Checkpoints : CopyManifest(c, e) => Fall
 <1>1. ASSUME NEW j \in Jobs, NEW r \in Ranks, NEW ok \in BOOLEAN, QuietVote(j, r, ok)
       PROVE  VoteStep(j, r, ok)
   BY <1>1 DEF QuietVote, VoteStep, reader
 <1>2. ASSUME NEW made \in BOOLEAN, NEW ok \in BOOLEAN, CreateDirectory(made, ok)
       PROVE  VoteStep("write", 0, ok)
   BY <1>2 DEF CreateDirectory, Working, VoteStep, reader
 <1>3. ASSUME NEW r \in Ranks, RenameShard(r)
       PROVE  RenameStep(r)
   BY <1>3 DEF RenameShard, Working, RenameStep, reader
 <1>4. ASSUME NEW r \in Ranks, NEW ok \in BOOLEAN, SyncShard(r, ok)
       PROVE  VoteStep("write", r, ok)
   BY <1>4 DEF SyncShard, VoteStep, Members, reader
 <1>5. ASSUME RenameManifest
       PROVE  RenameStep(0)
   BY <1>5 DEF RenameManifest, Working, RenameStep, reader
 <1>6. ASSUME NEW ok \in BOOLEAN, SyncManifest(ok)
       PROVE  VoteStep("write", 0, ok)
   BY <1>6, RootIsRank DEF SyncManifest, VoteStep, Members, reader
 <1>7. ASSUME NEW r \in Ranks, NEW ok \in BOOLEAN, ReadManifest(r, ok) \/ ReadShard(r, ok)
       PROVE  VoteStep("read", r, ok)
   BY <1>7 DEF ReadManifest, ReadShard, VoteStep, Working
 <1>8. ASSUME NEW lostDirs \in SUBSET Checkpoints, NEW lostNames \in SUBSET unsynced,
              PowerFailure(lostDirs, lostNames)
       PROVE  Fall
  <2>1. phase' \in [Jobs -> [Ranks -> Phases]]
    BY <1>8 DEF PowerFailure, TypeOK, Phases, Terminal
  <2> QED
    BY <1>8, <2>1 DEF PowerFailure, Fall, TypeOK, reader
 <1>9. ASSUME \/ \E c, e \in Checkpoints, r, s \in Ranks : CopyShard(c, e, r, s)
              \/ \E c, e \in Checkpoints : CopyManifest(c, e)
       PROVE  Fall
   BY <1>9 DEF CopyShard, CopyManifest, Fall, jobs, reader, TypeOK, Phases
 <1> QED
   BY <1>1, <1>2, <1>3, <1>4, <1>5, <1>6, <1>7, <1>8, <1>9

LEMMA StagesMove ==
    ASSUME CheckpointAssumption, TypeOK, AnyStep
    PROVE  StageMoves
 <1>j. "write" \in Jobs /\ "read" \in Jobs /\ 0 \in Ranks
   BY RootIsRank DEF Jobs
 <1>1. CASE ManifestStep
   BY <1>1, <1>j, ActionMoves DEF ManifestStep, StageMoves
 <1>2. ASSUME NEW r \in Ranks, NEW ok \in BOOLEAN,
              RenameShard(r) \/ SyncShard(r, ok) \/ ReadManifest(r, ok)
              \/ ReadShard(r, ok)
       PROVE  StageMoves
   BY <1>2, <1>j, ActionMoves DEF StageMoves
 <1>3. ASSUME NEW j \in Jobs, NEW r \in Ranks, NEW ok \in BOOLEAN, QuietVote(j, r, ok)
       PROVE  StageMoves
   BY <1>3, ActionMoves DEF StageMoves
 <1>4. ASSUME NEW j \in Jobs, NEW r \in Ranks, Pass(j, r) \/ Throw(j, r)
       PROVE  StageMoves
   BY <1>4 DEF StageMoves
 <1>5. ASSUME NEW c \in Checkpoints, NEW n \in {NumRanks - 1, NumRanks},
              n > 0, Start(c, n)
       PROVE  StageMoves
   BY <1>5 DEF StageMoves
 <1>6. QuietFall => StageMoves
   BY DEF QuietFall, StageMoves
 <1>7. ASSUME NEW lostDirs \in SUBSET Checkpoints, NEW lostNames \in SUBSET unsynced,
              PowerFailure(lostDirs, lostNames)
       PROVE  StageMoves
   BY <1>7, ActionMoves DEF StageMoves
 <1>8. ASSUME \/ \E c, e \in Checkpoints, r, s \in Ranks : CopyShard(c, e, r, s)
              \/ \E c, e \in Checkpoints : CopyManifest(c, e)
       PROVE  StageMoves
   BY <1>8, ActionMoves DEF StageMoves
 <1> QED
   BY <1>1, <1>2, <1>3, <1>4, <1>5, <1>6, <1>7, <1>8 DEF AnyStep

-----------------------------------------------------------------------------
(* The stages of a job.  A rank that votes, passes or throws is out of its *)
(* work, and the ranks it leaves behind have voted.                        *)
MovesOf(j, r, p) ==
    /\ phase' \in [Jobs -> [Ranks -> Phases]]
    /\ \A i \in Jobs, s \in Ranks :
          phase'[i][s] = IF i = j /\ s = r THEN p ELSE phase[i][s]
    /\ team' = team

LEMMA VoteMoves ==
    ASSUME TypeOK, NEW j \in Jobs, NEW r \in Ranks, NEW ok \in BOOLEAN,
           VoteStep(j, r, ok)
    PROVE  /\ MovesOf(j, r, "vote")
           /\ at' = at
           /\ \A i \in Jobs, s \in Ranks :
                 bad'[i][s] = IF i = j /\ s = r THEN ~ ok ELSE bad[i][s]
 <1>1. phase' = [phase EXCEPT ![j][r] = "vote"] /\ "vote" \in Phases
       /\ at' = at /\ bad' = [bad EXCEPT ![j][r] = ~ ok] /\ team' = team
   BY DEF VoteStep, Vote, Phases
 <1>2. MovesOf(j, r, "vote")
   BY <1>1, MoveTyped DEF MovesOf
 <1> QED
   BY <1>1, <1>2 DEF TypeOK

LEMMA PassMoves ==
    ASSUME TypeOK, NEW j \in Jobs, NEW r \in Ranks, Pass(j, r)
    PROVE  /\ bad' = bad
           /\ \/ at[j][r] = LastStage(j) /\ at' = at /\ MovesOf(j, r, "returned")
              \/ /\ at[j][r] # LastStage(j)
                 /\ MovesOf(j, r, "work")
                 /\ \A i \in Jobs, s \in Ranks :
                       at'[i][s] = IF i = j /\ s = r THEN at[i][s] + 1 ELSE at[i][s]
 <1>1. bad' = bad /\ team' = team
   BY DEF Pass, reader
 <1>2. CASE at[j][r] = LastStage(j)
  <2>1. phase' = [phase EXCEPT ![j][r] = "returned"] /\ at' = at
        /\ "returned" \in Phases
    BY <1>2 DEF Pass, Phases, Terminal
  <2> QED
    BY <1>1, <1>2, <2>1, MoveTyped DEF MovesOf
 <1>3. CASE at[j][r] # LastStage(j)
  <2>1. phase' = [phase EXCEPT ![j][r] = "work"] /\ "work" \in Phases
        /\ at' = [at EXCEPT ![j][r] = @ + 1]
    BY <1>3 DEF Pass, Phases
  <2>2. \A i \in Jobs, s \in Ranks :
           at'[i][s] = IF i = j /\ s = r THEN at[i][s] + 1 ELSE at[i][s]
    BY <2>1 DEF TypeOK
  <2> QED
    BY <1>1, <1>3, <2>1, <2>2, MoveTyped DEF MovesOf
 <1> QED
   BY <1>2, <1>3

LEMMA ThrowMoves ==
    ASSUME TypeOK, NEW j \in Jobs, NEW r \in Ranks, Throw(j, r)
    PROVE  MovesOf(j, r, "threw") /\ at' = at /\ bad' = bad
  BY MoveTyped DEF Throw, MovesOf, Phases, Terminal, reader

LEMMA RenameMoves ==
    ASSUME TypeOK, NEW r \in Ranks, RenameStep(r)
    PROVE  MovesOf("write", r, "renamed") /\ at' = at /\ bad' = bad
  BY MoveTyped DEF RenameStep, MovesOf, Phases, Jobs

LEMMA MembersKept ==
    ASSUME team' = team, NEW j \in Jobs
    PROVE  Members(j)' = Members(j)
  BY DEF Members

(* What a rank that passes finds in its peers.                             *)
LEMMA PassFinds ==
    ASSUME TypeOK, StageInv, NEW j \in Jobs, NEW r \in Ranks, Pass(j, r)
    PROVE  /\ r \in Members(j) /\ phase[j][r] = "vote"
           /\ \A s \in Members(j) : at[j][s] = at[j][r] => Voted(j, s)
           /\ \A s \in Members(j) : at[j][s] >= at[j][r]
 <1>1. r \in Members(j) /\ phase[j][r] = "vote"
       /\ EveryoneEntered(j, r) /\ ~ AnyBad(j, r)
   BY DEF Pass
 <1>2. \A s \in Members(j) : at[j][s] \in Nat /\ at[j][r] \in Nat
                             /\ bad[j][s] \in BOOLEAN
   BY MembersAreRanks DEF TypeOK
 <1>3. \A s \in Members(j) : at[j][s] >= at[j][r]
   BY <1>1, <1>2 DEF EveryoneEntered, Entered
 <1>4. ASSUME NEW s \in Members(j), at[j][s] = at[j][r]
       PROVE  Voted(j, s)
  <2>1. phase[j][s] \in {"vote", "threw", "returned", "lost"} /\ ~ bad[j][s]
    BY <1>1, <1>2, <1>4 DEF EveryoneEntered, Entered, AnyBad
  <2>2. phase[j][s] # "threw"
    BY <1>1, <1>4 DEF StageInv, ThrewForCause, AnyBad
  <2> QED
    BY <2>1, <2>2 DEF Voted
 <1> QED
   BY <1>1, <1>3, <1>4

LEMMA StagesPreserved ==
    ASSUME CheckpointAssumption, TypeOK, TypeOK', StageInv, TeamInv, StageMoves
    PROVE  StageInv'
 <1> USE DEF StageInv, InOrder, ThrewForCause, ReturnedTogether
 <1>j. "write" \in Jobs /\ "read" \in Jobs
   BY DEF Jobs
 <1>t. \A i \in Jobs, s \in Ranks : /\ at[i][s] \in Nat /\ at'[i][s] \in Nat
                                    /\ bad[i][s] \in BOOLEAN
                                    /\ bad'[i][s] \in BOOLEAN
   BY DEF TypeOK
 <1>m. \A i \in Jobs : Members(i) \subseteq Ranks
   BY MembersAreRanks
 <1>1. ASSUME NEW j \in Jobs, NEW r \in Ranks, NEW ok \in BOOLEAN, VoteStep(j, r, ok)
       PROVE  StageInv'
  <2>1. /\ MovesOf(j, r, "vote")
        /\ at' = at
        /\ \A i \in Jobs, s \in Ranks :
              bad'[i][s] = IF i = j /\ s = r THEN ~ ok ELSE bad[i][s]
    BY <1>1, VoteMoves
  <2>2. r \in Members(j) /\ phase[j][r] \in Open
    BY <1>1 DEF VoteStep, Open
  <2> SUFFICES ASSUME NEW i \in Jobs
               PROVE  (InOrder(i) /\ ThrewForCause(i) /\ ReturnedTogether(i))'
    OBVIOUS
  <2>3. Members(i)' = Members(i)
    BY <2>1, MembersKept DEF MovesOf
  <2>4. InOrder(i)'
    BY <2>1, <2>2, <2>3, <1>m, <1>t DEF MovesOf, Open
  <2>5. ThrewForCause(i)'
   <3> SUFFICES ASSUME NEW s \in Members(i), phase'[i][s] = "threw"
                PROVE  \E t \in Members(i) : /\ at'[i][t] = at'[i][s]
                                             /\ bad'[i][t]
                                             /\ phase'[i][t] \notin Open
     BY <2>3
   <3>1. phase[i][s] = "threw"
     BY <2>1, <1>m DEF MovesOf
   <3>2. PICK t \in Members(i) : /\ at[i][t] = at[i][s]
                                 /\ bad[i][t]
                                 /\ phase[i][t] \notin Open
     BY <3>1
   <3>3. ~ (i = j /\ t = r)
     BY <2>2, <3>2
   <3> QED
     BY <2>1, <3>2, <3>3, <1>m DEF MovesOf
  <2>6. ReturnedTogether(i)'
    BY <2>1, <2>2, <2>3, <1>m DEF MovesOf, Open
  <2> QED
    BY <2>4, <2>5, <2>6
 <1>2. ASSUME NEW j \in Jobs, NEW r \in Ranks, Pass(j, r)
       PROVE  StageInv'
  <2>1. /\ bad' = bad
        /\ r \in Members(j) /\ phase[j][r] = "vote"
        /\ \A s \in Members(j) : at[j][s] = at[j][r] => Voted(j, s)
        /\ \A s \in Members(j) : at[j][s] >= at[j][r]
    BY <1>2, PassMoves, PassFinds
  <2> SUFFICES ASSUME NEW i \in Jobs
               PROVE  (InOrder(i) /\ ThrewForCause(i) /\ ReturnedTogether(i))'
    OBVIOUS
  <2>2. CASE at[j][r] = LastStage(j) /\ at' = at /\ MovesOf(j, r, "returned")
   <3>1. Members(i)' = Members(i)
     BY <2>2, MembersKept DEF MovesOf
   <3>2. InOrder(i)'
     BY <2>1, <2>2, <3>1, <1>m, <1>t DEF MovesOf, Open
   <3>3. ThrewForCause(i)'
    <4> SUFFICES ASSUME NEW s \in Members(i), phase'[i][s] = "threw"
                 PROVE  \E t \in Members(i) : /\ at'[i][t] = at'[i][s]
                                              /\ bad'[i][t]
                                              /\ phase'[i][t] \notin Open
      BY <3>1
    <4>1. phase[i][s] = "threw"
      BY <2>2, <1>m DEF MovesOf
    <4>2. PICK t \in Members(i) : /\ at[i][t] = at[i][s]
                                  /\ bad[i][t]
                                  /\ phase[i][t] \notin Open
      BY <4>1
    <4> QED
      BY <2>1, <2>2, <4>2, <1>m DEF MovesOf, Open
   <3>4. ReturnedTogether(i)'
    <4>1. \A s \in Members(j) : at[j][s] <= LastStage(j)
      BY <1>m DEF TypeOK
    <4>2. LastStage(j) \in Nat
      BY <2>2, <1>t
    <4>3. \A s \in Members(j) : at[j][s] = LastStage(j) /\ Voted(j, s)
      BY <2>1, <2>2, <4>1, <4>2, <1>m, <1>t
    <4> QED
      BY <2>1, <2>2, <3>1, <4>3, <1>m DEF MovesOf, Voted, Open
   <3> QED
     BY <3>2, <3>3, <3>4
  <2>3. CASE /\ at[j][r] # LastStage(j)
             /\ MovesOf(j, r, "work")
             /\ \A k \in Jobs, s \in Ranks :
                   at'[k][s] = IF k = j /\ s = r THEN at[k][s] + 1 ELSE at[k][s]
   <3>1. Members(i)' = Members(i)
     BY <2>3, MembersKept DEF MovesOf
   <3>2. InOrder(i)'
    <4> SUFFICES ASSUME NEW q \in Members(i), NEW s \in Members(i),
                        at'[i][q] > at'[i][s]
                 PROVE  at'[i][q] = at'[i][s] + 1 /\ phase'[i][s] \notin Open
      BY <3>1
    <4>1. CASE i # j
      BY <4>1, <2>3, <1>m DEF MovesOf
    <4>2. CASE i = j /\ s = r
     <5>1. at[j][q] > at[j][r]
       BY <4>2, <2>3, <1>m, <1>t
     <5>2. at[j][q] = at[j][r] + 1
       BY <5>1, <4>2, <2>1
     <5> QED
       BY <4>2, <5>2, <2>3, <1>m, <1>t
    <4>3. CASE i = j /\ s # r /\ q # r
      BY <4>3, <2>3, <1>m DEF MovesOf
    <4>4. CASE i = j /\ s # r /\ q = r
     <5>1. at[j][s] = at[j][r]
       BY <4>4, <2>1, <2>3, <1>m, <1>t
     <5>2. Voted(j, s)
       BY <5>1, <4>4, <2>1
     <5> QED
       BY <5>1, <5>2, <4>4, <2>3, <1>m, <1>t DEF MovesOf, Voted, Open
    <4> QED
      BY <4>1, <4>2, <4>3, <4>4
   <3>3. ThrewForCause(i)'
    <4> SUFFICES ASSUME NEW s \in Members(i), phase'[i][s] = "threw"
                 PROVE  \E t \in Members(i) : /\ at'[i][t] = at'[i][s]
                                              /\ bad'[i][t]
                                              /\ phase'[i][t] \notin Open
      BY <3>1
    <4>1. phase[i][s] = "threw" /\ ~ (i = j /\ s = r)
      BY <2>3, <1>m DEF MovesOf
    <4>2. PICK t \in Members(i) : /\ at[i][t] = at[i][s]
                                  /\ bad[i][t]
                                  /\ phase[i][t] \notin Open
      BY <4>1
    <4>3. ~ (i = j /\ t = r)
      BY <2>1, <4>2 DEF Voted
    <4> QED
      BY <2>1, <2>3, <4>1, <4>2, <4>3, <1>m DEF MovesOf
   <3>4. ReturnedTogether(i)'
    <4> SUFFICES ASSUME NEW q \in Members(i), NEW s \in Members(i),
                        phase'[i][q] = "returned"
                 PROVE  /\ at'[i][q] = LastStage(i) /\ at'[i][s] = LastStage(i)
                        /\ phase'[i][s] \notin Open \union {"threw"}
                        /\ ~ bad'[i][s]
      BY <3>1
    <4>1. phase[i][q] = "returned"
      BY <2>3, <1>m DEF MovesOf
    <4>2. i # j
      BY <4>1, <2>1, <2>3
    <4> QED
      BY <4>1, <4>2, <2>1, <2>3, <1>m DEF MovesOf
   <3> QED
     BY <3>2, <3>3, <3>4
  <2> QED
    BY <1>2, <2>2, <2>3, PassMoves
 <1>3. ASSUME NEW j \in Jobs, NEW r \in Ranks, Throw(j, r)
       PROVE  StageInv'
  <2>1. MovesOf(j, r, "threw") /\ at' = at /\ bad' = bad
    BY <1>3, ThrowMoves
  <2>2. r \in Members(j) /\ phase[j][r] = "vote" /\ EveryoneEntered(j, r)
        /\ AnyBad(j, r)
    BY <1>3 DEF Throw
  <2>3. PICK b \in Members(j) : at[j][b] = at[j][r] /\ bad[j][b]
    BY <2>2 DEF AnyBad
  <2>4. phase[j][b] \notin Open
    BY <2>2, <2>3, <1>m, <1>t DEF EveryoneEntered, Entered, Open
  <2> SUFFICES ASSUME NEW i \in Jobs
               PROVE  (InOrder(i) /\ ThrewForCause(i) /\ ReturnedTogether(i))'
    OBVIOUS
  <2>5. Members(i)' = Members(i)
    BY <2>1, MembersKept DEF MovesOf
  <2>6. InOrder(i)'
    BY <2>1, <2>2, <2>5, <1>m, <1>t DEF MovesOf, Open
  <2>7. ThrewForCause(i)'
   <3> SUFFICES ASSUME NEW s \in Members(i), phase'[i][s] = "threw"
                PROVE  \E t \in Members(i) : /\ at'[i][t] = at'[i][s]
                                             /\ bad'[i][t]
                                             /\ phase'[i][t] \notin Open
     BY <2>5
   <3>1. CASE i = j /\ s = r
     BY <3>1, <2>1, <2>3, <2>4, <1>m DEF MovesOf, Open
   <3>2. CASE ~ (i = j /\ s = r)
    <4>1. phase[i][s] = "threw"
      BY <3>2, <2>1, <1>m DEF MovesOf
    <4>2. PICK t \in Members(i) : /\ at[i][t] = at[i][s]
                                  /\ bad[i][t]
                                  /\ phase[i][t] \notin Open
      BY <4>1
    <4> QED
      BY <2>1, <4>2, <1>m DEF MovesOf, Open
   <3> QED
     BY <3>1, <3>2
  <2>8. ReturnedTogether(i)'
    BY <2>1, <2>2, <2>3, <2>5, <1>m DEF MovesOf, Open
  <2> QED
    BY <2>6, <2>7, <2>8
 <1>4. ASSUME NEW r \in Ranks, RenameStep(r)
       PROVE  StageInv'
  <2>1. MovesOf("write", r, "renamed") /\ at' = at /\ bad' = bad
    BY <1>4, RenameMoves
  <2>2. phase["write"][r] = "work"
    BY <1>4 DEF RenameStep
  <2> SUFFICES ASSUME NEW i \in Jobs
               PROVE  (InOrder(i) /\ ThrewForCause(i) /\ ReturnedTogether(i))'
    OBVIOUS
  <2>3. Members(i)' = Members(i)
    BY <2>1, MembersKept DEF MovesOf
  <2>4. InOrder(i)'
    BY <2>1, <2>2, <2>3, <1>m, <1>t DEF MovesOf, Open
  <2>5. ThrewForCause(i)'
    BY <2>1, <2>2, <2>3, <1>m DEF MovesOf, Open
  <2>6. ReturnedTogether(i)'
    BY <2>1, <2>2, <2>3, <1>m DEF MovesOf, Open, Members
  <2> QED
    BY <2>4, <2>5, <2>6
 <1>5. ASSUME NEW c \in Checkpoints, NEW n \in {NumRanks - 1, NumRanks},
              n > 0, Start(c, n)
       PROVE  StageInv'
  <2>1. /\ at' = at /\ bad' = bad
        /\ team = {} /\ \A r \in Ranks : at["read"][r] = 1
        /\ \A r \in Ranks : phase'["read"][r] \in {"work", "idle"}
        /\ \A r \in Ranks : phase'["write"][r] = phase["write"][r]
    BY <1>5, <1>j DEF Start, TeamInv, TypeOK
  <2>2. Members("write")' = Ranks /\ Members("write") = Ranks
        /\ Members("read")' \subseteq Ranks
    BY DEF Members, TypeOK
  <2>3. (InOrder("write") /\ ThrewForCause("write") /\ ReturnedTogether("write"))'
    BY <2>1, <2>2, <1>j DEF LastStage
  <2>4. (InOrder("read") /\ ThrewForCause("read") /\ ReturnedTogether("read"))'
    BY <2>1, <2>2
  <2> QED
    BY <2>3, <2>4 DEF Jobs
 <1>6. CASE Fall
  <2>1. /\ at' = at /\ bad' = bad /\ team' = team
        /\ \A i \in Jobs : \A r \in Ranks :
               \/ phase'[i][r] = phase[i][r]
               \/ phase[i][r] \notin Terminal /\ phase'[i][r] = "killed"
               \/ phase[i][r] = "vote" /\ phase'[i][r] = "lost"
    BY <1>6 DEF Fall
  <2> SUFFICES ASSUME NEW i \in Jobs
               PROVE  (InOrder(i) /\ ThrewForCause(i) /\ ReturnedTogether(i))'
    OBVIOUS
  <2>3. Members(i)' = Members(i)
    BY <2>1, MembersKept
  <2>4. InOrder(i)'
    BY <2>1, <2>3, <1>m, <1>t DEF Open
  <2>5. ThrewForCause(i)'
   <3> SUFFICES ASSUME NEW s \in Members(i), phase'[i][s] = "threw"
                PROVE  \E t \in Members(i) : /\ at'[i][t] = at'[i][s]
                                             /\ bad'[i][t]
                                             /\ phase'[i][t] \notin Open
     BY <2>3
   <3>1. phase[i][s] = "threw"
     BY <2>1, <1>m
   <3>2. PICK t \in Members(i) : /\ at[i][t] = at[i][s]
                                 /\ bad[i][t]
                                 /\ phase[i][t] \notin Open
     BY <3>1
   <3> QED
     BY <2>1, <3>2, <1>m DEF Open
  <2>6. ReturnedTogether(i)'
    BY <2>1, <2>3, <1>m DEF Open, Terminal
  <2> QED
    BY <2>4, <2>5, <2>6
 <1> QED
   BY <1>1, <1>2, <1>3, <1>4, <1>5, <1>6 DEF StageMoves

-----------------------------------------------------------------------------
(* A stage is done by a vote without an exception, and by nothing else.    *)
LEMMA VoteDone ==
    ASSUME TypeOK, NEW j \in Jobs, NEW r \in Ranks, NEW ok \in BOOLEAN,
           VoteStep(j, r, ok),
           NEW i \in Jobs, NEW n \in Nat, NEW s \in Members(i)', Done(i, n, s)'
    PROVE  /\ s \in Members(i)
           /\ Done(i, n, s) \/ (i = j /\ s = r /\ n = at[j][r] /\ ok)
 <1>1. /\ MovesOf(j, r, "vote")
       /\ at' = at
       /\ \A k \in Jobs, q \in Ranks :
             bad'[k][q] = IF k = j /\ q = r THEN ~ ok ELSE bad[k][q]
   BY VoteMoves
 <1>2. Members(i)' = Members(i) /\ Members(i) \subseteq Ranks
   BY <1>1, MembersKept, MembersAreRanks DEF MovesOf
 <1>3. Past(i, n)' => Past(i, n)
   BY <1>1, <1>2 DEF MovesOf, Past
 <1> QED
   BY <1>1, <1>2, <1>3 DEF MovesOf, Done, Voted

LEMMA PassDone ==
    ASSUME TypeOK, StageInv, NEW j \in Jobs, NEW r \in Ranks, Pass(j, r),
           NEW i \in Jobs, NEW n \in Nat, NEW s \in Members(i)', Done(i, n, s)'
    PROVE  s \in Members(i) /\ Done(i, n, s)
 <1>0. /\ bad' = bad
       /\ r \in Members(j) /\ phase[j][r] = "vote"
       /\ \A q \in Members(j) : at[j][q] = at[j][r] => Voted(j, q)
       /\ \A q \in Members(j) : at[j][q] >= at[j][r]
   BY PassMoves, PassFinds
 <1>m. \A k \in Jobs : Members(k) \subseteq Ranks
   BY MembersAreRanks
 <1>t. \A k \in Jobs, q \in Ranks : at[k][q] \in Nat
   BY DEF TypeOK
 (* Once r passes stage n, it is done: the others voted or are past it. *)
 <1>1. ASSUME n = at[j][r], i = j, s \in Members(j)
       PROVE  Done(i, n, s)
  <2>1. at[j][s] = n => Voted(j, s)
    BY <1>0, <1>1
  <2>2. at[j][s] # n => at[j][s] > n
    BY <1>0, <1>1, <1>m, <1>t
  <2> QED
    BY <2>1, <2>2, <1>1 DEF Done, Past
 <1>2. CASE at[j][r] = LastStage(j) /\ at' = at /\ MovesOf(j, r, "returned")
  <2>1. s \in Members(i) /\ Members(i)' = Members(i)
    BY <1>2, MembersKept DEF MovesOf
  <2>2. CASE i = j /\ n = at[j][r]
    BY <2>1, <2>2, <1>1
  <2>3. CASE ~ (i = j /\ n = at[j][r])
   <3>1. Past(i, n)' => Past(i, n)
     BY <1>2, <2>1, <2>3, <1>m DEF MovesOf, Past
   <3>2. at'[i][s] = n /\ Voted(i, s)' => at[i][s] = n /\ Voted(i, s)
     BY <1>0, <1>2, <2>1, <2>3, <1>m DEF MovesOf, Voted
   <3> QED
     BY <2>1, <3>1, <3>2 DEF Done
  <2> QED
    BY <2>2, <2>3
 <1>3. CASE /\ at[j][r] # LastStage(j)
            /\ MovesOf(j, r, "work")
            /\ \A k \in Jobs, q \in Ranks :
                  at'[k][q] = IF k = j /\ q = r THEN at[k][q] + 1 ELSE at[k][q]
  <2>1. s \in Members(i) /\ Members(i)' = Members(i)
    BY <1>3, MembersKept DEF MovesOf
  <2>2. CASE i = j /\ n = at[j][r]
    BY <2>1, <2>2, <1>1
  <2>3. CASE ~ (i = j /\ n = at[j][r])
   <3>1. Past(i, n)' => Past(i, n)
    <4>1. ASSUME NEW q \in Members(i),
                 at'[i][q] > n \/ (at'[i][q] = n /\ phase'[i][q] = "returned")
          PROVE  at[i][q] > n \/ (at[i][q] = n /\ phase[i][q] = "returned")
     <5>1. CASE i = j /\ q = r
      <6>1. at'[i][q] = at[j][r] + 1 /\ phase'[i][q] = "work"
        BY <5>1, <1>3, <1>m DEF MovesOf
      <6> QED
        BY <5>1, <6>1, <4>1, <2>3, <1>m, <1>t
     <5>2. CASE ~ (i = j /\ q = r)
       BY <5>2, <4>1, <1>3, <1>m DEF MovesOf
     <5> QED
       BY <5>1, <5>2
    <4> QED
      BY <4>1, <2>1 DEF Past
   <3>2. at'[i][s] = n /\ Voted(i, s)' => at[i][s] = n /\ Voted(i, s)
     BY <1>0, <1>3, <2>1, <1>m DEF MovesOf, Voted
   <3> QED
     BY <2>1, <3>1, <3>2 DEF Done
  <2> QED
    BY <2>2, <2>3
 <1> QED
   BY <1>2, <1>3, PassMoves

LEMMA OtherDone ==
    ASSUME TypeOK,
           \/ \E j \in Jobs, r \in Ranks : Throw(j, r)
           \/ \E r \in Ranks : RenameStep(r)
           \/ Fall,
           NEW i \in Jobs, NEW n \in Nat, NEW s \in Members(i)', Done(i, n, s)'
    PROVE  s \in Members(i) /\ Done(i, n, s)
 <1>1. CASE \E j \in Jobs, r \in Ranks : Throw(j, r)
  <2>1. PICK j \in Jobs, r \in Ranks : Throw(j, r)
    BY <1>1
  <2>2. MovesOf(j, r, "threw") /\ at' = at /\ bad' = bad
    BY <2>1, ThrowMoves
  <2>3. Members(i)' = Members(i) /\ Members(i) \subseteq Ranks
    BY <2>2, MembersKept, MembersAreRanks DEF MovesOf
  <2> QED
    BY <2>2, <2>3 DEF MovesOf, Done, Past, Voted
 <1>2. CASE \E r \in Ranks : RenameStep(r)
  <2>1. PICK r \in Ranks : RenameStep(r)
    BY <1>2
  <2>2. MovesOf("write", r, "renamed") /\ at' = at /\ bad' = bad
    BY <2>1, RenameMoves
  <2>3. Members(i)' = Members(i) /\ Members(i) \subseteq Ranks
    BY <2>2, MembersKept, MembersAreRanks DEF MovesOf
  <2> QED
    BY <2>2, <2>3 DEF MovesOf, Done, Past, Voted
 <1>3. CASE Fall
  <2>1. Members(i)' = Members(i) /\ Members(i) \subseteq Ranks
    BY <1>3, MembersKept, MembersAreRanks DEF Fall
  <2> QED
    BY <1>3, <2>1 DEF Fall, Done, Past, Voted
 <1> QED
   BY <1>1, <1>2, <1>3

(* The reader has done nothing when it starts.                             *)
LEMMA StartDone ==
    ASSUME CheckpointAssumption, TypeOK, TeamInv, NEW c \in Checkpoints,
           NEW k \in {NumRanks - 1, NumRanks}, Start(c, k),
           NEW i \in Jobs, NEW n \in Nat \ {0}, NEW s \in Members(i)', Done(i, n, s)'
    PROVE  i = "write" /\ s \in Members(i) /\ Done(i, n, s)
 <1>1. /\ at' = at /\ bad' = bad
       /\ team = {} /\ \A r \in Ranks : at["read"][r] = 1
       /\ \A r \in Ranks : phase'["read"][r] \in {"work", "idle"}
       /\ \A r \in Ranks : phase'["write"][r] = phase["write"][r]
   BY DEF Start, TeamInv, TypeOK, Jobs
 <1>2. Members("read")' \subseteq Ranks
   BY DEF Members, Start, Ranks, CheckpointAssumption
 <1>3. i # "read"
   BY <1>1, <1>2 DEF Done, Past, Voted
 <1>4. i = "write" /\ Members(i)' = Ranks /\ Members(i) = Ranks
   BY <1>3 DEF Jobs, Members
 <1> QED
   BY <1>1, <1>4 DEF Done, Past, Voted

(* A rank still at work in stage n has not done it, and nobody is past it. *)
LEMMA OpenNotPast ==
    ASSUME TypeOK, StageInv, NEW j \in Jobs, NEW r \in Members(j),
           phase[j][r] \in Open, NEW n \in Nat, n >= at[j][r]
    PROVE  ~ Past(j, n) /\ ~ Done(j, n, r)
 <1>1. \A q \in Members(j) : q \in Ranks /\ at[j][q] \in Nat
   BY MembersAreRanks DEF TypeOK
 <1>2. ~ Past(j, n)
  <2> SUFFICES ASSUME NEW q \in Members(j),
                      at[j][q] > n \/ (at[j][q] = n /\ phase[j][q] = "returned")
               PROVE  FALSE
    BY DEF Past
  <2>1. CASE at[j][q] > n
    BY <2>1, <1>1 DEF StageInv, InOrder
  <2>2. CASE phase[j][q] = "returned"
    BY <2>2 DEF StageInv, ReturnedTogether
  <2> QED
    BY <2>1, <2>2
 <1> QED
   BY <1>2 DEF Done, Voted, Open

-----------------------------------------------------------------------------
(* The reader.                                                             *)
LEMMA TeamPreserved ==
    ASSUME CheckpointAssumption, TypeOK, TeamInv, AnyStep
    PROVE  TeamInv'
 <1>1. CASE UNCHANGED <<source, team, at>>
   BY <1>1 DEF TeamInv
 <1>2. ASSUME NEW j \in Jobs, NEW r \in Ranks, Pass(j, r)
       PROVE  TeamInv'
  <2>1. UNCHANGED <<source, team>> /\ r \in Members(j)
    BY <1>2 DEF Pass, reader
  <2>2. j = "read" => team # {}
    BY <2>1 DEF Members
  <2>3. j = "write" => \A s \in Ranks : at'["read"][s] = at["read"][s]
    BY <1>2, PassMoves DEF Jobs
  <2> QED
    BY <2>1, <2>2, <2>3 DEF TeamInv, Jobs
 <1>3. ASSUME NEW c \in Checkpoints, NEW n \in {NumRanks - 1, NumRanks},
              n > 0, Start(c, n)
       PROVE  TeamInv'
  <2>1. source' # None
    BY <1>3 DEF Start, Checkpoints, None
  <2>2. 0 \in team'
    BY <1>3 DEF Start, CheckpointAssumption
  <2> QED
    BY <2>1, <2>2 DEF TeamInv
 <1>4. ASSUME NEW j \in Jobs, NEW r \in Ranks, Throw(j, r)
       PROVE  UNCHANGED <<source, team, at>>
   BY <1>4 DEF Throw, reader
 <1>5. ASSUME NEW j \in Jobs, NEW r \in Ranks, NEW ok \in BOOLEAN,
              QuietVote(j, r, ok)
       PROVE  UNCHANGED <<source, team, at>>
   BY <1>5 DEF QuietVote, Vote, reader
 <1>6. QuietFall => UNCHANGED <<source, team, at>>
   BY DEF QuietFall, Fall, reader
 <1>7. ManifestStep => UNCHANGED <<source, team, at>>
   BY DEF ManifestStep, CreateDirectory, RenameManifest, SyncManifest, Vote, reader
 <1>8. ASSUME NEW r \in Ranks, NEW ok \in BOOLEAN,
              RenameShard(r) \/ SyncShard(r, ok) \/ ReadManifest(r, ok)
              \/ ReadShard(r, ok)
       PROVE  UNCHANGED <<source, team, at>>
   BY <1>8 DEF RenameShard, SyncShard, ReadManifest, ReadShard, Vote, reader
 <1>9. ASSUME NEW lostDirs \in SUBSET Checkpoints, NEW lostNames \in SUBSET unsynced,
              PowerFailure(lostDirs, lostNames)
       PROVE  UNCHANGED <<source, team, at>>
   BY <1>9 DEF PowerFailure, reader
 <1>10. ASSUME \/ \E c, e \in Checkpoints, r, s \in Ranks : CopyShard(c, e, r, s)
               \/ \E c, e \in Checkpoints : CopyManifest(c, e)
        PROVE  UNCHANGED <<source, team, at>>
   BY <1>10 DEF CopyShard, CopyManifest, jobs, reader
 <1> QED
   BY <1>1, <1>2, <1>3, <1>4, <1>5, <1>6, <1>7, <1>8, <1>9, <1>10 DEF AnyStep

(* A step that neither votes nor touches what the readers hold.            *)
LEMMA ReadKept ==
    ASSUME ReadInv, UNCHANGED <<team, seen, loaded>>,
           \A n \in Nat \ {0}, s \in team : Done("read", n, s)' => Done("read", n, s)
    PROVE  ReadInv'
  BY DEF ReadInv

LEMMA ReadPreserved ==
    ASSUME CheckpointAssumption, TypeOK, StageInv, TeamInv, ReadInv, AnyStep
    PROVE  ReadInv'
 <1>j. "write" \in Jobs /\ "read" \in Jobs
   BY DEF Jobs
 <1>m. Members("read") = team /\ Members("read")' = team' /\ team \subseteq Ranks
   BY DEF Members, TypeOK
 <1>1. ASSUME NEW j \in Jobs, NEW r \in Ranks, Pass(j, r)
       PROVE  ReadInv'
  <2>1. UNCHANGED <<team, seen, loaded>>
    BY <1>1 DEF Pass, reader
  <2>2. \A n \in Nat \ {0}, s \in team : Done("read", n, s)' => Done("read", n, s)
    BY <1>1, <2>1, <1>j, <1>m, PassDone
  <2> QED
    BY <2>1, <2>2, ReadKept
 <1>2. ASSUME \/ \E j \in Jobs, r \in Ranks : Throw(j, r)
              \/ \E r \in Ranks : RenameStep(r)
              \/ Fall,
              UNCHANGED <<team, seen, loaded>>
       PROVE  ReadInv'
  <2>2. \A n \in Nat \ {0}, s \in team : Done("read", n, s)' => Done("read", n, s)
    BY <1>2, <1>j, <1>m, OtherDone
  <2> QED
    BY <1>2, <2>2, ReadKept
 <1>3. ASSUME NEW r \in Ranks, NEW ok \in BOOLEAN, VoteStep("write", r, ok),
              UNCHANGED <<team, seen, loaded>>
       PROVE  ReadInv'
  <2>2. \A n \in Nat \ {0}, s \in team : Done("read", n, s)' => Done("read", n, s)
    BY <1>3, <1>j, <1>m, VoteDone
  <2> QED
    BY <1>3, <2>2, ReadKept
 <1>4. ASSUME NEW r \in Ranks, NEW ok \in BOOLEAN, QuietVote("read", r, ok)
       PROVE  ReadInv'
  <2>1. VoteStep("read", r, ok) /\ UNCHANGED <<team, seen, loaded>>
    BY <1>4, <1>j, ActionMoves DEF QuietVote, reader
  <2>2. ok => at["read"][r] \in {1, 5} \/ (at["read"][r] = 3 /\ seen[r] = seen[0])
   <3>1. ok => \/ Stage("read", r) \in {"prepare", "admit"}
               \/ Stage("read", r) = "identity" /\ SameAsRoot(r)
     BY <1>4 DEF QuietVote
   <3> QED
     BY <3>1, ReadStageNumbers DEF SameAsRoot
  <2>3. \A n \in Nat \ {0}, s \in team :
           Done("read", n, s)' => \/ Done("read", n, s)
                                  \/ s = r /\ n = at["read"][r] /\ ok
    BY <2>1, <1>j, <1>m, VoteDone
  <2> QED
    BY <2>1, <2>2, <2>3 DEF ReadInv
 <1>5. ASSUME NEW r \in Ranks, NEW ok \in BOOLEAN, ReadManifest(r, ok)
       PROVE  ReadInv'
  <2>1. VoteStep("read", r, ok) /\ UNCHANGED <<team, loaded>>
    BY <1>5, ActionMoves DEF ReadManifest
  <2>2. r \in team /\ phase["read"][r] \in Open /\ at["read"][r] = 2
    BY <1>5, ReadStageNumbers DEF ReadManifest, Working, Members, Open
  <2>3. \A n \in Nat \ {0}, s \in team :
           Done("read", n, s)' => \/ Done("read", n, s)
                                  \/ s = r /\ n = 2 /\ ok
    BY <2>1, <2>2, <1>j, <1>m, VoteDone
  <2>4. ok => team = Ranks /\ manifest[source] # None
   <3>1. IsFiniteSet(Ranks) /\ Cardinality(Ranks) = NumRanks
     BY FS_Interval DEF Ranks, CheckpointAssumption
   <3>2. ok => Cardinality(team) = NumRanks /\ manifest[source] # None
     BY <1>5 DEF ReadManifest, Admitted
   <3> QED
     BY <3>1, <3>2, <1>m, FS_Subset
  <2>5. ~ Past("read", 2) /\ ~ Done("read", 2, r)
    BY <2>2, <1>j, <1>m, OpenNotPast
  <2>6. \A s \in team, n \in {3, 4} : ~ Done("read", n, s)
   <3> SUFFICES ASSUME NEW s \in team, NEW n \in {3, 4}, Done("read", n, s)
                PROVE  FALSE
     OBVIOUS
   <3>1. \A q \in team : at["read"][q] \in Nat
     BY <1>j, <1>m DEF TypeOK
   <3>2. at["read"][s] # n
     BY <2>5, <3>1, <1>m DEF Past
   <3>3. Past("read", n)
     BY <3>2 DEF Done
   <3> QED
     BY <3>1, <3>3, <2>5, <1>m DEF Past
  <2>7. \A s \in team : s # r => seen'[s] = seen[s]
    BY <1>5, <1>m DEF ReadManifest, TypeOK
  <2>8. ok => seen'[r] = manifest[source]
    BY <1>5 DEF ReadManifest, TypeOK
  <2>9. \A s \in team : Done("read", 2, s)' =>
           team' = Ranks /\ seen'[s] # None
    BY <2>1, <2>3, <2>4, <2>5, <2>7, <2>8 DEF ReadInv
  <2> QED
    BY <2>1, <2>3, <2>6, <2>9 DEF ReadInv
 <1>6. ASSUME NEW r \in Ranks, NEW ok \in BOOLEAN, ReadShard(r, ok)
       PROVE  ReadInv'
  <2>1. VoteStep("read", r, ok) /\ UNCHANGED <<team, seen>>
    BY <1>6, ActionMoves DEF ReadShard
  <2>2. r \in team /\ phase["read"][r] \in Open /\ at["read"][r] = 4
    BY <1>6, ReadStageNumbers DEF ReadShard, Working, Members, Open
  <2>3. \A n \in Nat \ {0}, s \in team :
           Done("read", n, s)' => \/ Done("read", n, s)
                                  \/ s = r /\ n = 4 /\ ok
    BY <2>1, <2>2, <1>j, <1>m, VoteDone
  <2>4. ~ Done("read", 4, r)
    BY <2>2, <1>j, <1>m, OpenNotPast
  <2>5. /\ \A s \in team : s # r => loaded'[s] = loaded[s]
        /\ ok => loaded'[r] = <<seen[r], r>>
    BY <1>6, <1>m DEF ReadShard, DigestMatches, TypeOK
  <2> QED
    BY <2>1, <2>3, <2>4, <2>5 DEF ReadInv
 <1>7. ASSUME NEW c \in Checkpoints, NEW n \in {NumRanks - 1, NumRanks},
              n > 0, Start(c, n)
       PROVE  ReadInv'
  <2>1. \A k \in Nat \ {0}, s \in team' : ~ Done("read", k, s)'
    BY <1>7, <1>j, <1>m, StartDone
  <2> QED
    BY <2>1 DEF ReadInv
 <1>8. CASE ManifestStep
  <2>1. UNCHANGED <<team, seen, loaded>>
    BY <1>8 DEF ManifestStep, CreateDirectory, RenameManifest, SyncManifest, reader
  <2>2. 0 \in Ranks
    BY RootIsRank
  <2> QED
    BY <1>8, <2>1, <2>2, ActionMoves, <1>2, <1>3 DEF ManifestStep
 <1>9. ASSUME NEW r \in Ranks, RenameShard(r)
       PROVE  ReadInv'
  <2>1. RenameStep(r) /\ UNCHANGED <<team, seen, loaded>>
    BY <1>9, ActionMoves DEF RenameShard, reader
  <2> QED
    BY <2>1, <1>2
 <1>10. ASSUME NEW r \in Ranks, NEW ok \in BOOLEAN, SyncShard(r, ok)
        PROVE  ReadInv'
  <2>1. VoteStep("write", r, ok) /\ UNCHANGED <<team, seen, loaded>>
    BY <1>10, ActionMoves DEF SyncShard, reader
  <2> QED
    BY <2>1, <1>3
 <1>11. ASSUME NEW r \in Ranks, NEW ok \in BOOLEAN, QuietVote("write", r, ok)
        PROVE  ReadInv'
  <2>1. VoteStep("write", r, ok) /\ UNCHANGED <<team, seen, loaded>>
    BY <1>11, <1>j, ActionMoves DEF QuietVote, reader
  <2> QED
    BY <2>1, <1>3
 <1>12. ASSUME NEW j \in Jobs, NEW r \in Ranks, Throw(j, r)
        PROVE  ReadInv'
  <2>1. UNCHANGED <<team, seen, loaded>>
    BY <1>12 DEF Throw, reader
  <2> QED
    BY <2>1, <1>12, <1>2
 <1>13. CASE QuietFall
   BY <1>13, <1>2 DEF QuietFall, reader
 <1>14. ASSUME NEW lostDirs \in SUBSET Checkpoints, NEW lostNames \in SUBSET unsynced,
               PowerFailure(lostDirs, lostNames)
        PROVE  ReadInv'
  <2>1. Fall /\ UNCHANGED <<team, seen, loaded>>
    BY <1>14, ActionMoves DEF PowerFailure, reader
  <2> QED
    BY <2>1, <1>2
 <1>15. CASE \/ \E c, e \in Checkpoints, r, s \in Ranks : CopyShard(c, e, r, s)
             \/ \E c, e \in Checkpoints : CopyManifest(c, e)
  <2>1. Fall /\ UNCHANGED <<team, seen, loaded>>
    BY <1>15, ActionMoves DEF CopyShard, CopyManifest, reader
  <2> QED
    BY <2>1, <1>2
 <1>16. ASSUME NEW j \in Jobs, NEW r \in Ranks, NEW ok \in BOOLEAN,
               QuietVote(j, r, ok)
        PROVE  ReadInv'
   BY <1>16, <1>4, <1>11 DEF Jobs
 <1> QED
   BY <1>1, <1>5, <1>6, <1>7, <1>8, <1>9, <1>10, <1>12, <1>13, <1>14, <1>15, <1>16
   DEF AnyStep

-----------------------------------------------------------------------------
(* The writers.  Every step takes rank 0 forward only, and nobody writes   *)
(* again after a power failure.                                            *)
Advances ==
    /\ NobodyWrites => NobodyWrites'
    /\ at'["write"][0] >= at["write"][0]
    /\ at'["write"][0] = at["write"][0] /\ phase'["write"][0] = "work" =>
          phase["write"][0] = "work"

(* No write stage is done by this step, and no file of one becomes visible.*)
NoneDone == \A n \in Nat \ {0}, s \in Ranks :
                Done("write", n, s)' => Done("write", n, s)

NoneRenamed == \A s \in Ranks : phase'["write"][s] = "renamed" =>
                   phase["write"][s] = "renamed" /\ at'["write"][s] = at["write"][s]

Calm == Advances /\ NoneDone /\ NoneRenamed

LEMMA VoteAdvances ==
    ASSUME CheckpointAssumption, TypeOK, NEW j \in Jobs, NEW r \in Ranks,
           NEW ok \in BOOLEAN, VoteStep(j, r, ok)
    PROVE  /\ Advances /\ NoneRenamed /\ (j = "read" => Calm)
           /\ \A n \in Nat \ {0}, s \in Ranks : Done("write", n, s)' =>
                 Done("write", n, s) \/ (j = "write" /\ s = r /\ n = at[j][r] /\ ok)
 <1>j. "write" \in Jobs /\ 0 \in Ranks /\ Members("write") = Ranks
       /\ Members("write")' = Ranks /\ at["write"][0] \in Nat
   BY RootIsRank DEF Jobs, Members, TypeOK
 <1>1. MovesOf(j, r, "vote") /\ at' = at
   BY VoteMoves
 <1>2. phase[j][r] \notin Terminal
   BY DEF VoteStep, Terminal
 <1>3. Advances /\ NoneRenamed
   BY <1>j, <1>1, <1>2 DEF MovesOf, Advances, NoneRenamed, NobodyWrites
 <1>4. \A n \in Nat \ {0}, s \in Ranks : Done("write", n, s)' =>
          Done("write", n, s) \/ (j = "write" /\ s = r /\ n = at[j][r] /\ ok)
   BY <1>j, VoteDone
 <1> QED
   BY <1>3, <1>4 DEF Calm, NoneDone

LEMMA RenameAdvances ==
    ASSUME CheckpointAssumption, TypeOK, NEW r \in Ranks, RenameStep(r)
    PROVE  /\ Advances /\ NoneDone /\ at' = at
           /\ \A s \in Ranks \ {r} : phase'["write"][s] = phase["write"][s]
           /\ phase'["write"][r] = "renamed"
 <1>j. "write" \in Jobs /\ 0 \in Ranks /\ Members("write")' = Ranks
       /\ at["write"][0] \in Nat
   BY RootIsRank DEF Jobs, Members, TypeOK
 <1>1. MovesOf("write", r, "renamed") /\ at' = at
   BY RenameMoves
 <1>2. phase["write"][r] \notin Terminal
   BY DEF RenameStep, Terminal
 <1>3. Advances
   BY <1>j, <1>1, <1>2 DEF MovesOf, Advances, NobodyWrites
 <1>4. NoneDone
   BY <1>j, OtherDone DEF NoneDone
 <1> QED
   BY <1>j, <1>1, <1>3, <1>4 DEF MovesOf

LEMMA OthersCalm ==
    ASSUME CheckpointAssumption, TypeOK, StageInv, TeamInv,
           \/ \E j \in Jobs, r \in Ranks : Pass(j, r) \/ Throw(j, r)
           \/ Fall
           \/ \E c \in Checkpoints, n \in {NumRanks - 1, NumRanks} :
                 n > 0 /\ Start(c, n)
    PROVE  Calm
 <1>j. "write" \in Jobs /\ 0 \in Ranks /\ Members("write")' = Ranks
       /\ at["write"][0] \in Nat
   BY RootIsRank DEF Jobs, Members, TypeOK
 <1>1. CASE \E j \in Jobs, r \in Ranks : Pass(j, r)
  <2>1. PICK j \in Jobs, r \in Ranks : Pass(j, r)
    BY <1>1
  <2>2. phase[j][r] = "vote"
    BY <2>1 DEF Pass
  <2>3. NoneDone
    BY <2>1, <1>j, PassDone DEF NoneDone
  <2>4. \/ at' = at /\ MovesOf(j, r, "returned")
        \/ /\ MovesOf(j, r, "work")
           /\ \A i \in Jobs, s \in Ranks :
                 at'[i][s] = IF i = j /\ s = r THEN at[i][s] + 1 ELSE at[i][s]
    BY <2>1, PassMoves
  <2>5. Advances
    BY <2>2, <2>4, <1>j DEF MovesOf, Advances, NobodyWrites, Terminal
  <2>6. NoneRenamed
    BY <2>4, <1>j DEF MovesOf, NoneRenamed
  <2> QED
    BY <2>3, <2>5, <2>6 DEF Calm
 <1>2. CASE \E j \in Jobs, r \in Ranks : Throw(j, r)
  <2>1. PICK j \in Jobs, r \in Ranks : Throw(j, r)
    BY <1>2
  <2>2. MovesOf(j, r, "threw") /\ at' = at /\ phase[j][r] = "vote"
    BY <2>1, ThrowMoves DEF Throw
  <2>3. NoneDone
    BY <2>1, <1>j, OtherDone DEF NoneDone
  <2> QED
    BY <2>2, <2>3, <1>j
    DEF Calm, MovesOf, Advances, NoneRenamed, NobodyWrites, Terminal
 <1>3. CASE Fall
  <2>1. NoneDone
    BY <1>3, <1>j, OtherDone DEF NoneDone
  <2> QED
    BY <1>3, <2>1, <1>j
    DEF Fall, Calm, Advances, NoneRenamed, NobodyWrites, Terminal
 <1>4. CASE \E c \in Checkpoints, n \in {NumRanks - 1, NumRanks} :
               n > 0 /\ Start(c, n)
  <2>1. PICK c \in Checkpoints, n \in {NumRanks - 1, NumRanks} : Start(c, n)
    BY <1>4
  <2>2. NoneDone
    BY <2>1, <1>j, StartDone DEF NoneDone
  <2>3. at' = at /\ \A r \in Ranks : phase'["write"][r] = phase["write"][r]
    BY <2>1 DEF Start, TypeOK, Jobs
  <2> QED
    BY <2>2, <2>3, <1>j DEF Calm, Advances, NoneRenamed, NobodyWrites
 <1> QED
   BY <1>1, <1>2, <1>3, <1>4

(* The numbers of a checkpoint's stages.                                   *)
LEMMA NthNumber ==
    ASSUME CheckpointAssumption, NEW c \in Checkpoints, NEW i \in 1 .. 5
    PROVE  /\ Nth(c, i) \in Nat \ {0} /\ c \in Nat /\ Nth(c, i) <= Nth(c, 5)
           /\ \A e \in Checkpoints, k \in 1 .. 5 :
                 Nth(c, i) = Nth(e, k) => c = e /\ i = k
 <1>1. Checkpoints \subseteq Nat \ {0}
   BY DEF Checkpoints, CheckpointAssumption
 <1>2. Nth(c, i) \in Nat \ {0} /\ Nth(c, i) <= Nth(c, 5)
   BY <1>1 DEF Nth
 <1> QED
   BY <1>1, <1>2, NthInjective

LEMMA WholeKept ==
    ASSUME NEW c \in Checkpoints, Whole(c),
           dir[c] # "absent" => dir'[c] # "absent",
           \A r \in Ranks : shard[c][r] = <<c, r>> /\ <<c, r>> \notin unsynced =>
                            shard'[c][r] = <<c, r>> /\ <<c, r>> \notin unsynced'
    PROVE  Whole(c)'
  BY DEF Whole

LEMMA CalmWrite ==
    ASSUME CheckpointAssumption, TypeOK, TypeOK', WriteInv, Calm, UNCHANGED <<files, world>>
    PROVE  WriteInv'
 <1>f. UNCHANGED <<dir, shard, manifest, unsynced, outages, copied>>
   BY DEF files, world
 <1>n. \A c \in Checkpoints, i \in 1 .. 5 : Nth(c, i) \in Nat \ {0}
   BY NthNumber
 <1>t. at["write"][0] \in Nat /\ at'["write"][0] \in Nat /\ 0 \in Ranks
   BY RootIsRank DEF TypeOK, Jobs
 <1>1. OutageInv'
   BY <1>f DEF WriteInv, OutageInv, Calm, Advances
 <1>2. DirectoryInv'
   BY <1>f, <1>n, <1>t DEF WriteInv, DirectoryInv, Calm, NoneDone
 <1>3. ShardInv'
   BY <1>f, <1>n DEF WriteInv, ShardInv, Calm, NoneDone, NoneRenamed
 <1>4. ManifestInv'
   BY <1>f, <1>n, <1>t DEF WriteInv, ManifestInv, ManifestName, Calm, NoneDone,
                           NoneRenamed
 <1>5. WholeInv'
   BY <1>f, <1>n, <1>t DEF WriteInv, WholeInv, Whole, Calm, Advances
 <1> QED
   BY <1>1, <1>2, <1>3, <1>4, <1>5 DEF WriteInv

LEMMA QuietVoteWrite ==
    ASSUME CheckpointAssumption, TypeOK, TypeOK', WriteInv,
           NEW j \in Jobs, NEW r \in Ranks, NEW ok \in BOOLEAN, QuietVote(j, r, ok)
    PROVE  WriteInv'
 <1>1. VoteStep(j, r, ok) /\ UNCHANGED <<files, world>>
   BY ActionMoves DEF QuietVote
 <1>2. CASE j = "read" \/ ~ ok
  <2>1. Calm
    BY <1>1, <1>2, VoteAdvances DEF Calm, NoneDone, Jobs
  <2> QED
    BY <1>1, <2>1, CalmWrite
 <1>3. CASE j = "write" /\ ok
  <2>1. \/ Stage("write", r) \in {"admit", "gather"}
        \/ r # 0 /\ Stage("write", r) \in {"create", "manifest"}
    BY <1>3 DEF QuietVote
  <2>2. \A c \in Checkpoints :
           /\ at["write"][r] = Nth(c, 3) => FALSE
           /\ at["write"][r] = Nth(c, 2) => r # 0
           /\ at["write"][r] = Nth(c, 5) => r # 0
    BY <2>1, WriteStageNumbers
  <2>3. /\ Advances /\ NoneRenamed
        /\ \A n \in Nat \ {0}, s \in Ranks : Done("write", n, s)' =>
              Done("write", n, s) \/ (s = r /\ n = at["write"][r])
    BY <1>1, <1>3, VoteAdvances
  <2>f. UNCHANGED <<dir, shard, manifest, unsynced, outages, copied>>
    BY <1>1 DEF files, world
  <2>n. \A c \in Checkpoints, i \in 1 .. 5 : Nth(c, i) \in Nat \ {0}
    BY NthNumber
  <2>t. at["write"][0] \in Nat /\ at'["write"][0] \in Nat /\ 0 \in Ranks
    BY RootIsRank DEF TypeOK, Jobs
  <2>4. OutageInv'
    BY <2>f, <2>3 DEF WriteInv, OutageInv, Advances
  <2>5. DirectoryInv'
    BY <2>f, <2>n, <2>t, <2>2, <2>3 DEF WriteInv, DirectoryInv
  <2>6. ShardInv'
    BY <2>f, <2>n, <2>2, <2>3 DEF WriteInv, ShardInv, NoneRenamed
  <2>7. ManifestInv'
    BY <2>f, <2>n, <2>t, <2>2, <2>3
    DEF WriteInv, ManifestInv, ManifestName, NoneRenamed
  <2>8. WholeInv'
    BY <2>f, <2>n, <2>t, <2>3 DEF WriteInv, WholeInv, Whole, Advances
  <2> QED
    BY <2>4, <2>5, <2>6, <2>7, <2>8 DEF WriteInv
 <1> QED
   BY <1>2, <1>3 DEF Jobs

LEMMA CreateDirectoryWrite ==
    ASSUME CheckpointAssumption, TypeOK, TypeOK', WriteInv,
           NEW made \in BOOLEAN, NEW ok \in BOOLEAN, CreateDirectory(made, ok)
    PROVE  WriteInv'
 <1> DEFINE c == Target(0)
 <1>0. 0 \in Ranks /\ c \in Checkpoints /\ at["write"][0] = Nth(c, 2)
   BY RootIsRank, WritePlace, WriteStageNumbers DEF CreateDirectory, Working
 <1>f. UNCHANGED <<shard, manifest, unsynced, outages, copied>>
   BY DEF CreateDirectory, world
 <1>d. /\ \A e \in Checkpoints : dir[e] # "absent" => dir'[e] # "absent"
       /\ ok => dir'[c] # "absent"
   BY <1>0 DEF CreateDirectory, TypeOK
 <1> HIDE DEF c
 <1>n. \A e \in Checkpoints, i \in 1 .. 5 :
          /\ Nth(e, i) \in Nat \ {0}
          /\ Nth(e, i) = Nth(c, 2) => e = c /\ i = 2
   BY <1>0, NthNumber
 <1>t. at["write"][0] \in Nat /\ at'["write"][0] \in Nat
   BY <1>0 DEF TypeOK, Jobs
 <1>1. /\ Advances /\ NoneRenamed
       /\ \A n \in Nat \ {0}, s \in Ranks : Done("write", n, s)' =>
             Done("write", n, s) \/ (n = Nth(c, 2) /\ ok)
   BY <1>0, ActionMoves, VoteAdvances DEF Jobs
 <1>2. OutageInv'
   BY <1>f, <1>1 DEF WriteInv, OutageInv, Advances
 <1>3. DirectoryInv'
   BY <1>f, <1>d, <1>n, <1>0, <1>1 DEF WriteInv, DirectoryInv
 <1>4. ShardInv'
   BY <1>f, <1>n, <1>1 DEF WriteInv, ShardInv, NoneRenamed
 <1>5. ManifestInv'
   BY <1>f, <1>n, <1>0, <1>1 DEF WriteInv, ManifestInv, ManifestName, NoneRenamed
 <1>6. WholeInv'
   BY <1>f, <1>d, <1>n, <1>t, <1>1 DEF WriteInv, WholeInv, Whole, Advances
 <1> QED
   BY <1>2, <1>3, <1>4, <1>5, <1>6 DEF WriteInv

(* A writer is at work only while the power lasts.                         *)
LEMMA WorkMeansPower ==
    ASSUME TypeOK, OutageInv, NEW r \in Ranks, phase["write"][r] \in {"work", "renamed"}
    PROVE  outages = 0
  BY DEF OutageInv, NobodyWrites, Terminal

LEMMA ShardNamesDiffer ==
    ASSUME CheckpointAssumption, NEW c \in Checkpoints, NEW e \in Checkpoints,
           NEW r \in Ranks
    PROVE  <<e, r>> # ManifestName(c)
  BY RootIsRank DEF ManifestName

LEMMA RenameShardWrite ==
    ASSUME CheckpointAssumption, TypeOK, TypeOK', StageInv, WriteInv,
           NEW r \in Ranks, RenameShard(r)
    PROVE  WriteInv'
 <1> DEFINE c == Target(r)
 <1>0. /\ 0 \in Ranks /\ c \in Checkpoints /\ at["write"][r] = Nth(c, 3)
       /\ phase["write"][r] = "work" /\ outages = 0
   BY RootIsRank, WritePlace, WriteStageNumbers, WorkMeansPower
   DEF RenameShard, Working, WriteInv
 <1>f. UNCHANGED <<dir, manifest, outages, copied>>
   BY DEF RenameShard, world
 <1>s. /\ unsynced' = unsynced \union {<<c, r>>}
       /\ shard'[c][r] = <<c, r>>
       /\ \A e \in Checkpoints, q \in Ranks :
             ~ (e = c /\ q = r) => shard'[e][q] = shard[e][q]
   BY <1>0 DEF RenameShard, TypeOK
 <1> HIDE DEF c
 <1>n. \A e \in Checkpoints, i \in 1 .. 5 :
          /\ Nth(e, i) \in Nat \ {0}
          /\ Nth(e, i) = Nth(c, 3) => e = c /\ i = 3
   BY <1>0, NthNumber
 <1>t. at["write"][0] \in Nat /\ at'["write"][0] \in Nat
   BY <1>0 DEF TypeOK, Jobs
 <1>1. /\ Advances /\ NoneDone /\ at' = at
       /\ \A s \in Ranks \ {r} : phase'["write"][s] = phase["write"][s]
       /\ phase'["write"][r] = "renamed"
   BY ActionMoves, RenameAdvances
 <1>2. /\ ~ Done("write", Nth(c, 3), r) /\ at["write"][0] < Nth(c, 5)
  <2>1. r \in Members("write") /\ 0 \in Members("write") /\ "write" \in Jobs
        /\ phase["write"][r] \in Open
    BY <1>0 DEF Members, Jobs, Open
  <2>2. ~ Done("write", Nth(c, 3), r)
    BY <2>1, <1>0, <1>n, OpenNotPast
  <2>3. ~ (at["write"][0] > at["write"][r])
    BY <2>1 DEF StageInv, InOrder
  <2>4. Nth(c, 3) < Nth(c, 5)
   <3>1. c \in Nat
     BY <1>0 DEF Checkpoints, CheckpointAssumption
   <3> QED
     BY <3>1 DEF Nth
  <2> QED
    BY <2>2, <2>3, <2>4, <1>0, <1>t, <1>n
 <1>3. OutageInv'
   BY <1>f, <1>1 DEF WriteInv, OutageInv, Advances
 <1>4. DirectoryInv'
   BY <1>f, <1>n, <1>0, <1>1 DEF WriteInv, DirectoryInv, NoneDone
 <1>5. ShardInv'
  <2> SUFFICES ASSUME NEW e \in Checkpoints \ copied, NEW s \in Ranks
               PROVE  /\ Done("write", Nth(e, 3), s)' =>
                            shard'[e][s] = <<e, s>> /\ <<e, s>> \notin unsynced'
                      /\ at'["write"][s] = Nth(e, 3)
                           /\ phase'["write"][s] = "renamed" =>
                            shard'[e][s] = <<e, s>>
    BY <1>f DEF ShardInv
  <2>1. CASE e = c /\ s = r
    BY <2>1, <1>1, <1>2, <1>n, <1>s DEF NoneDone
  <2>2. CASE ~ (e = c /\ s = r)
   <3>1. <<e, s>> # <<c, r>> /\ shard'[e][s] = shard[e][s]
     BY <2>2, <1>s
   <3>2. at["write"][s] = Nth(e, 3) /\ phase'["write"][s] = "renamed" =>
             phase["write"][s] = "renamed"
     BY <2>2, <1>0, <1>1, <1>n
   <3> QED
     BY <3>1, <3>2, <1>0, <1>1, <1>n, <1>s DEF NoneDone, WriteInv, ShardInv
  <2> QED
    BY <2>1, <2>2
 <1>6. ManifestInv'
  <2>1. \A e \in Checkpoints : at["write"][0] = Nth(e, 5) => 0 # r
    BY <1>0, <1>n
  <2>2. \A e \in Checkpoints : ManifestName(e) \in unsynced' =>
                               ManifestName(e) \in unsynced
    BY <1>0, <1>s, ShardNamesDiffer
  <2>3. \A e \in Checkpoints : ManifestName(e)' = ManifestName(e)
    BY DEF ManifestName
  <2> QED
    BY <2>1, <2>2, <2>3, <1>0, <1>f, <1>n, <1>1
    DEF WriteInv, ManifestInv, NoneDone
 <1>7. WholeInv'
  <2> SUFFICES ASSUME NEW e \in Checkpoints, manifest[e] # None
               PROVE  /\ e \notin copied => Whole(e)'
                      /\ at'["write"][0] >= Nth(e, 5)
                      /\ at'["write"][0] = Nth(e, 5) => phase'["write"][0] # "work"
    BY <1>f DEF WholeInv
  <2>1. /\ e \notin copied => Whole(e)
        /\ at["write"][0] >= Nth(e, 5)
        /\ at["write"][0] = Nth(e, 5) => phase["write"][0] # "work"
    BY DEF WriteInv, WholeInv
  <2>2. e # c
    BY <2>1, <1>2, <1>t, <1>n
  <2>3. e \notin copied => Whole(e)'
    BY <2>1, <2>2, <1>f, <1>s, WholeKept
  <2> QED
    BY <2>1, <2>3, <1>1 DEF Advances
 <1> QED
   BY <1>3, <1>4, <1>5, <1>6, <1>7 DEF WriteInv

LEMMA SyncShardWrite ==
    ASSUME CheckpointAssumption, TypeOK, TypeOK', WriteInv,
           NEW r \in Ranks, NEW ok \in BOOLEAN, SyncShard(r, ok)
    PROVE  WriteInv'
 <1> DEFINE c == Target(r)
 <1>0. /\ 0 \in Ranks /\ c \in Checkpoints /\ at["write"][r] = Nth(c, 3)
       /\ phase["write"][r] = "renamed" /\ outages = 0
   BY RootIsRank, WritePlace, WriteStageNumbers, WorkMeansPower
   DEF SyncShard, WriteInv
 <1>f. /\ UNCHANGED <<dir, shard, manifest, outages, copied>>
       /\ unsynced' \subseteq unsynced
       /\ ok => <<c, r>> \notin unsynced'
   BY DEF SyncShard, world
 <1> HIDE DEF c
 <1>n. \A e \in Checkpoints, i \in 1 .. 5 :
          /\ Nth(e, i) \in Nat \ {0}
          /\ Nth(e, i) = Nth(c, 3) => e = c /\ i = 3
   BY <1>0, NthNumber
 <1>t. at["write"][0] \in Nat /\ at'["write"][0] \in Nat
   BY <1>0 DEF TypeOK, Jobs
 <1>1. /\ Advances /\ NoneRenamed
       /\ \A n \in Nat \ {0}, s \in Ranks : Done("write", n, s)' =>
             Done("write", n, s) \/ (s = r /\ n = Nth(c, 3) /\ ok)
   BY <1>0, ActionMoves, VoteAdvances DEF Jobs
 <1>2. OutageInv'
   BY <1>f, <1>1 DEF WriteInv, OutageInv, Advances
 <1>3. DirectoryInv'
   BY <1>f, <1>n, <1>0, <1>1 DEF WriteInv, DirectoryInv
 <1>4. ShardInv'
   BY <1>f, <1>n, <1>0, <1>1 DEF WriteInv, ShardInv, NoneRenamed
 <1>5. ManifestInv'
   BY <1>f, <1>n, <1>0, <1>1 DEF WriteInv, ManifestInv, ManifestName, NoneRenamed
 <1>6. WholeInv'
   BY <1>f, <1>n, <1>t, <1>1 DEF WriteInv, WholeInv, Whole, Advances
 <1> QED
   BY <1>2, <1>3, <1>4, <1>5, <1>6 DEF WriteInv

(* The manifest follows a stage in which every rank flushed its shard.     *)
LEMMA RenameManifestWrite ==
    ASSUME CheckpointAssumption, TypeOK, TypeOK', StageInv, WriteInv, RenameManifest
    PROVE  WriteInv'
 <1> DEFINE c == Target(0)
 <1>0. /\ 0 \in Ranks /\ c \in Checkpoints /\ at["write"][0] = Nth(c, 5)
       /\ phase["write"][0] = "work" /\ outages = 0
   BY RootIsRank, WritePlace, WriteStageNumbers, WorkMeansPower
   DEF RenameManifest, Working, WriteInv
 <1>f. UNCHANGED <<dir, shard, outages, copied>>
   BY DEF RenameManifest, world
 <1>s. /\ unsynced' = unsynced \union {ManifestName(c)}
       /\ manifest'[c] = c
       /\ \A e \in Checkpoints \ {c} : manifest'[e] = manifest[e]
   BY <1>0 DEF RenameManifest, TypeOK
 <1> HIDE DEF c
 <1>n. \A e \in Checkpoints, i \in 1 .. 5 :
          /\ Nth(e, i) \in Nat \ {0}
          /\ Nth(e, i) = Nth(c, 5) => e = c /\ i = 5
   BY <1>0, NthNumber
 <1>t. at["write"][0] \in Nat /\ at'["write"][0] \in Nat
   BY <1>0 DEF TypeOK, Jobs
 <1>1. /\ Advances /\ NoneDone /\ at' = at
       /\ \A s \in Ranks \ {0} : phase'["write"][s] = phase["write"][s]
       /\ phase'["write"][0] = "renamed"
   BY <1>0, ActionMoves, RenameAdvances
 <1>2. ~ Done("write", Nth(c, 5), 0)
  <2>1. 0 \in Members("write") /\ "write" \in Jobs /\ phase["write"][0] \in Open
    BY <1>0 DEF Members, Jobs, Open
  <2> QED
    BY <2>1, <1>0, <1>n, OpenNotPast
 <1>3. \A i \in {2, 3}, s \in Ranks : Done("write", Nth(c, i), s)
  <2>1. c \in Nat
    BY <1>0 DEF Checkpoints, CheckpointAssumption
  <2>2. \A i \in {2, 3} : at["write"][0] > Nth(c, i)
    BY <2>1, <1>0 DEF Nth
  <2> QED
    BY <2>2, <1>0 DEF Done, Past, Members
 <1>u. \A e \in Checkpoints, s \in Ranks :
          <<e, s>> \in unsynced' => <<e, s>> \in unsynced
   BY <1>0, <1>s, ShardNamesDiffer
 <1>4. OutageInv'
   BY <1>f, <1>1 DEF WriteInv, OutageInv, Advances
 <1>5. DirectoryInv'
   BY <1>f, <1>n, <1>0, <1>1 DEF WriteInv, DirectoryInv, NoneDone
 <1>6. ShardInv'
  <2>1. \A e \in Checkpoints, s \in Ranks :
           at'["write"][s] = Nth(e, 3) /\ phase'["write"][s] = "renamed" =>
              at["write"][s] = Nth(e, 3) /\ phase["write"][s] = "renamed"
    BY <1>0, <1>1, <1>n
  <2> QED
    BY <2>1, <1>u, <1>f, <1>n, <1>0, <1>1 DEF WriteInv, ShardInv, NoneDone
 <1>7. ManifestInv'
  <2> SUFFICES ASSUME NEW e \in Checkpoints \ copied
               PROVE  /\ Done("write", Nth(e, 5), 0)' =>
                            manifest'[e] = e /\ ManifestName(e) \notin unsynced'
                      /\ at'["write"][0] = Nth(e, 5)
                           /\ phase'["write"][0] = "renamed" => manifest'[e] = e
    BY <1>f DEF ManifestInv, ManifestName
  <2>1. CASE e = c
    BY <2>1, <1>0, <1>1, <1>2, <1>n, <1>s DEF NoneDone
  <2>2. CASE e # c
   <3>1. ManifestName(e) # ManifestName(c) /\ at'["write"][0] # Nth(e, 5)
     BY <2>2, <1>0, <1>1, <1>n DEF ManifestName
   <3> QED
     BY <2>2, <3>1, <1>0, <1>1, <1>n, <1>s DEF NoneDone, WriteInv, ManifestInv
  <2> QED
    BY <2>1, <2>2
 <1>8. WholeInv'
  <2> SUFFICES ASSUME NEW e \in Checkpoints, manifest'[e] # None
               PROVE  /\ e \notin copied => Whole(e)'
                      /\ at'["write"][0] >= Nth(e, 5)
                      /\ at'["write"][0] = Nth(e, 5) => phase'["write"][0] # "work"
    BY <1>f DEF WholeInv
  <2>1. CASE e = c
   <3>1. e \notin copied => Whole(e)
     BY <2>1, <1>0, <1>3 DEF WriteInv, DirectoryInv, ShardInv, Whole
   <3>2. e \notin copied => Whole(e)'
     BY <3>1, <1>f, <1>u, WholeKept
   <3> QED
     BY <2>1, <3>2, <1>0, <1>1, <1>n, <1>t
  <2>2. CASE e # c
   <3>1. /\ e \notin copied => Whole(e)
         /\ at["write"][0] >= Nth(e, 5)
     BY <2>2, <1>s DEF WriteInv, WholeInv
   <3>2. e \notin copied => Whole(e)'
     BY <3>1, <1>f, <1>u, WholeKept
   <3> QED
     BY <3>1, <3>2, <1>1
  <2> QED
    BY <2>1, <2>2
 <1> QED
   BY <1>4, <1>5, <1>6, <1>7, <1>8 DEF WriteInv

LEMMA SyncManifestWrite ==
    ASSUME CheckpointAssumption, TypeOK, TypeOK', WriteInv,
           NEW ok \in BOOLEAN, SyncManifest(ok)
    PROVE  WriteInv'
 <1> DEFINE c == Target(0)
 <1>0. /\ 0 \in Ranks /\ c \in Checkpoints /\ at["write"][0] = Nth(c, 5)
       /\ phase["write"][0] = "renamed" /\ outages = 0
   BY RootIsRank, WritePlace, WriteStageNumbers, WorkMeansPower
   DEF SyncManifest, WriteInv
 <1>f. /\ UNCHANGED <<dir, shard, manifest, outages, copied>>
       /\ unsynced' \subseteq unsynced
       /\ ok => ManifestName(c) \notin unsynced'
   BY DEF SyncManifest, world
 <1> HIDE DEF c
 <1>n. \A e \in Checkpoints, i \in 1 .. 5 :
          /\ Nth(e, i) \in Nat \ {0}
          /\ Nth(e, i) = Nth(c, 5) => e = c /\ i = 5
   BY <1>0, NthNumber
 <1>t. at["write"][0] \in Nat /\ at'["write"][0] \in Nat
   BY <1>0 DEF TypeOK, Jobs
 <1>m. \A e \in Checkpoints : ManifestName(e)' = ManifestName(e)
   BY DEF ManifestName
 <1>1. /\ Advances /\ NoneRenamed
       /\ \A n \in Nat \ {0}, s \in Ranks : Done("write", n, s)' =>
             Done("write", n, s) \/ (s = 0 /\ n = Nth(c, 5) /\ ok)
   BY <1>0, ActionMoves, VoteAdvances DEF Jobs
 <1>2. OutageInv'
   BY <1>f, <1>1 DEF WriteInv, OutageInv, Advances
 <1>3. DirectoryInv'
   BY <1>f, <1>n, <1>0, <1>1 DEF WriteInv, DirectoryInv
 <1>4. ShardInv'
   BY <1>f, <1>n, <1>0, <1>1 DEF WriteInv, ShardInv, NoneRenamed
 <1>5. ManifestInv'
   BY <1>f, <1>m, <1>n, <1>0, <1>1 DEF WriteInv, ManifestInv, NoneRenamed
 <1>6. WholeInv'
   BY <1>f, <1>n, <1>t, <1>1 DEF WriteInv, WholeInv, Whole, Advances
 <1> QED
   BY <1>2, <1>3, <1>4, <1>5, <1>6 DEF WriteInv

(* What a power failure leaves of a checkpoint whose manifest survives.    *)
LEMMA PowerFailureWrite ==
    ASSUME CheckpointAssumption, TypeOK, TypeOK', WriteInv,
           NEW lostDirs \in SUBSET Checkpoints, NEW lostNames \in SUBSET unsynced,
           PowerFailure(lostDirs, lostNames)
    PROVE  WriteInv'
 <1>0. outages' # 0 /\ copied' = copied /\ at' = at /\ unsynced' = {} /\ 0 \in Ranks
   BY RootIsRank DEF PowerFailure, TypeOK
 <1>1. NobodyWrites'
   BY DEF PowerFailure, NobodyWrites, Members, Jobs, TypeOK, Terminal
 <1>2. OutageInv' /\ DirectoryInv' /\ ShardInv' /\ ManifestInv'
   BY <1>0, <1>1 DEF OutageInv, DirectoryInv, ShardInv, ManifestInv
 <1>3. WholeInv'
  <2> SUFFICES ASSUME NEW c \in Checkpoints, manifest'[c] # None
               PROVE  /\ c \notin copied => Whole(c)'
                      /\ at'["write"][0] >= Nth(c, 5)
                      /\ at'["write"][0] = Nth(c, 5) => phase'["write"][0] # "work"
    BY <1>0 DEF WholeInv
  <2>1. c \notin lostDirs /\ manifest[c] # None
    BY DEF PowerFailure
  <2>2. (c \notin copied => Whole(c)) /\ at["write"][0] >= Nth(c, 5)
    BY <2>1 DEF WriteInv, WholeInv
  <2>3. c \notin copied => Whole(c)'
   <3>1. dir[c] # "absent" => dir'[c] # "absent"
     BY <2>1 DEF PowerFailure
   <3>2. \A r \in Ranks : shard[c][r] = <<c, r>> /\ <<c, r>> \notin unsynced =>
                          shard'[c][r] = <<c, r>> /\ <<c, r>> \notin unsynced'
     BY <2>1, <1>0 DEF PowerFailure
   <3> QED
     BY <2>2, <3>1, <3>2, WholeKept
  <2>4. phase'["write"][0] # "work"
    BY <1>0, <1>1 DEF NobodyWrites, Terminal
  <2> QED
    BY <2>2, <2>3, <2>4, <1>0
 <1> QED
   BY <1>2, <1>3 DEF WriteInv

LEMMA CopyWrite ==
    ASSUME CheckpointAssumption, TypeOK, TypeOK', StageInv, TeamInv, WriteInv,
           NEW c \in Checkpoints,
           \/ \E e \in Checkpoints, r, s \in Ranks : CopyShard(c, e, r, s)
           \/ \E e \in Checkpoints : CopyManifest(c, e)
    PROVE  WriteInv'
 <1>0. UNCHANGED <<dir, unsynced, phase, at, bad, team, outages>>
       /\ copied' = copied \union {c}
   BY DEF CopyShard, CopyManifest, jobs, reader
 <1>1. \A d \in Checkpoints \ {c} : shard'[d] = shard[d] /\ manifest'[d] = manifest[d]
   BY DEF CopyShard, CopyManifest, TypeOK
 <1>2. \A d \in Checkpoints : manifest'[d] # None => manifest[d] # None
   BY <1>1 DEF CopyShard, CopyManifest
 <1>3. \A n, s : Done("write", n, s)' <=> Done("write", n, s)
   BY <1>0 DEF Done, Past, Voted, Members
 <1>4. OutageInv'
   BY <1>0 DEF WriteInv, OutageInv, NobodyWrites
 <1>5. DirectoryInv'
   BY <1>0, <1>3 DEF WriteInv, DirectoryInv
 <1>6. ShardInv'
   BY <1>0, <1>1, <1>3 DEF WriteInv, ShardInv
 <1>7. ManifestInv'
   BY <1>0, <1>1, <1>3 DEF WriteInv, ManifestInv, ManifestName
 <1>8. WholeInv'
   BY <1>0, <1>1, <1>2 DEF WriteInv, WholeInv, Whole
 <1> QED
   BY <1>4, <1>5, <1>6, <1>7, <1>8 DEF WriteInv

LEMMA WritePreserved ==
    ASSUME CheckpointAssumption, TypeOK, TypeOK', StageInv, TeamInv, WriteInv, AnyStep
    PROVE  WriteInv'
 <1>1. ASSUME NEW j \in Jobs, NEW r \in Ranks, Pass(j, r) \/ Throw(j, r)
       PROVE  WriteInv'
  <2>1. UNCHANGED <<files, world>>
    BY <1>1 DEF Pass, Throw
  <2> QED
    BY <2>1, <1>1, OthersCalm, CalmWrite
 <1>2. CASE QuietFall
   BY <1>2, OthersCalm, CalmWrite DEF QuietFall
 <1>3. ASSUME NEW c \in Checkpoints, NEW n \in {NumRanks - 1, NumRanks},
              n > 0, Start(c, n)
       PROVE  WriteInv'
  <2>1. UNCHANGED <<files, world>>
    BY <1>3 DEF Start
  <2> QED
    BY <2>1, <1>3, OthersCalm, CalmWrite
 <1>4. ASSUME NEW r \in Ranks, NEW ok \in BOOLEAN, ReadManifest(r, ok) \/ ReadShard(r, ok)
       PROVE  WriteInv'
  <2>1. VoteStep("read", r, ok) /\ UNCHANGED <<files, world>>
    BY <1>4, ActionMoves DEF ReadManifest, ReadShard
  <2>2. Calm
    BY <2>1, VoteAdvances DEF Jobs
  <2> QED
    BY <2>1, <2>2, CalmWrite
 <1>5. CASE ManifestStep
   BY <1>5, CreateDirectoryWrite, RenameManifestWrite, SyncManifestWrite
   DEF ManifestStep
 <1>6. ASSUME NEW r \in Ranks, NEW ok \in BOOLEAN, RenameShard(r) \/ SyncShard(r, ok)
       PROVE  WriteInv'
   BY <1>6, RenameShardWrite, SyncShardWrite
 <1> QED
   BY <1>1, <1>2, <1>3, <1>4, <1>5, <1>6, QuietVoteWrite, PowerFailureWrite, CopyWrite
   DEF AnyStep

-----------------------------------------------------------------------------
(* The theorems.                                                           *)
LEMMA InitEstablishes ==
    ASSUME CheckpointAssumption, Init
    PROVE  IInv
 <1>0. 0 \in Ranks /\ NumCheckpoints \in Nat \ {0} /\ Checkpoints \subseteq Nat \ {0}
   BY RootIsRank DEF CheckpointAssumption, Checkpoints
 <1>1. /\ at = [j \in Jobs |-> [r \in Ranks |-> 1]]
       /\ phase = [write |-> [r \in Ranks |-> "work"], read |-> [r \in Ranks |-> "idle"]]
       /\ bad = [j \in Jobs |-> [r \in Ranks |-> FALSE]]
   BY DEF Init
 <1>2. \A j \in Jobs : LastStage(j) \in Nat \ {0}
   BY <1>0, Lengths DEF LastStage
 <1>3. phase \in [Jobs -> [Ranks -> Phases]]
   BY <1>1 DEF Jobs, Phases
 <1>4. TypeOK
  <2>1. at \in [Jobs -> [Ranks -> Nat]]
        /\ \A j \in Jobs : \A r \in Ranks : at[j][r] \in 1 .. LastStage(j)
    BY <1>1, <1>2
  <2>2. bad \in [Jobs -> [Ranks -> BOOLEAN]]
    BY <1>1
  <2>3. /\ dir \in [Checkpoints -> {"absent", "unsynced", "synced"}]
        /\ shard \in [Checkpoints ->
                        [Ranks -> (Checkpoints \union {None}) \X Ranks]]
        /\ manifest \in [Checkpoints -> Checkpoints \union {None}]
        /\ unsynced \in SUBSET Names
    BY DEF Init
  <2>4. /\ source \in Checkpoints \union {None} /\ team \in SUBSET Ranks
        /\ seen \in [Ranks -> Checkpoints \union {None}]
        /\ loaded \in [Ranks -> (Checkpoints \union {None}) \X Ranks]
        /\ outages \in Nat /\ copied \in SUBSET Checkpoints
    BY DEF Init
  <2> QED
    BY <1>3, <2>1, <2>2, <2>3, <2>4 DEF TypeOK, Phases
 <1>5. \A j \in Jobs, r \in Ranks : at[j][r] = 1 /\ phase[j][r] \in {"work", "idle"}
   BY <1>1 DEF Jobs
 <1>6. \A j \in Jobs : Members(j) \subseteq Ranks
   BY <1>4, MembersAreRanks
 <1>7. StageInv
   BY <1>5, <1>6 DEF StageInv, InOrder, ThrewForCause, ReturnedTogether
 <1>8. TeamInv /\ ReadInv
   BY <1>5 DEF Init, TeamInv, ReadInv, Jobs
 <1>9. \A n \in Nat \ {0}, s \in Ranks : ~ Done("write", n, s)
   BY <1>5 DEF Done, Past, Voted, Members, Jobs
 <1>10. \A c \in Checkpoints, i \in 1 .. 5 : Nth(c, i) \in Nat \ {0}
   BY NthNumber
 <1>11. WriteInv
   BY <1>0, <1>5, <1>9, <1>10
   DEF Init, WriteInv, OutageInv, DirectoryInv, ShardInv, ManifestInv, WholeInv, Jobs
 <1> QED
   BY <1>4, <1>7, <1>8, <1>11 DEF IInv

LEMMA NextPreserves ==
    ASSUME CheckpointAssumption, IInv, [Next]_vars
    PROVE  IInv'
 <1>1. TypeOK' /\ AnyStep
   BY TypePreserved, StepCases DEF IInv
 <1>2. StageMoves
   BY <1>1, StagesMove DEF IInv
 <1> QED
   BY <1>1, <1>2, StagesPreserved, TeamPreserved, ReadPreserved, WritePreserved
   DEF IInv

LEMMA Inductive == Spec => []IInv
  BY CheckpointAssumption, InitEstablishes, NextPreserves, PTL DEF Spec

(* Type correctness of the checkpoints.                                    *)
THEOREM TypeCorrect == Spec => []TypeOK
 <1>1. IInv => TypeOK
   BY DEF IInv
 <1> QED
   BY <1>1, Inductive, PTL

(* A manifest that write_restart_checkpoint_collective put in place, and a *)
(* return of it, each prove that every shard is there and flushed.         *)
THEOREM ProofsProveWhole == Spec => []ProofsMeanWhole
 <1>1. ASSUME IInv PROVE ProofsMeanWhole
  <2> USE CheckpointAssumption
  <2> SUFFICES ASSUME NEW c \in Checkpoints \ copied
               PROVE  /\ manifest[c] # None => Whole(c)
                      /\ (outages = 0 /\ \E r \in Ranks : WroteCheckpoint(r, c)) =>
                            /\ Whole(c)
                            /\ manifest[c] = c
                            /\ ManifestName(c) \notin unsynced
    BY DEF ProofsMeanWhole
  <2>1. manifest[c] # None => Whole(c)
    BY <1>1 DEF IInv, WriteInv, WholeInv
  <2>2. ASSUME outages = 0, NEW r \in Ranks, WroteCheckpoint(r, c)
        PROVE  Whole(c) /\ manifest[c] = c /\ ManifestName(c) \notin unsynced
   <3>1. c \in Nat \ {0} /\ 0 \in Ranks /\ at["write"][r] \in Nat
     BY <1>1, RootIsRank
     DEF Checkpoints, CheckpointAssumption, IInv, TypeOK, Jobs
   <3>2. Target(r) \in Nat /\ \E i \in 1 .. 5 : at["write"][r] = Nth(Target(r), i)
     BY <1>1, WritePlace DEF IInv, Checkpoints, CheckpointAssumption
   <3>3. Past("write", Nth(c, 5))
    <4>1. CASE Target(r) > c
     <5>1. at["write"][r] > Nth(c, 5)
       BY <4>1, <3>1, <3>2 DEF Nth
     <5> QED
       BY <5>1 DEF Past, Members
    <4>2. CASE Target(r) = c /\ phase["write"][r] = "returned"
     <5>1. at["write"][r] = NumCheckpoints * 5
       BY <1>1, <4>2, Lengths
       DEF IInv, StageInv, ReturnedTogether, Members, Jobs, LastStage
     <5>2. NumCheckpoints \in Nat /\ c <= NumCheckpoints
       BY DEF Checkpoints, CheckpointAssumption
     <5>3. at["write"][r] = Nth(c, 5)
       BY <3>1, <3>2, <4>2, <5>1, <5>2 DEF Nth
     <5> QED
       BY <4>2, <5>3 DEF Past, Members
    <4> QED
      BY <2>2, <4>1, <4>2 DEF WroteCheckpoint
   <3>4. manifest[c] = c /\ ManifestName(c) \notin unsynced
     BY <1>1, <2>2, <3>1, <3>3 DEF IInv, WriteInv, ManifestInv, Done
   <3> QED
     BY <2>1, <3>1, <3>4 DEF None
  <2> QED
    BY <2>1, <2>2
 <1> QED
   BY <1>1, Inductive, PTL

(* A rank that resumed proves that every rank holds its own shard of one   *)
(* checkpoint, in a job of as many ranks as wrote it.                      *)
THEOREM ResumeIsWhole == Spec => []ResumedIsWhole
 <1>1. ASSUME IInv PROVE ResumedIsWhole
  <2> USE CheckpointAssumption
  <2> SUFFICES ASSUME NEW r \in Ranks, Resumed(r)
               PROVE  /\ team = Ranks
                      /\ \A s \in Ranks : /\ phase["read"][s] # "threw"
                                          /\ loaded[s] = <<seen[0], s>>
                                          /\ seen[0] # None
    BY DEF ResumedIsWhole
  <2>1. r \in team /\ Members("read") = team /\ "read" \in Jobs
    BY DEF Resumed, Members, Jobs
  <2>2. /\ at["read"][r] = 5
        /\ \A s \in team : phase["read"][s] # "threw"
    BY <1>1, <2>1, Lengths
    DEF IInv, StageInv, ReturnedTogether, LastStage, Resumed
  <2>3. \A n \in {2, 3, 4}, s \in team : Done("read", n, s)
    BY <2>1, <2>2 DEF Done, Past
  <2>4. team = Ranks
    BY <1>1, <2>1, <2>3 DEF IInv, ReadInv
  <2>5. \A s \in Ranks : /\ seen[s] # None
                         /\ seen[s] = seen[0]
                         /\ loaded[s] = <<seen[s], s>>
    BY <1>1, <2>3, <2>4 DEF IInv, ReadInv
  <2> QED
    BY <2>2, <2>4, <2>5, RootIsRank
 <1> QED
   BY <1>1, Inductive, PTL

(* No step of a job changes a checkpoint that has a manifest.              *)
THEOREM PublishedStays == Spec => PublishedIsFinal
 <1> DEFINE A == \A c \in Checkpoints :
                    (/\ manifest[c] # None
                     /\ outages' = outages
                     /\ c \notin copied') => /\ manifest'[c] = manifest[c]
                                             /\ shard'[c] = shard[c]
                                             /\ dir'[c] = dir[c]
 <1>1. ASSUME IInv, [Next]_vars PROVE A
  <2> USE CheckpointAssumption
  <2> SUFFICES ASSUME NEW c \in Checkpoints, manifest[c] # None,
                      outages' = outages, c \notin copied'
               PROVE  /\ manifest'[c] = manifest[c]
                      /\ shard'[c] = shard[c]
                      /\ dir'[c] = dir[c]
    OBVIOUS
  <2>0. TypeOK /\ 0 \in Ranks /\ AnyStep /\ TypeOK'
    BY <1>1, RootIsRank, TypePreserved, StepCases DEF IInv
  <2>1. copied \subseteq copied' \/ copied' = copied
   <3>1. CASE \/ \E e, d \in Checkpoints, r, s \in Ranks : CopyShard(e, d, r, s)
              \/ \E e, d \in Checkpoints : CopyManifest(e, d)
     BY <3>1 DEF CopyShard, CopyManifest
   <3>2. CASE UNCHANGED copied
     BY <3>2
   <3> QED
     BY <2>0, <3>1, <3>2
     DEF AnyStep, Pass, Throw, QuietVote, QuietFall, ManifestStep,
         CreateDirectory, RenameManifest, SyncManifest, RenameShard, SyncShard,
         ReadManifest, ReadShard, Start, PowerFailure, world
  <2>2. /\ Whole(c)
        /\ at["write"][0] >= Nth(c, 5)
        /\ at["write"][0] = Nth(c, 5) => phase["write"][0] # "work"
    BY <1>1, <2>1 DEF IInv, WriteInv, WholeInv
  <2>3. \A i \in 1 .. 5 : Nth(c, i) \in Nat
    BY NthNumber
  <2>4. at["write"][0] \in Nat
    BY <2>0 DEF TypeOK, Jobs
  <2>5. ASSUME NEW made \in BOOLEAN, NEW ok \in BOOLEAN, CreateDirectory(made, ok)
        PROVE  UNCHANGED <<shard, manifest>> /\ dir'[c] = dir[c]
    BY <2>2, <2>5 DEF CreateDirectory, TypeOK, Whole
  <2>6. ASSUME NEW r \in Ranks, RenameShard(r)
        PROVE  UNCHANGED <<dir, manifest>> /\ shard'[c] = shard[c]
   <3>1. at["write"][r] = Nth(Target(r), 3) /\ phase["write"][r] \in Open
         /\ Target(r) \in Checkpoints
     BY <2>6, <2>0, WriteStageNumbers, WritePlace DEF RenameShard, Working, Open
   <3>2. ~ (at["write"][0] > at["write"][r])
     BY <1>1, <2>0, <3>1 DEF IInv, StageInv, InOrder, Members, Jobs
   <3>3. Nth(c, 3) < Nth(c, 5)
     BY DEF Nth, Checkpoints, CheckpointAssumption
   <3>4. Target(r) # c
     BY <2>2, <2>3, <2>4, <3>1, <3>2, <3>3
   <3> QED
     BY <2>6, <3>4 DEF RenameShard
  <2>7. ASSUME RenameManifest
        PROVE  UNCHANGED <<dir, shard>> /\ manifest'[c] = manifest[c]
   <3>1. at["write"][0] = Nth(Target(0), 5) /\ phase["write"][0] = "work"
     BY <2>7, <2>0, WriteStageNumbers DEF RenameManifest, Working
   <3>2. Target(0) # c
     BY <2>2, <3>1
   <3> QED
     BY <2>7, <3>2 DEF RenameManifest
  <2>8. ASSUME NEW e \in Checkpoints,
               \/ \E d \in Checkpoints, r, s \in Ranks : CopyShard(e, d, r, s)
               \/ \E d \in Checkpoints : CopyManifest(e, d)
        PROVE  dir' = dir /\ manifest'[c] = manifest[c] /\ shard'[c] = shard[c]
   <3>1. e # c
     BY <2>8 DEF CopyShard, CopyManifest
   <3>2. shard'[c] = shard[c]
     BY <2>8, <3>1, <2>0 DEF CopyShard, CopyManifest, TypeOK
   <3>3. manifest'[c] = manifest[c]
     BY <2>8, <3>1, <2>0 DEF CopyShard, CopyManifest, TypeOK
   <3> QED
     BY <2>8, <3>2, <3>3 DEF CopyShard, CopyManifest
  <2>9. ASSUME NEW lostDirs \in SUBSET Checkpoints,
               NEW lostNames \in SUBSET unsynced, PowerFailure(lostDirs, lostNames)
        PROVE  FALSE
    BY <2>9, <2>0 DEF PowerFailure, TypeOK
  <2>10. CASE UNCHANGED <<dir, shard, manifest>>
    BY <2>10
  <2> QED
    BY <2>0, <2>5, <2>6, <2>7, <2>8, <2>9, <2>10
    DEF AnyStep, Pass, Throw, QuietVote, QuietFall, ManifestStep, SyncManifest,
        SyncShard, ReadManifest, ReadShard, Start, files
 <1>2. IInv /\ [Next]_vars => [A]_vars
   BY <1>1
 <1> QED
   BY <1>2, Inductive, PTL DEF Spec, PublishedIsFinal
=============================================================================
