---------------------------- MODULE RunLaunch_proofs ----------------------------
(***************************************************************************)
(* For any number of processes, command lines and configuration files that *)
(* keep MPI enabled: one program or none runs, and run_metadata.json tells *)
(* the truth about it.                                                     *)
(*                                                                         *)
(* The argument is that of a chain of barriers with a gap in it: nobody    *)
(* waits between the entry's last vote and the program's first one, where  *)
(* the configuration is read again.  What a rank compared when it voted    *)
(* becomes a fact about all ranks when somebody leaves the stage, and the  *)
(* fact stays because nobody can change what was compared any more.        *)
(***************************************************************************)
EXTENDS RunLaunch, TLAPS

Phases == {"work", "vote", "refused", "aborted", "finalizing", "returned"}

TypeOK == /\ line \in [Ranks -> CommandLines]
          /\ file \in Contents
          /\ edits \in Nat
          /\ first \in [Ranks -> Contents \union {None}]
          /\ config \in [Ranks -> Contents \union {None}]
          /\ stage \in [Ranks -> 1 .. 16]
          /\ phase \in [Ranks -> Phases]
          /\ bad \in [Ranks -> BOOLEAN]
          /\ dir \in [Ranks -> {0} \union Names]
          /\ owner \in [Names -> {"nobody", "us", "other"}]
          /\ metadata \in [Names -> {"absent", "planned", "complete"}]
          /\ ran \in [Ranks -> BOOLEAN]

(* Who is dead: an abort takes everybody, and a refusal has a reason that  *)
(* is still there for those who have not seen it.                          *)
Deaths ==
    /\ \A r \in Ranks : phase[r] = "aborted" =>
           \A s \in Ranks : phase[s] \in Ended
    /\ \A r \in Ranks : phase[r] = "refused" =>
           \/ NumRanks = 1
           \/ \E t \in Ranks : /\ stage[t] = stage[r]
                               /\ bad[t]
                               /\ phase[t] # "work"
    /\ \A r \in Ranks : phase[r] \in {"finalizing", "returned"} => stage[r] = 16

(* How far apart ranks can be: one stage, except across the second reading *)
(* (stage 5), and whoever is behind has voted.                             *)
Barriers ==
    \A r, s \in Ranks : stage[s] < stage[r] =>
        /\ stage[s] = stage[r] - 1 \/ (stage[s] = 4 /\ stage[r] = 6)
        /\ stage[s] # 5 => phase[s] # "work"

VotedFor(r, k) == stage[r] = k /\ phase[r] = "vote" /\ ~ bad[r]

(* What was compared, at the vote and once somebody is past it.            *)
LinesAgree ==
    /\ \A r \in Ranks : VotedFor(r, 3) => line[r] = line[0]
    /\ \A r \in Ranks : stage[r] >= 4 => \A s \in Ranks : line[s] = line[0]

ModeAgrees ==
    /\ \A r \in Ranks : VotedFor(r, 4) => NumRanks = 1 \/ line[r] # "serial"
    /\ \A r \in Ranks : stage[r] >= 5 =>
           \A s \in Ranks : NumRanks = 1 \/ line[s] # "serial"
    /\ \A r \in Ranks : config[r] # None => stage[r] >= 5

ConfigsAgree ==
    /\ \A r \in Ranks : VotedFor(r, 7) => config[r] = config[0]
    /\ \A r \in Ranks : stage[r] >= 8 => \A s \in Ranks : config[s] = config[0]

(* The run directory is rank 0's, and this launch made it.                 *)
Directories ==
    /\ \A r \in Ranks : dir[r] # 0 => stage[r] >= 9 /\ owner[dir[r]] = "us"
    /\ VotedFor(0, 9) => dir[0] # 0
    /\ \A r \in Ranks : stage[r] >= 10 => dir[0] # 0 /\ dir[r] = dir[0]

Ran ==
    /\ \A r \in Ranks : VotedFor(r, 14) => ran[r]
    /\ \A r \in Ranks : stage[r] >= 15 => \A s \in Ranks : ran[s]

Metadata ==
    /\ \A n \in Names : metadata[n] = "complete" =>
           owner[n] = "us" /\ \A s \in Ranks : ran[s]
    /\ VotedFor(0, 15) => metadata[dir[0]] = "complete"
    /\ \A r \in Ranks : stage[r] = 16 => metadata[dir[0]] = "complete"

IInv == /\ TypeOK /\ Deaths /\ Barriers
        /\ LinesAgree /\ ModeAgrees /\ ConfigsAgree
        /\ Directories /\ Ran /\ Metadata
-----------------------------------------------------------------------------
(* The names of the stages by number.                                      *)
LEMMA StageNames ==
    ASSUME TypeOK, NEW r \in Ranks
    PROVE  /\ Name(r) = "preflight" <=> stage[r] = 1
           /\ Name(r) = "bytes" <=> stage[r] = 2
           /\ Name(r) = "options" <=> stage[r] = 3
           /\ Name(r) = "mode" <=> stage[r] = 4
           /\ Name(r) = "load" <=> stage[r] = 5
           /\ Name(r) = "context" <=> stage[r] = 6
           /\ Name(r) = "program_bytes" <=> stage[r] = 7
           /\ Name(r) = "program_options" <=> stage[r] = 8
           /\ Name(r) = "directory" <=> stage[r] = 9
           /\ Name(r) = "artifacts" <=> stage[r] = 10
           /\ Name(r) = "construct" <=> stage[r] = 11
           /\ Name(r) = "initialize" <=> stage[r] = 12
           /\ Name(r) = "metadata" <=> stage[r] = 13
           /\ Name(r) = "run" <=> stage[r] = 14
           /\ Name(r) = "finalize" <=> stage[r] = 15
           /\ Name(r) = "provenance" <=> stage[r] = 16
 <1>1. stage[r] \in 1 .. 16
   BY DEF TypeOK
 <1> QED
   BY <1>1 DEF Name, Stages

(* No edit of the file disables MPI.                                       *)
MpiStays == "serial" \notin Contents

(* Rank 0 exists, and is all there is in a job of one.                     *)
LEMMA RanksNumbered == Ranks \subseteq Nat /\ 0 \in Ranks
                       /\ (NumRanks = 1 => Ranks = {0})
  BY LaunchAssumption DEF Ranks

(* Only a job of one process runs without MPI here.                        *)
LEMMA AloneMeansOneRank ==
    ASSUME IInv, MpiStays, NEW r \in Ranks, Alone(r)
    PROVE  NumRanks = 1
 <1>1. config[r] # None /\ (config[r] = "serial" \/ line[r] = "serial")
   BY DEF Alone, MpiEnabled
 <1>2. config[r] # "serial"
   BY DEF IInv, TypeOK, MpiStays, None
 <1> QED
   BY <1>1, <1>2, RanksNumbered DEF IInv, ModeAgrees

(* So every root action is rank 0's.                                       *)
LEMMA RootIsRankZero ==
    ASSUME IInv, MpiStays, NEW r \in Ranks
    PROVE  IsRoot(r) <=> r = 0
  BY AloneMeansOneRank, RanksNumbered DEF IsRoot

(* The barrier: whoever leaves a stage knows that all others are in it,    *)
(* with their votes, or past it.                                           *)
LEMMA LeavingMeansAllEntered ==
    ASSUME IInv, MpiStays, NEW r \in Ranks, Leaves(r)
    PROVE  /\ phase[r] = "vote"
           /\ \A s \in Ranks : /\ stage[s] >= stage[r]
                               /\ stage[s] = stage[r] => phase[s] # "work"
 <1>1. phase[r] = "vote" /\ EveryoneEntered(r)
   BY DEF Leaves
 <1>2. CASE Alone(r)
  <2>1. Ranks = {0}
    BY <1>2, AloneMeansOneRank, RanksNumbered
  <2>2. \A s \in Ranks : s = r
    BY <2>1
  <2>3. stage[r] \in Nat
    BY DEF IInv, TypeOK
  <2> QED
    BY <1>1, <2>2, <2>3
 <1>3. CASE ~ Alone(r)
  <2>1. \A s \in Ranks : stage[s] \in Nat
    BY DEF IInv, TypeOK
  <2> QED
    BY <1>1, <1>3, <2>1 DEF EveryoneEntered
 <1> QED
   BY <1>2, <1>3

(* Nobody goes on from a stage while a rank in it holds an exception.      *)
LEMMA LeavingMeansAllGood ==
    ASSUME IInv, MpiStays, NEW r \in Ranks, Leaves(r), ~ AnyBad(r)
    PROVE  \A s \in Ranks : stage[s] = stage[r] => ~ bad[s]
 <1>1. CASE Alone(r)
  <2>1. \A s \in Ranks : s = r
    BY <1>1, AloneMeansOneRank, RanksNumbered
  <2> QED
    BY <1>1, <2>1 DEF AnyBad
 <1>2. CASE ~ Alone(r)
   BY <1>2 DEF AnyBad
 <1> QED
   BY <1>1, <1>2

(* Nobody acts once the job was aborted.                                   *)
LEMMA ActingMeansAlive ==
    ASSUME IInv, NEW r \in Ranks, phase[r] \notin Ended
    PROVE  \A s \in Ranks : phase[s] # "aborted"
  BY DEF IInv, Deaths

(* A rank that lags in the stage another one left voted for it.            *)
LEMMA PassedMeansVoted ==
    ASSUME IInv, MpiStays, NEW r \in Ranks, Leaves(r), ~ AnyBad(r),
           NEW s \in Ranks, stage[s] = stage[r], stage[r] # 16
    PROVE  VotedFor(s, stage[r])
 <1>1. phase[r] = "vote" /\ phase[s] # "work"
   BY LeavingMeansAllEntered
 <1>2. ~ bad[s] /\ \A t \in Ranks : stage[t] = stage[r] => ~ bad[t]
   BY LeavingMeansAllGood
 <1>3. phase[s] # "aborted"
   BY <1>1, ActingMeansAlive DEF Ended
 <1>4. phase[s] # "refused"
  <2>1. NumRanks = 1 => s = r
    BY RanksNumbered
  <2> QED
    BY <1>1, <1>2, <2>1 DEF IInv, Deaths
 <1>5. phase[s] \notin {"finalizing", "returned"}
   BY DEF IInv, Deaths
 <1>6. phase[s] \in Phases
   BY DEF IInv, TypeOK
 <1> QED
   BY <1>1, <1>2, <1>3, <1>4, <1>5, <1>6 DEF VotedFor, Phases

-----------------------------------------------------------------------------
(* A vote.  What it can disturb is what is said of those who voted.        *)
LEMMA VoteKeepsOrder ==
    ASSUME IInv, NEW r \in Ranks, NEW ok \in BOOLEAN,
           phase[r] = "work", Vote(r, ok)
    PROVE  Deaths' /\ Barriers'
 <1> USE DEF IInv, TypeOK, Vote
 <1>1. \A s \in Ranks : s # r => phase'[s] = phase[s] /\ bad'[s] = bad[s]
   OBVIOUS
 <1>2. phase'[r] = "vote" /\ stage' = stage
   OBVIOUS
 <1>3. \A s \in Ranks : phase[s] # "aborted"
   BY ActingMeansAlive DEF Ended
 <1>4. Deaths'
  <2>1. \A s \in Ranks : phase'[s] = "refused" =>
           \/ NumRanks = 1
           \/ \E t \in Ranks : /\ stage'[t] = stage'[s]
                               /\ bad'[t]
                               /\ phase'[t] # "work"
   <3> SUFFICES ASSUME NEW s \in Ranks, phase'[s] = "refused",
                       NumRanks # 1
                PROVE  \E t \in Ranks : /\ stage'[t] = stage'[s]
                                        /\ bad'[t]
                                        /\ phase'[t] # "work"
     OBVIOUS
   <3>1. phase[s] = "refused"
     BY <1>1, <1>2
   <3>2. PICK t \in Ranks : stage[t] = stage[s] /\ bad[t] /\ phase[t] # "work"
     BY <3>1 DEF Deaths
   <3> QED
     BY <3>2, <1>1, <1>2
  <2> QED
    BY <1>1, <1>2, <1>3, <2>1 DEF Deaths
 <1>5. Barriers'
   BY <1>1, <1>2 DEF Barriers
 <1> QED
   BY <1>4, <1>5

(* A vote keeps what was compared if it is true to the comparison.         *)
LEMMA VoteKeepsAgreement ==
    ASSUME IInv, NEW r \in Ranks, NEW ok \in BOOLEAN,
           phase[r] = "work", Vote(r, ok), UNCHANGED <<line, config>>,
           (ok /\ stage[r] = 3) => line[r] = line[0],
           (ok /\ stage[r] = 4) => NumRanks = 1 \/ line[r] # "serial",
           (ok /\ stage[r] = 7) => config[r] = config[0]
    PROVE  LinesAgree' /\ ModeAgrees' /\ ConfigsAgree'
 <1> USE DEF IInv, TypeOK, Vote
 <1>1. stage' = stage
   OBVIOUS
 <1>2. \A s \in Ranks, k \in Nat : VotedFor(s, k)' =>
           VotedFor(s, k) \/ (s = r /\ ok /\ k = stage[r])
   BY DEF VotedFor
 <1>3. LinesAgree'
   BY <1>1, <1>2 DEF LinesAgree
 <1>4. ModeAgrees'
   BY <1>1, <1>2 DEF ModeAgrees
 <1>5. ConfigsAgree'
   BY <1>1, <1>2 DEF ConfigsAgree
 <1> QED
   BY <1>3, <1>4, <1>5

(* A vote that makes no directory keeps the directories.                   *)
LEMMA VoteKeepsOutput ==
    ASSUME IInv, NEW r \in Ranks, NEW ok \in BOOLEAN,
           phase[r] = "work", Vote(r, ok), UNCHANGED <<dir, owner>>,
           (ok /\ stage[r] = 9) => r # 0
    PROVE  Directories'
 <1> USE DEF IInv, TypeOK, Vote
 <1>1. stage' = stage
   OBVIOUS
 <1>2. VotedFor(0, 9)' => VotedFor(0, 9)
   BY RanksNumbered DEF VotedFor
 <1> QED
   BY <1>1, <1>2 DEF Directories

(* A vote that writes no record keeps the record and who ran.              *)
LEMMA VoteKeepsRecord ==
    ASSUME IInv, NEW r \in Ranks, NEW ok \in BOOLEAN,
           phase[r] = "work", Vote(r, ok), UNCHANGED <<dir, owner, metadata, ran>>,
           (ok /\ stage[r] = 14) => ran[r],
           (ok /\ stage[r] = 15) => r # 0
    PROVE  Ran' /\ Metadata'
 <1> USE DEF IInv, TypeOK, Vote
 <1>1. stage' = stage
   OBVIOUS
 <1>2. VotedFor(0, 15)' => VotedFor(0, 15)
   BY RanksNumbered DEF VotedFor
 <1>3. \A s \in Ranks : VotedFor(s, 14)' =>
           VotedFor(s, 14) \/ (s = r /\ ok /\ stage[r] = 14)
   BY DEF VotedFor
 <1>4. Ran'
   BY <1>1, <1>3 DEF Ran
 <1>5. Metadata'
   BY <1>1, <1>2 DEF Metadata
 <1> QED
   BY <1>4, <1>5

-----------------------------------------------------------------------------
(* The actions that vote.                                                  *)
LEMMA PreflightKeeps ==
    ASSUME IInv, NEW r \in Ranks, Preflight(r)
    PROVE  IInv'
 <1> DEFINE ok == Loadable(file, r)
 <1> USE DEF Preflight, Works
 <1>1. ok \in BOOLEAN
   BY DEF Loadable
 <1>2. stage[r] = 1 /\ phase[r] = "work" /\ Vote(r, ok)
   BY StageNames DEF IInv
 <1> HIDE DEF ok
 <1>3. UNCHANGED <<line, config, dir, owner, metadata, ran>>
   BY DEF disk
 <1>4. Deaths' /\ Barriers'
   BY <1>1, <1>2, VoteKeepsOrder
 <1>5. LinesAgree' /\ ModeAgrees' /\ ConfigsAgree'
   BY <1>1, <1>2, <1>3, VoteKeepsAgreement
 <1>6. Directories'
   BY <1>1, <1>2, <1>3, VoteKeepsOutput
 <1>7. Ran' /\ Metadata'
   BY <1>1, <1>2, <1>3, VoteKeepsRecord
 <1>8. TypeOK'
   BY <1>1, <1>2 DEF IInv, TypeOK, Vote, world, disk, Phases
 <1> QED
   BY <1>4, <1>5, <1>6, <1>7, <1>8 DEF IInv

(* The comparisons of the entry.                                           *)
LEMMA CompareAtEntryKeeps ==
    ASSUME IInv, NEW r \in Ranks, CompareAtEntry(r)
    PROVE  IInv'
 <1> DEFINE ok == Agreed(r)[Name(r)]
 <1> USE DEF CompareAtEntry
 <1>1. Name(r) \in {"bytes", "options", "mode"}
   BY DEF Agreed
 <1>2. stage[r] \in {2, 3, 4}
   BY <1>1, StageNames DEF IInv
 <1>3. /\ stage[r] = 2 => ok = (first[r] = first[0])
       /\ stage[r] = 3 => ok = (line[r] = line[0])
       /\ stage[r] = 4 => ok = (NumRanks = 1 \/ MpiEnabled(first[r], r))
   BY StageNames DEF IInv, Agreed
 <1>4. ok \in BOOLEAN
   BY <1>2, <1>3
 <1>5. phase[r] = "work" /\ Vote(r, ok)
   OBVIOUS
 <1>6. /\ (ok /\ stage[r] = 3) => line[r] = line[0]
       /\ (ok /\ stage[r] = 4) => NumRanks = 1 \/ line[r] # "serial"
   BY <1>3 DEF MpiEnabled
 <1> HIDE DEF ok
 <1>7. UNCHANGED <<line, config, dir, owner, metadata, ran>>
   BY DEF disk
 <1>8. Deaths' /\ Barriers'
   BY <1>4, <1>5, VoteKeepsOrder
 <1>9. LinesAgree' /\ ModeAgrees' /\ ConfigsAgree'
   BY <1>2, <1>4, <1>5, <1>6, <1>7, VoteKeepsAgreement
 <1>10. Directories'
   BY <1>2, <1>4, <1>5, <1>7, VoteKeepsOutput
 <1>11. Ran' /\ Metadata'
   BY <1>2, <1>4, <1>5, <1>7, VoteKeepsRecord
 <1>12. TypeOK'
   BY <1>4, <1>5 DEF IInv, TypeOK, Vote, world, disk, Phases
 <1> QED
   BY <1>8, <1>9, <1>10, <1>11, <1>12 DEF IInv

(* The second reading is compared with rank 0's, which can no longer       *)
(* change: rank 0 has read as well.                                        *)
LEMMA CompareInProgramKeeps ==
    ASSUME IInv, MpiStays, NEW r \in Ranks, CompareInProgram(r)
    PROVE  IInv'
 <1>1. PICK ok \in BOOLEAN :
           /\ phase[r] = "work"
           /\ stage[r] \in {7, 8}
           /\ Vote(r, ok)
           /\ (ok /\ stage[r] = 7) => config[r] = config[0]
  <2>1. CASE Works(r, "program_bytes") /\ Vote(r, SameProgramBytes(r))
   <3>1. SameProgramBytes(r) \in BOOLEAN
     BY DEF SameProgramBytes
   <3>2. SameProgramBytes(r) => config[r] = config[0]
    <4>1. Alone(r) => r = 0
      BY AloneMeansOneRank, RanksNumbered
    <4> QED
      BY <4>1 DEF SameProgramBytes
   <3>3. phase[r] = "work" /\ stage[r] = 7
     BY <2>1, StageNames DEF IInv, Works
   <3> QED
     BY <2>1, <3>1, <3>2, <3>3
  <2>2. CASE /\ Works(r, "program_options")
             /\ \E retained \in BOOLEAN :
                  Vote(r, retained /\ (Alone(r) \/ line[r] = line[0]))
   <3>1. PICK retained \in BOOLEAN :
             Vote(r, retained /\ (Alone(r) \/ line[r] = line[0]))
     BY <2>2
   <3> DEFINE same == retained /\ (Alone(r) \/ line[r] = line[0])
   <3>2. same \in BOOLEAN /\ Vote(r, same)
     BY <3>1
   <3>3. phase[r] = "work" /\ stage[r] = 8
     BY <2>2, StageNames DEF IInv, Works
   <3> HIDE DEF same
   <3> QED
     BY <3>2, <3>3
  <2> QED
    BY <2>1, <2>2 DEF CompareInProgram
 <1>2. UNCHANGED <<line, world, first, config, dir, disk, ran>>
   BY DEF CompareInProgram
 <1>3. UNCHANGED <<owner, metadata, file, edits>>
   BY <1>2 DEF disk, world
 <1>4. Deaths' /\ Barriers'
   BY <1>1, VoteKeepsOrder
 <1>5. LinesAgree' /\ ModeAgrees' /\ ConfigsAgree'
   BY <1>1, <1>2, VoteKeepsAgreement
 <1>6. Directories'
   BY <1>1, <1>2, <1>3, VoteKeepsOutput
 <1>7. Ran' /\ Metadata'
   BY <1>1, <1>2, <1>3, VoteKeepsRecord
 <1>8. TypeOK'
   BY <1>1, <1>2, <1>3 DEF IInv, TypeOK, Vote, Phases
 <1> QED
   BY <1>4, <1>5, <1>6, <1>7, <1>8 DEF IInv

(* A stage of local work; run() is recorded by the step that votes.        *)
LEMMA WorkKeeps ==
    ASSUME IInv, NEW r \in Ranks, NEW ok \in BOOLEAN, Work(r, ok)
    PROVE  IInv'
 <1> USE DEF Work
 <1>1. /\ phase[r] = "work" /\ Vote(r, ok)
       /\ stage[r] \in {6, 11, 12, 14, 16}
       /\ Name(r) = "run" <=> stage[r] = 14
   BY StageNames DEF IInv, LocalStages
 <1>2. UNCHANGED <<line, config, dir, owner, metadata, file, edits, first>>
   BY DEF disk, world
 <1>3. Deaths' /\ Barriers'
   BY <1>1, VoteKeepsOrder
 <1>4. LinesAgree' /\ ModeAgrees' /\ ConfigsAgree'
   BY <1>1, <1>2, VoteKeepsAgreement
 <1>5. Directories'
   BY <1>1, <1>2, VoteKeepsOutput
 <1>6. TypeOK'
   BY <1>1, <1>2 DEF IInv, TypeOK, Vote, Phases
 <1>7. /\ \A s \in Ranks : ran[s] => ran'[s]
       /\ ok /\ stage[r] = 14 => ran'[r]
   BY <1>1 DEF IInv, TypeOK
 <1>8. \A s \in Ranks, k \in Nat : VotedFor(s, k)' =>
           VotedFor(s, k) \/ (s = r /\ ok /\ k = stage[r])
   BY DEF VotedFor, Vote, IInv, TypeOK
 <1>9. Ran'
   BY <1>1, <1>7, <1>8 DEF Ran, IInv, Vote
 <1>10. Metadata'
   BY <1>1, <1>2, <1>7, <1>8, RanksNumbered DEF Metadata, IInv, Vote
 <1> QED
   BY <1>3, <1>4, <1>5, <1>6, <1>9, <1>10 DEF IInv

(* Where rank 0 works alone.                                               *)
LEMMA RootStage ==
    ASSUME IInv, NEW r \in Ranks, Name(r) \in RootStages
    PROVE  stage[r] \in {9, 10, 13, 15}
  BY StageNames DEF IInv, RootStages

(* A root stage in which a rank only votes.                                *)
LEMMA IdleVoteKeeps ==
    ASSUME IInv, NEW r \in Ranks, NEW ok \in BOOLEAN,
           phase[r] = "work", Vote(r, ok), stage[r] \in {9, 10, 13, 15},
           UNCHANGED <<line, world, first, config, dir, disk, ran>>,
           r = 0 /\ ok => stage[r] \in {10, 13}
    PROVE  IInv'
 <1>1. UNCHANGED <<file, edits, owner, metadata>>
   BY DEF disk, world
 <1>2. Deaths' /\ Barriers'
   BY VoteKeepsOrder
 <1>3. LinesAgree' /\ ModeAgrees' /\ ConfigsAgree'
   BY VoteKeepsAgreement
 <1>4. Directories'
   BY <1>1, VoteKeepsOutput
 <1>5. Ran' /\ Metadata'
   BY <1>1, VoteKeepsRecord
 <1>6. TypeOK'
   BY <1>1 DEF IInv, TypeOK, Vote, Phases
 <1> QED
   BY <1>2, <1>3, <1>4, <1>5, <1>6 DEF IInv

(* The ranks that go straight to the broadcast.                            *)
LEMMA StandByKeeps ==
    ASSUME IInv, MpiStays, NEW r \in Ranks, StandBy(r)
    PROVE  IInv'
 <1>1. r # 0
   BY RootIsRankZero DEF StandBy
 <1> QED
   BY <1>1, RootStage, IdleVoteKeeps DEF StandBy

(* A root action that fails.                                               *)
LEMMA RootFailsKeeps ==
    ASSUME IInv, NEW r \in Ranks, RootFails(r)
    PROVE  IInv'
  BY RootStage, IdleVoteKeeps DEF RootFails

(* The files of the run directory besides the record.                      *)
LEMMA PrepareArtifactsKeeps ==
    ASSUME IInv, NEW r \in Ranks, PrepareArtifacts(r)
    PROVE  IInv'
 <1>1. stage[r] = 10
   BY StageNames DEF IInv, PrepareArtifacts, Works
 <1> QED
   BY <1>1, IdleVoteKeeps DEF PrepareArtifacts, Works

(* Rank 0 takes a name nobody has; nobody can be past this stage.          *)
LEMMA CreateDirectoryKeeps ==
    ASSUME IInv, MpiStays, NEW r \in Ranks, CreateDirectory(r)
    PROVE  IInv'
 <1>1. PICK ok \in BOOLEAN :
           r = 0 /\ stage[0] = 9 /\ phase[0] = "work" /\ Vote(0, ok)
  <2>1. IsRoot(r) /\ Works(r, "directory") /\ Vote(r, TRUE)
    BY DEF CreateDirectory
  <2>2. r = 0
    BY <2>1, RootIsRankZero
  <2>3. stage[r] = 9 /\ phase[r] = "work"
    BY <2>1, StageNames DEF IInv, Works
  <2> QED
    BY <2>1, <2>2, <2>3
 <1>2. PICK n \in Names : /\ dir' = [dir EXCEPT ![0] = n]
                          /\ owner' = [owner EXCEPT ![n] = "us"]
   BY <1>1 DEF CreateDirectory
 <1>3. UNCHANGED <<line, file, edits, first, config, metadata, ran>>
   BY DEF CreateDirectory, world
 <1>4. n # 0
   BY LaunchAssumption DEF Names
 <1>5. \A s \in Ranks : stage[s] <= 9
   BY <1>1, RanksNumbered DEF IInv, TypeOK, Barriers
 <1>6. stage' = stage
   BY <1>1 DEF Vote
 <1>7. Deaths' /\ Barriers'
   BY <1>1, RanksNumbered, VoteKeepsOrder
 <1>8. LinesAgree' /\ ModeAgrees' /\ ConfigsAgree'
   BY <1>1, <1>3, RanksNumbered, VoteKeepsAgreement
 <1>9. TypeOK'
   BY <1>1, <1>2, <1>3, RanksNumbered DEF IInv, TypeOK, Vote, Phases
 <1>10. Directories'
  <2>1. \A s \in Ranks : dir'[s] # 0 =>
           stage'[s] >= 9 /\ owner'[dir'[s]] = "us"
    BY <1>1, <1>2, <1>6 DEF IInv, TypeOK, Directories
  <2>2. dir'[0] # 0
    BY <1>2, <1>4, RanksNumbered DEF IInv, TypeOK
  <2> QED
    BY <1>5, <1>6, <2>1, <2>2 DEF Directories, IInv, TypeOK
 <1>11. Ran'
   BY <1>3, <1>5, <1>6 DEF Ran, VotedFor, IInv, TypeOK
 <1>12. Metadata'
  <2>1. \A m \in Names : metadata'[m] = "complete" =>
           owner'[m] = "us" /\ \A s \in Ranks : ran'[s]
    BY <1>2, <1>3 DEF IInv, TypeOK, Metadata
  <2> QED
    BY <1>1, <1>5, <1>6, <2>1, RanksNumbered
    DEF Metadata, VotedFor, IInv, TypeOK
 <1> QED
   BY <1>7, <1>8, <1>9, <1>10, <1>11, <1>12 DEF IInv

(* Rank 0 writes the record.  When it writes "complete" it is in the stage *)
(* after run(), and nobody can be past that stage while it works in it.    *)
LEMMA WriteMetadataKeeps ==
    ASSUME IInv, MpiStays, NEW r \in Ranks, NEW ok \in BOOLEAN,
           WriteMetadata(r, ok)
    PROVE  IInv'
 <1>1. /\ r = 0 /\ phase[0] = "work" /\ Vote(0, ok)
       /\ \/ /\ stage[0] = 13
             /\ metadata' = [metadata EXCEPT ![dir[0]] = "planned"]
          \/ /\ stage[0] = 15
             /\ metadata' = [metadata EXCEPT ![dir[0]] = "complete"]
   BY RootIsRankZero, StageNames DEF IInv, WriteMetadata, Works
 <1>2. UNCHANGED <<line, file, edits, first, config, dir, owner, ran>>
   BY DEF WriteMetadata, world
 <1>3. \A s \in Ranks : stage[s] <= stage[0]
   BY <1>1, RanksNumbered DEF IInv, TypeOK, Barriers
 <1>4. stage' = stage
   BY <1>1 DEF Vote
 <1>5. dir[0] \in Names /\ owner[dir[0]] = "us"
   BY <1>1, RanksNumbered DEF IInv, TypeOK, Directories
 <1>6. Deaths' /\ Barriers'
   BY <1>1, RanksNumbered, VoteKeepsOrder
 <1>7. LinesAgree' /\ ModeAgrees' /\ ConfigsAgree'
   BY <1>1, <1>2, RanksNumbered, VoteKeepsAgreement
 <1>8. Directories'
   BY <1>1, <1>2, RanksNumbered, VoteKeepsOutput
 <1>9. TypeOK'
   BY <1>1, <1>2, RanksNumbered DEF IInv, TypeOK, Vote, Phases
 <1>10. Ran'
  <2>1. \A s \in Ranks : VotedFor(s, 14)' => VotedFor(s, 14)
    BY <1>1 DEF VotedFor, Vote, IInv, TypeOK
  <2> QED
    BY <1>2, <1>4, <2>1 DEF Ran, IInv
 <1>11. Metadata'
  <2>1. CASE stage[0] = 13
   <3>1. \A n \in Names : metadata'[n] = "complete" => metadata[n] = "complete"
     BY <1>1, <2>1 DEF IInv, TypeOK
   <3> QED
     BY <1>2, <1>3, <1>4, <2>1, <3>1, RanksNumbered
     DEF Metadata, VotedFor, IInv, TypeOK
  <2>2. CASE stage[0] = 15
   <3>1. \A s \in Ranks : ran[s]
     BY <2>2, RanksNumbered DEF IInv, Ran
   <3>2. \A n \in Names : metadata'[n] = "complete" => owner[n] = "us"
     BY <1>1, <1>5, <2>2 DEF IInv, TypeOK, Metadata
   <3>3. metadata'[dir[0]] = "complete"
     BY <1>1, <1>5, <2>2 DEF IInv, TypeOK
   <3> QED
     BY <1>2, <1>4, <3>1, <3>2, <3>3 DEF Metadata
  <2> QED
    BY <1>1, <2>1, <2>2
 <1> QED
   BY <1>6, <1>7, <1>8, <1>9, <1>10, <1>11 DEF IInv

-----------------------------------------------------------------------------
(* Steps that only end processes, or move them to MPI_Finalize.            *)
LEMMA EndingKeeps ==
    ASSUME IInv,
           phase' \in [Ranks -> Phases],
           \A s \in Ranks : phase'[s] \in {"work", "vote"} => phase'[s] = phase[s],
           Deaths',
           UNCHANGED <<line, world, first, stage, bad, dir, disk, ran>>,
           config' \in [Ranks -> Contents \union {None}],
           \A s \in Ranks : config'[s] # None => stage[s] >= 5,
           config' = config \/ \A s \in Ranks : stage[s] < 7
    PROVE  IInv'
 <1> USE DEF IInv
 <1>1. UNCHANGED <<file, edits, owner, metadata>>
   BY DEF world, disk
 <1>2. \A s \in Ranks, k \in Nat : VotedFor(s, k)' => VotedFor(s, k)
   BY DEF VotedFor
 <1>3. TypeOK'
   BY <1>1 DEF TypeOK
 <1>4. Barriers'
   BY DEF Barriers
 <1>5. LinesAgree'
   BY <1>2 DEF LinesAgree
 <1>6. ModeAgrees'
   BY <1>2 DEF ModeAgrees
 <1>7. ConfigsAgree'
  <2>1. CASE config' = config
    BY <1>2, <2>1 DEF ConfigsAgree
  <2>2. CASE \A s \in Ranks : stage[s] < 7
    BY <2>2 DEF ConfigsAgree, VotedFor, TypeOK
  <2> QED
    BY <2>1, <2>2
 <1>8. Directories'
   BY <1>1, <1>2, RanksNumbered DEF Directories
 <1>9. Ran'
   BY <1>2 DEF Ran
 <1>10. Metadata'
   BY <1>1, <1>2, RanksNumbered DEF Metadata
 <1> QED
   BY <1>3, <1>4, <1>5, <1>6, <1>7, <1>8, <1>9, <1>10

(* A program that fails ends every process of its job.                     *)
LEMMA FailingEndsAll ==
    ASSUME IInv, NEW r \in Ranks, ProgramFails(r)
    PROVE  /\ phase' \in [Ranks -> Phases]
           /\ \A s \in Ranks : phase'[s] \in Ended
           /\ Deaths'
 <1> USE DEF ProgramFails, Ended
 <1>1. phase' \in [Ranks -> Phases] /\ \A s \in Ranks : phase'[s] \in Ended
   BY DEF IInv, TypeOK, Phases
 <1>2. \A s \in Ranks : phase'[s] # "work"
   BY <1>1
 <1>3. \A s \in Ranks : phase'[s] = "refused" =>
          NumRanks = 1 \/ phase[s] = "refused"
   OBVIOUS
 <1>4. \A s \in Ranks : phase'[s] \in {"finalizing", "returned"} =>
          phase'[s] = phase[s]
   OBVIOUS
 <1>5. Deaths'
   BY <1>1, <1>2, <1>3, <1>4 DEF IInv, Deaths
 <1> QED
   BY <1>1, <1>5

(* An exception every rank agrees on.                                      *)
LEMMA FatalKeeps ==
    ASSUME IInv, NEW r \in Ranks, Fatal(r)
    PROVE  IInv'
 <1>1. ProgramFails(r) /\ config' = config
   BY DEF Fatal
 <1>2. /\ phase' \in [Ranks -> Phases] /\ Deaths'
       /\ \A s \in Ranks : phase'[s] \notin {"work", "vote"}
   BY <1>1, FailingEndsAll DEF Ended
 <1> QED
   BY <1>1, <1>2, EndingKeeps DEF ProgramFails, IInv, TypeOK, ModeAgrees

(* The second reading.  Whoever reads is in stage 5, so nobody has         *)
(* compared what was read yet.                                             *)
LEMMA LoadKeeps ==
    ASSUME IInv, NEW r \in Ranks, Load(r)
    PROVE  IInv'
 <1>1. stage[r] = 5 /\ phase[r] = "work" /\ config' = [config EXCEPT ![r] = file]
   BY StageNames DEF IInv, Load, Works
 <1>2. \A s \in Ranks : stage[s] <= 6
   BY <1>1 DEF IInv, TypeOK, Barriers
 <1>3. config' \in [Ranks -> Contents \union {None}]
   BY <1>1 DEF IInv, TypeOK
 <1>4. \A s \in Ranks : config'[s] # None => stage[s] >= 5
   BY <1>1 DEF IInv, TypeOK, ModeAgrees
 <1>5. CASE ~ Loadable(file, r) /\ ProgramFails(r)
  <2>1. /\ phase' \in [Ranks -> Phases] /\ Deaths'
        /\ \A s \in Ranks : phase'[s] \notin {"work", "vote"}
    BY <1>5, FailingEndsAll DEF Ended
  <2>2. \A s \in Ranks : stage[s] < 7
    BY <1>2 DEF IInv, TypeOK
  <2> QED
    BY <1>3, <1>4, <1>5, <2>1, <2>2, EndingKeeps DEF ProgramFails
 <1>6. CASE /\ stage' = [stage EXCEPT ![r] = @ + 1]
            /\ UNCHANGED <<line, world, first, phase, bad, dir, disk, ran>>
  <2> USE DEF IInv
  <2>1. UNCHANGED <<line, file, edits, first, phase, bad, dir, owner,
                    metadata, ran>>
    BY <1>6 DEF world, disk
  <2>2. stage'[r] = 6 /\ \A s \in Ranks : s # r => stage'[s] = stage[s]
    BY <1>1, <1>6 DEF TypeOK
  <2>3. \A s \in Ranks : stage[s] >= 4
    BY <1>1 DEF TypeOK, Barriers
  <2>4. TypeOK'
    BY <1>1, <1>3, <1>6, <2>1 DEF TypeOK
  <2>5. \A s \in Ranks, k \in Nat : VotedFor(s, k)' => VotedFor(s, k)
    BY <1>1, <2>1, <2>2 DEF VotedFor
  <2>6. Deaths'
   <3>1. \A s \in Ranks : phase'[s] = "refused" =>
            \/ NumRanks = 1
            \/ \E t \in Ranks : /\ stage'[t] = stage'[s]
                                /\ bad'[t]
                                /\ phase'[t] # "work"
    <4> SUFFICES ASSUME NEW s \in Ranks, phase[s] = "refused", NumRanks # 1
                 PROVE  \E t \in Ranks : /\ stage'[t] = stage'[s]
                                         /\ bad[t]
                                         /\ phase[t] # "work"
      BY <2>1
    <4>1. PICK t \in Ranks : stage[t] = stage[s] /\ bad[t] /\ phase[t] # "work"
      BY DEF Deaths
    <4>2. t # r /\ s # r
      BY <1>1, <4>1
    <4> QED
      BY <2>2, <4>1, <4>2
   <3> QED
     BY <1>1, <2>1, <2>2, <3>1 DEF Deaths
  <2>7. Barriers'
   <3> SUFFICES ASSUME NEW p \in Ranks, NEW q \in Ranks, stage'[q] < stage'[p]
                PROVE  /\ \/ stage'[q] = stage'[p] - 1
                          \/ stage'[q] = 4 /\ stage'[p] = 6
                       /\ stage'[q] # 5 => phase'[q] # "work"
     BY DEF Barriers
   <3>1. CASE p = r
    <4>1. q # r /\ stage[q] \in 4 .. 5
      BY <1>1, <2>2, <2>3, <3>1 DEF TypeOK
    <4>2. stage[q] # 5 => phase[q] # "work"
      BY <1>1, <4>1 DEF Barriers
    <4> QED
      BY <2>1, <2>2, <3>1, <4>1, <4>2
   <3>2. CASE p # r /\ q = r
     BY <1>2, <2>2, <3>2 DEF TypeOK
   <3>3. CASE p # r /\ q # r
     BY <2>1, <2>2, <3>3 DEF Barriers
   <3> QED
     BY <3>1, <3>2, <3>3
  <2>8. LinesAgree'
    BY <1>1, <2>1, <2>2, <2>5 DEF LinesAgree
  <2>9. ModeAgrees'
    BY <1>1, <1>4, <2>1, <2>2, <2>5 DEF ModeAgrees, TypeOK
  <2>10. ConfigsAgree'
    BY <1>2, <2>2, <2>5 DEF ConfigsAgree, VotedFor, TypeOK
  <2>11. Directories'
    BY <1>1, <1>2, <2>1, <2>2, <2>5, RanksNumbered DEF Directories, TypeOK
  <2>12. Ran'
    BY <1>2, <2>1, <2>2, <2>5 DEF Ran, TypeOK
  <2>13. Metadata'
    BY <1>2, <2>1, <2>2, <2>5, RanksNumbered DEF Metadata, TypeOK
  <2> QED
    BY <2>4, <2>6, <2>7, <2>8, <2>9, <2>10, <2>11, <2>12, <2>13
 <1> QED
   BY <1>5, <1>6 DEF Load

(* The preflight refuses: the exception stays for those who leave later.   *)
LEMMA RefuseKeeps ==
    ASSUME IInv, MpiStays, NEW r \in Ranks, Refuse(r)
    PROVE  IInv'
 <1>1. phase' = [phase EXCEPT ![r] = "refused"]
       /\ UNCHANGED <<line, world, first, config, stage, bad, dir, disk, ran>>
   BY DEF Refuse
 <1>2. phase[r] = "vote" /\ \A s \in Ranks : stage[s] = stage[r] => phase[s] # "work"
   BY LeavingMeansAllEntered DEF Refuse
 <1>3. \/ NumRanks = 1
       \/ \E t \in Ranks : stage[t] = stage[r] /\ bad[t] /\ phase[t] # "work"
  <2>1. CASE Alone(r)
    BY <2>1, AloneMeansOneRank
  <2>2. CASE ~ Alone(r)
    BY <1>2, <2>2 DEF Refuse, AnyBad
  <2> QED
    BY <2>1, <2>2
 <1>4. \A s \in Ranks : phase[s] # "aborted"
   BY <1>2, ActingMeansAlive DEF Ended
 <1>5. /\ phase' \in [Ranks -> Phases]
       /\ phase'[r] = "refused"
       /\ \A s \in Ranks : s # r => phase'[s] = phase[s]
   BY <1>1 DEF IInv, TypeOK, Phases
 <1>6. \A s \in Ranks : phase[s] # "work" => phase'[s] # "work"
   BY <1>5
 <1>7. Deaths'
  <2> SUFFICES ASSUME NEW s \in Ranks, phase'[s] = "refused", NumRanks # 1
               PROVE  \E t \in Ranks : /\ stage[t] = stage[s]
                                       /\ bad[t]
                                       /\ phase'[t] # "work"
    BY <1>1, <1>4, <1>5 DEF IInv, Deaths
  <2>1. \E t \in Ranks : stage[t] = stage[s] /\ bad[t] /\ phase[t] # "work"
    BY <1>3, <1>5 DEF IInv, Deaths
  <2> QED
    BY <1>6, <2>1
 <1> QED
   BY <1>1, <1>5, <1>7, EndingKeeps DEF IInv, TypeOK, ModeAgrees

(* MPI_Finalize.                                                           *)
LEMMA FinalizeKeeps ==
    ASSUME IInv, NEW r \in Ranks, Finalize(r)
    PROVE  IInv'
 <1>1. phase[r] = "finalizing" /\ phase' = [phase EXCEPT ![r] = "returned"]
       /\ UNCHANGED <<line, world, first, config, stage, bad, dir, disk, ran>>
   BY DEF Finalize
 <1>2. \A s \in Ranks : phase[s] \in {"finalizing", "returned"}
   BY DEF Finalize
 <1>3. /\ phase' \in [Ranks -> Phases]
       /\ \A s \in Ranks : phase'[s] \in {"finalizing", "returned"}
   BY <1>1, <1>2 DEF IInv, TypeOK, Phases
 <1>4. Deaths'
   BY <1>1, <1>2, <1>3 DEF IInv, Deaths
 <1> QED
   BY <1>1, <1>3, <1>4, EndingKeeps DEF IInv, TypeOK, ModeAgrees

(* The launcher ends the job.                                              *)
LEMMA KillKeeps ==
    ASSUME IInv, Kill
    PROVE  IInv'
 <1>1. /\ phase' = [r \in Ranks |-> "aborted"]
       /\ UNCHANGED <<line, world, first, config, stage, bad, dir, disk, ran>>
   BY DEF Kill
 <1>2. phase' \in [Ranks -> Phases] /\ Deaths'
   BY <1>1 DEF Phases, Deaths, Ended
 <1> QED
   BY <1>1, <1>2, EndingKeeps DEF IInv, TypeOK, ModeAgrees

(* Leaving a stage: what those who voted compared is now known of all.     *)
LEMMA PassKeeps ==
    ASSUME IInv, MpiStays, NEW r \in Ranks, Pass(r)
    PROVE  IInv'
 <1> USE DEF IInv
 <1> DEFINE k == stage[r]
 <1>1. Leaves(r) /\ k \in 1 .. 16
   BY DEF Pass, TypeOK
 <1>2. phase[r] = "vote" /\ \A s \in Ranks : /\ stage[s] >= k
                                             /\ stage[s] = k => phase[s] # "work"
   BY <1>1, LeavingMeansAllEntered
 <1>3. \A s \in Ranks : phase[s] # "aborted"
   BY <1>2, ActingMeansAlive DEF Ended
 <1>4. UNCHANGED <<line, file, edits, first, config, bad, owner, metadata, ran>>
   BY DEF Pass, world, disk
 <1>5. CASE Name(r) = "provenance"
  <2>1. k = 16
    BY <1>5, StageNames
  <2>2. phase' = [phase EXCEPT ![r] = "finalizing"] /\ stage' = stage
        /\ dir' = dir
    BY <1>5 DEF Pass
  <2>3. phase' \in [Ranks -> Phases]
        /\ phase'[r] = "finalizing"
        /\ \A s \in Ranks : s # r => phase'[s] = phase[s]
    BY <2>2 DEF TypeOK, Phases
  <2>4. Deaths'
   <3>1. \A s \in Ranks : phase'[s] = "refused" =>
            \/ NumRanks = 1
            \/ \E t \in Ranks : /\ stage'[t] = stage'[s]
                                /\ bad'[t]
                                /\ phase'[t] # "work"
    <4> SUFFICES ASSUME NEW s \in Ranks, phase[s] = "refused", NumRanks # 1
                 PROVE  \E t \in Ranks : /\ stage[t] = stage[s]
                                         /\ bad[t]
                                         /\ phase'[t] # "work"
      BY <1>4, <2>2, <2>3
    <4>1. PICK t \in Ranks : stage[t] = stage[s] /\ bad[t] /\ phase[t] # "work"
      BY DEF Deaths
    <4> QED
      BY <2>3, <4>1
   <3> QED
     BY <1>3, <2>1, <2>2, <2>3, <3>1 DEF Deaths
  <2> QED
    BY <1>4, <2>2, <2>3, <2>4, EndingKeeps DEF TypeOK, ModeAgrees, world, disk
 <1>6. CASE Name(r) # "provenance"
  <2>1. k \in 1 .. 15 /\ ~ AnyBad(r)
    BY <1>1, <1>6, StageNames DEF Pass
  <2>2. stage' = [stage EXCEPT ![r] = @ + 1] /\ phase' = [phase EXCEPT ![r] = "work"]
    BY <1>6 DEF Pass
  <2>3. /\ stage'[r] = k + 1 /\ phase'[r] = "work"
        /\ \A s \in Ranks : s # r => stage'[s] = stage[s] /\ phase'[s] = phase[s]
    BY <2>2 DEF TypeOK
  <2>4. \A s \in Ranks : stage[s] = k => VotedFor(s, k)
    BY <1>1, <2>1, PassedMeansVoted
  <2>5. \A s \in Ranks, j \in Nat : VotedFor(s, j)' => VotedFor(s, j)
    BY <1>4, <2>3 DEF VotedFor
  <2>6. dir' = IF k = 9 /\ r # 0 THEN [dir EXCEPT ![r] = dir[0]] ELSE dir
    BY StageNames, RootIsRankZero DEF Pass
  <2>7. dir'[0] = dir[0]
    BY <2>6, RanksNumbered DEF TypeOK
  <2>8. stage[r] \in Nat /\ \A s \in Ranks : stage[s] \in 1 .. 16
    BY DEF TypeOK
  <2>9. TypeOK'
    BY <1>4, <2>1, <2>2, <2>6, RanksNumbered DEF TypeOK, Phases
  <2>10. Deaths'
   <3>1. \A s \in Ranks : phase'[s] = "refused" =>
            \/ NumRanks = 1
            \/ \E t \in Ranks : /\ stage'[t] = stage'[s]
                                /\ bad'[t]
                                /\ phase'[t] # "work"
    <4> SUFFICES ASSUME NEW s \in Ranks, phase'[s] = "refused", NumRanks # 1
                 PROVE  \E t \in Ranks : /\ stage'[t] = stage'[s]
                                         /\ bad[t]
                                         /\ phase'[t] # "work"
      BY <1>4
    <4>1. s # r /\ phase[s] = "refused"
      BY <2>3
    <4>2. PICK t \in Ranks : stage[t] = stage[s] /\ bad[t] /\ phase[t] # "work"
      BY <4>1 DEF Deaths
    <4>3. t # r
      BY <2>4, <4>2 DEF VotedFor
    <4> QED
      BY <2>3, <4>1, <4>2, <4>3
   <3> QED
     BY <1>3, <2>3, <3>1 DEF Deaths
  <2>11. Barriers'
   <3> SUFFICES ASSUME NEW p \in Ranks, NEW q \in Ranks, stage'[q] < stage'[p]
                PROVE  /\ \/ stage'[q] = stage'[p] - 1
                          \/ stage'[q] = 4 /\ stage'[p] = 6
                       /\ stage'[q] # 5 => phase'[q] # "work"
     BY DEF Barriers
   <3>1. CASE p = r
    <4>1. q # r /\ stage[q] = k
      BY <1>2, <2>3, <2>8, <3>1
    <4> QED
      BY <1>2, <2>3, <2>8, <3>1, <4>1
   <3>2. CASE p # r /\ q = r
    <4>1. stage[p] > k + 1 /\ stage'[p] = stage[p]
      BY <2>3, <3>2
    <4>2. k = 4 /\ stage[p] = 6
      BY <2>8, <3>2, <4>1 DEF Barriers
    <4> QED
      BY <2>3, <3>2, <4>1, <4>2
   <3>3. CASE p # r /\ q # r
     BY <2>3, <3>3 DEF Barriers
   <3> QED
     BY <3>1, <3>2, <3>3
  <2> HIDE DEF k
  <2>12. \A s \in Ranks, j \in 1 .. 16 :
            stage'[s] >= j => stage[s] >= j \/ (s = r /\ k = j - 1)
    BY <2>3, <2>8 DEF k
  <2>13. LinesAgree'
   <3>1. k = 3 => \A s \in Ranks : line[s] = line[0]
     BY <1>2, <2>4, <2>8 DEF LinesAgree, k
   <3> QED
     BY <1>4, <2>5, <2>12, <3>1 DEF LinesAgree
  <2>14. ModeAgrees'
   <3>1. k = 4 => \A s \in Ranks : NumRanks = 1 \/ line[s] # "serial"
     BY <1>2, <2>4, <2>8 DEF ModeAgrees, k
   <3>2. \A s \in Ranks : config'[s] # None => stage'[s] >= 5
     BY <1>4, <2>3, <2>8 DEF ModeAgrees, k
   <3> QED
     BY <1>4, <2>5, <2>12, <3>1, <3>2 DEF ModeAgrees
  <2>15. ConfigsAgree'
   <3>1. k = 7 => \A s \in Ranks : config[s] = config[0]
     BY <1>2, <2>4, <2>8 DEF ConfigsAgree, k
   <3> QED
     BY <1>4, <2>5, <2>12, <3>1 DEF ConfigsAgree
  <2>16. Directories'
   <3>1. k = 9 => dir[0] # 0
    <4>1. k = 9 => stage[0] >= 9
      BY <1>2, RanksNumbered
    <4> QED
      BY <2>4, <2>8, <4>1, RanksNumbered DEF Directories
   <3>2. \A s \in Ranks : dir'[s] # 0 => stage'[s] >= 9 /\ owner'[dir'[s]] = "us"
     BY <1>4, <2>3, <2>6, <2>8, RanksNumbered DEF Directories, TypeOK, k
   <3>3. \A s \in Ranks : stage'[s] >= 10 => dir'[0] # 0 /\ dir'[s] = dir'[0]
    <4> SUFFICES ASSUME NEW s \in Ranks, stage'[s] >= 10
                 PROVE  dir'[0] # 0 /\ dir'[s] = dir'[0]
      OBVIOUS
    <4>1. CASE s = r /\ k = 9
      BY <2>6, <2>7, <3>1, <4>1 DEF TypeOK
    <4>2. CASE stage[s] >= 10
     <5>1. dir[0] # 0 /\ dir[s] = dir[0]
       BY <4>2 DEF Directories
     <5>2. dir'[s] = dir[s] \/ dir'[s] = dir[0]
       BY <2>6 DEF TypeOK
     <5> QED
       BY <2>7, <5>1, <5>2
    <4> QED
      BY <2>12, <4>1, <4>2
   <3>4. VotedFor(0, 9)' => dir'[0] # 0
     BY <2>5, <2>7, RanksNumbered DEF Directories
   <3> QED
     BY <3>2, <3>3, <3>4 DEF Directories
  <2>17. Ran'
   <3>1. k = 14 => \A s \in Ranks : ran[s]
     BY <1>2, <2>4, <2>8 DEF Ran, k
   <3> QED
     BY <1>4, <2>5, <2>12, <3>1 DEF Ran
  <2>18. Metadata'
   <3>1. k = 15 => metadata[dir[0]] = "complete"
    <4>1. k = 15 => stage[0] \in {15, 16}
      BY <1>2, <2>8, RanksNumbered
    <4> QED
      BY <2>4, <4>1, RanksNumbered DEF Metadata
   <3>2. \A s \in Ranks : stage'[s] = 16 => stage[s] = 16 \/ k = 15
     BY <2>3, <2>8 DEF k
   <3> QED
     BY <1>4, <2>5, <2>7, <3>1, <3>2, RanksNumbered DEF Metadata
  <2> QED
    BY <2>9, <2>10, <2>11, <2>13, <2>14, <2>15, <2>16, <2>17, <2>18
 <1> QED
   BY <1>5, <1>6

-----------------------------------------------------------------------------
(* The world outside.                                                      *)
LEMMA EditKeeps ==
    ASSUME IInv, NEW content \in Contents, Edit(content)
    PROVE  IInv'
 <1>1. UNCHANGED <<line, first, config, stage, phase, bad, dir, owner,
                   metadata, ran>>
       /\ file' \in Contents /\ edits' \in Nat
   BY DEF Edit, IInv, TypeOK, disk
 <1>2. \A r \in Ranks, k \in Nat : VotedFor(r, k)' <=> VotedFor(r, k)
   BY <1>1 DEF VotedFor
 <1>3. TypeOK' /\ Deaths' /\ Barriers'
   BY <1>1 DEF IInv, TypeOK, Deaths, Barriers
 <1>4. LinesAgree' /\ ModeAgrees' /\ ConfigsAgree'
   BY <1>1, <1>2 DEF IInv, LinesAgree, ModeAgrees, ConfigsAgree
 <1>5. Directories' /\ Ran' /\ Metadata'
   BY <1>1, <1>2, RanksNumbered DEF IInv, Directories, Ran, Metadata
 <1> QED
   BY <1>3, <1>4, <1>5 DEF IInv

(* Another launch takes a free name, never ours.                           *)
LEMMA OtherLaunchKeeps ==
    ASSUME IInv, NEW n \in Names, OtherLaunch(n)
    PROVE  IInv'
 <1>1. /\ UNCHANGED <<line, file, edits, first, config, stage, phase, bad, dir,
                      metadata, ran>>
       /\ owner[n] = "nobody"
       /\ owner' = [owner EXCEPT ![n] = "other"]
   BY DEF OtherLaunch, Free, world
 <1>2. \A m \in Names : owner[m] = "us" => owner'[m] = "us"
   BY <1>1 DEF IInv, TypeOK
 <1>3. \A r \in Ranks, k \in Nat : VotedFor(r, k)' <=> VotedFor(r, k)
   BY <1>1 DEF VotedFor
 <1>4. TypeOK' /\ Deaths' /\ Barriers'
   BY <1>1 DEF IInv, TypeOK, Deaths, Barriers
 <1>5. LinesAgree' /\ ModeAgrees' /\ ConfigsAgree'
   BY <1>1, <1>3 DEF IInv, LinesAgree, ModeAgrees, ConfigsAgree
 <1>6. Directories' /\ Ran' /\ Metadata'
   BY <1>1, <1>2, <1>3, RanksNumbered
   DEF IInv, TypeOK, Directories, Ran, Metadata
 <1> QED
   BY <1>4, <1>5, <1>6 DEF IInv

(* Nothing happens.                                                        *)
LEMMA StutterKeeps == ASSUME IInv, UNCHANGED vars PROVE IInv'
  BY DEF vars, world, disk, IInv, TypeOK, Deaths, Barriers, LinesAgree,
         ModeAgrees, ConfigsAgree, Directories, Ran, Metadata, VotedFor

(* Initially nothing was voted, compared or written.                       *)
LEMMA InitEstablishes == Init => IInv
  BY RanksNumbered
  DEF Init, IInv, TypeOK, Deaths, Barriers, LinesAgree, ModeAgrees, ConfigsAgree,
      Directories, Ran, Metadata, VotedFor, Phases, Names, None

(* Every step keeps the invariant.                                         *)
LEMMA NextPreserves ==
    ASSUME IInv, MpiStays, [Next]_vars
    PROVE  IInv'
 <1>1. CASE \E r \in Ranks : RankStep(r)
  <2>1. PICK r \in Ranks : RankStep(r)
    BY <1>1
  <2>2. CASE \E ok \in BOOLEAN : Work(r, ok) \/ WriteMetadata(r, ok)
    BY <2>2, WorkKeeps, WriteMetadataKeeps
  <2>3. CASE Preflight(r) \/ CompareAtEntry(r) \/ Load(r)
    BY <2>3, PreflightKeeps, CompareAtEntryKeeps, LoadKeeps
  <2>4. CASE CompareInProgram(r) \/ StandBy(r) \/ CreateDirectory(r)
    BY <2>4, CompareInProgramKeeps, StandByKeeps, CreateDirectoryKeeps
  <2>5. CASE PrepareArtifacts(r) \/ RootFails(r) \/ Pass(r)
    BY <2>5, PrepareArtifactsKeeps, RootFailsKeeps, PassKeeps
  <2>6. CASE Refuse(r) \/ Fatal(r) \/ Finalize(r)
    BY <2>6, RefuseKeeps, FatalKeeps, FinalizeKeeps
  <2> QED
    BY <2>1, <2>2, <2>3, <2>4, <2>5, <2>6 DEF RankStep
 <1>2. CASE \E content \in Contents : Edit(content)
   BY <1>2, EditKeeps
 <1>3. CASE \E n \in Names : OtherLaunch(n)
   BY <1>3, OtherLaunchKeeps
 <1>4. CASE Kill
   BY <1>4, KillKeeps
 <1>5. CASE UNCHANGED vars
   BY <1>5, StutterKeeps
 <1> QED
   BY <1>1, <1>2, <1>3, <1>4, <1>5 DEF Next, Finished

(* The inductive invariant holds throughout.                               *)
LEMMA Invariance ==
    ASSUME MpiStays
    PROVE  Spec => []IInv
  BY InitEstablishes, NextPreserves, PTL DEF Spec

(* Type correctness for any number of processes and any configuration that *)
(* keeps MPI enabled.                                                      *)
THEOREM TypeCorrect ==
    ASSUME MpiStays
    PROVE  Spec => []TypeOK
 <1>1. IInv => TypeOK
   BY DEF IInv
 <1> QED
   BY <1>1, Invariance, PTL

(* Nothing is written and no rank enters the run before all ranks hold the *)
(* same configuration, command line and MPI: the vote on the second        *)
(* reading (program_bytes) carries it, not the one the entry took.         *)
THEOREM OneProgramRuns ==
    ASSUME MpiStays
    PROVE  Spec => []OneProgram
 <1>1. ASSUME IInv PROVE OneProgram
  <2> SUFFICES ASSUME NEW r \in Ranks, Inside(r) \/ dir[r] # 0,
                      NEW s \in Ranks
               PROVE  /\ config[s] = config[r]
                      /\ line[s] = line[r]
                      /\ MpiEnabled(config[s], s) \/ NumRanks = 1
    BY DEF OneProgram
  <2>1. stage[r] >= 9
   <3>1. Inside(r) => stage[r] \in 10 .. 16
     BY <1>1, StageNames DEF IInv, Inside
   <3> QED
     BY <1>1, <3>1 DEF IInv, TypeOK, Directories
  <2>2. config[s] = config[r] /\ config[r] = config[0]
    BY <1>1, <2>1 DEF IInv, TypeOK, ConfigsAgree
  <2>3. line[s] = line[r]
    BY <1>1, <2>1 DEF IInv, TypeOK, LinesAgree
  <2>4. NumRanks = 1 \/ line[s] # "serial"
    BY <1>1, <2>1 DEF IInv, TypeOK, ModeAgrees
  <2>5. config[s] # "serial"
    BY <1>1 DEF IInv, TypeOK, MpiStays, None
  <2> QED
    BY <2>2, <2>3, <2>4, <2>5 DEF MpiEnabled
 <1> QED
   BY <1>1, Invariance, PTL

(* run_metadata.json says "complete" only when run() returned on every     *)
(* rank, and a process exits with 0 only when the file says so, in a       *)
(* directory this launch created, whatever other launches take.            *)
THEOREM RecordTellsTheTruth ==
    ASSUME MpiStays
    PROVE  Spec => []CompleteMeansEveryRankRan
 <1>1. ASSUME IInv PROVE CompleteMeansEveryRankRan
  <2>1. \A n \in Names : metadata[n] = "complete" =>
           owner[n] = "us" /\ \A s \in Ranks : ran[s]
    BY <1>1 DEF IInv, Metadata
  <2>2. ASSUME NEW r \in Ranks, phase[r] = "returned"
        PROVE  dir[r] # 0 /\ metadata[dir[r]] = "complete"
   <3>1. stage[r] = 16
     BY <1>1, <2>2 DEF IInv, Deaths
   <3>2. dir[0] # 0 /\ dir[r] = dir[0] /\ metadata[dir[0]] = "complete"
     BY <1>1, <3>1 DEF IInv, Directories, Metadata
   <3> QED
     BY <3>2
  <2> QED
    BY <2>1, <2>2 DEF CompleteMeansEveryRankRan
 <1> QED
   BY <1>1, Invariance, PTL
=============================================================================
