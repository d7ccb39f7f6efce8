------------------------------- MODULE RunLaunch -------------------------------
(***************************************************************************)
(* The launch of one simulation: every rank is a process with its own      *)
(* command line that reads the configuration file, agrees with the others  *)
(* before anything is written, creates the run directory, runs and says in *)
(* run_metadata.json what became of it.  hyowon_entry.cpp starts MPI and   *)
(* compares what the ranks were given; hyowon.cpp then reads the file      *)
(* again, compares again and runs.                                         *)
(*                                                                         *)
(* A stage is a piece of local work and a collective vote on it, as        *)
(* CollectiveStage shows, in the order of the source; root actions, in     *)
(* which rank 0 works and broadcasts the outcome, have the same shape.  An *)
(* exception that is agreed in the preflight makes every process return 1; *)
(* one that leaves the program makes its process end the whole job with    *)
(* MPI_Abort.  Calls of MPI do not fail here: until the program's own      *)
(* RuntimeContext is made such a failure is fatal.                         *)
(*                                                                         *)
(* A process whose configuration disables MPI takes itself for the only    *)
(* one: it enters no collective and is its own rank 0.                     *)
(*                                                                         *)
(* A definition marked "fault" is a plausible mistake in the definition    *)
(* that follows it; no action uses it.                                     *)
(***************************************************************************)
EXTENDS Naturals, Sequences, FiniteSetsExt

CONSTANTS NumRanks,
          CommandLines,  \* what a rank may be launched with (not --help)
          Contents,      \* what the configuration file may contain
          MaxEdits,      \* times it is edited
          NumNames       \* names of run directories, in order of preference

ASSUME LaunchAssumption ==
    /\ NumRanks \in Nat \ {0}
    /\ CommandLines \subseteq {"plain", "restart", "serial", "wrong"}
    /\ Contents \subseteq {"one", "other", "serial", "exact", "broken"}
    /\ MaxEdits \in Nat
    /\ NumNames \in Nat \ {0}

Ranks == 0 .. NumRanks - 1
Names == 1 .. NumNames
None == "none"

Stages == <<"preflight", "bytes", "options", "mode",              \* entry
            "load", "context", "program_bytes", "program_options",
            "directory", "artifacts", "construct", "initialize",
            "metadata", "run", "finalize", "provenance">>

VARIABLES line,      \* line[r]: the command line of rank r
          file,      \* the content of the configuration file
          edits,
          first,     \* first[r]: what the preflight of rank r read
          config,    \* config[r]: what its program read
          stage,     \* stage[r]: an index of Stages
          phase,     \* phase[r]: where it is inside the stage
          bad,       \* bad[r]: it holds an exception of the stage
          dir,       \* dir[r]: the run directory it uses; 0 before
          owner,     \* owner[n]: who created the directory n
          metadata,  \* metadata[n]: what run_metadata.json in n says
          ran        \* ran[r]: run() of rank r returned

world == <<file, edits>>
disk == <<owner, metadata>>
vars == <<line, world, first, config, stage, phase, bad, dir, disk, ran>>

Name(r) == Stages[stage[r]]
Ended == {"returned", "refused", "aborted"}

(* load_with_identity: the file, with the overrides of the command line.   *)
Loadable(content, r) == content # "broken" /\ line[r] # "wrong"
MpiEnabled(content, r) == content # "serial" /\ line[r] # "serial"

(* RuntimeContext::size() is 1 without MPI.                                *)
Alone(r) == config[r] # None /\ ~ MpiEnabled(config[r], r)
IsRoot(r) == r = 0 \/ Alone(r)

Init == /\ line \in [Ranks -> CommandLines]
        /\ file \in Contents
        /\ edits = 0
        /\ first = [r \in Ranks |-> None]
        /\ config = [r \in Ranks |-> None]
        /\ stage = [r \in Ranks |-> 1]
        /\ phase = [r \in Ranks |-> "work"]
        /\ bad = [r \in Ranks |-> FALSE]
        /\ dir = [r \in Ranks |-> 0]
        /\ owner = [n \in Names |-> "nobody"]
        /\ metadata = [n \in Names |-> "absent"]
        /\ ran = [r \in Ranks |-> FALSE]

-----------------------------------------------------------------------------
(* Stages.                                                                 *)

Works(r, name) == phase[r] = "work" /\ Name(r) = name

Vote(r, ok) == /\ phase' = [phase EXCEPT ![r] = "vote"]
               /\ bad' = [bad EXCEPT ![r] = ~ ok]
               /\ UNCHANGED stage

FirstToEnter(r) == TRUE                                          \* fault
EveryoneEntered(r) ==
    Alone(r) \/ \A s \in Ranks :
        /\ ~ Alone(s)
        /\ \/ stage[s] > stage[r]
           \/ stage[s] = stage[r] /\ phase[s] \notin {"work"}

AnyBad(r) == \E s \in IF Alone(r) THEN {r} ELSE Ranks :
                 stage[s] = stage[r] /\ bad[s]

Leaves(r) == phase[r] = "vote" /\ EveryoneEntered(r)

(* The path of the run directory comes from rank 0.                        *)
Pass(r) ==
    /\ Leaves(r)
    /\ ~ AnyBad(r) \/ Name(r) = "provenance"
    /\ dir' = IF Name(r) = "directory" /\ ~ IsRoot(r)
                THEN [dir EXCEPT ![r] = dir[0]] ELSE dir
    /\ IF Name(r) = "provenance"
         THEN /\ phase' = [phase EXCEPT ![r] = "finalizing"]
              /\ UNCHANGED stage
         ELSE /\ phase' = [phase EXCEPT ![r] = "work"]
              /\ stage' = [stage EXCEPT ![r] = @ + 1]
    /\ UNCHANGED <<line, world, first, config, bad, disk, ran>>

(* main of hyowon_entry.cpp: the preflight's exception is the same on      *)
(* every rank, and every process returns 1.                                *)
InPreflight(r) == stage[r] <= 4

Refuse(r) ==
    /\ Leaves(r)
    /\ AnyBad(r)
    /\ InPreflight(r)
    /\ phase' = [phase EXCEPT ![r] = "refused"]
    /\ UNCHANGED <<line, world, first, config, stage, bad, dir, disk, ran>>

(* hyowon_program_main returns 1, and its caller ends the job.             *)
ReturnFailed(r) ==                                               \* fault
    /\ phase' = [phase EXCEPT ![r] = "finalizing"]
    /\ UNCHANGED <<line, world, first, stage, bad, dir, disk, ran>>

ProgramFails(r) ==
    /\ phase' = [s \in Ranks |->
                   IF NumRanks = 1 THEN "refused"
                   ELSE IF phase[s] \in Ended THEN phase[s] ELSE "aborted"]
    /\ UNCHANGED <<line, world, first, stage, bad, dir, disk, ran>>

Fatal(r) == /\ Leaves(r)
            /\ AnyBad(r)
            /\ ~ InPreflight(r)
            /\ Name(r) # "provenance"
            /\ ProgramFails(r)
            /\ UNCHANGED config

(* The destructors, and MPI_Finalize, which waits for every process.       *)
Finalize(r) ==
    /\ phase[r] = "finalizing"
    /\ \A s \in Ranks : phase[s] \in {"finalizing", "returned"}
    /\ phase' = [phase EXCEPT ![r] = "returned"]
    /\ UNCHANGED <<line, world, first, config, stage, bad, dir, disk, ran>>

-----------------------------------------------------------------------------
(* The preflight.                                                          *)

Preflight(r) ==
    /\ Works(r, "preflight")
    /\ first' = [first EXCEPT ![r] = file]
    /\ Vote(r, Loadable(file, r))
    /\ UNCHANGED <<line, world, config, dir, disk, ran>>

(* What the entry compares: the bytes of the file, the command lines, and  *)
(* that a launch of several ranks enables MPI on all of them.              *)
Agreed(r) == [bytes |-> first[r] = first[0],
              options |-> line[r] = line[0],
              mode |-> NumRanks = 1 \/ MpiEnabled(first[r], r)]

CompareAtEntry(r) ==
    /\ phase[r] = "work"
    /\ Name(r) \in DOMAIN Agreed(r)
    /\ Vote(r, Agreed(r)[Name(r)])
    /\ UNCHANGED <<line, world, first, config, dir, disk, ran>>

-----------------------------------------------------------------------------
(* The program.                                                            *)

(* The configuration is read again; nobody waits for anybody here.         *)
Load(r) ==
    /\ Works(r, "load")
    /\ config' = [config EXCEPT ![r] = file]
    /\ \/ /\ Loadable(file, r)
          /\ stage' = [stage EXCEPT ![r] = @ + 1]
          /\ UNCHANGED <<line, world, first, phase, bad, dir, disk, ran>>
       \/ /\ ~ Loadable(file, r)
          /\ ProgramFails(r)

SameAsAtEntry(r) == first[r] = first[0]                          \* fault
SameProgramBytes(r) == IF Alone(r) THEN TRUE ELSE config[r] = config[0]

CompareInProgram(r) ==
    /\ \/ /\ Works(r, "program_bytes")
          /\ Vote(r, SameProgramBytes(r))
       \/ /\ Works(r, "program_options")
          /\ \E retained \in BOOLEAN :
               Vote(r, retained /\ (Alone(r) \/ line[r] = line[0]))
    /\ UNCHANGED <<line, world, first, config, dir, disk, ran>>

(* RuntimeContext (threads, affinity), SimulationRunner, initialize or     *)
(* initialize_from_restart, run(), the provenance: each may fail on some   *)
(* ranks.                                                                  *)
LocalStages == {"context", "construct", "initialize", "run", "provenance"}

Work(r, ok) == /\ phase[r] = "work"
               /\ Name(r) \in LocalStages
               /\ ran' = [ran EXCEPT ![r] = @ \/ (Name(r) = "run" /\ ok)]
               /\ Vote(r, ok)
               /\ UNCHANGED <<line, world, first, config, dir, disk>>

(* Root actions: the others go straight to the broadcast.                  *)
RootStages == {"directory", "artifacts", "metadata", "finalize"}

StandBy(r) == /\ phase[r] = "work"
              /\ Name(r) \in RootStages
              /\ ~ IsRoot(r)
              /\ Vote(r, TRUE)
              /\ UNCHANGED <<line, world, first, config, dir, disk, ran>>

(* create_unique_directory takes the first name nobody has;                *)
(* create_exact_directory wants the first or nothing.                      *)
Free(n) == owner[n] = "nobody"

CreateDirectory(r) ==
    /\ Works(r, "directory")
    /\ IsRoot(r)
    /\ \E n \in Names :
         /\ Free(n)
         /\ \A m \in 1 .. n - 1 : ~ Free(m)
         /\ config[r] = "exact" => n = 1
         /\ dir' = [dir EXCEPT ![r] = n]
         /\ owner' = [owner EXCEPT ![n] = "us"]
    /\ Vote(r, TRUE)
    /\ UNCHANGED <<line, world, first, config, metadata, ran>>

RootFails(r) == /\ phase[r] = "work"
                /\ Name(r) \in RootStages
                /\ IsRoot(r)
                /\ Vote(r, FALSE)
                /\ UNCHANGED <<line, world, first, config, dir, disk, ran>>

PrepareArtifacts(r) ==
    /\ Works(r, "artifacts")
    /\ IsRoot(r)
    /\ Vote(r, TRUE)
    /\ UNCHANGED <<line, world, first, config, dir, disk, ran>>

(* write_run_metadata: first published, then replaced; a publication may   *)
(* fail after it became visible.                                           *)
WriteMetadata(r, ok) ==
    /\ IsRoot(r)
    /\ \/ /\ Works(r, "metadata")
          /\ metadata' = [metadata EXCEPT ![dir[r]] = "planned"]
       \/ /\ Works(r, "finalize")
          /\ metadata' = [metadata EXCEPT ![dir[r]] = "complete"]
    /\ Vote(r, ok)
    /\ UNCHANGED <<line, world, first, config, dir, owner, ran>>

-----------------------------------------------------------------------------
(* The user edits the file, another launch takes a name, a process is      *)
(* killed and the launcher ends the job.                                   *)
Edit(content) == /\ edits < MaxEdits
                 /\ content # file
                 /\ file' = content
                 /\ edits' = edits + 1
                 /\ UNCHANGED <<line, first, config, stage, phase, bad, dir,
                                disk, ran>>

OtherLaunch(n) == /\ n < NumNames
                  /\ Free(n)
                  /\ owner' = [owner EXCEPT ![n] = "other"]
                  /\ UNCHANGED <<line, world, first, config, stage, phase, bad,
                                 dir, metadata, ran>>

Kill == /\ \A r \in Ranks : phase[r] \notin Ended
        /\ phase' = [r \in Ranks |-> "aborted"]
        /\ UNCHANGED <<line, world, first, config, stage, bad, dir, disk, ran>>

RankStep(r) == \/ Preflight(r) \/ CompareAtEntry(r) \/ Load(r)
               \/ CompareInProgram(r)
               \/ \E ok \in BOOLEAN : Work(r, ok) \/ WriteMetadata(r, ok)
               \/ StandBy(r) \/ CreateDirectory(r) \/ PrepareArtifacts(r)
               \/ RootFails(r)
               \/ Pass(r) \/ Refuse(r) \/ Fatal(r) \/ Finalize(r)

Finished == (\A r \in Ranks : phase[r] \in Ended) /\ UNCHANGED vars

Next == \/ \E r \in Ranks : RankStep(r)
        \/ \E content \in Contents : Edit(content)
        \/ \E n \in Names : OtherLaunch(n)
        \/ Kill
        \/ Finished

Spec == Init /\ [][Next]_vars

(* Every process is scheduled.                                             *)
FairSpec == Spec /\ \A r \in Ranks : WF_vars(RankStep(r))

-----------------------------------------------------------------------------
(* Nothing is written, and no rank goes into the collectives of a run,     *)
(* before all ranks hold the same configuration, the same command line and *)
(* MPI: two ranks in different programs would wait for each other in       *)
(* different collectives.  The file may change between the reads of two    *)
(* ranks, and between the two reads of one.                                *)
Inside(r) == Name(r) \in {"artifacts", "construct", "initialize", "metadata",
                          "run", "finalize", "provenance"}

OneProgram ==
    \A r \in Ranks : (Inside(r) \/ dir[r] # 0) =>
        \A s \in Ranks : /\ config[s] = config[r]
                         /\ line[s] = line[r]
                         /\ MpiEnabled(config[s], s) \/ NumRanks = 1

(* run_metadata.json says that the run is complete only when run() has     *)
(* returned on every rank, a process exits with 0 only when it says so,    *)
(* and both are about a directory this launch created.                     *)
CompleteMeansEveryRankRan ==
    /\ \A n \in Names : metadata[n] = "complete" =>
           owner[n] = "us" /\ \A s \in Ranks : ran[s]
    /\ \A r \in Ranks : phase[r] = "returned" =>
           dir[r] # 0 /\ metadata[dir[r]] = "complete"

(* Every process ends, whichever of them failed and where: none is left in *)
(* a collective another one will never enter.                              *)
EveryProcessEnds == <>(\A r \in Ranks : phase[r] \in Ended)

(* The message of require_uniform_mpi_mode: "A multi-rank launch requires  *)
(* runtime.mpi_enabled=true".                                              *)
NobodyRunsAlone == \A r \in Ranks : NumRanks > 1 => ~ (Alone(r) /\ dir[r] # 0)
=============================================================================
