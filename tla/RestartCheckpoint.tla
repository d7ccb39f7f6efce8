-------------------------- MODULE RestartCheckpoint --------------------------
(***************************************************************************)
(* The restart checkpoints of a multi-rank run.  A checkpoint is a         *)
(* directory of its own, named after the integration step, with one shard  *)
(* per rank and a manifest that rank 0 publishes last and that holds the   *)
(* digest of every shard.  A later job, or another job while the first     *)
(* still runs, resumes from one directory its user names.                  *)
(*                                                                         *)
(* Both jobs are sequences of synchronized stages (CollectiveStage): in a  *)
(* stage a rank works, votes, and leaves when all have voted, by an        *)
(* exception if one vote was bad.  Here the local work has effects on the  *)
(* file system, processes are killed between any two of its steps, the     *)
(* power fails, and the user copies a file of one checkpoint into another. *)
(* Synchronized calls with no such effect between them are one stage here, *)
(* as they are for their callers (ImplementsAgreedOutcome).                *)
(* A file is published as DurablePublication shows: whole, first visible   *)
(* and then durable, and a publication that fails may stay visible.        *)
(*                                                                         *)
(* A shard is the pair of the checkpoint and the rank whose state it       *)
(* holds: SHA-256 tells any two of them apart.  A manifest is the          *)
(* checkpoint whose digests it lists.                                      *)
(*                                                                         *)
(* A definition marked "fault" is a plausible mistake in the definition    *)
(* that follows it; no action uses it.                                     *)
(***************************************************************************)
EXTENDS Naturals, FiniteSets, Sequences

CONSTANTS NumRanks,        \* ranks of the job that writes
          NumCheckpoints,  \* checkpoints it writes, one after the other
          MaxKills,        \* no kill strikes when so many processes are gone
          MaxDisturbances  \* power failures and files the user copies

ASSUME CheckpointAssumption == /\ NumRanks \in Nat \ {0}
                               /\ NumCheckpoints \in Nat \ {0}
                               /\ MaxKills \in Nat
                               /\ MaxDisturbances \in Nat

Ranks == 0 .. NumRanks - 1
Checkpoints == 1 .. NumCheckpoints
None == 0
Jobs == {"write", "read"}

VARIABLES
    dir,        \* dir[c]: the entry of checkpoint c in the run's directory
    shard,      \* shard[c][r]: what the name of rank r's shard leads to
    manifest,   \* manifest[c]: what the manifest's name leads to
    unsynced,   \* names inside a checkpoint whose entry is not yet durable
    at,         \* at[j][r]: the stage rank r of job j is in
    phase,      \* phase[j][r]: where it is inside the stage
    bad,        \* bad[j][r]: it holds an exception of that stage
    source,     \* the checkpoint the reading job was started on
    team,       \* the ranks of the reading job
    seen,       \* seen[r]: the manifest that reading rank r parsed
    loaded,     \* loaded[r]: the shard it decoded and verified
    outages,    \* power failures so far
    copied      \* checkpoints the user copied a file into

files == <<dir, shard, manifest, unsynced>>
jobs == <<at, phase, bad>>
reader == <<source, team, seen, loaded>>
world == <<outages, copied>>
vars == <<files, jobs, reader, world>>

(* The topology and time state checks; the directory and the barrier after *)
(* it; the shard; the particle count, the gather of the digests and the    *)
(* text of the manifest; the manifest.                                     *)
WriteStages == <<"admit", "create", "shard", "gather", "manifest">>

(* The preparation and the topology check; the manifest; its digest, from  *)
(* rank 0, against one's own; the shard; and what initialize_from_restart  *)
(* does with it before it becomes the state of the run.                    *)
ReadStages == <<"prepare", "manifest", "identity", "shard", "admit">>

LastStage(j) == IF j = "write" THEN NumCheckpoints * Len(WriteStages)
                               ELSE Len(ReadStages)

(* The stage a rank of job j is in, and the checkpoint it is writing.      *)
Stage(j, r) == IF j = "write"
                 THEN WriteStages[((at[j][r] - 1) % Len(WriteStages)) + 1]
                 ELSE ReadStages[at[j][r]]

Target(r) == ((at["write"][r] - 1) \div Len(WriteStages)) + 1

Members(j) == IF j = "write" THEN Ranks ELSE team
Terminal == {"returned", "threw", "killed", "lost"}

Init == /\ dir = [c \in Checkpoints |-> "absent"]
        /\ shard = [c \in Checkpoints |-> [r \in Ranks |-> <<None, r>>]]
        /\ manifest = [c \in Checkpoints |-> None]
        /\ unsynced = {}
        /\ at = [j \in Jobs |-> [r \in Ranks |-> 1]]
        /\ phase = [write |-> [r \in Ranks |-> "work"],
                    read |-> [r \in Ranks |-> "idle"]]
        /\ bad = [j \in Jobs |-> [r \in Ranks |-> FALSE]]
        /\ source = None
        /\ team = {}
        /\ seen = [r \in Ranks |-> None]
        /\ loaded = [r \in Ranks |-> <<None, r>>]
        /\ outages = 0
        /\ copied = {}

-----------------------------------------------------------------------------
(* Stages.                                                                 *)

Working(j, r, name) == /\ r \in Members(j)
                       /\ phase[j][r] = "work"
                       /\ Stage(j, r) = name

(* The rank enters the reduction, with or without an exception.            *)
Vote(j, r, ok) == /\ phase' = [phase EXCEPT ![j][r] = "vote"]
                  /\ bad' = [bad EXCEPT ![j][r] = ~ ok]
                  /\ UNCHANGED at

Entered(j, r, s) == \/ at[j][s] > at[j][r]
                    \/ at[j][s] = at[j][r] /\ phase[j][s] \in
                         {"vote", "threw", "returned", "lost"}

FirstToEnter(j, r) == TRUE                                       \* fault
EveryoneEntered(j, r) == \A s \in Members(j) : Entered(j, r, s)

AnyBad(j, r) == \E s \in Members(j) : at[j][s] = at[j][r] /\ bad[j][s]

(* No rank failed: on to the next stage, or out of the last.               *)
Pass(j, r) == /\ r \in Members(j)
              /\ phase[j][r] = "vote"
              /\ EveryoneEntered(j, r)
              /\ ~ AnyBad(j, r)
              /\ IF at[j][r] = LastStage(j)
                   THEN /\ phase' = [phase EXCEPT ![j][r] = "returned"]
                        /\ UNCHANGED at
                   ELSE /\ phase' = [phase EXCEPT ![j][r] = "work"]
                        /\ at' = [at EXCEPT ![j][r] = @ + 1]
              /\ UNCHANGED <<bad, files, reader, world>>

(* Some rank failed: every rank leaves the operation by an exception.      *)
Throw(j, r) == /\ r \in Members(j)
               /\ phase[j][r] = "vote"
               /\ EveryoneEntered(j, r)
               /\ AnyBad(j, r)
               /\ phase' = [phase EXCEPT ![j][r] = "threw"]
               /\ UNCHANGED <<at, bad, files, reader, world>>

(* A stage without an effect the other actors can see.                     *)
Quiet == [write |-> {"admit", "gather"}, read |-> {"prepare", "admit"}]

Work(j, r, ok) == /\ \E name \in Quiet[j] : Working(j, r, name)
                  /\ Vote(j, r, ok)
                  /\ UNCHANGED <<files, reader, world>>

(* Only rank 0 works in these two; the others vote at once.                *)
StandBy(r) == /\ r # 0
              /\ \E name \in {"create", "manifest"} : Working("write", r, name)
              /\ Vote("write", r, TRUE)
              /\ UNCHANGED <<files, reader, world>>

-----------------------------------------------------------------------------
(* Writing.                                                                *)

(* create_checkpoint_directory throws when the directory is there, and may *)
(* throw before or after it made one.                                      *)
CreateDirectory(made, ok) ==
    LET c == Target(0) IN
    /\ Working("write", 0, "create")
    /\ ok => made
    /\ made => dir[c] = "absent"
    /\ dir' = IF made THEN [dir EXCEPT ![c] = "unsynced"] ELSE dir
    /\ Vote("write", 0, ok)
    /\ UNCHANGED <<shard, manifest, unsynced, reader, world>>

(* write_local_shard: the shard becomes visible ...                        *)
RenameShard(r) ==
    LET c == Target(r) IN
    /\ Working("write", r, "shard")
    /\ shard' = [shard EXCEPT ![c][r] = <<c, r>>]
    /\ unsynced' = unsynced \union {<<c, r>>}
    /\ phase' = [phase EXCEPT !["write"][r] = "renamed"]
    /\ UNCHANGED <<dir, manifest, at, bad, reader, world>>

(* ... and then durable, unless the flush of the directory fails.          *)
VoteUnsynced(r, ok) ==                                           \* fault
    /\ phase["write"][r] = "renamed"
    /\ Stage("write", r) = "shard"
    /\ Vote("write", r, ok)
    /\ UNCHANGED <<files, reader, world>>

SyncShard(r, ok) ==
    /\ phase["write"][r] = "renamed"
    /\ Stage("write", r) = "shard"
    /\ unsynced' = IF ok THEN unsynced \ {<<Target(r), r>>} ELSE unsynced
    /\ Vote("write", r, ok)
    /\ UNCHANGED <<dir, shard, manifest, reader, world>>

(* Writing the stage of the shard or of the manifest fails.                *)
GiveUp(r) == /\ \/ Working("write", r, "shard")
                \/ r = 0 /\ Working("write", r, "manifest")
             /\ Vote("write", r, FALSE)
             /\ UNCHANGED <<files, reader, world>>

(* The manifest: by rank 0, after the last reduction before it.            *)
ManifestName(c) == <<c, NumRanks>>

RenameManifest ==
    LET c == Target(0) IN
    /\ Working("write", 0, "manifest")
    /\ manifest' = [manifest EXCEPT ![c] = c]
    /\ unsynced' = unsynced \union {ManifestName(c)}
    /\ phase' = [phase EXCEPT !["write"][0] = "renamed"]
    /\ UNCHANGED <<dir, shard, at, bad, reader, world>>

SyncManifest(ok) ==
    /\ phase["write"][0] = "renamed"
    /\ Stage("write", 0) = "manifest"
    /\ unsynced' = IF ok THEN unsynced \ {ManifestName(Target(0))}
                         ELSE unsynced
    /\ Vote("write", 0, ok)
    /\ UNCHANGED <<dir, shard, manifest, reader, world>>

-----------------------------------------------------------------------------
(* Reading.                                                                *)

(* A job of n ranks is started on checkpoint c.                            *)
Start(c, n) == /\ source = None
               /\ source' = c
               /\ team' = 0 .. n - 1
               /\ phase' = [phase EXCEPT !["read"] =
                              [r \in Ranks |-> IF r < n THEN "work"
                                                        ELSE "idle"]]
               /\ UNCHANGED <<at, bad, seen, loaded, files, world>>

(* read_manifest: there is one, and it lists as many ranks as the job has. *)
Admitted(c) == /\ dir[c] # "absent"
               /\ manifest[c] # None
               /\ Cardinality(team) = NumRanks

ReadManifest(r, ok) ==
    /\ Working("read", r, "manifest")
    /\ ok => Admitted(source)
    /\ seen' = IF ok THEN [seen EXCEPT ![r] = manifest[source]] ELSE seen
    /\ Vote("read", r, ok)
    /\ UNCHANGED <<source, team, loaded, files, world>>

(* Rank 0's manifest digest against the rank's own.                        *)
SameAsRoot(r) == seen[r] = seen[0]

CompareManifest(r) ==
    /\ Working("read", r, "identity")
    /\ Vote("read", r, SameAsRoot(r))
    /\ UNCHANGED <<files, reader, world>>

(* read_local_shard: the decoded state has the digest the manifest lists.  *)
AnyDigest(r) == shard[source][r] # <<None, r>>                   \* fault
DigestMatches(r) == shard[source][r] = <<seen[r], r>>

ReadShard(r, ok) ==
    /\ Working("read", r, "shard")
    /\ ok => dir[source] # "absent" /\ DigestMatches(r)
    /\ loaded' = IF ok THEN [loaded EXCEPT ![r] = shard[source][r]] ELSE loaded
    /\ Vote("read", r, ok)
    /\ UNCHANGED <<source, team, seen, files, world>>

-----------------------------------------------------------------------------
(* The environment.                                                        *)

Disturbances == outages + Cardinality(copied)

(* A process is killed; if it is lost inside a reduction, its vote may     *)
(* still reach its peers.                                                  *)
Gone == {x \in Jobs \X Ranks : phase[x[1]][x[2]] \in {"killed", "lost"}}

Kill(j, r) == /\ r \in Members(j)
              /\ Cardinality(Gone) < MaxKills
              /\ phase[j][r] \notin Terminal
              /\ phase' = [phase EXCEPT ![j][r] =
                              IF @ = "vote" THEN "lost" ELSE "killed"]
              /\ UNCHANGED <<at, bad, files, reader, world>>

(* The launcher ends a job one of whose processes is gone.                 *)
EndJob(j) == /\ \E r \in Members(j) : phase[j][r] \in {"killed", "lost", "threw"}
             /\ \E r \in Members(j) : phase[j][r] \notin Terminal
             /\ phase' = [phase EXCEPT ![j] =
                            [r \in Ranks |-> IF r \in Members(j)
                                                /\ phase[j][r] \notin Terminal
                                             THEN "killed" ELSE phase[j][r]]]
             /\ UNCHANGED <<at, bad, files, reader, world>>

(* Every process is gone; an entry that was not flushed, of a checkpoint   *)
(* in the run's directory or of a file in a checkpoint, survives or not.   *)
PowerFailure(lostDirs, lostNames) ==
    /\ Disturbances < MaxDisturbances
    /\ outages' = outages + 1
    /\ \A c \in lostDirs : dir[c] = "unsynced"
    /\ lostNames \subseteq unsynced
    /\ dir' = [c \in Checkpoints |-> IF dir[c] = "absent" \/ c \in lostDirs
                                       THEN "absent" ELSE "synced"]
    /\ shard' = [c \in Checkpoints |-> [r \in Ranks |->
                   IF c \in lostDirs \/ <<c, r>> \in lostNames
                     THEN <<None, r>> ELSE shard[c][r]]]
    /\ manifest' = [c \in Checkpoints |->
                   IF c \in lostDirs \/ ManifestName(c) \in lostNames
                     THEN None ELSE manifest[c]]
    /\ unsynced' = {}
    /\ phase' = [j \in Jobs |-> [r \in Ranks |->
                   IF r \in Members(j) /\ phase[j][r] \notin Terminal
                     THEN "killed" ELSE phase[j][r]]]
    /\ UNCHANGED <<at, bad, reader, copied>>

(* The user puts a shard or the manifest of one checkpoint in the place of *)
(* that of another.                                                        *)
CopyShard(c, e, r, s) ==
    /\ Disturbances < MaxDisturbances
    /\ c # e \/ r # s
    /\ shard[c][r] # <<None, r>> /\ shard[e][s] # <<None, s>>
    /\ shard' = [shard EXCEPT ![c][r] = shard[e][s]]
    /\ copied' = copied \union {c}
    /\ UNCHANGED <<dir, manifest, unsynced, jobs, reader, outages>>

CopyManifest(c, e) ==
    /\ Disturbances < MaxDisturbances
    /\ c # e
    /\ manifest[c] # None /\ manifest[e] # None
    /\ manifest' = [manifest EXCEPT ![c] = manifest[e]]
    /\ copied' = copied \union {c}
    /\ UNCHANGED <<dir, shard, unsynced, jobs, reader, outages>>

-----------------------------------------------------------------------------
WriteStep(r) == \/ StandBy(r)
                \/ RenameShard(r)
                \/ GiveUp(r)
                \/ \E ok \in BOOLEAN : SyncShard(r, ok)

ManifestStep == \/ \E made, ok \in BOOLEAN : CreateDirectory(made, ok)
                \/ RenameManifest
                \/ \E ok \in BOOLEAN : SyncManifest(ok)

ReadStep(r) == \/ CompareManifest(r)
               \/ \E ok \in BOOLEAN : ReadManifest(r, ok) \/ ReadShard(r, ok)

StageStep(j, r) == \/ Pass(j, r)
                   \/ Throw(j, r)
                   \/ \E ok \in BOOLEAN : Work(j, r, ok)

Environment == \/ \E c \in Checkpoints, n \in {NumRanks - 1, NumRanks} :
                     n > 0 /\ Start(c, n)
               \/ \E j \in Jobs, r \in Ranks : Kill(j, r)
               \/ \E lostDirs \in SUBSET Checkpoints :
                    \E lostNames \in SUBSET unsynced :
                      PowerFailure(lostDirs, lostNames)
               \/ \E c, e \in Checkpoints, r, s \in Ranks : CopyShard(c, e, r, s)
               \/ \E c, e \in Checkpoints : CopyManifest(c, e)

Finished == /\ \A j \in Jobs : \A r \in Members(j) : phase[j][r] \in Terminal
            /\ source # None
            /\ UNCHANGED vars

Next == \/ \E j \in Jobs, r \in Ranks : StageStep(j, r)
        \/ \E r \in Ranks : WriteStep(r) \/ ReadStep(r)
        \/ ManifestStep
        \/ \E j \in Jobs : EndJob(j)
        \/ Environment
        \/ Finished

Spec == Init /\ [][Next]_vars

-----------------------------------------------------------------------------
Names == Checkpoints \X (0 .. NumRanks)

TypeOK ==
    /\ dir \in [Checkpoints -> {"absent", "unsynced", "synced"}]
    /\ shard \in [Checkpoints ->
                    [Ranks -> (Checkpoints \union {None}) \X Ranks]]
    /\ manifest \in [Checkpoints -> Checkpoints \union {None}]
    /\ unsynced \in SUBSET Names
    /\ at \in [Jobs -> [Ranks -> Nat]]
    /\ \A j \in Jobs : \A r \in Ranks : at[j][r] \in 1 .. LastStage(j)
    /\ phase \in [Jobs -> [Ranks -> {"idle", "work", "renamed", "vote"}
                                    \union Terminal]]
    /\ bad \in [Jobs -> [Ranks -> BOOLEAN]]
    /\ source \in Checkpoints \union {None}
    /\ team \in SUBSET Ranks
    /\ seen \in [Ranks -> Checkpoints \union {None}]
    /\ loaded \in [Ranks -> (Checkpoints \union {None}) \X Ranks]
    /\ outages \in Nat
    /\ copied \in SUBSET Checkpoints

(* A manifest is the proof of a whole checkpoint, now and after a power    *)
(* failure: where write_restart_checkpoint_collective put one, every shard *)
(* it lists is there, of that step and rank, with a durable entry.  Killed *)
(* and failed writers leave directories that no reader takes for one.  So  *)
(* is a return: once the write has returned on one rank, the checkpoint is *)
(* complete and all of it flushed, whatever its peers are doing.           *)
Whole(c) == /\ dir[c] # "absent"
            /\ \A r \in Ranks : shard[c][r] = <<c, r>>
                                /\ <<c, r>> \notin unsynced

WroteCheckpoint(r, c) == \/ Target(r) > c
                         \/ Target(r) = c /\ phase["write"][r] = "returned"

ProofsMeanWhole ==
    \A c \in Checkpoints \ copied :
        /\ manifest[c] # None => Whole(c)
        /\ (outages = 0 /\ \E r \in Ranks : WroteCheckpoint(r, c)) =>
               /\ Whole(c)
               /\ manifest[c] = c
               /\ ManifestName(c) \notin unsynced

(* When one rank has resumed, the ranks together hold every shard of one   *)
(* checkpoint, each its own, and none has thrown: particles of two steps   *)
(* are never mixed and none are missing, even if the manifest or a shard   *)
(* was exchanged between two ranks' reads.                                 *)
Resumed(r) == r \in team /\ phase["read"][r] = "returned"

ResumedIsWhole ==
    \A r \in Ranks : Resumed(r) =>
        /\ team = Ranks
        /\ \A s \in Ranks : /\ phase["read"][s] # "threw"
                            /\ loaded[s] = <<seen[0], s>>
                            /\ seen[0] # None

(* The program rewrites nothing that a manifest covers: while a job writes *)
(* another step, or dies, an existing checkpoint stays as it is.           *)
PublishedIsFinal ==
    [][\A c \in Checkpoints :
          (/\ manifest[c] # None
           /\ outages' = outages
           /\ c \notin copied') => /\ manifest'[c] = manifest[c]
                                   /\ shard'[c] = shard[c]
                                   /\ dir'[c] = dir[c]]_vars

(* The comment of restart_checkpoint_io.hpp: "a manifest published after   *)
(* all shards are durable", that is, a power failure takes none of them.   *)
ShardsDurableBeforeManifest ==
    \A c \in Checkpoints \ copied :
        manifest[c] # None => Whole(c) /\ dir[c] = "synced"
=============================================================================
