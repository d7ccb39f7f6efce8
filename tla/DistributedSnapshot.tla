------------------------- MODULE DistributedSnapshot -------------------------
(***************************************************************************)
(* ParallelSnapshotIO::write_snapshot: all ranks write one snapshot file.  *)
(* After an agreed preflight the ranks prove that no particle has two      *)
(* owners (a ring of MPI_Sendrecv over the sorted identities, in chunks),  *)
(* rank 0 creates the stage of the file, and the particles travel to it in *)
(* batches, rank after rank.  Nothing is synchronized between two batches: *)
(* a rank sends its own and goes on to the last reduction.  A failure of   *)
(* rank 0's storage must therefore not stop its receives.  Rank 0 closes   *)
(* the stage, reads it back against what the ranks announced, publishes    *)
(* it, and the last reduction tells everybody.                             *)
(*                                                                         *)
(* A particle is its owner and its place in the owner's list.  A digest is *)
(* what it is a digest of.  Reductions with no effect in between are one   *)
(* stage (CollectiveStage); the canonical name is what DurablePublication  *)
(* makes of it: taken by another process, or ours, whole or not at all.    *)
(*                                                                         *)
(* A definition marked "fault" is a plausible mistake in the definition    *)
(* that follows it; no action uses it.                                     *)
(***************************************************************************)
EXTENDS Naturals, Sequences, SequencesExt, FiniteSetsExt, Functions

CONSTANTS NumRanks,
          Chunk,        \* global_id_exchange_chunk_records
          BatchLimit,   \* particles whose coordinates an MPI count can number
          Worlds,       \* what the ranks come with, see below
          MaxLost       \* storage errors nobody reports

Ranks == 0 .. NumRanks - 1

(* ids[r]: the identities rank r owns, in its order; asked[r]: epoch, file *)
(* index, metadata and batch size; mass[r]: "explicit" or a common mass;   *)
(* configured: the particles the configuration counts.                     *)
ASSUME SnapshotAssumption ==
    /\ NumRanks \in Nat \ {0, 1}
    /\ Chunk \in Nat \ {0} /\ BatchLimit \in Nat \ {0} /\ MaxLost \in Nat
    /\ \A w \in Worlds : /\ w.ids \in [Ranks -> Seq(Nat \ {0})]
                         /\ \A r \in Ranks : w.asked[r].batch \in Nat \ {0}
                         /\ w.configured \in Nat \ {0}

VARIABLES world,      \* the world of this call
          stage,      \* stage[r]: the stage rank r is in
          phase,      \* phase[r]: where it is inside the stage
          bad,        \* bad[r]: it holds an exception of that stage
          ring,       \* ring[r]: its progress round the ring
          wire,       \* wire[s][d]: messages sent and not yet matched
          want,       \* want[r]: the receive rank r has posted
          got,        \* got[r]: the message it was matched with
          turn,       \* turn[r]: the batch and the part of it r is at
          buffer,     \* buffer[part]: batch_buffers of rank 0
          failed,     \* write_exception
          mismatch,   \* batch_announcement_mismatch
          header,     \* the attributes of the stage
          file,       \* file[field][i]: the datasets of the stage
          staged,     \* the stage's pathname exists
          canonical,  \* what the snapshot's name leads to
          lost        \* storage errors nobody reported

control == <<stage, phase, bad>>
mpi == <<wire, want, got>>
disk == <<header, file, staged, canonical, lost>>
root == <<buffer, failed, mismatch>>
snapshot == <<world, control, mpi, disk, root, ring, turn>>

Stages == <<"agree", "order", "ring", "preflight", "identity", "setup",
            "transfer", "finish">>
Name(r) == Stages[stage[r]]
Ended == {"returned", "threw", "aborted"}

Nothing == [from |-> NumRanks, tag |-> "nothing"]
Silence == [tag |-> "nothing", data |-> <<>>]

-----------------------------------------------------------------------------
(* What the preflight computes, the same on every rank.                    *)

Count(r) == Len(world.ids[r])
Owners == {r \in Ranks : Count(r) > 0}
Total == MapThenSumSet(Count, Ranks)
Offset(r) == MapThenSumSet(Count, 0 .. r - 1)

(* require_collective_mass_representation: a rank without particles has no *)
(* say.                                                                    *)
MassesAgree == \A r, s \in Owners : world.mass[r] = world.mass[s]
Explicit == \E r \in Owners : world.mass[r] = "explicit"

Agreed == /\ \A r, s \in Ranks : world.asked[r] = world.asked[s]
          /\ MassesAgree
          /\ Total = world.configured

OwnBatch(r) == Min({world.asked[r].batch, BatchLimit})
TransferBatch == Min({OwnBatch(0), Max({Count(r) : r \in Ranks})})

(* The arrays of a batch; its header goes before them.                     *)
Fields == {"coordinates", "velocities", "ids"}
            \union (IF Explicit THEN {"masses"} ELSE {})
Parts == <<"header", "coordinates", "velocities", "ids">>
            \o (IF Explicit THEN <<"masses">> ELSE <<>>)

SnapshotInit ==
    /\ world \in Worlds
    /\ stage = [r \in Ranks |-> 1]
    /\ phase = [r \in Ranks |-> "work"]
    /\ bad = [r \in Ranks |-> FALSE]
    /\ ring = [r \in Ranks |-> [offset |-> 1, round |-> 0, cursor |-> 1,
                 source_count |-> 0, received |-> 0, previous |-> 0,
                 duplicate |-> FALSE, protocol_invalid |-> FALSE]]
    /\ wire = [s \in Ranks |-> [d \in Ranks |-> <<>>]]
    /\ want = [r \in Ranks |-> Nothing]
    /\ got = [r \in Ranks |-> Silence]
    /\ turn = [r \in Ranks |-> [source |-> r, begin |-> 0, part |-> 1]]
    /\ buffer = <<>>
    /\ failed = FALSE
    /\ mismatch = FALSE
    /\ file = [f \in Fields |-> [i \in 1 .. Total |-> <<>>]]
    /\ header = "none"
    /\ staged = FALSE
    /\ canonical \in {"absent", "other"}
    /\ lost = 0

-----------------------------------------------------------------------------
(* Stages.                                                                 *)

Works(r, name) == phase[r] = "work" /\ Name(r) = name

Vote(r, ok) == /\ phase' = [phase EXCEPT ![r] = "vote"]
               /\ bad' = [bad EXCEPT ![r] = ~ ok]
               /\ UNCHANGED stage

GoOn(r) == /\ stage' = [stage EXCEPT ![r] = @ + 1]
           /\ phase' = [phase EXCEPT ![r] = "work"]
           /\ UNCHANGED bad

Entered(r, s) == \/ stage[s] > stage[r]
                 \/ stage[s] = stage[r] /\ phase[s] \in {"vote"} \union Ended

Leaves(r) == phase[r] = "vote" /\ \A s \in Ranks : Entered(r, s)

Refused(r) == \/ \E s \in Ranks : stage[s] = stage[r] /\ bad[s]
              \/ Name(r) = "agree" /\ ~ Agreed

Pass(r) == /\ Leaves(r)
           /\ ~ Refused(r)
           /\ IF Name(r) = "finish"
                THEN /\ phase' = [phase EXCEPT ![r] = "returned"]
                     /\ UNCHANGED <<stage, bad>>
                ELSE GoOn(r)
           /\ UNCHANGED <<world, mpi, disk, root, ring, turn>>

Throw(r) == /\ Leaves(r)
            /\ Refused(r)
            /\ phase' = [phase EXCEPT ![r] = "threw"]
            /\ UNCHANGED <<world, stage, bad, mpi, disk, root, ring, turn>>

(* Local work: the metadata, the order of the identities and the buffer of *)
(* the ring, the payload and its buffers, the digest of the payload.       *)
Sorted(s) == \A i \in 1 .. Len(s) - 1 : s[i] < s[i + 1]

Check(r, ok) == /\ phase[r] = "work"
                /\ Name(r) \in {"agree", "order", "preflight", "identity"}
                /\ ok /\ Name(r) = "order" => Sorted(world.ids[r])
                /\ Vote(r, ok)
                /\ UNCHANGED <<world, mpi, disk, root, ring, turn>>

(* Only rank 0 touches the file system.                                    *)
StandBy(r) == /\ r # 0
              /\ Works(r, "setup") \/ Works(r, "finish")
              /\ Vote(r, TRUE)
              /\ UNCHANGED <<world, mpi, disk, root, ring, turn>>

-----------------------------------------------------------------------------
(* MPI: the oldest message with the tag fills the posted receive.          *)

OldestWith(queue, tag) == Min({i \in DOMAIN queue : queue[i].tag = tag})

Match(r) ==
    /\ want[r] # Nothing
    /\ LET s == want[r].from
           queue == wire[s][r]
       IN  /\ \E i \in DOMAIN queue : queue[i].tag = want[r].tag
           /\ LET i == OldestWith(queue, want[r].tag)
              IN  /\ got' = [got EXCEPT ![r] = queue[i]]
                  /\ wire' = [wire EXCEPT ![s][r] = RemoveAt(queue, i)]
    /\ want' = [want EXCEPT ![r] = Nothing]
    /\ UNCHANGED <<world, control, disk, root, ring, turn>>

(* A blocking send returns when it was matched, or earlier from a buffer.  *)
AllMatched(r) == \A d \in Ranks : wire[r][d] = <<>>
SendReturns(r, matched) == matched = AllMatched(r)

ReceiveReturns(r) == want[r] = Nothing /\ got[r] # Silence

-----------------------------------------------------------------------------
(* require_sorted_mpi_ids_unique.                                          *)

Destination(r) == (r + ring[r].offset) % NumRanks
Source(r) == (r + NumRanks - ring[r].offset) % NumRanks

Rounds == (Max({Count(r) : r \in Ranks}) + Chunk - 1) \div Chunk

(* The k-th chunk of a list; empty when the list has been sent.            *)
ChunkOf(s, k) == SubSeq(s, (k - 1) * Chunk + 1, Min({k * Chunk, Len(s)}))

IdMessage(r) == IF ring[r].round = 0
                  THEN [tag |-> "count", data |-> <<Count(r)>>]
                  ELSE [tag |-> "payload",
                        data |-> ChunkOf(world.ids[r], ring[r].round)]

StartExchange(r) ==
    /\ Works(r, "ring")
    /\ ring[r].offset < NumRanks
    /\ wire' = [wire EXCEPT ![r][Destination(r)] = Append(@, IdMessage(r))]
    /\ want' = [want EXCEPT ![r] = [from |-> Source(r), tag |-> IdMessage(r).tag]]
    /\ phase' = [phase EXCEPT ![r] = "communicate"]
    /\ UNCHANGED <<world, stage, bad, got, disk, root, ring, turn>>

(* One received identity against the sorted list: the cursor never goes    *)
(* back while one source is streaming.                                     *)
Scan(state, id, list) ==
    LET at == Max({state.cursor,
                   Cardinality({i \in DOMAIN list : list[i] < id}) + 1})
    IN  [state EXCEPT !.cursor = at,
                      !.previous = id,
                      !.protocol_invalid = @ \/ state.previous >= id,
                      !.duplicate = @ \/ (at <= Len(list) /\ list[at] = id)]

CursorKept(state) ==                                             \* fault
    IF state.round < Rounds THEN [state EXCEPT !.round = @ + 1]
    ELSE [state EXCEPT !.offset = @ + 1, !.round = 0, !.previous = 0,
                       !.received = 0]

(* The next round; after the last one the next source, from the beginning. *)
NextRound(state) ==
    IF state.round < Rounds THEN [state EXCEPT !.round = @ + 1]
    ELSE [state EXCEPT !.offset = @ + 1, !.round = 0, !.previous = 0,
                       !.received = 0, !.cursor = 1,
                       !.protocol_invalid = @ \/
                           state.received # state.source_count]

Expected(state) == Min({Chunk, state.source_count - state.received})

EndExchange(r, matched) ==
    /\ phase[r] = "communicate"
    /\ Name(r) = "ring"
    /\ ReceiveReturns(r)
    /\ SendReturns(r, matched)
    /\ LET state == ring[r]
           data == got[r].data
       IN  ring' = [ring EXCEPT ![r] = NextRound(
             IF state.round = 0 THEN [state EXCEPT !.source_count = data[1]]
             ELSE FoldLeft(LAMBDA acc, id : Scan(acc, id, world.ids[r]),
                    [state EXCEPT !.received = @ + Expected(state),
                                  !.protocol_invalid = @ \/
                                      Len(data) # Expected(state)],
                    IF Len(data) = Expected(state) THEN data ELSE <<>>))]
    /\ got' = [got EXCEPT ![r] = Silence]
    /\ phase' = [phase EXCEPT ![r] = "work"]
    /\ UNCHANGED <<world, stage, bad, wire, want, disk, root, turn>>

ReportIds(r) ==
    /\ Works(r, "ring")
    /\ ring[r].offset = NumRanks
    /\ Vote(r, ~ (ring[r].duplicate \/ ring[r].protocol_invalid))
    /\ UNCHANGED <<world, mpi, disk, root, ring, turn>>

-----------------------------------------------------------------------------
(* Groups and attributes of the stage: the epoch, the configuration and    *)
(* the metadata the ranks agreed on, or what storage made of it.           *)
WriteHeader == /\ header' \in {"right", "wrong"}
               /\ lost' = IF header' = "wrong" THEN lost + 1 ELSE lost
               /\ lost' <= MaxLost

(* The stage is created; when that fails it is discarded, or kept for      *)
(* inspection if even that fails.                                          *)
Setup == /\ Works(0, "setup")
         /\ canonical = "absent"
         /\ WriteHeader
         /\ staged' = TRUE
         /\ Vote(0, TRUE)
         /\ UNCHANGED <<world, mpi, file, canonical, root, ring, turn>>

SetupFails == /\ Works(0, "setup")
              /\ staged' \in BOOLEAN
              /\ Vote(0, FALSE)
              /\ UNCHANGED <<world, mpi, header, file, canonical, lost, root,
                             ring, turn>>

-----------------------------------------------------------------------------
(* The transfer.                                                           *)

BatchSize(r) == Min({TransferBatch, Count(turn[r].source) - turn[r].begin})
BatchOffset(r) == Offset(turn[r].source) + turn[r].begin
SourceDone(r) == turn[r].begin >= Count(turn[r].source)
Part(r) == Parts[turn[r].part]

(* pack_batch                                                              *)
Packed(r) == [k \in 1 .. BatchSize(r) |-> <<r, turn[r].begin + k>>]

Header(r) == <<BatchOffset(r), BatchSize(r)>>

NextBatch(r) == [turn[r] EXCEPT !.begin = @ + TransferBatch, !.part = 1]

NextPart(r) == IF turn[r].part = Len(Parts) THEN NextBatch(r)
                                            ELSE [turn[r] EXCEPT !.part = @ + 1]

SendPart(r) ==
    /\ r # 0
    /\ Works(r, "transfer")
    /\ ~ SourceDone(r)
    /\ wire' = [wire EXCEPT ![r][0] = Append(@,
                  [tag |-> Part(r),
                   data |-> IF Part(r) = "header" THEN Header(r) ELSE Packed(r)])]
    /\ phase' = [phase EXCEPT ![r] = "communicate"]
    /\ UNCHANGED <<world, stage, bad, want, got, disk, root, ring, turn>>

EndSend(r, matched) ==
    /\ r # 0
    /\ phase[r] = "communicate"
    /\ Name(r) = "transfer"
    /\ SendReturns(r, matched)
    /\ turn' = [turn EXCEPT ![r] = NextPart(r)]
    /\ phase' = [phase EXCEPT ![r] = "work"]
    /\ UNCHANGED <<world, stage, bad, mpi, disk, root, ring>>

EndSending(r) ==
    /\ r # 0
    /\ Works(r, "transfer")
    /\ SourceDone(r)
    /\ GoOn(r)
    /\ UNCHANGED <<world, mpi, disk, root, ring, turn>>

(* write_root_batch: all datasets, or an error, which may leave some of    *)
(* them written, or a loss that nobody reports.                            *)
Written(parts, data) ==
    [f \in Fields |-> [i \in 1 .. Total |->
       LET k == i - BatchOffset(0)
       IN  IF f \in parts /\ k \in 1 .. BatchSize(0) THEN data[f][k]
                                                      ELSE file[f][i]]]

Store(parts, reported, data) ==
    /\ reported => ~ failed
    /\ file' = IF failed THEN file ELSE Written(parts, data)
    /\ failed' = (failed \/ reported)
    /\ lost' = IF parts # Fields /\ ~ reported /\ ~ failed THEN lost + 1 ELSE lost
    /\ lost' <= MaxLost
    /\ UNCHANGED <<header, staged, canonical>>

(* Some fields, and the batch they leave out.                              *)
Outcomes == {Fields, Fields \ {"velocities"}}

StoreOwn(parts, reported) ==
    /\ Works(0, "transfer")
    /\ turn[0].source = 0
    /\ ~ SourceDone(0)
    /\ Store(parts, reported, [f \in Fields |-> Packed(0)])
    /\ turn' = [turn EXCEPT ![0] = NextBatch(0)]
    /\ UNCHANGED <<world, control, mpi, buffer, mismatch, ring>>

NextSource == /\ Works(0, "transfer")
              /\ SourceDone(0)
              /\ turn[0].source < NumRanks - 1
              /\ turn' = [turn EXCEPT ![0] =
                            [source |-> @.source + 1, begin |-> 0, part |-> 1]]
              /\ UNCHANGED <<world, control, mpi, disk, root, ring>>

Receive == /\ Works(0, "transfer")
           /\ turn[0].source # 0
           /\ ~ SourceDone(0)
           /\ want' = [want EXCEPT ![0] = [from |-> turn[0].source,
                                           tag |-> Part(0)]]
           /\ phase' = [phase EXCEPT ![0] = "communicate"]
           /\ UNCHANGED <<world, stage, bad, wire, got, disk, root, ring, turn>>

(* Every part is received before anything is stored.                       *)
EndReceive ==
    /\ phase[0] = "communicate"
    /\ Name(0) = "transfer"
    /\ ReceiveReturns(0)
    /\ got' = [got EXCEPT ![0] = Silence]
    /\ buffer' = (got[0].tag :> got[0].data) @@ buffer
    /\ IF turn[0].part = Len(Parts)
         THEN /\ phase' = [phase EXCEPT ![0] = "store"]
              /\ UNCHANGED turn
         ELSE /\ phase' = [phase EXCEPT ![0] = "work"]
              /\ turn' = [turn EXCEPT ![0].part = @ + 1]
    /\ UNCHANGED <<world, stage, bad, wire, want, disk, failed, mismatch, ring>>

LeaveOnError ==                                                  \* fault
    /\ IF failed' THEN /\ stage' = [stage EXCEPT ![0] = @ + 1]
                  ELSE UNCHANGED stage
    /\ turn' = [turn EXCEPT ![0] = NextBatch(0)]

(* With or without an error the next batch is received.                    *)
KeepDraining == /\ UNCHANGED stage
                /\ turn' = [turn EXCEPT ![0] = NextBatch(0)]

StoreBatch(parts, reported) ==
    /\ phase[0] = "store"
    /\ mismatch' = (mismatch \/ (~ failed /\ buffer["header"] # Header(0)))
    /\ Store(parts, reported, buffer)
    /\ phase' = [phase EXCEPT ![0] = "work"]
    /\ buffer' = <<>>
    /\ KeepDraining
    /\ UNCHANGED <<world, bad, mpi, ring>>

EndReceiving == /\ Works(0, "transfer")
                /\ SourceDone(0)
                /\ turn[0].source = NumRanks - 1
                /\ GoOn(0)
                /\ UNCHANGED <<world, mpi, disk, root, ring, turn>>

-----------------------------------------------------------------------------
(* The end: flush, close, read back, publish.                              *)

(* The digests of the ranks, which travelled outside the batches.          *)
Announced(r) == [k \in 1 .. Count(r) |-> <<r, k>>]

MetadataMatches == header = "right"

TrustTheStage == TRUE                                            \* fault
PayloadMatches ==
    \A f \in Fields : \A r \in Ranks :
        SubSeq(file[f], Offset(r) + 1, Offset(r) + Count(r)) = Announced(r)

(* Any step up to the link may fail; the stage is then discarded or kept.  *)
FailUnpublished ==
    /\ Works(0, "finish")
    /\ staged' \in BOOLEAN
    /\ Vote(0, FALSE)
    /\ UNCHANGED <<world, mpi, header, file, canonical, lost, root, ring, turn>>

(* Visible, and then perhaps an error.                                     *)
Publish(ok) ==
    /\ Works(0, "finish")
    /\ ~ failed /\ ~ mismatch
    /\ MetadataMatches /\ PayloadMatches
    /\ canonical = "absent"
    /\ canonical' = "ours"
    /\ staged' = FALSE
    /\ Vote(0, ok)
    /\ UNCHANGED <<world, mpi, header, file, lost, root, ring, turn>>

(* Another process takes the name; a transport error or a kill ends the    *)
(* job.                                                                    *)
TakenByOther == /\ canonical = "absent"
                /\ canonical' = "other"
                /\ UNCHANGED <<world, control, mpi, header, file, staged, lost,
                               root, ring, turn>>

Abort == /\ \E r \in Ranks : phase[r] \notin Ended
         /\ phase' = [r \in Ranks |-> IF phase[r] \in Ended THEN phase[r]
                                                            ELSE "aborted"]
         /\ UNCHANGED <<world, stage, bad, mpi, disk, root, ring, turn>>

RootStep == \/ \E ok \in BOOLEAN : Publish(ok)
            \/ Setup \/ SetupFails
            \/ \E parts \in Outcomes, reported \in BOOLEAN :
                   StoreOwn(parts, reported) \/ StoreBatch(parts, reported)
            \/ NextSource \/ Receive \/ EndReceive \/ EndReceiving
            \/ FailUnpublished

RankStep(r) == \/ \E ok \in BOOLEAN : Check(r, ok)
               \/ StandBy(r) \/ Pass(r) \/ Throw(r)
               \/ StartExchange(r) \/ EndExchange(r, TRUE) \/ ReportIds(r)
               \/ SendPart(r) \/ EndSend(r, TRUE) \/ EndSending(r)

Buffered(r) == EndExchange(r, FALSE) \/ EndSend(r, FALSE)

Finished == (\A r \in Ranks : phase[r] \in Ended) /\ UNCHANGED snapshot

SnapshotNext == \/ \E r \in Ranks : RankStep(r) \/ Buffered(r) \/ Match(r)
                \/ RootStep
                \/ TakenByOther \/ Abort
                \/ Finished

SnapshotSpec == SnapshotInit /\ [][SnapshotNext]_snapshot

(* Ranks that MPI does not hold back run, and MPI makes progress on a pair *)
(* that matches.  It need not buffer anything.                             *)
FairSpec == /\ SnapshotSpec
            /\ \A r \in Ranks : WF_snapshot(RankStep(r)) /\ WF_snapshot(Match(r))
            /\ WF_snapshot(RootStep)

-----------------------------------------------------------------------------
(* A snapshot that can be opened under its name holds every particle of    *)
(* every rank, all its fields at one place, in the order of the ranks,     *)
(* under the right header, and all ranks meant the same snapshot: whatever *)
(* storage lost or did wrong.  A rank returns only when it is there and    *)
(* nobody threw, and nothing of the stage is left beside it.               *)
AllParticles == FlattenSeq([n \in 1 .. NumRanks |-> Announced(n - 1)])

PublishedHoldsEveryParticle ==
    /\ canonical = "ours" =>
         /\ header = "right"
         /\ \A f \in Fields : file[f] = AllParticles
         /\ Len(AllParticles) = world.configured
         /\ \A r \in Ranks : world.asked[r] = world.asked[0]
         /\ ~ staged
    /\ \A r, s \in Ranks : phase[r] = "returned" =>
           canonical = "ours" /\ phase[s] # "threw"

(* The ring finds every particle that has two owners and accuses nobody    *)
(* else, whatever the lengths of the lists, and never mistakes the stream  *)
(* of one source for another's.                                            *)
Shared(r) == \E s \in Ranks \ {r} :
                 Range(world.ids[r]) \intersect Range(world.ids[s]) # {}

IdCheckIsExact ==
    \A r \in Ranks : ring[r].offset = NumRanks =>
        /\ ring[r].duplicate <=> Shared(r)
        /\ ~ ring[r].protocol_invalid

(* Everybody leaves the call, although storage fails in the middle of the  *)
(* transfer and MPI buffers nothing: no rank is left in a send.            *)
EveryRankLeaves == <>(\A r \in Ranks : phase[r] \in Ended)
=============================================================================
