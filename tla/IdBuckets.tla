------------------------------ MODULE IdBuckets ------------------------------
(***************************************************************************)
(* The global comparison of particle identities by hashed ownership        *)
(* (mpi_global_id_check.cpp).  capture_global_particle_id_set sends every  *)
(* identity to the rank its hash selects and keeps, on each rank, one      *)
(* sorted bucket; require_global_particle_id_set_preserved does the same   *)
(* after a transport and compares.  The payload travels round a ring in    *)
(* rounds of one chunk, every rank doing as many rounds as the largest     *)
(* pair needs, with one message tag for all of them.                       *)
(*                                                                         *)
(* One pass over the identities is the sequence of its collectives: the    *)
(* layout, then one accounting per offset of the ring, then the verdict on *)
(* duplicates.  Two passes and a comparison are a test.  A hash function   *)
(* is any function from identities to ranks.                               *)
(***************************************************************************)
EXTENDS Naturals, Sequences, SequencesExt, FiniteSetsExt

CONSTANTS NumRanks,
          Chunk,        \* global_id_exchange_chunk_records
          Tests         \* identities before and after, and the hash

Ranks == 0 .. NumRanks - 1

(* owned[p][r]: what rank r owns when pass p begins.                       *)
IdBucketsAssumption ==
    /\ NumRanks \in Nat \ {0, 1} /\ Chunk \in Nat \ {0}
    /\ \A t \in Tests : /\ t.owned \in [1 .. 2 -> [Ranks -> Seq(Nat)]]
                        /\ \A id \in DOMAIN t.hash : t.hash[id] \in Ranks

VARIABLES test,      \* the test
          place,     \* place[r]: its pass, its collective and the point in it
          channel,   \* channel[s][d]: messages not yet matched
          bucket,    \* bucket[r]: result.ids of this pass
          received,  \* received[r][s]: received_from_peer
          before,    \* before[r]: GlobalParticleIdSetSnapshot
          reply      \* reply[r]: how the test ended on r

vars == <<test, place, channel, bucket, received, before, reply>>

Layout == 0
Verdict == NumRanks + 1
Comparison == [pass |-> 3, stage |-> Layout]

(* Where a rank may be inside a collective: before it has entered, in a    *)
(* Sendrecv whose receive is open, or closed, and waiting for the others.  *)
Init == /\ test \in Tests
        /\ place = [r \in Ranks |-> [pass |-> 1, stage |-> Layout, round |-> 0,
                                     at |-> "work", bad |-> FALSE]]
        /\ channel = [s \in Ranks |-> [d \in Ranks |-> <<>>]]
        /\ bucket = [r \in Ranks |-> <<>>]
        /\ received = [r \in Ranks |-> [s \in Ranks |-> 0]]
        /\ before = [r \in Ranks |-> <<>>]
        /\ reply = [r \in Ranks |-> "none"]

Running(r) == reply[r] = "none"
Works(r) == Running(r) /\ place[r].at = "work"

-----------------------------------------------------------------------------
(* The layout.                                                             *)

(* send_order of rank s in a pass: grouped by destination.                 *)
For(pass, s, d) == SelectSeq(test.owned[pass][s], LAMBDA id : test.hash[id] = d)

(* The counts as rank r knows them from MPI_Alltoall, in its own pass.     *)
Count(r, s, d) == Len(For(place[r].pass, s, d))

(* recv_offsets: where the identities of a source go.                      *)
RecvOffset(r, s) == MapThenSumSet(LAMBDA p : Count(r, p, r), 0 .. s - 1)
TotalRecv(r) == MapThenSumSet(LAMBDA p : Count(r, p, r), Ranks)

Needed(count) == (count + Chunk - 1) \div Chunk

(* As many rounds for every pair as the largest pair needs.                *)
Rounds(r) == Needed(Max({Count(r, s, d) : s \in Ranks, d \in Ranks}))

-----------------------------------------------------------------------------
(* Collectives.                                                            *)

SameCollective(r, s) == /\ place[s].pass = place[r].pass
                        /\ place[s].stage = place[r].stage

Later(r, s) == \/ place[s].pass > place[r].pass
               \/ /\ place[s].pass = place[r].pass
                  /\ place[s].stage > place[r].stage

Enter(r, bad) == place' = [place EXCEPT ![r].at = "wait", ![r].bad = bad]

AllEntered(r) == \A s \in Ranks : \/ Later(r, s)
                                  \/ SameCollective(r, s) /\ place[s].at = "wait"

SomeBad(r) == \E s \in Ranks : SameCollective(r, s) /\ place[s].bad

NextPlace(p) == IF p.stage = Verdict THEN [p EXCEPT !.pass = @ + 1, !.stage = 0]
                                     ELSE [p EXCEPT !.stage = @ + 1]

(* The tables, the layout and the workspace: an allocation may fail.       *)
LayOut(r, bad) ==
    /\ Works(r) /\ place[r].stage = Layout /\ place[r].pass <= 2
    /\ Enter(r, bad)
    /\ bucket' = [bucket EXCEPT ![r] = [i \in 1 .. TotalRecv(r) |-> 0]]
    /\ received' = [received EXCEPT ![r] = [s \in Ranks |-> 0]]
    /\ UNCHANGED <<test, channel, before, reply>>

-----------------------------------------------------------------------------
(* The exchange with the ranks at one offset.                              *)

Exchanging(r) == place[r].stage \in 1 .. NumRanks
Destination(r) == (r + place[r].stage - 1) % NumRanks
Source(r) == (r + NumRanks - (place[r].stage - 1)) % NumRanks

SendThis(r) == LET out == For(place[r].pass, r, Destination(r))
                   sent == Chunk * place[r].round
               IN  SubSeq(out, sent + 1, Min({sent + Chunk, Len(out)}))

Post(r) == /\ Works(r) /\ Exchanging(r)
           /\ place[r].round < Rounds(r)
           /\ channel' = [channel EXCEPT ![r][Destination(r)] =
                             Append(@, SendThis(r))]
           /\ place' = [place EXCEPT ![r].at = "open"]
           /\ UNCHANGED <<test, bucket, received, before, reply>>

(* MPI matches the oldest message; the chunk is copied to its place.       *)
RecvThis(r) == Min({Chunk, Count(r, Source(r), r) - received[r][Source(r)]})

Put(into, first, chunk) ==
    [i \in DOMAIN into |-> IF i \in first + 1 .. first + Len(chunk)
                             THEN chunk[i - first] ELSE into[i]]

Match(r) ==
    /\ Running(r) /\ place[r].at = "open"
    /\ LET s == Source(r)
       IN  /\ channel[s][r] # <<>>
           /\ channel' = [channel EXCEPT ![s][r] = Tail(@)]
           /\ bucket' = [bucket EXCEPT ![r] =
                 Put(@, RecvOffset(r, s) + received[r][s], Head(channel[s][r]))]
           /\ received' = [received EXCEPT ![r][s] = @ + RecvThis(r)]
    /\ place' = [place EXCEPT ![r].at = "closed"]
    /\ UNCHANGED <<test, before, reply>>

(* The send is complete when it was matched, or earlier, from a buffer.    *)
Return(r, matched) ==
    /\ Running(r) /\ place[r].at = "closed"
    /\ matched = (channel[r][Destination(r)] = <<>>)
    /\ place' = [place EXCEPT ![r].at = "work", ![r].round = @ + 1]
    /\ UNCHANGED <<test, channel, bucket, received, before, reply>>

(* Both sides of the pair have transferred what was announced.             *)
Account(r) ==
    /\ Works(r) /\ Exchanging(r)
    /\ place[r].round = Rounds(r)
    /\ Enter(r, \/ Chunk * place[r].round < Count(r, r, Destination(r))
                \/ received[r][Source(r)] # Count(r, Source(r), r))
    /\ UNCHANGED <<test, channel, bucket, received, before, reply>>

-----------------------------------------------------------------------------
(* The verdict and the comparison.                                         *)

(* std::sort                                                               *)
Canonical(ids) == SortSeq(ids, <)

Judge(r) ==
    /\ Works(r) /\ place[r].stage = Verdict
    /\ bucket' = [bucket EXCEPT ![r] = Canonical(@)]
    /\ Enter(r, \E i \in 1 .. Len(bucket'[r]) - 1 :
                    bucket'[r][i] = bucket'[r][i + 1])
    /\ UNCHANGED <<test, channel, received, before, reply>>

Compare(r) ==
    /\ Works(r) /\ place[r].pass = Comparison.pass
    /\ Enter(r, before[r] # bucket[r])
    /\ UNCHANGED <<test, channel, bucket, received, before, reply>>

(* The maximum of the local status: everybody goes on or nobody does.      *)
Agreed(r) == ~ SomeBad(r)

Why(r) == CASE place[r].pass = Comparison.pass -> "changed"
            [] place[r].stage = Layout -> "memory"
            [] place[r].stage = Verdict -> "duplicate"
            [] OTHER -> "protocol"

Finish(r) ==
    /\ Running(r) /\ place[r].at = "wait" /\ AllEntered(r)
    /\ reply' = [reply EXCEPT ![r] =
           IF ~ Agreed(r) THEN Why(r)
           ELSE IF place[r].pass = Comparison.pass THEN "preserved" ELSE @]
    /\ IF reply'[r] # "none" THEN UNCHANGED <<place, before>>
       ELSE /\ place' = [place EXCEPT ![r] =
                 [NextPlace(@) EXCEPT !.round = 0, !.at = "work", !.bad = FALSE]]
            /\ before' = IF place'[r].pass = 2 /\ place[r].pass = 1
                           THEN [before EXCEPT ![r] = bucket[r]] ELSE before
    /\ UNCHANGED <<test, channel, bucket, received>>

RankStep(r) == \/ \E bad \in BOOLEAN : LayOut(r, bad)
               \/ Post(r) \/ Match(r) \/ Account(r)
               \/ \E matched \in BOOLEAN : Return(r, matched)
               \/ Judge(r) \/ Compare(r) \/ Finish(r)

Next == \E r \in Ranks : RankStep(r)

Answered == \A r \in Ranks : reply[r] # "none"

Spec == Init /\ [][Next]_vars

-----------------------------------------------------------------------------
(* The test tells the truth, the same on every rank: it accuses when an    *)
(* identity has two owners before or after, or when the set has changed,   *)
(* and otherwise never, whatever the hash, the chunk and the order in      *)
(* which the ranks run; no exchange ends with a wrong account.             *)
AllIds(pass) == FlattenSeq([n \in 1 .. NumRanks |-> test.owned[pass][n - 1]])
Doubled(pass) == Len(AllIds(pass)) # Cardinality(ToSet(AllIds(pass)))

Truth == IF Doubled(1) \/ Doubled(2) THEN "duplicate"
         ELSE IF ToSet(AllIds(1)) # ToSet(AllIds(2)) THEN "changed"
         ELSE "preserved"

VerdictIsExact ==
    /\ \A r \in Ranks : reply[r] \in {"none", "memory", Truth}
    /\ Answered => \A r, s \in Ranks : reply[r] = reply[s]
=============================================================================
