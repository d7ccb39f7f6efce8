--------------------------- MODULE BoundedMigration ---------------------------
(***************************************************************************)
(* exchange_records_bounded: every rank hands each other rank the records  *)
(* routed to it.  An MPI count is an int, so a list longer than its limit  *)
(* travels in rounds.  The ranks agree on the counts (MPI_Alltoall) and    *)
(* then run their rounds without any further synchronization: in a round a *)
(* rank posts its receives, posts its sends and waits for both, and leaves *)
(* when no edge of its own has records left, while other pairs go on.  All *)
(* messages of a payload kind carry one tag, and exchanges follow each     *)
(* other, so that nothing but MPI's order of matching tells apart the      *)
(* rounds of a pair.                                                       *)
(*                                                                         *)
(* The stages before the rounds (topology, kind, routing layout, counts,   *)
(* storage, self copy, datatypes) are synchronized and without an effect   *)
(* between them: one stage here, as CollectiveStage shows.  A record is    *)
(* the exchange, the rank it comes from and its place in that rank's list. *)
(* MPI is external: messages of a pair are matched in the order they are   *)
(* sent with receives in the order they are posted; a send completes when  *)
(* it is matched, or earlier if MPI buffers it.                            *)
(*                                                                         *)
(* A definition marked "fault" is a plausible mistake in the definition    *)
(* that follows it; no action uses it.                                     *)
(***************************************************************************)
EXTENDS Integers, Sequences, FiniteSetsExt

CONSTANTS NumRanks,
          NumExchanges,   \* exchanges, one after the other
          Limit,          \* mpi_int_record_limit
          Loads           \* routings: [s -> [d -> records from s to d]]

World == 0 .. NumRanks - 1
Exchanges == 1 .. NumExchanges

ASSUME MigrationAssumption ==
    /\ NumRanks \in Nat \ {0}
    /\ NumExchanges \in Nat \ {0}
    /\ Limit \in Nat \ {0}
    /\ Loads \subseteq [World -> [World -> Nat]]

VARIABLES counts,    \* counts[e]: the routing of exchange e
          exchange,  \* exchange[r]: the exchange rank r is in
          place,     \* place[r]: where it is inside it
          bad,       \* bad[r]: it holds an exception of the preparation
          round,     \* round[r]: its round
          sent,      \* sent[s][d]: blocks sent and not yet matched
          posted,    \* posted[d][s]: receives posted and not yet matched
          received   \* received[r]: the buffer of rank r

rounds == <<counts, exchange, place, bad, round, sent, posted, received>>

Peers(r) == World \ {r}
Outgoing(r, d) == counts[exchange[r]][r][d]
Incoming(r, s) == counts[exchange[r]][s][r]

NoRecord == <<0, 0, 0>>

RoundsInit == /\ counts \in [Exchanges -> Loads]
              /\ exchange = [r \in World |-> 1]
              /\ place = [r \in World |-> "prepare"]
              /\ bad = [r \in World |-> FALSE]
              /\ round = [r \in World |-> 0]
              /\ sent = [s \in World |-> [d \in World |-> <<>>]]
              /\ posted = [d \in World |-> [s \in World |-> <<>>]]
              /\ received = [r \in World |-> <<>>]

-----------------------------------------------------------------------------
(* Rounds.                                                                 *)

RoundsDown(records) == records \div Limit                        \* fault
RoundsRequired(records) ==
    IF records = 0 THEN 0 ELSE (records - 1) \div Limit + 1

RoundBegin(k) == k * Limit

RoundCount(records, k) ==
    IF RoundBegin(k) >= records THEN 0
    ELSE Min({records - RoundBegin(k), Limit})

SendRounds(r) ==                                                 \* fault
    Max({0} \union {RoundsRequired(Outgoing(r, p)) : p \in Peers(r)})

LocalRounds(r) ==
    Max({0} \union {RoundsRequired(Outgoing(r, p)) : p \in Peers(r)}
            \union {RoundsRequired(Incoming(r, p)) : p \in Peers(r)})

(* The records a load routes to rank r from the sources below s, which is  *)
(* where the records of source s begin in the buffer of rank r.            *)
RecordsBelow(load, r, s) ==
    LET below[t \in 0 .. NumRanks] ==
            IF t = 0 THEN 0 ELSE below[t - 1] + load[t - 1][r]
    IN  below[s]

Offset(r, s) == RecordsBelow(counts[exchange[r]], r, s)
Total(r) == Offset(r, NumRanks)

Block(r, k, records) == [exchange |-> exchange[r],
                         begin |-> RoundBegin(k),
                         count |-> RoundCount(records, k)]

-----------------------------------------------------------------------------
(* The synchronized preparation.                                           *)
Prepare(r, ok) == /\ place[r] = "prepare"
                  /\ place' = [place EXCEPT ![r] = "vote"]
                  /\ bad' = [bad EXCEPT ![r] = ~ ok]
                  /\ UNCHANGED <<counts, exchange, round, sent, posted, received>>

AllEntered(r) == \A s \in World : \/ exchange[s] > exchange[r]
                                  \/ /\ exchange[s] = exchange[r]
                                     /\ place[s] # "prepare"

AnyBad(r) == \E s \in World : exchange[s] = exchange[r] /\ bad[s]

(* The receive storage, with the records the rank routed to itself.        *)
SelfCopied(r) ==
    [i \in 1 .. Total(r) |->
       IF i \in Offset(r, r) + 1 .. Offset(r, r) + Incoming(r, r)
         THEN <<exchange[r], r, i - Offset(r, r)>> ELSE NoRecord]

Admit(r) == /\ place[r] = "vote"
            /\ AllEntered(r)
            /\ ~ AnyBad(r)
            /\ received' = [received EXCEPT ![r] = SelfCopied(r)]
            /\ round' = [round EXCEPT ![r] = 0]
            /\ place' = [place EXCEPT ![r] =
                           IF LocalRounds(r) = 0 THEN "returned" ELSE "receive"]
            /\ UNCHANGED <<counts, exchange, bad, sent, posted>>

Reject(r) == /\ place[r] = "vote"
             /\ AllEntered(r)
             /\ AnyBad(r)
             /\ place' = [place EXCEPT ![r] = "threw"]
             /\ UNCHANGED <<counts, exchange, bad, round, sent, posted, received>>

-----------------------------------------------------------------------------
(* A round: every MPI_Irecv, every MPI_Isend, MPI_Waitall.                 *)
PostReceives(r) ==
    /\ place[r] = "receive"
    /\ posted' = [posted EXCEPT ![r] = [s \in World |->
                    IF s # r /\ RoundCount(Incoming(r, s), round[r]) > 0
                      THEN Append(posted[r][s],
                                  Block(r, round[r], Incoming(r, s)))
                      ELSE posted[r][s]]]
    /\ place' = [place EXCEPT ![r] = "send"]
    /\ UNCHANGED <<counts, exchange, bad, round, sent, received>>

PostSends(r) ==
    /\ place[r] = "send"
    /\ sent' = [sent EXCEPT ![r] = [d \in World |->
                  IF d # r /\ RoundCount(Outgoing(r, d), round[r]) > 0
                    THEN Append(sent[r][d],
                                Block(r, round[r], Outgoing(r, d)))
                    ELSE sent[r][d]]]
    /\ place' = [place EXCEPT ![r] = "wait"]
    /\ UNCHANGED <<counts, exchange, bad, round, posted, received>>

(* The oldest message from s to d fills the oldest receive d posted for s. *)
Match(s, d) ==
    /\ sent[s][d] # <<>>
    /\ posted[d][s] # <<>>
    /\ LET message == Head(sent[s][d])
           start == Offset(d, s) + Head(posted[d][s]).begin
       IN  received' = [received EXCEPT ![d] = [i \in DOMAIN received[d] |->
                          IF i \in start + 1 .. start + message.count
                            THEN <<message.exchange, s,
                                   message.begin + i - start>>
                            ELSE received[d][i]]]
    /\ sent' = [sent EXCEPT ![s][d] = Tail(@)]
    /\ posted' = [posted EXCEPT ![d][s] = Tail(@)]
    /\ UNCHANGED <<counts, exchange, place, bad, round>>

ReceivesDone(r) == \A s \in World : posted[r][s] = <<>>
SendsMatched(r) == \A d \in World : sent[r][d] = <<>>

EndRound(r) == /\ place[r] = "wait"
               /\ ReceivesDone(r)
               /\ round' = [round EXCEPT ![r] = @ + 1]
               /\ place' = [place EXCEPT ![r] =
                              IF round[r] + 1 = LocalRounds(r) THEN "returned"
                                                               ELSE "receive"]
               /\ UNCHANGED <<counts, exchange, bad, sent, posted, received>>

(* MPI_Waitall returns: sends matched, or the ones that are not, buffered. *)
WaitMatched(r) == SendsMatched(r) /\ EndRound(r)
WaitBuffered(r) == ~ SendsMatched(r) /\ EndRound(r)

(* The caller uses the records and comes back with the next routing.       *)
Again(r) == /\ place[r] = "returned"
            /\ exchange[r] < NumExchanges
            /\ exchange' = [exchange EXCEPT ![r] = @ + 1]
            /\ place' = [place EXCEPT ![r] = "prepare"]
            /\ UNCHANGED <<counts, bad, round, sent, posted, received>>

Through(r) == \/ place[r] = "threw"
              \/ place[r] = "returned" /\ exchange[r] = NumExchanges

AllFinished == (\A r \in World : Through(r)) /\ UNCHANGED rounds

RankStep(r) == \/ \E ok \in BOOLEAN : Prepare(r, ok)
               \/ Admit(r) \/ Reject(r)
               \/ PostReceives(r) \/ PostSends(r) \/ WaitMatched(r)
               \/ Again(r)

RoundsNext == \/ \E r \in World : RankStep(r) \/ WaitBuffered(r)
              \/ \E s, d \in World : Match(s, d)
              \/ AllFinished

RoundsSpec == RoundsInit /\ [][RoundsNext]_rounds

(* A rank that MPI does not hold back runs, and MPI makes progress on a    *)
(* matched pair.  It need not buffer a send.                               *)
FairRounds == /\ RoundsSpec
              /\ \A r \in World : WF_rounds(RankStep(r))
              /\ \A s, d \in World : WF_rounds(Match(s, d))

-----------------------------------------------------------------------------
(* With one tag and no synchronization between rounds, a message still     *)
(* always meets the receive that was posted for it: same exchange, same    *)
(* part of the list, same length.  A longer message would be truncated, a  *)
(* shorter one would leave a hole, one of another round would be misplaced.*)
MessagesMeetTheirReceives ==
    \A s, d \in World :
        (sent[s][d] # <<>> /\ posted[d][s] # <<>>) =>
            Head(sent[s][d]) = Head(posted[d][s])

(* A rank returns with every record routed to it, each once and at its     *)
(* place: by source rank, in the order of the source's list.               *)
Delivered(r) ==
    \A s \in World : \A i \in 1 .. Incoming(r, s) :
        received[r][Offset(r, s) + i] = <<exchange[r], s, i>>

ReturnsEveryRecord ==
    /\ MessagesMeetTheirReceives
    /\ \A r \in World : place[r] = "returned" =>
          Delivered(r) /\ Len(received[r]) = Total(r)

(* All ranks leave the exchanges, although none of them waits for the      *)
(* rounds of the others and MPI may buffer nothing.                        *)
EveryRankFinishes == <>(\A r \in World : Through(r))
=============================================================================
