-------------------------- MODULE MembershipTable ---------------------------
(***************************************************************************)
(* One table of the halo membership catalogue (class MembershipTable of    *)
(* halo_membership_catalog.cpp): a row for every membership and one long   *)
(* list of member identities, in which a row owns the slice that begins at *)
(* its offset.  Rows and members wait in buffers of fixed room and are     *)
(* appended to the datasets in batches; a membership as large as the       *)
(* buffer goes to the datasets directly.                                   *)
(*                                                                         *)
(* A definition marked "fault" is a plausible mistake in the definition    *)
(* that follows it; nothing uses it.                                       *)
(***************************************************************************)
EXTENDS Naturals, Sequences

CONSTANTS RowRoom,     \* metadata_batch_items
          MemberRoom   \* member_batch_capacity

MembershipTableAssumption == RowRoom \in Nat \ {0} /\ MemberRoom \in Nat \ {0}

(* rows and members: the datasets; rowBuffer and memberBuffer: what waits; *)
(* records and total: what was appended so far; basins: a table without    *)
(* availability, whose memberships are always there.                       *)
NewTable(basins) ==
    [rows |-> <<>>, members |-> <<>>, rowBuffer |-> <<>>, memberBuffer |-> <<>>,
     records |-> 0, total |-> 0, basins |-> basins, closed |-> FALSE]

Increasing(s) == \A i \in 1 .. Len(s) - 1 : s[i] < s[i + 1]

(* What append refuses.                                                    *)
Appendable(t, available, members) ==
    /\ ~ t.closed
    /\ t.basins => available
    /\ available = (members # <<>>)
    /\ Increasing(members)

Flush(t) == [t EXCEPT !.rows = @ \o t.rowBuffer, !.rowBuffer = <<>>,
                      !.members = @ \o t.memberBuffer, !.memberBuffer = <<>>]

Counted(t, members) == [t EXCEPT !.records = @ + 1, !.total = @ + Len(members)]

Buffered(t, row, members) ==
    LET held == Counted([t EXCEPT !.rowBuffer = Append(@, row),
                                  !.memberBuffer = @ \o members], members)
    IN  IF \/ Len(held.rowBuffer) >= RowRoom
           \/ Len(held.memberBuffer) >= MemberRoom
          THEN Flush(held)
          ELSE held

OverTheBuffer(t, row, members) ==                                \* fault
    Counted([t EXCEPT !.rows = Append(@, row), !.members = @ \o members],
            members)

Direct(t, row, members) ==
    LET empty == Flush(t)
    IN  Counted([empty EXCEPT !.rows = Append(@, row),
                              !.members = @ \o members], members)

(* A row: whose membership it is, where it begins and how long it is.      *)
AppendTo(t, seed, available, members) ==
    LET row == [seed |-> seed, offset |-> t.total, size |-> Len(members),
                available |-> available]
    IN  IF Len(members) >= MemberRoom THEN Direct(t, row, members)
                                      ELSE Buffered(t, row, members)

(* finalize: the buffers are emptied and the counts compared.              *)
Consistent(t) == /\ Len(t.rows) = t.records
                 /\ Len(t.members) = t.total

Close(t) == [Flush(t) EXCEPT !.closed = TRUE]

(* What a reader of the file finds: for every row the seed, whether there  *)
(* is a membership, and the slice the row owns.                            *)
Read(t) == [i \in DOMAIN t.rows |->
               LET row == t.rows[i]
               IN  [seed |-> row.seed, available |-> row.available,
                    members |-> SubSeq(t.members, row.offset + 1,
                                       row.offset + row.size)]]
=============================================================================
