---------------------------- MODULE OutboxStatus ----------------------------
(***************************************************************************)
(* The rows of outbox_messages as a component sees them that only reads    *)
(* their status: no workers, attempts or leases.  A claim that ends, by    *)
(* whoever ends it, closes the row or opens it again; the sweep may do so  *)
(* for several rows at once.  Outbox implements this specification.        *)
(***************************************************************************)
CONSTANT Message

VARIABLE status

RowStatus == {"ABSENT", "PENDING", "PROCESSING", "SENT", "FAILED"}

RowMoves == {<<"ABSENT", "PENDING">>, <<"PENDING", "PROCESSING">>,
             <<"PROCESSING", "PENDING">>, <<"PROCESSING", "SENT">>,
             <<"PROCESSING", "FAILED">>}

RowInit == status = [m \in Message |-> "ABSENT"]

MoveRow(m, s) ==
  /\ <<status[m], s>> \in RowMoves
  /\ status' = [status EXCEPT ![m] = s]

RowNext ==
  /\ status' \in [Message -> RowStatus]
  /\ \A m \in Message : status'[m] # status[m] => <<status[m], status'[m]>> \in RowMoves

RowSpec == RowInit /\ [][RowNext]_status

=============================================================================
