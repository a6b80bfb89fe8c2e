-------------------------- MODULE OutboxRefinement --------------------------
(***************************************************************************)
(* The federation queue, its worker and its clean-up keep the promise of    *)
(* OutboxPromise, if one worker runs at a time, as the systemd timer has it.*)
(***************************************************************************)
EXTENDS FederationOutbox

(* The status column, as its readers understand it: a row in flight is as   *)
(* much owed as a pending one.                                              *)
Fate(row) == CASE row.status = "free"        -> "unborn"
               [] row.status = "succeeded"   -> "delivered"
               [] row.status = "dead_letter" -> "given_up"
               [] row.status = "deleted"     -> "forgotten"
               [] OTHER                      -> "owed"

Promise == INSTANCE OutboxPromise WITH
    Rows   <- RowIds,
    Enough <- MaxAttempts,
    fate   <- [r \in RowIds |-> Fate(rows[r])],
    tried  <- tries,
    taken  <- {r \in RowIds : rows[r].status # "free" /\ Taken(rows[r])}

(* With one worker every step of the queue is a step of the promise or      *)
(* changes nothing in it, whatever fails or comes late: no row is settled   *)
(* without cause, settled twice or reopened, and none is offered again      *)
(* after it is settled (run_once, process_row, recover_stuck_in_flight,     *)
(* reap_federation_queue).                                                  *)
KeepsPromise == Promise!Spec
=============================================================================
