--------------------------- MODULE OutboxPromise ---------------------------
(***************************************************************************)
(* What the federation outbox promises to the code that puts a row in it:   *)
(* the row is owed to the peer until the peer has begun on it or it has     *)
(* been tried often enough, one of the two outcomes is recorded, the record *)
(* does not change until it is forgotten, and a settled row is not offered  *)
(* again.  That the peer finishes what it has begun is not promised: see    *)
(* OutcomeIsEarned in FederationOutbox.  Workers, batches, the wire and the *)
(* clock do not appear.                                                     *)
(***************************************************************************)
EXTENDS Integers

CONSTANTS Rows, Enough      \* the rows; attempts after which one is given up

VARIABLES
    fate,       \* fate[r]: what has become of the row
    tried,      \* tried[r]: how often it was offered to the peer
    taken       \* rows whose content the peer has begun to store or execute
promise == <<fate, tried, taken>>

Unborn  == "unborn"
Settled == {"delivered", "given_up", "forgotten"}

Init == /\ fate = [r \in Rows |-> Unborn] /\ tried = [r \in Rows |-> 0]
        /\ taken = {}

Becomes(r, f) == fate' = [fate EXCEPT ![r] = f]

(* The peer may know the content from an earlier row that was forgotten.    *)
Accept(r) == /\ fate[r] = Unborn /\ Becomes(r, "owed")
             /\ taken' \in {taken, taken \cup {r}} /\ UNCHANGED tried
Offer(r)  == /\ fate[r] = "owed" /\ tried' = [tried EXCEPT ![r] = @ + 1]
             /\ UNCHANGED <<fate, taken>>

(* An offer may be taken long after the sender has given up the row, and    *)
(* rows with the same content are taken together.                           *)
Take(R)   == /\ \A r \in R : fate[r] # Unborn
             /\ \E r \in R : tried[r] > 0
             /\ taken' = taken \cup R
             /\ UNCHANGED <<fate, tried>>

Deliver(r) == /\ fate[r] = "owed" /\ r \in taken /\ Becomes(r, "delivered")
              /\ UNCHANGED <<tried, taken>>
GiveUp(r)  == /\ fate[r] = "owed" /\ tried[r] >= Enough /\ Becomes(r, "given_up")
              /\ UNCHANGED <<tried, taken>>
Forget(R)  == /\ \A r \in R : fate[r] \in Settled
              /\ fate' = [r \in Rows |-> IF r \in R THEN "forgotten" ELSE fate[r]]
              /\ UNCHANGED <<tried, taken>>

Next == \/ \E r \in Rows : \/ Accept(r) \/ Offer(r) \/ Deliver(r) \/ GiveUp(r)
        \/ \E R \in SUBSET Rows : Take(R) \/ Forget(R)

Spec == Init /\ [][Next]_promise
=============================================================================
