----------------------------- MODULE MCMailbox -----------------------------
(* Model values for Mailbox: which envelope is a DM, a sealed message or a   *)
(* group message, and who gets it.  A run picks the envelopes and the users. *)
EXTENDS Mailbox, TLC

CONSTANTS d1, d2, g0, g1, u1, u2

(* d1 is a DM, d2 a sealed message; g1 goes to the group members u1 and u2   *)
(* (those of them the run has), g0 to a group whose other members all live   *)
(* on other relays.                                                          *)
MCKind == [e \in Envelopes |-> CASE e \in {g0, g1} -> "group"
                                  [] e = d2        -> "sealed"
                                  [] OTHER         -> "dm"]
MCTo   == [e \in Envelopes |-> CASE e = g0 -> {}
                                  [] e = g1 -> {u1, u2} \cap Users
                                  [] OTHER  -> {u1}]
MCTs   == [e \in Envelopes |-> 0]

TaskSymmetry == Permutations(Tasks)
=============================================================================
