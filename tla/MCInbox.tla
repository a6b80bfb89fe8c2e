------------------------------ MODULE MCInbox ------------------------------
(* Instances of Inbox.                                                      *)
EXTENDS Inbox, TLC
=============================================================================
