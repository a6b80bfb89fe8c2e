-------------------------- MODULE MCDeadManSwitch --------------------------
(* Model values for DeadManSwitch: one owner; d1 has every recipient, any   *)
(* other switch only r1.                                                    *)
EXTENDS DeadManSwitch, TLC

CONSTANTS o1, d1, r1

MCOwnerOf      == [d \in Switches |-> o1]
MCRecipientsOf == [d \in Switches |-> IF d = d1 THEN Recipients ELSE {r1}]
=============================================================================
