------------------------ MODULE MCGroupReplication ------------------------
(* Instances of GroupReplication: the creator c and d are users of the      *)
(* host, b of the peer.                                                     *)
EXTENDS GroupReplication, TLC

CONSTANTS c, b, d
=============================================================================
