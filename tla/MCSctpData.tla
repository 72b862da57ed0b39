---------------------------- MODULE MCSctpData ----------------------------
(* Message 1 is the DCEP message, message 2 has two fragments.              *)
EXTENDS SctpData
MCMsg3 == <<1, 2, 2>>
MCMsg4 == <<1, 2, 2, 3>>

(* A bound of the run with four chunks: the association with a peer that     *)
(* refuses FORWARD-TSN is followed until the fourth chunk is written.  Then  *)
(* a DCEP message and a message of two fragments have been sent, abandoned   *)
(* and refused in every order.                                               *)
RefusingPeerBound == peer_use_forward_tsn \/ written < 4
===========================================================================
