---------------------------- MODULE MCSctpReset ----------------------------
(* A DCEP message, and a message of two fragments.                           *)
EXTENDS SctpReset

MCMessages ==
    <<[stream |-> "s1", fragments |-> 1, dcep |-> TRUE],
      [stream |-> "s1", fragments |-> 2, dcep |-> FALSE]>>
=============================================================================
