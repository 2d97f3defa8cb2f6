---------------------------- MODULE MCFlowFilter ----------------------------
(* FlowFilter for TLC: two flows on two CPUs, and a map of one entry, so that *)
(* every insert of the second flow evicts or fails.  The constants are in the *)
(* cfg files.                                                                 *)
EXTENDS FlowFilter
=============================================================================
