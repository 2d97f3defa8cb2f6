---------------------------- MODULE MCFrameCheck ----------------------------
(* FrameCheck for TLC, with the real sizes of the headers.  Every length is    *)
(* taken right at, below and above the limits the parsers compare it with.     *)
EXTENDS FrameCheck

\* No options, one option word, the most there can be; and shorter than allowed.
MCHeaderLens == {0, 16, 20, 24, 60}

\* Around an empty packet, each header, one byte of payload, and the MTU.
MCTotals == {0, 19, 20, 33, 39, 40, 41, 45, 64, 65, 1500, 1501}

\* SYN with URG, ECE and CWR; FIN with PSH and ACK; RST.
MCFlags == {{1, 5, 6, 7}, {0, 3, 4}, {2}}
=============================================================================
