------------------------- MODULE MCServerLifecycle -------------------------
(* Both modes, three interchangeable connections, two polls where the code *)
(* has 150 and one where it has five: enough for a wait to be cut short,   *)
(* to run out and to be overtaken at each poll.                            *)
EXTENDS ServerLifecycle, TLC

CONSTANTS r1, r2, r3
=============================================================================
