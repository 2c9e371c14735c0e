--------------------------- MODULE MCCommandQueue ---------------------------
(* Values of the constants of CommandQueue for TLC. *)
EXTENDS CommandQueue

CONSTANTS main, cron, c1, c2, c3, c4

MCLane == {main, cron}
MCCommand == {c1, c2, c3, c4}

MCLimit == {0, 2}
MCMaxGeneration == 1

=============================================================================
