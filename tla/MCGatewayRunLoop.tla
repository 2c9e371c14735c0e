-------------------------- MODULE MCGatewayRunLoop --------------------------
(* Values of the constants of GatewayRunLoop for TLC. *)
EXTENDS GatewayRunLoop, TLC

CONSTANTS main, c1, c2

MCLane == {main}
MCCommand == {c1, c2}
MCLimit == {1, 2}
MCSerial == {1}
MCOne == 1
MCTwo == 2

=============================================================================
