-------------------------- MODULE MCDeliveryQueue --------------------------
(* Values of the constants of DeliveryQueue for TLC: message 1 was left in the *)
(* queue by an earlier process, with two payloads; message 2 is sent live.     *)
EXTENDS DeliveryQueue

MCMessage == {1, 2}
MCPayloads == [m \in Message |-> 3 - m]
=============================================================================
