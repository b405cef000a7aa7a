---------------------------- MODULE MCSpiBlocking ----------------------------
(* The blocking SPI driver with resets, for TLC.                           *)
EXTENDS SpiBlocking

ResetMode == {[max_len |-> 2, shifter |-> 0, manual |-> FALSE, resets |-> TRUE]}
=============================================================================
