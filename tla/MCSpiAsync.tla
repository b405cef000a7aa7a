----------------------------- MODULE MCSpiAsync -----------------------------
(* Transfers that the asynchronous SPI driver does not serve, for TLC:     *)
(* between slices of one length, longer than the FIFO.                     *)
EXTENDS SpiAsync

LongTransfers == {[max_len |-> 3, prompt |-> TRUE, equal |-> TRUE]}
=============================================================================
