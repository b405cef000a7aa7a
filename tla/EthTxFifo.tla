----------------------------- MODULE EthTxFifo -----------------------------
(***************************************************************************)
(* What the transmit side of the Ethernet driver promises the network      *)
(* stack: a FIFO of bounded capacity.  The n-th frame accepted is the n-th *)
(* frame on the wire; nothing is lost, duplicated or reordered, and at     *)
(* most Capacity accepted frames wait at any time.                         *)
(***************************************************************************)
EXTENDS Naturals, Sequences

CONSTANT Capacity    \* frames that may wait for transmission

VARIABLES accepted,  \* number of frames accepted so far
          wire       \* the frames sent, each named by its order of acceptance

fifoVars == <<accepted, wire>>

Init == accepted = 0 /\ wire = <<>>

Accept ==
  /\ accepted - Len(wire) < Capacity
  /\ accepted' = accepted + 1
  /\ UNCHANGED wire

Transmit ==
  /\ Len(wire) < accepted
  /\ wire' = Append(wire, Len(wire) + 1)
  /\ UNCHANGED accepted

Next == Accept \/ Transmit

Spec == Init /\ [][Next]_fifoVars
=============================================================================
