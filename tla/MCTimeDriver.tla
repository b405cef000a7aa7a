---------------------------- MODULE MCTimeDriver ----------------------------
(* A reader of the counter that meets a wrap of its lower half, for TLC.   *)
EXTENDS TimeDriver

Wrapping == {[lucky |-> FALSE, early |-> FALSE, rearms |-> TRUE]}
=============================================================================
