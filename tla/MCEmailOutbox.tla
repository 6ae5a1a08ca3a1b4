---------------------------- MODULE MCEmailOutbox ----------------------------
(* Small instances of EmailOutbox for TLC: the names of the model values.   *)
EXTENDS EmailOutbox

CONSTANTS d1, d2, w1, w2
=============================================================================
