------------------------------ MODULE MCWorkPages ------------------------------
(* The dates sales are tried on: the ends of months, of a leap February and *)
(* of a year.                                                               *)
EXTENDS WorkPages

MCSoldOn == {[y |-> 2024, m |-> 0, d |-> 31], [y |-> 2023, m |-> 0, d |-> 30],
             [y |-> 2024, m |-> 1, d |-> 29], [y |-> 2024, m |-> 11, d |-> 31],
             [y |-> 2024, m |-> 10, d |-> 15]}
=============================================================================
