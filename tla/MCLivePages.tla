------------------------------ MODULE MCLivePages ------------------------------
(* The pages that redirect or poll, two requests at a time. *)
EXTENDS LivePages
=============================================================================
