------------------------------ MODULE MCShowMe ------------------------------
(* Model checking of ShowMe; the .cfg files give the sizes. *)
EXTENDS ShowMe
=============================================================================
