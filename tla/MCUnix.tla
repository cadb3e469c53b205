------------------------------- MODULE MCUnix -------------------------------
(* Model checking of Unix: two instances, which may change names.          *)
EXTENDS Unix

Perms == Permutations(Procs)
=============================================================================
