------------------------------- MODULE MCHub -------------------------------
(* TLC instances of Hub.                                                   *)
EXTENDS Hub, TLC

Symmetry == Permutations(Actors) \cup Permutations(Names)

=============================================================================
