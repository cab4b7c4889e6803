------------------------ MODULE MCConcurrentService ------------------------
(* Small instances of ConcurrentService. *)
EXTENDS ConcurrentService, TLC

IdentityCallback == [i \in Id |-> i]

Symmetry == Permutations(Id) \cup Permutations(Worker)
=============================================================================
