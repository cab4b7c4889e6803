------------------------ MODULE MCSubscriberService ------------------------
(* Small instances of SubscriberService. *)
EXTENDS SubscriberService, TLC

IdentityCallback == [i \in Id |-> i]

IdSymmetry == Permutations(Id)
=============================================================================
