-------------------------------- MODULE Lease --------------------------------
(***************************************************************************)
(* What service.rs and renew_subscriptions.rs promise of the leases,       *)
(* whatever the ids of their rows, the requests under way and the renewal  *)
(* task.                                                                   *)
(*                                                                         *)
(* A user has a key or has not, and a key has a lease or has none.  The    *)
(* user alone ends a key.  A lease is granted to one key at a time, in the *)
(* place of the one there was; all that are due are given up together, and *)
(* no lease is given up earlier.                                           *)
(***************************************************************************)
EXTENDS Integers

CONSTANTS
    Keys,
    Expiries,  \* when a lease may end
    Margin     \* how much earlier it is due

VARIABLES
    now,
    wanted,  \* the keys that the user has subscribed to
    lease    \* the end of the lease of each key: a set of at most one time

lease_vars == <<now, wanted, lease>>

Due(e) == e <= now + Margin + 1

LeaseInit ==
    /\ now \in Nat
    /\ wanted = {}
    /\ lease = [k \in Keys |-> {}]

Want(k) == wanted' = wanted \cup {k} /\ UNCHANGED <<now, lease>>

Cancel(k) ==
    /\ wanted' = wanted \ {k}
    /\ lease' = [lease EXCEPT ![k] = {}]
    /\ UNCHANGED now

Grant(k, e) ==
    /\ k \in wanted
    /\ lease' = [lease EXCEPT ![k] = {e}]
    /\ UNCHANGED <<now, wanted>>

GiveUpDue ==
    /\ lease' = [k \in Keys |-> {e \in lease[k] : ~Due(e)}]
    /\ UNCHANGED <<now, wanted>>

Pass == now' = now + 1 /\ UNCHANGED <<wanted, lease>>

LeaseNext ==
    \/ \E k \in Keys : Want(k) \/ Cancel(k) \/ \E e \in Expiries : Grant(k, e)
    \/ GiveUpDue
    \/ Pass

LeaseSpec == LeaseInit /\ [][LeaseNext]_lease_vars

=============================================================================
