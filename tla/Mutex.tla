------------------------------- MODULE Mutex -------------------------------
(***************************************************************************)
(* What a long-term lock promises: one owner at a time, and only the owner *)
(* gives it up.                                                            *)
(***************************************************************************)
CONSTANTS Proc, Nobody

VARIABLE owner

Init == owner = Nobody

Acquire(p) == owner = Nobody /\ owner' = p

Release(p) == owner = p /\ owner' = Nobody

Next == \E p \in Proc : Acquire(p) \/ Release(p)

Spec == Init /\ [][Next]_owner
=============================================================================
