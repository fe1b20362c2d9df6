-------------------------------- MODULE Mutex --------------------------------
(* What a lock promises: whoever enters finds nobody inside.                *)
CONSTANT Contexts
VARIABLE holders

Init == holders = {}

Acquire(x) == holders = {} /\ holders' = {x}
Release(x) == holders = {x} /\ holders' = {}

Next == \E x \in Contexts : Acquire(x) \/ Release(x)

Spec == Init /\ [][Next]_holders
=============================================================================
