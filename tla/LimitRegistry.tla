---------------------------- MODULE LimitRegistry ----------------------------
(***************************************************************************)
(* What the memory limit calls promise together (documentation, project 3):*)
(* a set of limits with at most one per pid.  add fails for a pid that has *)
(* one, update and remove change or drop the one a pid has, and nothing    *)
(* else happens to the set.                                                *)
(***************************************************************************)
CONSTANTS Pid, Limit

VARIABLE limits

Has(p) == \E e \in limits : e.pid = p

Add(p, l) == /\ ~ Has(p)
             /\ limits' = limits \cup {[pid |-> p, limit |-> l]}

Without(p) == {e \in limits : e.pid # p}

Update(p, l) == /\ Has(p)
                /\ limits' = Without(p) \cup {[pid |-> p, limit |-> l]}

Remove(p) == Has(p) /\ limits' = Without(p)

Init == limits = {}

Next == \E p \in Pid : \/ \E l \in Limit : Add(p, l) \/ Update(p, l)
                       \/ Remove(p)

Spec == Init /\ [][Next]_limits

==============================================================================
