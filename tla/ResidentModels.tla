-------------------------- MODULE ResidentModels --------------------------
(***************************************************************************)
(* What the swap registry promises its callers (the doc comments of        *)
(* ModelHandle and SwapRegistry::evict, src/src/lib.rs): each path is      *)
(* mapped at most once, everybody who loads it shares that mapping, and it *)
(* is unmapped only when nobody uses it.                                   *)
(***************************************************************************)
EXTENDS Integers, Functions

CONSTANT Path

VARIABLE users    \* the mapped paths, each with its number of live handles

Init == users = [p \in {} |-> 0]

Map(p) ==
    /\ p \notin DOMAIN users
    /\ users' = [q \in DOMAIN users \cup {p} |-> IF q = p THEN 1 ELSE users[q]]

Share(p) ==
    /\ p \in DOMAIN users
    /\ users' = [users EXCEPT ![p] = @ + 1]

Release(p) ==
    /\ p \in DOMAIN users
    /\ users[p] > 0
    /\ users' = [users EXCEPT ![p] = @ - 1]

Unmap(p) ==
    /\ p \in DOMAIN users
    /\ users[p] = 0
    /\ users' = Restrict(users, DOMAIN users \ {p})

Next == \E p \in Path : Map(p) \/ Share(p) \/ Release(p) \/ Unmap(p)

Spec == Init /\ [][Next]_users

===========================================================================
