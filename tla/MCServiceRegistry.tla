------------------------- MODULE MCServiceRegistry -------------------------
(* Instances of ServiceRegistry for TLC: a manager and an instance below   *)
(* it, as a CommonAPI manager stub exports them.                           *)
EXTENDS ServiceRegistry, TLC

CONSTANTS s1, s2, u1, u2, manager, instance, managerIface, iface, l1, l2, l3

MCPathOf == (managerIface :> manager) @@ (iface :> instance)
MCAbove == (manager :> {}) @@ (instance :> {manager})
MCManagerOf == (manager :> Root) @@ (instance :> manager)
MCServiceOf == [l \in Listeners |-> IF l = l3 THEN s2 ELSE s1]
MCObjectOf == [l \in Listeners |-> IF l = l3 THEN managerIface ELSE iface]

(* Owners are interchangeable, and so are two listeners of one interface.  *)
MCSymmetry == Permutations(Owners) \cup Permutations({l1, l2} \cap Listeners)
=============================================================================
