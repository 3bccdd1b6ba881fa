----------------------------- MODULE MCServices -----------------------------
(* Instances of Services for TLC: a managing service that is registered     *)
(* twice and a service it manages, two interfaces of one object and name.  *)
EXTENDS Services, TLC

CONSTANTS stubA, stubB, stubC, addressA, addressB, pathA, nameA, worker, dispatchA, dispatchB

MCAddressOf == (stubA :> addressA) @@ (stubB :> addressA) @@ (stubC :> addressB)
MCPathOf == [a \in Addresses |-> pathA]
MCNameOf == [a \in Addresses |-> nameA]
MCDispatcherOf == [g \in Connections |-> IF g = 1 THEN dispatchA ELSE dispatchB]
=============================================================================
