---------------------------- MODULE MCAsyncCalls ----------------------------
(* Instances of AsyncCalls for TLC: which addresses the allocator may give *)
(* to the pending call of each call.                                       *)
EXTENDS AsyncCalls, TLC

(* Every pending call may get any free address.                            *)
AnyAddress == [c \in Calls |-> Pendings]

CONSTANTS c1, c2, c3, p1, p2, p3, t1, t2

(* No address is given to two calls.                                       *)
OwnAddress2 == (c1 :> {p1}) @@ (c2 :> {p2})

=============================================================================
