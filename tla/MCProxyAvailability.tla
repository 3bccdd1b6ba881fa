------------------------ MODULE MCProxyAvailability ------------------------
(* Instances of ProxyAvailability for TLC.                                 *)
EXTENDS ProxyAvailability

CONSTANTS r1, r2, r3, a1, b1, b2

=============================================================================
