------------------------ MODULE MCSignalSubscriptions ------------------------
(* Instances of SignalSubscriptions for TLC: two signals that differ only   *)
(* in their signature, a third that is subscribed selectively, one observed *)
(* bus name or two.                                                         *)
EXTENDS SignalSubscriptions, TLC

CONSTANTS s1, s2, s3, r1, r2, n1, n2, e1, e2, e3, h1, h2

SignalRules == (s1 :> r1) @@ (s2 :> r1) @@ (s3 :> r2)
EntryNames == (e1 :> n1) @@ (e2 :> n1) @@ (e3 :> n2)

OneRule == (s1 :> r1) @@ (s2 :> r1)
OneName == (e1 :> n1) @@ (e2 :> n1)

NoOverlap == {}
TablesOverlap == {{"member", "om"}}
MemberDisconnectOverlap == {{"member", "disconnect"}}
OMDisconnectOverlap == {{"om", "disconnect"}}
AllOverlap ==
  {{"member", "om"}} \cup
  {{x, y} : x \in {"member", "om"}, y \in {"connect", "disconnect"}}

=============================================================================
