---------------------------- MODULE MCAddresses ----------------------------
(* Instances of Addresses for TLC: two versions of an interface, an          *)
(* instance whose name D-Bus does not allow in a path, and one               *)
(* configuration for every kind of section and every way two may conflict.   *)
EXTENDS Addresses, TLC

X(version) == [name |-> <<"org", "x">>, version |-> version]
At(interface, instance) == [name     |-> interface.name,
                            version  |-> interface.version,
                            instance |-> instance]

Older == At(X("v1_0"), <<"i">>)
Newer == At(X("v1_1"), <<"i">>)
MCWanted == {Older, Newer, At(X("v1_0"), <<"a-b">>)}

\* A mapping to an interface without a version, the default address of Older,
\* and the address of an instance that another service manages.
Custom == [service   |-> [of |-> <<"org", "cfg">>, at |-> <<"s">>],
           path      |-> <<"p">>,
           interface |-> <<"org", "x">>]
OfOlder == Own(Older, <<"org", "x", "v1_0">>)
Managed == [OfOlder EXCEPT !.service = [of |-> <<"org", "m">>, at |-> <<"m">>]]
MCAnnounced == {Managed, Custom}

Configuration(default, compatible, sections) ==
  [isDefault |-> default, compatibility |-> compatible, sections |-> sections]
Section(title, d) == [title |-> title, dbus |-> d]

MCConfigurations == {
  Configuration(TRUE, <<>>, {}),
  Configuration(TRUE, X("v1_1") :> X("v1_0"), {}),
  Configuration(TRUE, X("v1_1") :> X("v0_9"), {}),
  Configuration(TRUE, X("v1_0") :> X(NoAddress), {}),
  Configuration(TRUE, <<>>, {Section(Older, Custom)}),
  Configuration(FALSE, <<>>, {Section(Older, Custom)}),
  Configuration(TRUE, <<>>, {Section(Bare(Older), Custom)}),
  Configuration(TRUE, <<>>, {Section(Newer, OfOlder)}),
  Configuration(TRUE, <<>>, {Section(Bare(Older), Custom),
                             Section(Newer, Custom)}),
  Configuration(TRUE, <<>>, {Section(Bare(Older), Custom),
                             Section(Older, Managed)})}

\* The threads that build proxies differ in their names only.
Symmetry == Permutations(Proxies)
=============================================================================
