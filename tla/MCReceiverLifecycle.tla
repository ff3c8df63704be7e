------------------------ MODULE MCReceiverLifecycle ------------------------
(* Small instances of ReceiverLifecycle: delegations on two interfaces, a  *)
(* shared advertisement receiver under two policies, composites on either  *)
(* interface, specs that cannot be built, and composites whose fallback     *)
(* cannot be.                                                              *)
EXTENDS ReceiverLifecycle

CONSTANTS eth0, eth1, any, strict, bad, n1, n2, n3

MCInterfaces == {eth0, eth1}
MCPolicies == {any, strict, bad}

PD(i) == [pd |-> i, ra |-> None, policy |-> any]
RA(i, p) == [pd |-> None, ra |-> i, policy |-> p]
Both(i, j, p) == [pd |-> i, ra |-> j, policy |-> p]

MCOffered == {PD(eth0), PD(eth1), RA(eth0, any), RA(eth0, strict),
              Both(eth0, eth0, any), Both(eth1, eth0, any), Both(eth0, eth1, bad),
              Both(eth0, Unnamed, any), RA(Unnamed, any),
              [pd |-> None, ra |-> None, policy |-> any]}
=============================================================================
