--------------------------- MODULE MCPoolBackends ---------------------------
(***************************************************************************)
(* The pool controller in a cluster whose load balancer is Calico or       *)
(* kube-vip: the two backends beside the shared lists, over the same       *)
(* DynamicPrefix and the same arithmetic.                                  *)
(***************************************************************************)
EXTENDS MCCalicoPool, KubevipConfigMap

VARIABLE backend   \* the load balancer of the cluster

MCUserEntries == {MCUserCIDR, P(36, 6)}
MCKubevipLayouts == {R(4, 15), S(6, 1)}

calicoOnly == <<pool, siblings, pass, stray>>
kubevipOnly == <<cm, pins, write>>

\* The object of the other load balancer is not there, or not bound.
BackendsInit ==
    \/ /\ backend = "calico"
       /\ Init /\ layout \in MCLayouts
       /\ cm = [bound |-> FALSE, key |-> BadKey, data |-> [k \in Keys |-> {}], record |-> None]
       /\ pins = [k \in Keys |-> {}] /\ write = None
    \/ /\ backend = "kubevip"
       /\ KubevipInit /\ layout \in MCKubevipLayouts
       /\ pool = None /\ siblings = {} /\ pass = None /\ stray = FALSE
CalicoNext == backend = "calico" /\ Next /\ UNCHANGED <<kubevipOnly, backend>>
KubevipOnlyNext == backend = "kubevip" /\ KubevipNext /\ UNCHANGED <<calicoOnly, backend>>
BackendsReconcile ==
    \/ backend = "calico" /\ Reconcile /\ UNCHANGED <<kubevipOnly, backend>>
    \/ backend = "kubevip" /\ KubevipReconcile /\ UNCHANGED <<calicoOnly, backend>>
backendsVars == <<vars, kubevipOnly, backend>>
BackendsSpec ==
    /\ BackendsInit /\ [][CalicoNext \/ KubevipOnlyNext]_backendsVars
    /\ WF_backendsVars(BackendsReconcile)
=============================================================================
