---------------------------- MODULE MCCalicoPool ----------------------------
(***************************************************************************)
(* The Calico backend over addresses of four two-bit bytes, with prefixes  *)
(* of two lengths that end inside a byte, and ranges and subnets that do   *)
(* and do not fit, and that are and are not CIDRs.                         *)
(***************************************************************************)
EXTENDS CalicoPool

P(a, n) == [addr |-> a, bits |-> n]
MCDelegated == {P(32, 3), P(96, 3), P(144, 5)}
MCTwoPrefixes == {P(32, 3), P(96, 3)}
MCUserCIDR == P(200, 6)
R(f, l) == [first |-> f, last |-> l]
S(n, k) == [length |-> n, offset |-> k]
MCLayouts == {R(4, 7), R(5, 31), R(3, 10), R(0, 15),
              S(6, 1), S(6, 8), S(5, 1), S(8, 7)}
MCAllLayouts == MCLayouts \cup {R(4, 15)}
MCOneLayout == {R(4, 7)}
=============================================================================
