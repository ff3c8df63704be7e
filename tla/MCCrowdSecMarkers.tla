-------------------------- MODULE MCCrowdSecMarkers --------------------------
EXTENDS CrowdSecMarkers, TLC
CONSTANTS a, b, p1, p2, p3, ula, q1

\* Two DynamicPrefixes with prefixes of their own, one of them outside global
\* unicast.
OwnPrefixes == a :> {p1, p2, p3, ula} @@ b :> {q1}
=============================================================================
