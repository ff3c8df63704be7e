------------------------------ MODULE MCPoolSync ------------------------------
(* Small instances of PoolSync: prefixes p, q and r, an entry the user     *)
(* keeps outside every prefix and one inside p.                            *)
EXTENDS PoolSync

CONSTANTS o1, o2, p, q, r, outer, inner, a, subnets

MCPrefixes == {p, q, r}
MCStatics == {outer, inner}
MCInside == [e \in MCStatics |-> IF e = inner THEN p ELSE None]
Distinct == [o \in Objects |-> o]
Same == [o \in Objects |-> o1]

\* Pools bound to a: to its raw prefix, and to a subnet that only q can hold.
Raw == [dp |-> a, list |-> None, fits |-> MCPrefixes]
OnlyQ == [dp |-> a, list |-> subnets, fits |-> {q}]
MCBindings == {Raw, OnlyQ}
=============================================================================
