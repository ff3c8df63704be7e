-------------------- MODULE MCDynamicPrefixController --------------------
(* Small instances of DynamicPrefixController for TLC.                    *)
EXTENDS DynamicPrefixController, TLC

CONSTANTS p1, p2, p3, p4, a1, a2, plain, cut

FourPrefixes == {p1, p2, p3, p4}
TwoPrefixes == {p1, p2}

\* a2 asks for a filter that none of the prefixes passes.
FilterOfA2 == [a \in {a1, a2} |-> IF a = a1 THEN FourPrefixes ELSE {}]

\* "plain" asks for no subnets and no ranges and always fits; the subnets of
\* "cut" do not fit p2 and its ranges do not fit p3.
FitSubnets == {plain, cut} \X {p1, p2, p3, p4} \ {<<cut, p2>>}
FitRanges == {plain, cut} \X {p1, p2, p3, p4} \ {<<cut, p3>>}

DrainingPrefixes == Permutations({p1, p2, p3, p4})
===========================================================================
