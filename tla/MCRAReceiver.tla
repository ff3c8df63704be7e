---------------------------- MODULE MCRAReceiver ----------------------------
(* Small instances of RAReceiver.  The link carries a router that offers   *)
(* global and unique-local prefixes in both orders, one that retires a     *)
(* prefix, and messages that must be refused.                              *)
EXTENDS RAReceiver

CONSTANTS g1, g2, ula, wide, long

MCPrefixes == {g1, g2, ula, wide, long}
MCClass == [p \in MCPrefixes |-> IF p = ula THEN "ula" ELSE "gua"]
MCInBounds == MCPrefixes \ {wide}
MCOverlong == {long}

Opt(p, v) == [net |-> p, onLink |-> TRUE, valid |-> v]
RA(options) == [linkLocal |-> TRUE, trusted |-> TRUE, hop |-> "255", options |-> options]

Good == {RA(<<Opt(ula, 1), Opt(g1, 2)>>),
         RA(<<Opt(g2, 1), Opt(ula, 2)>>),
         RA(<<Opt(g1, 0), Opt(ula, 1)>>)}

Odd == {RA(<<Opt(wide, 1), Opt(g1, 2)>>),
        RA(<<Opt(long, 1), Opt(g1, 2)>>),
        RA(<<[Opt(g1, 2) EXCEPT !.onLink = FALSE]>>),
        [RA(<<Opt(g2, 1)>>) EXCEPT !.linkLocal = FALSE],
        [RA(<<Opt(g2, 1)>>) EXCEPT !.trusted = FALSE],
        [RA(<<Opt(g2, 1)>>) EXCEPT !.hop = "forwarded"],
        [RA(<<Opt(g2, 1)>>) EXCEPT !.hop = "unreported"]}

Every == Good \cup Odd
=============================================================================
