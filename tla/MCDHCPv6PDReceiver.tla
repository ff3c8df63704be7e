------------------------- MODULE MCDHCPv6PDReceiver -------------------------
(* Small instances of DHCPv6PDReceiver: a server that leaves T1 and T2 to  *)
(* the client, one that sets them, one that sets T1 past T2, and one whose *)
(* delegation the policy refuses.                                          *)
EXTENDS DHCPv6PDReceiver

CONSTANTS p1, p2, bogon

MCPrefixes == {p1, p2, bogon}
MCAcceptable == {p1, p2}
MCReplies == {[net |-> p1, t1 |-> 0, t2 |-> 0, valid |-> 5],
              [net |-> p2, t1 |-> 2, t2 |-> 3, valid |-> 4],
              [net |-> p1, t1 |-> 3, t2 |-> 1, valid |-> 4],
              [net |-> p2, t1 |-> 0, t2 |-> 0, valid |-> 0],
              [net |-> bogon, t1 |-> 1, t2 |-> 2, valid |-> 3]}
=============================================================================
