--------------------------- MODULE PrefixReceiver ---------------------------
(***************************************************************************)
(* What a receiver, single or composite, promises the reconciler through   *)
(* CurrentPrefix() and LastError() (internal/prefix/types.go, health.go):  *)
(* a failure by itself takes no prefix away, giving a prefix up hides no   *)
(* failure, and a failure is forgotten only while a prefix is held or is   *)
(* being taken up, never because the receiver was asked to stop or start.  *)
(***************************************************************************)
CONSTANTS Prefixes, NoPrefix

VARIABLES
    held,     \* CurrentPrefix(), or NoPrefix
    failing   \* LastError() # nil

vars == <<held, failing>>

Init == held = NoPrefix /\ failing = FALSE

TakeUp(p) == held' = p /\ failing' \in {failing, FALSE}

Recover == held # NoPrefix /\ failing' = FALSE /\ UNCHANGED held

Fail == failing' = TRUE /\ UNCHANGED held

GiveUp == held' = NoPrefix /\ UNCHANGED failing

Next == (\E p \in Prefixes : TakeUp(p)) \/ Recover \/ Fail \/ GiveUp

Spec == Init /\ [][Next]_vars
=============================================================================
