------------------------ MODULE MCCompositeReceiver ------------------------
(* Small instances of CompositeReceiver: two prefixes, channels of one and *)
(* two events, the code's own failure threshold.                           *)
EXTENDS CompositeReceiver
=============================================================================
