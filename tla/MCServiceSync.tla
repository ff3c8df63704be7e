---------------------------- MODULE MCServiceSync ----------------------------
(* One Service, the prefixes p and q, one host part h, one IPv4 address n  *)
(* and one hostname www.  The operator starts with both external-dns keys, *)
(* the default; a migration ends with a restart with the stable one alone. *)
EXTENDS ServiceSync

CONSTANTS p, q, h, n, www

Migration == <<Keys, {"stable"}>>
Both == <<Keys>>
=============================================================================
