----------------------------- MODULE CalicoPool -----------------------------
(***************************************************************************)
(* The Calico backend of the pool controller: one IPPool that follows a    *)
(* range or subnet of a DynamicPrefix.  spec.cidr holds one CIDR, so the   *)
(* pool gets that of the current prefix, and every draining prefix has a   *)
(* sibling IPPool of the operator's own.  A pass reads the pool and the    *)
(* DynamicPrefix, then makes one API call at a time: siblings first, the   *)
(* pool last.  A sibling is named after its CIDR, so siblings are a set of *)
(* CIDRs.  What a prefix's range or subnet is, and whether it is a CIDR,   *)
(* is computed by AddressMath.                                             *)
(***************************************************************************)
EXTENDS BoundPool

CONSTANTS
    UserCIDR,        \* what a user may write into spec.cidr
    RejectsOverlap   \* Calico refuses pools whose CIDRs overlap

ASSUME CalicoConstants == UserCIDR \in Prefixes /\ RejectsOverlap \in BOOLEAN

VARIABLES
    pool,       \* the annotated IPPool, or None
    siblings,   \* CIDRs of the draining IPPools labelled with the pool's name
    pass,
    stray       \* some sibling was made while no record was on the pool
vars == <<layout, status, pool, siblings, woken, pass, stray, bounds>>

Pools == [bound : BOOLEAN, cidr : Prefixes, record : Prefixes \cup {None}]
\* A pass: the pool it read and its resourceVersion (only users write the pool
\* behind a pass's back, so the number of their edits), the CIDR it is to hold
\* (None to release it), the siblings to create, those to delete once they are
\* listed, and what is kept.
Passes == [seen : Pools, version : Nat, cidr : Prefixes \cup {None}, keep : SUBSET Prefixes,
           create : SUBSET Prefixes, listed : BOOLEAN, delete : SUBSET Prefixes]

TypeOK ==
    /\ layout \in Layouts
    /\ status \in Statuses \cup {None}
    /\ pool \in Pools \cup {None}
    /\ siblings \subseteq Prefixes
    /\ woken \in BOOLEAN /\ stray \in BOOLEAN
    /\ pass \in Passes \cup {None}
    /\ rotations \in 0..MaxRotations /\ edits \in 0..MaxEdits /\ faults \in 0..MaxFaults

\* The CIDRs of the draining prefixes: one that has none is passed over.
draining(s) == {configCIDR[layout][p] : p \in elements(s.history)} \ {None}

Overlap(c, d) == Contains(c, d.addr) \/ Contains(d, c.addr)

Init ==
    /\ layout \in Layouts
    /\ status = NoPrefixYet
    /\ pool = [bound |-> TRUE, cidr |-> UserCIDR, record |-> None]
    /\ siblings = {}
    /\ woken = TRUE /\ pass = None /\ stray = FALSE
    /\ rotations = 0 /\ edits = 0 /\ faults = 0
-----------------------------------------------------------------------------
(* Users and the DynamicPrefix. *)

UserWrites(p, loses) ==
    /\ edits < MaxEdits /\ edits' = edits + 1
    /\ pool' = p /\ p # pool
    /\ woken' = (woken \/ Wakes(p) \/ (p = None /\ Wakes(pool)))
    /\ stray' = (stray \/ loses)
    /\ UNCHANGED <<layout, status, siblings, pass, rotations, faults>>

\* A user annotates the pool, takes the annotation away, sets the CIDR, or
\* deletes or creates the pool.  Nobody is left to delete the siblings of a
\* pool that is gone.
UserEdits ==
    \/ /\ pool # None
       /\ UserWrites([pool EXCEPT !.bound = ~@], FALSE)
    \/ /\ pool # None
       /\ UserWrites([pool EXCEPT !.cidr = UserCIDR], FALSE)
    \/ UserWrites(None, siblings # {})
    \/ /\ pool = None
       /\ UserWrites([bound |-> TRUE, cidr |-> UserCIDR, record |-> None], FALSE)

FollowsPrefix ==
    /\ LET bound == pool # None /\ pool.bound
       IN  Rotates(bound) \/ DynamicPrefixDeleted(bound)
    /\ UNCHANGED <<pool, siblings, pass, stray>>
-----------------------------------------------------------------------------
(* One pass of syncPool with the Calico backend. *)

\* An error ends the pass and the queue repeats it.
Fail == pass' = None /\ woken' = TRUE
Return == pass' = None /\ woken' = FALSE
StartPass(cidr, keep) ==
    /\ pass' = [seen |-> pool, version |-> edits, cidr |-> cidr, keep |-> keep,
                create |-> keep, listed |-> FALSE, delete |-> {}]
    /\ woken' = FALSE

\* Read the pool and the DynamicPrefix and decide what to do.
Begin ==
    /\ woken /\ pass = None
    /\ LET managed == pool # None /\ pool.bound /\ status # None
       IN  \/ /\ ~managed
              /\ pool # None => pool.record = None
              /\ Return
           \* release: the siblings go, then the record.
           \/ /\ ~managed /\ pool # None /\ pool.record # None
              /\ StartPass(None, {})
           \/ /\ managed /\ status.current = None
              /\ Return
           \/ /\ managed /\ status.current # None
              /\ LET cidr == configCIDR[layout][configured(status)]
                 IN  IF cidr = None THEN Fail ELSE StartPass(cidr, draining(status))
    /\ UNCHANGED <<layout, status, pool, siblings, stray, bounds>>

Refused(c) ==
    /\ RejectsOverlap
    /\ \/ pool # None /\ Overlap(c, pool.cidr)
       \/ \E d \in siblings : Overlap(c, d)

\* CreateSibling that logs a failure and goes on.
CreateSiblingLogs ==
    /\ pass # None /\ ~pass.listed
    /\ \E c \in pass.create :
         /\ pass' = [pass EXCEPT !.create = @ \ {c}]
         /\ \/ siblings' = siblings \cup {c} /\ UNCHANGED faults
            \/ Fault /\ UNCHANGED siblings
    /\ UNCHANGED <<layout, status, pool, woken, stray, rotations, edits>>

\* A sibling is created unless it is there.
CreateSibling ==
    /\ pass # None /\ ~pass.listed
    /\ \E c \in pass.create :
         \/ /\ c \in siblings
            /\ pass' = [pass EXCEPT !.create = @ \ {c}]
            /\ UNCHANGED <<siblings, stray, woken, faults>>
         \/ /\ c \notin siblings /\ ~Refused(c)
            /\ siblings' = siblings \cup {c}
            /\ pass' = [pass EXCEPT !.create = @ \ {c}]
            /\ stray' = (stray \/ pool = None \/ pool.record = None)
            /\ UNCHANGED <<woken, faults>>
         \/ /\ c \notin siblings
            /\ FaultUnless(Refused(c))
            /\ Fail
            /\ UNCHANGED <<siblings, stray>>
    /\ UNCHANGED <<layout, status, pool, rotations, edits>>

ListSiblings ==
    /\ pass # None /\ ~pass.listed /\ pass.create = {}
    /\ \/ /\ pass' = [pass EXCEPT !.listed = TRUE, !.delete = siblings \ pass.keep]
          /\ UNCHANGED <<woken, faults>>
       \/ Fault /\ Fail
    /\ UNCHANGED <<layout, status, pool, siblings, stray, rotations, edits>>

DeleteSibling ==
    /\ pass # None
    /\ \E c \in pass.delete :
         \/ /\ siblings' = siblings \ {c}
            /\ pass' = [pass EXCEPT !.delete = @ \ {c}]
            /\ stray' = (stray /\ siblings' # {})
            /\ UNCHANGED <<woken, faults>>
         \/ Fault /\ Fail /\ UNCHANGED <<siblings, stray>>
    /\ UNCHANGED <<layout, status, pool, rotations, edits>>

\* What the pool becomes: moved to the CIDR with a record of it, or handed back
\* with the CIDR as it stands.
Written ==
    IF pass.cidr = None THEN [pass.seen EXCEPT !.record = None]
    ELSE [pass.seen EXCEPT !.cidr = pass.cidr, !.record = pass.cidr]

\* A pool that changed since it was read refuses the update.
UpdatePool ==
    /\ pass # None /\ pass.listed /\ pass.delete = {}
    /\ LET refused == \/ edits # pass.version
                      \/ RejectsOverlap /\ \E d \in siblings : Overlap(Written.cidr, d)
       IN  \/ /\ Written = pass.seen
              /\ pass' = None /\ UNCHANGED <<pool, woken, stray, faults>>
           \/ /\ Written # pass.seen /\ ~refused
              /\ pool' = Written
              /\ pass' = None /\ woken' = (woken \/ Wakes(Written))
              /\ stray' = (stray /\ Written.record = None)
              /\ UNCHANGED faults
           \/ /\ Written # pass.seen
              /\ FaultUnless(refused)
              /\ Fail
              /\ UNCHANGED <<pool, stray>>
    /\ UNCHANGED <<layout, status, siblings, rotations, edits>>

Reconcile == Begin \/ CreateSibling \/ ListSiblings \/ DeleteSibling \/ UpdatePool

Next == UserEdits \/ FollowsPrefix \/ Reconcile

Spec == Init /\ [][Next]_vars
\* controller-runtime works its queue off.
FairSpec == Spec /\ WF_vars(Reconcile)
-----------------------------------------------------------------------------
Served == siblings \cup (IF pool = None THEN {} ELSE {pool.cidr})

KeepsDraining ==
    pass # None /\ UNCHANGED <<edits, rotations>> => Served \cap pass.keep \subseteq Served'

\* A pass never withdraws a draining prefix: a CIDR that is served, by the pool
\* or by a sibling, and that belongs to a prefix the pass read as draining
\* stays served through every step of the pass, the move of spec.cidr included
\* (update, poolsync_backends.go:303).
DrainingKept == [][KeepsDraining]_vars

\* Once users and the DynamicPrefix stay as they are, a bound pool has the CIDR
\* of the prefix its status resolved, or else of the current one, recorded, and
\* exactly the draining prefixes' siblings; a pool that is no longer bound, or
\* whose DynamicPrefix is gone, has neither record nor siblings.  The
\* exceptions are what the code cannot do: a prefix without a CIDR, and
\* siblings made before the pool had its first record, which nothing leads back
\* to once it is unbound or deleted (update and release,
\* poolsync_backends.go:303 and 366).
SiblingsFollow ==
    <>[](pool # None =>
           IF pool.bound /\ status # None
           THEN status.current # None =>
                    LET cidr == configCIDR[layout][configured(status)]
                    IN  cidr # None => /\ pool.cidr = cidr /\ pool.record = cidr
                                       /\ siblings = draining(status)
           ELSE pool.record = None /\ (siblings = {} \/ stray))
=============================================================================
