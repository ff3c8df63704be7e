------------------------------- MODULE BGPSync -------------------------------
(***************************************************************************)
(* BGPSyncReconciler: one CiliumBGPAdvertisement for every subnet of a     *)
(* DynamicPrefix that asks for BGP, carrying the service selector of the   *)
(* subnet's CiliumLoadBalancerIPPool and the subnet's community, and the   *)
(* BGPAdvertisementReady condition.  A pass reads the DynamicPrefix from   *)
(* the informer cache, then works through the subnets, the orphans and     *)
(* the condition one API call at a time, while users edit all three kinds  *)
(* of object, calls fail, and Kubernetes collects the advertisements of a  *)
(* DynamicPrefix that is gone.  The advertisement of a subnet is named     *)
(* after it, so advertisements are indexed by subnet.                      *)
(***************************************************************************)
EXTENDS Naturals, FiniteSets

CONSTANTS
    Subnets,
    Selectors,     \* non-empty service selectors
    Communities,   \* what a subnet may ask for, the empty community included
    Pools,         \* names of CiliumLoadBalancerIPPools
    Unreadable,    \* a spec.serviceSelector that is no map
    None,
    MaxFaults, MaxEdits, MaxCreations

ASSUME BGPSyncConstants ==
    /\ IsFiniteSet(Subnets) /\ IsFiniteSet(Pools)
    /\ None \notin Subnets \cup Selectors \cup Communities
    /\ Unreadable \notin Selectors \cup {None}
    /\ MaxFaults \in Nat /\ MaxEdits \in Nat /\ MaxCreations \in Nat

Reasons == {"NoBGPSubnets", "AdvertisementsReady", "AdvertisementsPending"}
Conditions == [reason : Reasons, gen : Nat] \cup {None}
\* What a subnet's spec.bgp asks for: its community, or None without advertise.
Specs == [Subnets -> Communities \cup {None}]
DynamicPrefixes == [uid : Nat, gen : Nat, spec : Specs, cond : Conditions]
\* A pool by the annotations that name this DynamicPrefix and a subnet.
PoolObjects == [subnet : Subnets, selector : Selectors \cup {None, Unreadable}]
\* labelled: all three labels are the operator's.  owner: the uid in the
\* controller reference.
Advertisements ==
    [selector : Selectors \cup {None}, community : Communities,
     labelled : BOOLEAN, owner : Nat]

VARIABLES
    dp,         \* the DynamicPrefix at the API server, or None
    cache,      \* the DynamicPrefix as the informer last saw it
    pools,      \* pool -> object annotated for this DynamicPrefix, or None
    advs,       \* subnet -> CiliumBGPAdvertisement, or None
    woken,      \* the work queue holds the DynamicPrefix
    pass,       \* the pass under way, or None
    stale,      \* the last condition was left unwritten because of an old cache
    unread,     \* the last condition was built after a Get that failed
    dropped,    \* subnets whose last failure was logged and nothing more
    edits, creations, faults
vars == <<dp, cache, pools, advs, woken, pass, stale, unread, dropped, edits, creations, faults>>
api == <<dp, cache, pools, stale, unread>>
bounds == <<edits, creations, faults>>

\* A pass: the object it read, the subnets still to do, what it has read of
\* the one it is at, the orphans still to delete (None before they are listed),
\* the condition it has built (None before) and whether an error was collected.
Steps == [at : Subnets, selector : Selectors \cup {None},
          seen : Advertisements \cup {None}]
Passes ==
    [dp : DynamicPrefixes, todo : SUBSET Subnets, step : Steps \cup {None},
     orphans : (SUBSET Subnets) \cup {None}, cond : Conditions, failed : BOOLEAN]

TypeOK ==
    /\ dp \in DynamicPrefixes \cup {None} /\ cache \in DynamicPrefixes \cup {None}
    /\ pools \in [Pools -> PoolObjects \cup {None}]
    /\ advs \in [Subnets -> Advertisements \cup {None}]
    /\ woken \in BOOLEAN /\ stale \in BOOLEAN /\ unread \in BOOLEAN /\ dropped \subseteq Subnets
    /\ pass \in Passes \cup {None}
    /\ edits \in 0..MaxEdits /\ creations \in 0..MaxCreations
    /\ faults \in 0..MaxFaults

getSubnetsWithBGP(spec) == {s \in Subnets : spec[s] # None}

\* The selectors getPoolServiceSelector may return for subnet s: that of any
\* matching pool, which are listed in no particular order.  No match and a
\* selector that cannot be read are errors, which reconcileAdvertisement turns
\* into no selector.
matching(s) == {l \in Pools : pools[l] # None /\ pools[l].subnet = s}
getPoolServiceSelector(s) ==
    IF matching(s) = {} THEN {None}
    ELSE {IF pools[l].selector = Unreadable THEN None ELSE pools[l].selector :
          l \in matching(s)}

\* buildAdvertisement if an update left the labels as it found them.
buildSpecOnly(spec, selector, s, seen, uid) ==
    IF seen # None
    THEN [seen EXCEPT !.selector = selector, !.community = spec[s]]
    ELSE [selector |-> selector, community |-> spec[s], labelled |-> TRUE, owner |-> uid]

\* What subnet s is to have: a new advertisement is owned by the DynamicPrefix,
\* one that was found keeps its owner reference.
buildAdvertisement(spec, selector, s, seen, uid) ==
    [selector |-> selector, community |-> spec[s], labelled |-> TRUE,
     owner |-> IF seen = None THEN uid ELSE seen.owner]

Init ==
    /\ dp = None /\ cache = None
    /\ pools \in [Pools -> PoolObjects \cup {None}]
    /\ advs = [s \in Subnets |-> None]
    /\ woken = FALSE /\ pass = None /\ stale = FALSE /\ unread = FALSE /\ dropped = {}
    /\ edits = 0 /\ creations = 0 /\ faults = 0
-----------------------------------------------------------------------------
(* Users, Kubernetes and the informer. *)

UserCreates ==
    /\ dp = None /\ creations < MaxCreations
    /\ \E spec \in Specs :
         dp' = [uid |-> creations + 1, gen |-> 1, spec |-> spec, cond |-> None]
    /\ creations' = creations + 1
    /\ UNCHANGED <<cache, pools, advs, woken, pass, stale, unread, dropped, edits, faults>>

UserEditsPrefix ==
    /\ dp # None /\ edits < MaxEdits
    /\ \/ \E spec \in Specs \ {dp.spec} :
            dp' = [dp EXCEPT !.spec = spec, !.gen = @ + 1]
       \/ dp' = None
    /\ edits' = edits + 1
    /\ UNCHANGED <<cache, pools, advs, woken, pass, stale, unread, dropped, creations, faults>>

\* A pool of this DynamicPrefix is created, changed, annotated or deleted; the
\* handler maps the old and the new object.
UserEditsPool ==
    /\ edits < MaxEdits
    /\ \E l \in Pools, pool \in PoolObjects \cup {None} :
         /\ pool # pools[l]
         /\ pools' = [pools EXCEPT ![l] = pool]
    /\ edits' = edits + 1
    /\ woken' = TRUE
    /\ UNCHANGED <<dp, cache, advs, pass, stale, unread, dropped, creations, faults>>

\* A user deletes an advertisement, changes what it selects or its labels; the
\* controller owns it and is woken.
UserEditsAdvertisement ==
    /\ edits < MaxEdits
    /\ \E s \in Subnets :
         /\ advs[s] # None
         /\ \E adv \in {None, [advs[s] EXCEPT !.labelled = FALSE]}
                  \cup {[advs[s] EXCEPT !.selector = c] : c \in Selectors \cup {None}} :
              /\ adv # advs[s]
              /\ advs' = [advs EXCEPT ![s] = adv]
    /\ edits' = edits + 1
    /\ woken' = TRUE
    /\ UNCHANGED <<dp, cache, pools, pass, stale, unread, dropped, creations, faults>>

\* Kubernetes deletes what is owned by an object that no longer exists.
Collect ==
    /\ \E s \in Subnets :
         /\ advs[s] # None
         /\ dp # None => dp.uid # advs[s].owner
         /\ advs' = [advs EXCEPT ![s] = None]
    /\ woken' = TRUE
    /\ UNCHANGED <<api, pass, dropped, bounds>>

\* The watch delivers the DynamicPrefix; conditions alone wake nobody.
Deliver ==
    /\ cache # dp
    /\ cache' = dp
    /\ woken' = \/ woken
                \/ cache = None \/ dp = None
                \/ cache.uid # dp.uid \/ cache.spec # dp.spec
    /\ UNCHANGED <<dp, pools, advs, pass, stale, unread, dropped, bounds>>
-----------------------------------------------------------------------------
(* One pass of Reconcile. *)

\* Any API call of a pass may fail.
Fails == faults < MaxFaults /\ faults' = faults + 1
Works == UNCHANGED faults

Begin ==
    /\ woken /\ pass = None
    /\ woken' = FALSE
    /\ IF cache = None
       THEN pass' = None
       ELSE pass' = [dp |-> cache, todo |-> getSubnetsWithBGP(cache.spec), step |-> None,
                     orphans |-> None, cond |-> None, failed |-> FALSE]
    /\ UNCHANGED <<api, advs, dropped, bounds>>

\* reconcileAdvertisement up to its write: a pool list that fails counts as no
\* selector, a Get that fails ends this subnet with an error.
ReadSubnet ==
    /\ pass # None /\ pass.step = None
    /\ \E s \in pass.todo :
         \E p \in {[pass EXCEPT !.todo = @ \ {s}]} :
           \/ /\ \E selector \in getPoolServiceSelector(s) :
                   pass' = [p EXCEPT !.step =
                              [at |-> s, selector |-> selector, seen |-> advs[s]]]
              /\ dropped' = dropped \ {s}
              /\ Works
           \* The pools cannot be listed.
           \/ /\ Fails
              /\ pass' = [p EXCEPT !.step = [at |-> s, selector |-> None, seen |-> advs[s]]]
              /\ dropped' = dropped \cup {s}
           \* The advertisement cannot be read.
           \/ /\ Fails
              /\ pass' = [p EXCEPT !.failed = TRUE]
              /\ UNCHANGED dropped
    /\ UNCHANGED <<api, advs, woken, edits, creations>>

\* Create, update or leave alone.  A create is refused if the advertisement
\* has appeared since, an update if it has changed or gone.
reconcileAdvertisement ==
    /\ pass # None /\ pass.step # None
    /\ LET s == pass.step.at
           seen == pass.step.seen
           adv == buildAdvertisement(pass.dp.spec, pass.step.selector, s, seen, pass.dp.uid)
           done == [pass EXCEPT !.step = None]
       IN  \/ /\ adv = seen
              /\ pass' = done /\ UNCHANGED <<advs, woken>> /\ Works
           \/ /\ adv # seen /\ advs[s] = seen
              /\ advs' = [advs EXCEPT ![s] = adv]
              /\ pass' = done /\ woken' = TRUE /\ Works
           \/ /\ adv # seen
              /\ (advs[s] # seen /\ Works) \/ Fails
              /\ pass' = [done EXCEPT !.failed = TRUE]
              /\ UNCHANGED <<advs, woken>>
    /\ UNCHANGED <<api, dropped, edits, creations>>

ListOrphans ==
    /\ pass # None /\ pass.todo = {} /\ pass.step = None /\ pass.orphans = None
    /\ \/ /\ pass' = [pass EXCEPT !.orphans =
                        {s \in Subnets : /\ advs[s] # None /\ advs[s].labelled
                                         /\ pass.dp.spec[s] = None}]
          /\ Works
       \/ /\ Fails
          /\ pass' = [pass EXCEPT !.orphans = {}, !.failed = TRUE]
    /\ UNCHANGED <<api, advs, dropped, woken, edits, creations>>

\* A delete goes through whatever the advertisement holds by now; one that
\* fails, or finds nothing, is logged and passed over.
deleteOrphanedAdvertisements ==
    /\ pass # None /\ pass.orphans # None
    /\ \E s \in pass.orphans :
         /\ pass' = [pass EXCEPT !.orphans = @ \ {s}]
         /\ \/ /\ advs' = [advs EXCEPT ![s] = None]
               /\ woken' = (woken \/ advs[s] # None)
               /\ dropped' = dropped \ {s}
               /\ Works
            \/ /\ Fails
               /\ dropped' = dropped \cup {s}
               /\ UNCHANGED <<advs, woken>>
    /\ UNCHANGED <<api, edits, creations>>

\* reasonOf without its case for no subnets.
reasonOfAll(spec, read) ==
    IF read /\ \A s \in getSubnetsWithBGP(spec) : advs[s] # None
    THEN "AdvertisementsReady" ELSE "AdvertisementsPending"

\* The reason of the condition: a Get that fails is taken for one that finds
\* nothing.
reasonOf(spec, read) ==
    IF getSubnetsWithBGP(spec) = {} THEN "NoBGPSubnets"
    ELSE IF read /\ \A s \in getSubnetsWithBGP(spec) : advs[s] # None
    THEN "AdvertisementsReady" ELSE "AdvertisementsPending"

\* The Gets go to the API server.  The error of one is not returned.
buildBGPCondition ==
    /\ pass # None /\ pass.orphans = {} /\ pass.cond = None
    /\ \E read \in BOOLEAN :
         /\ (read /\ Works) \/ (~read /\ getSubnetsWithBGP(pass.dp.spec) # {} /\ Fails)
         /\ pass' = [pass EXCEPT !.cond =
                      [reason |-> reasonOf(pass.dp.spec, read), gen |-> pass.dp.gen]]
         /\ unread' = ~read
    /\ UNCHANGED <<dp, cache, pools, advs, woken, stale, dropped, edits, creations>>

\* Write the condition if it differs from the one in the object read, and end
\* the pass, which comes round again if anything failed.
updateStatus ==
    /\ pass # None /\ pass.cond # None
    /\ pass' = None
    /\ \/ /\ pass.cond = pass.dp.cond
          /\ stale' = (dp # None /\ dp.cond # pass.cond)
          /\ woken' = (woken \/ pass.failed)
          /\ UNCHANGED dp /\ Works
       \/ /\ pass.cond # pass.dp.cond /\ dp # None
          /\ dp' = [dp EXCEPT !.cond = pass.cond]
          /\ stale' = FALSE
          /\ woken' = (woken \/ pass.failed)
          /\ Works
       \/ /\ pass.cond # pass.dp.cond
          /\ (dp = None /\ Works) \/ Fails
          /\ woken' = TRUE
          /\ UNCHANGED <<dp, stale>>
    /\ UNCHANGED <<cache, pools, advs, unread, dropped, edits, creations>>

Reconcile ==
    \/ Begin \/ ReadSubnet \/ reconcileAdvertisement
    \/ ListOrphans \/ deleteOrphanedAdvertisements \/ buildBGPCondition \/ updateStatus

Next ==
    \/ UserCreates \/ UserEditsPrefix \/ UserEditsPool \/ UserEditsAdvertisement
    \/ Collect \/ Deliver \/ Reconcile

Spec == Init /\ [][Next]_vars
\* controller-runtime works its queue off, the watch delivers and Kubernetes
\* collects garbage.
FairSpec == Spec /\ WF_vars(Reconcile) /\ WF_vars(Deliver) /\ WF_vars(Collect)
-----------------------------------------------------------------------------
Advertised(s) ==
    /\ advs[s] # None /\ advs[s].labelled
    /\ advs[s].community = dp.spec[s]
    /\ advs[s].selector \in getPoolServiceSelector(s)
    /\ advs[s].owner = dp.uid

\* Once users stop editing, every subnet that asks for BGP has its
\* advertisement, with its pool's selector and its community and owned by the
\* DynamicPrefix that exists now, and no other subnet has one the operator
\* made: whatever was refused, failed, was edited by hand or belonged to an
\* earlier DynamicPrefix of the name.  The exceptions are the two failures
\* that are logged and not returned, the list of pools and the delete of an
\* orphan (Reconcile, bgpsync_controller.go:90).
AdvertisementsFollow ==
    <>[](\A s \in Subnets \ dropped :
           IF dp = None THEN advs[s] = None
           ELSE IF dp.spec[s] # None THEN Advertised(s)
           ELSE advs[s] = None \/ ~advs[s].labelled)

Truth ==
    IF getSubnetsWithBGP(dp.spec) = {} THEN "NoBGPSubnets"
    ELSE IF \A s \in getSubnetsWithBGP(dp.spec) : advs[s] # None
         THEN "AdvertisementsReady" ELSE "AdvertisementsPending"

\* Once users stop editing, BGPAdvertisementReady gives the reason that is
\* true of the advertisements, and after a Get that failed it errs on the side
\* of AdvertisementsPending: whatever was refused, or failed and was retried.
\* The exception is a condition left unwritten because an older one in the
\* cache was the same (updateStatus, bgpsync_controller.go:378).
ConditionTells ==
    <>[](dp # None /\ ~stale =>
           /\ dp.cond # None
           /\ dp.cond.reason \in {Truth} \cup (IF unread THEN {"AdvertisementsPending"} ELSE {}))
=============================================================================
