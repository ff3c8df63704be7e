------------------------------- MODULE PoolSync -------------------------------
(***************************************************************************)
(* PoolSyncReconciler for the backends that share a list with the user     *)
(* (Cilium load balancer pools and CIDR groups, MetalLB address pools):    *)
(* the list, the ownership record beside it, the watch that wakes the      *)
(* controller, and the PoolsSynced condition it aggregates in memory.      *)
(* Entries stand for their canonical keys, so the order and the spelling   *)
(* of a list are left out.  The entry written for a prefix is named by     *)
(* the prefix.                                                             *)
(***************************************************************************)
EXTENDS Naturals, FiniteSets

CONSTANTS
    Objects, Names, NameOf,   \* pool objects; objects of two kinds may share a name
    DPs,                      \* names of DynamicPrefix resources
    Prefixes,
    Statics, Inside,          \* other entries, and the prefix each lies in, if any
    Lists,                    \* the resolved lists of a status: its subnets, its address ranges
    Bindings,                 \* annotations: the resource, the list of the entry they name (None for
                              \* the raw prefix), and the prefixes that entry can be calculated from
    OptIn,                    \* what a pool without a record may hold when it is opted in
    None,
    MaxHistory, MaxEdits, MaxRotations,
    MaxFaults,                \* bound on reads and writes the API server refuses
    MaxLost                   \* bound on reports of a condition that are lost

Entries == Prefixes \cup Statics

ASSUME PoolSyncConstants ==
    /\ IsFiniteSet(Objects) /\ IsFiniteSet(DPs)
    /\ NameOf \in [Objects -> Names]
    /\ None \notin Names \cup DPs \cup Prefixes \cup Bindings \cup Lists
    /\ Prefixes \cap Statics = {}
    /\ Inside \in [Statics -> Prefixes \cup {None}]
    /\ Bindings \subseteq [dp: DPs, list: Lists \cup {None}, fits: SUBSET Prefixes]
    /\ OptIn \subseteq Entries
    /\ MaxHistory \in Nat /\ MaxEdits \in Nat /\ MaxRotations \in Nat
    /\ MaxFaults \in Nat /\ MaxLost \in Nat

Pools == [exists: BOOLEAN, bind: Bindings \cup {None}, list: SUBSET Entries,
          recorded: BOOLEAN, record: SUBSET Entries]

NoPool == [exists |-> FALSE, bind |-> None, list |-> {}, recorded |-> FALSE, record |-> {}]

\* status.currentPrefix; the prefixes of status.history, up to the limit of
\* the spec and beyond it; and the prefix each resolved list was calculated
\* from.  A list is replaced as a whole and only when all of it can be
\* calculated, so it may belong to an earlier prefix.
Statuses == [exists: BOOLEAN, current: Prefixes \cup {None}, history: SUBSET Prefixes,
             beyond: SUBSET Prefixes, resolved: [Lists -> Prefixes \cup {None}]]

NoDP == [exists |-> FALSE, current |-> None, history |-> {}, beyond |-> {},
         resolved |-> [l \in Lists |-> None]]

\* The statuses the DynamicPrefix controller writes.  The history overflows
\* while a lowered limit has not been applied; a list belongs to a prefix
\* the resource holds or held, from which all of it could be calculated.
Written ==
    [d \in DPs |-> {dp \in Statuses :
        /\ dp.exists \/ dp = NoDP
        /\ dp.current = None => dp \in {NoDP, [NoDP EXCEPT !.exists = TRUE]}
        /\ dp.current \notin dp.history \cup dp.beyond
        /\ dp.history \cap dp.beyond = {}
        /\ dp.beyond # {} => dp.history # {}
        /\ Cardinality(dp.history \cup dp.beyond) <= MaxHistory
        /\ \A l \in Lists : dp.resolved[l] # None =>
             /\ dp.resolved[l] = dp.current \/ dp.history # {}
             /\ \A b \in Bindings : b.dp = d /\ b.list = l => dp.resolved[l] \in b.fits}]

VARIABLES
    dps,      \* the DynamicPrefix resources, as the cache shows them
    pools,    \* the pool objects in the API server
    pins,     \* history: the entries of each pool its user wrote
    failing,  \* poolSyncState: the pools failing to sync, by DynamicPrefix
    cond,     \* the PoolsSynced condition: the pools it names, None when absent
    queue,    \* the controller's work queue
    cur,      \* the request being reconciled: the pools read and not yet synced
    edits, rotations, faults, lost

vars == <<dps, pools, pins, failing, cond, queue, cur, edits, rotations, faults, lost>>
world == <<dps, pins, edits, rotations>>

\* The pools a reconcile has read, those it has yet to sync, and whether it
\* is to be repeated.
Requests == [name: Names, read: [Objects -> Pools], todo: SUBSET Objects, again: BOOLEAN]

Idle == [name |-> None, read |-> [o \in Objects |-> NoPool], todo |-> {}, again |-> FALSE]

-----------------------------------------------------------------------------
\* collectManagedPrefixes
collectManagedPrefixes(dp) == ({dp.current} \cup dp.history \cup dp.beyond) \ {None}

\* isManagedBlock, isPrefixSubsetOfManaged, isManagedAddressEntry: geometry.
isManaged(e, dp) ==
    \/ e \in collectManagedPrefixes(dp)
    \/ e \in Statics /\ Inside[e] \in collectManagedPrefixes(dp)

\* Mutant: geometry decides even when there is a record.
isOwnedByGeometry(e, pool, dp) == isManaged(e, dp)

\* isOwnedBlock, isOwnedCIDR, isOwnedAddressEntry: the record decides when
\* there is one.
isOwned(e, pool, dp) == IF pool.recorded THEN e \in pool.record ELSE isManaged(e, dp)

\* findSubnetInStatus, findAddressRangeInStatus: the entry status resolved.
findInStatus(b, dp) == IF b.list = None THEN None ELSE dp.resolved[b.list]

\* buildModeConfigs, the current prefix: what status resolved is preferred
\* to calculating it.
currentConfig(b, dp) ==
    IF findInStatus(b, dp) # None THEN findInStatus(b, dp) ELSE dp.current

\* buildPoolConfigurations: an entry that is neither in status nor to be
\* calculated from the current prefix is an error.
Buildable(b, dp) == currentConfig(b, dp) \in b.fits

\* A historical prefix that is unusable, or beyond the limit, is left out.
buildPoolConfigurations(b, dp) == {currentConfig(b, dp)} \cup (b.fits \cap dp.history)

\* syncOwnedList
syncOwnedList(pool, dp) ==
    LET preserved == {e \in pool.list : ~isOwned(e, pool, dp)}
        managed == buildPoolConfigurations(pool.bind, dp) \ preserved
    IN  [pool EXCEPT !.list = preserved \cup managed, !.recorded = TRUE, !.record = managed]

\* Mutant: the records are dropped, the entries stay.
releaseRecordOnly(pool) == [pool EXCEPT !.recorded = FALSE, !.record = {}]

\* releaseRecordedSlice, and the records releasePool removes.
releaseRecordedSlice(pool) ==
    [pool EXCEPT !.list = @ \ pool.record, !.recorded = FALSE, !.record = {}]

\* The watch predicate: an annotated pool, or one still holding a record.
hasAnnotation(pool) == pool.exists /\ (pool.bind # None \/ pool.recorded)

\* Mutant: only annotated pools are watched.
WakesAnnotated(o, pool) == IF pool.exists /\ pool.bind # None THEN {NameOf[o]} ELSE {}

\* The requests a change of o to this enqueues.
Wakes(o, pool) == IF hasAnnotation(pool) THEN {NameOf[o]} ELSE {}

\* findReferencingPools
findReferencingPools(d) ==
    {NameOf[o] : o \in {x \in Objects : pools[x].exists /\ pools[x].bind # None
                                          /\ pools[x].bind.dp = d}}

\* Has the operator anything to sync o to?
Bound(pool) == pool.bind # None /\ dps[pool.bind.dp].exists

-----------------------------------------------------------------------------
Init ==
    /\ dps = [d \in DPs |-> NoDP]
    /\ pools = [o \in Objects |-> NoPool]
    /\ pins = [o \in Objects |-> {}]
    /\ failing = [d \in DPs |-> {}]
    /\ cond = [d \in DPs |-> None]
    /\ queue = {}
    /\ cur = Idle
    /\ edits = 0 /\ rotations = 0 /\ faults = 0 /\ lost = 0

\* Users opt a pool in only while all it holds of their own is in OptIn.
OptsInCleanly ==
    \A o \in Objects : Bound(pools[o]) /\ ~pools[o].recorded => pins[o] \subseteq OptIn

\* A user changes pool o to this, and what is theirs in it.
UserWrites(o, pool, mine) ==
    /\ edits < MaxEdits
    /\ pool # pools[o]
    /\ pools' = [pools EXCEPT ![o] = pool]
    /\ pins' = [pins EXCEPT ![o] = mine]
    /\ queue' = queue \cup Wakes(o, IF pool.exists THEN pool ELSE pools[o])
    /\ edits' = edits + 1
    /\ UNCHANGED <<dps, failing, cond, cur, rotations, faults, lost>>
    /\ OptsInCleanly'

UserBinds(o, b) ==
    UserWrites(o, [pools[o] EXCEPT !.exists = TRUE, !.bind = b], pins[o])

UserDeletes(o) == UserWrites(o, NoPool, {})

\* An entry the record names is the operator's whoever writes it again.
UserAdds(o, e) ==
    /\ pools[o].exists
    /\ UserWrites(o, [pools[o] EXCEPT !.list = @ \cup {e}],
                  IF e \in pools[o].record THEN pins[o] ELSE pins[o] \cup {e})

UserRemoves(o, e) ==
    UserWrites(o, [pools[o] EXCEPT !.list = @ \ {e}], pins[o] \ {e})

\* The DynamicPrefix controller writes a status, or the resource comes or goes.
StatusChanges(d, dp) ==
    /\ rotations < MaxRotations
    /\ dp # dps[d]
    /\ dps' = [dps EXCEPT ![d] = dp]
    /\ cond' = [cond EXCEPT ![d] = IF dp.exists THEN @ ELSE None]
    /\ rotations' = rotations + 1
    /\ queue' = queue \cup findReferencingPools(d)
    /\ UNCHANGED <<pools, pins, failing, cur, edits, faults, lost>>
    /\ OptsInCleanly'

-----------------------------------------------------------------------------
\* writePoolsSyncedCondition for the resources in D, once f is what fails.
\* A resource that is gone is forgotten; a report may be lost, to a stale
\* read or a refused write, and no one repeats it.
Report(f, D) ==
    \E missed \in SUBSET D :
        /\ lost' = lost + Cardinality(missed)
        /\ lost' <= MaxLost
        /\ failing' = [d \in DPs |-> IF d \in D /\ ~dps[d].exists THEN {} ELSE f[d]]
        /\ cond' = [d \in DPs |-> IF d \in D \ missed /\ dps[d].exists THEN f[d] ELSE cond[d]]

\* Mutant: a pool that syncs again is not taken off.
recordOnlyFailures(d, o, failed) ==
    Report([failing EXCEPT ![d] = @ \cup {o}], {d})

\* updatePoolsSyncedCondition
updatePoolsSyncedCondition(d, o, failed) ==
    Report([failing EXCEPT ![d] = IF failed THEN @ \cup {o} ELSE @ \ {o}], {d})

\* releasePoolsSyncedEntries
releasePoolsSyncedEntries(gone) ==
    Report([d \in DPs |-> failing[d] \ gone], {d \in DPs : failing[d] \cap gone # {}})

Matches(n) == {o \in Objects : NameOf[o] = n /\ pools[o].exists}

\* Reconcile finds no pool of this name.
NoneLeft(n) ==
    /\ cur = Idle
    /\ n \in queue
    /\ Matches(n) = {}
    /\ queue' = queue \ {n}
    /\ releasePoolsSyncedEntries({o \in Objects : NameOf[o] = n})
    /\ UNCHANGED <<world, pools, cur, faults>>

\* Reconcile reads the pools of this name.  getPools passes over the ones it
\* fails to read, as long as it reads any.
getPools(n) ==
    \E unread \in SUBSET Matches(n) :
        /\ cur = Idle
        /\ n \in queue
        /\ Matches(n) # unread
        /\ faults' = faults + Cardinality(unread)
        /\ faults' <= MaxFaults
        /\ queue' = queue \ {n}
        /\ cur' = [name |-> n, read |-> pools, todo |-> Matches(n) \ unread, again |-> FALSE]
        /\ UNCHANGED <<world, pools, failing, cond, lost>>

\* syncPool is done with o; the request is to be repeated if again.
Synced(o, again) ==
    /\ o \in cur.todo
    /\ cur' = [cur EXCEPT !.todo = @ \ {o}, !.again = @ \/ again]

\* syncPool with nothing to do: a pool that holds nothing of the operator's,
\* or one that waits for its first prefix.
LeaveAlone(o) ==
    LET pool == cur.read[o]
        waits == Bound(pool) /\ dps[pool.bind.dp].current = None
    IN  /\ waits \/ (~Bound(pool) /\ ~pool.recorded)
        /\ Synced(o, waits)
        /\ UNCHANGED <<world, pools, failing, cond, queue, faults, lost>>

\* releasePool: no annotation, or the DynamicPrefix is gone.  An update of a
\* pool that has changed since it was read is refused.
releasePool(o) ==
    /\ ~Bound(cur.read[o])
    /\ cur.read[o].recorded
    /\ pools[o] = cur.read[o]
    /\ Synced(o, FALSE)
    /\ pools' = [pools EXCEPT ![o] = releaseRecordedSlice(pools[o])]
    /\ queue' = queue \cup Wakes(o, releaseRecordedSlice(pools[o]))
    /\ releasePoolsSyncedEntries({o})
    /\ UNCHANGED <<world, faults>>

\* releasePool, the update refused.
ReleaseFails(o) ==
    /\ ~Bound(cur.read[o])
    /\ cur.read[o].recorded
    /\ \/ pools[o] # cur.read[o] /\ faults' = faults
       \/ faults < MaxFaults /\ faults' = faults + 1
    /\ Synced(o, TRUE)
    /\ UNCHANGED <<world, pools, failing, cond, queue, lost>>

\* Is there something to write into the pool as it was read?
HasPrefix(o) == Bound(cur.read[o]) /\ dps[cur.read[o].bind.dp].current # None

\* syncPool fails to build configurations, or to update the pool.
SyncFails(o) ==
    LET pool == cur.read[o]
        dp == dps[pool.bind.dp]
        stale == Buildable(pool.bind, dp) /\ syncOwnedList(pool, dp) # pool
    IN  /\ HasPrefix(o)
        /\ \/ (~Buildable(pool.bind, dp) \/ (stale /\ pools[o] # pool)) /\ faults' = faults
           \/ stale /\ faults < MaxFaults /\ faults' = faults + 1
        /\ Synced(o, TRUE)
        /\ updatePoolsSyncedCondition(pool.bind.dp, o, TRUE)
        /\ UNCHANGED <<world, pools, queue>>

\* syncPool succeeds; a pool that is up to date is not written.
SyncSucceeds(o) ==
    LET pool == cur.read[o]
        synced == syncOwnedList(pool, dps[pool.bind.dp])
    IN  /\ HasPrefix(o)
        /\ Buildable(pool.bind, dps[pool.bind.dp])
        /\ synced # pool => pools[o] = pool
        /\ Synced(o, FALSE)
        /\ pools' = IF synced = pool THEN pools ELSE [pools EXCEPT ![o] = synced]
        /\ queue' = IF synced = pool THEN queue ELSE queue \cup Wakes(o, synced)
        /\ updatePoolsSyncedCondition(pool.bind.dp, o, FALSE)
        /\ UNCHANGED <<world, faults>>

\* Reconcile returns; errors and requeues bring the request back.
Return ==
    /\ cur # Idle
    /\ cur.todo = {}
    /\ cur' = Idle
    /\ queue' = IF cur.again THEN queue \cup {cur.name} ELSE queue
    /\ UNCHANGED <<world, pools, failing, cond, faults, lost>>

syncPool(o) ==
    LeaveAlone(o) \/ releasePool(o) \/ ReleaseFails(o) \/ SyncFails(o) \/ SyncSucceeds(o)

Reconcile ==
    \/ \E n \in Names : NoneLeft(n) \/ getPools(n)
    \/ \E o \in Objects : syncPool(o)
    \/ Return

Environment ==
    \/ \E o \in Objects :
         \/ UserDeletes(o)
         \/ \E b \in Bindings \cup {None} : UserBinds(o, b)
         \/ \E e \in Entries : UserAdds(o, e) \/ UserRemoves(o, e)
    \/ \E d \in DPs : \E dp \in Written[d] : StatusChanges(d, dp)

Next == Environment \/ Reconcile

Spec == Init /\ [][Next]_vars

\* The worker serves every queued request in the end.
FairSpec ==
    /\ Spec
    /\ WF_vars(Reconcile)
    /\ \A n \in Names : SF_vars(NoneLeft(n) \/ getPools(n))

-----------------------------------------------------------------------------
TypeOK ==
    /\ dps \in [DPs -> Statuses]
    /\ pools \in [Objects -> Pools]
    /\ pins \in [Objects -> SUBSET Entries]
    /\ failing \in [DPs -> SUBSET Objects]
    /\ cond \in [DPs -> (SUBSET Objects) \cup {None}]
    /\ queue \in SUBSET Names
    /\ cur \in Requests \cup {Idle}
    /\ edits \in Nat /\ rotations \in Nat /\ faults \in Nat /\ lost \in Nat

(* syncOwnedList: "Entries the operator did not write are preserved,       *)
(* whatever they look like", through any number of rotations, releases     *)
(* and conflicting edits.                                                  *)
PinsKept == \A o \in Objects : pins[o] \subseteq pools[o].list

(* The ownership record: every entry that is not the user's is one the     *)
(* operator still recognises, so none is left behind when its prefix ages  *)
(* out of the history or the pool is released.                             *)
NothingLeaks == \A o \in Objects : pools[o].list \subseteq pins[o] \cup pools[o].record

(* syncOwnedList: an entry the user pinned "is left out of the record",    *)
(* so a rotation that stops generating it does not take it away.           *)
PinsUnclaimed == \A o \in Objects : pins[o] \cap pools[o].record = {}

(* syncPool and findReferencingPools: once everything rests, a pool whose  *)
(* entry is in the status or can be calculated holds exactly its user's    *)
(* entries, that entry and the draining prefixes within the limit; a pool  *)
(* that is not opted in any more, or whose DynamicPrefix is gone, holds    *)
(* its user's entries alone.  The entry in the status may be an earlier    *)
(* prefix's, as long as its list cannot be calculated from the current     *)
(* one, even where the entry itself could be.                              *)
PoolsFollow ==
    \A o \in Objects :
        <>[](/\ pools[o].exists /\ Bound(pools[o])
                /\ Buildable(pools[o].bind, dps[pools[o].bind.dp])
                   => pools[o].list = pins[o] \cup buildPoolConfigurations(pools[o].bind,
                                                         dps[pools[o].bind.dp])
             /\ ~Bound(pools[o]) => pools[o].list = pins[o] /\ ~pools[o].recorded)

\* Pool o names an entry that neither the status of d nor its current prefix
\* provides.
Misfit(o, d) ==
    /\ pools[o].exists /\ pools[o].bind # None /\ pools[o].bind.dp = d
    /\ dps[d].current # None
    /\ ~Buildable(pools[o].bind, dps[d])

Fits(o, d) ==
    /\ pools[o].exists /\ pools[o].bind # None /\ pools[o].bind.dp = d
    /\ dps[d].current # None
    /\ Buildable(pools[o].bind, dps[d])

(* updatePoolsSyncedCondition: if no report is lost, then once everything  *)
(* rests PoolsSynced names a pool whose entry neither the status nor the   *)
(* current prefix provides, and names no pool whose entry one of them      *)
(* does.  A pool synced to an earlier prefix's entry is not named.         *)
ConditionTells ==
    [](lost = 0) => \A o \in Objects, d \in DPs :
        /\ <>[]Misfit(o, d) => <>[](cond[d] # None /\ o \in cond[d])
        /\ <>[]Fits(o, d) => <>[](cond[d] # None /\ o \notin cond[d])

=============================================================================
