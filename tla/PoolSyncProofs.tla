---------------------------- MODULE PoolSyncProofs ----------------------------
(***************************************************************************)
(* Proofs about PoolSync: which entries of a pool are the user's and which *)
(* the operator's stays decided by the record, for any number of pools,    *)
(* prefixes, rotations, edits, conflicts and releases.                     *)
(***************************************************************************)
EXTENDS PoolSync, FiniteSetTheorems, TLAPS

\* One pool and its user's entries: what is the user's is there, what is not
\* is recorded, and nothing is both.
Sorted(pool, mine) ==
    /\ mine \subseteq pool.list
    /\ pool.list \subseteq mine \cup pool.record
    /\ mine \cap pool.record = {}
    /\ ~pool.recorded => pool.record = {}

IInv ==
    /\ TypeOK
    /\ \A o \in Objects : Sorted(pools[o], pins[o])
    /\ OptsInCleanly

-----------------------------------------------------------------------------
(* collectManagedPrefixes yields prefixes, whatever the status says.       *)
LEMMA ManagedPrefixes ==
    ASSUME NEW dp \in Statuses
    PROVE  collectManagedPrefixes(dp) \in SUBSET Prefixes
BY DEF Statuses, collectManagedPrefixes

(* syncOwnedList keeps a pool sorted and leaves it with a record, provided *)
(* a pool without one holds no entry of its user's inside a prefix.        *)
LEMMA SyncSorts ==
    ASSUME NEW pool \in Pools, NEW mine \in SUBSET Entries, NEW dp \in Statuses,
           pool.bind \in Bindings, Buildable(pool.bind, dp), Sorted(pool, mine),
           ~pool.recorded => mine \subseteq OptIn,
           \A e \in OptIn : e \in Statics /\ Inside[e] = None
    PROVE  /\ syncOwnedList(pool, dp) \in Pools
           /\ Sorted(syncOwnedList(pool, dp), mine)
           /\ syncOwnedList(pool, dp).recorded
           /\ syncOwnedList(pool, dp).bind = pool.bind
           /\ syncOwnedList(pool, dp).exists = pool.exists
<1> DEFINE preserved == {e \in pool.list : ~isOwned(e, pool, dp)}
           managed == buildPoolConfigurations(pool.bind, dp) \ preserved
<1>1. managed \in SUBSET Prefixes
  BY PoolSyncConstants DEF buildPoolConfigurations, Buildable
<1>2. mine \subseteq preserved
  <2> SUFFICES ASSUME NEW e \in mine PROVE e \in pool.list /\ ~isOwned(e, pool, dp)
    OBVIOUS
  <2>1. e \in pool.list
    BY DEF Sorted
  <2>2. CASE pool.recorded
    BY <2>1, <2>2 DEF Sorted, isOwned
  <2>3. CASE ~pool.recorded
    <3>1. e \in Statics /\ Inside[e] = None
      BY <2>3
    <3>2. e \notin Prefixes /\ None \notin Prefixes
      BY <3>1, PoolSyncConstants
    <3>3. ~isManaged(e, dp)
      BY <3>1, <3>2, ManagedPrefixes DEF isManaged
    <3> QED BY <2>1, <2>3, <3>3 DEF isOwned
  <2> QED BY <2>2, <2>3
<1>3. preserved \subseteq mine
  BY DEF Sorted, isOwned
<1>4. syncOwnedList(pool, dp) =
        [pool EXCEPT !.list = preserved \cup managed, !.recorded = TRUE, !.record = managed]
  BY DEF syncOwnedList
<1>5. syncOwnedList(pool, dp) =
        [exists |-> pool.exists, bind |-> pool.bind, list |-> preserved \cup managed,
         recorded |-> TRUE, record |-> managed]
  BY <1>4 DEF Pools
<1>6. preserved \in SUBSET Entries /\ managed \in SUBSET Entries
  BY <1>1 DEF Pools, Entries
<1>7. managed \cap preserved = {}
  OBVIOUS
<1> HIDE DEF preserved, managed
<1> QED BY <1>2, <1>3, <1>5, <1>6, <1>7 DEF Pools, Sorted

(* releaseRecordedSlice leaves exactly the user's entries.                 *)
LEMMA ReleaseSorts ==
    ASSUME NEW pool \in Pools, NEW mine \in SUBSET Entries, Sorted(pool, mine)
    PROVE  /\ releaseRecordedSlice(pool) \in Pools
           /\ Sorted(releaseRecordedSlice(pool), mine)
           /\ releaseRecordedSlice(pool).bind = pool.bind
           /\ releaseRecordedSlice(pool).list = mine
<1>1. releaseRecordedSlice(pool) =
        [exists |-> pool.exists, bind |-> pool.bind, list |-> pool.list \ pool.record,
         recorded |-> FALSE, record |-> {}]
  <2>1. releaseRecordedSlice(pool) =
          [pool EXCEPT !.list = pool.list \ pool.record, !.recorded = FALSE, !.record = {}]
    BY DEF releaseRecordedSlice, Pools
  <2> HIDE DEF releaseRecordedSlice
  <2> QED BY <2>1 DEF Pools
<1> QED BY <1>1 DEF Pools, Sorted

(* A report of the PoolsSynced condition changes nothing but the condition *)
(* and the state it aggregates, and keeps their types.                     *)
LEMMA ReportTypes ==
    ASSUME TypeOK, NEW f \in [DPs -> SUBSET Objects], NEW D \in SUBSET DPs, Report(f, D)
    PROVE  /\ failing' \in [DPs -> SUBSET Objects]
           /\ cond' \in [DPs -> (SUBSET Objects) \cup {None}]
           /\ lost' \in Nat
<1>1. PICK missed \in SUBSET D :
        /\ lost' = lost + Cardinality(missed)
        /\ failing' = [d \in DPs |-> IF d \in D /\ ~dps[d].exists THEN {} ELSE f[d]]
        /\ cond' = [d \in DPs |-> IF d \in D \ missed /\ dps[d].exists THEN f[d] ELSE cond[d]]
  BY DEF Report
<1>2. Cardinality(missed) \in Nat
  BY FS_Subset, FS_CardinalityType, PoolSyncConstants
<1>3. failing' \in [DPs -> SUBSET Objects]
  BY <1>1
<1>4. cond' \in [DPs -> (SUBSET Objects) \cup {None}]
  BY <1>1 DEF TypeOK
<1> QED BY <1>1, <1>2, <1>3, <1>4 DEF TypeOK

-----------------------------------------------------------------------------
(* The invariant after a user's edit that leaves the edited pool sorted.   *)
LEMMA UserKeeps ==
    ASSUME IInv, NEW o \in Objects, NEW pool \in Pools, NEW mine \in SUBSET Entries,
           Sorted(pool, mine), UserWrites(o, pool, mine)
    PROVE  IInv'
<1> USE DEF UserWrites
<1>1. pools' \in [Objects -> Pools] /\ pins' \in [Objects -> SUBSET Entries]
  BY DEF IInv, TypeOK
<1>2. queue' \in SUBSET Names
  <2>1. \A x \in Pools : Wakes(o, x) \in SUBSET Names
    BY PoolSyncConstants DEF Wakes
  <2>2. (IF pool.exists THEN pool ELSE pools[o]) \in Pools
    BY DEF IInv, TypeOK
  <2> QED BY <2>1, <2>2 DEF IInv, TypeOK
<1>3. TypeOK'
  BY <1>1, <1>2, PoolSyncConstants DEF IInv, TypeOK
<1>4. \A x \in Objects : Sorted(pools'[x], pins'[x])
  BY DEF IInv, TypeOK
<1> QED BY <1>3, <1>4 DEF IInv

(* The invariant after a step of the reconciler that writes no pool.       *)
LEMMA QuietKeeps ==
    ASSUME IInv, TypeOK', UNCHANGED <<pools, pins, dps>>
    PROVE  IInv'
BY DEF IInv, OptsInCleanly, Bound

(* The invariant after a step of the reconciler that writes one pool.      *)
LEMMA WriteKeeps ==
    ASSUME IInv, TypeOK', NEW o \in Objects, NEW pool,
           pools' = [pools EXCEPT ![o] = pool], UNCHANGED <<pins, dps>>,
           Sorted(pool, pins[o]), pool.recorded \/ ~Bound(pool)
    PROVE  IInv'
<1>1. pools'[o] = pool /\ \A x \in Objects \ {o} : pools'[x] = pools[x]
  BY DEF IInv, TypeOK
<1>2. OptsInCleanly'
  BY <1>1 DEF IInv, OptsInCleanly, Bound
<1> QED BY <1>1, <1>2 DEF IInv

(* syncPool being done with a pool keeps the type of the request.          *)
LEMMA SyncedTypes ==
    ASSUME TypeOK, NEW o, NEW again \in BOOLEAN, Synced(o, again)
    PROVE  /\ cur' \in Requests
           /\ o \in Objects
           /\ cur.read[o] \in Pools
<1>1. cur \in Requests
  BY DEF TypeOK, Synced, Idle
<1> QED BY <1>1 DEF Requests, Synced

(* A pool the operator syncs is annotated with a DynamicPrefix's name.     *)
LEMMA BoundBinding ==
    ASSUME TypeOK, NEW pool \in Pools, Bound(pool)
    PROVE  pool.bind \in Bindings /\ pool.bind.dp \in DPs /\ dps[pool.bind.dp] \in Statuses
BY PoolSyncConstants DEF Bound, Pools, TypeOK

(* Every step of users, of the DynamicPrefix controller and of the pool     *)
(* controller keeps the invariant.                                          *)
LEMMA Induction ==
    ASSUME IInv, [Next]_vars, \A e \in OptIn : e \in Statics /\ Inside[e] = None
    PROVE  IInv'
<1> USE PoolSyncConstants
<1>0. TypeOK
  BY DEF IInv
<1>1. ASSUME NEW o \in Objects, UserDeletes(o) PROVE IInv'
  <2>1. NoPool \in Pools /\ Sorted(NoPool, {})
    BY DEF NoPool, Pools, Sorted
  <2> QED BY <1>1, <2>1, UserKeeps DEF UserDeletes
<1>2. ASSUME NEW o \in Objects, NEW b \in Bindings \cup {None}, UserBinds(o, b) PROVE IInv'
  <2> DEFINE pool == [pools[o] EXCEPT !.exists = TRUE, !.bind = b]
  <2>1. pools[o] \in Pools /\ Sorted(pools[o], pins[o]) /\ pins[o] \in SUBSET Entries
    BY DEF IInv, TypeOK
  <2>2. pool \in Pools
    BY <2>1 DEF Pools
  <2>3. /\ pool.list = pools[o].list
        /\ pool.recorded = pools[o].recorded
        /\ pool.record = pools[o].record
    BY <2>1 DEF Pools
  <2>4. Sorted(pool, pins[o])
    BY <2>1, <2>3 DEF Sorted
  <2> QED BY <1>2, <2>1, <2>2, <2>4, UserKeeps DEF UserBinds
<1>3. ASSUME NEW o \in Objects, NEW e \in Entries, UserAdds(o, e) PROVE IInv'
  <2> DEFINE pool == [pools[o] EXCEPT !.list = @ \cup {e}]
             mine == IF e \in pools[o].record THEN pins[o] ELSE pins[o] \cup {e}
  <2>1. pool \in Pools /\ Sorted(pool, mine) /\ mine \in SUBSET Entries
    BY DEF IInv, TypeOK, Pools, Sorted
  <2>2. UserWrites(o, pool, mine)
    BY <1>3 DEF UserAdds
  <2> QED BY <2>1, <2>2, UserKeeps
<1>4. ASSUME NEW o \in Objects, NEW e \in Entries, UserRemoves(o, e) PROVE IInv'
  <2> DEFINE pool == [pools[o] EXCEPT !.list = @ \ {e}]
             mine == pins[o] \ {e}
  <2>1. pool \in Pools /\ Sorted(pool, mine) /\ mine \in SUBSET Entries
    BY DEF IInv, TypeOK, Pools, Sorted
  <2>2. UserWrites(o, pool, mine)
    BY <1>4 DEF UserRemoves
  <2> QED BY <2>1, <2>2, UserKeeps
<1>5. ASSUME NEW d \in DPs, NEW dp \in Statuses, StatusChanges(d, dp) PROVE IInv'
  <2>1. queue' \in SUBSET Names
    BY <1>5, <1>0 DEF StatusChanges, findReferencingPools, TypeOK
  <2>2. cond' \in [DPs -> (SUBSET Objects) \cup {None}]
    <3>1. cond' = [cond EXCEPT ![d] = IF dp.exists THEN cond[d] ELSE None]
      BY <1>5, <1>0 DEF StatusChanges, TypeOK
    <3> DEFINE C == (SUBSET Objects) \cup {None}
    <3>2. cond \in [DPs -> C] /\ None \in C
      BY <1>0 DEF TypeOK
    <3> HIDE DEF C
    <3>3. (IF dp.exists THEN cond[d] ELSE None) \in C
      BY <3>2
    <3>4. cond' \in [DPs -> C]
      BY <3>1, <3>2, <3>3
    <3> QED BY <3>4 DEF C
  <2>3. TypeOK'
    BY <1>5, <1>0, <2>1, <2>2 DEF StatusChanges, TypeOK
  <2> QED BY <1>5, <2>3 DEF IInv, StatusChanges
<1>6. ASSUME NEW n \in Names, NoneLeft(n) PROVE IInv'
  <2> DEFINE gone == {o \in Objects : NameOf[o] = n}
             f == [d \in DPs |-> failing[d] \ gone]
             D == {d \in DPs : failing[d] \cap gone # {}}
  <2>1. Report(f, D)
    BY <1>6 DEF NoneLeft, releasePoolsSyncedEntries
  <2>2. f \in [DPs -> SUBSET Objects] /\ D \in SUBSET DPs
    BY <1>0 DEF TypeOK
  <2>3. /\ failing' \in [DPs -> SUBSET Objects]
        /\ cond' \in [DPs -> (SUBSET Objects) \cup {None}]
        /\ lost' \in Nat
    <3> HIDE DEF f, D
    <3> QED BY <1>0, <2>1, <2>2, ReportTypes
  <2>4. TypeOK'
    BY <1>6, <1>0, <2>3 DEF NoneLeft, TypeOK, world
  <2> QED BY <1>6, <2>4, QuietKeeps DEF NoneLeft, world
<1>7. ASSUME NEW n \in Names, getPools(n) PROVE IInv'
  <2>1. PICK unread \in SUBSET Matches(n) :
          /\ faults' = faults + Cardinality(unread)
          /\ queue' = queue \ {n}
          /\ cur' = [name |-> n, read |-> pools, todo |-> Matches(n) \ unread, again |-> FALSE]
          /\ UNCHANGED <<world, pools, failing, cond, lost>>
    BY <1>7 DEF getPools
  <2>2. Matches(n) \in SUBSET Objects
    BY DEF Matches
  <2>3. Cardinality(unread) \in Nat
    BY <2>2, FS_Subset, FS_CardinalityType
  <2>4. cur' \in Requests
    BY <1>0, <2>1, <2>2 DEF TypeOK, Requests
  <2>5. TypeOK'
    BY <1>0, <2>1, <2>3, <2>4 DEF TypeOK, world
  <2> QED BY <2>1, <2>5, QuietKeeps DEF world
<1>8. ASSUME NEW o \in Objects, LeaveAlone(o) PROVE IInv'
  <2>1. PICK again \in BOOLEAN : Synced(o, again)
    BY <1>0, <1>8 DEF LeaveAlone, Bound, TypeOK, Statuses
  <2>2. TypeOK'
    BY <1>0, <1>8, <2>1, SyncedTypes DEF LeaveAlone, TypeOK, world
  <2> QED BY <1>8, <2>2, QuietKeeps DEF LeaveAlone, world
<1>9. ASSUME NEW o \in Objects, ReleaseFails(o) PROVE IInv'
  <2>1. Synced(o, TRUE)
    BY <1>9 DEF ReleaseFails
  <2>2. faults' \in Nat
    BY <1>0, <1>9 DEF ReleaseFails, TypeOK
  <2>3. TypeOK'
    BY <1>0, <1>9, <2>1, <2>2, SyncedTypes DEF ReleaseFails, TypeOK, world
  <2> QED BY <1>9, <2>3, QuietKeeps DEF ReleaseFails, world
<1>10. ASSUME NEW o \in Objects, releasePool(o) PROVE IInv'
  <2> DEFINE f == [d \in DPs |-> failing[d] \ {o}]
             D == {d \in DPs : failing[d] \cap {o} # {}}
             pool == releaseRecordedSlice(pools[o])
  <2>1. Report(f, D)
    BY <1>10 DEF releasePool, releasePoolsSyncedEntries
  <2>2. f \in [DPs -> SUBSET Objects] /\ D \in SUBSET DPs
    BY <1>0 DEF TypeOK
  <2>3. /\ failing' \in [DPs -> SUBSET Objects]
        /\ cond' \in [DPs -> (SUBSET Objects) \cup {None}]
        /\ lost' \in Nat
    <3> HIDE DEF f, D
    <3> QED BY <1>0, <2>1, <2>2, ReportTypes
  <2>4. /\ pool \in Pools
        /\ Sorted(pool, pins[o])
        /\ pool.bind = pools[o].bind
    BY ReleaseSorts DEF IInv, TypeOK
  <2> HIDE DEF f, D, pool
  <2>5. /\ pools' = [pools EXCEPT ![o] = pool]
        /\ queue' = queue \cup Wakes(o, pool)
        /\ Synced(o, FALSE)
        /\ UNCHANGED <<world, faults>>
    BY <1>10 DEF releasePool, pool
  <2>6. TypeOK'
    BY <1>0, <2>3, <2>4, <2>5, SyncedTypes DEF TypeOK, world, Wakes
  <2>7. ~Bound(pool)
    BY <1>10, <2>4 DEF releasePool, Bound
  <2> QED BY <2>4, <2>5, <2>6, <2>7, WriteKeeps DEF world
<1>11. ASSUME NEW o \in Objects, NEW d \in DPs, NEW failed \in BOOLEAN,
              updatePoolsSyncedCondition(d, o, failed)
       PROVE  /\ failing' \in [DPs -> SUBSET Objects]
              /\ cond' \in [DPs -> (SUBSET Objects) \cup {None}]
              /\ lost' \in Nat
  <2> DEFINE f == [failing EXCEPT ![d] = IF failed THEN @ \cup {o} ELSE @ \ {o}]
  <2>1. Report(f, {d})
    BY <1>11 DEF updatePoolsSyncedCondition
  <2>2. f \in [DPs -> SUBSET Objects]
    BY <1>0 DEF TypeOK
  <2> HIDE DEF f
  <2> QED BY <1>0, <2>1, <2>2, ReportTypes
<1>12. ASSUME NEW o \in Objects, SyncFails(o) PROVE IInv'
  <2>1. /\ Synced(o, TRUE)
        /\ Bound(cur.read[o])
        /\ updatePoolsSyncedCondition(cur.read[o].bind.dp, o, TRUE)
        /\ UNCHANGED <<world, pools, queue>>
    BY <1>12 DEF SyncFails, HasPrefix
  <2>2. cur.read[o].bind.dp \in DPs
    BY <1>0, <2>1, SyncedTypes, BoundBinding
  <2>3. faults' \in Nat
    BY <1>0, <1>12 DEF SyncFails, TypeOK
  <2>4. TypeOK'
    BY <1>0, <2>1, <2>2, <2>3, <1>11, SyncedTypes DEF TypeOK, world
  <2> QED BY <2>1, <2>4, QuietKeeps DEF world
<1>13. ASSUME NEW o \in Objects, SyncSucceeds(o) PROVE IInv'
  <2> DEFINE pool == cur.read[o]
             dp == dps[pool.bind.dp]
             synced == syncOwnedList(pool, dp)
  <2>1. /\ Synced(o, FALSE)
        /\ Bound(pool)
        /\ Buildable(pool.bind, dp)
        /\ updatePoolsSyncedCondition(pool.bind.dp, o, FALSE)
        /\ synced # pool => pools[o] = pool
        /\ pools' = IF synced = pool THEN pools ELSE [pools EXCEPT ![o] = synced]
        /\ queue' = IF synced = pool THEN queue ELSE queue \cup Wakes(o, synced)
        /\ UNCHANGED <<world, faults>>
    BY <1>13 DEF SyncSucceeds, HasPrefix
  <2>2. pool \in Pools /\ pool.bind \in Bindings /\ pool.bind.dp \in DPs /\ dp \in Statuses
    BY <1>0, <2>1, SyncedTypes, BoundBinding
  <2>3. /\ failing' \in [DPs -> SUBSET Objects]
        /\ cond' \in [DPs -> (SUBSET Objects) \cup {None}]
        /\ lost' \in Nat
    BY <2>1, <2>2, <1>11
  <2>4. CASE synced = pool
    <3>1. TypeOK'
      BY <1>0, <2>1, <2>3, <2>4, SyncedTypes DEF TypeOK, world
    <3> QED BY <2>1, <2>4, <3>1, QuietKeeps DEF world
  <2>5. CASE synced # pool
    <3>1. pools[o] = pool /\ Sorted(pool, pins[o]) /\ pins[o] \in SUBSET Entries
      BY <2>1, <2>5 DEF IInv, TypeOK
    <3>2. ~pool.recorded => pins[o] \subseteq OptIn
      BY <2>1, <3>1 DEF IInv, OptsInCleanly
    <3>3. /\ synced \in Pools
          /\ Sorted(synced, pins[o])
          /\ synced.recorded
      BY <2>1, <2>2, <3>1, <3>2, SyncSorts
    <3> HIDE DEF synced
    <3>4. TypeOK'
      BY <1>0, <2>1, <2>3, <2>5, <3>3, SyncedTypes DEF TypeOK, world, Wakes
    <3> QED BY <2>1, <2>5, <3>3, <3>4, WriteKeeps DEF world
  <2> QED BY <2>4, <2>5
<1>14. ASSUME Return PROVE IInv'
  <2>1. cur' = Idle /\ cur \in Requests
    BY <1>0, <1>14 DEF Return, TypeOK
  <2>2. queue' \in SUBSET Names
    BY <1>0, <1>14, <2>1 DEF Return, TypeOK, Requests
  <2>4. TypeOK'
    BY <1>0, <1>14, <2>1, <2>2 DEF Return, TypeOK, world
  <2> QED BY <1>14, <2>4, QuietKeeps DEF Return, world
<1>15. CASE UNCHANGED vars
  BY <1>15 DEF vars, IInv, TypeOK, OptsInCleanly, Bound
<1> QED
  BY <1>1, <1>2, <1>3, <1>4, <1>5, <1>6, <1>7, <1>8, <1>9, <1>10, <1>12, <1>13, <1>14, <1>15
     DEF Next, Environment, Reconcile, syncPool, Written
-----------------------------------------------------------------------------
(* The ownership invariant holds in every reachable state, as long as a    *)
(* pool without a record is opted in with none of its user's entries       *)
(* inside a managed prefix.                                                *)
THEOREM Invariance ==
    ASSUME \A e \in OptIn : e \in Statics /\ Inside[e] = None
    PROVE  Spec => []IInv
<1>1. Init => IInv
  <2> SUFFICES ASSUME Init PROVE IInv
    OBVIOUS
  <2>1. NoPool \in Pools /\ NoDP \in Statuses
    <3>1. [l \in Lists |-> None] \in [Lists -> Prefixes \cup {None}]
      OBVIOUS
    <3> QED BY <3>1 DEF NoPool, Pools, NoDP, Statuses
  <2>2. TypeOK
    <3>1. cond \in [DPs -> (SUBSET Objects) \cup {None}]
      BY Zenon DEF Init
    <3>2. failing \in [DPs -> SUBSET Objects]
      BY DEF Init
    <3> QED BY <2>1, <3>1, <3>2 DEF Init, TypeOK
  <2>3. \A o \in Objects : Sorted(pools[o], pins[o]) /\ ~Bound(pools[o])
    BY DEF Init, Sorted, NoPool, Bound
  <2> QED BY <2>2, <2>3 DEF IInv, OptsInCleanly
<1>2. IInv /\ [Next]_vars => IInv'
  BY Induction
<1> QED BY <1>1, <1>2, PTL DEF Spec

(* Every variable of the pool controller keeps its type.                   *)
THEOREM TypeCorrect ==
    ASSUME \A e \in OptIn : e \in Statics /\ Inside[e] = None
    PROVE  Spec => []TypeOK
<1>1. IInv => TypeOK
  BY DEF IInv
<1> QED BY <1>1, Invariance, PTL

(* syncOwnedList and releaseRecordedSlice never take away an entry the     *)
(* user wrote.                                                             *)
THEOREM PinsAreKept ==
    ASSUME \A e \in OptIn : e \in Statics /\ Inside[e] = None
    PROVE  Spec => []PinsKept
<1>1. IInv => PinsKept
  BY DEF IInv, Sorted, PinsKept
<1> QED BY <1>1, Invariance, PTL

(* Every entry of a pool that is not the user's is one the ownership       *)
(* record names, so the operator can take it back.                         *)
THEOREM NoLeak ==
    ASSUME \A e \in OptIn : e \in Statics /\ Inside[e] = None
    PROVE  Spec => []NothingLeaks
<1>1. IInv => NothingLeaks
  BY DEF IInv, Sorted, NothingLeaks
<1> QED BY <1>1, Invariance, PTL

(* The record never names an entry the user wrote.                         *)
THEOREM PinsAreUnclaimed ==
    ASSUME \A e \in OptIn : e \in Statics /\ Inside[e] = None
    PROVE  Spec => []PinsUnclaimed
<1>1. IInv => PinsUnclaimed
  BY DEF IInv, Sorted, PinsUnclaimed
<1> QED BY <1>1, Invariance, PTL
=============================================================================
