---------------------- MODULE DynamicPrefixController ----------------------
(***************************************************************************)
(* The DynamicPrefix reconciler (internal/controller/                      *)
(* dynamicprefix_controller.go) for one resource name: the whole Reconcile *)
(* handler, the receiver it keeps in memory, the informer cache it reads   *)
(* and the object in the API server it writes.                             *)
(*                                                                         *)
(* The receiver is the environment here: it may acquire, change, fail to   *)
(* renew or expire a prefix between any two steps of the handler.  Its own *)
(* behaviour is the subject of RAReceiver, DHCPv6PDReceiver and            *)
(* CompositeReceiver.                                                      *)
(***************************************************************************)
EXTENDS Naturals, FiniteSets

CONSTANTS
    Prefixes,       \* prefixes an upstream may delegate
    NoPrefix,       \* "" in status, nil in a receiver
    Acquisitions,   \* values of spec.acquisition
    Accepts,        \* Accepts[a]: prefixes prefixFilter of a lets through
    Layouts,        \* values of spec.subnets and spec.addressRanges together
    SubnetsFit,     \* <<l, p>>: the subnets of layout l can be cut from p
    RangesFit,      \* <<l, p>>: the address ranges of layout l fit in p
    Histories,      \* values of spec.transition.maxPrefixHistory; 0 = unset
    NoLayout,       \* status.subnets / status.addressRanges never computed
    NoReceiver,     \* no entry in the reconciler's receivers map
    CacheMayLag,    \* may a reconcile read an informer cache behind the API?
    MaxFaults       \* bound on failed writes, failed creations and restarts

ASSUME PrefixAssumption == NoPrefix \notin Prefixes
ASSUME ReceiverAssumption ==
    NoReceiver \notin [acq: Acquisitions, held: Prefixes \cup {NoPrefix}, failing: BOOLEAN]
ASSUME LayoutAssumption == NoLayout \notin [layout: Layouts, base: Prefixes]
ASSUME HistoryAssumption == Histories \subseteq Nat
ASSUME FaultAssumption == MaxFaults \in Nat

VARIABLES
    obj,      \* the DynamicPrefix in the API server: phase, spec, status
    cache,    \* the informer's copy of it
    recv,     \* receivers[name] with receiverSpecs[name], or NoReceiver
    pass,     \* the reconcile in progress: the object it fetched and the
              \* health it read, or idle
    due,      \* a request is queued or a RequeueAfter timer is armed
    faults

vars == <<obj, cache, recv, pass, due, faults>>

-----------------------------------------------------------------------------
(* Values *)

Specs == [acq: Acquisitions, layout: Layouts, maxHistory: Histories]

\* An entry of status.history; age counts the entries appended after it.
Entries == [prefix: Prefixes, age: Nat]

\* status.subnets or status.addressRanges: what it was computed from.
Derived == [layout: Layouts, base: Prefixes] \cup {NoLayout}

AcquiredReasons == {"unset", "waiting", "acquisitionFailed", "creationFailed",
                    "rejected", "acquired"}
DegradedReasons == {"unset", "healthy", "subnets", "ranges", "renewal"}

Statuses == [current: Prefixes \cup {NoPrefix}, history: SUBSET Entries,
             subnets: Derived, ranges: Derived,
             acquired: AcquiredReasons, degraded: DegradedReasons]

EmptyStatus == [current |-> NoPrefix, history |-> {}, subnets |-> NoLayout,
                ranges |-> NoLayout, acquired |-> "unset", degraded |-> "unset"]

Phases == {"absent", "bare", "live", "deleting"}
Objects == [phase: Phases, spec: Specs, status: Statuses]

Receivers == [acq: Acquisitions, held: Prefixes \cup {NoPrefix}, failing: BOOLEAN]

Idle == [active |-> FALSE]
Passes == [active: {TRUE}, dp: Objects, err: BOOLEAN]

-----------------------------------------------------------------------------
(* handlePrefixChange, calculateSubnets, calculateAddressRanges *)

MaxHistory(spec) == IF spec.maxHistory > 0 THEN spec.maxHistory ELSE 2

\* Mutant: only earlier entries for the old prefix are dropped.
AfterChangeKeepsNew(hist, old, new, limit) ==
    LET kept == {e \in hist : e.prefix # old}
        rank(e) == 1 + Cardinality({f \in kept : f.age < e.age})
    IN  {e \in {[prefix |-> old, age |-> 0]} \cup
              {[prefix |-> e.prefix, age |-> rank(e)] : e \in kept} : e.age < limit}

\* Mutant: the trim keeps the oldest entries instead of the newest.
AfterChangeTrimsNewest(hist, old, new, limit) ==
    LET kept == {e \in hist : e.prefix \notin {old, new}}
        rank(e) == 1 + Cardinality({f \in kept : f.age < e.age})
    IN  {e \in {[prefix |-> old, age |-> 0]} \cup
              {[prefix |-> e.prefix, age |-> rank(e)] : e \in kept} :
            e.age >= 1 + Cardinality(kept) - limit}

\* The old prefix joins history as its newest entry, after earlier entries
\* for it or for the new prefix are dropped; the oldest beyond the limit go.
AfterChange(hist, old, new, limit) ==
    LET kept == {e \in hist : e.prefix \notin {old, new}}
        rank(e) == 1 + Cardinality({f \in kept : f.age < e.age})
        appended == {[prefix |-> old, age |-> 0]} \cup
                    {[prefix |-> e.prefix, age |-> rank(e)] : e \in kept}
    IN  {e \in appended : e.age < limit}

handlePrefixChange(status, spec, new) ==
    IF status.current \in {NoPrefix, new} THEN status.history
    ELSE AfterChange(status.history, status.current, new, MaxHistory(spec))

\* Mutant: ranges that fit clear Degraded although the subnets failed.
DegradedIgnoresSubnets(spec, p, err) ==
    CASE err                                 -> "renewal"
      [] <<spec.layout, p>> \notin RangesFit -> "ranges"
      [] OTHER                               -> "healthy"

DegradedAfter(spec, p, err) ==
    CASE err                                -> "renewal"
      [] <<spec.layout, p>> \notin RangesFit  -> "ranges"
      [] <<spec.layout, p>> \notin SubnetsFit -> "subnets"
      [] OTHER                              -> "healthy"

\* The status a pass computes when the receiver holds an accepted prefix.
Adopted(status, spec, p, err) ==
    LET new == [layout |-> spec.layout, base |-> p]
    IN  [current  |-> p,
         history  |-> handlePrefixChange(status, spec, p),
         subnets  |-> IF <<spec.layout, p>> \in SubnetsFit THEN new ELSE status.subnets,
         ranges   |-> IF <<spec.layout, p>> \in RangesFit THEN new ELSE status.ranges,
         acquired |-> "acquired",
         degraded |-> DegradedAfter(spec, p, err)]

\* The status a pass computes after reading CurrentPrefix() = p.
NewStatus(dp, p, err) ==
    CASE p = NoPrefix ->
           [dp.status EXCEPT !.acquired = IF err THEN "acquisitionFailed" ELSE "waiting"]
      [] p # NoPrefix /\ p \notin Accepts[dp.spec.acq] ->
           [dp.status EXCEPT !.acquired = "rejected"]
      [] OTHER -> Adopted(dp.status, dp.spec, p, err)

-----------------------------------------------------------------------------
Init ==
    /\ obj \in [phase: {"absent", "bare"}, spec: Specs, status: {EmptyStatus}]
    /\ cache = obj
    /\ recv = NoReceiver
    /\ pass = Idle
    /\ due = TRUE
    /\ faults = 0

(***************************************************************************)
(* API server writes.  Update carries the resourceVersion the pass read    *)
(* and is refused when the object has moved on; the status Apply is forced *)
(* and carries none, so it lands on whatever the object is now.            *)
(***************************************************************************)
UpdateOrRetry(read, new) ==
    \/ /\ read = obj
       /\ obj' = new
       /\ UNCHANGED faults
    \/ /\ read # obj
       /\ UNCHANGED <<obj, faults>>
    \/ /\ faults < MaxFaults
       /\ faults' = faults + 1
       /\ UNCHANGED obj

updateStatusIfChanged(dp, status) ==
    \/ /\ status = dp.status
       /\ UNCHANGED <<obj, faults>>
    \/ /\ status # dp.status
       /\ obj' = IF obj.phase = "absent" THEN obj ELSE [obj EXCEPT !.status = status]
       /\ UNCHANGED faults
    \/ /\ status # dp.status
       /\ faults < MaxFaults
       /\ faults' = faults + 1
       /\ UNCHANGED obj

\* A worker takes the request off the queue.  Without CacheMayLag the
\* informer has delivered everything written before it does.
Dequeue ==
    /\ due
    /\ ~pass.active
    /\ CacheMayLag \/ cache = obj

\* Mutant: NotFound returns without cleanupReceiver.
NotFoundKeepsReceiver ==
    /\ Dequeue
    /\ cache.phase = "absent"
    /\ due' = FALSE
    /\ UNCHANGED <<obj, cache, recv, pass, faults>>

\* NotFound: the receiver is torn down and nothing is requeued.
ReconcileNotFound ==
    /\ Dequeue
    /\ cache.phase = "absent"
    /\ recv' = NoReceiver
    /\ due' = FALSE
    /\ UNCHANGED <<obj, cache, pass, faults>>

\* A deletion timestamp: the receiver goes before the finalizer does.
ReconcileDeletion ==
    /\ Dequeue
    /\ cache.phase = "deleting"
    /\ recv' = NoReceiver
    /\ UpdateOrRetry(cache, [obj EXCEPT !.phase = "absent"])
    /\ due' = (obj' = obj)
    /\ UNCHANGED <<cache, pass>>

\* No finalizer yet: add it and come back in a second.
ReconcileAddFinalizer ==
    /\ Dequeue
    /\ cache.phase = "bare"
    /\ UpdateOrRetry(cache, [obj EXCEPT !.phase = "live"])
    /\ UNCHANGED <<cache, recv, pass, due>>

\* getOrCreateReceiver and receiverLastError: the receiver is reused while
\* spec.acquisition is the one that built it, and rebuilt otherwise.
ReconcileFetch ==
    /\ Dequeue
    /\ cache.phase = "live"
    /\ recv' = IF recv # NoReceiver /\ recv.acq = cache.spec.acq THEN recv
               ELSE [acq |-> cache.spec.acq, held |-> NoPrefix, failing |-> FALSE]
    /\ pass' = [active |-> TRUE, dp |-> cache, err |-> recv'.failing]
    /\ due' = FALSE
    /\ UNCHANGED <<obj, cache, faults>>

\* The same, when CreateReceiver or Start fails: the previous receiver, if
\* any, is already stopped and forgotten.
ReconcileCreationFails ==
    /\ Dequeue
    /\ cache.phase = "live"
    /\ recv # NoReceiver => recv.acq # cache.spec.acq
    /\ faults < MaxFaults
    /\ recv' = NoReceiver
    /\ LET status == [cache.status EXCEPT !.acquired = "creationFailed"]
       IN  obj' = IF status # cache.status /\ obj.phase # "absent"
                    THEN [obj EXCEPT !.status = status] ELSE obj
    /\ faults' = faults + 1
    /\ UNCHANGED <<cache, pass, due>>

\* Mutant: the pass relies on events and arms no timer.
ApplyWithoutRequeue ==
    /\ pass.active
    /\ updateStatusIfChanged(pass.dp, NewStatus(pass.dp, recv.held, pass.err))
    /\ pass' = Idle
    /\ UNCHANGED <<cache, recv, due>>

\* The rest of the handler: read CurrentPrefix(), compute the status, apply
\* it, and requeue -- every path does, with RequeueAfter or with an error.
ReconcileApply ==
    /\ pass.active
    /\ updateStatusIfChanged(pass.dp, NewStatus(pass.dp, recv.held, pass.err))
    /\ pass' = Idle
    /\ due' = TRUE
    /\ UNCHANGED <<cache, recv>>

-----------------------------------------------------------------------------
(* The receiver takes any step PrefixReceiver allows, and some it does not *)
(* (a failure recorded together with a change of prefix).  An event may    *)
(* wake the reconciler or be dropped.                                      *)

ReceiverAcquires(p) ==
    /\ recv # NoReceiver
    /\ \E failing \in BOOLEAN : recv' = [recv EXCEPT !.held = p, !.failing = failing]
    /\ due' \in {due, TRUE}
    /\ UNCHANGED <<obj, cache, pass, faults>>

ReceiverFails ==
    /\ recv # NoReceiver
    /\ recv' = [recv EXCEPT !.failing = TRUE]
    /\ UNCHANGED <<obj, cache, pass, due, faults>>

ReceiverExpires ==
    /\ recv # NoReceiver
    /\ recv.held # NoPrefix
    /\ \E failing \in {recv.failing, TRUE} :
         recv' = [recv EXCEPT !.held = NoPrefix, !.failing = failing]
    /\ due' \in {due, TRUE}
    /\ UNCHANGED <<obj, cache, pass, faults>>

-----------------------------------------------------------------------------
(* The cluster: users, the informer, restarts of the operator *)

UserCreates(spec) ==
    /\ obj.phase = "absent"
    /\ obj' = [phase |-> "bare", spec |-> spec, status |-> EmptyStatus]
    /\ UNCHANGED <<cache, recv, pass, due, faults>>

UserEdits(spec) ==
    /\ obj.phase \in {"bare", "live"}
    /\ obj' = [obj EXCEPT !.spec = spec]
    /\ UNCHANGED <<cache, recv, pass, due, faults>>

UserDeletes ==
    /\ obj.phase \in {"bare", "live"}
    /\ obj' = [obj EXCEPT !.phase = IF obj.phase = "bare" THEN "absent" ELSE "deleting"]
    /\ UNCHANGED <<cache, recv, pass, due, faults>>

\* Someone takes the finalizer off by hand.
UserStripsFinalizer ==
    /\ obj.phase \in {"live", "deleting"}
    /\ obj' = [obj EXCEPT !.phase = IF obj.phase = "live" THEN "bare" ELSE "absent"]
    /\ UNCHANGED <<cache, recv, pass, due, faults>>

\* The watch delivers the object.  The predicate lets spec, finalizer and
\* deletion changes through and drops status-only updates.
InformerDelivers ==
    /\ cache # obj
    /\ cache' = obj
    /\ due' = (due \/ cache.phase # obj.phase \/ cache.spec # obj.spec)
    /\ UNCHANGED <<obj, recv, pass, faults>>

\* The process dies: receivers and the pass in progress are lost; the new
\* process lists every object and enqueues each of them.
OperatorRestarts ==
    /\ faults < MaxFaults
    /\ recv' = NoReceiver
    /\ pass' = Idle
    /\ cache' = obj
    /\ due' = TRUE
    /\ faults' = faults + 1
    /\ UNCHANGED obj

Reconcile ==
    \/ ReconcileNotFound
    \/ ReconcileDeletion
    \/ ReconcileAddFinalizer
    \/ ReconcileFetch
    \/ ReconcileCreationFails
    \/ ReconcileApply

Environment ==
    \/ \E p \in Prefixes : ReceiverAcquires(p)
    \/ ReceiverFails
    \/ ReceiverExpires
    \/ \E spec \in Specs : UserCreates(spec) \/ UserEdits(spec)
    \/ UserDeletes
    \/ UserStripsFinalizer
    \/ OperatorRestarts

Next == Reconcile \/ InformerDelivers \/ Environment

Spec == Init /\ [][Next]_vars

\* The workqueue hands out a queued or timed request eventually, the watch
\* delivers, and a pass that started finishes.  Nothing is assumed of the
\* upstream or of the user.
FairSpec ==
    /\ Spec
    /\ WF_vars(Reconcile)
    /\ WF_vars(InformerDelivers)

-----------------------------------------------------------------------------
(* Properties *)

TypeOK ==
    /\ obj \in Objects
    /\ cache \in Objects
    /\ recv \in Receivers \cup {NoReceiver}
    /\ pass \in Passes \cup {Idle}
    /\ due \in BOOLEAN
    /\ faults \in 0..MaxFaults

\* status.history never lists a prefix twice and never the current one, in
\* whatever order prefixes flap and however old the status a pass started
\* from.  The pool builders read current and history as disjoint sets.
HistoryDisjoint ==
    \A e \in obj.status.history :
        /\ e.prefix # obj.status.current
        /\ \A f \in obj.status.history : f.prefix = e.prefix => f = e

\* Degraded=False is a promise about the derived fields: the subnets and the
\* address ranges in status were cut from the prefix status calls current.
DerivedFollowsCurrent ==
    obj.status.degraded = "healthy" =>
        /\ obj.status.subnets # NoLayout /\ obj.status.subnets.base = obj.status.current
        /\ obj.status.ranges # NoLayout /\ obj.status.ranges.base = obj.status.current

DrainStep ==
    LET old == obj.status.current
    IN  (obj.phase # "absent" /\ old \notin {NoPrefix, obj'.status.current}) =>
            \E e \in obj'.status.history : e.prefix = old /\ e.age = 0

\* A prefix that stops being current starts draining: it is in history, as
\* its newest entry, from the very write that replaced it.
DrainsReplaced == [][DrainStep]_vars

\* Whatever a receiver settles on reaches status, even when every event it
\* sent was dropped: the RequeueAfter timer is enough.
Converges ==
    \A p \in Prefixes :
        <>[](/\ obj.phase = "live" /\ recv # NoReceiver
             /\ recv.acq = obj.spec.acq /\ recv.held = p /\ p \in Accepts[obj.spec.acq])
            => <>[](obj.status.current = p)

\* A resource that is gone does not keep a receiver running: not after a
\* deletion whose finalizer was stripped by hand, and not when a pass that
\* began before the deletion created the receiver.
OrphanReceiverCleaned ==
    obj.phase = "absent" ~> (recv = NoReceiver \/ obj.phase # "absent")

=============================================================================
