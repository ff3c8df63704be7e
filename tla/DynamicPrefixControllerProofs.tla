------------------- MODULE DynamicPrefixControllerProofs -------------------
(***************************************************************************)
(* TLAPS proofs about DynamicPrefixController, for every set of prefixes,  *)
(* acquisition settings and layouts, every history limit and an informer   *)
(* cache that may lag arbitrarily.                                         *)
(*                                                                         *)
(* A pass computes a whole status from the one it fetched, so the safety   *)
(* properties are carried by a predicate on ONE status, GoodStatus, that   *)
(* must hold of the three copies a status exists in: the object, the cache *)
(* and the pass in progress.                                               *)
(***************************************************************************)
EXTENDS DynamicPrefixController, FiniteSetTheorems, TLAPS

\* Entries are distinct by prefix, and none of them is for p.
Disjoint(hist, p) ==
    \A e \in hist : /\ e.prefix # p
                    /\ \A f \in hist : f.prefix = e.prefix => f = e

GoodStatus(s) ==
    /\ IsFiniteSet(s.history)
    /\ s.current = NoPrefix => s.history = {}
    /\ Disjoint(s.history, s.current)
    /\ s.degraded = "healthy" =>
            /\ s.subnets # NoLayout /\ s.subnets.base = s.current
            /\ s.ranges # NoLayout /\ s.ranges.base = s.current

IInv ==
    /\ TypeOK
    /\ GoodStatus(obj.status)
    /\ GoodStatus(cache.status)
    /\ pass.active => GoodStatus(pass.dp.status) /\ recv # NoReceiver

-----------------------------------------------------------------------------
\* What handlePrefixChange leaves behind when old gives way to new: a finite
\* history of entries, distinct by prefix, none of them for new.
LEMMA AfterChangeGood ==
    ASSUME NEW hist \in SUBSET Entries, IsFiniteSet(hist),
           NEW old \in Prefixes, NEW new \in Prefixes, old # new,
           Disjoint(hist, old), NEW limit \in Nat
    PROVE  /\ AfterChange(hist, old, new, limit) \in SUBSET Entries
           /\ IsFiniteSet(AfterChange(hist, old, new, limit))
           /\ Disjoint(AfterChange(hist, old, new, limit), new)
  <1> DEFINE kept == {e \in hist : e.prefix \notin {old, new}}
             rank(e) == 1 + Cardinality({f \in kept : f.age < e.age})
             first == [prefix |-> old, age |-> 0]
             moved(e) == [prefix |-> e.prefix, age |-> rank(e)]
             rest == {moved(e) : e \in kept}
             result == {e \in {first} \cup rest : e.age < limit}
  <1>1. IsFiniteSet(kept)
    BY FS_Subset
  <1>2. ASSUME NEW e \in kept PROVE rank(e) \in Nat
    <2>1. IsFiniteSet({f \in kept : f.age < e.age})
      BY <1>1, FS_Subset
    <2> QED BY <2>1, FS_CardinalityType
  <1>3. {first} \cup rest \in SUBSET Entries
    <2>1. first \in Entries
      BY DEF Entries
    <2>2. ASSUME NEW e \in kept PROVE moved(e) \in Entries
      <3>1. rank(e) \in Nat BY <1>2
      <3>2. e.prefix \in Prefixes BY DEF Entries
      <3> HIDE DEF rank
      <3> QED BY <3>1, <3>2 DEF Entries
    <2> QED BY <2>1, <2>2
  <1>4. IsFiniteSet(rest)
    <2> DEFINE g == [e \in kept |-> moved(e)]
    <2> HIDE DEF moved, kept
    <2>1. g \in Surjection(kept, rest)
      BY DEF Surjection
    <2> QED BY <2>1, <1>1, FS_Surjection
  <1>5. IsFiniteSet({first} \cup rest)
    BY <1>4, FS_AddElement, {first} \cup rest = rest \cup {first}
  <1>6. IsFiniteSet(result)
    BY <1>5, FS_Subset
  <1>7. ASSUME NEW e \in {first} \cup rest, NEW f \in {first} \cup rest
        PROVE  e.prefix # new /\ (f.prefix = e.prefix => f = e)
    <2>1. ASSUME NEW x \in kept PROVE moved(x).prefix = x.prefix /\ x.prefix \notin {old, new}
      OBVIOUS
    <2>2. ASSUME NEW x \in kept, NEW y \in kept, x.prefix = y.prefix PROVE x = y
      BY <2>2 DEF Disjoint
    <2>3. first.prefix = old
      OBVIOUS
    <2> HIDE DEF moved, kept, first
    <2>4. CASE e = first /\ f = first
      BY <2>3, <2>4
    <2>5. CASE e = first /\ f \in rest
      BY <2>1, <2>3, <2>5
    <2>6. CASE e \in rest /\ f = first
      BY <2>1, <2>3, <2>6
    <2>7. CASE e \in rest /\ f \in rest
      <3>1. PICK x \in kept : e = moved(x) BY <2>7
      <3>2. PICK y \in kept : f = moved(y) BY <2>7
      <3> QED BY <3>1, <3>2, <2>1, <2>2
    <2> QED BY <2>4, <2>5, <2>6, <2>7
  <1>8. AfterChange(hist, old, new, limit) = result
    BY DEF AfterChange
  <1> HIDE DEF first, rest
  <1> QED BY <1>3, <1>6, <1>7, <1>8 DEF Disjoint

\* The status a pass computes from a good one is well typed and good.
LEMMA NewStatusGood ==
    ASSUME NEW dp \in Objects, GoodStatus(dp.status),
           NEW p \in Prefixes \cup {NoPrefix}, NEW err \in BOOLEAN
    PROVE  NewStatus(dp, p, err) \in Statuses /\ GoodStatus(NewStatus(dp, p, err))
  <1> DEFINE s == dp.status
             l == dp.spec.layout
  <1>1. s \in Statuses /\ dp.spec \in Specs /\ l \in Layouts
    BY DEF Objects, Specs
  <1>2. CASE p = NoPrefix
    <2>1. NewStatus(dp, p, err) =
            [s EXCEPT !.acquired = IF err THEN "acquisitionFailed" ELSE "waiting"]
      BY <1>2 DEF NewStatus
    <2> QED BY <1>1, <2>1 DEF Statuses, AcquiredReasons, GoodStatus
  <1>3. CASE p # NoPrefix /\ p \notin Accepts[dp.spec.acq]
    <2>1. NewStatus(dp, p, err) = [s EXCEPT !.acquired = "rejected"]
      BY <1>3 DEF NewStatus
    <2> QED BY <1>1, <2>1 DEF Statuses, AcquiredReasons, GoodStatus
  <1>4. CASE p # NoPrefix /\ p \in Accepts[dp.spec.acq]
    <2> DEFINE h == handlePrefixChange(s, dp.spec, p)
               d == DegradedAfter(dp.spec, p, err)
               new == [layout |-> l, base |-> p]
    <2>1. NewStatus(dp, p, err) = Adopted(s, dp.spec, p, err)
      BY <1>4 DEF NewStatus
    <2>2. p \in Prefixes
      BY <1>4
    <2>3. h \in SUBSET Entries /\ IsFiniteSet(h) /\ Disjoint(h, p)
      <3>1. CASE s.current = p
        BY <1>1, <3>1 DEF handlePrefixChange, GoodStatus, Statuses
      <3>2. CASE s.current = NoPrefix
        BY <1>1, <3>2 DEF handlePrefixChange, GoodStatus, Statuses, Disjoint
      <3>3. CASE s.current \notin {NoPrefix, p}
        <4>1. s.current \in Prefixes /\ s.history \in SUBSET Entries
          BY <1>1, <3>3 DEF Statuses
        <4>2. MaxHistory(dp.spec) \in Nat
          BY <1>1, HistoryAssumption DEF Specs, MaxHistory
        <4>3. h = AfterChange(s.history, s.current, p, MaxHistory(dp.spec))
          BY <3>3 DEF handlePrefixChange
        <4> QED BY <4>1, <4>2, <4>3, <2>2, <3>3, AfterChangeGood DEF GoodStatus
      <3> QED BY <3>1, <3>2, <3>3
    <2>4. /\ d \in DegradedReasons
          /\ d = "healthy" => <<l, p>> \in SubnetsFit /\ <<l, p>> \in RangesFit
      BY DEF DegradedAfter, DegradedReasons
    <2>5. new \in Derived /\ new # NoLayout
      BY <1>1, <2>2, LayoutAssumption DEF Derived
    <2> HIDE DEF h, d
    <2> QED BY <1>1, <1>4, <2>1, <2>2, <2>3, <2>4, <2>5
         DEF Adopted, Statuses, AcquiredReasons, GoodStatus, h, d
  <1> QED BY <1>2, <1>3, <1>4

\* The status a created resource starts with is good.
LEMMA EmptyStatusGood == EmptyStatus \in Statuses /\ GoodStatus(EmptyStatus)
  BY FS_EmptySet DEF EmptyStatus, Statuses, GoodStatus, Disjoint, Derived,
                     AcquiredReasons, DegradedReasons

\* The initial states satisfy the inductive invariant.
LEMMA IInvInit == Init => IInv
  <1> SUFFICES ASSUME Init PROVE IInv
    OBVIOUS
  <1>1. obj \in Objects /\ cache \in Objects
    BY EmptyStatusGood DEF Init, Objects, Phases
  <1>2. GoodStatus(obj.status) /\ GoodStatus(cache.status)
    BY EmptyStatusGood DEF Init
  <1>3. TypeOK
    BY <1>1, FaultAssumption DEF Init, TypeOK
  <1>4. ~pass.active
    BY DEF Init, Idle
  <1> QED BY <1>2, <1>3, <1>4 DEF IInv

\* A status write, refused, failed or landed, keeps the object well typed and
\* its status good.
LEMMA StatusWriteGood ==
    ASSUME IInv, NEW dp \in Objects, NEW s \in Statuses, GoodStatus(s),
           updateStatusIfChanged(dp, s)
    PROVE  obj' \in Objects /\ GoodStatus(obj'.status) /\ faults' \in 0..MaxFaults
  <1>1. obj \in Objects /\ GoodStatus(obj.status) /\ faults \in 0..MaxFaults
    BY DEF IInv, TypeOK
  <1>2. obj' \in {obj, [obj EXCEPT !.status = s]}
    BY DEF updateStatusIfChanged
  <1>3. faults' \in 0..MaxFaults
    BY <1>1, FaultAssumption DEF updateStatusIfChanged
  <1> QED BY <1>1, <1>2, <1>3 DEF Objects

\* A finalizer update changes nothing but the phase.
LEMMA UpdateGood ==
    ASSUME IInv, NEW phase \in Phases,
           UpdateOrRetry(cache, [obj EXCEPT !.phase = phase])
    PROVE  obj' \in Objects /\ GoodStatus(obj'.status) /\ faults' \in 0..MaxFaults
  <1>1. obj \in Objects /\ GoodStatus(obj.status) /\ faults \in 0..MaxFaults
    BY DEF IInv, TypeOK
  <1>2. obj' \in {obj, [obj EXCEPT !.phase = phase]}
    BY DEF UpdateOrRetry
  <1>3. faults' \in 0..MaxFaults
    BY <1>1, FaultAssumption DEF UpdateOrRetry
  <1> QED BY <1>1, <1>2, <1>3 DEF Objects

\* Every step of the controller, the receiver, the user and the API server
\* preserves the inductive invariant.
LEMMA IInvNext == IInv /\ [Next]_vars => IInv'
  <1> SUFFICES ASSUME IInv, [Next]_vars PROVE IInv'
    OBVIOUS
  <1> USE DEF IInv
  <1>0. /\ TypeOK /\ GoodStatus(obj.status) /\ GoodStatus(cache.status)
        /\ obj \in Objects /\ cache \in Objects /\ Idle.active = FALSE
    BY DEF TypeOK, Idle
  <1>1. CASE UNCHANGED vars
    BY <1>0, <1>1 DEF vars, TypeOK
  <1>2. CASE ReconcileNotFound
    BY <1>0, <1>2 DEF ReconcileNotFound, Dequeue, TypeOK
  <1>3. CASE ReconcileDeletion
    <2>1. obj' \in Objects /\ GoodStatus(obj'.status) /\ faults' \in 0..MaxFaults
      BY <1>3, UpdateGood DEF ReconcileDeletion, Phases
    <2>2. due' \in BOOLEAN /\ UNCHANGED <<cache, pass>> /\ recv' = NoReceiver /\ ~pass.active
      BY <1>3 DEF ReconcileDeletion, Dequeue
    <2> QED BY <1>0, <2>1, <2>2 DEF TypeOK
  <1>4. CASE ReconcileAddFinalizer
    <2>1. obj' \in Objects /\ GoodStatus(obj'.status) /\ faults' \in 0..MaxFaults
      BY <1>4, UpdateGood DEF ReconcileAddFinalizer, Phases
    <2>2. UNCHANGED <<cache, recv, pass, due>>
      BY <1>4 DEF ReconcileAddFinalizer
    <2> QED BY <1>0, <2>1, <2>2 DEF TypeOK
  <1>5. CASE ReconcileFetch
    <2>1. recv' \in Receivers
      BY <1>0, <1>5 DEF ReconcileFetch, TypeOK, Receivers, Objects, Specs
    <2>2. pass' \in Passes /\ pass'.dp = cache /\ recv' # NoReceiver
      BY <1>0, <1>5, <2>1, ReceiverAssumption DEF ReconcileFetch, Passes, Receivers
    <2>3. UNCHANGED <<obj, cache, faults>> /\ due' = FALSE
      BY <1>5 DEF ReconcileFetch
    <2> QED BY <1>0, <2>1, <2>2, <2>3 DEF TypeOK
  <1>6. CASE ReconcileCreationFails
    <2> DEFINE s == [cache.status EXCEPT !.acquired = "creationFailed"]
    <2>1. s \in Statuses /\ GoodStatus(s)
      BY <1>0 DEF Objects, Statuses, AcquiredReasons, GoodStatus
    <2>2. obj' \in {obj, [obj EXCEPT !.status = s]} /\ faults' = faults + 1 /\ faults < MaxFaults
      BY <1>6 DEF ReconcileCreationFails
    <2>3. UNCHANGED <<cache, pass, due>> /\ recv' = NoReceiver /\ ~pass.active
      BY <1>6 DEF ReconcileCreationFails, Dequeue
    <2> HIDE DEF s
    <2>4. obj' \in Objects /\ GoodStatus(obj'.status)
      BY <1>0, <2>1, <2>2 DEF Objects
    <2> QED BY <1>0, <2>2, <2>3, <2>4, FaultAssumption DEF TypeOK
  <1>7. CASE ReconcileApply
    <2>1. /\ pass.active /\ pass \in Passes /\ recv \in Receivers
          /\ GoodStatus(pass.dp.status)
      BY <1>0, <1>7 DEF ReconcileApply, TypeOK
    <2>2. pass.dp \in Objects /\ pass.err \in BOOLEAN /\ recv.held \in Prefixes \cup {NoPrefix}
      BY <2>1 DEF Passes, Receivers
    <2>3. /\ NewStatus(pass.dp, recv.held, pass.err) \in Statuses
          /\ GoodStatus(NewStatus(pass.dp, recv.held, pass.err))
      BY <2>1, <2>2, NewStatusGood
    <2>4. obj' \in Objects /\ GoodStatus(obj'.status) /\ faults' \in 0..MaxFaults
      BY <1>7, <2>2, <2>3, StatusWriteGood DEF ReconcileApply
    <2>5. UNCHANGED <<cache, recv>> /\ pass' = Idle /\ due' = TRUE
      BY <1>7 DEF ReconcileApply
    <2> QED BY <1>0, <2>4, <2>5 DEF TypeOK
  <1>8. CASE InformerDelivers
    BY <1>0, <1>8 DEF InformerDelivers, TypeOK
  <1>9. ASSUME NEW p \in Prefixes, ReceiverAcquires(p) PROVE IInv'
    <2>1. recv' \in Receivers /\ recv' # NoReceiver
      BY <1>0, <1>9, ReceiverAssumption DEF ReceiverAcquires, TypeOK, Receivers
    <2> QED BY <1>0, <1>9, <2>1 DEF ReceiverAcquires, TypeOK
  <1>10. CASE ReceiverFails
    <2>1. recv' \in Receivers /\ recv' # NoReceiver
      BY <1>0, <1>10, ReceiverAssumption DEF ReceiverFails, TypeOK, Receivers
    <2> QED BY <1>0, <1>10, <2>1 DEF ReceiverFails, TypeOK
  <1>11. CASE ReceiverExpires
    <2>1. recv' \in Receivers /\ recv' # NoReceiver
      BY <1>0, <1>11, ReceiverAssumption DEF ReceiverExpires, TypeOK, Receivers
    <2> QED BY <1>0, <1>11, <2>1 DEF ReceiverExpires, TypeOK
  <1>12. ASSUME NEW spec \in Specs, UserCreates(spec) PROVE IInv'
    <2>1. obj' \in Objects /\ GoodStatus(obj'.status)
      BY <1>12, EmptyStatusGood DEF UserCreates, Objects, Phases
    <2> QED BY <1>0, <1>12, <2>1 DEF UserCreates, TypeOK
  <1>13. ASSUME NEW spec \in Specs, UserEdits(spec) PROVE IInv'
    <2>1. obj' \in Objects /\ GoodStatus(obj'.status)
      BY <1>0, <1>13 DEF UserEdits, Objects
    <2> QED BY <1>0, <1>13, <2>1 DEF UserEdits, TypeOK
  <1>14. CASE UserDeletes
    <2>1. obj' \in Objects /\ GoodStatus(obj'.status)
      BY <1>0, <1>14 DEF UserDeletes, Objects, Phases
    <2> QED BY <1>0, <1>14, <2>1 DEF UserDeletes, TypeOK
  <1>15. CASE UserStripsFinalizer
    <2>1. obj' \in Objects /\ GoodStatus(obj'.status)
      BY <1>0, <1>15 DEF UserStripsFinalizer, Objects, Phases
    <2> QED BY <1>0, <1>15, <2>1 DEF UserStripsFinalizer, TypeOK
  <1>16. CASE OperatorRestarts
    BY <1>0, <1>16, FaultAssumption DEF OperatorRestarts, TypeOK
  <1> QED BY <1>1, <1>2, <1>3, <1>4, <1>5, <1>6, <1>7, <1>8, <1>9, <1>10, <1>11,
             <1>12, <1>13, <1>14, <1>15, <1>16 DEF Next, Reconcile, Environment

\* The inductive invariant holds in every reachable state.
THEOREM Invariance == Spec => []IInv
  BY IInvInit, IInvNext, PTL DEF Spec

-----------------------------------------------------------------------------
\* Every reachable state is well typed, whatever the bounds.
THEOREM TypeCorrect == Spec => []TypeOK
  <1>1. IInv => TypeOK
    BY DEF IInv
  <1> QED BY <1>1, Invariance, PTL

\* history never names the current prefix nor any prefix twice: through every
\* flap, restart, stale cache read and forced status write.
THEOREM HistoryIsDisjoint == Spec => []HistoryDisjoint
  <1>1. IInv => HistoryDisjoint
    BY DEF IInv, GoodStatus, Disjoint, HistoryDisjoint
  <1> QED BY <1>1, Invariance, PTL

\* Degraded=False always comes with subnets and ranges cut from the current
\* prefix.
THEOREM DerivedIsCurrent == Spec => []DerivedFollowsCurrent
  <1>1. IInv => DerivedFollowsCurrent
    BY DEF IInv, GoodStatus, DerivedFollowsCurrent
  <1> QED BY <1>1, Invariance, PTL

-----------------------------------------------------------------------------
(* With a cache that keeps up, a pass works on the status that is in the    *)
(* API server, or on that of an object deleted and created again since.     *)

FreshPass ==
    pass.active => obj.status = pass.dp.status \/ obj.status.current = NoPrefix

\* FreshPass is preserved when no reconcile reads a stale cache.
LEMMA FreshNext ==
    ASSUME ~CacheMayLag, IInv, FreshPass, [Next]_vars
    PROVE  FreshPass'
  <1>0. Idle.active = FALSE /\ obj \in Objects
    BY DEF Idle, IInv, TypeOK
  <1>1. CASE UNCHANGED vars
    BY <1>1 DEF vars, FreshPass
  <1>2. CASE Reconcile
    <2>1. CASE ReconcileFetch
      BY <2>1 DEF ReconcileFetch, Dequeue, FreshPass
    <2>2. CASE ReconcileApply
      BY <1>0, <2>2 DEF ReconcileApply, FreshPass
    <2>3. CASE ReconcileNotFound \/ ReconcileDeletion \/ ReconcileAddFinalizer \/ ReconcileCreationFails
      BY <2>3 DEF ReconcileNotFound, ReconcileDeletion, ReconcileAddFinalizer,
                  ReconcileCreationFails, Dequeue, FreshPass
    <2> QED BY <1>2, <2>1, <2>2, <2>3 DEF Reconcile
  <1>3. CASE InformerDelivers
    BY <1>3 DEF InformerDelivers, FreshPass
  <1>4. ASSUME NEW spec \in Specs, UserCreates(spec) PROVE FreshPass'
    BY <1>4 DEF UserCreates, EmptyStatus, FreshPass
  <1>5. ASSUME NEW spec \in Specs, UserEdits(spec) PROVE FreshPass'
    BY <1>0, <1>5 DEF UserEdits, FreshPass, Objects
  <1>6. CASE UserDeletes \/ UserStripsFinalizer
    BY <1>0, <1>6 DEF UserDeletes, UserStripsFinalizer, FreshPass, Objects
  <1>7. ASSUME NEW p \in Prefixes, ReceiverAcquires(p) PROVE FreshPass'
    BY <1>7 DEF ReceiverAcquires, FreshPass
  <1>8. CASE ReceiverFails \/ ReceiverExpires
    BY <1>8 DEF ReceiverFails, ReceiverExpires, FreshPass
  <1>9. CASE OperatorRestarts
    BY <1>0, <1>9 DEF OperatorRestarts, FreshPass
  <1> QED BY <1>1, <1>2, <1>3, <1>4, <1>5, <1>6, <1>7, <1>8, <1>9 DEF Next, Environment

\* Adopting p over another prefix puts that prefix at the head of history.
LEMMA AdoptedDrains ==
    ASSUME NEW s \in Statuses, NEW spec \in Specs, NEW p \in Prefixes, NEW err,
           s.current \notin {NoPrefix, p}
    PROVE  \E e \in Adopted(s, spec, p, err).history : e.prefix = s.current /\ e.age = 0
  <1> DEFINE e == [prefix |-> s.current, age |-> 0]
             limit == MaxHistory(spec)
  <1>1. limit \in Nat /\ 0 < limit
    <2>1. spec.maxHistory \in Nat
      BY HistoryAssumption DEF Specs
    <2> QED BY <2>1 DEF MaxHistory
  <1>2. Adopted(s, spec, p, err).history = AfterChange(s.history, s.current, p, limit)
    BY DEF Adopted, handlePrefixChange
  <1>3. e \in AfterChange(s.history, s.current, p, limit)
    <2> HIDE DEF limit
    <2> QED BY <1>1 DEF AfterChange
  <1> QED BY <1>2, <1>3

\* A step from a fresh pass drains what it replaces.
LEMMA DrainNext ==
    ASSUME ~CacheMayLag, IInv, FreshPass, [Next]_vars
    PROVE  [DrainStep]_vars
  <1> SUFFICES ASSUME Next, obj.phase # "absent",
                      obj.status.current \notin {NoPrefix, obj'.status.current}
               PROVE  \E e \in obj'.status.history : e.prefix = obj.status.current /\ e.age = 0
    BY DEF DrainStep, vars
  <1>0. obj \in Objects /\ obj.status \in Statuses /\ cache \in Objects
    BY DEF IInv, TypeOK, Objects
  <1>1. CASE ReconcileApply
    <2>0. pass.active /\ pass \in Passes /\ recv \in Receivers
      BY <1>1, Idle.active = FALSE DEF ReconcileApply, IInv, TypeOK, Idle
    <2>1. pass.active /\ pass.dp \in Objects /\ recv \in Receivers
      BY <2>0 DEF Passes
    <2>2. pass.dp.status = obj.status /\ pass.dp.spec \in Specs
      BY <2>1 DEF FreshPass, Objects
    <2> DEFINE s == NewStatus(pass.dp, recv.held, pass.err)
    <2>3. obj'.status = s
      BY <1>0, <1>1 DEF ReconcileApply, updateStatusIfChanged, Objects
    <2>4. recv.held # NoPrefix /\ recv.held \in Accepts[pass.dp.spec.acq]
      BY <1>0, <2>2, <2>3 DEF NewStatus, Statuses
    <2>5. s = Adopted(obj.status, pass.dp.spec, recv.held, pass.err) /\ recv.held \in Prefixes
      BY <2>1, <2>2, <2>4 DEF NewStatus, Receivers
    <2>6. s.current = recv.held
      BY <2>5 DEF Adopted
    <2> HIDE DEF s
    <2> QED BY <1>0, <2>2, <2>3, <2>5, <2>6, AdoptedDrains
  <1>2. CASE ReconcileCreationFails
    BY <1>0, <1>2 DEF ReconcileCreationFails, Dequeue, Objects, Statuses
  <1>3. CASE ReconcileDeletion \/ ReconcileAddFinalizer
    BY <1>0, <1>3 DEF ReconcileDeletion, ReconcileAddFinalizer, UpdateOrRetry, Objects
  <1>4. CASE ReconcileNotFound \/ ReconcileFetch \/ InformerDelivers
    BY <1>4 DEF ReconcileNotFound, ReconcileFetch, InformerDelivers
  <1>5. CASE Environment
    BY <1>0, <1>5 DEF Environment, ReceiverAcquires, ReceiverFails, ReceiverExpires, UserCreates,
                UserEdits, UserDeletes, UserStripsFinalizer, OperatorRestarts, Objects
  <1> QED BY <1>1, <1>2, <1>3, <1>4, <1>5 DEF Next, Reconcile

\* When reconciles read an up-to-date cache, no prefix ever stops being
\* current without entering history in the same write.
THEOREM ReplacedPrefixDrains ==
    ASSUME ~CacheMayLag
    PROVE  Spec => DrainsReplaced
  <1>1. Init => FreshPass
    BY DEF Init, FreshPass, Idle
  <1>2. IInv /\ FreshPass /\ [Next]_vars => FreshPass' /\ [DrainStep]_vars
    BY FreshNext, DrainNext
  <1> QED BY <1>1, <1>2, Invariance, PTL DEF Spec, DrainsReplaced

=============================================================================
