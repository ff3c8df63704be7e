----------------------- MODULE DHCPv6PDReceiverProofs -----------------------
(***************************************************************************)
(* The delegation client's promises for every server, lifetime, timeout    *)
(* and backoff.  The inductive invariant says, for each place runLoop can  *)
(* be in, how old the lease may be there together with what is left on the *)
(* timer, and what a failure with no time passed since implies.            *)
(***************************************************************************)
EXTENDS DHCPv6PDReceiver, TLAPS

AgeByPlace ==
    /\ pc = "granted" => lease.age = 0
    /\ pc = "top" => lease.age <= LastTest(lease)
    /\ pc = "sleep" => lease.age + timer <= lease.t1
    /\ pc = "renew" /\ late => lease.age + timer <= LastTest(lease) + ExchangeTimeout
    /\ pc = "renew" /\ ~late => /\ lease.t1 < lease.t2
                                /\ lease.age + timer <= (lease.t2 - 1) + ExchangeTimeout
    /\ pc = "retry" => /\ lease.t1 < lease.t2
                       /\ lease.age + timer <= LastTest(lease)
    /\ pc = "rebind" => lease.age + timer <= LastTest(lease) + 2 * ExchangeTimeout
    /\ pc = "drop" => lease.age <= LastTest(lease) + 2 * ExchangeTimeout

LeaseByPlace ==
    /\ pc \in {"new", "acquire", "backoff"} => lease = NoLease
    /\ pc \in {"granted", "renew", "rebind", "retry", "sleep", "drop"} => lease # NoLease
    /\ pc \in {"new", "off"} => ~started
    /\ lease # NoLease => AgeByPlace /\ backoff = BackoffMin

FailureByPlace ==
    justFailed =>
      /\ pc \notin {"new", "granted", "sleep"}
      /\ pc \in {"backoff", "retry"} => timer > 0
      /\ pc = "top" => lease = NoLease

IInv == TypeOK /\ LeaseByPlace /\ FailureByPlace

-----------------------------------------------------------------------------
(* nextBackoff stays inside its bounds.                                    *)
LEMMA BackoffBounded ==
    ASSUME NEW cur \in BackoffMin..BackoffMax
    PROVE  nextBackoff(cur) \in BackoffMin..BackoffMax
BY PDConstants DEF nextBackoff

(* A jittered delay is never zero.                                         *)
LEMMA JitterPositive ==
    ASSUME NEW d \in BackoffMin..BackoffMax, NEW t \in jittered(d)
    PROVE  t \in Nat /\ t > 0
BY PDConstants DEF jittered

(* A send leaves a channel within its capacity.                            *)
LEMMA SendTyped ==
    ASSUME NEW e \in EventTypes, send(e), events \in Queues
    PROVE  events' \in Queues
BY PDConstants DEF send, Queues

(* A lease taken from a reply is well formed and new.                      *)
LEMMA LeaseOfTyped ==
    ASSUME NEW r \in Replies
    PROVE  LeaseOf(r) \in Leases /\ LeaseOf(r).age = 0 /\ LeaseOf(r).net = r.net
BY PDConstants DEF LeaseOf, Leases

(* A lease is held exactly when it has a prefix.                           *)
LEMMA HeldHasPrefix ==
    ASSUME lease \in Leases \cup {NoLease}
    PROVE  /\ lease.net = NoPrefix <=> lease = NoLease
           /\ lease # NoLease => /\ lease \in Leases
                                 /\ lease.net \in Prefixes
                                 /\ lease.t1 \in Nat /\ lease.t2 \in Nat /\ lease.age \in Nat
                                 /\ lease.age <= AgeLimit
BY PDConstants DEF Leases, NoLease

(* The last T2 test of a lease comes no earlier than T1.                   *)
LEMMA LastTestTyped ==
    ASSUME NEW l \in Leases
    PROVE  LastTest(l) \in Nat /\ l.t1 <= LastTest(l)
BY PDConstants DEF LastTest, Leases

(* What Tick does to the lease: it ages by at most one tick.               *)
LEMMA TickAges ==
    ASSUME lease \in Leases \cup {NoLease}, Tick
    PROVE  /\ lease = NoLease => lease' = NoLease
           /\ lease # NoLease => /\ lease' \in Leases
                                 /\ lease'.net = lease.net
                                 /\ lease'.t1 = lease.t1 /\ lease'.t2 = lease.t2
                                 /\ lease'.age \in Nat /\ lease'.age <= lease.age + 1
<1>1. CASE lease = NoLease
  BY <1>1 DEF Tick, NoLease
<1>2. CASE lease # NoLease
  <2>1. lease' = [lease EXCEPT !.age = IF @ < AgeLimit THEN @ + 1 ELSE @]
    BY <1>2, HeldHasPrefix DEF Tick
  <2> QED
    BY <1>2, <2>1, HeldHasPrefix, PDConstants DEF Leases
<1> QED
  BY <1>1, <1>2

(* The initial state satisfies the inductive invariant.                    *)
LEMMA IInvInit == Init => IInv
<1> SUFFICES ASSUME Init PROVE IInv
  OBVIOUS
<1> USE DEF Init
<1>1. pc \in Places /\ announce \in EventTypes /\ timer \in Nat
  BY DEF Places, EventTypes
<1>2. backoff \in BackoffMin..BackoffMax /\ events \in Queues
  BY PDConstants DEF Queues
<1>3. TypeOK
  BY <1>1, <1>2, Zenon DEF TypeOK
<1>4. LeaseByPlace
  BY DEF LeaseByPlace
<1>5. FailureByPlace
  BY DEF FailureByPlace
<1> QED
  BY <1>3, <1>4, <1>5 DEF IInv

(* Every step of the client preserves its types.                           *)
LEMMA TypeNext == IInv /\ [Next]_vars => TypeOK'
<1> SUFFICES ASSUME TypeOK, [Next]_vars PROVE TypeOK'
  BY DEF IInv
<1> USE DEF TypeOK
<1>a. {"top", "granted", "drop", "acquire", "renew", "rebind", "backoff", "sleep", "retry", "off"}
        \subseteq Places
  BY DEF Places, Exchanges, Waits
<1>b. {"acquired", "changed", "renewed", "failed", "expired"} \subseteq EventTypes
  BY DEF EventTypes
<1>c. ExchangeTimeout \in Nat /\ RenewRetryInterval \in Nat /\ MaxSleep \in Nat
      /\ BackoffMin \in BackoffMin..BackoffMax
  BY PDConstants
<1>1. CASE Start
  BY <1>1, <1>a, <1>c DEF Start
<1>2. CASE Stop
  BY <1>2 DEF Stop
<1>3. ASSUME NEW r \in Replies, Grant(r) PROVE TypeOK'
  <2>1. lease' \in Leases
    BY <1>3, LeaseOfTyped DEF Grant
  <2>2. announce' \in EventTypes /\ backoff' \in BackoffMin..BackoffMax
    BY <1>3, <1>b, <1>c DEF Grant
  <2> QED
    BY <1>3, <1>a, <2>1, <2>2 DEF Grant
<1>4. CASE Announce
  BY <1>4, <1>a, SendTyped DEF Announce
<1>5. CASE AcquireFails
  BY <1>5, <1>a, <1>b, SendTyped, BackoffBounded DEF AcquireFails, sendError
<1>6. CASE RenewRefused
  BY <1>6, <1>a, <1>b, SendTyped DEF RenewRefused, sendError
<1>7. CASE RenewFails
  BY <1>7, <1>a, <1>b, <1>c, SendTyped DEF RenewFails, sendError
<1>8. CASE RebindFails
  BY <1>8, <1>a, <1>b, SendTyped DEF RebindFails, sendError
<1>9. CASE dropLease
  BY <1>9, <1>a, <1>b, SendTyped DEF dropLease
<1>10. CASE Turn
  <2>1. timer' \in Nat
    <3>1. CASE ~started
      BY <1>10, <3>1 DEF Turn
    <3>2. CASE started /\ lease.net = NoPrefix
      BY <1>10, <3>2, JitterPositive DEF Turn
    <3>3. CASE started /\ lease.net # NoPrefix
      <4>1. lease.t1 \in Nat /\ lease.age \in Nat
        BY <3>3, HeldHasPrefix
      <4> QED
        BY <1>10, <1>c, <3>3, <4>1 DEF Turn
    <3> QED
      BY <3>1, <3>2, <3>3
  <2>2. late' \in BOOLEAN
    <3>1. late' = late \/ late' = (lease.age >= lease.t2)
      BY <1>10, Zenon DEF Turn
    <3>2. (lease.age >= lease.t2) \in BOOLEAN
      OBVIOUS
    <3> QED
      BY <3>1, <3>2
  <2>3. pc' \in Places
    BY <1>10, <1>a DEF Turn
  <2> QED
    BY <1>10, <2>1, <2>2, <2>3 DEF Turn
<1>11. CASE WaitEnds
  BY <1>11, <1>a, <1>c DEF WaitEnds
<1>12. CASE Consume
  <2>1. events' \in Queues
    BY <1>12, PDConstants DEF Consume, Queues
  <2> QED
    BY <1>12, <2>1 DEF Consume
<1>13. CASE Tick
  <2>1. timer' \in Nat
    BY <1>13 DEF Tick
  <2> QED
    BY <1>13, <2>1, TickAges DEF Tick
<1>14. CASE UNCHANGED vars
  BY <1>14 DEF vars
<1> QED
  BY <1>1, <1>2, <1>3, <1>4, <1>5, <1>6, <1>7, <1>8, <1>9, <1>10, <1>11, <1>12, <1>13, <1>14
     DEF Next

(* Every step keeps the age the lease may have at each place.              *)
LEMMA LeaseNext == IInv /\ [Next]_vars => LeaseByPlace'
<1> SUFFICES ASSUME IInv, [Next]_vars PROVE LeaseByPlace'
  OBVIOUS
<1> USE DEF LeaseByPlace
<1>a. lease \in Leases \cup {NoLease} /\ timer \in Nat /\ pc \in Places /\ TypeOK /\ LeaseByPlace
  BY DEF IInv, TypeOK
<1>b. ExchangeTimeout \in Nat /\ RenewRetryInterval \in Nat
  BY PDConstants
<1>c. lease # NoLease => LastTest(lease) \in Nat /\ lease.t1 <= LastTest(lease)
  BY <1>a, LastTestTyped
<1>d. lease.net = NoPrefix <=> lease = NoLease
  BY <1>a, HeldHasPrefix
<1>e. lease # NoLease => lease.t1 \in Nat /\ lease.t2 \in Nat /\ lease.age \in Nat
  BY <1>a, HeldHasPrefix
<1>1. CASE Start
  BY <1>1, <1>a DEF Start
<1>2. CASE Stop
  BY <1>2, <1>a DEF Stop, AgeByPlace
<1>3. ASSUME NEW r \in Replies, Grant(r) PROVE LeaseByPlace'
  <2>1. lease'.age = 0 /\ lease'.net = r.net /\ r.net \in Prefixes
    BY <1>3, LeaseOfTyped, PDConstants DEF Grant
  <2>2. lease' # NoLease
    BY <2>1, PDConstants DEF NoLease
  <2>3. backoff' = BackoffMin
    BY <1>3, <1>a DEF Grant, Exchanges
  <2> QED
    BY <1>3, <2>1, <2>2, <2>3 DEF Grant, AgeByPlace
<1>4. CASE Announce
  BY <1>4, <1>a, <1>c DEF Announce, AgeByPlace
<1>5. CASE AcquireFails
  BY <1>5, <1>a DEF AcquireFails
<1>6. CASE RenewRefused
  BY <1>6, <1>a, <1>b, <1>c, <1>e DEF RenewRefused, AgeByPlace, LastTest
<1>7. CASE RenewFails
  BY <1>7, <1>a, <1>b, <1>c, <1>e DEF RenewFails, AgeByPlace, LastTest
<1>8. CASE RebindFails
  BY <1>8, <1>a, <1>b, <1>c, <1>e DEF RebindFails, AgeByPlace
<1>9. CASE dropLease
  BY <1>9 DEF dropLease
<1>10. CASE Turn
  <2>1. CASE ~started
    BY <1>10, <1>a, <2>1 DEF Turn, AgeByPlace
  <2>2. CASE started /\ lease.net = NoPrefix
    BY <1>10, <1>d, <2>2 DEF Turn
  <2>3. CASE started /\ lease.net # NoPrefix /\ lease.age >= lease.t1
    <3>1. pc' = "renew" /\ timer' = ExchangeTimeout /\ late' = (lease.age >= lease.t2)
          /\ lease' = lease /\ backoff' = backoff
      BY <1>10, <1>d, <1>e, <2>3 DEF Turn
    <3>2. lease.age <= LastTest(lease) /\ backoff = BackoffMin
      BY <1>10, <1>a, <1>d, <2>3 DEF Turn, AgeByPlace
    <3>3. CASE lease.age >= lease.t2
      <4>1. late' = TRUE
        BY <3>1, <3>3
      <4> QED
        BY <4>1, <1>b, <1>c, <1>d, <1>e, <2>3, <3>1, <3>2, <3>3 DEF AgeByPlace
    <3>4. CASE lease.age < lease.t2
      <4>1. ~(lease.age >= lease.t2)
        BY <1>d, <1>e, <2>3, <3>4
      <4>2. ~late'
        BY <3>1, <4>1, Zenon
      <4> QED
        BY <4>2, <1>b, <1>c, <1>d, <1>e, <2>3, <3>1, <3>2, <3>4 DEF AgeByPlace
    <3> QED
      BY <1>d, <1>e, <2>3, <3>3, <3>4
  <2>4. CASE started /\ lease.net # NoPrefix /\ lease.age < lease.t1
    BY <1>10, <1>a, <1>b, <1>c, <1>d, <1>e, <2>4, PDConstants DEF Turn, AgeByPlace
  <2> QED
    BY <1>10, <2>1, <2>2, <2>3, <2>4 DEF Turn
<1>11. CASE WaitEnds
  BY <1>11, <1>a, <1>c, <1>e DEF WaitEnds, Waits, AgeByPlace
<1>12. CASE Consume
  BY <1>12, <1>a DEF Consume, AgeByPlace
<1>13. CASE Tick
  <2>1. CASE lease = NoLease
    BY <1>13, <1>a, <2>1, TickAges DEF Tick
  <2>2. CASE lease # NoLease
    <3>1. /\ lease' # NoLease /\ lease'.t1 = lease.t1 /\ lease'.t2 = lease.t2
          /\ lease'.age \in Nat /\ lease'.age <= lease.age + 1
      BY <1>13, <1>a, <2>2, TickAges, HeldHasPrefix, PDConstants DEF NoLease
    <3>2. LastTest(lease') = LastTest(lease)
      BY <3>1 DEF LastTest
    <3>3. CASE pc \in {"new", "off"}
      BY <1>13, <1>a, <2>2, <3>1, <3>3 DEF Tick, AgeByPlace
    <3>4. CASE pc \in Waits \cup Exchanges /\ timer > 0
      <4>1. timer' = timer - 1 /\ lease'.age + timer' <= lease.age + timer
        BY <1>13, <1>a, <1>e, <2>2, <3>1, <3>4 DEF Tick, Waits, Exchanges
      <4> QED
        BY <1>13, <1>a, <1>b, <1>c, <1>e, <2>2, <3>1, <3>2, <3>4, <4>1
           DEF Tick, AgeByPlace, Waits, Exchanges
    <3> QED
      BY <1>13, <3>3, <3>4 DEF Tick
  <2> QED
    BY <2>1, <2>2
<1>14. CASE UNCHANGED vars
  BY <1>14, <1>a DEF vars, AgeByPlace
<1> QED
  BY <1>1, <1>2, <1>3, <1>4, <1>5, <1>6, <1>7, <1>8, <1>9, <1>10, <1>11, <1>12, <1>13, <1>14
     DEF Next

(* Every step keeps what a failure with no time passed since implies.      *)
LEMMA FailureNext == IInv /\ [Next]_vars => FailureByPlace'
<1> SUFFICES ASSUME IInv, [Next]_vars PROVE FailureByPlace'
  OBVIOUS
<1> USE DEF FailureByPlace
<1>a. TypeOK /\ LeaseByPlace /\ FailureByPlace
  BY DEF IInv
<1>b. lease.net = NoPrefix <=> lease = NoLease
  BY <1>a, HeldHasPrefix DEF TypeOK
<1>1. CASE Start
  BY <1>1, <1>a DEF Start
<1>2. CASE Stop
  BY <1>2, <1>a DEF Stop
<1>3. ASSUME NEW r \in Replies, Grant(r) PROVE FailureByPlace'
  BY <1>3 DEF Grant
<1>4. CASE Announce
  BY <1>4, <1>a DEF Announce
<1>5. CASE AcquireFails
  BY <1>5, <1>a DEF AcquireFails, sendError, LeaseByPlace
<1>6. CASE RenewRefused
  BY <1>6 DEF RenewRefused, sendError
<1>7. CASE RenewFails
  BY <1>7, PDConstants DEF RenewFails, sendError
<1>8. CASE RebindFails
  BY <1>8 DEF RebindFails, sendError
<1>9. CASE dropLease
  BY <1>9 DEF dropLease
<1>10. CASE Turn
  <2>1. pc' = "backoff" => timer' > 0
    BY <1>10, <1>a, JitterPositive DEF Turn, TypeOK
  <2> QED
    BY <1>10, <1>a, <1>b, <2>1 DEF Turn
<1>11. CASE WaitEnds
  BY <1>11, <1>a DEF WaitEnds, Waits
<1>12. CASE Consume
  BY <1>12, <1>a DEF Consume
<1>13. CASE Tick
  BY <1>13 DEF Tick
<1>14. CASE UNCHANGED vars
  BY <1>14, <1>a DEF vars
<1> QED
  BY <1>1, <1>2, <1>3, <1>4, <1>5, <1>6, <1>7, <1>8, <1>9, <1>10, <1>11, <1>12, <1>13, <1>14
     DEF Next

-----------------------------------------------------------------------------
(* The inductive invariant holds in every reachable state.                 *)
THEOREM Invariance == Spec => []IInv
<1>1. IInv /\ [Next]_vars => IInv'
  BY TypeNext, LeaseNext, FailureNext DEF IInv
<1> QED
  BY IInvInit, <1>1, PTL DEF Spec

(* The client's variables keep their types: the event channel its          *)
(* capacity, the backoff its bounds.                                       *)
THEOREM TypeCorrect == Spec => []TypeOK
<1>1. IInv => TypeOK
  BY DEF IInv
<1> QED
  BY Invariance, <1>1, PTL

(* runLoop gives a delegation it cannot extend up in bounded time, for     *)
(* every T1, T2, timeout and retry interval.                               *)
THEOREM GivesUpInTime == Spec => []LeaseBound
<1>1. IInv => LeaseBound
  <2> SUFFICES ASSUME IInv, started, lease.net # NoPrefix
               PROVE  lease.age <= LastTest(lease) + 2 * ExchangeTimeout
    BY DEF LeaseBound
  <2>1. /\ lease \in Leases /\ lease # NoLease /\ timer \in Nat
        /\ lease.t1 \in Nat /\ lease.t2 \in Nat /\ lease.age \in Nat
    BY HeldHasPrefix DEF IInv, TypeOK
  <2>2. LastTest(lease) \in Nat /\ lease.t1 <= LastTest(lease)
    BY <2>1, LastTestTyped
  <2>3. pc \in {"top", "granted", "drop", "renew", "rebind", "sleep", "retry"}
    BY <2>1 DEF IInv, TypeOK, LeaseByPlace, Places, Exchanges, Waits
  <2>4. AgeByPlace
    BY <2>1 DEF IInv, LeaseByPlace
  <2>5. pc = "renew" => lease.age + timer <= LastTest(lease) + ExchangeTimeout
    BY <2>1, <2>2, <2>4, PDConstants DEF AgeByPlace, LastTest
  <2> QED
    BY <2>1, <2>2, <2>3, <2>4, <2>5, PDConstants DEF AgeByPlace
<1> QED
  BY Invariance, <1>1, PTL

(* A client that holds a delegation is back at the shortest backoff.       *)
THEOREM RecoveryResetsBackoff == Spec => []QuickAfterRecovery
<1>1. IInv => QuickAfterRecovery
  BY HeldHasPrefix DEF IInv, TypeOK, LeaseByPlace, QuickAfterRecovery
<1> QED
  BY Invariance, <1>1, PTL

(* No failure is followed by another acquisition or renewal before time    *)
(* has passed.                                                             *)
THEOREM FailuresArePaced == Spec => NoBusyLoop
<1>1. IInv /\ [Next]_vars => [pc' \in {"acquire", "renew"} /\ pc' # pc => ~justFailed]_vars
  <2> SUFFICES ASSUME IInv, Next, pc' \in {"acquire", "renew"}, pc' # pc
               PROVE  ~justFailed
    BY Zenon
  <2>1. CASE Turn
    BY <2>1, HeldHasPrefix DEF Turn, IInv, TypeOK, FailureByPlace
  <2>2. CASE WaitEnds
    BY <2>2 DEF WaitEnds, IInv, FailureByPlace
  <2>3. CASE Start
    BY <2>3 DEF Start, IInv, TypeOK, FailureByPlace
  <2> QED
    BY <2>1, <2>2, <2>3 DEF Next, Stop, Grant, Announce, AcquireFails, RenewRefused, RenewFails,
       RebindFails, dropLease, Consume, Tick
<1> QED
  BY Invariance, <1>1, PTL DEF Spec, NoBusyLoop

(* The client implements the single-source receiver the reconciler reads.  *)
THEOREM ImplementsReceiver == Spec => ReceiverSpec
<1>1. Init => Receiver!Init
  BY DEF Init, Receiver!Init, NoLease
<1>2. IInv /\ [Next]_vars => [Receiver!Next]_Receiver!vars
  <2> SUFFICES ASSUME IInv, [Next]_vars PROVE [Receiver!Next]_Receiver!vars
    OBVIOUS
  <2> USE DEF Receiver!Next, Receiver!vars, Receiver!TakeUp, Receiver!Recover, Receiver!Fail, Receiver!GiveUp
  <2>0. failing \in BOOLEAN /\ lease \in Leases \cup {NoLease}
    BY DEF IInv, TypeOK
  <2>1. ASSUME NEW r \in Replies, Grant(r) PROVE Receiver!Next
    <3>1. lease'.net = r.net /\ r.net \in Prefixes /\ failing' = failing
      BY <2>1, LeaseOfTyped, PDConstants DEF Grant
    <3> QED
      BY <3>1
  <2>2. CASE Announce
    <3>1. lease' = lease /\ failing' = FALSE
      BY <2>2 DEF Announce
    <3>2. lease.net # NoPrefix
      BY <2>2, <2>0, HeldHasPrefix DEF Announce, IInv, LeaseByPlace, AgeByPlace
    <3> QED
      BY <3>1, <3>2
  <2>3. CASE AcquireFails \/ RenewRefused \/ RenewFails \/ RebindFails
    BY <2>3 DEF AcquireFails, RenewRefused, RenewFails, RebindFails, sendError
  <2>4. CASE dropLease
    BY <2>4 DEF dropLease, NoLease
  <2>5. CASE Start \/ Stop \/ Turn \/ WaitEnds \/ Consume
    BY <2>5 DEF Start, Stop, Turn, WaitEnds, Consume
  <2>6. CASE Tick
    <3>1. lease'.net = lease.net
      BY <2>0, <2>6, TickAges
    <3> QED
      BY <2>6, <3>1 DEF Tick
  <2>7. CASE UNCHANGED vars
    BY <2>7 DEF vars
  <2> QED
    BY <2>1, <2>2, <2>3, <2>4, <2>5, <2>6, <2>7 DEF Next
<1> QED
  BY Invariance, <1>1, <1>2, PTL DEF Spec, ReceiverSpec, Receiver!Spec
=============================================================================
