-------------------------- MODULE RAReceiverProofs --------------------------
(***************************************************************************)
(* The Router Advertisement receiver's promises for every link, lifetime   *)
(* and check interval.  The lease bound is inductive once the time to the  *)
(* watcher's next look is counted with the lease's age.                    *)
(***************************************************************************)
EXTENDS RAReceiver, WellFoundedInduction, TLAPS

\* The watcher's next look is never later than the bound allows.
AgeAtNextLook ==
    started /\ looked /\ held # NoLease => held.age + check <= held.valid + CheckInterval

IInv == TypeOK /\ AgeAtNextLook

-----------------------------------------------------------------------------
(* A send leaves a channel within its capacity.                            *)
LEMMA SendTyped ==
    ASSUME NEW e \in EventTypes, send(e), events \in Queues
    PROVE  events' \in Queues
BY RAConstants DEF send, Queues

(* A prefix is held exactly when there is a lease.                         *)
LEMMA HeldHasPrefix ==
    ASSUME held \in Leases \cup {NoLease}
    PROVE  /\ held.net = NoPrefix <=> held = NoLease
           /\ held # NoLease => /\ held \in Leases
                                /\ held.net \in Prefixes
                                /\ held.valid \in Nat \ {0} /\ held.age \in Nat
<1>1. Lifetimes \subseteq Nat /\ NoPrefix \notin Prefixes /\ AgeLimit \in Nat
  BY RAConstants DEF AgeLimit
<1>2. CASE held = NoLease
  BY <1>2 DEF NoLease
<1>3. CASE held \in Leases
  <2>1. held.net \in Prefixes /\ held.valid \in Lifetimes \ {0} /\ held.age \in 0..AgeLimit
    BY <1>3 DEF Leases
  <2>2. held.valid \in Nat \ {0}
    BY <1>1, <2>1
  <2>3. held.age \in Nat
    BY <1>1, <2>1
  <2>4. held.net # NoPrefix
    BY <1>1, <2>1
  <2> QED
    BY <1>3, <2>1, <2>2, <2>3, <2>4 DEF NoLease
<1> QED
  BY <1>2, <1>3

(* Applying a choice installs a new lease, clears the failure and keeps    *)
(* every type.                                                             *)
LEMMA UpdateTyped ==
    ASSUME TypeOK, NEW new \in Choices, updatePrefix(new)
    PROVE  /\ held' \in Leases /\ held' # NoLease
           /\ held'.net = new.net /\ held'.net \in Prefixes /\ held'.age = 0
           /\ failing' = FALSE
           /\ events' \in Queues
           /\ UNCHANGED <<started, verifyHopLimit, rejected, watcher, check, solicited, looked>>
<1>1. held' = [net |-> new.net, valid |-> new.valid, age |-> 0]
  BY DEF updatePrefix
<1>2. held' \in Leases /\ held'.net = new.net /\ held'.net \in Prefixes /\ held'.age = 0
  BY <1>1, RAConstants DEF Choices, Leases, AgeLimit
<1>3. held' # NoLease
  BY <1>2, RAConstants DEF NoLease
<1>4. PICK e \in EventTypes : send(e)
  BY DEF updatePrefix, EventTypes
<1>5. events' \in Queues
  BY <1>4, SendTyped DEF TypeOK
<1> QED
  BY <1>2, <1>3, <1>5 DEF updatePrefix, watch

(* What the receive loop sets aside from an advertisement is a choice.     *)
LEMMA ReceiveTyped ==
    ASSUME NEW m \in Advertisements, handling = NoChoice, Receive(m)
    PROVE  handling' \in Choices \cup {NoChoice}
<1>1. ASSUME NEW i \in DOMAIN m.options, Wins(m.options, i)
      PROVE  [net |-> m.options[i].net, valid |-> m.options[i].valid] \in Choices
  <2>1. m.options \in Seq(Options)
    BY RAConstants DEF Messages
  <2>2. m.options[i] \in Options
    BY <2>1
  <2>3. m.options[i].valid > 0
    BY <1>1 DEF Wins, Acceptable, Usable
  <2> QED
    BY <2>2, <2>3, RAConstants DEF Options, Choices
<1> QED
  BY <1>1 DEF Receive

(* What Tick does to the lease: it ages by at most one tick.               *)
LEMMA TickAges ==
    ASSUME held \in Leases \cup {NoLease}, Tick
    PROVE  /\ held = NoLease => held' = NoLease
           /\ held # NoLease => /\ held' \in Leases
                                /\ held'.net = held.net /\ held'.valid = held.valid
                                /\ held'.age \in Nat /\ held'.age <= held.age + 1
<1>1. CASE held = NoLease
  BY <1>1 DEF Tick, NoLease
<1>2. CASE held # NoLease
  <2>1. held' = [held EXCEPT !.age = IF @ < AgeLimit THEN @ + 1 ELSE @]
    BY <1>2, HeldHasPrefix DEF Tick
  <2>2. AgeLimit \in Nat
    BY RAConstants DEF AgeLimit
  <2> QED
    BY <1>2, <2>1, <2>2, HeldHasPrefix DEF Leases
<1> QED
  BY <1>1, <1>2

(* The initial state satisfies the inductive invariant.                    *)
LEMMA IInvInit == Init => IInv
<1> SUFFICES ASSUME Init PROVE IInv
  OBVIOUS
<1>1. check \in 0..CheckInterval /\ solicited \in 0..MaxSolicitations /\ events \in Queues
  BY RAConstants DEF Init, Queues
<1>2. TypeOK
  BY <1>1, Zenon DEF Init, TypeOK
<1>3. AgeAtNextLook
  BY DEF Init, AgeAtNextLook
<1> QED
  BY <1>2, <1>3 DEF IInv

(* Every step of every goroutine preserves the inductive invariant.        *)
LEMMA IInvNext == IInv /\ [Next]_vars => IInv'
<1> SUFFICES ASSUME TypeOK, AgeAtNextLook, [Next]_vars PROVE TypeOK' /\ AgeAtNextLook'
  BY DEF IInv
<1> USE DEF lease, reader, watch
<1>a. CheckInterval \in Nat \ {0} /\ MaxSolicitations \in Nat /\ CheckInterval \in 0..CheckInterval
      /\ 0 \in 0..MaxSolicitations
  BY RAConstants
<1>b. check \in 0..CheckInterval /\ held \in Leases \cup {NoLease}
  BY DEF TypeOK
<1>1. CASE Start
  BY <1>1, <1>a DEF Start, TypeOK, AgeAtNextLook
<1>2. CASE Stop
  BY <1>2 DEF Stop, TypeOK, AgeAtNextLook
<1>3. ASSUME NEW m \in Advertisements, Receive(m) PROVE TypeOK' /\ AgeAtNextLook'
  <2>1. handling' \in Choices \cup {NoChoice}
    BY <1>3, ReceiveTyped DEF Receive
  <2>2. rejected' \in BOOLEAN
    BY <1>3 DEF Receive
  <2> QED
    BY <1>3, <2>1, <2>2 DEF Receive, TypeOK, AgeAtNextLook
<1>4. CASE Handle
  <2>1. PICK new \in Choices : updatePrefix(new)
    BY <1>4 DEF Handle, TypeOK
  <2>2. handling' \in Choices \cup {NoChoice} /\ leftover' \subseteq Choices \cup {NoChoice}
    BY <1>4 DEF Handle, TypeOK
  <2>3. TypeOK'
    BY <2>1, <2>2, UpdateTyped DEF TypeOK
  <2>4. held'.valid \in Nat
    BY <2>1, UpdateTyped, RAConstants DEF Leases
  <2>5. held'.age = 0 /\ check' = check
    BY <2>1, UpdateTyped
  <2>6. AgeAtNextLook'
    BY <2>4, <2>5, <1>a, <1>b DEF AgeAtNextLook
  <2> QED
    BY <2>3, <2>6
<1>5. CASE ReadError
  BY <1>5, SendTyped DEF ReadError, TypeOK, AgeAtNextLook, EventTypes
<1>6. CASE CheckLease
  <2>1. TypeOK'
    BY <1>6, <1>a DEF CheckLease, TypeOK
  <2>2. AgeAtNextLook'
    <3>1. CASE Expired
      BY <1>6, <3>1 DEF CheckLease, AgeAtNextLook
    <3>2. CASE ~Expired
      BY <1>6, <1>a, <1>b, <3>2, HeldHasPrefix DEF CheckLease, AgeAtNextLook, Expired
    <3> QED
      BY <3>1, <3>2
  <2> QED
    BY <2>1, <2>2
<1>7. CASE RecordExpiry
  BY <1>7 DEF RecordExpiry, TypeOK, AgeAtNextLook
<1>8. CASE SendExpiry
  BY <1>8, SendTyped DEF SendExpiry, TypeOK, AgeAtNextLook, EventTypes
<1>9. CASE Solicit
  <2>1. solicited' \in 0..MaxSolicitations
    BY <1>9, <1>a DEF Solicit, TypeOK
  <2> QED
    BY <1>9, <2>1 DEF Solicit, TypeOK, AgeAtNextLook
<1>10. CASE Consume
  <2>1. events' \in Queues
    BY <1>10, RAConstants DEF Consume, TypeOK, Queues
  <2> QED
    BY <1>10, <2>1 DEF Consume, TypeOK, AgeAtNextLook
<1>11. CASE Tick
  <2>1. check' \in 0..CheckInterval
    BY <1>11, <1>a, <1>b DEF Tick
  <2>2. TypeOK'
    BY <1>11, <2>1, <1>b, TickAges DEF Tick, TypeOK
  <2>3. AgeAtNextLook'
    BY <1>11, <1>a, <1>b, TickAges, HeldHasPrefix DEF Tick, AgeAtNextLook
  <2> QED
    BY <2>2, <2>3
<1>12. CASE UNCHANGED vars
  BY <1>12 DEF vars, TypeOK, AgeAtNextLook
<1> QED
  BY <1>1, <1>2, <1>3, <1>4, <1>5, <1>6, <1>7, <1>8, <1>9, <1>10, <1>11, <1>12 DEF Next

-----------------------------------------------------------------------------
(* The inductive invariant holds in every reachable state.                 *)
THEOREM Invariance == Spec => []IInv
BY IInvInit, IInvNext, PTL DEF Spec

(* The receiver's variables keep their types: every lease has a positive   *)
(* lifetime, and the event channel never exceeds its capacity.             *)
THEOREM TypeCorrect == Spec => []TypeOK
<1>1. IInv => TypeOK
  BY DEF IInv
<1> QED
  BY Invariance, <1>1, PTL

(* watchLeaseExpiry bounds how long an advertisement outlives its valid    *)
(* lifetime, for every lifetime and every check interval.                  *)
THEOREM GivesUpInTime == Spec => []LeaseBound
<1>1. IInv => LeaseBound
  BY HeldHasPrefix, RAConstants DEF IInv, TypeOK, AgeAtNextLook, LeaseBound
<1> QED
  BY Invariance, <1>1, PTL

(* The receiver implements the single-source receiver the reconciler       *)
(* reads.                                                                  *)
THEOREM ImplementsReceiver == Spec => ReceiverSpec
<1>1. Init => Receiver!Init
  BY DEF Init, Receiver!Init, NoLease
<1>2. IInv /\ [Next]_vars => [Receiver!Next]_Receiver!vars
  <2> SUFFICES ASSUME TypeOK, [Next]_vars PROVE [Receiver!Next]_Receiver!vars
    BY DEF IInv
  <2> USE DEF Receiver!Next, Receiver!vars, Receiver!TakeUp, Receiver!Recover,
              Receiver!Fail, Receiver!GiveUp, lease, reader, watch
  <2>1. CASE Handle
    <3>1. PICK new \in Choices : updatePrefix(new)
      BY <2>1 DEF Handle, TypeOK
    <3> QED
      BY <3>1, UpdateTyped
  <2>2. CASE ReadError
    BY <2>2 DEF ReadError
  <2>3. CASE CheckLease
    BY <2>3 DEF CheckLease, NoLease
  <2>4. CASE RecordExpiry
    BY <2>4 DEF RecordExpiry
  <2>5. CASE Tick
    <3>1. held'.net = held.net
      BY <2>5, TickAges DEF TypeOK
    <3> QED
      BY <2>5, <3>1 DEF Tick
  <2>6. CASE Start \/ Stop \/ SendExpiry \/ Solicit \/ Consume
    BY <2>6 DEF Start, Stop, SendExpiry, Solicit, Consume
  <2>7. ASSUME NEW m \in Advertisements, Receive(m) PROVE [Receiver!Next]_Receiver!vars
    BY <2>7 DEF Receive
  <2>8. CASE UNCHANGED vars
    BY <2>8 DEF vars
  <2> QED
    BY <2>1, <2>2, <2>3, <2>4, <2>5, <2>6, <2>7, <2>8 DEF Next
<1> QED
  BY Invariance, <1>1, <1>2, PTL DEF Spec, ReceiverSpec, Receiver!Spec

-----------------------------------------------------------------------------
(* handleRouterAdvertisement: induction over the options, as the argument  *)
(* from the least turn of the loop at which something would go wrong.      *)
LEMMA LeastTurn ==
    ASSUME NEW T \in SUBSET Nat, T # {}
    PROVE  \E n \in T : \A k \in T : n <= k
<1> DEFINE Less == OpToRel(<, Nat)
<1>1. IsWellFoundedOn(Less, Nat)
  BY NatLessThanWellFounded
<1>2. \A k, n \in Nat : k < n => <<k, n>> \in Less
  BY DEF OpToRel
<1> HIDE DEF Less
<1>3. PICK n \in T : \A k \in T : <<k, n>> \notin Less
  BY <1>1, WFMin
<1>4. \A k \in T : ~(k < n)
  BY <1>2, <1>3
<1> QED
  BY <1>4

\* f is what the loop has chosen after each of its first m turns.
Runs(options, f, m) ==
    f = [n \in 0..m |-> IF n = 0 THEN NoChoice ELSE Prefer(f[n - 1], options[n])]

LEMMA LoopRuns ==
    ASSUME NEW options \in Seq(Options)
    PROVE  \E f : Runs(options, f, Len(options))
<1> DEFINE T == {m \in Nat : ~ \E f : Runs(options, f, m)}
<1>0. Len(options) \in Nat
  OBVIOUS
<1> SUFFICES ASSUME T # {} PROVE FALSE
  BY <1>0, Zenon
<1>1. PICK m \in T : \A k \in T : m <= k
  BY LeastTurn
<1>2. CASE m = 0
  <2> DEFINE f == [n \in 0..0 |-> NoChoice]
  <2>1. \A n \in 0..0 : n = 0
    OBVIOUS
  <2>2. f = [n \in 0..0 |-> IF n = 0 THEN NoChoice ELSE Prefer(f[n - 1], options[n])]
    BY <2>1
  <2> QED
    BY <1>1, <1>2, <2>2 DEF Runs
<1>3. CASE m > 0
  <2>1. m - 1 \in Nat /\ m - 1 \notin T
    BY <1>1, <1>3
  <2>2. PICK g : Runs(options, g, m - 1)
    BY <2>1
  <2> DEFINE f == [n \in 0..m |-> IF n = m THEN Prefer(g[m - 1], options[m]) ELSE g[n]]
  <2>3. \A n \in 0..(m - 1) : g[n] = IF n = 0 THEN NoChoice ELSE Prefer(g[n - 1], options[n])
    BY <2>2 DEF Runs
  <2>4. \A n \in 0..(m - 1) : f[n] = g[n]
    BY <2>1
  <2>5. ASSUME NEW n \in 0..m
        PROVE  f[n] = IF n = 0 THEN NoChoice ELSE Prefer(f[n - 1], options[n])
    <3>1. CASE n = m
      BY <1>3, <2>1, <2>4, <3>1
    <3>2. CASE n # m
      <4>1. n \in 0..(m - 1) /\ (n # 0 => n - 1 \in 0..(m - 1))
        BY <2>1, <3>2
      <4> QED
        BY <2>3, <2>4, <4>1
    <3> QED
      BY <3>1, <3>2
  <2>6. f = [n \in 0..m |-> f[n]]
    OBVIOUS
  <2> HIDE DEF f
  <2>7. Runs(options, f, m)
    BY <2>5, <2>6 DEF Runs
  <2> QED
    BY <1>1, <2>7
<1> QED
  BY <1>1, <1>2, <1>3

\* The winner among the first n options.
Leads(options, i, n) ==
    /\ i \in 1..n
    /\ Acceptable(options[i])
    /\ \A j \in 1..n :
         Acceptable(options[j]) /\ j # i =>
           \/ Class[options[i].net] = "gua" /\ Class[options[j].net] = "ula"
           \/ Class[options[i].net] = Class[options[j].net] /\ i < j

Choice(o) == [net |-> o.net, valid |-> o.valid]

\* After n turns the loop has the winner among the first n options.
RightAfter(options, best, n) ==
    \/ best = NoChoice /\ \A j \in 1..n : ~Acceptable(options[j])
    \/ \E i \in 1..n : Leads(options, i, n) /\ best = Choice(options[i])

LEMMA TurnIsRight ==
    ASSUME NEW options \in Seq(Options), NEW n \in 1..Len(options), NEW best,
           RightAfter(options, best, n - 1)
    PROVE  RightAfter(options, Prefer(best, options[n]), n)
<1> DEFINE o == options[n]
<1>1. n \in Nat /\ n - 1 \in Nat /\ 1..n = (1..(n - 1)) \cup {n} /\ Len(options) \in Nat
  OBVIOUS
<1>2. \A j \in 1..n : options[j] \in Options /\ options[j].net \in Prefixes
                      /\ Class[options[j].net] \in {"gua", "ula", "other"}
  <2>1. \A j \in 1..n : options[j] \in Options
    BY <1>1
  <2> QED
    BY <2>1, RAConstants DEF Options
<1>3. CASE best = NoChoice /\ \A j \in 1..(n - 1) : ~Acceptable(options[j])
  <2>1. best.net = NoPrefix
    BY <1>3 DEF NoChoice
  <2>2. CASE Acceptable(o)
    <3>1. Prefer(best, o) = Choice(o)
      BY <2>1, <2>2 DEF Prefer, Acceptable, Choice
    <3>2. Leads(options, n, n)
      BY <1>1, <1>3, <2>2 DEF Leads
    <3> QED
      BY <1>1, <3>1, <3>2 DEF RightAfter
  <2>3. CASE ~Acceptable(o)
    <3>1. Prefer(best, o) = best
      BY <2>3 DEF Prefer, Acceptable
    <3> QED
      BY <1>1, <1>3, <2>3, <3>1 DEF RightAfter
  <2> QED
    BY <2>2, <2>3
<1>4. ASSUME NEW i \in 1..(n - 1), Leads(options, i, n - 1), best = Choice(options[i])
      PROVE  RightAfter(options, Prefer(best, o), n)
  <2>1. i \in 1..n /\ i < n /\ i # n
    BY <1>1
  <2>2. best.net = options[i].net /\ best.net # NoPrefix
    BY <1>2, <1>4, <2>1, RAConstants DEF Choice
  <2>3. Acceptable(options[i]) /\ Class[options[i].net] \in {"gua", "ula"}
    BY <1>4 DEF Leads, Acceptable
  <2>4. CASE Usable(o) /\ Class[o.net] = "gua" /\ Class[options[i].net] # "gua"
    <3>1. Prefer(best, o) = Choice(o)
      BY <2>2, <2>4 DEF Prefer, Choice
    <3>2. \A j \in 1..(n - 1) : Acceptable(options[j]) => Class[options[j].net] = "ula"
      BY <1>4, <2>3, <2>4 DEF Leads
    <3>3. Leads(options, n, n)
      BY <1>1, <2>4, <3>2 DEF Leads, Acceptable
    <3> QED
      BY <1>1, <3>1, <3>3 DEF RightAfter
  <2>5. CASE ~(Usable(o) /\ Class[o.net] = "gua" /\ Class[options[i].net] # "gua")
    <3>1. Prefer(best, o) = best
      BY <2>2, <2>5 DEF Prefer
    <3>2. Acceptable(o) => \/ Class[options[i].net] = "gua" /\ Class[o.net] = "ula"
                           \/ Class[options[i].net] = Class[o.net] /\ i < n
      BY <2>1, <2>3, <2>5 DEF Acceptable
    <3>3. Leads(options, i, n)
      BY <1>1, <1>4, <2>1, <3>2 DEF Leads
    <3> QED
      BY <1>4, <2>1, <3>1, <3>3 DEF RightAfter
  <2> QED
    BY <2>4, <2>5
<1> QED
  BY <1>3, <1>4 DEF RightAfter

\* So it has the winner of all when it ends.
LEMMA LoopIsRight ==
    ASSUME NEW options \in Seq(Options)
    PROVE  RightAfter(options, OptionLoop(options), Len(options))
<1> DEFINE f == CHOOSE f : Runs(options, f, Len(options))
           T == {n \in Nat : n <= Len(options) /\ ~RightAfter(options, f[n], n)}
<1>0. Len(options) \in Nat
  OBVIOUS
<1>1. Runs(options, f, Len(options))
  BY LoopRuns
<1>2. OptionLoop(options) = f[Len(options)]
  BY DEF OptionLoop, Runs
<1> HIDE DEF f
<1>3. \A n \in 0..Len(options) : f[n] = IF n = 0 THEN NoChoice ELSE Prefer(f[n - 1], options[n])
  BY <1>1 DEF Runs
<1>4. T = {}
  <2> SUFFICES ASSUME T # {} PROVE FALSE
    OBVIOUS
  <2>1. PICK n \in T : \A k \in T : n <= k
    BY LeastTurn
  <2>2. n \in 0..Len(options) /\ ~RightAfter(options, f[n], n)
    BY <1>0, <2>1
  <2>3. CASE n = 0
    <3>1. f[n] = NoChoice
      BY <1>3, <2>2, <2>3
    <3>2. 1..n = {}
      BY <2>3
    <3> QED
      BY <2>2, <3>1, <3>2 DEF RightAfter
  <2>4. CASE n # 0
    <3>1. n \in 1..Len(options) /\ n - 1 \in Nat /\ n - 1 <= Len(options) /\ ~(n <= n - 1)
      BY <1>0, <2>2, <2>4
    <3>2. RightAfter(options, f[n - 1], n - 1)
      BY <2>1, <3>1
    <3>3. f[n] = Prefer(f[n - 1], options[n])
      BY <1>3, <2>2, <2>4
    <3> QED
      BY <2>2, <3>1, <3>2, <3>3, TurnIsRight
  <2> QED
    BY <2>3, <2>4
<1> QED
  BY <1>0, <1>2, <1>4

(* handleRouterAdvertisement: whatever the number and the order of the     *)
(* options, the loop sets aside the first usable global prefix, the first  *)
(* usable unique-local one where there is no global one, or nothing.       *)
THEOREM LoopIsExact == Spec => []LoopPicksWinner
<1>1. LoopPicksWinner
  <2> SUFFICES ASSUME NEW m \in Advertisements
               PROVE  LET c == OptionLoop(m.options) IN
                      /\ \A i \in DOMAIN m.options : Wins(m.options, i) => c = Choice(m.options[i])
                      /\ (\A i \in DOMAIN m.options : ~Wins(m.options, i)) => c = NoChoice
    BY DEF LoopPicksWinner, Choice
  <2> DEFINE options == m.options
             c == OptionLoop(options)
  <2>1. options \in Seq(Options)
    BY RAConstants DEF Messages
  <2>2. DOMAIN options = 1..Len(options) /\ Len(options) \in Nat
    BY <2>1
  <2>3. RightAfter(options, c, Len(options))
    BY <2>1, LoopIsRight
  <2> HIDE DEF options, c
  <2>4. \A i \in DOMAIN options : Wins(options, i) <=> Leads(options, i, Len(options))
    BY <2>2 DEF Wins, Leads
  <2>5. \A i, j \in DOMAIN options : Wins(options, i) /\ Wins(options, j) => i = j
    BY <2>2 DEF Wins
  <2>6. CASE c = NoChoice /\ \A j \in 1..Len(options) : ~Acceptable(options[j])
    BY <2>2, <2>6 DEF Wins, options, c
  <2>7. ASSUME NEW i \in 1..Len(options), Leads(options, i, Len(options)), c = Choice(options[i])
        PROVE  /\ \A j \in DOMAIN options : Wins(options, j) => c = Choice(options[j])
               /\ ~(\A j \in DOMAIN options : ~Wins(options, j))
    BY <2>2, <2>4, <2>5, <2>7
  <2> QED
    BY <2>3, <2>6, <2>7 DEF RightAfter, options, c
<1> QED
  BY <1>1, PTL
=============================================================================
