--------------------------- MODULE DHCPv6PDReceiver ---------------------------
(***************************************************************************)
(* The DHCPv6 prefix-delegation client (dhcpv6pd_receiver.go): runLoop     *)
(* acquires a delegation, renews it at T1, rebinds it past T2 and gives it *)
(* up when the server will not extend it.  Time is counted in ticks: age   *)
(* is the time since ReceivedAt, timer what is left of the current wait or *)
(* of the current exchange's timeout.  A receiver is started once: the     *)
(* factory builds a new one for every start and a stopped one is dropped.  *)
(***************************************************************************)
EXTENDS Naturals, Sequences

CONSTANTS
    Prefixes, NoPrefix,
    Acceptable,          \* the prefixes the policy allows
    Replies,             \* delegations a server may reply with
    AgeLimit,            \* an age nothing tells from a greater one
    BackoffMin, BackoffMax,
    RenewRetryInterval,
    ExchangeTimeout,
    MaxSleep,            \* the loop wakes at least this often
    Capacity             \* of the event channel

ASSUME PDConstants ==
    /\ NoPrefix \notin Prefixes
    /\ Acceptable \subseteq Prefixes
    /\ Replies \subseteq [net: Prefixes, t1: Nat, t2: Nat, valid: Nat]
    /\ AgeLimit \in Nat
    /\ BackoffMin \in Nat \ {0}
    /\ BackoffMax \in Nat /\ BackoffMin <= BackoffMax
    /\ RenewRetryInterval \in Nat \ {0}
    /\ ExchangeTimeout \in Nat \ {0}
    /\ MaxSleep \in Nat \ {0}
    /\ Capacity \in Nat \ {0}

VARIABLES
    started,
    pc,          \* where runLoop is
    timer,
    late,        \* the T2 test of this turn, made before the renewal
    lease,       \* currentPrefix and lease, assigned together
    announce,    \* the event a grant will send
    failing,     \* the health tracker holds an error
    backoff,     \* acquireBackoff.cur
    events,      \* the event channel
    justFailed   \* history: an exchange failed, and neither did one
                 \* succeed nor has time passed since

vars == <<started, pc, timer, late, lease, announce, failing, backoff, events, justFailed>>

NoLease == [net |-> NoPrefix, t1 |-> 0, t2 |-> 0, valid |-> 0, age |-> 0]

Exchanges == {"acquire", "renew", "rebind"}
Waits == {"backoff", "sleep", "retry"}

nextBackoff(cur) ==
    IF cur >= BackoffMax \/ cur > BackoffMax \div 2 THEN BackoffMax ELSE cur * 2

jittered(d) == (d - d \div 5)..(d + d \div 5)

send(e) == events' = IF Len(events) < Capacity THEN Append(events, e) ELSE events

-----------------------------------------------------------------------------
Init ==
    /\ started = FALSE
    /\ pc = "new"
    /\ timer = 0
    /\ late = FALSE
    /\ lease = NoLease
    /\ announce = "acquired"
    /\ failing = FALSE
    /\ backoff = BackoffMin
    /\ events = <<>>
    /\ justFailed = FALSE

\* Start spawns runLoop, whose first act is an acquisition.
Start ==
    /\ pc = "new"
    /\ started' = TRUE
    /\ pc' = "acquire"
    /\ timer' = ExchangeTimeout
    /\ backoff' = BackoffMin
    /\ UNCHANGED <<late, lease, announce, failing, events, justFailed>>

\* Stop cancels the context, closes the stop channel and waits for nobody.
Stop ==
    /\ started
    /\ started' = FALSE
    /\ UNCHANGED <<pc, timer, late, lease, announce, failing, backoff, events, justFailed>>

\* processIAPDReply: the lease a reply stands for.
LeaseOf(r) ==
    [net |-> r.net, valid |-> r.valid, age |-> 0,
     t1 |-> IF r.t1 = 0 THEN r.valid \div 2 ELSE r.t1,
     t2 |-> IF r.t2 = 0 THEN (r.valid * 4) \div 5 ELSE r.t2]

\* processIAPDReply takes a delegation up, under the lock ...
Grant(r) ==
    /\ pc \in Exchanges
    /\ r.valid > 0
    /\ r.net \in Acceptable
    /\ lease' = LeaseOf(r)
    /\ announce' = CASE lease.net = NoPrefix -> "acquired"
                     [] lease.net # r.net    -> "changed"
                     [] OTHER                -> "renewed"
    /\ backoff' = IF pc = "acquire" THEN BackoffMin ELSE backoff
    /\ pc' = "granted"
    /\ justFailed' = FALSE
    /\ UNCHANGED <<started, timer, late, failing, events>>

\* ... and after unlocking clears the failure and sends the event.
Announce ==
    /\ pc = "granted"
    /\ failing' = FALSE
    /\ send(announce)
    /\ pc' = "top"
    /\ UNCHANGED <<started, timer, late, lease, announce, backoff, justFailed>>

\* sendError: remember the failure, then offer the event.
sendError ==
    /\ failing' = TRUE
    /\ send("failed")
    /\ justFailed' = TRUE

\* Mutant: a failed acquisition ends the loop.
AcquireFailsForGood ==
    /\ pc = "acquire"
    /\ sendError
    /\ backoff' = nextBackoff(backoff)
    /\ pc' = "off"
    /\ UNCHANGED <<started, timer, late, lease, announce>>

\* No usable answer to SOLICIT or REQUEST in time, or a refusal.
AcquireFails ==
    /\ pc = "acquire"
    /\ sendError
    /\ backoff' = nextBackoff(backoff)
    /\ pc' = "top"
    /\ UNCHANGED <<started, timer, late, lease, announce>>

\* The server disowns the delegation: errNoBinding.
RenewRefused ==
    /\ pc = "renew"
    /\ sendError
    /\ pc' = "drop"
    /\ UNCHANGED <<started, timer, late, lease, announce, backoff>>

\* Mutant: a failed renewal goes straight round the loop again.
RenewFailsAndSpins ==
    /\ pc = "renew"
    /\ sendError
    /\ IF late THEN pc' = "rebind" /\ timer' = ExchangeTimeout
               ELSE pc' = "top" /\ UNCHANGED timer
    /\ UNCHANGED <<started, late, lease, announce, backoff>>

\* Mutant: past T2 the renewal is retried in the place of a rebind.
RenewFailsForever ==
    /\ pc = "renew"
    /\ sendError
    /\ pc' = "retry" /\ timer' = RenewRetryInterval
    /\ UNCHANGED <<started, late, lease, announce, backoff>>

\* Any other failure: rebind if T2 had passed before the renewal began, else
\* hold on to the lease and try again.
RenewFails ==
    /\ pc = "renew"
    /\ sendError
    /\ IF late THEN pc' = "rebind" /\ timer' = ExchangeTimeout
               ELSE pc' = "retry" /\ timer' = RenewRetryInterval
    /\ UNCHANGED <<started, late, lease, announce, backoff>>

RebindFails ==
    /\ pc = "rebind"
    /\ sendError
    /\ pc' = "drop"
    /\ UNCHANGED <<started, timer, late, lease, announce, backoff>>

\* Mutant: a dropped lease takes the failure with it.
dropLeaseForgets ==
    /\ pc = "drop"
    /\ lease' = NoLease
    /\ failing' = FALSE
    /\ send("expired")
    /\ pc' = "top"
    /\ UNCHANGED <<started, timer, late, announce, backoff, justFailed>>

dropLease ==
    /\ pc = "drop"
    /\ lease' = NoLease
    /\ send("expired")
    /\ pc' = "top"
    /\ UNCHANGED <<started, timer, late, announce, failing, backoff, justFailed>>

\* The head of the loop: stop, pace an acquisition, renew, or sleep to T1.
Turn ==
    /\ pc = "top"
    /\ \/ /\ ~started
          /\ pc' = "off"
          /\ UNCHANGED <<timer, late>>
       \/ /\ started
          /\ lease.net = NoPrefix
          /\ pc' = "backoff"
          /\ timer' \in jittered(backoff)
          /\ UNCHANGED late
       \/ /\ started
          /\ lease.net # NoPrefix
          /\ lease.age >= lease.t1
          /\ pc' = "renew"
          /\ timer' = ExchangeTimeout
          /\ late' = (lease.age >= lease.t2)
       \/ /\ started
          /\ lease.net # NoPrefix
          /\ lease.age < lease.t1
          /\ pc' = "sleep"
          /\ timer' = IF lease.t1 - lease.age > MaxSleep THEN MaxSleep ELSE lease.t1 - lease.age
          /\ UNCHANGED late
    /\ UNCHANGED <<started, lease, announce, failing, backoff, events, justFailed>>

\* waitFor and the sleep to T1: the time is up, or the receiver is stopped.
WaitEnds ==
    /\ pc \in Waits
    /\ \/ /\ timer = 0
          /\ IF pc = "backoff" THEN pc' = "acquire" /\ timer' = ExchangeTimeout
                               ELSE pc' = "top" /\ UNCHANGED timer
       \/ /\ ~started
          /\ pc' = "off"
          /\ UNCHANGED timer
    /\ UNCHANGED <<started, late, lease, announce, failing, backoff, events, justFailed>>

\* The subscriber takes an event off the channel.
Consume ==
    /\ events # <<>>
    /\ events' = Tail(events)
    /\ UNCHANGED <<started, pc, timer, late, lease, announce, failing, backoff, justFailed>>

\* Time passes while the loop waits or an exchange is under way.
Tick ==
    /\ pc \in {"new", "off"} \/ (pc \in Waits \cup Exchanges /\ timer > 0)
    /\ timer' = IF pc \in {"new", "off"} THEN timer ELSE timer - 1
    /\ lease' = IF lease.net = NoPrefix THEN lease
                ELSE [lease EXCEPT !.age = IF @ < AgeLimit THEN @ + 1 ELSE @]
    /\ justFailed' = FALSE
    /\ UNCHANGED <<started, pc, late, announce, failing, backoff, events>>

Next ==
    \/ Start
    \/ Stop
    \/ \E r \in Replies : Grant(r)
    \/ Announce
    \/ AcquireFails
    \/ RenewRefused
    \/ RenewFails
    \/ RebindFails
    \/ dropLease
    \/ Turn
    \/ WaitEnds
    \/ Consume
    \/ Tick

Spec == Init /\ [][Next]_vars

\* runLoop's own steps, and the end of an exchange at its timeout.
Loop ==
    \/ Announce
    \/ AcquireFails
    \/ RenewFails
    \/ RebindFails
    \/ dropLease
    \/ Turn
    \/ WaitEnds

\* The loop is scheduled, time passes, and a server that is asked again and
\* again answers in the end.
FairSpec ==
    /\ Spec
    /\ WF_vars(Loop)
    /\ WF_vars(Tick)
    /\ SF_vars(pc = "acquire" /\ \E r \in Replies : Grant(r))

-----------------------------------------------------------------------------
Places == {"new", "off", "top", "granted", "drop"} \cup Exchanges \cup Waits
Leases == [net: Prefixes, t1: Nat, t2: Nat, valid: Nat, age: 0..AgeLimit]
EventTypes == {"acquired", "changed", "renewed", "failed", "expired"}
Queues == {q \in Seq(EventTypes) : Len(q) <= Capacity}

TypeOK ==
    /\ started \in BOOLEAN
    /\ pc \in Places
    /\ timer \in Nat
    /\ late \in BOOLEAN
    /\ lease \in Leases \cup {NoLease}
    /\ announce \in EventTypes
    /\ failing \in BOOLEAN
    /\ backoff \in BackoffMin..BackoffMax
    /\ events \in Queues
    /\ justFailed \in BOOLEAN

(* runLoop: a running client that cannot extend its delegation gives it up *)
(* within two exchanges of the last T2 test, and that test is at most one  *)
(* exchange and one retry interval past T2.                                *)
LastTest(l) ==
    IF l.t1 >= l.t2 THEN l.t1 ELSE (l.t2 - 1) + ExchangeTimeout + RenewRetryInterval
LeaseBound ==
    started /\ lease.net # NoPrefix =>
      lease.age <= LastTest(lease) + 2 * ExchangeTimeout

(* renewRetryInterval, acquireBackoff: after a failure no new acquisition  *)
(* or renewal begins before some time has passed.                          *)
NoBusyLoop == [][pc' \in {"acquire", "renew"} /\ pc' # pc => ~justFailed]_vars

(* acquireBackoff.succeeded: a client that holds a delegation paces its    *)
(* next acquisition from the shortest delay, however long it had to try.   *)
QuickAfterRecovery == lease.net # NoPrefix => backoff = BackoffMin

(* health.go: the client implements the reconciler's view of a             *)
(* single-source receiver.                                                 *)
Receiver == INSTANCE PrefixReceiver WITH held <- lease.net
ReceiverSpec == Receiver!Spec

(* runLoop and Stop: a client with no delegation gets one, unless it is    *)
(* stopped, and the loop of a stopped client comes to its end.             *)
Recovers ==
    /\ started /\ lease.net = NoPrefix ~> lease.net # NoPrefix \/ ~started
    /\ pc # "new" /\ ~started ~> pc = "off"
=============================================================================
