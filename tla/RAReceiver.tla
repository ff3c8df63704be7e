----------------------------- MODULE RAReceiver -----------------------------
(***************************************************************************)
(* The Router Advertisement receiver (internal/prefix/ra_receiver.go): its *)
(* receive loop, its lease watcher and its solicitor run as separate       *)
(* goroutines over currentPrefix, the health tracker and the event         *)
(* channel.  Time is counted in ticks relative to the lease; an age stops  *)
(* counting once it is past anything the code compares it with.            *)
(***************************************************************************)
EXTENDS Naturals, Sequences

CONSTANTS
    Prefixes, NoPrefix,
    Class,           \* Class[p]: "gua", "ula" or "other"
    InBounds,        \* prefixes whose length the policy's bounds allow
    Overlong,        \* prefixes whose advertised length exceeds 128
    RequireGlobal,   \* policy.RequireGlobalUnicast
    Advertisements,  \* the messages the link may carry
    Lifetimes,       \* valid lifetimes advertised; 0 retires a prefix
    Longest,         \* the longest of them
    CheckInterval,   \* raLeaseExpiryCheckInterval
    MaxSolicitations,
    Capacity         \* of the event channel

\* A Prefix Information option.
Options == [net: Prefixes, onLink: BOOLEAN, valid: Lifetimes]

\* hop: the hop limit was reported as 255, as something else, or not at all.
Messages == [linkLocal: BOOLEAN, trusted: BOOLEAN,
             hop: {"255", "forwarded", "unreported"}, options: Seq(Options)]

ASSUME RAConstants ==
    /\ NoPrefix \notin Prefixes
    /\ Class \in [Prefixes -> {"gua", "ula", "other"}]
    /\ InBounds \subseteq Prefixes
    /\ Overlong \subseteq Prefixes
    /\ RequireGlobal \in BOOLEAN
    /\ Advertisements \subseteq Messages
    /\ Lifetimes \subseteq Nat
    /\ Longest \in Lifetimes /\ \A n \in Lifetimes : n <= Longest
    /\ CheckInterval \in Nat \ {0}
    /\ MaxSolicitations \in Nat
    /\ Capacity \in Nat \ {0}

VARIABLES
    started,
    verifyHopLimit,
    held,        \* currentPrefix: net, valid lifetime, ticks since ReceivedAt
    failing,     \* the health tracker holds an error
    rejected,    \* the rejection counter is not zero
    handling,    \* the option the receive loop has chosen and not yet applied
    leftover,    \* what loops of stopped runs still have to apply, NoChoice for
                 \* one that is reading from its closed socket
    watcher,     \* the lease watcher: asleep, or past dropping the prefix
    check,       \* ticks to the watcher's next look at the lease
    solicited,   \* Router Solicitations sent by this run
    events,      \* the event channel
    looked       \* history: this run's watcher has looked at the lease

lease == <<held, failing>>
reader == <<handling, leftover, rejected>>
watch == <<watcher, check>>
vars == <<started, verifyHopLimit, lease, reader, watch, solicited, events, looked>>

NoLease == [net |-> NoPrefix, valid |-> 0, age |-> 0]

\* No comparison tells this age from a greater one.
AgeLimit == Longest + CheckInterval + 1

-----------------------------------------------------------------------------
(* rejectRouterAdvertisement and handleRouterAdvertisement                 *)

Rejected(m) ==
    \/ ~m.linkLocal
    \/ ~m.trusted
    \/ verifyHopLimit /\ m.hop # "255"

Usable(o) == o.onLink /\ o.valid > 0 /\ o.net \in InBounds

\* Mutant: a unique-local prefix takes the place of an earlier choice.
PreferLatestLocal(best, o) ==
    IF /\ Usable(o)
       /\ \/ Class[o.net] = "gua" /\ (best.net = NoPrefix \/ Class[best.net] # "gua")
          \/ Class[o.net] = "ula" /\ ~RequireGlobal
    THEN [net |-> o.net, valid |-> o.valid]
    ELSE best

\* One turn of the option loop: keep best, or let o take its place.
Prefer(best, o) ==
    IF /\ Usable(o)
       /\ \/ Class[o.net] = "gua" /\ (best.net = NoPrefix \/ Class[best.net] # "gua")
          \/ Class[o.net] = "ula" /\ ~RequireGlobal /\ best.net = NoPrefix
    THEN [net |-> o.net, valid |-> o.valid]
    ELSE best

NoChoice == [net |-> NoPrefix, valid |-> 0]

OptionLoop(options) ==
    LET best[n \in 0..Len(options)] ==
          IF n = 0 THEN NoChoice ELSE Prefer(best[n - 1], options[n])
    IN  best[Len(options)]

\* What the loop is for: the first usable global prefix wins, and the first
\* usable unique-local one only where no global one is offered.
Acceptable(o) ==
    /\ Usable(o)
    /\ Class[o.net] = "gua" \/ (Class[o.net] = "ula" /\ ~RequireGlobal)

Wins(options, i) ==
    /\ Acceptable(options[i])
    /\ \A j \in DOMAIN options :
         Acceptable(options[j]) /\ j # i =>
           \/ Class[options[i].net] = "gua" /\ Class[options[j].net] = "ula"
           \/ Class[options[i].net] = Class[options[j].net] /\ i < j

\* A non-blocking send: a full channel drops the event.
send(e) == events' = IF Len(events) < Capacity THEN Append(events, e) ELSE events

-----------------------------------------------------------------------------
Init ==
    /\ started = FALSE
    /\ verifyHopLimit = FALSE
    /\ held = NoLease
    /\ failing = FALSE
    /\ rejected = FALSE
    /\ handling = NoChoice
    /\ leftover = {}
    /\ watcher = "asleep"
    /\ check = CheckInterval
    /\ solicited = 0
    /\ events = <<>>
    /\ looked = FALSE

\* Mutant: each run begins with a clean bill of health.
StartForgetsFailure ==
    /\ ~started
    /\ started' = TRUE
    /\ verifyHopLimit' \in BOOLEAN
    /\ check' = CheckInterval
    /\ solicited' = 0
    /\ looked' = FALSE
    /\ failing' = FALSE
    /\ UNCHANGED <<held, reader, watcher, events>>

\* Start: the socket may refuse to report hop limits.  A Start that finds no
\* interface or no socket changes nothing.
Start ==
    /\ ~started
    /\ started' = TRUE
    /\ verifyHopLimit' \in BOOLEAN
    /\ check' = CheckInterval
    /\ solicited' = 0
    /\ looked' = FALSE
    /\ UNCHANGED <<lease, reader, watcher, events>>

\* Stop closes the socket and the stop channel and waits for nobody: what the
\* receive loop was handling it still applies, and a read under way fails.
Stop ==
    /\ started
    /\ started' = FALSE
    /\ handling' = NoChoice
    /\ leftover' = leftover \cup {handling}
    /\ UNCHANGED <<verifyHopLimit, lease, rejected, watch, solicited, events, looked>>

\* receiveLoop reads and screens an advertisement, and chooses an option.
Receive(m) ==
    /\ started
    /\ handling = NoChoice
    /\ rejected' = \/ rejected
                   \/ Rejected(m)
                   \/ \E i \in DOMAIN m.options :
                        /\ m.options[i].onLink
                        /\ m.options[i].valid > 0
                        /\ m.options[i].net \notin InBounds
    /\ IF ~Rejected(m) /\ \E i \in DOMAIN m.options : Wins(m.options, i)
         THEN \E i \in DOMAIN m.options :
                /\ Wins(m.options, i)
                /\ handling' = IF m.options[i].net \in Overlong THEN NoChoice
                               ELSE [net |-> m.options[i].net, valid |-> m.options[i].valid]
         ELSE UNCHANGED handling
    /\ UNCHANGED <<started, verifyHopLimit, lease, leftover, watch, solicited, events, looked>>

\* updatePrefix: prefix, health and event change together.
updatePrefix(new) ==
    /\ held' = [net |-> new.net, valid |-> new.valid, age |-> 0]
    /\ failing' = FALSE
    /\ send(CASE held = NoLease     -> "acquired"
              [] held.net # new.net -> "changed"
              [] OTHER              -> "renewed")
    /\ UNCHANGED <<started, verifyHopLimit, rejected, watch, solicited, looked>>

Handle ==
    \/ /\ handling # NoChoice
       /\ updatePrefix(handling)
       /\ handling' = NoChoice
       /\ UNCHANGED leftover
    \/ \E new \in leftover \ {NoChoice} :
         /\ updatePrefix(new)
         /\ leftover' = leftover \ {new}
         /\ UNCHANGED handling

\* receiveLoop fails to arm the deadline or to read: sendError.  So may the loop
\* of a stopped run, once, if it does not see the stop channel first.
ReadError ==
    /\ \/ started /\ handling = NoChoice /\ UNCHANGED leftover
       \/ NoChoice \in leftover /\ leftover' = leftover \ {NoChoice}
    /\ failing' = TRUE
    /\ send("failed")
    /\ UNCHANGED <<started, verifyHopLimit, held, handling, rejected, watch, solicited, looked>>

Expired == held # NoLease /\ held.valid > 0 /\ held.age > held.valid

\* Mutant: the watcher allows a grace period of one more interval.
CheckLeaseLate ==
    /\ started
    /\ watcher = "asleep"
    /\ check = 0
    /\ check' = CheckInterval
    /\ looked' = TRUE
    /\ IF Expired /\ held.age > held.valid + CheckInterval
         THEN held' = NoLease /\ watcher' = "dropped"
         ELSE UNCHANGED <<held, watcher>>
    /\ UNCHANGED <<started, verifyHopLimit, failing, reader, solicited, events>>

\* Mutant: a timer that fires once in the place of the ticker.
CheckLeaseOnce ==
    /\ started
    /\ watcher = "asleep"
    /\ check = 0
    /\ ~looked
    /\ check' = CheckInterval
    /\ looked' = TRUE
    /\ IF Expired
         THEN held' = NoLease /\ watcher' = "dropped"
         ELSE UNCHANGED <<held, watcher>>
    /\ UNCHANGED <<started, verifyHopLimit, failing, reader, solicited, events>>

\* expireLeaseIfStale, under the lock: the prefix goes.
CheckLease ==
    /\ started
    /\ watcher = "asleep"
    /\ check = 0
    /\ check' = CheckInterval
    /\ looked' = TRUE
    /\ IF Expired
         THEN held' = NoLease /\ watcher' = "dropped"
         ELSE UNCHANGED <<held, watcher>>
    /\ UNCHANGED <<started, verifyHopLimit, failing, reader, solicited, events>>

\* ... after the lock is released: the failure is recorded ...
RecordExpiry ==
    /\ watcher = "dropped"
    /\ watcher' = "recorded"
    /\ failing' = TRUE
    /\ UNCHANGED <<started, verifyHopLimit, held, reader, check, solicited, events, looked>>

\* ... and the event is sent.
SendExpiry ==
    /\ watcher = "recorded"
    /\ watcher' = "asleep"
    /\ send("expired")
    /\ UNCHANGED <<started, verifyHopLimit, lease, reader, check, solicited, looked>>

\* sendInitialRouterSolicitations: a bounded number, and none once a prefix
\* is held.
Solicit ==
    /\ started
    /\ solicited < MaxSolicitations
    /\ solicited' = IF held = NoLease THEN solicited + 1 ELSE MaxSolicitations
    /\ UNCHANGED <<started, verifyHopLimit, lease, reader, watch, events, looked>>

\* The subscriber takes an event off the channel.
Consume ==
    /\ events # <<>>
    /\ events' = Tail(events)
    /\ UNCHANGED <<started, verifyHopLimit, lease, reader, watch, solicited, looked>>

\* Time passes; it runs neither past a check that is due nor ahead of a
\* watcher that has begun to act.
Tick ==
    /\ watcher = "asleep"
    /\ started => check > 0
    /\ check' = IF started THEN check - 1 ELSE check
    /\ held' = IF held.net = NoPrefix THEN held
               ELSE [held EXCEPT !.age = IF @ < AgeLimit THEN @ + 1 ELSE @]
    /\ UNCHANGED <<started, verifyHopLimit, failing, reader, watcher, solicited, events, looked>>

Next ==
    \/ Start
    \/ Stop
    \/ \E m \in Advertisements : Receive(m)
    \/ Handle
    \/ ReadError
    \/ CheckLease
    \/ RecordExpiry
    \/ SendExpiry
    \/ Solicit
    \/ Consume
    \/ Tick

Spec == Init /\ [][Next]_vars

\* The watcher runs, and time passes.
FairSpec ==
    /\ Spec
    /\ WF_vars(CheckLease)
    /\ WF_vars(RecordExpiry)
    /\ WF_vars(SendExpiry)
    /\ WF_vars(Tick)

-----------------------------------------------------------------------------
Choices == [net: Prefixes, valid: Lifetimes \ {0}]
Leases == [net: Prefixes, valid: Lifetimes \ {0}, age: 0..AgeLimit]
EventTypes == {"acquired", "changed", "renewed", "failed", "expired"}
Queues == {q \in Seq(EventTypes) : Len(q) <= Capacity}

TypeOK ==
    /\ started \in BOOLEAN
    /\ verifyHopLimit \in BOOLEAN
    /\ held \in Leases \cup {NoLease}
    /\ failing \in BOOLEAN
    /\ rejected \in BOOLEAN
    /\ handling \in Choices \cup {NoChoice}
    /\ leftover \subseteq Choices \cup {NoChoice}
    /\ watcher \in {"asleep", "dropped", "recorded"}
    /\ check \in 0..CheckInterval
    /\ solicited \in 0..MaxSolicitations
    /\ events \in Queues
    /\ looked \in BOOLEAN

(* watchLeaseExpiry: once the watcher of a run has looked at the lease, no *)
(* prefix outlives its valid lifetime by more than one check interval,     *)
(* whatever renewals, stops and restarts raced with the watcher.           *)
LeaseBound ==
    started /\ looked /\ held.net # NoPrefix => held.age <= held.valid + CheckInterval

(* handleRouterAdvertisement: the option loop picks, out of every          *)
(* advertisement, exactly the option that Wins describes, and nothing when *)
(* there is none: the global prefix wins whatever the order of options.    *)
LoopPicksWinner ==
    started =>
      \A m \in Advertisements :
        LET c == OptionLoop(m.options) IN
        /\ \A i \in DOMAIN m.options :
             Wins(m.options, i) => c = [net |-> m.options[i].net, valid |-> m.options[i].valid]
        /\ (\A i \in DOMAIN m.options : ~Wins(m.options, i)) => c = NoChoice

(* health.go: the receiver implements the reconciler's view of a           *)
(* single-source receiver, CurrentPrefix() and LastError().                *)
Receiver == INSTANCE PrefixReceiver WITH held <- held.net
ReceiverSpec == Receiver!Spec

(* watchLeaseExpiry: while the receiver runs, a prefix nothing renews is   *)
(* given up.                                                               *)
SilenceGivesUp == started /\ Expired ~> ~started \/ ~Expired
=============================================================================
