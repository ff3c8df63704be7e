-------------------------- MODULE CompositeReceiver --------------------------
(***************************************************************************)
(* CompositeReceiver: a delegation as primary, Router Advertisements as    *)
(* fallback.  The two receivers are taken at their word (PrefixReceiver);  *)
(* their events wait in bounded channels for mergeEvents, and what it      *)
(* forwards waits for forwardPrefixEvents, which wakes the reconciler for  *)
(* some of it; the reconciler then reads CurrentPrefix().                  *)
(***************************************************************************)
EXTENDS Integers, Sequences

CONSTANTS
    Prefixes, NoPrefix,
    SubCapacity,  \* of the children's event channels
    Capacity,     \* of the composite's own
    MaxFailures   \* maxFailures

ASSUME CompositeConstants ==
    /\ NoPrefix \notin Prefixes
    /\ SubCapacity \in Nat \ {0}
    /\ Capacity \in Nat \ {0}
    /\ MaxFailures \in Nat \ {0}

Children == {"primary", "fallback"}

\* "acquired" stands for EventTypeChanged too: nobody tells them apart.
Kinds == {"acquired", "renewed", "failed", "expired"}

VARIABLES
    held,     \* CurrentPrefix() of each child
    failing,  \* does LastError() of each child report one?
    sent,     \* the children's event channels
    active,
    consecutiveFailures,   \* counted up to MaxFailures
    events,   \* the composite's own channel
    known,    \* the prefix the reconciler read last
    dropped   \* history: a full channel has dropped an event

compositeVars == <<held, failing, sent, active, consecutiveFailures, events, known, dropped>>
children == <<held, failing>>

-----------------------------------------------------------------------------
\* CurrentPrefix of the composite
CurrentPrefix ==
    IF held["primary"] # NoPrefix THEN held["primary"] ELSE held["fallback"]

\* Mutant: only the active receiver is asked.
LastErrorOfActive == failing[active]

\* LastError of the composite
LastError == failing["primary"] \/ failing["fallback"]

\* A send that does not block: a full channel, of capacity n, drops.
Offer(ch, e, n) == IF Len(ch) < n THEN Append(ch, e) ELSE ch

\* sendEvent
Send(ch, e) == Offer(ch, e, Capacity)

\* n events are sent on events: does one of them find it full?
Drops(n) == dropped' = (dropped \/ Len(events) + n > Capacity)

\* A child's step, with the event it sends.
Child(c, p, fails, e) ==
    /\ held' = [held EXCEPT ![c] = p]
    /\ failing' = [failing EXCEPT ![c] = fails]
    /\ sent' = [sent EXCEPT ![c] = Offer(@, e, SubCapacity)]
    /\ dropped' = (dropped \/ Len(sent[c]) = SubCapacity)
    /\ UNCHANGED <<active, consecutiveFailures, events, known>>

Acquires(c, p) == Child(c, p, FALSE, IF held[c] = p THEN "renewed" ELSE "acquired")
Fails(c) == Child(c, held[c], TRUE, "failed")
Expires(c) == held[c] # NoPrefix /\ Child(c, NoPrefix, failing[c], "expired")

\* forwardPrefixEvents takes an event and wakes the reconciler for one that
\* can change the prefix; renewals and failures it passes over.
forwardPrefixEvents ==
    /\ events # <<>>
    /\ events' = Tail(events)
    /\ known' = IF Head(events) \in {"acquired", "expired"} THEN CurrentPrefix ELSE known
    /\ UNCHANGED <<children, sent, active, consecutiveFailures, dropped>>

\* The reconciler, woken by its own timer or by anything else.
ReadsPrefix ==
    /\ known' = CurrentPrefix
    /\ UNCHANGED <<children, sent, active, consecutiveFailures, events, dropped>>

-----------------------------------------------------------------------------
Bump == IF consecutiveFailures < MaxFailures THEN consecutiveFailures + 1 ELSE MaxFailures

\* Mutant: the switch is made at the last failure only, and when there is a
\* prefix to switch to.
PrimaryFailedOnce ==
    /\ Head(sent["primary"]) = "failed"
    /\ consecutiveFailures' = Bump
    /\ active' = IF Bump = MaxFailures /\ consecutiveFailures # MaxFailures
                    /\ held["fallback"] # NoPrefix
                 THEN "fallback" ELSE active
    /\ events' = Send(events, "failed")
    /\ Drops(1)

\* Mutant: the switch says nothing of the prefix the fallback holds.
PrimaryFailedQuietly ==
    /\ Head(sent["primary"]) = "failed"
    /\ consecutiveFailures' = Bump
    /\ active' = IF Bump = MaxFailures THEN "fallback" ELSE active
    /\ events' = Send(events, "failed")
    /\ Drops(1)

\* handlePrimaryEvent, EventTypeFailed: from the last allowed failure on, the
\* fallback is active and its prefix, if it has one, is announced.
PrimaryFailed ==
    LET announces == Bump = MaxFailures /\ held["fallback"] # NoPrefix
    IN  /\ Head(sent["primary"]) = "failed"
        /\ consecutiveFailures' = Bump
        /\ active' = IF Bump = MaxFailures THEN "fallback" ELSE active
        /\ events' = Send(IF announces THEN Send(events, "acquired") ELSE events, "failed")
        /\ Drops(IF announces THEN 2 ELSE 1)

\* handlePrimaryEvent, EventTypeAcquired, EventTypeRenewed, EventTypeChanged
PrimarySucceeded ==
    /\ Head(sent["primary"]) \in {"acquired", "renewed"}
    /\ consecutiveFailures' = 0
    /\ active' = "primary"
    /\ events' = Send(events, Head(sent["primary"]))
    /\ Drops(1)

\* handlePrimaryEvent, EventTypeExpired
PrimaryExpired ==
    /\ Head(sent["primary"]) = "expired"
    /\ UNCHANGED consecutiveFailures
    /\ active' = IF held["fallback"] # NoPrefix THEN "fallback" ELSE active
    /\ events' = Send(events, IF held["fallback"] # NoPrefix THEN "acquired" ELSE "expired")
    /\ Drops(1)

handlePrimaryEvent ==
    /\ sent["primary"] # <<>>
    /\ sent' = [sent EXCEPT !["primary"] = Tail(@)]
    /\ PrimaryFailed \/ PrimarySucceeded \/ PrimaryExpired
    /\ UNCHANGED <<children, known>>

\* handleFallbackEvent: forwarded only while the fallback is active.
handleFallbackEvent ==
    /\ sent["fallback"] # <<>>
    /\ sent' = [sent EXCEPT !["fallback"] = Tail(@)]
    /\ events' = IF active = "fallback" THEN Send(events, Head(sent["fallback"])) ELSE events
    /\ Drops(IF active = "fallback" THEN 1 ELSE 0)
    /\ UNCHANGED <<children, active, consecutiveFailures, known>>

CompositeInit ==
    /\ held = [c \in Children |-> NoPrefix]
    /\ failing = [c \in Children |-> FALSE]
    /\ sent = [c \in Children |-> <<>>]
    /\ active = "primary"
    /\ consecutiveFailures = 0
    /\ events = <<>>
    /\ known = NoPrefix
    /\ dropped = FALSE

\* The primary tries again and again, and every try ends in an event.
Tries(c) == (\E p \in Prefixes : Acquires(c, p)) \/ Fails(c)

CompositeNext ==
    \/ \E c \in Children : Tries(c) \/ Expires(c)
    \/ handlePrimaryEvent
    \/ handleFallbackEvent
    \/ forwardPrefixEvents
    \/ ReadsPrefix

CompositeSpec == CompositeInit /\ [][CompositeNext]_compositeVars

\* The delegation loop keeps trying or renewing, mergeEvents serves both
\* channels, and forwardPrefixEvents its own.  Nothing is assumed of the
\* reconciler's timer.
FairComposite ==
    /\ CompositeSpec
    /\ WF_compositeVars(Tries("primary"))
    /\ WF_compositeVars(handlePrimaryEvent)
    /\ WF_compositeVars(handleFallbackEvent)
    /\ WF_compositeVars(forwardPrefixEvents)

-----------------------------------------------------------------------------
CompositeTypeOK ==
    /\ held \in [Children -> Prefixes \cup {NoPrefix}]
    /\ failing \in [Children -> BOOLEAN]
    /\ sent \in [Children -> Seq(Kinds)]
    /\ active \in Children
    /\ consecutiveFailures \in 0..MaxFailures
    /\ events \in Seq(Kinds)
    /\ known \in Prefixes \cup {NoPrefix}
    /\ dropped \in BOOLEAN

(* CompositeReceiver as a Receiver: two receivers that keep the promises   *)
(* of PrefixReceiver make one that keeps them, through every switch        *)
(* between the two.                                                        *)
Receiver == INSTANCE PrefixReceiver WITH held <- CurrentPrefix, failing <- LastError
ReceiverSpec == Receiver!Spec

(* handlePrimaryEvent: once the primary is left without a prefix and the   *)
(* fallback has one, the fallback becomes active and stays it.             *)
FallbackTakesOver ==
    <>[](held["primary"] = NoPrefix /\ held["fallback"] # NoPrefix) => <>[](active = "fallback")

(* mergeEvents forwards enough: while no channel overflows, the events it  *)
(* does not suppress, less those forwardPrefixEvents passes over, bring    *)
(* the reconciler to know a prefix that stays, without its timer.  (The    *)
(* loss of a fallback's prefix while the primary is active is suppressed,  *)
(* and is left to the timer.)                                              *)
ReconcilerLearns ==
    []~dropped => \A p \in Prefixes : <>[](CurrentPrefix = p) => <>[](known = p)
=============================================================================
