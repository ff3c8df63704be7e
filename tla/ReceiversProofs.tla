--------------------------- MODULE ReceiversProofs ---------------------------
(***************************************************************************)
(* TLAPS proofs about how receivers are put together and shared.  For      *)
(* CompositeReceiver, whatever the capacity of the channels and the number *)
(* of failures tolerated: types, and that a composite of two receivers is  *)
(* a receiver.  For ReceiverLifecycle, for any resources, interfaces,      *)
(* policies and specs: types, and that interface claims and shared         *)
(* receivers are exactly what the receivers in the map use.                *)
(***************************************************************************)
EXTENDS CompositeReceiver, ReceiverLifecycle, TLAPS

-----------------------------------------------------------------------------
(* CompositeReceiver *)

(* A channel holds events after a send, dropped or not.                    *)
LEMMA OfferType ==
    ASSUME NEW ch \in Seq(Kinds), NEW e \in Kinds, NEW n \in Nat
    PROVE  Offer(ch, e, n) \in Seq(Kinds)
BY DEF Offer

(* The same for the composite's own channel.                               *)
LEMMA SendType ==
    ASSUME NEW ch \in Seq(Kinds), NEW e \in Kinds
    PROVE  Send(ch, e) \in Seq(Kinds)
BY OfferType, CompositeConstants DEF Send

(* A non-empty channel's head is an event, and its tail a channel.         *)
LEMMA ChannelParts ==
    ASSUME NEW ch \in Seq(Kinds), ch # <<>>
    PROVE  Head(ch) \in Kinds /\ Tail(ch) \in Seq(Kinds)
OBVIOUS

(* The prefix the composite reports is one of its children's.              *)
LEMMA CurrentType ==
    ASSUME CompositeTypeOK
    PROVE  CurrentPrefix \in Prefixes \cup {NoPrefix}
BY DEF CompositeTypeOK, CurrentPrefix, Children

(* A child's step keeps every type.                                        *)
LEMMA ChildTypes ==
    ASSUME CompositeTypeOK, NEW c \in Children, NEW p \in Prefixes \cup {NoPrefix},
           NEW fails \in BOOLEAN, NEW e \in Kinds, Child(c, p, fails, e)
    PROVE  CompositeTypeOK'
<1>1. Offer(sent[c], e, SubCapacity) \in Seq(Kinds)
  BY OfferType, CompositeConstants DEF CompositeTypeOK
<1>2. sent' = [sent EXCEPT ![c] = Offer(sent[c], e, SubCapacity)]
  BY DEF Child
<1>3. sent' \in [Children -> Seq(Kinds)]
  BY <1>1, <1>2 DEF CompositeTypeOK
<1>4. held' \in [Children -> Prefixes \cup {NoPrefix}]
  BY DEF CompositeTypeOK, Child
<1>5. failing' \in [Children -> BOOLEAN]
  BY DEF CompositeTypeOK, Child
<1>6. dropped' \in BOOLEAN
  BY DEF CompositeTypeOK, Child
<1> QED BY <1>3, <1>4, <1>5, <1>6 DEF CompositeTypeOK, Child

(* Every variable of the composite keeps its type.                         *)
THEOREM CompositeTypeCorrect == CompositeSpec => []CompositeTypeOK
<1> USE CompositeConstants
<1>1. CompositeInit => CompositeTypeOK
  <2> SUFFICES ASSUME CompositeInit PROVE CompositeTypeOK
    OBVIOUS
  <2>1. dropped \in BOOLEAN
    BY Zenon DEF CompositeInit
  <2>2. held \in [Children -> Prefixes \cup {NoPrefix}] /\ failing \in [Children -> BOOLEAN]
    BY DEF CompositeInit
  <2>3. sent \in [Children -> Seq(Kinds)] /\ events \in Seq(Kinds)
    BY DEF CompositeInit
  <2>4. active \in Children /\ consecutiveFailures \in 0..MaxFailures
    BY DEF CompositeInit, Children
  <2>5. known \in Prefixes \cup {NoPrefix}
    BY DEF CompositeInit
  <2> QED BY <2>1, <2>2, <2>3, <2>4, <2>5, Zenon DEF CompositeTypeOK
<1>2. CompositeTypeOK /\ [CompositeNext]_compositeVars => CompositeTypeOK'
  <2> SUFFICES ASSUME CompositeTypeOK, [CompositeNext]_compositeVars PROVE CompositeTypeOK'
    OBVIOUS
  <2>1. ASSUME NEW c \in Children, NEW p \in Prefixes, Acquires(c, p) PROVE CompositeTypeOK'
    BY <2>1, ChildTypes DEF Acquires, Kinds
  <2>2. ASSUME NEW c \in Children, Fails(c) PROVE CompositeTypeOK'
    <3>1. held[c] \in Prefixes \cup {NoPrefix}
      BY DEF CompositeTypeOK
    <3> QED BY <2>2, <3>1, ChildTypes DEF Fails, Kinds
  <2>3. ASSUME NEW c \in Children, Expires(c) PROVE CompositeTypeOK'
    <3>1. failing[c] \in BOOLEAN
      BY DEF CompositeTypeOK
    <3> QED BY <2>3, <3>1, ChildTypes DEF Expires, Kinds
  <2>4. CASE handlePrimaryEvent
    <3>1. sent' \in [Children -> Seq(Kinds)]
      <4>1. Tail(sent["primary"]) \in Seq(Kinds)
        BY <2>4, ChannelParts DEF handlePrimaryEvent, CompositeTypeOK, Children
      <4>2. sent' = [sent EXCEPT !["primary"] = Tail(sent["primary"])]
        BY <2>4 DEF handlePrimaryEvent
      <4> QED BY <4>1, <4>2 DEF CompositeTypeOK
    <3>2. /\ Head(sent["primary"]) \in Kinds
          /\ Send(events, "acquired") \in Seq(Kinds)
      BY <2>4, SendType, ChannelParts DEF handlePrimaryEvent, CompositeTypeOK, Children, Kinds
    <3>3. /\ Bump \in 0..MaxFailures
          /\ \A e \in Kinds : Send(events, e) \in Seq(Kinds)
          /\ Send(Send(events, "acquired"), "failed") \in Seq(Kinds)
      BY <3>2, SendType DEF Bump, CompositeTypeOK, Kinds
    <3>4. /\ active' \in Children
          /\ consecutiveFailures' \in 0..MaxFailures
          /\ events' \in Seq(Kinds)
      <4>1. CASE PrimaryFailed
        BY <4>1, <3>3 DEF PrimaryFailed, CompositeTypeOK, Children, Kinds
      <4>2. CASE PrimarySucceeded
        BY <4>2, <3>2, <3>3 DEF PrimarySucceeded, CompositeTypeOK, Children, Kinds
      <4>3. CASE PrimaryExpired
        BY <4>3, <3>3 DEF PrimaryExpired, CompositeTypeOK, Children, Kinds
      <4> QED BY <2>4, <4>1, <4>2, <4>3 DEF handlePrimaryEvent
    <3>5. dropped' \in BOOLEAN
      BY <2>4 DEF handlePrimaryEvent, PrimaryFailed, PrimarySucceeded, PrimaryExpired, Drops
    <3> QED BY <2>4, <3>1, <3>4, <3>5 DEF handlePrimaryEvent, CompositeTypeOK, children
  <2>5. CASE handleFallbackEvent
    <3>1. sent["fallback"] \in Seq(Kinds) /\ sent["fallback"] # <<>>
      BY <2>5 DEF handleFallbackEvent, CompositeTypeOK, Children
    <3>2. Head(sent["fallback"]) \in Kinds /\ Tail(sent["fallback"]) \in Seq(Kinds)
      BY <3>1, ChannelParts
    <3>3. sent' = [sent EXCEPT !["fallback"] = Tail(sent["fallback"])]
      BY <2>5 DEF handleFallbackEvent
    <3>4. Send(events, Head(sent["fallback"])) \in Seq(Kinds)
      BY <3>2, SendType DEF CompositeTypeOK
    <3>5. sent' \in [Children -> Seq(Kinds)] /\ events' \in Seq(Kinds)
      BY <2>5, <3>2, <3>3, <3>4 DEF handleFallbackEvent, CompositeTypeOK
    <3>6. dropped' \in BOOLEAN
      BY <2>5 DEF handleFallbackEvent, Drops
    <3> QED BY <2>5, <3>5, <3>6 DEF handleFallbackEvent, CompositeTypeOK, children
  <2>6. CASE forwardPrefixEvents
    <3>1. events' \in Seq(Kinds)
      BY <2>6, ChannelParts DEF forwardPrefixEvents, CompositeTypeOK
    <3>2. known' \in Prefixes \cup {NoPrefix}
      BY <2>6, CurrentType DEF forwardPrefixEvents, CompositeTypeOK
    <3> QED BY <2>6, <3>1, <3>2 DEF forwardPrefixEvents, CompositeTypeOK, children
  <2>7. CASE ReadsPrefix
    BY <2>7, CurrentType DEF ReadsPrefix, CompositeTypeOK, children
  <2>8. CASE UNCHANGED compositeVars
    BY <2>8 DEF compositeVars, CompositeTypeOK
  <2> QED BY <2>1, <2>2, <2>3, <2>4, <2>5, <2>6, <2>7, <2>8 DEF CompositeNext, Tries
<1> QED BY <1>1, <1>2, PTL DEF CompositeSpec

-----------------------------------------------------------------------------
(* A composite of two receivers is a receiver: through CurrentPrefix() and *)
(* LastError() each of its steps is a step of PrefixReceiver or none.      *)
THEOREM ImplementsReceiver == CompositeSpec => ReceiverSpec
<1> USE CompositeConstants DEF Children
<1>1. CompositeInit => Receiver!Init
  BY DEF CompositeInit, Receiver!Init, CurrentPrefix, LastError
<1>2. CompositeTypeOK /\ [CompositeNext]_compositeVars => [Receiver!Next]_Receiver!vars
  <2> SUFFICES ASSUME CompositeTypeOK, [CompositeNext]_compositeVars PROVE Receiver!Next \/ UNCHANGED Receiver!vars
    OBVIOUS
  <2>1. ASSUME NEW c \in Children, NEW p \in Prefixes, Acquires(c, p)
        PROVE  Receiver!Next \/ UNCHANGED Receiver!vars
    <3>0. /\ held' = [held EXCEPT ![c] = p]
          /\ failing' = [failing EXCEPT ![c] = FALSE]
      BY <2>1 DEF Acquires, Child
    <3>1. CASE c = "primary"
      <4>1. CurrentPrefix' = p /\ LastError' \in {LastError, FALSE}
        BY <3>0, <3>1 DEF CompositeTypeOK, CurrentPrefix, LastError
      <4> QED BY <4>1 DEF Receiver!Next, Receiver!TakeUp
    <3>2. CASE c = "fallback" /\ held["primary"] = NoPrefix
      <4>1. CurrentPrefix' = p /\ LastError' \in {LastError, FALSE}
        BY <3>0, <3>2 DEF CompositeTypeOK, CurrentPrefix, LastError
      <4> QED BY <4>1 DEF Receiver!Next, Receiver!TakeUp
    <3>3. CASE c = "fallback" /\ held["primary"] # NoPrefix
      <4>1. /\ CurrentPrefix' = CurrentPrefix
            /\ CurrentPrefix # NoPrefix
            /\ LastError' \in {LastError, FALSE}
        BY <3>0, <3>3 DEF CompositeTypeOK, CurrentPrefix, LastError
      <4> QED BY <4>1 DEF Receiver!Next, Receiver!Recover, Receiver!vars
    <3> QED BY <3>1, <3>2, <3>3
  <2>2. ASSUME NEW c \in Children, Fails(c)
        PROVE  Receiver!Next \/ UNCHANGED Receiver!vars
    <3>1. held' = held /\ failing' = [failing EXCEPT ![c] = TRUE]
      BY <2>2 DEF Fails, Child, CompositeTypeOK
    <3>2. CurrentPrefix' = CurrentPrefix /\ LastError' = TRUE
      BY <3>1 DEF CompositeTypeOK, CurrentPrefix, LastError
    <3> QED BY <3>2 DEF Receiver!Next, Receiver!Fail
  <2>3. ASSUME NEW c \in Children, Expires(c)
        PROVE  Receiver!Next \/ UNCHANGED Receiver!vars
    <3>1. /\ held' = [held EXCEPT ![c] = NoPrefix]
          /\ failing' = failing
          /\ held[c] # NoPrefix
      BY <2>3 DEF Expires, Child, CompositeTypeOK
    <3>2. LastError' = LastError
      BY <3>1 DEF LastError
    <3>3. CASE CurrentPrefix' = NoPrefix
      BY <3>2, <3>3 DEF Receiver!Next, Receiver!GiveUp
    <3>4. CASE CurrentPrefix' # NoPrefix
      <4>1. CurrentPrefix' \in Prefixes
        BY <3>1, <3>4 DEF CompositeTypeOK, CurrentPrefix
      <4> QED BY <3>2, <4>1 DEF Receiver!Next, Receiver!TakeUp
    <3> QED BY <3>3, <3>4
  <2>4. CASE UNCHANGED children
    BY <2>4 DEF children, CurrentPrefix, LastError, Receiver!vars
  <2> QED
    BY <2>1, <2>2, <2>3, <2>4
       DEF CompositeNext, Tries, handlePrimaryEvent, handleFallbackEvent, forwardPrefixEvents,
           ReadsPrefix, compositeVars, children
<1> QED BY <1>1, <1>2, CompositeTypeCorrect, PTL DEF CompositeSpec, ReceiverSpec, Receiver!Spec

-----------------------------------------------------------------------------
(* ReceiverLifecycle *)

\* The properties as statements about resources r and a table R of receivers,
\* so that what Stop and Start do can be said between two steps.
Using(R, n, i) == R[n] # None /\ R[n].pd = i

Subscribing(R, n, k) == R[n] # None /\ R[n].ra # None /\ poolKey(R[n]) = k

ClaimsMatch(r, R) ==
    /\ \A i \in Interfaces : i \in r.claims <=> \E n \in Names : Using(R, n, i)
    /\ \A n \in Names, i \in Interfaces : Using(R, n, i) => r.clients[i] = n

PoolMatches(r, R) ==
    \A k \in Keys :
        /\ r.subs[k] = {n \in Names : Subscribing(R, n, k)}
        /\ k \in r.running <=> r.subs[k] # {}
        /\ k \in r.running => k \in r.pooled

Match(r, R) == r \in Resources /\ ClaimsMatch(r, R) /\ PoolMatches(r, R)

Tables == [Names -> Named \cup {None}]

\* ClaimsAreUses and PoolIsShared with the types are inductive as they stand:
\* receiversMu makes each change of a receiver one step.
IInv ==
    /\ TypeOK
    /\ \A n \in Names : forwarders[n] = IF receivers[n] = None THEN 0 ELSE 1
    /\ Match(res, receivers)

-----------------------------------------------------------------------------
\* The key an advertisement receiver is pooled under.
LEMMA KeyOfSpec ==
    ASSUME NEW a \in Named, a.ra # None
    PROVE  poolKey(a) \in Keys
  BY DEF Named, Acquisitions, poolKey, Keys

\* What StopPD leaves of each part.
LEMMA StopPDParts ==
    ASSUME NEW r \in Resources, NEW n \in Names, NEW a \in Named
    PROVE  /\ StopPD(r, n, a) \in Resources
           /\ StopPD(r, n, a).claims = r.claims \ {a.pd}
           /\ \A i \in Interfaces :
                StopPD(r, n, a).clients[i] = IF i = a.pd THEN None ELSE r.clients[i]
           /\ StopPD(r, n, a).pooled = r.pooled
           /\ StopPD(r, n, a).running = r.running
           /\ StopPD(r, n, a).subs = r.subs
  <1>1. CASE a.pd = None
    BY <1>1, LifecycleConstants DEF StopPD, Resources
  <1>2. CASE a.pd # None
    <2>1. a.pd \in Interfaces
      BY <1>2 DEF Named, Acquisitions
    <2> DEFINE clients == [r.clients EXCEPT ![a.pd] = None]
    <2>2. clients \in [Interfaces -> Names \cup {None}]
      BY DEF Resources
    <2>3. \A i \in Interfaces : clients[i] = IF i = a.pd THEN None ELSE r.clients[i]
      BY DEF Resources
    <2>4. StopPD(r, n, a) = [r EXCEPT !.claims = @ \ {a.pd}, !.clients = clients]
      BY <1>2 DEF StopPD, releaseClaimedInterface, Resources
    <2> HIDE DEF clients
    <2> QED BY <2>2, <2>3, <2>4 DEF Resources
  <1> QED BY <1>1, <1>2

LEMMA StartPDParts ==
    ASSUME NEW r \in Resources, NEW n \in Names, NEW a \in Named
    PROVE  /\ StartPD(r, n, a) \in Resources
           /\ \A i \in Interfaces :
                StartPD(r, n, a).clients[i] = IF i = a.pd THEN n ELSE r.clients[i]
           /\ StartPD(r, n, a).claims = r.claims
           /\ StartPD(r, n, a).pooled = r.pooled
           /\ StartPD(r, n, a).running = r.running
           /\ StartPD(r, n, a).subs = r.subs
  <1>1. CASE a.pd = None
    BY <1>1, LifecycleConstants DEF StartPD, Resources
  <1>2. CASE a.pd # None
    <2>1. a.pd \in Interfaces
      BY <1>2 DEF Named, Acquisitions
    <2> DEFINE clients == [r.clients EXCEPT ![a.pd] = n]
    <2>2. clients \in [Interfaces -> Names \cup {None}]
      BY DEF Resources
    <2>3. \A i \in Interfaces : clients[i] = IF i = a.pd THEN n ELSE r.clients[i]
      BY DEF Resources
    <2>4. StartPD(r, n, a) = [r EXCEPT !.clients = clients]
      BY <1>2 DEF StartPD, Resources
    <2> HIDE DEF clients
    <2> QED BY <2>2, <2>3, <2>4 DEF Resources
  <1> QED BY <1>1, <1>2

LEMMA CreateParts ==
    ASSUME NEW r \in Resources, NEW a \in Named
    PROVE  /\ CreateReceiver(r, a) \in Resources
           /\ CreateReceiver(r, a).claims = r.claims \cup ({a.pd} \ {None})
           /\ CreateReceiver(r, a).clients = r.clients
           /\ \A k \in Keys : k \in CreateReceiver(r, a).pooled <=>
                                k \in r.pooled \/ (a.ra # None /\ k = poolKey(a))
           /\ CreateReceiver(r, a).running = r.running
           /\ CreateReceiver(r, a).subs = r.subs
  <1>1. {a.pd} \ {None} \subseteq Interfaces
    BY DEF Named, Acquisitions
  <1> DEFINE pooled == IF a.ra = None THEN r.pooled ELSE r.pooled \cup {poolKey(a)}
  <1>2. pooled \in SUBSET Keys
    BY KeyOfSpec DEF Resources
  <1>3. \A k \in Keys : k \in pooled <=> k \in r.pooled \/ (a.ra # None /\ k = poolKey(a))
    OBVIOUS
  <1>4. CreateReceiver(r, a) = [r EXCEPT !.claims = @ \cup ({a.pd} \ {None}), !.pooled = pooled]
    BY DEF CreateReceiver, createRAReceiver, createDHCPv6PDReceiver, Resources
  <1> HIDE DEF pooled
  <1> QED BY <1>1, <1>2, <1>3, <1>4 DEF Resources

LEMMA SubscribeParts ==
    ASSUME NEW r \in Resources, NEW n \in Names, NEW a \in Named
    PROVE  /\ addSubscriber(r, n, a) \in Resources
           /\ addSubscriber(r, n, a).claims = r.claims
           /\ addSubscriber(r, n, a).clients = r.clients
           /\ addSubscriber(r, n, a).pooled = r.pooled
           /\ \A k \in Keys : k \in addSubscriber(r, n, a).running <=>
                                k \in r.running \/ (a.ra # None /\ k = poolKey(a))
           /\ \A k \in Keys : addSubscriber(r, n, a).subs[k] =
                                IF a.ra # None /\ k = poolKey(a) THEN r.subs[k] \cup {n} ELSE r.subs[k]
  <1>1. CASE a.ra = None
    BY <1>1 DEF addSubscriber
  <1>2. CASE a.ra # None
    <2> DEFINE key == poolKey(a)
               subs == [r.subs EXCEPT ![key] = @ \cup {n}]
    <2>1. key \in Keys
      BY <1>2, KeyOfSpec
    <2>2. addSubscriber(r, n, a) = [r EXCEPT !.subs = subs, !.running = @ \cup {key}]
      BY <1>2 DEF addSubscriber, Resources
    <2> HIDE DEF key
    <2>3. subs \in [Keys -> SUBSET Names]
      BY <2>1 DEF Resources
    <2>4. \A k \in Keys : subs[k] = IF k = key THEN r.subs[k] \cup {n} ELSE r.subs[k]
      BY <2>1 DEF Resources
    <2> HIDE DEF subs
    <2>5. /\ addSubscriber(r, n, a) \in Resources
          /\ addSubscriber(r, n, a).claims = r.claims
          /\ addSubscriber(r, n, a).clients = r.clients
          /\ addSubscriber(r, n, a).pooled = r.pooled
          /\ addSubscriber(r, n, a).running = r.running \cup {key}
          /\ addSubscriber(r, n, a).subs = subs
      BY <2>1, <2>2, <2>3 DEF Resources
    <2> QED BY <1>2, <2>4, <2>5 DEF key
  <1> QED BY <1>1, <1>2

LEMMA UnsubscribeParts ==
    ASSUME NEW r \in Resources, NEW n \in Names, NEW a \in Named
    PROVE  /\ unsubscribe(r, n, a) \in Resources
           /\ unsubscribe(r, n, a).claims = r.claims
           /\ unsubscribe(r, n, a).clients = r.clients
           /\ \A k \in Keys :
                LET last == a.ra # None /\ k = poolKey(a) /\ r.subs[k] = {n}
                IN  /\ k \in unsubscribe(r, n, a).pooled <=> k \in r.pooled /\ ~last
                    /\ k \in unsubscribe(r, n, a).running <=> k \in r.running /\ ~last
           /\ \A k \in Keys : unsubscribe(r, n, a).subs[k] =
                                IF a.ra # None /\ k = poolKey(a) THEN r.subs[k] \ {n} ELSE r.subs[k]
  <1>1. CASE a.ra = None
    BY <1>1 DEF unsubscribe
  <1>2. CASE a.ra # None
    <2> DEFINE key == poolKey(a)
               gone == IF r.subs[key] = {n} THEN {key} ELSE {}
               subs == [r.subs EXCEPT ![key] = @ \ {n}]
    <2>1. key \in Keys
      BY <1>2, KeyOfSpec
    <2>2. unsubscribe(r, n, a) =
            [r EXCEPT !.subs = subs, !.pooled = @ \ gone, !.running = @ \ gone]
      BY <1>2 DEF unsubscribe, Resources
    <2> HIDE DEF key
    <2>3. subs \in [Keys -> SUBSET Names]
      BY <2>1 DEF Resources
    <2>4. \A k \in Keys : subs[k] = IF k = key THEN r.subs[k] \ {n} ELSE r.subs[k]
      BY <2>1 DEF Resources
    <2>5. \A k \in Keys : k \in gone <=> k = key /\ r.subs[k] = {n}
      OBVIOUS
    <2> HIDE DEF subs, gone
    <2>6. /\ unsubscribe(r, n, a) \in Resources
          /\ unsubscribe(r, n, a).claims = r.claims
          /\ unsubscribe(r, n, a).clients = r.clients
          /\ unsubscribe(r, n, a).pooled = r.pooled \ gone
          /\ unsubscribe(r, n, a).running = r.running \ gone
          /\ unsubscribe(r, n, a).subs = subs
      BY <2>2, <2>3 DEF Resources
    <2> QED BY <1>2, <2>4, <2>5, <2>6 DEF key
  <1> QED BY <1>1, <1>2

-----------------------------------------------------------------------------
\* An interface has one user, because its client has one name.
LEMMA OneUser ==
    ASSUME NEW r, NEW R, ClaimsMatch(r, R), NEW i \in Interfaces,
           NEW m \in Names, NEW n \in Names, Using(R, m, i), Using(R, n, i)
    PROVE  m = n
  BY DEF ClaimsMatch

\* Stop gives back exactly what the receiver of n held.
LEMMA StopMatches ==
    ASSUME NEW r, NEW R \in Tables, Match(r, R), NEW n \in Names, R[n] # None
    PROVE  Match(Stop(r, n, R[n]), [R EXCEPT ![n] = None])
  <1> DEFINE a == R[n]
             s == StopPD(r, n, a)
             t == Stop(r, n, a)
             T == [R EXCEPT ![n] = None]
  <1>1. a \in Named /\ r \in Resources
    BY DEF Tables, Match
  <1>2. /\ s \in Resources
        /\ s.claims = r.claims \ {a.pd}
        /\ \A i \in Interfaces : s.clients[i] = IF i = a.pd THEN None ELSE r.clients[i]
        /\ s.pooled = r.pooled /\ s.running = r.running /\ s.subs = r.subs
    BY <1>1, StopPDParts
  <1>3. t = unsubscribe(s, n, a)
    BY DEF Stop
  <1>4. T \in Tables /\ T[n] = None /\ \A m \in Names \ {n} : T[m] = R[m]
    BY DEF Tables
  <1> HIDE DEF s, t, T
  <1>5. t \in Resources /\ t.claims = s.claims /\ t.clients = s.clients
    BY <1>1, <1>2, <1>3, UnsubscribeParts
  <1>6. ClaimsMatch(t, T)
    <2>1. \A i \in Interfaces, m \in Names : Using(T, m, i) <=> Using(R, m, i) /\ m # n
      BY <1>4 DEF Using
    <2>2. \A i \in Interfaces : Using(R, n, i) <=> i = a.pd
      BY DEF Using
    <2>3. \A i \in Interfaces : i \in t.claims <=> i \in r.claims /\ i # a.pd
      BY <1>2, <1>5
    <2>4. \A i \in Interfaces, m \in Names : Using(R, m, i) /\ m # n => i # a.pd
      BY <2>2, OneUser DEF Match
    <2>5. \A i \in Interfaces : i # a.pd => t.clients[i] = r.clients[i]
      BY <1>2, <1>5
    <2> QED BY <2>1, <2>2, <2>3, <2>4, <2>5 DEF ClaimsMatch, Match
  <1>7. PoolMatches(t, T)
    <2> SUFFICES ASSUME NEW k \in Keys
                 PROVE  /\ t.subs[k] = {m \in Names : Subscribing(T, m, k)}
                        /\ k \in t.running <=> t.subs[k] # {}
                        /\ k \in t.running => k \in t.pooled
      BY DEF PoolMatches
    <2> DEFINE mine == a.ra # None /\ k = poolKey(a)
    <2>1. t.subs[k] = IF mine THEN r.subs[k] \ {n} ELSE r.subs[k]
      <3>1. \A j \in Keys : unsubscribe(s, n, a).subs[j] =
              IF a.ra # None /\ j = poolKey(a) THEN s.subs[j] \ {n} ELSE s.subs[j]
        BY <1>1, <1>2, UnsubscribeParts
      <3> QED BY <1>2, <1>3, <3>1
    <2>2. /\ k \in t.pooled <=> k \in r.pooled /\ ~(mine /\ r.subs[k] = {n})
          /\ k \in t.running <=> k \in r.running /\ ~(mine /\ r.subs[k] = {n})
      BY <1>1, <1>2, <1>3, UnsubscribeParts
    <2>3. \A m \in Names : Subscribing(T, m, k) <=> Subscribing(R, m, k) /\ m # n
      BY <1>4 DEF Subscribing
    <2>4. Subscribing(R, n, k) <=> mine
      BY DEF Subscribing
    <2> HIDE DEF mine
    <2>5. /\ r.subs[k] = {m \in Names : Subscribing(R, m, k)}
          /\ k \in r.running <=> r.subs[k] # {}
          /\ k \in r.running => k \in r.pooled
      BY DEF Match, PoolMatches
    <2>6. t.subs[k] = {m \in Names : Subscribing(T, m, k)}
      BY <2>1, <2>3, <2>4, <2>5
    <2>7. k \in t.running <=> t.subs[k] # {}
      BY <2>1, <2>2, <2>4, <2>5
    <2> QED BY <2>2, <2>5, <2>6, <2>7
  <1> QED BY <1>5, <1>6, <1>7 DEF Match, t, T

\* Start gives n exactly what its new receiver is to hold.
LEMMA StartMatches ==
    ASSUME NEW r, NEW R \in Tables, Match(r, R), NEW n \in Names, R[n] = None,
           NEW a \in Named, Creatable(r, a)
    PROVE  Match(addSubscriber(StartPD(CreateReceiver(r, a), n, a), n, a), [R EXCEPT ![n] = a])
  <1> DEFINE c == CreateReceiver(r, a)
             s == StartPD(c, n, a)
             t == addSubscriber(s, n, a)
             T == [R EXCEPT ![n] = a]
  <1>0. r \in Resources /\ a # None
    BY LifecycleConstants DEF Match, Named
  <1>1. c \in Resources /\ s \in Resources /\ t \in Resources
    BY <1>0, CreateParts, StartPDParts, SubscribeParts
  <1>2. T \in Tables /\ T[n] = a /\ \A m \in Names \ {n} : T[m] = R[m]
    BY DEF Tables
  <1>3. /\ t.claims = r.claims \cup ({a.pd} \ {None})
        /\ \A i \in Interfaces : t.clients[i] = IF i = a.pd THEN n ELSE r.clients[i]
    <2> HIDE DEF c, s, t
    <2>1. c.claims = r.claims \cup ({a.pd} \ {None}) /\ c.clients = r.clients
      BY <1>0, CreateParts DEF c
    <2>2. s.claims = c.claims
          /\ \A i \in Interfaces : s.clients[i] = IF i = a.pd THEN n ELSE c.clients[i]
      BY <1>1, StartPDParts DEF s
    <2>3. t.claims = s.claims /\ t.clients = s.clients
      BY <1>1, SubscribeParts DEF t
    <2> QED BY <2>1, <2>2, <2>3
  <1>4. ASSUME NEW k \in Keys
        PROVE  LET mine == a.ra # None /\ k = poolKey(a)
               IN  /\ t.subs[k] = IF mine THEN r.subs[k] \cup {n} ELSE r.subs[k]
                   /\ k \in t.running <=> k \in r.running \/ mine
                   /\ k \in t.pooled <=> k \in r.pooled \/ mine
    <2> HIDE DEF c, s, t
    <2>1. /\ k \in c.pooled <=> k \in r.pooled \/ (a.ra # None /\ k = poolKey(a))
          /\ c.running = r.running /\ c.subs = r.subs
      BY <1>0, CreateParts DEF c
    <2>2. s.pooled = c.pooled /\ s.running = c.running /\ s.subs = c.subs
      BY <1>1, StartPDParts DEF s
    <2>3. t.pooled = s.pooled
          /\ (k \in t.running <=> k \in s.running \/ (a.ra # None /\ k = poolKey(a)))
      BY <1>1, SubscribeParts DEF t
    <2>4. \A j \in Keys : t.subs[j] =
            IF a.ra # None /\ j = poolKey(a) THEN s.subs[j] \cup {n} ELSE s.subs[j]
      BY <1>1, SubscribeParts DEF t
    <2> QED BY <2>1, <2>2, <2>3, <2>4
  <1> HIDE DEF c, s, t, T
  <1>5. ClaimsMatch(t, T)
    <2>1. \A i \in Interfaces, m \in Names \ {n} : Using(T, m, i) <=> Using(R, m, i)
      BY <1>2 DEF Using
    <2>2. \A i \in Interfaces : (Using(T, n, i) <=> i = a.pd) /\ ~Using(R, n, i)
      BY <1>0, <1>2 DEF Using
    <2>3. \A i \in Interfaces : i \in t.claims <=> i \in r.claims \/ i = a.pd
      BY <1>3, LifecycleConstants
    <2>4. \A i \in Interfaces, m \in Names : Using(R, m, i) => i # a.pd
      BY DEF Creatable, Claimable, Match, ClaimsMatch
    <2> QED BY <1>3, <2>1, <2>2, <2>3, <2>4 DEF ClaimsMatch, Match
  <1>6. PoolMatches(t, T)
    <2> SUFFICES ASSUME NEW k \in Keys
                 PROVE  /\ t.subs[k] = {m \in Names : Subscribing(T, m, k)}
                        /\ k \in t.running <=> t.subs[k] # {}
                        /\ k \in t.running => k \in t.pooled
      BY DEF PoolMatches
    <2> DEFINE mine == a.ra # None /\ k = poolKey(a)
    <2>1. /\ t.subs[k] = IF mine THEN r.subs[k] \cup {n} ELSE r.subs[k]
          /\ k \in t.running <=> k \in r.running \/ mine
          /\ k \in t.pooled <=> k \in r.pooled \/ mine
      BY <1>4
    <2>2. \A m \in Names \ {n} : Subscribing(T, m, k) <=> Subscribing(R, m, k)
      BY <1>2 DEF Subscribing
    <2>3. (Subscribing(T, n, k) <=> mine) /\ ~Subscribing(R, n, k)
      BY <1>0, <1>2 DEF Subscribing
    <2> HIDE DEF mine
    <2>4. /\ r.subs[k] = {m \in Names : Subscribing(R, m, k)}
          /\ k \in r.running <=> r.subs[k] # {}
          /\ k \in r.running => k \in r.pooled
      BY DEF Match, PoolMatches
    <2>5. t.subs[k] = {m \in Names : Subscribing(T, m, k)}
      BY <2>1, <2>2, <2>3, <2>4
    <2> QED BY <2>1, <2>4, <2>5
  <1> QED BY <1>1, <1>5, <1>6 DEF Match, s, c, t, T

\* A Start that fails leaves the claim as it found it, and an entry of the pool
\* nobody subscribes to.
LEMMA FailureMatches ==
    ASSUME NEW r, NEW R \in Tables, Match(r, R), NEW n \in Names,
           NEW a \in Named, Creatable(r, a)
    PROVE  Match(StopPD(StartPD(CreateReceiver(r, a), n, a), n, a), R)
  <1> DEFINE c == CreateReceiver(r, a)
             s == StartPD(c, n, a)
             t == StopPD(s, n, a)
  <1>0. r \in Resources
    BY DEF Match
  <1>1. c \in Resources /\ s \in Resources /\ t \in Resources
    BY <1>0, CreateParts, StartPDParts, StopPDParts
  <1> HIDE DEF c, s, t
  <1>2. /\ c.claims = r.claims \cup ({a.pd} \ {None}) /\ c.clients = r.clients
        /\ \A k \in Keys : k \in r.pooled => k \in c.pooled
        /\ c.running = r.running /\ c.subs = r.subs
    BY <1>0, CreateParts DEF c
  <1>3. /\ s.claims = c.claims
        /\ \A i \in Interfaces : s.clients[i] = IF i = a.pd THEN n ELSE c.clients[i]
        /\ s.pooled = c.pooled /\ s.running = c.running /\ s.subs = c.subs
    BY <1>1, StartPDParts DEF s
  <1>4. /\ t.claims = s.claims \ {a.pd}
        /\ \A i \in Interfaces : t.clients[i] = IF i = a.pd THEN None ELSE s.clients[i]
        /\ t.pooled = s.pooled /\ t.running = s.running /\ t.subs = s.subs
    BY <1>1, StopPDParts DEF t
  <1>5. t.claims = r.claims
    BY <1>2, <1>3, <1>4 DEF Creatable, Claimable
  <1>6. ClaimsMatch(t, R)
    <2>1. \A i \in Interfaces, m \in Names : Using(R, m, i) => i # a.pd
      BY DEF Creatable, Claimable, Match, ClaimsMatch
    <2> QED BY <1>2, <1>3, <1>4, <1>5, <2>1 DEF ClaimsMatch, Match
  <1>7. PoolMatches(t, R)
    BY <1>2, <1>3, <1>4 DEF PoolMatches, Match
  <1> QED BY <1>1, <1>6, <1>7 DEF Match, c, s, t

\* A composite whose fallback cannot be built claims for its primary, and gives
\* the claim back: the interface was nobody's before.
LEMMA FallbackFailureMatches ==
    ASSUME NEW r, NEW R \in Tables, Match(r, R),
           NEW a \in Acquisitions, Claimable(r, a)
    PROVE  Match(releaseClaimedInterface(createDHCPv6PDReceiver(r, a), a), R)
  <1> DEFINE t == releaseClaimedInterface(createDHCPv6PDReceiver(r, a), a)
  <1>0. r \in Resources
    BY DEF Match
  <1>1. t = [r EXCEPT !.claims = (r.claims \cup ({a.pd} \ {None})) \ {a.pd}]
    BY <1>0 DEF releaseClaimedInterface, createDHCPv6PDReceiver, Resources
  <1>2. (r.claims \cup ({a.pd} \ {None})) \ {a.pd} = r.claims
    BY DEF Claimable
  <1>3. t = r
    BY <1>0, <1>1, <1>2 DEF Resources
  <1> QED BY <1>3

-----------------------------------------------------------------------------
LEMMA IInvInit == Init => IInv
  <1> SUFFICES ASSUME Init PROVE IInv
    OBVIOUS
  <1>1. res \in Resources
    BY DEF Init, Resources
  <1>2. TypeOK
    BY <1>1, LifecycleConstants DEF Init, TypeOK
  <1>3. ClaimsMatch(res, receivers)
    BY DEF Init, ClaimsMatch, Using
  <1>4. PoolMatches(res, receivers)
    BY DEF Init, PoolMatches, Subscribing
  <1> QED BY <1>1, <1>2, <1>3, <1>4 DEF IInv, Match, Init

\* What getOrCreateReceiver has once it has stopped the old receiver.
LEMMA AfterStopMatches ==
    ASSUME IInv, NEW n \in Names
    PROVE  /\ Match(AfterStop(n), [receivers EXCEPT ![n] = None])
           /\ [receivers EXCEPT ![n] = None] \in [Names -> (Offered \cap Named) \cup {None}]
           /\ Uncancelled(n) = 0
  <1>1. receivers \in [Names -> (Offered \cap Named) \cup {None}] /\ receivers \in Tables
    BY LifecycleConstants DEF IInv, TypeOK, Tables
  <1>2. Uncancelled(n) = 0
    BY DEF IInv, Uncancelled
  <1>3. CASE receivers[n] = None
    <2>1. [receivers EXCEPT ![n] = None] = receivers
      BY <1>1, <1>3
    <2> QED BY <1>1, <1>2, <1>3, <2>1 DEF IInv, AfterStop
  <1>4. CASE receivers[n] # None
    BY <1>1, <1>2, <1>4, StopMatches DEF IInv, AfterStop
  <1> QED BY <1>3, <1>4

LEMMA IInvNext == IInv /\ [Next]_vars => IInv'
  <1> SUFFICES ASSUME IInv, [Next]_vars PROVE IInv'
    OBVIOUS
  <1>0. /\ wanted \in [Names -> Offered \cup {None}]
        /\ receivers \in [Names -> (Offered \cap Named) \cup {None}]
        /\ forwarders \in [Names -> Nat]
        /\ edits \in 0..MaxEdits /\ failures \in 0..MaxFailedStarts
    BY DEF IInv, TypeOK
  <1>1. ASSUME NEW n \in Names, NEW a \in Offered \cup {None}, UserChanges(n, a)
        PROVE  IInv'
    <2>1. wanted' \in [Names -> Offered \cup {None}] /\ edits' \in 0..MaxEdits
      BY <1>0, <1>1, LifecycleConstants DEF UserChanges
    <2> QED BY <1>1, <2>1 DEF UserChanges, IInv, TypeOK
  <1>2. ASSUME NEW n \in Names, Reconcile(n)
        PROVE  IInv'
    <2> DEFINE R == [receivers EXCEPT ![n] = None]
               r == AfterStop(n)
    <2>0. R \in [Names -> (Offered \cap Named) \cup {None}] /\ R \in Tables /\ R[n] = None
      BY <1>0, LifecycleConstants DEF Tables
    <2>1. Match(r, R) /\ Uncancelled(n) = 0
      BY AfterStopMatches
    <2> DEFINE Ends(t, T) == /\ res' = t /\ receivers' = T
                             /\ T \in [Names -> (Offered \cap Named) \cup {None}]
                             /\ Match(t, T)
                             /\ forwarders' = [forwarders EXCEPT ![n] = IF T[n] = None THEN 0 ELSE 1]
                             /\ \A m \in Names \ {n} : T[m] = receivers[m]
                             /\ UNCHANGED <<wanted, edits>> /\ failures' \in 0..MaxFailedStarts
    <2>2. ASSUME NEW t, NEW T, Ends(t, T) PROVE IInv'
      <3>1. forwarders' \in [Names -> Nat]
            /\ \A m \in Names : forwarders'[m] = IF receivers'[m] = None THEN 0 ELSE 1
        BY <1>0, <2>2 DEF IInv
      <3>2. res' \in Resources
        BY <2>2 DEF Match
      <3>3. TypeOK'
        BY <1>0, <2>2, <3>1, <3>2 DEF TypeOK
      <3> QED BY <2>2, <3>1, <3>3 DEF IInv
    <2>3. \A m \in Names \ {n} : R[m] = receivers[m]
      BY <1>0
    <2>4. wanted[n] # None => wanted[n] \in Offered /\ wanted[n] \in Acquisitions
      BY <1>0, LifecycleConstants
    <2> HIDE DEF r
    <2>5. CASE CreationFails(n)
      <3>1. Ends(r, R)
        BY <1>0, <2>0, <2>1, <2>3, <2>5 DEF CreationFails, r
      <3> QED BY <2>2, <3>1
    <2>9. CASE FallbackFails(n)
      <3> DEFINE a == wanted[n]
                 t == releaseClaimedInterface(createDHCPv6PDReceiver(r, a), a)
      <3>1. a # None /\ Claimable(r, a)
        BY <2>9 DEF FallbackFails, r
      <3>2. Match(t, R)
        BY <2>0, <2>1, <2>4, <3>1, FallbackFailureMatches
      <3>3. /\ res' = t /\ receivers' = R /\ forwarders' = [forwarders EXCEPT ![n] = 0]
            /\ UNCHANGED <<wanted, edits, failures>>
        BY <2>1, <2>9 DEF FallbackFails, r
      <3> HIDE DEF a, t
      <3>4. Ends(t, R)
        BY <1>0, <2>0, <2>3, <3>2, <3>3
      <3> QED BY <2>2, <3>4
    <2>6. CASE StartFails(n)
      <3> DEFINE a == wanted[n]
                 t == StopPD(StartPD(CreateReceiver(r, a), n, a), n, a)
      <3>1. a # None /\ Creatable(r, a)
        BY <2>6 DEF StartFails, r
      <3>0. a \in Named
        BY <2>4, <3>1 DEF Named, Creatable
      <3>2. Match(t, R)
        BY <2>0, <2>1, <3>0, <3>1, FailureMatches
      <3>3. /\ res' = t /\ receivers' = R /\ forwarders' = [forwarders EXCEPT ![n] = 0]
            /\ UNCHANGED <<wanted, edits>> /\ failures < MaxFailedStarts /\ failures' = failures + 1
        BY <2>1, <2>6 DEF StartFails, r
      <3> HIDE DEF a, t
      <3>4. Ends(t, R)
        BY <1>0, <2>0, <2>3, <3>2, <3>3, LifecycleConstants
      <3> QED BY <2>2, <3>4
    <2>7. CASE StartSucceeds(n)
      <3> DEFINE a == wanted[n]
                 t == addSubscriber(StartPD(CreateReceiver(r, a), n, a), n, a)
                 T == [receivers EXCEPT ![n] = a]
      <3>1. a # None /\ Creatable(r, a)
        BY <2>7 DEF StartSucceeds, r
      <3>0. a \in Named
        BY <2>4, <3>1 DEF Named, Creatable
      <3>2. T = [R EXCEPT ![n] = a]
        BY <1>0
      <3>3. Match(t, T)
        BY <2>0, <2>1, <3>0, <3>1, <3>2, StartMatches
      <3>4. /\ res' = t /\ receivers' = T /\ forwarders' = [forwarders EXCEPT ![n] = 1]
            /\ UNCHANGED <<wanted, edits, failures>>
        BY <2>1, <2>7 DEF StartSucceeds, r
      <3>5. T \in [Names -> (Offered \cap Named) \cup {None}] /\ T[n] # None
            /\ \A m \in Names \ {n} : T[m] = receivers[m]
        BY <1>0, <2>4, <3>0, <3>1
      <3> HIDE DEF a, t, T
      <3>6. Ends(t, T)
        BY <1>0, <3>3, <3>4, <3>5
      <3> QED BY <2>2, <3>6
    <2>8. CASE cleanupReceiver(n)
      <3>1. Ends(r, R)
        BY <1>0, <2>0, <2>1, <2>3, <2>8 DEF cleanupReceiver, AfterStop, r
      <3> QED BY <2>2, <3>1
    <2> QED BY <1>2, <2>5, <2>6, <2>7, <2>8, <2>9 DEF Reconcile
  <1>3. CASE UNCHANGED vars
    BY <1>3 DEF vars, IInv, TypeOK
  <1> QED BY <1>1, <1>2, <1>3 DEF Next

\* The invariant every theorem below follows from.
THEOREM Invariance == Spec => []IInv
  BY IInvInit, IInvNext, PTL DEF Spec

\* The tables of the reconciler, the factory and the shared pool keep their
\* types; in particular the counter of forwarders is never negative.
THEOREM TypeCorrect == Spec => []TypeOK
  <1>1. IInv => TypeOK
    BY DEF IInv
  <1> QED BY <1>1, Invariance, PTL

\* claimPDInterface and releaseClaimedInterface (factory.go): no creation that
\* claims an interface and then fails, no failed start, rebuild or clean-up
\* leaves a claim behind, no two receivers share one, and every receiver has one
\* reader of its events.
THEOREM NoClaimLeaks == Spec => []ClaimsAreUses
  <1>1. IInv => ClaimsAreUses
    <2> SUFFICES ASSUME IInv PROVE ClaimsAreUses
      OBVIOUS
    <2>1. \A n \in Names : n \in Live <=> receivers[n] # None
      BY DEF Live
    <2>2. \A n \in Live : receivers[n] \in Named
      BY LifecycleConstants DEF IInv, TypeOK, Live
    <2>3. \A n \in Live : receivers[n].pd # None => receivers[n].pd \in Interfaces
      BY <2>2 DEF Named, Acquisitions
    <2> QED BY <2>1, <2>3 DEF IInv, Match, ClaimsMatch, Using, ClaimsAreUses, Live
  <1> QED BY <1>1, Invariance, PTL

\* shared_ra_receiver.go: a pooled receiver runs exactly while resources built
\* for its interface and policy subscribe to it, and they reach it.
THEOREM SharedReceiversMatch == Spec => []PoolIsShared
  <1>1. IInv => PoolIsShared
    BY DEF IInv, Match, PoolMatches, Subscribing, PoolIsShared, Live
  <1> QED BY <1>1, Invariance, PTL
=============================================================================
