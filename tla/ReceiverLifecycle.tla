-------------------------- MODULE ReceiverLifecycle --------------------------
(***************************************************************************)
(* How receivers come and go: getOrCreateReceiver and cleanupReceiver of   *)
(* the reconciler, the factory's one-client-per-interface claims, and the  *)
(* pool that shares one Router Advertisement receiver between resources.   *)
(* receiversMu is held from the comparison of specs to the end of Start,   *)
(* and for the whole of cleanupReceiver, so each of them is one step; the  *)
(* delegation loops they cancel come to their end later.                   *)
(***************************************************************************)
EXTENDS Naturals

CONSTANTS
    Names,        \* of DynamicPrefix resources
    Interfaces,
    Policies,     \* acceptance policies of Router Advertisement receivers
    BadPolicy,    \* one whose trusted routers do not parse
    Offered,      \* the acquisition specs users write
    Unnamed,      \* the interface of a routerAdvertisement that names none
    None,
    MaxEdits,     \* bound on changes to the resources
    MaxFailedStarts  \* bound on failed starts of a socket

\* spec.acquisition.  A resource asks for a delegation, for advertisements,
\* or for both: then advertisements are the fallback.  The interface of a
\* routerAdvertisement is optional.
Acquisitions ==
    [pd: Interfaces \cup {None}, ra: Interfaces \cup {None, Unnamed}, policy: Policies]

\* The ones a receiver can be built from.
Named == {a \in Acquisitions : a.ra # Unnamed}

Keys == Interfaces \X Policies

ASSUME LifecycleConstants ==
    /\ None \notin Interfaces \cup Acquisitions \cup Names
    /\ Unnamed \notin Interfaces \cup {None}
    /\ BadPolicy \in Policies
    /\ Offered \subseteq Acquisitions
    /\ MaxEdits \in Nat
    /\ MaxFailedStarts \in Nat

VARIABLES
    wanted,      \* spec.acquisition of each resource, None when it is gone
    receivers,   \* receivers with receiverSpecs: what each one was built from
    forwarders,  \* how many goroutines forward each resource's events
    res,         \* what receivers hold, see Resources
    edits, failures

vars == <<wanted, receivers, forwarders, res, edits, failures>>

\* claims is pdInterfaces; clients names the started delegation client of an
\* interface; pooled are the keys of the shared pool's map, running the
\* entries whose receiver is started, subs the subscribers of each.
Resources ==
    [claims: SUBSET Interfaces, clients: [Interfaces -> Names \cup {None}],
     pooled: SUBSET Keys, running: SUBSET Keys,
     subs: [Keys -> SUBSET Names]]

-----------------------------------------------------------------------------
\* poolKey: receivers are shared per interface and policy.
poolKey(a) == <<a.ra, a.policy>>

\* releaseClaimedInterface.
releaseClaimedInterface(r, a) == [r EXCEPT !.claims = @ \ {a.pd}]

\* DHCPv6PDReceiver.Stop: the claim is released.  (The cancelled loop ends in
\* its own time; that is not followed here.)
StopPD(r, n, a) ==
    IF a.pd = None THEN r
    ELSE [releaseClaimedInterface(r, a) EXCEPT !.clients[a.pd] = None]

\* Mutant: the entry stays in the map, and its receiver running.
unsubscribeOnly(r, n, a) ==
    IF a.ra = None THEN r ELSE [r EXCEPT !.subs[poolKey(a)] = @ \ {n}]

\* unsubscribe: the last subscriber takes the entry and its receiver along.
unsubscribe(r, n, a) ==
    IF a.ra = None THEN r
    ELSE LET gone == IF r.subs[poolKey(a)] = {n} THEN {poolKey(a)} ELSE {}
         IN  [r EXCEPT !.subs[poolKey(a)] = @ \ {n},
                       !.pooled = @ \ gone,
                       !.running = @ \ gone]

\* Receiver.Stop, of whichever kind n has.
Stop(r, n, a) == unsubscribe(StopPD(r, n, a), n, a)

\* CreateReceiver can fail before it has claimed anything: nothing asked for,
\* a trusted router that does not parse, or an interface some other client has
\* claimed.
Claimable(r, a) ==
    /\ a.pd # None \/ a.ra # None
    /\ a.ra # None => a.policy # BadPolicy
    /\ a.pd \notin r.claims

\* createDHCPv6PDReceiver: claimPDInterface.
createDHCPv6PDReceiver(r, a) == [r EXCEPT !.claims = @ \cup ({a.pd} \ {None})]

\* createRAReceiver: the pool's subscribe; without an interface it fails.
createRAReceiver(r, a) ==
    IF a.ra = None THEN r ELSE [r EXCEPT !.pooled = @ \cup {poolKey(a)}]

Creatable(r, a) == Claimable(r, a) /\ a.ra # Unnamed

\* CreateReceiver: of a composite, the primary first.
CreateReceiver(r, a) == createRAReceiver(createDHCPv6PDReceiver(r, a), a)

\* Receiver.Start: the delegation loop, then addSubscriber.
StartPD(r, n, a) == IF a.pd = None THEN r ELSE [r EXCEPT !.clients[a.pd] = n]

addSubscriber(r, n, a) ==
    IF a.ra = None THEN r
    ELSE [r EXCEPT !.subs[poolKey(a)] = @ \cup {n}, !.running = @ \cup {poolKey(a)}]

-----------------------------------------------------------------------------
Init ==
    /\ wanted = [n \in Names |-> None]
    /\ receivers = [n \in Names |-> None]
    /\ forwarders = [n \in Names |-> 0]
    /\ res = [claims |-> {}, clients |-> [i \in Interfaces |-> None],
              pooled |-> {}, running |-> {}, subs |-> [k \in Keys |-> {}]]
    /\ edits = 0
    /\ failures = 0

\* A user creates, edits or deletes a resource.
UserChanges(n, a) ==
    /\ edits < MaxEdits
    /\ wanted[n] # a
    /\ wanted' = [wanted EXCEPT ![n] = a]
    /\ edits' = edits + 1
    /\ UNCHANGED <<receivers, forwarders, res, failures>>

\* Mutant: the new receiver is created before the old one is stopped.
CreateBeforeStop(n) == res

\* getOrCreateReceiver stops a receiver built from another spec first.
AfterStop(n) == IF receivers[n] = None THEN res ELSE Stop(res, n, receivers[n])

\* stopReceiverLocked: the forwarding goroutine of n's receiver is cancelled.
Uncancelled(n) == IF receivers[n] = None THEN forwarders[n] ELSE forwarders[n] - 1

\* getOrCreateReceiver, CreateReceiver failing before it claims.
CreationFails(n) ==
    /\ wanted[n] \notin {None, receivers[n]}
    /\ ~Claimable(AfterStop(n), wanted[n])
    /\ res' = AfterStop(n)
    /\ receivers' = [receivers EXCEPT ![n] = None]
    /\ forwarders' = [forwarders EXCEPT ![n] = Uncancelled(n)]
    /\ UNCHANGED <<wanted, edits, failures>>

\* Mutant: the primary of a composite that is not built keeps its claim.
FallbackFailsAndLeaks(n) ==
    /\ wanted[n] \notin {None, receivers[n]}
    /\ Claimable(AfterStop(n), wanted[n])
    /\ wanted[n].ra = Unnamed
    /\ res' = createDHCPv6PDReceiver(AfterStop(n), wanted[n])
    /\ receivers' = [receivers EXCEPT ![n] = None]
    /\ forwarders' = [forwarders EXCEPT ![n] = Uncancelled(n)]
    /\ UNCHANGED <<wanted, edits, failures>>

\* getOrCreateReceiver, createRAReceiver failing.  In a composite the primary
\* has claimed its interface by then, and nothing will ever stop it.
FallbackFails(n) ==
    LET claimed == createDHCPv6PDReceiver(AfterStop(n), wanted[n])
    IN  /\ wanted[n] \notin {None, receivers[n]}
        /\ Claimable(AfterStop(n), wanted[n])
        /\ wanted[n].ra = Unnamed
        /\ res' = releaseClaimedInterface(claimed, wanted[n])
        /\ receivers' = [receivers EXCEPT ![n] = None]
        /\ forwarders' = [forwarders EXCEPT ![n] = Uncancelled(n)]
        /\ UNCHANGED <<wanted, edits, failures>>

\* getOrCreateReceiver, Start failing: the socket of a shared receiver that is
\* not running yet does not open.  A composite stops its primary again; the
\* pool keeps the entry.
StartFails(n) ==
    LET a == wanted[n]
        created == CreateReceiver(AfterStop(n), a)
    IN  /\ a \notin {None, receivers[n]}
        /\ Creatable(AfterStop(n), a)
        /\ a.ra # None
        /\ poolKey(a) \notin created.running
        /\ failures < MaxFailedStarts
        /\ failures' = failures + 1
        /\ res' = StopPD(StartPD(created, n, a), n, a)
        /\ receivers' = [receivers EXCEPT ![n] = None]
        /\ forwarders' = [forwarders EXCEPT ![n] = Uncancelled(n)]
        /\ UNCHANGED <<wanted, edits>>

\* getOrCreateReceiver, succeeding.
StartSucceeds(n) ==
    LET a == wanted[n]
    IN  /\ a \notin {None, receivers[n]}
        /\ Creatable(AfterStop(n), a)
        /\ res' = addSubscriber(StartPD(CreateReceiver(AfterStop(n), a), n, a), n, a)
        /\ receivers' = [receivers EXCEPT ![n] = a]
        /\ forwarders' = [forwarders EXCEPT ![n] = Uncancelled(n) + 1]
        /\ UNCHANGED <<wanted, edits, failures>>

\* cleanupReceiver, for a resource that is gone.
cleanupReceiver(n) ==
    /\ wanted[n] = None
    /\ receivers[n] # None
    /\ res' = Stop(res, n, receivers[n])
    /\ receivers' = [receivers EXCEPT ![n] = None]
    /\ forwarders' = [forwarders EXCEPT ![n] = Uncancelled(n)]
    /\ UNCHANGED <<wanted, edits, failures>>

Reconcile(n) ==
    \/ CreationFails(n)
    \/ FallbackFails(n)
    \/ StartFails(n)
    \/ StartSucceeds(n)
    \/ cleanupReceiver(n)

Next ==
    \/ \E n \in Names, a \in Offered \cup {None} : UserChanges(n, a)
    \/ \E n \in Names : Reconcile(n)

Spec == Init /\ [][Next]_vars

\* Every resource is reconciled again and again: a failed creation is retried
\* after a fixed delay, and changes enqueue a request.
FairSpec == Spec /\ \A n \in Names : WF_vars(Reconcile(n))

-----------------------------------------------------------------------------
TypeOK ==
    /\ wanted \in [Names -> Offered \cup {None}]
    /\ receivers \in [Names -> (Offered \cap Named) \cup {None}]
    /\ forwarders \in [Names -> Nat]
    /\ res \in Resources
    /\ edits \in 0..MaxEdits
    /\ failures \in 0..MaxFailedStarts

Live == {n \in Names : receivers[n] # None}

(* factory.go, claimPDInterface and releaseClaimedInterface: an interface  *)
(* is claimed exactly while one resource's receiver uses it for a          *)
(* delegation.  A creation that claims and then fails, a failed start, a    *)
(* rebuild or a clean-up leaves no claim behind, and no two receivers      *)
(* share one.                                                              *)
(* getOrCreateReceiver: "every receiver has exactly one reader for its     *)
(* lifetime", and a resource without a receiver has none.                  *)
ClaimsAreUses ==
    /\ \A n \in Names : forwarders[n] = IF n \in Live THEN 1 ELSE 0
    /\ \A i \in Interfaces : i \in res.claims <=> \E n \in Live : receivers[n].pd = i
    /\ \A n \in Live : receivers[n].pd # None => res.clients[receivers[n].pd] = n

(* shared_ra_receiver.go: a pooled receiver runs exactly while it has      *)
(* subscribers, they are the resources whose receiver was built for its    *)
(* interface and policy, and each of them reaches it through the map.      *)
PoolIsShared ==
    \A k \in Keys :
        /\ res.subs[k] = {n \in Live : receivers[n].ra # None /\ poolKey(receivers[n]) = k}
        /\ k \in res.running <=> res.subs[k] # {}
        /\ k \in res.running => k \in res.pooled

Servable(n) ==
    /\ wanted[n] # None
    /\ wanted[n].pd # None \/ wanted[n].ra # None
    /\ wanted[n].ra # Unnamed
    /\ wanted[n].ra # None => wanted[n].policy # BadPolicy
    /\ \A m \in Names \ {n} :
         wanted[m] # None => wanted[n].pd = None \/ wanted[m].pd # wanted[n].pd

(* getOrCreateReceiver stops before it creates: once no two resources ask  *)
(* for the same interface, each of them gets the receiver it asks for,     *)
(* also when they had been using each other's.                             *)
EverybodyServed == \A n \in Names : <>[]Servable(n) => <>[](receivers[n] = wanted[n])
=============================================================================
