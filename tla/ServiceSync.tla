----------------------------- MODULE ServiceSync -----------------------------
(***************************************************************************)
(* ServiceSyncReconciler: one LoadBalancer Service of a DynamicPrefix in   *)
(* HA mode.  It requests the Service's address in the current and in the   *)
(* draining prefixes, moves the external-dns target once the address is    *)
(* assigned, nudges Cilium's L2 announcer, and hands everything back when  *)
(* it stops managing the Service.  Annotations hold sets of entries; an    *)
(* address in a prefix is the prefix and a host part.  A Service is read,  *)
(* written once and nudged with a second write; a write of a Service that  *)
(* has changed since it was read is refused.                               *)
(***************************************************************************)
EXTENDS Naturals, Sequences, FiniteSets

CONSTANTS
    Prefixes, Hosts,
    Statics,       \* IPv4 addresses, which are in no prefix
    Hostnames,     \* what else users put into an external-dns target
    Suffix,        \* the host part dynamic-prefix.io/suffix asks for
    RangeFits,     \* the prefixes the named address range or subnet fits
    Modes, Providers,
    Needed,        \* l2Nudge.Needed, the annotations that override it included
    Configs,       \* --external-dns-target keys, as the operator is upgraded
    None,
    MaxHistory, MaxRotations,
    MaxEdits       \* bound on edits, and on addresses assigned unasked or in part

Fields == {"cilium", "kube-vip"}
Keys == {"alpha", "stable"}
Addresses == Prefixes \X Hosts
Entries == Addresses \cup Statics \cup Hostnames
Records == (SUBSET Entries) \cup {None}

ASSUME ServiceSyncConstants ==
    /\ IsFiniteSet(Prefixes) /\ IsFiniteSet(Hosts) /\ IsFiniteSet(Statics)
    /\ Suffix \in Hosts
    /\ RangeFits \subseteq Prefixes /\ Needed \in BOOLEAN
    /\ Modes \subseteq {"suffix", "inferred", "named"}
    /\ {"cilium"} \subseteq Providers /\ Providers \subseteq Fields \cup {"unknown"}
    /\ Configs \in Seq((SUBSET Keys) \ {{}}) /\ Configs # <<>>
    /\ None \notin Prefixes \cup Entries /\ \A S \in SUBSET Entries : None # S
    /\ Statics \cap Addresses = {} /\ Hostnames \cap (Addresses \cup Statics) = {}
    /\ MaxHistory \in Nat /\ MaxEdits \in Nat /\ MaxRotations \in Nat

Services ==
    [lb: BOOLEAN,                       \* spec.type is LoadBalancer
     dp: BOOLEAN,                       \* dynamic-prefix.io/name
     mode: Modes, provider: Providers,  \* how its address is found; lb-provider
     skip: BOOLEAN,                     \* skip-external-dns-update
     ips: [Fields -> SUBSET Entries],   \* the addresses asked of each provider
     ipsRec: Records,                   \* managed-ips, None when absent
     targets: [Keys -> SUBSET Entries], \* the external-dns target, by annotation
     targetRec: Records,                \* managed-targets
     nudge: Records,                    \* the fingerprint: the addresses it is of
     assigned: SUBSET Entries]          \* status.loadBalancer.ingress

Statuses == [exists: BOOLEAN, ha: BOOLEAN, current: Prefixes \cup {None},
             history: SUBSET Prefixes]

NoDP == [exists |-> FALSE, ha |-> FALSE, current |-> None, history |-> {}]

VARIABLES
    svc,      \* the Service in the API server
    dp,       \* the DynamicPrefix, as the cache shows it
    config,   \* which of Configs the running operator has
    queued,   \* is the Service in the work queue?
    cur,      \* the request being reconciled
    pins,     \* history: the entries the user wrote
    stranded, \* history: operator entries left when their record was dropped
    edits, rotations

vars == <<svc, dp, config, queued, cur, pins, stranded,
          edits, rotations>>
world == <<dp, config, pins, edits, rotations>>

\* The Service as it was read or last written, the address DNS and the nudge
\* are about, and whether the request is to be repeated.
Requests == [step: {"sync", "nudge"}, svc: Services, ip: Entries \cup {None}, again: BOOLEAN]

Idle == [step |-> "idle"]

-----------------------------------------------------------------------------
\* collectManagedPrefixes
managedPrefixes == ({dp.current} \cup dp.history) \ {None}

Inside(e) == IF e \in Addresses THEN e[1] ELSE None

\* A Service this controller is to write: named, by a resource in HA mode.
Managed(s) == s.dp /\ dp.exists /\ dp.ha

hasOwnershipRecord(s) == s.ipsRec # None \/ s.targetRec # None

\* Mutant: only annotated Services are watched.
WatchedAnnotated(s) == s.lb /\ s.dp

\* The watch predicate of SetupWithManager.
Watched(s) == s.lb /\ (s.dp \/ hasOwnershipRecord(s))

\* getCurrentServiceIP: which one depends on the order of the status, an
\* IPv6 address before any other.
getCurrentServiceIP(s) ==
    IF s.assigned \cap Addresses # {} THEN s.assigned \cap Addresses ELSE s.assigned

\* calculateSuffixIPs: the address the suffix asks for.
suffixIP == <<dp.current, Suffix>>

\* The network part of a prefix, the host part of an address.
combinePrefixSuffix(pfx, addr) == <<pfx, addr[2]>>

\* calculateServiceIPs: the address that is to be the Service's, a the one it
\* has.  A named range or subnet never moves it.
currentIP(s, a) ==
    CASE s.mode = "suffix" -> suffixIP
      [] s.mode = "inferred" /\ Inside(a) \in managedPrefixes -> combinePrefixSuffix(dp.current, a)
      [] OTHER -> a

\* calculateAddressRangeIPs, calculateSubnetIPs and the like: with an address
\* in the current prefix go those of the draining ones.
allIPs(s, ip) ==
    LET fits == IF s.mode = "named" THEN RangeFits ELSE Prefixes
    IN  IF Inside(ip) = dp.current /\ dp.current \in fits
          THEN {combinePrefixSuffix(x, ip) : x \in managedPrefixes \cap fits}
          ELSE {ip}

\* preserveUnownedIPs, extractUnmanagedIPs
preserveUnownedIPs(list, record) ==
    IF record = None THEN {e \in list : Inside(e) \notin managedPrefixes}
                     ELSE list \ record

\* Mutant: the operator claims what the user has pinned.
claimPinned(candidates, pinned) == candidates

excludePinned(candidates, pinned) == candidates \ pinned

\* A record that would be empty is not written where there is none.
Claim(record, claimed) == IF record = None /\ claimed = {} THEN None ELSE claimed

\* writeLBAddresses, and the record of what it claims: the provider's field
\* is filled, the other one gives the operator's entries up.
writeLBAddresses(s, ip) ==
    LET preserved == preserveUnownedIPs(s.ips[s.provider], s.ipsRec)
    IN  [s EXCEPT
          !.ips = [f \in Fields |->
                     IF f = s.provider THEN preserved \cup allIPs(s, ip)
                                       ELSE preserveUnownedIPs(s.ips[f], s.ipsRec)],
          !.ipsRec = Claim(s.ipsRec, excludePinned(allIPs(s, ip), preserved))]

targetKeys == Configs[config]

\* firstAnnotationValue
existingTarget(s) ==
    IF "alpha" \in targetKeys /\ s.targets["alpha"] # {} THEN s.targets["alpha"]
    ELSE IF "stable" \in targetKeys THEN s.targets["stable"] ELSE {}

finalTargets(s, ip) == preserveUnownedIPs(existingTarget(s), s.targetRec) \cup {ip}

\* Mutant: DNS leads the address.
ReadyAtOnce(s, ip) == TRUE

\* Mutant: a target never moves once an address is assigned.
ReadyUnassigned(s, ip) == s.assigned = {}

dnsTargetReady(s, ip) == s.assigned = {} \/ ip \in s.assigned

allAnnotationsEqual(targets, want) == \A k \in targetKeys : targets[k] = want

deferredDNSTarget(s, ip) ==
    /\ ~s.skip
    /\ ~allAnnotationsEqual(s.targets, finalTargets(s, ip))
    /\ ~dnsTargetReady(s, ip)

\* Mutant: the record moves ahead of the target.
RecordsAhead(s, ip) ==
    LET final == finalTargets(s, ip)
        released == [k \in Keys |-> IF k \in targetKeys THEN s.targets[k]
                                    ELSE preserveUnownedIPs(s.targets[k], s.targetRec)]
    IN  [s EXCEPT
          !.targets = IF dnsTargetReady(s, ip)
                        THEN [k \in Keys |-> IF k \in targetKeys THEN final ELSE released[k]]
                        ELSE released,
          !.targetRec = {ip}]

\* syncExternalDNSTarget: keys no longer configured are released, and the
\* configured ones, with the record, move together once the address is ready.
publishTarget(s, ip) ==
    LET preserved == preserveUnownedIPs(existingTarget(s), s.targetRec)
        final == finalTargets(s, ip)
        released == [k \in Keys |-> IF k \in targetKeys THEN s.targets[k]
                                    ELSE preserveUnownedIPs(s.targets[k], s.targetRec)]
        moves == dnsTargetReady(s, ip) /\ ~allAnnotationsEqual(s.targets, final)
        targets == IF moves THEN [k \in Keys |-> IF k \in targetKeys THEN final ELSE released[k]]
                            ELSE released
    IN  [s EXCEPT !.targets = targets,
                  !.targetRec = IF allAnnotationsEqual(targets, final)
                                  THEN Claim(@, excludePinned({ip}, preserved)) ELSE @]

\* syncExternalDNSTarget of a Service that has opted out.
handTargetBack(s) ==
    IF s.targetRec = None THEN s
    ELSE [s EXCEPT !.targets = [k \in Keys |-> preserveUnownedIPs(@[k], s.targetRec)],
                   !.targetRec = None]

syncExternalDNSTarget(s, ip) == IF s.skip THEN handTargetBack(s) ELSE publishTarget(s, ip)

Synced(s, ip) == syncExternalDNSTarget(writeLBAddresses(s, ip), ip)

\* Is a Service whose annotations are right written all the same, to move
\* last-sync?  It is while the other provider's field, or a target key no
\* longer configured, holds anything.
Rewrites(s) ==
    \/ \E f \in Fields \ {s.provider} : s.ips[f] # {}
    \/ ~s.skip /\ \E k \in Keys \ targetKeys : s.targets[k] # {}

\* The annotations releaseService leaves.
Released(s) ==
    [s EXCEPT
      !.ips = IF s.ipsRec = None THEN @ ELSE [f \in Fields |-> @[f] \ s.ipsRec],
      !.ipsRec = None,
      !.targets["alpha"] = IF s.targetRec = None THEN @ ELSE @ \ s.targetRec,
      !.targetRec = None,
      !.nudge = None]

-----------------------------------------------------------------------------
\* A Service its user has just annotated, before there is a DynamicPrefix.
Init ==
    /\ svc \in [lb: {TRUE}, dp: {TRUE}, mode: Modes, provider: {"cilium"}, skip: {FALSE},
                ips: {[f \in Fields |-> {}]}, ipsRec: {None},
                targets: {[k \in Keys |-> {}]}, targetRec: {None},
                nudge: {None}, assigned: {{}}]
    /\ dp = NoDP
    /\ config = 1
    /\ queued = TRUE
    /\ cur = Idle
    /\ pins = [ips |-> [f \in Fields |-> {}], targets |-> {}]
    /\ stranded = {}
    /\ edits = 0 /\ rotations = 0

\* Users pin addresses of a prefix only where a record tells them from the
\* operator's, and have no address pinned when they change the provider.
PinsCleanly ==
    \A f \in Fields : \/ pins.ips[f] = {} \/ ~Managed(svc)
                      \/ svc.provider = f /\ (pins.ips[f] \subseteq Statics \/ svc.ipsRec # None)

UserWrites(s, mine) ==
    /\ edits < MaxEdits
    /\ s # svc
    /\ svc' = s
    /\ pins' = mine
    /\ queued' = (queued \/ Watched(s))
    /\ edits' = edits + 1
    /\ UNCHANGED <<dp, config, cur, stranded, rotations>>
    /\ PinsCleanly'

\* A user edits the annotations that direct the operator.
UserEdits ==
    \E s \in {[svc EXCEPT !.lb = ~@], [svc EXCEPT !.dp = ~@], [svc EXCEPT !.skip = ~@]}
               \cup {[svc EXCEPT !.mode = m] : m \in Modes}
               \cup {[svc EXCEPT !.provider = v] : v \in Providers} :
        UserWrites(s, pins)

\* A user pins an address where the provider reads them.
UserAsks(e) ==
    /\ svc.provider \in Fields
    /\ UserWrites([svc EXCEPT !.ips[svc.provider] = @ \cup {e}],
                  IF svc.ipsRec # None /\ e \in svc.ipsRec THEN pins
                  ELSE [pins EXCEPT !.ips[svc.provider] = @ \cup {e}])

\* A user adds a name to the target, under the first key in use.
UserTargets(n) ==
    LET k == IF "alpha" \in targetKeys THEN "alpha" ELSE "stable"
    IN  UserWrites([svc EXCEPT !.targets[k] = @ \cup {n}],
                   IF svc.targetRec # None /\ n \in svc.targetRec THEN pins
                   ELSE [pins EXCEPT !.targets = @ \cup {n}])

\* A user takes an entry out of every annotation.
UserRemoves(e) ==
    UserWrites([svc EXCEPT !.ips = [f \in Fields |-> @[f] \ {e}],
                           !.targets = [k \in Keys |-> @[k] \ {e}]],
               [ips |-> [f \in Fields |-> pins.ips[f] \ {e}], targets |-> pins.targets \ {e}])

\* The DynamicPrefix changes; findReferencingServices tells the Services
\* that name it.
StatusChanges(d) ==
    /\ rotations < MaxRotations
    /\ d # dp
    /\ dp' = d
    /\ rotations' = rotations + 1
    /\ queued' = (queued \/ (svc.lb /\ svc.dp))
    /\ UNCHANGED <<svc, config, cur, pins, stranded, edits>>
    /\ PinsCleanly'

Created == ~dp.exists /\ \E x \in Prefixes \cup {None}, ha \in BOOLEAN :
    StatusChanges([exists |-> TRUE, ha |-> ha, current |-> x, history |-> {}])

Deleted == StatusChanges(NoDP)

TransitionChanges == dp.exists /\ StatusChanges([dp EXCEPT !.ha = ~@])

\* A prefix is acquired; the ones before it drain, or have aged out.
Rotates(x) ==
    \E drain \in SUBSET (managedPrefixes \ {x}) :
        /\ dp.exists
        /\ Cardinality(drain) <= MaxHistory
        /\ StatusChanges([dp EXCEPT !.current = x, !.history = drain])

\* The operator restarts, with the next set of target keys.
Restart ==
    /\ config < Len(Configs)
    /\ config' = config + 1
    /\ cur' = Idle
    /\ queued' = Watched(svc)
    /\ UNCHANGED <<svc, dp, pins, stranded, edits, rotations>>

Requested == IF svc.provider \in Fields THEN svc.ips[svc.provider] ELSE {}

\* The load balancer writes the status.
Assign(A) ==
    /\ svc.lb
    /\ A # svc.assigned
    /\ svc' = [svc EXCEPT !.assigned = A]
    /\ queued' = (queued \/ Watched(svc))
    /\ UNCHANGED <<dp, config, cur, pins, stranded, rotations>>

\* It assigns some of what is asked of it or, asked for nothing, an address
\* of the current prefix or of another pool.
AssignsSome ==
    \E A \in (SUBSET Requested)
               \cup (IF Requested # {} THEN {}
                     ELSE {{e} : e \in Statics \cup {x \in Addresses : x[1] = dp.current}}) :
        /\ edits < MaxEdits
        /\ edits' = edits + 1
        /\ Assign(A)

AssignsAll == Requested # {} /\ Assign(Requested) /\ UNCHANGED edits

-----------------------------------------------------------------------------
\* Reconcile reads the Service.
Read ==
    /\ cur = Idle
    /\ queued
    /\ queued' = FALSE
    /\ cur' = [step |-> "sync", svc |-> svc, ip |-> None, again |-> FALSE]
    /\ UNCHANGED <<world, svc, stranded>>

\* Reconcile returns; an error or a requeue brings the request back.
Return(again) == cur' = Idle /\ queued' = (queued \/ again)

\* No prefix yet, no address to infer the host part from, or an lb-provider
\* it does not know: later, or again.
Waits(s) ==
    \/ dp.current = None
    \/ s.mode # "suffix" /\ s.assigned = {}
    \/ s.provider = "unknown"

LeaveAlone ==
    LET s == cur.svc
    IN  /\ cur # Idle /\ cur.step = "sync"
        /\ \/ ~s.lb \/ (~Managed(s) /\ ~hasOwnershipRecord(s))
           \/ Managed(s) /\ Waits(s)
        /\ Return(s.lb /\ s.dp /\ (dp.exists => Managed(s)))
        /\ UNCHANGED <<world, svc, stranded>>

\* A write refused, because the Service has changed; any other error takes
\* the same path.
Refused ==
    /\ svc # cur.svc
    /\ Return(TRUE)
    /\ UNCHANGED <<world, svc, stranded>>

\* releaseService
releaseService ==
    LET s == cur.svc
    IN  /\ cur # Idle /\ cur.step = "sync"
        /\ s.lb /\ ~Managed(s) /\ hasOwnershipRecord(s)
        /\ \/ Refused
           \/ /\ svc = s
              /\ svc' = Released(s)
              /\ stranded' = stranded \cup
                   (IF s.targetRec = None THEN {} ELSE svc'.targets["stable"] \cap s.targetRec)
              /\ Return(Watched(svc'))
              /\ UNCHANGED <<world>>

\* The end of a pass over a Service that is now s.
Proceed(s, ip, deferred) ==
    /\ cur' = IF s.provider = "cilium"
                THEN [step |-> "nudge", svc |-> s, ip |-> ip, again |-> deferred]
                ELSE Idle
    /\ UNCHANGED stranded

\* Reconcile computes the annotations and writes them if they have changed.
Sync ==
    LET s == cur.svc
    IN  /\ cur # Idle /\ cur.step = "sync"
        /\ s.lb /\ Managed(s) /\ ~Waits(s)
        /\ \E a \in IF s.mode = "suffix" THEN {None} ELSE getCurrentServiceIP(s) :
           \E ip \in {currentIP(s, a)} : \E synced \in {Synced(s, ip)} :
             LET deferred == deferredDNSTarget(s, ip)
                 requeue == deferred /\ s.provider # "cilium"
             IN  \/ synced = s /\ ~Rewrites(s)
                    /\ Proceed(s, ip, deferred)
                    /\ queued' = (queued \/ requeue)
                    /\ UNCHANGED <<world, svc>>
                 \/ svc = s /\ (synced # s \/ Rewrites(s))
                    /\ svc' = synced
                    /\ Proceed(synced, ip, deferred)
                    /\ queued' \in {TRUE} \cup (IF synced = s THEN {queued \/ requeue} ELSE {})
                    /\ UNCHANGED <<world>>
                 \/ (synced # s \/ Rewrites(s)) /\ Refused

\* Mutant: a Service is nudged once.
UpToDateOnce(s) == s.nudge # None

\* The fingerprint is that of the addresses assigned now.
FingerprintMatches(s) == s.nudge = s.assigned

\* nudgeL2Announcer
nudgeL2Announcer ==
    LET s == cur.svc
        due == Needed /\ cur.ip \in s.assigned /\ ~FingerprintMatches(s)
    IN  /\ cur # Idle /\ cur.step = "nudge"
        /\ \/ /\ ~due
              /\ Return(cur.again \/ (Needed /\ cur.ip \notin s.assigned))
              /\ UNCHANGED <<world, svc, stranded>>
           \/ /\ due /\ svc = s
              /\ svc' = [s EXCEPT !.nudge = s.assigned]
              /\ Return(TRUE)
              /\ UNCHANGED <<world, stranded>>
           \/ due /\ Refused

Reconcile == Read \/ LeaveAlone \/ releaseService \/ Sync \/ nudgeL2Announcer

Environment ==
    \/ UserEdits
    \/ \E e \in Addresses \cup Statics : UserAsks(e)
    \/ \E n \in Hostnames : UserTargets(n)
    \/ \E e \in Entries : UserRemoves(e)
    \/ Created \/ Deleted \/ TransitionChanges \/ \E x \in Prefixes : Rotates(x)
    \/ Restart
    \/ AssignsSome

Next == Environment \/ AssignsAll \/ Reconcile

Spec == Init /\ [][Next]_vars

\* The worker serves a queued Service in the end, and the load balancer
\* assigns what it is asked for.
FairSpec == Spec /\ WF_vars(Reconcile) /\ WF_vars(AssignsAll)

-----------------------------------------------------------------------------
TypeOK ==
    /\ svc \in Services
    /\ dp \in Statuses
    /\ config \in DOMAIN Configs
    /\ queued \in BOOLEAN
    /\ cur \in Requests \cup {Idle}
    /\ pins \in [ips: [Fields -> SUBSET Entries], targets: SUBSET Hostnames]
    /\ stranded \in SUBSET Entries
    /\ edits \in Nat /\ rotations \in Nat

(* preserveUnownedIPs: what the user wrote stays, in the field of the      *)
(* provider and in the external-dns target, through rotations, changes of  *)
(* mode and provider, opt-outs, releases and a migration of the keys.      *)
PinsKept ==
    /\ \A f \in Fields : pins.ips[f] \subseteq svc.ips[f]
    /\ pins.targets \subseteq UNION {svc.targets[k] : k \in Keys}

Recorded(record) == IF record = None THEN {} ELSE record

(* writeLBAddresses and syncExternalDNSTarget: every entry that is not the *)
(* user's is in the record beside it, so that it is recognised when its    *)
(* prefix has aged out; the record moves with the target, not ahead of it. *)
(* The only exception is what a release strands.                           *)
EntriesOwned ==
    /\ \A f \in Fields : svc.ips[f] \subseteq pins.ips[f] \cup Recorded(svc.ipsRec)
    /\ \A k \in Keys : svc.targets[k] \subseteq pins.targets \cup Recorded(svc.targetRec) \cup stranded

(* syncExternalDNSTarget: "DNS follows the address; it does not lead it."  *)
(* At the moment an address enters the target it is assigned, whatever     *)
(* the load balancer did since the Service was read, unless nothing is.    *)
DNSFollowsAddress ==
    [][\A k \in Keys :
         \A e \in svc'.targets[k] \ (pins'.targets \cup UNION {svc.targets[j] : j \in Keys}) :
           svc.assigned = {} \/ e \in svc.assigned]_vars

\* A Service with a suffix that the operator has all it needs to serve.
Serves ==
    /\ svc.lb /\ Managed(svc) /\ svc.mode = "suffix" /\ svc.provider # "unknown"
    /\ dp.current # None

(* findReferencingServices, the watch and releaseService: once everything  *)
(* rests, a Service with a suffix asks for its addresses in the current    *)
(* and the draining prefixes, of its provider alone, and one the operator  *)
(* does not manage any more holds its user's addresses and no record.      *)
RequestFollows ==
    <>[](/\ Serves => \A f \in Fields :
                svc.ips[f] = pins.ips[f] \cup
                   (IF f = svc.provider THEN {<<x, Suffix>> : x \in managedPrefixes} ELSE {})
         /\ svc.lb /\ ~Managed(svc) => svc.ips = pins.ips /\ ~hasOwnershipRecord(svc))

(* syncExternalDNSTarget: a target that was withheld is published in the   *)
(* end, under every key configured and no other, and next to nothing but   *)
(* the user's names; an opt-out leaves the user's names.                   *)
TargetFollows ==
    <>[](Serves /\ stranded = {} =>
           IF svc.skip THEN \A k \in Keys : svc.targets[k] \subseteq pins.targets
           ELSE \A k \in Keys :
                  IF k \in targetKeys
                    THEN /\ suffixIP \in svc.targets[k]
                         /\ svc.targets[k] \subseteq pins.targets \cup {suffixIP}
                    ELSE svc.targets[k] \subseteq pins.targets)

(* nudgeL2Announcer: while Cilium needs it, an operator that has nothing   *)
(* left to do for a Service whose address is assigned has nudged the       *)
(* announcer with the addresses assigned last, whatever changed between    *)
(* the two writes of a pass.                                               *)
NudgeFollows ==
    /\ cur = Idle /\ ~queued
    /\ Needed /\ Serves /\ svc.provider = "cilium" /\ suffixIP \in svc.assigned
    => svc.nudge = svc.assigned

=============================================================================
