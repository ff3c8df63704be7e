-------------------------- MODULE ServiceSyncProofs --------------------------
(***************************************************************************)
(* TLAPS proofs about ServiceSync, for any prefixes, host parts, IPv4      *)
(* addresses, hostnames, address ranges, providers and bounds.             *)
(***************************************************************************)
EXTENDS ServiceSync, TLAPS

\* What a load balancer is asked for or assigns: never a hostname.
Plain == Addresses \cup Statics

\* The Services there are: Services with hostnames in the targets alone.
PlainRecords == (SUBSET Plain) \cup {None}

PlainServices ==
    [lb: BOOLEAN, dp: BOOLEAN, mode: Modes, provider: Providers, skip: BOOLEAN,
     ips: [Fields -> SUBSET Plain], ipsRec: PlainRecords,
     targets: [Keys -> SUBSET Entries], targetRec: PlainRecords,
     nudge: PlainRecords, assigned: SUBSET Plain]

PlainRequests ==
    [step: {"sync", "nudge"}, svc: PlainServices, ip: Plain \cup {None}, again: BOOLEAN]

Pins == [ips: [Fields -> SUBSET Plain], targets: SUBSET Hostnames]

\* A migration of the keys goes one way, to the stable one: syncExternalDNSTarget
\* reads the first configured key, and takes the key that was there before to be
\* "the one with the entries worth preserving" (servicesync_controller.go:463).
AlphaNotReintroduced ==
    \A i \in DOMAIN Configs, j \in DOMAIN Configs :
        i < j /\ "alpha" \in Configs[j] => "alpha" \in Configs[i]

Types ==
    /\ svc \in PlainServices
    /\ dp \in Statuses
    /\ config \in DOMAIN Configs
    /\ queued \in BOOLEAN
    /\ cur \in PlainRequests \cup {Idle}
    /\ pins \in Pins
    /\ stranded \in SUBSET Entries
    /\ edits \in Nat /\ rotations \in Nat

\* Each provider's field is made of the user's pins and of the record, and the
\* two are told apart.
IPsSorted(s, mine) ==
    \A f \in Fields :
        /\ mine[f] \subseteq s.ips[f]
        /\ s.ips[f] \subseteq mine[f] \cup Recorded(s.ipsRec)
        /\ mine[f] \cap Recorded(s.ipsRec) = {}

\* Each target is made of the user's names, the record and what releases left
\* behind; the key that is read first has all of the user's names.
TargetsSorted(s, mine, left) ==
    /\ mine \subseteq s.targets["alpha"] \cup s.targets["stable"]
    /\ "alpha" \in targetKeys => mine \subseteq s.targets["alpha"]
    /\ \A k \in Keys : s.targets[k] \subseteq mine \cup Recorded(s.targetRec) \cup left

\* A request that is not queued again is about the Service as it is.
Informed ==
    ~queued /\ Serves =>
      IF cur = Idle
        THEN Needed /\ svc.provider = "cilium" /\ suffixIP \in svc.assigned
               => svc.nudge = svc.assigned
        ELSE svc = cur.svc /\ (cur.step = "nudge" => cur.ip = suffixIP)

IInv ==
    /\ Types
    /\ PinsCleanly
    /\ IPsSorted(svc, pins.ips)
    /\ TargetsSorted(svc, pins.targets, stranded)
    /\ Informed

-----------------------------------------------------------------------------
\* Facts about the constants.
LEMMA PlainEntries ==
    /\ None \notin Plain /\ Plain \subseteq Entries
    /\ Hostnames \cap Plain = {} /\ Hostnames \subseteq Entries
    /\ \A S \in SUBSET Entries : S # None
    /\ \A S \in SUBSET Plain : S # None
    /\ \A e \in Statics \cup Hostnames : Inside(e) = None
  BY ServiceSyncConstants DEF Plain, Entries, Inside

LEMMA ManagedTyped ==
    ASSUME dp \in Statuses
    PROVE  managedPrefixes \subseteq Prefixes /\ None \notin managedPrefixes
  BY DEF managedPrefixes, Statuses

LEMMA KeysConfigured ==
    ASSUME config \in DOMAIN Configs
    PROVE  targetKeys \subseteq Keys /\ targetKeys # {}
  <1>1. Configs \in Seq((SUBSET Keys) \ {{}})
    BY ServiceSyncConstants
  <1>2. Configs[config] \in (SUBSET Keys) \ {{}}
    BY <1>1
  <1> QED BY <1>2 DEF targetKeys

\* calculateServiceIPs: the address that is to be the Service's is one.
LEMMA CurrentIPTyped ==
    ASSUME dp \in Statuses, NEW s \in PlainServices, ~Waits(s),
           NEW a \in IF s.mode = "suffix" THEN {None} ELSE getCurrentServiceIP(s)
    PROVE  /\ currentIP(s, a) \in Plain
           /\ s.mode = "suffix" => currentIP(s, a) = suffixIP
  <1>1. dp.current \in Prefixes
    BY DEF Waits, Statuses
  <1>2. CASE s.mode = "suffix"
    <2>1. currentIP(s, a) = suffixIP
      BY <1>2 DEF currentIP
    <2> QED BY <1>1, <2>1, ServiceSyncConstants DEF suffixIP, Plain, Addresses
  <1>3. CASE s.mode # "suffix"
    <2>1. a \in Plain
      BY <1>3 DEF getCurrentServiceIP, PlainServices
    <2>2. CASE s.mode = "inferred" /\ Inside(a) \in managedPrefixes
      <3>1. currentIP(s, a) = <<dp.current, a[2]>>
        BY <1>3, <2>2 DEF currentIP, combinePrefixSuffix
      <3>2. a \in Addresses
        BY <2>2, ManagedTyped DEF Inside
      <3> QED BY <1>1, <1>3, <3>1, <3>2 DEF Plain, Addresses
    <2>3. CASE ~(s.mode = "inferred" /\ Inside(a) \in managedPrefixes)
      BY <1>3, <2>1, <2>3 DEF currentIP
    <2> QED BY <2>2, <2>3
  <1> QED BY <1>2, <1>3

\* The addresses asked for beside it are addresses.
LEMMA AllIPsTyped ==
    ASSUME dp \in Statuses, NEW s, NEW ip \in Plain
    PROVE  allIPs(s, ip) \in SUBSET Plain
  <1> DEFINE fits == IF s.mode = "named" THEN RangeFits ELSE Prefixes
  <1>1. fits \subseteq Prefixes
    BY ServiceSyncConstants
  <1>2. CASE Inside(ip) = dp.current /\ dp.current \in fits
    <2>1. ip \in Addresses
      BY <1>1, <1>2, ServiceSyncConstants DEF Inside
    <2>2. \A x \in Prefixes : combinePrefixSuffix(x, ip) \in Plain
      BY <2>1 DEF combinePrefixSuffix, Addresses, Plain
    <2>3. allIPs(s, ip) = {combinePrefixSuffix(x, ip) : x \in managedPrefixes \cap fits}
      BY <1>2 DEF allIPs
    <2> QED BY <1>1, <2>2, <2>3
  <1>3. CASE ~(Inside(ip) = dp.current /\ dp.current \in fits)
    <2>1. allIPs(s, ip) = {ip}
      BY <1>3 DEF allIPs
    <2> QED BY <2>1
  <1> QED BY <1>2, <1>3

\* preserveUnownedIPs keeps what is not recorded, and nothing the record has.
LEMMA PreservedPins ==
    ASSUME dp \in Statuses, NEW list \in SUBSET Entries,
           NEW record \in PlainRecords, NEW mine \in SUBSET Entries,
           mine \cap Recorded(record) = {},
           record = None => \A e \in mine : Inside(e) = None
    PROVE  /\ preserveUnownedIPs(list, record) \subseteq list \ Recorded(record)
           /\ mine \cap list \subseteq preserveUnownedIPs(list, record)
  BY ManagedTyped DEF preserveUnownedIPs, Recorded

\* Claim records what is claimed.
LEMMA ClaimRecords ==
    ASSUME NEW record \in PlainRecords, NEW claimed \in SUBSET Plain
    PROVE  /\ Claim(record, claimed) \in PlainRecords
           /\ Recorded(Claim(record, claimed)) = claimed
           /\ record # None => Claim(record, claimed) # None
  BY PlainEntries DEF Claim, Recorded, PlainRecords

-----------------------------------------------------------------------------
\* What no write of the operator touches.
SameDirections(s, w) ==
    /\ w.lb = s.lb /\ w.dp = s.dp /\ w.mode = s.mode
    /\ w.provider = s.provider /\ w.skip = s.skip /\ w.assigned = s.assigned

\* writeLBAddresses keeps the pins, records all it writes beside them, and has
\* nothing of the other provider's field left.
LEMMA AddressesWritten ==
    ASSUME dp \in Statuses, NEW s \in PlainServices, s.provider \in Fields,
           NEW mine \in [Fields -> SUBSET Plain], IPsSorted(s, mine),
           \A f \in Fields : \/ mine[f] = {}
                             \/ s.provider = f /\ (mine[f] \subseteq Statics \/ s.ipsRec # None),
           NEW ip \in Plain
    PROVE  LET w == writeLBAddresses(s, ip)
           IN  /\ w \in PlainServices /\ IPsSorted(w, mine) /\ SameDirections(s, w)
               /\ s.ipsRec # None => w.ipsRec # None
               /\ w.targets = s.targets /\ w.targetRec = s.targetRec /\ w.nudge = s.nudge
  <1> DEFINE kept(f) == preserveUnownedIPs(s.ips[f], s.ipsRec)
             all == allIPs(s, ip)
             ips == [f \in Fields |-> IF f = s.provider THEN kept(s.provider) \cup all ELSE kept(f)]
             claimed == all \ kept(s.provider)
             record == Claim(s.ipsRec, claimed)
             w == writeLBAddresses(s, ip)
  <1>1. all \in SUBSET Plain
    BY AllIPsTyped
  <1>2. ASSUME NEW f \in Fields
        PROVE  /\ kept(f) \subseteq s.ips[f] \ Recorded(s.ipsRec)
               /\ mine[f] \subseteq kept(f)
               /\ kept(f) \subseteq mine[f] /\ kept(f) \subseteq Plain
    <2>1. /\ s.ips[f] \in SUBSET Plain /\ s.ips[f] \in SUBSET Entries
          /\ mine[f] \in SUBSET Entries /\ s.ipsRec \in PlainRecords
      BY PlainEntries DEF PlainServices
    <2>2. /\ mine[f] \subseteq s.ips[f] /\ mine[f] \cap Recorded(s.ipsRec) = {}
          /\ s.ips[f] \subseteq mine[f] \cup Recorded(s.ipsRec)
      BY DEF IPsSorted
    <2>3. s.ipsRec = None => \A e \in mine[f] : Inside(e) = None
      BY PlainEntries
    <2>4. /\ kept(f) \subseteq s.ips[f] \ Recorded(s.ipsRec)
          /\ mine[f] \cap s.ips[f] \subseteq kept(f)
      BY <2>1, <2>2, <2>3, PreservedPins
    <2> QED BY <2>1, <2>2, <2>4
  <1>3. w = [s EXCEPT !.ips = ips, !.ipsRec = record]
    BY DEF writeLBAddresses, excludePinned
  <1> HIDE DEF kept, all
  <1>4. ips \in [Fields -> SUBSET Plain]
    BY <1>1, <1>2
  <1>5. claimed \in SUBSET Plain /\ s.ipsRec \in PlainRecords
    BY <1>1 DEF PlainServices
  <1>6. record \in PlainRecords /\ Recorded(record) = claimed /\ (s.ipsRec # None => record # None)
    BY <1>5, ClaimRecords
  <1>7. \A f \in Fields : /\ mine[f] \subseteq ips[f] /\ ips[f] \subseteq mine[f] \cup claimed
                          /\ mine[f] \cap claimed = {}
    BY <1>2
  <1> HIDE DEF ips, claimed, record, w
  <1>8. /\ w \in PlainServices /\ w.ips = ips /\ w.ipsRec = record /\ SameDirections(s, w)
        /\ w.targets = s.targets /\ w.targetRec = s.targetRec /\ w.nudge = s.nudge
    BY <1>3, <1>4, <1>6 DEF PlainServices, SameDirections
  <1>9. IPsSorted(w, mine)
    BY <1>6, <1>7, <1>8 DEF IPsSorted
  <1> QED BY <1>6, <1>8, <1>9 DEF w

\* What syncExternalDNSTarget and a release may do to the targets.
TargetsMoved(s, w, ip) ==
    \A k \in Keys : \A e \in w.targets[k] :
        \/ e \in s.targets["alpha"] \cup s.targets["stable"]
        \/ e = ip /\ dnsTargetReady(s, ip)

\* Of a Service that publishes: the names stay, under the first key while it is
\* configured; what is new is the address, when it is ready.
LEMMA TargetPublished ==
    ASSUME dp \in Statuses, config \in DOMAIN Configs, NEW s \in PlainServices,
           NEW mine \in SUBSET Hostnames, NEW left, TargetsSorted(s, mine, left),
           NEW ip \in Plain
    PROVE  LET w == publishTarget(s, ip)
           IN  /\ w \in PlainServices /\ TargetsSorted(w, mine, left)
               /\ TargetsMoved(s, w, ip) /\ SameDirections(s, w)
               /\ w.ips = s.ips /\ w.ipsRec = s.ipsRec /\ w.nudge = s.nudge
  <1> DEFINE preserved == preserveUnownedIPs(existingTarget(s), s.targetRec)
             final == preserved \cup {ip}
             kept(k) == preserveUnownedIPs(s.targets[k], s.targetRec)
             released == [k \in Keys |-> IF k \in targetKeys THEN s.targets[k] ELSE kept(k)]
             moves == dnsTargetReady(s, ip) /\ ~allAnnotationsEqual(s.targets, final)
             targets == IF moves THEN [k \in Keys |-> IF k \in targetKeys THEN final ELSE released[k]]
                                 ELSE released
             record == IF allAnnotationsEqual(targets, final)
                         THEN Claim(s.targetRec, {ip} \ preserved) ELSE s.targetRec
             w == publishTarget(s, ip)
  <1>0. /\ s.targets \in [Keys -> SUBSET Entries] /\ s.targetRec \in PlainRecords
        /\ ip \in Entries /\ targetKeys \subseteq Keys /\ targetKeys # {}
    BY PlainEntries, KeysConfigured DEF PlainServices
  <1>1. w = [s EXCEPT !.targets = targets, !.targetRec = record]
    BY DEF publishTarget, finalTargets, excludePinned, PlainServices
  <1>2. mine \subseteq Entries /\ mine \cap Recorded(s.targetRec) = {}
        /\ \A e \in mine : Inside(e) = None
    BY <1>0, PlainEntries DEF Recorded, PlainRecords
  <1>3. ASSUME NEW list \in SUBSET Entries
        PROVE  /\ preserveUnownedIPs(list, s.targetRec) \subseteq list \ Recorded(s.targetRec)
               /\ mine \cap list \subseteq preserveUnownedIPs(list, s.targetRec)
    BY <1>0, <1>2, PreservedPins
  <1>4. /\ existingTarget(s) \in SUBSET Entries
        /\ existingTarget(s) \in {s.targets["alpha"], s.targets["stable"], {}}
        /\ "alpha" \in targetKeys => mine \subseteq existingTarget(s)
        /\ "alpha" \notin targetKeys => existingTarget(s) = s.targets["stable"] /\ targetKeys = {"stable"}
    BY <1>0 DEF existingTarget, TargetsSorted, Keys
  <1>5. \A k \in Keys : s.targets[k] \subseteq mine \cup Recorded(s.targetRec) \cup left
    BY DEF TargetsSorted
  <1>6. /\ preserved \subseteq existingTarget(s) /\ preserved \subseteq mine \cup left
        /\ mine \cap existingTarget(s) \subseteq preserved
    BY <1>3, <1>4, <1>5 DEF Keys
  <1>7. \A k \in Keys : /\ kept(k) \subseteq s.targets[k] /\ kept(k) \subseteq mine \cup left
                        /\ mine \cap s.targets[k] \subseteq kept(k)
    BY <1>0, <1>3, <1>5
  <1> HIDE DEF preserved, kept
  <1>8. targets \in [Keys -> SUBSET Entries]
    BY <1>0, <1>4, <1>6, <1>7
  <1>9. \A k \in Keys : IF k \in targetKeys
                          THEN targets[k] = IF moves THEN final ELSE s.targets[k]
                          ELSE targets[k] = kept(k)
    <2>1. CASE moves
      BY <2>1
    <2>2. CASE ~moves
      BY <2>2
    <2> QED BY <2>1, <2>2
  <1>10. {ip} \ preserved \in SUBSET Plain
    OBVIOUS
  <1>11. record \in PlainRecords
    BY <1>0, <1>10, ClaimRecords
  <1>12. \/ Recorded(record) = {ip} \ preserved /\ \A k \in targetKeys : targets[k] = final
         \/ record = s.targetRec /\ ~moves
    <2>1. CASE allAnnotationsEqual(targets, final)
      BY <1>0, <1>10, <2>1, ClaimRecords DEF allAnnotationsEqual
    <2>2. CASE ~allAnnotationsEqual(targets, final)
      <3>1. moves => allAnnotationsEqual(targets, final)
        BY <1>0, <1>9 DEF allAnnotationsEqual
      <3> QED BY <2>2, <3>1
    <2> QED BY <2>1, <2>2
  <1>13. moves => dnsTargetReady(s, ip)
    OBVIOUS
  <1> HIDE DEF released, targets, record, moves, w
  <1>14. /\ w \in PlainServices /\ w.targets = targets /\ w.targetRec = record
         /\ SameDirections(s, w) /\ w.ips = s.ips /\ w.ipsRec = s.ipsRec /\ w.nudge = s.nudge
    BY <1>1, <1>8, <1>11 DEF PlainServices, SameDirections
  <1>15. TargetsSorted(w, mine, left)
    <2>1. \A k \in Keys : targets[k] \subseteq mine \cup Recorded(record) \cup left
      BY <1>0, <1>5, <1>6, <1>7, <1>9, <1>12
    <2>2. "alpha" \in targetKeys => mine \subseteq targets["alpha"]
      BY <1>4, <1>6, <1>9 DEF TargetsSorted, Keys
    <2>3. "alpha" \notin targetKeys => mine \subseteq targets["alpha"] \cup targets["stable"]
      BY <1>4, <1>6, <1>7, <1>9 DEF TargetsSorted, Keys
    <2> QED BY <1>14, <2>1, <2>2, <2>3 DEF TargetsSorted
  <1>16. TargetsMoved(s, w, ip)
    BY <1>4, <1>6, <1>7, <1>9, <1>13, <1>14 DEF TargetsMoved, Keys
  <1> QED BY <1>14, <1>15, <1>16 DEF w

\* Of a Service that has opted out: the record's entries go, and the record.
LEMMA TargetHandedBack ==
    ASSUME dp \in Statuses, NEW s \in PlainServices, NEW ip,
           NEW mine \in SUBSET Hostnames, NEW left, TargetsSorted(s, mine, left)
    PROVE  LET w == handTargetBack(s)
           IN  /\ w \in PlainServices /\ TargetsSorted(w, mine, left)
               /\ TargetsMoved(s, w, ip) /\ SameDirections(s, w)
               /\ w.ips = s.ips /\ w.ipsRec = s.ipsRec /\ w.nudge = s.nudge
  <1>1. CASE s.targetRec = None
    BY <1>1 DEF handTargetBack, SameDirections, TargetsMoved, Keys, TargetsSorted
  <1>2. CASE s.targetRec # None
    <2> DEFINE targets == [k \in Keys |-> s.targets[k] \ s.targetRec]
               w == handTargetBack(s)
    <2>1. /\ s.targets \in [Keys -> SUBSET Entries] /\ s.targetRec \in SUBSET Plain
          /\ Recorded(s.targetRec) = s.targetRec
      BY <1>2 DEF PlainServices, PlainRecords, Recorded
    <2>2. w = [s EXCEPT !.targets = targets, !.targetRec = None]
      BY <1>2 DEF handTargetBack, preserveUnownedIPs, PlainServices
    <2>3. targets \in [Keys -> SUBSET Entries]
      BY <2>1
    <2>4. \A k \in Keys : targets[k] = s.targets[k] \ s.targetRec
      OBVIOUS
    <2>5. mine \cap s.targetRec = {}
      BY <2>1, PlainEntries
    <2> HIDE DEF targets, w
    <2>6. /\ w \in PlainServices /\ w.targets = targets /\ w.targetRec = None
          /\ SameDirections(s, w) /\ w.ips = s.ips /\ w.ipsRec = s.ipsRec /\ w.nudge = s.nudge
      BY <2>2, <2>3 DEF PlainServices, PlainRecords, SameDirections
    <2>7. TargetsSorted(w, mine, left)
      BY <2>1, <2>4, <2>5, <2>6 DEF TargetsSorted, Keys, Recorded
    <2>8. TargetsMoved(s, w, ip)
      BY <2>4, <2>6 DEF TargetsMoved, Keys
    <2> QED BY <2>6, <2>7, <2>8 DEF w
  <1> QED BY <1>1, <1>2

\* A whole pass: both annotations stay sorted.
LEMMA SyncedSorted ==
    ASSUME dp \in Statuses, config \in DOMAIN Configs,
           NEW s \in PlainServices, s.provider \in Fields,
           NEW mine \in Pins, IPsSorted(s, mine.ips),
           \A f \in Fields : \/ mine.ips[f] = {}
                             \/ s.provider = f /\ (mine.ips[f] \subseteq Statics \/ s.ipsRec # None),
           NEW left, TargetsSorted(s, mine.targets, left),
           NEW ip \in Plain
    PROVE  LET w == Synced(s, ip)
           IN  /\ w \in PlainServices
               /\ IPsSorted(w, mine.ips) /\ TargetsSorted(w, mine.targets, left)
               /\ TargetsMoved(s, w, ip) /\ SameDirections(s, w)
               /\ s.ipsRec # None => w.ipsRec # None
  <1> DEFINE v == writeLBAddresses(s, ip)
             w == Synced(s, ip)
  <1>1. mine.ips \in [Fields -> SUBSET Plain] /\ mine.targets \in SUBSET Hostnames
    BY DEF Pins
  <1>2. /\ v \in PlainServices /\ IPsSorted(v, mine.ips) /\ SameDirections(s, v)
        /\ s.ipsRec # None => v.ipsRec # None
        /\ v.targets = s.targets /\ v.targetRec = s.targetRec
    BY <1>1, AddressesWritten
  <1>3. w = IF v.skip THEN handTargetBack(v) ELSE publishTarget(v, ip)
    BY DEF Synced, syncExternalDNSTarget
  <1> HIDE DEF v, w
  <1>4. TargetsSorted(v, mine.targets, left)
    BY <1>2 DEF TargetsSorted
  <1>5. /\ w \in PlainServices /\ TargetsSorted(w, mine.targets, left)
        /\ TargetsMoved(v, w, ip) /\ SameDirections(v, w)
        /\ w.ips = v.ips /\ w.ipsRec = v.ipsRec
    BY <1>1, <1>2, <1>3, <1>4, TargetHandedBack, TargetPublished
  <1>6. IPsSorted(w, mine.ips)
    BY <1>2, <1>5 DEF IPsSorted
  <1>7. TargetsMoved(s, w, ip) /\ SameDirections(s, w)
    BY <1>2, <1>5 DEF TargetsMoved, dnsTargetReady, SameDirections
  <1> QED BY <1>2, <1>5, <1>6, <1>7 DEF w

\* releaseService: what it leaves behind under the stable key is stranded.
LEMMA ReleasedSorted ==
    ASSUME NEW s \in PlainServices, NEW mine \in Pins, IPsSorted(s, mine.ips),
           NEW left, TargetsSorted(s, mine.targets, left)
    PROVE  LET w == Released(s)
               more == IF s.targetRec = None THEN {} ELSE w.targets["stable"] \cap s.targetRec
           IN  /\ w \in PlainServices /\ SameDirections(s, w)
               /\ w.ipsRec = None /\ w.targetRec = None
               /\ IPsSorted(w, mine.ips) /\ TargetsSorted(w, mine.targets, left \cup more)
               /\ \A k \in Keys : w.targets[k] \subseteq s.targets[k]
               /\ more \in SUBSET Entries
  <1> DEFINE ips == [f \in Fields |-> s.ips[f] \ Recorded(s.ipsRec)]
             alpha == s.targets["alpha"] \ Recorded(s.targetRec)
             targets == [s.targets EXCEPT !["alpha"] = alpha]
             w == Released(s)
             more == IF s.targetRec = None THEN {} ELSE w.targets["stable"] \cap s.targetRec
  <1>1. /\ s.ips \in [Fields -> SUBSET Plain] /\ s.ipsRec \in PlainRecords
        /\ s.targets \in [Keys -> SUBSET Entries] /\ s.targetRec \in PlainRecords
        /\ mine.targets \in SUBSET Hostnames
    BY DEF PlainServices, Pins
  <1>2. w = [s EXCEPT !.ips = ips, !.ipsRec = None, !.targets = targets,
                      !.targetRec = None, !.nudge = None]
    <2>1. (IF s.ipsRec = None THEN s.ips ELSE [f \in Fields |-> s.ips[f] \ s.ipsRec]) = ips
      BY <1>1 DEF Recorded
    <2>2. (IF s.targetRec = None THEN s.targets["alpha"] ELSE s.targets["alpha"] \ s.targetRec) = alpha
      BY DEF Recorded
    <2> QED BY <1>1, <2>1, <2>2 DEF Released, PlainServices
  <1>3. ips \in [Fields -> SUBSET Plain] /\ \A f \in Fields : ips[f] = s.ips[f] \ Recorded(s.ipsRec)
    BY <1>1
  <1>4. /\ targets \in [Keys -> SUBSET Entries]
        /\ targets["alpha"] = alpha /\ targets["stable"] = s.targets["stable"]
        /\ \A k \in Keys : targets[k] \subseteq s.targets[k]
    BY <1>1 DEF Keys
  <1> HIDE DEF ips, targets, w
  <1>5. /\ w \in PlainServices /\ SameDirections(s, w) /\ w.ips = ips /\ w.ipsRec = None
        /\ w.targets = targets /\ w.targetRec = None
    BY <1>2, <1>3, <1>4 DEF PlainServices, PlainRecords, SameDirections
  <1>6. IPsSorted(w, mine.ips)
    BY <1>3, <1>5 DEF IPsSorted, Recorded
  <1>7. mine.targets \cap Recorded(s.targetRec) = {}
    BY <1>1, PlainEntries DEF Recorded, PlainRecords
  <1>8. TargetsSorted(w, mine.targets, left \cup more)
    <2>1. more = targets["stable"] \cap Recorded(s.targetRec)
      BY <1>5 DEF Recorded
    <2> HIDE DEF more
    <2> QED BY <1>4, <1>5, <1>7, <2>1 DEF TargetsSorted, Keys, Recorded
  <1>9. more \in SUBSET Entries
    BY <1>4, <1>5 DEF Keys
  <1> QED BY <1>4, <1>5, <1>6, <1>8, <1>9 DEF w

-----------------------------------------------------------------------------
\* DNSFollowsAddress of one step.
DNSStep ==
    \A k \in Keys :
      \A e \in svc'.targets[k] \ (pins'.targets \cup UNION {svc.targets[j] : j \in Keys}) :
        svc.assigned = {} \/ e \in svc.assigned

LEMMA NothingNew ==
    ASSUME \A k \in Keys : svc'.targets[k] \subseteq svc.targets[k] \cup pins'.targets
    PROVE  DNSStep
  BY DEF DNSStep

LEMMA IInvInit == Init => IInv
  <1> SUFFICES ASSUME Init PROVE IInv
    OBVIOUS
  <1>1. /\ svc \in PlainServices /\ \A f \in Fields : svc.ips[f] = {}
        /\ \A k \in Keys : svc.targets[k] = {}
    <2> DEFINE ips == [f \in Fields |-> {}]
               targets == [k \in Keys |-> {}]
    <2>1. /\ ips \in [Fields -> SUBSET Plain] /\ \A f \in Fields : ips[f] = {}
          /\ targets \in [Keys -> SUBSET Entries] /\ \A k \in Keys : targets[k] = {}
      OBVIOUS
    <2>2. svc \in [lb: {TRUE}, dp: {TRUE}, mode: Modes, provider: {"cilium"}, skip: {FALSE},
                  ips: {ips}, ipsRec: {None}, targets: {targets}, targetRec: {None},
                  nudge: {None}, assigned: {{}}]
      BY DEF Init
    <2> HIDE DEF ips, targets
    <2> QED BY <2>1, <2>2, ServiceSyncConstants DEF PlainServices, PlainRecords
  <1>2. pins \in Pins /\ pins.targets = {} /\ \A f \in Fields : pins.ips[f] = {}
    BY DEF Init, Pins
  <1>3. dp \in Statuses /\ config \in DOMAIN Configs
    <2>1. Len(Configs) > 0 /\ DOMAIN Configs = 1..Len(Configs)
      BY ServiceSyncConstants
    <2> QED BY <2>1 DEF Init, NoDP, Statuses
  <1>4. Types
    BY <1>1, <1>2, <1>3 DEF Init, Types
  <1>5. PinsCleanly /\ IPsSorted(svc, pins.ips)
    BY <1>1, <1>2 DEF PinsCleanly, IPsSorted
  <1>6. TargetsSorted(svc, pins.targets, stranded)
    BY <1>1, <1>2 DEF TargetsSorted, Keys
  <1>7. Informed
    BY DEF Init, Informed
  <1> QED BY <1>4, <1>5, <1>6, <1>7 DEF IInv

\* A write of the user's that keeps the annotations sorted.  One that leaves a
\* Service the operator is to serve queues it.
LEMMA UserWritesKeep ==
    ASSUME IInv, NEW s \in PlainServices, NEW mine \in Pins, UserWrites(s, mine),
           IPsSorted(s, mine.ips), TargetsSorted(s, mine.targets, stranded),
           \A k \in Keys : s.targets[k] \subseteq svc.targets[k] \cup mine.targets
    PROVE  IInv' /\ DNSStep
  <1>1. /\ svc' = s /\ pins' = mine /\ queued' = (queued \/ Watched(s)) /\ edits' = edits + 1
        /\ UNCHANGED <<dp, config, cur, stranded, rotations>> /\ PinsCleanly'
    BY DEF UserWrites
  <1>2. Types'
    BY <1>1 DEF IInv, Types, Watched, hasOwnershipRecord, PlainServices
  <1>3. IPsSorted(svc, pins.ips)' /\ TargetsSorted(svc, pins.targets, stranded)'
    BY <1>1 DEF IPsSorted, TargetsSorted, Recorded, targetKeys
  <1>4. Informed'
    <2>1. Serves' => queued'
      BY <1>1 DEF Serves, Managed, Watched
    <2> QED BY <2>1 DEF Informed
  <1> QED BY <1>1, <1>2, <1>3, <1>4, NothingNew DEF IInv

LEMMA UserEditsKeep ==
    ASSUME IInv, UserEdits
    PROVE  IInv' /\ DNSStep
  <1> PICK s \in {[svc EXCEPT !.lb = ~@], [svc EXCEPT !.dp = ~@], [svc EXCEPT !.skip = ~@]}
                   \cup {[svc EXCEPT !.mode = m] : m \in Modes}
                   \cup {[svc EXCEPT !.provider = v] : v \in Providers} : UserWrites(s, pins)
    BY DEF UserEdits
  <1>1. svc \in PlainServices /\ pins \in Pins
    BY DEF IInv, Types
  <1>2. /\ s \in PlainServices /\ s.ips = svc.ips /\ s.ipsRec = svc.ipsRec
        /\ s.targets = svc.targets /\ s.targetRec = svc.targetRec
    BY <1>1 DEF PlainServices
  <1>3. IPsSorted(s, pins.ips) /\ TargetsSorted(s, pins.targets, stranded)
    BY <1>2 DEF IInv, IPsSorted, TargetsSorted
  <1> QED BY <1>1, <1>2, <1>3, UserWritesKeep

LEMMA UserAsksKeep ==
    ASSUME IInv, NEW e \in Plain, UserAsks(e)
    PROVE  IInv' /\ DNSStep
  <1> DEFINE f == svc.provider
             ips == [svc.ips EXCEPT ![f] = @ \cup {e}]
             s == [svc EXCEPT !.ips[svc.provider] = @ \cup {e}]
             mineIPs == [pins.ips EXCEPT ![f] = @ \cup {e}]
             more == [pins EXCEPT !.ips[svc.provider] = @ \cup {e}]
             mine == IF svc.ipsRec # None /\ e \in svc.ipsRec THEN pins ELSE more
  <1>1. svc \in PlainServices /\ pins \in Pins /\ f \in Fields /\ UserWrites(s, mine)
    BY DEF IInv, Types, UserAsks
  <1>2. ips \in [Fields -> SUBSET Plain] /\ mineIPs \in [Fields -> SUBSET Plain]
    BY <1>1 DEF PlainServices, Pins
  <1>3. s = [svc EXCEPT !.ips = ips] /\ more = [pins EXCEPT !.ips = mineIPs]
    BY <1>1 DEF PlainServices, Pins
  <1>4. \A g \in Fields : /\ ips[g] = IF g = f THEN svc.ips[g] \cup {e} ELSE svc.ips[g]
                          /\ mineIPs[g] = IF g = f THEN pins.ips[g] \cup {e} ELSE pins.ips[g]
    BY <1>1 DEF PlainServices, Pins
  <1> HIDE DEF ips, mineIPs, s, more
  <1>5. /\ s \in PlainServices /\ s.ips = ips /\ s.ipsRec = svc.ipsRec
        /\ s.targets = svc.targets /\ s.targetRec = svc.targetRec
    BY <1>1, <1>2, <1>3 DEF PlainServices
  <1>6. more \in Pins /\ more.ips = mineIPs /\ more.targets = pins.targets
    BY <1>1, <1>2, <1>3 DEF Pins
  <1>7. mine \in Pins /\ mine.targets = pins.targets
        /\ mine.ips = IF e \in Recorded(svc.ipsRec) THEN pins.ips ELSE mineIPs
    <2>1. svc.ipsRec # None /\ e \in svc.ipsRec <=> e \in Recorded(svc.ipsRec)
      BY DEF Recorded
    <2>2. CASE e \in Recorded(svc.ipsRec)
      BY <1>1, <2>1, <2>2
    <2>3. CASE e \notin Recorded(svc.ipsRec)
      BY <1>6, <2>1, <2>3
    <2> QED BY <2>2, <2>3
  <1> HIDE DEF mine
  <1>8. IPsSorted(s, mine.ips)
    <2> SUFFICES ASSUME NEW g \in Fields
                 PROVE  /\ mine.ips[g] \subseteq s.ips[g]
                        /\ s.ips[g] \subseteq mine.ips[g] \cup Recorded(s.ipsRec)
                        /\ mine.ips[g] \cap Recorded(s.ipsRec) = {}
      BY DEF IPsSorted
    <2>1. /\ pins.ips[g] \subseteq svc.ips[g]
          /\ svc.ips[g] \subseteq pins.ips[g] \cup Recorded(svc.ipsRec)
          /\ pins.ips[g] \cap Recorded(svc.ipsRec) = {}
      BY DEF IInv, IPsSorted
    <2>2. CASE g # f
      <3>1. s.ips[g] = svc.ips[g] /\ mine.ips[g] = pins.ips[g]
        BY <1>4, <1>5, <1>7, <2>2
      <3> QED BY <1>5, <2>1, <3>1
    <2>3. CASE g = f /\ e \in Recorded(svc.ipsRec)
      <3>1. s.ips[g] = svc.ips[g] \cup {e} /\ mine.ips[g] = pins.ips[g]
        BY <1>4, <1>5, <1>7, <2>3
      <3> QED BY <1>5, <2>1, <2>3, <3>1
    <2>4. CASE g = f /\ e \notin Recorded(svc.ipsRec)
      <3>1. s.ips[g] = svc.ips[g] \cup {e} /\ mine.ips[g] = pins.ips[g] \cup {e}
        BY <1>4, <1>5, <1>7, <2>4
      <3> QED BY <1>5, <2>1, <2>4, <3>1
    <2> QED BY <2>2, <2>3, <2>4
  <1>9. TargetsSorted(s, mine.targets, stranded)
    BY <1>5, <1>7 DEF IInv, TargetsSorted
  <1> QED BY <1>1, <1>5, <1>7, <1>8, <1>9, UserWritesKeep

LEMMA UserTargetsKeep ==
    ASSUME IInv, NEW n \in Hostnames, UserTargets(n)
    PROVE  IInv' /\ DNSStep
  <1> DEFINE k == IF "alpha" \in targetKeys THEN "alpha" ELSE "stable"
             targets == [svc.targets EXCEPT ![k] = @ \cup {n}]
             s == [svc EXCEPT !.targets[k] = @ \cup {n}]
             mine == [pins EXCEPT !.targets = @ \cup {n}]
  <1>1. svc \in PlainServices /\ pins \in Pins /\ k \in Keys
    BY DEF IInv, Types, Keys
  <1>2. ~(svc.targetRec # None /\ n \in svc.targetRec)
    BY <1>1, PlainEntries DEF PlainServices, PlainRecords
  <1>3. UserWrites(s, mine)
    BY <1>2 DEF UserTargets
  <1>4. targets \in [Keys -> SUBSET Entries]
    BY <1>1, PlainEntries DEF PlainServices
  <1>5. s = [svc EXCEPT !.targets = targets]
    BY <1>1 DEF PlainServices
  <1>6. \A j \in Keys : targets[j] = IF j = k THEN svc.targets[j] \cup {n} ELSE svc.targets[j]
    BY <1>1 DEF PlainServices
  <1>7. mine \in Pins /\ mine.ips = pins.ips /\ mine.targets = pins.targets \cup {n}
    BY <1>1 DEF Pins
  <1>8. k = IF "alpha" \in targetKeys THEN "alpha" ELSE "stable"
    OBVIOUS
  <1> HIDE DEF k, targets, s, mine
  <1>9. /\ s \in PlainServices /\ s.ips = svc.ips /\ s.ipsRec = svc.ipsRec
        /\ s.targets = targets /\ s.targetRec = svc.targetRec
    BY <1>1, <1>4, <1>5 DEF PlainServices
  <1>10. IPsSorted(s, mine.ips)
    BY <1>7, <1>9 DEF IInv, IPsSorted
  <1>11. TargetsSorted(s, mine.targets, stranded)
    BY <1>6, <1>7, <1>8, <1>9 DEF IInv, TargetsSorted, Keys
  <1>12. \A j \in Keys : s.targets[j] \subseteq svc.targets[j] \cup mine.targets
    BY <1>6, <1>7, <1>9
  <1> QED BY <1>3, <1>7, <1>9, <1>10, <1>11, <1>12, UserWritesKeep

LEMMA UserRemovesKeep ==
    ASSUME IInv, NEW e \in Entries, UserRemoves(e)
    PROVE  IInv' /\ DNSStep
  <1> DEFINE ips == [f \in Fields |-> svc.ips[f] \ {e}]
             targets == [k \in Keys |-> svc.targets[k] \ {e}]
             s == [svc EXCEPT !.ips = [f \in Fields |-> @[f] \ {e}],
                              !.targets = [k \in Keys |-> @[k] \ {e}]]
             mineIPs == [f \in Fields |-> pins.ips[f] \ {e}]
             mine == [ips |-> mineIPs, targets |-> pins.targets \ {e}]
  <1>1. svc \in PlainServices /\ pins \in Pins /\ UserWrites(s, mine)
    BY DEF IInv, Types, UserRemoves
  <1>2. s = [svc EXCEPT !.ips = ips, !.targets = targets]
    BY <1>1 DEF PlainServices
  <1>3. /\ ips \in [Fields -> SUBSET Plain] /\ targets \in [Keys -> SUBSET Entries]
        /\ mineIPs \in [Fields -> SUBSET Plain]
    BY <1>1 DEF PlainServices, Pins
  <1>4. /\ \A f \in Fields : ips[f] = svc.ips[f] \ {e} /\ mineIPs[f] = pins.ips[f] \ {e}
        /\ \A k \in Keys : targets[k] = svc.targets[k] \ {e}
    OBVIOUS
  <1> HIDE DEF ips, targets, s, mineIPs
  <1>5. mine \in Pins /\ mine.ips = mineIPs /\ mine.targets = pins.targets \ {e}
    BY <1>1, <1>3 DEF Pins
  <1> HIDE DEF mine
  <1>6. /\ s \in PlainServices /\ s.ips = ips /\ s.ipsRec = svc.ipsRec
        /\ s.targets = targets /\ s.targetRec = svc.targetRec
    BY <1>1, <1>2, <1>3 DEF PlainServices
  <1>7. IPsSorted(s, mine.ips)
    BY <1>4, <1>5, <1>6 DEF IInv, IPsSorted
  <1>8. TargetsSorted(s, mine.targets, stranded)
    BY <1>4, <1>5, <1>6 DEF IInv, TargetsSorted, Keys
  <1>9. \A k \in Keys : s.targets[k] \subseteq svc.targets[k] \cup mine.targets
    BY <1>4, <1>6
  <1> QED BY <1>1, <1>5, <1>6, <1>7, <1>8, <1>9, UserWritesKeep

-----------------------------------------------------------------------------
\* The DynamicPrefix changes: a Service the operator is to serve is queued.
LEMMA StatusKeeps ==
    ASSUME IInv, NEW d \in Statuses, StatusChanges(d)
    PROVE  IInv' /\ DNSStep
  <1>1. /\ dp' = d /\ rotations' = rotations + 1 /\ queued' = (queued \/ (svc.lb /\ svc.dp))
        /\ UNCHANGED <<svc, config, cur, pins, stranded, edits>> /\ PinsCleanly'
    BY DEF StatusChanges
  <1>2. Types'
    BY <1>1 DEF IInv, Types, PlainServices
  <1>3. IPsSorted(svc, pins.ips)' /\ TargetsSorted(svc, pins.targets, stranded)'
    BY <1>1 DEF IInv, IPsSorted, TargetsSorted, Recorded, targetKeys
  <1>4. Informed'
    <2>1. Serves' => queued'
      BY <1>1 DEF Serves, Managed
    <2> QED BY <2>1 DEF Informed
  <1>5. DNSStep
    BY <1>1, NothingNew
  <1> QED BY <1>1, <1>2, <1>3, <1>4, <1>5 DEF IInv

LEMMA DynamicPrefixKeeps ==
    ASSUME IInv, Created \/ Deleted \/ TransitionChanges \/ \E x \in Prefixes : Rotates(x)
    PROVE  IInv' /\ DNSStep
  <1>0. dp \in Statuses
    BY DEF IInv, Types
  <1>1. CASE Created
    <2> PICK x \in Prefixes \cup {None}, ha \in BOOLEAN :
           StatusChanges([exists |-> TRUE, ha |-> ha, current |-> x, history |-> {}])
      BY <1>1 DEF Created
    <2>1. [exists |-> TRUE, ha |-> ha, current |-> x, history |-> {}] \in Statuses
      BY DEF Statuses
    <2> QED BY <2>1, StatusKeeps
  <1>2. CASE Deleted
    <2>1. NoDP \in Statuses
      BY DEF NoDP, Statuses
    <2> QED BY <1>2, <2>1, StatusKeeps DEF Deleted
  <1>3. CASE TransitionChanges
    <2>1. [dp EXCEPT !.ha = ~@] \in Statuses
      BY <1>0 DEF Statuses
    <2> QED BY <1>3, <2>1, StatusKeeps DEF TransitionChanges
  <1>4. ASSUME NEW x \in Prefixes, Rotates(x) PROVE IInv' /\ DNSStep
    <2> PICK drain \in SUBSET (managedPrefixes \ {x}) :
           StatusChanges([dp EXCEPT !.current = x, !.history = drain])
      BY <1>4 DEF Rotates
    <2>1. drain \in SUBSET Prefixes
      BY <1>0, ManagedTyped
    <2>2. [dp EXCEPT !.current = x, !.history = drain] \in Statuses
      BY <1>0, <2>1 DEF Statuses
    <2> QED BY <2>2, StatusKeeps
  <1> QED BY <1>1, <1>2, <1>3, <1>4

\* A restart forgets the request and lists the Services.
LEMMA RestartKeeps ==
    ASSUME AlphaNotReintroduced, IInv, Restart
    PROVE  IInv' /\ DNSStep
  <1>1. /\ config < Len(Configs) /\ config' = config + 1 /\ cur' = Idle
        /\ queued' = Watched(svc) /\ UNCHANGED <<svc, dp, pins, stranded, edits, rotations>>
    BY DEF Restart
  <1>2. DOMAIN Configs = 1..Len(Configs) /\ Len(Configs) \in Nat
    BY ServiceSyncConstants
  <1>3. config \in DOMAIN Configs /\ config' \in DOMAIN Configs /\ config < config'
    BY <1>1, <1>2 DEF IInv, Types
  <1>4. Types'
    BY <1>1, <1>3 DEF IInv, Types, Watched, hasOwnershipRecord, PlainServices
  <1>5. "alpha" \in targetKeys' => "alpha" \in targetKeys
    BY <1>3 DEF AlphaNotReintroduced, targetKeys
  <1>6. PinsCleanly' /\ IPsSorted(svc, pins.ips)'
    BY <1>1 DEF IInv, PinsCleanly, Managed, IPsSorted, Recorded
  <1>7. TargetsSorted(svc, pins.targets, stranded)'
    BY <1>1, <1>5 DEF IInv, TargetsSorted, Recorded
  <1>8. Informed'
    <2>1. Serves' => queued'
      BY <1>1 DEF Serves, Managed, Watched
    <2> QED BY <2>1 DEF Informed
  <1>9. DNSStep
    BY <1>1, NothingNew
  <1> QED BY <1>4, <1>6, <1>7, <1>8, <1>9 DEF IInv

\* The load balancer writes the status: the annotations stay as they are.
LEMMA AssignKeeps ==
    ASSUME IInv, NEW A \in SUBSET Plain, Assign(A), edits' \in Nat
    PROVE  IInv' /\ DNSStep
  <1>1. /\ svc' = [svc EXCEPT !.assigned = A] /\ queued' = (queued \/ Watched(svc)) /\ svc.lb
        /\ UNCHANGED <<dp, config, cur, pins, stranded, rotations>>
    BY DEF Assign
  <1>2. /\ svc' \in PlainServices /\ svc'.assigned = A
        /\ svc'.lb = svc.lb /\ svc'.dp = svc.dp /\ svc'.mode = svc.mode
        /\ svc'.provider = svc.provider /\ svc'.ips = svc.ips /\ svc'.ipsRec = svc.ipsRec
        /\ svc'.targets = svc.targets /\ svc'.targetRec = svc.targetRec
    BY <1>1 DEF IInv, Types, PlainServices
  <1>3. Types'
    BY <1>1, <1>2 DEF IInv, Types, Watched, hasOwnershipRecord, PlainServices
  <1>4. PinsCleanly' /\ IPsSorted(svc, pins.ips)' /\ TargetsSorted(svc, pins.targets, stranded)'
    BY <1>1, <1>2 DEF IInv, PinsCleanly, Managed, IPsSorted, TargetsSorted, Recorded, targetKeys
  <1>5. Informed'
    <2>1. Serves' => queued'
      BY <1>1, <1>2 DEF Serves, Managed, Watched
    <2> QED BY <2>1 DEF Informed
  <1>6. DNSStep
    BY <1>1, <1>2, NothingNew
  <1> QED BY <1>3, <1>4, <1>5, <1>6 DEF IInv

LEMMA LoadBalancerKeeps ==
    ASSUME IInv, AssignsSome \/ AssignsAll
    PROVE  IInv' /\ DNSStep
  <1>1. Requested \in SUBSET Plain /\ edits \in Nat
    BY DEF IInv, Types, Requested, PlainServices
  <1>2. CASE AssignsSome
    <2> PICK A \in (SUBSET Requested)
                     \cup (IF Requested # {} THEN {}
                           ELSE {{e} : e \in Statics \cup {x \in Addresses : x[1] = dp.current}}) :
           edits' = edits + 1 /\ Assign(A)
      BY <1>2 DEF AssignsSome
    <2>1. A \in SUBSET Plain
      BY <1>1 DEF Plain
    <2> QED BY <1>1, <2>1, AssignKeeps
  <1>3. CASE AssignsAll
    BY <1>1, <1>3, AssignKeeps DEF AssignsAll
  <1> QED BY <1>2, <1>3

-----------------------------------------------------------------------------
\* A step that leaves the Service and the world alone disturbs at most what the
\* request knows.
LEMMA NoWriteKeeps ==
    ASSUME IInv, UNCHANGED <<world, svc, stranded>>
    PROVE  /\ dp' \in Statuses /\ config' \in DOMAIN Configs
           /\ PinsCleanly' /\ IPsSorted(svc, pins.ips)'
           /\ TargetsSorted(svc, pins.targets, stranded)' /\ DNSStep
           /\ cur' \in PlainRequests \cup {Idle} /\ queued' \in BOOLEAN => Types'
           /\ Serves' <=> Serves
           /\ suffixIP' = suffixIP
  <1>1. UNCHANGED <<dp, config, pins, edits, rotations, svc, stranded>>
    BY DEF world
  <1>2. DNSStep
    BY <1>1, NothingNew
  <1>3. TargetsSorted(svc, pins.targets, stranded)'
    BY <1>1 DEF IInv, TargetsSorted, Recorded, targetKeys
  <1>4. IPsSorted(svc, pins.ips)' /\ PinsCleanly'
    BY <1>1 DEF IInv, IPsSorted, Recorded, PinsCleanly, Managed
  <1>5. (Serves' <=> Serves) /\ suffixIP' = suffixIP
    BY <1>1 DEF Serves, Managed, suffixIP
  <1> QED BY <1>1, <1>2, <1>3, <1>4, <1>5 DEF IInv, Types

\* A write that the operator's request was right about.
LEMMA WriteKeeps ==
    ASSUME IInv, UNCHANGED world, svc' \in PlainServices, SameDirections(svc, svc'),
           IPsSorted(svc', pins.ips), TargetsSorted(svc', pins.targets, stranded'),
           svc.ipsRec # None /\ Managed(svc) => svc'.ipsRec # None,
           cur' \in PlainRequests \cup {Idle}, queued' \in BOOLEAN,
           stranded' \in SUBSET Entries
    PROVE  /\ Types' /\ PinsCleanly' /\ IPsSorted(svc, pins.ips)'
           /\ TargetsSorted(svc, pins.targets, stranded)'
           /\ Serves' <=> Serves
           /\ suffixIP' = suffixIP
  <1>1. UNCHANGED <<dp, config, pins, edits, rotations>>
    BY DEF world
  <1>2. Types'
    BY <1>1 DEF IInv, Types
  <1>3. PinsCleanly'
    BY <1>1 DEF IInv, PinsCleanly, Managed, SameDirections
  <1>4. IPsSorted(svc, pins.ips)' /\ TargetsSorted(svc, pins.targets, stranded)'
    BY <1>1 DEF IPsSorted, TargetsSorted, Recorded, targetKeys
  <1>5. (Serves' <=> Serves) /\ suffixIP' = suffixIP
    BY <1>1 DEF Serves, Managed, suffixIP, SameDirections
  <1> QED BY <1>2, <1>3, <1>4, <1>5

LEMMA RequestTyped ==
    ASSUME IInv, cur # Idle
    PROVE  /\ cur \in PlainRequests /\ cur.svc \in PlainServices
           /\ cur.ip \in Plain \cup {None} /\ cur.again \in BOOLEAN
  BY DEF IInv, Types, PlainRequests

LEMMA ReadKeeps ==
    ASSUME IInv, Read
    PROVE  IInv' /\ DNSStep
  <1>1. /\ queued' = FALSE /\ UNCHANGED <<world, svc, stranded>>
        /\ cur' = [step |-> "sync", svc |-> svc, ip |-> None, again |-> FALSE]
    BY DEF Read
  <1>2. cur' \in PlainRequests /\ cur' # Idle /\ cur'.svc = svc /\ cur'.step # "nudge"
    BY <1>1 DEF IInv, Types, PlainRequests, Idle
  <1>3. Informed'
    BY <1>1, <1>2 DEF Informed
  <1> QED BY <1>1, <1>2, <1>3, NoWriteKeeps DEF IInv

\* A refused write is tried again.
LEMMA RefusedKeeps ==
    ASSUME IInv, Refused
    PROVE  IInv' /\ DNSStep
  <1>1. UNCHANGED <<world, svc, stranded>> /\ cur' = Idle /\ queued' = TRUE
    BY DEF IInv, Types, Refused, Return
  <1>2. Informed'
    BY <1>1 DEF Informed
  <1> QED BY <1>1, <1>2, NoWriteKeeps DEF IInv

LEMMA LeaveAloneKeeps ==
    ASSUME IInv, LeaveAlone
    PROVE  IInv' /\ DNSStep
  <1> DEFINE s == cur.svc
  <1>1. /\ cur # Idle /\ UNCHANGED <<world, svc, stranded>> /\ cur' = Idle
        /\ queued' = (queued \/ (s.lb /\ s.dp /\ (dp.exists => Managed(s))))
        /\ \/ ~s.lb \/ (~Managed(s) /\ ~hasOwnershipRecord(s))
           \/ Managed(s) /\ Waits(s)
    BY DEF LeaveAlone, Return
  <1>2. queued \in BOOLEAN /\ queued' \in BOOLEAN
    BY <1>1, RequestTyped DEF IInv, Types, PlainServices
  <1>3. Informed'
    <2> SUFFICES ASSUME ~queued, Serves PROVE FALSE
      BY <1>1, <1>2, NoWriteKeeps DEF Informed
    <2>1. svc = s
      BY <1>1 DEF IInv, Informed
    <2> QED BY <1>1, <2>1 DEF Serves, Waits
  <1> QED BY <1>1, <1>2, <1>3, NoWriteKeeps DEF IInv

LEMMA ReleaseKeeps ==
    ASSUME IInv, releaseService
    PROVE  IInv' /\ DNSStep
  <1>1. CASE Refused
    BY <1>1, RefusedKeeps
  <1>2. CASE ~Refused
    <2> DEFINE more == IF svc.targetRec = None THEN {} ELSE svc'.targets["stable"] \cap svc.targetRec
    <2>1. /\ svc' = Released(svc) /\ stranded' = stranded \cup more /\ UNCHANGED world
          /\ ~Managed(svc) /\ cur' = Idle /\ queued' = (queued \/ Watched(svc'))
      BY <1>2 DEF releaseService, Return
    <2>2. /\ svc \in PlainServices /\ pins \in Pins /\ IPsSorted(svc, pins.ips)
          /\ TargetsSorted(svc, pins.targets, stranded)
      BY DEF IInv, Types
    <2>3. /\ svc' \in PlainServices /\ SameDirections(svc, svc')
          /\ IPsSorted(svc', pins.ips) /\ TargetsSorted(svc', pins.targets, stranded')
          /\ \A k \in Keys : svc'.targets[k] \subseteq svc.targets[k]
          /\ more \in SUBSET Entries
      BY <2>1, <2>2, ReleasedSorted
    <2> HIDE DEF more
    <2>4. stranded' \in SUBSET Entries /\ queued' \in BOOLEAN
      BY <2>1, <2>3 DEF IInv, Types, Watched, hasOwnershipRecord, PlainServices
    <2>5. /\ Types' /\ PinsCleanly' /\ IPsSorted(svc, pins.ips)'
          /\ TargetsSorted(svc, pins.targets, stranded)' /\ (Serves' <=> Serves)
      BY <2>1, <2>3, <2>4, WriteKeeps
    <2>6. Informed'
      BY <2>1, <2>5 DEF Informed, Serves
    <2>7. DNSStep
      BY <2>3, NothingNew
    <2> QED BY <2>5, <2>6, <2>7 DEF IInv
  <1> QED BY <1>1, <1>2

\* Sync.  Nothing is written but to the Service the request was computed from,
\* and the address a nudge will be about is the one the suffix asks for.
LEMMA SyncKeeps ==
    ASSUME IInv, Sync
    PROVE  IInv' /\ DNSStep
  <1> DEFINE s == cur.svc
  <1>0. cur # Idle /\ s \in PlainServices /\ Managed(s) /\ ~Waits(s)
    BY RequestTyped DEF Sync
  <1>1. PICK a \in IF s.mode = "suffix" THEN {None} ELSE getCurrentServiceIP(s) :
          LET ip == currentIP(s, a)
              synced == Synced(s, ip)
              deferred == deferredDNSTarget(s, ip)
              requeue == deferred /\ s.provider # "cilium"
          IN  \/ /\ Proceed(s, ip, deferred)
                 /\ queued' = (queued \/ requeue)
                 /\ UNCHANGED <<world, svc>>
              \/ /\ svc = s
                 /\ svc' = synced
                 /\ Proceed(synced, ip, deferred)
                 /\ queued' \in {TRUE} \cup (IF synced = s THEN {queued \/ requeue} ELSE {})
                 /\ UNCHANGED <<world>>
              \/ Refused
    BY DEF Sync
  <1> DEFINE ip == currentIP(s, a)
             synced == Synced(s, ip)
             deferred == deferredDNSTarget(s, ip)
             requeue == deferred /\ s.provider # "cilium"
  <1>2. dp \in Statuses /\ config \in DOMAIN Configs /\ queued \in BOOLEAN
    BY DEF IInv, Types
  <1>3. ip \in Plain /\ (s.mode = "suffix" => ip = suffixIP)
    BY <1>0, <1>2, CurrentIPTyped
  <1>4. deferred \in BOOLEAN /\ requeue \in BOOLEAN
    BY <1>0 DEF deferredDNSTarget
  <1> HIDE DEF ip, synced, deferred, requeue
  <1>5. ASSUME NEW w \in PlainServices, Proceed(w, ip, deferred)
        PROVE  /\ cur' \in PlainRequests \cup {Idle} /\ stranded' = stranded
               /\ cur' = Idle => w.provider # "cilium"
               /\ cur' # Idle => cur'.svc = w /\ cur'.ip = ip
    BY <1>3, <1>4, <1>5 DEF Proceed, PlainRequests, Idle
  <1>6. CASE /\ Proceed(s, ip, deferred)
             /\ queued' = (queued \/ requeue)
             /\ UNCHANGED <<world, svc>>
    <2>1. /\ cur' \in PlainRequests \cup {Idle} /\ UNCHANGED <<world, svc, stranded>>
          /\ queued' \in BOOLEAN
      BY <1>0, <1>2, <1>4, <1>5, <1>6
    <2>2. Informed'
      <3> SUFFICES ASSUME ~queued, Serves
                   PROVE  IF cur' = Idle THEN svc.provider # "cilium"
                          ELSE svc = cur'.svc /\ cur'.ip = suffixIP
        BY <1>2, <1>6, <2>1, NoWriteKeeps DEF Informed
      <3>1. svc = s /\ s.mode = "suffix"
        BY <1>0 DEF IInv, Informed, Serves
      <3> QED BY <1>0, <1>3, <1>5, <1>6, <3>1
    <2> QED BY <2>1, <2>2, NoWriteKeeps DEF IInv
  <1>7. CASE /\ svc = s
             /\ svc' = synced
             /\ Proceed(synced, ip, deferred)
             /\ queued' \in {TRUE} \cup (IF synced = s THEN {queued \/ requeue} ELSE {})
             /\ UNCHANGED <<world>>
    <2>1. /\ IPsSorted(s, pins.ips) /\ TargetsSorted(s, pins.targets, stranded)
          /\ pins \in Pins /\ s.provider \in Fields
      BY <1>0, <1>7, ServiceSyncConstants DEF IInv, Types, Waits, PlainServices
    <2>2. \A f \in Fields : \/ pins.ips[f] = {}
                            \/ s.provider = f /\ (pins.ips[f] \subseteq Statics \/ s.ipsRec # None)
      BY <1>0, <1>7 DEF IInv, PinsCleanly
    <2>3. /\ synced \in PlainServices
          /\ IPsSorted(synced, pins.ips) /\ TargetsSorted(synced, pins.targets, stranded)
          /\ TargetsMoved(s, synced, ip) /\ SameDirections(s, synced)
          /\ s.ipsRec # None => synced.ipsRec # None
      BY <1>0, <1>2, <1>3, <2>1, <2>2, SyncedSorted DEF synced
    <2>4. /\ cur' \in PlainRequests \cup {Idle} /\ stranded' = stranded
          /\ cur' = Idle => synced.provider # "cilium"
          /\ cur' # Idle => cur'.svc = synced /\ cur'.ip = ip
      BY <1>5, <1>7, <2>3
    <2>5. queued' \in BOOLEAN /\ stranded' \in SUBSET Entries
      BY <1>2, <1>4, <1>7, <2>4 DEF IInv, Types
    <2>6. /\ Types' /\ PinsCleanly' /\ IPsSorted(svc, pins.ips)'
          /\ TargetsSorted(svc, pins.targets, stranded)' /\ (Serves' <=> Serves)
          /\ suffixIP' = suffixIP
      BY <1>7, <2>3, <2>4, <2>5, WriteKeeps
    <2>7. Informed'
      <3>1. Serves' => s.mode = "suffix"
        BY <1>7, <2>6 DEF Serves
      <3> QED BY <1>3, <1>7, <2>4, <2>6, <3>1 DEF Informed
    <2>8. DNSStep
      <3> SUFFICES ASSUME NEW k \in Keys, NEW e \in svc'.targets[k],
                          e \notin UNION {svc.targets[j] : j \in Keys}
                   PROVE  svc.assigned = {} \/ e \in svc.assigned
        BY DEF DNSStep
      <3>1. e \notin svc.targets["alpha"] \cup svc.targets["stable"]
        BY DEF Keys
      <3> QED BY <1>7, <2>3, <3>1 DEF TargetsMoved, dnsTargetReady
    <2> QED BY <2>6, <2>7, <2>8 DEF IInv
  <1>8. CASE Refused
    BY <1>8, RefusedKeeps
  <1> QED BY <1>1, <1>6, <1>7, <1>8 DEF ip, synced, deferred, requeue

LEMMA NudgeKeeps ==
    ASSUME IInv, nudgeL2Announcer
    PROVE  IInv' /\ DNSStep
  <1> DEFINE s == cur.svc
             due == Needed /\ cur.ip \in s.assigned /\ ~FingerprintMatches(s)
  <1>0. cur # Idle /\ cur.step = "nudge" /\ queued \in BOOLEAN /\ Needed \in BOOLEAN
    BY ServiceSyncConstants DEF nudgeL2Announcer, IInv, Types
  <1>1. CASE /\ ~due
             /\ Return(cur.again \/ (Needed /\ cur.ip \notin s.assigned))
             /\ UNCHANGED <<world, svc, stranded>>
    <2>1. cur' = Idle /\ queued' = (queued \/ (cur.again \/ (Needed /\ cur.ip \notin s.assigned)))
      BY <1>1 DEF Return
    <2>2. queued' \in BOOLEAN
      BY <1>0, <2>1, RequestTyped
    <2>3. Informed'
      <3> SUFFICES ASSUME ~queued, Serves, Needed, cur.ip \in s.assigned
                   PROVE  svc.nudge = svc.assigned
        BY <1>0, <1>1, <2>1, <2>2, NoWriteKeeps DEF Informed
      <3>1. svc = s
        BY <1>0 DEF IInv, Informed
      <3> QED BY <1>1, <3>1 DEF FingerprintMatches
    <2> QED BY <1>1, <2>1, <2>2, <2>3, NoWriteKeeps DEF IInv
  <1>2. CASE svc = s /\ svc' = [s EXCEPT !.nudge = s.assigned] /\ Return(TRUE)
             /\ UNCHANGED <<world, stranded>>
    <2>1. svc \in PlainServices
      BY DEF IInv, Types
    <2>2. /\ svc' \in PlainServices /\ SameDirections(svc, svc')
          /\ svc'.ips = svc.ips /\ svc'.ipsRec = svc.ipsRec
          /\ svc'.targets = svc.targets /\ svc'.targetRec = svc.targetRec
      BY <1>2, <2>1 DEF PlainServices, PlainRecords, SameDirections
    <2>3. IPsSorted(svc', pins.ips) /\ TargetsSorted(svc', pins.targets, stranded')
      BY <1>2, <2>2 DEF IInv, IPsSorted, TargetsSorted
    <2>4. cur' = Idle /\ queued' = TRUE /\ stranded' \in SUBSET Entries
      BY <1>0, <1>2 DEF Return, IInv, Types
    <2>5. /\ Types' /\ PinsCleanly' /\ IPsSorted(svc, pins.ips)'
          /\ TargetsSorted(svc, pins.targets, stranded)'
      BY <1>2, <2>2, <2>3, <2>4, WriteKeeps
    <2>6. Informed' /\ DNSStep
      BY <2>2, <2>4, NothingNew DEF Informed
    <2> QED BY <2>5, <2>6 DEF IInv
  <1>3. CASE Refused
    BY <1>3, RefusedKeeps
  <1> QED BY <1>1, <1>2, <1>3 DEF nudgeL2Announcer

-----------------------------------------------------------------------------
LEMMA IInvNext ==
    ASSUME AlphaNotReintroduced, IInv, Next
    PROVE  IInv' /\ DNSStep
  <1>1. CASE UserEdits
    BY <1>1, UserEditsKeep
  <1>2. ASSUME NEW e \in Addresses \cup Statics, UserAsks(e) PROVE IInv' /\ DNSStep
    BY <1>2, UserAsksKeep DEF Plain
  <1>3. ASSUME NEW n \in Hostnames, UserTargets(n) PROVE IInv' /\ DNSStep
    BY <1>3, UserTargetsKeep
  <1>4. ASSUME NEW e \in Entries, UserRemoves(e) PROVE IInv' /\ DNSStep
    BY <1>4, UserRemovesKeep
  <1>5. CASE Created \/ Deleted \/ TransitionChanges \/ \E x \in Prefixes : Rotates(x)
    BY <1>5, DynamicPrefixKeeps
  <1>6. CASE Restart
    BY <1>6, RestartKeeps
  <1>7. CASE AssignsSome \/ AssignsAll
    BY <1>7, LoadBalancerKeeps
  <1>8. CASE Reconcile
    BY <1>8, ReadKeeps, LeaveAloneKeeps, ReleaseKeeps, SyncKeeps, NudgeKeeps DEF Reconcile
  <1> QED BY <1>1, <1>2, <1>3, <1>4, <1>5, <1>6, <1>7, <1>8 DEF Next, Environment

\* The invariant every theorem below follows from.
THEOREM Invariance ==
    ASSUME AlphaNotReintroduced
    PROVE  Spec => []IInv
  <1>1. IInv /\ [Next]_vars => IInv'
    <2> SUFFICES ASSUME IInv, [Next]_vars PROVE IInv'
      OBVIOUS
    <2>1. CASE Next
      BY <2>1, IInvNext
    <2>2. CASE UNCHANGED vars
      <3>1. UNCHANGED <<world, svc, stranded, cur, queued>>
        BY <2>2 DEF vars, world
      <3>2. Informed'
        BY <3>1, NoWriteKeeps DEF IInv, Informed
      <3> QED BY <3>1, <3>2, NoWriteKeeps DEF IInv, Types
    <2> QED BY <2>1, <2>2
  <1> QED BY <1>1, IInvInit, PTL DEF Spec

\* The Service, the request and the user's pins keep their types.
THEOREM TypeCorrect ==
    ASSUME AlphaNotReintroduced
    PROVE  Spec => []TypeOK
  <1>1. IInv => TypeOK
    <2> SUFFICES ASSUME IInv PROVE TypeOK
      OBVIOUS
    <2>1. Plain \subseteq Entries
      BY PlainEntries
    <2>2. [Fields -> SUBSET Plain] \subseteq [Fields -> SUBSET Entries] /\ PlainRecords \subseteq Records
      BY <2>1 DEF PlainRecords, Records
    <2>3. PlainServices \subseteq Services
      BY <2>1, <2>2 DEF PlainServices, Services
    <2>4. PlainRequests \subseteq Requests
      BY <2>1, <2>3 DEF PlainRequests, Requests
    <2>5. Pins \subseteq [ips: [Fields -> SUBSET Entries], targets: SUBSET Hostnames]
      BY <2>2 DEF Pins
    <2> QED BY <2>3, <2>4, <2>5 DEF IInv, Types, TypeOK
  <1> QED BY <1>1, Invariance, PTL

\* preserveUnownedIPs and excludePinned (servicesync_controller.go): no
\* rotation, change of mode or provider, opt-out, release or migration of the
\* keys takes away what the user wrote.
THEOREM PinsAreKept ==
    ASSUME AlphaNotReintroduced
    PROVE  Spec => []PinsKept
  <1>1. IInv => PinsKept
    <2> SUFFICES ASSUME IInv PROVE PinsKept
      OBVIOUS
    <2>1. pins.targets \subseteq UNION {svc.targets[k] : k \in Keys}
      BY DEF IInv, TargetsSorted, Keys
    <2> QED BY <2>1 DEF IInv, IPsSorted, PinsKept
  <1> QED BY <1>1, Invariance, PTL

\* writeLBAddresses and syncExternalDNSTarget: what the operator wrote is in
\* the record beside it, or was stranded by a release.
THEOREM EntriesAreOwned ==
    ASSUME AlphaNotReintroduced
    PROVE  Spec => []EntriesOwned
  <1>1. IInv => EntriesOwned
    BY DEF IInv, IPsSorted, TargetsSorted, EntriesOwned
  <1> QED BY <1>1, Invariance, PTL

\* nudgeL2Announcer: an operator at rest has nudged with the addresses
\* assigned last, whatever happened between its two writes.
THEOREM NudgeIsCurrent ==
    ASSUME AlphaNotReintroduced
    PROVE  Spec => []NudgeFollows
  <1>1. IInv => NudgeFollows
    BY DEF IInv, Informed, NudgeFollows
  <1> QED BY <1>1, Invariance, PTL

\* syncExternalDNSTarget: an address enters DNS only once it is assigned.
THEOREM TargetsFollowAddresses ==
    ASSUME AlphaNotReintroduced
    PROVE  Spec => DNSFollowsAddress
  <1>1. IInv /\ [Next]_vars => [DNSStep]_vars
    BY IInvNext
  <1> QED BY <1>1, Invariance, PTL DEF Spec, DNSFollowsAddress, DNSStep
=============================================================================
