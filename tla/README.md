# A TLA+ model of dynamic-prefix-operator

The operator learns an IPv6 prefix from the network (Router Advertisements or
DHCPv6 prefix delegation), publishes it in the status of a `DynamicPrefix`
resource, and rewrites load-balancer pools, Services and BGP advertisements so
that they follow the prefix. Prefixes change without warning, the network may go
silent, several controllers share objects with users, and everything runs in
goroutines beside each other. This project models that behaviour in TLA+, checks
it with TLC on small instances, and proves the central safety properties with
TLAPS for every value of the constants.

All paths below are relative to the repository root, `src/` here.

## 1. Inventory

### DynamicPrefix controller (`internal/controller/dynamicprefix_controller.go`)

* State: the API object (finalizer, deletion timestamp, spec, status: current
  prefix, history of draining prefixes, subnets, address ranges, conditions); the
  informer's cached copy; in memory the maps `receivers`, `receiverSpecs` and
  `receiverStops`; the work queue with its timers.
* Operations: `Reconcile` (not found, deletion, finalizer, receiver, health,
  prefix, filter, history, subnets and ranges, conditions, forced status Apply,
  requeue), `getOrCreateReceiver`, `cleanupReceiver`, `forwardPrefixEvents`.
* Hard: reads come from a cache that may lag while the status Apply is forced and
  carries no resourceVersion; the receiver changes between the reads of one pass;
  events are dropped; writes fail; the process restarts.
* Correct when: history holds neither duplicates nor the current prefix; a
  replaced prefix drains; pruning is oldest first; derived fields belong to the
  current prefix whenever the resource is not Degraded; status follows the
  receiver; no receiver outlives its resource.

### Receivers (`internal/prefix`)

* `RAReceiver` (`ra_receiver.go`): receive loop, lease watcher and solicitor as
  goroutines over `currentPrefix`, the health tracker and a bounded event channel.
  Hard: the watcher works in three separately locked steps; `Stop` waits for
  nobody; silence is the failure.
* `DHCPv6PDReceiver` (`dhcpv6pd_receiver.go`): `runLoop` acquires, renews at T1,
  rebinds at T2, drops, with exchange timeouts, retry waits and an exponential
  backoff with jitter. Hard: the T2 test is made before an exchange that takes
  time; the pacing rests on waits scattered over the branches.
* `CompositeReceiver` (`composite_receiver.go`): two receivers, one active; merges
  events, suppresses the fallback's, switches on failures and expiry.
* Factory and shared RA pool (`factory.go`, `shared_ra_receiver.go`): one
  delegation client per interface (`pdInterfaces`), one RA receiver per interface
  and policy, shared by subscribers. Hard: rebuilds, failed starts, exchanges of
  interfaces between resources.
* Correct when: each receiver keeps the promises the reconciler relies on
  (`PrefixReceiver`), leases end in time, claims and shared receivers exist exactly
  while they are used.

### Pool sync controller (`poolsync_controller.go`, `poolsync_backends.go`, `poolsync_condition.go`, `ownership.go`, `ownedlist.go`)

* State: pool objects whose list is shared with users, the ownership record in an
  annotation, the in-memory failures behind the `PoolsSynced` condition, the queue.
* Operations: `Reconcile`, `getPools`, `syncPool`, `releasePool`, `syncOwnedList`,
  `releaseRecordedSlice`, `updatePoolsSyncedCondition`, the watch filter and
  `findReferencingPools`.
* Hard: the list and the record are the only memory; users edit between read and
  update; several kinds share a name; a report of the condition may be lost.
* Correct when: user entries are never removed, operator entries never left
  behind, pools follow the status, and the condition tells which pools do not.

### Service sync controller (`servicesync_controller.go`, `ownership.go`)

* State: the annotations of LoadBalancer Services in HA mode (addresses asked of
  Cilium or kube-vip, the external-dns target under two keys, the two ownership
  records, the L2 nudge's fingerprint), the load balancer's status, the queue.
* Operations: `Reconcile`, `addressesForService`, `writeLBAddresses`,
  `syncExternalDNSTarget`, `nudgeL2Announcer`, `releaseService`, the watch filter and
  `findReferencingServices`.
* Hard: the request, the assignment and the DNS target are written by three actors
  in different reconciles; one record serves two annotations; a pass writes twice;
  the set of DNS keys changes from one version of the operator to the next.
* Correct when: user entries survive, operator entries stay recorded until they are
  handed back, DNS does not lead the address, and a Service in the end asks for,
  publishes and announces the address the suffix gives it.

### Pool sync backends with a shape of their own (`poolsync_backends.go:277`, `kubevip_backend.go`)

* State: Calico's `spec.cidr` holds one CIDR, so each draining prefix gets a sibling
  `IPPool` that is the operator's own; kube-vip has one ConfigMap with a key per
  pool, and one record for all keys.
* Operations: `update` and `release` of both backends, `syncDrainingSiblings`.
* Hard: siblings and pool are written by separate calls that may each fail or be
  refused by Calico; the key may be re-pointed while its entries are in use.
* Correct when: no draining prefix is withdrawn, nothing of the operator's is left
  under a key or as a sibling, and pool, siblings and keys follow the status.

### Subnets, ranges and offsets (`subnet.go`, `addressrange.go`, `servicesync_controller.go:1134`, `poolsync_backends.go:566`)

* Pure functions: subnets and ranges cut from a prefix, the CIDR of a range, a
  Service's address carried to another prefix, byte by byte with masks, borrow and
  carry.
* Correct when: they agree with plain arithmetic on addresses, also where a prefix
  ends inside a byte.

### BGP sync controller (`bgpsync_controller.go`)

* State: one `CiliumBGPAdvertisement` per subnet that asks for BGP, the condition
  `BGPAdvertisementReady`, the cached DynamicPrefix.
* Operations: `Reconcile` with `reconcileAdvertisement`, `getPoolServiceSelector`,
  `deleteOrphanedAdvertisements` and `updateStatus`.
* Hard: one pass makes many calls on objects users edit and Kubernetes collects;
  failures are partly joined and partly logged; the condition is compared with a
  cached one.
* Correct when: in the end the advertisements are those the spec and the pools ask
  for, and the condition is true of them.

### CrowdSec marker controller (`crowdsec_controller.go`, `crowdsec_lapi.go`)

* State: allow decisions in CrowdSec's local API (LAPI), a cached token, the
  condition `CrowdSecMarkersSynced`.
* Operations: `Reconcile`, `sync`, and the client's login, retry after a 401, list,
  create and delete.
* Hard: requests take effect and lose their answer; LAPI restarts without tokens or
  decisions; the order of creations and deletions is a promise.
* Correct when: a rotation never leaves a DynamicPrefix without a marker, and the
  markers and the report are right in the end.

### Not modelled

* The detector that decides whether Cilium needs the L2 nudge (`ciliuml2nudge.go`)
  parses an image tag and caches a verdict; the verdict is a parameter of
  `ServiceSync`. The discovery starters (`ciliumversions.go`) poll an API until it
  serves a group and then set a controller up once; the kinds they find are
  parameters.
* Metrics, Kubernetes events, logging, rejection reports, `main.go`, API types and
  generated code: nothing the operator decides depends on them.
* The mode in which a pool is bound to a whole prefix without range or subnet: its
  one configuration is the prefix itself, so no arithmetic takes place; `PoolSync`
  covers its control.

`PROJECT.json` lists every component, the hazards of the code at their lines, and
the source lines each definition stands for.

## 2. Modules

| module | models | extended or instantiated by |
|---|---|---|
| `DynamicPrefixController` | one resource's Reconcile with cache, receiver, restarts | `DynamicPrefixControllerProofs`, `MCDynamicPrefixController` |
| `PrefixReceiver` | abstract: what `CurrentPrefix()` and `LastError()` promise | refined by the three receivers |
| `RAReceiver` | the RA receiver's goroutines | `RAReceiverProofs`, `MCRAReceiver` |
| `DHCPv6PDReceiver` | the delegation client's loop | `DHCPv6PDReceiverProofs`, `MCDHCPv6PDReceiver` |
| `CompositeReceiver` | two receivers, the merged events and the reconciler's reads | `ReceiversProofs`, `MCCompositeReceiver` |
| `ReceiverLifecycle` | factory, shared pool and receivers map for several resources | `ReceiversProofs`, `MCReceiverLifecycle` |
| `PoolSync` | pools with shared lists, ownership records, `PoolsSynced` | `PoolSyncProofs`, `MCPoolSync` |
| `ServiceSync` | a Service's addresses, DNS target, nudge and release | `ServiceSyncProofs`, `MCServiceSync` |
| `AddressMath` | the operator's address arithmetic, with reference definitions | `BoundPool` |
| `BoundPool` | what the pool controller does for every backend: windows, wake-ups, the status it follows | `CalicoPool`, `KubevipConfigMap` |
| `CalicoPool` | an IPPool and its draining siblings | `PoolBackendsProofs`, `MCCalicoPool` |
| `KubevipConfigMap` | the keys of the kube-vip ConfigMap | `PoolBackendsProofs`, `MCPoolBackends` |
| `MCPoolBackends` | a cluster with either backend over the same status and arithmetic | - |
| `BGPSync` | advertisements, orphans and `BGPAdvertisementReady` | `MCBGPSync` |
| `CrowdSecMarkers` | the marker controller and the LAPI client | `CrowdSecMarkersProofs`, `MCCrowdSecMarkers` |

The modules meet at two interfaces. The reconciler sees a receiver only through
`CurrentPrefix()` and `LastError()`: `PrefixReceiver` states what it may count on,
the three receivers are shown to implement it, `CompositeReceiver` takes its
children at that word, and `DynamicPrefixController` lets its receiver do anything
`PrefixReceiver` allows, and a little more. The pool and Service controllers see a
DynamicPrefix only through `status.currentPrefix`, `status.history` and the
transition mode, which `PoolSync` and `ServiceSync` change freely, subject to the
disjointness proved of the controller. The pool models also see the subnets and
address ranges that status has resolved, which may belong to an earlier prefix.

### DynamicPrefixController

`obj` is the API server's object, `cache` the informer's, `recv` the entry of the
receivers map, `pass` what a Reconcile has read and not yet written, `due` a queued
request or an armed timer. Reconcile is cut where another goroutine can come in
between: `ReconcileFetch` reads the object and the receiver's health,
`ReconcileApply` reads the prefix, computes the status (`NewStatus`,
`handlePrefixChange`, `Adopted`, `DegradedAfter`) and applies it. The early returns
are actions of their own (`ReconcileNotFound`, `ReconcileDeletion`,
`ReconcileAddFinalizer`, `ReconcileCreationFails`). An update carries the
resourceVersion and is refused when the object moved on; the status Apply is forced.
History is a set of entries with an age, the number of entries appended later, in
place of a time. Whether a layout's subnets and ranges fit a prefix is a parameter.

### PrefixReceiver, RAReceiver, DHCPv6PDReceiver

`PrefixReceiver` has two variables: a failure alone takes no prefix away, giving a
prefix up hides no failure, and a failure is forgotten only while a prefix is held
or being taken up.

`RAReceiver`: `Receive` reads and judges an advertisement (`Rejected`, `OptionLoop`),
`Handle` applies the choice, possibly after a Stop (`leftover`); `ReadError` may also be
the failing read of a socket that Stop has closed, once per run; the watcher is
`CheckLease`, `RecordExpiry`, `SendExpiry`, as the code locks three times. An
advertisement is a record of what the code looks at. `Receive` uses `Wins`, the
declarative description of the chosen option; the run `ra` checks that the loop of
the code, `OptionLoop`, computes it. The refinement of `PrefixReceiver` maps the
lease to its prefix.

`DHCPv6PDReceiver`: `pc` is runLoop's place, `timer` what is left of a wait or of an
exchange's timeout; a wait ends and an exchange times out when it is 0, and time
does not pass then. `Grant` is a reply accepted at any moment of an exchange.

### CompositeReceiver

The children take any step of `PrefixReceiver` and send the event the code sends
with it, in one step. (The delegation client sets its prefix, records its success and
sends its event one after the other; the event, which is all the composite reacts to,
comes last.) `mergeEvents` is `handlePrimaryEvent` and `handleFallbackEvent`,
`forwardPrefixEvents` drops renewals and failures, and `known` is the prefix the
reconciler last read. `dropped` remembers that a full channel dropped an event.

### ReceiverLifecycle

`res` holds `pdInterfaces`, the running clients, and the shared pool with its
subscribers. `getOrCreateReceiver` runs under `receiversMu`, so it is one step with
four outcomes: `CreationFails` (nothing configured, a trusted router that does not
parse, an interface that is taken), `FallbackFails` (a `routerAdvertisement` without an
interface, which the API allows: the primary of a composite has claimed its interface
by then and releases it), `StartFails` (the RA socket does not open; a composite stops
its primary again), `StartSucceeds`. Each outcome is the composition of what the code
calls (`createDHCPv6PDReceiver`, `createRAReceiver`, `releaseClaimedInterface`).

### PoolSync

A pool is its set of canonical entries, its binding annotation and its record. The
prefix names the entry the operator writes for it; `Inside` says which other entries
lie in a prefix. A reconcile reads all pools of a name (`getPools`) and then syncs
them one by one against those copies, so users can write in between and the update
is refused. `pins` remembers, outside the system, which entries a user wrote.

`buildModeConfigs` prefers the entry that status has resolved (`findInStatus`) and
calculates from the current prefix only if there is none. The DynamicPrefix controller
replaces `status.subnets` and `status.addressRanges` each as a whole, and only if all of
the list can be calculated, so `resolved` holds the prefix each list belongs to, which
need not be the current one. `Written` are the statuses that can arise, those with more
history than a lowered `maxPrefixHistory` allows included: what is `beyond` the limit is
managed, but no configuration is built for it.

### ServiceSync

An address in a prefix is the pair of the prefix and a host part, so that an
address moves to another prefix by `combinePrefixSuffix`. The three modes are those
of `addressesForService`: the suffix annotation, a host part inferred from the
assigned address, and a named range or subnet, which fits the prefixes in
`RangeFits`. A Reconcile reads the Service (`Read`), writes it once (`Sync`, or
`releaseService`) and perhaps a second time (`nudgeL2Announcer`); a write of a Service
that has changed is `Refused`. The load balancer assigns what is asked (`AssignsAll`)
or, within the bound on edits, part of it or something else (`AssignsSome`).
`Configs` is the sequence of DNS keys the operator is restarted with. `stranded`
remembers what a release left behind, so that `EntriesOwned` can say that nothing
else ever loses its record. `PinsCleanly` restricts the users of the model; section 6
says what happens outside it.

### AddressMath, BoundPool, CalicoPool, KubevipConfigMap

`AddressMath` writes the code's functions over addresses of `Bytes` bytes of
`ByteBits` bits: an address is a number, as `netip` compares it and `big.Int`
computes with it, and `As16` gives the bytes the byte-wise loops work on. Carry,
borrow and the common bits of a range are recursive functions over the bytes, and so
are the powers of two (`pow2`, the `1 << n` of `big.Int`): TLA+'s own `^` would do for
TLC, but no prover here knows it.
`Placed`, `AddressesOf` and `IsCIDR` say the same in plain arithmetic. `BoundPool`
computes the window of a range or subnet in every prefix from it, and its invariants
compare the two. `CalicoPool` reads the pool and the status in `Begin`, then makes
one call a step: `CreateSibling`, `ListSiblings`, `DeleteSibling`, `UpdatePool`; an
error ends the pass and the queue repeats it. Siblings are named after a hash of
their CIDR, so they are a set of CIDRs. `stray` remembers siblings made while the
pool had no record. The status carries the prefix its list was `resolved` from, as in
`PoolSync`: it stays behind where the layout, or another range or subnet of the spec
(`SiblingsFit`), does not fit the new prefix, and `configured` prefers it.
`KubevipConfigMap` prepares a whole ConfigMap in one step and writes it in another,
which is refused if a user wrote in between; `pins` remembers which entries users wrote
under which key. An entry stops being a user's only as `leftToUsers` says: the operator
has come to record it, or it lies inside a managed prefix when the first record is
made. That is decided from the entries and the record before the write and not from
what the write leaves, so a write that lost users' entries would break `KeysFollow` and
`EntriesKept`. Its definitions carry `Kubevip` in their
names where `CalicoPool` has one of the same name, so that `MCPoolBackends` can extend
both.

### BGPSync

`dp` is the API server's DynamicPrefix with its uid and generation, `cache` the
informer's. A pass keeps what it has read (`step`) between `ReadSubnet` and
`reconcileAdvertisement`, so that an edit in between makes the write fail. `dropped`
are the subnets whose last failure the code only logs. `buildBGPCondition` is a step of
its own: its Gets go to the API server (unstructured objects are not cached), and one
that fails gives `AdvertisementsPending` and no error (`unread`). `stale` says that a
condition was left unwritten because the cached one was equal. A pool's selector may be
`Unreadable`, which the code treats as none.

### CrowdSecMarkers

One worker takes the DynamicPrefixes from `queue`. A pass is a sequence of requests;
each is `Answered`, takes effect without an answer (`AnswerLost`), does not get
through (`RequestFails`) or meets a 401 (`Unauthorized`), which drops the token and
repeats the request once. `cached` is the condition as the informer shows it: a pass
takes it along (`seen`) and `writeCondition` does not write a report that equals it,
whatever is stored by then. `lost` are the DynamicPrefixes whose last report was not
written, because the apply failed or was skipped in that way. `LAPIStops` may take the decisions with it. Lists are
sequences because the limit on markers cuts the oldest.

## 3. Runs

| run | shows | instance |
|---|---|---|
| `dp_fresh` | `DrainsReplaced` | four prefixes (symmetric) against a history of two, two acquisition specs, one of which filters every prefix, one fault; cache up to date |
| `dp_lagging` | `HistoryDisjoint`, `DerivedFollowsCurrent`, `Converges`, `OrphanReceiverCleaned` | two prefixes, of which one cannot be cut; lagging cache |
| `ra` | `LeaseBound`, `LoopPicksWinner`, `SilenceGivesUp`, refinement | ten advertisements: both orders of global and local, a retired prefix, and one for every reason to refuse |
| `pd` | `LeaseBound`, `NoBusyLoop`, `Recovers`, refinement | five replies: T1/T2 unset, set, crossed, zero lifetime, refused by policy |
| `lifecycle` | `ClaimsAreUses`, `PoolIsShared`, `EverybodyServed` | three resources, two interfaces, ten specs (two without an RA interface), four edits, two failed starts |
| `composite` | `FallbackTakesOver`, `ReconcilerLearns`, refinement | two prefixes, three failures, channels of one and two |
| `pools` | `PinsKept`, `NothingLeaks`, `PoolsFollow`, `ConditionTells` | one pool, three prefixes against a history of two, bound to the raw prefix or to a subnet that one prefix fits; every status the controller can have written; two edits, two rotations, one refused write, one lost report |
| `services` | `PinsKept`, `EntriesOwned`, `DNSFollowsAddress`, `RequestFollows`, `TargetFollows`, `NudgeFollows` | one Service, two prefixes, one host part, one IPv4 address, one hostname; all modes and providers; two edits, two rotations, both DNS keys and then the newer one alone |
| `backends` | `WindowsExact`, `OffsetsCarried`, `DrainingKept`, `SiblingsFollow`, `NothingStranded`, `KeysFollow` | 8-bit addresses of four bytes; two prefixes of length 3 and one of length 5; nine ranges and subnets that do and do not fit and are and are not CIDRs; three rotations, two edits, one fault; a CIDR key, a range key and a wrong one |
| `calico_overlap` | `SiblingsFollow` is violated | one range, a Calico that refuses overlapping pools |
| `bgp` | `AdvertisementsFollow`, `ConditionTells` | two subnets, one pool with a selector, without or with an unreadable one, one edit (of the spec, the pool or an advertisement, or a deletion) at any point of a pass, two DynamicPrefixes of the name in turn, two failing calls |
| `crowdsec` | `NeverBare`, `MarkersFollow`, `ReportFollows` | two DynamicPrefixes with four prefixes and one, one of them refused; two markers each; five changes (rotations, deletions, LAPI and operator restarts, expired tokens), one failing request, one lost report |

The type invariants (`TypeOK` of each module), `QuickAfterRecovery`, `PinsUnclaimed`
and `EntriesKept` are in no run: they are proved, or for the modules without a proof
module serve as documentation of the state.

### Bounds

* Prefixes: history keeps two by default, so four prefixes are one more than fits
  beside the current one; pruning, dropping and flapping all happen. Two suffice
  where only "another prefix" matters.
* `MaxFaults`, `MaxFailedStarts`, `MaxLost`: one or two refused calls, at any point.
  Each error path returns to a state it could also have been entered from.
* Channels hold one or two events, so they overflow; their real capacity only makes
  that rarer. Ages stop counting past anything the code compares them with
  (`AgeLimit`), so time is unbounded.
* `MaxEdits`, `MaxRotations`: two to four, enough for opt in, edit and opt out
  around a rotation there and back, and for two resources to exchange interfaces. A
  Service starts opted in, with its prefix still to come; two edits then pin and
  remove, opt out and in, or change mode and provider, at every point of a rotation.
* Addresses of four two-bit bytes have what the arithmetic tells apart: bytes wholly
  in the prefix, shared, and wholly outside it, and borrows and carries that pass
  through several bytes. The delegated prefixes differ in length, so a window can
  fit one and not the other.
* `CHECK_DEADLOCK FALSE` stands where users stop at a bound and the system rests.

### Fairness

* Controllers: `WF` of the worker's steps (controller-runtime serves every queued
  request and fires every timer) and of the watch. In `PoolSync` strong fairness per
  name: the queue is first-in first-out, so no request is passed over for ever.
* Receivers: `WF` of the goroutines' steps and of the clock. `Recovers` also assumes
  `SF` of a grant during an acquisition: a server that is asked again and again
  answers in the end. Nothing is assumed of renewals.
* `CompositeReceiver`: `WF` of the primary's tries (its loop never stops trying, and
  each try ends in an event), of both handlers and of the forwarder. Go's `select`
  picks at random among ready channels, so neither starves. The reconciler's timer
  gets no fairness: events alone must do.
* `ServiceSync`: `WF` of the worker, and of `AssignsAll`: a load balancer that is asked
  for addresses assigns them in the end. Where it never does, the target and the
  nudge wait for ever, as the code's comments say they should.
* `BoundPool`'s backends: `WF` of the worker. `BGPSync`: also of the watch and of
  Kubernetes' garbage collection. `CrowdSecMarkers`: also of `LAPIReturns`; with LAPI
  down for good nothing can be promised, and the property is about deployments with
  `--crowdsec-lapi-service`, without which nothing wakes the controller when LAPI
  comes back.
* Users, routers and upstreams get none.

## 4. Proofs

Eight modules hold theorems; tlapm checks them to the last leaf. Each theorem is
proved from the named assumptions on the constants in the module that declares them
(the bounds are numbers, the "none" values are not members) and from the hypotheses
it states itself; there are five of those, named below. Every inductive invariant
was first checked with TLC on the instance of the component's run.

* `DynamicPrefixControllerProofs`. The invariant says that the status of the object,
  of the cached copy *and of the copy a pass holds* is good (history disjoint,
  derived fields current when healthy): a forced Apply writes what was computed
  from any of them. `AfterChangeGood` carries the history argument,
  `NewStatusGood` the conditions. Theorems: `TypeCorrect`, `HistoryIsDisjoint`,
  `DerivedIsCurrent`, and `ReplacedPrefixDrains`, which assumes `~CacheMayLag` and
  uses the further invariant `FreshPass`: the copy a pass holds then has the status of
  the object, or the object was created anew since.
* `RAReceiverProofs`. `AgeAtNextLook` bounds the lease's age at the watcher's next
  look, which is inductive where the plain bound is not. Theorems: `TypeCorrect`,
  `GivesUpInTime`, `ImplementsReceiver`, and `LoopIsExact`: for every advertisement
  the loop of the code over the prefix options ends with the option `Wins` describes.
  This one is an induction over the turns of the loop, written as an argument from
  the least turn that would go wrong (`LeastTurn`, from the well-foundedness of the
  naturals): `LoopRuns` shows that the recursive function exists, `TurnIsRight` that a
  turn extends the choice by one option.
* `DHCPv6PDReceiverProofs`. `LeaseByPlace` bounds the age at every place of the loop
  with what is left on the timer, and keeps the backoff at its minimum while a lease
  is held; `FailureByPlace` says where a fresh failure can be. Theorems:
  `TypeCorrect`, `GivesUpInTime`, `RecoveryResetsBackoff`, `FailuresArePaced`,
  `ImplementsReceiver`.
* `ReceiversProofs`, about both `CompositeReceiver` and `ReceiverLifecycle`.
  `CompositeTypeCorrect`, and `ImplementsReceiver`: every step of a composite's child
  is a step of the whole or invisible. For the lifecycle the invariant states
  `ClaimsAreUses` and `PoolIsShared` over *any* table of receivers (`ClaimsMatch`,
  `PoolMatches`), because `getOrCreateReceiver` passes through a table the variables
  never show: the old receiver stopped, the new one not yet created. `StopMatches`,
  `StartMatches`, `FailureMatches` and `FallbackFailureMatches` say what stopping,
  starting, failing to start and failing to be built after the claim do to such a table, and the step of the code is their composition. Theorems: `TypeCorrect`,
  `NoClaimLeaks`, `SharedReceiversMatch`.
* `PoolSyncProofs`. The invariant keeps every pool sorted (user entries present, all
  others recorded, nothing both, no record without its annotation) and, with
  `OptsInCleanly`, says that an opted-in pool without a record holds only user entries
  from `OptIn`. The theorems assume that `OptIn` has no entry inside a prefix: the
  first sync of such a pool has geometry alone to go by, and section 6 says what
  happens otherwise. Theorems: `TypeCorrect`, `PinsAreKept`, `NoLeak`,
  `PinsAreUnclaimed`.
* `PoolBackendsProofs`, about Calico and kube-vip. `DrainingKept` needs to know how
  far a pass is: `InOrder` says that what it is to keep is served by siblings or still
  to be created, that nothing is left to create once the siblings are listed, and
  that nothing to keep is marked for deletion. Theorem: `DrainingIsKept`, whether or
  not Calico refuses overlaps. `NothingStranded` is not inductive either: the
  ConfigMap a pass is about to write must itself be in order for as long as nobody has
  written since its read. `UpdatedAccounted` and `ReleasedAccounted` carry the argument
  about `update` and `release`. Theorems: `NoEntryIsStranded` and, by the same invariant,
  `UsersEntriesAreKept` (`EntriesKept`: what is still a user's stands under its key and is
  not recorded), assuming that the value
  for an absent record is no record (`NoneIsNoRecord`). `CalicoTypeCorrect` and
  `KubevipTypeCorrect` say that what is written is a prefix or a window, never the
  missing window of a prefix that is too short.

  The second half of the module is about the arithmetic, for any number of bytes and of
  bits in a byte, so for the code's 16 and 8 too. `WindowsExact` and `OffsetsCarried`
  follow in every state whose layout and status are what they may be (`Followed`),
  which is invariant with either backend; everything else is about the operators.
  The loops over bytes are recursive functions, and each lemma gives the function in
  closed form, shows that it obeys the recursion and, by induction (`Upward`,
  `Downward`, from `LeastTurn`), that nothing else does. With `Upto(a, i)`, the number
  an address is without the bytes after `i`, the borrow into a byte is
  `Upto(t) - Upto(b) - Upto(t - b)` at the byte before it and the carry the same with a
  sum: `OffsetIsDistance` and `OffsetIsAdded` are then linear arithmetic in the base,
  for a negative distance too, where the last borrow is the refusal. `PlacedBytes` takes
  a byte of the prefix, of the suffix or shared, and gives `CombinedIsPlaced` and
  `ParsedIsPlaced`. `CommonBits` says that `RangeToCIDR` counts the leading bits two
  addresses have in common and no more; a CIDR's first and last address agree on its
  length exactly, whence `ExactCIDR`. The existence of `pow2` is itself proved
  (`DoublesExists`). Theorems: `AddressesAreCarried`, `WindowsStayExact`.
* `ServiceSyncProofs`. The invariant has the user's restraint (`PinsCleanly`), both
  lists sorted into the user's and the recorded (`IPsSorted`, `TargetsSorted`, where an
  address of the record is never a pin), and `Informed`: an operator that is idle with
  nothing queued has nudged with what is assigned, and one that is between its two
  writes still holds a Service nobody has written since, or will be woken. Theorems:
  `TypeCorrect`, `PinsAreKept`, `EntriesAreOwned`, `NudgeIsCurrent`,
  `TargetsFollowAddresses`. All assume `AlphaNotReintroduced`: the older DNS key is
  not configured again once it was not, which is what the comment at
  `servicesync_controller.go:460` counts on ("the established key is the one with the
  entries worth preserving"). Without it `PinsKept` is false (TLC, with `Configs` the
  newer key and then both, and two hostnames): a user names one host under the newer
  key and, after the restart and before the first pass, another under the older one;
  that one is now read first and overwrites the other.
* `CrowdSecMarkersProofs`. `NeverBare` needs to know that a pass with nothing left to
  create is `Covered`: a marker it wants is there or, LAPI having lost its decisions
  meanwhile, none is; that what it will expire is its own and not wanted; and that
  markers carry prefixes of their owner. Theorems: `TypeCorrect`,
  `RotationsKeepAMarker`. They assume that no two DynamicPrefixes have a prefix in
  common (`PrefixesAreOwn`): the delete expires every marker of a value, as the
  comment at `crowdsec_controller.go:238` says.

Every invariant and every action property of the passing runs, and every refinement, is
stated by a theorem. Only model-checked are the liveness properties, fairness being outside
the prover's reach: `Converges`, `OrphanReceiverCleaned`, `SilenceGivesUp`, `Recovers`,
`EverybodyServed`, `FallbackTakesOver`, `ReconcilerLearns`, `PoolsFollow`, both
`ConditionTells`, `RequestFollows`, `TargetFollows`, `AdvertisementsFollow`,
`MarkersFollow`, `ReportFollows`, `SiblingsFollow` and `KeysFollow`. `BGPSync`, whose
properties are all of this kind, has no theorem.

## 5. Findings

One run ends in a violation; `PROJECT.json` quotes the text it contradicts.

* `calico_overlap`: at a rotation `syncDrainingSiblings` creates the sibling for the
  old prefix before `update` moves the pool off that prefix, so the sibling carries
  its parent's CIDR. The repository says Calico rejects that as an overlap. The pass
  then fails before it moves the pool, and so does every retry: the pool stays on the
  prefix that is gone. Where Calico accepts the overlap, `backends` shows that the
  same order is what keeps the draining prefix served.

## 6. Observations

Behaviour met while modelling that no run forbids:

* `dynamicprefix_controller.go:340`: two prefix changes in quick succession, the
  second reconciled from a cache that does not show the first. The status Apply is
  forced and carries no resourceVersion, so the prefix in between reaches neither
  history nor any pool's draining entries. `DrainsReplaced` is therefore checked and
  proved for a cache that does not lag.
* `dynamicprefix_controller.go:201`: after an expiry the nil-prefix branch sets
  `PrefixAcquired` and leaves `Degraded=False` beside an advertised prefix, although
  `ra_receiver.go:756` says the health failure turns Degraded on.
* `poolsync_controller.go:450`: a pool prefers what status has resolved, and the lists in
  status stay as they are when any of their entries cannot be calculated
  (`dynamicprefix_controller.go:276`). After a rotation to a prefix that one subnet of the
  spec does not fit, a pool bound to another subnet, which does fit, keeps the old
  prefix's block, is synced without an error, and is not named by `PoolsSynced`; the
  resource itself is `Degraded`. `docs/ARCHITECTURE.md:181` says that pools hold blocks for
  the current prefix. `PoolsFollow` and `ConditionTells` state what does hold: pools follow
  the resolved entry, and the condition names those for which there is neither an entry
  nor a way to calculate one.
* `poolsync_controller.go:147`: `PoolsSynced` goes on naming a failing pool that was
  deleted beside a namesake, or de-annotated before a record was written (line 203).
* `servicesync_controller.go:777`: `releaseService` takes the operator's address out
  of the older external-dns key only, although both are written by default, and
  drops the record: the address under the newer key is nobody's from then on.
* `bgpsync_controller.go`: a list of pools that fails, and a selector that cannot be read,
  are logged (line 179) and the advertisement is written without a selector, so that it
  matches every Service, although the comment at line 282 says that an unreadable selector
  is not the same as an absent one. (Cilium's schema admits readable ones only.) A delete
  of an orphan that fails is logged (line 349). None of it is returned, although the
  comment at line 107 says that a failed delete is not dropped. `AdvertisementsFollow`
  leaves the subnets of failed lists and deletes out, and takes an unreadable selector
  for none. An advertisement of the right name that already exists is adopted with the
  operator's labels and without an owner reference.
* `bgpsync_controller.go:415`: any error of the Get, not only NotFound, counts as a missing
  advertisement and is not returned: `AdvertisementsPending` stays on advertisements that
  exist until something else wakes the controller. `ConditionTells` allows that reason,
  and no other wrong one, after such a Get.
* `conditions_apply.go:63`: a condition equal to the one in the object a pass read is not
  written, whatever is stored by then. A CrowdSec sync fails and reports it, and the retry
  succeeds before the cache shows the report: the success equals the older report in the
  cache, is not written, and the failure stays, since a condition wakes nobody. The same
  can befall `BGPAdvertisementReady`. `ReportFollows` and `ConditionTells` leave these cases
  out (`lost`, `stale`); without the exceptions TLC refutes both.
* `crowdsec_controller.go`: a draining prefix that is not acceptable refuses the whole
  sync, the current prefix included. Two DynamicPrefixes with the same prefix share
  one marker, which the first to rotate takes away (the code says so at line 238);
  the model gives each its own. A DynamicPrefix deleted while the operator is down
  keeps its markers unless LAPI's Service is watched.
* Calico: siblings made before the pool's first record, and those of a pool that is
  deleted, are never removed (`stray`). A user's change of a sibling wakes nobody. If
  a prefix comes back while it drains, its sibling is deleted before the pool moves
  to its CIDR, so it is served by neither for a moment.
* kube-vip: the record does not say which key an entry is under, and only pins under the
  key in use are looked for (`kubevip_backend.go:203`). An entry a user has under another
  key is recorded when the operator generates it too, and the sweep of the other keys
  then removes it, although the comment at line 214 says that what the user pinned is
  left to them. `KeysFollow` and `EntriesKept` count such an entry as the operator's from
  the write that records it (`leftToUsers`). One draining prefix whose range is not a
  CIDR fails the whole update of a `cidr-` key, the current prefix included.
* An advertisement handled between the RA watcher's two locks leaves the expiry's
  error on a healthy receiver until the next advertisement. `PrefixReceiver` allows a
  failure beside a prefix, so the refinement does not forbid it.
* `DHCPv6PDReceiver.Stop` releases the interface claim and does not wait for its
  loop, so the next client of the interface may start while an exchange of the old
  one is under way.
* `LeaseBound` of the delegation client is relative to T2, not to the valid
  lifetime: a server that sets T1 or T2 past the valid lifetime is believed, and the
  prefix is held beyond it.
* `CompositeReceiver.CurrentPrefix` asks the primary first whichever receiver is
  active, unlike its comment; `Source()` may then name the other one.
* While the primary is active the fallback's expiry is suppressed; if that prefix
  was the one in use, the reconciler learns of the loss by its timer only.
* A pool without a record is sorted by geometry: an entry its user put inside a
  managed prefix before opting in, or while a deleted resource had released the
  pool, is taken for the operator's and removed.
* `getPools` forgets a read error on one of two same-named pools when the other was
  read; the unread one is not retried until something else wakes the controller.
* A success whose `PoolsSynced` report is lost is not reported again until
  something else wakes the controller; `ConditionTells` assumes no report is lost.
* The record of a Service's addresses does not say which provider's annotation it is
  of. If a user changes the provider with an address pinned that the operator then
  generates itself, the record claims it and the pin is removed from the abandoned
  annotation. `PinsCleanly` leaves that history out, and an address of a prefix
  pinned before there is a record (as for pools).
* In the range and subnet modes a Service asks for an address of the new prefix
  only after the load balancer has assigned one unasked; in the inferred mode, only
  if a pass happens before the prefix of its assigned address has aged out.
  `RequestFollows` is therefore about Services with a suffix.
* Narrowing the DNS keys while a target is withheld deletes the old key before the
  new one has ever been written.
* An entry a user adds under the second DNS key only is overwritten by the first
  key's value. Users of the model write the first one.
* While the abandoned provider's annotation, or a key no longer configured, holds
  user entries, every pass counts as a change and rewrites the Service (`Rewrites`).
* A Service whose type changes from LoadBalancer is no longer looked at: nothing is
  released. `RequestFollows` asks for a release of LoadBalancer Services only.

## 7. What is abstracted

In `PoolSync` and `ServiceSync` addresses and their arithmetic (which entry a subnet
yields, what lies inside what) are parameters; the arithmetic itself is in
`AddressMath` and used by the two other backends. In `KubevipConfigMap` lists are
sets of canonical entries and their order is left out. Messages on the wire are
records of the fields the code tests; DUIDs, encodings and sockets are left out.
Solicitation timing, metrics, events, log lines and messages of conditions are left
out; reasons of conditions are kept where a decision or a property reads them. The
fan-out of the shared RA receiver copies events to its subscribers and is not
modelled. Leader election is a restart. In `ServiceSync` annotations are sets of
canonical entries and an empty one is an absent one; a malformed suffix and an API
error take the path of a refused write, a retry; the nudge's skip and force
annotations are part of the parameter `Needed`. The history in `ServiceSync` is already cut
to the limit, which differs from the code only between the lowering of
`maxPrefixHistory` and the next change of prefix.

## 8. Plan

Done: controller, receivers with their abstract specification, composite, lifecycle,
shared-list pools, Services, Calico and kube-vip with the address arithmetic, BGP,
CrowdSec; proofs of every safety property.

Next:

1. A composition of `DynamicPrefixController` with `PrefixReceiver` as its receiver,
   and of the status it writes with `PoolSync`.
2. The L2 nudge detector with its cached verdict.
