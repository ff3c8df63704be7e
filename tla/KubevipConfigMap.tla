-------------------------- MODULE KubevipConfigMap --------------------------
(***************************************************************************)
(* The kube-vip backend of the pool controller: one ConfigMap holds every  *)
(* pool, each under a data key of its own, and an annotation names the key *)
(* a DynamicPrefix feeds.  A key's value is a list of CIDRs or of ranges,  *)
(* shared with the user, and the ownership record lists what the operator  *)
(* wrote without saying under which key.  Entries stand for their          *)
(* canonical form; the order of a list is left out, and a key with no      *)
(* entries is an absent key.                                               *)
(***************************************************************************)
EXTENDS BoundPool

CONSTANTS
    CIDRKeys, RangeKeys,   \* data keys named cidr-... and range-...
    BadKey,                \* an annotation that names no pool key
    UserEntries            \* what users may write into a key

Keys == CIDRKeys \cup RangeKeys

VARIABLES
    cm,      \* the ConfigMap named on the command line
    pins,    \* history: the entries under each key that users wrote
    write    \* a pass between its reads and its update, or None
kubevipVars == <<layout, status, woken, bounds, cm, pins, write>>

\* A CIDR, or the first and the last address of a range.
Entries == Prefixes \cup Windows
ASSUME KubevipConstants == UserEntries \subseteq Entries
ConfigMaps == [bound : BOOLEAN, key : Keys \cup {BadKey},
               data : [Keys -> SUBSET Entries], record : (SUBSET Entries) \cup {None}]

KubevipTypeOK ==
    /\ layout \in Layouts
    /\ status \in Statuses \cup {None}
    /\ cm \in ConfigMaps
    /\ pins \in [Keys -> SUBSET Entries]
    /\ woken \in BOOLEAN
    /\ write \in [version : Nat, cm : ConfigMaps, theirs : [Keys -> SUBSET Entries]] \cup {None}
-----------------------------------------------------------------------------
(* What a pass writes. *)

\* A range key takes the window of a prefix; a CIDR key takes it only if it is
\* a CIDR, and it is an error otherwise.
kubevipEntryFor(key, p) ==
    IF key \in RangeKeys THEN configWindow[layout][p] ELSE configCIDR[layout][p]

\* The prefixes that have a window: a draining one without is passed over.
configs ==
    IF status = None THEN {}
    ELSE {p \in ({configured(status)} \cup elements(status.history)) \ {None} :
            configWindow[layout][p] # None}
kubevipEntriesFor(key) == {kubevipEntryFor(key, p) : p \in configs}
Renderable ==
    /\ configured(status) \in configs
    /\ cm.key \in Keys
    /\ None \notin kubevipEntriesFor(cm.key)

\* The addresses of an entry, from the first to the last.
ends(e) == IF "bits" \in DOMAIN e THEN <<Masked(e).addr, lastAddrOfPrefix(e)>>
           ELSE <<e.start, e.end>>
isManagedAddressEntry(e) ==
    \E p \in collectManagedPrefixes :
        Masked(p).addr <= ends(e)[1] /\ ends(e)[2] <= lastAddrOfPrefix(p)

Recorded(c) == IF c.record = None THEN {} ELSE c.record
\* The record decides if there is one, and geometry if there is none.
owned(c, e) == IF c.record = None THEN isManagedAddressEntry(e) ELSE e \in c.record

\* updated that takes the key for the operator's alone.
updatedOverwriting(c) ==
    LET managed == kubevipEntriesFor(c.key)
    IN  [c EXCEPT !.record = managed,
                  !.data = [k \in Keys |-> IF k = c.key THEN managed
                                           ELSE c.data[k] \ Recorded(c)]]

\* updated that looks at the key the annotation names and at no other.
updatedKeyOnly(c) ==
    LET preserved == {e \in c.data[c.key] : ~owned(c, e)}
        managed == kubevipEntriesFor(c.key) \ preserved
    IN  [c EXCEPT !.record = managed, !.data[c.key] = preserved \cup managed]

\* The key the annotation names gets the user's entries and the operator's;
\* every other key loses what the record has.
updated(c) ==
    LET preserved == {e \in c.data[c.key] : ~owned(c, e)}
        managed == kubevipEntriesFor(c.key) \ preserved
    IN  [c EXCEPT !.record = managed,
                  !.data = [k \in Keys |-> IF k = c.key THEN preserved \cup managed
                                           ELSE c.data[k] \ Recorded(c)]]

\* What is still the users' once the operator has written c up to date: an
\* entry it records becomes its own under every key, and without a record an
\* entry inside a managed prefix does under the key the annotation names.
leftToUsers(c, mine) ==
    LET claimed(k, e) == \/ e \in updated(c).record
                         \/ k = c.key /\ c.record = None /\ isManagedAddressEntry(e)
    IN  [k \in Keys |-> {e \in mine[k] : ~claimed(k, e)}]

released(c) ==
    [c EXCEPT !.record = None, !.data = [k \in Keys |-> c.data[k] \ Recorded(c)]]

KubevipInit ==
    /\ layout \in Layouts
    /\ status = NoPrefixYet
    /\ \E key \in Keys : cm = [bound |-> TRUE, key |-> key,
                               data |-> [k \in Keys |-> {}], record |-> None]
    /\ pins = [k \in Keys |-> {}]
    /\ woken = TRUE /\ write = None
    /\ rotations = 0 /\ edits = 0 /\ faults = 0
-----------------------------------------------------------------------------
(* Users and the DynamicPrefix. *)

UserWritesConfigMap(c, mine) ==
    /\ edits < MaxEdits /\ edits' = edits + 1
    /\ cm' = c /\ c # cm
    /\ pins' = mine
    /\ woken' = (woken \/ Wakes(c))
    /\ UNCHANGED <<layout, status, write, rotations, faults>>

\* Users bind the ConfigMap or not, name another key, and write and take away
\* entries.  An entry the record names is the operator's whoever writes it.
UserEditsConfigMap ==
    \/ UserWritesConfigMap([cm EXCEPT !.bound = ~@], pins)
    \/ \E key \in Keys \cup {BadKey} : UserWritesConfigMap([cm EXCEPT !.key = key], pins)
    \/ \E k \in Keys, e \in UserEntries :
         UserWritesConfigMap([cm EXCEPT !.data[k] = @ \cup {e}],
                    IF e \in Recorded(cm) THEN pins ELSE [pins EXCEPT ![k] = @ \cup {e}])
    \/ \E k \in Keys : \E e \in cm.data[k] :
         UserWritesConfigMap([cm EXCEPT !.data[k] = @ \ {e}], [pins EXCEPT ![k] = @ \ {e}])

ConfigMapFollows ==
    /\ Rotates(cm.bound) \/ DynamicPrefixDeleted(cm.bound)
    /\ UNCHANGED <<cm, pins, write>>
-----------------------------------------------------------------------------
(* One pass of syncPool with the kube-vip backend. *)

Managed == cm.bound /\ status # None

\* Nothing to do, or nothing yet.
LeaveAlone ==
    /\ woken /\ write = None
    /\ IF Managed THEN status.current = None ELSE cm.record = None
    /\ woken' = FALSE
    /\ UNCHANGED <<layout, status, bounds, cm, pins, write>>

\* The pass cannot tell what to write: it fails, and the queue repeats it.
CannotRender ==
    /\ woken /\ write = None
    /\ Managed /\ status.current # None /\ ~Renderable
    /\ UNCHANGED kubevipVars

\* Decide what to write, which may be what is there.
Prepare ==
    /\ woken /\ write = None
    /\ IF Managed THEN status.current # None /\ Renderable ELSE cm.record # None
    /\ LET c == IF Managed THEN updated(cm) ELSE released(cm)
           theirs == IF Managed THEN leftToUsers(cm, pins) ELSE pins
       IN  write' = IF c = cm THEN None ELSE [version |-> edits, cm |-> c, theirs |-> theirs]
    /\ woken' = FALSE
    /\ UNCHANGED <<layout, status, bounds, cm, pins>>

\* An update of a ConfigMap that changed since it was read is refused.
Update ==
    /\ write # None
    /\ \/ /\ edits = write.version
          /\ cm' = write.cm
          /\ pins' = write.theirs
          /\ woken' = (woken \/ Wakes(write.cm))
          /\ UNCHANGED faults
       \/ /\ FaultUnless(edits # write.version)
          /\ woken' = TRUE
          /\ UNCHANGED <<cm, pins>>
    /\ write' = None
    /\ UNCHANGED <<layout, status, rotations, edits>>

KubevipReconcile == LeaveAlone \/ CannotRender \/ Prepare \/ Update

KubevipNext == UserEditsConfigMap \/ ConfigMapFollows \/ KubevipReconcile

KubevipSpec == KubevipInit /\ [][KubevipNext]_kubevipVars
-----------------------------------------------------------------------------
\* Whatever key the annotation names or named, every entry that is not a user's
\* is in the record, so that it can be taken away wherever it ended up (update
\* and release, kubevip_backend.go:160 and 258).
NothingStranded == \A k \in Keys : cm.data[k] \subseteq pins[k] \cup Recorded(cm)

\* No pass takes away an entry that is still the users', nor records it, so
\* none takes it away later: not at a rotation, a change of the key or the
\* release (update and release, kubevip_backend.go:160 and 258).
EntriesKept ==
    \A k \in Keys : pins[k] \subseteq cm.data[k] /\ pins[k] \cap Recorded(cm) = {}

\* What the keys of a ConfigMap come to hold.
KeysInStep ==
    IF ~Managed THEN cm.record = None /\ cm.data = pins
    ELSE status.current # None /\ Renderable =>
           \A k \in Keys : cm.data[k] = pins[k] \cup
               (IF k = cm.key THEN kubevipEntriesFor(k) ELSE {})

\* Once users and the DynamicPrefix stay as they are, the key the annotation
\* names holds its users' entries and those of the prefix the status resolved,
\* or else the current one, and of the draining ones; every other key its
\* users' alone; and so does every key of a ConfigMap that is not bound any
\* more.  The users' entries are those the operator did not come to record: one
\* it generates itself, and a user has under another key, is not left to them.
\* What cannot be rendered is the exception: no such key, no window in that
\* prefix, or any prefix, also a draining one, whose window is not a CIDR under
\* a CIDR key (update and release, kubevip_backend.go:160 and 258).
KeysFollow == <>[]KeysInStep
=============================================================================
