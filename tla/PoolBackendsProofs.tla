------------------------- MODULE PoolBackendsProofs -------------------------
(***************************************************************************)
(* TLAPS proofs about the pool backends: CalicoPool, whether or not Calico *)
(* refuses overlapping pools, and KubevipConfigMap, for any keys, entries, *)
(* prefixes, ranges, subnets and bounds, and about the arithmetic on       *)
(* addresses they share, for any number of bytes and of bits in a byte.    *)
(***************************************************************************)
EXTENDS CalicoPool, KubevipConfigMap, FiniteSetTheorems, WellFoundedInduction, TLAPS

\* How far a pass is: what it is to keep is served by siblings or still to be
\* created, nothing is left to create once the siblings are listed, and nothing
\* it is to keep is marked for deletion.
InOrder ==
    /\ {"keep", "create", "listed", "delete"} \subseteq DOMAIN pass
    /\ pass.keep \subseteq siblings \cup pass.create
    /\ pass.listed => pass.create = {}
    /\ ~pass.listed => pass.delete = {}
    /\ pass.delete \cap pass.keep = {}

CalicoInv ==
    /\ edits \in Nat /\ rotations \in Nat
    /\ pass # None => InOrder

LEMMA InitInOrder == Init => CalicoInv
  BY DEF Init, CalicoInv

\* Users and the DynamicPrefix do not touch a pass or a sibling.
LEMMA WorldInOrder ==
    ASSUME CalicoInv, UserEdits \/ FollowsPrefix
    PROVE  CalicoInv' /\ (edits' # edits \/ rotations' # rotations)
  <1>1. CASE UserEdits
    BY <1>1 DEF UserEdits, UserWrites, CalicoInv, InOrder
  <1>2. CASE FollowsPrefix
    <2>1. \E s : StatusChanges(s, pool # None /\ pool.bound)
      BY <1>2 DEF FollowsPrefix, Rotates, DynamicPrefixDeleted
    <2> QED BY <1>2, <2>1 DEF FollowsPrefix, StatusChanges, CalicoInv, InOrder
  <1> QED BY <1>1, <1>2

LEMMA BeginInOrder ==
    ASSUME CalicoInv, Begin
    PROVE  CalicoInv' /\ pass = None
  <1>1. UNCHANGED <<edits, rotations, siblings>> /\ pass = None
    BY DEF Begin, bounds
  <1>2. \/ pass' = None
        \/ \E cidr, keep : StartPass(cidr, keep)
    BY DEF Begin, Return, Fail
  <1>3. CASE pass' = None
    BY <1>1, <1>3 DEF CalicoInv
  <1>4. ASSUME NEW cidr, NEW keep, StartPass(cidr, keep) PROVE InOrder'
    BY <1>1, <1>4 DEF StartPass, InOrder
  <1> QED BY <1>1, <1>2, <1>3, <1>4 DEF CalicoInv

\* A pass between its reads and its end withdraws nothing it is to keep.
LEMMA CallsKeepDraining ==
    ASSUME CalicoInv, CreateSibling \/ ListSiblings \/ DeleteSibling \/ UpdatePool
    PROVE  CalicoInv' /\ KeepsDraining
  <1> USE DEF CalicoInv, InOrder, KeepsDraining, Served
  <1>1. CASE CreateSibling
    <2> PICK c \in pass.create :
           \/ /\ pass' = [pass EXCEPT !.create = @ \ {c}]
              /\ siblings' = siblings \cup {c}
           \/ pass' = None /\ siblings' = siblings
      BY <1>1 DEF CreateSibling, Fail
    <2>1. pass # None /\ ~pass.listed /\ UNCHANGED <<pool, edits, rotations>>
      BY <1>1 DEF CreateSibling
    <2> QED BY <2>1
  <1>2. CASE ListSiblings
    BY <1>2 DEF ListSiblings, Fail
  <1>3. CASE DeleteSibling
    <2> PICK c \in pass.delete :
           \/ /\ pass' = [pass EXCEPT !.delete = @ \ {c}]
              /\ siblings' = siblings \ {c}
           \/ pass' = None /\ siblings' = siblings
      BY <1>3 DEF DeleteSibling, Fail
    <2>1. pass # None /\ UNCHANGED <<pool, edits, rotations>>
      BY <1>3 DEF DeleteSibling
    <2> QED BY <2>1
  <1>4. CASE UpdatePool
    <2>1. /\ pass # None /\ pass.listed
          /\ pass' = None /\ UNCHANGED <<siblings, edits, rotations>>
      BY <1>4 DEF UpdatePool, Fail
    <2> QED BY <2>1
  <1> QED BY <1>1, <1>2, <1>3, <1>4

\* The move of spec.cidr and the deletion of siblings never withdraw a draining
\* prefix (update, poolsync_backends.go:303), because a pass gets to them only
\* once every sibling it is to keep exists.
THEOREM DrainingIsKept == Spec => DrainingKept
  <1>1. CalicoInv /\ [Next]_vars => CalicoInv' /\ [KeepsDraining]_vars
    <2> SUFFICES ASSUME CalicoInv, [Next]_vars
                 PROVE  CalicoInv' /\ [KeepsDraining]_vars
      OBVIOUS
    <2>1. CASE UserEdits \/ FollowsPrefix
      BY <2>1, WorldInOrder DEF KeepsDraining
    <2>2. CASE Begin
      BY <2>2, BeginInOrder DEF KeepsDraining
    <2>3. CASE CreateSibling \/ ListSiblings \/ DeleteSibling \/ UpdatePool
      BY <2>3, CallsKeepDraining
    <2>4. CASE UNCHANGED vars
      BY <2>4 DEF vars, bounds, CalicoInv, InOrder
    <2> QED BY <2>1, <2>2, <2>3, <2>4 DEF Next, Reconcile
  <1> QED BY <1>1, InitInOrder, PTL DEF Spec, DrainingKept

-----------------------------------------------------------------------------
\* What the operator may write under a key.
Configured == {configWindow[l][p] : l \in Layouts, p \in Delegated}
                \cup {configCIDR[l][p] : l \in Layouts, p \in Delegated}

\* An absent record is told from every record.
NoneIsNoRecord == None \notin SUBSET Configured

\* What the proof needs of a ConfigMap's shape.
Held == Configured \cup UserEntries
Shapes == [bound : BOOLEAN, key : Keys \cup {BadKey},
           data : [Keys -> SUBSET Held], record : (SUBSET Configured) \cup {None}]

\* Every entry under a key is in mine or in the record.
Accounted(c, mine) == \A k \in Keys : c.data[k] \subseteq mine[k] \cup Recorded(c)

\* Every entry in mine is under its key, and none is in the record.
Kept(c, mine) == \A k \in Keys : mine[k] \subseteq c.data[k] /\ mine[k] \cap Recorded(c) = {}

\* NothingStranded and EntriesKept are not inductive: a write that is on its way
\* was computed from the ConfigMap of its read, so it must itself be in order as
\* long as the ConfigMap has not moved on.
KubevipInv ==
    /\ layout \in Layouts
    /\ status \in Statuses \cup {None}
    /\ edits \in Nat
    /\ cm \in Shapes
    /\ pins \in [Keys -> SUBSET Held]
    /\ Accounted(cm, pins) /\ Kept(cm, pins)
    /\ write # None =>
         /\ write.version \in Nat /\ write.version <= edits
         /\ write.cm \in Shapes /\ write.theirs \in [Keys -> SUBSET Held]
         /\ edits = write.version => /\ Accounted(write.cm, write.theirs)
                                     /\ Kept(write.cm, write.theirs)
-----------------------------------------------------------------------------
LEMMA ManagedAreDelegated ==
    ASSUME status \in Statuses \cup {None}
    PROVE  collectManagedPrefixes \subseteq Delegated /\ configs \subseteq Delegated
  <1>1. CASE status = None
    BY <1>1 DEF collectManagedPrefixes, configs
  <1>2. CASE status \in Statuses
    <2>1. elements(status.history) \subseteq Delegated
      BY <1>2 DEF elements, Statuses
    <2>2. configured(status) \in Delegated \cup {None}
      BY <1>2 DEF configured, Statuses
    <2> QED BY <1>2, <2>1, <2>2 DEF collectManagedPrefixes, configs, Statuses
  <1> QED BY <1>1, <1>2

\* kubevipEntriesFor gives windows and CIDRs of the prefixes the pool follows.
LEMMA EntriesAreConfigured ==
    ASSUME layout \in Layouts, status \in Statuses \cup {None}, NEW key
    PROVE  kubevipEntriesFor(key) \subseteq Configured
  <1>1. ASSUME NEW p \in configs PROVE kubevipEntryFor(key, p) \in Configured
    <2>1. p \in Delegated
      BY ManagedAreDelegated, <1>1
    <2> QED BY <2>1 DEF kubevipEntryFor, Configured
  <1> QED BY <1>1 DEF kubevipEntriesFor

\* What update writes: the record has every entry of the key it fills that was
\* not there before, the other keys lose no entry but the old record's, and what
\* is left to the users stays where it is.
LEMMA UpdatedAccounted ==
    ASSUME NoneIsNoRecord,
           layout \in Layouts, status \in Statuses \cup {None},
           NEW c \in Shapes, c.key \in Keys,
           NEW mine \in [Keys -> SUBSET Held], Accounted(c, mine), Kept(c, mine)
    PROVE  /\ updated(c) \in Shapes
           /\ leftToUsers(c, mine) \in [Keys -> SUBSET Held]
           /\ Accounted(updated(c), leftToUsers(c, mine))
           /\ Kept(updated(c), leftToUsers(c, mine))
  <1> DEFINE preserved == {e \in c.data[c.key] : ~owned(c, e)}
             managed == kubevipEntriesFor(c.key) \ preserved
             data == [k \in Keys |-> IF k = c.key THEN preserved \cup managed
                                     ELSE c.data[k] \ Recorded(c)]
             unrecorded(k) == {e \in mine[k] : ~(k = c.key /\ c.record = None
                                                  /\ isManagedAddressEntry(e))}
             left == [k \in Keys |-> unrecorded(k) \ managed]
  <1>1. managed \subseteq Configured
    BY EntriesAreConfigured
  <1>2. preserved \subseteq Held /\ managed \cap preserved = {}
    BY DEF Shapes
  <1>3. preserved \subseteq unrecorded(c.key) /\ unrecorded(c.key) \subseteq preserved
    BY DEF Shapes, Accounted, Kept, Recorded, owned
  <1>4. \A k \in Keys : unrecorded(k) \subseteq mine[k]
    OBVIOUS
  <1>5. \A k \in Keys \ {c.key} : /\ unrecorded(k) = mine[k]
                                 /\ c.data[k] \ Recorded(c) = mine[k]
    BY DEF Accounted, Kept
  <1>6. updated(c) = [c EXCEPT !.record = managed, !.data = data]
    BY DEF updated
  <1>7. updated(c).record = managed /\ updated(c).data = data
    BY <1>6 DEF Shapes
  <1>8. leftToUsers(c, mine) = left
    BY <1>7 DEF leftToUsers
  <1> HIDE DEF preserved, managed, unrecorded
  <1>9. data \in [Keys -> SUBSET Held] /\ left \in [Keys -> SUBSET Held]
    BY <1>1, <1>2, <1>4 DEF Shapes, Held
  <1>10. \A k \in Keys : data[k] \subseteq left[k] \cup managed
    BY <1>2, <1>3, <1>5
  <1>11. \A k \in Keys : left[k] \subseteq data[k] /\ left[k] \cap managed = {}
    BY <1>3, <1>5
  <1> HIDE DEF data, left
  <1>12. updated(c) \in Shapes
    BY <1>1, <1>6, <1>9 DEF Shapes
  <1>13. Recorded(updated(c)) = managed
    BY <1>1, <1>7 DEF NoneIsNoRecord, Recorded
  <1> QED BY <1>7, <1>8, <1>9, <1>10, <1>11, <1>12, <1>13 DEF Accounted, Kept

\* What release writes: no key keeps an entry of the record, and every entry that
\* is the users' stays.
LEMMA ReleasedAccounted ==
    ASSUME NEW c \in Shapes, NEW mine \in [Keys -> SUBSET Held], Accounted(c, mine), Kept(c, mine)
    PROVE  released(c) \in Shapes /\ Accounted(released(c), mine) /\ Kept(released(c), mine)
  <1> DEFINE data == [k \in Keys |-> c.data[k] \ Recorded(c)]
  <1>1. data \in [Keys -> SUBSET Held] /\ \A k \in Keys : data[k] = mine[k]
    BY DEF Shapes, Accounted, Kept
  <1>2. released(c) = [c EXCEPT !.record = None, !.data = data]
    BY DEF released
  <1> HIDE DEF data
  <1>3. /\ released(c) \in Shapes /\ released(c).data = data
        /\ Recorded(released(c)) = {}
    BY <1>1, <1>2 DEF Shapes, Recorded
  <1> QED BY <1>1, <1>3 DEF Accounted, Kept
-----------------------------------------------------------------------------
LEMMA InitAccounted == KubevipInit => KubevipInv
  <1> SUFFICES ASSUME KubevipInit PROVE KubevipInv
    OBVIOUS
  <1>1. status \in Statuses
    BY DEF KubevipInit, NoPrefixYet, Statuses
  <1>2. cm \in Shapes /\ \A k \in Keys : cm.data[k] = {}
    BY DEF KubevipInit, Shapes
  <1> QED BY <1>1, <1>2 DEF KubevipInit, KubevipInv, Accounted, Kept, Recorded

\* Users write what is theirs, and a write on its way is refused after them.
LEMMA UsersAccounted ==
    ASSUME KubevipInv, UserEditsConfigMap
    PROVE  KubevipInv'
  <1>1. ASSUME NEW c, NEW mine, UserWritesConfigMap(c, mine), c \in Shapes,
               mine \in [Keys -> SUBSET Held], Accounted(c, mine), Kept(c, mine)
        PROVE  KubevipInv'
    BY <1>1 DEF UserWritesConfigMap, KubevipInv, Accounted, Kept, Recorded
  <1>2. CASE UserWritesConfigMap([cm EXCEPT !.bound = ~@], pins)
    <2> DEFINE c == [cm EXCEPT !.bound = ~@]
    <2>1. c \in Shapes /\ c.data = cm.data /\ c.record = cm.record
      BY DEF KubevipInv, Shapes
    <2>2. Accounted(c, pins) /\ Kept(c, pins)
      BY <2>1 DEF KubevipInv, Accounted, Kept, Recorded
    <2> QED BY <1>1, <1>2, <2>1, <2>2 DEF KubevipInv
  <1>3. ASSUME NEW key \in Keys \cup {BadKey}, UserWritesConfigMap([cm EXCEPT !.key = key], pins)
        PROVE  KubevipInv'
    <2> DEFINE c == [cm EXCEPT !.key = key]
    <2>1. c \in Shapes /\ c.data = cm.data /\ c.record = cm.record
      BY DEF KubevipInv, Shapes
    <2>2. Accounted(c, pins) /\ Kept(c, pins)
      BY <2>1 DEF KubevipInv, Accounted, Kept, Recorded
    <2> QED BY <1>1, <1>3, <2>1, <2>2 DEF KubevipInv
  <1>4. ASSUME NEW k \in Keys, NEW e \in UserEntries,
               UserWritesConfigMap([cm EXCEPT !.data[k] = @ \cup {e}],
                          IF e \in Recorded(cm) THEN pins ELSE [pins EXCEPT ![k] = @ \cup {e}])
        PROVE  KubevipInv'
    <2> DEFINE data == [cm.data EXCEPT ![k] = @ \cup {e}]
               c == [cm EXCEPT !.data[k] = @ \cup {e}]
               mine == IF e \in Recorded(cm) THEN pins ELSE [pins EXCEPT ![k] = @ \cup {e}]
    <2>1. data \in [Keys -> SUBSET Held]
      BY DEF KubevipInv, Shapes, Held
    <2>2. c \in Shapes /\ c.data = data /\ c.record = cm.record
      BY <2>1 DEF KubevipInv, Shapes
    <2>3. mine \in [Keys -> SUBSET Held]
      BY DEF KubevipInv, Held
    <2>4. \A i \in Keys : data[i] \subseteq mine[i] \cup Recorded(cm)
      BY DEF KubevipInv, Accounted, Shapes
    <2>6. \A i \in Keys : mine[i] \subseteq data[i] /\ mine[i] \cap Recorded(cm) = {}
      BY DEF KubevipInv, Kept, Shapes
    <2>5. Accounted(c, mine) /\ Kept(c, mine)
      BY <2>2, <2>4, <2>6 DEF Accounted, Kept, Recorded
    <2> QED BY <1>1, <1>4, <2>2, <2>3, <2>5
  <1>5. ASSUME NEW k \in Keys, NEW e \in cm.data[k],
               UserWritesConfigMap([cm EXCEPT !.data[k] = @ \ {e}], [pins EXCEPT ![k] = @ \ {e}])
        PROVE  KubevipInv'
    <2> DEFINE data == [cm.data EXCEPT ![k] = @ \ {e}]
               c == [cm EXCEPT !.data[k] = @ \ {e}]
               mine == [pins EXCEPT ![k] = @ \ {e}]
    <2>1. data \in [Keys -> SUBSET Held] /\ mine \in [Keys -> SUBSET Held]
      BY DEF KubevipInv, Shapes
    <2>2. c \in Shapes /\ c.data = data /\ c.record = cm.record
      BY <2>1 DEF KubevipInv, Shapes
    <2>3. \A i \in Keys : data[i] \subseteq mine[i] \cup Recorded(cm)
      BY DEF KubevipInv, Accounted, Shapes
    <2>5. \A i \in Keys : mine[i] \subseteq data[i] /\ mine[i] \cap Recorded(cm) = {}
      BY DEF KubevipInv, Kept, Shapes
    <2>4. Accounted(c, mine) /\ Kept(c, mine)
      BY <2>2, <2>3, <2>5 DEF Accounted, Kept, Recorded
    <2> QED BY <1>1, <1>5, <2>1, <2>2, <2>4
  <1> QED BY <1>2, <1>3, <1>4, <1>5 DEF UserEditsConfigMap

LEMMA PrefixAccounted ==
    ASSUME KubevipInv, ConfigMapFollows
    PROVE  KubevipInv'
  <1>1. \E s : StatusChanges(s, cm.bound)
    BY DEF ConfigMapFollows, Rotates, DynamicPrefixDeleted
  <1> QED BY <1>1 DEF ConfigMapFollows, StatusChanges, KubevipInv, Accounted, Kept, Recorded

LEMMA PrepareAccounted ==
    ASSUME NoneIsNoRecord, KubevipInv, Prepare
    PROVE  KubevipInv'
  <1>1. CASE write' = None
    BY <1>1 DEF Prepare, bounds, KubevipInv, Accounted, Kept, Recorded
  <1>2. CASE write' # None
    <2> DEFINE c == IF Managed THEN updated(cm) ELSE released(cm)
               theirs == IF Managed THEN leftToUsers(cm, pins) ELSE pins
    <2>1. /\ c \in Shapes /\ theirs \in [Keys -> SUBSET Held]
          /\ Accounted(c, theirs) /\ Kept(c, theirs)
      BY UpdatedAccounted, ReleasedAccounted DEF Prepare, Renderable, KubevipInv
    <2>2. /\ write' = [version |-> edits, cm |-> c, theirs |-> theirs]
          /\ UNCHANGED <<layout, status, edits, cm, pins>>
      BY <1>2 DEF Prepare, bounds
    <2> HIDE DEF c, theirs
    <2> QED BY <2>1, <2>2 DEF KubevipInv, Accounted, Kept, Recorded
  <1> QED BY <1>1, <1>2

\* What is written is what was prepared from the ConfigMap as it still is.
LEMMA UpdateAccounted ==
    ASSUME KubevipInv, Update
    PROVE  KubevipInv'
  <1>1. write # None /\ write' = None /\ UNCHANGED <<layout, status, edits>>
    BY DEF Update
  <1>2. CASE UNCHANGED <<cm, pins>>
    BY <1>1, <1>2 DEF KubevipInv, Accounted, Kept, Recorded
  <1>3. CASE edits = write.version /\ cm' = write.cm /\ pins' = write.theirs
    BY <1>1, <1>3 DEF KubevipInv, Accounted, Kept, Recorded
  <1> QED BY <1>2, <1>3 DEF Update

\* Every step keeps the invariant.
LEMMA KubevipInduction ==
    ASSUME NoneIsNoRecord, KubevipInv, [KubevipNext]_kubevipVars
    PROVE  KubevipInv'
  <1>1. CASE UserEditsConfigMap
    BY <1>1, UsersAccounted
  <1>2. CASE ConfigMapFollows
    BY <1>2, PrefixAccounted
  <1>3. CASE Prepare
    BY <1>3, PrepareAccounted
  <1>4. CASE Update
    BY <1>4, UpdateAccounted
  <1>5. CASE LeaveAlone \/ CannotRender \/ UNCHANGED kubevipVars
    BY <1>5 DEF LeaveAlone, CannotRender, kubevipVars, bounds, KubevipInv, Accounted, Kept, Recorded
  <1> QED BY <1>1, <1>2, <1>3, <1>4, <1>5 DEF KubevipNext, KubevipReconcile

\* Every entry under every key is a user's or in the record, through changes of
\* the key, the binding, the prefix and the ConfigMap behind a pass's back
\* (update and release, kubevip_backend.go:160 and 258).
THEOREM NoEntryIsStranded ==
    ASSUME NoneIsNoRecord
    PROVE  KubevipSpec => []NothingStranded
  <1>1. KubevipInv /\ [KubevipNext]_kubevipVars => KubevipInv'
    BY KubevipInduction
  <1>2. KubevipInv => NothingStranded
    BY DEF KubevipInv, Accounted, NothingStranded
  <1> QED BY <1>1, <1>2, InitAccounted, PTL DEF KubevipSpec

\* No pass takes away or records an entry that is still the users', under any
\* key, whatever happens between its read and its write (update and release,
\* kubevip_backend.go:160 and 258).
THEOREM UsersEntriesAreKept ==
    ASSUME NoneIsNoRecord
    PROVE  KubevipSpec => []EntriesKept
  <1>1. KubevipInv /\ [KubevipNext]_kubevipVars => KubevipInv'
    BY KubevipInduction
  <1>2. KubevipInv => EntriesKept
    BY DEF KubevipInv, Kept, EntriesKept
  <1> QED BY <1>1, <1>2, InitAccounted, PTL DEF KubevipSpec

-----------------------------------------------------------------------------
(***************************************************************************)
(* The arithmetic on addresses, for every width.  A number is what the     *)
(* bytes up to the last spell, so the loops over bytes are compared with   *)
(* the numbers Upto(a, i) that an address is without the bytes after i.    *)
(***************************************************************************)
(* Division. *)
LEMMA DivMod ==
    ASSUME NEW a \in Int, NEW d \in Nat, d > 0
    PROVE  /\ a \div d \in Int /\ a % d \in 0..(d - 1)
           /\ a = d * (a \div d) + (a % d)
  OBVIOUS

\* Quotient and remainder are the only ones.
LEMMA Unique ==
    ASSUME NEW d \in Nat, d > 0, NEW q \in Int, NEW r \in 0..(d - 1)
    PROVE  (d * q + r) \div d = q /\ (d * q + r) % d = r
<1> DEFINE a == d * q + r
           k == a \div d - q
<1>0. d * q \in Int /\ a \in Int /\ r \in Int
  OBVIOUS
<1>1. a \div d \in Int /\ a % d \in 0..(d - 1) /\ a = d * (a \div d) + (a % d)
  BY <1>0, DivMod
<1> HIDE DEF a
<1>2. k \in Int /\ a \div d = q + k
  BY <1>1
<1> HIDE DEF k
<1>3. d * k = r - (a % d)
  BY <1>0, <1>1, <1>2 DEF a
<1>4. k = 0
  <2>1. k >= 1 => d * k >= d
    BY <1>2
  <2>2. k <= -1 => d * k <= -d
    BY <1>2
  <2>3. -d < d * k /\ d * k < d
    BY <1>1, <1>3
  <2> QED
    BY <1>2, <2>1, <2>2, <2>3
<1> QED
  BY <1>1, <1>2, <1>3, <1>4 DEF a

\* Division by a product, one factor after the other.
LEMMA DivDiv ==
    ASSUME NEW a \in Int, NEW x \in Nat, NEW y \in Nat, x > 0, y > 0
    PROVE  /\ x * y \in Nat /\ x * y > 0
           /\ a \div (x * y) = (a \div x) \div y
           /\ a % (x * y) = x * ((a \div x) % y) + (a % x)
<1> DEFINE q == a \div x  r == a % x  u == q \div y  v == q % y
<1>1. q \in Int /\ r \in 0..(x - 1) /\ a = x * q + r
  BY DivMod
<1> HIDE DEF q, r
<1>2. u \in Int /\ v \in 0..(y - 1) /\ q = y * u + v
  BY <1>1, DivMod
<1> HIDE DEF u, v
<1>3. x * y \in Nat /\ x * y > 0
  OBVIOUS
<1>4. x * v + r \in 0..(x * y - 1)
  <2>1. x * v >= 0 /\ x * v <= x * (y - 1) /\ x * v \in Int
    BY <1>2
  <2>2. x * (y - 1) = x * y - x
    OBVIOUS
  <2> QED
    BY <1>1, <1>3, <2>1, <2>2
<1>5. a = (x * y) * u + (x * v + r)
  BY <1>1, <1>2
<1>6. a \div (x * y) = u /\ a % (x * y) = x * v + r
  BY <1>2, <1>3, <1>4, <1>5, Unique
<1> QED
  BY <1>3, <1>6 DEF u, v, q, r

(* Induction, as the argument from the least number that goes wrong. *)
LEMMA LeastTurn ==
    ASSUME NEW T \in SUBSET Nat, T # {}
    PROVE  \E n \in T : \A k \in T : n <= k
<1> DEFINE Less == OpToRel(<, Nat)
<1>1. IsWellFoundedOn(Less, Nat)
  BY NatLessThanWellFounded
<1>2. \A k, n \in Nat : k < n => <<k, n>> \in Less
  BY DEF OpToRel
<1> HIDE DEF Less
<1>3. PICK n \in T : \A k \in T : <<k, n>> \notin Less
  BY <1>1, WFMin
<1>4. \A k \in T : ~(k < n)
  BY <1>2, <1>3
<1> QED
  BY <1>4

\* Induction over the turns of a loop that counts up, or down.
LEMMA Upward ==
    ASSUME NEW m \in Nat, NEW T, 0 \in T, \A n \in 1..m : n - 1 \in T => n \in T
    PROVE  \A n \in 0..m : n \in T
<1> DEFINE U == {n \in Nat : n <= m /\ n \notin T}
<1> SUFFICES ASSUME U # {} PROVE FALSE
  OBVIOUS
<1>1. PICK n \in U : \A k \in U : n <= k
  BY LeastTurn
<1>2. n \in 1..m /\ n - 1 \in Nat /\ n - 1 <= m
  BY <1>1
<1> QED
  BY <1>1, <1>2

LEMMA Downward ==
    ASSUME NEW m \in Nat, NEW T, m + 1 \in T, \A n \in 1..m : n + 1 \in T => n \in T
    PROVE  \A n \in 1..(m + 1) : n \in T
<1> DEFINE U == {k \in 0..m : m + 1 - k \in T}
<1>1. 0 \in U
  OBVIOUS
<1>2. ASSUME NEW k \in 1..m, k - 1 \in U PROVE k \in U
  BY <1>2
<1> HIDE DEF U
<1>3. \A k \in 0..m : k \in U
  BY <1>1, <1>2, Upward
<1>4. ASSUME NEW n \in 1..(m + 1) PROVE n \in T
  <2>1. m + 1 - n \in 0..m /\ m + 1 - (m + 1 - n) = n
    OBVIOUS
  <2> QED
    BY <1>3, <2>1 DEF U
<1> QED
  BY <1>4

(* Powers of two.  The recursive function exists, so it has the values of  *)
(* its definition.                                                         *)
LEMMA WidthIsNat ==
    /\ ByteBits \in Nat /\ ByteBits > 0 /\ Bytes \in Nat /\ Bytes > 0
    /\ Width \in Nat
  BY AddressMathConstants DEF Width

\* f has the first m powers.
Doubles(f, m) == f = [n \in 0..m |-> IF n = 0 THEN 1 ELSE 2 * f[n - 1]]

LEMMA DoublesExists ==
    ASSUME NEW m \in Nat
    PROVE  \E f : Doubles(f, m)
<1> DEFINE T == {k \in Nat : \E f : Doubles(f, k)}
<1>1. 0 \in T
  <2> DEFINE f == [n \in 0..0 |-> 1]
  <2>1. \A n \in 0..0 : n = 0
    OBVIOUS
  <2>2. f = [n \in 0..0 |-> IF n = 0 THEN 1 ELSE 2 * f[n - 1]]
    BY <2>1
  <2> QED
    BY <2>2 DEF Doubles
<1>2. ASSUME NEW k \in 1..m, k - 1 \in T PROVE k \in T
  <2>1. PICK g : Doubles(g, k - 1)
    BY <1>2
  <2> DEFINE f == [n \in 0..k |-> IF n = k THEN 2 * g[k - 1] ELSE g[n]]
  <2>2. \A n \in 0..(k - 1) : g[n] = IF n = 0 THEN 1 ELSE 2 * g[n - 1]
    BY <2>1 DEF Doubles
  <2>3. \A n \in 0..(k - 1) : f[n] = g[n]
    OBVIOUS
  <2>4. f[k] = 2 * g[k - 1] /\ f = [n \in 0..k |-> f[n]]
    OBVIOUS
  <2> HIDE DEF f
  <2>5. ASSUME NEW n \in 0..k
        PROVE  f[n] = IF n = 0 THEN 1 ELSE 2 * f[n - 1]
    <3>1. CASE n = k
      <4>1. n # 0 /\ k - 1 \in 0..(k - 1)
        BY <3>1
      <4>2. f[n - 1] = g[k - 1]
        BY <2>3, <3>1, <4>1
      <4> QED
        BY <2>4, <3>1, <4>1, <4>2
    <3>2. CASE n # k
      <4>1. n \in 0..(k - 1) /\ (n # 0 => n - 1 \in 0..(k - 1))
        BY <3>2
      <4> QED
        BY <2>2, <2>3, <4>1
    <3> QED
      BY <3>1, <3>2
  <2>6. Doubles(f, k)
    BY <2>4, <2>5 DEF Doubles
  <2> QED
    BY <2>6
<1> HIDE DEF T
<1>3. m \in T
  BY <1>1, <1>2, Upward
<1> QED
  BY <1>3 DEF T

\* pow2 has the values its definition promises.
LEMMA Powers ==
    /\ pow2[0] = 1
    /\ \A n \in 1..Width : pow2[n] = 2 * pow2[n - 1]
    /\ \A n \in 0..Width : pow2[n] \in Nat /\ pow2[n] > 0
<1>0. Width \in Nat
  BY WidthIsNat
<1> DEFINE f == CHOOSE f : Doubles(f, Width)
<1>1. Doubles(f, Width)
  BY <1>0, DoublesExists
<1>2. pow2 = [n \in 0..Width |-> f[n]]
  BY DEF pow2, Doubles
<1> HIDE DEF f
<1>d. \A n \in 0..Width : f[n] = IF n = 0 THEN 1 ELSE 2 * f[n - 1]
  BY <1>1 DEF Doubles
<1>3. pow2[0] = 1 /\ \A n \in 1..Width : pow2[n] = 2 * pow2[n - 1]
  BY <1>0, <1>2, <1>d
<1> DEFINE T == {n \in 0..Width : pow2[n] \in Nat /\ pow2[n] > 0}
<1>4. 0 \in T
  BY <1>0, <1>3
<1>5. \A n \in 1..Width : n - 1 \in T => n \in T
  BY <1>0, <1>3
<1> HIDE DEF T
<1>6. \A n \in 0..Width : n \in T
  BY <1>0, <1>4, <1>5, Upward
<1> QED
  BY <1>3, <1>6 DEF T

\* Shifts add up.
LEMMA PowersAdd ==
    ASSUME NEW m \in Nat, NEW n \in Nat, m + n <= Width
    PROVE  pow2[m + n] = pow2[m] * pow2[n]
<1>0. Width \in Nat /\ m \in 0..Width /\ n \in 0..Width
  BY WidthIsNat
<1>p. pow2[m] \in Nat
  BY <1>0, Powers
<1> DEFINE T == {k \in 0..n : pow2[m + k] = pow2[m] * pow2[k]}
<1>1. 0 \in T
  BY <1>0, <1>p, Powers
<1>2. ASSUME NEW k \in 1..n, k - 1 \in T PROVE k \in T
  <2>1. m + k \in 1..Width /\ k \in 1..Width /\ k - 1 \in 0..Width /\ m + k - 1 = m + (k - 1)
    BY <1>0
  <2>2. pow2[m + k] = 2 * pow2[m + (k - 1)] /\ pow2[k] = 2 * pow2[k - 1] /\ pow2[k - 1] \in Nat
    BY <2>1, Powers
  <2>3. pow2[m + (k - 1)] = pow2[m] * pow2[k - 1]
    BY <1>2
  <2> HIDE DEF T
  <2>4. pow2[m + k] = pow2[m] * pow2[k]
    BY <1>p, <2>2, <2>3
  <2> QED
    BY <2>4 DEF T
<1> HIDE DEF T
<1>3. n \in T
  BY <1>1, <1>2, Upward
<1> QED
  BY <1>3 DEF T

-----------------------------------------------------------------------------
\* What byte i counts for, and an address without the bytes after it.
Weight(i) == pow2[ByteBits * (Bytes - i)]
Upto(a, i) == a \div Weight(i)

LEMMA BaseIsNat == Base \in Nat /\ Base > 0
<1>1. ByteBits \in 0..Width
  <2>1. ByteBits * Bytes >= ByteBits
    BY WidthIsNat
  <2> QED
    BY <2>1, WidthIsNat DEF Width
<1> QED
  BY <1>1, Powers DEF Base

LEMMA Weights ==
    /\ \A i \in 0..Bytes : Weight(i) \in Nat /\ Weight(i) > 0
    /\ Weight(Bytes) = 1 /\ Weight(0) = pow2[Width]
    /\ \A i \in 1..Bytes : Weight(i - 1) = Weight(i) * Base
<1>0. ByteBits \in Nat /\ ByteBits > 0 /\ Bytes \in Nat /\ Bytes > 0 /\ Width \in Nat
  BY WidthIsNat
<1>1. ASSUME NEW i \in 0..Bytes
      PROVE  ByteBits * (Bytes - i) \in Nat /\ ByteBits * (Bytes - i) <= Width
  <2>1. ByteBits * (Bytes - i) = ByteBits * Bytes - ByteBits * i /\ ByteBits * i \in Nat
    BY <1>0
  <2>2. ByteBits * (Bytes - i) \in Nat
    BY <1>0
  <2> QED
    BY <1>0, <2>1, <2>2 DEF Width
<1>2. \A i \in 0..Bytes : Weight(i) \in Nat /\ Weight(i) > 0
  BY <1>0, <1>1, Powers DEF Weight
<1>3. Weight(Bytes) = 1 /\ Weight(0) = pow2[Width]
  <2>1. ByteBits * (Bytes - Bytes) = 0 /\ ByteBits * (Bytes - 0) = Width
    BY <1>0 DEF Width
  <2> QED
    BY <2>1, Powers DEF Weight
<1>4. ASSUME NEW i \in 1..Bytes PROVE Weight(i - 1) = Weight(i) * Base
  <2>1. i - 1 \in 0..Bytes /\ i \in 0..Bytes
    BY <1>0
  <2>2. ByteBits * (Bytes - (i - 1)) = ByteBits * (Bytes - i) + ByteBits
    BY <1>0
  <2> QED
    BY <1>0, <1>1, <2>1, <2>2, PowersAdd DEF Weight, Base
<1> QED
  BY <1>2, <1>3, <1>4

\* The bytes of a number.
LEMMA Digits ==
    ASSUME NEW a \in Int, NEW i \in 1..Bytes
    PROVE  /\ Upto(a, i) \in Int /\ Upto(a, i - 1) \in Int
           /\ As16(a)[i] \in Int /\ As16(a)[i] >= 0 /\ As16(a)[i] < Base
           /\ Upto(a, i) = Base * Upto(a, i - 1) + As16(a)[i]
<1>0. Bytes \in Nat /\ Base \in Nat /\ Base > 0 /\ i \in 0..Bytes
  BY WidthIsNat, BaseIsNat
<1>1. Weight(i) \in Nat /\ Weight(i) > 0 /\ Weight(i - 1) = Weight(i) * Base
  BY <1>0, Weights
<1>2. As16(a)[i] = Upto(a, i) % Base
  BY DEF As16, Upto, Weight
<1>3. Upto(a, i) \in Int
  BY <1>1, DivMod DEF Upto
<1>4. Upto(a, i - 1) = Upto(a, i) \div Base
  BY <1>0, <1>1, DivDiv DEF Upto
<1>5. As16(a)[i] \in 0..(Base - 1) /\ Upto(a, i - 1) \in Int
      /\ Upto(a, i) = Base * Upto(a, i - 1) + As16(a)[i]
  BY <1>0, <1>2, <1>3, <1>4, DivMod
<1> QED
  BY <1>0, <1>3, <1>5

\* All the bytes are the address, and none of them is zero exactly if it fits.
LEMMA UptoEnds ==
    ASSUME NEW a \in Int
    PROVE  /\ Upto(a, Bytes) = a /\ Upto(a, 0) \in Int
           /\ a \in Addresses => Upto(a, 0) = 0
           /\ Upto(a, 0) = 0 => a \in Addresses
           /\ (-a) \in Addresses /\ a # 0 => Upto(a, 0) = -1
<1>0. pow2[Width] \in Nat /\ pow2[Width] > 0 /\ Weight(Bytes) = 1 /\ Weight(0) = pow2[Width]
  BY WidthIsNat, Powers, Weights
<1>1. a \div 1 = a
  BY DivMod
<1> DEFINE N == pow2[Width]
           q == a \div N
           r == a % N
<1>2. q \in Int /\ r \in 0..(N - 1) /\ a = N * q + r
  BY <1>0, DivMod
<1> HIDE DEF q, r, N
<1>3. N \in Nat /\ N > 0 /\ Addresses = 0..(N - 1)
  BY <1>0 DEF N, Addresses
<1>4. a \in Addresses => q = 0
  <2> SUFFICES ASSUME a \in 0..(N - 1) PROVE q = 0
    BY <1>3
  <2>1. a = N * 0 + a
    BY <1>3
  <2> QED
    BY <1>3, <2>1, Unique DEF q
<1>5. q = 0 => a \in Addresses
  BY <1>2, <1>3
<1>6. (-a) \in Addresses /\ a # 0 => q = -1
  <2> SUFFICES ASSUME -a \in 1..(N - 1) PROVE q = -1
    BY <1>3
  <2>1. a = N * (-1) + (N + a) /\ N + a \in 0..(N - 1)
    BY <1>3
  <2> QED
    BY <1>3, <2>1, Unique DEF q
<1> QED
  BY <1>0, <1>1, <1>2, <1>4, <1>5, <1>6 DEF Upto, q, N

\* AddrFrom16 is what its bytes spell.
LEMMA Spelled ==
    ASSUME NEW b, NEW a \in Int,
           Upto(a, 0) = 0, \A i \in 1..Bytes : b[i] = As16(a)[i]
    PROVE  AddrFrom16(b) = a
<1> DEFINE Value(f) == f = [i \in 0..Bytes |-> IF i = 0 THEN 0 ELSE f[i - 1] * Base + b[i]]
           g == [i \in 0..Bytes |-> Upto(a, i)]
           f == CHOOSE f : Value(f)
<1>0. Bytes \in Nat /\ Base \in Nat
  BY WidthIsNat, BaseIsNat
<1>1. ASSUME NEW i \in 1..Bytes
      PROVE  Upto(a, i) = Upto(a, i - 1) * Base + b[i]
  <2>1. /\ Upto(a, i - 1) \in Int /\ As16(a)[i] \in Int
        /\ Upto(a, i) = Base * Upto(a, i - 1) + As16(a)[i]
    BY Digits
  <2> QED
    BY <1>0, <2>1
<1>2. g[0] = 0 /\ \A i \in 1..Bytes : g[i] = g[i - 1] * Base + b[i]
  BY <1>0, <1>1
<1>3. Value(g)
  <2>1. g = [i \in 0..Bytes |-> g[i]]
    OBVIOUS
  <2> HIDE DEF g
  <2>2. \A i \in 0..Bytes : g[i] = IF i = 0 THEN 0 ELSE g[i - 1] * Base + b[i]
    BY <1>0, <1>2
  <2> QED
    BY <2>1, <2>2
<1>4. Value(f)
  <2> HIDE DEF Value, g
  <2> QED
    BY <1>3
<1>5. AddrFrom16(b) = f[Bytes]
  BY DEF AddrFrom16
<1> HIDE DEF f
<1>6. f[0] = 0 /\ \A i \in 1..Bytes : f[i] = f[i - 1] * Base + b[i]
  <2>1. \A i \in 0..Bytes : f[i] = IF i = 0 THEN 0 ELSE f[i - 1] * Base + b[i]
    BY <1>4
  <2> QED
    BY <1>0, <2>1
<1> HIDE DEF g, Value
<1> DEFINE T == {i \in 0..Bytes : f[i] = g[i]}
<1>7. 0 \in T
  BY <1>0, <1>2, <1>6
<1>8. \A i \in 1..Bytes : i - 1 \in T => i \in T
  BY <1>0, <1>2, <1>6
<1> HIDE DEF T
<1>9. Bytes \in T
  BY <1>0, <1>7, <1>8, Upward
<1> QED
  BY <1>0, <1>5, <1>9, UptoEnds DEF T, g

\* A function that is computed downwards from the last byte.
LEMMA DownwardEqual ==
    ASSUME NEW f, NEW g, f[Bytes + 1] = g[Bytes + 1],
           \A i \in 1..Bytes : f[i + 1] = g[i + 1] => f[i] = g[i]
    PROVE  \A i \in 1..(Bytes + 1) : f[i] = g[i]
<1> DEFINE T == {i \in 1..(Bytes + 1) : f[i] = g[i]}
<1>0. Bytes \in Nat
  BY WidthIsNat
<1>1. Bytes + 1 \in T
  BY <1>0
<1>2. \A i \in 1..Bytes : i + 1 \in T => i \in T
  BY <1>0
<1> HIDE DEF T
<1>3. \A i \in 1..(Bytes + 1) : i \in T
  BY <1>0, <1>1, <1>2, Downward
<1> QED
  BY <1>3 DEF T

\* calculateIPOffset: the borrow into byte i is what the difference of the
\* numbers up to byte i - 1 is short of the number of the difference.
LEMMA OffsetIsDistance ==
    ASSUME NEW b \in Addresses, NEW t \in Addresses
    PROVE  /\ calculateIPOffset(b, t).offset = As16(t - b)
           /\ calculateIPOffset(b, t).ok <=> t >= b
<1> DEFINE d == t - b
           bb == As16(b)
           tt == As16(t)
           dd == As16(d)
           Borrow(f) == f = [i \in 1..(Bytes + 1) |->
                IF i = Bytes + 1 THEN 0
                ELSE IF tt[i] < bb[i] \/ (tt[i] = bb[i] /\ f[i + 1] = 1) THEN 1 ELSE 0]
           f == CHOOSE f : Borrow(f)
           g == [i \in 1..(Bytes + 1) |-> Upto(t, i - 1) - Upto(b, i - 1) - Upto(d, i - 1)]
<1>0. Bytes \in Nat /\ Base \in Nat /\ Base > 0 /\ b \in Int /\ t \in Int /\ d \in Int
  BY WidthIsNat, BaseIsNat, Powers DEF Addresses
<1>1. ASSUME NEW i \in 1..Bytes
      PROVE  /\ tt[i] \in Int /\ tt[i] >= 0 /\ tt[i] < Base
             /\ bb[i] \in Int /\ bb[i] >= 0 /\ bb[i] < Base
             /\ dd[i] \in Int /\ dd[i] >= 0 /\ dd[i] < Base
             /\ g[i] \in Int /\ g[i + 1] \in Int
             /\ tt[i] - bb[i] - g[i + 1] = dd[i] - Base * g[i]
  <2>1. /\ Upto(t, i) \in Int /\ Upto(t, i - 1) \in Int
        /\ tt[i] \in Int /\ tt[i] >= 0 /\ tt[i] < Base
        /\ Upto(t, i) = Base * Upto(t, i - 1) + tt[i]
    BY <1>0, Digits
  <2>2. /\ Upto(b, i) \in Int /\ Upto(b, i - 1) \in Int
        /\ bb[i] \in Int /\ bb[i] >= 0 /\ bb[i] < Base
        /\ Upto(b, i) = Base * Upto(b, i - 1) + bb[i]
    BY <1>0, Digits
  <2> HIDE DEF d
  <2>3. /\ Upto(d, i) \in Int /\ Upto(d, i - 1) \in Int
        /\ dd[i] \in Int /\ dd[i] >= 0 /\ dd[i] < Base
        /\ Upto(d, i) = Base * Upto(d, i - 1) + dd[i]
    BY <1>0, Digits
  <2> HIDE DEF tt, bb, dd
  <2>4. /\ g[i] = Upto(t, i - 1) - Upto(b, i - 1) - Upto(d, i - 1)
        /\ g[i + 1] = Upto(t, i) - Upto(b, i) - Upto(d, i)
    <3>1. i \in 1..(Bytes + 1) /\ i + 1 \in 1..(Bytes + 1) /\ (i + 1) - 1 = i
      BY <1>0
    <3> QED
      BY <3>1
  <2> HIDE DEF g
  <2>5. g[i] \in Int /\ g[i + 1] \in Int
    BY <2>1, <2>2, <2>3, <2>4
  <2>6. tt[i] - bb[i] - g[i + 1] = dd[i] - Base * g[i]
    BY <1>0, <2>1, <2>2, <2>3, <2>4
  <2> QED
    BY <2>1, <2>2, <2>3, <2>5, <2>6
<1>2. g[Bytes + 1] = 0
  <2>1. Bytes + 1 \in 1..(Bytes + 1) /\ (Bytes + 1) - 1 = Bytes
    BY <1>0
  <2> QED
    BY <1>0, <2>1, UptoEnds
<1>3. (g[1] = 0) <=> (t >= b)
  <2>1. 1 \in 1..(Bytes + 1) /\ 1 - 1 = 0
    BY <1>0
  <2>2. Upto(t, 0) = 0 /\ Upto(b, 0) = 0
    BY <1>0, UptoEnds
  <2>3. CASE t >= b
    <3>1. d \in Addresses
      BY <1>0, <2>3, WidthIsNat, Powers DEF Addresses
    <3> QED
      BY <1>0, <2>1, <2>2, <2>3, <3>1, UptoEnds
  <2>4. CASE ~(t >= b)
    <3>1. -d \in Addresses /\ d # 0
      BY <1>0, <2>4, WidthIsNat, Powers DEF Addresses
    <3> QED
      BY <1>0, <2>1, <2>2, <2>4, <3>1, UptoEnds
  <2> QED
    BY <2>3, <2>4
<1> HIDE DEF d, tt, bb, dd
<1>g. g = [i \in 1..(Bytes + 1) |-> g[i]]
  OBVIOUS
<1> HIDE DEF g
<1>4. \A i \in 1..(Bytes + 1) : g[i] \in {0, 1}
  <2> DEFINE T == {i \in 1..(Bytes + 1) : g[i] \in {0, 1}}
  <2>1. Bytes + 1 \in T
    BY <1>0, <1>2
  <2>2. ASSUME NEW i \in 1..Bytes, i + 1 \in T PROVE i \in T
    <3>0. g[i + 1] \in {0, 1}
      BY <2>2
    <3>1. -Base <= dd[i] - Base * g[i] /\ dd[i] - Base * g[i] < Base
      BY <1>0, <1>1, <3>0
    <3>2. g[i] >= 2 => Base * g[i] >= Base * 2
      BY <1>0, <1>1
    <3>3. g[i] <= -1 => Base * g[i] <= -Base
      BY <1>0, <1>1
    <3>4. g[i] \in {0, 1}
      BY <1>0, <1>1, <3>1, <3>2, <3>3
    <3> QED
      BY <1>0, <3>4
  <2> HIDE DEF T
  <2>3. \A i \in 1..(Bytes + 1) : i \in T
    BY <1>0, <2>1, <2>2, Downward
  <2> QED
    BY <2>3 DEF T
<1>5. ASSUME NEW i \in 1..Bytes
      PROVE  g[i] = IF tt[i] < bb[i] \/ (tt[i] = bb[i] /\ g[i + 1] = 1) THEN 1 ELSE 0
  <2>1. i \in 1..(Bytes + 1) /\ i + 1 \in 1..(Bytes + 1)
    BY <1>0
  <2>2. g[i] \in {0, 1} /\ g[i + 1] \in {0, 1}
    BY <1>4, <2>1
  <2>3. CASE g[i] = 0
    <3>1. tt[i] - bb[i] - g[i + 1] >= 0
      BY <1>0, <1>1, <2>3
    <3> QED
      BY <1>1, <2>2, <2>3, <3>1
  <2>4. CASE g[i] = 1
    <3>1. tt[i] - bb[i] - g[i + 1] < 0
      BY <1>0, <1>1, <2>4
    <3> QED
      BY <1>1, <2>2, <2>4, <3>1
  <2> QED
    BY <2>2, <2>3, <2>4
<1>6. Borrow(g)
  <2>1. \A i \in 1..(Bytes + 1) : g[i] =
            IF i = Bytes + 1 THEN 0
            ELSE IF tt[i] < bb[i] \/ (tt[i] = bb[i] /\ g[i + 1] = 1) THEN 1 ELSE 0
    <3> SUFFICES ASSUME NEW i \in 1..(Bytes + 1)
                 PROVE  g[i] = IF i = Bytes + 1 THEN 0
                        ELSE IF tt[i] < bb[i] \/ (tt[i] = bb[i] /\ g[i + 1] = 1) THEN 1 ELSE 0
      OBVIOUS
    <3>1. CASE i = Bytes + 1
      BY <1>2, <3>1
    <3>2. CASE i # Bytes + 1
      <4>1. i \in 1..Bytes
        BY <1>0, <3>2
      <4> QED
        BY <1>5, <3>2, <4>1
    <3> QED
      BY <3>1, <3>2
  <2> QED
    BY <1>g, <2>1
<1>7. Borrow(f)
  <2> HIDE DEF Borrow
  <2> QED
    BY <1>6
<1>8. /\ calculateIPOffset(b, t).offset = [i \in 1..Bytes |-> (tt[i] - bb[i] - f[i + 1]) % Base]
      /\ calculateIPOffset(b, t).ok <=> f[1] = 0
  BY DEF calculateIPOffset, tt, bb
<1> HIDE DEF f
<1>9. \A i \in 1..(Bytes + 1) : f[i] = g[i]
  <2>1. \A i \in 1..(Bytes + 1) : f[i] =
            IF i = Bytes + 1 THEN 0
            ELSE IF tt[i] < bb[i] \/ (tt[i] = bb[i] /\ f[i + 1] = 1) THEN 1 ELSE 0
    BY <1>7
  <2>2. f[Bytes + 1] = g[Bytes + 1]
    BY <1>0, <1>2, <2>1
  <2>3. ASSUME NEW i \in 1..Bytes, f[i + 1] = g[i + 1] PROVE f[i] = g[i]
    <3>1. i \in 1..(Bytes + 1) /\ i # Bytes + 1
      BY <1>0
    <3> QED
      BY <1>5, <2>1, <2>3, <3>1
  <2> QED
    BY <2>2, <2>3, DownwardEqual
<1>10. ASSUME NEW i \in 1..Bytes PROVE (tt[i] - bb[i] - f[i + 1]) % Base = dd[i]
  <2>1. i + 1 \in 1..(Bytes + 1)
    BY <1>0
  <2>2. /\ tt[i] - bb[i] - f[i + 1] = Base * (-g[i]) + dd[i]
        /\ -g[i] \in Int /\ dd[i] \in 0..(Base - 1)
    BY <1>0, <1>1, <1>9, <2>1
  <2>3. (Base * (-g[i]) + dd[i]) % Base = dd[i]
    BY <1>0, <2>2, Unique
  <2> QED
    BY <2>2, <2>3
<1>11. [i \in 1..Bytes |-> (tt[i] - bb[i] - f[i + 1]) % Base] = As16(t - b)
  <2>1. As16(t - b) = [i \in 1..Bytes |-> dd[i]]
    BY DEF As16, dd, d
  <2> QED
    BY <1>10, <2>1
<1>12. 1 \in 1..(Bytes + 1)
  BY <1>0
<1> QED
  BY <1>3, <1>8, <1>9, <1>11, <1>12

\* applyIPOffset: the carry out of byte i is what the sum of the numbers up to
\* byte i - 1 is short of the number of the sum.
LEMMA OffsetIsAdded ==
    ASSUME NEW b \in Addresses, NEW d \in Addresses
    PROVE  /\ applyIPOffset(b, As16(d)).ok <=> b + d \in Addresses
           /\ b + d \in Addresses => applyIPOffset(b, As16(d)).addr = b + d
<1> DEFINE e == b + d
           bb == As16(b)
           dd == As16(d)
           ee == As16(e)
           Carry(f) == f = [i \in 1..(Bytes + 1) |->
                IF i = Bytes + 1 THEN 0 ELSE (bb[i] + dd[i] + f[i + 1]) \div Base]
           f == CHOOSE f : Carry(f)
           g == [i \in 1..(Bytes + 1) |-> Upto(e, i - 1) - Upto(b, i - 1) - Upto(d, i - 1)]
<1>0. Bytes \in Nat /\ Base \in Nat /\ Base > 0 /\ b \in Int /\ d \in Int /\ e \in Int
  BY WidthIsNat, BaseIsNat, Powers DEF Addresses
<1>1. ASSUME NEW i \in 1..Bytes
      PROVE  /\ ee[i] \in 0..(Base - 1) /\ g[i] \in Int
             /\ bb[i] + dd[i] + g[i + 1] = Base * g[i] + ee[i]
  <2>1. /\ Upto(b, i) \in Int /\ Upto(b, i - 1) \in Int /\ bb[i] \in Int
        /\ Upto(b, i) = Base * Upto(b, i - 1) + bb[i]
    BY <1>0, Digits
  <2>2. /\ Upto(d, i) \in Int /\ Upto(d, i - 1) \in Int /\ dd[i] \in Int
        /\ Upto(d, i) = Base * Upto(d, i - 1) + dd[i]
    BY <1>0, Digits
  <2> HIDE DEF e
  <2>3. /\ Upto(e, i) \in Int /\ Upto(e, i - 1) \in Int
        /\ ee[i] \in Int /\ ee[i] >= 0 /\ ee[i] < Base
        /\ Upto(e, i) = Base * Upto(e, i - 1) + ee[i]
    BY <1>0, Digits
  <2> HIDE DEF bb, dd, ee
  <2>4. /\ g[i] = Upto(e, i - 1) - Upto(b, i - 1) - Upto(d, i - 1)
        /\ g[i + 1] = Upto(e, i) - Upto(b, i) - Upto(d, i)
    <3>1. i \in 1..(Bytes + 1) /\ i + 1 \in 1..(Bytes + 1) /\ (i + 1) - 1 = i
      BY <1>0
    <3> QED
      BY <3>1
  <2> HIDE DEF g
  <2>5. g[i] \in Int /\ ee[i] \in 0..(Base - 1)
    BY <1>0, <2>1, <2>2, <2>3, <2>4
  <2>6. bb[i] + dd[i] + g[i + 1] = Base * g[i] + ee[i]
    BY <1>0, <2>1, <2>2, <2>3, <2>4
  <2> QED
    BY <2>5, <2>6
<1>2. g[Bytes + 1] = 0
  <2>1. Bytes + 1 \in 1..(Bytes + 1) /\ (Bytes + 1) - 1 = Bytes
    BY <1>0
  <2> QED
    BY <1>0, <2>1, UptoEnds
<1>3. g[1] = Upto(e, 0)
  <2>1. 1 \in 1..(Bytes + 1) /\ 1 - 1 = 0
    BY <1>0
  <2>2. Upto(b, 0) = 0 /\ Upto(d, 0) = 0
    BY <1>0, UptoEnds
  <2>3. Upto(e, 0) \in Int
    BY <1>0, UptoEnds
  <2> QED
    BY <2>1, <2>2, <2>3
<1> HIDE DEF e, bb, dd, ee
<1>g. g = [i \in 1..(Bytes + 1) |-> g[i]]
  OBVIOUS
<1> HIDE DEF g
<1>4. ASSUME NEW i \in 1..Bytes
      PROVE  /\ (bb[i] + dd[i] + g[i + 1]) \div Base = g[i]
             /\ (bb[i] + dd[i] + g[i + 1]) % Base = ee[i]
  <2>1. (Base * g[i] + ee[i]) \div Base = g[i] /\ (Base * g[i] + ee[i]) % Base = ee[i]
    BY <1>0, <1>1, Unique
  <2> QED
    BY <1>1, <2>1
<1>5. Carry(g)
  <2>1. ASSUME NEW i \in 1..(Bytes + 1)
        PROVE  g[i] = IF i = Bytes + 1 THEN 0 ELSE (bb[i] + dd[i] + g[i + 1]) \div Base
    <3>1. CASE i = Bytes + 1
      BY <1>2, <3>1
    <3>2. CASE i # Bytes + 1
      <4>1. i \in 1..Bytes
        BY <1>0, <3>2
      <4> QED
        BY <1>4, <3>2, <4>1
    <3> QED
      BY <3>1, <3>2
  <2> QED
    BY <1>g, <2>1
<1>6. Carry(f)
  <2> HIDE DEF Carry
  <2> QED
    BY <1>5
<1> DEFINE s == [i \in 1..Bytes |-> (bb[i] + dd[i] + f[i + 1]) % Base]
<1>7. /\ applyIPOffset(b, As16(d)).addr = AddrFrom16(s)
      /\ applyIPOffset(b, As16(d)).ok <=> f[1] = 0
  BY DEF applyIPOffset, bb, dd
<1> HIDE DEF f
<1>8. \A i \in 1..(Bytes + 1) : f[i] = g[i]
  <2>1. \A i \in 1..(Bytes + 1) :
          f[i] = IF i = Bytes + 1 THEN 0 ELSE (bb[i] + dd[i] + f[i + 1]) \div Base
    BY <1>6
  <2>2. f[Bytes + 1] = g[Bytes + 1]
    BY <1>0, <1>2, <2>1
  <2>3. ASSUME NEW i \in 1..Bytes, f[i + 1] = g[i + 1] PROVE f[i] = g[i]
    <3>1. i \in 1..(Bytes + 1) /\ i # Bytes + 1
      BY <1>0
    <3> QED
      BY <1>4, <2>1, <2>3, <3>1
  <2> QED
    BY <2>2, <2>3, DownwardEqual
<1>9. \A i \in 1..Bytes : s[i] = ee[i]
  <2> SUFFICES ASSUME NEW i \in 1..Bytes PROVE s[i] = ee[i]
    OBVIOUS
  <2>1. i + 1 \in 1..(Bytes + 1)
    BY <1>0
  <2> QED
    BY <1>4, <1>8, <2>1
<1> HIDE DEF s
<1>10. Upto(e, 0) = 0 <=> e \in Addresses
  BY <1>0, UptoEnds
<1>11. Upto(e, 0) = 0 => AddrFrom16(s) = e
  BY <1>0, <1>9, Spelled DEF ee
<1>12. 1 \in 1..(Bytes + 1)
  BY <1>0
<1> QED
  BY <1>3, <1>7, <1>8, <1>10, <1>11, <1>12 DEF e

\* So an address is carried by its distance.
LEMMA HistoricalIPIsCarried ==
    ASSUME NEW w \in Windows, NEW v \in Windows, NEW a \in Addresses
    PROVE  historicalIP(w, v, a) =
             IF a >= w.start /\ v.start + (a - w.start) <= v.end
             THEN v.start + (a - w.start) ELSE None
<1> DEFINE d == a - w.start
<1>0. /\ w.start \in Addresses /\ v.start \in Addresses /\ v.end \in Addresses
      /\ w.start \in Int /\ v.start \in Int /\ a \in Int
      /\ pow2[Width] \in Nat
  BY WidthIsNat, Powers DEF Windows, Addresses
<1>1. /\ calculateIPOffset(w.start, a).offset = As16(d)
      /\ calculateIPOffset(w.start, a).ok <=> a >= w.start
  BY <1>0, OffsetIsDistance
<1>2. CASE ~(a >= w.start)
  BY <1>1, <1>2 DEF historicalIP
<1>3. CASE a >= w.start
  <2>1. d \in Addresses /\ d \in Int /\ d >= 0
    BY <1>0, <1>3 DEF Addresses
  <2>2. historicalIP(w, v, a) = offsetAddressWithin(v.start, v.end, As16(d))
    BY <1>1, <1>3 DEF historicalIP
  <2> HIDE DEF d
  <2>3. /\ applyIPOffset(v.start, As16(d)).ok <=> v.start + d \in Addresses
        /\ v.start + d \in Addresses => applyIPOffset(v.start, As16(d)).addr = v.start + d
    BY <1>0, <2>1, OffsetIsAdded
  <2>4. v.start + d <= v.end => v.start + d \in Addresses
    BY <1>0, <2>1 DEF Addresses
  <2>5. v.start + d >= v.start
    BY <1>0, <2>1
  <2>6. offsetAddressWithin(v.start, v.end, As16(d)) =
          IF v.start + d <= v.end THEN v.start + d ELSE None
    BY <2>3, <2>4, <2>5 DEF offsetAddressWithin
  <2> QED
    BY <1>3, <2>2, <2>6 DEF d
<1> QED
  BY <1>2, <1>3

-----------------------------------------------------------------------------
(* Suffixes in prefixes. *)
LEMMA ModOfProduct ==
    ASSUME NEW a \in Int, NEW x \in Nat, NEW y \in Nat, x > 0, y > 0
    PROVE  /\ (a % (x * y)) % x = a % x
           /\ (a % (x * y)) \div x = (a \div x) % y
<1>1. a % (x * y) = x * ((a \div x) % y) + (a % x)
  BY DivDiv
<1>2. a \div x \in Int /\ a % x \in 0..(x - 1)
  BY DivMod
<1>3. (a \div x) % y \in Int
  BY <1>2, DivMod
<1> QED
  BY <1>1, <1>2, <1>3, Unique

\* What is placed in a prefix has its high bits and the low bits of the suffix.
LEMMA PlacedIsAddress ==
    ASSUME NEW p \in Prefixes, NEW s \in Int
    PROVE  LET size == pow2[Width - p.bits]
           IN  /\ Placed(p, s) \in Addresses
               /\ Placed(p, s) \div size = p.addr \div size
               /\ Placed(p, s) % size = s % size
<1> DEFINE size == pow2[Width - p.bits]
           k == pow2[p.bits]
           q == p.addr \div size
           r == s % size
<1>0. /\ Width \in Nat /\ p.bits \in 0..Width /\ p.addr \in Addresses
      /\ Width - p.bits \in 0..Width
  BY WidthIsNat DEF Prefixes
<1>1. size \in Nat /\ size > 0 /\ k \in Nat /\ k > 0
  BY <1>0, Powers
<1>2. pow2[Width] = size * k
  <2>1. (Width - p.bits) + p.bits = Width
    BY <1>0
  <2> QED
    BY <1>0, <2>1, PowersAdd
<1>3. p.addr \in Int /\ p.addr >= 0 /\ p.addr < size * k
  BY <1>0, <1>1, <1>2 DEF Addresses
<1> HIDE DEF size, k
<1>4. q \in Int /\ p.addr % size \in 0..(size - 1) /\ p.addr = size * q + (p.addr % size)
  BY <1>1, <1>3, DivMod
<1>5. r \in 0..(size - 1)
  BY <1>1, DivMod
<1>6. Placed(p, s) = size * q + r
  <2>1. Placed(p, s) = q * size + r
    BY DEF Placed, size
  <2> HIDE DEF q, r
  <2> QED
    BY <1>1, <1>4, <1>5, <2>1
<1>7. Placed(p, s) \div size = q /\ Placed(p, s) % size = r
  <2> HIDE DEF q, r
  <2> QED
    BY <1>1, <1>4, <1>5, <1>6, Unique
<1>8. size * q + r \in 0..(size * k - 1)
  <2> HIDE DEF q, r
  <2>1. size * k \in Nat /\ size * q \in Int
    BY <1>1, <1>4
  <2>2. q >= 0
    <3>1. q <= -1 => size * q <= -size
      BY <1>1, <1>4
    <3> QED
      BY <1>1, <1>3, <1>4, <2>1, <3>1
  <2>3. q <= k - 1
    <3>1. q >= k => size * q >= size * k
      BY <1>1, <1>4
    <3> QED
      BY <1>1, <1>3, <1>4, <2>1, <3>1
  <2>4. size * q >= 0 /\ size * q <= size * (k - 1)
    BY <1>1, <1>4, <2>2, <2>3
  <2>5. size * (k - 1) = size * k - size
    BY <1>1
  <2> QED
    BY <1>1, <1>5, <2>1, <2>4, <2>5
<1> QED
  BY <1>2, <1>6, <1>7, <1>8 DEF Addresses, size

\* Byte by byte: of the prefix, of the suffix, or shared.
LEMMA PlacedBytes ==
    ASSUME NEW p \in Prefixes, NEW s \in Int, NEW i \in 1..Bytes
    PROVE  LET x == As16(p.addr)[i]
               y == As16(s)[i]
               n == p.bits - (i - 1) * ByteBits
           IN  As16(Placed(p, s))[i] =
                 IF (i - 1) * ByteBits + ByteBits <= p.bits THEN x
                 ELSE IF (i - 1) * ByteBits >= p.bits THEN y
                 ELSE high(x, n) + low(y, n)
<1> DEFINE P == Placed(p, s)
           a == p.addr
           size == pow2[Width - p.bits]
           W == Weight(i)
           pos == (i - 1) * ByteBits
           tail == ByteBits * (Bytes - i)
           n == p.bits - pos
<1>0. /\ Width \in Nat /\ p.bits \in 0..Width /\ ByteBits \in Nat /\ ByteBits > 0
      /\ Bytes \in Nat /\ p.addr \in Addresses
      /\ Width - p.bits \in 0..Width /\ i \in 0..Bytes
  BY WidthIsNat DEF Prefixes
<1>1. /\ W \in Nat /\ W > 0 /\ Base \in Nat /\ Base > 0 /\ size \in Nat /\ size > 0
      /\ a \in Int
  BY <1>0, Weights, Powers, BaseIsNat DEF Addresses
<1>2. pos \in Nat /\ tail \in Nat /\ pos + ByteBits + tail = Width
  BY <1>0 DEF Width
<1>3. P \in Int /\ P \div size = a \div size /\ P % size = s % size
  BY <1>0, Powers, PlacedIsAddress DEF Addresses
<1>4. W = pow2[tail]
  BY DEF Weight
<1>5. \A z : As16(z)[i] = (z \div W) % Base
  BY DEF As16, Weight
<1> HIDE DEF P, size, W, tail, pos
<1>6. CASE pos + ByteBits <= p.bits
  <2>1. PICK m \in Nat : tail = (Width - p.bits) + m
    <3>1. tail - (Width - p.bits) \in Nat /\ tail = (Width - p.bits) + (tail - (Width - p.bits))
      BY <1>0, <1>2, <1>6
    <3> QED
      BY <3>1
  <2>2. m \in 0..Width /\ (Width - p.bits) + m <= Width
    BY <1>0, <1>2, <2>1
  <2>3. W = size * pow2[m] /\ pow2[m] \in Nat /\ pow2[m] > 0
    BY <1>0, <1>4, <2>1, <2>2, PowersAdd, Powers DEF size
  <2>4. P \div W = (P \div size) \div pow2[m] /\ a \div W = (a \div size) \div pow2[m]
    BY <1>1, <1>3, <2>3, DivDiv
  <2> QED
    BY <1>3, <1>5, <1>6, <2>4 DEF P, pos
<1>7. CASE ~(pos + ByteBits <= p.bits) /\ pos >= p.bits
  <2>1. PICK m \in Nat : Width - p.bits = tail + (ByteBits + m)
    <3>1. pos - p.bits \in Nat /\ Width - p.bits = tail + (ByteBits + (pos - p.bits))
      BY <1>0, <1>2, <1>7
    <3> QED
      BY <3>1
  <2>2. m \in 0..Width /\ ByteBits + m <= Width /\ tail + (ByteBits + m) <= Width
    BY <1>0, <1>2, <2>1
  <2>3. pow2[m] \in Nat /\ pow2[m] > 0 /\ pow2[ByteBits + m] = Base * pow2[m]
    BY <1>0, <2>2, PowersAdd, Powers DEF Base
  <2>4. size = W * (Base * pow2[m])
    BY <1>0, <1>2, <1>4, <2>1, <2>2, <2>3, PowersAdd DEF size
  <2> DEFINE k == pow2[m]
  <2>5. k \in Nat /\ k > 0 /\ Base * k \in Nat /\ Base * k > 0 /\ size = W * (Base * k)
    BY <1>1, <2>3, <2>4
  <2> HIDE DEF k
  <2>6. ASSUME NEW z \in Int
        PROVE  (z \div W) % Base = ((z % size) \div W) % Base
    <3>1. z \div W \in Int
      BY <1>1, DivMod
    <3>2. (z % size) \div W = (z \div W) % (Base * k)
      BY <1>1, <2>5, ModOfProduct
    <3>3. ((z \div W) % (Base * k)) % Base = (z \div W) % Base
      BY <1>1, <2>5, <3>1, ModOfProduct
    <3> QED
      BY <3>2, <3>3
  <2>7. (P \div W) % Base = (s \div W) % Base
    BY <1>3, <2>6
  <2> QED
    BY <1>5, <1>7, <2>7 DEF P, pos
<1>8. CASE ~(pos + ByteBits <= p.bits) /\ ~(pos >= p.bits)
  <2> DEFINE h == pow2[ByteBits - n]
             t == pow2[n]
             X == a \div W
             Y == s \div W
             Z == P \div W
  <2>1. /\ n \in 0..Width /\ ByteBits - n \in 0..Width /\ n + (ByteBits - n) = ByteBits
        /\ (ByteBits - n) + n = ByteBits
        /\ ByteBits <= Width /\ Width - p.bits = tail + (ByteBits - n)
        /\ tail + (ByteBits - n) <= Width
    BY <1>0, <1>2, <1>8
  <2> HIDE DEF n
  <2>2. h \in Nat /\ h > 0 /\ t \in Nat /\ t > 0
    BY <2>1, Powers
  <2>3. Base = h * t
    BY <1>0, <2>1, PowersAdd DEF Base
  <2>4. size = W * h
    BY <1>0, <1>2, <1>4, <2>1, PowersAdd DEF size
  <2> HIDE DEF h, t
  <2>5. X \in Int /\ Y \in Int /\ Z \in Int
    BY <1>1, <1>3, DivMod
  <2>6. Z \div h = X \div h
    BY <1>1, <1>3, <2>2, <2>4, DivDiv
  <2>7. Z % h = Y % h
    <3>1. Z % h = (P % size) \div W
      BY <1>1, <1>3, <2>2, <2>4, ModOfProduct
    <3>2. Y % h = (s % size) \div W
      BY <1>1, <2>2, <2>4, ModOfProduct
    <3> QED
      BY <1>3, <3>1, <3>2
  <2>8. high(As16(a)[i], n) = (X % Base) - ((X % Base) % h)
    BY <1>5 DEF high, h
  <2>9. low(As16(s)[i], n) = (Y % Base) % h
    BY <1>5 DEF low, h
  <2> HIDE DEF X, Y, Z
  <2>10. /\ Z % Base = h * ((Z \div h) % t) + (Z % h)
         /\ X % Base = h * ((X \div h) % t) + (X % h)
    BY <2>2, <2>3, <2>5, DivDiv
  <2>11. (X % Base) % h = X % h /\ (Y % Base) % h = Y % h
    BY <2>2, <2>3, <2>5, ModOfProduct
  <2>12. /\ X \div h \in Int /\ X % h \in Int /\ Y % h \in Int
    BY <2>2, <2>5, DivMod
  <2>13. (X \div h) % t \in Int
    BY <2>2, <2>12, DivMod
  <2>14. h * ((X \div h) % t) \in Int
    BY <2>2, <2>13
  <2>15. Z % Base = ((X % Base) - (X % h)) + (Y % h)
    BY <2>6, <2>7, <2>10, <2>12, <2>14
  <2> QED
    BY <1>5, <1>8, <2>8, <2>9, <2>11, <2>15 DEF P, pos, n, Z
<1> QED
  BY <1>6, <1>7, <1>8

\* combinePrefixSuffix and parseOffsetSuffix put a suffix where it belongs.
LEMMA CombinedIsPlaced ==
    ASSUME NEW p \in Prefixes, NEW s \in Int
    PROVE  combinePrefixSuffix(p, s) = Placed(p, s)
<1> DEFINE pos(i) == (i - 1) * ByteBits
           c == [i \in 1..Bytes |->
                   IF pos(i) + ByteBits <= p.bits THEN As16(p.addr)[i]
                   ELSE IF pos(i) >= p.bits THEN As16(s)[i]
                   ELSE high(As16(p.addr)[i], p.bits - pos(i)) + low(As16(s)[i], p.bits - pos(i))]
<1>1. combinePrefixSuffix(p, s) = AddrFrom16(c)
  BY DEF combinePrefixSuffix
<1>2. \A i \in 1..Bytes : c[i] = As16(Placed(p, s))[i]
  BY PlacedBytes
<1>3. Placed(p, s) \in Addresses /\ Placed(p, s) \in Int
  BY PlacedIsAddress, Powers, WidthIsNat DEF Addresses
<1>4. Upto(Placed(p, s), 0) = 0
  BY <1>3, UptoEnds
<1> HIDE DEF c
<1> QED
  BY <1>1, <1>2, <1>3, <1>4, Spelled

\* The first address of a prefix.
LEMMA MaskedIsFirst ==
    ASSUME NEW p \in Prefixes
    PROVE  LET size == pow2[Width - p.bits]
           IN  /\ Masked(p) = [addr |-> p.addr - (p.addr % size), bits |-> p.bits]
               /\ Masked(p) \in Prefixes
               /\ Masked(p).addr = Placed(p, 0)
               /\ Masked(p).addr \div size = p.addr \div size
               /\ Placed(p, 0) = size * (p.addr \div size)
<1> DEFINE size == pow2[Width - p.bits]
<1>0. /\ Width \in Nat /\ p.bits \in 0..Width /\ p.addr \in Addresses /\ p.addr \in Int
      /\ Width - p.bits \in 0..Width
  BY WidthIsNat, Powers DEF Prefixes, Addresses
<1>1. size \in Nat /\ size > 0
  BY <1>0, Powers
<1>2. Masked(p) = [addr |-> p.addr - (p.addr % size), bits |-> p.bits]
  BY DEF Masked, Prefixes
<1>3. Placed(p, 0) = (p.addr \div size) * size + (0 % size)
  BY DEF Placed
<1> HIDE DEF size
<1>4. /\ p.addr \div size \in Int /\ p.addr % size \in 0..(size - 1)
      /\ p.addr = size * (p.addr \div size) + (p.addr % size)
  BY <1>0, <1>1, DivMod
<1>5. 0 % size = 0
  <2>1. size * 0 + 0 = 0 /\ 0 \in 0..(size - 1)
    BY <1>1
  <2> QED
    BY <1>1, <2>1, Unique
<1>6. Placed(p, 0) = size * (p.addr \div size) /\ Placed(p, 0) = p.addr - (p.addr % size)
  BY <1>0, <1>1, <1>3, <1>4, <1>5
<1>7. Placed(p, 0) \in Addresses /\ Placed(p, 0) \div size = p.addr \div size
  BY PlacedIsAddress DEF size
<1> QED
  BY <1>0, <1>2, <1>6, <1>7 DEF Prefixes, size

LEMMA ParsedIsPlaced ==
    ASSUME NEW p \in Prefixes, NEW s \in Int
    PROVE  parseOffsetSuffix(p, s) = Placed(p, s)
<1> DEFINE m == Masked(p)
           full == p.bits \div ByteBits
           rest == p.bits % ByteBits
           pos(i) == (i - 1) * ByteBits
           b == As16(m.addr)
           c == [i \in 1..Bytes |->
                   IF pos(i) + ByteBits <= p.bits THEN b[i]
                   ELSE IF pos(i) >= p.bits THEN As16(s)[i]
                   ELSE high(b[i], p.bits - pos(i)) + low(As16(s)[i], p.bits - pos(i))]
           d == [i \in 1..Bytes |->
                   IF i <= full THEN b[i]
                   ELSE IF i = full + 1 /\ rest > 0
                   THEN high(b[i], rest) + low(As16(s)[i], rest)
                   ELSE As16(s)[i]]
<1>0. /\ ByteBits \in Nat /\ ByteBits > 0 /\ Bytes \in Nat /\ Width \in Nat
      /\ p.bits \in Int /\ p.addr \in Addresses
  BY WidthIsNat DEF Prefixes
<1>1. m \in Prefixes /\ m.bits = p.bits
  BY MaskedIsFirst
<1>2. parseOffsetSuffix(p, s) = AddrFrom16(d)
  BY DEF parseOffsetSuffix
<1>3. combinePrefixSuffix(m, s) = AddrFrom16(c)
  BY <1>1 DEF combinePrefixSuffix
<1>4. Placed(m, s) = Placed(p, s)
  BY <1>1, MaskedIsFirst DEF Placed
<1>5. full \in Int /\ rest \in 0..(ByteBits - 1) /\ p.bits = ByteBits * full + rest
  BY <1>0, DivMod
<1> HIDE DEF full, rest, m, b
<1>6. ASSUME NEW i \in 1..Bytes PROVE c[i] = d[i]
  <2>1. pos(i) = ByteBits * (i - 1) /\ pos(i) + ByteBits = ByteBits * i
    BY <1>0
  <2>2. CASE i <= full
    <3>1. ByteBits * i <= ByteBits * full
      BY <1>0, <1>5, <2>2
    <3>2. pos(i) + ByteBits <= p.bits
      BY <1>0, <1>5, <2>1, <3>1
    <3> QED
      BY <2>2, <3>2
  <2>3. CASE i = full + 1
    <3>1. pos(i) = ByteBits * full
      BY <1>0, <1>5, <2>1, <2>3
    <3>2. p.bits - pos(i) = rest /\ ~(pos(i) + ByteBits <= p.bits) /\ ~(i <= full)
      BY <1>0, <1>5, <2>3, <3>1
    <3>3. pos(i) >= p.bits <=> ~(rest > 0)
      BY <1>0, <1>5, <3>1
    <3> HIDE DEF pos
    <3> QED
      BY <2>3, <3>2, <3>3
  <2>4. CASE i > full + 1
    <3>1. ByteBits * (i - 1) >= ByteBits * (full + 1)
      BY <1>0, <1>5, <2>4
    <3>2. ByteBits * (full + 1) = ByteBits * full + ByteBits
      BY <1>0, <1>5
    <3>3. pos(i) >= p.bits /\ ~(pos(i) + ByteBits <= p.bits)
      BY <1>0, <1>5, <2>1, <3>1, <3>2
    <3>4. ~(i <= full) /\ ~(i = full + 1)
      BY <1>5, <2>4
    <3> HIDE DEF pos
    <3> QED
      BY <3>3, <3>4
  <2> QED
    BY <1>5, <2>2, <2>3, <2>4
<1>7. c = d
  BY <1>6
<1> QED
  BY <1>1, <1>2, <1>3, <1>4, <1>7, CombinedIsPlaced

\* The addresses of a prefix.
LEMMA PrefixAddresses ==
    ASSUME NEW p \in Prefixes
    PROVE  LET size == pow2[Width - p.bits]
               first == Placed(p, 0)
           IN  /\ size \in Nat /\ size > 0 /\ first \in Addresses /\ first \in Int
               /\ Placed(p, -1) = first + (size - 1)
               /\ first + (size - 1) \in Addresses
               /\ lastAddrOfPrefix(p) = Placed(p, -1)
               /\ AddressesOf(p) = first..(first + (size - 1))
               /\ Cardinality(AddressesOf(p)) = size
               /\ \A a \in Int : a \in AddressesOf(p) <=> a \div size = p.addr \div size
<1> DEFINE size == pow2[Width - p.bits]
           first == Placed(p, 0)
           q == p.addr \div size
<1>0. /\ Width \in Nat /\ p.bits \in 0..Width /\ p.addr \in Addresses /\ p.addr \in Int
      /\ Width - p.bits \in 0..Width
  BY WidthIsNat, Powers DEF Prefixes, Addresses
<1>1. size \in Nat /\ size > 0
  BY <1>0, Powers
<1>2. first \in Addresses /\ first \in Int /\ first = size * q
  <2>1. first \in Addresses /\ first = size * q
    BY MaskedIsFirst, PlacedIsAddress
  <2> QED
    BY <2>1, WidthIsNat, Powers DEF Addresses
<1>3. Placed(p, -1) = q * size + ((-1) % size) /\ Placed(p, -1) \in Addresses
  BY PlacedIsAddress DEF Placed
<1>4. lastAddrOfPrefix(p) = first + (size - 1)
  BY MaskedIsFirst DEF lastAddrOfPrefix
<1>q. q \in Int
  <2> HIDE DEF size
  <2> QED
    BY <1>0, <1>1, DivMod
<1> HIDE DEF size, first, q
<1>5. (-1) % size = size - 1
  <2>1. size * (-1) + (size - 1) = -1 /\ size - 1 \in 0..(size - 1)
    BY <1>1
  <2> QED
    BY <1>1, <2>1, Unique
<1>6. Placed(p, -1) = first + (size - 1)
  BY <1>1, <1>2, <1>3, <1>5, <1>q
<1>7. AddressesOf(p) = first..(first + (size - 1))
  BY <1>6 DEF AddressesOf, first
<1>8. Cardinality(AddressesOf(p)) = size
  <2>1. first + (size - 1) \in Int /\ first <= first + (size - 1)
        /\ (first + (size - 1)) - first + 1 = size
    BY <1>1, <1>2
  <2> QED
    BY <1>2, <1>7, <2>1, FS_Interval
<1>9. ASSUME NEW a \in Int PROVE a \in AddressesOf(p) <=> a \div size = q
  <2>1. CASE a \in AddressesOf(p)
    <3>1. a = size * q + (a - size * q) /\ a - size * q \in 0..(size - 1)
      BY <1>1, <1>2, <1>7, <1>q, <2>1
    <3>2. a \div size = q
      <4> DEFINE r == a - size * q
      <4> HIDE DEF r
      <4>1. r \in 0..(size - 1) /\ a = size * q + r
        BY <3>1 DEF r
      <4> QED
        BY <1>1, <1>q, <4>1, Unique
    <3> QED
      BY <2>1, <3>2
  <2>2. CASE a \div size = q
    <3>1. a = size * q + (a % size) /\ a % size \in 0..(size - 1)
      BY <1>1, <2>2, DivMod
    <3>2. a \in first..(first + (size - 1))
      BY <1>1, <1>2, <3>1
    <3> QED
      BY <1>7, <2>2, <3>2
  <2> QED
    BY <2>1, <2>2
<1> QED
  BY <1>1, <1>2, <1>3, <1>4, <1>6, <1>7, <1>8, <1>9 DEF size, first, q

\* CalculateAddressRange refuses a range only for its order.
LEMMA RangeWindow ==
    ASSUME NEW p \in Prefixes, NEW f \in Addresses, NEW l \in Addresses
    PROVE  CalculateAddressRange(p, f, l) =
             IF Placed(p, f) > Placed(p, l) THEN None
             ELSE [start |-> Placed(p, f), end |-> Placed(p, l)]
<1>1. f \in Int /\ l \in Int
  BY WidthIsNat, Powers DEF Addresses
<1>2. parseOffsetSuffix(p, f) = Placed(p, f) /\ parseOffsetSuffix(p, l) = Placed(p, l)
  BY <1>1, ParsedIsPlaced
<1>3. ASSUME NEW s \in Int PROVE Contains(p, Placed(p, s))
  <2> DEFINE a == Placed(p, s)
             o == [p EXCEPT !.addr = a]
  <2>1. /\ a \in Addresses
        /\ a \div pow2[Width - p.bits] = p.addr \div pow2[Width - p.bits]
    BY PlacedIsAddress
  <2> HIDE DEF a
  <2>2. o \in Prefixes /\ o.bits = p.bits /\ o.addr = a
    BY <2>1 DEF Prefixes
  <2> HIDE DEF o
  <2>3. /\ Masked(o).addr = pow2[Width - p.bits] * (a \div pow2[Width - p.bits])
        /\ Masked(o) \in Prefixes /\ Masked(o).bits = p.bits
    BY <2>2, MaskedIsFirst
  <2>4. /\ Masked(p).addr = pow2[Width - p.bits] * (p.addr \div pow2[Width - p.bits])
        /\ Masked(p) \in Prefixes /\ Masked(p).bits = p.bits
    BY MaskedIsFirst
  <2>5. Masked(o) = Masked(p)
    BY <2>1, <2>3, <2>4 DEF Prefixes
  <2> QED
    BY <2>5 DEF Contains, a, o
<1> QED
  BY <1>1, <1>2, <1>3 DEF CalculateAddressRange

\* The addresses of a subnet are inside the prefix.
LEMMA SubnetWindow ==
    ASSUME NEW p \in Prefixes, NEW length \in 0..Width, NEW offset \in Nat
    PROVE  LET size == pow2[Width - length]
               inside == p.bits <= length /\ offset < Cardinality(AddressesOf(p)) \div size
               n == CalculateSubnet(p, length, offset)
           IN  /\ ~inside => n = None
               /\ inside => /\ n \in Prefixes /\ n # None /\ n.bits = length
                            /\ n.addr = Placed(n, 0)
                            /\ AddressesOf(n) \subseteq AddressesOf(p)
<1> DEFINE size == pow2[Width - length]
           whole == pow2[Width - p.bits]
           k == pow2[length - p.bits]
           first == Placed(p, 0)
           n == CalculateSubnet(p, length, offset)
<1>0. /\ Width \in Nat /\ p.bits \in 0..Width /\ length \in Nat /\ length <= Width
      /\ Width - length \in 0..Width /\ Width - p.bits \in 0..Width
  BY WidthIsNat DEF Prefixes
<1>1. size \in Nat /\ size > 0
  BY <1>0, Powers
<1>2. /\ whole \in Nat /\ whole > 0 /\ first \in Addresses /\ first \in Int
      /\ AddressesOf(p) = first..(first + (whole - 1))
      /\ first + (whole - 1) \in Addresses
      /\ Cardinality(AddressesOf(p)) = whole
      /\ Masked(p).addr = first
      /\ first = whole * (p.addr \div whole)
  BY PrefixAddresses, MaskedIsFirst
<1>3. CASE ~(p.bits <= length)
  BY <1>0, <1>3 DEF CalculateSubnet
<1>4. CASE p.bits <= length
  <2>1. length - p.bits \in 0..Width /\ (Width - length) + (length - p.bits) = Width - p.bits
        /\ Width - length \in Nat /\ length - p.bits \in Nat /\ Width - p.bits <= Width
    BY <1>0, <1>4
  <2>2. k \in Nat /\ k > 0 /\ whole = size * k
    <3>1. pow2[(Width - length) + (length - p.bits)] = size * k
      BY <1>0, <2>1, PowersAdd
    <3> QED
      BY <2>1, <3>1, Powers
  <2>3. n = IF offset >= k THEN None
            ELSE [addr |-> first + offset * size, bits |-> length]
    BY <1>0, <1>2, <1>4 DEF CalculateSubnet
  <2>q. p.addr \div whole \in Int
    <3>1. p.addr \in Int
      BY WidthIsNat, Powers DEF Prefixes, Addresses
    <3> HIDE DEF whole
    <3> QED
      BY <1>2, <3>1, DivMod
  <2> DEFINE u == p.addr \div whole
  <2> HIDE DEF size, whole, k, first, n, u
  <2>4. whole \div size = k
    <3>1. whole = size * k + 0 /\ 0 \in 0..(size - 1) /\ k \in Int
      BY <1>1, <2>2
    <3> QED
      BY <1>1, <3>1, Unique
  <2>5. CASE offset >= k
    BY <1>2, <2>2, <2>3, <2>4, <2>5 DEF size, n
  <2>6. CASE offset < k
    <3> DEFINE a == first + offset * size
    <3>1. /\ offset * size \in Int /\ offset * size >= 0
          /\ offset * size <= (k - 1) * size
      BY <1>1, <2>2, <2>6
    <3>2. (k - 1) * size = whole - size
      BY <1>1, <2>2
    <3>3. a \in Int /\ a >= first /\ a + (size - 1) <= first + (whole - 1)
      BY <1>1, <1>2, <3>1, <3>2
    <3>4. a \in Addresses
      BY <1>1, <1>2, <3>3, WidthIsNat, Powers DEF Addresses
    <3>5. n = [addr |-> a, bits |-> length]
      BY <2>2, <2>3, <2>6
    <3>6. n \in Prefixes /\ n # None /\ n.addr = a /\ n.bits = length
      BY <3>4, <3>5, AddressMathConstants DEF Prefixes
    <3>7. a = size * (k * u + offset) + 0
      BY <1>1, <1>2, <2>2, <2>q DEF u
    <3>8. a \div size = k * u + offset
      <4>1. 0 \in 0..(size - 1) /\ k * u + offset \in Int
        BY <1>1, <2>2, <2>q DEF u
      <4> QED
        BY <1>1, <3>7, <4>1, Unique
    <3>9. Placed(n, 0) = a
      <4>1. Placed(n, 0) = size * (a \div size)
        BY <3>6, MaskedIsFirst DEF size
      <4> QED
        BY <1>1, <2>2, <2>q, <3>7, <3>8, <4>1 DEF u
    <3>10. AddressesOf(n) = a..(a + (size - 1))
      BY <3>6, <3>9, PrefixAddresses DEF size
    <3>11. AddressesOf(n) \subseteq AddressesOf(p)
      <4> HIDE DEF a
      <4> QED
        BY <1>1, <1>2, <3>3, <3>10
    <3> QED
      BY <1>2, <1>4, <2>4, <2>6, <3>6, <3>9, <3>11 DEF size, n
  <2> QED
    BY <2>2, <2>5, <2>6
<1> QED
  BY <1>0, <1>3, <1>4

-----------------------------------------------------------------------------
\* Two addresses have their first n bits in common.
Agree(a, b, n) == a \div pow2[Width - n] = b \div pow2[Width - n]

\* Two different bytes have a first bit they differ in.
LEMMA FirstDifferentBit ==
    ASSUME NEW x \in 0..(Base - 1), NEW y \in 0..(Base - 1), x # y
    PROVE  LET n == CHOOSE n \in 0..(ByteBits - 1) :
                      high(x, n) = high(y, n) /\ high(x, n + 1) # high(y, n + 1)
           IN  /\ n \in 0..(ByteBits - 1)
               /\ high(x, n) = high(y, n) /\ high(x, n + 1) # high(y, n + 1)
<1>0. /\ ByteBits \in Nat /\ ByteBits > 0 /\ Base \in Nat /\ Base > 0
      /\ x \in Int /\ y \in Int
  BY WidthIsNat, BaseIsNat
<1> DEFINE T == {m \in Nat : m <= ByteBits /\ high(x, m) # high(y, m)}
<1>1. high(x, 0) = high(y, 0)
  <2>1. \A z \in 0..(Base - 1) : high(z, 0) = 0
    <3> SUFFICES ASSUME NEW z \in 0..(Base - 1) PROVE high(z, 0) = 0
      OBVIOUS
    <3>1. z = Base * 0 + z /\ z \in Int
      BY <1>0
    <3>2. z % Base = z
      BY <1>0, <3>1, Unique
    <3>3. ByteBits - 0 = ByteBits
      BY <1>0
    <3> QED
      BY <3>1, <3>2, <3>3 DEF high, Base
  <2> QED
    BY <2>1
<1>2. high(x, ByteBits) = x /\ high(y, ByteBits) = y
  <2>1. \A z \in Int : z % 1 = 0
    BY DivMod
  <2>2. ByteBits - ByteBits = 0 /\ pow2[0] = 1
    BY <1>0, Powers
  <2> QED
    BY <1>0, <2>1, <2>2 DEF high
<1>3. PICK m \in T : \A k \in T : m <= k
  <2>1. ByteBits \in T
    BY <1>0, <1>2
  <2> HIDE DEF T
  <2>2. T \subseteq Nat
    BY DEF T
  <2> QED
    BY <2>1, <2>2, LeastTurn
<1>4. m # 0 /\ m - 1 \in 0..(ByteBits - 1) /\ (m - 1) + 1 = m /\ m - 1 \notin T
  BY <1>0, <1>1, <1>3
<1>5. high(x, m - 1) = high(y, m - 1) /\ high(x, (m - 1) + 1) # high(y, (m - 1) + 1)
  BY <1>0, <1>3, <1>4
<1> QED
  BY <1>4, <1>5

\* The bits in common end where the high bits of the first different byte do.
LEMMA AgreeInByte ==
    ASSUME NEW a \in Int, NEW b \in Int, NEW j \in 1..Bytes, Upto(a, j - 1) = Upto(b, j - 1),
           NEW n \in 0..ByteBits
    PROVE  Agree(a, b, ByteBits * (j - 1) + n) <=> high(As16(a)[j], n) = high(As16(b)[j], n)
<1> DEFINE h == pow2[ByteBits - n]
           t == pow2[n]
           W == Weight(j)
           c == ByteBits * (j - 1) + n
<1>0. /\ ByteBits \in Nat /\ ByteBits > 0 /\ Bytes \in Nat /\ Width \in Nat
      /\ Base \in Nat /\ Base > 0 /\ j \in 0..Bytes
  BY WidthIsNat, BaseIsNat
<1>1. /\ ByteBits * (Bytes - j) \in Nat
      /\ Width - c = ByteBits * (Bytes - j) + (ByteBits - n)
      /\ ByteBits * (j - 1) \in Nat
  BY <1>0 DEF Width
<1>2. /\ ByteBits * (Bytes - j) + (ByteBits - n) <= Width
      /\ n \in 0..Width /\ ByteBits - n \in 0..Width /\ (ByteBits - n) + n = ByteBits
      /\ ByteBits <= Width
  BY <1>0, <1>1
<1> HIDE DEF c
<1>3. h \in Nat /\ h > 0 /\ t \in Nat /\ t > 0 /\ W \in Nat /\ W > 0
  BY <1>0, <1>2, Powers, Weights
<1>4. Base = h * t
  BY <1>0, <1>2, PowersAdd DEF Base
<1>5. pow2[Width - c] = W * h
  BY <1>0, <1>1, <1>2, PowersAdd DEF Weight
<1>6. ASSUME NEW z \in Int
      PROVE  /\ z \div pow2[Width - c] = t * Upto(z, j - 1) + (As16(z)[j] \div h)
             /\ high(As16(z)[j], n) = h * (As16(z)[j] \div h)
             /\ As16(z)[j] \div h \in Int /\ Upto(z, j - 1) \in Int
  <2> DEFINE x == As16(z)[j]
             u == x \div h
             r == x % h
             q == Upto(z, j - 1)
  <2>1. q \in Int /\ x \in Int /\ Upto(z, j) = Base * q + x
    BY Digits
  <2>2. high(x, n) = x - r
    BY DEF high
  <2> HIDE DEF h, x, q
  <2>3. u \in Int /\ r \in 0..(h - 1) /\ x = h * u + r
    BY <1>3, <2>1, DivMod
  <2>4. z \div (W * h) = Upto(z, j) \div h
    <3> HIDE DEF W
    <3> QED
      BY <1>3, DivDiv DEF Upto, W
  <2> HIDE DEF u, r, W, t
  <2>5. Base * q + x = h * (t * q + u) + r /\ t * q + u \in Int
    BY <1>3, <1>4, <2>1, <2>3
  <2>6. (h * (t * q + u) + r) \div h = t * q + u
    BY <1>3, <2>3, <2>5, Unique
  <2>7. z \div pow2[Width - c] = t * q + u
    BY <1>5, <2>1, <2>4, <2>5, <2>6
  <2>8. x - r = h * u
    BY <1>3, <2>1, <2>3
  <2> QED
    BY <2>1, <2>2, <2>3, <2>7, <2>8 DEF q, u, x
<1>7. Agree(a, b, c) <=> a \div pow2[Width - c] = b \div pow2[Width - c]
  BY DEF Agree
<1> DEFINE u == As16(a)[j] \div h
           v == As16(b)[j] \div h
           q == Upto(a, j - 1)
<1>8. /\ a \div pow2[Width - c] = t * q + u /\ high(As16(a)[j], n) = h * u
      /\ b \div pow2[Width - c] = t * q + v /\ high(As16(b)[j], n) = h * v
      /\ u \in Int /\ v \in Int /\ q \in Int
  BY <1>6
<1> HIDE DEF h, t, W, u, v, q
<1>9. t * q + u = t * q + v <=> u = v
  BY <1>3, <1>8
<1>10. h * u = h * v <=> u = v
  <2>1. h * (u - v) = h * u - h * v
    BY <1>3, <1>8
  <2>2. u - v > 0 => h * (u - v) > 0
    BY <1>3, <1>8
  <2>3. u - v < 0 => h * (u - v) < 0
    BY <1>3, <1>8
  <2> QED
    BY <1>3, <1>8, <2>1, <2>2, <2>3
<1> QED
  BY <1>7, <1>8, <1>9, <1>10 DEF c

LEMMA AgreeOnFewer ==
    ASSUME NEW a \in Int, NEW b \in Int, NEW m \in 0..Width, NEW n \in m..Width, Agree(a, b, n)
    PROVE  Agree(a, b, m)
<1>0. Width \in Nat
  BY WidthIsNat
<1>1. /\ n \in Nat /\ m \in Nat /\ Width - n \in 0..Width /\ n - m \in 0..Width
      /\ (Width - n) + (n - m) = Width - m /\ (Width - n) + (n - m) <= Width
  BY <1>0
<1> DEFINE x == pow2[Width - n]
           y == pow2[n - m]
<1>2. x \in Nat /\ x > 0 /\ y \in Nat /\ y > 0
  BY <1>1, Powers
<1>3. pow2[Width - m] = x * y
  <2>1. pow2[(Width - n) + (n - m)] = x * y
    BY <1>0, <1>1, PowersAdd
  <2> QED
    BY <1>1, <2>1
<1>4. a \div x = b \div x
  BY DEF Agree
<1> HIDE DEF x, y
<1>5. a \div (x * y) = (a \div x) \div y /\ b \div (x * y) = (b \div x) \div y
  BY <1>2, DivDiv
<1> QED
  BY <1>3, <1>4, <1>5 DEF Agree

\* RangeToCIDR counts the bits two addresses have in common.
LEMMA CommonBits ==
    ASSUME NEW start \in Addresses, NEW end \in Addresses
    PROVE  \E c \in 0..Width :
             /\ RangeToCIDR(start, end) = Masked([addr |-> start, bits |-> c])
             /\ Agree(start, end, c)
             /\ c < Width => ~Agree(start, end, c + 1)
<1> DEFINE s == As16(start)
           e == As16(end)
           bit(j) == CHOOSE n \in 0..(ByteBits - 1) :
                        high(s[j], n) = high(e[j], n) /\ high(s[j], n + 1) # high(e[j], n + 1)
           Common(f) == f = [i \in 1..(Bytes + 1) |->
                IF i = Bytes + 1 THEN 0
                ELSE IF s[i] = e[i] THEN ByteBits + f[i + 1] ELSE bit(i)]
           f == CHOOSE f : Common(f)
           Stops(i) == {j \in i..(Bytes + 1) : j = Bytes + 1 \/ s[j] # e[j]}
           stop(i) == CHOOSE j \in Stops(i) : \A k \in Stops(i) : j <= k
           rest(j) == IF j = Bytes + 1 THEN 0 ELSE bit(j)
           g == [i \in 1..(Bytes + 1) |-> ByteBits * (stop(i) - i) + rest(stop(i))]
<1>0. /\ ByteBits \in Nat /\ ByteBits > 0 /\ Bytes \in Nat /\ Bytes > 0 /\ Width \in Nat
      /\ Base \in Nat /\ Base > 0 /\ start \in Int /\ end \in Int
  BY WidthIsNat, BaseIsNat, Powers DEF Addresses
<1>1. RangeToCIDR(start, end) = Masked([addr |-> start, bits |-> f[1]])
  BY DEF RangeToCIDR
<1>2. \A i \in 1..Bytes : s[i] \in 0..(Base - 1) /\ e[i] \in 0..(Base - 1)
  <2>1. \A i \in 1..Bytes : s[i] \in Int /\ s[i] >= 0 /\ s[i] < Base
    BY <1>0, Digits
  <2>2. \A i \in 1..Bytes : e[i] \in Int /\ e[i] >= 0 /\ e[i] < Base
    BY <1>0, Digits
  <2> HIDE DEF s, e
  <2> QED
    BY <1>0, <2>1, <2>2
<1>3. ASSUME NEW j \in 1..Bytes, s[j] # e[j]
      PROVE  /\ bit(j) \in 0..(ByteBits - 1)
             /\ high(s[j], bit(j)) = high(e[j], bit(j))
             /\ high(s[j], bit(j) + 1) # high(e[j], bit(j) + 1)
  <2> HIDE DEF s, e
  <2> QED
    BY <1>2, <1>3, FirstDifferentBit
<1> HIDE DEF s, e, bit
<1>4. ASSUME NEW i \in 1..(Bytes + 1)
      PROVE  stop(i) \in Stops(i) /\ \A k \in Stops(i) : stop(i) <= k
  <2>1. Bytes + 1 \in Stops(i) /\ Stops(i) \in SUBSET Nat
    BY <1>0
  <2> HIDE DEF Stops
  <2>2. \E j \in Stops(i) : \A k \in Stops(i) : j <= k
    BY <2>1, LeastTurn
  <2> QED
    BY <2>2
<1>5. ASSUME NEW i \in 1..Bytes, s[i] = e[i] PROVE stop(i) = stop(i + 1)
  <2>1. Stops(i) = Stops(i + 1)
    BY <1>0, <1>5
  <2> HIDE DEF Stops
  <2> QED
    BY <2>1
<1>6. ASSUME NEW i \in 1..(Bytes + 1), i = Bytes + 1 \/ s[i] # e[i] PROVE stop(i) = i
  <2>1. i \in Stops(i) /\ \A k \in Stops(i) : k \in Int /\ i <= k
    BY <1>0, <1>6
  <2> QED
    BY <1>4, <2>1
<1> HIDE DEF stop
<1>7. ASSUME NEW i \in 1..(Bytes + 1)
      PROVE  /\ stop(i) \in i..(Bytes + 1)
             /\ stop(i) # Bytes + 1 => stop(i) \in 1..Bytes /\ s[stop(i)] # e[stop(i)]
             /\ rest(stop(i)) \in 0..(ByteBits - 1)
  <2>1. stop(i) \in i..(Bytes + 1) /\ (stop(i) = Bytes + 1 \/ s[stop(i)] # e[stop(i)])
    BY <1>4
  <2>2. stop(i) # Bytes + 1 => stop(i) \in 1..Bytes
    BY <1>0, <2>1
  <2> QED
    BY <1>0, <1>3, <2>1, <2>2
<1>8. ASSUME NEW i \in 1..(Bytes + 1)
      PROVE  g[i] = IF i = Bytes + 1 THEN 0
                    ELSE IF s[i] = e[i] THEN ByteBits + g[i + 1] ELSE bit(i)
  <2>0. g[i] = ByteBits * (stop(i) - i) + rest(stop(i))
    OBVIOUS
  <2>1. CASE i = Bytes + 1
    BY <1>0, <1>6, <2>0, <2>1
  <2>2. CASE i # Bytes + 1 /\ s[i] = e[i]
    <3>1. i \in 1..Bytes /\ i + 1 \in 1..(Bytes + 1)
      BY <1>0, <2>2
    <3>2. stop(i) = stop(i + 1) /\ stop(i) \in Int /\ rest(stop(i)) \in Int
      BY <1>0, <1>5, <1>7, <2>2, <3>1
    <3>3. g[i + 1] = ByteBits * (stop(i) - (i + 1)) + rest(stop(i))
      BY <3>1, <3>2
    <3> DEFINE r == rest(stop(i))
    <3> HIDE DEF g, rest
    <3>4. g[i] = ByteBits + g[i + 1]
      BY <1>0, <2>0, <3>2, <3>3
    <3> QED
      BY <2>2, <3>4
  <2>3. CASE i # Bytes + 1 /\ s[i] # e[i]
    <3>1. stop(i) = i /\ i \in 1..Bytes
      BY <1>0, <1>6, <2>3
    <3>2. rest(i) = bit(i) /\ bit(i) \in Int
      BY <1>0, <1>3, <2>3, <3>1
    <3> HIDE DEF g, rest
    <3>3. g[i] = bit(i)
      BY <1>0, <2>0, <3>1, <3>2
    <3> QED
      BY <2>3, <3>3
  <2> QED
    BY <2>1, <2>2, <2>3
<1>9. g[1] = ByteBits * (stop(1) - 1) + rest(stop(1)) /\ g = [i \in 1..(Bytes + 1) |-> g[i]]
  BY <1>0
<1> HIDE DEF g
<1>10. Common(g)
  BY <1>8, <1>9
<1>11. Common(f)
  <2> HIDE DEF Common
  <2> QED
    BY <1>10
<1> HIDE DEF f
<1>12. f[1] = g[1]
  <2>1. \A i \in 1..(Bytes + 1) :
          f[i] = IF i = Bytes + 1 THEN 0
                 ELSE IF s[i] = e[i] THEN ByteBits + f[i + 1] ELSE bit(i)
    BY <1>11
  <2>2. f[Bytes + 1] = g[Bytes + 1]
    BY <1>0, <1>8, <2>1
  <2>3. ASSUME NEW i \in 1..Bytes, f[i + 1] = g[i + 1] PROVE f[i] = g[i]
    <3>1. i \in 1..(Bytes + 1) /\ i # Bytes + 1
      BY <1>0
    <3> QED
      BY <1>8, <2>1, <2>3, <3>1
  <2>4. 1 \in 1..(Bytes + 1)
    BY <1>0
  <2> QED
    BY <2>2, <2>3, <2>4, DownwardEqual
<1> DEFINE j == stop(1)
<1>13. /\ j \in 1..(Bytes + 1) /\ rest(j) \in 0..(ByteBits - 1)
       /\ j # Bytes + 1 => j \in 1..Bytes /\ s[j] # e[j]
       /\ f[1] = ByteBits * (j - 1) + rest(j)
  BY <1>0, <1>7, <1>9, <1>12
<1>14. \A i \in 1..(j - 1) : s[i] = e[i]
  <2> SUFFICES ASSUME NEW i \in 1..(j - 1), s[i] # e[i] PROVE FALSE
    OBVIOUS
  <2>1. i \in Stops(1)
    BY <1>0, <1>13
  <2>2. stop(1) <= i
    BY <1>0, <1>4, <2>1
  <2> QED
    BY <1>13, <2>2
<1> HIDE DEF j
<1>15. Upto(start, j - 1) = Upto(end, j - 1)
  <2> DEFINE T == {i \in 0..(j - 1) : Upto(start, i) = Upto(end, i)}
  <2>1. 0 \in T
    BY <1>0, <1>13, UptoEnds
  <2>2. ASSUME NEW i \in 1..(j - 1), i - 1 \in T PROVE i \in T
    <3>1. i \in 1..Bytes /\ i \in 0..(j - 1)
      BY <1>0, <1>13
    <3>2. Upto(start, i) = Base * Upto(start, i - 1) + s[i]
      BY <1>0, <3>1, Digits DEF s
    <3>3. Upto(end, i) = Base * Upto(end, i - 1) + e[i]
      BY <1>0, <3>1, Digits DEF e
    <3> QED
      BY <1>14, <2>2, <3>1, <3>2, <3>3
  <2> HIDE DEF T
  <2>3. j - 1 \in Nat /\ j - 1 \in 0..(j - 1)
    BY <1>0, <1>13
  <2>4. j - 1 \in T
    BY <2>1, <2>2, <2>3, Upward
  <2> QED
    BY <2>4 DEF T
<1>16. CASE j = Bytes + 1
  <2>1. start = end
    BY <1>0, <1>15, <1>16, UptoEnds
  <2>2. f[1] = Width
    BY <1>0, <1>13, <1>16 DEF Width
  <2> QED
    BY <1>0, <1>1, <2>1, <2>2 DEF Agree
<1>17. CASE j # Bytes + 1
  <2> DEFINE n == bit(j)
             c == ByteBits * (j - 1) + n
  <2>1. /\ j \in 1..Bytes /\ n \in 0..(ByteBits - 1) /\ f[1] = c
        /\ high(s[j], n) = high(e[j], n) /\ high(s[j], n + 1) # high(e[j], n + 1)
    BY <1>3, <1>13, <1>17
  <2> HIDE DEF n
  <2>2. n \in 0..ByteBits /\ n + 1 \in 0..ByteBits
    BY <1>0, <2>1
  <2>3. Agree(start, end, c)
    BY <1>0, <1>15, <2>1, <2>2, AgreeInByte DEF s, e
  <2>4. ~Agree(start, end, ByteBits * (j - 1) + (n + 1))
    BY <1>0, <1>15, <2>1, <2>2, AgreeInByte DEF s, e
  <2>5. ByteBits * (j - 1) \in Nat /\ ByteBits * (j - 1) <= ByteBits * (Bytes - 1)
    BY <1>0, <2>1
  <2>6. ByteBits * (Bytes - 1) = Width - ByteBits
    BY <1>0 DEF Width
  <2>7. c \in 0..Width /\ c + 1 = ByteBits * (j - 1) + (n + 1)
    BY <1>0, <2>1, <2>5, <2>6
  <2> HIDE DEF c
  <2> QED
    BY <1>1, <2>1, <2>3, <2>4, <2>7
<1> QED
  BY <1>16, <1>17

\* exactCIDRForAddressRange finds the CIDR of a range if there is one: the bits
\* the first and the last address of a CIDR have in common are its length.
LEMMA ExactCIDR ==
    ASSUME NEW start \in Addresses, NEW end \in Addresses, start <= end
    PROVE  LET cidr == exactCIDRForAddressRange(start, end)
           IN  /\ cidr \in Prefixes \cup {None}
               /\ cidr # None <=> IsCIDR(start..end)
               /\ cidr # None => AddressesOf(cidr) = start..end
<1>0. Width \in Nat /\ start \in Int /\ end \in Int
  BY WidthIsNat, Powers DEF Addresses
<1>1. PICK c \in 0..Width :
        /\ RangeToCIDR(start, end) = Masked([addr |-> start, bits |-> c])
        /\ Agree(start, end, c)
        /\ c < Width => ~Agree(start, end, c + 1)
  BY CommonBits
<1> DEFINE p == [addr |-> start, bits |-> c]
           m == Masked(p)
           z == pow2[Width - c]
           cidr == exactCIDRForAddressRange(start, end)
<1>2. p \in Prefixes /\ p.addr = start /\ p.bits = c
  BY DEF Prefixes
<1>3. m \in Prefixes /\ m.bits = c /\ m.addr = Placed(p, 0) /\ m # None
      /\ m.addr \div z = start \div z
  BY <1>2, MaskedIsFirst, AddressMathConstants
<1>4. cidr = IF m.addr = start /\ lastAddrOfPrefix(m) = end THEN m ELSE None
  BY <1>1 DEF exactCIDRForAddressRange
<1> HIDE DEF p, m, cidr
<1>5. AddressesOf(m) = m.addr..lastAddrOfPrefix(m) /\ Cardinality(AddressesOf(m)) = z
      /\ AddressesOf(m) = AddressesOf(p)
  <2>1. Placed(m, 0) = Placed(p, 0)
    BY <1>2, <1>3, MaskedIsFirst
  <2>2. Placed(m, -1) = Placed(p, -1)
    BY <1>2, <1>3, <2>1, PrefixAddresses
  <2>3. lastAddrOfPrefix(m) = Placed(m, -1) /\ Cardinality(AddressesOf(m)) = z
    BY <1>3, PrefixAddresses
  <2> QED
    BY <1>3, <2>1, <2>2, <2>3 DEF AddressesOf
<1>6. ASSUME cidr # None PROVE AddressesOf(cidr) = start..end /\ IsCIDR(start..end)
  <2>1. cidr = m /\ m.addr = start /\ lastAddrOfPrefix(m) = end
    BY <1>4, <1>6
  <2>2. AddressesOf(m) = start..end
    BY <1>5, <2>1
  <2>3. start \in start..end
    BY <1>0
  <2>4. /\ Cardinality(start..end) = pow2[Width - c]
        /\ start..end = AddressesOf([addr |-> start, bits |-> c])
    BY <1>5, <2>2 DEF p
  <2> QED
    BY <2>1, <2>2, <2>3, <2>4 DEF IsCIDR
<1>7. ASSUME IsCIDR(start..end) PROVE cidr # None
  <2>1. PICK bits \in 0..Width, a \in start..end :
          start..end = AddressesOf([addr |-> a, bits |-> bits])
    BY <1>7 DEF IsCIDR
  <2> DEFINE o == [addr |-> a, bits |-> bits]
             y == pow2[Width - bits]
  <2>2. a \in Addresses
    BY <1>0, WidthIsNat, Powers DEF Addresses
  <2>3. o \in Prefixes /\ o.addr = a /\ o.bits = bits
    BY <2>2 DEF Prefixes
  <2> HIDE DEF o
  <2>4. /\ y \in Nat /\ y > 0 /\ Placed(o, 0) \in Int
        /\ start..end = Placed(o, 0)..(Placed(o, 0) + (y - 1))
        /\ \A x \in Int : x \in start..end <=> x \div y = a \div y
        /\ Placed(o, 0) = y * (a \div y)
    BY <2>1, <2>3, PrefixAddresses, MaskedIsFirst DEF o
  <2> DEFINE first == Placed(o, 0)
  <2> HIDE DEF first, y
  <2>5. start = first /\ end = first + (y - 1)
    <3>1. start \in start..end /\ end \in start..end
      BY <1>0
    <3>2. start..end = first..(first + (y - 1)) /\ first \in Int
      BY <2>4 DEF first
    <3>3. first \in first..(first + (y - 1)) /\ first + (y - 1) \in first..(first + (y - 1))
      BY <2>4, <3>2
    <3>4. start >= first /\ end <= first + (y - 1) /\ first >= start /\ first + (y - 1) <= end
      BY <1>0, <2>4, <3>1, <3>2, <3>3
    <3> QED
      BY <1>0, <2>4, <3>2, <3>4
  <2>6. Agree(start, end, bits)
    <3>1. start \in start..end /\ end \in start..end
      BY <1>0
    <3> QED
      BY <1>0, <2>4, <3>1 DEF Agree, y
  <2>7. c >= bits
    <3> SUFFICES ASSUME c < bits PROVE FALSE
      BY <1>0
    <3>1. c + 1 \in 0..Width /\ bits \in (c + 1)..Width /\ c < Width
      BY <1>0
    <3> QED
      BY <1>0, <1>1, <2>6, <3>1, AgreeOnFewer
  <2>8. c <= bits
    <3> SUFFICES ASSUME c > bits PROVE FALSE
      BY <1>0
    <3>1. /\ bits + 1 \in 0..Width /\ c \in (bits + 1)..Width
          /\ Width - bits \in 1..Width /\ (Width - bits) - 1 = Width - (bits + 1)
          /\ Width - (bits + 1) \in 0..Width
      BY <1>0
    <3> DEFINE x == pow2[Width - (bits + 1)]
               u == a \div y
    <3>2. x \in Nat /\ x > 0 /\ y = 2 * x
      BY <3>1, Powers DEF y
    <3>3. Agree(start, end, bits + 1)
      BY <1>0, <1>1, <3>1, AgreeOnFewer
    <3>4. start \div x = end \div x
      BY <3>3 DEF Agree
    <3>5. a \in Int /\ u \in Int
      <4>1. a \in Int
        BY <1>0
      <4> QED
        BY <2>4, <4>1, DivMod
    <3> HIDE DEF x, u
    <3>6. start = x * (2 * u) + 0 /\ end = x * (2 * u + 1) + (x - 1)
      BY <2>4, <2>5, <3>2, <3>5 DEF first, u
    <3>7. 0 \in 0..(x - 1) /\ x - 1 \in 0..(x - 1) /\ 2 * u \in Int /\ 2 * u + 1 \in Int
      BY <3>2, <3>5
    <3>8. start \div x = 2 * u /\ end \div x = 2 * u + 1
      BY <3>2, <3>6, <3>7, Unique
    <3> QED
      BY <3>4, <3>5, <3>8
  <2>9. c = bits /\ z = y
    BY <1>0, <2>7, <2>8 DEF y
  <2>10. m.addr = first
    <3>1. start \in start..end
      BY <1>0
    <3>2. start \div y = a \div y
      BY <1>0, <2>4, <3>1
    <3>3. Placed(p, 0) = Placed(o, 0)
      BY <1>2, <2>3, <2>9, <3>2, MaskedIsFirst DEF y
    <3> QED
      BY <1>3, <3>3 DEF first
  <2>11. lastAddrOfPrefix(m) = m.addr + (y - 1)
    <3>1. lastAddrOfPrefix(m) = Placed(m, 0) + (z - 1) /\ Placed(m, 0) = Placed(p, 0)
      BY <1>2, <1>3, PrefixAddresses, MaskedIsFirst
    <3> QED
      BY <1>3, <2>9, <3>1
  <2> QED
    BY <1>3, <1>4, <2>5, <2>10, <2>11
<1> QED
  BY <1>3, <1>4, <1>6, <1>7 DEF cidr

-----------------------------------------------------------------------------
\* The DynamicPrefix is what it may be.
Followed == layout \in Layouts /\ status \in Statuses \cup {None}

LEMMA RangeOrSubnet ==
    ASSUME NEW l \in Layouts
    PROVE  /\ IsRange(l) => l.first \in Addresses /\ l.last \in Addresses
           /\ ~IsRange(l) => l.length \in 0..Width /\ l.offset \in Nat
  BY BoundPoolConstants DEF IsRange, RangeLayouts, SubnetLayouts

LEMMA WindowIsTyped ==
    ASSUME NEW l \in Layouts, NEW p \in Delegated
    PROVE  /\ p \in Prefixes
           /\ configWindow[l][p] = window(l, p)
           /\ configCIDR[l][p] = calicoCIDRForConfig(l, p)
           /\ window(l, p) \in Windows \cup {None}
<1>1. p \in Prefixes
  BY BoundPoolConstants
<1>2. /\ configWindow[l][p] = window(l, p)
      /\ configCIDR[l][p] = calicoCIDRForConfig(l, p)
  BY DEF configWindow, configCIDR
<1>3. CASE IsRange(l)
  <2>1. /\ l.first \in Addresses /\ l.last \in Addresses
        /\ l.first \in Int /\ l.last \in Int
    BY <1>3, RangeOrSubnet, WidthIsNat, Powers DEF Addresses
  <2>2. Placed(p, l.first) \in Addresses /\ Placed(p, l.last) \in Addresses
    BY <1>1, <2>1, PlacedIsAddress
  <2>3. window(l, p) = IF Placed(p, l.first) > Placed(p, l.last) THEN None
                       ELSE [start |-> Placed(p, l.first), end |-> Placed(p, l.last)]
    BY <1>1, <1>3, <2>1, RangeWindow DEF window
  <2> QED
    BY <1>1, <1>2, <2>2, <2>3 DEF Windows
<1>4. CASE ~IsRange(l)
  <2> DEFINE n == CalculateSubnet(p, l.length, l.offset)
  <2>1. n = None \/ (n \in Prefixes /\ n.addr = Placed(n, 0))
    BY <1>1, <1>4, RangeOrSubnet, SubnetWindow
  <2>2. window(l, p) = IF n = None THEN None ELSE [start |-> n.addr, end |-> lastAddrOfPrefix(n)]
    BY <1>4 DEF window
  <2> HIDE DEF n
  <2>3. n \in Prefixes => n.addr \in Addresses /\ lastAddrOfPrefix(n) \in Addresses
    BY PrefixAddresses DEF Prefixes
  <2> QED
    BY <1>1, <1>2, <2>1, <2>2, <2>3 DEF Windows
<1> QED
  BY <1>3, <1>4

\* Byte by byte or as a number, an address ends up at the same place.
LEMMA OffsetsAreCarried == Followed => OffsetsCarried
<1> SUFFICES ASSUME Followed, status # None, status.current # None,
                    NEW i \in 1..Len(status.history), NEW a \in AddressesOf(status.current)
             PROVE  LET q == status.history[i]
                        w == configWindow[layout][status.current]
                        v == configWindow[layout][q]
                    IN  /\ w # None /\ v # None =>
                             historicalIP(w, v, a) =
                                 IF a >= w.start /\ v.start + (a - w.start) <= v.end
                                 THEN v.start + (a - w.start) ELSE None
                        /\ combinePrefixSuffix(q, a) = Placed(q, a)
  BY DEF OffsetsCarried
<1> DEFINE q == status.history[i]
           w == configWindow[layout][status.current]
           v == configWindow[layout][q]
<1>1. layout \in Layouts /\ status.current \in Delegated /\ q \in Delegated
  BY DEF Followed, Statuses
<1>2. /\ status.current \in Prefixes /\ q \in Prefixes
      /\ w \in Windows \cup {None} /\ v \in Windows \cup {None}
  BY <1>1, WindowIsTyped
<1>3. a \in Addresses /\ a \in Int
  <2> DEFINE first == Placed(status.current, 0)
             size == pow2[Width - status.current.bits]
  <2>1. /\ first \in Addresses /\ first \in Int /\ size \in Nat /\ size > 0
        /\ first + (size - 1) \in Addresses
        /\ AddressesOf(status.current) = first..(first + (size - 1))
    BY <1>2, PrefixAddresses
  <2> HIDE DEF first, size
  <2> QED
    BY <2>1, WidthIsNat, Powers DEF Addresses
<1> HIDE DEF q, w, v
<1>4. w # None /\ v # None =>
        historicalIP(w, v, a) =
            IF a >= w.start /\ v.start + (a - w.start) <= v.end
            THEN v.start + (a - w.start) ELSE None
  BY <1>2, <1>3, HistoricalIPIsCarried
<1>5. combinePrefixSuffix(q, a) = Placed(q, a)
  BY <1>2, <1>3, CombinedIsPlaced
<1> QED
  BY <1>4, <1>5 DEF q, w, v

LEMMA WindowsAreExact == Followed => WindowsExact
<1> SUFFICES ASSUME Followed, NEW p \in collectManagedPrefixes
             PROVE  LET w == configWindow[layout][p]
                        c == configCIDR[layout][p]
                        size == pow2[Width - layout.length]
                    IN  /\ IF IsRange(layout)
                           THEN w # None <=> Placed(p, layout.first) <= Placed(p, layout.last)
                           ELSE w # None <=> /\ p.bits <= layout.length
                                             /\ layout.offset < Cardinality(AddressesOf(p)) \div size
                        /\ w # None =>
                             /\ w.start..w.end \subseteq AddressesOf(p)
                             /\ IF IsRange(layout)
                                THEN w.start = Placed(p, layout.first) /\ w.end = Placed(p, layout.last)
                                ELSE Cardinality(w.start..w.end) = size
                             /\ c # None <=> IsCIDR(w.start..w.end)
                             /\ c # None => AddressesOf(c) = w.start..w.end
  BY DEF WindowsExact
<1> DEFINE w == configWindow[layout][p]
           c == configCIDR[layout][p]
           size == pow2[Width - layout.length]
<1>1. layout \in Layouts /\ p \in Delegated
  BY ManagedAreDelegated DEF Followed
<1>2. /\ p \in Prefixes /\ w = window(layout, p)
      /\ c = calicoCIDRForConfig(layout, p)
      /\ w \in Windows \cup {None}
  BY <1>1, WindowIsTyped
<1> HIDE DEF w, c
<1>3. CASE IsRange(layout)
  <2> DEFINE first == Placed(p, layout.first)
             last == Placed(p, layout.last)
             whole == pow2[Width - p.bits]
  <2>1. /\ layout.first \in Addresses /\ layout.last \in Addresses
        /\ layout.first \in Int /\ layout.last \in Int
    BY <1>1, <1>3, RangeOrSubnet, WidthIsNat, Powers DEF Addresses
  <2>2. /\ first \in Addresses /\ last \in Addresses
        /\ first \div whole = p.addr \div whole /\ last \div whole = p.addr \div whole
    BY <1>2, <2>1, PlacedIsAddress
  <2>3. first \in Int /\ last \in Int
    BY <2>2, WidthIsNat, Powers DEF Addresses
  <2>4. w = IF first > last THEN None ELSE [start |-> first, end |-> last]
    BY <1>2, <1>3, <2>1, RangeWindow DEF window
  <2>5. first \in AddressesOf(p) /\ last \in AddressesOf(p)
    BY <1>2, <2>2, <2>3, PrefixAddresses
  <2>6. first..last \subseteq AddressesOf(p)
    <3> DEFINE base == Placed(p, 0)
    <3>1. /\ base \in Int /\ whole \in Nat
          /\ AddressesOf(p) = base..(base + (whole - 1))
      BY <1>2, PrefixAddresses
    <3> HIDE DEF first, last, base, whole
    <3> QED
      BY <2>3, <2>5, <3>1
  <2> HIDE DEF first, last
  <2>7. [start |-> first, end |-> last] # None
    BY <2>2, AddressMathConstants DEF Windows
  <2>8. w # None <=> first <= last
    BY <2>3, <2>4, <2>7
  <2>9. ASSUME w # None
        PROVE  /\ w.start = first /\ w.end = last
               /\ c # None <=> IsCIDR(first..last)
               /\ c # None => AddressesOf(c) = first..last
    <3>1. w = [start |-> first, end |-> last] /\ first <= last
      BY <2>3, <2>4, <2>9
    <3>2. c = exactCIDRForAddressRange(first, last)
      BY <1>2, <1>3, <2>9, <3>1 DEF calicoCIDRForConfig
    <3>3. /\ c # None <=> IsCIDR(first..last)
          /\ c # None => AddressesOf(c) = first..last
      BY <2>2, <3>1, <3>2, ExactCIDR
    <3> QED
      BY <3>1, <3>3
  <2> QED
    BY <1>3, <2>6, <2>8, <2>9 DEF first, last, w, c
<1>4. CASE ~IsRange(layout)
  <2> DEFINE inside == /\ p.bits <= layout.length
                       /\ layout.offset < Cardinality(AddressesOf(p)) \div size
             n == CalculateSubnet(p, layout.length, layout.offset)
  <2>1. layout.length \in 0..Width /\ layout.offset \in Nat
    BY <1>1, <1>4, RangeOrSubnet
  <2>2. /\ ~inside => n = None
        /\ inside => /\ n \in Prefixes /\ n # None /\ n.bits = layout.length
                     /\ n.addr = Placed(n, 0)
                     /\ AddressesOf(n) \subseteq AddressesOf(p)
    BY <1>2, <2>1, SubnetWindow
  <2>3. c = n
    BY <1>2, <1>4 DEF calicoCIDRForConfig
  <2>4. w = IF n = None THEN None ELSE [start |-> n.addr, end |-> lastAddrOfPrefix(n)]
    BY <1>2, <1>4 DEF window
  <2> HIDE DEF n, inside
  <2>5. CASE ~inside
    BY <1>4, <2>2, <2>4, <2>5 DEF inside, w
  <2>6. CASE inside
    <3>1. /\ n.addr = Placed(n, 0) /\ lastAddrOfPrefix(n) = Placed(n, -1)
          /\ AddressesOf(n) = n.addr..lastAddrOfPrefix(n)
          /\ Cardinality(AddressesOf(n)) = size
          /\ n.addr \in Addresses /\ lastAddrOfPrefix(n) \in Addresses
      BY <2>2, <2>6, PrefixAddresses DEF AddressesOf, Prefixes
    <3>2. w = [start |-> n.addr, end |-> lastAddrOfPrefix(n)]
      BY <2>2, <2>4, <2>6
    <3>3. w # None
      BY <3>1, <3>2, AddressMathConstants DEF Windows
    <3>4. w.start..w.end = AddressesOf(n)
      BY <3>1, <3>2
    <3>5. IsCIDR(AddressesOf(n))
      <4>1. n = [addr |-> n.addr, bits |-> layout.length]
        BY <2>2, <2>6 DEF Prefixes
      <4>2. n.addr \in AddressesOf(n)
        <5> DEFINE s == pow2[Width - n.bits]
        <5>1. /\ Placed(n, 0) \in Int /\ s \in Nat /\ s > 0
              /\ AddressesOf(n) = Placed(n, 0)..(Placed(n, 0) + (s - 1))
          BY <2>2, <2>6, PrefixAddresses
        <5> HIDE DEF s
        <5>2. Placed(n, 0) \in Placed(n, 0)..(Placed(n, 0) + (s - 1))
          BY <5>1
        <5> QED
          BY <3>1, <5>1, <5>2
      <4> DEFINE a == n.addr
      <4>3. /\ a \in AddressesOf(n)
            /\ AddressesOf(n) = AddressesOf([addr |-> a, bits |-> layout.length])
        BY <4>1, <4>2
      <4> HIDE DEF a
      <4> QED
        BY <2>1, <3>1, <4>3 DEF IsCIDR
    <3> QED
      BY <1>4, <2>2, <2>3, <2>6, <3>1, <3>3, <3>4, <3>5 DEF inside, w, c
  <2> QED
    BY <2>5, <2>6
<1> QED
  BY <1>3, <1>4

-----------------------------------------------------------------------------
(* The invariants of the two backends. *)
LEMMA CalicoFollows == Spec => []Followed
<1>1. Init => Followed
  BY DEF Init, Followed, NoPrefixYet, Statuses
<1>2. Followed /\ [Next]_vars => Followed'
  <2> SUFFICES ASSUME Followed, [Next]_vars PROVE Followed'
    OBVIOUS
  <2> USE DEF Followed
  <2>1. CASE FollowsPrefix
    <3>1. \E s : StatusChanges(s, pool # None /\ pool.bound)
      BY <2>1 DEF FollowsPrefix, Rotates, DynamicPrefixDeleted
    <3> QED
      BY <3>1 DEF StatusChanges
  <2>2. CASE UserEdits
    BY <2>2 DEF UserEdits, UserWrites
  <2>3. CASE Reconcile
    BY <2>3 DEF Reconcile, Begin, CreateSibling, ListSiblings, DeleteSibling, UpdatePool
  <2>4. CASE UNCHANGED vars
    BY <2>4 DEF vars
  <2> QED
    BY <2>1, <2>2, <2>3, <2>4 DEF Next
<1> QED
  BY <1>1, <1>2, PTL DEF Spec

LEMMA KubevipFollows == KubevipSpec => []Followed
<1>1. KubevipInit => Followed
  BY DEF KubevipInit, Followed, NoPrefixYet, Statuses
<1>2. Followed /\ [KubevipNext]_kubevipVars => Followed'
  <2> SUFFICES ASSUME Followed, [KubevipNext]_kubevipVars PROVE Followed'
    OBVIOUS
  <2> USE DEF Followed
  <2>1. CASE ConfigMapFollows
    <3>1. \E s : StatusChanges(s, cm.bound)
      BY <2>1 DEF ConfigMapFollows, Rotates, DynamicPrefixDeleted
    <3> QED
      BY <3>1 DEF StatusChanges
  <2>2. CASE UserEditsConfigMap
    BY <2>2 DEF UserEditsConfigMap, UserWritesConfigMap
  <2>3. CASE KubevipReconcile
    BY <2>3 DEF KubevipReconcile, LeaveAlone, CannotRender, kubevipVars, Prepare, Update
  <2>4. CASE UNCHANGED kubevipVars
    BY <2>4 DEF kubevipVars
  <2> QED
    BY <2>1, <2>2, <2>3, <2>4 DEF KubevipNext
<1> QED
  BY <1>1, <1>2, PTL DEF KubevipSpec

\* The address of a Service is carried to a draining prefix by its distance from
\* the start of the window, whatever the number of bytes and bits: the borrow and
\* the carry from byte to byte lose nothing, and both routines that put a suffix
\* into a prefix put it at the same place (calculateIPOffset, applyIPOffset and
\* combinePrefixSuffix, servicesync_controller.go).
THEOREM AddressesAreCarried == (Spec \/ KubevipSpec) => []OffsetsCarried
  BY CalicoFollows, KubevipFollows, OffsetsAreCarried, PTL

\* Every window of every prefix is where its suffixes or its number put it and
\* inside the prefix, a subnet exists exactly for the numbers that fit, and a
\* range has a Calico CIDR exactly if its addresses are those of one
\* (CalculateAddressRange, CalculateSubnet and exactCIDRForAddressRange).
THEOREM WindowsStayExact == (Spec \/ KubevipSpec) => []WindowsExact
  BY CalicoFollows, KubevipFollows, WindowsAreExact, PTL

-----------------------------------------------------------------------------
LEMMA CIDRIsTyped ==
    ASSUME NEW l \in Layouts, NEW p \in Delegated
    PROVE  configCIDR[l][p] \in Prefixes \cup {None}
<1>1. /\ p \in Prefixes /\ configCIDR[l][p] = calicoCIDRForConfig(l, p)
      /\ window(l, p) \in Windows \cup {None}
  BY WindowIsTyped
<1>2. CASE ~IsRange(l)
  BY <1>1, <1>2, RangeOrSubnet, SubnetWindow DEF calicoCIDRForConfig
<1>3. CASE IsRange(l) /\ window(l, p) = None
  BY <1>1, <1>3 DEF calicoCIDRForConfig
<1>4. CASE IsRange(l) /\ window(l, p) # None
  <2> DEFINE w == window(l, p)
  <2>1. l.first \in Addresses /\ l.last \in Addresses /\ l.first \in Int /\ l.last \in Int
    BY <1>4, RangeOrSubnet, WidthIsNat, Powers DEF Addresses
  <2>2. w = IF Placed(p, l.first) > Placed(p, l.last) THEN None
            ELSE [start |-> Placed(p, l.first), end |-> Placed(p, l.last)]
    BY <1>1, <1>4, <2>1, RangeWindow DEF window
  <2>3. /\ Placed(p, l.first) \in Addresses /\ Placed(p, l.last) \in Addresses
        /\ Placed(p, l.first) \in Int /\ Placed(p, l.last) \in Int
    <3>1. Placed(p, l.first) \in Addresses /\ Placed(p, l.last) \in Addresses
      BY <1>1, <2>1, PlacedIsAddress
    <3> QED
      BY <3>1, WidthIsNat, Powers DEF Addresses
  <2>4. w.start \in Addresses /\ w.end \in Addresses /\ w.start <= w.end
    BY <1>4, <2>2, <2>3
  <2>5. configCIDR[l][p] = exactCIDRForAddressRange(w.start, w.end)
    BY <1>1, <1>4 DEF calicoCIDRForConfig
  <2> HIDE DEF w
  <2> QED
    BY <2>4, <2>5, ExactCIDR
<1> QED
  BY <1>2, <1>3, <1>4

LEMMA StatusIsTyped ==
    ASSUME NEW s, NEW bound \in BOOLEAN, StatusChanges(s, bound), TypeOK
    PROVE  /\ layout' \in Layouts /\ status' \in Statuses \cup {None}
           /\ woken' \in BOOLEAN
           /\ rotations' \in 0..MaxRotations /\ edits' \in 0..MaxEdits /\ faults' \in 0..MaxFaults
  BY BoundPoolConstants DEF StatusChanges, TypeOK

\* What a fault does to its counter.
LEMMA FaultsAreTyped ==
    ASSUME NEW refused \in BOOLEAN, FaultUnless(refused), faults \in 0..MaxFaults
    PROVE  faults' \in 0..MaxFaults
  BY BoundPoolConstants DEF FaultUnless

\* The types of the Calico backend: the CIDR a pool or a sibling is given is a
\* prefix, of the pool a pass read and of whatever it is to write.
THEOREM CalicoTypeCorrect == Spec => []TypeOK
<1>1. Init => TypeOK
  <2> SUFFICES ASSUME Init PROVE TypeOK
    OBVIOUS
  <2>1. status \in Statuses
    BY DEF Init, NoPrefixYet, Statuses
  <2>2. pool \in Pools
    BY CalicoConstants DEF Init, Pools
  <2>3. rotations \in 0..MaxRotations /\ edits \in 0..MaxEdits /\ faults \in 0..MaxFaults
    BY BoundPoolConstants DEF Init
  <2>4. woken \in BOOLEAN /\ stray \in BOOLEAN
    BY DEF Init
  <2> QED
    BY <2>1, <2>2, <2>3, <2>4 DEF Init, TypeOK
<1>2. TypeOK /\ [Next]_vars => TypeOK'
  <2> SUFFICES ASSUME TypeOK, [Next]_vars PROVE TypeOK'
    OBVIOUS
  <2>1. CASE UserEdits
    <3>1. ASSUME NEW p \in Pools \cup {None}, NEW loses \in BOOLEAN, UserWrites(p, loses)
          PROVE  TypeOK'
      <4>1. woken' \in BOOLEAN /\ stray' \in BOOLEAN
        BY <3>1, Zenon DEF UserWrites, TypeOK
      <4> QED
        BY <3>1, <4>1, BoundPoolConstants DEF UserWrites, TypeOK
    <3>2. pool # None => /\ [pool EXCEPT !.bound = ~@] \in Pools
                         /\ [pool EXCEPT !.cidr = UserCIDR] \in Pools
      BY CalicoConstants DEF TypeOK, Pools
    <3>3. [bound |-> TRUE, cidr |-> UserCIDR, record |-> None] \in Pools
      BY CalicoConstants DEF Pools
    <3>4. \E p \in Pools \cup {None}, loses \in BOOLEAN : UserWrites(p, loses)
      <4>1. CASE pool # None /\ UserWrites([pool EXCEPT !.bound = ~@], FALSE)
        BY <3>2, <4>1
      <4>2. CASE pool # None /\ UserWrites([pool EXCEPT !.cidr = UserCIDR], FALSE)
        BY <3>2, <4>2
      <4>3. CASE UserWrites(None, siblings # {})
        <5>1. (siblings # {}) \in BOOLEAN
          OBVIOUS
        <5> QED
          BY <4>3, <5>1
      <4>4. CASE UserWrites([bound |-> TRUE, cidr |-> UserCIDR, record |-> None], FALSE)
        BY <3>3, <4>4
      <4> QED
        BY <2>1, <4>1, <4>2, <4>3, <4>4 DEF UserEdits
    <3> QED
      BY <3>1, <3>4
  <2>2. CASE FollowsPrefix
    <3>1. PICK s : StatusChanges(s, pool # None /\ pool.bound)
      BY <2>2 DEF FollowsPrefix, Rotates, DynamicPrefixDeleted
    <3>2. (pool # None /\ pool.bound) \in BOOLEAN
      OBVIOUS
    <3> QED
      BY <2>2, <3>1, <3>2, StatusIsTyped DEF FollowsPrefix, TypeOK
  <2>3. CASE Begin
    <3>0. UNCHANGED <<layout, status, pool, siblings, stray, rotations, edits, faults>>
      BY <2>3 DEF Begin, bounds
    <3>1. ASSUME NEW cidr \in Prefixes \cup {None}, NEW keep \in SUBSET Prefixes,
                 pool # None, StartPass(cidr, keep)
          PROVE  pass' \in Passes
      <4>1. pool \in Pools /\ edits \in Nat
        BY <3>1, BoundPoolConstants DEF TypeOK
      <4> QED
        BY <3>1, <4>1 DEF StartPass, Passes
    <3>2. ASSUME status # None, status.current # None
          PROVE  /\ configCIDR[layout][configured(status)] \in Prefixes \cup {None}
                 /\ draining(status) \subseteq Prefixes
      <4>1. /\ layout \in Layouts /\ configured(status) \in Delegated
            /\ elements(status.history) \subseteq Delegated
        BY <3>2 DEF TypeOK, Statuses, elements, configured
      <4> QED
        BY <4>1, CIDRIsTyped DEF draining
    <3>3. woken' \in BOOLEAN
      BY <2>3 DEF Begin, Return, Fail, StartPass
    <3>4. pass' \in Passes \cup {None}
      BY <2>3, <3>1, <3>2 DEF Begin, Return, Fail
    <3> QED
      BY <3>0, <3>3, <3>4 DEF TypeOK
  <2>4. CASE CreateSibling
    <3>1. pass \in Passes
      BY <2>4 DEF CreateSibling, TypeOK
    <3>2. PICK c \in pass.create :
            \/ /\ pass' = [pass EXCEPT !.create = @ \ {c}]
               /\ siblings' = siblings \/ siblings' = siblings \cup {c}
               /\ stray' = stray \/ stray' = (stray \/ pool = None \/ pool.record = None)
               /\ woken' = woken /\ faults' = faults
            \/ /\ FaultUnless(Refused(c)) /\ pass' = None /\ woken' = TRUE
               /\ siblings' = siblings /\ stray' = stray
      BY <2>4 DEF CreateSibling, Fail
    <3>3. c \in Prefixes /\ [pass EXCEPT !.create = @ \ {c}] \in Passes
      BY <3>1 DEF Passes
    <3>4. Refused(c) \in BOOLEAN
      BY DEF Refused
    <3>5. faults' \in 0..MaxFaults
      BY <3>2, <3>4, FaultsAreTyped DEF TypeOK
    <3>6. stray' \in BOOLEAN /\ woken' \in BOOLEAN
      BY <3>2, Zenon DEF TypeOK
    <3>7. pass' \in Passes \cup {None} /\ siblings' \subseteq Prefixes
      BY <3>2, <3>3 DEF TypeOK
    <3> QED
      BY <2>4, <3>5, <3>6, <3>7 DEF CreateSibling, TypeOK
  <2>5. CASE ListSiblings
    <3>1. pass \in Passes
      BY <2>5 DEF ListSiblings, TypeOK
    <3>2. [pass EXCEPT !.listed = TRUE, !.delete = siblings \ pass.keep] \in Passes
      <4>1. [pass EXCEPT !.listed = TRUE] \in Passes
        BY <3>1 DEF Passes
      <4>2. \A q \in Passes : [q EXCEPT !.delete = siblings \ pass.keep] \in Passes
        BY DEF Passes, TypeOK
      <4>3. [pass EXCEPT !.listed = TRUE, !.delete = siblings \ pass.keep]
              = [[pass EXCEPT !.listed = TRUE] EXCEPT !.delete = siblings \ pass.keep]
        OBVIOUS
      <4> QED
        BY <4>1, <4>2, <4>3
    <3>3. faults' \in 0..MaxFaults
      BY <2>5, FaultsAreTyped DEF ListSiblings, Fault, TypeOK
    <3> QED
      BY <2>5, <3>2, <3>3 DEF ListSiblings, Fail, TypeOK
  <2>6. CASE DeleteSibling
    <3>1. pass \in Passes
      BY <2>6 DEF DeleteSibling, TypeOK
    <3>2. \A c : [pass EXCEPT !.delete = @ \ {c}] \in Passes
      BY <3>1 DEF Passes
    <3>3. faults' \in 0..MaxFaults
      BY <2>6, FaultsAreTyped DEF DeleteSibling, Fault, TypeOK
    <3>4. stray' \in BOOLEAN
      BY <2>6, Zenon DEF DeleteSibling, TypeOK
    <3> QED
      BY <2>6, <3>2, <3>3, <3>4 DEF DeleteSibling, Fail, TypeOK
  <2>7. CASE UpdatePool
    <3>1. pass \in Passes
      BY <2>7 DEF UpdatePool, TypeOK
    <3>2. Written \in Pools
      <4>1. CASE pass.cidr = None
        BY <3>1, <4>1 DEF Written, Passes, Pools
      <4>2. CASE pass.cidr # None
        <5>1. /\ pass.cidr \in Prefixes /\ [pass.seen EXCEPT !.cidr = pass.cidr] \in Pools
              /\ \A q \in Pools : [q EXCEPT !.record = pass.cidr] \in Pools
          BY <3>1, <4>2 DEF Passes, Pools
        <5>2. Written = [[pass.seen EXCEPT !.cidr = pass.cidr] EXCEPT !.record = pass.cidr]
          BY <4>2 DEF Written
        <5> QED
          BY <5>1, <5>2
      <4> QED
        BY <4>1, <4>2
    <3> DEFINE refused == \/ edits # pass.version
                          \/ RejectsOverlap /\ \E d \in siblings : Overlap(Written.cidr, d)
    <3>3. \/ pass' = None /\ UNCHANGED <<pool, woken, stray, faults>>
          \/ /\ pool' = Written /\ pass' = None /\ woken' = (woken \/ Wakes(Written))
             /\ stray' = (stray /\ Written.record = None) /\ UNCHANGED faults
          \/ FaultUnless(refused) /\ pass' = None /\ woken' = TRUE /\ UNCHANGED <<pool, stray>>
      BY <2>7 DEF UpdatePool, Fail
    <3>4. refused \in BOOLEAN
      OBVIOUS
    <3> HIDE DEF refused
    <3>5. faults' \in 0..MaxFaults
      BY <3>3, <3>4, FaultsAreTyped DEF TypeOK
    <3>6. woken' \in BOOLEAN /\ stray' \in BOOLEAN
      BY <3>3, Zenon DEF TypeOK
    <3>7. pool' \in Pools \cup {None} /\ pass' = None
      BY <3>2, <3>3 DEF TypeOK
    <3> QED
      BY <2>7, <3>5, <3>6, <3>7 DEF UpdatePool, TypeOK
  <2>8. CASE UNCHANGED vars
    BY <2>8 DEF vars, bounds, TypeOK
  <2> QED
    BY <2>1, <2>2, <2>3, <2>4, <2>5, <2>6, <2>7, <2>8 DEF Next, Reconcile
<1> QED
  BY <1>1, <1>2, PTL DEF Spec

\* What update and release make of a ConfigMap is a ConfigMap.
LEMMA WrittenIsTyped ==
    ASSUME layout \in Layouts, status \in Statuses \cup {None}, NEW c \in ConfigMaps
    PROVE  /\ released(c) \in ConfigMaps
           /\ c.key \in Keys /\ None \notin kubevipEntriesFor(c.key) => updated(c) \in ConfigMaps
<1>0. \A q \in ConfigMaps, r \in (SUBSET Entries) \cup {None} :
        [q EXCEPT !.record = r] \in ConfigMaps
  BY DEF ConfigMaps
<1>1. \A q \in ConfigMaps, d \in [Keys -> SUBSET Entries] : [q EXCEPT !.data = d] \in ConfigMaps
  BY DEF ConfigMaps
<1>2. released(c) \in ConfigMaps
  <2> DEFINE data == [k \in Keys |-> c.data[k] \ Recorded(c)]
  <2>1. data \in [Keys -> SUBSET Entries]
    BY DEF ConfigMaps
  <2> DEFINE q == [c EXCEPT !.record = None]
  <2>2. q \in ConfigMaps
    BY <1>0
  <2>3. released(c) = [q EXCEPT !.data = data]
    BY DEF released
  <2> HIDE DEF data, q
  <2> QED
    BY <1>1, <2>1, <2>2, <2>3
<1>3. ASSUME c.key \in Keys, None \notin kubevipEntriesFor(c.key) PROVE updated(c) \in ConfigMaps
  <2> DEFINE preserved == {e \in c.data[c.key] : ~owned(c, e)}
             managed == kubevipEntriesFor(c.key) \ preserved
             data == [k \in Keys |-> IF k = c.key THEN preserved \cup managed
                                     ELSE c.data[k] \ Recorded(c)]
  <2>1. kubevipEntriesFor(c.key) \subseteq Entries
    <3>1. ASSUME NEW p \in configs PROVE kubevipEntryFor(c.key, p) \in Entries \cup {None}
      <4>1. p \in Delegated
        BY <3>1, ManagedAreDelegated
      <4>2. /\ configWindow[layout][p] \in Windows \cup {None}
            /\ configCIDR[layout][p] \in Prefixes \cup {None}
        BY <4>1, WindowIsTyped, CIDRIsTyped
      <4> QED
        BY <4>2 DEF kubevipEntryFor, Entries
    <3> QED
      BY <1>3, <3>1 DEF kubevipEntriesFor
  <2>2. preserved \subseteq Entries
    BY <1>3 DEF ConfigMaps
  <2> DEFINE q == [c EXCEPT !.record = managed]
  <2>3. updated(c) = [q EXCEPT !.data = data]
    BY DEF updated
  <2> HIDE DEF preserved
  <2>4. managed \subseteq Entries
    BY <2>1
  <2> HIDE DEF managed
  <2>5. q \in ConfigMaps
    BY <1>0, <2>4
  <2> HIDE DEF q
  <2>6. data \in [Keys -> SUBSET Entries]
    BY <2>2, <2>4 DEF ConfigMaps
  <2> HIDE DEF data
  <2> QED
    BY <1>1, <2>3, <2>5, <2>6
<1> QED
  BY <1>2, <1>3

\* The types of the kube-vip backend: what is written under a key and into the
\* record are windows and CIDRs, never the missing window of a prefix that is
\* too short (update, kubevip_backend.go:160).
THEOREM KubevipTypeCorrect == KubevipSpec => []KubevipTypeOK
<1> DEFINE Inv == KubevipTypeOK /\ edits \in Nat
<1>1. KubevipInit => Inv
  <2> SUFFICES ASSUME KubevipInit PROVE Inv
    OBVIOUS
  <2>1. status \in Statuses
    BY DEF KubevipInit, NoPrefixYet, Statuses
  <2>2. cm \in ConfigMaps /\ pins \in [Keys -> SUBSET Entries]
    BY DEF KubevipInit, ConfigMaps
  <2>3. woken \in BOOLEAN /\ edits \in Nat
    BY DEF KubevipInit
  <2> QED
    BY <2>1, <2>2, <2>3 DEF KubevipInit, KubevipTypeOK
<1>2. Inv /\ [KubevipNext]_kubevipVars => Inv'
  <2> SUFFICES ASSUME Inv, [KubevipNext]_kubevipVars PROVE Inv'
    OBVIOUS
  <2>0. /\ layout \in Layouts /\ status \in Statuses \cup {None}
        /\ cm \in ConfigMaps /\ pins \in [Keys -> SUBSET Entries] /\ woken \in BOOLEAN
        /\ write \in [version : Nat, cm : ConfigMaps, theirs : [Keys -> SUBSET Entries]] \cup {None}
        /\ edits \in Nat
    BY DEF KubevipTypeOK
  <2>1. CASE UserEditsConfigMap
    <3>1. ASSUME NEW c \in ConfigMaps, NEW mine \in [Keys -> SUBSET Entries],
                 UserWritesConfigMap(c, mine)
          PROVE  Inv'
      <4>1. woken' \in BOOLEAN
        BY <3>1, Zenon DEF UserWritesConfigMap
      <4>2. edits' \in Nat
        BY <2>0, <3>1 DEF UserWritesConfigMap
      <4> QED
        BY <2>0, <3>1, <4>1, <4>2 DEF UserWritesConfigMap, KubevipTypeOK
    <3>2. CASE UserWritesConfigMap([cm EXCEPT !.bound = ~@], pins)
      <4>1. [cm EXCEPT !.bound = ~@] \in ConfigMaps
        BY <2>0 DEF ConfigMaps
      <4> QED
        BY <2>0, <3>1, <3>2, <4>1
    <3>3. ASSUME NEW key \in Keys \cup {BadKey}, UserWritesConfigMap([cm EXCEPT !.key = key], pins)
          PROVE  Inv'
      <4>1. [cm EXCEPT !.key = key] \in ConfigMaps
        BY <2>0 DEF ConfigMaps
      <4> QED
        BY <2>0, <3>1, <3>3, <4>1
    <3>4. ASSUME NEW k \in Keys, NEW e \in UserEntries,
                 UserWritesConfigMap([cm EXCEPT !.data[k] = @ \cup {e}],
                            IF e \in Recorded(cm) THEN pins ELSE [pins EXCEPT ![k] = @ \cup {e}])
          PROVE  Inv'
      <4>1. e \in Entries
        BY KubevipConstants
      <4>2. [cm EXCEPT !.data[k] = @ \cup {e}] \in ConfigMaps
        <5>1. [cm.data EXCEPT ![k] = @ \cup {e}] \in [Keys -> SUBSET Entries]
          BY <2>0, <4>1 DEF ConfigMaps
        <5> QED
          BY <2>0, <5>1 DEF ConfigMaps
      <4>3. (IF e \in Recorded(cm) THEN pins ELSE [pins EXCEPT ![k] = @ \cup {e}])
              \in [Keys -> SUBSET Entries]
        BY <2>0, <4>1
      <4> QED
        BY <3>1, <3>4, <4>2, <4>3
    <3>5. ASSUME NEW k \in Keys, NEW e \in cm.data[k],
                 UserWritesConfigMap([cm EXCEPT !.data[k] = @ \ {e}], [pins EXCEPT ![k] = @ \ {e}])
          PROVE  Inv'
      <4>1. [cm EXCEPT !.data[k] = @ \ {e}] \in ConfigMaps
        <5>1. [cm.data EXCEPT ![k] = @ \ {e}] \in [Keys -> SUBSET Entries]
          BY <2>0 DEF ConfigMaps
        <5> QED
          BY <2>0, <5>1 DEF ConfigMaps
      <4>2. [pins EXCEPT ![k] = @ \ {e}] \in [Keys -> SUBSET Entries]
        BY <2>0
      <4> QED
        BY <3>1, <3>5, <4>1, <4>2
    <3> QED
      BY <2>1, <3>2, <3>3, <3>4, <3>5 DEF UserEditsConfigMap
  <2>2. CASE ConfigMapFollows
    <3>1. PICK s : StatusChanges(s, cm.bound)
      BY <2>2 DEF ConfigMapFollows, Rotates, DynamicPrefixDeleted
    <3>2. woken' \in BOOLEAN
      BY <3>1, Zenon DEF StatusChanges
    <3> QED
      BY <2>0, <2>2, <3>1, <3>2 DEF ConfigMapFollows, StatusChanges, KubevipTypeOK
  <2>3. CASE Prepare
    <3> DEFINE c == IF Managed THEN updated(cm) ELSE released(cm)
               theirs == IF Managed THEN leftToUsers(cm, pins) ELSE pins
    <3>1. c \in ConfigMaps
      BY <2>0, <2>3, WrittenIsTyped DEF Prepare, Renderable
    <3>3. theirs \in [Keys -> SUBSET Entries]
      BY <2>0 DEF leftToUsers
    <3>2. /\ write' = IF c = cm THEN None ELSE [version |-> edits, cm |-> c, theirs |-> theirs]
          /\ woken' = FALSE /\ UNCHANGED <<layout, status, edits, cm, pins>>
      BY <2>3 DEF Prepare, bounds
    <3> HIDE DEF c, theirs
    <3> QED
      BY <2>0, <3>1, <3>2, <3>3 DEF KubevipTypeOK
  <2>4. CASE Update
    <3>1. write # None /\ write' = None /\ UNCHANGED <<layout, status, edits>>
      BY <2>4 DEF Update
    <3>2. woken' \in BOOLEAN
      BY <2>4, Zenon DEF Update
    <3>3. write.cm \in ConfigMaps /\ write.theirs \in [Keys -> SUBSET Entries]
      BY <2>0, <3>1
    <3>4. cm' \in ConfigMaps
      BY <2>0, <2>4, <3>3 DEF Update
    <3>5. pins' \in [Keys -> SUBSET Entries]
      BY <2>0, <2>4, <3>3 DEF Update
    <3> QED
      BY <2>0, <3>1, <3>2, <3>4, <3>5 DEF KubevipTypeOK
  <2>5. CASE LeaveAlone \/ CannotRender \/ UNCHANGED kubevipVars
    <3>1. UNCHANGED <<layout, status, cm, pins, write, edits>> /\ woken' \in {woken, FALSE}
      BY <2>5 DEF LeaveAlone, CannotRender, kubevipVars, bounds
    <3> QED
      BY <2>0, <3>1 DEF KubevipTypeOK
  <2> QED
    BY <2>1, <2>2, <2>3, <2>4, <2>5 DEF KubevipNext, KubevipReconcile
<1> QED
  BY <1>1, <1>2, PTL DEF KubevipSpec
=============================================================================
