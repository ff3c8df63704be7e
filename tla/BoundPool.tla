------------------------------ MODULE BoundPool ------------------------------
(***************************************************************************)
(* What the pool controller does for every backend: a pool object is bound *)
(* to a range or subnet of a DynamicPrefix, whose current and draining     *)
(* prefixes it follows, and the controller is woken by changes of either.  *)
(* What the range or subnet is in a prefix is computed by AddressMath.     *)
(***************************************************************************)
EXTENDS AddressMath, Sequences

CONSTANTS
    Delegated,       \* the prefixes the DynamicPrefix may be given
    Layouts,         \* what the pool's annotations may refer to
    SiblingsFit,     \* the prefixes that the other ranges or subnets of the spec fit
    MaxHistory, MaxRotations, MaxEdits, MaxFaults

\* An address range by its suffixes, or a subnet by its length and number.
RangeLayouts == [first : Addresses, last : Addresses]
SubnetLayouts == [length : 0..Width, offset : Nat]

ASSUME BoundPoolConstants ==
    /\ Delegated \subseteq Prefixes
    /\ SiblingsFit \subseteq Delegated
    /\ Layouts \subseteq RangeLayouts \cup SubnetLayouts
    /\ MaxHistory \in Nat /\ MaxRotations \in Nat
    /\ MaxEdits \in Nat /\ MaxFaults \in Nat

VARIABLES
    layout,     \* the range or subnet in the DynamicPrefix's spec
    status,     \* its current and draining prefixes, and the one its list of
                \* ranges or subnets was calculated from; None once it is deleted
    woken,      \* the pool is in the work queue
    rotations, edits, faults
bounds == <<rotations, edits, faults>>

Statuses == [current : Delegated \cup {None}, history : Seq(Delegated),
             resolved : Delegated \cup {None}]

IsRange(l) == l \in RangeLayouts

\* The window of addresses layout l is in prefix p, or None.
window(l, p) ==
    IF IsRange(l) THEN CalculateAddressRange(p, l.first, l.last)
    ELSE LET subnet == CalculateSubnet(p, l.length, l.offset)
         IN  IF subnet = None THEN None
             ELSE [start |-> subnet.addr, end |-> lastAddrOfPrefix(subnet)]

\* The CIDR for prefix p, None if there is no window or it is not a CIDR.
calicoCIDRForConfig(l, p) ==
    IF ~IsRange(l) THEN CalculateSubnet(p, l.length, l.offset)
    ELSE LET w == window(l, p)
         IN  IF w = None THEN None ELSE exactCIDRForAddressRange(w.start, w.end)

configWindow == [l \in Layouts |-> [p \in Delegated |-> window(l, p)]]
configCIDR == [l \in Layouts |-> [p \in Delegated |-> calicoCIDRForConfig(l, p)]]

elements(s) == {s[i] : i \in 1..Len(s)}

\* The prefix the first configuration is for: what the status has resolved is
\* preferred to calculating from the current prefix.
configured(s) == IF s.resolved # None THEN s.resolved ELSE s.current

\* The prefixes a pool follows.
collectManagedPrefixes ==
    IF status = None THEN {} ELSE ({status.current} \cup elements(status.history)) \ {None}
-----------------------------------------------------------------------------
\* A call that fails because it is refused, or by chance.
FaultUnless(refused) ==
    /\ ~refused => faults < MaxFaults
    /\ faults' = IF refused THEN faults ELSE faults + 1
Fault == FaultUnless(FALSE)

NoPrefixYet == [current |-> None, history |-> <<>>, resolved |-> None]

\* Wakes with a predicate that looks for the annotation only.
WakesBound(p) == p # None /\ p.bound

\* The watch passes pools with the annotation or with a record.
Wakes(p) == p # None /\ (p.bound \/ p.record # None)

\* The DynamicPrefix changes, and wakes a pool that refers to it.
StatusChanges(s, bound) ==
    /\ s \in Statuses \cup {None}
    /\ rotations < MaxRotations /\ rotations' = rotations + 1
    /\ status' = s
    /\ woken' = (woken \/ bound)
    /\ UNCHANGED <<layout, edits, faults>>

keepLast(s, k) == IF Len(s) > k THEN SubSeq(s, Len(s) - k + 1, Len(s)) ELSE s

\* The list in the status is calculated as a whole or stays as it is.
Rotates(bound) ==
    /\ status # None
    /\ \E p \in Delegated \ {status.current} :
         LET replaced == status.current
             others == SelectSeq(status.history, LAMBDA e : e \notin {p, replaced})
             fits == p \in SiblingsFit /\ configWindow[layout][p] # None
         IN  StatusChanges([current |-> p,
                 history |-> IF replaced = None THEN status.history
                             ELSE keepLast(Append(others, replaced), MaxHistory),
                 resolved |-> IF fits THEN p ELSE status.resolved], bound)

DynamicPrefixDeleted(bound) == status # None /\ StatusChanges(None, bound)
-----------------------------------------------------------------------------
\* Ranges, subnets and CIDRs are what they are said to be, whatever the length
\* of the prefix: the window is inside the prefix at the place the suffixes or
\* the number give it, and it has a Calico CIDR exactly if its addresses are
\* those of a CIDR, which is then that one (CalculateAddressRange,
\* CalculateSubnet and exactCIDRForAddressRange).
WindowsExact ==
    \A p \in collectManagedPrefixes :
        LET w == configWindow[layout][p]
            c == configCIDR[layout][p]
            size == pow2[Width - layout.length]
        IN  /\ IF IsRange(layout)
               THEN w # None <=> Placed(p, layout.first) <= Placed(p, layout.last)
               ELSE w # None <=> /\ p.bits <= layout.length
                                 /\ layout.offset < Cardinality(AddressesOf(p)) \div size
            /\ w # None =>
                 /\ w.start..w.end \subseteq AddressesOf(p)
                 /\ IF IsRange(layout)
                    THEN w.start = Placed(p, layout.first) /\ w.end = Placed(p, layout.last)
                    ELSE Cardinality(w.start..w.end) = size
                 /\ c # None <=> IsCIDR(w.start..w.end)
                 /\ c # None => AddressesOf(c) = w.start..w.end

\* The address of a Service is carried from the current prefix to a draining
\* one by its distance from the start of the window, and to nowhere if it is
\* below the window or the draining window is too short: the byte-wise borrow
\* and carry agree with the distance as a number.  A Service's suffix lands at
\* the same place whichever of the two routines puts it there
\* (calculateIPOffset, applyIPOffset, combinePrefixSuffix).
OffsetsCarried ==
    status # None /\ status.current # None =>
        \A i \in 1..Len(status.history), a \in AddressesOf(status.current) :
            LET q == status.history[i]
                w == configWindow[layout][status.current]
                v == configWindow[layout][q]
            IN  /\ w # None /\ v # None =>
                     historicalIP(w, v, a) =
                         IF a >= w.start /\ v.start + (a - w.start) <= v.end
                         THEN v.start + (a - w.start) ELSE None
                /\ combinePrefixSuffix(q, a) = Placed(q, a)
=============================================================================
