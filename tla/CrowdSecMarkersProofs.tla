----------------------- MODULE CrowdSecMarkersProofs -----------------------
(***************************************************************************)
(* TLAPS proofs about CrowdSecMarkers, for any DynamicPrefixes, limits and *)
(* bounds, with or without LAPI's Service: types, and that a rotation      *)
(* never leaves a DynamicPrefix without a marker.                          *)
(***************************************************************************)
EXTENDS CrowdSecMarkers, TLAPS

\* No prefix is given to two DynamicPrefixes.  The delete expires every marker
\* of a value, so two that share one would take each other's away, as the
\* comment in sync says (crowdsec_controller.go:238).
PrefixesAreOwn ==
    \A m, n \in Names : m # n => PrefixesOf[m] \cap PrefixesOf[n] = {}

\* A status holds prefixes of its own DynamicPrefix.
StatusesOf(n) == [current : PrefixesOf[n] \cup {None}, history : Seq(PrefixesOf[n])]

\* A marker's value is a prefix of the DynamicPrefix that owns it.
MarkersAreOwn == markers \subseteq Markers /\ \A m \in markers : m.value \in PrefixesOf[m.owner]

\* Once a pass that found its DynamicPrefix has nothing left to create, either
\* a marker it wants is there or, LAPI having lost its decisions, none is.
Covered == owned(pass.name) = {} \/ owned(pass.name) \cap elements(pass.desired) # {}

PassInOrder ==
    /\ pass.desired \in Seq(PrefixesOf[pass.name])
    /\ pass.found => pass.desired # <<>>
    /\ pass.create \subseteq elements(pass.desired)
    /\ pass.expire \subseteq PrefixesOf[pass.name] \ elements(pass.desired)
    /\ pass.found /\ pass.listed /\ pass.create = {} => Covered

IInv ==
    /\ TypeOK
    /\ \A n \in Names : dp[n] # None => dp[n] \in StatusesOf(n)
    /\ MarkersAreOwn
    /\ pass # None => PassInOrder

-----------------------------------------------------------------------------
(* What the helpers on sequences return. *)

LEMMA KeepsInSeq ==
    ASSUME NEW S, NEW s \in Seq(S), NEW k \in Nat
    PROVE  keepLast(s, k) \in Seq(S) /\ keepFirst(s, k) \in Seq(S)
  BY DEF keepLast, keepFirst

LEMMA ExtendsInSeq ==
    ASSUME NEW S, NEW s \in Seq(S), NEW x \in S
    PROVE  <<x>> \o s \in Seq(S) /\ Append(s, x) \in Seq(S)
  <1>1. <<x>> \in Seq(S)
    OBVIOUS
  <1> QED BY <1>1

LEMMA WithoutInSeq ==
    ASSUME NEW S, NEW s \in Seq(S), NEW e
    PROVE  without(s, e) \in Seq(S)
  <1>1. CASE e \notin elements(s)
    BY <1>1 DEF without
  <1>2. CASE e \in elements(s)
    <2> DEFINE i == CHOOSE i \in 1..Len(s) : s[i] = e
    <2>1. i \in 1..Len(s)
      BY <1>2 DEF elements
    <2>2. without(s, e) = SubSeq(s, 1, i - 1) \o SubSeq(s, i + 1, Len(s))
      BY <1>2 DEF without
    <2> HIDE DEF i
    <2>3. SubSeq(s, 1, i - 1) \in Seq(S) /\ SubSeq(s, i + 1, Len(s)) \in Seq(S)
      BY <2>1
    <2> QED BY <2>2, <2>3
  <1> QED BY <1>1, <1>2

LEMMA TrustedInSeq ==
    ASSUME NEW n \in Names, NEW status \in StatusesOf(n)
    PROVE  crowdsecTrustedPrefixes(status) \in Seq(PrefixesOf[n])
  <1>1. CASE status.current = None
    BY <1>1 DEF crowdsecTrustedPrefixes
  <1>2. CASE status.current # None
    <2>1. status.current \in PrefixesOf[n] /\ status.history \in Seq(PrefixesOf[n])
      BY <1>2 DEF StatusesOf
    <2>2. [i \in 1..Len(status.history) |-> status.history[Len(status.history) + 1 - i]]
            \in Seq(PrefixesOf[n])
      BY <2>1
    <2> DEFINE older == [i \in 1..Len(status.history) |-> status.history[Len(status.history) + 1 - i]]
    <2>3. crowdsecTrustedPrefixes(status) = <<status.current>> \o older
      BY <1>2 DEF crowdsecTrustedPrefixes
    <2>4. older \in Seq(PrefixesOf[n])
      BY <2>2
    <2> HIDE DEF older
    <2> QED BY <2>1, <2>3, <2>4, ExtendsInSeq
  <1> QED BY <1>1, <1>2

LEMMA DesiredInSeq ==
    ASSUME IInv, NEW n \in Names
    PROVE  Desired(n) \in Seq(PrefixesOf[n])
  <1>1. CASE dp[n] = None
    BY <1>1 DEF Desired
  <1>2. CASE dp[n] # None
    BY <1>2, TrustedInSeq, KeepsInSeq, CrowdSecConstants DEF IInv, Desired
  <1> QED BY <1>1, <1>2

\* The sets of prefixes of single DynamicPrefixes are within Prefixes.
LEMMA OwnArePrefixes ==
    ASSUME NEW n \in Names
    PROVE  /\ PrefixesOf[n] \subseteq Prefixes
           /\ Seq(PrefixesOf[n]) \subseteq Seq(Prefixes)
           /\ StatusesOf(n) \subseteq Statuses
  <1>1. PrefixesOf[n] \subseteq Prefixes
    BY DEF Prefixes
  <1>2. Seq(PrefixesOf[n]) \subseteq Seq(Prefixes)
    BY <1>1
  <1> QED BY <1>1, <1>2 DEF StatusesOf, Statuses

-----------------------------------------------------------------------------
(* The step that NeverBare allows, and the invariant under every action. *)

BareStep ==
    \A n \in Names :
      owned(n) # {} /\ owned(n)' = {} =>
          \/ ready /\ ~ready'
          \/ pass # None /\ pass.name = n /\ ~pass.found

LEMMA InitIInv == Init => IInv
  BY CrowdSecConstants DEF Init, IInv, TypeOK, MarkersAreOwn, Tokens

\* A report changes nothing the argument is about.
LEMMA ReportTyped ==
    ASSUME TypeOK, NEW n \in Names,
           NEW seen, NEW condition \in Conditions,
           writeCondition(n, seen, condition) \/ UNCHANGED reported
    PROVE  /\ cond' \in [Names -> Conditions \cup {None}]
           /\ lost' \subseteq Names
           /\ losses' \in 0..MaxLost
  BY CrowdSecConstants DEF TypeOK, writeCondition, reported

LEMMA FailureTyped ==
    ASSUME IInv, pass # None, SyncFails
    PROVE  /\ pass' = None /\ queue' \subseteq Names
           /\ cond' \in [Names -> Conditions \cup {None}]
           /\ lost' \subseteq Names
           /\ losses' \in 0..MaxLost
  <1>1. pass.name \in Names
    BY DEF IInv, TypeOK, Passes
  <1>2. [reason |-> "failed"] \in Conditions
    BY DEF Conditions
  <1>3. writeCondition(pass.name, pass.seen, [reason |-> "failed"]) \/ UNCHANGED reported
    BY DEF SyncFails
  <1>4. TypeOK
    BY DEF IInv
  <1>5. /\ cond' \in [Names -> Conditions \cup {None}]
        /\ lost' \subseteq Names /\ losses' \in 0..MaxLost
    BY <1>1, <1>2, <1>3, <1>4, ReportTyped
  <1> QED BY <1>1, <1>4, <1>5 DEF SyncFails, TypeOK

\* DynamicPrefixes come, rotate and go; markers and the pass stay.
LEMMA DynamicPrefixKeeps ==
    ASSUME IInv, NEW n \in Names, Created(n) \/ Rotates(n) \/ Deleted(n) \/ Deliver(n)
    PROVE  IInv' /\ BareStep
  <1>1. UNCHANGED <<markers, ready, token, pass, faults, losses>>
    BY DEF Created, Rotates, Deleted, Deliver, bounds
  <1>2. /\ changes' \in 0..MaxChanges /\ queue' \subseteq Names /\ lost' \subseteq Names
        /\ cond' \in [Names -> Conditions \cup {None}]
        /\ cached' \in [Names -> Conditions \cup {None}]
    BY CrowdSecConstants DEF Created, Rotates, Deleted, Deliver, Change, bounds, IInv, TypeOK
  <1>3. dp' = dp \/ \E s \in StatusesOf(n) \cup {None} : dp' = [dp EXCEPT ![n] = s]
    <2>1. CASE Created(n)
      <3>1. NoPrefix \in StatusesOf(n)
        BY DEF NoPrefix, StatusesOf
      <3> QED BY <2>1, <3>1 DEF Created
    <2>2. CASE Rotates(n)
      <3>1. dp[n] \in StatusesOf(n)
        BY <2>2 DEF Rotates, IInv
      <3>2. dp[n].history \in Seq(PrefixesOf[n]) /\ dp[n].current \in PrefixesOf[n] \cup {None}
        BY <3>1 DEF StatusesOf
      <3> DEFINE others(p) == without(without(dp[n].history, p), dp[n].current)
                 history(p) == IF dp[n].current = None THEN others(p)
                               ELSE keepLast(Append(others(p), dp[n].current), MaxHistory)
      <3>3. PICK p \in PrefixesOf[n] :
              dp' = [dp EXCEPT ![n] = [current |-> p, history |-> history(p)]]
        BY <2>2 DEF Rotates
      <3>4. others(p) \in Seq(PrefixesOf[n])
        BY <3>2, WithoutInSeq
      <3> HIDE DEF others
      <3>5. dp[n].current # None => Append(others(p), dp[n].current) \in Seq(PrefixesOf[n])
        BY <3>2, <3>4, ExtendsInSeq
      <3>6. history(p) \in Seq(PrefixesOf[n])
        BY <3>4, <3>5, KeepsInSeq, CrowdSecConstants
      <3> HIDE DEF history
      <3>7. [current |-> p, history |-> history(p)] \in StatusesOf(n)
        BY <3>6 DEF StatusesOf
      <3> QED BY <3>3, <3>7
    <2>3. CASE Deleted(n)
      BY <2>3 DEF Deleted
    <2>4. CASE Deliver(n)
      BY <2>4 DEF Deliver
    <2> QED BY <2>1, <2>2, <2>3, <2>4
  <1>4. /\ dp' \in [Names -> Statuses \cup {None}]
        /\ \A m \in Names : dp'[m] # None => dp'[m] \in StatusesOf(m)
    BY <1>3, OwnArePrefixes DEF IInv, TypeOK
  <1>5. (pass # None => PassInOrder)' /\ MarkersAreOwn' /\ BareStep
    BY <1>1 DEF IInv, PassInOrder, Covered, MarkersAreOwn, BareStep, owned
  <1>6. TypeOK'
    BY <1>1, <1>2, <1>4 DEF IInv, TypeOK
  <1> QED BY <1>4, <1>5, <1>6 DEF IInv

\* LAPI, its tokens and the operator's process.  LAPI loses all decisions or
\* none, so what is covered stays so.
LEMMA EnvironmentKeeps ==
    ASSUME IInv, LAPIStops \/ LAPIReturns \/ TokenExpires \/ OperatorRestarts
    PROVE  IInv' /\ BareStep
  <1>1. /\ UNCHANGED <<dp, cond, cached, lost, faults, losses>> /\ pass' \in {pass, None}
        /\ markers' \in {markers, {}} /\ (markers' # markers => ready /\ ~ready')
    BY DEF LAPIStops, LAPIReturns, TokenExpires, OperatorRestarts, bounds
  <1>2. changes' \in 0..MaxChanges /\ queue' \subseteq Names /\ ready' \in BOOLEAN /\ token' \in Tokens
    <2> USE CrowdSecConstants DEF Change, bounds, allDynamicPrefixes, IInv, TypeOK, Tokens
    <2>1. CASE LAPIStops
      <3>1. changes' \in 0..MaxChanges /\ queue' \subseteq Names
        BY <2>1 DEF LAPIStops
      <3>2. ready' \in BOOLEAN /\ token' \in Tokens
        BY <2>1 DEF LAPIStops
      <3> QED BY <3>1, <3>2
    <2>2. CASE LAPIReturns
      BY <2>2 DEF LAPIReturns
    <2>3. CASE TokenExpires
      BY <2>3 DEF TokenExpires
    <2>4. CASE OperatorRestarts
      BY <2>4 DEF OperatorRestarts
    <2> QED BY <2>1, <2>2, <2>3, <2>4
  <1>3. TypeOK'
    BY <1>1, <1>2 DEF IInv, TypeOK
  <1>4. MarkersAreOwn' /\ BareStep
    BY <1>1 DEF IInv, MarkersAreOwn, BareStep, owned
  <1>5. ASSUME pass' # None PROVE PassInOrder'
    <2>1. pass' = pass /\ PassInOrder
      BY <1>1, <1>5 DEF IInv
    <2>2. CASE markers' = markers
      BY <2>1, <2>2 DEF PassInOrder, Covered, owned
    <2>3. CASE markers' = {}
      BY <2>1, <2>3 DEF PassInOrder, Covered, owned
    <2> QED BY <1>1, <2>1, <2>2, <2>3
  <1> QED BY <1>1, <1>3, <1>4, <1>5 DEF IInv

LEMMA BeginKeeps ==
    ASSUME IInv, Begin
    PROVE  IInv' /\ BareStep
  <1>1. PICK n \in queue :
          /\ queue' = queue \ {n}
          /\ \/ pass' = None /\ UNCHANGED reported
             \/ pass' = None /\ writeCondition(n, cached[n], [reason |-> "refused"])
             \/ /\ pass' = [name |-> n, found |-> dp[n] # None, seen |-> cached[n],
                            desired |-> Desired(n), listed |-> FALSE, create |-> {}, expire |-> {}, attempt |-> 0]
                /\ dp[n] # None => Desired(n) # <<>>
                /\ UNCHANGED reported
    BY DEF Begin
  <1>2. n \in Names /\ UNCHANGED <<dp, cached, markers, ready, token, changes, faults>>
    BY DEF Begin, IInv, TypeOK
  <1>3. Desired(n) \in Seq(PrefixesOf[n])
    BY <1>2, DesiredInSeq
  <1>4. Desired(n) \in Seq(Prefixes)
    BY <1>2, <1>3, OwnArePrefixes
  <1>5. writeCondition(n, cached[n], [reason |-> "refused"]) \/ UNCHANGED reported
    BY <1>1
  <1>6. [reason |-> "refused"] \in Conditions /\ TypeOK
    BY DEF Conditions, IInv
  <1>7. cond' \in [Names -> Conditions \cup {None}] /\ lost' \subseteq Names /\ losses' \in 0..MaxLost
    BY <1>2, <1>5, <1>6, ReportTyped
  <1>8. /\ pass' \in Passes \cup {None}
        /\ pass' # None => PassInOrder'
    <2>1. CASE pass' = None
      BY <2>1
    <2>2. CASE pass' # None
      <3> DEFINE d == Desired(n)
      <3>1. /\ pass' = [name |-> n, found |-> dp[n] # None, seen |-> cached[n],
                        desired |-> d, listed |-> FALSE, create |-> {}, expire |-> {}, attempt |-> 0]
            /\ dp[n] # None => d # <<>>
        BY <1>1, <2>2
      <3>2. d \in Seq(PrefixesOf[n]) /\ d \in Trusted
        BY <1>3, <1>4 DEF Trusted
      <3> HIDE DEF d
      <3>3. pass' \in Passes
        BY <1>2, <3>1, <3>2 DEF Passes, IInv, TypeOK
      <3>4. PassInOrder'
        BY <1>2, <3>1, <3>2 DEF PassInOrder
      <3> QED BY <3>3, <3>4
    <2> QED BY <2>1, <2>2
  <1>9. TypeOK'
    BY <1>1, <1>2, <1>7, <1>8 DEF IInv, TypeOK
  <1> QED BY <1>2, <1>8, <1>9 DEF IInv, MarkersAreOwn, BareStep, owned

\* Logins, refused tokens, failed requests and the end of a pass leave the
\* markers alone.
LEMMA QuietStepKeeps ==
    ASSUME IInv, login \/ Unauthorized \/ RequestFails \/ Finish
    PROVE  IInv' /\ BareStep
  <1>0. pass # None /\ PassInOrder /\ pass \in Passes
    BY DEF login, Unauthorized, RequestFails, Finish, Busy, IInv, TypeOK
  <1>1. UNCHANGED <<dp, cached, markers, ready, changes>>
    BY DEF login, Unauthorized, RequestFails, Finish, bounds
  <1>2. token' \in Tokens
    BY DEF login, Unauthorized, RequestFails, Finish, IInv, TypeOK, Tokens
  <1>3. faults' \in 0..MaxFaults
    BY CrowdSecConstants DEF login, Unauthorized, RequestFails, Finish, bounds, IInv, TypeOK
  <1>4. /\ queue' \subseteq Names /\ pass' \in {None, pass, [pass EXCEPT !.attempt = 1]}
        /\ cond' \in [Names -> Conditions \cup {None}] /\ lost' \subseteq Names /\ losses' \in 0..MaxLost
    <2>1. CASE SyncFails
      BY <1>0, <2>1, FailureTyped
    <2>2. CASE /\ UNCHANGED <<reported, queue>>
               /\ pass' \in {pass, [pass EXCEPT !.attempt = 1]}
      BY <2>2 DEF reported, IInv, TypeOK
    <2>3. CASE Finish
      <3>1. [reason |-> "synced", covers |-> pass.desired] \in Conditions /\ pass.name \in Names
        BY <1>0 DEF Conditions, Passes
      <3>2. \/ writeCondition(pass.name, pass.seen, [reason |-> "synced", covers |-> pass.desired])
            \/ UNCHANGED reported
        BY <2>3 DEF Finish
      <3>3. cond' \in [Names -> Conditions \cup {None}] /\ lost' \subseteq Names /\ losses' \in 0..MaxLost
        BY <3>1, <3>2, ReportTyped DEF IInv
      <3> QED BY <2>3, <3>3 DEF Finish, IInv, TypeOK
    <2> QED BY <2>1, <2>2, <2>3 DEF login, Unauthorized, RequestFails, reported, bounds
  <1>5. pass' \in Passes \cup {None}
    BY <1>0, <1>4 DEF Passes
  <1>6. pass' # None => PassInOrder'
    <2> SUFFICES ASSUME pass' # None PROVE PassInOrder'
      OBVIOUS
    <2>1. /\ pass'.name = pass.name /\ pass'.desired = pass.desired /\ pass'.found = pass.found
          /\ pass'.listed = pass.listed /\ pass'.create = pass.create /\ pass'.expire = pass.expire
      BY <1>0, <1>4 DEF Passes
    <2> QED BY <1>0, <1>1, <2>1 DEF PassInOrder, Covered, owned
  <1>7. TypeOK'
    BY <1>1, <1>2, <1>3, <1>4, <1>5 DEF IInv, TypeOK
  <1> QED BY <1>1, <1>6, <1>7 DEF IInv, MarkersAreOwn, BareStep, owned

\* q is p but for what is left to create and to expire.
Advances(p, q, c, x) ==
    /\ q \in Passes /\ q.name = p.name /\ q.desired = p.desired /\ q.found = p.found
    /\ q.create = c /\ q.expire = x

LEMMA FieldUpdates ==
    ASSUME NEW p \in Passes, NEW c \in SUBSET Prefixes, NEW x \in SUBSET Prefixes
    PROVE  /\ [p EXCEPT !.create = c] \in Passes /\ [p EXCEPT !.expire = x] \in Passes
           /\ [p EXCEPT !.listed = TRUE] \in Passes /\ [p EXCEPT !.attempt = 0] \in Passes
  <1>1. [p EXCEPT !.create = c] \in Passes
    BY DEF Passes
  <1>2. [p EXCEPT !.expire = x] \in Passes
    BY DEF Passes
  <1>3. [p EXCEPT !.listed = TRUE] \in Passes
    BY DEF Passes
  <1>4. [p EXCEPT !.attempt = 0] \in Passes
    BY DEF Passes
  <1> QED BY <1>1, <1>2, <1>3, <1>4

LEMMA PassAdvances ==
    ASSUME NEW p \in Passes, NEW c \in SUBSET Prefixes, NEW x \in SUBSET Prefixes
    PROVE  /\ Advances(p, [p EXCEPT !.create = c, !.attempt = 0], c, p.expire)
           /\ Advances(p, [p EXCEPT !.expire = x, !.attempt = 0], p.create, x)
           /\ Advances(p, [p EXCEPT !.listed = TRUE, !.attempt = 0, !.create = c, !.expire = x], c, x)
  <1>1. Advances(p, [p EXCEPT !.create = c, !.attempt = 0], c, p.expire)
    <2> DEFINE q == [p EXCEPT !.create = c, !.attempt = 0]
    <2>1. [[p EXCEPT !.create = c] EXCEPT !.attempt = 0] \in Passes
      BY FieldUpdates
    <2>2. q \in Passes
      BY <2>1
    <2>3. /\ q.name = p.name /\ q.desired = p.desired /\ q.found = p.found
          /\ q.create = c /\ q.expire = p.expire
      BY DEF Passes
    <2> QED BY <2>2, <2>3 DEF Advances
  <1>2. Advances(p, [p EXCEPT !.expire = x, !.attempt = 0], p.create, x)
    <2> DEFINE q == [p EXCEPT !.expire = x, !.attempt = 0]
    <2>1. [[p EXCEPT !.expire = x] EXCEPT !.attempt = 0] \in Passes
      BY FieldUpdates
    <2>2. q \in Passes
      BY <2>1
    <2>3. /\ q.name = p.name /\ q.desired = p.desired /\ q.found = p.found
          /\ q.create = p.create /\ q.expire = x
      BY DEF Passes
    <2> QED BY <2>2, <2>3 DEF Advances
  <1>3. Advances(p, [p EXCEPT !.listed = TRUE, !.attempt = 0, !.create = c, !.expire = x], c, x)
    <2> DEFINE q == [p EXCEPT !.listed = TRUE, !.attempt = 0, !.create = c, !.expire = x]
    <2>1. [[[[p EXCEPT !.listed = TRUE] EXCEPT !.attempt = 0] EXCEPT !.create = c] EXCEPT !.expire = x] \in Passes
      BY FieldUpdates
    <2>2. q \in Passes
      BY <2>1
    <2>3. /\ q.name = p.name /\ q.desired = p.desired /\ q.found = p.found
          /\ q.create = c /\ q.expire = x
      BY DEF Passes
    <2> QED BY <2>2, <2>3 DEF Advances
  <1> QED BY <1>1, <1>2, <1>3

\* The three kinds of request: list, create, expire.
LEMMA EffectForms ==
    ASSUME NEW e \in Effects
    PROVE  /\ ~pass.listed => e.markers = markers /\ e.pass = listMarkers(pass)
           /\ pass.listed /\ pass.create # {} =>
                \E v \in pass.create :
                  /\ e.markers = markers \cup {[value |-> v, owner |-> pass.name]}
                  /\ e.pass = [pass EXCEPT !.create = pass.create \ {v}, !.attempt = 0]
           /\ pass.listed /\ pass.create = {} =>
                \E v \in pass.expire :
                  /\ e.markers = {m \in markers : m.value # v}
                  /\ e.pass = [pass EXCEPT !.expire = pass.expire \ {v}, !.attempt = 0]
  <1>1. CASE ~pass.listed
    <2>1. e = [markers |-> markers, pass |-> listMarkers(pass)]
      BY <1>1 DEF Effects
    <2> QED BY <1>1, <2>1
  <1>2. CASE pass.listed /\ pass.create # {}
    <2>1. PICK v \in nextToCreate :
            e = [markers |-> markers \cup {[value |-> v, owner |-> pass.name]},
                 pass |-> [pass EXCEPT !.create = @ \ {v}, !.attempt = 0]]
      BY <1>2 DEF Effects
    <2>2. v \in pass.create
      BY DEF nextToCreate
    <2> QED BY <1>2, <2>1, <2>2
  <1>3. CASE pass.listed /\ pass.create = {}
    <2>1. PICK v \in pass.expire :
            e = [markers |-> {m \in markers : m.value # v},
                 pass |-> [pass EXCEPT !.expire = @ \ {v}, !.attempt = 0]]
      BY <1>3 DEF Effects
    <2> QED BY <1>3, <2>1
  <1> QED BY <1>1, <1>2, <1>3

\* What a request does to the markers, whether or not its answer arrives: a
\* creation takes nothing away, and an expired value is not what keeps a
\* DynamicPrefix covered, nor another one's.
LEMMA EffectKeepsMarkers ==
    ASSUME PrefixesAreOwn, IInv, Busy, NEW e \in Effects, markers' = e.markers
    PROVE  MarkersAreOwn' /\ BareStep
  <1>0. pass # None /\ PassInOrder /\ pass \in Passes /\ pass.name \in Names
    BY DEF Busy, IInv, TypeOK, Passes
  <1>1. CASE ~pass.listed
    BY <1>1, EffectForms DEF MarkersAreOwn, BareStep, owned, IInv
  <1>2. CASE pass.listed /\ pass.create # {}
    <2>1. PICK v \in pass.create : markers' = markers \cup {[value |-> v, owner |-> pass.name]}
      BY <1>2, EffectForms
    <2>2. v \in PrefixesOf[pass.name] /\ v \in Prefixes
      BY <1>0, OwnArePrefixes DEF PassInOrder, elements
    <2>3. MarkersAreOwn'
      BY <1>0, <2>1, <2>2 DEF IInv, MarkersAreOwn, Markers
    <2>4. BareStep
      BY <2>1 DEF BareStep, owned
    <2> QED BY <2>3, <2>4
  <1>3. CASE pass.listed /\ pass.create = {}
    <2>1. PICK v \in pass.expire : markers' = {m \in markers : m.value # v}
      BY <1>3, EffectForms
    <2>2. MarkersAreOwn'
      BY <2>1 DEF IInv, MarkersAreOwn
    <2>3. ASSUME NEW n \in Names, owned(n) # {}, owned(n)' = {},
                 ~(pass # None /\ pass.name = n /\ ~pass.found)
          PROVE  FALSE
      <3>1. \A m \in markers : m.owner = n => m.value = v
        BY <2>1, <2>3 DEF owned
      <3>2. \E m \in markers : m.owner = n /\ m.value = v
        BY <2>3, <3>1 DEF owned
      <3>3. v \in PrefixesOf[n]
        BY <3>2 DEF IInv, MarkersAreOwn
      <3>4. v \in PrefixesOf[pass.name] /\ v \notin elements(pass.desired)
        BY <1>0 DEF PassInOrder
      <3>5. pass.name = n
        BY <1>0, <3>3, <3>4 DEF PrefixesAreOwn
      <3>6. owned(n) \cap elements(pass.desired) # {}
        BY <1>0, <1>3, <2>3, <3>5 DEF PassInOrder, Covered
      <3> QED BY <3>1, <3>4, <3>6 DEF owned
    <2> QED BY <2>2, <2>3 DEF BareStep
  <1> QED BY <1>0, <1>1, <1>2, <1>3 DEF Passes

\* A pass whose request was answered.
LEMMA EffectKeepsPass ==
    ASSUME PrefixesAreOwn, IInv, Busy, NEW e \in Effects, markers' = e.markers, pass' = e.pass
    PROVE  pass' \in Passes /\ PassInOrder'
  <1>0. pass # None /\ PassInOrder /\ pass \in Passes /\ pass.name \in Names
    BY DEF Busy, IInv, TypeOK, Passes
  <1>1. CASE ~pass.listed
    <2>1. markers' = markers /\ pass' = listMarkers(pass)
      BY <1>1, EffectForms
    <2>2. owned(pass.name) \subseteq PrefixesOf[pass.name]
      BY DEF owned, IInv, MarkersAreOwn
    <2>3. elements(pass.desired) \subseteq Prefixes /\ PrefixesOf[pass.name] \subseteq Prefixes
      BY <1>0, OwnArePrefixes DEF PassInOrder, elements
    <2> DEFINE c == elements(pass.desired) \ present
               x == owned(pass.name) \ elements(pass.desired)
    <2>4. Advances(pass, pass', c, x)
      <3>1. c \in SUBSET Prefixes /\ x \in SUBSET Prefixes
        BY <2>2, <2>3
      <3>2. pass' = [pass EXCEPT !.listed = TRUE, !.attempt = 0, !.create = c, !.expire = x]
        BY <2>1 DEF listMarkers
      <3> HIDE DEF c, x
      <3>3. Advances(pass, [pass EXCEPT !.listed = TRUE, !.attempt = 0, !.create = c, !.expire = x], c, x)
        BY <1>0, <3>1, PassAdvances
      <3> QED BY <3>2, <3>3
    <2>5. /\ pass'.name = pass.name /\ pass'.desired = pass.desired /\ pass'.found = pass.found
          /\ pass'.create = elements(pass.desired) \ present
          /\ pass'.expire = owned(pass.name) \ elements(pass.desired)
      BY <2>4 DEF Advances
    <2>6. ASSUME pass.found, elements(pass.desired) \ present = {}
          PROVE  owned(pass.name) \cap elements(pass.desired) # {}
      <3>1. pass.desired[1] \in elements(pass.desired) /\ pass.desired[1] \in PrefixesOf[pass.name]
        BY <1>0, <2>6 DEF PassInOrder, elements
      <3>2. PICK m \in markers : m.value = pass.desired[1]
        BY <2>6, <3>1 DEF present
      <3>3. m.owner = pass.name
        BY <1>0, <3>1, <3>2 DEF IInv, MarkersAreOwn, Markers, PrefixesAreOwn
      <3> QED BY <3>1, <3>2, <3>3 DEF owned
    <2>7. Covered' = Covered
      BY <2>1, <2>5 DEF Covered, owned
    <2>8. PassInOrder'
      BY <1>0, <2>2, <2>5, <2>6, <2>7 DEF PassInOrder, Covered
    <2> QED BY <2>4, <2>8 DEF Advances
  <1>2. CASE pass.listed /\ pass.create # {}
    <2>1. PICK v \in pass.create :
            /\ markers' = markers \cup {[value |-> v, owner |-> pass.name]}
            /\ pass' = [pass EXCEPT !.create = pass.create \ {v}, !.attempt = 0]
      BY <1>2, EffectForms
    <2>2. /\ pass' \in Passes
          /\ pass'.name = pass.name /\ pass'.desired = pass.desired /\ pass'.found = pass.found
          /\ pass'.create = pass.create \ {v} /\ pass'.expire = pass.expire
      <3> DEFINE c == pass.create \ {v}
      <3>1. c \in SUBSET Prefixes
        BY <1>0 DEF Passes
      <3>2. pass' = [pass EXCEPT !.create = c, !.attempt = 0]
        BY <2>1
      <3> HIDE DEF c
      <3>3. Advances(pass, pass', c, pass.expire)
        BY <1>0, <3>1, <3>2, PassAdvances
      <3> QED BY <3>3 DEF Advances, c
    <2>3. v \in elements(pass.desired)
      BY <1>0 DEF PassInOrder
    <2>4. Covered'
      BY <2>1, <2>2, <2>3 DEF Covered, owned
    <2> QED BY <1>0, <2>2, <2>4 DEF PassInOrder
  <1>3. CASE pass.listed /\ pass.create = {}
    <2>1. PICK v \in pass.expire :
            /\ markers' = {m \in markers : m.value # v}
            /\ pass' = [pass EXCEPT !.expire = pass.expire \ {v}, !.attempt = 0]
      BY <1>3, EffectForms
    <2>2. /\ pass' \in Passes
          /\ pass'.name = pass.name /\ pass'.desired = pass.desired /\ pass'.found = pass.found
          /\ pass'.create = pass.create /\ pass'.expire = pass.expire \ {v}
      <3> DEFINE x == pass.expire \ {v}
      <3>1. x \in SUBSET Prefixes
        BY <1>0 DEF Passes
      <3>2. pass' = [pass EXCEPT !.expire = x, !.attempt = 0]
        BY <2>1
      <3> HIDE DEF x
      <3>3. Advances(pass, pass', pass.create, x)
        BY <1>0, <3>1, <3>2, PassAdvances
      <3> QED BY <3>3 DEF Advances, x
    <2>3. v \notin elements(pass.desired)
      BY <1>0 DEF PassInOrder
    <2>4. pass.found => Covered
      BY <1>0, <1>3 DEF PassInOrder
    <2>5. ASSUME Covered PROVE Covered'
      <3>1. owned(pass.name) = {} => owned(pass.name)' = {}
        BY <2>1, <2>2 DEF owned
      <3>2. owned(pass.name) \ {v} \subseteq owned(pass.name)'
        BY <2>1, <2>2 DEF owned
      <3> QED BY <2>2, <2>3, <2>5, <3>1, <3>2 DEF Covered
    <2> QED BY <1>0, <2>2, <2>4, <2>5 DEF PassInOrder
  <1> QED BY <1>0, <1>1, <1>2, <1>3 DEF Passes

LEMMA RequestKeeps ==
    ASSUME PrefixesAreOwn, IInv, Answered \/ AnswerLost
    PROVE  IInv' /\ BareStep
  <1>1. PICK e \in Effects : markers' = e.markers /\ (Answered => pass' = e.pass)
    BY DEF Answered, AnswerLost
  <1>2. Busy /\ pass # None
    BY DEF Answered, AnswerLost, Busy
  <1>3. MarkersAreOwn' /\ BareStep
    BY <1>1, <1>2, EffectKeepsMarkers
  <1>4. UNCHANGED <<dp, cached, ready, token, changes>>
    BY DEF Answered, AnswerLost, bounds
  <1>5. CASE Answered
    <2>1. UNCHANGED <<cond, lost, queue, faults, losses>>
      BY <1>5 DEF Answered, bounds
    <2>2. pass' \in Passes /\ PassInOrder'
      BY <1>1, <1>2, <1>5, EffectKeepsPass
    <2>3. TypeOK'
      BY <1>3, <1>4, <2>1, <2>2 DEF IInv, TypeOK, MarkersAreOwn
    <2> QED BY <1>3, <1>4, <2>2, <2>3 DEF IInv
  <1>6. CASE AnswerLost
    <2>1. faults' \in 0..MaxFaults
      BY <1>6, CrowdSecConstants DEF AnswerLost, IInv, TypeOK
    <2>2. /\ pass' = None /\ queue' \subseteq Names
          /\ cond' \in [Names -> Conditions \cup {None}] /\ lost' \subseteq Names /\ losses' \in 0..MaxLost
      BY <1>2, <1>6, FailureTyped DEF AnswerLost
    <2>3. TypeOK'
      BY <1>3, <1>4, <2>1, <2>2 DEF IInv, TypeOK, MarkersAreOwn
    <2> QED BY <1>3, <1>4, <2>2, <2>3 DEF IInv
  <1> QED BY <1>5, <1>6

LEMMA NextKeeps ==
    ASSUME PrefixesAreOwn, IInv, Next
    PROVE  IInv' /\ BareStep
  <1>1. CASE \E n \in Names : Created(n) \/ Rotates(n) \/ Deleted(n) \/ Deliver(n)
    BY <1>1, DynamicPrefixKeeps
  <1>2. CASE LAPIStops \/ LAPIReturns \/ TokenExpires \/ OperatorRestarts
    BY <1>2, EnvironmentKeeps
  <1>3. CASE Reconcile
    BY <1>3, BeginKeeps, QuietStepKeeps, RequestKeeps DEF Reconcile
  <1> QED BY <1>1, <1>2, <1>3 DEF Next

-----------------------------------------------------------------------------
\* The invariant both theorems below follow from.
THEOREM Invariance ==
    ASSUME PrefixesAreOwn
    PROVE  Spec => []IInv
  <1>1. IInv /\ [Next]_vars => IInv'
    <2> SUFFICES ASSUME IInv, [Next]_vars PROVE IInv'
      OBVIOUS
    <2>1. CASE Next
      BY <2>1, NextKeeps
    <2>2. CASE UNCHANGED vars
      BY <2>2 DEF vars, IInv, TypeOK, MarkersAreOwn, PassInOrder, Covered, owned
    <2> QED BY <2>1, <2>2
  <1> QED BY <1>1, InitIInv, PTL DEF Spec

\* Statuses, markers, the pass and the condition keep their types.
THEOREM TypeCorrect ==
    ASSUME PrefixesAreOwn
    PROVE  Spec => []TypeOK
  <1>1. IInv => TypeOK
    BY DEF IInv
  <1> QED BY <1>1, Invariance, PTL

\* sync (crowdsec_controller.go:206) creates before it expires and expires
\* nothing after a failed create: no step of the operator leaves a
\* DynamicPrefix that exists without a marker it had.
THEOREM RotationsKeepAMarker ==
    ASSUME PrefixesAreOwn
    PROVE  Spec => NeverBare
  <1>1. IInv /\ [Next]_vars => [BareStep]_vars
    BY NextKeeps
  <1> QED BY <1>1, Invariance, PTL DEF Spec, NeverBare, BareStep
=============================================================================
