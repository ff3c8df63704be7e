--------------------------- MODULE CrowdSecMarkers ---------------------------
(***************************************************************************)
(* CrowdSecMarkerReconciler and its LAPI client: an allow decision in      *)
(* CrowdSec's local API, a marker, for the current and the draining        *)
(* prefixes of each configured DynamicPrefix.  One worker takes the        *)
(* DynamicPrefixes one at a time; a pass lists the markers, creates what   *)
(* is missing and then expires what is obsolete, one HTTP request at a     *)
(* time with a cached token.  Requests fail with or without effect, LAPI   *)
(* forgets tokens, restarts and may come back without its decisions, and   *)
(* the operator restarts.                                                  *)
(***************************************************************************)
EXTENDS Naturals, Sequences, FiniteSets

CONSTANTS
    Names,         \* --crowdsec-dynamic-prefixes
    PrefixesOf,    \* the prefixes each of them is given
    Acceptable,    \* what validateMarkerPrefixes accepts
    HasService,    \* --crowdsec-lapi-service is set
    MaxMarkers,
    MaxHistory,
    None,
    MaxChanges,    \* bound on changes of the DynamicPrefixes, LAPI and the process
    MaxFaults,     \* bound on requests that fail while LAPI is up
    MaxLost        \* bound on reports that are not written

Prefixes == UNION {PrefixesOf[n] : n \in Names}

ASSUME CrowdSecConstants ==
    /\ IsFiniteSet(Names) /\ PrefixesOf \in [Names -> SUBSET Prefixes]
    /\ Acceptable \subseteq Prefixes /\ None \notin Prefixes \cup Names
    /\ HasService \in BOOLEAN
    /\ MaxMarkers \in Nat \ {0} /\ MaxHistory \in Nat
    /\ MaxChanges \in Nat /\ MaxFaults \in Nat /\ MaxLost \in Nat

Trusted == Seq(Prefixes)
Statuses == [current : Prefixes \cup {None}, history : Seq(Prefixes)]
NoPrefix == [current |-> None, history |-> <<>>]
Markers == [value : Prefixes, owner : Names]
Conditions == [reason : {"refused", "failed"}] \cup [reason : {"synced"}, covers : Trusted]
Tokens == {None, "good", "bad"}
\* A pass: what it read, then, once LAPI has listed the markers, what is left
\* to create and to expire; attempt counts the tries of the request under way.
Passes ==
    [name : Names, found : BOOLEAN, seen : Conditions \cup {None}, desired : Trusted,
     listed : BOOLEAN,
     create : SUBSET Prefixes, expire : SUBSET Prefixes, attempt : 0..1]

VARIABLES
    dp,        \* name -> status of the DynamicPrefix, or None
    cond,      \* name -> CrowdSecMarkersSynced, or None
    cached,    \* the same as the informer last saw it
    lost,      \* names whose last report was not written
    markers,   \* active decisions in LAPI
    ready,     \* LAPI serves, and its Service has a ready endpoint
    token,     \* the client's cached token
    queue, pass,
    changes, faults, losses
vars == <<dp, cond, cached, lost, markers, ready, token, queue, pass, changes, faults, losses>>
reported == <<cond, lost, losses>>
bounds == <<changes, faults, losses>>

TypeOK ==
    /\ dp \in [Names -> Statuses \cup {None}]
    /\ cond \in [Names -> Conditions \cup {None}]
    /\ cached \in [Names -> Conditions \cup {None}]
    /\ lost \subseteq Names /\ queue \subseteq Names
    /\ markers \subseteq Markers
    /\ ready \in BOOLEAN /\ token \in Tokens
    /\ pass \in Passes \cup {None}
    /\ changes \in 0..MaxChanges /\ faults \in 0..MaxFaults
    /\ losses \in 0..MaxLost

elements(s) == {s[i] : i \in 1..Len(s)}
keepLast(s, k) == IF Len(s) > k THEN SubSeq(s, Len(s) - k + 1, Len(s)) ELSE s
keepFirst(s, k) == IF Len(s) > k THEN SubSeq(s, 1, k) ELSE s
\* History holds a prefix once at most.
without(s, e) ==
    IF e \notin elements(s) THEN s
    ELSE LET i == CHOOSE i \in 1..Len(s) : s[i] = e
         IN  SubSeq(s, 1, i - 1) \o SubSeq(s, i + 1, Len(s))

\* The current prefix, then the draining ones, newest first.
crowdsecTrustedPrefixes(status) ==
    IF status.current = None THEN <<>>
    ELSE <<status.current>> \o
         [i \in 1..Len(status.history) |-> status.history[Len(status.history) + 1 - i]]

\* validateMarkerPrefixes if it looked at the current prefix only.
validateCurrent(desired) == desired = <<>> \/ Head(desired) \in Acceptable
validateMarkerPrefixes(desired) == elements(desired) \subseteq Acceptable

\* What the markers of n should be.
Desired(n) ==
    IF dp[n] = None THEN <<>> ELSE keepFirst(crowdsecTrustedPrefixes(dp[n]), MaxMarkers)

Init ==
    /\ dp = [n \in Names |-> None] /\ cond = [n \in Names |-> None] /\ lost = {}
    /\ cached = [n \in Names |-> None]
    /\ markers = {}
    /\ ready = TRUE /\ token = None
    /\ queue = {} /\ pass = None
    /\ changes = 0 /\ faults = 0 /\ losses = 0
-----------------------------------------------------------------------------
(* DynamicPrefixes, LAPI and the operator's process. *)

Change == changes < MaxChanges /\ changes' = changes + 1

Created(n) ==
    /\ dp[n] = None /\ Change
    /\ dp' = [dp EXCEPT ![n] = NoPrefix]
    /\ queue' = queue \cup {n}
    /\ UNCHANGED <<cond, cached, lost, markers, ready, token, pass, faults, losses>>

\* The DynamicPrefix controller puts a new prefix into status.
Rotates(n) ==
    /\ dp[n] # None /\ Change
    /\ \E p \in PrefixesOf[n] \ {dp[n].current} :
         LET replaced == dp[n].current
             others == without(without(dp[n].history, p), replaced)
         IN  dp' = [dp EXCEPT ![n] =
                      [current |-> p,
                       history |-> IF replaced = None THEN others
                                   ELSE keepLast(Append(others, replaced), MaxHistory)]]
    /\ queue' = queue \cup {n}
    /\ UNCHANGED <<cond, cached, lost, markers, ready, token, pass, faults, losses>>

Deleted(n) ==
    /\ dp[n] # None /\ Change
    /\ dp' = [dp EXCEPT ![n] = None]
    /\ cond' = [cond EXCEPT ![n] = None] /\ lost' = lost \ {n}
    /\ cached' = [cached EXCEPT ![n] = None]
    /\ queue' = queue \cup {n}
    /\ UNCHANGED <<markers, ready, token, pass, faults, losses>>

\* The watch delivers a condition, which wakes nobody.
Deliver(n) ==
    /\ cached[n] # cond[n]
    /\ cached' = [cached EXCEPT ![n] = cond[n]]
    /\ UNCHANGED <<dp, cond, lost, markers, ready, token, queue, pass, bounds>>

\* What any EndpointSlice event of the LAPI Service enqueues.
allDynamicPrefixes == IF HasService THEN Names ELSE {}

\* LAPI stops; it forgets its tokens, and its decisions if they are not kept.
LAPIStops ==
    /\ ready /\ Change
    /\ ready' = FALSE
    /\ markers' \in {markers, {}}
    /\ token' = IF token = None THEN None ELSE "bad"
    /\ queue' = queue \cup allDynamicPrefixes
    /\ UNCHANGED <<dp, cond, cached, lost, pass, faults, losses>>

LAPIReturns ==
    /\ ~ready
    /\ ready' = TRUE
    /\ queue' = queue \cup allDynamicPrefixes
    /\ UNCHANGED <<dp, cond, cached, lost, markers, token, pass, bounds>>

\* The token expires by the client's clock, or at LAPI before that.
TokenExpires ==
    /\ token = "good" /\ Change
    /\ token' \in {None, "bad"}
    /\ UNCHANGED <<dp, cond, cached, lost, markers, ready, queue, pass, faults, losses>>

\* A restart, or the loss of leadership and its return: the initial lists
\* enqueue what exists.
OperatorRestarts ==
    /\ Change
    /\ token' = None /\ pass' = None
    /\ queue' = {n \in Names : dp[n] # None} \cup allDynamicPrefixes
    /\ UNCHANGED <<dp, cond, cached, lost, markers, ready, faults, losses>>
-----------------------------------------------------------------------------
(* One pass of Reconcile. *)

\* Best effort: the report may be lost, is if the DynamicPrefix is gone, and is
\* not sent if the object the pass read carries it already.
writeCondition(n, seen, condition) ==
    \/ dp[n] = None /\ UNCHANGED reported
    \/ /\ dp[n] # None /\ condition = seen
       /\ lost' = IF cond[n] = condition THEN lost \ {n} ELSE lost \cup {n}
       /\ UNCHANGED <<cond, losses>>
    \/ /\ dp[n] # None /\ condition # seen
       /\ cond' = [cond EXCEPT ![n] = condition] /\ lost' = lost \ {n}
       /\ UNCHANGED losses
    \/ /\ dp[n] # None /\ condition # seen /\ losses < MaxLost
       /\ losses' = losses + 1 /\ lost' = lost \cup {n} /\ UNCHANGED cond

lapiReady == HasService => ready

Begin ==
    /\ pass = None
    /\ \E n \in queue :
         /\ queue' = queue \ {n}
         /\ \E desired \in {Desired(n)} :
              IF dp[n] # None /\ desired = <<>>
              THEN pass' = None /\ UNCHANGED reported
              ELSE IF ~validateMarkerPrefixes(desired)
              THEN pass' = None /\ writeCondition(n, cached[n], [reason |-> "refused"])
              ELSE IF ~lapiReady
              THEN pass' = None /\ UNCHANGED reported
              ELSE /\ pass' = [name |-> n, found |-> dp[n] # None,
                               seen |-> cached[n], desired |-> desired,
                               listed |-> FALSE, create |-> {}, expire |-> {},
                               attempt |-> 0]
                   /\ UNCHANGED reported
    /\ UNCHANGED <<dp, cached, markers, ready, token, changes, faults>>

\* The pass ends with an error and is retried with backoff.
SyncFails ==
    /\ pass' = None
    /\ queue' = queue \cup {pass.name}
    /\ IF pass.found
       THEN writeCondition(pass.name, pass.seen, [reason |-> "failed"])
       ELSE UNCHANGED reported

\* A pass has a request to send as long as something is left to do.
Busy == pass # None /\ (~pass.listed \/ pass.create # {} \/ pass.expire # {})

login ==
    /\ Busy /\ token = None /\ ready
    /\ token' = "good"
    /\ UNCHANGED <<dp, cond, cached, lost, markers, ready, queue, pass, bounds>>

\* Unauthorized if a 401 were an error like any other.
UnauthorizedFails ==
    /\ Busy /\ token = "bad" /\ ready
    /\ SyncFails
    /\ UNCHANGED <<dp, cached, markers, ready, token, changes, faults>>

\* A 401: the first one drops the token and tries again with a new login.
Unauthorized ==
    /\ Busy /\ token = "bad" /\ ready
    /\ \/ /\ pass.attempt = 0
          /\ token' = None
          /\ pass' = [pass EXCEPT !.attempt = 1]
          /\ UNCHANGED <<reported, queue>>
       \/ /\ pass.attempt = 1
          /\ SyncFails
          /\ UNCHANGED token
    /\ UNCHANGED <<dp, cached, markers, ready, changes, faults>>

\* What is left to do once LAPI has listed the markers: a prefix has one,
\* whoever owns it; what n owns and does not want is obsolete.
present == {m.value : m \in markers}
owned(n) == {m.value : m \in {m \in markers : m.owner = n}}
listMarkers(p) ==
    [p EXCEPT !.listed = TRUE, !.attempt = 0,
              !.create = elements(p.desired) \ present,
              !.expire = owned(p.name) \ elements(p.desired)]

\* Markers are created in the order of desired.
nextToCreate ==
    {v \in pass.create :
       \E i \in 1..Len(pass.desired) :
         /\ pass.desired[i] = v
         /\ \A j \in 1..(i - 1) : pass.desired[j] \notin pass.create}

\* Effects if obsolete markers were expired before the missing are created.
ExpireFirst ==
    IF ~pass.listed THEN {[markers |-> markers, pass |-> listMarkers(pass)]}
    ELSE IF pass.expire = {}
    THEN {[markers |-> markers \cup {[value |-> v, owner |-> pass.name]},
           pass |-> [pass EXCEPT !.create = @ \ {v}, !.attempt = 0]] : v \in nextToCreate}
    ELSE {[markers |-> {m \in markers : m.value # v},
           pass |-> [pass EXCEPT !.expire = @ \ {v}, !.attempt = 0]] : v \in pass.expire}

\* A request that reaches LAPI.  The delete expires every marker of the value.
Effects ==
    IF ~pass.listed THEN {[markers |-> markers, pass |-> listMarkers(pass)]}
    ELSE IF pass.create # {}
    THEN {[markers |-> markers \cup {[value |-> v, owner |-> pass.name]},
           pass |-> [pass EXCEPT !.create = @ \ {v}, !.attempt = 0]] : v \in nextToCreate}
    ELSE {[markers |-> {m \in markers : m.value # v},
           pass |-> [pass EXCEPT !.expire = @ \ {v}, !.attempt = 0]] : v \in pass.expire}

Answered ==
    /\ Busy /\ token = "good" /\ ready
    /\ \E e \in Effects : markers' = e.markers /\ pass' = e.pass
    /\ UNCHANGED <<dp, cond, cached, lost, ready, token, queue, bounds>>

\* LAPI does what it is asked and its answer is lost.
AnswerLost ==
    /\ Busy /\ token = "good" /\ ready
    /\ faults < MaxFaults /\ faults' = faults + 1
    /\ \E e \in Effects : markers' = e.markers
    /\ SyncFails
    /\ UNCHANGED <<dp, cached, ready, token, changes>>

\* A login or a request that does not get through, as none does while LAPI is
\* down.
RequestFails ==
    /\ Busy
    /\ IF ready THEN faults < MaxFaults /\ faults' = faults + 1 ELSE UNCHANGED faults
    /\ SyncFails
    /\ UNCHANGED <<dp, cached, markers, ready, token, changes>>

Finish ==
    /\ pass # None /\ ~Busy
    /\ pass' = None
    /\ IF pass.found
       THEN writeCondition(pass.name, pass.seen,
                           [reason |-> "synced", covers |-> pass.desired])
       ELSE UNCHANGED reported
    /\ UNCHANGED <<dp, cached, markers, ready, token, queue, changes, faults>>

Reconcile ==
    \/ Begin \/ login \/ Unauthorized
    \/ Answered \/ AnswerLost \/ RequestFails \/ Finish

Next ==
    \/ \E n \in Names : Created(n) \/ Rotates(n) \/ Deleted(n) \/ Deliver(n)
    \/ LAPIStops \/ LAPIReturns \/ TokenExpires \/ OperatorRestarts
    \/ Reconcile

Spec == Init /\ [][Next]_vars
\* controller-runtime works its queue off, and LAPI does not stay away.
FairSpec == Spec /\ WF_vars(Reconcile) /\ WF_vars(LAPIReturns)
-----------------------------------------------------------------------------
\* No step of the operator takes a DynamicPrefix from having a marker to
\* having none, except to expire those of one that is gone: a rotation never
\* leaves a moment with neither prefix trusted, also when the new prefix cannot
\* be created, when its creation is repeated, or when another DynamicPrefix is
\* being worked on (sync, crowdsec_controller.go:206).
NeverBare ==
    [][\A n \in Names :
         owned(n) # {} /\ owned(n)' = {} =>
             \/ ready /\ ~ready'
             \/ pass # None /\ pass.name = n /\ ~pass.found]_vars

\* The prefixes of n that the limit leaves: the current one and the newest
\* draining ones.
Wanted(n) ==
    IF dp[n] = None \/ dp[n].current = None THEN {}
    ELSE {dp[n].current} \cup elements(keepLast(dp[n].history, MaxMarkers - 1))

\* Once DynamicPrefixes, LAPI and the operator stay as they are, every trusted
\* prefix within the limit has a marker and its DynamicPrefix owns no other;
\* one that is gone owns none, one whose prefixes are refused or that has no
\* prefix keeps what it has.  Failed and unanswered requests, tokens LAPI
\* forgot, lost decisions and restarts are all made up for (Reconcile,
\* crowdsec_controller.go:135).
MarkersFollow ==
    HasService => <>[](\A n \in Names :
        IF dp[n] = None THEN owned(n) = {}
        ELSE Wanted(n) # {} /\ Wanted(n) \subseteq Acceptable =>
                 Wanted(n) \subseteq present /\ owned(n) \subseteq Wanted(n))

Reported(n) ==
    Wanted(n) # {} =>
        /\ cond[n] # None
        /\ IF Wanted(n) \subseteq Acceptable
           THEN cond[n].reason = "synced" /\ elements(cond[n].covers) = Wanted(n)
           ELSE cond[n].reason = "refused"

\* Once everything stays as it is, CrowdSecMarkersSynced names the prefixes
\* that are covered, or says that they are refused, whatever failed and was
\* retried, unless the last report was not written: it could not be applied,
\* or the cache still held an earlier report that said the same
\* (writeCondition, crowdsec_controller.go:287).
ReportFollows == HasService => <>[](\A n \in Names \ lost : Reported(n))
=============================================================================
