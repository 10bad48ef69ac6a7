---------------------------- MODULE UserLifecycle ----------------------------
(***************************************************************************)
(* Disabling and reactivating users, and the outbox of lifecycle events    *)
(* every replica delivers (pkg/gateway/client/lifecycle.go), against the   *)
(* authorization-code exchange that issues refresh grants at the same time *)
(* (doAuthorizationCode, pkg/api/handlers/mcpgateway/oauth/token.go) and   *)
(* the controller that handles the reconcile objects a delivery creates.   *)
(*                                                                         *)
(* A claim is held or not: it is taken for a minute, and may run out at    *)
(* any moment a slow replica is still delivering.  Pruning delivered       *)
(* events after a week is left out: nothing reads a delivered event.       *)
(***************************************************************************)
EXTENDS Naturals, Sequences, FiniteSets, FiniteSetsExt

CONSTANTS
    Users, Replicas, Issuers,
    Browsers,       \* the users who open browser sessions
    Codes,          \* authorization codes
    CodeOwner,      \* the user who approved each code
    BatchSize,      \* userLifecycleDeliveryBatchSize
    MaxDisables,    \* bound on disablings
    MaxReconciles,  \* bound on group changes
    MaxGrants,      \* bound on grants issued
    MaxFaults       \* bound on failed calls and crashes of delivering replicas

ASSUME UsersAssumption == CodeOwner \in [Codes -> Users] /\ Browsers \subseteq Users
ASSUME BoundsAssumption ==
    /\ BatchSize \in Nat \ {0}
    /\ MaxDisables \in Nat
    /\ MaxReconciles \in Nat
    /\ MaxGrants \in Nat
    /\ MaxFaults \in Nat

VARIABLES
    status,         \* status[u], the user's row
    authToken,      \* authToken[u]: u has an auth token of an older release
    session,        \* session[u]: 0, or one more than the number of events
                    \* recorded when u's oldest open browser session began
    version,        \* version[u]: how often u's groups have changed
    events,         \* the outbox, in the order of the event IDs
    grants,         \* every grant ever created, with its owner
    stored,         \* the grants in storage
    handed,         \* the grants whose refresh token reached a client
    code,           \* the authorization requests
    objs,           \* UserRoleChange and UserGroupChange objects
    applied,        \* applied[kind][u]: the version last reconciled
    faults,
    pc, batch, todo, cur, listed, tokens, del, ok, done,   \* a delivery loop
    ipc, icode, igrant                                     \* an exchange

users == <<status, authToken, session, version>>
grantVars == <<grants, stored, handed, code>>
ctrl == <<objs, applied>>
loop == <<pc, batch, todo, cur, listed, tokens, del, ok, done>>
issuing == <<ipc, icode, igrant>>
vars == <<users, events, grantVars, ctrl, faults, loop, issuing>>

Kinds == {"role", "group"}

-----------------------------------------------------------------------------
Init ==
    /\ status = [u \in Users |-> "active"]
    /\ authToken = [u \in Users |-> TRUE]
    /\ session = [u \in Users |-> 0]
    /\ version = [u \in Users |-> 1]
    /\ events = <<>>
    /\ grants = <<>>
    /\ stored = {}
    /\ handed = {}
    /\ code = [c \in Codes |-> "none"]
    /\ objs = {}
    /\ applied = [k \in Kinds |-> [u \in Users |-> 1]]
    /\ faults = 0
    /\ pc = [r \in Replicas |-> "idle"]
    /\ batch = [r \in Replicas |-> {}]
    /\ todo = [r \in Replicas |-> {}]
    /\ cur = [r \in Replicas |-> {}]
    /\ listed = [r \in Replicas |-> "no"]
    /\ tokens = [r \in Replicas |-> {}]
    /\ del = [r \in Replicas |-> {}]
    /\ ok = [r \in Replicas |-> TRUE]
    /\ done = [r \in Replicas |-> {}]
    /\ ipc = [i \in Issuers |-> "idle"]
    /\ icode = [i \in Issuers |-> {}]
    /\ igrant = [i \in Issuers |-> 0]

Count(type) == Cardinality({e \in DOMAIN events : events[e].type = type})

Event(u, type, removed) ==
    [user |-> u, type |-> type, removed |-> removed,
     version |-> IF type = "reconcile" THEN version[u] + 1 ELSE 0,
     delivered |-> FALSE, claimed |-> FALSE]

-----------------------------------------------------------------------------
(* Transactions on the user. *)

\* disableUserTx: the user, the auth tokens and the event in one transaction.
DisableUser(u) ==
    /\ status[u] = "active"
    /\ Count("disabled") < MaxDisables
    /\ status' = [status EXCEPT ![u] = "disabled"]
    /\ authToken' = [authToken EXCEPT ![u] = FALSE]
    /\ events' = Append(events, Event(u, "disabled", FALSE))
    /\ UNCHANGED <<session, version, grantVars, ctrl, faults, loop, issuing>>

\* EnableUser and reactivateUserTx: no event.
EnableUser(u) ==
    /\ status[u] = "disabled"
    /\ status' = [status EXCEPT ![u] = "active"]
    /\ UNCHANGED <<authToken, session, version, events, grantVars, ctrl, faults, loop,
                   issuing>>

\* A SCIM write or a sign-in changes the user's groups and records it.
recordUserReconcileEvent(u, removed) ==
    /\ Count("reconcile") < MaxReconciles
    /\ version' = [version EXCEPT ![u] = @ + 1]
    /\ events' = Append(events, Event(u, "reconcile", removed))
    /\ UNCHANGED <<status, authToken, session, grantVars, ctrl, faults, loop, issuing>>

\* The auth provider begins a session.  It does not know the user's status:
\* the admission check denies the requests of a session that has been denied.
SignIn(u) ==
    /\ u \in Browsers
    /\ session[u] = 0
    /\ session' = [session EXCEPT ![u] = Len(events) + 1]
    /\ UNCHANGED <<status, authToken, version, events, grantVars, ctrl, faults, loop,
                   issuing>>

\* The session expires, or its user signs out.
SignOut(u) ==
    /\ session[u] # 0
    /\ session' = [session EXCEPT ![u] = 0]
    /\ UNCHANGED <<status, authToken, version, events, grantVars, ctrl, faults, loop,
                   issuing>>

-----------------------------------------------------------------------------
(* doAuthorizationCode *)

\* The authorize endpoint stores a request for a signed-in user.
Approve(c) ==
    /\ code[c] = "none"
    /\ status[CodeOwner[c]] = "active"
    /\ code' = [code EXCEPT ![c] = "stored"]
    /\ UNCHANGED <<users, events, grants, stored, handed, ctrl, faults, loop, issuing>>

ListCode(i, c) ==
    /\ ipc[i] = "idle"
    /\ code[c] = "stored"
    /\ ipc' = [ipc EXCEPT ![i] = "code"]
    /\ icode' = [icode EXCEPT ![i] = {c}]
    /\ UNCHANGED <<users, events, grantVars, ctrl, faults, loop, igrant>>

\* The request is deleted; an error here (or that it is gone) is only logged.
DeleteCode(i) ==
    /\ ipc[i] = "code"
    /\ ipc' = [ipc EXCEPT ![i] = "user"]
    /\ \/ code' = [c \in Codes |-> IF c \in icode[i] THEN "gone" ELSE code[c]]
       \/ code' = code
    /\ UNCHANGED <<users, events, grants, stored, handed, ctrl, faults, loop,
                   icode, igrant>>

\* The user is read, the access token is signed.
CheckUser(i) ==
    /\ ipc[i] = "user"
    /\ \A c \in icode[i] : status[CodeOwner[c]] = "active"
    /\ ipc' = [ipc EXCEPT ![i] = "create"]
    /\ UNCHANGED <<users, events, grantVars, ctrl, faults, loop, icode, igrant>>

CreateGrant(i) ==
    /\ ipc[i] = "create"
    /\ Len(grants) < MaxGrants
    /\ \E c \in icode[i] :
        grants' = Append(grants, [owner |-> CodeOwner[c], code |-> c,
                                  since |-> Len(events)])
    /\ stored' = stored \cup {Len(grants) + 1}
    /\ igrant' = [igrant EXCEPT ![i] = Len(grants) + 1]
    /\ ipc' = [ipc EXCEPT ![i] = "owner"]
    /\ UNCHANGED <<users, events, handed, code, ctrl, faults, loop, icode>>

\* The answer is written without reading the owner again.
OwnerIgnored(i) ==
    /\ ipc[i] = "owner"
    /\ ipc' = [ipc EXCEPT ![i] = "write"]
    /\ UNCHANGED <<users, events, grantVars, ctrl, faults, loop, icode, igrant>>

\* revokeIfUserDenied reads the owner again, after the grant is stored.
revokeIfUserDenied(i) ==
    /\ ipc[i] = "owner"
    /\ ipc' = [ipc EXCEPT ![i] =
                  IF status[grants[igrant[i]].owner] = "active" THEN "write" ELSE "revoke"]
    /\ UNCHANGED <<users, events, grantVars, ctrl, faults, loop, icode, igrant>>

EndExchange(i) ==
    /\ ipc' = [ipc EXCEPT ![i] = "idle"]
    /\ icode' = [icode EXCEPT ![i] = {}]
    /\ igrant' = [igrant EXCEPT ![i] = 0]

RevokeGrant(i) ==
    /\ ipc[i] = "revoke"
    /\ stored' = stored \ {igrant[i]}
    /\ EndExchange(i)
    /\ UNCHANGED <<users, events, grants, handed, code, ctrl, faults, loop>>

WriteAnswer(i) ==
    /\ ipc[i] = "write"
    /\ handed' = handed \cup {igrant[i]}
    /\ EndExchange(i)
    /\ UNCHANGED <<users, events, grants, stored, code, ctrl, faults, loop>>

\* A failed check or call, a crash: a grant may stay whose token nobody has.
AbortExchange(i) ==
    /\ ipc[i] # "idle"
    /\ EndExchange(i)
    /\ UNCHANGED <<users, events, grantVars, ctrl, faults, loop>>

-----------------------------------------------------------------------------
(* deliverUserLifecycleEventBatch *)

Claimable(e) == ~ events[e].delivered /\ ~ events[e].claimed

\* The oldest claimable events, listed without a lock.
ListEvents(r) ==
    LET ready == {e \in DOMAIN events : Claimable(e)}
    IN  /\ pc[r] = "idle"
        /\ ready # {}
        /\ batch' = [batch EXCEPT ![r] =
                {e \in ready : Cardinality({f \in ready : f < e}) < BatchSize}]
        /\ pc' = [pc EXCEPT ![r] = "claim"]
        /\ UNCHANGED <<users, events, grantVars, ctrl, faults,
                       todo, cur, listed, tokens, del, ok, done, issuing>>

\* One statement claims those another replica has not claimed meanwhile.
claimUserLifecycleEvents(r) ==
    LET mine == {e \in batch[r] : Claimable(e)}
    IN  /\ pc[r] = "claim"
        /\ events' = [e \in DOMAIN events |->
                IF e \in mine THEN [events[e] EXCEPT !.claimed = TRUE] ELSE events[e]]
        /\ todo' = [todo EXCEPT ![r] = mine]
        /\ batch' = [batch EXCEPT ![r] = {}]
        /\ pc' = [pc EXCEPT ![r] = "next"]
        /\ UNCHANGED <<users, grantVars, ctrl, faults,
                       cur, listed, tokens, del, ok, done, issuing>>

SameDelivery(e, f) ==
    events[e].user = events[f].user /\ events[e].type = events[f].type

\* The next delivery: every claimed event of the oldest one's user and type.
coalesceUserLifecycleEvents(r) ==
    /\ pc[r] = "next"
    /\ todo[r] # {}
    /\ LET first == Min(todo[r])
       IN  /\ cur' = [cur EXCEPT ![r] = {e \in todo[r] : SameDelivery(e, first)}]
           /\ pc' = [pc EXCEPT ![r] =
                        IF events[first].type = "disabled" THEN "status" ELSE "roles"]
    /\ ok' = [ok EXCEPT ![r] = TRUE]
    /\ UNCHANGED <<users, events, grantVars, ctrl, faults,
                   batch, todo, listed, tokens, del, done, issuing>>

\* The user a delivery is for.
CurUser(r) == events[Min(cur[r])].user

\* Leaves the delivered events among those still to be delivered.
EndDeliveryKeepsTodo(r, worked) ==
    /\ done' = [done EXCEPT ![r] = IF worked THEN @ \cup cur[r] ELSE @]
    /\ cur' = [cur EXCEPT ![r] = {}]
    /\ pc' = [pc EXCEPT ![r] = "next"]
    /\ UNCHANGED todo

\* The delivery ends; its events are to be marked only if all of it worked.
EndDelivery(r, worked) ==
    /\ done' = [done EXCEPT ![r] = IF worked THEN @ \cup cur[r] ELSE @]
    /\ todo' = [todo EXCEPT ![r] = @ \ cur[r]]
    /\ cur' = [cur EXCEPT ![r] = {}]
    /\ pc' = [pc EXCEPT ![r] = "next"]

Fault ==
    /\ faults < MaxFaults
    /\ faults' = faults + 1

\* Takes every event for one whose user is active again.
SkipAny(r) ==
    /\ pc[r] = "status"
    /\ EndDelivery(r, TRUE)
    /\ UNCHANGED <<users, events, grantVars, ctrl, faults,
                   batch, listed, tokens, del, ok, issuing>>

\* deliverUserDisabledEvent: nothing to do for a user who is active again.
SkipActive(r) ==
    /\ pc[r] = "status"
    /\ status[CurUser(r)] = "active"
    /\ EndDelivery(r, TRUE)
    /\ UNCHANGED <<users, events, grantVars, ctrl, faults,
                   batch, listed, tokens, del, ok, issuing>>

SeeDisabled(r) ==
    /\ pc[r] = "status"
    /\ status[CurUser(r)] = "disabled"
    /\ pc' = [pc EXCEPT ![r] = "list"]
    /\ UNCHANGED <<users, events, grantVars, ctrl, faults,
                   batch, todo, cur, listed, tokens, del, ok, done, issuing>>

\* listOAuthTokensOnce: the first delivery of the batch lists, and every later
\* one reuses what it got, an error included.
ListTokens(r) ==
    /\ pc[r] = "list"
    /\ \/ /\ listed[r] = "no"
          /\ listed' = [listed EXCEPT ![r] = "yes"]
          /\ tokens' = [tokens EXCEPT ![r] = stored]
          /\ UNCHANGED <<ok, faults>>
       \/ /\ listed[r] = "no"
          /\ Fault
          /\ listed' = [listed EXCEPT ![r] = "failed"]
          /\ ok' = [ok EXCEPT ![r] = FALSE]
          /\ UNCHANGED tokens
       \/ /\ listed[r] # "no"
          /\ ok' = [ok EXCEPT ![r] = listed[r] = "yes"]
          /\ UNCHANGED <<listed, tokens, faults>>
    /\ del' = [del EXCEPT ![r] = {g \in tokens'[r] : grants[g].owner = CurUser(r)}]
    /\ pc' = [pc EXCEPT ![r] = "delete"]
    /\ UNCHANGED <<users, events, grantVars, ctrl, batch, todo, cur, done, issuing>>

\* Each token on its own; a failure does not keep the next from being tried.
deleteUserOAuthTokens(r, g) ==
    /\ pc[r] = "delete"
    /\ g \in del[r]
    /\ del' = [del EXCEPT ![r] = @ \ {g}]
    /\ \/ stored' = stored \ {g} /\ UNCHANGED <<ok, faults>>
       \/ Fault /\ ok' = [ok EXCEPT ![r] = FALSE] /\ UNCHANGED stored
    /\ UNCHANGED <<users, events, grants, handed, code, ctrl,
                   pc, batch, todo, cur, listed, tokens, done, issuing>>

endUserSessions(r) ==
    /\ pc[r] = "delete"
    /\ del[r] = {}
    /\ \/ /\ session' = [session EXCEPT ![CurUser(r)] = 0]
          /\ EndDelivery(r, ok[r])
          /\ UNCHANGED faults
       \/ /\ Fault
          /\ EndDelivery(r, FALSE)
          /\ UNCHANGED session
    /\ UNCHANGED <<status, authToken, version, events, grantVars, ctrl,
                   batch, listed, tokens, del, ok, issuing>>

\* deliverUserReconcileEvent: objects named after the oldest event of the
\* delivery; one that exists already counts as created.
Exists(kind, e) == \E o \in objs : o.kind = kind /\ o.event = e

CreateObject(r, kind) ==
    LET e == Min(cur[r])
    IN  objs' = IF Exists(kind, e) THEN objs
                ELSE objs \cup {[kind |-> kind, event |-> e,
                                 user |-> CurUser(r), seen |-> 0]}

CreateRoleChange(r) ==
    /\ pc[r] = "roles"
    /\ CreateObject(r, "role")
    /\ IF \E e \in cur[r] : events[e].removed
       THEN pc' = [pc EXCEPT ![r] = "groups"] /\ UNCHANGED <<todo, cur, done>>
       ELSE EndDelivery(r, TRUE)
    /\ UNCHANGED <<users, events, grantVars, applied, faults,
                   batch, listed, tokens, del, ok, issuing>>

CreateGroupChange(r) ==
    /\ pc[r] = "groups"
    /\ CreateObject(r, "group")
    /\ EndDelivery(r, TRUE)
    /\ UNCHANGED <<users, events, grantVars, applied, faults,
                   batch, listed, tokens, del, ok, issuing>>

\* The status cannot be read or an object cannot be created: this delivery
\* fails and the batch goes on.
DeliveryFails(r) ==
    /\ pc[r] \in {"status", "roles", "groups"}
    /\ Fault
    /\ EndDelivery(r, FALSE)
    /\ UNCHANGED <<users, events, grantVars, ctrl,
                   batch, listed, tokens, del, ok, issuing>>

Rest(r) ==
    /\ pc' = [pc EXCEPT ![r] = "idle"]
    /\ batch' = [batch EXCEPT ![r] = {}]
    /\ todo' = [todo EXCEPT ![r] = {}]
    /\ cur' = [cur EXCEPT ![r] = {}]
    /\ listed' = [listed EXCEPT ![r] = "no"]
    /\ tokens' = [tokens EXCEPT ![r] = {}]
    /\ del' = [del EXCEPT ![r] = {}]
    /\ ok' = [ok EXCEPT ![r] = TRUE]
    /\ done' = [done EXCEPT ![r] = {}]
    /\ UNCHANGED <<users, grantVars, ctrl, issuing>>

MarkDelivered(r) ==
    /\ pc[r] = "next"
    /\ todo[r] = {}
    /\ events' = [e \in DOMAIN events |->
            IF e \in done[r] THEN [events[e] EXCEPT !.delivered = TRUE] ELSE events[e]]
    /\ Rest(r)
    /\ UNCHANGED faults

\* A database error ends the batch, a crash the replica: nothing is marked.
Crash(r) ==
    /\ pc[r] # "idle"
    /\ Fault
    /\ Rest(r)
    /\ UNCHANGED events

\* A claim without a deadline.
ExpireClaimNever(e) ==
    /\ events[e].claimed /\ events[e].delivered
    /\ UNCHANGED vars

\* The minute of a claim is over.
ExpireClaim(e) ==
    /\ events[e].claimed /\ ~ events[e].delivered
    /\ events' = [events EXCEPT ![e].claimed = FALSE]
    /\ UNCHANGED <<users, grantVars, ctrl, faults, loop, issuing>>

Deliver(r) ==
    \/ ListEvents(r) \/ claimUserLifecycleEvents(r) \/ coalesceUserLifecycleEvents(r)
    \/ SkipActive(r) \/ SeeDisabled(r) \/ ListTokens(r)
    \/ \E g \in del[r] : deleteUserOAuthTokens(r, g)
    \/ endUserSessions(r) \/ CreateRoleChange(r) \/ CreateGroupChange(r)
    \/ DeliveryFails(r) \/ MarkDelivered(r)

-----------------------------------------------------------------------------
(* HandleRoleChange and HandleUserGroupChange, one object of a kind at a     *)
(* time: read the user's roles and groups, reconcile, delete the object.     *)

HandleChange(o) ==
    /\ o.seen = 0
    /\ \A p \in objs : p.kind = o.kind => p.seen = 0
    /\ objs' = (objs \ {o}) \cup {[o EXCEPT !.seen = version[o.user]]}
    /\ UNCHANGED <<users, events, grantVars, applied, faults, loop, issuing>>

FinishChange(o) ==
    /\ o.seen # 0
    /\ objs' = objs \ {o}
    /\ applied' = [applied EXCEPT ![o.kind][o.user] = o.seen]
    /\ UNCHANGED <<users, events, grantVars, faults, loop, issuing>>

\* A handler that fails, before or after it reconciled, runs again.
RetryChange(o) ==
    /\ o.seen # 0
    /\ Fault
    /\ objs' = (objs \ {o}) \cup {[o EXCEPT !.seen = 0]}
    /\ applied' \in {applied, [applied EXCEPT ![o.kind][o.user] = o.seen]}
    /\ UNCHANGED <<users, events, grantVars, loop, issuing>>

-----------------------------------------------------------------------------
Next ==
    \/ \E u \in Users :
        \/ DisableUser(u) \/ EnableUser(u) \/ SignIn(u) \/ SignOut(u)
        \/ \E b \in BOOLEAN : recordUserReconcileEvent(u, b)
    \/ \E c \in Codes : Approve(c)
    \/ \E i \in Issuers :
        \/ \E c \in Codes : ListCode(i, c)
        \/ DeleteCode(i) \/ CheckUser(i) \/ CreateGrant(i) \/ revokeIfUserDenied(i)
        \/ RevokeGrant(i) \/ WriteAnswer(i) \/ AbortExchange(i)
    \/ \E r \in Replicas : Deliver(r) \/ Crash(r)
    \/ \E e \in DOMAIN events : ExpireClaim(e)
    \/ \E o \in objs : HandleChange(o) \/ FinishChange(o) \/ RetryChange(o)

Spec == Init /\ [][Next]_vars

\* Every replica's loop runs on its ticker for as long as the process lives,
\* a claim's minute passes, and failures are finitely many.
FairSpec ==
    /\ Spec
    /\ \A r \in Replicas : WF_vars(Deliver(r))
    /\ WF_vars(\E e \in DOMAIN events : ExpireClaim(e))
    /\ WF_vars(\E o \in objs : HandleChange(o) \/ FinishChange(o))

-----------------------------------------------------------------------------
(* Properties *)

\* Every event a replica holds is in the outbox, and none is both delivered
\* and still to be delivered by it; every grant it deletes was listed.
TypeOK ==
    /\ status \in [Users -> {"active", "disabled"}]
    /\ authToken \in [Users -> BOOLEAN]
    /\ session \in [Users -> 0 .. Len(events) + 1]
    /\ stored \subseteq DOMAIN grants
    /\ handed \subseteq DOMAIN grants
    /\ code \in [Codes -> {"none", "stored", "gone"}]
    /\ faults \in 0 .. MaxFaults
    /\ \A r \in Replicas :
        /\ cur[r] \subseteq todo[r]
        /\ done[r] \cap todo[r] = {}
        /\ batch[r] \cup todo[r] \cup done[r] \subseteq DOMAIN events
        /\ del[r] \subseteq tokens[r] /\ tokens[r] \subseteq DOMAIN grants
    /\ \A i \in Issuers : ipc[i] = "idle" <=> icode[i] = {}

\* An undelivered event will still revoke what u holds.
RevocationPending(u) ==
    \E e \in DOMAIN events :
        events[e].type = "disabled" /\ events[e].user = u /\ ~ events[e].delivered

\* A refresh token that reached a client does not outlive its owner's access:
\* while the owner is disabled, the grant is gone or an event that will
\* delete it is still to be delivered, although an exchange may create the
\* grant after a delivery has listed the owner's grants.
NoGrantOutlivesDenial ==
    \A g \in stored \cap handed :
        status[grants[g].owner] = "disabled" => RevocationPending(grants[g].owner)

\* The same for browser sessions, in an installation that stores them: one
\* that was open when a disabled user was last disabled is ended, or that
\* disabling is still to be delivered.
NoSessionOutlivesDenial ==
    \A u \in Users, e \in DOMAIN events :
        (/\ status[u] = "disabled"
         /\ events[e].type = "disabled" /\ events[e].user = u
         /\ session[u] \in 1 .. e) => RevocationPending(u)

\* Failed calls, crashes and lost claims only delay an event.
EventsDelivered ==
    \A n \in 1 .. MaxDisables + MaxReconciles :
        (n \in DOMAIN events) ~> (n \in DOMAIN events /\ events[n].delivered)

\* The comment on deliverUserDisabledEvent: a late event for a reactivated
\* user deletes nothing.  Here: a delivery deletes no grant that an active
\* user obtained after the events it delivers.
LateEventDeletesNothing ==
    [][\A r \in Replicas, g \in stored \ stored' :
        (pc[r] = "delete" /\ g \in del[r] \ del'[r] /\ status[grants[g].owner] = "active")
            => grants[g].since < Max(cur[r])]_vars

\* doAuthorizationCode: authorization codes are one-time use.
CodeUsedOnce ==
    \A g, f \in handed : grants[g].code = grants[f].code => g = f

\* recordUserReconcileEvent: the user is reconciled once the change commits.
\* A delivered event's change has been applied, or an object is left whose
\* handler has not yet read, or has read it.
NoReconcileLost ==
    \A e \in DOMAIN events :
        (events[e].type = "reconcile" /\ events[e].delivered) =>
            \/ applied["role"][events[e].user] >= events[e].version
            \/ \E o \in objs :
                /\ o.kind = "role" /\ o.user = events[e].user
                /\ o.seen = 0 \/ o.seen >= events[e].version
=============================================================================
