--------------------------- MODULE ProviderSwitch ---------------------------
(***************************************************************************)
(* Configuring, staging, switching, migrating and deconfiguring auth       *)
(* providers: the handlers of api/handlers/authprovider.go, which check    *)
(* and submit one change, the controller that carries it out step by step  *)
(* (controller/handlers/providerconfigurationchange), the verification     *)
(* login of a staged provider (gateway/server/oauth.go), the SCIM          *)
(* connection that stands in for directory credentials (scim/setup) and    *)
(* the cleanup of a deconfigured provider (controller/handlers/cleanup).   *)
(*                                                                         *)
(* A configuration either has its directory parameters ("dir") or omits    *)
(* them ("scim"), in which case its groups come through the one SCIM       *)
(* connection there is.  Changes are serialized by the name of the change  *)
(* object.  The controller's work on a change is a sequence of steps, each *)
(* of which writes one thing; an error or a crash at any of them makes it  *)
(* begin again from what it finds stored.                                  *)
(***************************************************************************)
EXTENDS Naturals, Sequences, FiniteSets

CONSTANTS
    Providers,
    Requests,       \* concurrent administrators' requests
    None,           \* no provider
    MaxChanges,     \* bound on submitted changes
    MaxFaults,      \* bound on failed steps of the controller
    MaxInflight     \* bound on the providers with group data under way

ASSUME NoneAssumption == None \notin Providers
ASSUME BoundsAssumption ==
    MaxChanges \in Nat /\ MaxFaults \in Nat /\ MaxInflight \in Nat

Kinds == {"dir", "scim"}
NoChange == [op |-> "none"]
Idle == [pc |-> "idle"]

VARIABLES
    active,         \* the credential in each provider's own context, or "none"
    staged,         \* the one in the replacement context, or "none"
    conn, migrated, \* the SCIM connection's provider; whether it was migrated
    groups,         \* a provider's stored group data: "served" when what the
                    \* provider or its connection brought, "stray" when from
                    \* a verification or stored after a cleanup deleted it
    inflight,       \* the group data a request has yet to store
    cleanup,        \* the provider's AuthProviderCleanup
    change, status, \* the ProviderConfigurationChange
    plan,           \* the steps the controller has yet to take
    req,            \* the administrators' requests
    verifying,      \* the provider of the verification login under way
    cache,          \* TempSetupUser: the provider that was verified
    submitted, faults,
    overlap,        \* history: a cleanup began between a request's check
                    \* of it and the submission of the request's change
    unread          \* history: a change was reconciled without the provider
                    \* in use being found, because it could not be read

creds == <<active, staged>>
scim == <<conn, migrated>>
object == <<change, status, plan>>
login == <<verifying, cache>>
counts == <<submitted, faults>>
data == <<groups, inflight>>
history == <<overlap, unread>>
vars == <<creds, scim, data, cleanup, object, req, login, counts, history>>

\* isAuthProviderConfigured: the credential has every parameter it needs.
Configured(p) == active[p] = "dir" \/ (active[p] = "scim" /\ conn = p)

\* GetConfiguredAuthProvider: one of them (the stored statuses and the order
\* of the list decide which), or none.  A credential that cannot be read or
\* decrypted counts as not configured, so none is always a possible answer.
ConfiguredProviders == {p \in Providers : Configured(p)} \cup {None}

Staged(p) == staged[p] # "none"

\* The system at rest: at most one provider serves, at most one other is
\* staged, and a configuration without directory parameters has a connection.
Init ==
    /\ \E s, t \in Providers \cup {None} : \E k, l \in Kinds :
          /\ s = t => s = None
          /\ s = None => t = None
          /\ active = [p \in Providers |-> IF p = s THEN k ELSE "none"]
          /\ staged = [p \in Providers |-> IF p = t THEN l ELSE "none"]
          /\ conn = IF s # None /\ k = "scim" THEN s
                    ELSE IF t # None /\ l = "scim" THEN t ELSE None
          /\ (t # None /\ l = "scim") => conn = t
    /\ migrated = FALSE
    /\ groups = [p \in Providers |-> "none"]
    /\ inflight = [p \in Providers |-> "none"]
    /\ cleanup = [p \in Providers |-> "none"]
    /\ change = NoChange /\ status = "open" /\ plan = << >>
    /\ req = [h \in Requests |-> Idle]
    /\ verifying = None /\ cache = None
    /\ submitted = 0 /\ faults = 0
    /\ overlap = [p \in Providers |-> FALSE] /\ unread = FALSE

-----------------------------------------------------------------------------
(* The API handlers.  Each checks the stored state, then submits a change. *)

NoCleanup(p) == cleanup[p] = "none"

\* Mutant: any cleanup is good enough.
cleanupIgnored(p) == p \in Providers

ensureNoPendingAuthProviderCleanup(p) == NoCleanup(p)

\* What a handler requires before it submits; p is the provider, k what the
\* submitted configuration has.
Checked(op, p, k) ==
    \/ /\ op = "Configure" /\ k \in Kinds
       /\ ensureNoPendingAuthProviderCleanup(p)
       /\ \E c \in ConfiguredProviders : c \in {None, p}
    \/ /\ op = "Stage" /\ k \in Kinds
       /\ ensureNoPendingAuthProviderCleanup(p)
       /\ \E c \in ConfiguredProviders : c # p
    \/ op \in {"Unstage", "Migrate"} /\ k = "none"
    \/ /\ op = "Deconfigure" /\ k = "none" /\ ~Staged(p)
       /\ \E c \in ConfiguredProviders : c # p

\* Configure, Stage, Unstage, Deconfigure and the enabling of SCIM.
Check(h, op, p, k) ==
    /\ req[h] = Idle /\ submitted < MaxChanges
    /\ Checked(op, p, k)
    /\ req' = [req EXCEPT ![h] =
          [pc |-> "submit", op |-> op, prov |-> p, kind |-> k,
           repl |-> None,
           clean |-> op \in {"Configure", "Stage"} /\ NoCleanup(p)]]
    /\ UNCHANGED <<creds, scim, data, cleanup, object, login, counts, history>>

\* Activate needs a recorded verification and names the outgoing provider.
CheckActivate(h, p) ==
    /\ req[h] = Idle /\ submitted < MaxChanges
    /\ Staged(p) /\ cache = p
    /\ \E c \in ConfiguredProviders :
          req' = [req EXCEPT ![h] =
             [pc |-> "submit", op |-> "Activate", prov |-> p, kind |-> "none",
              repl |-> c, clean |-> FALSE]]
    /\ UNCHANGED <<creds, scim, data, cleanup, object, login, counts, history>>

\* submitProviderConfigurationChange: the object's name is taken, or created.
\* Stage, Unstage and Activate do something once the change is applied; what
\* the others wait for changes nothing.
Submit(h) ==
    /\ req[h].pc = "submit"
    /\ IF change = NoChange
         THEN /\ submitted < MaxChanges /\ submitted' = submitted + 1
              /\ change' = [op |-> req[h].op, prov |-> req[h].prov,
                            kind |-> req[h].kind, repl |-> req[h].repl]
              /\ req' = [req EXCEPT ![h] =
                    IF req[h].op \in {"Stage", "Unstage", "Activate"}
                      THEN [pc |-> "wait"] ELSE Idle]
              /\ overlap' = [overlap EXCEPT ![req[h].prov] =
                    @ \/ (req[h].clean /\ ~NoCleanup(req[h].prov))]
         ELSE /\ req' = [req EXCEPT ![h] = Idle]
              /\ UNCHANGED <<change, submitted, overlap>>
    /\ UNCHANGED <<creds, scim, data, cleanup, status, plan, login, faults,
                   unread>>

\* waitForProviderConfigurationChange: the change is applied, or gone, and the
\* verification is cleared (ClearTempUserCache).
Applied(h) ==
    /\ req[h].pc = "wait"
    /\ change = NoChange \/ status = "applied"
    /\ cache' = None
    /\ req' = [req EXCEPT ![h] = Idle]
    /\ UNCHANGED <<creds, scim, data, cleanup, object, verifying, counts,
                   history>>

\* The change was refused, two minutes passed, or the client went away.
GiveUp(h) ==
    /\ req[h].pc = "wait"
    /\ req' = [req EXCEPT ![h] = Idle]
    /\ UNCHANGED <<creds, scim, data, cleanup, object, login, counts, history>>

\* Verify drops the previous verification and starts a login.
Verify(p) ==
    /\ Staged(p)
    /\ cache' = None /\ verifying' = p
    /\ UNCHANGED <<creds, scim, data, cleanup, object, req, counts, history>>

\* The login comes back and is recorded, once.
redirect(p) ==
    /\ verifying = p /\ verifying' = None
    /\ cache' = IF Staged(p) /\ cache = None THEN p ELSE cache
    /\ UNCHANGED <<creds, scim, data, cleanup, object, req, counts, history>>

-----------------------------------------------------------------------------
(* Group data: a request checks what is there, then waits for the provider  *)
(* or the database, then stores.  At most one per provider is under way.   *)

Brings(p, d) ==
    /\ inflight[p] = "none"
    /\ Cardinality({q \in Providers : inflight[q] # "none"}) < MaxInflight
    /\ inflight' = [inflight EXCEPT ![p] = d]
    /\ UNCHANGED <<creds, scim, groups, cleanup, object, req, login, counts,
                   history>>

\* refreshGroups, up to the answer of the provider: a sign-in through the
\* serving provider or a verification through the staged one, unless SCIM
\* owns the provider's groups.
refreshGroups(p) ==
    /\ conn # p
    /\ \/ Configured(p) /\ Brings(p, "served")
       \/ verifying = p /\ staged[p] = "dir" /\ Brings(p, "stray")

\* A SCIM request is admitted while its connection's provider is configured.
connection(p) == conn = p /\ Configured(p) /\ Brings(p, "pushed")

\* persistGroups looks again only for a SCIM connection.  It writes nothing
\* when it finds one, fails, or has lost its claim on the identity's last
\* check; the claim of an identity's first refresh survives a cleanup.
\* cacheResolvedGroups stores in the same way, without a claim.
persistGroups(p) ==
    /\ inflight[p] \in {"served", "stray"}
    /\ inflight' = [inflight EXCEPT ![p] = "none"]
    /\ \/ /\ conn # p
          /\ groups' = [groups EXCEPT ![p] =
                IF @ = "none" THEN inflight[p]
                ELSE IF inflight[p] = "served" THEN "served" ELSE @]
       \/ UNCHANGED groups
    /\ UNCHANGED <<creds, scim, cleanup, object, req, login, counts, history>>

\* lockSCIMConnectionWrites: the request's own connection is still there.
pushGroup(p) ==
    /\ inflight[p] = "pushed"
    /\ inflight' = [inflight EXCEPT ![p] = "none"]
    /\ groups' = IF conn = p THEN [groups EXCEPT ![p] = "served"] ELSE groups
    /\ UNCHANGED <<creds, scim, cleanup, object, req, login, counts, history>>

-----------------------------------------------------------------------------
(* The controller *)

\* Mutant: the remaining steps are not dropped.
RefuseGoesOn == status' = "refused" /\ UNCHANGED plan

\* A terminal error ends the change.
Refuse == status' = "refused" /\ plan' = << >>

\* CheckConfiguration: with a connection of its own the provider keeps it;
\* without one, and without directory parameters, a configured provider is
\* refused and another gets a connection first.
NeedsConnection(p, k) == conn # p /\ k = "scim"

Prepare(p, k) == IF NeedsConnection(p, k) THEN <<"connect">> ELSE << >>

\* Mutant: the credential goes after the connection.
deconfigureConnectionFirst(p) ==
    <<"intent", "disconnect", "uncredential", "ready">>

\* Mutant: the intent to clean up is persisted last.
deconfigureIntentLast(p) ==
    <<"uncredential", "disconnect", "intent", "ready">>

\* deconfigureAuthProvider: persist the cleanup intent, delete the credential,
\* then the SCIM connection and the sessions, then let the cleanup start.
deconfigureAuthProvider(p) ==
    <<"intent", "uncredential", "disconnect", "ready">>

\* Mutant: the outgoing provider is deconfigured before the new one is there.
switchOutgoingFirst(p, o) ==
    deconfigureAuthProvider(o) \o Prepare(p, staged[p])
        \o <<"promote", "unstage", "finish">>

\* The steps of a switch that found the staged configuration, or that resumes
\* after it was promoted and unstaged.
switchSteps(p, o) ==
    (IF Staged(p) THEN Prepare(p, staged[p]) \o <<"promote">> ELSE << >>)
        \o deconfigureAuthProvider(o) \o <<"unstage", "finish">>

\* A switch is refused when another provider serves, when it finished already
\* (the outgoing one is staged or configured again), or with nothing staged.
switchRefused(c, p, o) ==
    \/ c \notin {o, p}
    \/ c = p /\ (Staged(o) \/ (~Staged(p) /\ active[o] # "none"))
    \/ c # p /\ ~Staged(p)

\* Mutant: the controller trusts the handler's check of what is configured.
configureRefusedTrusting(c, p, k) == NeedsConnection(p, k) /\ active[p] # "none"

\* Another provider is configured, or this one is, with its directory.
configureRefused(c, p, k) ==
    \/ c \notin {None, p}
    \/ NeedsConnection(p, k) /\ active[p] # "none"

\* The change is refused, given the provider c that was found configured.
Refused(op, p, k, o, c) ==
    CASE op = "Configure" -> configureRefused(c, p, k)
      [] op = "Stage" ->
           \/ c \in {None, p}
           \/ \E q \in Providers \ {p} : Staged(q)
      [] op = "Activate" -> o \in {None, p} \/ switchRefused(c, p, o)
      [] op = "Migrate" ->
           \/ c # p \/ \E q \in Providers : Staged(q)
           \/ conn # None /\ ~(conn = p /\ migrated)
           \/ ~NoCleanup(p)
      [] op = "Deconfigure" -> Staged(p)
      [] OTHER -> FALSE

\* Mutant: the staged configuration goes first.
unstageCredentialFirst == <<"discard", "disconnectStaged", "finish">>

\* The connection goes first: a retry still finds the staging to discard.
unstageSteps == <<"disconnectStaged", "discard", "finish">>

\* The steps of reconcileAuthProvider for each desired state.
Plan(op, p, k, o) ==
    CASE op = "Configure" -> Prepare(p, k) \o <<"configure", "finish">>
      [] op = "Stage" -> Prepare(p, k) \o <<"stage", "finish">>
      [] op = "Activate" -> switchSteps(p, o)
      [] op = "Migrate" -> <<"migrate", "finish">>
      [] op = "Unstage" -> unstageSteps
      [] op = "Deconfigure" -> deconfigureAuthProvider(p) \o <<"finish">>

\* A provider is in use, and the change is reconciled as if there were none.
\* Unstage and Deconfigure do not look.
Overlooked(c) ==
    /\ c = None /\ \E p \in Providers : Configured(p)
    /\ change.op \notin {"Unstage", "Deconfigure"}

\* The start of Reconcile: validate, look at what is there, refuse or go on.
Begin ==
    /\ change # NoChange /\ status = "open" /\ plan = << >>
    /\ \E c \in ConfiguredProviders :
          /\ unread' = (unread \/ Overlooked(c))
          /\ IF Refused(change.op, change.prov, change.kind, change.repl, c)
               THEN Refuse
               ELSE /\ plan' = Plan(change.op, change.prov, change.kind,
                                    change.repl)
                    /\ UNCHANGED status
    /\ UNCHANGED <<creds, scim, data, cleanup, change, req, login, counts,
                   overlap>>

\* A step fails or the controller stops: the change is reconciled again.
Fail ==
    /\ plan # << >> /\ faults < MaxFaults
    /\ faults' = faults + 1
    /\ plan' = << >>
    /\ UNCHANGED <<creds, scim, data, cleanup, change, status, req, login,
                   submitted, history>>

Step(s) == status = "open" /\ plan # << >> /\ Head(plan) = s

Continue == plan' = Tail(plan) /\ UNCHANGED status

\* The directory parameters of a provider that SCIM manages are dropped.
StoredKind(p, k) == IF conn = p /\ ~migrated THEN "scim" ELSE k

\* Mutant: a pending cleanup does not matter.
ConnectionAllowedInCleanup(p) == groups[p] = "none" /\ conn = None

ConnectionAllowed(p) == NoCleanup(p) /\ groups[p] = "none" /\ conn = None

\* EnsureSCIMFirstConnection: refused while a cleanup is pending, while group
\* data remains, or when another provider has the one connection.
EnsureSCIMFirstConnection(p) ==
    /\ Step("connect")
    /\ IF conn = p \/ ConnectionAllowed(p)
         THEN conn' = p /\ Continue /\ UNCHANGED migrated
         ELSE Refuse /\ UNCHANGED scim
    /\ UNCHANGED <<creds, data, cleanup>>

\* EnableConnection: SCIM permanently replaces the directory synchronization.
EnableConnection(p) ==
    /\ Step("migrate")
    /\ conn' = p /\ migrated' = TRUE
    /\ Continue
    /\ UNCHANGED <<creds, data, cleanup>>

Promote(p) ==
    /\ \/ Step("configure")
          /\ active' = [active EXCEPT ![p] = StoredKind(p, change.kind)]
          /\ UNCHANGED staged
       \/ Step("promote")
          /\ active' = [active EXCEPT ![p] = StoredKind(p, staged[p])]
          /\ UNCHANGED staged
       \/ Step("stage")
          /\ staged' = [staged EXCEPT ![p] = StoredKind(p, change.kind)]
          /\ UNCHANGED active
    /\ Continue
    /\ UNCHANGED <<scim, data, cleanup>>

\* ensureAuthProviderCleanup: an existing cleanup is used again.
EnsureCleanup(o) ==
    /\ Step("intent")
    /\ cleanup' = IF NoCleanup(o) THEN [cleanup EXCEPT ![o] = "waiting"]
                  ELSE cleanup
    /\ Continue
    /\ UNCHANGED <<creds, scim, data>>

DeleteCredential(o) ==
    /\ Step("uncredential")
    /\ active' = [active EXCEPT ![o] = "none"]
    /\ Continue
    /\ UNCHANGED <<staged, scim, data, cleanup>>

\* The connection goes with the group data it brought, and a request through
\* it finds it gone.
Disconnect(o) ==
    /\ conn' = None /\ migrated' = FALSE
    /\ groups' = [groups EXCEPT ![o] = "none"]
    /\ inflight' = [inflight EXCEPT ![o] = IF @ = "pushed" THEN "none" ELSE @]

DeleteConnection(o) ==
    /\ Step("disconnect")
    /\ IF conn = o THEN Disconnect(o) ELSE UNCHANGED <<scim, data>>
    /\ Continue
    /\ UNCHANGED <<creds, cleanup>>

\* DeleteStagedSCIMConnection: only while the provider is staged, and never
\* the connection of a provider that also holds an active credential.
DeleteStagedConnection(p) ==
    /\ Step("disconnectStaged")
    /\ IF conn = p /\ Staged(p) /\ active[p] = "none"
         THEN Disconnect(p) ELSE UNCHANGED <<scim, data>>
    /\ Continue
    /\ UNCHANGED <<creds, cleanup>>

markAuthProviderCleanupReady(o) ==
    /\ Step("ready")
    /\ cleanup' = IF cleanup[o] = "waiting"
                    THEN [cleanup EXCEPT ![o] = "ready"] ELSE cleanup
    /\ Continue
    /\ UNCHANGED <<creds, scim, data>>

\* The staged configuration goes; Unstage is refused when there was none.
Unstage(p) ==
    /\ Step("unstage") \/ Step("discard")
    /\ staged' = [staged EXCEPT ![p] = "none"]
    /\ IF Step("discard") /\ ~Staged(p) THEN Refuse ELSE Continue
    /\ UNCHANGED <<active, scim, data, cleanup>>

\* Status and revision; Status.Applied.
Finish ==
    /\ Step("finish")
    /\ status' = "applied" /\ plan' = << >>
    /\ UNCHANGED <<creds, scim, data, cleanup>>

\* deconfigureAuthProvider works on the outgoing provider of a switch.
Outgoing == IF change.op = "Activate" THEN change.repl ELSE change.prov

Work ==
    /\ change # NoChange
    /\ \/ EnsureSCIMFirstConnection(change.prov)
       \/ EnableConnection(change.prov)
       \/ Promote(change.prov)
       \/ EnsureCleanup(Outgoing)
       \/ DeleteCredential(Outgoing)
       \/ DeleteConnection(Outgoing)
       \/ DeleteStagedConnection(change.prov)
       \/ markAuthProviderCleanupReady(Outgoing)
       \/ Unstage(change.prov)
       \/ Finish
    /\ UNCHANGED <<change, req, login, counts, history>>

\* A settled change is deleted by the next reconcile.
Remove ==
    /\ change # NoChange /\ status # "open"
    /\ change' = NoChange /\ status' = "open"
    /\ UNCHANGED <<creds, scim, data, cleanup, plan, req, login, counts,
                   history>>

Reconcile == Begin \/ Work \/ Remove

-----------------------------------------------------------------------------
(* The cleanup of a deconfigured provider *)

\* The group data goes first, unless the provider's own connection owns it.
\* What a request has yet to store, it does not reach.
CleanupData(p) ==
    /\ cleanup[p] = "ready" /\ conn # p
    /\ groups' = [groups EXCEPT ![p] = "none"]
    /\ inflight' = [inflight EXCEPT ![p] = IF @ = "none" THEN @ ELSE "stray"]
    /\ cleanup' = [cleanup EXCEPT ![p] = "users"]
    /\ UNCHANGED <<creds, scim, object, req, login, counts, history>>

\* Then the users are reconciled in batches, and the cleanup is done.
CleanupUsers(p) ==
    /\ cleanup[p] = "users"
    /\ cleanup' = [cleanup EXCEPT ![p] = "none"]
    /\ UNCHANGED <<creds, scim, data, object, req, login, counts, history>>

Cleanup(p) == CleanupData(p) \/ CleanupUsers(p)

-----------------------------------------------------------------------------
Ops == {"Configure", "Stage", "Unstage", "Migrate", "Deconfigure"}

Request(h) ==
    \/ \E p \in Providers : \E op \in Ops : \E k \in Kinds \cup {"none"} :
          Check(h, op, p, k)
    \/ \E p \in Providers : CheckActivate(h, p)
    \/ Submit(h) \/ Applied(h) \/ GiveUp(h)

GroupData(p) ==
    refreshGroups(p) \/ connection(p) \/ persistGroups(p) \/ pushGroup(p)

Next ==
    \/ \E h \in Requests : Request(h)
    \/ \E p \in Providers : Verify(p) \/ redirect(p) \/ Cleanup(p)
    \/ \E p \in Providers : GroupData(p)
    \/ Reconcile \/ Fail

Spec == Init /\ [][Next]_vars

-----------------------------------------------------------------------------
(* Properties *)

StepNames == {"connect", "configure", "promote", "stage", "migrate", "intent",
              "uncredential", "disconnect", "disconnectStaged", "ready",
              "unstage", "discard", "finish"}

\* Types.  The controller has steps left only on an open change.
TypeOK ==
    /\ active \in [Providers -> {"none"} \cup Kinds]
    /\ staged \in [Providers -> {"none"} \cup Kinds]
    /\ conn \in Providers \cup {None} /\ migrated \in BOOLEAN
    /\ groups \in [Providers -> {"none", "stray", "served"}]
    /\ inflight \in [Providers -> {"none", "stray", "served", "pushed"}]
    /\ cleanup \in [Providers -> {"none", "waiting", "ready", "users"}]
    /\ status \in {"open", "applied", "refused"}
    /\ plan \in Seq(StepNames)
    /\ plan # << >> => change # NoChange /\ status = "open"
    /\ verifying \in Providers \cup {None} /\ cache \in Providers \cup {None}
    /\ submitted \in 0 .. MaxChanges /\ faults \in 0 .. MaxFaults
    /\ overlap \in [Providers -> BOOLEAN] /\ unread \in BOOLEAN

\* The change in progress concerns p in this operation.
Doing(op, p) == change # NoChange /\ change.op = op /\ change.prov = p

\* No sign-in asks a provider without directory credentials for groups: such
\* a configuration, serving or staged, always has the SCIM connection, however
\* its changes are retried and interleave.  Only discarding a staging removes
\* the connection before the configuration.
ScimHasConnection ==
    \A p \in Providers :
        /\ active[p] = "scim" => conn = p
        /\ staged[p] = "scim" => conn = p \/ Doing("Unstage", p)

\* The one SCIM connection never outlives what it is for: its provider serves
\* or is staged, or a change that will see to it is under way.  The exception
\* is a change that overlooked the provider in use, whose credential could not
\* be read: its retry may be refused after it connected.
NoStrandedConnection ==
    \/ conn = None \/ active[conn] # "none" \/ Staged(conn)
    \/ change # NoChange \/ unread

\* At most one provider is configured, except during a switch, and at most
\* one is staged, whatever requests passed their checks at the same time and
\* although each handler may have overlooked the provider in use: only the
\* controller overlooking it can lead to a second.
OneOfEach ==
    /\ \A p, q \in Providers :
          active[p] # "none" /\ active[q] # "none" /\ p # q
              => (change # NoChange /\ change.op = "Activate") \/ unread
    /\ \A p, q \in Providers : Staged(p) /\ Staged(q) => p = q

\* A step that leaves no provider to sign in with belongs to a change that
\* deconfigures one: a switch keeps someone serving at every step.
ServingKept ==
    [][(\E p \in Providers : Configured(p)) =>
          \/ (\E p \in Providers : Configured(p))'
          \/ change # NoChange /\ change.op = "Deconfigure"]_vars

\* A cleanup deletes no group data of a provider that serves, unless it began
\* between a request's check for one and the submission of its change.
CleanupSparesServing ==
    [][\A p \in Providers :
          cleanup[p] = "ready" /\ cleanup'[p] = "users" =>
              active[p] = "none" \/ overlap[p]]_vars

\* The group data of a provider that no longer serves always has a cleanup
\* that has yet to delete it, also when it is stored long after it was asked
\* for.  Only what a cleanup overtook on its way into the database, or what a
\* verification brought, can be left behind.
GroupsHaveCleanup ==
    \A p \in Providers :
        groups[p] = "served" /\ active[p] = "none" =>
            cleanup[p] \in {"waiting", "ready"} \/ overlap[p]

\* A cleanup waits for nothing: no connection is created for a provider while
\* its cleanup is pending, although a request may have checked for one long
\* before its change is carried out.
CleanupNotBlocked == \A p \in Providers : cleanup[p] = "ready" => conn # p
=============================================================================
