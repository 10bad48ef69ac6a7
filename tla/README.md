# Verification of obot

Obot is a Go server that connects users and MCP clients to MCP servers. It runs
as several replicas over one database and one Kubernetes-style object store, so
most of its hard behaviour lies between replicas, between a request and a
controller, and between a step and the failure after it. This directory holds
TLA+ models of those parts, TLC runs on small instances, and TLAPS proofs.

Run a model with `tlc -config X.cfg M` and a proof with `tlapm M.tla`, in this
directory. `PROJECT.json` lists the runs, the source lines behind every
definition, the hazards, the findings and the theorems.

## Inventory

| Component | State | Operations | What makes it hard |
|---|---|---|---|
| MCP OAuth refresh (`oauth/refresh_token.go`, `token.go`) | one stored record per grant: current and previous token hash, deadline, sealed successor, resource version | refresh, recover, rotate, revoke | optimistic updates by many replicas, lost update responses, client retries in a one-minute window, revocation under a refresh, clock skew |
| MCP OAuth code exchange (`token.go`, `authorize.go`) | authorization requests, grants | approve, exchange | list before delete; a user disabled in the middle |
| User lifecycle (`gateway/client/lifecycle.go`) | the user's row, an outbox of events with claims | disable, enable, record a group change, claim, coalesce, deliver, mark | claims that run out, at-least-once delivery, partial failure, crashes |
| Role and group change controllers (`poweruserworkspace`, `mcpcatalog`) | UserRoleChange and UserGroupChange objects | handle, delete | an object that exists but has already been read |
| Auth provider daemons (`server/dispatcher`) | running process, port and generation per provider, a lock | start on demand, stop, clean up after exit | goroutines of replaced processes, a lock held during a launch, credentials read before the lock |
| Provider sync (`providersync`, `providerconfigurationchange`) | a revision per provider, the last one each replica saw | write credential, advance, reconcile | stale caches, restarts, a credential change seen too late |
| Provider configuration changes (`providerconfigurationchange`, `handlers/authprovider.go`, `scim/setup`, `handlers/cleanup`) | active and staged credentials, the one SCIM connection, group data, cleanup objects, the verification | configure, stage, unstage, switch, migrate, deconfigure, verify, clean up | a change is many writes, each of which may be the last before a retry; the handlers' checks are old when the controller acts |
| MCP tunnels (`tunnel/manager.go`, `tunnel_auth.go`, `handlers/mcptunnel.go`) | the tunnel's credential, each replica's connections, what it heard of its peers' | connect, bridge, rotate, edit, delete, shut down | register, verify and upgrade against rotation; advertisements that are late, lost or stale |
| Composite sessions (`tunnel/composite.go`, `mcpgateway/handler.go`) | registrations per key, peers' sessions | claim, forward, run, close | two replicas claiming one key, an owner lost in the middle of a request, closing under a claim |
| LLM gateway engine (`llmengine`, `handlers/llmgateway.go`) | shared configuration and revision, an advisory lock, per replica what is loaded, applied and pending | start, reload, change, announce | boots that write back what they read, revisions announced while starting, lost announcements |
| LLM budgets, SCIM users and groups, local authentication, API keys, audit log persisters | rows | transactions | mostly within one transaction |
| MCP backends, JWT keys, license, Claude runner | external resources | | driven by Docker, Kubernetes, remote services |

How they interact: the token endpoint and the lifecycle outbox share the stored
grants and the user's status and never call each other; the outbox hands work to
the controllers by creating objects; the configuration controller hands work to
every replica's dispatcher and LLM gateway by advancing a revision in one
shared object. Tunnels and composite sessions share the peer mesh.

What each component owes its users:

- a refresh grant is one chain of tokens. A retry gets the same successor, no
  token gets two, a deleted grant stays deleted;
- a disabled user keeps no refresh token and no session, whatever was in flight;
- a lifecycle event is delivered in the end, and what it asks for is done;
- a running daemon can be found and stopped, and serves the newest configuration;
- a provider switch keeps one usable provider at every step and strands neither
  a SCIM connection nor group data;
- a replaced tunnel credential has no connection left where it was replaced,
  and no request is sent over one;
- a composite request is run at most once, by an owner, and comes to an end;
- a saved change of the LLM gateway is not undone, and every running gateway
  serves it in the end.

## Modules

`TokenChain` is the abstract promise about one grant: a chain of tokens that
grows at its end for the request that presented the end, answers that are the
end, and a flag that only falls.

`RefreshToken` is the endpoint. `rec`, `stored` are the stored record; `copy`,
`presented`, `cand`, `answer`, `tries`, `conflict` are a handler's locals and
`pc` the next storage or database call it makes. One action is what the code
does between two such calls: `Get`, `CheckAccess`, `Mint` are
`doRefreshTokenAttempt` up to the rotation; `Refuse`, `Recover`, `KeepCurrent`,
`NewCandidate` are the four ways through `rotateRefreshToken`; the three
`Update...` actions are the outcomes of `Storage.Update` (answered, committed
with the response lost, refused), `Reget...` what the code does after a failed
one, `CheckOwner`, `Delete` and `Write` the end. `Fail` is any call that returns
an error. Abstractions: a secret is a number and stands for its hash; time is in
ticks, so the truncation of the deadline to a whole second is below its
resolution; the recovery value records which key and which metadata it was
sealed with, and opens only if they agree. `Skew` gives each handler's replica
its own clock. `succ` is a history variable.

`UserLifecycle` has three kinds of process. Transactions change `status`,
`version` (how often the groups changed) and append to `events`. Exchanges
(`Issuers`) run `doAuthorizationCode`; an error or a crash is `AbortExchange`.
Replicas run `deliverUserLifecycleEventBatch`: `ListEvents`,
`claimUserLifecycleEvents`, then per delivery `coalesceUserLifecycleEvents` and
the steps of the disabled or the reconcile delivery, then `MarkDelivered`.
`ExpireClaim` may come at any moment, because a delivery may take longer than
the minute a claim lasts. The controller handles one object of a kind at a time
(`HandleChange` reads the user, `FinishChange` reconciles and deletes).
Browser sessions belong to the auth provider and are external.

`ProviderDaemon` has one provider. `entry[r]` is the generation registered in
the maps of `ports`, which the code always writes together; `proc` and `port`
are the process and the port of every generation, `used` the pool, and `leaked`
the ports that no process and no entry refers to any more. `lock` is
`daemonLock` held across a launch, the only time the code holds it between two
steps. Requests (`Serve`) run `URLForAuthProvider` and `startDaemon`; `Exit` and
`CleanUp` are the goroutine that waits for a process; `Reconcile` is
ProviderSync's handler, whose cache may be behind.

`ProviderSwitch` follows a change from an administrator's request to the
controller. `Request` is a handler: it checks (`ensureNoPendingAuthProviderCleanup`
and the serving and staged provider), and submits the one change object there
may be, later and on the strength of what it read then. `plan` is what is left
of the controller's work, one write per step; `Fail` drops it, and `Reconcile`
then begins again from the credentials, the connection and the cleanup it finds.
`Verify` and `redirect` are the login that verifies a staging, `Cleanup` the
controller of the cleanup objects. A configuration is `"dir"` or `"scim"`,
according to where its groups come from: that is all the properties tell apart.
`GetConfiguredAuthProvider` may always answer that no provider is configured
(`ConfiguredProviders` contains `None`): the code reports one whose credential
cannot be read or decrypted that way, without an error. Group data arrives in two
steps. `refreshGroups` (a sign-in, or a verification of the staged provider) and
`connection` (a SCIM request) check what is there and leave the data in
`inflight`; `persistGroups` and `pushGroup` store it later, on the strength of
what the code looks at then: a SCIM connection and its claim in the one, the
request's own connection in the other, and in neither whether the provider is
still configured. Data that a cleanup overtook becomes `"stray"`. `overlap` and
`unread` are history variables: a cleanup began between a check and its change; a
change was reconciled while the credential in use could not be read. Two details
are merged: `DeleteCredential` removes the provider's configuration whether it is
held in the provider's own or in the generic credential context
(`deleteResolvedCredential` deletes the one that resolves first, and a provider
with both would be left with the other), and one request per provider is in
flight at a time.

`LLMEngine` has four goroutines per replica: `Start`, the reconcile (`Sync`), the
startup tasks and an administrator. A configuration is the set of changes in
effect. Bifrost is external: a boot takes a snapshot of the stores and writes it
back when it ends, which is what the lock is for. The lock is Postgres's; with
SQLite `WithLLMGatewayLock` just runs its function, which the model leaves out, as
there is a single replica then, whose goroutines `configLock` and the engine's
states keep apart. What an administrator changes is one write to the stores: that
`afterMutation` applies the egress proxy to the other providers afterwards
(`ApplyEgressProxy`) and may fail between two of them is not among the failing
cases, like the partial failure of finding 10. `announcedAt`, `unlocked`,
`lost` and `missed` are history variables.

`PeerMesh` is what the two next modules use of remotedialer: the sessions a
replica accepted, and what its peers have heard of them. News is delayed, goes
with the connection it came over, and outlives a crash for a while. `Tunnel` is
one tunnel over the mesh: `connect[c]` is a `ServeConnect` (registered, verified,
upgraded, in a session), `admin[a]` an administrator who rotates, edits or
deletes and then runs `DisconnectCredential`, or a replica's shutdown; `bridge[b]`
a request sent to the tunnel. `Composite` is one composite server over the mesh:
`registration[r]` the loop that keeps its replica registered, `request[q]` a
request that claims, is forwarded and is run by the owner, `closing[r]` the end
of the replica's handler.

`MC*` modules give the constants values. `RefreshTokenProofs`,
`UserLifecycleProofs`, `ProviderDaemonProofs`, `TunnelProofs`, `CompositeProofs`,
`LLMEngineProofs` and `ProviderSwitchProofs` hold the proofs about the modules
they are named after; `RefreshTokenRefinement` proves that `RefreshToken`
implements `TokenChain`.
Definitions such as `RotatedSealedEarly` or `CleanUpAny`, each placed before the
definition it varies, are deliberate mistakes: substituted for it, they must
make a property fail, which shows that the property is about that code.

## Runs

| Run | Question | Bounds, and why they are enough |
|---|---|---|
| `refresh_rotation` | Is there one revocable chain? | Two handlers, five secrets, two windows, three attempts: a handler can lose, retry and rotate a second generation, and would have room to lose again. Clocks agree; the theorems cover any skew |
| `lifecycle_disable` | Does anything outlive a disabled user's access? | Two replicas, two disablings with reactivations between, one exchange, one failure or crash: a late delivery meets a newer grant and a newer event. One user per batch; the theorems cover any number of users, replicas and exchanges and any batch |
| `lifecycle_events` | Does every event get delivered? | Both kinds of event, one failure or crash at any step. The safety properties are left to `lifecycle_disable`, which is larger |
| `lifecycle_late`, `lifecycle_reconcile`, `lifecycle_code` | Do the comments hold? | Violated, see Findings |
| `provider_daemon` | Can a daemon or a port be lost, does every revision arrive? | Two requests on one replica, three generations, two ports, two revisions, a restart. Replicas share only the revision, which each takes up on its own, so one is enough |
| `provider_daemon_stale` | Is the current configuration served? | Violated, see Findings |
| `provider_switch` | Does a change that stops anywhere, or races another, leave a consistent set of providers? | Two providers, three changes, one failure, one delivery of group data in flight: a staging, a switch and a deconfiguring can follow each other, the controller fails in between, and reads of the credential in use fail at any time. There is one request slot: it is free again once its change is submitted, so the next request's checks are outdated by that change. Two outdated requests at once are left to the theorems, which cover any number |
| `llm_engine` | Is a saved change ever undone, and does it reach everybody? | Two replicas, an update and an addition (a boot undoes only updates), one fault: the second replica boots, reloads or changes while the first does |
| `tunnel` | Can a connection outlive its credential? | One connection at every stage, two administrators on two replicas, a request, two faults of the mesh or crashes |
| `composite` | Is a request run once, by an owner, and answered? | Two requests at two replicas, three sessions (each replica registers, one again), one handler that closes, one fault |

Every bound is a constant that a guard names (`MaxTime`, `MaxToken`,
`MaxDisables`, `MaxFaults`, ...). When the bounds are used up the models of the
endpoint and the lifecycle still allow sign-ins or new requests, and deadlock is
checked. In the other models it is not: once the generations, changes, requests
or connections are used up the system may have nothing left to do.

### Properties

- `AnswerIsSuccessor`, `SingleSuccessor`, `RevokedStaysRevoked`,
  `PredecessorKeptForWindow`, `RecoverySealed`: the promises of the rotation,
  one by one. `OneRetryIsEnough`: a refresh that conflicts does not conflict
  again, because the winner turned its token into a predecessor, which is
  answered from the recovery value. `ImplementsChain`: all steps of `RefreshToken` map to steps of
  `TokenChain`. With skewed clocks a replica that runs ahead may rotate while
  another still answers the predecessor with a successor that is no longer the
  newest, so `ImplementsChain` is stated for clocks that agree; the other
  properties need no such assumption.
- `NoGrantOutlivesDenial`: a grant whose token reached a client is gone when its
  owner is disabled, or an undelivered event will delete it. It rests on the
  order in the exchange: store the grant, then read the owner again.
- `NoSessionOutlivesDenial`: the same for sessions that were open when the user
  was disabled. A session begun later is stopped by the admission check only.
- `EventsDelivered`: every event is delivered.
- `NoOrphanDaemon`, `LaunchKeepsEntry`, `PortsAccounted`, `RevisionTakenUp`: a
  daemon that runs can be found, a launch is not disturbed, the pool of ports
  balances but for the leak of finding 5, and revisions arrive.
- `OneOfEach`, `ServingKept`, `ScimHasConnection`, `NoStrandedConnection`,
  `GroupsHaveCleanup`, `CleanupNotBlocked`, `CleanupSparesServing`: each relates
  two things the controller writes in different steps, in the order that makes
  a stop between them harmless. An unreadable credential does not matter to
  five of them. The two others except it where it does (`unread`, finding 15): it
  has to be the controller that cannot read, the handlers' reads do no harm.
  `GroupsHaveCleanup` covers data stored after the provider was deconfigured, and
  excepts what a cleanup overtook (finding 16).
- `NoLostChange`, `AppliedIsLoaded`, `Convergence`: the first two are why a
  reload takes the lock and why `Change` moves `appliedRevision` only by one; the
  third needs `pendingRevision`, without which a revision announced during the
  start would be forgotten.
- `DisconnectedHere`, `OpenIsTracked`: the connection is registered before it is
  verified, and looked up again when it is hijacked. `TrafficCutOff`: a request
  that read the credential before a rotation, from whatever replica, is not sent
  over a connection the rotation has cut off since. `CredentialNeverReturns`:
  edits.
- `RunOnceByOwner`, `StoppedBeforeClosed`, `RequestsEnd`.
- `OneOwner` and `RotationDisconnects` state what documents say; TLC finds them
  violated (findings 6 and 7), so they belong to no passing run.

### Fairness

`UserLifecycle!FairSpec`: each replica's delivery loop keeps running (a ticker
in `runUserLifecycleEventDelivery`), a claim's minute passes, and the controller
keeps handling objects; failures are bounded by `MaxFaults`, that is, the
database and the storage work in the end. `ProviderDaemon!FairSpec`: the
controllers retry until they succeed and a launch ends after at most 120
attempts. `LLMEngine!FairSpec`: the start, the reconcile and a change that has
begun go on and get the lock in the end; nobody has to begin a change, and faults
are bounded. `Composite!FairSpec`: what goes on by itself (the registration
loops, the requests, the ends of sessions, the mesh's news) does not stop
altogether; every such step uses something up, so one condition on their
disjunction is as strong as one for each. Nothing is assumed of users, clients,
callers or auth providers. All fairness is weak.

## Findings

1. `provider_daemon_stale`: `URLForAuthProvider` reveals the credential before
   it takes any lock. If the credential changes and the replica takes up the new
   revision before `startDaemon` gets the lock, the daemon starts with the old
   credential, and no later revision tells it to stop.
2. `lifecycle_late`: the delivery of a disabled event reads the status once. A
   user reactivated after that read, who completes an authorization before the
   grants are listed, loses the new grant.
3. `lifecycle_reconcile`: an expired claim lets a second delivery merge an event
   with a later one under the first one's object name. If that object exists
   and its handler has already read the user, the later change is marked
   delivered and never reconciled.
4. `lifecycle_code`: two exchanges of one authorization code that both list the
   request before either deletes it both succeed.

The following have no run of their own. They were met while modelling; the
model follows the code, and the property named excepts the case or does not
speak of it.

5. `startDaemon` keeps the port when `newCommand` fails (`PortsAccounted` sets the
   leaked ports apart); after 1001 such failures `nextPort` panics.
6. Two replicas that claim a composite session at the same time both register,
   and both stay registered (`OneOwner`).
7. A rotation reaches another replica's clients only as far as this replica has
   heard of them, and for five seconds (`RotationDisconnects`).
8. Deleting a tunnel disconnects the clients of the credential it read, not of
   one rotated in since.
9. A change of the LLM gateway that was saved and could not be announced is
   taken for loaded by the replica that makes the next one.
10. `startupChanges` reports "applied" even when a step failed halfway.
11. A deconfigure whose check is out of date takes the serving provider away
    (`ServingKept` excepts deconfiguring).
12. Between the restaging of a provider and the clearing of its verification,
    activation accepts the earlier verification.
13. A cleanup that begins between a handler's check and its change deletes the
    group data of a provider that is configured again (`overlap`).
14. A refused change is deleted like an applied one, so a waiter that looks late
    reports success.
15. A provider whose credential cannot be read counts as not configured. The
    controller then accepts another one beside it, and refuses for good the retry
    of a staging that has already created its SCIM connection (`OneOfEach` and
    `NoStrandedConnection` except it through `unread`).
16. A first sign-in whose groups are stored after the cleanup of its provider
    leaves them behind: `persistGroups` does not look whether the provider is
    still configured, and its claim survives the reset of the last check
    (`GroupsHaveCleanup` excepts what a cleanup overtook).

## Proofs

`RefreshTokenProofs` proves, for any set of handlers, any clock skew within
`MaxSkew`, any window and any bounds (`ConstantsAssumption` only):

`TypeCorrect`, `AnswersAreSuccessors`, `RecoveryAlwaysSealed`,
`SuccessorsAreFinal`, `RevocationIsFinal`, `WindowIsKept`, `OneRetrySuffices`.

None of these is inductive. The invariant `Inv` adds what the code relies on
implicitly:

- `ChainInv`: the current hash is the end of the chain, it was generated, it has
  no successor, and the stored predecessor's successor is the current token;
- `HandlerInv`, per handler: its copy is no newer than the record and equal to it
  if the versions agree (`CopyInv`); a copy about to be written is the rotation
  of the record it was read from (`UpdateInv`); a candidate found as the current
  hash is the committed successor of what the handler presented (`RegetInv`);
  candidates are outside the chain until they are committed (`CandidateInv`);
  and what the handler presented and will answer fits (`PresentedInv`,
  `AnswerInv`);
- `CandidatesDiffer`: two handlers never hold the same candidate.

The step lemma follows the groups of actions: those that change neither the
chain nor a candidate (`PlainStep`), the creation of a candidate
(`CandidateKeepsInv`), and the commit, split into what it does to the chain
(`CommitGrows`) and to the other handlers, whose copies become stale
(`CommitKeepsOthers`). TLC checked `Inv` on a skewed instance before the proof.

`OneRetrySuffices` needs a second invariant on top, `RetryInv`: a handler on its
second attempt presented a token that has a successor, so it is not the current
hash of its copy and never gets a candidate; and a copy goes stale only by a
commit that gave its current token a successor.

`UserLifecycleProofs` proves `TypeCorrect`, `GrantsAreRevoked`
(`NoGrantOutlivesDenial`) and `SessionsAreEnded` (`NoSessionOutlivesDenial`) for
any users, replicas, exchanges, codes, faults and batch size. `Inv` says of the
*last* disabling of a user who is disabled now:

- it exists (`LastInv`);
- a batch that holds it has listed every grant that is stored, the user's and
  out, where out means in a client's hands or about to be written there
  (`ListInv`);
- a delivery that has not failed has deleted what it went over (`DelInv`);
- once it is in a replica's `done`, or marked as delivered, nothing of the user's
  that is stored is out, and no session is left from before it (`DoneInv`,
  `DeliveredInv`).

`Benign` names what a step may do without disturbing any of this, and
`OtherReplica` shows once that such a step keeps what a replica knows; every
action is then shown to be benign. The exchange is, because it reads the owner
again after it has stored the grant: only a grant of an active user gets out. A
new disabling is, because it makes every earlier event not the last one.

`ProviderDaemonProofs` proves `TypeCorrect`, `NoDaemonOrphaned`
(`NoOrphanDaemon`), `LaunchIsUndisturbed` (`LaunchKeepsEntry`) and `PortsBalance`
(`PortsAccounted`) for any requests, replicas, generations, ports and revisions.
`Inv` adds to the first two `LockInv` (the lock is held exactly while one request
launches, and the entry is then the newest generation) and `PortInv` (the ports
in use are the leaked ones and the registered generation's, which is none of
them).

`TunnelProofs` proves `TypeCorrect`, `NoConnectionForgotten` (`OpenIsTracked`),
`RotationCutsOff` (`DisconnectedHere`), `NoTrafficAfterCutOff` (`TrafficCutOff`)
and `CredentialsAreFinal` (`CredentialNeverReturns`) for any replicas, connections, administrators and
requests. A connection is tracked before it is verified. When
`DisconnectCredential` has gone through its replica, a connection of the
replaced credential is therefore in one of three places: closed or about to be,
or untracked, so that `Hijack` refuses it, or not yet verified, so that the
verification finds the credential replaced or the tunnel deleted (`CutOff`). A
request is only sent over an open connection, so `CutOff` also gives
`NoTrafficAfterCutOff`. `ConnInv`, `AdminInv` and `HandsInv` say what each process
still knows of the credential it read.

`RefreshTokenRefinement` proves `EndpointImplementsChain`: with clocks that agree
(`MaxSkew = 0`), any handlers, bounds and window, `Spec => ImplementsChain`. The
mapping is the property's own. Besides the arrival of a request, the steps fall
into four kinds: a handler goes on (a stutter), it answers, it commits, it
returns. Two facts are needed beyond the first proof's invariant: nothing of a
handler is seen before it has started or answered (`SeenInv`), and a handler whose
copy is stale finds its predecessor's window over (`WindowInv`), because the
update that made it stale had waited for that. The second is where agreeing
clocks are needed: by a slow replica's clock the window of a stale copy is still
open, and the handler answers with that copy's token, which is no longer the
newest.

`CompositeProofs` proves `TypeCorrect`, `RunAtMostOnceByOwner` (`RunOnceByOwner`)
and `ClosedServesNothing` (`StoppedBeforeClosed`) for any replicas, sessions,
requests and faults, over the peer mesh with its delayed and outdated news.
`RequestInv` ties the number of runs to how far the request is, so that nothing
sends again what was run, and says that whoever ran a request had registered;
`ClosingInv` says that a handler that has cancelled its registrations waits for
every one that is still served.

`LLMEngineProofs` proves `TypeCorrect`, `SavedStaysSaved` (`NoLostChange`) and
`AppliedIsTrue` (`AppliedIsLoaded`) for any replicas, changes and faults.
`LockInv`: as long as no start gave up on the lock, every goroutine between its
lock and its release has it, and a snapshot that will be written back is what the
stores hold. `AppliedIsLoaded` does not depend on the lock, so `LoadInv` says, of
every change that no boot has undone: a ready gateway serves it if it is announced
up to the applied revision (`Serves`), a boot has read it if it is announced up to
the revision the boot will record (`Reading`), a reload has swapped it in
(`Swapped`), and what `Change` was told is applied is in memory and stored
(`Sure`). `EngineInv` and `ConfigInv` say which goroutines may be where in which
state of the engine and who holds `configLock`.

`ProviderSwitchProofs` proves all that the run `provider_switch` checks, for any
providers, requests, changes, faults, unreadable credentials and deliveries of
group data in flight: `TypeCorrect`, `ScimAlwaysConnected`,
`ConnectionNeverStranded`, `OneServesOneStaged`, `GroupDataHasCleanup`,
`CleanupNeverBlocked`, and of the steps `SwitchKeepsServing` and
`CleanupSparesServed`. `PlanInv` lists what each operation may have left to do,
so that the next step (`at`) says where the controller is, and `StepInv` says what
each operation relies on there. The other parts hold between retries as well:

- `ScimInv`, `StrandInv`, `OneInv`, `CleanupInv` name, for everything out of the
  ordinary (a staging without its connection, a connection that serves nothing,
  two configured providers, a cleanup of a provider in use), the open change that
  answers for it. All but the first have a second excuse, that a change was
  reconciled while the credential in use could not be read (`unread`);
- `GroupsInv`: group data that a serving provider brought, stored or in flight,
  has a cleanup ahead of it once the provider no longer serves. It holds of what
  is in flight as well because the credential goes after the intent to clean up;
- `RefusedSettled`: a change that answers for something is never refused when it
  begins again, and `FinishSettled`: when it has taken all its steps there is
  nothing left to answer for, but for what `unread` excuses (`SettledStays`,
  `UnreadFacts`). So a change only ends in a settled state (`EndKeeps`), which is what makes the next change's checks mean anything;
- `FreshInv`: a configuration under way has no cleanup in its way, or one that is
  recorded as overlapping.

Two theorems go beyond the run: `ChangeEndsSettled`, that a change that is no
longer open has left no staging without its connection, and, unless `unread`, no
stranded connection, no second configured provider and no waiting cleanup of the
provider in use; and `AppliedMeansDone`, that
a change marked as applied has the outcome its desired state asks for (`Achieved`)
until it is removed, through any faults and retries. For the latter `DoneInv` says
the same of a controller that has only the status left to write.

A by-product: a switch never creates a connection, since a staged configuration
without directory parameters already has one. The call is in the code and in
`switchSteps`, and is shown to do nothing.

TLC checked the last two invariants before they were proved: the gateway's on its
run's bounds and, by simulation, with three faults; the switch's on its run's
bounds and, by simulation, with three providers, two requests, twelve changes and
six faults.

Only model-checked: `EventsDelivered`, `RevisionTakenUp`, `Convergence` and
`RequestsEnd`, which are liveness under fairness and out of the prover's reach.
The four findings are violations on small instances; there is nothing to prove
about them.

## Not modelled

Of modelled parts: command lines of daemons; user deletion, the refusals of
`EnableUser` for users SCIM manages, pruning of delivered events (nothing reads
them); PKCE and connection checks beyond their failing; consent pages; group-ID
prefixes that two providers share, `CleanupOrphanedStagedCredentials`, the
session tables of providers, what a sign-in does beyond its group data; URLs,
headers, streaming and the listing of connections of tunnels and composite
sessions; what Bifrost does between boot and shutdown.

Whole components, with the reason:

- LLM budgets, local authentication, API keys and identities, SCIM users and
  groups: each operation is one database transaction over a few rows, so there
  is no interleaving for a model checker to find; the database is trusted.
- Audit log persisters: best effort by design, nothing is promised.
- MCP server backends: what matters is how Docker and Kubernetes behave, which
  is outside the repository.
- Signing keys beyond the owner check, the license check, the Claude runner:
  periodic or one-shot calls of external services with one cached answer.
- API handlers, types, generated and vendored code, which is most of the
  repository's lines: conversions and plumbing without state of their own.

## Plan

Every invariant and every action property that a run checks is a theorem, and so
is the refinement. Left to do:

1. What of `TokenChain` survives when clocks disagree, as an abstract
   specification of its own.
2. Abstract specifications of the outbox and of the provider change, with their
   refinement, as `TokenChain` has.
