--------------------------- MODULE ProviderDaemon ---------------------------
(***************************************************************************)
(* Auth provider daemons and the revisions that make every replica drop    *)
(* them: URLForAuthProvider, startDaemon and stopDaemon of the dispatcher  *)
(* (pkg/gateway/server/dispatcher), advanceRevision of the configuration   *)
(* change controller, and the per-replica Reconcile of ProviderSync        *)
(* (pkg/controller/handlers/providersync).                                 *)
(*                                                                         *)
(* One provider.  Its credential is the number of times it was changed.    *)
(* Each replica runs at most one registered daemon, started on demand by a *)
(* request with the credential that request read; every daemon ever        *)
(* launched has a generation, and listens on a port of the replica's pool.  *)
(***************************************************************************)
EXTENDS Naturals, FiniteSets

CONSTANTS
    Replicas,
    Requests,       \* requests that need the provider's URL
    Home,           \* the replica that serves each request
    Ports, NoPort,  \* the ports startPort to endPort of every replica
    MaxConfig,      \* bound on credential changes
    MaxRevision,    \* bound on revisions
    MaxGen,         \* bound on daemons a replica ever launches
    MaxRestarts     \* bound on replica restarts

ASSUME HomeAssumption == Home \in [Requests -> Replicas]
ASSUME NoPortAssumption == NoPort \notin Ports
ASSUME BoundsAssumption ==
    /\ MaxConfig \in Nat /\ MaxRevision \in Nat
    /\ MaxGen \in Nat /\ MaxRestarts \in Nat

None == 0           \* no daemon is registered
Gens == 1 .. MaxGen

VARIABLES
    config,         \* the stored credential
    unannounced,    \* a change object is waiting to advance the revision
    revision,       \* ProviderSync.Spec.Revisions[provider].Revision
    last,           \* last[r]: lastRevisions of the replica
    rpc, seen,      \* Reconcile of each replica: its step, the revision read
    entry,          \* entry[r]: generation in daemonsRunning and daemonPorts
    gen,            \* gen[r]: nextDaemonGeneration
    proc, env,      \* proc[r][g], env[r][g]: a daemon's state, its credential
    port, used,     \* port[r][g]: a daemon's port; used[r]: usedPorts
    leaked,         \* history: ports that were taken for no process
    lock,           \* lock[r]: daemonLock is held by a request that launches
    qpc, qcred,     \* a request's step, and the credential it revealed
    restarts

sync == <<config, unannounced, revision>>
recon == <<last, rpc, seen>>
pool == <<port, used, leaked>>
daemons == <<entry, gen, proc, env, pool, lock>>
reqs == <<qpc, qcred>>
vars == <<sync, recon, daemons, reqs, restarts>>

Init ==
    /\ config = 0 /\ unannounced = FALSE /\ revision = 0
    /\ last = [r \in Replicas |-> 0]
    /\ rpc = [r \in Replicas |-> "idle"]
    /\ seen = [r \in Replicas |-> 0]
    /\ entry = [r \in Replicas |-> None]
    /\ gen = [r \in Replicas |-> 0]
    /\ proc = [r \in Replicas |-> [g \in Gens |-> "never"]]
    /\ env = [r \in Replicas |-> [g \in Gens |-> 0]]
    /\ port = [r \in Replicas |-> [g \in Gens |-> NoPort]]
    /\ used = [r \in Replicas |-> {}]
    /\ leaked = [r \in Replicas |-> {}]
    /\ lock = [r \in Replicas |-> FALSE]
    /\ qpc = [q \in Requests |-> "idle"]
    /\ qcred = [q \in Requests |-> 0]
    /\ restarts = 0

-----------------------------------------------------------------------------
(* The configuration change controller *)

\* The credential is written first.
WriteCredential ==
    /\ config < MaxConfig
    /\ config' = config + 1
    /\ unannounced' = TRUE
    /\ UNCHANGED <<revision, recon, daemons, reqs, restarts>>

\* Then the revision is advanced, with retries on conflict; a reconcile that
\* fails after this point runs again and advances once more.
advanceRevision ==
    /\ unannounced
    /\ revision < MaxRevision
    /\ revision' = revision + 1
    /\ unannounced' \in IF revision + 1 < MaxRevision THEN BOOLEAN ELSE {FALSE}
    /\ UNCHANGED <<config, recon, daemons, reqs, restarts>>

-----------------------------------------------------------------------------
(* Reconcile of ProviderSync on one replica *)

\* The replica's cache may be behind the stored object.
Observe(r) ==
    /\ rpc[r] = "idle"
    /\ \E v \in last[r] + 1 .. revision : seen' = [seen EXCEPT ![r] = v]
    /\ rpc' = [rpc EXCEPT ![r] = "stop"]
    /\ UNCHANGED <<sync, last, daemons, reqs, restarts>>

\* The port of the registered daemon, which stopDaemon gives back.
EntryPort(r) == {port[r][g] : g \in Gens \intersect {entry[r]}}

\* The port stays taken.
KeepPort(r) == UNCHANGED used

FreePort(r) == used' = [used EXCEPT ![r] = @ \ EntryPort(r)]

\* Kills and forgets the daemon without taking the lock.
stopDaemonUnlocked(r) ==
    /\ rpc[r] = "stop"
    /\ IF entry[r] = None THEN UNCHANGED proc
       ELSE proc' = [proc EXCEPT ![r][entry[r]] =
                        IF @ = "running" THEN "stopping" ELSE @]
    /\ entry' = [entry EXCEPT ![r] = None]
    /\ FreePort(r)
    /\ rpc' = [rpc EXCEPT ![r] = "record"]
    /\ UNCHANGED <<sync, last, seen, gen, env, port, leaked, lock, reqs, restarts>>

\* stopDaemon waits for the lock, kills the registered process and forgets it.
stopDaemon(r) ==
    /\ rpc[r] = "stop"
    /\ ~ lock[r]
    /\ IF entry[r] = None THEN UNCHANGED proc
       ELSE proc' = [proc EXCEPT ![r][entry[r]] =
                        IF @ = "running" THEN "stopping" ELSE @]
    /\ entry' = [entry EXCEPT ![r] = None]
    /\ FreePort(r)
    /\ rpc' = [rpc EXCEPT ![r] = "record"]
    /\ UNCHANGED <<sync, last, seen, gen, env, port, leaked, lock, reqs, restarts>>

\* Stops the daemon but does not remember for which revision.
RecordNothing(r) ==
    /\ rpc[r] = "record"
    /\ rpc' = [rpc EXCEPT ![r] = "idle"]
    /\ UNCHANGED <<sync, last, seen, daemons, reqs, restarts>>

Record(r) ==
    /\ rpc[r] = "record"
    /\ last' = [last EXCEPT ![r] = IF @ < seen[r] THEN seen[r] ELSE @]
    /\ rpc' = [rpc EXCEPT ![r] = "idle"]
    /\ UNCHANGED <<sync, seen, daemons, reqs, restarts>>

-----------------------------------------------------------------------------
(* URLForAuthProvider and startDaemon *)

\* No daemon is registered: the request will start one.
NeedDaemon(q) ==
    /\ qpc[q] = "idle"
    /\ entry[Home[q]] = None
    /\ ~ lock[Home[q]]
    /\ qpc' = [qpc EXCEPT ![q] = "reveal"]
    /\ UNCHANGED <<sync, recon, daemons, qcred, restarts>>

\* The credential is read with no lock held.
RevealCredential(q) ==
    /\ qpc[q] = "reveal"
    /\ qcred' = [qcred EXCEPT ![q] = config]
    /\ qpc' = [qpc EXCEPT ![q] = "start"]
    /\ UNCHANGED <<sync, recon, daemons, restarts>>

\* Another request was faster, or nothing could be launched: a parameter is
\* missing, no port is left (nextPort panics, and the lock is given up), or
\* the process does not start, which gives its port back.
NotStarted(q) ==
    /\ qpc[q] = "start"
    /\ ~ lock[Home[q]]
    /\ qpc' = [qpc EXCEPT ![q] = "idle"]
    /\ qcred' = [qcred EXCEPT ![q] = 0]
    /\ UNCHANGED <<sync, recon, daemons, restarts>>

\* newCommand fails: startDaemon returns without giving the port back.
CommandFails(q) ==
    /\ qpc[q] = "start"
    /\ ~ lock[Home[q]]
    /\ entry[Home[q]] = None
    /\ \E p \in Ports \ used[Home[q]] :
        /\ used' = [used EXCEPT ![Home[q]] = @ \union {p}]
        /\ leaked' = [leaked EXCEPT ![Home[q]] = @ \union {p}]
    /\ qpc' = [qpc EXCEPT ![q] = "idle"]
    /\ qcred' = [qcred EXCEPT ![q] = 0]
    /\ UNCHANGED <<sync, recon, entry, gen, proc, env, port, lock, restarts>>

\* The new daemon gets any port that is not taken.
nextPort(r, g) ==
    \E p \in Ports \ used[r] :
        /\ port' = [port EXCEPT ![r][g] = p]
        /\ used' = [used EXCEPT ![r] = @ \union {p}]

\* Registers the daemon under a generation that is not counted.
startDaemonSameGeneration(q) ==
    LET r == Home[q]
        g == gen[r] + 1
    IN  /\ qpc[q] = "start"
        /\ ~ lock[r]
        /\ entry[r] = None
        /\ gen[r] < MaxGen
        /\ entry' = [entry EXCEPT ![r] = g]
        /\ proc' = [proc EXCEPT ![r][g] = "running"]
        /\ env' = [env EXCEPT ![r][g] = qcred[q]]
        /\ nextPort(r, g)
        /\ lock' = [lock EXCEPT ![r] = TRUE]
        /\ qpc' = [qpc EXCEPT ![q] = "wait"]
        /\ UNCHANGED <<sync, recon, gen, leaked, qcred, restarts>>

\* Under the write lock, only if nothing is registered still; the lock is
\* kept until the daemon answers, exits or two minutes have passed.
startDaemon(q) ==
    LET r == Home[q]
        g == gen[r] + 1
    IN  /\ qpc[q] = "start"
        /\ ~ lock[r]
        /\ entry[r] = None
        /\ gen[r] < MaxGen
        /\ gen' = [gen EXCEPT ![r] = g]
        /\ entry' = [entry EXCEPT ![r] = g]
        /\ proc' = [proc EXCEPT ![r][g] = "running"]
        /\ env' = [env EXCEPT ![r][g] = qcred[q]]
        /\ nextPort(r, g)
        /\ lock' = [lock EXCEPT ![r] = TRUE]
        /\ qpc' = [qpc EXCEPT ![q] = "wait"]
        /\ UNCHANGED <<sync, recon, leaked, qcred, restarts>>

Started(q) ==
    /\ qpc[q] = "wait"
    /\ lock' = [lock EXCEPT ![Home[q]] = FALSE]
    /\ qpc' = [qpc EXCEPT ![q] = "idle"]
    /\ qcred' = [qcred EXCEPT ![q] = 0]
    /\ UNCHANGED <<sync, recon, entry, gen, proc, env, pool, restarts>>

\* A process exits: it was told to stop, or it crashed.
Exit(r, g) ==
    /\ proc[r][g] \in {"running", "stopping"}
    /\ proc' = [proc EXCEPT ![r][g] = "exited"]
    /\ UNCHANGED <<sync, recon, entry, gen, env, pool, lock, reqs, restarts>>

\* The goroutine that waited for it forgets whatever is registered.
CleanUpAny(r, g) ==
    /\ proc[r][g] = "exited"
    /\ ~ lock[r]
    /\ entry' = [entry EXCEPT ![r] = None]
    /\ FreePort(r)
    /\ proc' = [proc EXCEPT ![r][g] = "gone"]
    /\ port' = [port EXCEPT ![r][g] = NoPort]
    /\ UNCHANGED <<sync, recon, gen, env, leaked, lock, reqs, restarts>>

\* The goroutine that waited for it forgets it, unless it was replaced.
CleanUp(r, g) ==
    /\ proc[r][g] = "exited"
    /\ ~ lock[r]
    /\ entry' = [entry EXCEPT ![r] = IF @ = g THEN None ELSE @]
    /\ IF entry[r] = g THEN FreePort(r) ELSE UNCHANGED used
    /\ proc' = [proc EXCEPT ![r][g] = "gone"]
    /\ port' = [port EXCEPT ![r][g] = NoPort]
    /\ UNCHANGED <<sync, recon, gen, env, leaked, lock, reqs, restarts>>

\* A replica restarts: its daemons die with it and it remembers no revision.
Restart(r) ==
    /\ restarts < MaxRestarts
    /\ restarts' = restarts + 1
    /\ last' = [last EXCEPT ![r] = 0]
    /\ rpc' = [rpc EXCEPT ![r] = "idle"]
    /\ seen' = [seen EXCEPT ![r] = 0]
    /\ entry' = [entry EXCEPT ![r] = None]
    /\ proc' = [proc EXCEPT ![r] = [g \in Gens |->
                    IF proc[r][g] = "never" THEN "never" ELSE "gone"]]
    /\ port' = [port EXCEPT ![r] = [g \in Gens |-> NoPort]]
    /\ used' = [used EXCEPT ![r] = {}]
    /\ leaked' = [leaked EXCEPT ![r] = {}]
    /\ lock' = [lock EXCEPT ![r] = FALSE]
    /\ qpc' = [q \in Requests |-> IF Home[q] = r THEN "idle" ELSE qpc[q]]
    /\ qcred' = [q \in Requests |-> IF Home[q] = r THEN 0 ELSE qcred[q]]
    /\ UNCHANGED <<sync, gen, env>>

-----------------------------------------------------------------------------
Reconcile(r) == Observe(r) \/ stopDaemon(r) \/ Record(r)

Serve(q) == NeedDaemon(q) \/ RevealCredential(q) \/ NotStarted(q)
            \/ CommandFails(q) \/ startDaemon(q) \/ Started(q)

Next ==
    \/ WriteCredential \/ advanceRevision
    \/ \E r \in Replicas :
        \/ Reconcile(r) \/ Restart(r)
        \/ \E g \in Gens : Exit(r, g) \/ CleanUp(r, g)
    \/ \E q \in Requests : Serve(q)

Spec == Init /\ [][Next]_vars

\* The controllers run as long as their process does, and startDaemon gives up
\* the lock when the daemon answers, exits or times out.
FairSpec ==
    /\ Spec
    /\ WF_vars(advanceRevision)
    /\ \A r \in Replicas : WF_vars(Reconcile(r))
    /\ \A q \in Requests : WF_vars(Started(q))

-----------------------------------------------------------------------------
(* Properties *)

States == {"never", "running", "stopping", "exited", "gone"}

\* Values are in range; no replica is ahead of the stored revision, and the
\* registered daemon's generation has been counted.
TypeOK ==
    /\ config \in 0 .. MaxConfig
    /\ unannounced \in BOOLEAN
    /\ revision \in 0 .. MaxRevision
    /\ last \in [Replicas -> 0 .. revision]
    /\ seen \in [Replicas -> 0 .. revision]
    /\ rpc \in [Replicas -> {"idle", "stop", "record"}]
    /\ gen \in [Replicas -> 0 .. MaxGen]
    /\ entry \in [Replicas -> 0 .. MaxGen]
    /\ \A r \in Replicas : entry[r] \in 0 .. gen[r]
    /\ proc \in [Replicas -> [Gens -> States]]
    /\ env \in [Replicas -> [Gens -> 0 .. config]]
    /\ port \in [Replicas -> [Gens -> Ports \union {NoPort}]]
    /\ used \in [Replicas -> SUBSET Ports]
    /\ leaked \in [Replicas -> SUBSET Ports]
    /\ lock \in [Replicas -> BOOLEAN]
    /\ qpc \in [Requests -> {"idle", "reveal", "start", "wait"}]
    /\ qcred \in [Requests -> 0 .. config]

\* Every daemon that runs without having been told to stop is the registered
\* one: a process nobody can find again would serve an old configuration for
\* ever.  Late Wait goroutines, launches that race and restarts keep this.
NoOrphanDaemon ==
    \A r \in Replicas, g \in Gens : proc[r][g] = "running" => entry[r] = g

\* The lock is held exactly while one request waits for its daemon, and that
\* daemon stays registered: neither Reconcile nor the exit of an older process
\* takes the entry away under a launch.
LaunchKeepsEntry ==
    \A r \in Replicas :
        /\ Cardinality({q \in Requests : Home[q] = r /\ qpc[q] = "wait"})
               = (IF lock[r] THEN 1 ELSE 0)
        /\ lock[r] => entry[r] = gen[r]

\* A port is taken exactly while the registered daemon has it, however its
\* exit, its stop and the launch of its successor interleave, except for one
\* port for every command that could not be made.
PortsAccounted ==
    \A r \in Replicas :
        /\ used[r] = leaked[r] \union EntryPort(r)
        /\ EntryPort(r) \intersect leaked[r] = {}

\* Every revision is taken up by every replica in the end.
RevisionTakenUp ==
    \A r \in Replicas, v \in 1 .. MaxRevision :
        (revision >= v) ~> (last[r] >= v)

\* AdvanceDaemonRevision: every replica drops its daemon and restarts it with
\* the current configuration.  A replica that has taken up the last revision
\* runs no daemon with an older credential.
CurrentConfigurationServed ==
    \A r \in Replicas :
        (~ unannounced /\ last[r] = revision /\ rpc[r] = "idle" /\ entry[r] # None)
            => env[r][entry[r]] = config
=============================================================================
