----------------------------- MODULE LLMEngine -----------------------------
(***************************************************************************)
(* The LLM gateway of every replica and its shared configuration:          *)
(* Start, Reload and Change of pkg/llmengine/engine.go, the startup tasks  *)
(* of modelsync.go, the administrator's change of api/handlers/            *)
(* llmgateway.go, the advisory lock of gateway/client/llmgatewaylock.go    *)
(* and the ProviderSync reconcile that reloads a gateway when a revision   *)
(* is announced.                                                           *)
(*                                                                         *)
(* A configuration is the set of changes that are in effect in it.  The    *)
(* embedded gateway (Bifrost) is external: it reads the stores when it     *)
(* boots, serves from memory, and writes every provider it read back to    *)
(* the stores, which undoes an update made meanwhile but not an addition;  *)
(* when it found no provider it adds one, which Obot then removes again.   *)
(* Four goroutines per replica: "start" (Start), "sync" (the reconcile),   *)
(* "tasks" (RunStartupTasks) and "admin" (one request at a time).          *)
(***************************************************************************)
EXTENDS Naturals, FiniteSets

CONSTANTS
    Replicas,
    Changes,        \* the changes that are ever attempted
    Updates,        \* those that alter a provider; the others add one
    MaxFaults       \* bound on crashes, failed boots, reads and announcements

ASSUME UpdatesAssumption == Updates \subseteq Changes
ASSUME FaultsAssumption == MaxFaults \in Nat

Changers == {"tasks", "admin"}
Threads == {"start", "sync"} \cup Changers
Nobody == <<"nobody", "nobody">>
Free == "free"

VARIABLES
    store,          \* the configuration in the shared stores
    revision,       \* the announced revision, in ProviderSync
    lock,           \* the advisory lock: <<replica, goroutine>> or Nobody
    engine,         \* engine[r]: the process and its engine
    mem,            \* mem[r]: what the running gateway loaded
    applied,        \* appliedRevision
    pending,        \* pendingRevision
    observed,       \* lastRevisions of ProviderSync's handler
    configLock,     \* configLock[r]: the goroutine that holds it
    pc, rev, snap,  \* a goroutine's step, its revision, what its boot read
    making, sure,   \* the change being announced; change()'s "applied"
    used, faults,   \* the changes attempted so far; faults so far
    announcedAt,    \* history: the revision that announced a change, or 0
    unlocked,       \* history: a replica started without the lock
    lost,           \* history: changes removed from the stores again
    missed          \* history: r's reload after its start failed

shared == <<store, revision, lock>>
local == <<engine, mem, applied, pending, observed, configLock>>
steps == <<pc, rev, snap, making, sure>>
history == <<announcedAt, unlocked, lost, missed>>
vars == <<shared, local, steps, used, faults, history>>

Init ==
    /\ store = {} /\ revision = 0 /\ lock = Nobody
    /\ engine = [r \in Replicas |-> "down"]
    /\ mem = [r \in Replicas |-> {}]
    /\ applied = [r \in Replicas |-> 0]
    /\ pending = [r \in Replicas |-> 0]
    /\ observed = [r \in Replicas |-> 0]
    /\ configLock = [r \in Replicas |-> Free]
    /\ pc = [r \in Replicas |-> [t \in Threads |-> "idle"]]
    /\ rev = [r \in Replicas |-> [t \in Threads |-> 0]]
    /\ snap = [r \in Replicas |-> [t \in Threads |-> {}]]
    /\ making = [r \in Replicas |-> {}]
    /\ sure = [r \in Replicas |-> FALSE]
    /\ used = {} /\ faults = 0
    /\ announcedAt = [c \in Changes |-> 0]
    /\ unlocked = FALSE /\ lost = {}
    /\ missed = [r \in Replicas |-> FALSE]

Greater(a, b) == IF a < b THEN b ELSE a

Fault == faults < MaxFaults /\ faults' = faults + 1

Goto(r, t, s) == pc' = [pc EXCEPT ![r][t] = s]

\* The stores, and what a write takes out of them.
WriteStore(s) == store' = s /\ lost' = lost \cup (store \ s)

\* A boot that read s writes it back.
WriteBack(s) == WriteStore(s \cup (store \ Updates))

\* Startup and its tasks happen once in a process.
Finished(t) == IF t \in {"start", "tasks"} THEN "done" ELSE "idle"

\* The deferred release of the advisory lock.  A goroutine that runs without
\* the lock releases nothing.
Unlock(r, t) == lock' = IF lock = <<r, t>> THEN Nobody ELSE lock

End(r, t) == Goto(r, t, Finished(t)) /\ Unlock(r, t)

-----------------------------------------------------------------------------
(* Reload: ReloadReturns is its return to the caller, with or without an   *)
(* error.  A changer goes on under the lock; the reconcile records the     *)
(* revision it asked for, or is retried; Start only logs an error.         *)

ReloadReturns(r, t, ok) ==
    /\ IF ok /\ t \in Changers
         THEN Goto(r, t, "change") /\ UNCHANGED lock
         ELSE End(r, t)
    /\ observed' = IF ok /\ t = "sync"
                     THEN [observed EXCEPT ![r] = rev[r][t]] ELSE observed
    /\ missed' = IF ~ok /\ t = "start"
                   THEN [missed EXCEPT ![r] = TRUE] ELSE missed
    /\ rev' = [rev EXCEPT ![r][t] = 0]
    /\ snap' = [snap EXCEPT ![r][t] = {}]

\* Nothing newer is asked for, or the engine failed to start.
ReloadSkips(r, t) ==
    /\ pc[r][t] = "reload"
    /\ rev[r][t] <= applied[r] \/ engine[r] = "failed"
    /\ ReloadReturns(r, t, TRUE)
    /\ UNCHANGED <<store, revision, engine, mem, applied, pending, configLock,
                   making, sure, used, faults, announcedAt, unlocked, lost>>

\* Mutant: the revision is not remembered while the engine is starting.
ReloadWaitsForgetful(r, t) ==
    /\ pc[r][t] = "reload"
    /\ rev[r][t] > applied[r] /\ engine[r] = "starting"
    /\ ReloadReturns(r, t, TRUE)
    /\ UNCHANGED <<store, revision, engine, mem, applied, pending, configLock,
                   making, sure, used, faults, announcedAt, unlocked, lost>>

\* Still starting: the revision is left for Start, in pendingRevision.
ReloadWaits(r, t) ==
    /\ pc[r][t] = "reload"
    /\ rev[r][t] > applied[r] /\ engine[r] = "starting"
    /\ pending' = [pending EXCEPT ![r] = Greater(@, rev[r][t])]
    /\ ReloadReturns(r, t, TRUE)
    /\ UNCHANGED <<store, revision, engine, mem, applied, configLock,
                   making, sure, used, faults, announcedAt, unlocked, lost>>

\* Takes configLock; the boot reads the stores.
ReloadBoots(r, t) ==
    /\ pc[r][t] = "reload"
    /\ rev[r][t] > applied[r] /\ engine[r] = "ready"
    /\ configLock[r] = Free
    /\ configLock' = [configLock EXCEPT ![r] = t]
    /\ snap' = [snap EXCEPT ![r][t] = store]
    /\ Goto(r, t, "reloading")
    /\ UNCHANGED <<shared, engine, mem, applied, pending, observed, rev,
                   making, sure, used, faults, history>>

\* The boot wrote back what it read; the new gateway replaces the old one.
ReloadSwaps(r, t) ==
    /\ pc[r][t] = "reloading"
    /\ WriteBack(snap[r][t])
    /\ mem' = [mem EXCEPT ![r] = snap[r][t]]
    /\ Goto(r, t, "pruning")
    /\ UNCHANGED <<revision, lock, engine, applied, pending, observed,
                   configLock, rev, snap, making, sure, used, faults,
                   announcedAt, unlocked, missed>>

\* removeAutoDetectedKeys: a gateway that booted with no provider made one,
\* which is deleted by its name from the stores and from memory.
removeAutoDetectedKeys(r, t) ==
    IF snap[r][t] = {}
      THEN WriteStore({}) /\ mem' = [mem EXCEPT ![r] = {}]
      ELSE UNCHANGED <<store, lost, mem>>

\* The rest of Reload after the swap: prune, raiseApplied, unlock.
ReloadEnds(r, t) ==
    /\ pc[r][t] = "pruning"
    /\ removeAutoDetectedKeys(r, t)
    /\ applied' = [applied EXCEPT ![r] = Greater(@, rev[r][t])]
    /\ configLock' = [configLock EXCEPT ![r] = Free]
    /\ ReloadReturns(r, t, TRUE)
    /\ UNCHANGED <<revision, engine, pending, making, sure, used, faults,
                   announcedAt, unlocked>>

\* The boot fails, before or after it wrote; the old gateway keeps serving.
ReloadFails(r, t) ==
    /\ pc[r][t] = "reloading"
    /\ Fault
    /\ WriteBack(snap[r][t]) \/ UNCHANGED <<store, lost>>
    /\ configLock' = [configLock EXCEPT ![r] = Free]
    /\ ReloadReturns(r, t, FALSE)
    /\ UNCHANGED <<revision, engine, mem, applied, pending, making, sure,
                   used, announcedAt, unlocked>>

Reload(r, t) ==
    \/ ReloadSkips(r, t) \/ ReloadWaits(r, t) \/ ReloadBoots(r, t)
    \/ ReloadSwaps(r, t) \/ ReloadEnds(r, t) \/ ReloadFails(r, t)

-----------------------------------------------------------------------------
(* Start *)

\* A new process of the replica.
Launch(r) ==
    /\ engine[r] = "down"
    /\ engine' = [engine EXCEPT ![r] = "starting"]
    /\ Goto(r, "start", "lock")
    /\ UNCHANGED <<shared, mem, applied, pending, observed, configLock, rev,
                   snap, making, sure, used, faults, history>>

\* CurrentRevision is read before the boot; an error counts as 0.
StartReads(r) ==
    /\ \/ rev' = [rev EXCEPT ![r]["start"] = revision] /\ UNCHANGED faults
       \/ Fault /\ UNCHANGED rev
    /\ Goto(r, "start", "boot")

StartLocked(r) ==
    /\ pc[r]["start"] = "lock" /\ lock = Nobody
    /\ lock' = <<r, "start">>
    /\ StartReads(r)
    /\ UNCHANGED <<store, revision, local, snap, making, sure, used, history>>

\* The lock stayed busy, or could not be asked for: start without it.
StartUnlocked(r) ==
    /\ pc[r]["start"] = "lock"
    /\ Fault
    /\ unlocked' = TRUE
    /\ rev' = [rev EXCEPT ![r]["start"] = revision]
    /\ Goto(r, "start", "boot")
    /\ UNCHANGED <<shared, local, snap, making, sure, used, announcedAt, lost,
                   missed>>

StartBoots(r) ==
    /\ pc[r]["start"] = "boot"
    /\ snap' = [snap EXCEPT ![r]["start"] = store]
    /\ Goto(r, "start", "booting")
    /\ UNCHANGED <<shared, local, rev, making, sure, used, faults, history>>

\* The boot wrote back what it read.  raiseApplied, then under pendingLock
\* the engine becomes ready and the pending revision is read.
StartReady(r) ==
    /\ pc[r]["start"] = "booting"
    /\ WriteBack(snap[r]["start"])
    /\ mem' = [mem EXCEPT ![r] = snap[r]["start"]]
    /\ applied' = [applied EXCEPT ![r] = Greater(@, rev[r]["start"])]
    /\ engine' = [engine EXCEPT ![r] = "ready"]
    /\ rev' = [rev EXCEPT ![r]["start"] = pending[r]]
    /\ Goto(r, "start", "prune")
    /\ UNCHANGED <<revision, lock, pending, observed, configLock, snap, making,
                   sure, used, faults, announcedAt, unlocked, missed>>

\* startErr: the engine never becomes ready in this process.
StartFails(r) ==
    /\ pc[r]["start"] = "booting"
    /\ Fault
    /\ WriteBack(snap[r]["start"]) \/ UNCHANGED <<store, lost>>
    /\ engine' = [engine EXCEPT ![r] = "failed"]
    /\ rev' = [rev EXCEPT ![r]["start"] = 0]
    /\ snap' = [snap EXCEPT ![r]["start"] = {}]
    /\ End(r, "start")
    /\ UNCHANGED <<revision, mem, applied, pending, observed, configLock,
                   making, sure, used, announcedAt, unlocked, missed>>

\* The auto-detected keys go; a revision announced meanwhile is reloaded.
StartPrunes(r) ==
    /\ pc[r]["start"] = "prune"
    /\ removeAutoDetectedKeys(r, "start")
    /\ snap' = [snap EXCEPT ![r]["start"] = {}]
    /\ IF rev[r]["start"] > 0
         THEN Goto(r, "start", "reload") /\ UNCHANGED lock
         ELSE End(r, "start")
    /\ UNCHANGED <<revision, engine, applied, pending, observed, configLock,
                   rev, making, sure, used, faults, announcedAt, unlocked,
                   missed>>

Start(r) ==
    \/ StartLocked(r) \/ StartUnlocked(r) \/ StartBoots(r) \/ StartReady(r)
    \/ StartFails(r) \/ StartPrunes(r) \/ Reload(r, "start")

-----------------------------------------------------------------------------
(* The reconcile of ProviderSync on every replica *)

\* A revision newer than the last one recorded; the cache may be behind.
SyncSees(r) ==
    /\ engine[r] # "down" /\ pc[r]["sync"] = "idle"
    /\ \E v \in observed[r] + 1 .. revision :
          rev' = [rev EXCEPT ![r]["sync"] = v]
    /\ Goto(r, "sync", "reload")
    /\ UNCHANGED <<store, revision, local, snap, making, sure, used, faults,
                   history>>

\* Mutant: the reload does not take the lock every replica shares.
SyncUnlocked(r) == SyncSees(r) /\ UNCHANGED lock

\* lockedGatewayReload.  A wait that runs out is an error, and the controller
\* tries again.
SyncLocked(r) ==
    /\ lock = Nobody /\ lock' = <<r, "sync">>
    /\ SyncSees(r)

Sync(r) == SyncLocked(r) \/ Reload(r, "sync")

-----------------------------------------------------------------------------
(* Changes: the administrator's (LLMGatewayHandler.change) and the startup *)
(* tasks' (RunStartupTasks), both through Engine.Change.                   *)

\* The lock, and the current revision: it only advances under the lock.
ChangeLocked(r, t) ==
    /\ engine[r] = "ready" /\ pc[r][t] = "idle"
    /\ t = "admin" => used # Changes
    /\ lock = Nobody /\ lock' = <<r, t>>
    /\ rev' = [rev EXCEPT ![r][t] = revision]
    /\ Goto(r, t, "reload")
    /\ UNCHANGED <<store, revision, local, snap, making, sure, used, faults,
                   history>>

\* The lock stays busy or the revision cannot be read: the startup tasks give
\* up until the next start.  An administrator's request changed nothing.
TasksGiveUp(r) ==
    /\ engine[r] = "ready" /\ pc[r]["tasks"] = "idle"
    /\ Fault
    /\ Goto(r, "tasks", "done")
    /\ UNCHANGED <<shared, local, rev, snap, making, sure, used, history>>

\* change(): what it wrote to the stores (s) and to memory (m), what it will
\* announce (ids) and whether this engine surely has it (applied).  With
\* nothing to announce, Change returns.
Make(r, t, s, m, ids, isSure) ==
    /\ store' = store \cup s
    /\ mem' = [mem EXCEPT ![r] = @ \cup m]
    /\ IF ids = {}
         THEN End(r, t) /\ UNCHANGED <<configLock, making, sure>>
         ELSE /\ Goto(r, t, "announce")
              /\ configLock' = [configLock EXCEPT ![r] = t]
              /\ making' = [making EXCEPT ![r] = ids]
              /\ sure' = [sure EXCEPT ![r] = isSure]
              /\ UNCHANGED lock

\* An administrator's change: made; or saved before a failure, in the stores,
\* in memory or both (or one that needs a restart of the gateway); or refused.
AdminChanges(r) ==
    /\ pc[r]["admin"] = "change" /\ configLock[r] = Free
    /\ \/ /\ used = Changes
          /\ Make(r, "admin", {}, {}, {}, FALSE) /\ UNCHANGED used
       \/ \E c \in Changes \ used :
             /\ used' = used \cup {c}
             /\ \/ Make(r, "admin", {c}, {c}, {c}, TRUE)
                \/ \E s \in SUBSET {c} : \E m \in SUBSET {c} :
                      Make(r, "admin", s, m, {c}, FALSE)
                \/ Make(r, "admin", {}, {}, {}, FALSE)
    /\ UNCHANGED <<revision, engine, applied, pending, observed, rev, snap,
                   faults, history>>

\* startupChanges: those that succeed are announced and said to be applied;
\* one that fails is only logged, and may have been saved all the same.
TasksChange(r) ==
    /\ pc[r]["tasks"] = "change" /\ configLock[r] = Free
    /\ \E ids \in SUBSET (Changes \ used) :
          /\ used' = used \cup ids
          /\ \E s \in SUBSET ids : \E m \in SUBSET ids :
                \E done \in SUBSET (s \cap m) :
                   Make(r, "tasks", s, m, done, TRUE)
    /\ UNCHANGED <<revision, engine, applied, pending, observed, rev, snap,
                   faults, history>>

\* Mutant: the compare-and-swap forgets what change() said.
AppliedUnsure(r, v) == IF applied[r] = v - 1 THEN v ELSE applied[r]

\* Mutant: one revision too many counts as applied.
AppliedTooFar(r, v) ==
    IF sure[r] /\ applied[r] = v - 1 THEN v + 1 ELSE applied[r]

\* The end of Change: this engine has revision v if it had the one before.
AppliedAfter(r, v) ==
    IF sure[r] /\ applied[r] = v - 1 THEN v ELSE applied[r]

Announced(r) ==
    announcedAt' = [c \in Changes |->
        IF c \in making[r] /\ announcedAt[c] = 0 THEN revision'
        ELSE announcedAt[c]]

ChangeEnds(r, t) ==
    /\ configLock' = [configLock EXCEPT ![r] = Free]
    /\ making' = [making EXCEPT ![r] = {}]
    /\ sure' = [sure EXCEPT ![r] = FALSE]
    /\ End(r, t)

AnnounceSucceeds(r, t) ==
    /\ pc[r][t] = "announce"
    /\ revision' = revision + 1
    /\ Announced(r)
    /\ applied' = [applied EXCEPT ![r] = AppliedAfter(r, revision')]
    /\ ChangeEnds(r, t)
    /\ UNCHANGED <<store, engine, mem, pending, observed, rev, snap, used,
                   faults, unlocked, lost, missed>>

\* An announcement fails, committed or not, and is tried again or given up
\* (after three attempts or 30 seconds).
AnnounceFails(r, t) ==
    /\ pc[r][t] = "announce"
    /\ Fault
    /\ \/ revision' = revision + 1 /\ Announced(r)
       \/ UNCHANGED <<revision, announcedAt>>
    /\ \/ ChangeEnds(r, t)
       \/ UNCHANGED <<configLock, making, sure, pc, lock>>
    /\ UNCHANGED <<store, engine, mem, applied, pending, observed, rev, snap,
                   used, unlocked, lost, missed>>

Change(r, t) ==
    \/ t = "admin" /\ AdminChanges(r)
    \/ t = "tasks" /\ (TasksGiveUp(r) \/ TasksChange(r))
    \/ AnnounceSucceeds(r, t) \/ AnnounceFails(r, t)
    \/ Reload(r, t)

-----------------------------------------------------------------------------
\* The process dies; Postgres releases the lock with its connection.
Crash(r) ==
    /\ engine[r] # "down"
    /\ Fault
    /\ engine' = [engine EXCEPT ![r] = "down"]
    /\ mem' = [mem EXCEPT ![r] = {}]
    /\ applied' = [applied EXCEPT ![r] = 0]
    /\ pending' = [pending EXCEPT ![r] = 0]
    /\ observed' = [observed EXCEPT ![r] = 0]
    /\ configLock' = [configLock EXCEPT ![r] = Free]
    /\ pc' = [pc EXCEPT ![r] = [t \in Threads |-> "idle"]]
    /\ rev' = [rev EXCEPT ![r] = [t \in Threads |-> 0]]
    /\ snap' = [snap EXCEPT ![r] = [t \in Threads |-> {}]]
    /\ making' = [making EXCEPT ![r] = {}]
    /\ sure' = [sure EXCEPT ![r] = FALSE]
    /\ lock' = IF lock[1] = r THEN Nobody ELSE lock
    /\ missed' = [missed EXCEPT ![r] = FALSE]
    /\ UNCHANGED <<store, revision, used, announcedAt, unlocked, lost>>

Next ==
    \E r \in Replicas :
        \/ Launch(r) \/ Crash(r) \/ Start(r) \/ Sync(r)
        \/ \E t \in Changers : ChangeLocked(r, t) \/ Change(r, t)

Spec == Init /\ [][Next]_vars

\* The goroutines keep running and get the lock in the end.
FairSpec ==
    /\ Spec
    /\ \A r \in Replicas :
         /\ WF_vars(Start(r))
         /\ WF_vars(Sync(r))
         /\ \A t \in Changers : WF_vars(Change(r, t))

-----------------------------------------------------------------------------
(* Properties *)

Steps == {"idle", "lock", "boot", "booting", "prune", "reload", "reloading",
          "pruning", "change", "announce", "done"}

\* Types.  appliedRevision, pendingRevision and lastRevisions never run ahead
\* of the announced revision.
TypeOK ==
    /\ store \subseteq Changes /\ revision \in Nat
    /\ lock \in {Nobody} \cup (Replicas \X Threads)
    /\ engine \in [Replicas -> {"down", "starting", "ready", "failed"}]
    /\ mem \in [Replicas -> SUBSET Changes]
    /\ applied \in [Replicas -> 0 .. revision]
    /\ pending \in [Replicas -> 0 .. revision]
    /\ observed \in [Replicas -> 0 .. revision]
    /\ configLock \in [Replicas -> {Free} \cup Threads]
    /\ pc \in [Replicas -> [Threads -> Steps]]
    /\ rev \in [Replicas -> [Threads -> 0 .. revision]]
    /\ snap \in [Replicas -> [Threads -> SUBSET Changes]]
    /\ making \in [Replicas -> SUBSET Changes]
    /\ sure \in [Replicas -> BOOLEAN]
    /\ used \subseteq Changes /\ faults \in 0 .. MaxFaults
    /\ announcedAt \in [Changes -> 0 .. revision]
    /\ unlocked \in BOOLEAN /\ lost \subseteq Changes
    /\ missed \in [Replicas -> BOOLEAN]

\* A change that was saved stays in the stores, although every boot writes
\* back the whole configuration it read some time before.  Only a start that
\* gave up on the lock can undo one.
NoLostChange == unlocked \/ lost = {}

\* appliedRevision is true: of the changes announced up to it, the replica's
\* gateway serves exactly those that the stores have.
AppliedIsLoaded ==
    \A r \in Replicas : \A c \in Changes \ lost :
        engine[r] = "ready" /\ announcedAt[c] \in 1 .. applied[r]
            => (c \in mem[r] <=> c \in store)

\* A running gateway serves what was announced and is in the stores.
Converged ==
    \A r \in Replicas : \A c \in Changes :
        \/ announcedAt[c] = 0 \/ c \in lost
        \/ engine[r] \in {"down", "failed"} \/ missed[r]
        \/ c \in mem[r] <=> c \in store

\* Once changes and failures have stopped, every announced change reaches
\* every running gateway for good, also one that was starting when the change
\* was announced.  Start only logs an error of the reload it makes at its end
\* (missed): such a gateway may stay behind.
Convergence == <>[]Converged
=============================================================================
