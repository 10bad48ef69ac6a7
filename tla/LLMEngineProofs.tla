--------------------------- MODULE LLMEngineProofs ---------------------------
(***************************************************************************)
(* Proofs about LLMEngine, for any number of replicas, changes and faults: *)
(* the advisory lock keeps every boot's write-back from undoing a saved    *)
(* change, and appliedRevision never claims a change that the gateway does *)
(* not serve, not even when a replica started without the lock.            *)
(***************************************************************************)
EXTENDS LLMEngine, TLAPS

\* The goroutine is between the advisory lock and its release.
Resting == {"idle", "lock", "done"}
Busy(r, t) == pc[r][t] \notin Resting

\* It holds a snapshot that it has written or will write back.
Booted == {"booting", "prune", "reloading", "pruning"}
Snapping(r, t) == pc[r][t] \in Booted

\* While no start gave up on the lock, a busy goroutine has it, what it read
\* is what the stores have, and nothing was lost.
Exclusive ==
    /\ lost = {}
    /\ \A r \in Replicas : \A t \in Threads :
          /\ Busy(r, t) => lock = <<r, t>>
          /\ Snapping(r, t) => snap[r][t] = store

LockInv == unlocked \/ Exclusive

\* What the engine's state says of a goroutine of its process that is at s.
EngineAllows(e, t, s) ==
    /\ e = "down" => s = "idle"
    /\ s \in {"lock", "boot", "booting"} => t = "start" /\ e = "starting"
    /\ s = "prune" => t = "start"
    /\ s \in {"change", "announce"} => t \in Changers
    /\ t \in Changers /\ s # "idle" => e = "ready"
    /\ s \in {"reloading", "pruning"} => e = "ready"

EngineInv == \A r \in Replicas : \A t \in Threads : EngineAllows(engine[r], t, pc[r][t])

\* A reload after its boot and a change that was made hold configLock.
Configuring == {"reloading", "pruning", "announce"}
ConfigInv ==
    \A r \in Replicas : \A t \in Threads : pc[r][t] \in Configuring => configLock[r] = t

\* Only attempted changes are announced; a snapshot has nothing that was
\* never stored.
UsedInv ==
    /\ \A c \in Changes : announcedAt[c] # 0 => c \in used
    /\ \A r \in Replicas : making[r] \subseteq used
    /\ \A r \in Replicas : \A t \in Threads : snap[r][t] \subseteq store \union lost

Same(A, B, c) == c \in A <=> c \in B

\* Announced up to revision n.
Upto(c, n) == announcedAt[c] # 0 /\ announcedAt[c] <= n

Serves(r) ==
    \A c \in Changes \ lost :
        engine[r] = "ready" /\ Upto(c, applied[r]) => Same(mem[r], store, c)

\* What a boot has read, and what a reload has swapped in, agrees with the
\* stores on what is announced up to the revision that it will record.
Reading(r, t) ==
    \A c \in Changes \ lost :
        pc[r][t] \in {"booting", "reloading"} /\ (Upto(c, rev[r][t]) \/ Upto(c, applied[r]))
            => Same(snap[r][t], store, c)

Swapped(r, t) ==
    \A c \in Changes \ lost :
        pc[r][t] = "pruning" /\ (Upto(c, rev[r][t]) \/ Upto(c, applied[r]))
            => Same(mem[r], store, c)

\* A change that Change was told is applied is in the stores and in memory.
Sure(r, t) ==
    \A c \in Changes \ lost :
        pc[r][t] = "announce" /\ sure[r] /\ c \in making[r] => c \in mem[r] /\ c \in store

LoadedAt(r) ==
    Serves(r) /\ \A t \in Threads : Reading(r, t) /\ Swapped(r, t) /\ Sure(r, t)

LoadInv == \A r \in Replicas : LoadedAt(r)

Inv == TypeOK /\ LockInv /\ EngineInv /\ ConfigInv /\ UsedInv /\ LoadInv

-----------------------------------------------------------------------------
(* The frame of a step: goroutine t of replica r goes to s. *)

Did(r, t, s) ==
    /\ \A p \in Replicas : p # r =>
          /\ engine'[p] = engine[p] /\ mem'[p] = mem[p] /\ applied'[p] = applied[p]
          /\ configLock'[p] = configLock[p]
          /\ making'[p] = making[p] /\ sure'[p] = sure[p]
    /\ \A p \in Replicas : \A u \in Threads : p # r \/ u # t =>
          /\ pc'[p][u] = pc[p][u] /\ rev'[p][u] = rev[p][u] /\ snap'[p][u] = snap[p][u]
    /\ pc'[r][t] = s

\* The other replicas are as they were.
Elsewhere(r) ==
    \A p \in Replicas : p # r =>
        /\ engine'[p] = engine[p] /\ mem'[p] = mem[p] /\ applied'[p] = applied[p]
        /\ configLock'[p] = configLock[p]
        /\ making'[p] = making[p] /\ sure'[p] = sure[p]
        /\ \A u \in Threads :
              pc'[p][u] = pc[p][u] /\ rev'[p][u] = rev[p][u] /\ snap'[p][u] = snap[p][u]

LEMMA DidElsewhere ==
    ASSUME NEW r \in Replicas, NEW t \in Threads, NEW s, Did(r, t, s)
    PROVE  Elsewhere(r)
BY DEF Did, Elsewhere

\* The lock is taken, kept or released; the stores are written under it, and
\* only what they have already.
LockMoves(r, t, s) ==
    /\ unlocked => unlocked'
    /\ ~ unlocked' =>
          /\ \/ lock = Nobody /\ lock' = <<r, t>>
             \/ lock' = lock /\ (s \notin Resting => Busy(r, t))
             \/ Unlock(r, t) /\ s \in Resting
          /\ store' # store => Busy(r, t)
          /\ s \in Booted => snap'[r][t] = store'
          /\ lost' = lost

\* So does configLock move.
ConfigMoves(r, t, s) ==
    \/ configLock'[r] = configLock[r] /\ (s \in Configuring => pc[r][t] \in Configuring)
    \/ configLock[r] = Free /\ configLock'[r] = t
    \/ configLock[r] = t /\ s \notin Configuring

\* A change that was attempted before and is not lost stays in the stores or
\* stays out of them.
StoreMoves ==
    /\ lost \subseteq lost' /\ used \subseteq used' /\ store \subseteq store' \union lost'
    /\ \A c \in used : c \notin lost' => Same(store', store, c)

\* A change is announced with a revision that nobody has applied yet.
AnnounceMoves ==
    \A c \in Changes :
        announcedAt'[c] = announcedAt[c] \/ (announcedAt'[c] = revision + 1 /\ c \in used)

-----------------------------------------------------------------------------
(* Each part of the invariant is kept by a step of this form. *)

LEMMA LockKept ==
    ASSUME LockInv, NEW r \in Replicas, NEW t \in Threads, NEW s,
           Did(r, t, s), LockMoves(r, t, s)
    PROVE  LockInv'
<1>1. SUFFICES ASSUME ~ unlocked' PROVE Exclusive'
  BY DEF LockInv
<1>2. Exclusive
  BY <1>1 DEF LockInv, LockMoves
<1>3. lost' = {}
  BY <1>1, <1>2 DEF LockMoves, Exclusive
<1>4. SUFFICES ASSUME NEW p \in Replicas, NEW u \in Threads
               PROVE  /\ Busy(p, u)' => lock' = <<p, u>>
                      /\ Snapping(p, u)' => snap'[p][u] = store'
  BY <1>3 DEF Exclusive
<1>5. CASE p = r /\ u = t
  <2>1. pc'[r][t] = s
    BY DEF Did
  <2>2. Busy(r, t) => lock = <<r, t>>
    BY <1>2 DEF Exclusive
  <2>3. s \notin Resting => lock' = <<r, t>>
    BY <1>1, <2>2 DEF LockMoves
  <2>4. s \in Booted => snap'[r][t] = store'
    BY <1>1 DEF LockMoves
  <2>5. QED
    BY <1>5, <2>1, <2>3, <2>4 DEF Busy, Snapping
<1>6. CASE p # r \/ u # t
  <2>1. pc'[p][u] = pc[p][u] /\ snap'[p][u] = snap[p][u]
    BY <1>6 DEF Did
  <2>2. (Busy(p, u) => lock = <<p, u>>) /\ (Busy(r, t) => lock = <<r, t>>)
        /\ (Snapping(p, u) => snap[p][u] = store)
    BY <1>2 DEF Exclusive
  <2>3. <<p, u>> # <<r, t>> /\ <<p, u>> # Nobody
    BY <1>6 DEF Nobody, Threads, Changers
  <2>4. Busy(p, u) => lock' = <<p, u>> /\ store' = store
    BY <1>1, <2>2, <2>3 DEF LockMoves, Unlock
  <2>5. Snapping(p, u) => Busy(p, u)
    BY DEF Snapping, Busy, Booted, Resting
  <2>6. QED
    BY <2>1, <2>2, <2>4, <2>5 DEF Busy, Snapping
<1>7. QED
  BY <1>5, <1>6

LEMMA EngineKept ==
    ASSUME EngineInv, NEW r \in Replicas, NEW t \in Threads, NEW s,
           Did(r, t, s), engine'[r] = engine[r], EngineAllows(engine[r], t, s)
    PROVE  EngineInv'
BY DEF EngineInv, Did

LEMMA ConfigKept ==
    ASSUME ConfigInv, NEW r \in Replicas, NEW t \in Threads, NEW s,
           Did(r, t, s), ConfigMoves(r, t, s)
    PROVE  ConfigInv'
<1>1. SUFFICES ASSUME NEW p \in Replicas, NEW u \in Threads, pc'[p][u] \in Configuring
               PROVE  configLock'[p] = u
  BY DEF ConfigInv
<1>2. CASE p # r
  BY <1>1, <1>2 DEF ConfigInv, Did
<1>3. CASE p = r /\ u # t
  <2>1. configLock[r] = u
    BY <1>1, <1>3 DEF ConfigInv, Did
  <2>2. u # Free
    BY DEF Free, Threads, Changers
  <2>3. QED
    BY <1>3, <2>1, <2>2 DEF ConfigMoves
<1>4. CASE p = r /\ u = t
  <2>1. s \in Configuring
    BY <1>1, <1>4 DEF Did
  <2>2. QED
    BY <1>4, <2>1 DEF ConfigMoves, ConfigInv
<1>5. QED
  BY <1>2, <1>3, <1>4

LEMMA UsedKept ==
    ASSUME UsedInv, NEW r \in Replicas, NEW t \in Threads, NEW s,
           Did(r, t, s), StoreMoves, AnnounceMoves,
           making'[r] \subseteq used', snap'[r][t] \subseteq store' \union lost'
    PROVE  UsedInv'
<1>1. \A c \in Changes : announcedAt'[c] # 0 => c \in used'
  BY DEF UsedInv, AnnounceMoves, StoreMoves
<1>2. \A p \in Replicas : making'[p] \subseteq used'
  BY DEF UsedInv, Did, StoreMoves
<1>3. store \union lost \subseteq store' \union lost'
  BY DEF StoreMoves
<1>4. \A p \in Replicas : \A u \in Threads : snap'[p][u] \subseteq store' \union lost'
  BY <1>3 DEF UsedInv, Did
<1>5. QED
  BY <1>1, <1>2, <1>4 DEF UsedInv

\* What is announced up to a revision that was there before the step was
\* announced before the step.
LEMMA UptoKept ==
    ASSUME TypeOK, UsedInv, AnnounceMoves, NEW c \in Changes, NEW n \in 0 .. revision,
           announcedAt'[c] # 0, announcedAt'[c] <= n
    PROVE  Upto(c, n) /\ c \in used
<1>1. revision \in Nat /\ n \in Nat /\ n <= revision /\ announcedAt[c] \in Nat
  BY DEF TypeOK
<1>2. announcedAt'[c] = announcedAt[c]
  BY <1>1 DEF AnnounceMoves
<1>3. QED
  BY <1>2 DEF Upto, UsedInv

-----------------------------------------------------------------------------
(* What the gateways have loaded *)

LEMMA LoadedElsewhere ==
    ASSUME TypeOK, UsedInv, LoadInv, NEW r \in Replicas, Elsewhere(r),
           StoreMoves, AnnounceMoves, NEW p \in Replicas, p # r
    PROVE  LoadedAt(p)'
<1>0. /\ engine'[p] = engine[p] /\ mem'[p] = mem[p] /\ applied'[p] = applied[p]
      /\ making'[p] = making[p] /\ sure'[p] = sure[p]
      /\ \A u \in Threads :
            pc'[p][u] = pc[p][u] /\ rev'[p][u] = rev[p][u] /\ snap'[p][u] = snap[p][u]
  BY DEF Elsewhere
<1>1. applied[p] \in 0 .. revision /\ \A u \in Threads : rev[p][u] \in 0 .. revision
  BY DEF TypeOK
<1>2. ASSUME NEW c \in Changes, c \notin lost', NEW n \in 0 .. revision,
             announcedAt'[c] # 0, announcedAt'[c] <= n
      PROVE  Upto(c, n) /\ c \notin lost /\ Same(store', store, c)
  BY <1>2, UptoKept DEF StoreMoves
<1>3. Serves(p)'
  <2>1. SUFFICES ASSUME NEW c \in Changes, c \notin lost', engine'[p] = "ready",
                        announcedAt'[c] # 0, announcedAt'[c] <= applied'[p]
                 PROVE  Same(mem'[p], store', c)
    BY DEF Serves, Upto
  <2>2. Upto(c, applied[p]) /\ c \notin lost /\ Same(store', store, c)
    BY <1>0, <1>1, <1>2, <2>1
  <2>3. Same(mem[p], store, c)
    BY <1>0, <2>1, <2>2 DEF LoadInv, LoadedAt, Serves
  <2>4. QED
    BY <1>0, <2>2, <2>3 DEF Same
<1>4. ASSUME NEW u \in Threads PROVE Reading(p, u)' /\ Swapped(p, u)'
  <2>1. SUFFICES ASSUME NEW c \in Changes, c \notin lost', announcedAt'[c] # 0,
                        announcedAt'[c] <= rev'[p][u] \/ announcedAt'[c] <= applied'[p]
                 PROVE  /\ pc'[p][u] \in {"booting", "reloading"} => Same(snap'[p][u], store', c)
                        /\ pc'[p][u] = "pruning" => Same(mem'[p], store', c)
    BY DEF Reading, Swapped, Upto
  <2>2. (Upto(c, rev[p][u]) \/ Upto(c, applied[p])) /\ c \notin lost /\ Same(store', store, c)
    BY <1>0, <1>1, <1>2, <2>1
  <2>3. /\ pc[p][u] \in {"booting", "reloading"} => Same(snap[p][u], store, c)
        /\ pc[p][u] = "pruning" => Same(mem[p], store, c)
    BY <2>2 DEF LoadInv, LoadedAt, Reading, Swapped
  <2>4. QED
    BY <1>0, <2>2, <2>3 DEF Same
<1>5. ASSUME NEW u \in Threads PROVE Sure(p, u)'
  <2>1. SUFFICES ASSUME NEW c \in Changes, c \notin lost', pc'[p][u] = "announce", sure'[p],
                        c \in making'[p]
                 PROVE  c \in mem'[p] /\ c \in store'
    BY DEF Sure
  <2>2. c \in used /\ c \notin lost /\ Same(store', store, c)
    BY <1>0, <2>1 DEF UsedInv, StoreMoves
  <2>3. c \in mem[p] /\ c \in store
    BY <1>0, <2>1, <2>2 DEF LoadInv, LoadedAt, Sure
  <2>4. QED
    BY <1>0, <2>2, <2>3 DEF Same
<1>6. QED
  BY <1>3, <1>4, <1>5 DEF LoadedAt

\* A step that leaves what replica r has of the announced changes as it is.
MemMoves(r) ==
    \A c \in used : c \notin lost' =>
        /\ Same(mem[r], store, c) => Same(mem'[r], store', c)
        /\ c \in mem[r] /\ c \in store => c \in mem'[r] /\ c \in store'

\* Such a step takes a fresh snapshot or none, records no revision, and
\* announces nothing that is not loaded.
Quiet(r, t, s) ==
    /\ MemMoves(r) /\ applied'[r] = applied[r]
    /\ engine'[r] = "ready" => engine[r] = "ready"
    /\ s # "pruning"
    /\ s \in {"booting", "reloading"} => snap'[r][t] = store'
    /\ \/ making'[r] = making[r] /\ sure'[r] = sure[r] /\ (s = "announce" => pc[r][t] = s)
       \/ (\A u \in Threads \ {t} : pc[r][u] # "announce") /\ Sure(r, t)'

LEMMA QuietSteps ==
    ASSUME NEW r \in Replicas, NEW t \in Threads, NEW s, MemMoves(r),
           UNCHANGED <<applied, making, sure>>,
           engine'[r] = "ready" => engine[r] = "ready",
           s # "pruning", s = "announce" => pc[r][t] = s,
           s \in {"booting", "reloading"} => snap'[r][t] = store'
    PROVE  Quiet(r, t, s)
<1>1. applied'[r] = applied[r] /\ making'[r] = making[r] /\ sure'[r] = sure[r]
  OBVIOUS
<1>2. QED
  BY <1>1 DEF Quiet

LEMMA QuietLoaded ==
    ASSUME TypeOK, UsedInv, LoadInv, NEW r \in Replicas, NEW t \in Threads, NEW s,
           Did(r, t, s), StoreMoves, AnnounceMoves, Quiet(r, t, s)
    PROVE  LoadedAt(r)'
<1>0. /\ pc'[r][t] = s
      /\ \A u \in Threads : u # t =>
            pc'[r][u] = pc[r][u] /\ rev'[r][u] = rev[r][u] /\ snap'[r][u] = snap[r][u]
      /\ applied'[r] = applied[r]
  BY DEF Did, Quiet
<1>1. applied[r] \in 0 .. revision /\ \A u \in Threads : rev[r][u] \in 0 .. revision
  BY DEF TypeOK
<1>2. ASSUME NEW c \in Changes, c \notin lost', NEW n \in 0 .. revision,
             announcedAt'[c] # 0, announcedAt'[c] <= n
      PROVE  Upto(c, n) /\ c \notin lost /\ Same(store', store, c)
             /\ (Same(mem[r], store, c) => Same(mem'[r], store', c))
  BY <1>2, UptoKept DEF StoreMoves, Quiet, MemMoves
<1>3. Serves(r)'
  <2>1. SUFFICES ASSUME NEW c \in Changes, c \notin lost', engine'[r] = "ready",
                        announcedAt'[c] # 0, announcedAt'[c] <= applied'[r]
                 PROVE  Same(mem'[r], store', c)
    BY DEF Serves, Upto
  <2>2. Upto(c, applied[r]) /\ c \notin lost
        /\ (Same(mem[r], store, c) => Same(mem'[r], store', c))
    BY <1>0, <1>1, <1>2, <2>1
  <2>3. QED
    BY <2>1, <2>2 DEF Quiet, LoadInv, LoadedAt, Serves
<1>4. ASSUME NEW u \in Threads PROVE Reading(r, u)' /\ Swapped(r, u)'
  <2>1. SUFFICES ASSUME NEW c \in Changes, c \notin lost', announcedAt'[c] # 0,
                        announcedAt'[c] <= rev'[r][u] \/ announcedAt'[c] <= applied'[r]
                 PROVE  /\ pc'[r][u] \in {"booting", "reloading"} => Same(snap'[r][u], store', c)
                        /\ pc'[r][u] = "pruning" => Same(mem'[r], store', c)
    BY DEF Reading, Swapped, Upto
  <2>2. CASE u = t
    BY <1>0, <2>2 DEF Quiet, Same
  <2>3. CASE u # t
    <3>1. (Upto(c, rev[r][u]) \/ Upto(c, applied[r])) /\ c \notin lost
          /\ Same(store', store, c) /\ (Same(mem[r], store, c) => Same(mem'[r], store', c))
      BY <1>0, <1>1, <1>2, <2>1, <2>3
    <3>2. /\ pc[r][u] \in {"booting", "reloading"} => Same(snap[r][u], store, c)
          /\ pc[r][u] = "pruning" => Same(mem[r], store, c)
      BY <3>1 DEF LoadInv, LoadedAt, Reading, Swapped
    <3>3. QED
      BY <1>0, <2>3, <3>1, <3>2 DEF Same
  <2>4. QED
    BY <2>2, <2>3
<1>5. ASSUME NEW u \in Threads PROVE Sure(r, u)'
  <2>1. CASE making'[r] = making[r] /\ sure'[r] = sure[r] /\ (s = "announce" => pc[r][t] = s)
    <3>1. SUFFICES ASSUME NEW c \in Changes, c \notin lost', pc'[r][u] = "announce", sure'[r],
                          c \in making'[r]
                   PROVE  c \in mem'[r] /\ c \in store'
      BY DEF Sure
    <3>2. c \in used /\ c \notin lost
      BY <2>1, <3>1 DEF UsedInv, StoreMoves
    <3>3. pc[r][u] = "announce"
      BY <1>0, <2>1, <3>1
    <3>4. c \in mem[r] /\ c \in store
      BY <2>1, <3>1, <3>2, <3>3 DEF LoadInv, LoadedAt, Sure
    <3>5. QED
      BY <3>1, <3>2, <3>4 DEF Quiet, MemMoves
  <2>2. CASE (\A v \in Threads \ {t} : pc[r][v] # "announce") /\ Sure(r, t)'
    <3>1. CASE u = t
      BY <2>2, <3>1
    <3>2. CASE u # t
      BY <1>0, <2>2, <3>2 DEF Sure
    <3>3. QED
      BY <3>1, <3>2
  <2>3. QED
    BY <2>1, <2>2 DEF Quiet
<1>6. QED
  BY <1>3, <1>4, <1>5 DEF LoadedAt

-----------------------------------------------------------------------------
\* The parts together.
LEMMA StepKeepsInv ==
    ASSUME Inv, NEW r \in Replicas, NEW t \in Threads, NEW s,
           Did(r, t, s), TypeOK', LockMoves(r, t, s), EngineInv', ConfigMoves(r, t, s),
           StoreMoves, AnnounceMoves,
           making'[r] \subseteq used', snap'[r][t] \subseteq store' \union lost',
           LoadedAt(r)'
    PROVE  Inv'
<1>1. LockInv' /\ ConfigInv' /\ UsedInv'
  BY LockKept, ConfigKept, UsedKept DEF Inv
<1>2. LoadInv'
  BY DidElsewhere, LoadedElsewhere DEF Inv, LoadInv
<1>3. QED
  BY <1>1, <1>2 DEF Inv

LEMMA QuietKeepsInv ==
    ASSUME Inv, NEW r \in Replicas, NEW t \in Threads, NEW s,
           Did(r, t, s), TypeOK', LockMoves(r, t, s), EngineInv', ConfigMoves(r, t, s),
           StoreMoves, AnnounceMoves,
           making'[r] \subseteq used', snap'[r][t] \subseteq store' \union lost',
           Quiet(r, t, s)
    PROVE  Inv'
BY QuietLoaded, StepKeepsInv DEF Inv
-----------------------------------------------------------------------------
(* Updates of one goroutine's entry, and types *)

PerThread(S) == [Replicas -> [Threads -> S]]

LEMMA FaultTyped ==
    ASSUME faults \in 0 .. MaxFaults, Fault \/ UNCHANGED faults
    PROVE  faults' \in 0 .. MaxFaults
BY FaultsAssumption DEF Fault

LEMMA UnlockTyped ==
    ASSUME lock \in {Nobody} \union (Replicas \X Threads), NEW r, NEW t, Unlock(r, t)
    PROVE  lock' \in {Nobody} \union (Replicas \X Threads)
BY DEF Unlock

\* The entries of goroutine t alone change, and keep their types.
Turned(r, t, s) ==
    /\ pc' \in PerThread(Steps) /\ rev' \in PerThread(0 .. revision)
    /\ snap' \in PerThread(SUBSET Changes)
    /\ \A p \in Replicas : \A u \in Threads : p # r \/ u # t =>
          /\ pc'[p][u] = pc[p][u] /\ rev'[p][u] = rev[p][u] /\ snap'[p][u] = snap[p][u]
    /\ pc'[r][t] = s

LEMMA TurnedByPut ==
    ASSUME TypeOK, NEW r \in Replicas, NEW t \in Threads, NEW s \in Steps,
           pc' = [pc EXCEPT ![r][t] = s],
           NEW n \in 0 .. revision, rev' = [rev EXCEPT ![r][t] = n] \/ rev' = rev,
           NEW m \in SUBSET Changes, snap' = [snap EXCEPT ![r][t] = m] \/ snap' = snap
    PROVE  /\ Turned(r, t, s)
           /\ rev' = [rev EXCEPT ![r][t] = n] => rev'[r][t] = n
           /\ snap' = [snap EXCEPT ![r][t] = m] => snap'[r][t] = m
<1>0. pc \in PerThread(Steps) /\ rev \in PerThread(0 .. revision)
      /\ snap \in PerThread(SUBSET Changes)
  BY DEF TypeOK, PerThread
<1>1. /\ pc' \in PerThread(Steps) /\ pc'[r][t] = s
      /\ \A p \in Replicas : \A u \in Threads : p # r \/ u # t => pc'[p][u] = pc[p][u]
  BY <1>0 DEF PerThread
<1>2. /\ rev' \in PerThread(0 .. revision)
      /\ \A p \in Replicas : \A u \in Threads : p # r \/ u # t => rev'[p][u] = rev[p][u]
      /\ rev' = [rev EXCEPT ![r][t] = n] => rev'[r][t] = n
  <2>1. CASE rev' = [rev EXCEPT ![r][t] = n]
    BY <1>0, <2>1 DEF PerThread
  <2>2. CASE rev' = rev /\ rev' # [rev EXCEPT ![r][t] = n]
    BY <1>0, <2>2
  <2>3. QED
    BY <2>1, <2>2
<1>3. /\ snap' \in PerThread(SUBSET Changes)
      /\ \A p \in Replicas : \A u \in Threads : p # r \/ u # t => snap'[p][u] = snap[p][u]
      /\ snap' = [snap EXCEPT ![r][t] = m] => snap'[r][t] = m
  <2>1. CASE snap' = [snap EXCEPT ![r][t] = m]
    BY <1>0, <2>1 DEF PerThread
  <2>2. CASE snap' = snap /\ snap' # [snap EXCEPT ![r][t] = m]
    BY <1>0, <2>2
  <2>3. QED
    BY <2>1, <2>2
<1>4. QED
  BY <1>1, <1>2, <1>3 DEF Turned

\* A step that announces nothing keeps the types of what it leaves alone.
LEMMA TypesKept ==
    ASSUME TypeOK, NEW r \in Replicas, NEW t \in Threads, NEW s, Turned(r, t, s),
           UNCHANGED <<revision, announcedAt>>,
           store' \subseteq Changes, lost' \subseteq Changes, used' \subseteq Changes,
           lock' \in {Nobody} \union (Replicas \X Threads),
           engine' \in [Replicas -> {"down", "starting", "ready", "failed"}],
           mem' \in [Replicas -> SUBSET Changes],
           applied' \in [Replicas -> 0 .. revision],
           pending' \in [Replicas -> 0 .. revision],
           observed' \in [Replicas -> 0 .. revision],
           configLock' \in [Replicas -> {Free} \union Threads],
           making' \in [Replicas -> SUBSET Changes], sure' \in [Replicas -> BOOLEAN],
           Fault \/ UNCHANGED faults, unlocked' \in BOOLEAN,
           missed' \in [Replicas -> BOOLEAN]
    PROVE  TypeOK'
<1>1. faults' \in 0 .. MaxFaults
  BY FaultTyped DEF TypeOK
<1>2. /\ pc' \in [Replicas -> [Threads -> Steps]]
      /\ rev' \in [Replicas -> [Threads -> 0 .. revision]]
      /\ snap' \in [Replicas -> [Threads -> SUBSET Changes]]
  BY DEF Turned, PerThread
<1>3. QED
  BY <1>1, <1>2 DEF TypeOK

-----------------------------------------------------------------------------
(* Reload's return *)

Returned(r, t, s) ==
    /\ s \in {"idle", "done", "change"} /\ (s = "change" => t \in Changers)
    /\ Turned(r, t, s) /\ snap'[r][t] = {}
    /\ (s = "change" /\ UNCHANGED lock) \/ (s # "change" /\ Unlock(r, t))
    /\ lock' \in {Nobody} \union (Replicas \X Threads)
    /\ observed' \in [Replicas -> 0 .. revision]
    /\ missed' \in [Replicas -> BOOLEAN]

LEMMA ReloadReturned ==
    ASSUME TypeOK, NEW r \in Replicas, NEW t \in Threads, NEW ok \in BOOLEAN,
           ReloadReturns(r, t, ok)
    PROVE  \E s : Returned(r, t, s)
<1>0. revision \in Nat /\ rev[r][t] \in 0 .. revision
  BY DEF TypeOK
<1>1. observed' \in [Replicas -> 0 .. revision]
  BY <1>0 DEF ReloadReturns, TypeOK
<1>2. missed' \in [Replicas -> BOOLEAN]
  BY DEF ReloadReturns, TypeOK
<1>3. PICK s : /\ s \in {"idle", "done", "change"} /\ (s = "change" => t \in Changers)
               /\ pc' = [pc EXCEPT ![r][t] = s]
               /\ (s = "change" /\ UNCHANGED lock) \/ (s # "change" /\ Unlock(r, t))
  BY DEF ReloadReturns, End, Goto, Finished
<1>4. lock' \in {Nobody} \union (Replicas \X Threads)
  BY <1>3, UnlockTyped DEF TypeOK
<1>5. rev' = [rev EXCEPT ![r][t] = 0] /\ snap' = [snap EXCEPT ![r][t] = {}]
  BY DEF ReloadReturns
<1>6. Turned(r, t, s) /\ snap'[r][t] = {}
  <2>1. s \in Steps /\ 0 \in 0 .. revision /\ {} \in SUBSET Changes
    BY <1>0, <1>3 DEF Steps
  <2>2. QED
    BY <1>3, <1>5, <2>1, TurnedByPut
<1>7. QED
  BY <1>1, <1>2, <1>3, <1>4, <1>6 DEF Returned

\* What a return does to the invariant's parts, in a process whose goroutine
\* was busy with a reload.
LEMMA ReturnMoves ==
    ASSUME Inv, NEW r \in Replicas, NEW t \in Threads, NEW s, Returned(r, t, s),
           pc[r][t] \in {"reload", "reloading", "pruning"}, UNCHANGED unlocked
    PROVE  /\ EngineAllows(engine[r], t, s)
           /\ s \notin Configuring /\ s \notin {"pruning", "booting", "reloading", "announce"}
           /\ unlocked \/ lost' = lost => LockMoves(r, t, s)
           /\ snap'[r][t] \subseteq store' \union lost'
<1>1. EngineAllows(engine[r], t, pc[r][t])
  BY DEF Inv, EngineInv
<1>2. EngineAllows(engine[r], t, s)
  BY <1>1 DEF Returned, EngineAllows
<1>3. s \notin Configuring /\ s \notin {"pruning", "booting", "reloading", "announce"}
      /\ s \notin Booted
  BY DEF Returned, Configuring, Booted
<1>4. Busy(r, t)
  BY DEF Busy, Resting
<1>5. unlocked \/ lost' = lost => LockMoves(r, t, s)
  BY <1>3, <1>4 DEF LockMoves, Returned, Resting
<1>6. QED
  BY <1>2, <1>3, <1>5 DEF Returned
-----------------------------------------------------------------------------
(* The stores and the memory *)

LEMMA StoreUnchanged ==
    ASSUME UNCHANGED <<store, lost>>, used \subseteq used'
    PROVE  StoreMoves
BY DEF StoreMoves, Same

LEMMA MemKept ==
    ASSUME NEW r \in Replicas, StoreMoves, mem'[r] = mem[r]
    PROVE  MemMoves(r)
BY DEF StoreMoves, MemMoves, Same

LEMMA AnnouncedUnchanged ==
    ASSUME UNCHANGED announcedAt PROVE AnnounceMoves
BY DEF AnnounceMoves

\* A boot that has the lock writes back what the stores have; without the
\* lock it loses what it undoes, and brings back only what was lost.
LEMMA WroteBack ==
    ASSUME Inv, NEW r \in Replicas, NEW t \in Threads, WriteBack(snap[r][t]), UNCHANGED used
    PROVE  /\ StoreMoves /\ store' \subseteq Changes /\ lost' \subseteq Changes
           /\ snap[r][t] \subseteq store' \union lost'
           /\ unlocked \/ (Snapping(r, t) => UNCHANGED <<store, lost>>)
<1>0. store \subseteq Changes /\ lost \subseteq Changes /\ snap[r][t] \subseteq Changes
      /\ snap[r][t] \subseteq store \union lost
  BY DEF Inv, TypeOK, UsedInv
<1>1. store' = snap[r][t] \union (store \ Updates) /\ lost' = lost \union (store \ store')
  BY DEF WriteBack, WriteStore
<1>2. StoreMoves /\ store' \subseteq Changes /\ lost' \subseteq Changes
  BY <1>0, <1>1 DEF StoreMoves, Same
<1>3. ASSUME ~ unlocked, Snapping(r, t) PROVE UNCHANGED <<store, lost>>
  <2>1. snap[r][t] = store
    BY <1>3 DEF Inv, LockInv, Exclusive
  <2>2. store' = store
    BY <1>1, <2>1
  <2>3. QED
    BY <1>1, <2>2
<1>4. QED
  BY <1>1, <1>2, <1>3

\* Whoever removes the auto-detected keys under the lock removes nothing that
\* was saved; what else is removed is lost.
LEMMA Pruned ==
    ASSUME Inv, NEW r \in Replicas, NEW t \in Threads, removeAutoDetectedKeys(r, t),
           UNCHANGED used
    PROVE  /\ StoreMoves /\ MemMoves(r)
           /\ store' \subseteq Changes /\ lost' \subseteq Changes
           /\ mem' \in [Replicas -> SUBSET Changes]
           /\ \A p \in Replicas : p # r => mem'[p] = mem[p]
           /\ unlocked \/ (Snapping(r, t) => UNCHANGED <<store, lost>>)
<1>0. store \subseteq Changes /\ lost \subseteq Changes /\ mem \in [Replicas -> SUBSET Changes]
  BY DEF Inv, TypeOK
<1>1. CASE snap[r][t] = {}
  <2>1. store' = {} /\ lost' = lost \union store /\ mem' = [mem EXCEPT ![r] = {}]
    BY <1>1 DEF removeAutoDetectedKeys, WriteStore
  <2>2. StoreMoves
    BY <2>1 DEF StoreMoves, Same
  <2>3. MemMoves(r)
    BY <1>0, <2>1 DEF MemMoves, Same
  <2>4. ASSUME ~ unlocked, Snapping(r, t) PROVE UNCHANGED <<store, lost>>
    <3>1. store = {}
      BY <1>1, <2>4 DEF Inv, LockInv, Exclusive
    <3>2. QED
      BY <2>1, <3>1
  <2>5. QED
    BY <1>0, <2>1, <2>2, <2>3, <2>4
<1>2. CASE snap[r][t] # {}
  <2>1. UNCHANGED <<store, lost, mem>>
    BY <1>2 DEF removeAutoDetectedKeys
  <2>2. QED
    BY <1>0, <2>1, StoreUnchanged, MemKept
<1>3. QED
  BY <1>1, <1>2

-----------------------------------------------------------------------------
(* Reload *)

LEMMA ReloadReturnsAtOnceKeepsInv ==
    ASSUME Inv, NEW r \in Replicas, NEW t \in Threads, ReloadSkips(r, t) \/ ReloadWaits(r, t)
    PROVE  Inv'
<1>0. TypeOK /\ pc[r][t] = "reload"
  BY DEF Inv, ReloadSkips, ReloadWaits
<1>1. PICK s : Returned(r, t, s)
  BY <1>0, ReloadReturned DEF ReloadSkips, ReloadWaits
<1>2. UNCHANGED <<store, revision, engine, mem, applied, configLock,
                  making, sure, used, faults, announcedAt, unlocked, lost>>
  BY DEF ReloadSkips, ReloadWaits
<1>3. pending' \in [Replicas -> 0 .. revision]
  <2>1. revision \in Nat /\ pending \in [Replicas -> 0 .. revision]
        /\ rev[r][t] \in 0 .. revision
    BY <1>0 DEF TypeOK
  <2>2. Greater(pending[r], rev[r][t]) \in 0 .. revision
    BY <2>1 DEF Greater
  <2>3. QED
    BY <2>1, <2>2 DEF ReloadSkips, ReloadWaits
<1>4. Turned(r, t, s)
  BY <1>1 DEF Returned
<1>5. TypeOK'
  BY <1>0, <1>1, <1>2, <1>3, <1>4, TypesKept DEF Returned, TypeOK
<1>6. Did(r, t, s)
  BY <1>2, <1>4 DEF Did, Turned
<1>7. /\ EngineAllows(engine[r], t, s) /\ LockMoves(r, t, s)
      /\ s \notin Configuring /\ s \notin {"pruning", "booting", "reloading", "announce"}
      /\ snap'[r][t] \subseteq store' \union lost'
  BY <1>0, <1>1, <1>2, ReturnMoves
<1>8. EngineInv'
  BY <1>2, <1>6, <1>7, EngineKept DEF Inv
<1>9. ConfigMoves(r, t, s)
  BY <1>2, <1>7 DEF ConfigMoves
<1>10. StoreMoves /\ AnnounceMoves /\ MemMoves(r)
  BY <1>2, StoreUnchanged, AnnouncedUnchanged, MemKept
<1>11. making'[r] \subseteq used'
  BY <1>2 DEF Inv, UsedInv
<1>12. Quiet(r, t, s)
  BY <1>2, <1>7, <1>10, QuietSteps
<1>13. QED
  BY <1>5, <1>6, <1>7, <1>8, <1>9, <1>10, <1>11, <1>12, QuietKeepsInv

LEMMA ReloadBootsKeepsInv ==
    ASSUME Inv, NEW r \in Replicas, NEW t \in Threads, ReloadBoots(r, t)
    PROVE  Inv'
<1>0. TypeOK /\ pc[r][t] = "reload" /\ engine[r] = "ready" /\ configLock[r] = Free
  BY DEF Inv, ReloadBoots
<1>1. UNCHANGED <<store, revision, lock, engine, mem, applied, pending, observed, rev,
                  making, sure, used, faults, announcedAt, unlocked, lost, missed>>
  BY DEF ReloadBoots, shared, history
<1>2. Turned(r, t, "reloading") /\ snap'[r][t] = store'
  <2>1. "reloading" \in Steps /\ 0 \in 0 .. revision /\ store \in SUBSET Changes
    BY <1>0 DEF TypeOK, Steps
  <2>2. pc' = [pc EXCEPT ![r][t] = "reloading"] /\ snap' = [snap EXCEPT ![r][t] = store]
    BY DEF ReloadBoots, Goto
  <2>3. QED
    BY <1>0, <1>1, <2>1, <2>2, TurnedByPut
<1>3. configLock' = [configLock EXCEPT ![r] = t]
  BY DEF ReloadBoots
<1>4. TypeOK'
  BY <1>0, <1>1, <1>2, <1>3, TypesKept DEF TypeOK
<1>5. Did(r, t, "reloading")
  BY <1>0, <1>1, <1>2, <1>3 DEF Did, Turned, TypeOK
<1>6. LockMoves(r, t, "reloading")
  BY <1>0, <1>1, <1>2 DEF LockMoves, Busy, Resting
<1>7. EngineAllows(engine[r], t, "reloading")
  <2>1. EngineAllows(engine[r], t, pc[r][t])
    BY DEF Inv, EngineInv
  <2>2. QED
    BY <1>0, <2>1 DEF EngineAllows
<1>8. EngineInv'
  BY <1>1, <1>5, <1>7, EngineKept DEF Inv
<1>9. ConfigMoves(r, t, "reloading")
  BY <1>0, <1>3 DEF ConfigMoves, TypeOK
<1>10. StoreMoves /\ AnnounceMoves /\ MemMoves(r)
  BY <1>1, StoreUnchanged, AnnouncedUnchanged, MemKept
<1>11. making'[r] \subseteq used' /\ snap'[r][t] \subseteq store' \union lost'
  BY <1>1, <1>2 DEF Inv, UsedInv
<1>12. Quiet(r, t, "reloading")
  BY <1>1, <1>2, <1>10, QuietSteps
<1>13. QED
  BY <1>4, <1>5, <1>6, <1>8, <1>9, <1>10, <1>11, <1>12, QuietKeepsInv

LEMMA ReloadFailsKeepsInv ==
    ASSUME Inv, NEW r \in Replicas, NEW t \in Threads, ReloadFails(r, t)
    PROVE  Inv'
<1>0. TypeOK /\ pc[r][t] = "reloading" /\ Fault
  BY DEF Inv, ReloadFails
<1>1. PICK s : Returned(r, t, s)
  BY <1>0, ReloadReturned DEF ReloadFails
<1>2. /\ UNCHANGED <<revision, engine, mem, applied, pending, making, sure,
                     used, announcedAt, unlocked>>
      /\ configLock' = [configLock EXCEPT ![r] = Free]
  BY DEF ReloadFails
<1>3. /\ StoreMoves /\ store' \subseteq Changes /\ lost' \subseteq Changes
      /\ unlocked \/ lost' = lost
  <2>1. Snapping(r, t)
    BY <1>0 DEF Snapping, Booted
  <2>2. CASE WriteBack(snap[r][t])
    BY <1>2, <2>1, <2>2, WroteBack
  <2>3. CASE UNCHANGED <<store, lost>>
    BY <1>0, <1>2, <2>3, StoreUnchanged DEF TypeOK
  <2>4. QED
    BY <2>2, <2>3 DEF ReloadFails
<1>4. Turned(r, t, s)
  BY <1>1 DEF Returned
<1>5. TypeOK'
  BY <1>0, <1>1, <1>2, <1>3, <1>4, TypesKept DEF Returned, TypeOK
<1>6. Did(r, t, s)
  BY <1>0, <1>2, <1>4 DEF Did, Turned, TypeOK
<1>7. /\ EngineAllows(engine[r], t, s) /\ LockMoves(r, t, s)
      /\ s \notin Configuring /\ s \notin {"pruning", "booting", "reloading", "announce"}
      /\ snap'[r][t] \subseteq store' \union lost'
  BY <1>0, <1>1, <1>2, <1>3, ReturnMoves
<1>8. EngineInv'
  BY <1>2, <1>6, <1>7, EngineKept DEF Inv
<1>9. ConfigMoves(r, t, s)
  <2>1. configLock[r] = t
    BY <1>0 DEF Inv, ConfigInv, Configuring
  <2>2. QED
    BY <1>7, <2>1 DEF ConfigMoves
<1>10. AnnounceMoves /\ MemMoves(r)
  BY <1>2, <1>3, AnnouncedUnchanged, MemKept
<1>11. making'[r] \subseteq used'
  BY <1>2 DEF Inv, UsedInv
<1>12. Quiet(r, t, s)
  BY <1>2, <1>7, <1>10, QuietSteps
<1>13. QED
  BY <1>3, <1>5, <1>6, <1>7, <1>8, <1>9, <1>10, <1>11, <1>12, QuietKeepsInv

\* While a reload or an announcement holds configLock, no other goroutine of
\* the replica is in the middle of one, nor is its engine booting.
LEMMA AloneInConfig ==
    ASSUME Inv, NEW r \in Replicas, NEW t \in Threads, pc[r][t] \in Configuring
    PROVE  \A u \in Threads : u # t => pc[r][u] \notin Configuring \union {"booting"}
<1>1. configLock[r] = t /\ \A u \in Threads : pc[r][u] \in Configuring => configLock[r] = u
  BY DEF Inv, ConfigInv
<1>2. engine[r] = "ready"
  BY DEF Inv, EngineInv, EngineAllows, Configuring
<1>3. \A u \in Threads : pc[r][u] # "booting"
  BY <1>2 DEF Inv, EngineInv, EngineAllows
<1>4. QED
  BY <1>1, <1>3

LEMMA ReloadSwapsKeepsInv ==
    ASSUME Inv, NEW r \in Replicas, NEW t \in Threads, ReloadSwaps(r, t)
    PROVE  Inv'
<1>0. TypeOK /\ pc[r][t] = "reloading" /\ WriteBack(snap[r][t])
  BY DEF Inv, ReloadSwaps
<1>1. UNCHANGED <<revision, lock, engine, applied, pending, observed, configLock, rev, snap,
                  making, sure, used, faults, announcedAt, unlocked, missed>>
  BY DEF ReloadSwaps
<1>2. Turned(r, t, "pruning")
  <2>1. "pruning" \in Steps /\ 0 \in 0 .. revision /\ {} \in SUBSET Changes
    BY <1>0 DEF TypeOK, Steps
  <2>2. pc' = [pc EXCEPT ![r][t] = "pruning"]
    BY DEF ReloadSwaps, Goto
  <2>3. QED
    BY <1>0, <1>1, <2>1, <2>2, TurnedByPut
<1>3. /\ StoreMoves /\ store' \subseteq Changes /\ lost' \subseteq Changes
      /\ snap[r][t] \subseteq store' \union lost'
      /\ unlocked \/ UNCHANGED <<store, lost>>
  BY <1>0, <1>1, WroteBack DEF Snapping, Booted
<1>4. mem' = [mem EXCEPT ![r] = snap[r][t]]
  BY DEF ReloadSwaps
<1>5. TypeOK'
  <2>1. mem' \in [Replicas -> SUBSET Changes]
    BY <1>0, <1>4 DEF TypeOK
  <2>2. QED
    BY <1>0, <1>1, <1>2, <1>3, <2>1, TypesKept DEF TypeOK
<1>6. Did(r, t, "pruning")
  BY <1>0, <1>1, <1>2, <1>4 DEF Did, Turned, TypeOK
<1>7. LockMoves(r, t, "pruning")
  <2>1. Busy(r, t) /\ Snapping(r, t)
    BY <1>0 DEF Busy, Resting, Snapping, Booted
  <2>2. unlocked \/ snap[r][t] = store
    BY <2>1 DEF Inv, LockInv, Exclusive
  <2>3. QED
    BY <1>1, <1>3, <2>1, <2>2 DEF LockMoves
<1>8. EngineInv'
  <2>1. EngineAllows(engine[r], t, pc[r][t])
    BY DEF Inv, EngineInv
  <2>2. EngineAllows(engine[r], t, "pruning")
    BY <1>0, <2>1 DEF EngineAllows
  <2>3. QED
    BY <1>1, <1>6, <2>2, EngineKept DEF Inv
<1>9. ConfigMoves(r, t, "pruning")
  BY <1>0, <1>1 DEF ConfigMoves, Configuring
<1>10. AnnounceMoves
  BY <1>1, AnnouncedUnchanged
<1>11. making'[r] \subseteq used' /\ snap'[r][t] \subseteq store' \union lost'
  BY <1>1, <1>3 DEF Inv, UsedInv
<1>12. LoadedAt(r)'
  <2>1. \A u \in Threads : u # t => pc'[r][u] \notin Configuring \union {"booting"}
    BY <1>0, <1>2, AloneInConfig DEF Configuring, Turned
  <2>2. ASSUME NEW c \in Changes, c \notin lost', announcedAt'[c] # 0,
               announcedAt'[c] <= rev'[r][t] \/ announcedAt'[c] <= applied'[r]
        PROVE  Same(mem'[r], store', c)
    <3>1. Upto(c, rev[r][t]) \/ Upto(c, applied[r])
      BY <1>1, <2>2 DEF Upto
    <3>2. c \in used /\ c \notin lost /\ Same(store', store, c)
      BY <1>1, <1>3, <2>2 DEF Inv, UsedInv, StoreMoves
    <3>3. Same(snap[r][t], store, c)
      BY <1>0, <3>1, <3>2 DEF Inv, LoadInv, LoadedAt, Reading
    <3>4. mem'[r] = snap[r][t]
      BY <1>0, <1>4 DEF TypeOK
    <3>5. QED
      BY <3>2, <3>3, <3>4 DEF Same
  <2>3. pc'[r][t] = "pruning"
    BY <1>2 DEF Turned
  <2>4. Serves(r)' /\ Swapped(r, t)'
    BY <2>2 DEF Serves, Swapped, Upto
  <2>5. Reading(r, t)' /\ Sure(r, t)'
    BY <2>3 DEF Reading, Sure
  <2>6. ASSUME NEW u \in Threads, u # t PROVE Reading(r, u)' /\ Swapped(r, u)' /\ Sure(r, u)'
    BY <2>1, <2>6 DEF Reading, Swapped, Sure, Configuring
  <2>7. QED
    BY <2>4, <2>5, <2>6 DEF LoadedAt
<1>13. QED
  BY <1>3, <1>5, <1>6, <1>7, <1>8, <1>9, <1>10, <1>11, <1>12, StepKeepsInv

LEMMA ReloadEndsKeepsInv ==
    ASSUME Inv, NEW r \in Replicas, NEW t \in Threads, ReloadEnds(r, t)
    PROVE  Inv'
<1>0. TypeOK /\ pc[r][t] = "pruning" /\ removeAutoDetectedKeys(r, t)
  BY DEF Inv, ReloadEnds
<1>1. PICK s : Returned(r, t, s)
  BY <1>0, ReloadReturned DEF ReloadEnds
<1>2. /\ UNCHANGED <<revision, engine, pending, making, sure, used, faults,
                     announcedAt, unlocked>>
      /\ configLock' = [configLock EXCEPT ![r] = Free]
      /\ applied' = [applied EXCEPT ![r] = Greater(@, rev[r][t])]
  BY DEF ReloadEnds
<1>3. /\ StoreMoves /\ MemMoves(r) /\ store' \subseteq Changes /\ lost' \subseteq Changes
      /\ mem' \in [Replicas -> SUBSET Changes]
      /\ \A p \in Replicas : p # r => mem'[p] = mem[p]
      /\ unlocked \/ UNCHANGED <<store, lost>>
  BY <1>0, <1>2, Pruned DEF Snapping, Booted
<1>4. Turned(r, t, s)
  BY <1>1 DEF Returned
<1>5. /\ applied' \in [Replicas -> 0 .. revision]
      /\ applied'[r] = applied[r] \/ applied'[r] = rev[r][t]
      /\ \A p \in Replicas : p # r => applied'[p] = applied[p]
  <2>1. revision \in Nat /\ applied \in [Replicas -> 0 .. revision]
        /\ rev[r][t] \in 0 .. revision
    BY <1>0 DEF TypeOK
  <2>2. Greater(applied[r], rev[r][t]) \in {applied[r], rev[r][t]}
    BY DEF Greater
  <2>3. QED
    BY <1>2, <2>1, <2>2
<1>6. TypeOK'
  BY <1>0, <1>1, <1>2, <1>3, <1>4, <1>5, TypesKept DEF Returned, TypeOK
<1>7. Did(r, t, s)
  BY <1>0, <1>2, <1>3, <1>4, <1>5 DEF Did, Turned, TypeOK
<1>8. /\ EngineAllows(engine[r], t, s) /\ LockMoves(r, t, s)
      /\ s \notin Configuring /\ s \notin {"pruning", "booting", "reloading", "announce"}
      /\ snap'[r][t] \subseteq store' \union lost'
  BY <1>0, <1>1, <1>2, <1>3, ReturnMoves
<1>9. EngineInv'
  BY <1>2, <1>7, <1>8, EngineKept DEF Inv
<1>10. ConfigMoves(r, t, s)
  <2>1. configLock[r] = t
    BY <1>0 DEF Inv, ConfigInv, Configuring
  <2>2. QED
    BY <1>8, <2>1 DEF ConfigMoves
<1>11. AnnounceMoves /\ making'[r] \subseteq used'
  BY <1>2, AnnouncedUnchanged DEF Inv, UsedInv
<1>12. LoadedAt(r)'
  <2>1. \A u \in Threads : pc'[r][u] \notin Configuring \union {"booting"}
    BY <1>0, <1>4, <1>8, AloneInConfig DEF Configuring, Turned
  <2>2. Serves(r)'
    <3>1. SUFFICES ASSUME NEW c \in Changes, c \notin lost', announcedAt'[c] # 0,
                          announcedAt'[c] <= applied'[r]
                   PROVE  Same(mem'[r], store', c)
      BY DEF Serves, Upto
    <3>2. Upto(c, rev[r][t]) \/ Upto(c, applied[r])
      BY <1>2, <1>5, <3>1 DEF Upto
    <3>3. c \in used /\ c \notin lost
      BY <1>2, <1>3, <3>1 DEF Inv, UsedInv, StoreMoves
    <3>4. Same(mem[r], store, c)
      BY <1>0, <3>2, <3>3 DEF Inv, LoadInv, LoadedAt, Swapped
    <3>5. QED
      BY <1>3, <3>1, <3>3, <3>4 DEF MemMoves
  <2>3. QED
    BY <2>1, <2>2 DEF LoadedAt, Reading, Swapped, Sure, Configuring
<1>13. QED
  BY <1>3, <1>6, <1>7, <1>8, <1>9, <1>10, <1>11, <1>12, StepKeepsInv

LEMMA ReloadKeepsInv ==
    ASSUME Inv, NEW r \in Replicas, NEW t \in Threads, Reload(r, t)
    PROVE  Inv'
BY ReloadReturnsAtOnceKeepsInv, ReloadBootsKeepsInv, ReloadSwapsKeepsInv, ReloadEndsKeepsInv,
   ReloadFailsKeepsInv DEF Reload
-----------------------------------------------------------------------------
(* Start *)

LEMMA LaunchKeepsInv ==
    ASSUME Inv, NEW r \in Replicas, Launch(r)
    PROVE  Inv'
<1>0. TypeOK /\ engine[r] = "down" /\ "start" \in Threads
  BY DEF Inv, Launch, Threads
<1>1. UNCHANGED <<store, revision, lock, mem, applied, pending, observed, configLock, rev,
                  snap, making, sure, used, faults, announcedAt, unlocked, lost, missed>>
  BY DEF Launch, shared, history
<1>2. engine' = [engine EXCEPT ![r] = "starting"]
  BY DEF Launch
<1>3. Turned(r, "start", "lock")
  <2>1. "lock" \in Steps /\ 0 \in 0 .. revision /\ {} \in SUBSET Changes
    BY <1>0 DEF TypeOK, Steps
  <2>2. pc' = [pc EXCEPT ![r]["start"] = "lock"]
    BY DEF Launch, Goto
  <2>3. QED
    BY <1>0, <1>1, <2>1, <2>2, TurnedByPut
<1>4. TypeOK'
  BY <1>0, <1>1, <1>2, <1>3, TypesKept DEF TypeOK
<1>5. Did(r, "start", "lock")
  BY <1>0, <1>1, <1>2, <1>3 DEF Did, Turned, TypeOK
<1>6. LockMoves(r, "start", "lock")
  BY <1>1 DEF LockMoves, Resting, Booted
<1>7. EngineInv'
  <2>1. engine'[r] = "starting" /\ \A p \in Replicas : p # r => engine'[p] = engine[p]
    BY <1>0, <1>2 DEF TypeOK
  <2>2. \A u \in Threads : pc[r][u] = "idle"
    BY <1>0 DEF Inv, EngineInv, EngineAllows
  <2>3. EngineAllows("starting", "start", "lock")
        /\ \A u \in Threads : EngineAllows("starting", u, "idle")
    BY DEF EngineAllows, Changers
  <2>4. QED
    BY <1>5, <2>1, <2>2, <2>3 DEF Inv, EngineInv, Did
<1>8. ConfigMoves(r, "start", "lock")
  BY <1>1 DEF ConfigMoves, Configuring
<1>9. StoreMoves /\ AnnounceMoves /\ MemMoves(r)
  BY <1>1, StoreUnchanged, AnnouncedUnchanged, MemKept
<1>10. making'[r] \subseteq used' /\ snap'[r]["start"] \subseteq store' \union lost'
  BY <1>0, <1>1 DEF Inv, UsedInv
<1>11. Quiet(r, "start", "lock")
  BY <1>0, <1>1, <1>2, <1>9, QuietSteps DEF TypeOK
<1>12. QED
  BY <1>0, <1>4, <1>5, <1>6, <1>7, <1>8, <1>9, <1>10, <1>11, QuietKeepsInv

\* A goroutine that begins, with the lock or, in StartUnlocked, without it.
LEMMA BeginKeepsInv ==
    ASSUME Inv, NEW r \in Replicas, NEW t \in Threads, NEW s \in {"boot", "reload"},
           pc[r][t] \in {"idle", "lock"}, EngineAllows(engine[r], t, s),
           pc' = [pc EXCEPT ![r][t] = s],
           NEW n \in 0 .. revision, rev' = [rev EXCEPT ![r][t] = n] \/ rev' = rev,
           \/ lock = Nobody /\ lock' = <<r, t>> /\ UNCHANGED unlocked
           \/ unlocked' = TRUE /\ UNCHANGED lock,
           Fault \/ UNCHANGED faults,
           UNCHANGED <<store, revision, local, snap, making, sure, used, announcedAt, lost, missed>>
    PROVE  Inv'
<1>0. TypeOK
  BY DEF Inv
<1>1. UNCHANGED <<engine, mem, applied, pending, observed, configLock>>
  BY DEF local
<1>2. Turned(r, t, s)
  <2>1. s \in Steps /\ {} \in SUBSET Changes
    BY DEF Steps
  <2>2. QED
    BY <1>0, <2>1, TurnedByPut
<1>3. TypeOK'
  <2>1. lock' \in {Nobody} \union (Replicas \X Threads)
    BY <1>0 DEF TypeOK
  <2>2. unlocked \in BOOLEAN /\ (unlocked' = unlocked \/ unlocked' = TRUE)
    BY <1>0 DEF TypeOK
  <2>3. unlocked' \in BOOLEAN
    BY <2>2, Zenon
  <2>4. QED
    BY <1>0, <1>1, <1>2, <2>1, <2>3, TypesKept DEF TypeOK
<1>4. Did(r, t, s)
  BY <1>1, <1>2 DEF Did, Turned
<1>5. LockMoves(r, t, s)
  BY DEF LockMoves, Booted
<1>6. EngineInv'
  BY <1>1, <1>4, EngineKept DEF Inv
<1>7. ConfigMoves(r, t, s)
  BY <1>1 DEF ConfigMoves, Configuring
<1>8. StoreMoves /\ AnnounceMoves /\ MemMoves(r)
  BY <1>1, StoreUnchanged, AnnouncedUnchanged, MemKept
<1>9. making'[r] \subseteq used' /\ snap'[r][t] \subseteq store' \union lost'
  BY DEF Inv, UsedInv
<1>10. Quiet(r, t, s)
  BY <1>1, <1>8, QuietSteps
<1>11. QED
  BY <1>3, <1>4, <1>5, <1>6, <1>7, <1>8, <1>9, <1>10, QuietKeepsInv

LEMMA StartBeginsKeepsInv ==
    ASSUME Inv, NEW r \in Replicas, StartLocked(r) \/ StartUnlocked(r)
    PROVE  Inv'
<1>0. "start" \in Threads /\ pc[r]["start"] = "lock" /\ revision \in Nat
  BY DEF Inv, TypeOK, StartLocked, StartUnlocked, Threads
<1>1. EngineAllows(engine[r], "start", "boot")
  BY <1>0 DEF Inv, EngineInv, EngineAllows, Changers
<1>2. /\ pc' = [pc EXCEPT ![r]["start"] = "boot"]
      /\ rev' = [rev EXCEPT ![r]["start"] = revision] \/ rev' = rev
      /\ Fault \/ UNCHANGED faults
      /\ UNCHANGED <<store, revision, local, snap, making, sure, used, announcedAt, lost, missed>>
  BY DEF StartLocked, StartReads, StartUnlocked, Goto, shared, history
<1>3. \/ lock = Nobody /\ lock' = <<r, "start">> /\ UNCHANGED unlocked
      \/ unlocked' = TRUE /\ UNCHANGED lock
  BY DEF StartLocked, StartUnlocked, shared, history
<1>4. revision \in 0 .. revision
  BY <1>0
<1>5. QED
  BY <1>0, <1>1, <1>2, <1>3, <1>4, BeginKeepsInv

LEMMA SyncLockedKeepsInv ==
    ASSUME Inv, NEW r \in Replicas, SyncLocked(r)
    PROVE  Inv'
<1>0. "sync" \in Threads /\ pc[r]["sync"] = "idle" /\ engine[r] # "down" /\ revision \in Nat
      /\ observed[r] \in 0 .. revision
  BY DEF Inv, TypeOK, SyncLocked, SyncSees, Threads
<1>1. EngineAllows(engine[r], "sync", "reload")
  BY <1>0 DEF EngineAllows, Changers
<1>2. PICK v \in observed[r] + 1 .. revision : rev' = [rev EXCEPT ![r]["sync"] = v]
  BY DEF SyncLocked, SyncSees
<1>3. v \in 0 .. revision
  BY <1>0, <1>2
<1>4. /\ pc' = [pc EXCEPT ![r]["sync"] = "reload"]
      /\ lock = Nobody /\ lock' = <<r, "sync">> /\ UNCHANGED <<unlocked, faults>>
      /\ UNCHANGED <<store, revision, local, snap, making, sure, used, announcedAt, lost, missed>>
  BY DEF SyncLocked, SyncSees, Goto, history
<1>5. QED
  BY <1>0, <1>1, <1>2, <1>3, <1>4, BeginKeepsInv

LEMMA ChangeLockedKeepsInv ==
    ASSUME Inv, NEW r \in Replicas, NEW t \in Changers, ChangeLocked(r, t)
    PROVE  Inv'
<1>0. t \in Threads /\ pc[r][t] = "idle" /\ engine[r] = "ready" /\ revision \in Nat
  BY DEF Inv, TypeOK, ChangeLocked, Threads
<1>1. EngineAllows(engine[r], t, "reload")
  BY <1>0 DEF EngineAllows
<1>2. /\ pc' = [pc EXCEPT ![r][t] = "reload"] /\ rev' = [rev EXCEPT ![r][t] = revision]
      /\ lock = Nobody /\ lock' = <<r, t>> /\ UNCHANGED <<unlocked, faults>>
      /\ UNCHANGED <<store, revision, local, snap, making, sure, used, announcedAt, lost, missed>>
  BY DEF ChangeLocked, Goto, history
<1>3. revision \in 0 .. revision
  BY <1>0
<1>4. QED
  BY <1>0, <1>1, <1>2, <1>3, BeginKeepsInv

LEMMA StartBootsKeepsInv ==
    ASSUME Inv, NEW r \in Replicas, StartBoots(r)
    PROVE  Inv'
<1>0. TypeOK /\ "start" \in Threads /\ pc[r]["start"] = "boot"
  BY DEF Inv, StartBoots, Threads
<1>1. UNCHANGED <<store, revision, lock, engine, mem, applied, pending, observed, configLock, rev,
                  making, sure, used, faults, announcedAt, unlocked, lost, missed>>
  BY DEF StartBoots, shared, local, history
<1>2. Turned(r, "start", "booting") /\ snap'[r]["start"] = store'
  <2>1. "booting" \in Steps /\ 0 \in 0 .. revision /\ store \in SUBSET Changes
    BY <1>0 DEF TypeOK, Steps
  <2>2. pc' = [pc EXCEPT ![r]["start"] = "booting"] /\ snap' = [snap EXCEPT ![r]["start"] = store]
    BY DEF StartBoots, Goto
  <2>3. QED
    BY <1>0, <1>1, <2>1, <2>2, TurnedByPut
<1>3. TypeOK'
  BY <1>0, <1>1, <1>2, TypesKept DEF TypeOK
<1>4. Did(r, "start", "booting")
  BY <1>1, <1>2 DEF Did, Turned
<1>5. LockMoves(r, "start", "booting")
  BY <1>0, <1>1, <1>2 DEF LockMoves, Busy, Resting
<1>6. EngineInv'
  <2>1. EngineAllows(engine[r], "start", "booting")
    BY <1>0 DEF Inv, EngineInv, EngineAllows, Changers
  <2>2. QED
    BY <1>0, <1>1, <1>4, <2>1, EngineKept DEF Inv
<1>7. ConfigMoves(r, "start", "booting")
  BY <1>1 DEF ConfigMoves, Configuring
<1>8. StoreMoves /\ AnnounceMoves /\ MemMoves(r)
  BY <1>1, StoreUnchanged, AnnouncedUnchanged, MemKept
<1>9. making'[r] \subseteq used' /\ snap'[r]["start"] \subseteq store' \union lost'
  BY <1>1, <1>2 DEF Inv, UsedInv
<1>10. Quiet(r, "start", "booting")
  BY <1>0, <1>1, <1>2, <1>8, QuietSteps
<1>11. QED
  BY <1>0, <1>3, <1>4, <1>5, <1>6, <1>7, <1>8, <1>9, <1>10, QuietKeepsInv

\* While the engine boots, the other goroutines of its process wait.
LEMMA AloneInBoot ==
    ASSUME Inv, NEW r \in Replicas, pc[r]["start"] = "booting"
    PROVE  /\ engine[r] = "starting"
           /\ \A u \in Threads : u # "start" => pc[r][u] \notin Configuring \union {"booting"}
           /\ \A u \in Threads : u # "start" =>
                 \A e \in {"ready", "failed"} : EngineAllows(e, u, pc[r][u])
<1>1. engine[r] = "starting"
  BY DEF Inv, EngineInv, EngineAllows, Threads
<1>2. \A u \in Threads : EngineAllows("starting", u, pc[r][u])
  BY <1>1 DEF Inv, EngineInv
<1>3. QED
  BY <1>1, <1>2 DEF EngineAllows, Configuring, Threads

LEMMA StartReadyKeepsInv ==
    ASSUME Inv, NEW r \in Replicas, StartReady(r)
    PROVE  Inv'
<1>0. TypeOK /\ "start" \in Threads /\ pc[r]["start"] = "booting"
      /\ WriteBack(snap[r]["start"])
  BY DEF Inv, StartReady, Threads
<1>1. /\ UNCHANGED <<revision, lock, pending, observed, configLock, snap, making,
                     sure, used, faults, announcedAt, unlocked, missed>>
      /\ engine' = [engine EXCEPT ![r] = "ready"]
      /\ mem' = [mem EXCEPT ![r] = snap[r]["start"]]
      /\ applied' = [applied EXCEPT ![r] = Greater(@, rev[r]["start"])]
  BY DEF StartReady
<1>2. Turned(r, "start", "prune")
  <2>1. "prune" \in Steps /\ pending[r] \in 0 .. revision /\ {} \in SUBSET Changes
    BY <1>0 DEF TypeOK, Steps
  <2>2. pc' = [pc EXCEPT ![r]["start"] = "prune"] /\ rev' = [rev EXCEPT ![r]["start"] = pending[r]]
    BY DEF StartReady, Goto
  <2>3. QED
    BY <1>0, <1>1, <2>1, <2>2, TurnedByPut
<1>3. /\ StoreMoves /\ store' \subseteq Changes /\ lost' \subseteq Changes
      /\ snap[r]["start"] \subseteq store' \union lost'
      /\ unlocked \/ UNCHANGED <<store, lost>>
  BY <1>0, <1>1, WroteBack DEF Snapping, Booted
<1>4. /\ applied' \in [Replicas -> 0 .. revision]
      /\ applied'[r] = applied[r] \/ applied'[r] = rev[r]["start"]
      /\ \A p \in Replicas : p # r => applied'[p] = applied[p]
  <2>1. revision \in Nat /\ applied \in [Replicas -> 0 .. revision]
        /\ rev[r]["start"] \in 0 .. revision
    BY <1>0 DEF TypeOK
  <2>2. Greater(applied[r], rev[r]["start"]) \in {applied[r], rev[r]["start"]}
    BY DEF Greater
  <2>3. QED
    BY <1>1, <2>1, <2>2
<1>5. /\ engine' \in [Replicas -> {"down", "starting", "ready", "failed"}]
      /\ mem' \in [Replicas -> SUBSET Changes]
      /\ engine'[r] = "ready" /\ mem'[r] = snap[r]["start"]
      /\ \A p \in Replicas : p # r => engine'[p] = engine[p] /\ mem'[p] = mem[p]
  BY <1>0, <1>1 DEF TypeOK
<1>6. TypeOK'
  BY <1>0, <1>1, <1>2, <1>3, <1>4, <1>5, TypesKept DEF TypeOK
<1>7. Did(r, "start", "prune")
  BY <1>1, <1>2, <1>4, <1>5 DEF Did, Turned
<1>8. LockMoves(r, "start", "prune")
  <2>1. Busy(r, "start") /\ Snapping(r, "start")
    BY <1>0 DEF Busy, Resting, Snapping, Booted
  <2>2. unlocked \/ snap[r]["start"] = store
    BY <1>0, <2>1 DEF Inv, LockInv, Exclusive
  <2>3. QED
    BY <1>1, <1>3, <2>1, <2>2 DEF LockMoves
<1>9. EngineInv'
  <2>1. EngineAllows("ready", "start", "prune")
    BY DEF EngineAllows, Changers
  <2>2. \A u \in Threads : u # "start" => EngineAllows("ready", u, pc[r][u])
    BY <1>0, AloneInBoot
  <2>3. QED
    BY <1>5, <1>7, <2>1, <2>2 DEF Inv, EngineInv, Did
<1>10. ConfigMoves(r, "start", "prune")
  BY <1>1 DEF ConfigMoves, Configuring
<1>11. AnnounceMoves
  BY <1>1, AnnouncedUnchanged
<1>12. making'[r] \subseteq used' /\ snap'[r]["start"] \subseteq store' \union lost'
  BY <1>1, <1>3 DEF Inv, UsedInv
<1>13. LoadedAt(r)'
  <2>1. \A u \in Threads : pc'[r][u] \notin Configuring \union {"booting"}
    BY <1>0, <1>2, AloneInBoot DEF Configuring, Turned
  <2>2. Serves(r)'
    <3>1. SUFFICES ASSUME NEW c \in Changes, c \notin lost', announcedAt'[c] # 0,
                          announcedAt'[c] <= applied'[r]
                   PROVE  Same(mem'[r], store', c)
      BY DEF Serves, Upto
    <3>2. Upto(c, rev[r]["start"]) \/ Upto(c, applied[r])
      BY <1>1, <1>4, <3>1 DEF Upto
    <3>3. c \in used /\ c \notin lost /\ Same(store', store, c)
      BY <1>1, <1>3, <3>1 DEF Inv, UsedInv, StoreMoves
    <3>4. Same(snap[r]["start"], store, c)
      BY <1>0, <3>2, <3>3 DEF Inv, LoadInv, LoadedAt, Reading
    <3>5. QED
      BY <1>5, <3>3, <3>4 DEF Same
  <2>3. QED
    BY <2>1, <2>2 DEF LoadedAt, Reading, Swapped, Sure, Configuring
<1>14. QED
  BY <1>0, <1>3, <1>6, <1>7, <1>8, <1>9, <1>10, <1>11, <1>12, <1>13, StepKeepsInv

LEMMA StartFailsKeepsInv ==
    ASSUME Inv, NEW r \in Replicas, StartFails(r)
    PROVE  Inv'
<1>0. TypeOK /\ "start" \in Threads /\ pc[r]["start"] = "booting" /\ Fault
  BY DEF Inv, StartFails, Threads
<1>1. /\ UNCHANGED <<revision, mem, applied, pending, observed, configLock,
                     making, sure, used, announcedAt, unlocked, missed>>
      /\ engine' = [engine EXCEPT ![r] = "failed"]
      /\ pc' = [pc EXCEPT ![r]["start"] = "done"] /\ Unlock(r, "start")
      /\ rev' = [rev EXCEPT ![r]["start"] = 0] /\ snap' = [snap EXCEPT ![r]["start"] = {}]
  BY DEF StartFails, End, Goto, Finished
<1>2. Turned(r, "start", "done") /\ snap'[r]["start"] = {}
  <2>1. "done" \in Steps /\ 0 \in 0 .. revision /\ {} \in SUBSET Changes
    BY <1>0 DEF TypeOK, Steps
  <2>2. QED
    BY <1>0, <1>1, <2>1, TurnedByPut
<1>3. /\ StoreMoves /\ store' \subseteq Changes /\ lost' \subseteq Changes
      /\ unlocked \/ lost' = lost
  <2>1. Snapping(r, "start")
    BY <1>0 DEF Snapping, Booted
  <2>2. CASE WriteBack(snap[r]["start"])
    BY <1>0, <1>1, <2>1, <2>2, WroteBack
  <2>3. CASE UNCHANGED <<store, lost>>
    BY <1>0, <1>1, <2>3, StoreUnchanged DEF TypeOK
  <2>4. QED
    BY <2>2, <2>3 DEF StartFails
<1>4. /\ engine' \in [Replicas -> {"down", "starting", "ready", "failed"}]
      /\ engine'[r] = "failed" /\ \A p \in Replicas : p # r => engine'[p] = engine[p]
      /\ lock' \in {Nobody} \union (Replicas \X Threads)
  BY <1>0, <1>1, UnlockTyped DEF TypeOK
<1>5. TypeOK'
  BY <1>0, <1>1, <1>2, <1>3, <1>4, TypesKept DEF TypeOK
<1>6. Did(r, "start", "done")
  BY <1>1, <1>2, <1>4 DEF Did, Turned
<1>7. LockMoves(r, "start", "done")
  BY <1>0, <1>1, <1>3 DEF LockMoves, Busy, Resting, Booted
<1>8. EngineInv'
  <2>1. EngineAllows("failed", "start", "done")
    BY DEF EngineAllows, Changers
  <2>2. \A u \in Threads : u # "start" => EngineAllows("failed", u, pc[r][u])
    BY <1>0, AloneInBoot
  <2>3. QED
    BY <1>4, <1>6, <2>1, <2>2 DEF Inv, EngineInv, Did
<1>9. ConfigMoves(r, "start", "done")
  BY <1>1 DEF ConfigMoves, Configuring
<1>10. AnnounceMoves /\ MemMoves(r)
  BY <1>1, <1>3, AnnouncedUnchanged, MemKept
<1>11. making'[r] \subseteq used' /\ snap'[r]["start"] \subseteq store' \union lost'
  BY <1>1, <1>2 DEF Inv, UsedInv
<1>12. Quiet(r, "start", "done")
  BY <1>0, <1>1, <1>4, <1>10, QuietSteps
<1>13. QED
  BY <1>0, <1>3, <1>5, <1>6, <1>7, <1>8, <1>9, <1>10, <1>11, <1>12, QuietKeepsInv

LEMMA StartPrunesKeepsInv ==
    ASSUME Inv, NEW r \in Replicas, StartPrunes(r)
    PROVE  Inv'
<1>0. TypeOK /\ "start" \in Threads /\ pc[r]["start"] = "prune"
      /\ removeAutoDetectedKeys(r, "start")
  BY DEF Inv, StartPrunes, Threads
<1>1. /\ UNCHANGED <<revision, engine, applied, pending, observed, configLock, rev, making,
                     sure, used, faults, announcedAt, unlocked, missed>>
      /\ snap' = [snap EXCEPT ![r]["start"] = {}]
  BY DEF StartPrunes
<1>2. PICK s : /\ s \in {"reload", "done"} /\ pc' = [pc EXCEPT ![r]["start"] = s]
               /\ (s = "reload" /\ UNCHANGED lock) \/ (s = "done" /\ Unlock(r, "start"))
  BY DEF StartPrunes, End, Goto, Finished
<1>3. Turned(r, "start", s) /\ snap'[r]["start"] = {}
  <2>1. s \in Steps /\ 0 \in 0 .. revision /\ {} \in SUBSET Changes
    BY <1>0, <1>2 DEF TypeOK, Steps
  <2>2. QED
    BY <1>0, <1>1, <1>2, <2>1, TurnedByPut
<1>4. /\ StoreMoves /\ MemMoves(r) /\ store' \subseteq Changes /\ lost' \subseteq Changes
      /\ mem' \in [Replicas -> SUBSET Changes]
      /\ \A p \in Replicas : p # r => mem'[p] = mem[p]
      /\ unlocked \/ UNCHANGED <<store, lost>>
  BY <1>0, <1>1, Pruned DEF Snapping, Booted
<1>5. lock' \in {Nobody} \union (Replicas \X Threads)
  BY <1>0, <1>2, UnlockTyped DEF TypeOK
<1>6. TypeOK'
  BY <1>0, <1>1, <1>3, <1>4, <1>5, TypesKept DEF TypeOK
<1>7. Did(r, "start", s)
  BY <1>1, <1>3, <1>4 DEF Did, Turned
<1>8. LockMoves(r, "start", s)
  BY <1>0, <1>1, <1>2, <1>4 DEF LockMoves, Busy, Resting, Booted
<1>9. EngineInv'
  <2>1. EngineAllows(engine[r], "start", s)
    BY <1>0, <1>2 DEF Inv, EngineInv, EngineAllows, Changers
  <2>2. QED
    BY <1>0, <1>1, <1>7, <2>1, EngineKept DEF Inv
<1>10. ConfigMoves(r, "start", s)
  BY <1>1, <1>2 DEF ConfigMoves, Configuring
<1>11. AnnounceMoves
  BY <1>1, AnnouncedUnchanged
<1>12. making'[r] \subseteq used' /\ snap'[r]["start"] \subseteq store' \union lost'
  BY <1>1, <1>3 DEF Inv, UsedInv
<1>13. Quiet(r, "start", s)
  BY <1>0, <1>1, <1>2, <1>4, QuietSteps
<1>14. QED
  BY <1>0, <1>4, <1>6, <1>7, <1>8, <1>9, <1>10, <1>11, <1>12, <1>13, QuietKeepsInv

LEMMA StartKeepsInv ==
    ASSUME Inv, NEW r \in Replicas, Start(r)
    PROVE  Inv'
<1>1. "start" \in Threads
  BY DEF Threads
<1>2. QED
  BY <1>1, StartBeginsKeepsInv, StartBootsKeepsInv, StartReadyKeepsInv, StartFailsKeepsInv,
     StartPrunesKeepsInv, ReloadKeepsInv DEF Start
-----------------------------------------------------------------------------
(* Change *)

LEMMA TasksGiveUpKeepsInv ==
    ASSUME Inv, NEW r \in Replicas, TasksGiveUp(r)
    PROVE  Inv'
<1>0. TypeOK /\ "tasks" \in Threads /\ engine[r] = "ready" /\ Fault
  BY DEF Inv, TasksGiveUp, Threads, Changers
<1>1. UNCHANGED <<store, revision, lock, engine, mem, applied, pending, observed, configLock, rev,
                  snap, making, sure, used, announcedAt, unlocked, lost, missed>>
  BY DEF TasksGiveUp, shared, local, history
<1>2. Turned(r, "tasks", "done")
  <2>1. "done" \in Steps /\ 0 \in 0 .. revision /\ {} \in SUBSET Changes
    BY <1>0 DEF TypeOK, Steps
  <2>2. pc' = [pc EXCEPT ![r]["tasks"] = "done"]
    BY DEF TasksGiveUp, Goto
  <2>3. QED
    BY <1>0, <1>1, <2>1, <2>2, TurnedByPut
<1>3. TypeOK'
  BY <1>0, <1>1, <1>2, TypesKept DEF TypeOK
<1>4. Did(r, "tasks", "done")
  BY <1>1, <1>2 DEF Did, Turned
<1>5. LockMoves(r, "tasks", "done")
  BY <1>1 DEF LockMoves, Resting, Booted
<1>6. EngineInv'
  <2>1. EngineAllows(engine[r], "tasks", "done")
    BY <1>0 DEF EngineAllows
  <2>2. QED
    BY <1>0, <1>1, <1>4, <2>1, EngineKept DEF Inv
<1>7. ConfigMoves(r, "tasks", "done")
  BY <1>1 DEF ConfigMoves, Configuring
<1>8. StoreMoves /\ AnnounceMoves /\ MemMoves(r)
  BY <1>1, StoreUnchanged, AnnouncedUnchanged, MemKept
<1>9. making'[r] \subseteq used' /\ snap'[r]["tasks"] \subseteq store' \union lost'
  BY <1>0, <1>1 DEF Inv, UsedInv
<1>10. Quiet(r, "tasks", "done")
  BY <1>0, <1>1, <1>8, QuietSteps
<1>11. QED
  BY <1>0, <1>3, <1>4, <1>5, <1>6, <1>7, <1>8, <1>9, <1>10, QuietKeepsInv

\* change() made the fresh changes S in the stores and M in memory; those of
\* ids are announced, and surely applied only if both have them.
LEMMA MakeKeepsInv ==
    ASSUME Inv, NEW r \in Replicas, NEW t \in Changers,
           pc[r][t] = "change", configLock[r] = Free,
           NEW N \in SUBSET (Changes \ used), used' = used \union N,
           NEW S \in SUBSET N, NEW M \in SUBSET N, NEW ids \in SUBSET N, NEW b \in BOOLEAN,
           b => ids \subseteq S \intersect M,
           Make(r, t, S, M, ids, b),
           UNCHANGED <<revision, engine, applied, pending, observed, rev, snap, faults, history>>
    PROVE  Inv'
<1>0. TypeOK /\ t \in Threads
  BY DEF Inv, Threads
<1>1. /\ store' = store \union S /\ mem' = [mem EXCEPT ![r] = @ \union M]
      /\ UNCHANGED <<announcedAt, unlocked, lost, missed>>
  BY DEF Make, history
<1>2. PICK s :
        /\ pc' = [pc EXCEPT ![r][t] = s]
        /\ \/ /\ s \in {"done", "idle"} /\ Unlock(r, t)
              /\ UNCHANGED <<configLock, making, sure>>
           \/ /\ s = "announce" /\ UNCHANGED lock
              /\ configLock' = [configLock EXCEPT ![r] = t]
              /\ making' = [making EXCEPT ![r] = ids]
              /\ sure' = [sure EXCEPT ![r] = b]
  BY DEF Make, End, Goto, Finished
<1>3. Turned(r, t, s)
  <2>1. s \in Steps /\ 0 \in 0 .. revision /\ {} \in SUBSET Changes
    BY <1>0, <1>2 DEF TypeOK, Steps
  <2>2. QED
    BY <1>0, <1>2, <2>1, TurnedByPut
<1>4. lock' \in {Nobody} \union (Replicas \X Threads)
  BY <1>0, <1>2, UnlockTyped DEF TypeOK
<1>5. /\ mem' \in [Replicas -> SUBSET Changes] /\ mem'[r] = mem[r] \union M
      /\ \A p \in Replicas : p # r => mem'[p] = mem[p]
      /\ store' \subseteq Changes /\ used' \subseteq Changes
  BY <1>0, <1>1 DEF TypeOK
<1>6. /\ configLock' \in [Replicas -> {Free} \union Threads]
      /\ making' \in [Replicas -> SUBSET Changes]
      /\ \A p \in Replicas : p # r => configLock'[p] = configLock[p] /\ making'[p] = making[p]
      /\ configLock'[r] = (IF s = "announce" THEN t ELSE configLock[r])
      /\ making'[r] = (IF s = "announce" THEN ids ELSE making[r])
  <2>1. /\ configLock \in [Replicas -> {Free} \union Threads]
        /\ making \in [Replicas -> SUBSET Changes] /\ ids \in SUBSET Changes
    BY <1>0 DEF TypeOK
  <2>2. CASE s = "announce"
    <3>1. configLock' = [configLock EXCEPT ![r] = t] /\ making' = [making EXCEPT ![r] = ids]
      BY <1>2, <2>2
    <3>2. QED
      BY <1>0, <2>1, <2>2, <3>1
  <2>3. CASE s # "announce"
    <3>1. configLock' = configLock /\ making' = making
      BY <1>2, <2>3
    <3>2. QED
      BY <2>1, <2>3, <3>1
  <2>4. QED
    BY <2>2, <2>3
<1>7. /\ sure' \in [Replicas -> BOOLEAN]
      /\ \A p \in Replicas : p # r => sure'[p] = sure[p]
      /\ s = "announce" => sure'[r] = b
  BY <1>0, <1>2 DEF TypeOK
<1>8. TypeOK'
  BY <1>0, <1>1, <1>3, <1>4, <1>5, <1>6, <1>7, TypesKept DEF TypeOK
<1>9. Did(r, t, s)
  BY <1>3, <1>5, <1>6, <1>7 DEF Did, Turned
<1>10. LockMoves(r, t, s)
  BY <1>1, <1>2 DEF LockMoves, Busy, Resting, Booted
<1>11. EngineInv'
  <2>1. EngineAllows(engine[r], t, "change")
    BY <1>0 DEF Inv, EngineInv
  <2>2. EngineAllows(engine[r], t, s)
    BY <1>2, <2>1 DEF EngineAllows
  <2>3. QED
    BY <1>0, <1>9, <2>2, EngineKept DEF Inv
<1>12. ConfigMoves(r, t, s)
  BY <1>2, <1>6 DEF ConfigMoves, Configuring
<1>13. StoreMoves /\ AnnounceMoves /\ MemMoves(r)
  <2>1. StoreMoves
    BY <1>1 DEF StoreMoves, Same
  <2>2. MemMoves(r)
    BY <1>1, <1>5 DEF MemMoves, Same
  <2>3. QED
    BY <1>1, <2>1, <2>2, AnnouncedUnchanged
<1>14. making'[r] \subseteq used' /\ snap'[r][t] \subseteq store' \union lost'
  <2>1. making[r] \subseteq used /\ snap[r][t] \subseteq store \union lost
    BY <1>0 DEF Inv, UsedInv
  <2>2. QED
    BY <1>1, <1>6, <2>1
<1>15. Quiet(r, t, s)
  <2>1. CASE s # "announce"
    <3>1. UNCHANGED <<applied, making, sure, engine>>
      BY <1>2, <2>1
    <3>2. QED
      BY <1>0, <1>2, <1>13, <2>1, <3>1, QuietSteps
  <2>2. CASE s = "announce"
    <3>1. \A u \in Threads \ {t} : pc[r][u] # "announce"
      <4>1. \A u \in Threads : u # Free
        BY DEF Free, Threads, Changers
      <4>2. QED
        BY <4>1 DEF Inv, ConfigInv, Configuring
    <3>2. Sure(r, t)'
      <4>1. SUFFICES ASSUME NEW c \in Changes, sure'[r], c \in making'[r]
                     PROVE  c \in mem'[r] /\ c \in store'
        BY DEF Sure
      <4>2. b
        BY <1>7, <2>2, <4>1
      <4>3. c \in S /\ c \in M
        BY <1>6, <2>2, <4>1, <4>2
      <4>4. QED
        BY <1>1, <1>5, <4>3
    <3>3. applied'[r] = applied[r] /\ engine'[r] = engine[r]
      OBVIOUS
    <3>4. QED
      BY <1>13, <2>2, <3>1, <3>2, <3>3 DEF Quiet
  <2>3. QED
    BY <2>1, <2>2
<1>16. QED
  BY <1>0, <1>8, <1>9, <1>10, <1>11, <1>12, <1>13, <1>14, <1>15, QuietKeepsInv

MakesSome(r, t, N) ==
    /\ used' = used \union N
    /\ \E S \in SUBSET N, M \in SUBSET N, ids \in SUBSET N, b \in BOOLEAN :
          (b => ids \subseteq S \intersect M) /\ Make(r, t, S, M, ids, b)

LEMMA MakesSomeKeepsInv ==
    ASSUME Inv, NEW r \in Replicas, NEW t \in Changers,
           pc[r][t] = "change", configLock[r] = Free,
           NEW N \in SUBSET (Changes \ used), MakesSome(r, t, N),
           UNCHANGED <<revision, engine, applied, pending, observed, rev, snap, faults, history>>
    PROVE  Inv'
BY MakeKeepsInv DEF MakesSome

LEMMA AdminChangesKeepsInv ==
    ASSUME Inv, NEW r \in Replicas, AdminChanges(r)
    PROVE  Inv'
<1>0. "admin" \in Changers /\ pc[r]["admin"] = "change" /\ configLock[r] = Free
      /\ UNCHANGED <<revision, engine, applied, pending, observed, rev, snap, faults, history>>
  BY DEF AdminChanges, Changers
<1>1. PICK N \in SUBSET (Changes \ used) : MakesSome(r, "admin", N)
  <2>1. CASE /\ used = Changes
             /\ Make(r, "admin", {}, {}, {}, FALSE) /\ UNCHANGED used
    <3>1. {} \in SUBSET (Changes \ used) /\ used' = used \union {}
      BY <2>1
    <3>2. QED
      BY <2>1, <3>1 DEF MakesSome
  <2>2. ASSUME NEW c \in Changes \ used, used' = used \union {c},
               \/ Make(r, "admin", {c}, {c}, {c}, TRUE)
               \/ \E s \in SUBSET {c} : \E m \in SUBSET {c} : Make(r, "admin", s, m, {c}, FALSE)
               \/ Make(r, "admin", {}, {}, {}, FALSE)
        PROVE  \E N \in SUBSET (Changes \ used) : MakesSome(r, "admin", N)
    <3>1. {c} \in SUBSET (Changes \ used) /\ {} \in SUBSET {c} /\ {c} \in SUBSET {c}
          /\ {c} \subseteq {c} \intersect {c}
      OBVIOUS
    <3>2. CASE Make(r, "admin", {c}, {c}, {c}, TRUE)
      BY <2>2, <3>1, <3>2 DEF MakesSome
    <3>3. CASE \E s \in SUBSET {c} : \E m \in SUBSET {c} : Make(r, "admin", s, m, {c}, FALSE)
      BY <2>2, <3>1, <3>3 DEF MakesSome
    <3>4. CASE Make(r, "admin", {}, {}, {}, FALSE)
      BY <2>2, <3>1, <3>4 DEF MakesSome
    <3>5. QED
      BY <2>2, <3>2, <3>3, <3>4
  <2>3. QED
    BY <2>1, <2>2 DEF AdminChanges
<1>2. QED
  BY <1>0, <1>1, MakesSomeKeepsInv

LEMMA TasksChangeKeepsInv ==
    ASSUME Inv, NEW r \in Replicas, TasksChange(r)
    PROVE  Inv'
<1>0. "tasks" \in Changers /\ pc[r]["tasks"] = "change" /\ configLock[r] = Free
      /\ UNCHANGED <<revision, engine, applied, pending, observed, rev, snap, faults, history>>
  BY DEF TasksChange, Changers
<1>1. PICK N \in SUBSET (Changes \ used) :
        /\ used' = used \union N
        /\ \E S \in SUBSET N : \E M \in SUBSET N : \E done \in SUBSET (S \intersect M) :
              Make(r, "tasks", S, M, done, TRUE)
  BY DEF TasksChange
<1>2. MakesSome(r, "tasks", N)
  <2>1. PICK S \in SUBSET N : \E M \in SUBSET N : \E done \in SUBSET (S \intersect M) :
          Make(r, "tasks", S, M, done, TRUE)
    BY <1>1
  <2>2. PICK M \in SUBSET N : \E done \in SUBSET (S \intersect M) :
          Make(r, "tasks", S, M, done, TRUE)
    BY <2>1
  <2>3. PICK done \in SUBSET (S \intersect M) : Make(r, "tasks", S, M, done, TRUE)
    BY <2>2
  <2>4. done \in SUBSET N /\ done \subseteq S \intersect M
    OBVIOUS
  <2>5. QED
    BY <1>1, <2>3, <2>4 DEF MakesSome
<1>3. QED
  BY <1>0, <1>1, <1>2, MakesSomeKeepsInv

-----------------------------------------------------------------------------
(* Announcements *)

\* The types with one more revision.
LEMMA TypesGrow ==
    ASSUME TypeOK, NEW r \in Replicas, NEW t \in Threads, NEW s, Turned(r, t, s),
           revision' \in {revision, revision + 1},
           announcedAt' \in [Changes -> 0 .. revision'],
           applied' \in [Replicas -> 0 .. revision'],
           lock' \in {Nobody} \union (Replicas \X Threads),
           configLock' \in [Replicas -> {Free} \union Threads],
           making' \in [Replicas -> SUBSET Changes], sure' \in [Replicas -> BOOLEAN],
           Fault \/ UNCHANGED faults,
           UNCHANGED <<store, engine, mem, pending, observed, rev, snap, used, unlocked, lost,
                       missed>>
    PROVE  TypeOK'
<1>1. faults' \in 0 .. MaxFaults
  BY FaultTyped DEF TypeOK
<1>2. revision' \in Nat /\ 0 .. revision \subseteq 0 .. revision'
  BY DEF TypeOK
<1>3. /\ pending' \in [Replicas -> 0 .. revision'] /\ observed' \in [Replicas -> 0 .. revision']
      /\ rev' \in [Replicas -> [Threads -> 0 .. revision']]
  <2>1. /\ pending \in [Replicas -> 0 .. revision] /\ observed \in [Replicas -> 0 .. revision]
        /\ rev \in [Replicas -> [Threads -> 0 .. revision]]
    BY DEF TypeOK
  <2>2. PICK A, B : A = 0 .. revision /\ B = 0 .. revision'
    OBVIOUS
  <2>3. A \subseteq B /\ pending \in [Replicas -> A] /\ observed \in [Replicas -> A]
        /\ rev \in [Replicas -> [Threads -> A]]
    BY <1>2, <2>1, <2>2
  <2>4. pending \in [Replicas -> B] /\ observed \in [Replicas -> B]
        /\ rev \in [Replicas -> [Threads -> B]]
    BY <2>3
  <2>5. QED
    BY <2>2, <2>4
<1>4. pc' \in [Replicas -> [Threads -> Steps]]
  BY DEF Turned, PerThread
<1>5. QED
  BY <1>1, <1>2, <1>3, <1>4 DEF TypeOK

\* What an announcement does to the history.
LEMMA Announcing ==
    ASSUME Inv, NEW r \in Replicas, revision' = revision + 1, Announced(r)
    PROVE  /\ AnnounceMoves /\ announcedAt' \in [Changes -> 0 .. revision']
           /\ \A c \in Changes : announcedAt'[c] # announcedAt[c] => c \in making[r]
<1>0. announcedAt \in [Changes -> 0 .. revision] /\ revision \in Nat
      /\ making[r] \subseteq used
  BY DEF Inv, TypeOK, UsedInv
<1>1. ASSUME NEW c \in Changes
      PROVE  /\ announcedAt'[c] = announcedAt[c]
                \/ (announcedAt'[c] = revision + 1 /\ c \in making[r])
             /\ announcedAt'[c] \in 0 .. revision'
  BY <1>0 DEF Announced
<1>2. announcedAt' \in [Changes -> 0 .. revision']
  <2>1. announcedAt' = [c \in Changes |-> announcedAt'[c]]
    BY DEF Announced
  <2>2. QED
    BY <1>1, <2>1
<1>3. QED
  BY <1>0, <1>1, <1>2 DEF AnnounceMoves

\* The end of Change, or another attempt.
LEMMA AnnounceLeaves ==
    ASSUME Inv, NEW r \in Replicas, NEW t \in Changers, pc[r][t] = "announce",
           ChangeEnds(r, t) \/ UNCHANGED <<configLock, making, sure, pc, lock>>,
           UNCHANGED <<store, engine, mem, rev, snap, used, unlocked, lost>>
    PROVE  \E s : /\ Turned(r, t, s)
                  /\ LockMoves(r, t, s) /\ ConfigMoves(r, t, s)
                  /\ EngineAllows(engine[r], t, s)
                  /\ s \in {"idle", "done"} \/ (s = "announce" /\ UNCHANGED <<making, sure>>)
                  /\ lock' \in {Nobody} \union (Replicas \X Threads)
                  /\ configLock' \in [Replicas -> {Free} \union Threads]
                  /\ making' \in [Replicas -> SUBSET Changes]
                  /\ sure' \in [Replicas -> BOOLEAN]
                  /\ making'[r] \subseteq used
                  /\ \A p \in Replicas : p # r =>
                        /\ configLock'[p] = configLock[p]
                        /\ making'[p] = making[p] /\ sure'[p] = sure[p]
<1>0. TypeOK /\ t \in Threads /\ making[r] \subseteq used /\ Busy(r, t)
      /\ EngineAllows(engine[r], t, "announce") /\ configLock[r] = t
  <2>1. TypeOK /\ t \in Threads
    BY DEF Inv, Threads
  <2>2. QED
    BY <2>1 DEF Inv, UsedInv, EngineInv, ConfigInv, Configuring, Busy, Resting
<1>1. 0 \in 0 .. revision /\ {} \in SUBSET Changes
  BY <1>0 DEF TypeOK
<1>2. CASE ChangeEnds(r, t)
  <2>1. PICK s : s \in {"idle", "done"} /\ pc' = [pc EXCEPT ![r][t] = s] /\ Unlock(r, t)
    BY <1>2 DEF ChangeEnds, End, Goto, Finished
  <2>2. s \in Steps
    BY <2>1 DEF Steps
  <2>3. Turned(r, t, s)
    BY <1>0, <1>1, <2>1, <2>2, TurnedByPut
  <2>4. LockMoves(r, t, s) /\ ConfigMoves(r, t, s) /\ EngineAllows(engine[r], t, s)
    BY <1>0, <2>1 DEF LockMoves, Resting, Booted, ConfigMoves, Configuring, EngineAllows
  <2>5. lock' \in {Nobody} \union (Replicas \X Threads)
    BY <1>0, <2>1, UnlockTyped DEF TypeOK
  <2>6. /\ configLock' = [configLock EXCEPT ![r] = Free]
        /\ making' = [making EXCEPT ![r] = {}] /\ sure' = [sure EXCEPT ![r] = FALSE]
    BY <1>2 DEF ChangeEnds
  <2>7. /\ configLock' \in [Replicas -> {Free} \union Threads]
        /\ making' \in [Replicas -> SUBSET Changes] /\ making'[r] \subseteq used
        /\ \A p \in Replicas : p # r => configLock'[p] = configLock[p] /\ making'[p] = making[p]
    BY <1>0, <2>6 DEF TypeOK
  <2>8. sure' \in [Replicas -> BOOLEAN] /\ \A p \in Replicas : p # r => sure'[p] = sure[p]
    BY <1>0, <2>6 DEF TypeOK
  <2>9. QED
    BY <2>1, <2>3, <2>4, <2>5, <2>7, <2>8
<1>3. CASE UNCHANGED <<configLock, making, sure, pc, lock>>
  <2>1. pc \in [Replicas -> [Threads -> Steps]]
    BY <1>0 DEF TypeOK
  <2>2. Turned(r, t, "announce")
    BY <1>0, <1>3, <2>1 DEF Turned, TypeOK, PerThread
  <2>3. LockMoves(r, t, "announce") /\ ConfigMoves(r, t, "announce")
    BY <1>0, <1>3 DEF LockMoves, Booted, ConfigMoves, Configuring
  <2>4. QED
    BY <1>0, <1>3, <2>2, <2>3 DEF TypeOK
<1>4. QED
  BY <1>2, <1>3

LEMMA AnnounceFailsKeepsInv ==
    ASSUME Inv, NEW r \in Replicas, NEW t \in Changers, AnnounceFails(r, t)
    PROVE  Inv'
<1>0. TypeOK /\ t \in Threads /\ pc[r][t] = "announce" /\ Fault
  BY DEF Inv, Threads, AnnounceFails
<1>1. UNCHANGED <<store, engine, mem, applied, pending, observed, rev, snap, used, unlocked, lost,
                  missed>>
  BY DEF AnnounceFails
<1>2. PICK s : /\ Turned(r, t, s)
               /\ LockMoves(r, t, s) /\ ConfigMoves(r, t, s)
               /\ EngineAllows(engine[r], t, s)
               /\ s \in {"idle", "done"} \/ (s = "announce" /\ UNCHANGED <<making, sure>>)
               /\ lock' \in {Nobody} \union (Replicas \X Threads)
               /\ configLock' \in [Replicas -> {Free} \union Threads]
               /\ making' \in [Replicas -> SUBSET Changes]
               /\ sure' \in [Replicas -> BOOLEAN]
               /\ making'[r] \subseteq used
               /\ \A p \in Replicas : p # r =>
                     /\ configLock'[p] = configLock[p]
                     /\ making'[p] = making[p] /\ sure'[p] = sure[p]
  BY <1>0, <1>1, AnnounceLeaves DEF AnnounceFails
<1>3. /\ AnnounceMoves /\ revision' \in {revision, revision + 1}
      /\ announcedAt' \in [Changes -> 0 .. revision']
  <2>1. CASE revision' = revision + 1 /\ Announced(r)
    BY <2>1, Announcing
  <2>2. CASE UNCHANGED <<revision, announcedAt>>
    BY <1>0, <2>2, AnnouncedUnchanged DEF TypeOK
  <2>3. QED
    BY <2>1, <2>2 DEF AnnounceFails
<1>4. applied' \in [Replicas -> 0 .. revision']
  <2>1. 0 .. revision \subseteq 0 .. revision'
    BY <1>0, <1>3 DEF TypeOK
  <2>2. PICK A, B : A = 0 .. revision /\ B = 0 .. revision'
    OBVIOUS
  <2>3. A \subseteq B /\ applied \in [Replicas -> A]
    BY <1>0, <2>1, <2>2 DEF TypeOK
  <2>4. applied \in [Replicas -> B]
    BY <2>3
  <2>5. QED
    BY <1>1, <2>2, <2>4
<1>5. TypeOK'
  BY <1>0, <1>1, <1>2, <1>3, <1>4, TypesGrow
<1>6. Did(r, t, s)
  BY <1>1, <1>2 DEF Did, Turned
<1>7. EngineInv'
  BY <1>0, <1>1, <1>2, <1>6, EngineKept DEF Inv
<1>8. StoreMoves /\ MemMoves(r)
  BY <1>1, StoreUnchanged, MemKept
<1>9. making'[r] \subseteq used' /\ snap'[r][t] \subseteq store' \union lost'
  BY <1>0, <1>1, <1>2 DEF Inv, UsedInv
<1>10. Quiet(r, t, s)
  <2>1. applied'[r] = applied[r] /\ engine'[r] = engine[r]
    BY <1>1
  <2>2. CASE s = "announce" /\ UNCHANGED <<making, sure>>
    BY <1>0, <1>1, <1>8, <2>2, QuietSteps
  <2>3. CASE s \in {"idle", "done"}
    <3>1. pc'[r][t] = s
      BY <1>6 DEF Did
    <3>2. Sure(r, t)'
      BY <2>3, <3>1 DEF Sure
    <3>3. \A u \in Threads \ {t} : pc[r][u] # "announce"
      BY <1>0, AloneInConfig DEF Configuring
    <3>4. QED
      BY <1>8, <2>1, <2>3, <3>2, <3>3 DEF Quiet
  <2>4. QED
    BY <1>2, <2>2, <2>3
<1>11. QED
  BY <1>0, <1>2, <1>3, <1>5, <1>6, <1>7, <1>8, <1>9, <1>10, QuietKeepsInv

LEMMA AnnounceSucceedsKeepsInv ==
    ASSUME Inv, NEW r \in Replicas, NEW t \in Changers, AnnounceSucceeds(r, t)
    PROVE  Inv'
<1>0. TypeOK /\ t \in Threads /\ pc[r][t] = "announce" /\ revision' = revision + 1
      /\ revision \in Nat
  BY DEF Inv, TypeOK, Threads, AnnounceSucceeds
<1>1. UNCHANGED <<store, engine, mem, pending, observed, rev, snap, used, faults, unlocked, lost,
                  missed>>
  BY DEF AnnounceSucceeds
<1>2. PICK s : /\ Turned(r, t, s)
               /\ LockMoves(r, t, s) /\ ConfigMoves(r, t, s)
               /\ EngineAllows(engine[r], t, s)
               /\ s \in {"idle", "done"} \/ (s = "announce" /\ UNCHANGED <<making, sure>>)
               /\ lock' \in {Nobody} \union (Replicas \X Threads)
               /\ configLock' \in [Replicas -> {Free} \union Threads]
               /\ making' \in [Replicas -> SUBSET Changes]
               /\ sure' \in [Replicas -> BOOLEAN]
               /\ making'[r] \subseteq used
               /\ \A p \in Replicas : p # r =>
                     /\ configLock'[p] = configLock[p]
                     /\ making'[p] = making[p] /\ sure'[p] = sure[p]
  BY <1>0, <1>1, AnnounceLeaves DEF AnnounceSucceeds
<1>3. s # "announce"
  <2>1. PICK x : x \in {"idle", "done"} /\ pc' = [pc EXCEPT ![r][t] = x]
    BY DEF AnnounceSucceeds, ChangeEnds, End, Goto, Finished
  <2>2. pc'[r][t] = x
    BY <1>0, <2>1 DEF TypeOK
  <2>3. QED
    BY <1>2, <2>1, <2>2 DEF Turned
<1>4. /\ AnnounceMoves /\ announcedAt' \in [Changes -> 0 .. revision']
      /\ \A c \in Changes : announcedAt'[c] # announcedAt[c] => c \in making[r]
  BY <1>0, Announcing DEF AnnounceSucceeds
<1>5. /\ applied'[r] = AppliedAfter(r, revision + 1)
      /\ applied'[r] \in 0 .. revision' /\ applied' \in [Replicas -> 0 .. revision']
      /\ \A p \in Replicas : p # r => applied'[p] = applied[p]
  <2>1. applied' = [applied EXCEPT ![r] = AppliedAfter(r, revision + 1)]
    BY <1>0 DEF AnnounceSucceeds
  <2>2. applied \in [Replicas -> 0 .. revision]
    BY <1>0 DEF TypeOK
  <2>3. AppliedAfter(r, revision + 1) \in {applied[r], revision + 1}
    BY DEF AppliedAfter
  <2>4. \A p \in Replicas : applied'[p] \in 0 .. revision'
    BY <1>0, <2>1, <2>2, <2>3
  <2>5. QED
    BY <2>1, <2>2, <2>4
<1>6. TypeOK'
  BY <1>0, <1>1, <1>2, <1>4, <1>5, TypesGrow
<1>7. Did(r, t, s)
  BY <1>1, <1>2, <1>5 DEF Did, Turned
<1>8. EngineInv'
  BY <1>0, <1>1, <1>2, <1>7, EngineKept DEF Inv
<1>9. StoreMoves
  BY <1>1, StoreUnchanged
<1>10. making'[r] \subseteq used' /\ snap'[r][t] \subseteq store' \union lost'
  BY <1>0, <1>1, <1>2 DEF Inv, UsedInv
<1>11. LoadedAt(r)'
  <2>1. \A u \in Threads : pc'[r][u] \notin Configuring \union {"booting"}
    BY <1>0, <1>2, <1>3, AloneInConfig DEF Configuring, Turned
  <2>2. Serves(r)'
    <3>1. SUFFICES ASSUME NEW c \in Changes, c \notin lost, engine[r] = "ready",
                          announcedAt'[c] # 0, announcedAt'[c] <= applied'[r]
                   PROVE  Same(mem[r], store, c)
      BY <1>1 DEF Serves, Upto
    <3>2. applied[r] \in 0 .. revision /\ announcedAt[c] \in 0 .. revision
      BY <1>0 DEF TypeOK
    <3>3. CASE announcedAt'[c] # announcedAt[c]
      <4>1. announcedAt'[c] = revision + 1 /\ c \in making[r]
        BY <1>4, <3>3 DEF AnnounceMoves
      <4>2. applied'[r] # applied[r]
        BY <1>0, <3>1, <3>2, <4>1
      <4>3. sure[r]
        BY <1>5, <4>2 DEF AppliedAfter
      <4>4. c \in mem[r] /\ c \in store
        BY <1>0, <3>1, <4>1, <4>3 DEF Inv, LoadInv, LoadedAt, Sure
      <4>5. QED
        BY <4>4 DEF Same
    <3>4. CASE announcedAt'[c] = announcedAt[c]
      <4>1. announcedAt[c] <= applied[r]
        BY <1>0, <1>5, <3>1, <3>2, <3>4 DEF AppliedAfter
      <4>2. QED
        BY <3>1, <3>4, <4>1 DEF Inv, LoadInv, LoadedAt, Serves, Upto
    <3>5. QED
      BY <3>3, <3>4
  <2>3. QED
    BY <2>1, <2>2 DEF LoadedAt, Reading, Swapped, Sure, Configuring
<1>12. QED
  BY <1>0, <1>2, <1>4, <1>6, <1>7, <1>8, <1>9, <1>10, <1>11, StepKeepsInv

LEMMA ChangeKeepsInv ==
    ASSUME Inv, NEW r \in Replicas, NEW t \in Changers, Change(r, t)
    PROVE  Inv'
<1>1. t \in Threads
  BY DEF Threads
<1>2. QED
  BY <1>1, AdminChangesKeepsInv, TasksGiveUpKeepsInv, TasksChangeKeepsInv, AnnounceFailsKeepsInv,
     AnnounceSucceedsKeepsInv, ReloadKeepsInv DEF Change

-----------------------------------------------------------------------------
LEMMA CrashKeepsInv ==
    ASSUME Inv, NEW r \in Replicas, Crash(r)
    PROVE  Inv'
<1>0. TypeOK /\ Fault /\ revision \in Nat
  BY DEF Inv, TypeOK, Crash
<1>1. UNCHANGED <<store, revision, used, announcedAt, unlocked, lost>>
  BY DEF Crash
<1>2. /\ engine' \in [Replicas -> {"down", "starting", "ready", "failed"}]
      /\ mem' \in [Replicas -> SUBSET Changes] /\ making' \in [Replicas -> SUBSET Changes]
      /\ applied' \in [Replicas -> 0 .. revision] /\ pending' \in [Replicas -> 0 .. revision]
      /\ observed' \in [Replicas -> 0 .. revision]
      /\ configLock' \in [Replicas -> {Free} \union Threads]
      /\ engine'[r] = "down" /\ making'[r] = {}
  BY <1>0 DEF Crash, TypeOK
<1>3. sure' \in [Replicas -> BOOLEAN] /\ missed' \in [Replicas -> BOOLEAN]
  BY <1>0 DEF Crash, TypeOK
<1>4. /\ pc' \in [Replicas -> [Threads -> Steps]]
      /\ rev' \in [Replicas -> [Threads -> 0 .. revision]]
      /\ snap' \in [Replicas -> [Threads -> SUBSET Changes]]
      /\ \A t \in Threads : pc'[r][t] = "idle" /\ snap'[r][t] = {}
  <2>1. /\ [t \in Threads |-> "idle"] \in [Threads -> Steps]
        /\ [t \in Threads |-> 0] \in [Threads -> 0 .. revision]
        /\ [t \in Threads |-> {}] \in [Threads -> SUBSET Changes]
    BY <1>0 DEF Steps
  <2>2. QED
    BY <1>0, <2>1 DEF Crash, TypeOK
<1>5. lock' \in {Nobody} \union (Replicas \X Threads)
  BY <1>0 DEF Crash, TypeOK
<1>6. TypeOK'
  <2>1. faults' \in 0 .. MaxFaults
    BY <1>0, FaultTyped DEF TypeOK
  <2>2. QED
    BY <1>0, <1>1, <1>2, <1>3, <1>4, <1>5, <2>1 DEF TypeOK
<1>7. Elsewhere(r)
  BY <1>0 DEF Crash, Elsewhere, TypeOK
<1>8. LockInv'
  <2>1. SUFFICES ASSUME ~ unlocked PROVE Exclusive'
    BY <1>1 DEF LockInv
  <2>2. Exclusive
    BY <2>1 DEF Inv, LockInv
  <2>3. SUFFICES ASSUME NEW p \in Replicas, NEW u \in Threads
                 PROVE  /\ Busy(p, u)' => lock' = <<p, u>>
                        /\ Snapping(p, u)' => snap'[p][u] = store'
    BY <1>1, <2>2 DEF Exclusive
  <2>4. CASE p = r
    BY <1>4, <2>4 DEF Busy, Snapping, Resting, Booted
  <2>5. CASE p # r
    <3>1. pc'[p][u] = pc[p][u] /\ snap'[p][u] = snap[p][u]
      BY <1>7, <2>5 DEF Elsewhere
    <3>2. lock = <<p, u>> => lock' = <<p, u>>
      BY <2>5 DEF Crash
    <3>3. QED
      BY <1>1, <2>2, <3>1, <3>2 DEF Exclusive, Busy, Snapping
  <2>6. QED
    BY <2>4, <2>5
<1>9. EngineInv' /\ ConfigInv'
  <2>1. \A u \in Threads : EngineAllows("down", u, "idle")
    BY DEF EngineAllows
  <2>2. EngineInv'
    <3>1. SUFFICES ASSUME NEW p \in Replicas, NEW u \in Threads
                   PROVE  EngineAllows(engine'[p], u, pc'[p][u])
      BY DEF EngineInv
    <3>2. CASE p = r
      BY <1>2, <1>4, <2>1, <3>2
    <3>3. CASE p # r
      BY <1>7, <3>3 DEF Inv, EngineInv, Elsewhere
    <3>4. QED
      BY <3>2, <3>3
  <2>3. ConfigInv'
    BY <1>4, <1>7 DEF Inv, ConfigInv, Elsewhere, Configuring
  <2>4. QED
    BY <2>2, <2>3
<1>10. UsedInv'
  BY <1>1, <1>2, <1>4, <1>7 DEF Inv, UsedInv, Elsewhere
<1>11. StoreMoves /\ AnnounceMoves
  BY <1>1, StoreUnchanged, AnnouncedUnchanged
<1>12. LoadInv'
  <2>1. LoadedAt(r)'
    BY <1>2, <1>4 DEF LoadedAt, Serves, Reading, Swapped, Sure
  <2>2. QED
    BY <1>0, <1>7, <1>11, <2>1, LoadedElsewhere DEF Inv, LoadInv
<1>13. QED
  BY <1>6, <1>8, <1>9, <1>10, <1>12 DEF Inv

-----------------------------------------------------------------------------
LEMMA InitInv ==
    ASSUME Init PROVE Inv
<1>1. TypeOK
  <2>1. store \subseteq Changes /\ revision \in Nat
        /\ lock \in {Nobody} \union (Replicas \X Threads)
        /\ used \subseteq Changes /\ lost \subseteq Changes /\ faults \in 0 .. MaxFaults
    BY FaultsAssumption DEF Init
  <2>2. 0 \in 0 .. revision /\ "idle" \in Steps
    BY DEF Init, Steps
  <2>3. unlocked = FALSE
    BY DEF Init
  <2>4. unlocked \in BOOLEAN
    BY <2>3, Zenon
  <2>5. QED
    BY <2>1, <2>2, <2>4 DEF Init, TypeOK
<1>2. LockInv
  BY DEF Init, LockInv, Exclusive, Busy, Snapping, Resting, Booted
<1>3. EngineInv /\ ConfigInv
  BY DEF Init, EngineInv, EngineAllows, ConfigInv, Configuring
<1>4. UsedInv
  BY DEF Init, UsedInv
<1>5. LoadInv
  BY DEF Init, LoadInv, LoadedAt, Serves, Reading, Swapped, Sure
<1>6. QED
  BY <1>1, <1>2, <1>3, <1>4, <1>5 DEF Inv

LEMMA NextKeepsInv ==
    ASSUME Inv, [Next]_vars PROVE Inv'
<1>1. CASE Next
  <2>1. PICK r \in Replicas :
          \/ Launch(r) \/ Crash(r) \/ Start(r) \/ Sync(r)
          \/ \E t \in Changers : ChangeLocked(r, t) \/ Change(r, t)
    BY <1>1 DEF Next
  <2>2. "sync" \in Threads
    BY DEF Threads
  <2>3. CASE Sync(r)
    BY <2>2, <2>3, SyncLockedKeepsInv, ReloadKeepsInv DEF Sync
  <2>4. QED
    BY <2>1, <2>3, LaunchKeepsInv, CrashKeepsInv, StartKeepsInv, ChangeLockedKeepsInv,
       ChangeKeepsInv
<1>2. CASE UNCHANGED vars
  <2>1. UNCHANGED <<store, revision, lock, engine, mem, applied, pending, observed, configLock,
                    pc, rev, snap, making, sure, used, faults, announcedAt, unlocked, lost,
                    missed>>
    BY <1>2 DEF vars, shared, local, steps, history
  <2>2. TypeOK' /\ LockInv' /\ EngineInv' /\ ConfigInv' /\ UsedInv'
    BY <2>1 DEF Inv, TypeOK, LockInv, Exclusive, Busy, Snapping, EngineInv, ConfigInv, UsedInv
  <2>3. LoadInv'
    BY <2>1 DEF Inv, LoadInv, LoadedAt, Serves, Reading, Swapped, Sure, Upto
  <2>4. QED
    BY <2>2, <2>3 DEF Inv
<1>3. QED
  BY <1>1, <1>2

\* The inductive invariant holds in every state.
THEOREM Invariance == Spec => []Inv
<1>1. Init => Inv
  BY InitInv
<1>2. Inv /\ [Next]_vars => Inv'
  BY NextKeepsInv
<1>3. QED
  BY <1>1, <1>2, PTL DEF Spec

\* Types, and appliedRevision, pendingRevision and lastRevisions are never
\* ahead of the announced revision.
THEOREM TypeCorrect == Spec => []TypeOK
<1>1. Inv => TypeOK
  BY DEF Inv
<1>2. QED
  BY <1>1, Invariance, PTL

\* However many replicas boot, reload and change the configuration: as long
\* as no start gave up on the advisory lock, no boot undoes a saved change
\* (Start, Reload and Change of engine.go under lockedGatewayReload).
THEOREM SavedStaysSaved == Spec => []NoLostChange
<1>1. Inv => NoLostChange
  BY DEF Inv, LockInv, Exclusive, NoLostChange
<1>2. QED
  BY <1>1, Invariance, PTL

\* appliedRevision may be trusted: raiseApplied and the compare-and-swap at
\* the end of Change claim a revision only when the gateway serves what the
\* stores have of every change announced up to it, with the lock or without.
THEOREM AppliedIsTrue == Spec => []AppliedIsLoaded
<1>1. Inv => AppliedIsLoaded
  <2>1. SUFFICES ASSUME Inv, NEW r \in Replicas, NEW c \in Changes \ lost, engine[r] = "ready",
                        announcedAt[c] \in 1 .. applied[r]
                 PROVE  c \in mem[r] <=> c \in store
    BY DEF AppliedIsLoaded
  <2>2. applied[r] \in Nat
    BY <2>1 DEF Inv, TypeOK
  <2>3. Upto(c, applied[r])
    BY <2>1, <2>2 DEF Upto
  <2>4. QED
    BY <2>1, <2>3 DEF Inv, LoadInv, LoadedAt, Serves, Same
<1>2. QED
  BY <1>1, Invariance, PTL
=============================================================================
