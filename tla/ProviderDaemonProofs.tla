----------------------- MODULE ProviderDaemonProofs -----------------------
(***************************************************************************)
(* Proofs about ProviderDaemon, for any number of replicas, requests,      *)
(* ports, generations, revisions and restarts: every daemon that runs is   *)
(* registered, a launch keeps its entry, and the pool of ports balances.   *)
(***************************************************************************)
EXTENDS ProviderDaemon, FiniteSetTheorems, TLAPS

\* The lock of r is held by the one request that waits for its daemon there.
LockOf(r) ==
    /\ lock[r] <=> \E q \in Requests : Home[q] = r /\ qpc[q] = "wait"
    /\ \A q1, q2 \in Requests :
         /\ Home[q1] = r /\ qpc[q1] = "wait"
         /\ Home[q2] = r /\ qpc[q2] = "wait"
         => q1 = q2
    /\ lock[r] => entry[r] = gen[r]

LockInv == \A r \in Replicas : LockOf(r)

\* The registered daemon has a port of the pool, no other port of the pool is
\* taken but those that leaked, and the two do not overlap.
PortsOf(r) ==
    /\ leaked[r] \subseteq Ports
    /\ entry[r] = None => used[r] = leaked[r]
    /\ entry[r] # None =>
         /\ port[r][entry[r]] \in Ports \ leaked[r]
         /\ used[r] = leaked[r] \union {port[r][entry[r]]}

PortInv == \A r \in Replicas : PortsOf(r)

Inv == TypeOK /\ NoOrphanDaemon /\ LockInv /\ PortInv

\* The ports of the registered daemon, as a set of one or none.
LEMMA EntryPortIs ==
    ASSUME TypeOK, NEW r \in Replicas
    PROVE  /\ entry[r] = None => EntryPort(r) = {}
           /\ entry[r] # None => /\ entry[r] \in Gens
                                 /\ EntryPort(r) = {port[r][entry[r]]}
<1>1. entry[r] \in 0 .. gen[r] /\ gen[r] \in 0 .. MaxGen
  BY DEF TypeOK
<1>2. entry[r] = None => Gens \intersect {entry[r]} = {}
  BY DEF None, Gens
<1>3. entry[r] # None => entry[r] \in Gens
  BY <1>1, BoundsAssumption DEF None, Gens
<1>4. entry[r] # None => Gens \intersect {entry[r]} = {entry[r]}
  BY <1>3
<1>5. QED
  BY <1>2, <1>3, <1>4 DEF EntryPort

LEMMA InitInv ==
    ASSUME Init PROVE Inv
<1>1. TypeOK
  <2>1. /\ config \in 0 .. MaxConfig /\ revision \in 0 .. MaxRevision
        /\ last \in [Replicas -> 0 .. revision]
        /\ seen \in [Replicas -> 0 .. revision]
        /\ gen \in [Replicas -> 0 .. MaxGen]
        /\ entry \in [Replicas -> 0 .. MaxGen]
        /\ \A r \in Replicas : entry[r] \in 0 .. gen[r]
    BY BoundsAssumption DEF Init, None
  <2>2. /\ env \in [Replicas -> [Gens -> 0 .. config]]
        /\ qcred \in [Requests -> 0 .. config]
    BY DEF Init
  <2>3. /\ proc \in [Replicas -> [Gens -> States]]
        /\ port \in [Replicas -> [Gens -> Ports \union {NoPort}]]
        /\ used \in [Replicas -> SUBSET Ports]
        /\ leaked \in [Replicas -> SUBSET Ports]
    BY DEF Init, States
  <2>4. /\ unannounced \in BOOLEAN
        /\ lock \in [Replicas -> BOOLEAN]
    BY DEF Init
  <2>5. /\ rpc \in [Replicas -> {"idle", "stop", "record"}]
        /\ qpc \in [Requests -> {"idle", "reveal", "start", "wait"}]
    BY DEF Init
  <2>6. QED
    BY <2>1, <2>2, <2>3, <2>4, <2>5 DEF TypeOK
<1>2. NoOrphanDaemon /\ LockInv /\ PortInv
  BY DEF Init, NoOrphanDaemon, LockInv, LockOf, PortInv, PortsOf, None
<1>3. QED
  BY <1>1, <1>2 DEF Inv

-----------------------------------------------------------------------------
(* Steps that do not touch the daemons. *)

LEMMA QuietStep ==
    ASSUME Inv, UNCHANGED <<daemons, qpc>>, TypeOK'
    PROVE  Inv'
<1>1. NoOrphanDaemon'
  BY DEF Inv, NoOrphanDaemon, daemons
<1>2. LockInv'
  BY DEF Inv, LockInv, daemons, LockOf
<1>3. PortInv'
  BY DEF Inv, PortInv, PortsOf, daemons, pool
<1>4. QED
  BY <1>1, <1>2, <1>3 DEF Inv

LEMMA ControllerKeepsInv ==
    ASSUME Inv, WriteCredential \/ advanceRevision
    PROVE  Inv'
<1> USE DEF sync, recon, daemons, pool, reqs
<1>1. TypeOK'
  <2>0. TypeOK
    BY DEF Inv
  <2>1. CASE WriteCredential
    <3>1. /\ config' \in 0 .. MaxConfig
          /\ \A n \in 0 .. config : n \in 0 .. config'
      BY <2>0, <2>1, BoundsAssumption DEF TypeOK, WriteCredential
    <3>2. env' \in [Replicas -> [Gens -> 0 .. config']]
      BY <2>0, <2>1, <3>1 DEF TypeOK, WriteCredential
    <3>3. qcred' \in [Requests -> 0 .. config']
      BY <2>0, <2>1, <3>1 DEF TypeOK, WriteCredential
    <3>4. QED
      BY <2>0, <2>1, <3>1, <3>2, <3>3 DEF TypeOK, WriteCredential
  <2>2. CASE advanceRevision
    <3>1. /\ revision' \in 0 .. MaxRevision
          /\ \A n \in 0 .. revision : n \in 0 .. revision'
      BY <2>0, <2>2, BoundsAssumption DEF TypeOK, advanceRevision
    <3>4. unannounced' \in BOOLEAN
      <4>1. CASE revision + 1 < MaxRevision
        BY <2>2, <4>1 DEF advanceRevision
      <4>2. CASE ~ (revision + 1 < MaxRevision)
        BY <2>2, <4>2 DEF advanceRevision
      <4>3. QED
        BY <4>1, <4>2
    <3>2. last' \in [Replicas -> 0 .. revision'] /\ seen' \in [Replicas -> 0 .. revision']
      BY <2>0, <2>2, <3>1 DEF TypeOK, advanceRevision
    <3>5. QED
      BY <2>0, <2>2, <3>1, <3>2, <3>4 DEF TypeOK, advanceRevision
  <2>3. QED
    BY <2>1, <2>2
<1>2. UNCHANGED <<daemons, qpc>>
  BY DEF WriteCredential, advanceRevision
<1>3. QED
  BY <1>1, <1>2, QuietStep

LEMMA ObserveKeepsInv ==
    ASSUME Inv, NEW r \in Replicas, Observe(r) \/ Record(r)
    PROVE  Inv'
<1> USE DEF sync, recon, daemons, pool, reqs
<1>0. TypeOK
  BY DEF Inv
<1>1. TypeOK'
  <2>1. CASE Observe(r)
    <3>1. PICK v \in last[r] + 1 .. revision : seen' = [seen EXCEPT ![r] = v]
      BY <2>1 DEF Observe
    <3>2. v \in 0 .. revision
      BY <1>0, <3>1 DEF TypeOK
    <3>3. seen' \in [Replicas -> 0 .. revision]
      BY <1>0, <3>1, <3>2 DEF TypeOK
    <3>4. QED
      BY <1>0, <2>1, <3>3 DEF TypeOK, Observe
  <2>2. CASE Record(r)
    <3>1. last' \in [Replicas -> 0 .. revision]
      BY <1>0, <2>2 DEF TypeOK, Record
    <3>2. QED
      BY <1>0, <2>2, <3>1 DEF TypeOK, Record
  <2>3. QED
    BY <2>1, <2>2
<1>2. UNCHANGED <<daemons, qpc>>
  BY DEF Observe, Record
<1>3. QED
  BY <1>1, <1>2, QuietStep

\* Requests before they launch, and the exit of a process.
LEMMA RequestKeepsInv ==
    ASSUME Inv, NEW q \in Requests,
           NeedDaemon(q) \/ RevealCredential(q) \/ NotStarted(q)
    PROVE  Inv'
<1> USE DEF sync, recon, daemons, pool, reqs
<1>0. TypeOK /\ LockInv
  BY DEF Inv
<1>1. TypeOK'
  <2>1. qpc' \in [Requests -> {"idle", "reveal", "start", "wait"}]
    <3>1. \E s \in {"idle", "reveal", "start"} : qpc' = [qpc EXCEPT ![q] = s]
      BY DEF NeedDaemon, RevealCredential, NotStarted
    <3>2. qpc \in [Requests -> {"idle", "reveal", "start", "wait"}]
      BY <1>0 DEF TypeOK
    <3>3. QED
      BY <3>1, <3>2
  <2>2. config \in 0 .. config /\ 0 \in 0 .. config
    BY <1>0, BoundsAssumption DEF TypeOK
  <2>3. qcred' \in [Requests -> 0 .. config]
    BY <1>0, <2>2 DEF TypeOK, NeedDaemon, RevealCredential, NotStarted
  <2>4. UNCHANGED <<sync, recon, daemons>>
    BY DEF NeedDaemon, RevealCredential, NotStarted
  <2>5. QED
    BY <1>0, <2>1, <2>3, <2>4 DEF TypeOK
<1>2. \A x \in Requests : qpc'[x] = "wait" <=> qpc[x] = "wait"
  BY <1>0 DEF TypeOK, NeedDaemon, RevealCredential, NotStarted
<1>3. UNCHANGED daemons
  BY DEF NeedDaemon, RevealCredential, NotStarted
<1>4. LockInv'
  BY <1>0, <1>2, <1>3 DEF LockInv, LockOf
<1>5. NoOrphanDaemon' /\ PortInv'
  BY <1>3 DEF Inv, NoOrphanDaemon, PortInv, PortsOf
<1>6. QED
  BY <1>1, <1>4, <1>5 DEF Inv

-----------------------------------------------------------------------------
(* Steps that change a daemon. *)

LEMMA CommandFailsKeepsInv ==
    ASSUME Inv, NEW q \in Requests, CommandFails(q)
    PROVE  Inv'
<1> DEFINE r == Home[q]
<1> USE DEF sync, recon, daemons, pool, reqs
<1>0. TypeOK /\ LockInv /\ PortInv /\ NoOrphanDaemon /\ r \in Replicas
  BY HomeAssumption DEF Inv
<1>1. PICK p \in Ports \ used[r] :
         /\ used' = [used EXCEPT ![r] = @ \union {p}]
         /\ leaked' = [leaked EXCEPT ![r] = @ \union {p}]
  BY DEF CommandFails
<1>2. TypeOK'
  <2>1. used' \in [Replicas -> SUBSET Ports] /\ leaked' \in [Replicas -> SUBSET Ports]
    BY <1>0, <1>1 DEF TypeOK
  <2>2. qpc' \in [Requests -> {"idle", "reveal", "start", "wait"}]
    BY <1>0 DEF TypeOK, CommandFails
  <2>3. 0 \in 0 .. config
    BY <1>0, BoundsAssumption DEF TypeOK
  <2>4. qcred' \in [Requests -> 0 .. config]
    BY <1>0, <2>3 DEF TypeOK, CommandFails
  <2>5. UNCHANGED <<sync, recon, entry, gen, proc, env, port, lock>>
    BY DEF CommandFails
  <2>6. QED
    BY <1>0, <2>1, <2>2, <2>4, <2>5 DEF TypeOK
<1>3. NoOrphanDaemon'
  BY <1>0 DEF NoOrphanDaemon, CommandFails
<1>4. LockInv'
  <2>1. \A x \in Requests : qpc'[x] = "wait" <=> qpc[x] = "wait"
    BY <1>0 DEF TypeOK, CommandFails
  <2>2. UNCHANGED <<lock, entry, gen>>
    BY DEF CommandFails
  <2>3. QED
    BY <1>0, <2>1, <2>2 DEF LockInv, LockOf
<1>5. PortInv'
  <2>1. UNCHANGED <<entry, port>> /\ entry[r] = None
    BY DEF CommandFails
  <2>2. ASSUME NEW s \in Replicas, s # r
        PROVE  UNCHANGED <<used[s], leaked[s]>>
    BY <1>0, <1>1, <2>2 DEF TypeOK
  <2>3. used'[r] = used[r] \union {p} /\ leaked'[r] = leaked[r] \union {p}
    BY <1>0, <1>1 DEF TypeOK
  <2>4. ASSUME NEW s \in Replicas
        PROVE  PortsOf(s)'
    <3>1. CASE s = r
      <4>1. leaked[r] \subseteq Ports /\ used[r] = leaked[r]
        BY <1>0, <2>1 DEF PortInv, PortsOf
      <4>2. entry'[r] = None /\ leaked'[r] \subseteq Ports /\ used'[r] = leaked'[r]
        BY <1>1, <2>1, <2>3, <4>1
      <4>3. QED
        BY <3>1, <4>2 DEF PortsOf
    <3>2. CASE s # r
      BY <1>0, <2>1, <2>2, <3>2 DEF PortInv, PortsOf
    <3>3. QED
      BY <3>1, <3>2
  <2>5. QED
    BY <2>4 DEF PortInv
<1>6. QED
  BY <1>2, <1>3, <1>4, <1>5 DEF Inv

LEMMA startDaemonKeepsInv ==
    ASSUME Inv, NEW q \in Requests, startDaemon(q)
    PROVE  Inv'
<1> DEFINE r == Home[q]
<1> DEFINE g == gen[r] + 1
<1> USE DEF sync, recon, daemons, pool, reqs
<1>0. TypeOK /\ LockInv /\ PortInv /\ NoOrphanDaemon /\ r \in Replicas
  BY HomeAssumption DEF Inv
<1>1. PICK p \in Ports \ used[r] :
         /\ port' = [port EXCEPT ![r][g] = p]
         /\ used' = [used EXCEPT ![r] = @ \union {p}]
  BY DEF startDaemon, nextPort
<1>2. /\ qpc[q] = "start" /\ ~ lock[r] /\ entry[r] = None /\ gen[r] < MaxGen
      /\ gen' = [gen EXCEPT ![r] = g]
      /\ entry' = [entry EXCEPT ![r] = g]
      /\ proc' = [proc EXCEPT ![r][g] = "running"]
      /\ env' = [env EXCEPT ![r][g] = qcred[q]]
      /\ lock' = [lock EXCEPT ![r] = TRUE]
      /\ qpc' = [qpc EXCEPT ![q] = "wait"]
      /\ UNCHANGED <<sync, recon, leaked, qcred>>
  BY DEF startDaemon
<1>3. g \in Gens /\ g \in 0 .. MaxGen /\ g \in Nat /\ g # None
  BY <1>0, <1>2, BoundsAssumption DEF TypeOK, Gens, None
<1>4. \A s \in Replicas : s # r =>
         UNCHANGED <<entry[s], gen[s], proc[s], port[s], used[s], lock[s]>>
  BY <1>0, <1>1, <1>2 DEF TypeOK
<1>5. TypeOK'
  <2>1. gen' \in [Replicas -> 0 .. MaxGen]
    BY <1>0, <1>2, <1>3 DEF TypeOK
  <2>3. proc' \in [Replicas -> [Gens -> States]]
    BY <1>0, <1>2, <1>3 DEF TypeOK, States
  <2>4. env' \in [Replicas -> [Gens -> 0 .. config]]
    BY <1>0, <1>2, <1>3 DEF TypeOK
  <2>5. port' \in [Replicas -> [Gens -> Ports \union {NoPort}]]
    BY <1>0, <1>1, <1>3 DEF TypeOK
  <2>6. used' \in [Replicas -> SUBSET Ports]
    BY <1>0, <1>1 DEF TypeOK
  <2>7. lock' \in [Replicas -> BOOLEAN]
    BY <1>0, <1>2 DEF TypeOK
  <2>8. qpc' \in [Requests -> {"idle", "reveal", "start", "wait"}]
    BY <1>0, <1>2 DEF TypeOK
  <2>2. entry' \in [Replicas -> 0 .. MaxGen] /\ \A s \in Replicas : entry'[s] \in 0 .. gen'[s]
    BY <1>0, <1>2, <1>3, <1>4 DEF TypeOK
  <2>9. QED
    BY <1>0, <1>2, <2>1, <2>2, <2>3, <2>4, <2>5, <2>6, <2>7, <2>8 DEF TypeOK
<1>6. entry'[r] = g /\ gen'[r] = g /\ lock'[r]
  BY <1>0, <1>2 DEF TypeOK
<1>7. NoOrphanDaemon'
  <2>1. ASSUME NEW s \in Replicas, NEW h \in Gens, proc'[s][h] = "running"
        PROVE  entry'[s] = h
    <3>1. CASE s # r
      BY <1>0, <1>4, <2>1, <3>1 DEF NoOrphanDaemon
    <3>2. CASE s = r
      <4>1. proc[r][h] # "running"
        BY <1>0, <1>2 DEF NoOrphanDaemon, Gens, None
      <4>2. h = g
        BY <1>0, <1>2, <1>3, <2>1, <3>2, <4>1 DEF TypeOK
      <4>3. QED
        BY <1>6, <3>2, <4>2
    <3>3. QED
      BY <3>1, <3>2
  <2>2. QED
    BY <2>1 DEF NoOrphanDaemon
<1>8. LockInv'
  <2>1. qpc'[q] = "wait" /\ \A x \in Requests : x # q => qpc'[x] = qpc[x]
    BY <1>0, <1>2 DEF TypeOK
  <2>2. \A x \in Requests : Home[x] = r => qpc[x] # "wait"
    BY <1>0, <1>2 DEF LockInv, LockOf
  <2>3. ASSUME NEW s \in Replicas
        PROVE  LockOf(s)'
    <3>1. CASE s = r
      BY <1>6, <2>1, <2>2, <3>1 DEF LockOf
    <3>2. CASE s # r
      BY <1>0, <1>4, <2>1, <3>2 DEF LockInv, LockOf
    <3>3. QED
      BY <3>1, <3>2
  <2>4. QED
    BY <2>3 DEF LockInv
<1>9. PortInv'
  <2>1. ASSUME NEW s \in Replicas
        PROVE  PortsOf(s)'
    <3>1. CASE s = r
      <4>1. port'[r][g] = p /\ used'[r] = used[r] \union {p}
        BY <1>0, <1>1, <1>3 DEF TypeOK
      <4>2. used[r] = leaked[r]
        BY <1>0, <1>2 DEF PortInv, PortsOf
      <4>3. QED
        BY <1>0, <1>1, <1>2, <1>3, <1>6, <3>1, <4>1, <4>2 DEF PortInv, PortsOf
    <3>2. CASE s # r
      BY <1>0, <1>2, <1>4, <3>2 DEF PortInv, PortsOf
    <3>3. QED
      BY <3>1, <3>2
  <2>2. QED
    BY <2>1 DEF PortInv
<1>10. QED
  BY <1>5, <1>7, <1>8, <1>9 DEF Inv

LEMMA StartedKeepsInv ==
    ASSUME Inv, NEW q \in Requests, Started(q)
    PROVE  Inv'
<1> DEFINE r == Home[q]
<1> USE DEF sync, recon, daemons, pool, reqs
<1>0. TypeOK /\ LockInv /\ PortInv /\ NoOrphanDaemon /\ r \in Replicas
  BY HomeAssumption DEF Inv
<1>1. /\ qpc[q] = "wait"
      /\ lock' = [lock EXCEPT ![r] = FALSE]
      /\ qpc' = [qpc EXCEPT ![q] = "idle"]
      /\ qcred' = [qcred EXCEPT ![q] = 0]
      /\ UNCHANGED <<sync, recon, entry, gen, proc, env, pool>>
  BY DEF Started
<1>2. TypeOK'
  <2>1. 0 \in 0 .. config
    BY <1>0, BoundsAssumption DEF TypeOK
  <2>2. qcred' \in [Requests -> 0 .. config]
    BY <1>0, <1>1, <2>1 DEF TypeOK
  <2>3. qpc' \in [Requests -> {"idle", "reveal", "start", "wait"}]
    BY <1>0, <1>1 DEF TypeOK
  <2>4. lock' \in [Replicas -> BOOLEAN]
    BY <1>0, <1>1 DEF TypeOK
  <2>5. QED
    BY <1>0, <1>1, <2>2, <2>3, <2>4 DEF TypeOK
<1>3. LockInv'
  <2>1. qpc'[q] = "idle" /\ \A x \in Requests : x # q => qpc'[x] = qpc[x]
    BY <1>0, <1>1 DEF TypeOK
  <2>2. \A x \in Requests : Home[x] = r /\ qpc[x] = "wait" => x = q
    BY <1>0, <1>1 DEF LockInv, LockOf
  <2>3. ~ lock'[r] /\ \A s \in Replicas : s # r => lock'[s] = lock[s]
    BY <1>0, <1>1 DEF TypeOK
  <2>4. ASSUME NEW s \in Replicas
        PROVE  LockOf(s)'
    <3>1. CASE s = r
      BY <2>1, <2>2, <2>3, <3>1 DEF LockOf
    <3>2. CASE s # r
      BY <1>0, <1>1, <2>1, <2>3, <3>2 DEF LockInv, LockOf
    <3>3. QED
      BY <3>1, <3>2
  <2>5. QED
    BY <2>4 DEF LockInv
<1>4. NoOrphanDaemon' /\ PortInv'
  BY <1>0, <1>1 DEF NoOrphanDaemon, PortInv, PortsOf
<1>5. QED
  BY <1>2, <1>3, <1>4 DEF Inv

\* The registered daemon of r is told to stop, or found to have exited, and
\* forgotten: the case that stopDaemon and CleanUp share.
LEMMA ForgetKeepsPorts ==
    ASSUME TypeOK, PortInv, NEW r \in Replicas, FreePort(r),
           entry' = [entry EXCEPT ![r] = None],
           \A s \in Replicas : s # r => UNCHANGED port[s],
           UNCHANGED leaked
    PROVE  PortInv'
<1>1. ASSUME NEW s \in Replicas
      PROVE  PortsOf(s)'
  <2>1. CASE s = r
    <3>1. used'[r] = used[r] \ EntryPort(r) /\ entry'[r] = None
      BY DEF FreePort, TypeOK
    <3>2. used'[r] = leaked[r]
      BY <3>1, EntryPortIs DEF PortInv, PortsOf
    <3>3. QED
      BY <2>1, <3>1, <3>2 DEF PortInv, PortsOf
  <2>2. CASE s # r
    <3>1. UNCHANGED <<used[s], entry[s], port[s], leaked[s]>>
      BY <2>2 DEF FreePort, TypeOK
    <3>2. QED
      BY <3>1 DEF PortInv, PortsOf
  <2>3. QED
    BY <2>1, <2>2
<1>2. QED
  BY <1>1 DEF PortInv

LEMMA stopDaemonKeepsInv ==
    ASSUME Inv, NEW r \in Replicas, stopDaemon(r)
    PROVE  Inv'
<1> USE DEF sync, recon, daemons, pool, reqs
<1>0. TypeOK /\ LockInv /\ PortInv /\ NoOrphanDaemon
  BY DEF Inv
<1>1. /\ ~ lock[r]
      /\ entry' = [entry EXCEPT ![r] = None]
      /\ FreePort(r)
      /\ rpc' = [rpc EXCEPT ![r] = "record"]
      /\ UNCHANGED <<sync, last, seen, gen, env, port, leaked, lock, reqs>>
  BY DEF stopDaemon
<1>2. entry[r] # None => entry[r] \in Gens
  BY <1>0, EntryPortIs
<1>3. proc' \in [Replicas -> [Gens -> States]]
  <2>1. CASE entry[r] = None
    BY <1>0, <2>1 DEF stopDaemon, TypeOK
  <2>2. CASE entry[r] # None
    <3>1. PICK t \in States : proc' = [proc EXCEPT ![r][entry[r]] = t]
      BY <1>0, <1>2, <2>2 DEF stopDaemon, TypeOK, States
    <3>2. QED
      BY <1>0, <1>2, <2>2, <3>1 DEF TypeOK
  <2>3. QED
    BY <2>1, <2>2
<1>4. TypeOK'
  <2>1. entry' \in [Replicas -> 0 .. MaxGen] /\ \A s \in Replicas : entry'[s] \in 0 .. gen'[s]
    BY <1>0, <1>1, BoundsAssumption DEF TypeOK, None
  <2>2. used' \in [Replicas -> SUBSET Ports]
    BY <1>0, <1>1 DEF TypeOK, FreePort
  <2>3. rpc' \in [Replicas -> {"idle", "stop", "record"}]
    BY <1>0, <1>1 DEF TypeOK
  <2>4. QED
    BY <1>0, <1>1, <1>3, <2>1, <2>2, <2>3 DEF TypeOK
<1>5. NoOrphanDaemon'
  <2>1. ASSUME NEW s \in Replicas, NEW g \in Gens, proc'[s][g] = "running"
        PROVE  s # r /\ entry'[s] = g
    <3>1. CASE s # r
      BY <1>0, <1>1, <1>2, <2>1, <3>1 DEF NoOrphanDaemon, TypeOK, stopDaemon
    <3>2. CASE s = r
      <4>1. CASE entry[r] = None
        BY <1>0, <2>1, <3>2, <4>1 DEF NoOrphanDaemon, stopDaemon, None, Gens
      <4>2. CASE entry[r] # None
        <5>1. proc' = [proc EXCEPT ![r][entry[r]] = IF @ = "running" THEN "stopping" ELSE @]
          BY <4>2 DEF stopDaemon
        <5>2. g # entry[r]
          BY <1>0, <1>2, <2>1, <3>2, <4>2, <5>1 DEF TypeOK
        <5>3. proc[r][g] = "running"
          BY <1>0, <1>2, <2>1, <3>2, <4>2, <5>1, <5>2 DEF TypeOK
        <5>4. QED
          BY <1>0, <5>2, <5>3 DEF NoOrphanDaemon
      <4>3. QED
        BY <4>1, <4>2
    <3>3. QED
      BY <3>1, <3>2
  <2>2. QED
    BY <2>1 DEF NoOrphanDaemon
<1>6. LockInv'
  <2>1. \A s \in Replicas : s # r => entry'[s] = entry[s]
    BY <1>0, <1>1 DEF TypeOK
  <2>2. QED
    BY <1>0, <1>1, <2>1 DEF LockInv, LockOf
<1>7. PortInv'
  BY <1>0, <1>1, ForgetKeepsPorts
<1>8. QED
  BY <1>4, <1>5, <1>6, <1>7 DEF Inv

LEMMA ExitKeepsInv ==
    ASSUME Inv, NEW r \in Replicas, NEW g \in Gens, Exit(r, g)
    PROVE  Inv'
<1> USE DEF sync, recon, daemons, pool, reqs
<1>0. TypeOK /\ LockInv /\ PortInv /\ NoOrphanDaemon
  BY DEF Inv
<1>1. /\ proc' = [proc EXCEPT ![r][g] = "exited"]
      /\ UNCHANGED <<sync, recon, entry, gen, env, pool, lock, reqs>>
  BY DEF Exit
<1>2. TypeOK'
  <2>1. proc' \in [Replicas -> [Gens -> States]]
    BY <1>0, <1>1 DEF TypeOK, States
  <2>2. QED
    BY <1>0, <1>1, <2>1 DEF TypeOK
<1>3. NoOrphanDaemon'
  BY <1>0, <1>1 DEF TypeOK, NoOrphanDaemon
<1>4. LockInv' /\ PortInv'
  BY <1>0, <1>1 DEF LockInv, LockOf, PortInv, PortsOf
<1>5. QED
  BY <1>2, <1>3, <1>4 DEF Inv

LEMMA CleanUpKeepsInv ==
    ASSUME Inv, NEW r \in Replicas, NEW g \in Gens, CleanUp(r, g)
    PROVE  Inv'
<1> USE DEF sync, recon, daemons, pool, reqs
<1>0. TypeOK /\ LockInv /\ PortInv /\ NoOrphanDaemon
  BY DEF Inv
<1>1. /\ proc[r][g] = "exited" /\ ~ lock[r]
      /\ entry' = [entry EXCEPT ![r] = IF @ = g THEN None ELSE @]
      /\ IF entry[r] = g THEN FreePort(r) ELSE UNCHANGED used
      /\ proc' = [proc EXCEPT ![r][g] = "gone"]
      /\ port' = [port EXCEPT ![r][g] = NoPort]
      /\ UNCHANGED <<sync, recon, gen, env, leaked, lock, reqs>>
  BY DEF CleanUp
<1>2. TypeOK'
  <2>1. entry' \in [Replicas -> 0 .. MaxGen] /\ \A s \in Replicas : entry'[s] \in 0 .. gen'[s]
    BY <1>0, <1>1, BoundsAssumption DEF TypeOK, None
  <2>2. used' \in [Replicas -> SUBSET Ports]
    <3>1. CASE entry[r] = g
      <4>1. used' = [used EXCEPT ![r] = @ \ EntryPort(r)]
        BY <1>1, <3>1 DEF FreePort
      <4>2. used \in [Replicas -> SUBSET Ports]
        BY <1>0 DEF TypeOK
      <4>3. QED
        BY <4>1, <4>2
    <3>2. CASE entry[r] # g
      BY <1>0, <1>1, <3>2 DEF TypeOK
    <3>3. QED
      BY <3>1, <3>2
  <2>3. proc' \in [Replicas -> [Gens -> States]]
    BY <1>0, <1>1 DEF TypeOK, States
  <2>4. port' \in [Replicas -> [Gens -> Ports \union {NoPort}]]
    BY <1>0, <1>1 DEF TypeOK
  <2>5. QED
    BY <1>0, <1>1, <2>1, <2>2, <2>3, <2>4 DEF TypeOK
<1>3. \A s \in Replicas : s # r => UNCHANGED <<entry[s], port[s], proc[s]>>
  BY <1>0, <1>1 DEF TypeOK
<1>4. NoOrphanDaemon'
  <2>1. ASSUME NEW s \in Replicas, NEW h \in Gens, proc'[s][h] = "running"
        PROVE  entry'[s] = h
    <3>1. CASE s # r
      BY <1>0, <1>3, <2>1, <3>1 DEF NoOrphanDaemon
    <3>2. CASE s = r
      <4>1. h # g /\ proc[r][h] = "running"
        BY <1>0, <1>1, <2>1, <3>2 DEF TypeOK
      <4>2. QED
        BY <1>0, <1>1, <3>2, <4>1 DEF NoOrphanDaemon, TypeOK
    <3>3. QED
      BY <3>1, <3>2
  <2>2. QED
    BY <2>1 DEF NoOrphanDaemon
<1>5. LockInv'
  BY <1>0, <1>1, <1>3 DEF LockInv, LockOf
<1>6. PortInv'
  <2>1. CASE entry[r] = g
    BY <1>0, <1>1, <1>3, <2>1, ForgetKeepsPorts
  <2>2. CASE entry[r] # g
    <3>1. UNCHANGED <<entry, used, leaked>>
      BY <1>0, <1>1, <2>2 DEF TypeOK
    <3>2. entry[r] # None => port'[r][entry[r]] = port[r][entry[r]]
      BY <1>0, <1>1, <2>2, EntryPortIs DEF TypeOK
    <3>3. QED
      BY <1>0, <1>3, <3>1, <3>2 DEF PortInv, PortsOf
  <2>3. QED
    BY <2>1, <2>2
<1>7. QED
  BY <1>2, <1>4, <1>5, <1>6 DEF Inv

LEMMA RestartKeepsInv ==
    ASSUME Inv, NEW r \in Replicas, Restart(r)
    PROVE  Inv'
<1> USE DEF sync, recon, daemons, pool, reqs
<1>0. TypeOK /\ LockInv /\ PortInv /\ NoOrphanDaemon
  BY DEF Inv
<1>1. /\ last' = [last EXCEPT ![r] = 0]
      /\ rpc' = [rpc EXCEPT ![r] = "idle"]
      /\ seen' = [seen EXCEPT ![r] = 0]
      /\ entry' = [entry EXCEPT ![r] = None]
      /\ proc' = [proc EXCEPT ![r] = [g \in Gens |->
                     IF proc[r][g] = "never" THEN "never" ELSE "gone"]]
      /\ port' = [port EXCEPT ![r] = [g \in Gens |-> NoPort]]
      /\ used' = [used EXCEPT ![r] = {}]
      /\ leaked' = [leaked EXCEPT ![r] = {}]
      /\ lock' = [lock EXCEPT ![r] = FALSE]
      /\ qpc' = [q \in Requests |-> IF Home[q] = r THEN "idle" ELSE qpc[q]]
      /\ qcred' = [q \in Requests |-> IF Home[q] = r THEN 0 ELSE qcred[q]]
      /\ UNCHANGED <<sync, gen, env>>
  BY DEF Restart
<1>2. TypeOK'
  <2>1. /\ last' \in [Replicas -> 0 .. revision]
        /\ seen' \in [Replicas -> 0 .. revision]
    BY <1>0, <1>1, BoundsAssumption DEF TypeOK
  <2>2. rpc' \in [Replicas -> {"idle", "stop", "record"}]
    BY <1>0, <1>1 DEF TypeOK
  <2>3. entry' \in [Replicas -> 0 .. MaxGen] /\ \A s \in Replicas : entry'[s] \in 0 .. gen'[s]
    BY <1>0, <1>1, BoundsAssumption DEF TypeOK, None
  <2>4. proc' \in [Replicas -> [Gens -> States]]
    BY <1>0, <1>1 DEF TypeOK, States
  <2>5. port' \in [Replicas -> [Gens -> Ports \union {NoPort}]]
    BY <1>0, <1>1 DEF TypeOK
  <2>6. used' \in [Replicas -> SUBSET Ports] /\ leaked' \in [Replicas -> SUBSET Ports]
    BY <1>0, <1>1 DEF TypeOK
  <2>7. lock' \in [Replicas -> BOOLEAN]
    BY <1>0, <1>1 DEF TypeOK
  <2>8. qpc' \in [Requests -> {"idle", "reveal", "start", "wait"}]
    BY <1>0, <1>1 DEF TypeOK
  <2>9. qcred' \in [Requests -> 0 .. config]
    BY <1>0, <1>1, BoundsAssumption DEF TypeOK
  <2>10. QED
    BY <1>0, <1>1, <2>1, <2>2, <2>3, <2>4, <2>5, <2>6, <2>7, <2>8, <2>9 DEF TypeOK
<1>3. /\ entry'[r] = None /\ used'[r] = {} /\ leaked'[r] = {} /\ ~ lock'[r]
      /\ \A g \in Gens : proc'[r][g] # "running"
  BY <1>0, <1>1 DEF TypeOK
<1>4. \A s \in Replicas : s # r =>
         UNCHANGED <<entry[s], proc[s], port[s], used[s], leaked[s], lock[s]>>
  BY <1>0, <1>1 DEF TypeOK
<1>5. NoOrphanDaemon'
  BY <1>0, <1>3, <1>4 DEF NoOrphanDaemon
<1>6. LockInv'
  <2>1. ASSUME NEW s \in Replicas
        PROVE  LockOf(s)'
    <3>1. CASE s = r
      <4>1. \A q \in Requests : Home[q] = r => qpc'[q] = "idle"
        BY <1>1
      <4>2. QED
        BY <1>3, <3>1, <4>1 DEF LockOf
    <3>2. CASE s # r
      <4>1. \A q \in Requests : Home[q] = s => qpc'[q] = qpc[q]
        BY <1>1, <3>2
      <4>2. LockOf(s) /\ UNCHANGED <<lock[s], entry[s], gen[s]>>
        BY <1>0, <1>1, <1>4, <3>2 DEF LockInv
      <4>3. QED
        BY <4>1, <4>2 DEF LockOf
    <3>3. QED
      BY <3>1, <3>2
  <2>2. QED
    BY <2>1 DEF LockInv
<1>7. PortInv'
  <2>1. ASSUME NEW s \in Replicas
        PROVE  PortsOf(s)'
    <3>1. CASE s = r
      BY <1>3, <3>1 DEF PortsOf
    <3>2. CASE s # r
      BY <1>0, <1>4, <3>2 DEF PortInv, PortsOf
    <3>3. QED
      BY <3>1, <3>2
  <2>2. QED
    BY <2>1 DEF PortInv
<1>8. QED
  BY <1>2, <1>5, <1>6, <1>7 DEF Inv

-----------------------------------------------------------------------------
LEMMA NextInv ==
    ASSUME Inv, [Next]_vars PROVE Inv'
<1>1. CASE WriteCredential \/ advanceRevision
  BY <1>1, ControllerKeepsInv
<1>2. ASSUME NEW r \in Replicas, Reconcile(r)
      PROVE  Inv'
  BY <1>2, ObserveKeepsInv, stopDaemonKeepsInv DEF Reconcile
<1>3. ASSUME NEW r \in Replicas, Restart(r)
      PROVE  Inv'
  BY <1>3, RestartKeepsInv
<1>4. ASSUME NEW r \in Replicas, NEW g \in Gens, Exit(r, g) \/ CleanUp(r, g)
      PROVE  Inv'
  BY <1>4, ExitKeepsInv, CleanUpKeepsInv
<1>5. ASSUME NEW q \in Requests, Serve(q)
      PROVE  Inv'
  BY <1>5, RequestKeepsInv, CommandFailsKeepsInv, startDaemonKeepsInv, StartedKeepsInv
     DEF Serve
<1>6. CASE UNCHANGED vars
  <2>1. UNCHANGED <<sync, recon, daemons, reqs>>
    BY <1>6 DEF vars
  <2>2. TypeOK'
    BY <2>1 DEF Inv, TypeOK, sync, recon, daemons, pool, reqs
  <2>3. QED
    BY <2>1, <2>2, QuietStep DEF reqs
<1>7. QED
  BY <1>1, <1>2, <1>3, <1>4, <1>5, <1>6 DEF Next

LEMMA SpecInv == Spec => []Inv
<1>1. Init => Inv
  BY InitInv
<1>2. Inv /\ [Next]_vars => Inv'
  BY NextInv
<1>3. QED
  BY <1>1, <1>2, PTL DEF Spec

\* Every variable of the dispatcher and of the revisions keeps its type: no
\* replica is ahead of the stored revision, and a registered generation has
\* been counted.
THEOREM TypeCorrect == Spec => []TypeOK
<1>1. Inv => TypeOK
  BY DEF Inv
<1>2. QED
  BY <1>1, SpecInv, PTL

\* A daemon that runs and was not told to stop is the registered one,
\* whatever the order of launches, stops, exits, late clean-ups and restarts.
THEOREM NoDaemonOrphaned == Spec => []NoOrphanDaemon
<1>1. Inv => NoOrphanDaemon
  BY DEF Inv
<1>2. QED
  BY <1>1, SpecInv, PTL

\* daemonLock is held exactly while one request waits for the daemon it
\* launched, and that daemon stays registered meanwhile.
THEOREM LaunchIsUndisturbed == Spec => []LaunchKeepsEntry
<1>1. ASSUME Inv PROVE LaunchKeepsEntry
  <2>1. ASSUME NEW r \in Replicas
        PROVE  LET W == {q \in Requests : Home[q] = r /\ qpc[q] = "wait"}
               IN  Cardinality(W) = (IF lock[r] THEN 1 ELSE 0)
    <3> DEFINE W == {q \in Requests : Home[q] = r /\ qpc[q] = "wait"}
    <3>0. LockOf(r)
      BY <1>1 DEF Inv, LockInv
    <3>1. CASE lock[r]
      <4>1. PICK q \in Requests : W = {q}
        BY <3>0, <3>1 DEF LockOf
      <4>2. Cardinality({q}) = 1
        BY FS_Singleton
      <4>3. QED
        BY <3>1, <4>1, <4>2
    <3>2. CASE ~ lock[r]
      <4>1. W = {}
        BY <3>0, <3>2 DEF LockOf
      <4>2. QED
        BY <3>2, <4>1, FS_EmptySet
    <3>3. QED
      BY <3>1, <3>2
  <2>2. QED
    BY <1>1, <2>1 DEF LaunchKeepsEntry, Inv, LockInv, LockOf
<1>2. QED
  BY <1>1, SpecInv, PTL

\* A port is taken exactly while the registered daemon has it, except for
\* those that startDaemon leaks when newCommand fails.
THEOREM PortsBalance == Spec => []PortsAccounted
<1>1. ASSUME Inv PROVE PortsAccounted
  <2>1. ASSUME NEW r \in Replicas
        PROVE  /\ used[r] = leaked[r] \union EntryPort(r)
               /\ EntryPort(r) \intersect leaked[r] = {}
    <3>0. TypeOK /\ PortsOf(r)
      BY <1>1 DEF Inv, PortInv
    <3>1. CASE entry[r] = None
      BY <3>0, <3>1, EntryPortIs DEF PortsOf
    <3>2. CASE entry[r] # None
      BY <3>0, <3>2, EntryPortIs DEF PortsOf
    <3>3. QED
      BY <3>1, <3>2
  <2>2. QED
    BY <2>1 DEF PortsAccounted
<1>2. QED
  BY <1>1, SpecInv, PTL
=============================================================================
